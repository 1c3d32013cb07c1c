--------------------------- MODULE AppApi_proofs ----------------------------
(***************************************************************************)
(* What the components behind the API of an app promise, for any number of *)
(* requests, accounts, policies, rows, files and clients, and for their    *)
(* composition in MCApps.                                                  *)
(*                                                                         *)
(* One section per component, each with the argument of its inductive      *)
(* invariant.                                                              *)
(***************************************************************************)
EXTENDS MCApps, FiniteSetTheorems, WellFoundedInduction, TLAPS

-----------------------------------------------------------------------------
(* Sign-in. A sign-in that nothing passed by knows the last reset and the  *)
(* email of its account, or which account has the address of its Google    *)
(* account; whatever changes one of them ends the sessions of the account  *)
(* or marks the sign-ins in flight.                                        *)

\* A sign-in that nothing passed by knows the last reset and the email of its account, or the
\* account that has the address of its Google account.
SignInIsCurrent(r) ==
    LET q == sreq[r] IN
    /\ q.pc = "password" /\ ~q.overtaken => q.reset = resets[q.account] /\ q.email = account[q.account].email
    /\ q.pc = "link" /\ ~q.overtaken => account[q.account].email = MailOf[q.google]
    /\ q.pc \in {"by_email", "link", "insert"} /\ ~q.overtaken =>
         \A a \in Registered : account[a].google = q.google /\ ~account[a].late => account[a].email = MailOf[q.google]

\* A request is of an account that is registered, or signs in by the address of a Google account.
SignInRefers(r) ==
    LET q == sreq[r] IN
    /\ q.pc \in {"password", "link", "write", "reset"} => q.account \in Registered
    /\ q.pc \in {"by_email", "link", "insert"} => q.google \in GoogleIds /\ q.email = MailOf[q.google]
    /\ q.pc = "write" => q.email \in Emails

EmailsAreUnique ==
    /\ \A a \in Registered : account[a].email \in Emails
    /\ \A a, b \in Registered : a # b => account[a].email # account[b].email

\* The inductive invariant.
SesInv ==
    /\ SesTypeOK
    /\ \A r \in SReqs : SignInIsCurrent(r) /\ SignInRefers(r)
    /\ \A s \in LiveSessions : session[s].account \in Registered
    /\ EmailsAreUnique
    /\ SignInsAreSound

-----------------------------------------------------------------------------
\* The idle request is a request.
LEMMA SReqIdleIsTyped == SReqIdle \in SReq /\ SReqIdle.pc = "idle" /\ SReqIdle.reset = 0
<1>1. 1 \in AccountIds /\ 1 \in SessionIds /\ 0 \in 0 .. MaxResets
  BY SessionBounds DEF AccountIds, SessionIds
<1> QED
  BY <1>1 DEF SReqIdle, SReq

\* The rows that were inserted are rows.
LEMMA RegisteredAreTyped == SesTypeOK => \A a \in Registered : a \in AccountIds /\ account[a] \in Account
<1>1. SesTypeOK => Registered \subseteq AccountIds
  BY SessionBounds DEF SesTypeOK, Registered, AccountIds
<1> QED
  BY <1>1 DEF SesTypeOK

\* A request goes on to another record, and the rest stay.
LEMMA SignInBecomes ==
    ASSUME SesTypeOK, NEW r \in SReqs, NEW k \in SReq, sreq' = [sreq EXCEPT ![r] = k]
    PROVE  sreq' \in [SReqs -> SReq] /\ sreq'[r] = k /\ \A q \in SReqs \ {r} : sreq'[q] = sreq[q]
BY DEF SesTypeOK

\* A request ends.
LEMMA SignInCloses ==
    ASSUME SesTypeOK, NEW r \in SReqs, Close(r)
    PROVE  sreq' \in [SReqs -> SReq] /\ sreq'[r].pc = "idle" /\ \A q \in SReqs \ {r} : sreq'[q] = sreq[q]
BY SReqIdleIsTyped, SignInBecomes DEF Close

\* The sign-ins in flight are marked as passed by, and keep everything else.
LEMMA SignInsAreOvertaken ==
    ASSUME SesTypeOK, NEW base \in [SReqs -> SReq], sreq' = Overtake(base)
    PROVE  /\ sreq' \in [SReqs -> SReq]
           /\ \A q \in SReqs : /\ sreq'[q].pc = base[q].pc /\ sreq'[q].account = base[q].account
                               /\ sreq'[q].google = base[q].google /\ sreq'[q].email = base[q].email
                               /\ q \in SignIns => sreq'[q].overtaken
                               /\ q \notin SignIns => sreq'[q] = base[q]
<1>1. ASSUME NEW q \in SReqs
      PROVE  /\ sreq'[q] \in SReq
             /\ sreq'[q].pc = base[q].pc /\ sreq'[q].account = base[q].account
             /\ sreq'[q].google = base[q].google /\ sreq'[q].email = base[q].email
             /\ q \in SignIns => sreq'[q].overtaken
             /\ q \notin SignIns => sreq'[q] = base[q]
  <2> DEFINE k == [base[q] EXCEPT !.overtaken = TRUE]
  <2>1. /\ k \in SReq /\ k.pc = base[q].pc /\ k.account = base[q].account
        /\ k.google = base[q].google /\ k.email = base[q].email /\ k.overtaken
    BY DEF SReq
  <2>2. (q \in SignIns /\ sreq'[q] = k) \/ (q \notin SignIns /\ sreq'[q] = base[q])
    BY DEF Overtake
  <2> HIDE DEF k
  <2> QED
    BY <2>1, <2>2
<1> QED
  BY <1>1 DEF Overtake

\* What the invariant says of one session that lives.
LEMMA LiveMatches ==
    ASSUME SesInv, NEW s \in LiveSessions
    PROVE  /\ s \in SessionIds /\ session[s].account \in Registered
           /\ session[s].late \/ session[s].reset = resets[session[s].account]
           /\ \/ session[s].email = account[session[s].account].email
              \/ session[s].late
              \/ session[s].account \in unreset
              \/ \E r \in SReqs : InState(r, "reset") /\ sreq[r].account = session[s].account
BY DEF SesInv, SignInsAreSound, SessionsAreCurrent, SessionMatchesEmail, LiveSessions

\* A step that changes neither an account nor a reset: sessions stay, end, or are of a sign-in
\* that is current or was overtaken.
LEMMA SignInQuiet ==
    ASSUME SesInv, NEW r \in SReqs, UNCHANGED <<account, accounts, resets>>,
           sreq' \in [SReqs -> SReq], \A q \in SReqs \ {r} : sreq'[q] = sreq[q],
           SignInIsCurrent(r)', SignInRefers(r)',
           InState(r, "reset") => sreq[r].account \in unreset',
           unreset \subseteq unreset', unreset' \subseteq AccountIds,
           session' \in [SessionIds -> Session], sessions' \in 0 .. MaxSessions,
           \A s \in SessionIds : session'[s].live =>
             \/ /\ session[s].live /\ session'[s].account = session[s].account /\ session'[s].reset = session[s].reset
                /\ session'[s].email = session[s].email /\ session'[s].late = session[s].late
             \/ /\ session'[s].account \in Registered
                /\ \/ session'[s].late
                   \/ /\ session'[s].reset = resets[session'[s].account]
                      /\ session'[s].email = account[session'[s].account].email
    PROVE  SesInv'
<1>1. SesTypeOK'
  BY DEF SesInv, SesTypeOK
<1>2. Registered' = Registered
  BY DEF Registered
<1>3. ASSUME NEW q \in SReqs PROVE SignInIsCurrent(q)' /\ SignInRefers(q)'
  <2>1. CASE q = r
    BY <2>1
  <2>2. CASE q # r
    BY <1>2, <2>2 DEF SesInv, SignInIsCurrent, SignInRefers
  <2> QED
    BY <2>1, <2>2
<1>4. ASSUME NEW s \in LiveSessions'
      PROVE  /\ session'[s].account \in Registered
             /\ session'[s].late \/ session'[s].reset = resets[session'[s].account]
             /\ \/ session'[s].email = account[session'[s].account].email
                \/ session'[s].late
                \/ session'[s].account \in unreset'
                \/ \E q \in SReqs : InState(q, "reset")' /\ sreq'[q].account = session'[s].account
  <2>1. s \in SessionIds /\ session'[s].live
    BY DEF LiveSessions
  <2>2. CASE /\ session[s].live /\ session'[s].account = session[s].account /\ session'[s].reset = session[s].reset
             /\ session'[s].email = session[s].email /\ session'[s].late = session[s].late
    <3>1. s \in LiveSessions
      BY <2>1, <2>2 DEF LiveSessions
    <3>2. ASSUME NEW q \in SReqs, InState(q, "reset"), sreq[q].account = session[s].account
          PROVE  session[s].account \in unreset' \/ (InState(q, "reset")' /\ sreq'[q].account = session[s].account)
      BY <3>2 DEF InState
    <3> QED
      BY <2>2, <3>1, <3>2, LiveMatches
  <2> QED
    BY <2>1, <2>2
<1>5. (\A s \in LiveSessions : session[s].account \in Registered)' /\ SessionsAreCurrent' /\ SessionMatchesEmail'
  BY <1>2, <1>4 DEF SessionsAreCurrent, SessionMatchesEmail
<1>6. EmailsAreUnique' /\ OneAccountPerGoogle'
  BY <1>2 DEF SesInv, EmailsAreUnique, SignInsAreSound, OneAccountPerGoogle
<1> QED
  BY <1>1, <1>3, <1>5, <1>6 DEF SesInv, SignInsAreSound

\* An account is inserted, with an address that no other one has.
LEMMA AccountJoins ==
    ASSUME SesInv, NEW e \in Emails, NEW g \in GoogleIds \cup {Nil}, NEW late \in BOOLEAN,
           NewAccount(e, g, late), ByEmail(e) = {}, UNCHANGED <<session, sessions, resets, unreset>>,
           sreq' \in [SReqs -> SReq], \A q \in SReqs : sreq'[q] = sreq[q] \/ (sreq'[q].pc = "idle" /\ ~InState(q, "reset")),
           g # Nil => e = MailOf[g],
           \A a \in Registered : g # Nil /\ ~late /\ account[a].google = g /\ ~account[a].late => account[a].email = e
    PROVE  SesInv'
<1> USE SessionBounds
<1> DEFINE n == accounts + 1
           row == [NoAccount EXCEPT !.email = e, !.google = g, !.late = late]
<1>0. SesTypeOK /\ Nil \notin Emails \cup GoogleIds /\ EmailsAreUnique /\ OneAccountPerGoogle
  BY NilIsNone DEF SesInv, SignInsAreSound
<1>1. row \in Account /\ row.email = e /\ row.google = g /\ row.late = late
  BY DEF NoAccount, Account
<1>2. accounts' = n /\ account' = [account EXCEPT ![n] = row] /\ n \in AccountIds /\ accounts' \in 0 .. MaxAccounts
  BY <1>0 DEF NewAccount, SesTypeOK, AccountIds
<1> HIDE DEF row
<1>3. Registered' = Registered \cup {n} /\ n \notin Registered
  BY <1>0, <1>2 DEF Registered, SesTypeOK
<1>4. account' \in [AccountIds -> Account] /\ account'[n] = row /\ \A a \in Registered : account'[a] = account[a]
  BY <1>0, <1>1, <1>2, <1>3, RegisteredAreTyped DEF SesTypeOK
<1> HIDE DEF n
<1>5. SesTypeOK'
  BY <1>0, <1>2, <1>4 DEF SesTypeOK
<1>6. \A a \in Registered : account[a].email # e
  BY DEF ByEmail
<1>7. ASSUME NEW q \in SReqs PROVE SignInIsCurrent(q)' /\ SignInRefers(q)'
  <2>1. CASE sreq'[q].pc = "idle"
    BY <2>1 DEF SignInIsCurrent, SignInRefers
  <2>2. CASE sreq'[q] = sreq[q]
    <3>1. SignInIsCurrent(q) /\ SignInRefers(q)
      BY DEF SesInv
    <3>2. SignInRefers(q)'
      BY <1>3, <2>2, <3>1 DEF SignInRefers
    <3>3. SignInIsCurrent(q)'
      BY <1>0, <1>1, <1>3, <1>4, <2>2, <3>1 DEF SignInIsCurrent, SignInRefers
    <3> QED
      BY <3>2, <3>3
  <2> QED
    BY <2>1, <2>2
<1>8. EmailsAreUnique'
  BY <1>0, <1>1, <1>3, <1>4, <1>6 DEF EmailsAreUnique
<1>9. OneAccountPerGoogle'
  BY <1>0, <1>1, <1>3, <1>4, <1>6 DEF OneAccountPerGoogle
<1>10. ASSUME NEW s \in LiveSessions'
      PROVE  /\ session'[s].account \in Registered'
             /\ session'[s].late \/ session'[s].reset = resets'[session'[s].account]
             /\ \/ session'[s].email = account'[session'[s].account].email
                \/ session'[s].late
                \/ session'[s].account \in unreset'
                \/ \E q \in SReqs : InState(q, "reset")' /\ sreq'[q].account = session'[s].account
  <2>1. s \in LiveSessions
    BY DEF LiveSessions
  <2>2. \A q \in SReqs : InState(q, "reset") => InState(q, "reset")' /\ sreq'[q] = sreq[q]
    BY DEF InState
  <2> QED
    BY <1>3, <1>4, <2>1, <2>2, LiveMatches
<1> QED
  BY <1>5, <1>7, <1>8, <1>9, <1>10 DEF SesInv, SignInsAreSound, SessionsAreCurrent, SessionMatchesEmail

\* The sessions of an account end, and the sign-ins in flight are passed by.
LEMMA SessionsEnd ==
    ASSUME SesInv, NEW a \in AccountIds, EndSessions(a), UNCHANGED <<account, accounts, sessions>>,
           NEW base \in [SReqs -> SReq], sreq' = Overtake(base),
           \A q \in SReqs : base[q] = sreq[q] \/ (base[q].pc = "idle" /\ (InState(q, "reset") => sreq[q].account = a))
    PROVE  SesInv'
<1> USE SessionBounds
<1>0. SesTypeOK /\ EmailsAreUnique /\ OneAccountPerGoogle /\ Registered' = Registered
  BY DEF SesInv, SignInsAreSound, Registered
<1>1. /\ resets' = [resets EXCEPT ![a] = @ + 1] /\ resets[a] < MaxResets
      /\ session' = [s \in SessionIds |-> IF session[s].account = a THEN NoSession ELSE session[s]]
      /\ unreset' = unreset \ {a}
  BY DEF EndSessions
<1>2. NoSession \in Session /\ ~NoSession.live
  BY DEF NoSession, Session, AccountIds
<1>3. /\ resets' \in [AccountIds -> 0 .. MaxResets] /\ \A b \in AccountIds \ {a} : resets'[b] = resets[b]
      /\ session' \in [SessionIds -> Session]
      /\ \A s \in SessionIds : session'[s].live => session'[s] = session[s] /\ session[s].account # a
  BY <1>0, <1>1, <1>2 DEF SesTypeOK
<1>4. /\ sreq' \in [SReqs -> SReq]
      /\ \A q \in SReqs : /\ sreq'[q].pc = base[q].pc /\ sreq'[q].account = base[q].account
                          /\ sreq'[q].google = base[q].google /\ sreq'[q].email = base[q].email
                          /\ q \in SignIns => sreq'[q].overtaken
                          /\ q \notin SignIns => sreq'[q] = base[q]
  BY <1>0, SignInsAreOvertaken
<1>5. SesTypeOK'
  BY <1>0, <1>1, <1>3, <1>4 DEF SesTypeOK
<1>6. ASSUME NEW q \in SReqs PROVE SignInIsCurrent(q)' /\ SignInRefers(q)'
  <2>1. CASE base[q].pc = "idle"
    BY <1>4, <2>1 DEF SignInIsCurrent, SignInRefers
  <2>2. CASE base[q] = sreq[q] /\ base[q].pc # "idle"
    <3>1. SignInRefers(q)'
      BY <1>0, <1>4, <2>2 DEF SesInv, SignInRefers
    <3>2. SignInIsCurrent(q)'
      BY <1>4, <2>2 DEF SignInIsCurrent, SignIns
    <3> QED
      BY <3>1, <3>2
  <2> QED
    BY <2>1, <2>2
<1>7. ASSUME NEW s \in LiveSessions'
      PROVE  /\ session'[s].account \in Registered
             /\ session'[s].late \/ session'[s].reset = resets'[session'[s].account]
             /\ \/ session'[s].email = account[session'[s].account].email
                \/ session'[s].late
                \/ session'[s].account \in unreset'
                \/ \E q \in SReqs : InState(q, "reset")' /\ sreq'[q].account = session'[s].account
  <2>1. s \in LiveSessions /\ session'[s] = session[s] /\ session[s].account # a
    BY <1>3 DEF LiveSessions
  <2>2. session[s].account \in AccountIds
    BY <1>0, <2>1, LiveMatches, RegisteredAreTyped
  <2>3. \A q \in SReqs : InState(q, "reset") /\ sreq[q].account # a => InState(q, "reset")' /\ sreq'[q].account = sreq[q].account
    BY <1>4 DEF InState, SignIns
  <2>4. /\ session[s].account \in Registered
        /\ session[s].late \/ session[s].reset = resets'[session[s].account]
    BY <1>3, <2>1, <2>2, LiveMatches
  <2>5. \/ session[s].email = account[session[s].account].email
        \/ session[s].late
        \/ session[s].account \in unreset'
        \/ \E q \in SReqs : InState(q, "reset")' /\ sreq'[q].account = session[s].account
    BY <1>1, <2>1, <2>3, LiveMatches
  <2> QED
    BY <2>1, <2>4, <2>5
<1>8. SessionsAreCurrent' /\ SessionMatchesEmail' /\ \A s \in LiveSessions' : session'[s].account \in Registered'
  BY <1>0, <1>7 DEF SessionsAreCurrent, SessionMatchesEmail
<1>9. EmailsAreUnique' /\ OneAccountPerGoogle'
  BY <1>0 DEF EmailsAreUnique, OneAccountPerGoogle
<1> QED
  BY <1>5, <1>6, <1>8, <1>9 DEF SesInv, SignInsAreSound

\* An account changes in place; either its address stays, or every sign-in is passed by.
LEMMA AccountChanges ==
    ASSUME SesInv, NEW a \in Registered, NEW row \in Account, account' = [account EXCEPT ![a] = row],
           UNCHANGED <<accounts, session, sessions, resets>>, unreset \subseteq unreset', unreset' \subseteq AccountIds,
           row.email \in Emails, account[a].late => row.late,
           sreq' \in [SReqs -> SReq], \A q \in SReqs : SignInRefers(q)',
           \A q \in SReqs : InState(q, "reset") => InState(q, "reset")' /\ sreq'[q].account = sreq[q].account,
           \/ /\ row.email = account[a].email
              /\ \A q \in SReqs : sreq'[q] = sreq[q] \/ sreq'[q].pc = "idle"
           \/ /\ \A b \in Registered \ {a} : account[b].email # row.email
              /\ row.google = account[a].google
              /\ \A q \in SReqs : q \in SignIns => sreq'[q].overtaken
              /\ \A q \in SReqs : q \notin SignIns => sreq'[q].pc \notin {"password", "by_email", "link", "insert"}
              /\ row.email = account[a].email \/ a \in unreset'
                 \/ \E q \in SReqs : InState(q, "reset")' /\ sreq'[q].account = a,
           \/ row.google = account[a].google
           \/ row.google \in GoogleIds /\ (row.late \/
                /\ row.email = MailOf[row.google]
                /\ \A b \in Registered : account[b].google = row.google /\ ~account[b].late => account[b].email = row.email)
    PROVE  SesInv'
<1>0. SesTypeOK /\ EmailsAreUnique /\ OneAccountPerGoogle /\ Registered' = Registered
  BY DEF SesInv, SignInsAreSound, Registered
<1>1. /\ account' \in [AccountIds -> Account] /\ account'[a] = row
      /\ \A b \in Registered \ {a} : account'[b] = account[b]
  BY <1>0, RegisteredAreTyped DEF SesTypeOK
<1>2. SesTypeOK'
  BY <1>0, <1>1 DEF SesTypeOK
<1>3. ASSUME NEW q \in SReqs PROVE SignInIsCurrent(q)'
  <2>1. SignInIsCurrent(q) /\ SignInRefers(q)
    BY DEF SesInv
  <2>2. CASE sreq'[q].pc \notin {"password", "by_email", "link", "insert"} \/ sreq'[q].overtaken
    BY <2>2 DEF SignInIsCurrent
  <2>3. CASE sreq'[q] = sreq[q] /\ row.email = account[a].email
    <3>1. sreq[q].pc = "password" /\ ~sreq[q].overtaken
             => sreq[q].reset = resets[sreq[q].account] /\ sreq[q].email = account'[sreq[q].account].email
      BY <1>1, <2>1, <2>3 DEF SignInIsCurrent, SignInRefers
    <3>2. sreq[q].pc = "link" /\ ~sreq[q].overtaken => account'[sreq[q].account].email = MailOf[sreq[q].google]
      BY <1>1, <2>1, <2>3 DEF SignInIsCurrent, SignInRefers
    <3>3. ASSUME sreq[q].pc \in {"by_email", "link", "insert"}, ~sreq[q].overtaken, NEW b \in Registered,
                 account'[b].google = sreq[q].google, ~account'[b].late
          PROVE  account'[b].email = MailOf[sreq[q].google]
      <4>1. CASE b # a \/ row.google = account[a].google
        BY <1>1, <2>1, <2>3, <3>3, <4>1 DEF SignInIsCurrent
      <4>2. CASE b = a /\ row.google # account[a].google
        BY <1>1, <3>3, <4>2
      <4> QED
        BY <4>1, <4>2
    <3> QED
      BY <1>0, <2>3, <3>1, <3>2, <3>3 DEF SignInIsCurrent
  <2> QED
    BY <2>2, <2>3
<1>4. EmailsAreUnique'
  BY <1>0, <1>1 DEF EmailsAreUnique
<1>5. OneAccountPerGoogle'
  <2>1. ASSUME NEW b \in Registered, b # a, account[b].google = row.google, row.google # Nil
        PROVE  account[b].late \/ row.late
    <3>1. CASE row.google = account[a].google
      BY <1>0, <2>1, <3>1 DEF OneAccountPerGoogle
    <3>2. CASE row.google # account[a].google
      <4>1. row.email = account[a].email \/ row.late
        BY <3>2
      <4>2. account[b].email # account[a].email
        BY <1>0, <2>1 DEF EmailsAreUnique
      <4> QED
        BY <2>1, <3>2, <4>1, <4>2
    <3> QED
      BY <3>1, <3>2
  <2> QED
    BY <1>0, <1>1, <2>1 DEF OneAccountPerGoogle
<1>6. ASSUME NEW s \in LiveSessions'
      PROVE  /\ session'[s].account \in Registered
             /\ session'[s].late \/ session'[s].reset = resets'[session'[s].account]
             /\ \/ session'[s].email = account'[session'[s].account].email
                \/ session'[s].late
                \/ session'[s].account \in unreset'
                \/ \E q \in SReqs : InState(q, "reset")' /\ sreq'[q].account = session'[s].account
  <2>1. s \in LiveSessions /\ session' = session
    BY DEF LiveSessions
  <2> QED
    BY <1>1, <2>1, LiveMatches
<1>7. SessionsAreCurrent' /\ SessionMatchesEmail' /\ \A s \in LiveSessions' : session'[s].account \in Registered'
  BY <1>0, <1>6 DEF SessionsAreCurrent, SessionMatchesEmail
<1> QED
  BY <1>2, <1>3, <1>4, <1>5, <1>7 DEF SesInv, SignInsAreSound

\* Nothing that changes nothing breaks the invariant.
LEMMA SesStutters == SesInv /\ UNCHANGED sesVars => SesInv'
<1> SUFFICES ASSUME SesInv, UNCHANGED sesVars PROVE SesInv'
  OBVIOUS
<1>1. SesTypeOK' /\ EmailsAreUnique' /\ OneAccountPerGoogle' /\ \A r \in SReqs : SignInIsCurrent(r)' /\ SignInRefers(r)'
  BY DEF sesVars, sesDb, SesInv, SesTypeOK, EmailsAreUnique, SignInsAreSound, OneAccountPerGoogle, SignInIsCurrent, SignInRefers,
         Registered
<1>2. SessionsAreCurrent' /\ SessionMatchesEmail' /\ \A s \in LiveSessions' : session'[s].account \in Registered'
  BY DEF sesVars, sesDb, SesInv, SignInsAreSound, SessionsAreCurrent, SessionMatchesEmail, LiveSessions, Registered, InState
<1> QED
  BY <1>1, <1>2 DEF SesInv, SignInsAreSound

\* Every step of a request, and every operation of the dashboard, keeps the invariant.
LEMMA SesStepInv == SesInv /\ [SesNext]_sesVars => SesInv'
<1> SUFFICES ASSUME SesInv, [SesNext]_sesVars PROVE SesInv'
  OBVIOUS
<1> USE SessionBounds
<1>0. /\ SesTypeOK /\ EmailsAreUnique /\ unreset \subseteq AccountIds /\ sreq \in [SReqs -> SReq]
      /\ \A r \in SReqs : SignInIsCurrent(r) /\ SignInRefers(r) /\ sreq[r] \in SReq
      /\ \A a \in Registered : a \in AccountIds /\ account[a] \in Account
      /\ resets \in [AccountIds -> 0 .. MaxResets]
      /\ session \in [SessionIds -> Session] /\ sessions \in 0 .. MaxSessions
      /\ Nil \notin Emails \cup GoogleIds /\ \A g \in GoogleIds : MailOf[g] \in Emails
  BY RegisteredAreTyped, NilIsNone, MailsAreEmails DEF SesInv, SesTypeOK
<1>1. ASSUME NEW r \in SReqs, NEW k \in SReq, sreq' = [sreq EXCEPT ![r] = k], ~InState(r, "reset"),
             UNCHANGED <<sesDb, resets, unreset>>,
             k.pc \in {"password", "link", "write", "reset"} => k.account \in Registered,
             k.pc \in {"by_email", "link", "insert"} => k.google \in GoogleIds /\ k.email = MailOf[k.google],
             k.pc = "write" => k.email \in Emails,
             k.pc = "password" /\ ~k.overtaken => k.reset = resets[k.account] /\ k.email = account[k.account].email,
             k.pc = "link" /\ ~k.overtaken => account[k.account].email = MailOf[k.google],
             k.pc \in {"by_email", "link", "insert"} /\ ~k.overtaken =>
               \A a \in Registered : account[a].google = k.google /\ ~account[a].late => account[a].email = MailOf[k.google]
      PROVE  SesInv'
  <2>1. sreq' \in [SReqs -> SReq] /\ sreq'[r] = k /\ \A q \in SReqs \ {r} : sreq'[q] = sreq[q]
    BY <1>0, <1>1, SignInBecomes
  <2>2. UNCHANGED <<account, accounts, session, sessions, resets, unreset>>
    BY <1>1 DEF sesDb
  <2>3. SignInIsCurrent(r)' /\ SignInRefers(r)'
    BY <1>1, <2>1, <2>2 DEF SignInIsCurrent, SignInRefers, Registered
  <2> QED
    BY <1>0, <1>1, <2>1, <2>2, <2>3, SignInQuiet
<1>2. ASSUME NEW r \in SReqs, NEW a \in AccountIds, BeginLogin(r, a) PROVE SesInv'
  <2> DEFINE k == [SReqIdle EXCEPT !.pc = "password", !.account = a, !.email = account[a].email, !.reset = resets[a]]
  <2>1. a \in Registered /\ account[a] \in Account /\ resets[a] \in 0 .. MaxResets
    BY <1>0, <1>2 DEF BeginLogin
  <2>2. k \in SReq /\ k.pc = "password" /\ k.account = a /\ k.email = account[a].email /\ k.reset = resets[a]
    BY <2>1, SReqIdleIsTyped DEF SReq, Account
  <2>3. sreq' = [sreq EXCEPT ![r] = k] /\ ~InState(r, "reset") /\ UNCHANGED <<sesDb, resets, unreset>>
    BY <1>2 DEF BeginLogin, Open, InState
  <2> HIDE DEF k
  <2> QED
    BY <1>1, <2>1, <2>2, <2>3
<1>3. ASSUME NEW r \in SReqs, NEW s \in SessionIds, BeginRefresh(r, s) PROVE SesInv'
  <2> DEFINE k == [SReqIdle EXCEPT !.pc = "rotate", !.session = s]
  <2>1. k \in SReq /\ k.pc = "rotate"
    BY SReqIdleIsTyped DEF SReq
  <2>2. sreq' = [sreq EXCEPT ![r] = k] /\ ~InState(r, "reset") /\ UNCHANGED <<sesDb, resets, unreset>>
    BY <1>3 DEF BeginRefresh, Open, InState
  <2> HIDE DEF k
  <2> QED
    BY <1>1, <2>1, <2>2
<1>4. ASSUME NEW r \in SReqs, NEW a \in AccountIds, NEW e \in Emails, BeginUpdate(r, a, e) PROVE SesInv'
  <2> DEFINE k == [SReqIdle EXCEPT !.pc = "write", !.account = a, !.email = e, !.changed = account[a].email # e]
  <2>1. k \in SReq /\ k.pc = "write" /\ k.account = a /\ k.email = e
    BY SReqIdleIsTyped DEF SReq
  <2>2. sreq' = [sreq EXCEPT ![r] = k] /\ ~InState(r, "reset") /\ UNCHANGED <<sesDb, resets, unreset>> /\ a \in Registered
    BY <1>4 DEF BeginUpdate, Open, InState
  <2> HIDE DEF k
  <2> QED
    BY <1>1, <2>1, <2>2
<1>5. ASSUME NEW r \in SReqs, NEW g \in GoogleIds, GoogleCallback(r, g) PROVE SesInv'
  <2>1. CASE UNCHANGED sreq
    <3>1. UNCHANGED sesVars
      BY <1>5, <2>1 DEF GoogleCallback, SignInWith, sesVars
    <3> QED
      BY <3>1, SesStutters
  <2>2. CASE ByGoogle(g) = {} /\ Open(r, [SReqIdle EXCEPT !.pc = "by_email", !.google = g, !.email = MailOf[g]])
    <3> DEFINE k == [SReqIdle EXCEPT !.pc = "by_email", !.google = g, !.email = MailOf[g]]
    <3>1. k \in SReq /\ k.pc = "by_email" /\ k.google = g /\ k.email = MailOf[g]
      BY <1>0, SReqIdleIsTyped DEF SReq
    <3>2. sreq' = [sreq EXCEPT ![r] = k] /\ ~InState(r, "reset") /\ UNCHANGED <<sesDb, resets, unreset>>
      BY <1>5, <2>2 DEF GoogleCallback, SignInWith, Open, InState
    <3>3. \A a \in Registered : account[a].google # g
      BY <2>2 DEF ByGoogle
    <3> HIDE DEF k
    <3> QED
      BY <1>1, <3>1, <3>2, <3>3
  <2> QED
    BY <1>5, <2>1, <2>2 DEF GoogleCallback, SignInWith
<1>6. ASSUME NEW r \in SReqs, FindByEmail(r) PROVE SesInv'
  <2>1. InState(r, "by_email") /\ ~InState(r, "reset") /\ UNCHANGED <<sesDb, resets, unreset>>
    BY <1>6 DEF FindByEmail, InState
  <2>2. PICK k \in SReq :
          /\ sreq' = [sreq EXCEPT ![r] = k]
          /\ k.google = sreq[r].google /\ k.email = sreq[r].email /\ k.overtaken = sreq[r].overtaken
          /\ k.pc = "insert" \/ (k.pc = "link" /\ k.account \in Registered /\ account[k.account].email = sreq[r].email)
    <3>1. CASE ByEmail(sreq[r].email) = {}
      <4> DEFINE k == [sreq[r] EXCEPT !.pc = "insert"]
      <4>1. k \in SReq /\ k.pc = "insert" /\ k.google = sreq[r].google /\ k.email = sreq[r].email /\ k.overtaken = sreq[r].overtaken
        BY <1>0 DEF SReq
      <4>2. sreq' = [sreq EXCEPT ![r] = k]
        BY <1>0, <1>6, <3>1 DEF FindByEmail
      <4> HIDE DEF k
      <4> QED
        BY <4>1, <4>2
    <3>2. CASE ByEmail(sreq[r].email) # {}
      <4>1. PICK a \in ByEmail(sreq[r].email) : a = CHOOSE b \in ByEmail(sreq[r].email) : TRUE
        BY <3>2
      <4>2. a \in Registered /\ account[a].email = sreq[r].email /\ a \in AccountIds
        BY <1>0, <4>1 DEF ByEmail
      <4> DEFINE k == [sreq[r] EXCEPT !.pc = "link", !.account = a]
      <4>3. /\ k \in SReq /\ k.pc = "link" /\ k.account = a
            /\ k.google = sreq[r].google /\ k.email = sreq[r].email /\ k.overtaken = sreq[r].overtaken
        BY <1>0, <4>2 DEF SReq
      <4>4. sreq' = [sreq EXCEPT ![r] = k]
        BY <1>0, <1>6, <3>2, <4>1 DEF FindByEmail
      <4> HIDE DEF k
      <4> QED
        BY <4>2, <4>3, <4>4
    <3> QED
      BY <3>1, <3>2
  <2>3. SignInIsCurrent(r) /\ SignInRefers(r)
    BY <1>0
  <2> QED
    BY <1>1, <2>1, <2>2, <2>3 DEF SignInIsCurrent, SignInRefers, InState
<1>7. ASSUME NEW r \in SReqs, FailSignIn(r) PROVE SesInv'
  <2>1. /\ Close(r) /\ UNCHANGED <<account, accounts, session, sessions, resets>>
        /\ unreset' = IF InState(r, "reset") THEN unreset \cup {sreq[r].account} ELSE unreset
    BY <1>7 DEF FailSignIn, sesDb
  <2>2. sreq' \in [SReqs -> SReq] /\ sreq'[r].pc = "idle" /\ \A q \in SReqs \ {r} : sreq'[q] = sreq[q]
    BY <1>0, <2>1, SignInCloses
  <2>3. SignInIsCurrent(r)' /\ SignInRefers(r)'
    BY <2>2 DEF SignInIsCurrent, SignInRefers
  <2>4. unreset \subseteq unreset' /\ unreset' \subseteq AccountIds /\ (InState(r, "reset") => sreq[r].account \in unreset')
    BY <1>0, <2>1 DEF SReq
  <2> QED
    BY <1>0, <2>1, <2>2, <2>3, <2>4, SignInQuiet
<1>8. ASSUME NEW r \in SReqs, InsertSession(r) PROVE SesInv'
  <2> DEFINE n == sessions + 1
             q == sreq[r]
             new == [live |-> TRUE, account |-> q.account, token |-> 1, reset |-> q.reset, email |-> q.email, late |-> q.overtaken]
  <2>1. /\ Close(r) /\ UNCHANGED <<account, accounts, resets, unreset>> /\ InState(r, "password")
        /\ sessions < MaxSessions /\ sessions' = n /\ session' = [session EXCEPT ![n] = new]
    BY <1>8 DEF InsertSession
  <2>2. sreq' \in [SReqs -> SReq] /\ sreq'[r].pc = "idle" /\ \A p \in SReqs \ {r} : sreq'[p] = sreq[p]
    BY <1>0, <2>1, SignInCloses
  <2>3. SignInIsCurrent(r)' /\ SignInRefers(r)'
    BY <2>2 DEF SignInIsCurrent, SignInRefers
  <2>4. new \in Session /\ n \in SessionIds /\ sessions' \in 0 .. MaxSessions
    <3>1. 1 \in 1 .. MaxRotations
      OBVIOUS
    <3>2. n \in SessionIds /\ sessions' \in 0 .. MaxSessions
      BY <1>0, <2>1 DEF SessionIds
    <3>3. new \in Session
      BY <1>0, <3>1 DEF Session, SReq
    <3> QED
      BY <3>2, <3>3
  <2>5. q.account \in Registered /\ (q.overtaken \/ (q.reset = resets[q.account] /\ q.email = account[q.account].email))
    BY <1>0, <2>1 DEF SignInIsCurrent, SignInRefers, InState
  <2>6. /\ new.account = q.account /\ new.reset = q.reset /\ new.email = q.email /\ new.late = q.overtaken
    OBVIOUS
  <2> HIDE DEF new, q, n
  <2>7. session' \in [SessionIds -> Session] /\ session'[n] = new /\ \A s \in SessionIds \ {n} : session'[s] = session[s]
    BY <1>0, <2>1, <2>4
  <2>8. ~InState(r, "reset")
    BY <2>1 DEF InState
  <2> QED
    BY <1>0, <2>1, <2>2, <2>3, <2>4, <2>5, <2>6, <2>7, <2>8, SignInQuiet
<1>9. ASSUME NEW r \in SReqs, RotateSession(r) PROVE SesInv'
  <2>1. PICK s \in SessionIds : s = sreq[r].session
    BY <1>0 DEF SReq
  <2>2. /\ Close(r) /\ UNCHANGED <<account, accounts, sessions, resets, unreset>> /\ InState(r, "rotate")
        /\ session' = [session EXCEPT ![s].live = session[s].live,
                        ![s].token = IF session[s].live /\ @ < MaxRotations THEN @ + 1 ELSE @]
    BY <1>9, <2>1 DEF RotateSession, Rotate
  <2>3. sreq' \in [SReqs -> SReq] /\ sreq'[r].pc = "idle" /\ \A p \in SReqs \ {r} : sreq'[p] = sreq[p]
    BY <1>0, <2>2, SignInCloses
  <2>4. SignInIsCurrent(r)' /\ SignInRefers(r)'
    BY <2>3 DEF SignInIsCurrent, SignInRefers
  <2> DEFINE t == IF session[s].live /\ session[s].token < MaxRotations THEN session[s].token + 1 ELSE session[s].token
             new == [session[s] EXCEPT !.live = session[s].live, !.token = t]
  <2>5. session[s] \in Session /\ t \in 1 .. MaxRotations
    BY <1>0 DEF Session
  <2>6. session' = [session EXCEPT ![s] = new]
    BY <1>0, <2>2
  <2> HIDE DEF t
  <2>7. /\ new \in Session /\ new.live = session[s].live /\ new.account = session[s].account /\ new.reset = session[s].reset
        /\ new.email = session[s].email /\ new.late = session[s].late
    BY <2>5 DEF Session
  <2> HIDE DEF new
  <2>8. session' \in [SessionIds -> Session] /\ session'[s] = new /\ \A u \in SessionIds \ {s} : session'[u] = session[u]
    BY <1>0, <2>6, <2>7
  <2>9. ~InState(r, "reset")
    BY <2>2 DEF InState
  <2> QED
    BY <1>0, <2>2, <2>3, <2>4, <2>7, <2>8, <2>9, SignInQuiet
<1>10. ASSUME NEW e \in Emails, Register(e) PROVE SesInv'
  <2>1. /\ ByEmail(e) = {} /\ NewAccount(e, Nil, FALSE) /\ UNCHANGED <<session, sessions, resets, unreset>>
        /\ sreq' \in [SReqs -> SReq] /\ \A q \in SReqs : sreq'[q] = sreq[q]
    BY <1>0, <1>10 DEF Register
  <2> QED
    BY <2>1, AccountJoins
<1>11. ASSUME NEW r \in SReqs, InsertGoogleUser(r) PROVE SesInv'
  <2> DEFINE e == sreq[r].email
             g == sreq[r].google
             late == sreq[r].overtaken
  <2>1. InState(r, "insert") /\ Close(r) /\ UNCHANGED <<session, sessions, resets, unreset>> /\ ~InState(r, "reset")
    BY <1>11 DEF InsertGoogleUser, InsertEndUser, InState
  <2>2. sreq' \in [SReqs -> SReq] /\ sreq'[r].pc = "idle" /\ \A p \in SReqs \ {r} : sreq'[p] = sreq[p]
    BY <1>0, <2>1, SignInCloses
  <2>3. /\ g \in GoogleIds /\ e = MailOf[g] /\ e \in Emails /\ late \in BOOLEAN
        /\ \A a \in Registered : ~late /\ account[a].google = g /\ ~account[a].late => account[a].email = e
    <3>1. SignInIsCurrent(r) /\ SignInRefers(r) /\ sreq[r] \in SReq
      BY <1>0
    <3>2. g \in GoogleIds /\ e = MailOf[g] /\ e \in Emails /\ late \in BOOLEAN
      BY <1>0, <2>1, <3>1 DEF SignInRefers, InState, SReq
    <3> QED
      BY <2>1, <3>1, <3>2 DEF SignInIsCurrent, InState
  <2>4. CASE ByEmail(e) = {} /\ accounts < MaxAccounts
    <3>1. NewAccount(e, g, late)
      BY <1>11, <2>4 DEF InsertGoogleUser, InsertEndUser
    <3>2. \A q \in SReqs : sreq'[q] = sreq[q] \/ (sreq'[q].pc = "idle" /\ ~InState(q, "reset"))
      BY <2>1, <2>2
    <3> HIDE DEF e, g, late
    <3> QED
      BY <2>1, <2>2, <2>3, <2>4, <3>1, <3>2, AccountJoins
  <2>5. CASE ~(ByEmail(e) = {} /\ accounts < MaxAccounts)
    <3>1. UNCHANGED <<account, accounts>>
      BY <1>11, <2>5 DEF InsertGoogleUser, InsertEndUser
    <3>2. SignInIsCurrent(r)' /\ SignInRefers(r)'
      BY <2>2 DEF SignInIsCurrent, SignInRefers
    <3> QED
      BY <1>0, <2>1, <2>2, <3>1, <3>2, SignInQuiet
  <2> QED
    BY <2>4, <2>5
<1>12. ASSUME NEW r \in SReqs, LinkGoogle(r) PROVE SesInv'
  <2>1. /\ InState(r, "link") /\ Close(r) /\ UNCHANGED <<accounts, session, sessions, resets, unreset>> /\ ~InState(r, "reset")
        /\ account' = [account EXCEPT ![sreq[r].account].google = sreq[r].google,
                                      ![sreq[r].account].late = @ \/ sreq[r].overtaken]
    BY <1>12 DEF LinkGoogle, InState
  <2>2. sreq' \in [SReqs -> SReq] /\ sreq'[r].pc = "idle" /\ \A p \in SReqs \ {r} : sreq'[p] = sreq[p]
    BY <1>0, <2>1, SignInCloses
  <2>3. SignInIsCurrent(r) /\ SignInRefers(r) /\ sreq[r].overtaken \in BOOLEAN
    BY <1>0 DEF SReq
  <2>4. PICK a \in Registered : a = sreq[r].account
    BY <2>1, <2>3 DEF SignInRefers, InState
  <2>5. a \in AccountIds /\ account[a] \in Account
    BY <1>0
  <2> DEFINE over == account[a].late \/ sreq[r].overtaken
             row == [account[a] EXCEPT !.google = sreq[r].google, !.late = over]
  <2>6. over \in BOOLEAN
    BY <2>3, <2>5 DEF Account
  <2>7. account' = [account EXCEPT ![a] = row]
    BY <1>0, <2>1, <2>4, <2>5 DEF SesInv, SesTypeOK
  <2>8. sreq[r].google \in GoogleIds
    BY <2>1, <2>3 DEF SignInRefers, InState
  <2> HIDE DEF over
  <2>9. row \in Account /\ row.email = account[a].email /\ row.google = sreq[r].google /\ row.late = over
    BY <2>5, <2>6, <2>8 DEF Account
  <2> HIDE DEF row
  <2>10. \/ row.late
         \/ /\ row.email = MailOf[row.google]
            /\ \A b \in Registered : account[b].google = row.google /\ ~account[b].late => account[b].email = row.email
    <3>1. CASE sreq[r].overtaken
      BY <2>9, <3>1 DEF over
    <3>2. CASE ~sreq[r].overtaken
      BY <2>1, <2>3, <2>4, <2>9, <3>2 DEF SignInIsCurrent, InState
    <3> QED
      BY <3>1, <3>2
  <2>11. \A q \in SReqs : sreq'[q] = sreq[q] \/ sreq'[q].pc = "idle"
    BY <2>2
  <2>12. \A q \in SReqs : InState(q, "reset") => InState(q, "reset")' /\ sreq'[q].account = sreq[q].account
    BY <2>1, <2>2 DEF InState
  <2>13. \A q \in SReqs : SignInRefers(q)'
    <3>1. Registered' = Registered
      BY <2>1 DEF Registered
    <3> QED
      BY <1>0, <2>11, <3>1 DEF SignInRefers
  <2>14. row.email \in Emails /\ (account[a].late => row.late)
    BY <1>0, <2>9 DEF over, EmailsAreUnique
  <2> QED
    BY <1>0, <2>1, <2>2, <2>7, <2>8, <2>9, <2>10, <2>11, <2>12, <2>13, <2>14, AccountChanges
<1>13. ASSUME NEW a \in AccountIds, NEW on \in BOOLEAN, SetActive(a, on) PROVE SesInv'
  <2>1. /\ a \in Registered /\ account' = [account EXCEPT ![a].active = on]
        /\ UNCHANGED <<accounts, session, sessions, sreq, resets, unreset>>
    BY <1>13 DEF SetActive
  <2> DEFINE row == [account[a] EXCEPT !.active = on]
  <2>2. account' = [account EXCEPT ![a] = row]
    BY <1>0, <2>1 DEF SesInv, SesTypeOK
  <2>3. row \in Account /\ row.email = account[a].email /\ row.google = account[a].google /\ row.late = account[a].late
    BY <1>0, <2>1 DEF Account
  <2> HIDE DEF row
  <2>4. \A q \in SReqs : sreq'[q] = sreq[q] /\ SignInRefers(q)' /\ (InState(q, "reset") => InState(q, "reset")' /\ sreq'[q].account = sreq[q].account)
    BY <1>0, <2>1 DEF SignInRefers, InState, Registered
  <2>5. row.email \in Emails
    BY <1>0, <2>1, <2>3 DEF EmailsAreUnique
  <2> QED
    BY <1>0, <2>1, <2>2, <2>3, <2>4, <2>5, AccountChanges
<1>14. ASSUME NEW r \in SReqs, UpdateAppUser(r) PROVE SesInv'
  <2>0. InState(r, "write") /\ ~InState(r, "reset") /\ UNCHANGED <<accounts, session, sessions, resets>>
    BY <1>14 DEF UpdateAppUser, InState
  <2>1. PICK a \in Registered : a = sreq[r].account
    BY <1>0, <2>0 DEF SignInRefers, InState
  <2>2. PICK e \in Emails : e = sreq[r].email
    BY <1>0, <2>0 DEF SignInRefers, InState
  <2>3. CASE ByEmail(e) \subseteq {a}
    <3> DEFINE row == [account[a] EXCEPT !.email = e]
               closed == IF sreq[r].changed THEN [sreq[r] EXCEPT !.pc = "reset"] ELSE SReqIdle
               base == [sreq EXCEPT ![r] = closed]
    <3>1. /\ account' = [account EXCEPT ![a].email = e]
          /\ unreset' = IF account[a].email # e /\ ~sreq[r].changed THEN unreset \cup {a} ELSE unreset
          /\ sreq' = Overtake(base)
      BY <1>14, <2>1, <2>2, <2>3 DEF UpdateAppUser
    <3>2. account' = [account EXCEPT ![a] = row]
      BY <1>0, <2>1, <3>1 DEF SesInv, SesTypeOK
    <3>3. row \in Account /\ row.email = e /\ row.google = account[a].google /\ row.late = account[a].late
      BY <1>0 DEF Account
    <3>4. /\ closed \in SReq /\ closed.pc \in {"reset", "idle"}
          /\ sreq[r].changed => closed.pc = "reset" /\ closed.account = a
          /\ closed.pc = "reset" => closed.account = a
      BY <1>0, <2>1, SReqIdleIsTyped DEF SReq
    <3>5. /\ unreset \subseteq unreset' /\ unreset' \subseteq AccountIds
          /\ account[a].email # e => sreq[r].changed \/ a \in unreset'
      BY <1>0, <3>1
    <3> HIDE DEF row, closed
    <3>6. base \in [SReqs -> SReq] /\ base[r] = closed /\ \A q \in SReqs \ {r} : base[q] = sreq[q]
      BY <1>0, <3>4
    <3> HIDE DEF base
    <3>7. /\ sreq' \in [SReqs -> SReq]
          /\ \A q \in SReqs : /\ sreq'[q].pc = base[q].pc /\ sreq'[q].account = base[q].account
                              /\ sreq'[q].google = base[q].google /\ sreq'[q].email = base[q].email
                              /\ q \in SignIns => sreq'[q].overtaken
                              /\ q \notin SignIns => sreq'[q] = base[q]
      BY <1>0, <3>1, <3>6, SignInsAreOvertaken DEF SesInv
    <3>8. /\ sreq'[r].pc = closed.pc /\ sreq'[r].account = closed.account
          /\ \A q \in SReqs \ {r} : /\ sreq'[q].pc = sreq[q].pc /\ sreq'[q].account = sreq[q].account
                                    /\ sreq'[q].google = sreq[q].google /\ sreq'[q].email = sreq[q].email
      BY <3>6, <3>7
    <3>9. \A q \in SReqs : SignInRefers(q)'
      <4>1. Registered' = Registered
        BY <2>0 DEF Registered
      <4> QED
        BY <1>0, <3>4, <3>8, <4>1 DEF SignInRefers
    <3>10. \A q \in SReqs : InState(q, "reset") => InState(q, "reset")' /\ sreq'[q].account = sreq[q].account
      BY <2>0, <3>8 DEF InState
    <3>11. \A q \in SReqs : q \notin SignIns => sreq'[q].pc \notin {"password", "by_email", "link", "insert"}
      BY <3>4, <3>8 DEF SignIns
    <3>12. row.email = account[a].email \/ a \in unreset' \/ \E q \in SReqs : InState(q, "reset")' /\ sreq'[q].account = a
      BY <3>3, <3>4, <3>5, <3>8 DEF InState
    <3>13. \A b \in Registered \ {a} : account[b].email # row.email
      BY <2>3, <3>3 DEF ByEmail
    <3> QED
      BY <1>0, <2>0, <3>2, <3>3, <3>5, <3>7, <3>9, <3>10, <3>11, <3>12, <3>13, AccountChanges
  <2>4. CASE ~(ByEmail(e) \subseteq {a})
    <3>1. Close(r) /\ UNCHANGED <<account, unreset>>
      BY <1>14, <2>1, <2>2, <2>4 DEF UpdateAppUser
    <3>2. sreq' \in [SReqs -> SReq] /\ sreq'[r].pc = "idle" /\ \A p \in SReqs \ {r} : sreq'[p] = sreq[p]
      BY <1>0, <3>1, SignInCloses
    <3>3. SignInIsCurrent(r)' /\ SignInRefers(r)'
      BY <3>2 DEF SignInIsCurrent, SignInRefers
    <3> QED
      BY <1>0, <2>0, <3>1, <3>2, <3>3, SignInQuiet
  <2> QED
    BY <2>3, <2>4
<1>15. ASSUME NEW a \in AccountIds, Logout(a) PROVE SesInv'
  <2>1. EndSessions(a) /\ sreq' = Overtake(sreq) /\ UNCHANGED <<account, accounts, sessions>>
    BY <1>15 DEF Logout
  <2> QED
    BY <1>0, <2>1, SessionsEnd
<1>16. ASSUME NEW r \in SReqs, ResetAfterChange(r) PROVE SesInv'
  <2>1. PICK a \in AccountIds : a = sreq[r].account
    BY <1>0 DEF SReq
  <2>2. PICK base \in [SReqs -> SReq] : base = [sreq EXCEPT ![r] = SReqIdle]
    BY <1>0, SReqIdleIsTyped
  <2>3. EndSessions(a) /\ sreq' = Overtake(base) /\ UNCHANGED <<account, accounts, sessions>>
    BY <1>16, <2>1, <2>2 DEF ResetAfterChange
  <2>4. \A q \in SReqs : base[q] = sreq[q] \/ (base[q].pc = "idle" /\ (InState(q, "reset") => sreq[q].account = a))
    BY <1>0, <2>1, <2>2, SReqIdleIsTyped
  <2> QED
    BY <1>0, <2>3, <2>4, SessionsEnd
<1>17. CASE UNCHANGED sesVars
  BY <1>17, SesStutters
<1> QED
  BY <1>2, <1>3, <1>4, <1>5, <1>6, <1>7, <1>8, <1>9, <1>10, <1>11, <1>12, <1>13, <1>14, <1>15, <1>16, <1>17
     DEF SesNext, SesStep

\* The invariant holds where nobody is registered.
LEMMA SesStart == SesInit => SesInv
<1> SUFFICES ASSUME SesInit PROVE SesInv
  OBVIOUS
<1> USE SessionBounds
<1>1. NoAccount \in Account /\ NoSession \in Session /\ ~NoSession.live /\ 0 \in 0 .. MaxResets
  BY DEF NoAccount, Account, NoSession, Session, AccountIds
<1>2. SesTypeOK /\ Registered = {}
  BY <1>1, SReqIdleIsTyped DEF SesInit, SesTypeOK, Registered
<1>3. LiveSessions = {}
  BY <1>1 DEF SesInit, LiveSessions
<1>4. \A r \in SReqs : SignInIsCurrent(r) /\ SignInRefers(r)
  BY SReqIdleIsTyped DEF SesInit, SignInIsCurrent, SignInRefers
<1> QED
  BY <1>2, <1>3, <1>4
     DEF SesInv, EmailsAreUnique, SignInsAreSound, SessionsAreCurrent, SessionMatchesEmail, OneAccountPerGoogle

\* Sessions that live are of a sign-in after the last reset of their account and have its email,
\* but for the overlaps the code leaves open; a Google account opens one account.
THEOREM SignInsSound == SesSpec => []SignInsAreSound
<1>1. SesInit => SesInv
  BY SesStart
<1>2. SesInv /\ [SesNext]_sesVars => SesInv'
  BY SesStepInv
<1>3. SesInv => SignInsAreSound
  BY DEF SesInv
<1> QED
  BY <1>1, <1>2, <1>3, PTL DEF SesSpec

-----------------------------------------------------------------------------
(* Row policies. Until an update reaches the wrong table, catalog and      *)
(* PostgreSQL have the same policies of every table, written together; a   *)
(* count of the users of a role misses only those that came behind it, and *)
(* they are marked.                                                        *)

\* What a request is about to write is a policy of a table.
WritesAPolicy(q) == q.pc \in {"create", "update"} => q.table \in PolTables /\ q.def \in Def

\* The types, with those of what requests write.
PolTyped == PolTypeOK /\ \A r \in PolReqs : WritesAPolicy(polReq[r])

\* A role that a request drops is not in use as far as the request has counted, or somebody
\* took it, or added it, behind the count.
CountsHold(r) ==
    PolAt(r, "roles") =>
        \A role \in roleList \ polReq[r].roles :
            \/ role \in polReq[r].raced
            \/ \A kind \in {"users", "policies"} :
                  <<role, kind>> \in polReq[r].todo \/ ~InUse(<<role, kind>>)

\* No two policies of a table have one name.
NamesAreUnique ==
    \A c, d \in catalog : c.table = d.table /\ c.def.name = d.def.name => c = d

\* Catalog and PostgreSQL agree on a table: what the catalog has is there, and nothing else.
Agree(t) ==
    /\ \A c \in catalog : c.table = t => native[t][c.def.name] = c.def.role
    /\ \A n \in PolNames : native[t][n] # Nothing => \E c \in catalog : c.table = t /\ c.def.name = n

\* The inductive invariant of the catalog.
CatalogInv ==
    /\ NamesAreUnique
    /\ \A t \in PolTables : ~Exists(t) => native[t] = NoPolicies
    /\ \A t \in PolTables \ misled : Agree(t) /\ (native[t] # NoPolicies => secured[t] = "on")

-----------------------------------------------------------------------------
(* Types.                                                                  *)

\* The fields of a request.
LEMMA PolReqFields ==
    ASSUME NEW q \in PolReq
    PROVE  /\ q.pc \in {"idle", "create", "update", "delete", "roles"}
           /\ q.table \in PolTables \cup {Nothing} /\ q.id \in 0 .. MaxPolicies /\ q.def \in Def \cup {NoDef}
           /\ q.roles \subseteq Roles /\ q.todo \subseteq Counts /\ q.raced \subseteq Roles
BY DEF PolReq

\* The idle request is a request.
LEMMA IdleIsTyped == PolIdle \in PolReq /\ PolIdle.pc = "idle"
BY PolicyBounds DEF PolIdle, PolReq, Def, NoDef, Counts

\* A record in which more was raced, or less is left to count, is one still.
LEMMA RacedIsTyped ==
    ASSUME NEW q \in PolReq, NEW more \in SUBSET Roles
    PROVE  LET k == [q EXCEPT !.raced = @ \cup more] IN
           /\ k \in PolReq
           /\ k.pc = q.pc /\ k.table = q.table /\ k.def = q.def
           /\ k.roles = q.roles /\ k.todo = q.todo /\ k.raced = q.raced \cup more
BY DEF PolReq

\* A record with less left to count is one still.
LEMMA CountedIsTyped ==
    ASSUME NEW q \in PolReq, NEW c
    PROVE  LET k == [q EXCEPT !.todo = @ \ {c}] IN
           /\ k \in PolReq
           /\ k.pc = q.pc /\ k.table = q.table /\ k.def = q.def
           /\ k.roles = q.roles /\ k.todo = q.todo \ {c} /\ k.raced = q.raced
BY DEF PolReq

\* Behind a count that has passed, a use is known as a race.
LEMMA PassedIsTyped ==
    ASSUME PolTyped, NEW role \in Roles, NEW kind \in {"users", "policies"}
    PROVE  LET p == Passed(<<role, kind>>) IN
           /\ p \in [PolReqs -> PolReq]
           /\ \A r \in PolReqs :
                 /\ p[r].pc = polReq[r].pc /\ p[r].table = polReq[r].table /\ p[r].def = polReq[r].def
                 /\ p[r].roles = polReq[r].roles /\ p[r].todo = polReq[r].todo
                 /\ polReq[r].raced \subseteq p[r].raced
                 /\ PolAt(r, "roles") /\ <<role, kind>> \notin polReq[r].todo => role \in p[r].raced
<1>1. \A r \in PolReqs : polReq[r] \in PolReq
  BY DEF PolTyped, PolTypeOK
<1>2. <<role, kind>>[1] = role
  OBVIOUS
<1>3. \A r \in PolReqs :
        LET k == [polReq[r] EXCEPT !.raced = @ \cup {role}] IN
        /\ k \in PolReq
        /\ k.pc = polReq[r].pc /\ k.table = polReq[r].table /\ k.def = polReq[r].def
        /\ k.roles = polReq[r].roles /\ k.todo = polReq[r].todo /\ k.raced = polReq[r].raced \cup {role}
  <2> TAKE r \in PolReqs
  <2>1. polReq[r] \in PolReq /\ {role} \in SUBSET Roles
    BY <1>1
  <2> QED
    BY <2>1, RacedIsTyped
<1> QED
  BY <1>1, <1>2, <1>3 DEF Passed

\* One request's record changes to k.
LEMMA PolBecomes ==
    ASSUME PolTyped, NEW r \in PolReqs, NEW k \in PolReq, WritesAPolicy(k), polReq' = [polReq EXCEPT ![r] = k]
    PROVE  /\ polReq' \in [PolReqs -> PolReq]
           /\ polReq'[r] = k
           /\ \A s \in PolReqs \ {r} : polReq'[s] = polReq[s]
           /\ \A s \in PolReqs : WritesAPolicy(polReq'[s])
BY DEF PolTyped, PolTypeOK

\* A use of a role begins, and request r is over.
LEMMA PolPassedEnds ==
    ASSUME PolTyped, NEW r \in PolReqs, NEW role \in Roles, NEW kind \in {"users", "policies"},
           polReq' = [Passed(<<role, kind>>) EXCEPT ![r] = PolIdle]
    PROVE  /\ polReq' \in [PolReqs -> PolReq]
           /\ polReq'[r].pc = "idle"
           /\ \A s \in PolReqs \ {r} : polReq'[s] = Passed(<<role, kind>>)[s]
           /\ \A s \in PolReqs : WritesAPolicy(polReq'[s])
<1>1. /\ Passed(<<role, kind>>) \in [PolReqs -> PolReq]
      /\ \A s \in PolReqs : /\ Passed(<<role, kind>>)[s].pc = polReq[s].pc
                             /\ Passed(<<role, kind>>)[s].table = polReq[s].table
                             /\ Passed(<<role, kind>>)[s].def = polReq[s].def
  BY PassedIsTyped
<1>2. \A s \in PolReqs : WritesAPolicy(polReq[s])
  BY DEF PolTyped
<1> QED
  BY <1>1, <1>2, IdleIsTyped DEF WritesAPolicy

\* What a change of the role list begins with.
LEMMA RolesIsTyped ==
    ASSUME NEW new \in SUBSET Roles, NEW todo \in SUBSET Counts
    PROVE  LET k == [PolIdle EXCEPT !.pc = "roles", !.roles = new, !.todo = todo] IN
           k \in PolReq /\ k.pc = "roles" /\ k.roles = new /\ k.todo = todo
BY IdleIsTyped DEF PolReq

\* Every step keeps the types.
LEMMA PolTypedStep == PolTyped /\ [PolNext]_polVars => PolTyped'
<1> SUFFICES ASSUME PolTyped, [PolNext]_polVars PROVE PolTyped'
  OBVIOUS
<1>0. PolTypeOK /\ \A r \in PolReqs : polReq[r] \in PolReq /\ WritesAPolicy(polReq[r])
  BY DEF PolTyped, PolTypeOK
<1> USE PolicyBounds
<1>1. ASSUME NEW t \in PolTables, CreateTable(t) \/ EnsureRowLevelSecurity(t) \/ DeleteAppTable(t) PROVE PolTyped'
  <2>1. secured' \in [PolTables -> {"gone", "off", "on"}] /\ polReq' = polReq
    BY <1>0, <1>1 DEF PolTypeOK, CreateTable, EnsureRowLevelSecurity, DeleteAppTable
  <2>2. native' \in [PolTables -> [PolNames -> Roles \cup {Nothing}]]
    BY <1>0, <1>1 DEF PolTypeOK, CreateTable, EnsureRowLevelSecurity, DeleteAppTable, NoPolicies
  <2>3. catalog' \subseteq CatalogRow /\ misled' \subseteq PolTables /\ UNCHANGED <<policyIds, roleList, held>>
    BY <1>0, <1>1 DEF PolTypeOK, CreateTable, EnsureRowLevelSecurity, DeleteAppTable
  <2> QED
    BY <1>0, <2>1, <2>2, <2>3 DEF PolTyped, PolTypeOK, WritesAPolicy
<1>2. ASSUME NEW b \in Roles, SetRole(b) PROVE PolTyped'
  <2>1. polReq' \in [PolReqs -> PolReq] /\ \A s \in PolReqs : WritesAPolicy(polReq'[s])
    <3>1. CASE b \in held
      BY <1>0, <1>2, <3>1 DEF SetRole, PolTypeOK
    <3>2. CASE b \notin held
      BY <1>0, <1>2, <3>2, PassedIsTyped DEF SetRole, WritesAPolicy
    <3> QED
      BY <3>1, <3>2
  <2> QED
    BY <1>0, <1>2, <2>1 DEF SetRole, PolTyped, PolTypeOK
<1>3. ASSUME NEW r \in PolReqs, NEW k \in PolReq, WritesAPolicy(k), polReq' = [polReq EXCEPT ![r] = k],
             UNCHANGED <<secured, native, catalog, policyIds, roleList, held, misled>>
      PROVE  PolTyped'
  BY <1>0, <1>3, PolBecomes DEF PolTyped, PolTypeOK
<1>4. ASSUME NEW r \in PolReqs, CreateTablePolicyForUser(r) PROVE PolTyped'
  <2>1. PICK t \in PolTables, d \in Def : OpenPolicyRequest(r, [PolIdle EXCEPT !.pc = "create", !.table = t, !.def = d])
    BY <1>4 DEF CreateTablePolicyForUser
  <2>2. LET k == [PolIdle EXCEPT !.pc = "create", !.table = t, !.def = d] IN k \in PolReq /\ WritesAPolicy(k)
    BY IdleIsTyped DEF PolReq, WritesAPolicy
  <2> QED
    BY <1>3, <2>1, <2>2 DEF OpenPolicyRequest
<1>5. ASSUME NEW r \in PolReqs, BeginUpdatePolicy(r) PROVE PolTyped'
  <2>1. PICK t \in PolTables, d \in Def, c \in catalog :
          OpenPolicyRequest(r, [PolIdle EXCEPT !.pc = "update", !.table = t, !.def = d, !.id = c.id])
    BY <1>5 DEF BeginUpdatePolicy
  <2>2. c.id \in 0 .. MaxPolicies
    BY <1>0 DEF PolTypeOK, CatalogRow
  <2>3. LET k == [PolIdle EXCEPT !.pc = "update", !.table = t, !.def = d, !.id = c.id] IN k \in PolReq /\ WritesAPolicy(k)
    BY <2>2, IdleIsTyped DEF PolReq, WritesAPolicy
  <2> QED
    BY <1>3, <2>1, <2>3 DEF OpenPolicyRequest
<1>6. ASSUME NEW r \in PolReqs, BeginDeletePolicy(r) PROVE PolTyped'
  <2>1. PICK t \in PolTables, c \in catalog :
          OpenPolicyRequest(r, [PolIdle EXCEPT !.pc = "delete", !.table = t, !.id = c.id])
    BY <1>6 DEF BeginDeletePolicy
  <2>2. c.id \in 0 .. MaxPolicies
    BY <1>0 DEF PolTypeOK, CatalogRow
  <2>3. LET k == [PolIdle EXCEPT !.pc = "delete", !.table = t, !.id = c.id] IN k \in PolReq /\ WritesAPolicy(k)
    BY <2>2, IdleIsTyped DEF PolReq, WritesAPolicy
  <2> QED
    BY <1>3, <2>1, <2>3 DEF OpenPolicyRequest
<1>7. ASSUME NEW r \in PolReqs, CreateTablePolicy(r) PROVE PolTyped'
  <2>1. polReq[r].table \in PolTables /\ polReq[r].def \in Def /\ polReq[r].def.name \in PolNames /\ polReq[r].def.role \in Roles
    BY <1>0, <1>7 DEF CreateTablePolicy, PolAt, WritesAPolicy, Def
  <2>2. polReq' \in [PolReqs -> PolReq] /\ \A s \in PolReqs : WritesAPolicy(polReq'[s])
    BY <1>7, <2>1, PolPassedEnds DEF CreateTablePolicy
  <2>3. policyIds' \in 0 .. MaxPolicies /\ catalog' \subseteq CatalogRow
    BY <1>0, <1>7, <2>1 DEF CreateTablePolicy, PolTypeOK, CatalogRow
  <2>4. native' \in [PolTables -> [PolNames -> Roles \cup {Nothing}]]
    BY <1>0, <1>7, <2>1 DEF CreateTablePolicy, PolTypeOK
  <2>5. secured' \in [PolTables -> {"gone", "off", "on"}] /\ UNCHANGED <<roleList, held, misled>>
    BY <1>0, <1>7, <2>1 DEF CreateTablePolicy, PolTypeOK
  <2> QED
    BY <1>0, <2>2, <2>3, <2>4, <2>5 DEF PolTyped, PolTypeOK
<1>8. ASSUME NEW r \in PolReqs, UpdateTablePolicy(r) PROVE PolTyped'
  <2>1. polReq[r].table \in PolTables /\ polReq[r].def \in Def /\ polReq[r].def.name \in PolNames /\ polReq[r].def.role \in Roles
    BY <1>0, <1>8 DEF UpdateTablePolicy, ReplacePolicy, PolAt, WritesAPolicy, Def
  <2>2. polReq' \in [PolReqs -> PolReq] /\ \A s \in PolReqs : WritesAPolicy(polReq'[s])
    BY <1>8, <2>1, PolPassedEnds DEF UpdateTablePolicy, ReplacePolicy
  <2>3. PICK c \in catalog :
          /\ native' = [native EXCEPT ![polReq[r].table] =
                          [[native[polReq[r].table] EXCEPT ![c.def.name] = Nothing] EXCEPT ![polReq[r].def.name] = polReq[r].def.role]]
          /\ catalog' = (catalog \ {c}) \cup {[c EXCEPT !.def = polReq[r].def]}
          /\ misled' = IF c.table = polReq[r].table THEN misled ELSE misled \cup {c.table, polReq[r].table}
    BY <1>8 DEF UpdateTablePolicy, ReplacePolicy
  <2>4. c \in CatalogRow /\ c.table \in PolTables /\ [c EXCEPT !.def = polReq[r].def] \in CatalogRow
    BY <1>0, <2>1 DEF PolTypeOK, CatalogRow
  <2>5. native' \in [PolTables -> [PolNames -> Roles \cup {Nothing}]]
    BY <1>0, <2>1, <2>3 DEF PolTypeOK
  <2>6. catalog' \subseteq CatalogRow /\ misled' \subseteq PolTables
    BY <1>0, <2>1, <2>3, <2>4 DEF PolTypeOK
  <2>7. UNCHANGED <<secured, policyIds, roleList, held>>
    BY <1>8 DEF UpdateTablePolicy, ReplacePolicy
  <2> QED
    BY <1>0, <2>2, <2>5, <2>6, <2>7 DEF PolTyped, PolTypeOK
<1>9. ASSUME NEW r \in PolReqs, DeleteTablePolicy(r) PROVE PolTyped'
  <2>1. polReq' \in [PolReqs -> PolReq] /\ \A s \in PolReqs : WritesAPolicy(polReq'[s])
    BY <1>9, IdleIsTyped, PolBecomes DEF DeleteTablePolicy, WritesAPolicy
  <2>2. native' \in [PolTables -> [PolNames -> Roles \cup {Nothing}]] /\ catalog' \subseteq CatalogRow
    BY <1>0, <1>9 DEF PolTypeOK, DeleteTablePolicy, CatalogRow, Def
  <2> QED
    BY <1>0, <1>9, <2>1, <2>2 DEF DeleteTablePolicy, PolTyped, PolTypeOK
<1>10. ASSUME NEW r \in PolReqs, BeginUpdateRoles(r) PROVE PolTyped'
  <2>1. PICK new \in SUBSET Roles :
          polReq' = [polReq EXCEPT ![r] = [PolIdle EXCEPT !.pc = "roles", !.roles = new,
                                           !.todo = (roleList \ new) \X {"users", "policies"}]]
    BY <1>10 DEF BeginUpdateRoles, OpenRoles
  <2>2. (roleList \ new) \X {"users", "policies"} \subseteq Counts
    BY <1>0 DEF PolTypeOK, Counts
  <2> QED
    BY <1>3, <1>10, <2>1, <2>2, RolesIsTyped DEF BeginUpdateRoles, OpenRoles, WritesAPolicy
<1>11. ASSUME NEW r \in PolReqs, CountRole(r) PROVE PolTyped'
  <2>1. PICK c \in polReq[r].todo : polReq' = IF InUse(c) THEN [polReq EXCEPT ![r] = PolIdle] ELSE [polReq EXCEPT ![r].todo = @ \ {c}]
    BY <1>11 DEF CountRole
  <2>2. UNCHANGED <<secured, native, catalog, policyIds, roleList, held, misled>>
    BY <1>11 DEF CountRole
  <2>3. CASE InUse(c)
    BY <1>3, <2>1, <2>2, <2>3, IdleIsTyped DEF WritesAPolicy
  <2>4. CASE ~InUse(c)
    <3> DEFINE k == [polReq[r] EXCEPT !.todo = @ \ {c}]
    <3>1. k \in PolReq /\ k.pc = polReq[r].pc /\ k.table = polReq[r].table /\ k.def = polReq[r].def
      BY <1>0, CountedIsTyped
    <3>2. polReq' = [polReq EXCEPT ![r] = k]
      BY <2>1, <2>4
    <3> HIDE DEF k
    <3> QED
      BY <1>0, <1>3, <2>2, <3>1, <3>2 DEF WritesAPolicy
  <2> QED
    BY <2>3, <2>4
<1>12. ASSUME NEW r \in PolReqs, UpdateAppEnduserRoles(r) PROVE PolTyped'
  <2>1. polReq[r].roles \ roleList \in SUBSET Roles /\ polReq[r].roles \subseteq Roles
    BY <1>0, PolReqFields
  <2>2. \A s \in PolReqs : LET k == [polReq[s] EXCEPT !.raced = @ \cup (polReq[r].roles \ roleList)] IN
                           k \in PolReq /\ (PolAt(s, "roles") => WritesAPolicy(k))
    BY <1>0, <2>1, RacedIsTyped DEF WritesAPolicy, PolAt
  <2>3. polReq' \in [PolReqs -> PolReq] /\ \A s \in PolReqs : WritesAPolicy(polReq'[s])
    BY <1>0, <1>12, <2>2, IdleIsTyped DEF UpdateAppEnduserRoles, WritesAPolicy
  <2> QED
    BY <1>0, <1>12, <2>1, <2>3 DEF UpdateAppEnduserRoles, PolTyped, PolTypeOK
<1>13. ASSUME NEW r \in PolReqs, PolicyRequestFails(r) PROVE PolTyped'
  BY <1>3, <1>13, IdleIsTyped DEF PolicyRequestFails, WritesAPolicy
<1>14. CASE UNCHANGED polVars
  BY <1>0, <1>14 DEF polVars, PolTyped, PolTypeOK
<1> QED
  BY <1>1, <1>2, <1>4, <1>5, <1>6, <1>7, <1>8, <1>9, <1>10, <1>11, <1>12, <1>13, <1>14 DEF PolNext

-----------------------------------------------------------------------------
(* The counts of the roles that are dropped.                               *)

\* A count holds as long as the uses that begin are yet to be counted or known as races.
LEMMA CountStays ==
    ASSUME PolTyped, NEW s \in PolReqs, CountsHold(s),
           polReq'[s].pc = polReq[s].pc, polReq'[s].roles = polReq[s].roles,
           polReq'[s].todo = polReq[s].todo, polReq[s].raced \subseteq polReq'[s].raced,
           PolAt(s, "roles") => roleList' \subseteq roleList \cup polReq'[s].raced,
           PolAt(s, "roles") =>
             \A role \in Roles, kind \in {"users", "policies"} :
               InUse(<<role, kind>>)' => \/ InUse(<<role, kind>>)
                                         \/ <<role, kind>> \in polReq[s].todo
                                         \/ role \in polReq'[s].raced,
           roleList' \subseteq Roles
    PROVE  CountsHold(s)'
<1> SUFFICES ASSUME polReq'[s].pc = "roles", NEW role \in roleList' \ polReq'[s].roles, role \notin polReq'[s].raced,
                    NEW kind \in {"users", "policies"}
             PROVE  <<role, kind>> \in polReq'[s].todo \/ ~InUse(<<role, kind>>)'
  BY DEF CountsHold, PolAt
<1>1. role \in roleList \ polReq[s].roles /\ role \notin polReq[s].raced /\ role \in Roles
  BY DEF PolAt
<1>2. <<role, kind>> \in polReq[s].todo \/ ~InUse(<<role, kind>>)
  BY <1>1 DEF CountsHold, PolAt
<1> QED
  BY <1>1, <1>2 DEF PolAt

\* Uses do not begin where catalog and end users stay, or lose some of theirs.
LEMMA NoNewUse ==
    ASSUME NEW role, NEW kind \in {"users", "policies"}, catalog' \subseteq catalog, held' \subseteq held,
           InUse(<<role, kind>>)'
    PROVE  InUse(<<role, kind>>)
BY DEF InUse

\* A policy that is created or replaced is the only use that begins.
LEMMA OneNewUse ==
    ASSUME NEW role, NEW kind \in {"users", "policies"}, NEW new, catalog' \subseteq catalog \cup {new}, held' = held,
           InUse(<<role, kind>>)', ~InUse(<<role, kind>>)
    PROVE  kind = "policies" /\ role = new.def.role
BY DEF InUse

\* Every step leaves the counts of a change of the role list true.
LEMMA CountsStep ==
    PolTyped /\ (\A r \in PolReqs : CountsHold(r)) /\ [PolNext]_polVars => \A r \in PolReqs : CountsHold(r)'
<1> SUFFICES ASSUME PolTyped, \A r \in PolReqs : CountsHold(r), [PolNext]_polVars PROVE \A r \in PolReqs : CountsHold(r)'
  OBVIOUS
<1>0. PolTyped' /\ roleList' \subseteq Roles
  BY PolTypedStep DEF PolTyped, PolTypeOK
<1>r. \A r \in PolReqs : polReq[r] \in PolReq
  BY DEF PolTyped, PolTypeOK
\* A request that ends, or is none for the role list, and the others as they were.
<1>1. ASSUME NEW r \in PolReqs, NEW k \in PolReq, k.pc # "roles", polReq' = [polReq EXCEPT ![r] = k],
             catalog' \subseteq catalog, UNCHANGED <<roleList, held>>
      PROVE  \A s \in PolReqs : CountsHold(s)'
  <2>1. CountsHold(r)'
    BY <1>1, <1>r DEF CountsHold, PolAt, PolTyped, PolTypeOK
  <2>2. ASSUME NEW s \in PolReqs \ {r} PROVE CountsHold(s)'
    <3>1. polReq'[s] = polReq[s]
      BY <1>1 DEF PolTyped, PolTypeOK
    <3> QED
      BY <1>0, <1>1, <3>1, CountStays, NoNewUse
  <2> QED
    BY <2>1, <2>2
\* A use begins behind the counts that have passed it, and request r ends.
<1>2. ASSUME NEW r \in PolReqs, NEW role \in Roles, NEW new, new.def.role = role,
             catalog' \subseteq catalog \cup {new}, UNCHANGED <<roleList, held>>,
             polReq' = [Passed(<<role, "policies">>) EXCEPT ![r] = PolIdle]
      PROVE  \A s \in PolReqs : CountsHold(s)'
  <2>1. polReq'[r].pc = "idle" /\ \A s \in PolReqs \ {r} : polReq'[s] = Passed(<<role, "policies">>)[s]
    BY <1>2, PolPassedEnds
  <2>2. ASSUME NEW s \in PolReqs \ {r} PROVE CountsHold(s)'
    <3> DEFINE p == Passed(<<role, "policies">>)[s]
    <3>1. /\ p.pc = polReq[s].pc /\ p.roles = polReq[s].roles /\ p.todo = polReq[s].todo /\ polReq[s].raced \subseteq p.raced
          /\ PolAt(s, "roles") /\ <<role, "policies">> \notin polReq[s].todo => role \in p.raced
      BY PassedIsTyped
    <3>2. polReq'[s] = p
      BY <2>1
    <3> HIDE DEF p
    <3> QED
      BY <1>0, <1>2, <3>1, <3>2, CountStays, OneNewUse
  <2> QED
    BY <2>1, <2>2 DEF CountsHold, PolAt
<1>3. ASSUME NEW t \in PolTables, CreateTable(t) \/ EnsureRowLevelSecurity(t) \/ DeleteAppTable(t)
      PROVE  \A s \in PolReqs : CountsHold(s)'
  <2>1. polReq' = polReq /\ catalog' \subseteq catalog /\ held' = held /\ roleList' = roleList
    BY <1>3 DEF CreateTable, EnsureRowLevelSecurity, DeleteAppTable
  <2> QED
    BY <1>0, <2>1, CountStays, NoNewUse
<1>4. ASSUME NEW b \in Roles, SetRole(b) PROVE \A s \in PolReqs : CountsHold(s)'
  <2> SUFFICES ASSUME NEW s \in PolReqs PROVE CountsHold(s)'
    OBVIOUS
  <2>0. catalog' = catalog /\ roleList' = roleList
    BY <1>4 DEF SetRole
  <2>1. CASE b \in held
    BY <1>0, <1>4, <2>0, <2>1, CountStays, NoNewUse DEF SetRole
  <2>2. CASE b \notin held
    <3> DEFINE p == Passed(<<b, "users">>)[s]
    <3>1. /\ p.pc = polReq[s].pc /\ p.roles = polReq[s].roles /\ p.todo = polReq[s].todo /\ polReq[s].raced \subseteq p.raced
          /\ PolAt(s, "roles") /\ <<b, "users">> \notin polReq[s].todo => b \in p.raced
      BY PassedIsTyped
    <3>2. polReq'[s] = p /\ held' = held \cup {b}
      BY <1>4, <2>2 DEF SetRole
    <3>3. \A role \in Roles, kind \in {"users", "policies"} :
            InUse(<<role, kind>>)' => InUse(<<role, kind>>) \/ (kind = "users" /\ role = b)
      BY <2>0, <3>2 DEF InUse
    <3> HIDE DEF p
    <3> QED
      BY <1>0, <2>0, <3>1, <3>2, <3>3, CountStays
  <2> QED
    BY <2>1, <2>2
<1>5. ASSUME NEW r \in PolReqs,
             CreateTablePolicyForUser(r) \/ BeginUpdatePolicy(r) \/ BeginDeletePolicy(r)
      PROVE  \A s \in PolReqs : CountsHold(s)'
  <2>1. UNCHANGED <<secured, native, catalog, policyIds, roleList, held, misled>>
    BY <1>5 DEF CreateTablePolicyForUser, BeginUpdatePolicy, BeginDeletePolicy, OpenPolicyRequest
  <2>2. /\ polReq'[r] \in PolReq /\ polReq'[r].pc # "roles"
        /\ \A s \in PolReqs \ {r} : polReq'[s] = polReq[s]
    <3>0. \A q : OpenPolicyRequest(r, q) => polReq'[r] = q /\ \A s \in PolReqs \ {r} : polReq'[s] = polReq[s]
      BY DEF OpenPolicyRequest, PolTyped, PolTypeOK
    <3>1. CASE CreateTablePolicyForUser(r)
      <4>1. PICK t \in PolTables, d \in Def : OpenPolicyRequest(r, [PolIdle EXCEPT !.pc = "create", !.table = t, !.def = d])
        BY <3>1 DEF CreateTablePolicyForUser
      <4> DEFINE k == [PolIdle EXCEPT !.pc = "create", !.table = t, !.def = d]
      <4>2. OpenPolicyRequest(r, k)
        BY <4>1
      <4>3. k.pc # "roles"
        BY DEF PolIdle
      <4> HIDE DEF k
      <4> QED
        BY <1>0, <3>0, <4>2, <4>3 DEF PolTyped, PolTypeOK
    <3>2. CASE BeginUpdatePolicy(r)
      <4>1. PICK t \in PolTables, d \in Def, c \in catalog : OpenPolicyRequest(r, [PolIdle EXCEPT !.pc = "update", !.table = t, !.def = d, !.id = c.id])
        BY <3>2 DEF BeginUpdatePolicy
      <4> DEFINE k == [PolIdle EXCEPT !.pc = "update", !.table = t, !.def = d, !.id = c.id]
      <4>2. OpenPolicyRequest(r, k)
        BY <4>1
      <4>3. k.pc # "roles"
        BY DEF PolIdle
      <4> HIDE DEF k
      <4> QED
        BY <1>0, <3>0, <4>2, <4>3 DEF PolTyped, PolTypeOK
    <3>3. CASE BeginDeletePolicy(r)
      <4>1. PICK t \in PolTables, c \in catalog : OpenPolicyRequest(r, [PolIdle EXCEPT !.pc = "delete", !.table = t, !.id = c.id])
        BY <3>3 DEF BeginDeletePolicy
      <4> DEFINE k == [PolIdle EXCEPT !.pc = "delete", !.table = t, !.id = c.id]
      <4>2. OpenPolicyRequest(r, k)
        BY <4>1
      <4>3. k.pc # "roles"
        BY DEF PolIdle
      <4> HIDE DEF k
      <4> QED
        BY <1>0, <3>0, <4>2, <4>3 DEF PolTyped, PolTypeOK
    <3> QED
      BY <1>5, <3>1, <3>2, <3>3
  <2>3. ASSUME NEW s \in PolReqs \ {r} PROVE CountsHold(s)'
    BY <1>0, <2>1, <2>2, CountStays, NoNewUse
  <2> QED
    BY <2>2, <2>3 DEF CountsHold, PolAt
<1>6. ASSUME NEW r \in PolReqs, CreateTablePolicy(r) PROVE \A s \in PolReqs : CountsHold(s)'
  <2>1. polReq[r].def.role \in Roles
    BY <1>6 DEF PolTyped, CreateTablePolicy, PolAt, WritesAPolicy, Def
  <2> DEFINE new == [id |-> policyIds + 1, table |-> polReq[r].table, def |-> polReq[r].def]
  <2>2. catalog' = catalog \cup {new} /\ new.def.role = polReq[r].def.role
    BY <1>6 DEF CreateTablePolicy
  <2>3. polReq' = [Passed(<<polReq[r].def.role, "policies">>) EXCEPT ![r] = PolIdle] /\ UNCHANGED <<roleList, held>>
    BY <1>6 DEF CreateTablePolicy
  <2> HIDE DEF new
  <2> QED
    BY <1>2, <2>1, <2>2, <2>3
<1>7. ASSUME NEW r \in PolReqs, UpdateTablePolicy(r) PROVE \A s \in PolReqs : CountsHold(s)'
  <2>1. polReq[r].def.role \in Roles
    BY <1>7 DEF PolTyped, UpdateTablePolicy, ReplacePolicy, PolAt, WritesAPolicy, Def
  <2>2. PICK c \in catalog : catalog' = (catalog \ {c}) \cup {[c EXCEPT !.def = polReq[r].def]}
    BY <1>7 DEF UpdateTablePolicy, ReplacePolicy
  <2> DEFINE new == [c EXCEPT !.def = polReq[r].def]
  <2>3. new.def.role = polReq[r].def.role
    BY DEF PolTyped, PolTypeOK, CatalogRow
  <2>4. polReq' = [Passed(<<polReq[r].def.role, "policies">>) EXCEPT ![r] = PolIdle] /\ UNCHANGED <<roleList, held>>
    BY <1>7 DEF UpdateTablePolicy, ReplacePolicy
  <2>5. catalog' \subseteq catalog \cup {new}
    BY <2>2
  <2> HIDE DEF new
  <2> QED
    BY <1>2, <2>1, <2>3, <2>4, <2>5
<1>8. ASSUME NEW r \in PolReqs, DeleteTablePolicy(r) \/ PolicyRequestFails(r) PROVE \A s \in PolReqs : CountsHold(s)'
  BY <1>1, <1>8, IdleIsTyped DEF DeleteTablePolicy, PolicyRequestFails
<1>9. ASSUME NEW r \in PolReqs, BeginUpdateRoles(r) PROVE \A s \in PolReqs : CountsHold(s)'
  <2>1. PICK new \in SUBSET Roles :
          polReq' = [polReq EXCEPT ![r] = [PolIdle EXCEPT !.pc = "roles", !.roles = new,
                                           !.todo = (roleList \ new) \X {"users", "policies"}]]
    BY <1>9 DEF BeginUpdateRoles, OpenRoles
  <2>2. UNCHANGED <<roleList, catalog, held>>
    BY <1>9 DEF BeginUpdateRoles, OpenRoles
  <2>3. (roleList \ new) \X {"users", "policies"} \subseteq Counts
    BY DEF PolTyped, PolTypeOK, Counts
  <2>4. polReq'[r].roles = new /\ polReq'[r].todo = (roleList \ new) \X {"users", "policies"}
    <3> DEFINE k == [PolIdle EXCEPT !.pc = "roles", !.roles = new, !.todo = (roleList \ new) \X {"users", "policies"}]
    <3>1. k.roles = new /\ k.todo = (roleList \ new) \X {"users", "policies"}
      BY IdleIsTyped DEF PolReq
    <3>2. polReq' = [polReq EXCEPT ![r] = k]
      BY <2>1
    <3> HIDE DEF k
    <3> QED
      BY <3>1, <3>2 DEF PolTyped, PolTypeOK
  <2>5. CountsHold(r)'
    BY <2>2, <2>4 DEF CountsHold
  <2>6. ASSUME NEW s \in PolReqs \ {r} PROVE CountsHold(s)'
    <3>1. polReq'[s] = polReq[s]
      BY <2>1 DEF PolTyped, PolTypeOK
    <3> QED
      BY <1>0, <2>2, <3>1, CountStays, NoNewUse
  <2> QED
    BY <2>5, <2>6
<1>10. ASSUME NEW r \in PolReqs, CountRole(r) PROVE \A s \in PolReqs : CountsHold(s)'
  <2>1. PICK c \in polReq[r].todo :
          polReq' = IF InUse(c) THEN [polReq EXCEPT ![r] = PolIdle] ELSE [polReq EXCEPT ![r].todo = @ \ {c}]
    BY <1>10 DEF CountRole
  <2>2. UNCHANGED <<catalog, roleList, held>>
    BY <1>10 DEF CountRole
  <2>3. CASE InUse(c)
    BY <1>1, <2>1, <2>2, <2>3, IdleIsTyped
  <2>4. CASE ~InUse(c)
    <3>1. /\ polReq'[r].pc = polReq[r].pc /\ polReq'[r].roles = polReq[r].roles
          /\ polReq'[r].todo = polReq[r].todo \ {c} /\ polReq'[r].raced = polReq[r].raced
      BY <1>r, <2>1, <2>4, CountedIsTyped DEF PolTyped, PolTypeOK
    <3>2. \A role, kind : InUse(<<role, kind>>)' <=> InUse(<<role, kind>>)
      BY <2>2 DEF InUse
    <3>3. CountsHold(r)'
      BY <2>2, <2>4, <3>1, <3>2 DEF CountsHold, PolAt
    <3>4. ASSUME NEW s \in PolReqs \ {r} PROVE CountsHold(s)'
      <4>1. polReq'[s] = polReq[s]
        BY <2>1, <2>4 DEF PolTyped, PolTypeOK
      <4> QED
        BY <1>0, <2>2, <4>1, CountStays, NoNewUse
    <3> QED
      BY <3>3, <3>4
  <2> QED
    BY <2>3, <2>4
<1>11. ASSUME NEW r \in PolReqs, UpdateAppEnduserRoles(r) PROVE \A s \in PolReqs : CountsHold(s)'
  <2> DEFINE added == polReq[r].roles \ roleList
  <2>1. added \in SUBSET Roles
    BY <1>r, PolReqFields
  <2>2. UNCHANGED <<catalog, held>> /\ roleList' \subseteq roleList \cup added
    BY <1>11 DEF UpdateAppEnduserRoles
  <2>3. CountsHold(r)'
    BY <1>11, IdleIsTyped DEF UpdateAppEnduserRoles, CountsHold, PolAt
  <2>4. ASSUME NEW s \in PolReqs \ {r}, PolAt(s, "roles") PROVE CountsHold(s)'
    <3>1. polReq'[s] = [polReq[s] EXCEPT !.raced = @ \cup added]
      BY <1>11, <2>4 DEF UpdateAppEnduserRoles
    <3>2. /\ polReq'[s].pc = polReq[s].pc /\ polReq'[s].roles = polReq[s].roles
          /\ polReq'[s].todo = polReq[s].todo /\ polReq'[s].raced = polReq[s].raced \cup added
      BY <1>r, <2>1, <3>1, RacedIsTyped
    <3> HIDE DEF added
    <3> QED
      BY <1>0, <2>2, <2>4, <3>2, CountStays, NoNewUse
  <2>5. ASSUME NEW s \in PolReqs \ {r}, ~PolAt(s, "roles") PROVE CountsHold(s)'
    BY <1>11, <2>5 DEF UpdateAppEnduserRoles, CountsHold, PolAt
  <2> QED
    BY <2>3, <2>4, <2>5
<1>12. CASE UNCHANGED polVars
  BY <1>0, <1>12, CountStays, NoNewUse DEF polVars
<1> QED
  BY <1>3, <1>4, <1>5, <1>6, <1>7, <1>8, <1>9, <1>10, <1>11, <1>12 DEF PolNext

\* A role leaves the list of the app only when neither an end user nor a policy names it,
\* except one taken, or added by another request, behind the count.
LEMMA DropIsCounted ==
    ASSUME PolTyped, \A r \in PolReqs : CountsHold(r), PolNext,
           NEW role \in roleList \ roleList'
    PROVE  \/ ~InUse(<<role, "users">>) /\ ~InUse(<<role, "policies">>)
           \/ \E r \in PolReqs : PolAt(r, "roles") /\ role \in polReq[r].raced
<1>1. PICK r \in PolReqs : UpdateAppEnduserRoles(r)
  BY DEF PolNext, CreateTable, EnsureRowLevelSecurity, DeleteAppTable, SetRole, CreateTablePolicyForUser, BeginUpdatePolicy,
         BeginDeletePolicy, OpenPolicyRequest, CreateTablePolicy, UpdateTablePolicy, ReplacePolicy, DeleteTablePolicy,
         BeginUpdateRoles, OpenRoles, CountRole, PolicyRequestFails
<1>2. PolAt(r, "roles") /\ polReq[r].todo = {} /\ role \in roleList \ polReq[r].roles
  BY <1>1 DEF UpdateAppEnduserRoles
<1> QED
  BY <1>2 DEF CountsHold

-----------------------------------------------------------------------------
(* The catalog and the native policies.                                    *)

\* Agreeing, name by name, is what the run checks as equal sets of roles.
LEMMA AgreeIsSame ==
    ASSUME PolTypeOK, NEW t \in PolTables
    PROVE  Agree(t) => SameOn(t)
<1> SUFFICES ASSUME Agree(t), NEW n \in PolNames
             PROVE  {c.def.role : c \in {d \in RowsOf(t) : d.def.name = n}} = {native[t][n]} \ {Nothing}
  BY DEF SameOn
<1>1. \A c \in catalog : c.def.role # Nothing
  BY PolicyBounds DEF PolTypeOK, CatalogRow, Def
<1> QED
  BY <1>1 DEF Agree, RowsOf

\* A table whose rows and native policies stay agrees as before.
LEMMA AgreeStays ==
    ASSUME NEW t \in PolTables, Agree(t), native'[t] = native[t],
           \A c \in catalog : c.table = t => c \in catalog',
           \A c \in catalog' : c.table = t => c \in catalog
    PROVE  Agree(t)'
BY DEF Agree

\* Every step keeps the catalog and PostgreSQL together.
LEMMA CatalogStep == PolTyped /\ CatalogInv /\ [PolNext]_polVars => CatalogInv'
<1> SUFFICES ASSUME PolTyped, CatalogInv, [PolNext]_polVars PROVE CatalogInv'
  OBVIOUS
<1>0. PolTyped' /\ PolTypeOK
  BY PolTypedStep DEF PolTyped
<1>r. \A c \in catalog : c \in CatalogRow /\ c.table \in PolTables /\ c.def \in Def /\ c.def.name \in PolNames /\ c.def.role \in Roles
  BY <1>0 DEF PolTypeOK, CatalogRow, Def
\* Steps that change neither.
<1>1. ASSUME UNCHANGED <<secured, native, catalog, misled>> PROVE CatalogInv'
  BY <1>1 DEF CatalogInv, NamesAreUnique, Exists, Agree
<1>2. ASSUME NEW t \in PolTables, CreateTable(t) PROVE CatalogInv'
  <2>1. native[t] = NoPolicies /\ UNCHANGED <<native, catalog, misled>>
    BY <1>2 DEF CreateTable, CatalogInv
  <2>2. \A u \in PolTables \ {t} : secured'[u] = secured[u]
    BY <1>0, <1>2 DEF CreateTable, PolTypeOK
  <2>3. secured'[t] # "gone"
    BY <1>0, <1>2 DEF CreateTable, PolTypeOK
  <2> QED
    BY <2>1, <2>2, <2>3 DEF CatalogInv, NamesAreUnique, Exists, Agree
<1>3. ASSUME NEW t \in PolTables, EnsureRowLevelSecurity(t) PROVE CatalogInv'
  <2>1. UNCHANGED <<native, catalog, misled>> /\ secured[t] = "off" /\ secured'[t] = "on"
    BY <1>0, <1>3 DEF EnsureRowLevelSecurity, PolTypeOK
  <2>2. \A u \in PolTables \ {t} : secured'[u] = secured[u]
    BY <1>0, <1>3 DEF EnsureRowLevelSecurity, PolTypeOK
  <2> QED
    BY <2>1, <2>2 DEF CatalogInv, NamesAreUnique, Exists, Agree
<1>4. ASSUME NEW t \in PolTables, DeleteAppTable(t) PROVE CatalogInv'
  <2>1. /\ native'[t] = NoPolicies /\ catalog' = catalog \ RowsOf(t) /\ misled' = misled \ {t}
        /\ \A u \in PolTables \ {t} : secured'[u] = secured[u] /\ native'[u] = native[u]
    BY <1>0, <1>4 DEF DeleteAppTable, PolTypeOK
  <2>2. \A c \in catalog' : c.table # t
    BY <2>1 DEF RowsOf
  <2>3. Agree(t)'
    BY <2>1, <2>2 DEF Agree, NoPolicies
  <2>4. ASSUME NEW u \in PolTables \ {t}, Agree(u) PROVE Agree(u)'
    BY <2>1, <2>4, AgreeStays DEF RowsOf
  <2> QED
    BY <2>1, <2>3, <2>4 DEF CatalogInv, NamesAreUnique, Exists
<1>5. ASSUME NEW r \in PolReqs, CreateTablePolicy(r) PROVE CatalogInv'
  <2>0. PICK t \in PolTables, d \in Def : t = polReq[r].table /\ d = polReq[r].def
    BY <1>5 DEF PolTyped, CreateTablePolicy, PolAt, WritesAPolicy
  <2> DEFINE new == [id |-> policyIds + 1, table |-> t, def |-> d]
  <2>1. t \in PolTables /\ d \in Def /\ d.name \in PolNames /\ d.role \in Roles /\ d.role # Nothing
    BY PolicyBounds DEF Def
  <2>2. /\ Exists(t) /\ native[t][d.name] = Nothing
        /\ \A c \in catalog : c.table = t => c.def.name # d.name
        /\ catalog' = catalog \cup {new} /\ misled' = misled
        /\ secured' = IF RowsOf(t) = {} THEN [secured EXCEPT ![t] = "on"] ELSE secured
        /\ native' = [native EXCEPT ![t][d.name] = d.role]
    BY <1>5, <2>0 DEF CreateTablePolicy, RowsOf
  <2>3. new.table = t /\ new.def = d
    OBVIOUS
  <2> HIDE DEF new
  <2>4. /\ native'[t][d.name] = d.role /\ \A n \in PolNames \ {d.name} : native'[t][n] = native[t][n]
        /\ \A u \in PolTables \ {t} : native'[u] = native[u]
    BY <1>0, <2>1, <2>2 DEF PolTypeOK
  <2>5. /\ RowsOf(t) = {} => secured'[t] = "on"
        /\ \A u \in PolTables : secured'[u] = secured[u] \/ secured'[u] = "on"
    BY <1>0, <2>1, <2>2 DEF PolTypeOK
  <2>6. NamesAreUnique'
    BY <2>2, <2>3 DEF CatalogInv, NamesAreUnique
  <2>7. \A u \in PolTables : ~Exists(u)' => native'[u] = NoPolicies
    BY <2>1, <2>2, <2>4, <2>5 DEF CatalogInv, Exists
  <2>8. ASSUME t \notin misled PROVE Agree(t)' /\ secured'[t] = "on"
    <3>1. Agree(t) /\ (native[t] # NoPolicies => secured[t] = "on")
      BY <2>1, <2>8 DEF CatalogInv
    <3>2. Agree(t)'
      <4>1. \A c \in catalog' : c.table = t => native'[t][c.def.name] = c.def.role
        BY <1>r, <2>2, <2>3, <2>4, <3>1 DEF Agree
      <4>2. \A n \in PolNames : native'[t][n] # Nothing => \E c \in catalog' : c.table = t /\ c.def.name = n
        BY <2>2, <2>3, <2>4, <3>1 DEF Agree
      <4> QED
        BY <4>1, <4>2 DEF Agree
    <3>3. RowsOf(t) # {} => native[t] # NoPolicies
      <4>1. \A c \in RowsOf(t) : native[t][c.def.name] # Nothing /\ c.def.name \in PolNames
        BY <1>r, <3>1, PolicyBounds DEF RowsOf, Agree
      <4> QED
        BY <4>1 DEF NoPolicies
    <3> QED
      BY <2>1, <2>5, <3>1, <3>2, <3>3
  <2>9. ASSUME NEW u \in PolTables \ (misled \cup {t}) PROVE Agree(u)' /\ (native'[u] # NoPolicies => secured'[u] = "on")
    <3>1. Agree(u) /\ (native[u] # NoPolicies => secured[u] = "on")
      BY <2>9 DEF CatalogInv
    <3> QED
      BY <2>1, <2>2, <2>3, <2>4, <2>5, <2>9, <3>1, AgreeStays
  <2>10. \A u \in PolTables \ misled' : Agree(u)' /\ (native'[u] # NoPolicies => secured'[u] = "on")
    BY <2>2, <2>8, <2>9
  <2> QED
    BY <2>6, <2>7, <2>10 DEF CatalogInv
<1>6. ASSUME NEW r \in PolReqs, UpdateTablePolicy(r) PROVE CatalogInv'
  <2> DEFINE t == polReq[r].table
             d == polReq[r].def
  <2>1. t \in PolTables /\ d \in Def /\ d.name \in PolNames /\ d.role \in Roles /\ d.role # Nothing /\ Exists(t)
    BY <1>6, PolicyBounds DEF PolTyped, UpdateTablePolicy, ReplacePolicy, PolAt, WritesAPolicy, Def
  <2>2. PICK c \in catalog :
          /\ [native[t] EXCEPT ![c.def.name] = Nothing][d.name] = Nothing
          /\ \A e \in RowsOf(c.table) \ {c} : e.def.name # d.name
          /\ native' = [native EXCEPT ![t] = [[native[t] EXCEPT ![c.def.name] = Nothing] EXCEPT ![d.name] = d.role]]
          /\ catalog' = (catalog \ {c}) \cup {[c EXCEPT !.def = d]}
          /\ misled' = IF c.table = t THEN misled ELSE misled \cup {c.table, t}
    BY <1>6 DEF UpdateTablePolicy, ReplacePolicy
  <2>3. secured' = secured
    BY <1>6 DEF UpdateTablePolicy, ReplacePolicy
  <2> DEFINE new == [c EXCEPT !.def = d]
  <2>4. new.table = c.table /\ new.def = d
    BY <1>r DEF CatalogRow
  <2>5. catalog' = (catalog \ {c}) \cup {new}
    BY <2>2
  <2> HIDE DEF new, t, d
  <2>6. /\ native'[t][d.name] = d.role
        /\ \A n \in PolNames \ {d.name} : native'[t][n] = IF n = c.def.name THEN Nothing ELSE native[t][n]
        /\ \A u \in PolTables \ {t} : native'[u] = native[u]
    BY <1>0, <1>r, <2>1, <2>2 DEF PolTypeOK
  <2>7. NamesAreUnique'
    BY <2>2, <2>4, <2>5 DEF CatalogInv, NamesAreUnique, RowsOf
  <2>8. \A u \in PolTables : ~Exists(u)' => native'[u] = NoPolicies
    BY <2>1, <2>3, <2>6 DEF CatalogInv, Exists
  <2>9. ASSUME NEW u \in PolTables \ misled' PROVE Agree(u)' /\ (native'[u] # NoPolicies => secured'[u] = "on")
    <3>1. u \in PolTables \ misled /\ (c.table # t => u # t /\ u # c.table)
      BY <2>2, <2>9
    <3>2. Agree(u) /\ (native[u] # NoPolicies => secured[u] = "on")
      BY <3>1 DEF CatalogInv
    <3>3. CASE u # t
      <4>1. u # c.table
        BY <3>1, <3>3
      <4> QED
        BY <2>3, <2>4, <2>5, <2>6, <3>2, <3>3, <4>1, AgreeStays
    <3>4. CASE u = t
      <4>1. c.table = t
        BY <3>1, <3>4
      <4>2. \A e \in catalog : e.table = t /\ e # c => e.def.name # c.def.name /\ e.def.name # d.name
        BY <2>2, <4>1 DEF CatalogInv, NamesAreUnique, RowsOf
      <4>3. \A e \in catalog' : e.table = t => native'[t][e.def.name] = e.def.role
        BY <1>r, <2>4, <2>5, <2>6, <3>2, <3>4, <4>1, <4>2 DEF Agree
      <4>4. \A n \in PolNames : native'[t][n] # Nothing => \E e \in catalog' : e.table = t /\ e.def.name = n
        BY <2>1, <2>4, <2>5, <2>6, <3>2, <3>4, <4>1 DEF Agree
      <4>5. native[t] # NoPolicies
        BY <1>r, <3>2, <3>4, <4>1, PolicyBounds DEF Agree, NoPolicies
      <4> QED
        BY <2>3, <3>2, <3>4, <4>3, <4>4, <4>5 DEF Agree
    <3> QED
      BY <3>3, <3>4
  <2> QED
    BY <2>7, <2>8, <2>9 DEF CatalogInv
<1>7. ASSUME NEW r \in PolReqs, DeleteTablePolicy(r) PROVE CatalogInv'
  <2>1. PICK c \in catalog : catalog' = catalog \ {c} /\ native' = [native EXCEPT ![c.table][c.def.name] = Nothing]
    BY <1>7 DEF DeleteTablePolicy
  <2>2. UNCHANGED <<secured, misled>>
    BY <1>7 DEF DeleteTablePolicy
  <2>3. /\ \A n \in PolNames : native'[c.table][n] = IF n = c.def.name THEN Nothing ELSE native[c.table][n]
        /\ native'[c.table] \in [PolNames -> Roles \cup {Nothing}] /\ native[c.table] \in [PolNames -> Roles \cup {Nothing}]
        /\ \A u \in PolTables \ {c.table} : native'[u] = native[u]
    BY <1>0, <1>r, <2>1 DEF PolTypeOK
  <2>4. native[c.table] = NoPolicies => native'[c.table] = NoPolicies
    BY <2>3 DEF NoPolicies
  <2>5. \A u \in PolTables : native[u] = NoPolicies => native'[u] = NoPolicies
    BY <2>3, <2>4
  <2>6. ASSUME NEW u \in PolTables, Agree(u) PROVE Agree(u)'
    <3>1. CASE u # c.table
      BY <2>1, <2>3, <2>6, <3>1, AgreeStays
    <3>2. CASE u = c.table
      <4>1. \A e \in catalog' : e.table = u => e.def.name # c.def.name
        BY <2>1, <3>2 DEF CatalogInv, NamesAreUnique
      <4> QED
        BY <1>r, <2>1, <2>3, <2>6, <3>2, <4>1 DEF Agree
    <3> QED
      BY <3>1, <3>2
  <2> QED
    BY <2>1, <2>2, <2>5, <2>6 DEF CatalogInv, NamesAreUnique, Exists
<1>8. ASSUME NEW r \in PolReqs,
             \/ CreateTablePolicyForUser(r) \/ BeginUpdatePolicy(r) \/ BeginDeletePolicy(r)
             \/ BeginUpdateRoles(r) \/ CountRole(r) \/ UpdateAppEnduserRoles(r) \/ PolicyRequestFails(r)
      PROVE  CatalogInv'
  BY <1>1, <1>8 DEF CreateTablePolicyForUser, BeginUpdatePolicy, BeginDeletePolicy, OpenPolicyRequest,
                    BeginUpdateRoles, OpenRoles, CountRole, UpdateAppEnduserRoles, PolicyRequestFails
<1>9. ASSUME NEW b \in Roles, SetRole(b) PROVE CatalogInv'
  BY <1>1, <1>9 DEF SetRole
<1>10. CASE UNCHANGED polVars
  BY <1>1, <1>10 DEF polVars
<1> QED
  BY <1>2, <1>3, <1>4, <1>5, <1>6, <1>7, <1>8, <1>9, <1>10 DEF PolNext

-----------------------------------------------------------------------------
\* The invariants hold where no policy was made.
LEMMA PolStart == PolInit => PolTyped /\ CatalogInv /\ \A r \in PolReqs : CountsHold(r)
<1> SUFFICES ASSUME PolInit PROVE PolTyped /\ CatalogInv /\ \A r \in PolReqs : CountsHold(r)
  OBVIOUS
<1>1. polReq \in [PolReqs -> PolReq] /\ \A r \in PolReqs : polReq[r].pc = "idle"
  BY IdleIsTyped DEF PolInit
<1>2. PolTyped
  BY <1>1, PolicyBounds DEF PolInit, PolTyped, PolTypeOK, NoPolicies, WritesAPolicy
<1> QED
  BY <1>1, <1>2 DEF PolInit, CatalogInv, NamesAreUnique, Agree, NoPolicies, CountsHold, PolAt

\* The state of the policies has its types.
THEOREM PolicyTypes == PolSpec => []PolTyped
BY PolStart, PolTypedStep, PTL DEF PolSpec

\* What the catalog says of a table is what PostgreSQL enforces there, unless an update
\* reached it through the path of another one.
THEOREM CatalogEnforced == PolSpec => []CatalogIsEnforced
<1>1. PolTyped /\ CatalogInv => CatalogIsEnforced
  BY AgreeIsSame DEF PolTyped, CatalogInv, CatalogIsEnforced, UnmisledCatalogIsNative, PolicyIsEnforced
<1> QED
  BY <1>1, PolStart, PolTypedStep, CatalogStep, PTL DEF PolSpec

\* A role leaves the list of the app only when neither an end user nor a policy names it,
\* except one taken, or added by another request, behind the count.
THEOREM DroppedRoles == PolSpec => DroppedRoleIsUnused
<1> DEFINE Inv == PolTyped /\ \A r \in PolReqs : CountsHold(r)
<1>1. PolInit => Inv
  BY PolStart
<1>2. Inv /\ [PolNext]_polVars => Inv'
  BY PolTypedStep, CountsStep
<1>3. Inv /\ [PolNext]_polVars =>
        [\A role \in roleList \ roleList' :
          \/ ~InUse(<<role, "users">>) /\ ~InUse(<<role, "policies">>)
          \/ \E r \in PolReqs : PolAt(r, "roles") /\ role \in polReq[r].raced]_polVars
  BY DropIsCounted
<1> QED
  BY <1>1, <1>2, <1>3, PTL DEF PolSpec, DroppedRoleIsUnused

-----------------------------------------------------------------------------
(* The text of a policy. After every clause the text so far is one         *)
(* operand, worth what the clauses say that are read so far, for the       *)
(* parentheses make it one. That the reading from left to right is well    *)
(* defined for any number of clauses follows from a least number for which *)
(* it is not.                                                              *)

\* A set of numbers that is not empty has a least element.
LEMMA LeastNumber ==
    ASSUME NEW T \in SUBSET Nat, T # {}
    PROVE  \E n \in T : \A m \in T : n <= m
<1> DEFINE R == {p \in Nat \X Nat : p[1] < p[2]}
<1>1. IsWellFoundedOn(R, Nat)
  BY NatLessThanWellFounded DEF OpToRel
<1>2. \A m \in T, n \in T : m < n => <<m, n>> \in R
  OBVIOUS
<1> HIDE DEF R
<1>3. PICK n \in T : \A m \in T : ~(<<m, n>> \in R)
  BY <1>1, WFMin
<1>4. ASSUME NEW m \in T PROVE n <= m
  <2>1. ~(m < n)
    BY <1>2, <1>3, Zenon
  <2>2. m \in Nat /\ n \in Nat
    OBVIOUS
  <2> QED
    BY <2>1, <2>2
<1> QED
  BY <1>4

-----------------------------------------------------------------------------
\* One clause joins what is read up to it.
Joined(clause, before) ==
    IF clause.logic = "AND" THEN Min({before, clause.value}) ELSE Max({before, clause.value})

ReadsUpTo(clauses, n, f) ==
    f = [i \in 1 .. n |-> IF i = 1 THEN clauses[i].value ELSE Joined(clauses[i], f[i - 1])]

\* Clauses can be read from left to right, however many they are.
LEMMA ClausesCanBeRead ==
    ASSUME NEW clauses, NEW n \in Nat
    PROVE  \E f : ReadsUpTo(clauses, n, f)
<1> DEFINE T == {m \in Nat : ~\E f : ReadsUpTo(clauses, m, f)}
<1> SUFFICES ASSUME T # {} PROVE FALSE
  OBVIOUS
<1>1. PICK m \in T : \A k \in T : m <= k
  BY LeastNumber
<1>2. ReadsUpTo(clauses, 0, [i \in {} |-> i])
  BY DEF ReadsUpTo
<1>3. m # 0 /\ m - 1 \in Nat /\ m - 1 \notin T
  BY <1>1, <1>2
<1>4. PICK g : ReadsUpTo(clauses, m - 1, g)
  BY <1>3
<1> DEFINE last == IF m = 1 THEN clauses[m].value ELSE Joined(clauses[m], g[m - 1])
           h == [i \in 1 .. m |-> IF i = m THEN last ELSE g[i]]
<1>5. ASSUME NEW i \in 1 .. m
      PROVE  h[i] = IF i = 1 THEN clauses[i].value ELSE Joined(clauses[i], h[i - 1])
  <2>1. CASE i = m
    BY <1>3, <2>1
  <2>2. CASE i # m
    <3>1. i \in 1 .. (m - 1) /\ (i # 1 => i - 1 \in 1 .. (m - 1))
      BY <1>3, <2>2
    <3>2. g[i] = IF i = 1 THEN clauses[i].value ELSE Joined(clauses[i], g[i - 1])
      BY <1>4, <3>1 DEF ReadsUpTo
    <3> QED
      BY <1>3, <2>2, <3>1, <3>2
  <2> QED
    BY <2>1, <2>2
<1>6. ReadsUpTo(clauses, m, h)
  <2>1. h = [i \in 1 .. m |-> h[i]]
    OBVIOUS
  <2> HIDE DEF h
  <2> QED
    BY <1>5, <2>1 DEF ReadsUpTo
<1> QED
  BY <1>1, <1>6

\* Reading is what its definition says, for clauses of any number.
LEMMA ReadingJoins ==
    ASSUME NEW clauses \in Seq(Clause)
    PROVE  \A i \in 1 .. Len(clauses) :
              Reading(clauses)[i] = IF i = 1 THEN clauses[i].value
                                    ELSE Joined(clauses[i], Reading(clauses)[i - 1])
<1>1. Len(clauses) \in Nat /\ DOMAIN clauses = 1 .. Len(clauses)
  OBVIOUS
<1>2. Reading(clauses) = CHOOSE f : ReadsUpTo(clauses, Len(clauses), f)
  BY <1>1, Zenon DEF Reading, ReadsUpTo, Joined
<1>3. ReadsUpTo(clauses, Len(clauses), Reading(clauses))
  BY <1>1, <1>2, ClausesCanBeRead
<1> HIDE DEF Reading
<1> QED
  BY <1>1, <1>3 DEF ReadsUpTo

-----------------------------------------------------------------------------
\* The least and the greatest of one and of two truth values.
LEMMA Extremes ==
    ASSUME NEW a \in Truth, NEW b \in Truth
    PROVE  /\ Min({a}) = a /\ Max({a}) = a
           /\ Min({a, b}) = (IF a <= b THEN a ELSE b)
           /\ Max({a, b}) = (IF a <= b THEN b ELSE a)
BY DEF Min, Max, Truth, False, Unknown, True

\* A text of one operand is worth what the operand is.
LEMMA MeaningOfOne ==
    ASSUME NEW a \in Truth
    PROVE  Meaning(<<Operand(a)>>) = a
<1> DEFINE text == <<Operand(a)>>
           operands == {i \in DOMAIN text : text[i].kind = "value"}
           ors == {i \in DOMAIN text : text[i].kind = "OR"}
           joined(i) == {j \in operands : \A o \in ors : o < i <=> o < j}
           worth(i) == Min({text[j].value : j \in joined(i)})
<1>1. DOMAIN text = {1} /\ text[1].kind = "value" /\ text[1].value = a
  BY DEF Operand
<1> HIDE DEF text
<1>2. operands = {1} /\ ors = {}
  BY <1>1
<1>3. joined(1) = {1}
  BY <1>2
<1>4. {text[j].value : j \in joined(1)} = {a}
  BY <1>1, <1>3
<1>5. worth(1) = a
  BY <1>4, Extremes
<1>6. {worth(i) : i \in operands} = {a}
  BY <1>2, <1>5
<1>7. Meaning(text) = Max({worth(i) : i \in operands})
  BY DEF Meaning
<1> QED
  BY <1>6, <1>7, Extremes DEF text

\* A text of two operands is worth what its operator makes of them.
LEMMA MeaningOfTwo ==
    ASSUME NEW a \in Truth, NEW b \in Truth, NEW l \in {"AND", "OR"}
    PROVE  Meaning(<<Operand(a), Operator(l), Operand(b)>>) = IF l = "AND" THEN Min({a, b}) ELSE Max({a, b})
<1> DEFINE text == <<Operand(a), Operator(l), Operand(b)>>
           operands == {i \in DOMAIN text : text[i].kind = "value"}
           ors == {i \in DOMAIN text : text[i].kind = "OR"}
           joined(i) == {j \in operands : \A o \in ors : o < i <=> o < j}
           worth(i) == Min({text[j].value : j \in joined(i)})
<1>1. /\ DOMAIN text = {1, 2, 3}
      /\ text[1].kind = "value" /\ text[2].kind = l /\ text[3].kind = "value"
      /\ text[1].value = a /\ text[3].value = b
  BY DEF Operand, Operator
<1> HIDE DEF text
<1>2. operands = {1, 3}
  BY <1>1
<1>4. Meaning(text) = Max({worth(1), worth(3)})
  <2>1. Meaning(text) = Max({worth(i) : i \in operands})
    BY Zenon DEF Meaning
  <2> HIDE DEF worth
  <2>2. {worth(i) : i \in operands} = {worth(1), worth(3)}
    BY <1>2
  <2> QED
    BY <2>1, <2>2
<1>5. CASE l = "AND"
  <2>1. joined(1) = {1, 3} /\ joined(3) = {1, 3}
    BY <1>1, <1>2, <1>5
  <2>2. {text[j].value : j \in joined(1)} = {a, b} /\ {text[j].value : j \in joined(3)} = {a, b}
    BY <1>1, <2>1
  <2>3. worth(1) = Min({a, b}) /\ worth(3) = Min({a, b})
    BY <2>2
  <2>4. Min({a, b}) \in Truth
    BY Extremes
  <2>5. Meaning(text) = Max({Min({a, b})})
    BY <1>4, <2>3, Zenon
  <2> QED
    BY <1>5, <2>4, <2>5, Extremes DEF text
<1>6. CASE l = "OR"
  <2>1. joined(1) = {1} /\ joined(3) = {3}
    BY <1>1, <1>2, <1>6
  <2>2. {text[j].value : j \in joined(1)} = {a} /\ {text[j].value : j \in joined(3)} = {b}
    BY <1>1, <2>1
  <2>3. worth(1) = a /\ worth(3) = b
    BY <2>2, Extremes
  <2> QED
    BY <1>4, <1>6, <2>3 DEF text
<1> QED
  BY <1>5, <1>6

-----------------------------------------------------------------------------
\* What is read is a truth value.
LEMMA ReadingIsTruth ==
    ASSUME NEW clauses \in Seq(Clause)
    PROVE  \A i \in 1 .. Len(clauses) : Reading(clauses)[i] \in Truth
<1> DEFINE T == {i \in 1 .. Len(clauses) : Reading(clauses)[i] \notin Truth}
<1> SUFFICES ASSUME T # {} PROVE FALSE
  OBVIOUS
<1>1. T \in SUBSET Nat
  OBVIOUS
<1>2. PICK n \in T : \A m \in T : n <= m
  BY <1>1, LeastNumber
<1>3. n \in 1 .. Len(clauses) /\ Len(clauses) \in Nat /\ clauses[n] \in Clause
  OBVIOUS
<1>4. n # 1
  BY <1>2, <1>3, ReadingJoins DEF Clause
<1>5. n - 1 \in 1 .. Len(clauses) /\ n - 1 \notin T
  BY <1>2, <1>3, <1>4
<1>6. Reading(clauses)[n] = Joined(clauses[n], Reading(clauses)[n - 1])
  BY <1>3, <1>4, ReadingJoins
<1>7. ASSUME NEW a \in Truth PROVE Joined(clauses[n], a) \in Truth
  BY <1>3, Extremes DEF Joined, Clause
<1> QED
  BY <1>2, <1>5, <1>6, <1>7

\* The texts of operands and operators, and the calls of BuildPolicySQL with them.
Texts == Seq([kind : {"value"}, value : Truth] \cup [kind : {"AND", "OR"}])
Builds == [pc : {"fold", "refused", "built"}, clauses : Seq(Clause), role : {False, True}, text : Texts, done : Nat]

\* The inductive invariant: the text so far is one operand, worth what is read so far.
ExprInv ==
    /\ build \in Builds /\ build.done <= Len(build.clauses)
    /\ build.pc = "fold" =>
          build.text = IF build.done = 0 THEN <<>> ELSE <<Operand(Reading(build.clauses)[build.done])>>
    /\ build.pc = "built" =>
          /\ build.clauses # <<>>
          /\ build.text = <<Operand(build.role), Operator("AND"),
                            Operand(Reading(build.clauses)[Len(build.clauses)])>>

\* The invariant holds of a call that has folded nothing.
LEMMA ExprStart == ExprInit => ExprInv
<1> SUFFICES ASSUME ExprInit PROVE ExprInv
  OBVIOUS
<1>1. /\ build.pc = "fold" /\ build.role \in {False, True} /\ build.text = <<>> /\ build.done = 0
      /\ \E n \in 0 .. MaxClauses : build.clauses \in [1 .. n -> Clause]
  BY DEF ExprInit
<1>2. build \in Builds
  <2>1. PICK n \in 0 .. MaxClauses : build.clauses \in [1 .. n -> Clause]
    BY <1>1
  <2>2. build.clauses \in Seq(Clause) /\ <<>> \in Texts
    BY <2>1, ClauseBounds DEF Texts
  <2> QED
    BY <2>2 DEF ExprInit, Builds
<1> QED
  BY <1>1, <1>2 DEF ExprInv, Builds

\* An operand makes a text.
LEMMA TextOfOne ==
    ASSUME NEW a \in Truth
    PROVE  <<Operand(a)>> \in Texts
BY DEF Texts, Operand

\* So does the text that BuildPolicySQL ends with, the roles and the clauses.
LEMMA TextOfTwo ==
    ASSUME NEW a \in Truth, NEW b \in Truth
    PROVE  <<Operand(a), Operator("AND"), Operand(b)>> \in Texts
BY DEF Texts, Operand, Operator

\* One operand or operator is followed by two.
LEMMA OneThenTwo ==
    ASSUME NEW S, NEW x \in S, NEW y \in S, NEW z \in S
    PROVE  <<x>> \o <<y, z>> = <<x, y, z>>
<1> DEFINE s == <<x>> \o <<y, z>>
<1>1. <<x>> \in Seq(S) /\ <<y, z>> \in Seq(S)
  OBVIOUS
<1>2. s \in Seq(S) /\ Len(s) = 3 /\ s[1] = x /\ s[2] = y /\ s[3] = z
  BY <1>1
<1> HIDE DEF s
<1>3. s = [i \in 1 .. 3 |-> s[i]]
  BY <1>2
<1>4. <<x, y, z>> = [i \in 1 .. 3 |-> <<x, y, z>>[i]]
  OBVIOUS
<1>5. \A i \in 1 .. 3 : s[i] = <<x, y, z>>[i]
  BY <1>2
<1> QED
  BY <1>3, <1>4, <1>5 DEF s

\* Every step of a call keeps the invariant.
LEMMA ExprStepInv == ExprInv /\ [ExprNext]_build => ExprInv'
<1> SUFFICES ASSUME ExprInv, [ExprNext]_build PROVE ExprInv'
  OBVIOUS
<1>0. /\ build \in Builds /\ build.clauses \in Seq(Clause) /\ Len(build.clauses) \in Nat
      /\ build.done \in Nat /\ build.role \in Truth /\ build.done <= Len(build.clauses)
  BY DEF ExprInv, Builds, Truth
<1>1. CASE FoldClauses
  <2> DEFINE i == build.done + 1
             clause == build.clauses[i]
  <2>1. build.pc = "fold" /\ i \in 1 .. Len(build.clauses) /\ clause \in Clause
    BY <1>0, <1>1 DEF FoldClauses
  <2>2. CASE ~ValidLogic(i)
    <3>1. build' = [build EXCEPT !.pc = "refused"]
      BY <1>1, <2>2 DEF FoldClauses
    <3> QED
      BY <1>0, <3>1 DEF ExprInv, Builds
  <2>3. ASSUME NEW a \in Truth, a = Reading(build.clauses)[i],
               build' = [build EXCEPT !.done = i, !.text = <<Operand(a)>>]
        PROVE  ExprInv'
    <3>1. ASSUME NEW t \in Texts, NEW n \in Nat, build' = [build EXCEPT !.done = n, !.text = t]
          PROVE  /\ build' \in Builds /\ build'.pc = build.pc /\ build'.clauses = build.clauses
                 /\ build'.done = n /\ build'.text = t
      BY <1>0, <3>1 DEF Builds
    <3>2. i \in Nat /\ <<Operand(a)>> \in Texts
      BY <1>0, TextOfOne
    <3>3. /\ build' \in Builds /\ build'.pc = build.pc /\ build'.clauses = build.clauses
          /\ build'.done = i /\ build'.text = <<Operand(a)>>
      BY <2>3, <3>1, <3>2
    <3> QED
      BY <1>0, <2>1, <2>3, <3>3 DEF ExprInv
  <2>4. CASE ValidLogic(i) /\ i = 1
    <3>1. build' = [build EXCEPT !.done = i, !.text = <<Operand(clause.value)>>]
      BY <1>1, <2>4 DEF FoldClauses
    <3>2. Reading(build.clauses)[i] = clause.value /\ clause.value \in Truth
      BY <1>0, <2>1, <2>4, ReadingJoins DEF Clause
    <3> QED
      BY <2>3, <3>1, <3>2
  <2>5. CASE ValidLogic(i) /\ i # 1
    <3> DEFINE before == Reading(build.clauses)[build.done]
    <3>1. build.text = <<Operand(before)>> /\ build.done \in 1 .. Len(build.clauses) /\ build.done = i - 1
      BY <1>0, <2>1, <2>5 DEF ExprInv
    <3>2. clause.logic \in {"AND", "OR"} /\ clause.value \in Truth
      BY <2>1, <2>5 DEF ValidLogic, Clause, Logic
    <3>3. before \in Truth
      BY <1>0, <3>1, ReadingIsTruth
    <3>4. build' = [build EXCEPT !.done = i, !.text = Join(build.text, clause.logic, clause.value)]
      BY <1>1, <2>5 DEF FoldClauses
    <3>5. Reading(build.clauses)[i] = Joined(clause, before) /\ Reading(build.clauses)[i] \in Truth
      BY <1>0, <2>1, <2>5, <3>1, ReadingJoins, ReadingIsTruth
    <3>6. \A x, y, z : <<x>> \o <<y, z>> = <<x, y, z>>
      <4> TAKE x, y, z
      <4>1. x \in {x, y, z} /\ y \in {x, y, z} /\ z \in {x, y, z}
        OBVIOUS
      <4> QED
        BY <4>1, OneThenTwo
    <3>7. build.text \o <<Operator(clause.logic), Operand(clause.value)>>
             = <<Operand(before), Operator(clause.logic), Operand(clause.value)>>
      BY <3>1, <3>6
    <3>8. Join(build.text, clause.logic, clause.value) = <<Operand(Joined(clause, before))>>
      BY <3>2, <3>3, <3>7, MeaningOfTwo DEF Join, Paren, Joined
    <3> QED
      BY <2>3, <3>4, <3>5, <3>8
  <2> QED
    BY <2>2, <2>4, <2>5
<1>2. CASE BuildPolicySQL
  <2>1. CASE build.clauses = <<>>
    <3>1. build' = [build EXCEPT !.pc = "refused"]
      BY <1>2, <2>1 DEF BuildPolicySQL
    <3> QED
      BY <1>0, <3>1 DEF ExprInv, Builds
  <2>2. CASE build.clauses # <<>>
    <3> DEFINE all == Reading(build.clauses)[Len(build.clauses)]
    <3>1. build.pc = "fold" /\ build.done = Len(build.clauses) /\ Len(build.clauses) \in 1 .. Len(build.clauses)
      BY <1>0, <1>2, <2>2 DEF BuildPolicySQL
    <3>2. build.text = <<Operand(all)>> /\ all \in Truth
      BY <1>0, <3>1, ReadingIsTruth DEF ExprInv
    <3>3. Paren(<<Operand(build.role)>>) = Operand(build.role) /\ Paren(build.text) = Operand(all)
      BY <1>0, <3>2, MeaningOfOne DEF Paren
    <3>4. build' = [build EXCEPT !.pc = "built",
                       !.text = <<Operand(build.role), Operator("AND"), Operand(all)>>]
      BY <1>2, <2>2, <3>3 DEF BuildPolicySQL
    <3>5. <<Operand(build.role), Operator("AND"), Operand(all)>> \in Texts
      BY <1>0, <3>2, TextOfTwo
    <3>6. /\ build' \in Builds /\ build'.pc = "built" /\ build'.clauses = build.clauses
          /\ build'.done = build.done /\ build'.role = build.role
          /\ build'.text = <<Operand(build.role), Operator("AND"), Operand(all)>>
      BY <1>0, <3>4, <3>5 DEF Builds
    <3> QED
      BY <1>0, <2>2, <3>6 DEF ExprInv
  <2> QED
    BY <2>1, <2>2
<1>3. CASE UNCHANGED build
  BY <1>3 DEF ExprInv
<1> QED
  BY <1>1, <1>2, <1>3 DEF ExprNext

\* The text that foldClauses puts together means what its clauses say from left to right, for
\* policies of any number of clauses.
THEOREM PolicyTexts == ExprSpec => []PolicyMeansItsClauses
<1>1. ExprInv => PolicyMeansItsClauses
  <2> SUFFICES ASSUME ExprInv PROVE PolicyMeansItsClauses
    OBVIOUS
  <2>0. /\ build.clauses \in Seq(Clause) /\ Len(build.clauses) \in Nat
        /\ build.done \in Nat /\ build.role \in Truth /\ build.done <= Len(build.clauses)
    BY DEF ExprInv, Builds, Truth
  <2>1. ASSUME build.pc = "fold", build.done > 0
        PROVE  Meaning(build.text) = Reading(build.clauses)[build.done]
    <3>1. build.done \in 1 .. Len(build.clauses) /\ build.text = <<Operand(Reading(build.clauses)[build.done])>>
      BY <2>0, <2>1 DEF ExprInv
    <3> QED
      BY <2>0, <3>1, MeaningOfOne, ReadingIsTruth
  <2>2. ASSUME build.pc = "built"
        PROVE  Meaning(build.text) = True <=> build.role = True /\ Reading(build.clauses)[Len(build.clauses)] = True
    <3> DEFINE all == Reading(build.clauses)[Len(build.clauses)]
    <3>1. /\ Len(build.clauses) \in 1 .. Len(build.clauses)
          /\ build.text = <<Operand(build.role), Operator("AND"), Operand(all)>>
      BY <2>0, <2>2 DEF ExprInv
    <3>2. all \in Truth
      BY <2>0, <3>1, ReadingIsTruth
    <3>3. Meaning(build.text) = Min({build.role, all})
      BY <2>0, <3>1, <3>2, MeaningOfTwo
    <3>4. ASSUME NEW a \in Truth, NEW b \in Truth PROVE Min({a, b}) = True <=> a = True /\ b = True
      BY Extremes DEF Truth, True, False, Unknown
    <3> QED
      BY <2>0, <3>2, <3>3, <3>4
  <2> QED
    BY <2>1, <2>2 DEF PolicyMeansItsClauses
<1> QED
  BY <1>1, ExprStart, ExprStepInv, PTL DEF ExprSpec

-----------------------------------------------------------------------------
(* Rows. Every answer is given in one step, whose conditions name the      *)
(* owner and the deletion of the row it touches, whatever was found in an  *)
(* earlier step; and a request whose SQL was built while soft delete was   *)
(* off is known as one.                                                    *)

\* The idle request is a request, and the absent row a row.
LEMMA RowReqIdleIsTyped == RowReqIdle \in RowReq /\ RowReqIdle.pc = "idle" /\ NoRow \in Row
BY RowBounds DEF RowReqIdle, RowReq, RlsModes, NoRow, Row

\* A request is answered, and the rest stay.
LEMMA RowAnswers ==
    ASSUME RowTypeOK, NEW r \in RowReqs, NEW i \in RowIds \cup {0},
           NEW how \in {"key", "list", "asked", "id", "conflict"}, AnswerRow(r, i, how)
    PROVE  /\ rreq' \in [RowReqs -> RowReq]
           /\ rreq'[r].pc = "answered" /\ rreq'[r].row = i /\ rreq'[r].via = how
           /\ \A q \in RowReqs \ {r} : rreq'[q] = rreq[q]
<1> DEFINE k == [RowReqIdle EXCEPT !.pc = "answered", !.row = i, !.via = how]
<1>1. k \in RowReq /\ k.pc = "answered" /\ k.row = i /\ k.via = how
  <2>1. i \in 0 .. MaxRows
    BY RowBounds DEF RowIds
  <2> QED
    BY <2>1, RowReqIdleIsTyped DEF RowReq
<1>2. rreq' = [rreq EXCEPT ![r] = k]
  BY DEF AnswerRow
<1> HIDE DEF k
<1> QED
  BY <1>1, <1>2 DEF RowTypeOK

\* A row that changes keeps its owner, and the rest stay.
LEMMA RowChanges ==
    ASSUME RowTypeOK, NEW i \in RowIds, ChangeRow(i)
    PROVE  /\ dataRows' \in [RowIds -> Row] /\ dataRows'[i].owner = dataRows[i].owner
           /\ \A j \in RowIds \ {i} : dataRows'[j] = dataRows[j]
BY DEF ChangeRow, RowTypeOK, Row

\* A row that is inserted has the owner it is given, and the rest stay.
LEMMA RowIsInserted ==
    ASSUME RowTypeOK, NEW i \in RowIds, NEW u \in EndUsers \cup {NoUser}, InsertRow(i, u)
    PROVE  /\ dataRows' \in [RowIds -> Row] /\ ~Kept(i) /\ dataRows'[i].owner = u /\ dataRows'[i].state = "live"
           /\ \A j \in RowIds \ {i} : dataRows'[j] = dataRows[j]
<1>1. PICK keyed \in BOOLEAN : dataRows' = [dataRows EXCEPT ![i] = [state |-> "live", owner |-> u, keyed |-> keyed]]
  BY DEF InsertRow
<1>2. [state |-> "live", owner |-> u, keyed |-> keyed] \in Row
  BY DEF Row
<1> QED
  BY <1>1, <1>2 DEF InsertRow, RowTypeOK

\* Only the row that is deleted changes.
LEMMA RowGoes ==
    ASSUME RowTypeOK, NEW i \in RowIds, NEW q \in RowReq, DeleteRow(q, i)
    PROVE  dataRows' \in [RowIds -> Row] /\ \A j \in RowIds \ {i} : dataRows'[j] = dataRows[j]
<1>1. [dataRows[i] EXCEPT !.state = "deleted"] \in Row
  BY DEF RowTypeOK, Row
<1> QED
  BY <1>1, RowReqIdleIsTyped DEF RowTypeOK, DeleteRow

\* A request that runs while soft delete is off, or whose SQL was built then, knows it; and
\* what has no request behind it is not scoped by owner.
RowReqKnows(q) ==
    /\ q.pc \in {"open", "built", "ignored", "fetch"} =>
          (~softDelete \/ (q.pc \in {"built", "fetch"} /\ ~q.soft) => q.off)
    /\ q.pc \in {"idle", "job"} => q.mode # "owner"

\* The types, and what the requests know.
RowInv == RowTypeOK /\ \A r \in RowReqs : RowReqKnows(rreq[r])

\* What a request that takes a step may touch and answer with.
Touches(r) ==
    /\ \A i \in RowIds : dataRows'[i] # dataRows[i] =>
          (rreq[r].mode = "owner" => rreq[r].user = IF Kept(i) THEN dataRows[i].owner ELSE dataRows'[i].owner)
    /\ Answers(r) =>
          /\ rreq[r].mode = "owner" /\ rreq'[r].via # "conflict" => dataRows'[rreq'[r].row].owner = rreq[r].user
          /\ ~rreq[r].off /\ rreq'[r].via \in {"key", "list"} => dataRows'[rreq'[r].row].state = "live"

\* The idle request has nothing to know.
LEMMA RowIdleKnows == RowReqKnows(RowReqIdle)
BY DEF RowReqIdle, RowReqKnows

\* A step of a request r, from the two kinds that there are: those that answer and those
\* that do not.
LEMMA RowQuietStep ==
    ASSUME RowInv, NEW r \in RowReqs, NEW k \in RowReq, rreq' = [rreq EXCEPT ![r] = k],
           k.pc # "answered", RowReqKnows(k), dataRows' \in [RowIds -> Row], RowSettingsKept,
           rreq[r].mode = "owner" =>
             \A i \in RowIds : dataRows'[i] # dataRows[i] => Kept(i) /\ FilterOwner(rreq[r], i)
    PROVE  RowInv' /\ Touches(r) /\ \A q \in RowReqs \ {r} : rreq'[q] = rreq[q]
<1>1. /\ rreq' \in [RowReqs -> RowReq] /\ rreq'[r] = k
      /\ \A q \in RowReqs \ {r} : rreq'[q] = rreq[q]
  BY DEF RowInv, RowTypeOK
<1>2. RowTypeOK'
  BY <1>1 DEF RowInv, RowTypeOK, RowSettingsKept
<1>3. \A q \in RowReqs : RowReqKnows(rreq[q])'
  BY <1>1 DEF RowInv, RowReqKnows, RowSettingsKept
<1>4. Touches(r)
  BY <1>1 DEF Touches, Answers, FilterOwner
<1> QED
  BY <1>1, <1>2, <1>3, <1>4 DEF RowInv

\* One that answers with a row.
LEMMA RowAnswerStep ==
    ASSUME RowInv, NEW r \in RowReqs, NEW i \in RowIds, NEW how \in {"key", "list", "asked", "id"},
           AnswerRow(r, i, how), RowSettingsKept,
           dataRows' \in [RowIds -> Row], \A j \in RowIds \ {i} : dataRows'[j] = dataRows[j],
           rreq[r].mode = "owner" =>
             dataRows'[i].owner = rreq[r].user /\ (Kept(i) => dataRows[i].owner = rreq[r].user),
           ~rreq[r].off /\ how \in {"key", "list"} => dataRows'[i].state = "live"
    PROVE  RowInv' /\ Touches(r) /\ \A q \in RowReqs \ {r} : rreq'[q] = rreq[q]
<1>1. /\ rreq' \in [RowReqs -> RowReq]
      /\ rreq'[r].pc = "answered" /\ rreq'[r].row = i /\ rreq'[r].via = how
      /\ \A q \in RowReqs \ {r} : rreq'[q] = rreq[q]
  BY RowAnswers DEF RowInv
<1>2. RowTypeOK'
  BY <1>1 DEF RowInv, RowTypeOK, RowSettingsKept
<1>3. \A q \in RowReqs : RowReqKnows(rreq[q])'
  BY <1>1 DEF RowInv, RowReqKnows, RowSettingsKept
<1>4. Touches(r)
  BY <1>1 DEF Touches
<1> QED
  BY <1>1, <1>2, <1>3, <1>4 DEF RowInv

\* The steps of a request.
RowStep(r) ==
    \/ ResolveOwner(r) \/ BuildSQL(r) \/ EndRequest(r)
    \/ BeginJob(r) \/ DataBrowserDelete(r) \/ PurgeExpiredSoftDeletes(r)
    \/ HandleList(r) \/ HandleGetByID(r) \/ HandleUpdate(r) \/ HandleDelete(r) \/ HandleCreate(r)
    \/ OnConflictUpdate(r) \/ OnConflictIgnore(r) \/ FetchRowByColumns(r)

\* What a request reads of the setting it knows.
LEMMA RowReadsSetting ==
    ASSUME RowInv, NEW r \in RowReqs,
           NEW from \in {"open", "ignored", "idle"}, NEW to \in {"built", "fetch", "job"},
           from = "idle" <=> to = "job", ReadSoftDelete(r, from, to)
    PROVE  RowInv' /\ Touches(r) /\ \A q \in RowReqs \ {r} : rreq'[q] = rreq[q]
<1> DEFINE k == [rreq[r] EXCEPT !.pc = to, !.soft = softDelete]
<1>1. rreq[r] \in RowReq /\ rreq[r].pc = from /\ softDelete \in BOOLEAN /\ RowReqKnows(rreq[r])
  BY DEF RowInv, RowTypeOK, ReadSoftDelete, RowReqAt
<1>2. k \in RowReq /\ k.pc = to /\ k.soft = softDelete /\ k.off = rreq[r].off /\ k.mode = rreq[r].mode
  BY <1>1 DEF RowReq
<1>3. rreq' = [rreq EXCEPT ![r] = k] /\ RowSettingsKept /\ UNCHANGED dataRows
  BY DEF ReadSoftDelete, RowSettingsKept, RowInv, RowTypeOK
<1> HIDE DEF k
<1>4. RowReqKnows(k)
  BY <1>1, <1>2 DEF RowReqKnows
<1>5. dataRows' \in [RowIds -> Row]
  BY <1>3 DEF RowInv, RowTypeOK
<1> QED
  BY <1>2, <1>3, <1>4, <1>5, RowQuietStep

\* A deletion, of a request or of the dashboard.
LEMMA RowDeletion ==
    ASSUME RowInv, NEW r \in RowReqs, HandleDelete(r) \/ DataBrowserDelete(r)
    PROVE  RowInv' /\ Touches(r) /\ \A q \in RowReqs \ {r} : rreq'[q] = rreq[q]
<1>1. PICK i \in BuildDelete(rreq[r]) : DeleteRow(rreq[r], i)
  BY DEF HandleDelete, DataBrowserDelete
<1>2. i \in RowIds /\ FilterOwner(rreq[r], i) /\ Kept(i)
  BY DEF BuildDelete
<1>3. rreq' = [rreq EXCEPT ![r] = RowReqIdle] /\ RowSettingsKept
  BY DEF HandleDelete, DataBrowserDelete
<1>4. dataRows' \in [RowIds -> Row] /\ \A j \in RowIds \ {i} : dataRows'[j] = dataRows[j]
  <2>1. rreq[r] \in RowReq
    BY DEF RowInv, RowTypeOK
  <2> QED
    BY <1>1, <1>2, <2>1, RowGoes DEF RowInv
<1> QED
  BY <1>2, <1>3, <1>4, RowQuietStep, RowIdleKnows, RowReqIdleIsTyped

\* A step of a request is of the rows it may touch; this is the one case distinction.
LEMMA RowStepTouches ==
    ASSUME RowInv, NEW r \in RowReqs, RowStep(r)
    PROVE  RowInv' /\ Touches(r) /\ \A q \in RowReqs \ {r} : rreq'[q] = rreq[q]
<1> USE RowBounds
<1>0. /\ rreq \in [RowReqs -> RowReq] /\ rreq[r] \in RowReq /\ dataRows \in [RowIds -> Row] /\ rlsMode \in RlsModes
      /\ softDelete \in BOOLEAN /\ RowTypeOK /\ RowReqKnows(rreq[r])
  BY DEF RowInv, RowTypeOK
<1>1. CASE ResolveOwner(r)
  <2>1. PICK u \in EndUsers \cup {NoUser} :
          rreq' = [rreq EXCEPT ![r] = [RowReqIdle EXCEPT !.pc = "open", !.user = u, !.mode = rlsMode,
                                                          !.off = ~softDelete]]
    BY <1>1 DEF ResolveOwner
  <2> DEFINE k == [RowReqIdle EXCEPT !.pc = "open", !.user = u, !.mode = rlsMode, !.off = ~softDelete]
  <2>2. k \in RowReq /\ k.pc = "open" /\ k.off = ~softDelete
    BY <1>0, RowReqIdleIsTyped DEF RowReq
  <2>3. rreq' = [rreq EXCEPT ![r] = k]
    BY <2>1
  <2> HIDE DEF k
  <2>4. RowReqKnows(k)
    BY <2>2 DEF RowReqKnows
  <2> QED
    BY <1>0, <1>1, <2>2, <2>3, <2>4, RowQuietStep DEF ResolveOwner, RowSettingsKept
<1>2. CASE BuildSQL(r)
  BY <1>2, RowReadsSetting DEF BuildSQL
<1>3. CASE BeginJob(r)
  BY <1>3, RowReadsSetting DEF BeginJob
<1>4. CASE EndRequest(r)
  BY <1>0, <1>4, RowQuietStep, RowIdleKnows, RowReqIdleIsTyped DEF EndRequest
<1>5. CASE HandleDelete(r) \/ DataBrowserDelete(r)
  BY <1>5, RowDeletion
<1>6. CASE PurgeExpiredSoftDeletes(r)
  <2>1. PICK old \in SUBSET {i \in RowIds : dataRows[i].state = "deleted"} :
          dataRows' = [i \in RowIds |-> IF i \in old THEN NoRow ELSE dataRows[i]]
    BY <1>6 DEF PurgeExpiredSoftDeletes
  <2>2. dataRows' \in [RowIds -> Row]
    BY <1>0, <2>1, RowReqIdleIsTyped
  <2>3. rreq[r].mode # "owner"
    BY <1>0, <1>6 DEF PurgeExpiredSoftDeletes, RowReqKnows, RowReqAt
  <2> QED
    BY <1>6, <2>2, <2>3, RowQuietStep, RowIdleKnows, RowReqIdleIsTyped DEF PurgeExpiredSoftDeletes
<1>7. CASE HandleList(r)
  <2>1. PICK shown \in BOOLEAN : \E i \in BuildList(rreq[r], shown) :
          AnswerRow(r, i, IF shown THEN "asked" ELSE "list")
    BY <1>7 DEF HandleList
  <2>0. PICK i \in BuildList(rreq[r], shown) : AnswerRow(r, i, IF shown THEN "asked" ELSE "list")
    BY <2>1
  <2>2. i \in RowIds /\ FilterOwner(rreq[r], i) /\ (rreq[r].soft /\ ~shown => IsLive(i))
    BY DEF BuildList
  <2>3. RowReqAt(r, "built") /\ RowSettingsKept /\ UNCHANGED dataRows
    BY <1>7 DEF HandleList
  <2>4. ~rreq[r].off => rreq[r].soft
    BY <1>0, <2>3 DEF RowReqKnows, RowReqAt
  <2>5. CASE shown
    BY <1>0, <2>0, <2>2, <2>3, <2>5, RowAnswerStep DEF FilterOwner
  <2>6. CASE ~shown
    BY <1>0, <2>0, <2>2, <2>3, <2>4, <2>6, RowAnswerStep DEF FilterOwner, IsLive
  <2> QED
    BY <2>5, <2>6
<1>8. CASE HandleGetByID(r)
  BY <1>0, <1>8, RowAnswerStep DEF HandleGetByID, BuildGetByID, FilterOwner
<1>9. CASE HandleUpdate(r)
  <2>1. PICK i \in BuildUpdate(rreq[r]) : ChangeRow(i) /\ AnswerRow(r, i, "id")
    BY <1>9 DEF HandleUpdate
  <2>2. i \in RowIds /\ FilterOwner(rreq[r], i)
    BY DEF BuildUpdate
  <2> QED
    BY <1>0, <1>9, <2>1, <2>2, RowChanges, RowAnswerStep DEF HandleUpdate, FilterOwner
<1>10. CASE HandleCreate(r)
  <2>1. PICK i \in RowIds : InsertRow(i, rreq[r].user) /\ AnswerRow(r, i, "key")
    BY <1>10 DEF HandleCreate
  <2>2. rreq[r].user \in EndUsers \cup {NoUser}
    BY <1>0 DEF RowReq
  <2> QED
    BY <1>0, <1>10, <2>1, <2>2, RowIsInserted, RowAnswerStep DEF HandleCreate
<1>11. CASE OnConflictUpdate(r)
  <2>1. PICK i \in Keyed : ConflictGuard(rreq[r], i) /\ AnswerRow(r, i, "key")
    BY <1>11 DEF OnConflictUpdate
  <2>2. i \in RowIds /\ FilterOwner(rreq[r], i) /\ (rreq[r].soft => IsLive(i))
    BY <2>1 DEF Keyed, ConflictGuard
  <2>3. ~rreq[r].off => rreq[r].soft
    BY <1>0, <1>11 DEF OnConflictUpdate, RowReqKnows, RowReqAt
  <2> QED
    BY <1>0, <1>11, <2>1, <2>2, <2>3, RowAnswerStep DEF OnConflictUpdate, FilterOwner, IsLive
<1>12. CASE OnConflictIgnore(r)
  <2> DEFINE k == [rreq[r] EXCEPT !.pc = "ignored", !.soft = TRUE]
  <2>1. k \in RowReq /\ k.pc = "ignored" /\ k.off = rreq[r].off
    BY <1>0 DEF RowReq
  <2>2. rreq' = [rreq EXCEPT ![r] = k] /\ RowSettingsKept /\ UNCHANGED dataRows
    BY <1>0, <1>12 DEF OnConflictIgnore
  <2>3. RowReqAt(r, "built")
    BY <1>12 DEF OnConflictIgnore
  <2> HIDE DEF k
  <2>4. RowReqKnows(k)
    BY <1>0, <2>1, <2>3 DEF RowReqKnows, RowReqAt
  <2> QED
    BY <1>0, <2>1, <2>2, <2>4, RowQuietStep
<1>13. CASE FetchRowByColumns(r)
  <2> DEFINE found == {i \in Keyed : ConflictGuard(rreq[r], i)}
  <2>0. RowSettingsKept /\ UNCHANGED dataRows /\ RowReqAt(r, "fetch")
    BY <1>13 DEF FetchRowByColumns
  <2>1. CASE found = {}
    <3>1. AnswerRow(r, 0, "conflict")
      BY <1>13, <2>1 DEF FetchRowByColumns
    <3>2. /\ rreq' \in [RowReqs -> RowReq] /\ rreq'[r].pc = "answered" /\ rreq'[r].via = "conflict"
          /\ \A q \in RowReqs \ {r} : rreq'[q] = rreq[q]
      BY <1>0, <3>1, RowAnswers
    <3>3. RowTypeOK'
      BY <1>0, <2>0, <3>2 DEF RowTypeOK, RowSettingsKept
    <3>4. \A q \in RowReqs : RowReqKnows(rreq[q])'
      BY <2>0, <3>2 DEF RowInv, RowReqKnows, RowSettingsKept
    <3> QED
      BY <2>0, <3>2, <3>3, <3>4 DEF Touches, RowInv
  <2>2. CASE found # {}
    <3>1. PICK i \in found : AnswerRow(r, i, "key")
      BY <1>13, <2>2 DEF FetchRowByColumns
    <3>2. i \in RowIds /\ FilterOwner(rreq[r], i) /\ (rreq[r].soft => IsLive(i))
      BY <3>1 DEF Keyed, ConflictGuard
    <3>3. ~rreq[r].off => rreq[r].soft
      BY <1>0, <2>0 DEF RowReqKnows, RowReqAt
    <3> QED
      BY <1>0, <2>0, <3>1, <3>2, <3>3, RowAnswerStep DEF FilterOwner, IsLive
  <2> QED
    BY <2>1, <2>2
<1> QED
  BY <1>1, <1>2, <1>3, <1>4, <1>5, <1>6, <1>7, <1>8, <1>9, <1>10, <1>11, <1>12, <1>13 DEF RowStep

\* Only a request that takes a step changes or answers anything of its own; a setting that is
\* switched off is known to every request that runs.
LEMMA RowStepTyped ==
    RowInv /\ [RowNext]_rowVars =>
      /\ RowInv'
      /\ \A r \in RowReqs : Taken(r) => Touches(r)
<1> SUFFICES ASSUME RowInv, [RowNext]_rowVars
             PROVE  RowInv' /\ \A r \in RowReqs : Taken(r) => Touches(r)
  OBVIOUS
<1>0. /\ rreq \in [RowReqs -> RowReq] /\ dataRows \in [RowIds -> Row] /\ rlsMode \in RlsModes /\ softDelete \in BOOLEAN
      /\ RowTypeOK
  BY DEF RowInv, RowTypeOK
<1>1. ASSUME NEW r \in RowReqs, RowStep(r)
      PROVE  RowInv' /\ \A q \in RowReqs : Taken(q) => Touches(q)
  BY <1>1, RowStepTouches DEF Taken
<1>2. ASSUME UNCHANGED rreq, dataRows' \in [RowIds -> Row], rlsMode' \in RlsModes, UNCHANGED softDelete
      PROVE  RowInv' /\ \A q \in RowReqs : Taken(q) => Touches(q)
  <2>1. RowTypeOK'
    BY <1>0, <1>2 DEF RowTypeOK
  <2>2. \A q \in RowReqs : RowReqKnows(rreq[q])'
    BY <1>2 DEF RowInv, RowReqKnows
  <2> QED
    BY <1>2, <2>1, <2>2 DEF RowInv, Taken
<1>3. ASSUME NEW i \in RowIds, DataBrowserCreate(i) \/ DataBrowserUpdate(i)
      PROVE  RowInv' /\ \A q \in RowReqs : Taken(q) => Touches(q)
  <2>1. UNCHANGED <<rlsMode, softDelete, rreq>>
    BY <1>3 DEF DataBrowserCreate, DataBrowserUpdate
  <2>2. dataRows' \in [RowIds -> Row]
    BY <1>0, <1>3, RowChanges, RowIsInserted DEF DataBrowserCreate, DataBrowserUpdate
  <2> QED
    BY <1>0, <1>2, <2>1, <2>2
<1>4. ASSUME NEW m \in RlsModes, SetRlsMode(m)
      PROVE  RowInv' /\ \A q \in RowReqs : Taken(q) => Touches(q)
  BY <1>0, <1>2, <1>4 DEF SetRlsMode
<1>5. ASSUME NEW s \in BOOLEAN, SetSoftDelete(s)
      PROVE  RowInv' /\ \A q \in RowReqs : Taken(q) => Touches(q)
  <2> DEFINE knowing(q) == [rreq[q] EXCEPT !.off = @ \/ ~s]
  <2>1. rreq' = [q \in RowReqs |-> IF Running(q) THEN knowing(q) ELSE rreq[q]]
    BY <1>5 DEF SetSoftDelete
  <2>2. softDelete' = s /\ UNCHANGED <<rlsMode, dataRows>>
    BY <1>5 DEF SetSoftDelete
  <2>3. ASSUME NEW q \in RowReqs
        PROVE  /\ knowing(q) \in RowReq /\ knowing(q).pc = rreq[q].pc /\ knowing(q).mode = rreq[q].mode
               /\ knowing(q).soft = rreq[q].soft /\ (rreq[q].off => knowing(q).off) /\ (~s => knowing(q).off)
    BY <1>0 DEF RowReq
  <2> HIDE DEF knowing
  <2>4. ASSUME NEW q \in RowReqs
        PROVE  rreq'[q] \in RowReq /\ RowReqKnows(rreq[q])' /\ rreq'[q].pc = rreq[q].pc
    <3>1. RowReqKnows(rreq[q]) /\ rreq[q] \in RowReq
      BY <1>0 DEF RowInv
    <3>2. CASE Running(q)
      <4>1. rreq'[q] = knowing(q)
        BY <2>1, <3>2
      <4> QED
        BY <2>2, <2>3, <3>1, <3>2, <4>1 DEF RowReqKnows, Running
    <3>3. CASE ~Running(q)
      <4>1. rreq'[q] = rreq[q]
        BY <2>1, <3>3
      <4> QED
        BY <2>2, <3>1, <3>3, <4>1 DEF RowReqKnows, Running
    <3> QED
      BY <3>2, <3>3
  <2>5. rreq' \in [RowReqs -> RowReq]
    BY <1>0, <2>1, <2>3
  <2>6. RowTypeOK'
    BY <1>0, <2>2, <2>5 DEF RowTypeOK
  <2> QED
    BY <2>4, <2>6 DEF RowInv, Taken
<1>6. CASE UNCHANGED rowVars
  BY <1>0, <1>2, <1>6 DEF rowVars
<1> QED
  BY <1>1, <1>3, <1>4, <1>5, <1>6 DEF RowNext, RowStep

\* The rows have their types before any request.
LEMMA RowStart == RowInit => RowInv
BY RowReqIdleIsTyped DEF RowInit, RowInv, RowTypeOK, RlsModes, RowReqKnows, RowReqIdle

\* What a request changes and answers with is its own user's, and a list, a creation or an
\* upsert answers with a deleted row only if soft delete was off at some time of the request,
\* whatever the dashboard does to the rows, the mode and the setting meanwhile.
THEOREM RowAnswersRight == RowSpec => AnswersAreRight
<1>1. RowInit => RowInv
  BY RowStart
<1>2. RowInv /\ [RowNext]_rowVars => RowInv'
  BY RowStepTyped
<1>3. RowInv /\ [RowNext]_rowVars =>
        [\A r \in RowReqs : Taken(r) /\ rreq[r].mode = "owner" =>
          /\ \A i \in RowIds : dataRows'[i] # dataRows[i] =>
                rreq[r].user = IF Kept(i) THEN dataRows[i].owner ELSE dataRows'[i].owner
          /\ Answers(r) /\ rreq'[r].via # "conflict" => dataRows'[rreq'[r].row].owner = rreq[r].user]_rowVars
  BY RowStepTyped DEF Touches
<1>4. RowInv /\ [RowNext]_rowVars =>
        [\A r \in RowReqs : Answers(r) /\ rreq'[r].via \in {"key", "list"} /\ ~rreq[r].off =>
          dataRows'[rreq'[r].row].state = "live"]_rowVars
  <2>1. \A r \in RowReqs : Answers(r) => Taken(r)
    BY DEF Answers, RowReqAt, Taken
  <2> QED
    BY <2>1, RowStepTyped DEF Touches
<1> QED
  BY <1>1, <1>2, <1>3, <1>4, PTL DEF RowSpec, AnswersAreRight, OwnersAreApart, AnswerIsLive

-----------------------------------------------------------------------------
(* Files. Keys are drawn in turn, so the key of an upload is its own; an   *)
(* object without a row, or a row without its object, is in the hands of   *)
(* the request that makes or removes it, or was left by a known accident.  *)

\* A request q that is under way names a file that was begun, and one that uploads works on
\* the bucket where the file is at home; before the row, the file is no one else's.
UploadIsOwn(r, q) ==
    /\ q.pc # "idle" => q.key \in 1 .. uploads
    /\ q.pc \in {"put", "insert", "undo"} => q.bucket = home[q.key]
    /\ q.pc \in {"put", "insert"} =>
        /\ q.key \notin file
        /\ \A s \in FileReqs \ {r} : fileReq[s].pc # "idle" => fileReq[s].key # q.key
    /\ q.pc = "put" => object[q.key] = {}
    /\ q.pc = "insert" => home[q.key] \in object[q.key]
    /\ q.pc = "undo" /\ q.key \in file => q.key \in halfDone
    /\ q.pc = "forget" => q.bucket \notin object[q.key]

\* Files get their keys in turn, and an object is in the bucket it was uploaded to.
KeysInTurn ==
    \A k \in FileKeys :
        /\ object[k] \subseteq {home[k]}
        /\ k <= uploads => home[k] \in Buckets
        /\ k > uploads => object[k] = {} /\ k \notin file

\* The inductive invariant.
FileInv ==
    /\ FileTypeOK
    /\ KeysInTurn
    /\ \A r \in FileReqs : UploadIsOwn(r, fileReq[r])
    /\ FilesMatchObjects

-----------------------------------------------------------------------------
\* A request moves on with its key and its bucket; the others do not move.
LEMMA FileMoves ==
    ASSUME NEW r \in FileReqs, NEW pc \in {"insert", "undo", "forget"}, FileTypeOK, FileStep(r, pc)
    PROVE  /\ fileReq' \in [FileReqs -> FileReq]
           /\ fileReq'[r].pc = pc /\ fileReq'[r].key = fileReq[r].key /\ fileReq'[r].bucket = fileReq[r].bucket
           /\ \A s \in FileReqs \ {r} : fileReq'[s] = fileReq[s]
<1>1. fileReq[r] \in FileReq
  BY DEF FileTypeOK
<1>2. [fileReq[r] EXCEPT !.pc = pc] \in FileReq
  BY <1>1 DEF FileReq
<1> QED
  BY <1>1, <1>2 DEF FileTypeOK, FileStep, FileReq

\* A request ends.
LEMMA FileEnds ==
    ASSUME NEW r \in FileReqs, FileTypeOK, FileDone(r)
    PROVE  /\ fileReq' \in [FileReqs -> FileReq]
           /\ fileReq'[r].pc = "idle"
           /\ \A s \in FileReqs \ {r} : fileReq'[s] = fileReq[s]
<1>1. FileIdle \in FileReq
  BY FileBounds DEF FileIdle, FileReq
<1> QED
  BY <1>1 DEF FileTypeOK, FileDone, FileIdle

\* A request begins on a file.
LEMMA FileBegins ==
    ASSUME NEW r \in FileReqs, NEW pc \in {"put", "remove"}, NEW k \in FileKeys, FileTypeOK,
           fileReq' = [fileReq EXCEPT ![r] = [pc |-> pc, key |-> k, bucket |-> bucket]]
    PROVE  /\ fileReq' \in [FileReqs -> FileReq]
           /\ fileReq'[r].pc = pc /\ fileReq'[r].key = k /\ fileReq'[r].bucket = bucket
           /\ \A s \in FileReqs \ {r} : fileReq'[s] = fileReq[s]
<1>1. [pc |-> pc, key |-> k, bucket |-> bucket] \in FileReq
  BY DEF FileTypeOK, FileReq, FileKeys
<1> QED
  BY <1>1 DEF FileTypeOK

\* What the invariant says of the file a request works on.
LEMMA FileOf ==
    ASSUME NEW r \in FileReqs, FileInv, fileReq[r].pc # "idle"
    PROVE  /\ fileReq[r].key \in FileKeys /\ fileReq[r].key <= uploads
           /\ fileReq[r].bucket \in Buckets \cup {NoBucket}
           /\ object[fileReq[r].key] \subseteq {home[fileReq[r].key]}
           /\ fileReq[r].pc = "put" => fileReq[r].bucket \in Buckets
           /\ UploadIsOwn(r, fileReq[r])
<1>1. fileReq[r].key \in FileKeys /\ fileReq[r].key <= uploads /\ fileReq[r].bucket \in Buckets \cup {NoBucket}
  BY FileBounds DEF FileInv, FileTypeOK, UploadIsOwn, FileReq, FileKeys
<1> QED
  BY <1>1 DEF FileInv, UploadIsOwn, KeysInTurn

\* Every step keeps the inductive invariant.
LEMMA FileStepInv == FileInv /\ [FileNext]_fileVars => FileInv'
<1> SUFFICES ASSUME FileInv, [FileNext]_fileVars PROVE FileInv'
  OBVIOUS
<1> USE FileBounds
<1> USE DEF FileTypeOK, FileKeys
<1>0. FileTypeOK /\ KeysInTurn /\ (\A s \in FileReqs : UploadIsOwn(s, fileReq[s])) /\ FileHasItsObject /\ ObjectHasItsFile
  BY DEF FileInv, FilesMatchObjects
<1>1. ASSUME NEW r \in FileReqs, HandleFileUpload(r) PROVE FileInv'
    <2>0. uploads + 1 \in FileKeys
    BY <1>0, <1>1 DEF HandleFileUpload
  <2>1. PICK k \in FileKeys : k = uploads + 1 /\ fileReq' = [fileReq EXCEPT ![r] = [pc |-> "put", key |-> k, bucket |-> bucket]]
    BY <2>0, <1>1 DEF HandleFileUpload
  <2>2. /\ fileReq' \in [FileReqs -> FileReq]
        /\ fileReq'[r].pc = "put" /\ fileReq'[r].key = k /\ fileReq'[r].bucket = bucket
        /\ \A s \in FileReqs \ {r} : fileReq'[s] = fileReq[s]
    BY <1>0, <2>1, FileBegins
  <2>3. fileReq[r].pc = "idle"
    BY <1>1 DEF HandleFileUpload, FileAt
  <2> USE <1>0, <1>1, <2>1, <2>2, <2>3 DEF HandleFileUpload, FileAt
  <2>4. FileTypeOK'
    BY DEF KeysInTurn, UploadIsOwn
  <2>5. KeysInTurn'
    BY DEF KeysInTurn, UploadIsOwn
  <2>6. \A s \in FileReqs : UploadIsOwn(s, fileReq[s])'
    BY DEF KeysInTurn, UploadIsOwn
  <2>7. FileHasItsObject'
    BY DEF KeysInTurn, UploadIsOwn, FileHasItsObject, AtWork
  <2>8. ObjectHasItsFile'
    BY DEF KeysInTurn, UploadIsOwn, ObjectHasItsFile, AtWork
  <2> QED
    BY <2>4, <2>5, <2>6, <2>7, <2>8 DEF FileInv, FilesMatchObjects
<1>2. ASSUME NEW r \in FileReqs, Upload(r) PROVE FileInv'
  <2>1. fileReq[r].pc = "put" /\ UploadIsOwn(r, fileReq[r])
    BY <1>0, <1>2 DEF Upload, FileAt
  <2>2. /\ fileReq' \in [FileReqs -> FileReq]
        /\ fileReq'[r].pc = "insert" /\ fileReq'[r].key = fileReq[r].key /\ fileReq'[r].bucket = fileReq[r].bucket
        /\ \A s \in FileReqs \ {r} : fileReq'[s] = fileReq[s]
    BY <1>0, <1>2, FileMoves DEF Upload
  <2>3. fileReq[r].key \in FileKeys /\ fileReq[r].key <= uploads
    BY <2>1, FileOf
  <2>4. /\ object' \in [FileKeys -> SUBSET Buckets]
        /\ object'[fileReq[r].key] = object[fileReq[r].key] \cup {fileReq[r].bucket}
        /\ \A k \in FileKeys \ {fileReq[r].key} : object'[k] = object[k]
    BY <1>0, <1>2, <2>1, <2>3, FileOf DEF Upload, FileKeys, UploadIsOwn, KeysInTurn
  <2>5. UNCHANGED <<bucket, uploads, file, home, halfDone, strayed>>
    BY <1>2 DEF Upload
  <2> USE <1>0, <2>1, <2>2, <2>3, <2>4, <2>5
  <2>6. FileTypeOK'
    BY DEF KeysInTurn, UploadIsOwn
  <2>7. KeysInTurn'
    BY SMTT(60) DEF KeysInTurn, UploadIsOwn
  <2>8. \A s \in FileReqs : UploadIsOwn(s, fileReq[s])'
    BY DEF KeysInTurn, UploadIsOwn
  <2>9. FileHasItsObject'
    BY SMTT(60) DEF KeysInTurn, UploadIsOwn, FileHasItsObject, AtWork
  <2>10. ObjectHasItsFile'
    BY DEF KeysInTurn, UploadIsOwn, ObjectHasItsFile, AtWork
  <2> QED
    BY <2>6, <2>7, <2>8, <2>9, <2>10 DEF FileInv, FilesMatchObjects
<1>3. ASSUME NEW r \in FileReqs, InsertFile(r) PROVE FileInv'
  <2>1. fileReq[r].pc # "idle" /\ UploadIsOwn(r, fileReq[r])
    BY <1>0, <1>3 DEF InsertFile, FileAt
  <2>2. /\ fileReq' \in [FileReqs -> FileReq]
        /\ fileReq'[r].pc = "idle"
        /\ \A s \in FileReqs \ {r} : fileReq'[s] = fileReq[s]
    BY <1>0, <1>3, FileEnds DEF InsertFile
  <2>3. fileReq[r].key \in FileKeys /\ fileReq[r].key <= uploads
    BY <2>1, FileOf
  <2> USE <1>0, <1>3, <2>1, <2>2, <2>3 DEF InsertFile, FileAt
  <2>4. FileTypeOK'
    BY DEF KeysInTurn, UploadIsOwn
  <2>5. KeysInTurn'
    BY DEF KeysInTurn, UploadIsOwn
  <2>6. \A s \in FileReqs : UploadIsOwn(s, fileReq[s])'
    BY DEF KeysInTurn, UploadIsOwn
  <2>7. FileHasItsObject'
    BY DEF KeysInTurn, UploadIsOwn, FileHasItsObject, AtWork
  <2>8. ObjectHasItsFile'
    BY DEF KeysInTurn, UploadIsOwn, ObjectHasItsFile, AtWork
  <2> QED
    BY <2>4, <2>5, <2>6, <2>7, <2>8 DEF FileInv, FilesMatchObjects
<1>4. ASSUME NEW r \in FileReqs, InsertFails(r) PROVE FileInv'
  <2>1. fileReq[r].pc # "idle" /\ UploadIsOwn(r, fileReq[r])
    BY <1>0, <1>4 DEF InsertFails, FileAt
  <2>2. /\ fileReq' \in [FileReqs -> FileReq]
        /\ fileReq'[r].pc = "undo" /\ fileReq'[r].key = fileReq[r].key /\ fileReq'[r].bucket = fileReq[r].bucket
        /\ \A s \in FileReqs \ {r} : fileReq'[s] = fileReq[s]
    BY <1>0, <1>4, FileMoves DEF InsertFails
  <2>3. fileReq[r].key \in FileKeys /\ fileReq[r].key <= uploads
    BY <2>1, FileOf
  <2> USE <1>0, <1>4, <2>1, <2>2, <2>3 DEF InsertFails, FileAt
  <2>4. FileTypeOK'
    BY DEF KeysInTurn, UploadIsOwn
  <2>5. KeysInTurn'
    BY DEF KeysInTurn, UploadIsOwn
  <2>6. \A s \in FileReqs : UploadIsOwn(s, fileReq[s])'
    BY DEF KeysInTurn, UploadIsOwn
  <2>7. FileHasItsObject'
    BY DEF KeysInTurn, UploadIsOwn, FileHasItsObject, AtWork
  <2>8. ObjectHasItsFile'
    BY DEF KeysInTurn, UploadIsOwn, ObjectHasItsFile, AtWork
  <2> QED
    BY <2>4, <2>5, <2>6, <2>7, <2>8 DEF FileInv, FilesMatchObjects
<1>5. ASSUME NEW r \in FileReqs, UndoUpload(r) PROVE FileInv'
  <2>1. fileReq[r].pc = "undo" /\ UploadIsOwn(r, fileReq[r])
    BY <1>0, <1>5 DEF UndoUpload, FileAt
  <2>2. /\ fileReq' \in [FileReqs -> FileReq]
        /\ fileReq'[r].pc = "idle"
        /\ \A s \in FileReqs \ {r} : fileReq'[s] = fileReq[s]
    BY <1>0, <1>5, FileEnds DEF UndoUpload
  <2>3. fileReq[r].key \in FileKeys /\ fileReq[r].key <= uploads
    BY <2>1, FileOf
  <2>4. /\ object' \in [FileKeys -> SUBSET Buckets]
        /\ object'[fileReq[r].key] = object[fileReq[r].key] \ {fileReq[r].bucket}
        /\ \A k \in FileKeys \ {fileReq[r].key} : object'[k] = object[k]
    BY <1>0, <1>5, <2>1, <2>3, FileOf DEF UndoUpload, FileKeys
  <2>5. UNCHANGED <<bucket, uploads, file, home, halfDone, strayed>>
    BY <1>5 DEF UndoUpload
  <2> USE <1>0, <2>1, <2>2, <2>3, <2>4, <2>5
  <2>6. FileTypeOK'
    BY DEF KeysInTurn, UploadIsOwn
  <2>7. KeysInTurn'
    BY DEF KeysInTurn, UploadIsOwn
  <2>8. \A s \in FileReqs : UploadIsOwn(s, fileReq[s])'
    BY SMTT(60) DEF KeysInTurn, UploadIsOwn
  <2>9. FileHasItsObject'
    BY DEF KeysInTurn, UploadIsOwn, FileHasItsObject, AtWork
  <2>10. ObjectHasItsFile'
    BY SMTT(60) DEF KeysInTurn, UploadIsOwn, ObjectHasItsFile, AtWork
  <2> QED
    BY <2>6, <2>7, <2>8, <2>9, <2>10 DEF FileInv, FilesMatchObjects
<1>6. ASSUME NEW r \in FileReqs, HandleFileDelete(r) PROVE FileInv'
    <2>1. PICK k \in FileKeys : k \in file /\ fileReq' = [fileReq EXCEPT ![r] = [pc |-> "remove", key |-> k, bucket |-> bucket]]
    BY <1>0, <1>6 DEF HandleFileDelete
  <2>2. /\ fileReq' \in [FileReqs -> FileReq]
        /\ fileReq'[r].pc = "remove" /\ fileReq'[r].key = k /\ fileReq'[r].bucket = bucket
        /\ \A s \in FileReqs \ {r} : fileReq'[s] = fileReq[s]
    BY <1>0, <2>1, FileBegins
  <2>3. fileReq[r].pc = "idle"
    BY <1>6 DEF HandleFileDelete, FileAt
  <2> USE <1>0, <1>6, <2>1, <2>2, <2>3 DEF HandleFileDelete, FileAt
  <2>4. FileTypeOK'
    BY DEF KeysInTurn, UploadIsOwn
  <2>5. KeysInTurn'
    BY DEF KeysInTurn, UploadIsOwn
  <2>6. \A s \in FileReqs : UploadIsOwn(s, fileReq[s])'
    BY DEF KeysInTurn, UploadIsOwn
  <2>7. FileHasItsObject'
    BY DEF KeysInTurn, UploadIsOwn, FileHasItsObject, AtWork
  <2>8. ObjectHasItsFile'
    BY DEF KeysInTurn, UploadIsOwn, ObjectHasItsFile, AtWork
  <2> QED
    BY <2>4, <2>5, <2>6, <2>7, <2>8 DEF FileInv, FilesMatchObjects
<1>7. ASSUME NEW r \in FileReqs, RemoveObject(r) PROVE FileInv'
  <2>1. fileReq[r].pc = "remove" /\ UploadIsOwn(r, fileReq[r])
    BY <1>0, <1>7 DEF RemoveObject, FileAt
  <2>2. /\ fileReq' \in [FileReqs -> FileReq]
        /\ fileReq'[r].pc = "forget" /\ fileReq'[r].key = fileReq[r].key /\ fileReq'[r].bucket = fileReq[r].bucket
        /\ \A s \in FileReqs \ {r} : fileReq'[s] = fileReq[s]
    BY <1>0, <1>7, FileMoves DEF RemoveObject
  <2>3. fileReq[r].key \in FileKeys /\ fileReq[r].key <= uploads
    BY <2>1, FileOf
  <2>4. /\ object' \in [FileKeys -> SUBSET Buckets]
        /\ object'[fileReq[r].key] = object[fileReq[r].key] \ {fileReq[r].bucket}
        /\ \A k \in FileKeys \ {fileReq[r].key} : object'[k] = object[k]
    BY <1>0, <1>7, <2>1, <2>3, FileOf DEF RemoveObject, FileKeys
  <2>5. UNCHANGED <<bucket, uploads, file, home, halfDone, strayed>>
    BY <1>7 DEF RemoveObject
  <2> USE <1>0, <2>1, <2>2, <2>3, <2>4, <2>5
  <2>6. FileTypeOK'
    BY DEF KeysInTurn, UploadIsOwn
  <2>7. KeysInTurn'
    BY DEF KeysInTurn, UploadIsOwn
  <2>8. \A s \in FileReqs : UploadIsOwn(s, fileReq[s])'
    BY DEF KeysInTurn, UploadIsOwn
  <2>9. FileHasItsObject'
    BY SMTT(60) DEF KeysInTurn, UploadIsOwn, FileHasItsObject, AtWork
  <2>10. ObjectHasItsFile'
    BY SMTT(60) DEF KeysInTurn, UploadIsOwn, ObjectHasItsFile, AtWork
  <2> QED
    BY <2>6, <2>7, <2>8, <2>9, <2>10 DEF FileInv, FilesMatchObjects
<1>8. ASSUME NEW r \in FileReqs, ForgetFile(r) PROVE FileInv'
  <2>1. fileReq[r].pc # "idle" /\ UploadIsOwn(r, fileReq[r])
    BY <1>0, <1>8 DEF ForgetFile, FileAt
  <2>2. /\ fileReq' \in [FileReqs -> FileReq]
        /\ fileReq'[r].pc = "idle"
        /\ \A s \in FileReqs \ {r} : fileReq'[s] = fileReq[s]
    BY <1>0, <1>8, FileEnds DEF ForgetFile
  <2>3. fileReq[r].key \in FileKeys /\ fileReq[r].key <= uploads
    BY <2>1, FileOf
  <2> USE <1>0, <1>8, <2>1, <2>2, <2>3 DEF ForgetFile, FileAt
  <2>4. FileTypeOK'
    BY DEF KeysInTurn, UploadIsOwn
  <2>5. KeysInTurn'
    BY DEF KeysInTurn, UploadIsOwn
  <2>6. \A s \in FileReqs : UploadIsOwn(s, fileReq[s])'
    BY DEF KeysInTurn, UploadIsOwn
  <2>7. FileHasItsObject'
    BY DEF KeysInTurn, UploadIsOwn, FileHasItsObject, AtWork
  <2>8. ObjectHasItsFile'
    BY DEF KeysInTurn, UploadIsOwn, ObjectHasItsFile, AtWork
  <2> QED
    BY <2>4, <2>5, <2>6, <2>7, <2>8 DEF FileInv, FilesMatchObjects
<1>9. ASSUME NEW r \in FileReqs, FileRequestEnds(r) PROVE FileInv'
  <2>1. fileReq[r].pc # "idle" /\ UploadIsOwn(r, fileReq[r])
    BY <1>0, <1>9 DEF FileRequestEnds, FileAt
  <2>2. /\ fileReq' \in [FileReqs -> FileReq]
        /\ fileReq'[r].pc = "idle"
        /\ \A s \in FileReqs \ {r} : fileReq'[s] = fileReq[s]
    BY <1>0, <1>9, FileEnds DEF FileRequestEnds
  <2>3. fileReq[r].key \in FileKeys /\ fileReq[r].key <= uploads
    BY <2>1, FileOf
  <2> USE <1>0, <1>9, <2>1, <2>2, <2>3 DEF FileRequestEnds, FileAt
  <2>4. FileTypeOK'
    BY DEF KeysInTurn, UploadIsOwn
  <2>5. KeysInTurn'
    BY DEF KeysInTurn, UploadIsOwn
  <2>6. \A s \in FileReqs : UploadIsOwn(s, fileReq[s])'
    BY DEF KeysInTurn, UploadIsOwn
  <2>7. FileHasItsObject'
    BY DEF KeysInTurn, UploadIsOwn, FileHasItsObject, AtWork
  <2>8. ObjectHasItsFile'
    BY DEF KeysInTurn, UploadIsOwn, ObjectHasItsFile, AtWork
  <2> QED
    BY <2>4, <2>5, <2>6, <2>7, <2>8 DEF FileInv, FilesMatchObjects
<1>10. ASSUME NEW b \in Buckets, UpdateAppStorageConfig(b) PROVE FileInv'
  BY <1>0, <1>10 DEF UpdateAppStorageConfig, FileInv, FilesMatchObjects, KeysInTurn, UploadIsOwn, FileHasItsObject, ObjectHasItsFile, AtWork
<1>11. CASE UNCHANGED fileVars
  BY <1>0, <1>11 DEF fileVars, FileInv, FilesMatchObjects, KeysInTurn, UploadIsOwn, FileHasItsObject, ObjectHasItsFile, AtWork
<1> QED
  BY <1>1, <1>2, <1>3, <1>4, <1>5, <1>6, <1>7, <1>8, <1>9, <1>10, <1>11 DEF FileNext

\* The invariant holds where nothing was uploaded.
LEMMA FileStart == FileInit => FileInv
BY FileBounds DEF FileInit, FileInv, FileTypeOK, FileReq, FileIdle, FileKeys, FilesMatchObjects, KeysInTurn, UploadIsOwn, FileHasItsObject, ObjectHasItsFile, AtWork

\* Rows and objects match but for what a failure, a crash or another bucket left behind.
THEOREM FilesMatch == FileSpec => []FilesMatchObjects
<1>1. FileInv => FilesMatchObjects
  BY DEF FileInv
<1> QED
  BY <1>1, FileStart, FileStepInv, PTL DEF FileSpec

-----------------------------------------------------------------------------
(* Rate limiters. What a limiter counts is what the client passed in the   *)
(* window it counts for, and what it passed before is within the budget of *)
(* the window before that; the limiter of the sign-in form keeps the times *)
(* themselves, which a sweep drops only when they are old.                 *)

\* Stamps of one time are numbered in turn, so the next number is free.
Numbered(s) == \A x \in s : x.no <= Cardinality({y \in s : y.at = x.at})

\* The requests that passed since the window of the entry began.
Own(c) == Since(passed[c], entry[c].start)
Least(m, n) == IF m < n THEN m ELSE n

\* Limiters of windows: of the requests kept in the history, those of the window of the
\* entry are at most max, and as many as were counted unless it expired; those before it
\* were all of the window before.
WindowIsCounted(c) ==
    /\ entry[c].start <= now
    /\ entry[c].count = 0 =>
         /\ Cardinality(passed[c]) <= max
         /\ \A x \in passed[c] : x.at < now
    /\ entry[c].count > 0 =>
         /\ Cardinality(Own(c)) <= max /\ Cardinality(passed[c] \ Own(c)) <= max
         /\ \A x \in passed[c] : x.at <= entry[c].start + Window
         /\ ~Expired(entry[c]) => Cardinality(Own(c)) = Least(entry[c].count, max)

\* The limiter of sign-in keeps the very requests that passed in the window.
SignInKeepsTimes(c) ==
    /\ After(stamps[c], now - Window) = After(passed[c], now - Window)
    /\ Cardinality(After(passed[c], now - Window)) <= max

\* What both kinds share.
KeptInOrder(c) ==
    /\ stamps[c] \in SUBSET Stamps /\ IsFiniteSet(stamps[c]) /\ Numbered(stamps[c])
    /\ passed[c] \in SUBSET Stamps /\ IsFiniteSet(passed[c]) /\ Numbered(passed[c])
    /\ \A x \in passed[c] : now - Window <= x.at /\ x.at <= now

\* The inductive invariant.
LimInv ==
    /\ LimTypeOK
    /\ now >= Window
    /\ max = 0 => limiter = "app" /\ \A c \in Clients : entry[c].count = 0 /\ passed[c] = {}
    /\ \A c \in Clients : KeptInOrder(c) /\ IF limiter = "signin" THEN SignInKeepsTimes(c) ELSE WindowIsCounted(c)
    /\ RefusalIsEarned

-----------------------------------------------------------------------------
\* A part of a finite set is finite and no larger.
LEMMA PartIsSmaller ==
    ASSUME NEW S, IsFiniteSet(S), NEW T, T \subseteq S
    PROVE  IsFiniteSet(T) /\ Cardinality(T) \in Nat /\ Cardinality(S) \in Nat /\ Cardinality(T) <= Cardinality(S)
BY FS_Subset, FS_CardinalityType

\* The stamp of a request is a new one.
LEMMA StampIsNew ==
    ASSUME NEW s \in SUBSET Stamps, IsFiniteSet(s), Numbered(s), now \in Times
    PROVE  \E m \in Stamps :
             /\ Stamped(s) = s \cup {m} /\ m.at = now /\ m \notin s
             /\ m.no = Cardinality({x \in s : x.at = now}) + 1
             /\ IsFiniteSet(Stamped(s)) /\ Cardinality(Stamped(s)) = Cardinality(s) + 1 /\ Cardinality(s) \in Nat
             /\ Numbered(Stamped(s))
<1> DEFINE same == {x \in s : x.at = now}
           m == [at |-> now, no |-> Cardinality(same) + 1]
<1>1. IsFiniteSet(same) /\ Cardinality(same) \in Nat /\ Cardinality(s) \in Nat
  BY PartIsSmaller, FS_CardinalityType
<1>2. m \in Stamps /\ m.at = now /\ m.no = Cardinality(same) + 1 /\ Stamped(s) = s \cup {m}
  BY <1>1 DEF Stamps, Stamped
<1>3. m \notin s
  <2>1. \A x \in s : x.at = now => x.no <= Cardinality(same)
    BY DEF Numbered
  <2> QED
    BY <1>1, <1>2, <2>1 DEF Stamps
<1> HIDE DEF m
<1>4. IsFiniteSet(Stamped(s)) /\ Cardinality(Stamped(s)) = Cardinality(s) + 1
  BY <1>2, <1>3, FS_AddElement
<1>5. ASSUME NEW x \in Stamped(s) PROVE x.no <= Cardinality({y \in Stamped(s) : y.at = x.at})
  <2>1. CASE x.at = now
    <3>1. {y \in Stamped(s) : y.at = x.at} = same \cup {m}
      BY <1>2, <2>1
    <3>2. Cardinality(same \cup {m}) = Cardinality(same) + 1
      BY <1>1, <1>3, FS_AddElement
    <3>3. x \in same \/ x = m
      BY <1>2, <2>1
    <3>4. x \in same => x.no <= Cardinality(same) /\ x.no \in Nat
      BY DEF Numbered, Stamps
    <3>5. x.no <= Cardinality(same) + 1
      BY <1>1, <1>2, <3>3, <3>4
    <3> QED
      BY <3>1, <3>2, <3>5
  <2>2. CASE x.at # now
    <3>1. {y \in Stamped(s) : y.at = x.at} = {y \in s : y.at = x.at} /\ x \in s
      BY <1>2, <2>2
    <3> QED
      BY <3>1 DEF Numbered
  <2> QED
    BY <2>1, <2>2
<1> QED
  BY <1>1, <1>2, <1>3, <1>4, <1>5 DEF Numbered

\* What is left of the stamps when old ones are dropped is numbered still.
LEMMA StampsAreDropped ==
    ASSUME NEW s \in SUBSET Stamps, IsFiniteSet(s), Numbered(s), NEW t \in Int
    PROVE  /\ After(s, t) \in SUBSET Stamps /\ IsFiniteSet(After(s, t)) /\ Numbered(After(s, t))
           /\ Since(s, t) \in SUBSET Stamps /\ IsFiniteSet(Since(s, t)) /\ Numbered(Since(s, t))
<1>1. After(s, t) \subseteq s /\ Since(s, t) \subseteq s
  BY DEF After, Since
<1>2. \A x \in After(s, t) : {y \in After(s, t) : y.at = x.at} = {y \in s : y.at = x.at}
  BY DEF After
<1>3. \A x \in Since(s, t) : {y \in Since(s, t) : y.at = x.at} = {y \in s : y.at = x.at}
  BY DEF Since
<1> QED
  BY <1>1, <1>2, <1>3, PartIsSmaller DEF Numbered

\* What the types say of the parts of the state.
LEMMA LimitTypes ==
    ASSUME LimInv
    PROVE  /\ now \in Nat /\ now - Window \in Nat /\ now \in Times /\ max \in Nat /\ Window \in Nat \ {0}
           /\ budget \in Budgets /\ budget \in Nat \ {0} /\ (max # 0 => max \in Budgets)
           /\ swept \in Times /\ limiter \in Limiters
           /\ entry \in [Clients -> [count : Nat, start : Times]] /\ Times \subseteq Nat
           /\ \A c \in Clients : entry[c].count \in Nat /\ entry[c].start \in Times
           /\ stamps \in [Clients -> SUBSET Stamps] /\ passed \in [Clients -> SUBSET Stamps]
<1>1. Window \in Nat \ {0} /\ MaxTime \in Nat /\ Times \subseteq Nat
  BY LimitBounds DEF Times
<1>2. LimTypeOK /\ now >= Window
  BY DEF LimInv
<1>3. now \in Times /\ max \in Nat /\ budget \in Budgets /\ budget \in Nat \ {0} /\ (max # 0 => max \in Budgets)
  BY <1>2, LimitBounds DEF LimTypeOK
<1>4. now - Window \in Nat /\ now \in Nat
  BY <1>1, <1>2, <1>3
<1>5. entry \in [Clients -> [count : Nat, start : Times]] /\ stamps \in [Clients -> SUBSET Stamps] /\ passed \in [Clients -> SUBSET Stamps]
  BY <1>2 DEF LimTypeOK
<1>6. swept \in Times /\ limiter \in Limiters
  BY <1>2 DEF LimTypeOK
<1> QED
  BY <1>1, <1>3, <1>4, <1>5, <1>6

\* A request in the history passed at a time of the last window.
LEMMA PassedInWindow ==
    ASSUME LimInv, NEW c \in Clients, NEW x \in passed[c]
    PROVE  x.at \in Nat /\ now - Window <= x.at /\ x.at <= now
<1>1. passed[c] \in SUBSET Stamps /\ Times \subseteq Nat
  BY LimitTypes
<1>2. x \in Stamps
  BY <1>1
<1>3. x.at \in Times
  BY <1>2 DEF Stamps
<1> QED
  BY <1>1, <1>3 DEF LimInv, KeptInOrder

\* A tick drops what left the window; nothing is answered.
LEMMA TickKeeps == ASSUME LimInv, Tick PROVE LimInv'
<1> USE DEF Times
<1>0. /\ now \in Nat /\ now - Window \in Nat /\ max \in Nat /\ Window \in Nat \ {0} /\ MaxTime \in Nat
      /\ \A c \in Clients : entry[c].count \in Nat /\ entry[c].start \in Nat
  BY LimitTypes, LimitBounds
<1>1. /\ now' = now + 1 /\ now < MaxTime /\ verdict' = <<>>
      /\ passed' = [c \in Clients |-> Since(passed[c], now + 1 - Window)]
      /\ UNCHANGED <<limiter, budget, max, entry, swept, stamps>>
  BY DEF Tick
<1>2. ASSUME NEW c \in Clients
      PROVE  /\ KeptInOrder(c) /\ passed[c] \in SUBSET Stamps /\ IsFiniteSet(passed[c])
             /\ IF limiter = "signin" THEN SignInKeepsTimes(c) ELSE WindowIsCounted(c)
  BY DEF LimInv, KeptInOrder
<1>3. ASSUME NEW c \in Clients
      PROVE  /\ passed'[c] = Since(passed[c], now' - Window) /\ passed'[c] \in SUBSET Stamps
             /\ passed'[c] \subseteq passed[c] /\ IsFiniteSet(passed'[c])
             /\ Cardinality(passed'[c]) \in Nat /\ Cardinality(passed[c]) \in Nat /\ Cardinality(passed'[c]) <= Cardinality(passed[c])
  <2>1. passed'[c] = Since(passed[c], now' - Window)
    <3>1. now + 1 - Window = now' - Window
      BY <1>0, <1>1
    <3> QED
      BY <1>1, <3>1
  <2>2. passed'[c] \subseteq passed[c]
    BY <2>1 DEF Since
  <2> QED
    BY <1>2, <2>1, <2>2, PartIsSmaller
<1>t. ASSUME NEW c \in Clients, NEW x \in passed[c] PROVE x.at \in Nat
  BY <1>0, <1>2 DEF Stamps
<1>4. LimTypeOK'
  BY <1>0, <1>1, <1>3 DEF LimInv, LimTypeOK
<1>5. ASSUME NEW c \in Clients PROVE KeptInOrder(c)'
  <2>1. now' - Window \in Int
    BY <1>0, <1>1
  <2>2. Numbered(passed'[c])
    BY <1>2, <1>3, <2>1, StampsAreDropped DEF KeptInOrder
  <2>3. ASSUME NEW x \in passed'[c] PROVE now' - Window <= x.at /\ x.at <= now'
    BY <1>0, <1>1, <1>2, <1>3 DEF Since, KeptInOrder, Stamps
  <2> QED
    BY <1>1, <1>2, <1>3, <2>2, <2>3 DEF KeptInOrder
<1>6. ASSUME NEW c \in Clients, limiter = "signin" PROVE SignInKeepsTimes(c)'
  <2> DEFINE was == After(passed[c], now - Window)
             is == After(passed'[c], now' - Window)
  <2>1. is \subseteq was /\ was \subseteq passed[c]
    BY <1>0, <1>1, <1>3 DEF After, Stamps
  <2>2. is = After(stamps[c], now' - Window)
    <3>1. After(passed[c], now - Window) = After(stamps[c], now - Window) /\ stamps[c] \in SUBSET Stamps
      BY <1>2, <1>6 DEF SignInKeepsTimes, KeptInOrder
    <3>2. \A s \in SUBSET Stamps : After(After(s, now - Window), now' - Window) = After(s, now' - Window)
      BY <1>0, <1>1 DEF After, Stamps
    <3>3. is = After(passed[c], now' - Window)
      BY <1>0, <1>1, <1>3, <1>t DEF After, Since
    <3> QED
      BY <1>2, <3>1, <3>2, <3>3
  <2>3. Cardinality(is) <= Cardinality(was) /\ Cardinality(is) \in Nat /\ Cardinality(was) \in Nat /\ Cardinality(was) <= max
    <3>1. IsFiniteSet(was)
      BY <1>2, <2>1, PartIsSmaller
    <3> QED
      BY <1>2, <1>6, <2>1, <3>1, PartIsSmaller DEF SignInKeepsTimes
  <2> QED
    BY <1>0, <1>1, <2>2, <2>3 DEF SignInKeepsTimes
<1>7. ASSUME NEW c \in Clients, limiter # "signin" PROVE WindowIsCounted(c)'
  <2>0. WindowIsCounted(c)
    BY <1>2, <1>7
  <2> DEFINE is == Since(passed'[c], entry[c].start)
  <2>1. is \subseteq Own(c) /\ passed'[c] \ is \subseteq passed[c] \ Own(c)
    BY <1>3 DEF Since, Own
  <2>2. IsFiniteSet(Own(c)) /\ IsFiniteSet(passed[c] \ Own(c))
    BY <1>2, PartIsSmaller DEF Own, Since
  <2>3. /\ Cardinality(is) \in Nat /\ Cardinality(Own(c)) \in Nat /\ Cardinality(is) <= Cardinality(Own(c))
        /\ Cardinality(passed'[c] \ is) \in Nat /\ Cardinality(passed[c] \ Own(c)) \in Nat
        /\ Cardinality(passed'[c] \ is) <= Cardinality(passed[c] \ Own(c))
    BY <2>1, <2>2, PartIsSmaller
  <2>4. CASE entry[c].count = 0
    <3>1. Cardinality(passed'[c]) <= max /\ \A x \in passed'[c] : x.at < now'
      BY <1>0, <1>1, <1>3, <1>t, <2>0, <2>4 DEF WindowIsCounted
    <3>2. entry[c].start <= now'
      BY <1>0, <1>1, <2>0 DEF WindowIsCounted
    <3> QED
      BY <1>1, <2>4, <3>1, <3>2 DEF WindowIsCounted
  <2>5. CASE entry[c].count > 0
    <3>1. Cardinality(is) <= max /\ Cardinality(passed'[c] \ is) <= max /\ \A x \in passed'[c] : x.at <= entry[c].start + Window
      BY <1>0, <1>3, <2>0, <2>3, <2>5 DEF WindowIsCounted
    <3>2. ASSUME ~(now' - entry[c].start > Window) PROVE Cardinality(is) = Least(entry[c].count, max)
      <4>1. is = Own(c)
        BY <1>0, <1>1, <1>3, <1>t, <3>2 DEF Since, Own
      <4>2. ~Expired(entry[c])
        BY <1>0, <1>1, <3>2 DEF Expired
      <4> QED
        BY <2>0, <2>5, <4>1, <4>2 DEF WindowIsCounted
    <3>3. entry[c].start <= now'
      BY <1>0, <1>1, <2>0 DEF WindowIsCounted
    <3> QED
      BY <1>0, <1>1, <2>5, <3>1, <3>2, <3>3 DEF WindowIsCounted, Expired, Own
  <2> QED
    BY <1>0, <2>4, <2>5
<1>8. RefusalIsEarned'
  BY <1>1 DEF RefusalIsEarned
<1>s. max' = 0 => limiter' = "app" /\ \A c \in Clients : entry'[c].count = 0 /\ passed'[c] = {}
  BY <1>1, <1>3 DEF LimInv
<1>10. now' >= Window
  BY <1>0, <1>1
<1> QED
  BY <1>1, <1>4, <1>5, <1>6, <1>7, <1>8, <1>s, <1>10 DEF LimInv

\* A new window begins, or the request counts in the one that lasts; a request that is refused
\* finds the budget of the window used up.
LEMMA WindowDecides ==
    ASSUME LimInv, limiter # "signin", NEW c \in Clients, NEW m \in Nat \ {0}, max # 0 => m = max, max' = m,
           NEW base, base = entry \/ base = Sweep(entry), entry' = Capped(Count(base, c), c, m),
           NEW ok \in BOOLEAN, ok <=> Count(base, c)[c].count <= m, Answer(c, ok)
    PROVE  /\ entry' \in [Clients -> [count : Nat, start : Times]]
           /\ passed' \in [Clients -> SUBSET Stamps]
           /\ \A d \in Clients : IsFiniteSet(passed'[d]) /\ Numbered(passed'[d]) /\ WindowIsCounted(d)'
                                 /\ \A x \in passed'[d] : now - Window <= x.at /\ x.at <= now
           /\ verdict' \in Clients \X BOOLEAN /\ RefusalIsEarned'
<1>0. /\ now \in Nat /\ now \in Times /\ now - Window \in Nat /\ max \in Nat /\ Window \in Nat \ {0} /\ Times \subseteq Nat
      /\ entry \in [Clients -> [count : Nat, start : Times]]
      /\ \A d \in Clients : entry[d].count \in Nat /\ entry[d].start \in Times /\ entry[d].start \in Nat
      /\ passed \in [Clients -> SUBSET Stamps] /\ 0 \in Times
  BY LimitTypes, LimitBounds DEF Times
<1>1. ASSUME NEW d \in Clients
      PROVE  /\ WindowIsCounted(d) /\ passed[d] \in SUBSET Stamps /\ IsFiniteSet(passed[d]) /\ Numbered(passed[d])
             /\ \A x \in passed[d] : x.at \in Nat /\ now - Window <= x.at /\ x.at <= now
             /\ max = 0 => entry[d].count = 0 /\ passed[d] = {}
             /\ Cardinality(passed[d]) \in Nat /\ Cardinality(Own(d)) \in Nat /\ Cardinality(passed[d] \ Own(d)) \in Nat
             /\ IsFiniteSet(Own(d))
  <2>1. KeptInOrder(d) /\ WindowIsCounted(d) /\ (max = 0 => entry[d].count = 0 /\ passed[d] = {})
    BY DEF LimInv
  <2>2. \A x \in passed[d] : x.at \in Nat /\ now - Window <= x.at /\ x.at <= now
    BY PassedInWindow
  <2>3. Own(d) \subseteq passed[d]
    BY DEF Own, Since
  <2> QED
    BY <2>1, <2>2, <2>3, PartIsSmaller DEF KeptInOrder
\* What the sweep forgets has expired, and nothing passed since.
<1>2. ASSUME NEW d \in Clients, NEW e \in {entry[d], NoEntry}, e = NoEntry => e = entry[d] \/ Expired(entry[d])
      PROVE  /\ e.count \in Nat /\ e.start \in Times /\ e.start \in Nat /\ e.start <= now
             /\ (e.count = 0 \/ Expired(e)) => Cardinality(passed[d]) <= m /\ \A x \in passed[d] : x.at < now
             /\ e.count > 0 => e = entry[d]
  <2>1. NoEntry.count = 0 /\ NoEntry.start = 0
    BY DEF NoEntry
  <2>2. ASSUME entry[d].count > 0, now - entry[d].start > Window
        PROVE  Cardinality(passed[d]) <= max /\ \A x \in passed[d] : x.at < now
    <3>0. entry[d].start \in Nat /\ now \in Nat /\ Window \in Nat
      BY <1>0
    <3>1. \A x \in passed[d] : x.at >= entry[d].start
      BY PassedInWindow, <2>2, <3>0
    <3>2. Own(d) = passed[d]
      BY <3>1 DEF Own, Since
    <3>3. Cardinality(Own(d)) <= max /\ \A x \in passed[d] : x.at <= entry[d].start + Window
      BY <1>1, <2>2 DEF WindowIsCounted
    <3>4. \A x \in passed[d] : x.at < now
      BY PassedInWindow, <2>2, <3>0, <3>3
    <3> QED
      BY <3>2, <3>3, <3>4
  <2>3. entry[d].count = 0 => Cardinality(passed[d]) <= max /\ \A x \in passed[d] : x.at < now
    BY <1>1 DEF WindowIsCounted
  <2>5. Cardinality(passed[d]) <= max => Cardinality(passed[d]) <= m
    <3>1. CASE max = 0
      <4>1. passed[d] = {}
        BY <1>1, <3>1
      <4> QED
        BY <4>1, FS_EmptySet
    <3>2. CASE max # 0
      BY <3>2
    <3> QED
      BY <3>1, <3>2
  <2>6. e.count \in Nat /\ e.start \in Times /\ e.start \in Nat /\ e.start <= now
    <3>1. entry[d].start <= now
      BY <1>1 DEF WindowIsCounted
    <3>2. CASE e = entry[d]
      BY <1>0, <3>1, <3>2
    <3>3. CASE e = NoEntry
      BY <1>0, <2>1, <3>3
    <3> QED
      BY <3>2, <3>3
  <2>7. (e.count = 0 \/ Expired(e)) => entry[d].count = 0 \/ (entry[d].count > 0 /\ now - entry[d].start > Window)
    BY <1>2, <2>1 DEF Expired
  <2>8. e.count > 0 => e = entry[d]
    BY <2>1
  <2> QED
    BY <2>2, <2>3, <2>5, <2>6, <2>7, <2>8
<1>3. /\ base \in [Clients -> [count : Nat, start : Times]]
      /\ \A d \in Clients : base[d] = entry[d] \/ (base[d] = NoEntry /\ Expired(entry[d]))
  <2>1. NoEntry \in [count : Nat, start : Times]
    BY <1>0 DEF NoEntry
  <2> QED
    BY <1>0, <2>1 DEF Sweep
<1> DEFINE starts == base[c].count = 0 \/ Expired(base[c])
           n == IF starts THEN [count |-> 1, start |-> now] ELSE [base[c] EXCEPT !.count = @ + 1]
           k == [n EXCEPT !.count = IF n.count > m THEN m + 1 ELSE n.count]
<1>4. /\ n \in [count : Nat, start : Times] /\ n.count >= 1
      /\ starts => n.count = 1 /\ n.start = now
      /\ ~starts => n.count = base[c].count + 1 /\ n.start = base[c].start
      /\ Count(base, c) = [base EXCEPT ![c] = n] /\ Count(base, c)[c] = n
  <2>1. base[c] \in [count : Nat, start : Times]
    BY <1>3
  <2>2. CASE starts
    <3>1. n = [count |-> 1, start |-> now]
      BY <2>2
    <3>2. Count(base, c) = [base EXCEPT ![c] = n]
      BY <2>2, <3>1 DEF Count
    <3> HIDE DEF n
    <3> QED
      BY <1>0, <1>3, <2>2, <3>1, <3>2
  <2>3. CASE ~starts
    <3>1. n = [base[c] EXCEPT !.count = base[c].count + 1]
      BY <2>3
    <3>2. n \in [count : Nat, start : Times] /\ n.count = base[c].count + 1 /\ n.start = base[c].start
      BY <2>1, <3>1
    <3>3. Count(base, c) = [base EXCEPT ![c] = n]
      BY <1>3, <2>3, <3>1 DEF Count
    <3> HIDE DEF n
    <3> QED
      BY <1>0, <1>3, <2>1, <2>3, <3>2, <3>3
  <2> QED
    BY <2>2, <2>3
<1> HIDE DEF n
<1>5. /\ k \in [count : Nat, start : Times] /\ k.start = n.start
      /\ k.count = IF n.count > m THEN m + 1 ELSE n.count
      /\ entry' = [base EXCEPT ![c] = k] /\ (ok <=> n.count <= m)
  <2>1. entry' = [base EXCEPT ![c] = k]
    BY <1>3, <1>4 DEF Capped
  <2>2. ok <=> n.count <= m
    BY <1>4
  <2>3. (IF n.count > m THEN m + 1 ELSE n.count) \in Nat
    BY <1>4
  <2>4. /\ k \in [count : Nat, start : Times] /\ k.start = n.start
        /\ k.count = IF n.count > m THEN m + 1 ELSE n.count
    BY <1>4, <2>3
  <2> HIDE DEF k
  <2> QED
    BY <2>1, <2>2, <2>4
<1> HIDE DEF k, starts
<1>6. /\ entry' \in [Clients -> [count : Nat, start : Times]] /\ entry'[c] = k
      /\ \A d \in Clients \ {c} : entry'[d] = base[d]
  BY <1>3, <1>5
<1>s. PICK s \in Stamps : /\ Stamped(passed[c]) = passed[c] \cup {s} /\ s.at = now /\ s \notin passed[c]
                          /\ IsFiniteSet(Stamped(passed[c])) /\ Numbered(Stamped(passed[c]))
                          /\ Cardinality(Stamped(passed[c])) = Cardinality(passed[c]) + 1
  BY <1>0, <1>1, StampIsNew
<1>m. \A d \in Clients : entry[d].count > 0 => max # 0 /\ m = max
  BY DEF LimInv
<1>7. /\ now' = now /\ limiter' = limiter /\ verdict' = <<c, ok>>
      /\ passed' \in [Clients -> SUBSET Stamps]
      /\ \A d \in Clients \ {c} : passed'[d] = passed[d]
      /\ passed'[c] = IF ok THEN Stamped(passed[c]) ELSE passed[c]
  <2>1. Stamped(passed[c]) \in SUBSET Stamps
    BY <1>1, <1>s
  <2> QED
    BY <1>0, <2>1 DEF Answer
<1>8. ASSUME NEW d \in Clients \ {c}
      PROVE  /\ IsFiniteSet(passed'[d]) /\ Numbered(passed'[d]) /\ WindowIsCounted(d)'
             /\ \A x \in passed'[d] : now - Window <= x.at /\ x.at <= now
  <2>1. passed'[d] = passed[d] /\ entry'[d] = base[d] /\ d \in Clients
    BY <1>6, <1>7
  <2>2. WindowIsCounted(d)'
    <3>0. base[d].count \in Nat /\ base[d].start <= now
      BY <1>2, <1>3, <2>1
    <3>1. CASE base[d].count = 0
      BY <1>2, <1>3, <1>7, <2>1, <3>0, <3>1 DEF WindowIsCounted
    <3>2. CASE base[d].count > 0
      <4>1. base[d] = entry[d]
        BY <1>2, <1>3, <2>1, <3>2
      <4>2. max # 0 /\ m = max
        BY <1>m, <2>1, <3>2, <4>1
      <4> QED
        BY <1>1, <1>7, <2>1, <3>2, <4>1, <4>2 DEF WindowIsCounted, Own, Expired
    <3> QED
      BY <3>0, <3>1, <3>2
  <2> QED
    BY <1>1, <2>1, <2>2
<1>10. /\ IsFiniteSet(passed'[c]) /\ Numbered(passed'[c])
       /\ \A x \in passed'[c] : now - Window <= x.at /\ x.at <= now
  <2>1. now - Window <= now /\ now <= now
    BY <1>0
  <2>2. IsFiniteSet(passed'[c]) /\ Numbered(passed'[c])
    BY <1>1, <1>7, <1>s
  <2>3. \A x \in passed'[c] : x = s \/ x \in passed[c]
    BY <1>7, <1>s
  <2> QED
    BY <1>s, <2>1, <2>2, <2>3, PassedInWindow
<1>11. CASE starts
  <2>1. Cardinality(passed[c]) <= m /\ (\A x \in passed[c] : x.at < now)
    BY <1>2, <1>3, <1>11 DEF starts
  <2>2. k.count = 1 /\ k.start = now /\ ok
    BY <1>4, <1>5, <1>11
  <2>3. passed'[c] = passed[c] \cup {s}
    BY <1>7, <1>s, <2>2
  <2>4. Since(passed'[c], now) = {s} /\ passed'[c] \ {s} = passed[c]
    <3>1. \A x \in passed[c] : ~(x.at >= now)
      BY <1>0, <2>1, PassedInWindow
    <3>2. s.at >= now
      BY <1>0, <1>s
    <3> QED
      BY <1>s, <2>3, <3>1, <3>2 DEF Since
  <2>5. Cardinality({s}) = 1 /\ Least(1, m) = 1
    <3>1. Least(1, m) = 1
      BY DEF Least
    <3> QED
      BY <3>1, FS_Singleton
  <2>6. \A x \in passed'[c] : x.at <= now + Window
    BY <1>0, <1>10, PassedInWindow, <1>s, <2>3
  <2>7. WindowIsCounted(c)'
    <3>1. Own(c)' = {s} /\ (passed[c] \ Own(c))' = passed[c]
      BY <1>6, <2>2, <2>4 DEF Own
    <3>2. 1 <= m /\ now <= now
      BY <1>0
    <3> QED
      <4>1. entry'[c].start <= now' /\ entry'[c].count = 1 /\ max' = m
        BY <1>6, <1>7, <2>2, <3>2
      <4>2. Cardinality(Own(c))' = 1 /\ Cardinality(passed[c] \ Own(c))' <= m
        BY <2>1, <2>5, <3>1
      <4>3. \A x \in passed'[c] : x.at <= entry'[c].start + Window
        BY <1>6, <2>2, <2>6
      <4> QED
        BY <2>5, <3>2, <4>1, <4>2, <4>3 DEF WindowIsCounted
  <2>8. RefusalIsEarned'
    BY <1>7, <2>2 DEF RefusalIsEarned
  <2> QED
    BY <1>6, <1>7, <1>8, <1>10, <2>7, <2>8
<1>12. CASE ~starts
  <2>1. /\ base[c] = entry[c] /\ entry[c].count > 0 /\ ~Expired(entry[c])
        /\ n.count = entry[c].count + 1 /\ k.start = entry[c].start
    <3>1. base[c] = entry[c]
      BY <1>2, <1>3, <1>12 DEF starts, NoEntry
    <3>2. entry[c].count > 0 /\ ~Expired(entry[c])
      BY <1>0, <1>12, <3>1 DEF starts
    <3> QED
      BY <1>4, <1>5, <1>12, <3>1, <3>2
  <2>2. max # 0 /\ m = max
    BY <1>m, <2>1
  <2>3. /\ Cardinality(Own(c)) = Least(entry[c].count, max) /\ Cardinality(passed[c] \ Own(c)) <= max
        /\ \A x \in passed[c] : x.at <= entry[c].start + Window
        /\ entry[c].start <= now /\ Cardinality(Own(c)) <= max
    BY <1>1, <2>1 DEF WindowIsCounted
  <2>4. now <= entry[c].start + Window
    BY <1>0, <2>1 DEF Expired
  <2> DEFINE own == Since(passed'[c], k.start)
  <2>5. /\ passed'[c] \ own = passed[c] \ Own(c)
        /\ Cardinality(own) = IF ok THEN Cardinality(Own(c)) + 1 ELSE Cardinality(Own(c))
        /\ Cardinality(passed'[c]) >= Cardinality(Own(c))
    <3>1. CASE ok
      <4>1. passed'[c] = passed[c] \cup {s}
        BY <1>7, <1>s, <3>1
      <4>2. own = Own(c) \cup {s} /\ s \notin Own(c) /\ passed'[c] \ own = passed[c] \ Own(c)
        BY <1>s, <2>1, <2>3, <4>1 DEF Own, Since
      <4>3. Own(c) \subseteq passed'[c]
        BY <4>1 DEF Own, Since
      <4> QED
        BY <1>1, <1>10, <3>1, <4>2, <4>3, PartIsSmaller, FS_AddElement
    <3>2. CASE ~ok
      <4>1. passed'[c] = passed[c] /\ own = Own(c)
        BY <1>7, <2>1, <3>2 DEF Own
      <4>2. Own(c) \subseteq passed[c]
        BY DEF Own, Since
      <4> QED
        BY <1>1, <3>2, <4>1, <4>2, PartIsSmaller
    <3> QED
      BY <3>1, <3>2
  <2>6. /\ k.count > 0 /\ (ok => entry[c].count < max /\ k.count = entry[c].count + 1)
        /\ (~ok => entry[c].count >= max /\ k.count = max + 1)
    BY <1>0, <1>4, <1>5, <2>1, <2>2
  <2>7. Cardinality(own) = Least(k.count, m) /\ Cardinality(own) <= m
    BY <1>0, <2>2, <2>3, <2>5, <2>6 DEF Least
  <2>8. \A x \in passed'[c] : x.at <= k.start + Window
    BY <1>7, <1>s, <2>1, <2>3, <2>4
  <2> HIDE DEF own
  <2>9. WindowIsCounted(c)'
    <3>1. Own(c)' = own
      BY <1>6 DEF Own, own
    <3> QED
      <4>1. (passed[c] \ Own(c))' = passed[c] \ Own(c)
        BY <2>5, <3>1
      <4>2. entry'[c].start <= now' /\ entry'[c].count > 0 /\ max' = max
        BY <1>6, <1>7, <2>1, <2>2, <2>3, <2>6
      <4>3. Cardinality(Own(c))' <= max' /\ Cardinality(passed[c] \ Own(c))' <= max'
        BY <2>2, <2>3, <2>7, <3>1, <4>1, <4>2
      <4>4. Cardinality(Own(c))' = Least(entry'[c].count, max')
        BY <1>6, <2>2, <2>7, <3>1, <4>2
      <4>5. \A x \in passed'[c] : x.at <= entry'[c].start + Window
        BY <1>6, <2>8
      <4>6. ~(entry'[c].count = 0)
        BY <4>2
      <4> QED
        BY <4>2, <4>3, <4>4, <4>5, <4>6 DEF WindowIsCounted
  <2>10. RefusalIsEarned'
    <3>1. ~ok => Cardinality(Own(c)) = max
      BY <1>0, <2>3, <2>6 DEF Least
    <3>2. Cardinality(passed'[c]) \in Nat
      BY <1>10, FS_CardinalityType
    <3> QED
      BY <1>0, <1>7, <2>2, <2>5, <3>1, <3>2 DEF RefusalIsEarned
  <2> QED
    BY <1>6, <1>7, <1>8, <1>10, <2>9, <2>10
<1> QED
  BY <1>11, <1>12

\* Sign-in: of the requests kept, those of the window are those that passed in it.
LEMMA SignInDecides ==
    ASSUME LimInv, NEW c \in Clients, AllowSignIn(c)
    PROVE  LimInv'
<1>0. /\ now \in Nat /\ now \in Times /\ now - Window \in Nat /\ max \in Nat /\ Window \in Nat \ {0}
      /\ stamps \in [Clients -> SUBSET Stamps] /\ passed \in [Clients -> SUBSET Stamps]
      /\ now > now - Window
  BY LimitTypes
<1>1. limiter = "signin" /\ UNCHANGED <<limiter, now, budget, max, entry, swept>> /\ max # 0
  BY DEF AllowSignIn, Answer, LimInv
<1>2. ASSUME NEW d \in Clients PROVE KeptInOrder(d) /\ SignInKeepsTimes(d)
  BY <1>1 DEF LimInv
<1>3. PICK fresh \in SUBSET Stamps, ok \in BOOLEAN :
        /\ fresh = After(stamps[c], now - Window) /\ IsFiniteSet(fresh) /\ Numbered(fresh)
        /\ ok <=> Cardinality(fresh) < max
        /\ stamps' = [stamps EXCEPT ![c] = IF ok THEN Stamped(fresh) ELSE fresh]
        /\ Answer(c, ok)
  <2> DEFINE fresh == After(stamps[c], now - Window)
             ok == Cardinality(fresh) < max
  <2>1. fresh \in SUBSET Stamps /\ IsFiniteSet(fresh) /\ Numbered(fresh)
    BY <1>0, <1>2, StampsAreDropped DEF KeptInOrder
  <2>2. stamps' = [stamps EXCEPT ![c] = IF ok THEN Stamped(fresh) ELSE fresh] /\ ok \in BOOLEAN
    BY DEF AllowSignIn
  <2>3. Answer(c, ok)
    BY DEF AllowSignIn
  <2> QED
    BY <2>1, <2>2, <2>3
<1>4. PICK p \in Stamps : /\ Stamped(passed[c]) = passed[c] \cup {p} /\ p.at = now /\ p.no = Cardinality({x \in passed[c] : x.at = now}) + 1
                          /\ IsFiniteSet(Stamped(passed[c])) /\ Numbered(Stamped(passed[c]))
  BY <1>0, <1>2, StampIsNew DEF KeptInOrder
<1>5. PICK q \in Stamps : /\ Stamped(fresh) = fresh \cup {q} /\ q.at = now /\ q.no = Cardinality({x \in fresh : x.at = now}) + 1
                          /\ IsFiniteSet(Stamped(fresh)) /\ Numbered(Stamped(fresh))
                          /\ Cardinality(Stamped(fresh)) = Cardinality(fresh) + 1 /\ Cardinality(fresh) \in Nat
  BY <1>0, <1>3, StampIsNew
<1>6. fresh = After(passed[c], now - Window)
  BY <1>2, <1>3 DEF SignInKeepsTimes
<1>7. p = q
  <2>1. {x \in passed[c] : x.at = now} = {x \in fresh : x.at = now}
    BY <1>0, <1>6 DEF After
  <2> QED
    <3>1. p.at = q.at /\ p.no = q.no
      BY <1>4, <1>5, <2>1
    <3>2. \A x, y \in Stamps : x.at = y.at /\ x.no = y.no => x = y
      BY DEF Stamps
    <3> QED
      BY <3>1, <3>2
<1>8. /\ verdict' = <<c, ok>>
      /\ passed' = [passed EXCEPT ![c] = IF ok THEN Stamped(passed[c]) ELSE passed[c]]
  BY <1>0, <1>3 DEF Answer
<1>9. Stamped(passed[c]) \in SUBSET Stamps /\ Stamped(fresh) \in SUBSET Stamps
  BY <1>0, <1>3, <1>4, <1>5
<1>10. /\ passed' \in [Clients -> SUBSET Stamps] /\ stamps' \in [Clients -> SUBSET Stamps]
       /\ passed'[c] = IF ok THEN passed[c] \cup {q} ELSE passed[c]
       /\ stamps'[c] = IF ok THEN fresh \cup {q} ELSE fresh
       /\ \A d \in Clients \ {c} : passed'[d] = passed[d] /\ stamps'[d] = stamps[d]
  BY <1>0, <1>3, <1>4, <1>5, <1>7, <1>8, <1>9
<1>11. LimTypeOK'
  <2>1. verdict' \in Clients \X BOOLEAN
    BY <1>8
  <2> QED
    BY <1>1, <1>10, <2>1 DEF LimInv, LimTypeOK
<1>12. ASSUME NEW d \in Clients PROVE KeptInOrder(d)'
  <2>1. CASE d # c
    BY <1>1, <1>2, <1>10, <2>1 DEF KeptInOrder
  <2>2. CASE d = c
    <3>1. stamps'[c] \in SUBSET Stamps /\ IsFiniteSet(stamps'[c]) /\ Numbered(stamps'[c])
      BY <1>3, <1>5, <1>10
    <3>2. passed'[c] \in SUBSET Stamps /\ IsFiniteSet(passed'[c]) /\ Numbered(passed'[c])
      BY <1>2, <1>4, <1>7, <1>10 DEF KeptInOrder
    <3>3. \A x \in passed'[c] : now - Window <= x.at /\ x.at <= now
      <4>1. \A x \in passed'[c] : x = q \/ x \in passed[c]
        BY <1>10
      <4>2. now - Window <= q.at /\ q.at <= now
        BY <1>0, <1>5
      <4> QED
        BY <4>1, <4>2, PassedInWindow
    <3> QED
      BY <1>1, <2>2, <3>1, <3>2, <3>3 DEF KeptInOrder
  <2> QED
    BY <2>1, <2>2
<1>13. ASSUME NEW d \in Clients PROVE SignInKeepsTimes(d)'
  <2>1. CASE d # c
    BY <1>1, <1>2, <1>10, <2>1 DEF SignInKeepsTimes
  <2>2. CASE d = c
    <3>1. After(fresh, now - Window) = fresh /\ After(fresh \cup {q}, now - Window) = fresh \cup {q}
      BY <1>0, <1>3, <1>5 DEF After
    <3>2. After(passed[c] \cup {q}, now - Window) = fresh \cup {q}
      BY <1>0, <1>5, <1>6 DEF After
    <3>3. After(stamps'[c], now - Window) = After(passed'[c], now - Window)
      BY <1>6, <1>10, <3>1, <3>2
    <3>4. Cardinality(After(passed'[c], now - Window)) <= max
      <4>1. CASE ok
        <5>1. After(passed'[c], now - Window) = Stamped(fresh)
          BY <1>5, <1>10, <3>2, <4>1
        <5> QED
          BY <1>0, <1>3, <1>5, <4>1, <5>1
      <4>2. CASE ~ok
        BY <1>2, <1>10, <4>2 DEF SignInKeepsTimes
      <4> QED
        BY <4>1, <4>2
    <3> QED
      BY <1>1, <2>2, <3>3, <3>4 DEF SignInKeepsTimes
  <2> QED
    BY <2>1, <2>2
<1>14. RefusalIsEarned'
  <2>1. ASSUME ~ok PROVE Cardinality(passed[c]) >= max
    <3>1. fresh \subseteq passed[c]
      BY <1>6 DEF After
    <3>2. Cardinality(fresh) <= Cardinality(passed[c]) /\ Cardinality(passed[c]) \in Nat
      BY <1>2, <3>1, PartIsSmaller DEF KeptInOrder
    <3> QED
      BY <1>0, <1>3, <1>5, <2>1, <3>2
  <2> QED
    BY <1>1, <1>8, <1>10, <2>1 DEF RefusalIsEarned
<1>15. now' >= Window
  BY <1>1 DEF LimInv
<1> QED
  BY <1>1, <1>11, <1>12, <1>13, <1>14, <1>15 DEF LimInv

\* The invariant holds before the first request.
LEMMA LimStart == LimInit => LimInv
<1> SUFFICES ASSUME LimInit PROVE LimInv
  OBVIOUS
<1>1. /\ limiter \in Limiters /\ budget \in Budgets /\ budget \in Nat \ {0} /\ now = Window /\ swept = 0 /\ verdict = <<>>
      /\ max = IF limiter = "app" THEN 0 ELSE budget
      /\ \A c \in Clients : entry[c] = NoEntry /\ stamps[c] = {} /\ passed[c] = {}
  BY LimitBounds DEF LimInit
<1>2. Window \in Times /\ 0 \in Times /\ Window \in Nat \ {0} /\ NoEntry \in [count : Nat, start : Times] /\ Threshold \in Nat
  <2>1. Window \in Nat \ {0} /\ MaxTime \in Nat \ {0} /\ Threshold \in Nat /\ Window <= MaxTime
    BY LimitBounds
  <2>2. Window \in Times /\ 0 \in Times
    BY <2>1 DEF Times
  <2> QED
    BY <2>1, <2>2 DEF NoEntry
<1>3. LimTypeOK
  BY <1>1, <1>2 DEF LimInit, LimTypeOK
<1>4. IsFiniteSet({}) /\ Cardinality({}) = 0 /\ \A t : Since({}, t) = {} /\ After({}, t) = {}
  BY FS_EmptySet DEF Since, After
<1>5. ASSUME NEW c \in Clients PROVE KeptInOrder(c) /\ SignInKeepsTimes(c) /\ WindowIsCounted(c)
  <2>1. stamps[c] = {} /\ passed[c] = {} /\ entry[c].count = 0 /\ entry[c].start = 0 /\ max \in Nat
    BY <1>1 DEF NoEntry
  <2>2. KeptInOrder(c)
    BY <1>4, <2>1 DEF KeptInOrder, Numbered
  <2>3. SignInKeepsTimes(c)
    BY <1>4, <2>1 DEF SignInKeepsTimes
  <2>4. WindowIsCounted(c)
    BY <1>1, <1>2, <1>4, <2>1 DEF WindowIsCounted
  <2> QED
    BY <2>2, <2>3, <2>4
<1>6. max = 0 => limiter = "app" /\ \A c \in Clients : entry[c].count = 0 /\ passed[c] = {}
  BY <1>1 DEF NoEntry
<1> QED
  BY <1>1, <1>2, <1>3, <1>5, <1>6 DEF LimInv, RefusalIsEarned

\* Every decision, tick and change of a budget keeps the invariant.
LEMMA LimStep == LimInv /\ [LimNext]_limVars => LimInv'
<1> SUFFICES ASSUME LimInv, [LimNext]_limVars PROVE LimInv'
  OBVIOUS
<1>0. LimTypeOK /\ max \in Nat /\ now >= Window
  BY LimitTypes DEF LimInv
<1>1. ASSUME NEW c \in Clients, limiter # "signin", NEW m \in Nat \ {0}, m \in Budgets, max # 0 => m = max, max' = m,
             NEW base, base = entry \/ base = Sweep(entry), entry' = Capped(Count(base, c), c, m),
             NEW ok \in BOOLEAN, ok <=> Count(base, c)[c].count <= m, Answer(c, ok), swept' \in Times, UNCHANGED stamps
      PROVE  LimInv'
  <2>1. /\ entry' \in [Clients -> [count : Nat, start : Times]]
        /\ passed' \in [Clients -> SUBSET Stamps]
        /\ \A d \in Clients : IsFiniteSet(passed'[d]) /\ Numbered(passed'[d]) /\ WindowIsCounted(d)'
                              /\ \A x \in passed'[d] : now - Window <= x.at /\ x.at <= now
        /\ verdict' \in Clients \X BOOLEAN /\ RefusalIsEarned'
    BY <1>1, WindowDecides
  <2>2. UNCHANGED <<limiter, now, budget>>
    BY <1>1 DEF Answer
  <2>3. LimTypeOK'
    BY <1>0, <1>1, <2>1, <2>2 DEF LimTypeOK
  <2>4. ASSUME NEW d \in Clients PROVE KeptInOrder(d)'
    <3>1. KeptInOrder(d) /\ stamps'[d] = stamps[d] /\ passed'[d] \in SUBSET Stamps /\ now' = now
      BY <1>1, <2>1, <2>2 DEF LimInv
    <3> QED
      BY <2>1, <3>1 DEF KeptInOrder
  <2> QED
    BY <1>0, <1>1, <2>1, <2>2, <2>3, <2>4 DEF LimInv
<1>2. CASE Tick
  BY <1>2, TickKeeps
<1>3. ASSUME NEW b \in Budgets, UpdateAppRateLimit(b) PROVE LimInv'
  <2>1. UNCHANGED <<limiter, now, max, entry, swept, stamps, passed>> /\ verdict' = <<>> /\ budget' = b
    BY <1>3 DEF UpdateAppRateLimit
  <2>2. LimTypeOK' /\ RefusalIsEarned'
    BY <1>0, <2>1 DEF LimTypeOK, RefusalIsEarned
  <2>3. ASSUME NEW c \in Clients
        PROVE  KeptInOrder(c)' /\ IF limiter = "signin" THEN SignInKeepsTimes(c)' ELSE WindowIsCounted(c)'
    BY <2>1 DEF LimInv, KeptInOrder, SignInKeepsTimes, WindowIsCounted, Own, Expired
  <2> QED
    BY <2>1, <2>2, <2>3 DEF LimInv
<1>4. ASSUME NEW c \in Clients, AllowApp(c) PROVE LimInv'
  <2> DEFINE due == swept = 0 \/ now - swept > Window
             base == IF due THEN Sweep(entry) ELSE entry
             ok == Count(base, c)[c].count <= GetOrCreate
  <2>1. GetOrCreate \in Budgets /\ GetOrCreate \in Nat \ {0} /\ (max # 0 => GetOrCreate = max)
    BY LimitTypes, LimitBounds DEF GetOrCreate
  <2>2. /\ limiter # "signin" /\ max' = GetOrCreate /\ entry' = Capped(Count(base, c), c, GetOrCreate)
        /\ Answer(c, ok) /\ UNCHANGED stamps /\ swept' = IF due THEN now ELSE swept
    BY <1>4 DEF AllowApp
  <2>3. swept' \in Times
    BY <2>2, LimitTypes
  <2>4. ok \in BOOLEAN /\ (base = entry \/ base = Sweep(entry))
    OBVIOUS
  <2>5. PICK a : a = base
    OBVIOUS
  <2>6. PICK o \in BOOLEAN : o = ok
    BY <2>4
  <2>7. PICK m \in Nat \ {0} : m = GetOrCreate
    BY <2>1
  <2> HIDE DEF base, due
  <2> QED
    BY <1>1, <2>1, <2>2, <2>3, <2>4, <2>5, <2>6, <2>7
<1>5. ASSUME NEW c \in Clients, Allow(c) PROVE LimInv'
  <2> DEFINE many == Cardinality({d \in Clients : entry[d].count > 0}) >= Threshold
             base == IF many THEN Sweep(entry) ELSE entry
             ok == Count(base, c)[c].count <= max
  <2>1. max \in Budgets /\ max \in Nat \ {0} /\ limiter # "signin"
    <3>1. limiter = "dashboard"
      BY <1>5 DEF Allow
    <3>2. max # 0
      BY <3>1 DEF LimInv
    <3> QED
      BY <3>1, <3>2, LimitTypes
  <2>2. /\ max' = max /\ entry' = Capped(Count(base, c), c, max)
        /\ Answer(c, ok) /\ UNCHANGED <<stamps, swept>>
    BY <1>5 DEF Allow
  <2>3. swept' \in Times
    BY <2>2, LimitTypes
  <2>4. ok \in BOOLEAN /\ (base = entry \/ base = Sweep(entry))
    OBVIOUS
  <2>5. PICK a : a = base
    OBVIOUS
  <2>6. PICK o \in BOOLEAN : o = ok
    BY <2>4
  <2>7. PICK m \in Nat \ {0} : m = max
    BY <2>1
  <2> HIDE DEF base, many
  <2> QED
    BY <1>1, <2>1, <2>2, <2>3, <2>4, <2>5, <2>6, <2>7
<1>6. ASSUME NEW c \in Clients, AllowSignIn(c) PROVE LimInv'
  BY <1>6, SignInDecides
<1>7. CASE UNCHANGED limVars
  <2>1. LimTypeOK' /\ RefusalIsEarned'
    BY <1>0, <1>7 DEF LimTypeOK, RefusalIsEarned, limVars, LimInv
  <2>2. ASSUME NEW c \in Clients
        PROVE  KeptInOrder(c)' /\ IF limiter = "signin" THEN SignInKeepsTimes(c)' ELSE WindowIsCounted(c)'
    BY <1>7 DEF LimInv, KeptInOrder, SignInKeepsTimes, WindowIsCounted, Own, Expired, limVars
  <2> QED
    BY <1>7, <2>1, <2>2 DEF LimInv, limVars
<1> QED
  BY <1>2, <1>3, <1>4, <1>5, <1>6, <1>7 DEF LimNext

\* What is within the budget of two windows is within twice the budget.
LEMMA BudgetFollows == LimInv => LimitsAreExact
<1> SUFFICES ASSUME LimInv PROVE LimitsAreExact
  OBVIOUS
<1>1. ASSUME NEW c \in Clients, limiter # "signin"
      PROVE  /\ entry[c].count > 0 => Cardinality(Since(passed[c], entry[c].start)) <= max
             /\ Cardinality(passed[c]) <= 2 * max
  <2>1. WindowIsCounted(c) /\ IsFiniteSet(passed[c]) /\ Own(c) \subseteq passed[c]
    BY <1>1 DEF LimInv, KeptInOrder, Own, Since
  <2>2. /\ Cardinality(Own(c)) \in Nat /\ Cardinality(passed[c] \ Own(c)) \in Nat /\ Cardinality(passed[c]) \in Nat
        /\ IsFiniteSet(Own(c)) /\ IsFiniteSet(passed[c] \ Own(c)) /\ max \in Nat /\ entry[c].count \in Nat
    BY <2>1, PartIsSmaller, LimitTypes
  <2>3. CASE entry[c].count = 0
    BY <2>1, <2>2, <2>3 DEF WindowIsCounted
  <2>4. CASE entry[c].count > 0
    <3>0. Own(c) = Since(passed[c], entry[c].start)
      BY DEF Own
    <3>1. Cardinality(Own(c)) <= max /\ Cardinality(passed[c] \ Own(c)) <= max
      BY <2>1, <2>4 DEF WindowIsCounted
    <3>2. Cardinality(passed[c] \ Own(c)) = Cardinality(passed[c]) - Cardinality(Own(c))
      <4>1. passed[c] \cap Own(c) = Own(c)
        BY <2>1
      <4> QED
        BY <2>1, <4>1, FS_Difference
    <3> QED
      BY <2>2, <3>0, <3>1, <3>2
  <2> QED
    BY <2>2, <2>3, <2>4
<1>2. ASSUME NEW c \in Clients, limiter = "signin" PROVE Cardinality(After(passed[c], now - Window)) <= max
  BY <1>2 DEF LimInv, SignInKeepsTimes
<1> QED
  BY <1>1, <1>2 DEF LimitsAreExact, BudgetIsKept, LimInv

\* No client passes more than max times in a window that the limiter counts, nor more than
\* twice max in any other, at sign-in not more than max in any; and none is refused that did
\* not pass max times: for every max, window and fall of the sweeps.
THEOREM LimitsExact == LimSpec => []LimitsAreExact
<1>1. LimInv => LimitsAreExact
  BY BudgetFollows
<1> QED
  BY <1>1, LimStart, LimStep, PTL DEF LimSpec

-----------------------------------------------------------------------------
(* Column constraints. Until another request changes the column or its     *)
(* row, the row is what the request read but for its changes; after its    *)
(* DDL the column has those changes; and if row and column agreed when it  *)
(* began, the column then is what the request is about to write.           *)

\* A request k that nobody crossed, with the column and the row.
FreshChange(k, column, row) ==
    k.pc # "idle" /\ k.history # "raced" =>
        /\ DefaultIsAllowed(k.want)
        /\ \A f \in Fields \ k.changed : k.want[f] = row[f]
        /\ k.pc = "write" => \A f \in k.changed : column[f] = k.want[f]
        /\ k.pc = "ddl" /\ k.history = "clean" => column = row
        /\ k.pc = "write" /\ k.history = "clean" => column = k.want

\* The inductive invariant.
ColInv == ColTypeOK /\ \A r \in ColReqs : FreshChange(creq[r], pgColumn, columnRow)

-----------------------------------------------------------------------------
\* Columns are told apart by their fields, as ApplyConstraintChanges builds them.
LEMMA SameFields ==
    ASSUME NEW c \in Constraints, NEW d \in Constraints, \A f \in Fields : c[f] = d[f]
    PROVE  c = d
BY DEF Constraints, Fields

\* The column after the DDL is a column, with the changes and otherwise as it was
\* (applyColumnConstraintChanges, replaceColumnEnumValues).
LEMMA Applied ==
    ASSUME NEW q \in ColReq, pgColumn \in Constraints
    PROVE  /\ ApplyConstraintChanges(q) \in Constraints
           /\ \A f \in q.changed : ApplyConstraintChanges(q)[f] = q.want[f]
           /\ \A f \in Fields \ q.changed : ApplyConstraintChanges(q)[f] = pgColumn[f]
<1>1. q.changed \subseteq Fields /\ q.want \in Constraints
  BY DEF ColReq
<1>2. ApplyConstraintChanges(q) \in Constraints
  BY <1>1 DEF Constraints, Fields, ApplyConstraintChanges
<1> QED
  BY <1>1, <1>2 DEF ApplyConstraintChanges

\* The new record of r is its own, and the others are as they were or raced.
LEMMA OthersRaced ==
    ASSUME NEW r \in ColReqs, NEW q \in ColReq, creq \in [ColReqs -> ColReq], ColumnStep(r, q)
    PROVE  /\ creq' \in [ColReqs -> ColReq]
           /\ creq'[r] = q
           /\ \A o \in ColReqs \ {r} :
                 \/ creq'[o] = creq[o] /\ (creq[o].pc = "idle" \/ UNCHANGED <<pgColumn, columnRow>>)
                 \/ creq'[o].history = "raced"
<1>1. ASSUME NEW o \in ColReqs
      PROVE  [creq[o] EXCEPT !.history = "raced"] \in ColReq
  BY DEF ColReq
<1>2. \A o \in ColReqs : [creq[o] EXCEPT !.history = "raced"].history = "raced"
  BY DEF ColReq
<1> QED
  BY <1>1, <1>2 DEF ColumnStep

\* A step of r keeps the invariant if it keeps the types and leaves r itself fresh.
LEMMA FreshStep ==
    ASSUME NEW r \in ColReqs, NEW q \in ColReq, ColInv, ColumnStep(r, q),
           pgColumn' \in Constraints, columnRow' \in Constraints,
           FreshChange(q, pgColumn', columnRow')
    PROVE  ColInv'
<1>1. ColTypeOK'
  BY OthersRaced DEF ColInv, ColTypeOK
<1>2. ASSUME NEW o \in ColReqs
      PROVE  FreshChange(creq'[o], pgColumn', columnRow')
  <2>1. CASE o = r
    BY <2>1, OthersRaced DEF ColInv, ColTypeOK
  <2>2. CASE o # r
    <3>1. \/ creq'[o] = creq[o] /\ (creq[o].pc = "idle" \/ UNCHANGED <<pgColumn, columnRow>>)
          \/ creq'[o].history = "raced"
      BY <2>2, OthersRaced DEF ColInv, ColTypeOK
    <3>2. FreshChange(creq[o], pgColumn, columnRow)
      BY DEF ColInv
    <3> QED
      BY <3>1, <3>2 DEF FreshChange
  <2> QED
    BY <2>1, <2>2
<1> QED
  BY <1>1, <1>2 DEF ColInv

-----------------------------------------------------------------------------
\* The initial states satisfy the invariant.
LEMMA ColInvInit == ColInit => ColInv
BY DEF ColInit, ColInv, ColTypeOK, ColReq, Constraints, FreshChange

\* A request that ends, by a failure or after its write, keeps the invariant.
LEMMA EndKeepsColInv ==
    ASSUME NEW r \in ColReqs, ColInv, ColReqEnds(r),
           pgColumn' \in Constraints, columnRow' \in Constraints
    PROVE  ColInv'
<1> DEFINE q == [creq[r] EXCEPT !.pc = "idle", !.changed = {}, !.want = columnRow', !.history = "alone"]
<1>1. q \in ColReq
  BY DEF ColInv, ColTypeOK, ColReq
<1>2. q.pc = "idle"
  BY DEF ColInv, ColTypeOK, ColReq
<1>3. FreshChange(q, pgColumn', columnRow')
  BY <1>2 DEF FreshChange
<1>4. ColumnStep(r, q)
  BY DEF ColReqEnds
<1> HIDE DEF q
<1> QED
  BY <1>1, <1>3, <1>4, FreshStep

\* A request that begins knows that the row it wants is the row but for its changes.
LEMMA BeginKeepsColInv ==
    ASSUME NEW r \in ColReqs, ColInv, NEW want \in Constraints, NEW changed \in SUBSET Fields,
           \A f \in Fields \ changed : want[f] = columnRow[f],
           BeginColumnChange(r, want, changed)
    PROVE  ColInv'
<1> DEFINE q == [pc |-> "ddl", changed |-> changed, want |-> want,
                 history |-> IF pgColumn = columnRow THEN "clean" ELSE "alone"]
<1>1. q \in ColReq
  BY DEF ColReq
<1>2. FreshChange(q, pgColumn', columnRow')
  BY DEF FreshChange, BeginColumnChange
<1>3. pgColumn' \in Constraints /\ columnRow' \in Constraints /\ ColumnStep(r, q)
  BY DEF BeginColumnChange, ColInv, ColTypeOK
<1> HIDE DEF q
<1> QED
  BY <1>1, <1>2, <1>3, FreshStep

\* The DDL of a request makes its changes true of the column.
LEMMA AlterKeepsColInv ==
    ASSUME NEW r \in ColReqs, ColInv, AlterColumn(r)
    PROVE  ColInv'
<1> DEFINE q == [creq[r] EXCEPT !.pc = "write"]
           c == ApplyConstraintChanges(creq[r])
<1>1. creq[r] \in ColReq /\ pgColumn \in Constraints /\ columnRow \in Constraints
  BY DEF ColInv, ColTypeOK
<1>2. /\ q \in ColReq
      /\ q.pc = "write" /\ q.changed = creq[r].changed /\ q.want = creq[r].want
      /\ q.history = creq[r].history
  BY <1>1 DEF ColReq
<1>3. /\ c \in Constraints
      /\ \A f \in creq[r].changed : c[f] = creq[r].want[f]
      /\ \A f \in Fields \ creq[r].changed : c[f] = pgColumn[f]
  BY <1>1, Applied
<1>4. pgColumn' = c /\ columnRow' = columnRow /\ ColumnStep(r, q) /\ creq[r].pc = "ddl"
  BY DEF AlterColumn
<1>5. FreshChange(creq[r], pgColumn, columnRow)
  BY DEF ColInv
<1> HIDE DEF q, c
<1>6. FreshChange(q, c, columnRow)
  <2> SUFFICES ASSUME q.history # "raced"
               PROVE  /\ DefaultIsAllowed(q.want)
                      /\ \A f \in Fields \ q.changed : q.want[f] = columnRow[f]
                      /\ \A f \in q.changed : c[f] = q.want[f]
                      /\ q.history = "clean" => c = q.want
    BY <1>2 DEF FreshChange
  <2>1. DefaultIsAllowed(q.want) /\ \A f \in Fields \ q.changed : q.want[f] = columnRow[f]
    BY <1>2, <1>4, <1>5 DEF FreshChange
  <2>2. ASSUME q.history = "clean" PROVE c = q.want
    <3>1. pgColumn = columnRow
      BY <1>2, <1>4, <1>5, <2>2 DEF FreshChange
    <3>2. \A f \in Fields : c[f] = q.want[f]
      BY <1>2, <1>3, <2>1, <3>1
    <3>3. q.want \in Constraints
      BY <1>2 DEF ColReq
    <3> QED
      BY <1>3, <3>2, <3>3, SameFields
  <2> QED
    BY <1>2, <1>3, <2>1, <2>2
<1> QED
  BY <1>1, <1>2, <1>3, <1>4, <1>6, FreshStep

\* Every step keeps the invariant.
LEMMA ColInvNext == ColInv /\ [ColNext]_colVars => ColInv'
<1> SUFFICES ASSUME ColInv, [ColNext]_colVars PROVE ColInv'
  OBVIOUS
<1> USE DEF ColInv
<1>1. pgColumn \in Constraints /\ columnRow \in Constraints
  BY DEF ColTypeOK
<1>2. ASSUME NEW r \in ColReqs, UpdateColumnEnumValuesForUser(r) PROVE ColInv'
  <2>1. PICK vs \in ValueSets : BeginColumnChange(r, [columnRow EXCEPT !.allowed = vs], {"allowed"})
    BY <1>2 DEF UpdateColumnEnumValuesForUser
  <2> DEFINE want == [columnRow EXCEPT !.allowed = vs]
  <2>2. want \in Constraints /\ \A f \in Fields \ {"allowed"} : want[f] = columnRow[f]
    BY <1>1 DEF Constraints, Fields
  <2>3. {"allowed"} \in SUBSET Fields
    BY DEF Fields
  <2> HIDE DEF want, ColInv
  <2> QED
    BY <2>1, <2>2, <2>3, BeginKeepsColInv DEF want, ColInv
<1>3. ASSUME NEW r \in ColReqs, UpdateAppTable(r) PROVE ColInv'
  <2>1. PICK want \in Constraints : BeginColumnChange(r, want, DiffColumnConstraints(columnRow, want))
    BY <1>3 DEF UpdateAppTable
  <2>2. /\ DiffColumnConstraints(columnRow, want) \in SUBSET Fields
        /\ \A f \in Fields \ DiffColumnConstraints(columnRow, want) : want[f] = columnRow[f]
    BY DEF DiffColumnConstraints
  <2> QED
    BY <2>1, <2>2, BeginKeepsColInv
<1>4. ASSUME NEW r \in ColReqs, AlterColumn(r) PROVE ColInv'
  BY <1>4, AlterKeepsColInv
<1>5. ASSUME NEW r \in ColReqs, WriteColumnRow(r) PROVE ColInv'
  <2>1. pgColumn' \in Constraints /\ columnRow' \in Constraints
    BY <1>1, <1>5 DEF WriteColumnRow, ColTypeOK, ColReq
  <2> QED
    BY <1>5, <2>1, EndKeepsColInv DEF WriteColumnRow
<1>6. ASSUME NEW r \in ColReqs, ColumnChangeFails(r) PROVE ColInv'
  BY <1>1, <1>6, EndKeepsColInv DEF ColumnChangeFails
<1>7. CASE UNCHANGED colVars
  BY <1>7 DEF colVars, ColTypeOK
<1> QED
  BY <1>2, <1>3, <1>4, <1>5, <1>6, <1>7 DEF ColNext

-----------------------------------------------------------------------------
\* Every reachable state has the types of ColumnConstraints.
THEOREM ColumnTypeCorrect == ColSpec => []ColTypeOK
<1>1. ColInv => ColTypeOK
  BY DEF ColInv
<1> QED
  BY <1>1, ColInvInit, ColInvNext, PTL DEF ColSpec

\* A change of the constraints of a column that no other request crosses leaves column and
\* row alike in what it changed, whatever an earlier failure left behind; and if they were
\* alike before, in everything, with a default that the column allows.
THEOREM ConstraintsDriftInRacesOnly == ColSpec => ConstraintDriftIsARace
<1> DEFINE Drift == \A r \in ColReqs : WriteColumnRow(r) /\ Alone(r) =>
              /\ \A f \in creq[r].changed : columnRow'[f] = pgColumn'[f]
              /\ creq[r].history = "clean" => columnRow' = pgColumn' /\ DefaultIsAllowed(pgColumn')
<1>1. ColInv => Drift
  <2> SUFFICES ASSUME ColInv, NEW r \in ColReqs, WriteColumnRow(r), Alone(r)
               PROVE  /\ \A f \in creq[r].changed : columnRow'[f] = pgColumn'[f]
                      /\ creq[r].history = "clean" => columnRow' = pgColumn' /\ DefaultIsAllowed(pgColumn')
    OBVIOUS
  <2>1. FreshChange(creq[r], pgColumn, columnRow)
    BY DEF ColInv
  <2>2. creq[r].pc = "write" /\ columnRow' = creq[r].want /\ pgColumn' = pgColumn /\ creq[r].history # "raced"
    BY DEF WriteColumnRow, Alone
  <2> QED
    BY <2>1, <2>2 DEF FreshChange
<1>2. ColInv => [Drift]_colVars
  BY <1>1
<1>3. ColSpec => []ColInv
  BY ColInvInit, ColInvNext, PTL DEF ColSpec
<1>4. ConstraintDriftIsARace <=> [][Drift]_colVars
  BY DEF ConstraintDriftIsARace
<1> QED
  BY <1>2, <1>3, <1>4, PTL

-----------------------------------------------------------------------------
(* The composition.  A step of the whole is a step of one component and    *)
(* leaves the variables of the others alone, so what is proved of each     *)
(* component holds of the whole.                                           *)

\* The state and the steps of the whole are those of its parts.
LEMMA AppPartsRun ==
    /\ AppsInit => SesInit /\ PolInit /\ ExprInit /\ RowInit /\ FileInit /\ LimInit /\ ColInit
    /\ [AppsNext]_<<part, appsVars>> =>
          /\ [SesNext]_sesVars /\ [PolNext]_polVars /\ [ExprNext]_build /\ [RowNext]_rowVars
          /\ [FileNext]_fileVars /\ [LimNext]_limVars /\ [ColNext]_colVars
BY DEF AppsInit, AppsNext, appsVars

\* The whole implements the specification of every one of its components.
THEOREM AppPartsAreImplemented ==
    AppsSpec => SesSpec /\ PolSpec /\ ExprSpec /\ RowSpec /\ FileSpec /\ LimSpec /\ ColSpec
BY AppPartsRun, PTL DEF AppsSpec, SesSpec, PolSpec, ExprSpec, RowSpec, FileSpec, LimSpec, ColSpec

\* The inductive invariants of the components, together.
AppsKept == SesInv /\ PolTyped /\ ExprInv /\ RowInv /\ FileInv /\ LimInv /\ ColInv

\* Every component of the whole keeps the types of its state, whichever of
\* them took the last step.
THEOREM AppsTypes == AppsSpec => []AppsTypeOK
<1>1. RowInv /\ [RowNext]_rowVars => RowInv'
  BY RowStepTyped
<1>2. PolInit => PolTyped
  BY PolStart
<1>3. AppsSpec => []AppsKept
  BY AppPartsAreImplemented, SesStart, SesStepInv, <1>2, PolTypedStep, ExprStart, ExprStepInv, RowStart, <1>1,
     FileStart, FileStepInv, LimStart, LimStep, ColInvInit, ColInvNext, PTL
     DEF SesSpec, PolSpec, ExprSpec, RowSpec, FileSpec, LimSpec, ColSpec, AppsKept
<1>4. AppsKept => AppsTypeOK
  <2> SUFFICES ASSUME AppsKept PROVE AppsTypeOK
    OBVIOUS
  <2>1. SesTypeOK /\ PolTypeOK /\ RowTypeOK /\ FileTypeOK /\ LimTypeOK /\ ColTypeOK
    BY DEF AppsKept, SesInv, PolTyped, RowInv, FileInv, LimInv, ColInv
  <2> QED
    BY <2>1 DEF AppsTypeOK
<1> QED
  BY <1>3, <1>4, PTL
=============================================================================
