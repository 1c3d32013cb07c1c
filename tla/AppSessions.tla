---------------------------- MODULE AppSessions ----------------------------
(***************************************************************************)
(* The end users of an app: registration, sign-in by password and by       *)
(* Google, sessions and their refresh tokens, and what the dashboard does  *)
(* to an account meanwhile.  Every statement of a request is a step of its *)
(* own; none of these requests uses a transaction.                         *)
(*                                                                         *)
(* JWTs are not stored, and end by their expiry only: they have no state.  *)
(***************************************************************************)
EXTENDS Naturals, FiniteSets

CONSTANTS Emails, GoogleIds,
          MailOf,       \* the address of each Google account
          SReqs,        \* requests in flight at once
          Nil,          \* stands for no email, no Google account
          MaxAccounts, MaxSessions,  \* bounds: rows ever inserted
          MaxRotations, \* bound: refresh tokens of one session
          MaxResets     \* bound: resets of the sessions of an account

ASSUME SessionBounds == {MaxAccounts, MaxSessions, MaxRotations, MaxResets} \subseteq Nat \ {0}
ASSUME MailsAreEmails == MailOf \in [GoogleIds -> Emails]
ASSUME NilIsNone == Nil \notin Emails \cup GoogleIds

VARIABLES account,   \* _auth_users
          accounts,  \* rows of it
          session,   \* _auth_sessions
          sessions,  \* rows ever inserted
          sreq,      \* requests in flight
          resets,    \* history: how often the sessions of an account were ended
          unreset    \* history: accounts whose sessions were left after a change of the email

sesDb == <<account, accounts, session, sessions>>
sesVars == <<sesDb, sreq, resets, unreset>>

-----------------------------------------------------------------------------
AccountIds == 1 .. MaxAccounts
SessionIds == 1 .. MaxSessions

NoAccount == [email |-> Nil, google |-> Nil, active |-> TRUE, late |-> FALSE]
Account == [email : Emails \cup {Nil}, google : GoogleIds \cup {Nil}, active : BOOLEAN,
            late : BOOLEAN]
\* history: the reset the sign-in follows, its email, and whether either passed it by.
NoSession == [live |-> FALSE, account |-> 1, token |-> 1, reset |-> 0, email |-> Nil, late |-> FALSE]
Session == [live : BOOLEAN, account : AccountIds, token : 1 .. MaxRotations, reset : 0 .. MaxResets,
            email : Emails \cup {Nil}, late : BOOLEAN]

SReqIdle == [pc |-> "idle", account |-> 1, session |-> 1, email |-> Nil, google |-> Nil,
             changed |-> FALSE, reset |-> 0, overtaken |-> FALSE]
SReq == [pc : {"idle", "password", "rotate", "write", "reset", "by_email", "link", "insert"},
         account : AccountIds, session : SessionIds, email : Emails \cup {Nil},
         google : GoogleIds \cup {Nil}, changed : BOOLEAN, reset : 0 .. MaxResets,
         overtaken : BOOLEAN]

SesInit ==
    /\ account = [a \in AccountIds |-> NoAccount]
    /\ accounts = 0
    /\ session = [s \in SessionIds |-> NoSession]
    /\ sessions = 0
    /\ sreq = [r \in SReqs |-> SReqIdle]
    /\ resets = [a \in AccountIds |-> 0]
    /\ unreset = {}

Registered == 1 .. accounts
ByEmail(e) == {a \in Registered : account[a].email = e}
ByGoogle(g) == {a \in Registered : account[a].google = g}

InState(r, pc) == sreq[r].pc = pc
Open(r, q) == InState(r, "idle") /\ sreq' = [sreq EXCEPT ![r] = q]
Close(r) == sreq' = [sreq EXCEPT ![r] = SReqIdle]
\* history: this step passes by the sign-ins in flight.
SignIns == {r \in SReqs : sreq[r].pc \in {"password", "by_email", "link", "insert"}}
Overtake(reqs) == [r \in SReqs |-> IF r \in SignIns THEN [reqs[r] EXCEPT !.overtaken = TRUE]
                                    ELSE reqs[r]]

\* The caller goes away, a query fails, the pod dies.
FailSignIn(r) ==
    /\ ~InState(r, "idle")
    /\ unreset' = IF InState(r, "reset") THEN unreset \cup {sreq[r].account} ELSE unreset
    /\ Close(r)
    /\ UNCHANGED <<sesDb, resets>>

NewAccount(e, g, late) ==
    /\ accounts < MaxAccounts
    /\ accounts' = accounts + 1
    /\ account' = [account EXCEPT ![accounts + 1] =
                     [NoAccount EXCEPT !.email = e, !.google = g, !.late = late]]

-----------------------------------------------------------------------------
(* Password, session and refresh token.                                    *)

Register(e) ==
    /\ ByEmail(e) = {}
    /\ NewAccount(e, Nil, FALSE)
    /\ UNCHANGED <<session, sessions, sreq, resets, unreset>>

\* The row is read; then the password is compared, which takes its time.
BeginLogin(r, a) ==
    /\ a \in Registered
    /\ account[a].active
    /\ Open(r, [SReqIdle EXCEPT !.pc = "password", !.account = a, !.email = account[a].email,
                                !.reset = resets[a]])
    /\ UNCHANGED <<sesDb, resets, unreset>>

InsertSession(r) ==
    LET q == sreq[r] IN
    /\ InState(r, "password")
    /\ sessions < MaxSessions
    /\ sessions' = sessions + 1
    /\ session' = [session EXCEPT ![sessions + 1] =
                     [live |-> TRUE, account |-> q.account, token |-> 1, reset |-> q.reset,
                      email |-> q.email, late |-> q.overtaken]]
    /\ Close(r)
    /\ UNCHANGED <<account, accounts, resets, unreset>>

\* Reads the session by its token, and the email and the role of its user.
BeginRefresh(r, s) ==
    /\ session[s].live
    /\ Open(r, [SReqIdle EXCEPT !.pc = "rotate", !.session = s])
    /\ UNCHANGED <<sesDb, resets, unreset>>

Rotate(r, s, live) ==
    /\ InState(r, "rotate")
    /\ session' = [session EXCEPT ![s].live = live,
                     ![s].token = IF live /\ @ < MaxRotations THEN @ + 1 ELSE @]
    /\ Close(r)
    /\ UNCHANGED <<account, accounts, sessions, resets, unreset>>

\* Mutant: the session is inserted again when the UPDATE finds no row.
UpsertSession(r) == Rotate(r, sreq[r].session, TRUE)

\* Writes by the session's id, whatever became of its token; says 200 anyway.
RotateSession(r) == LET s == sreq[r].session IN Rotate(r, s, session[s].live)

EndSessions(a) ==
    /\ resets[a] < MaxResets
    /\ resets' = [resets EXCEPT ![a] = @ + 1]
    /\ session' = [s \in SessionIds |-> IF session[s].account = a
                                        THEN NoSession ELSE session[s]]
    /\ unreset' = unreset \ {a}

\* The user's logout, and the dashboard's reset of the sessions.
Logout(a) ==
    /\ a \in Registered
    /\ EndSessions(a)
    /\ sreq' = Overtake(sreq)
    /\ UNCHANGED <<account, accounts, sessions>>

-----------------------------------------------------------------------------
(* Sign-in with Google: three lookups, and a JWT without a session.        *)

SignInWith(r, g, knownBy) ==
    /\ \/ knownBy # {} /\ UNCHANGED sreq
       \/ knownBy = {} /\ Open(r, [SReqIdle EXCEPT !.pc = "by_email", !.google = g,
                                     !.email = MailOf[g]])
    /\ UNCHANGED <<sesDb, resets, unreset>>

\* Whether the account is active is not asked.
GoogleCallback(r, g) == SignInWith(r, g, ByGoogle(g))

FindByEmail(r) ==
    LET found == ByEmail(sreq[r].email) IN
    /\ InState(r, "by_email")
    /\ sreq' = IF found = {} THEN [sreq EXCEPT ![r].pc = "insert"]
               ELSE [sreq EXCEPT ![r].pc = "link", ![r].account = CHOOSE a \in found : TRUE]
    /\ UNCHANGED <<sesDb, resets, unreset>>

LinkGoogle(r) ==
    /\ InState(r, "link")
    /\ account' = [account EXCEPT ![sreq[r].account].google = sreq[r].google,
                                  ![sreq[r].account].late = @ \/ sreq[r].overtaken]
    /\ Close(r)
    /\ UNCHANGED <<accounts, session, sessions, resets, unreset>>

InsertEndUser(r, e, g) ==
    /\ InState(r, "insert")
    /\ IF ByEmail(e) = {} /\ accounts < MaxAccounts
       THEN NewAccount(e, g, sreq[r].overtaken)
       ELSE UNCHANGED <<account, accounts>>
    /\ Close(r)
    /\ UNCHANGED <<session, sessions, resets, unreset>>

\* Mutant: the columns are swapped.
InsertSwapped(r) == InsertEndUser(r, sreq[r].google, sreq[r].email)

InsertGoogleUser(r) == InsertEndUser(r, sreq[r].email, sreq[r].google)

-----------------------------------------------------------------------------
(* The dashboard.                                                          *)

\* DeactivateAppUser, ActivateAppUser: the flag and nothing else.
SetActive(a, on) ==
    /\ a \in Registered
    /\ account[a].active # on
    /\ account' = [account EXCEPT ![a].active = on]
    /\ UNCHANGED <<accounts, session, sessions, sreq, resets, unreset>>

\* Whether the email changes is decided by a read of its own.
BeginUpdate(r, a, e) ==
    /\ a \in Registered
    /\ Open(r, [SReqIdle EXCEPT !.pc = "write", !.account = a, !.email = e,
                                !.changed = account[a].email # e])
    /\ UNCHANGED <<sesDb, resets, unreset>>

UpdateAppUser(r) ==
    LET q == sreq[r] IN
    /\ InState(r, "write")
    /\ IF ByEmail(q.email) \subseteq {q.account}
       THEN /\ account' = [account EXCEPT ![q.account].email = q.email]
            /\ unreset' = IF account[q.account].email # q.email /\ ~q.changed
                          THEN unreset \cup {q.account} ELSE unreset
            /\ sreq' = Overtake([sreq EXCEPT ![r] = IF q.changed THEN [q EXCEPT !.pc = "reset"]
                                                     ELSE SReqIdle])
       ELSE Close(r) /\ UNCHANGED <<account, unreset>>
    /\ UNCHANGED <<accounts, session, sessions, resets>>

\* Its failure is only logged (FailSignIn).
ResetAfterChange(r) ==
    /\ InState(r, "reset")
    /\ EndSessions(sreq[r].account)
    /\ sreq' = Overtake([sreq EXCEPT ![r] = SReqIdle])
    /\ UNCHANGED <<account, accounts, sessions>>

-----------------------------------------------------------------------------
SesStep(r) ==
    \/ InsertSession(r) \/ RotateSession(r)
    \/ FindByEmail(r) \/ LinkGoogle(r) \/ InsertGoogleUser(r)
    \/ UpdateAppUser(r) \/ ResetAfterChange(r)
    \/ FailSignIn(r)

SesNext ==
    \/ \E e \in Emails : Register(e)
    \/ \E a \in AccountIds : Logout(a) \/ \E on \in BOOLEAN : SetActive(a, on)
    \/ \E r \in SReqs :
          \/ \E a \in AccountIds :
                \/ BeginLogin(r, a)
                \/ \E e \in Emails : BeginUpdate(r, a, e)
          \/ \E s \in SessionIds : BeginRefresh(r, s)
          \/ \E g \in GoogleIds : GoogleCallback(r, g)
          \/ SesStep(r)

SesSpec == SesInit /\ [][SesNext]_sesVars

-----------------------------------------------------------------------------
SesTypeOK ==
    /\ account \in [AccountIds -> Account]
    /\ accounts \in 0 .. MaxAccounts
    /\ session \in [SessionIds -> Session]
    /\ sessions \in 0 .. MaxSessions
    /\ sreq \in [SReqs -> SReq]
    /\ resets \in [AccountIds -> 0 .. MaxResets]
    /\ unreset \subseteq AccountIds

LiveSessions == {s \in SessionIds : session[s].live}

\* A logout or a reset ends every session for good (Logout, ResetAppUserSessions):
\* what lives is of a sign-in after the last of them, or of one that it overlapped;
\* no refresh that was in flight brings a session back.
SessionsAreCurrent ==
    \A s \in LiveSessions : session[s].late \/ session[s].reset = resets[session[s].account]

\* Who signed in by an address that the account no longer has is signed out
\* (UpdateAppUser resets the sessions of a changed email), but for a sign-in that
\* the change overlapped, a reset that failed, and an update that was overtaken.
SessionMatchesEmail ==
    \A s \in LiveSessions :
        \/ session[s].email = account[session[s].account].email
        \/ session[s].late
        \/ session[s].account \in unreset
        \/ \E r \in SReqs : InState(r, "reset") /\ sreq[r].account = session[s].account

\* A Google account opens one account (findOrCreateAppUser: no index says so),
\* unless an email changed between its lookups.
OneAccountPerGoogle ==
    \A a, b \in Registered :
        a # b /\ account[a].google = account[b].google /\ account[a].google # Nil
            => account[a].late \/ account[b].late

\* Sessions that live are current in both ways, and their accounts are told apart.
SignInsAreSound == SessionsAreCurrent /\ SessionMatchesEmail /\ OneAccountPerGoogle
=============================================================================
