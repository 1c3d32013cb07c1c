------------------------- MODULE TokenFamilies_proofs -------------------------
(***************************************************************************)
(* Codes are exchanged once, families of tokens have one heir, and what is *)
(* revoked stays so, for any number of users, clients, codes and requests. *)
(*                                                                         *)
(* The argument: of two requests that lock one code or one row, one waits, *)
(* so that what a request read under its lock is still true; a family that *)
(* has begun begins no second time; and a request about to end a family    *)
(* has seen all of it that lives, or one of those it saw has been replaced *)
(* since.                                                                  *)
(***************************************************************************)
EXTENDS TokenFamilies, TLAPS

\* Requests that have found a row, those whose row is of a family, and those that lock it.
OnFamily == {"refresh", "lock_row", "rotate", "commit", "snapshot", "end"}
OnRow == OnFamily \cup {"read_token", "read_user", "admitted"}
Holding == {"rotate", "commit", "snapshot", "end"}

\* What the tables tok and cod are at any time, with mi rows ever inserted.
TablesOK(tok, cod, mi) ==
    /\ \A t \in Rows :
          /\ tok[t].state = "none" => tok[t].code = NoOwner /\ ~tok[t].refresh
          /\ t > mi => tok[t].state = "none"
          /\ tok[t].refresh => tok[t].code \in Codes
          /\ tok[t].code \in Codes => cod[tok[t].code].state \in {"used", "gone"}
    /\ \A s, t \in Rows : tok[s].code = tok[t].code /\ tok[s].code \in Codes =>
          /\ tok[s].user = tok[t].user /\ tok[s].client = tok[t].client
          /\ tok[s].state = "live" /\ tok[t].state = "live" => s = t

\* A request about to end the family of row saw all that lives, or was overtaken.
EndOK(row, targets, tok) ==
    /\ \A x \in targets : tok[x].code = tok[row].code
    /\ \A t \in Rows : tok[t].code = tok[row].code /\ tok[t].state = "live" =>
          t \in targets \/ \E x \in targets : tok[x].state = "replaced"

\* What a request k knows of the tables.
ReqOK(k, tok, cod, mi) ==
    /\ k.pc = "consume" => cod[k.code].state \in {"issued", "expired"}
    /\ k.pc = "mint" => /\ cod[k.code].state \in {"used", "gone"}
                        /\ \A t \in Rows : tok[t].code # k.code
    /\ k.pc \in OnRow => k.row \in Rows /\ tok[k.row].state # "none"
    /\ k.pc \in OnFamily => tok[k.row].code \in Codes
    /\ k.pc \in {"rotate", "commit"} => tok[k.row].state = "live"
    /\ k.pc = "commit" => k.next \in Rows /\ k.next <= mi /\ tok[k.next].state = "none"
    /\ k.pc = "end" => EndOK(k.row, k.targets, tok)
    /\ k.pc = "read_token" /\ k.revokedBefore => tok[k.row].state # "live"
    /\ k.pc \in {"read_user", "admitted"} => ~k.revokedBefore

\* What two requests never share.
Apart(k, l) ==
    /\ k.pc = l.pc /\ k.pc \in {"consume", "mint"} => k.code # l.code
    /\ k.pc \in Holding /\ l.pc \in Holding => k.row # l.row
    /\ k.pc = "commit" /\ l.pc = "commit" => k.next # l.next

\* A family that was reported has begun, and is over unless it was raced.
ReportsOK(tok, rep, rac) ==
    \A c \in rep :
        /\ \E t \in Rows : tok[t].code = c
        /\ c \notin rac => \A t \in Rows : tok[t].code = c => tok[t].state # "live"

ReqsOK == \A r \in TokenReqs : ReqOK(treq[r], token, code, minted)
ReqsApart == \A q, r \in TokenReqs : q # r => Apart(treq[q], treq[r])

\* The inductive invariant.
FamInv ==
    /\ FamTypeOK
    /\ TablesOK(token, code, minted)
    /\ ReqsOK
    /\ ReqsApart
    /\ ReportsOK(token, reported, raced)

-----------------------------------------------------------------------------
\* The sentinels have the types of what they stand for.
LEMMA Sentinels ==
    /\ AUser \in Users /\ ACode \in Codes
    /\ TReqIdle \in TReqState /\ TReqIdle.pc = "idle"
    /\ NoCode \in CodeState
    /\ NoToken \in TokenState /\ NoToken.state = "none" /\ NoToken.code = NoOwner /\ ~NoToken.refresh
    /\ NoOwner \notin Codes
<1>1. AUser \in Users /\ ACode \in Codes
  BY OneOfEachExists DEF AUser, ACode
<1>2. 0 \in 0 .. MaxTokens
  BY TokenBound
<1>3. TReqIdle \in TReqState /\ TReqIdle.pc = "idle"
  BY <1>1, <1>2 DEF TReqIdle, TReqState
<1>4. NoCode \in CodeState
  BY <1>1 DEF NoCode, CodeState
<1>5. NoToken \in TokenState /\ NoToken.state = "none" /\ NoToken.code = NoOwner /\ ~NoToken.refresh
  BY <1>1 DEF NoToken, TokenState
<1> QED
  BY <1>1, <1>3, <1>4, <1>5, NoOwnerIsNone

\* The request r replaces its record by k, and everything else is shown of the new tables.
LEMMA StepOf ==
    ASSUME FamInv, NEW r \in TokenReqs, NEW k \in TReqState, treq' = [treq EXCEPT ![r] = k],
           FamTypeOK',
           TablesOK(token', code', minted'),
           ReqOK(k, token', code', minted'),
           \A q \in TokenReqs \ {r} : ReqOK(treq[q], token', code', minted') /\ Apart(treq[q], k),
           ReportsOK(token', reported', raced')
    PROVE  FamInv'
<1>1. treq \in [TokenReqs -> TReqState]
  BY DEF FamInv, FamTypeOK
<1>2. treq'[r] = k /\ \A q \in TokenReqs \ {r} : treq'[q] = treq[q]
  BY <1>1
<1>3. ReqsOK'
  BY <1>2 DEF ReqsOK
<1>4. ReqsApart'
  <2> SUFFICES ASSUME NEW p \in TokenReqs, NEW q \in TokenReqs, p # q
               PROVE  Apart(treq'[p], treq'[q])
    BY DEF ReqsApart
  <2>1. CASE p # r /\ q # r
    BY <1>2, <2>1 DEF FamInv, ReqsApart
  <2>2. CASE q = r
    BY <1>2, <2>2
  <2>3. CASE p = r
    <3>1. Apart(treq[q], k)
      BY <2>3
    <3> QED
      BY <1>2, <2>3, <3>1 DEF Apart
  <2> QED
    BY <2>1, <2>2, <2>3
<1> QED
  BY <1>3, <1>4 DEF FamInv

\* A request that does nothing but wait, read or answer.
LEMMA QuietStep ==
    ASSUME FamInv, NEW r \in TokenReqs, NEW k \in TReqState, treq' = [treq EXCEPT ![r] = k],
           UNCHANGED <<famDb, famHistory>>,
           ReqOK(k, token, code, minted),
           \A q \in TokenReqs \ {r} : Apart(treq[q], k)
    PROVE  FamInv'
<1>1. UNCHANGED <<owners, code, token, minted, reported, raced>>
  BY DEF famDb, famHistory
<1>2. FamTypeOK'
  BY <1>1 DEF FamInv, FamTypeOK
<1>3. \A q \in TokenReqs \ {r} : ReqOK(treq[q], token, code, minted)
  BY DEF FamInv, ReqsOK
<1> QED
  BY <1>1, <1>2, <1>3, StepOf DEF FamInv

\* An answer leaves a request that knows nothing.
LEMMA IdleIsOK ==
    ASSUME NEW tok, NEW cod, NEW mi, NEW l
    PROVE  ReqOK(TReqIdle, tok, cod, mi) /\ Apart(l, TReqIdle)
BY Sentinels DEF ReqOK, Apart, OnRow, OnFamily, Holding

-----------------------------------------------------------------------------
(* How the tables change under the other requests.                         *)

\* Rows keep what they are of, and some that were there stop being live.
Withers(tok, tok2) ==
    \A t \in Rows :
        /\ tok2[t].code = tok[t].code /\ tok2[t].user = tok[t].user /\ tok2[t].client = tok[t].client
        /\ \/ tok2[t].state = tok[t].state
           \/ tok[t].state # "none" /\ tok2[t].state \notin {"none", "live"}

\* A replaced row is lost to nobody who looks for it, unless its family is over.
Witnesses(tok, tok2) ==
    \A s, t \in Rows :
        tok[s].code = tok[t].code /\ tok[s].code \in Codes /\ tok[s].state = "replaced" /\ tok2[t].state = "live"
            => tok2[s].state = "replaced"

\* A request keeps what it knows when rows wither, none of them a row it still needs alive.
LEMMA WitherKeepsReq ==
    ASSUME NEW k \in TReqState, NEW tok, NEW tok2, NEW cod, NEW mi,
           Withers(tok, tok2), Witnesses(tok, tok2), ReqOK(k, tok, cod, mi),
           k.pc \in {"rotate", "commit"} => tok2[k.row].state = "live"
    PROVE  ReqOK(k, tok2, cod, mi)
<1>1. k.pc = "end" => EndOK(k.row, k.targets, tok2)
  <2> SUFFICES ASSUME k.pc = "end" PROVE EndOK(k.row, k.targets, tok2)
    OBVIOUS
  <2>1. k.targets \subseteq Rows /\ k.row \in Rows /\ tok[k.row].code \in Codes /\ EndOK(k.row, k.targets, tok)
    BY DEF ReqOK, TReqState, OnRow, OnFamily
  <2>2. \A t \in Rows : tok2[t].code = tok[t].code /\ (tok2[t].state = "live" => tok[t].state = "live")
    BY DEF Withers
  <2>3. ASSUME NEW t \in Rows, tok2[t].code = tok2[k.row].code, tok2[t].state = "live"
        PROVE  t \in k.targets \/ \E x \in k.targets : tok2[x].state = "replaced"
    <3>1. CASE t \in k.targets
      BY <3>1
    <3>2. CASE t \notin k.targets
      <4>1. PICK x \in k.targets : tok[x].state = "replaced"
        BY <2>1, <2>2, <2>3, <3>2 DEF EndOK
      <4>2. tok[x].code = tok[t].code /\ tok[x].code \in Codes /\ x \in Rows
        BY <2>1, <2>2, <2>3 DEF EndOK
      <4> QED
        BY <2>3, <4>1, <4>2 DEF Witnesses
    <3> QED
      BY <3>1, <3>2
  <2> QED
    BY <2>1, <2>2, <2>3 DEF EndOK
<1> QED
  BY <1>1 DEF ReqOK, Withers, OnRow, OnFamily

\* Withering keeps the tables and the reports.
LEMMA WitherKeepsTables ==
    ASSUME NEW tok, NEW tok2, NEW cod, NEW mi, Withers(tok, tok2), TablesOK(tok, cod, mi),
           \A t \in Rows : tok2[t].refresh => tok[t].refresh \/ (tok[t].code \in Codes /\ tok[t].state # "none"),
           NEW rep, NEW rac, ReportsOK(tok, rep, rac)
    PROVE  TablesOK(tok2, cod, mi) /\ ReportsOK(tok2, rep, rac)
<1>1. \A t \in Rows :
        /\ tok2[t].code = tok[t].code /\ tok2[t].user = tok[t].user /\ tok2[t].client = tok[t].client
        /\ tok2[t].state = "none" <=> tok[t].state = "none"
        /\ tok2[t].state = "live" => tok[t].state = "live"
  BY DEF Withers
<1>2. TablesOK(tok2, cod, mi)
  BY <1>1 DEF TablesOK
<1>3. ReportsOK(tok2, rep, rac)
  BY <1>1 DEF ReportsOK
<1> QED
  BY <1>2, <1>3

\* A row is inserted, alive, of no family or of one that has no other row.
Grows(tok, tok2) ==
    \E n \in Rows, new \in TokenState :
        /\ tok[n].state = "none" /\ new.state = "live" /\ tok2 = [tok EXCEPT ![n] = new]
        /\ new.code \in Codes => \A t \in Rows : tok[t].code # new.code

\* A new row, of a family that has no other.
LEMMA GrowKeepsTables ==
    ASSUME FamInv, minted < MaxTokens, NEW new \in TokenState,
           new.state = "live", ~new.refresh,
           new.code \in Codes => code[new.code].state \in {"used", "gone"},
           new.code \in Codes => \A t \in Rows : token[t].code # new.code
    PROVE  LET tok2 == [token EXCEPT ![minted + 1] = new] IN
           /\ tok2 \in [Rows -> TokenState]
           /\ TablesOK(tok2, code, minted + 1)
           /\ ReportsOK(tok2, reported, raced)
           /\ Grows(token, tok2)
<1> DEFINE n == minted + 1
           tok2 == [token EXCEPT ![n] = new]
<1>1. /\ minted \in Nat /\ n \in Rows /\ n > minted /\ token \in [Rows -> TokenState]
      /\ reported \subseteq Codes /\ TablesOK(token, code, minted) /\ ReportsOK(token, reported, raced)
  BY TokenBound DEF FamInv, FamTypeOK, Rows
<1>2. tok2 \in [Rows -> TokenState] /\ tok2[n] = new /\ \A t \in Rows \ {n} : tok2[t] = token[t]
  BY <1>1
<1>3. token[n].state = "none" /\ token[n].code \notin Codes
  BY <1>1, Sentinels DEF TablesOK
<1>4. \A t \in Rows : t > n => t > minted /\ t # n
  BY <1>1 DEF Rows
<1> HIDE DEF tok2, n
<1>5. TablesOK(tok2, code, n)
  BY <1>1, <1>2, <1>3, <1>4 DEF TablesOK
<1>6. ReportsOK(tok2, reported, raced)
  <2> SUFFICES ASSUME NEW c \in reported
               PROVE  /\ \E t \in Rows : tok2[t].code = c
                      /\ c \notin raced => \A t \in Rows : tok2[t].code = c => tok2[t].state # "live"
    BY DEF ReportsOK
  <2>1. PICK t \in Rows : token[t].code = c
    BY <1>1 DEF ReportsOK
  <2>2. t # n /\ c # new.code
    BY <1>1, <1>3, <2>1
  <2>3. \A s \in Rows : tok2[s].code = c => tok2[s] = token[s]
    BY <1>2, <2>2
  <2> QED
    BY <1>1, <1>2, <2>1, <2>2, <2>3 DEF ReportsOK
<1>7. Grows(token, tok2)
  <2>1. tok2 = [token EXCEPT ![n] = new]
    BY DEF tok2
  <2> QED
    BY <1>1, <1>3, <2>1 DEF Grows
<1> QED
  BY <1>2, <1>5, <1>6, <1>7 DEF tok2, n

\* A request keeps what it knows when another one makes a row of a new family.
LEMMA GrowKeepsReq ==
    ASSUME FamInv, minted < MaxTokens, NEW new \in TokenState, NEW k \in TReqState,
           ReqOK(k, token, code, minted),
           new.code \in Codes => \A t \in Rows : token[t].code # new.code,
           k.pc = "mint" => k.code # new.code
    PROVE  ReqOK(k, [token EXCEPT ![minted + 1] = new], code, minted + 1)
<1> DEFINE n == minted + 1
           tok2 == [token EXCEPT ![n] = new]
<1>1. /\ minted \in Nat /\ n \in Rows /\ n > minted /\ token \in [Rows -> TokenState]
      /\ TablesOK(token, code, minted)
  BY TokenBound DEF FamInv, FamTypeOK, Rows
<1>2. tok2[n] = new /\ \A t \in Rows \ {n} : tok2[t] = token[t]
  BY <1>1
<1>3. token[n].state = "none"
  BY <1>1 DEF TablesOK
<1>4. k.pc \in OnRow => k.row # n /\ tok2[k.row] = token[k.row]
  BY <1>2, <1>3 DEF ReqOK
<1>5. k.pc = "commit" => k.next # n /\ k.next <= n /\ tok2[k.next] = token[k.next]
  BY <1>1, <1>2, TokenBound DEF ReqOK, Rows
<1> HIDE DEF tok2, n
<1>6. k.pc = "end" => EndOK(k.row, k.targets, tok2)
  <2> SUFFICES ASSUME k.pc = "end" PROVE EndOK(k.row, k.targets, tok2)
    OBVIOUS
  <2>1. /\ k.targets \subseteq Rows /\ tok2[k.row] = token[k.row] /\ token[k.row].code \in Codes
        /\ EndOK(k.row, k.targets, token) /\ k.row \in Rows
    BY <1>4 DEF ReqOK, TReqState, OnRow, OnFamily
  <2>2. token[n].code \notin Codes /\ new.code # token[k.row].code
    BY <1>1, <1>3, <2>1, Sentinels DEF TablesOK
  <2>3. n \notin k.targets
    BY <2>1, <2>2 DEF EndOK
  <2> QED
    BY <1>2, <2>1, <2>2, <2>3 DEF EndOK
<1>7. k.pc = "mint" => \A t \in Rows : tok2[t].code # k.code
  BY <1>2 DEF ReqOK
<1> QED
  BY <1>4, <1>5, <1>6, <1>7 DEF ReqOK, OnRow, OnFamily, tok2, n

\* The row y, alive, is replaced by its heir n, which was blank.
Succeeds(y, n, tok, tok2) ==
    /\ y \in Rows /\ n \in Rows /\ y # n
    /\ tok[y].state = "live" /\ tok[y].code \in Codes /\ tok[n].state = "none"
    /\ tok2 = [tok EXCEPT ![y].state = "replaced", ![n] = [tok[y] EXCEPT !.state = "live"]]

\* What a row and its successor are, before and after a rotation.
LEMMA SuccessionFacts ==
    ASSUME NEW tok \in [Rows -> TokenState], NEW tok2, NEW y, NEW n, Succeeds(y, n, tok, tok2)
    PROVE  /\ tok2 \in [Rows -> TokenState]
           /\ tok2[y].state = "replaced" /\ tok2[n].state = "live"
           /\ \A t \in {y, n} : /\ tok2[t].code = tok[y].code /\ tok2[t].user = tok[y].user
                                /\ tok2[t].client = tok[y].client /\ tok2[t].refresh = tok[y].refresh
           /\ \A t \in Rows \ {y, n} : tok2[t] = tok[t]
<1>1. tok[y] \in TokenState /\ tok[n] \in TokenState
  BY DEF Succeeds
<1>2. /\ [tok[y] EXCEPT !.state = "live"] \in TokenState
      /\ [tok[y] EXCEPT !.state = "replaced"] \in TokenState
  BY <1>1 DEF TokenState, Revoked
<1>3. /\ tok2[y] = [tok[y] EXCEPT !.state = "replaced"]
      /\ tok2[n] = [tok[y] EXCEPT !.state = "live"]
      /\ \A t \in Rows \ {y, n} : tok2[t] = tok[t]
      /\ tok2 \in [Rows -> TokenState]
  BY <1>2 DEF Succeeds
<1>4. /\ tok2[y].state = "replaced" /\ tok2[y].code = tok[y].code /\ tok2[y].user = tok[y].user
      /\ tok2[y].client = tok[y].client /\ tok2[y].refresh = tok[y].refresh
  BY <1>1, <1>3 DEF TokenState
<1>5. /\ tok2[n].state = "live" /\ tok2[n].code = tok[y].code /\ tok2[n].user = tok[y].user
      /\ tok2[n].client = tok[y].client /\ tok2[n].refresh = tok[y].refresh
  BY <1>1, <1>3 DEF TokenState
<1> QED
  BY <1>3, <1>4, <1>5

\* The tables stay in order when a row is replaced by its successor.
LEMMA SuccessionKeepsTables ==
    ASSUME NEW tok \in [Rows -> TokenState], NEW tok2, NEW y, NEW n, Succeeds(y, n, tok, tok2),
           NEW cod, NEW mi \in Nat, n <= mi, TablesOK(tok, cod, mi),
           NEW rep \in SUBSET Codes, NEW rac, ReportsOK(tok, rep, rac)
    PROVE  TablesOK(tok2, cod, mi) /\ ReportsOK(tok2, rep, rac)
<1>1. /\ tok2[y].state = "replaced" /\ tok2[n].state = "live"
      /\ \A t \in {y, n} : /\ tok2[t].code = tok[y].code /\ tok2[t].user = tok[y].user
                           /\ tok2[t].client = tok[y].client /\ tok2[t].refresh = tok[y].refresh
      /\ \A t \in Rows \ {y, n} : tok2[t] = tok[t]
  BY SuccessionFacts
<1>2. y \in Rows /\ n \in Rows /\ tok[y].state = "live" /\ tok[y].code \in Codes /\ tok[n].code = NoOwner
  BY DEF Succeeds, TablesOK
<1>3. ~(n > mi)
  BY <1>2 DEF Rows
<1>4. \A t \in Rows :
        /\ tok2[t].state = "none" => tok2[t].code = NoOwner /\ ~tok2[t].refresh
        /\ t > mi => tok2[t].state = "none"
        /\ tok2[t].refresh => tok2[t].code \in Codes
        /\ tok2[t].code \in Codes => cod[tok2[t].code].state \in {"used", "gone"}
  BY <1>1, <1>2, <1>3 DEF TablesOK
<1>5. \A t \in Rows : tok2[t].code \in Codes =>
        \E s \in Rows : /\ tok[s].code = tok2[t].code /\ tok[s].user = tok2[t].user
                        /\ tok[s].client = tok2[t].client
                        /\ tok2[t].state = "live" => tok[s].state = "live" /\ s # n /\ (s = IF t = n THEN y ELSE t)
  <2> TAKE t \in Rows
  <2>1. CASE t \in {y, n}
    BY <1>1, <1>2, <2>1, Sentinels
  <2>2. CASE t \notin {y, n}
    BY <1>1, <2>2
  <2> QED
    BY <2>1, <2>2
<1>6. ASSUME NEW s \in Rows, NEW t \in Rows, tok2[s].code = tok2[t].code, tok2[s].code \in Codes
      PROVE  /\ tok2[s].user = tok2[t].user /\ tok2[s].client = tok2[t].client
             /\ tok2[s].state = "live" /\ tok2[t].state = "live" => s = t
  <2>1. PICK a \in Rows : /\ tok[a].code = tok2[s].code /\ tok[a].user = tok2[s].user
                          /\ tok[a].client = tok2[s].client
                          /\ tok2[s].state = "live" => tok[a].state = "live" /\ a # n /\ (a = IF s = n THEN y ELSE s)
    BY <1>5, <1>6
  <2>2. PICK b \in Rows : /\ tok[b].code = tok2[t].code /\ tok[b].user = tok2[t].user
                          /\ tok[b].client = tok2[t].client
                          /\ tok2[t].state = "live" => tok[b].state = "live" /\ b # n /\ (b = IF t = n THEN y ELSE t)
    BY <1>5, <1>6
  <2>3. /\ tok[a].user = tok[b].user /\ tok[a].client = tok[b].client
        /\ tok[a].state = "live" /\ tok[b].state = "live" => a = b
    BY <1>6, <2>1, <2>2 DEF TablesOK
  <2>4. ASSUME tok2[s].state = "live", tok2[t].state = "live" PROVE s = t
    BY <1>1, <2>1, <2>2, <2>3, <2>4
  <2> QED
    BY <2>1, <2>2, <2>3, <2>4
<1>7. TablesOK(tok2, cod, mi)
  BY <1>4, <1>6 DEF TablesOK
<1>8. ReportsOK(tok2, rep, rac)
  <2> SUFFICES ASSUME NEW c \in rep
               PROVE  /\ \E t \in Rows : tok2[t].code = c
                      /\ c \notin rac => \A t \in Rows : tok2[t].code = c => tok2[t].state # "live"
    BY DEF ReportsOK
  <2>1. \E t \in Rows : tok2[t].code = c
    <3>1. PICK t \in Rows : tok[t].code = c
      BY DEF ReportsOK
    <3>2. t # n
      BY <1>2, <3>1, Sentinels
    <3> QED
      BY <1>1, <3>1, <3>2
  <2>2. ASSUME c \notin rac PROVE tok[y].code # c
    BY <1>2, <2>2 DEF ReportsOK
  <2> QED
    BY <1>1, <2>1, <2>2 DEF ReportsOK
<1> QED
  BY <1>7, <1>8

\* A request keeps what it knows when another one commits a rotation.
LEMMA SuccessionKeepsReq ==
    ASSUME NEW tok \in [Rows -> TokenState], NEW tok2, NEW y, NEW n, Succeeds(y, n, tok, tok2),
           NEW cod, NEW mi, TablesOK(tok, cod, mi), NEW k \in TReqState, ReqOK(k, tok, cod, mi),
           k.pc \in Holding => k.row # y,
           k.pc = "commit" => k.next # n
    PROVE  ReqOK(k, tok2, cod, mi)
<1>1. /\ tok2[y].state = "replaced" /\ tok2[n].state = "live"
      /\ \A t \in {y, n} : tok2[t].code = tok[y].code
      /\ \A t \in Rows \ {y, n} : tok2[t] = tok[t]
  BY SuccessionFacts
<1>2. /\ y \in Rows /\ n \in Rows /\ y # n /\ tok[y].state = "live" /\ tok[n].state = "none"
      /\ tok[n].code = NoOwner /\ tok[y].code \in Codes
  BY DEF Succeeds, TablesOK
<1>3. k.pc \in OnRow => k.row \in Rows /\ k.row # n /\ tok2[k.row].code = tok[k.row].code
                        /\ tok2[k.row].state # "none"
                        /\ (tok[k.row].state # "live" => tok2[k.row].state = tok[k.row].state)
  BY <1>1, <1>2 DEF ReqOK
<1>4. k.pc \in {"rotate", "commit"} => tok2[k.row].state = "live"
  BY <1>1, <1>2, <1>3 DEF ReqOK, OnRow, OnFamily, Holding
<1>5. k.pc = "commit" => k.next \in Rows /\ tok2[k.next].state = "none"
  BY <1>1, <1>2 DEF ReqOK
<1>6. k.pc = "mint" => \A t \in Rows : tok2[t].code # k.code
  BY <1>1, <1>2 DEF ReqOK
<1>7. k.pc = "end" => EndOK(k.row, k.targets, tok2)
  <2> SUFFICES ASSUME k.pc = "end" PROVE EndOK(k.row, k.targets, tok2)
    OBVIOUS
  <2>1. /\ k.targets \subseteq Rows /\ tok2[k.row].code = tok[k.row].code /\ tok[k.row].code \in Codes
        /\ EndOK(k.row, k.targets, tok)
    BY <1>3 DEF ReqOK, TReqState, OnRow, OnFamily
  <2>2. n \notin k.targets
    BY <1>2, <2>1, Sentinels DEF EndOK
  <2>3. \A x \in k.targets : tok2[x].code = tok[k.row].code
    BY <1>1, <2>1, <2>2 DEF EndOK
  <2>4. ASSUME NEW t \in Rows, tok2[t].code = tok[k.row].code, tok2[t].state = "live"
        PROVE  t \in k.targets \/ \E x \in k.targets : tok2[x].state = "replaced"
    <3>1. \A x \in k.targets : tok[x].state = "replaced" => tok2[x].state = "replaced"
      BY <1>1, <1>2, <2>1, <2>2
    <3>2. CASE t = n
      <4>1. y \in k.targets \/ \E x \in k.targets : tok[x].state = "replaced"
        BY <1>1, <1>2, <2>1, <2>4, <3>2 DEF EndOK
      <4> QED
        BY <1>1, <3>1, <4>1
    <3>3. CASE t # n
      BY <1>1, <2>1, <2>4, <3>1, <3>3 DEF EndOK
    <3> QED
      BY <3>2, <3>3
  <2> QED
    BY <2>1, <2>3, <2>4 DEF EndOK
<1> QED
  BY <1>3, <1>4, <1>5, <1>6, <1>7 DEF ReqOK, OnRow, OnFamily

\* Codes that are used stay used or go with their owner.
LEMMA CodesKeep ==
    ASSUME NEW tok, NEW cod, NEW cod2, NEW mi, NEW k \in TReqState,
           TablesOK(tok, cod, mi), ReqOK(k, tok, cod, mi),
           \A c \in Codes : cod[c].state \in {"used", "gone"} => cod2[c].state \in {"used", "gone"},
           k.pc = "consume" => cod2[k.code].state \in {"issued", "expired"}
    PROVE  TablesOK(tok, cod2, mi) /\ ReqOK(k, tok, cod2, mi)
<1>1. TablesOK(tok, cod2, mi)
  BY DEF TablesOK
<1>2. k.code \in Codes
  BY DEF TReqState
<1> QED
  BY <1>1, <1>2 DEF ReqOK

-----------------------------------------------------------------------------
(* What a request may become.                                              *)

\* A request goes on to another point, and keeps what it has found.
LEMMA GotoFacts ==
    ASSUME FamInv, NEW r \in TokenReqs,
           NEW pc \in {"consume", "mint", "rotate", "snapshot", "cascade", "read_user", "admitted"},
           Goto(r, pc)
    PROVE  \E k \in TReqState :
              /\ treq' = [treq EXCEPT ![r] = k]
              /\ k.pc = pc /\ k.owner = treq[r].owner /\ k.code = treq[r].code /\ k.row = treq[r].row
              /\ k.next = treq[r].next /\ k.targets = treq[r].targets
              /\ k.revokedBefore = treq[r].revokedBefore
<1> DEFINE k == [treq[r] EXCEPT !.pc = pc]
<1>1. treq[r] \in TReqState
  BY DEF FamInv, FamTypeOK
<1>2. k \in TReqState
  BY <1>1 DEF TReqState
<1>3. /\ k.pc = pc /\ k.owner = treq[r].owner /\ k.code = treq[r].code /\ k.row = treq[r].row
      /\ k.next = treq[r].next /\ k.targets = treq[r].targets
      /\ k.revokedBefore = treq[r].revokedBefore
  BY <1>1 DEF TReqState
<1>4. treq' = [treq EXCEPT ![r] = k]
  BY DEF Goto
<1> HIDE DEF k
<1> QED
  BY <1>2, <1>3, <1>4

\* An answer that changed nothing.
LEMMA AnswerStep ==
    ASSUME FamInv, NEW r \in TokenReqs, Answer(r), UNCHANGED <<famDb, famHistory>>
    PROVE  FamInv'
BY Sentinels, IdleIsOK, QuietStep DEF Answer

\* A request that holds nothing is apart from all.
LEMMA Unheld ==
    ASSUME NEW k, k.pc \notin {"consume", "mint"} \cup Holding, NEW l
    PROVE  Apart(l, k)
BY DEF Apart, Holding

\* What a granted lock says.
LEMMA Granted ==
    ASSUME NEW r \in TokenReqs, Unblocked(r)
    PROVE  /\ At(r, "lock_code") => CodeHeld(treq[r].code) = {}
           /\ At(r, "lock_row") => RowHeld(treq[r].row) = {}
           /\ At(r, "end") => \A t \in treq[r].targets : RowHeld(t) = {}
           /\ At(r, "cascade") =>
                /\ \A t \in OwnedBy(treq[r].owner) : RowHeld(t) = {}
                /\ \A c \in Codes : treq[r].owner \in {code[c].user, code[c].client} => CodeHeld(c) = {}
<1> DEFINE rowHolders == UNION {RowHeld(t) : t \in OwnedBy(treq[r].owner)}
           owns(c) == treq[r].owner \in {code[c].user, code[c].client}
           codeHolders == UNION {CodeHeld(c) : c \in {d \in Codes : owns(d)}}
<1>1. /\ At(r, "lock_code") => WaitsFor(r) = CodeHeld(treq[r].code)
      /\ At(r, "lock_row") => WaitsFor(r) = RowHeld(treq[r].row)
      /\ At(r, "end") => WaitsFor(r) = UNION {RowHeld(t) : t \in treq[r].targets}
      /\ At(r, "cascade") => WaitsFor(r) = rowHolders \cup codeHolders
  BY DEF WaitsFor, At
<1>2. WaitsFor(r) = {}
  BY DEF Unblocked
<1>3. At(r, "end") => \A t \in treq[r].targets : RowHeld(t) = {}
  BY <1>1, <1>2
<1>4. At(r, "cascade") => rowHolders = {} /\ codeHolders = {}
  <2> HIDE DEF rowHolders, codeHolders
  <2> QED
    BY <1>1, <1>2
<1>5. rowHolders = {} => \A t \in OwnedBy(treq[r].owner) : RowHeld(t) = {}
  OBVIOUS
<1>6. codeHolders = {} => \A c \in Codes : owns(c) => CodeHeld(c) = {}
  OBVIOUS
<1> QED
  BY <1>1, <1>2, <1>3, <1>4, <1>5, <1>6

\* The types of the state and of a request, in one fact.
LEMMA Typed ==
    ASSUME FamInv
    PROVE  /\ owners \subseteq Users \cup Clients
           /\ code \in [Codes -> CodeState] /\ token \in [Rows -> TokenState]
           /\ minted \in Nat /\ minted <= MaxTokens /\ MaxTokens \in Nat
           /\ treq \in [TokenReqs -> TReqState]
           /\ reported \subseteq Codes /\ raced \subseteq reported
BY TokenBound DEF FamInv, FamTypeOK

\* A step that no request takes: the tables change under all of them.
LEMMA TableStep ==
    ASSUME FamInv, treq' = treq,
           FamTypeOK',
           TablesOK(token', code', minted'),
           \A q \in TokenReqs : ReqOK(treq[q], token', code', minted'),
           ReportsOK(token', reported', raced')
    PROVE  FamInv'
BY DEF FamInv, ReqsOK, ReqsApart

-----------------------------------------------------------------------------
(* The steps that only look, or only begin.                                *)

\* A request begins.
LEMMA BeginSteps ==
    ASSUME FamInv, NEW r \in TokenReqs,
           \/ \E c \in Codes, right \in BOOLEAN : BeginExchange(r, c, right)
           \/ \E t \in Rows, right \in BOOLEAN : BeginRotation(r, t, right)
           \/ \E t \in Rows : BeginUse(r, t)
           \/ \E o \in Users \cup Clients : BeginDelete(r, o)
    PROVE  FamInv'
<1> USE Sentinels
<1>0. /\ TReqIdle \in TReqState
      /\ TablesOK(token, code, minted)
  BY DEF FamInv
<1>1. ASSUME NEW c \in Codes, NEW right \in BOOLEAN, BeginExchange(r, c, right) PROVE FamInv'
  <2> DEFINE k == [TReqIdle EXCEPT !.pc = "lock_code", !.code = c, !.right = right]
  <2>1. k \in TReqState /\ k.pc = "lock_code"
    BY <1>0 DEF TReqState
  <2>2. treq' = [treq EXCEPT ![r] = k] /\ UNCHANGED <<famDb, famHistory>>
    BY <1>1 DEF BeginExchange, Start
  <2> HIDE DEF k
  <2>3. ReqOK(k, token, code, minted) /\ \A l : Apart(l, k)
    BY <2>1, Unheld DEF ReqOK, OnRow, OnFamily, Holding
  <2> QED
    BY <2>1, <2>2, <2>3, QuietStep
<1>2. ASSUME NEW t \in Rows, NEW right \in BOOLEAN, BeginRotation(r, t, right) PROVE FamInv'
  <2> DEFINE k == [TReqIdle EXCEPT !.pc = "lock_row", !.row = t, !.right = right]
  <2>0. t \in 0 .. MaxTokens
    BY TokenBound DEF Rows
  <2>1. k \in TReqState /\ k.pc = "lock_row" /\ k.row = t
    BY <1>0, <2>0 DEF TReqState
  <2>2. treq' = [treq EXCEPT ![r] = k] /\ UNCHANGED <<famDb, famHistory>> /\ token[t].refresh
    BY <1>2 DEF BeginRotation, Start
  <2> HIDE DEF k
  <2>3. token[t].state # "none" /\ token[t].code \in Codes
    BY <1>0, <2>2 DEF TablesOK
  <2>4. ReqOK(k, token, code, minted) /\ \A l : Apart(l, k)
    BY <2>1, <2>3, Unheld DEF ReqOK, OnRow, OnFamily, Holding
  <2> QED
    BY <2>1, <2>2, <2>4, QuietStep
<1>3. ASSUME NEW t \in Rows, BeginUse(r, t) PROVE FamInv'
  <2> DEFINE k == [TReqIdle EXCEPT !.pc = "read_token", !.row = t, !.revokedBefore = token[t].state # "live"]
  <2>0. t \in 0 .. MaxTokens
    BY TokenBound DEF Rows
  <2>1. k \in TReqState /\ k.pc = "read_token" /\ k.row = t /\ k.revokedBefore = (token[t].state # "live")
    BY <1>0, <2>0 DEF TReqState
  <2>2. treq' = [treq EXCEPT ![r] = k] /\ UNCHANGED <<famDb, famHistory>> /\ token[t].state # "none"
    BY <1>3 DEF BeginUse, Start
  <2> HIDE DEF k
  <2>3. ReqOK(k, token, code, minted) /\ \A l : Apart(l, k)
    BY <2>1, <2>2, Unheld DEF ReqOK, OnRow, OnFamily, Holding
  <2> QED
    BY <2>1, <2>2, <2>3, QuietStep
<1>4. ASSUME NEW o \in Users \cup Clients, BeginDelete(r, o) PROVE FamInv'
  <2> DEFINE k == [TReqIdle EXCEPT !.pc = "lock_owner", !.owner = o]
  <2>1. k \in TReqState /\ k.pc = "lock_owner"
    BY <1>0 DEF TReqState
  <2>2. treq' = [treq EXCEPT ![r] = k] /\ UNCHANGED <<famDb, famHistory>>
    BY <1>4 DEF BeginDelete, Start
  <2> HIDE DEF k
  <2>3. ReqOK(k, token, code, minted) /\ \A l : Apart(l, k)
    BY <2>1, Unheld DEF ReqOK, OnRow, OnFamily, Holding
  <2> QED
    BY <2>1, <2>2, <2>3, QuietStep
<1> QED
  BY <1>1, <1>2, <1>3, <1>4

\* A code is locked by the exchange that finds it unused.
LEMMA LockCodeStep ==
    ASSUME FamInv, NEW r \in TokenReqs, LockCode(r)
    PROVE  FamInv'
<1>1. /\ At(r, "lock_code") /\ UNCHANGED <<famDb, famHistory>> /\ CodeHeld(treq[r].code) = {}
  BY Granted DEF LockCode
<1>2. CASE Answer(r)
  BY <1>1, <1>2, AnswerStep
<1>3. CASE code[treq[r].code].state = "issued" /\ Goto(r, "consume")
  <2>1. PICK k \in TReqState : /\ treq' = [treq EXCEPT ![r] = k]
                               /\ k.pc = "consume" /\ k.code = treq[r].code
    BY <1>3, GotoFacts
  <2>2. ReqOK(k, token, code, minted)
    BY <1>3, <2>1 DEF ReqOK, OnRow, OnFamily
  <2>3. \A q \in TokenReqs : Apart(treq[q], k)
    BY <1>1, <2>1 DEF CodeHeld, At, Apart, Holding
  <2> QED
    BY <1>1, <2>1, <2>2, <2>3, QuietStep
<1> QED
  BY <1>2, <1>3 DEF LockCode

\* A row is locked by the rotation or the revocation that waited for it.
LEMMA LockRowStep ==
    ASSUME FamInv, NEW r \in TokenReqs, LockRow(r)
    PROVE  FamInv'
<1>1. /\ At(r, "lock_row") /\ UNCHANGED <<famDb, famHistory>> /\ RowHeld(treq[r].row) = {}
      /\ \/ Answer(r)
         \/ Goto(r, "snapshot")
         \/ token[treq[r].row].state = "live" /\ Goto(r, "rotate")
  BY Granted DEF LockRow
<1>2. CASE Answer(r)
  BY <1>1, <1>2, AnswerStep
<1>3. ASSUME NEW pc \in {"snapshot", "rotate"}, Goto(r, pc), pc = "rotate" => token[treq[r].row].state = "live"
      PROVE  FamInv'
  <2>1. PICK k \in TReqState : treq' = [treq EXCEPT ![r] = k] /\ k.pc = pc /\ k.row = treq[r].row
    BY <1>3, GotoFacts
  <2>2. treq[r].row \in Rows /\ token[treq[r].row].state # "none" /\ token[treq[r].row].code \in Codes
    BY <1>1 DEF FamInv, ReqsOK, ReqOK, OnRow, OnFamily, At
  <2>3. ReqOK(k, token, code, minted)
    BY <1>3, <2>1, <2>2 DEF ReqOK, OnRow, OnFamily
  <2>4. \A q \in TokenReqs : Apart(treq[q], k)
    BY <1>1, <2>1 DEF RowHeld, Apart, Holding
  <2> QED
    BY <1>1, <2>1, <2>3, <2>4, QuietStep
<1> QED
  BY <1>1, <1>2, <1>3

\* The end of a family takes its snapshot of the rows that live.
LEMMA SnapshotFamilyStep ==
    ASSUME FamInv, NEW r \in TokenReqs, SnapshotFamily(r)
    PROVE  FamInv'
<1> DEFINE c == token[treq[r].row].code
           k == [treq[r] EXCEPT !.pc = "end", !.targets = Live(c)]
<1>1. treq[r] \in TReqState /\ Live(c) \subseteq Rows
  BY Typed DEF Live, Family
<1>2. /\ k \in TReqState /\ k.pc = "end" /\ k.row = treq[r].row /\ k.targets = Live(c)
  BY <1>1 DEF TReqState
<1>3. treq' = [treq EXCEPT ![r] = k] /\ UNCHANGED <<famDb, famHistory>> /\ treq[r].pc = "snapshot"
  BY DEF SnapshotFamily, At
<1>4. treq[r].row \in Rows /\ token[treq[r].row].state # "none" /\ c \in Codes
  BY <1>3 DEF FamInv, ReqsOK, ReqOK, OnRow, OnFamily
<1> HIDE DEF k
<1>5. EndOK(k.row, k.targets, token)
  BY <1>2 DEF EndOK, Live, Family
<1>6. ReqOK(k, token, code, minted)
  BY <1>2, <1>4, <1>5 DEF ReqOK, OnRow, OnFamily
<1>7. \A q \in TokenReqs \ {r} : Apart(treq[q], k)
  BY <1>2, <1>3 DEF FamInv, ReqsApart, Apart, Holding
<1> QED
  BY <1>2, <1>3, <1>6, <1>7, QuietStep

\* The steps that read a token or a user, serve the request, or lock its owner.
LEMMA ReadSteps ==
    ASSUME FamInv, NEW r \in TokenReqs, ReadToken(r) \/ ReadUser(r) \/ ServeUser(r) \/ LockOwner(r)
    PROVE  FamInv'
<1>1. UNCHANGED <<famDb, famHistory>>
  BY DEF ReadToken, ReadUser, ServeUser, LockOwner
<1>2. CASE Answer(r)
  BY <1>1, <1>2, AnswerStep
<1>3. ASSUME NEW pc \in {"read_user", "admitted"}, Goto(r, pc),
             (treq[r].pc = "read_token" /\ token[treq[r].row].state = "live") \/ treq[r].pc = "read_user"
      PROVE  FamInv'
  <2>1. PICK k \in TReqState : /\ treq' = [treq EXCEPT ![r] = k] /\ k.pc = pc /\ k.row = treq[r].row
                               /\ k.revokedBefore = treq[r].revokedBefore
    BY <1>3, GotoFacts
  <2>2. ReqOK(treq[r], token, code, minted)
    BY DEF FamInv, ReqsOK
  <2>3. ReqOK(k, token, code, minted)
    BY <1>3, <2>1, <2>2 DEF ReqOK, OnRow, OnFamily
  <2>4. \A l : Apart(l, k)
    BY <1>3, <2>1, Unheld DEF Holding
  <2> QED
    BY <1>1, <2>1, <2>3, <2>4, QuietStep
<1>4. CASE Goto(r, "cascade")
  <2>1. PICK k \in TReqState : treq' = [treq EXCEPT ![r] = k] /\ k.pc = "cascade"
    BY <1>4, GotoFacts
  <2>2. ReqOK(k, token, code, minted) /\ \A l : Apart(l, k)
    BY <2>1, Unheld DEF ReqOK, OnRow, OnFamily, Holding
  <2> QED
    BY <1>1, <2>1, <2>2, QuietStep
<1> QED
  BY <1>2, <1>3, <1>4 DEF ReadToken, ReadUser, ServeUser, LockOwner, At

-----------------------------------------------------------------------------
(* The steps on codes and owners.                                          *)

\* A code that changes, and is not used before, is known only to who consumes it.
LEMMA CodeStep ==
    ASSUME FamInv, UNCHANGED <<owners, token, minted, treq, famHistory>>,
           NEW c \in Codes, NEW new \in CodeState, code' = [code EXCEPT ![c] = new],
           code[c].state \notin {"used", "gone"},
           code[c].state \in {"issued", "expired"} => new.state \in {"issued", "expired"}
    PROVE  FamInv'
<1>1. code \in [Codes -> CodeState] /\ TablesOK(token, code, minted)
  BY Typed DEF FamInv
<1>2. code' \in [Codes -> CodeState] /\ code'[c] = new /\ \A d \in Codes \ {c} : code'[d] = code[d]
  BY <1>1
<1>3. FamTypeOK'
  BY <1>2 DEF FamInv, FamTypeOK, famHistory
<1>4. \A d \in Codes : code[d].state \in {"used", "gone"} => code'[d].state \in {"used", "gone"}
  BY <1>2
<1>5. ASSUME NEW q \in TokenReqs
      PROVE  TablesOK(token, code', minted) /\ ReqOK(treq[q], token, code', minted)
  <2>1. treq[q] \in TReqState /\ ReqOK(treq[q], token, code, minted)
    BY Typed DEF FamInv, ReqsOK
  <2>2. treq[q].pc = "consume" => code'[treq[q].code].state \in {"issued", "expired"}
    BY <1>2, <2>1 DEF ReqOK, TReqState
  <2> QED
    BY <1>1, <1>4, <2>1, <2>2, CodesKeep
<1>6. TablesOK(token, code', minted)
  BY <1>1, <1>4 DEF TablesOK
<1>7. ReportsOK(token', reported', raced')
  BY DEF FamInv, famHistory
<1> QED
  BY <1>3, <1>5, <1>6, <1>7, TableStep

\* The steps on codes: the consent that issues one, and its expiry.
LEMMA CodeSteps ==
    ASSUME FamInv,
           \/ \E u \in Users, k \in Clients, c \in Codes : Decide(u, k, c)
           \/ \E c \in Codes : ExpireCode(c)
    PROVE  FamInv'
<1>1. ASSUME NEW u \in Users, NEW k \in Clients, NEW c \in Codes, Decide(u, k, c) PROVE FamInv'
  <2> DEFINE new == [state |-> "issued", user |-> u, client |-> k]
  <2>1. new \in CodeState /\ new.state = "issued"
    BY DEF CodeState
  <2>2. /\ code' = [code EXCEPT ![c] = new] /\ code[c].state = "none"
        /\ UNCHANGED <<owners, token, minted, treq, famHistory>>
    BY <1>1 DEF Decide
  <2> HIDE DEF new
  <2> QED
    BY <2>1, <2>2, CodeStep
<1>2. ASSUME NEW c \in Codes, ExpireCode(c) PROVE FamInv'
  <2> DEFINE new == [code[c] EXCEPT !.state = "expired"]
  <2>1. new \in CodeState /\ new.state = "expired"
    BY Typed DEF CodeState
  <2>2. /\ code' = [code EXCEPT ![c] = new] /\ code[c].state = "issued"
        /\ UNCHANGED <<owners, token, minted, treq, famHistory>>
    BY <1>2 DEF ExpireCode
  <2> HIDE DEF new
  <2> QED
    BY <2>1, <2>2, CodeStep
<1> QED
  BY <1>1, <1>2

\* The purge of old codes leaves those alone that a request consumes.
LEMMA PurgeStep ==
    ASSUME FamInv, NEW old \in SUBSET Codes, PurgeExpiredAuthCodes(old)
    PROVE  FamInv'
<1>1. code \in [Codes -> CodeState] /\ TablesOK(token, code, minted)
  BY Typed DEF FamInv
<1>2. UNCHANGED <<owners, token, minted, treq, reported, raced>>
  BY DEF PurgeExpiredAuthCodes, famHistory
<1>3. code' = [c \in Codes |-> IF c \in old THEN [code[c] EXCEPT !.state = "gone"] ELSE code[c]]
  BY DEF PurgeExpiredAuthCodes
<1>4. ASSUME NEW c \in Codes
      PROVE  code'[c] \in CodeState /\ code'[c].state = IF c \in old THEN "gone" ELSE code[c].state
  <2>1. [code[c] EXCEPT !.state = "gone"] \in CodeState /\ [code[c] EXCEPT !.state = "gone"].state = "gone"
    BY <1>1 DEF CodeState
  <2>2. code'[c] = IF c \in old THEN [code[c] EXCEPT !.state = "gone"] ELSE code[c]
    BY <1>3
  <2> QED
    BY <1>1, <2>1, <2>2
<1>5. code' \in [Codes -> CodeState]
  BY <1>3, <1>4
<1>6. FamTypeOK'
  BY <1>2, <1>5 DEF FamInv, FamTypeOK
<1>7. \A d \in Codes : code[d].state \in {"used", "gone"} => code'[d].state \in {"used", "gone"}
  BY <1>4
<1>8. ASSUME NEW q \in TokenReqs
      PROVE  TablesOK(token, code', minted) /\ ReqOK(treq[q], token, code', minted)
  <2>1. treq[q] \in TReqState /\ ReqOK(treq[q], token, code, minted)
    BY Typed DEF FamInv, ReqsOK
  <2>2. treq[q].pc = "consume" => code'[treq[q].code].state \in {"issued", "expired"}
    <3>1. treq[q].pc = "consume" => q \in CodeHeld(treq[q].code)
      BY DEF CodeHeld, At
    <3>2. treq[q].pc = "consume" => treq[q].code \notin old
      BY <3>1 DEF PurgeExpiredAuthCodes
    <3>3. treq[q].code \in Codes /\ (treq[q].pc = "consume" => code[treq[q].code].state \in {"issued", "expired"})
      BY <2>1 DEF ReqOK, TReqState
    <3> QED
      BY <1>4, <3>2, <3>3
  <2> QED
    BY <1>1, <1>7, <2>1, <2>2, CodesKeep
<1>9. TablesOK(token, code', minted)
  BY <1>1, <1>7 DEF TablesOK
<1>10. ReportsOK(token', reported', raced')
  BY <1>2 DEF FamInv
<1> QED
  BY <1>2, <1>6, <1>8, <1>9, <1>10, TableStep

\* A client is registered.
LEMMA RegisterClientStep ==
    ASSUME FamInv, NEW k \in Clients, RegisterClient(k)
    PROVE  FamInv'
<1>1. UNCHANGED <<code, token, minted, treq, reported, raced>> /\ owners' = owners \cup {k}
  BY DEF RegisterClient, famHistory
<1>2. FamTypeOK'
  BY <1>1 DEF FamInv, FamTypeOK
<1> QED
  BY <1>1, <1>2, TableStep DEF FamInv, ReqsOK

\* A code is consumed, once.
LEMMA ConsumeAuthCodeStep ==
    ASSUME FamInv, NEW r \in TokenReqs, ConsumeAuthCode(r)
    PROVE  FamInv'
<1> DEFINE c == treq[r].code
<1>1. /\ treq[r] \in TReqState /\ treq[r].pc = "consume" /\ c \in Codes /\ code \in [Codes -> CodeState]
      /\ code[c].state \in {"issued", "expired"}
      /\ TablesOK(token, code, minted)
  BY Typed DEF FamInv, ReqsOK, ReqOK, ConsumeAuthCode, At, TReqState
<1>2. /\ code' = [code EXCEPT ![c].state = "used"]
      /\ UNCHANGED <<owners, token, minted, reported, raced>>
      /\ Goto(r, "mint") \/ Answer(r)
  BY DEF ConsumeAuthCode, famHistory
<1>3. /\ code' \in [Codes -> CodeState] /\ code'[c].state = "used"
      /\ \A d \in Codes \ {c} : code'[d] = code[d]
  BY <1>1, <1>2 DEF CodeState
<1>4. \A d \in Codes : code[d].state \in {"used", "gone"} => code'[d].state \in {"used", "gone"}
  BY <1>3
<1>5. PICK k \in TReqState : /\ treq' = [treq EXCEPT ![r] = k]
                             /\ k = TReqIdle \/ (k.pc = "mint" /\ k.code = c)
  BY <1>2, GotoFacts, Sentinels DEF Answer
<1>6. FamTypeOK'
  BY <1>2, <1>3, <1>5 DEF FamInv, FamTypeOK
<1>7. TablesOK(token, code', minted)
  BY <1>1, <1>4 DEF TablesOK
<1>8. ReqOK(k, token', code', minted')
  <2>1. \A t \in Rows : token[t].code # c
    BY <1>1 DEF TablesOK
  <2>2. k.pc = "mint" => ReqOK(k, token, code', minted)
    BY <1>3, <1>5, <2>1, Sentinels DEF ReqOK, OnRow, OnFamily
  <2> QED
    BY <1>2, <1>5, <2>2, IdleIsOK
<1>9. ASSUME NEW q \in TokenReqs \ {r}
      PROVE  ReqOK(treq[q], token', code', minted') /\ Apart(treq[q], k)
  <2>1. treq[q] \in TReqState /\ ReqOK(treq[q], token, code, minted) /\ Apart(treq[q], treq[r])
    BY Typed DEF FamInv, ReqsOK, ReqsApart
  <2>2. treq[q].pc = "consume" => code'[treq[q].code].state \in {"issued", "expired"}
    BY <1>1, <1>3, <2>1 DEF ReqOK, Apart, TReqState
  <2>3. ReqOK(treq[q], token, code', minted)
    BY <1>1, <1>4, <2>1, <2>2, CodesKeep
  <2>4. k.pc = "mint" => Apart(treq[q], k)
    BY <1>1, <1>5, <2>1, Sentinels DEF ReqOK, Apart, Holding
  <2> QED
    BY <1>2, <1>5, <2>3, <2>4, IdleIsOK
<1>10. ReportsOK(token', reported', raced')
  BY <1>2 DEF FamInv
<1> QED
  BY <1>2, <1>5, <1>6, <1>7, <1>8, <1>9, <1>10, StepOf

-----------------------------------------------------------------------------
(* The steps that insert a row.                                            *)

\* A token is made by hand.
LEMMA CreatePATStep ==
    ASSUME FamInv, NEW u \in Users, CreatePAT(u)
    PROVE  FamInv' /\ Grows(token, token')
<1> DEFINE new == [state |-> "live", user |-> u, client |-> NoOwner, code |-> NoOwner, refresh |-> FALSE]
<1>1. new \in TokenState /\ new.state = "live" /\ ~new.refresh /\ new.code = NoOwner
  BY DEF TokenState
<1>2. /\ token' = [token EXCEPT ![minted + 1] = new] /\ minted < MaxTokens /\ minted' = minted + 1
      /\ UNCHANGED <<owners, code, treq, reported, raced>>
  BY DEF CreatePAT, NewRow, famHistory
<1>3. new.code \notin Codes
  BY <1>1, Sentinels
<1> HIDE DEF new
<1>4. /\ token' \in [Rows -> TokenState] /\ TablesOK(token', code, minted')
      /\ ReportsOK(token', reported, raced) /\ Grows(token, token')
  BY <1>1, <1>2, <1>3, GrowKeepsTables
<1>5. minted' \in 0 .. MaxTokens
  BY <1>2, Typed
<1>6. FamTypeOK'
  BY <1>2, <1>4, <1>5 DEF FamInv, FamTypeOK
<1>7. ASSUME NEW q \in TokenReqs PROVE ReqOK(treq[q], token', code', minted')
  <2>1. treq[q] \in TReqState /\ ReqOK(treq[q], token, code, minted) /\ treq[q].code # new.code
    BY <1>3, Typed DEF FamInv, ReqsOK, TReqState
  <2> QED
    BY <1>1, <1>2, <1>3, <2>1, GrowKeepsReq
<1> QED
  BY <1>2, <1>4, <1>6, <1>7, TableStep

\* The first token of a family is inserted.
LEMMA MintAccessTokenStep ==
    ASSUME FamInv, NEW r \in TokenReqs, MintAccessToken(r)
    PROVE  FamInv' /\ (UNCHANGED token \/ Grows(token, token'))
<1> DEFINE c == treq[r].code
           n == minted + 1
           new == [state |-> "live", user |-> code[c].user, client |-> code[c].client, code |-> c,
                   refresh |-> FALSE]
           k == [treq[r] EXCEPT !.pc = "refresh", !.row = n]
<1>1. /\ treq[r] \in TReqState /\ treq[r].pc = "mint" /\ c \in Codes /\ code[c] \in CodeState
      /\ code[c].state \in {"used", "gone"} /\ \A t \in Rows : token[t].code # c
  BY Typed DEF FamInv, ReqsOK, ReqOK, MintAccessToken, At, TReqState
<1>2. new \in TokenState /\ new.state = "live" /\ ~new.refresh /\ new.code = c
  BY <1>1 DEF TokenState, CodeState
<1>3. CASE Answer(r) /\ UNCHANGED <<token, minted>>
  <2>1. UNCHANGED <<famDb, famHistory>>
    BY <1>3 DEF MintAccessToken, famDb
  <2> QED
    BY <1>3, <2>1, AnswerStep
<1>4. CASE /\ minted < MaxTokens /\ NewRow(code[c].user, code[c].client, c, FALSE)
           /\ treq' = [treq EXCEPT ![r].pc = "refresh", ![r].row = n]
  <2>1. /\ token' = [token EXCEPT ![minted + 1] = new] /\ minted < MaxTokens /\ minted' = minted + 1
        /\ UNCHANGED <<owners, code, reported, raced>>
    BY <1>4 DEF NewRow, MintAccessToken, famHistory
  <2>2. /\ minted \in Nat /\ n \in 0 .. MaxTokens /\ n \in Rows
    BY <2>1, Typed DEF Rows
  <2>3. k \in TReqState /\ k.pc = "refresh" /\ k.row = n /\ treq' = [treq EXCEPT ![r] = k]
    BY <1>1, <1>4, <2>2, Typed DEF TReqState
  <2>4. token'[n] = new
    BY <2>1, <2>2, Typed
  <2> HIDE DEF new, k, n
  <2>5. /\ token' \in [Rows -> TokenState] /\ TablesOK(token', code, minted')
        /\ ReportsOK(token', reported, raced) /\ Grows(token, token')
    BY <1>1, <1>2, <2>1, GrowKeepsTables
  <2>6. FamTypeOK'
    <3>1. minted' \in 0 .. MaxTokens
      BY <2>1, <2>2 DEF n
    <3> QED
      BY <2>1, <2>3, <2>5, <3>1 DEF FamInv, FamTypeOK
  <2>7. ReqOK(k, token', code', minted')
    BY <1>1, <1>2, <2>2, <2>3, <2>4 DEF ReqOK, OnRow, OnFamily
  <2>8. ASSUME NEW q \in TokenReqs \ {r}
        PROVE  ReqOK(treq[q], token', code', minted') /\ Apart(treq[q], k)
    <3>1. treq[q] \in TReqState /\ ReqOK(treq[q], token, code, minted) /\ Apart(treq[q], treq[r])
      BY Typed DEF FamInv, ReqsOK, ReqsApart
    <3>2. treq[q].pc = "mint" => treq[q].code # new.code
      BY <1>1, <1>2, <3>1 DEF Apart
    <3>3. ReqOK(treq[q], token', code', minted')
      BY <1>1, <1>2, <2>1, <3>1, <3>2, GrowKeepsReq
    <3>4. Apart(treq[q], k)
      BY <2>3, Unheld DEF Holding
    <3> QED
      BY <3>3, <3>4
  <2> QED
    BY <2>1, <2>3, <2>5, <2>6, <2>7, <2>8, StepOf
<1> QED
  BY <1>3, <1>4 DEF MintAccessToken

\* The row of a refresh is inserted now, and seen by nobody before the commit.
LEMMA InsertNextStep ==
    ASSUME FamInv, NEW r \in TokenReqs, InsertNext(r)
    PROVE  FamInv'
<1> DEFINE n == minted + 1
           k == [treq[r] EXCEPT !.pc = "commit", !.next = n]
<1>1. /\ treq[r] \in TReqState /\ treq[r].pc = "rotate" /\ UNCHANGED <<owners, code, token, reported, raced>>
      /\ ReqOK(treq[r], token, code, minted) /\ TablesOK(token, code, minted)
  BY Typed DEF FamInv, ReqsOK, InsertNext, InsertOr, At, famHistory
<1>2. CASE Answer(r) /\ UNCHANGED minted
  <2>1. UNCHANGED <<famDb, famHistory>>
    BY <1>1, <1>2 DEF famDb, famHistory
  <2> QED
    BY <1>2, <2>1, AnswerStep
<1>3. CASE /\ minted < MaxTokens /\ minted' = n
           /\ treq' = [treq EXCEPT ![r].pc = "commit", ![r].next = n]
  <2>1. minted \in Nat /\ n \in 0 .. MaxTokens /\ n \in Rows /\ n > minted
    BY <1>3, Typed DEF Rows
  <2>2. /\ k \in TReqState /\ k.pc = "commit" /\ k.row = treq[r].row /\ k.next = n
        /\ treq' = [treq EXCEPT ![r] = k]
    BY <1>1, <1>3, <2>1, Typed DEF TReqState
  <2>3. token[n].state = "none"
    BY <1>1, <2>1 DEF TablesOK
  <2>4. \A i \in Rows : (i <= minted => i <= n) /\ (i > n => i > minted)
    BY <2>1 DEF Rows
  <2>5. minted' = n
    BY <1>3
  <2>5a. \A i \in Rows : i <= minted => i # n
    BY <2>1 DEF Rows
  <2>5b. n <= n
    BY <2>1
  <2> HIDE DEF k, n
  <2>6. FamTypeOK'
    BY <1>1, <2>1, <2>2, <2>5 DEF FamInv, FamTypeOK
  <2>7. TablesOK(token', code', minted')
    BY <1>1, <2>4, <2>5 DEF TablesOK
  <2>8. ReqOK(k, token', code', minted')
    BY <1>1, <2>1, <2>2, <2>3, <2>5, <2>5b DEF ReqOK, OnRow, OnFamily
  <2>9. ASSUME NEW q \in TokenReqs \ {r}
        PROVE  ReqOK(treq[q], token', code', minted') /\ Apart(treq[q], k)
    <3>1. ReqOK(treq[q], token, code, minted) /\ Apart(treq[q], treq[r])
      BY DEF FamInv, ReqsOK, ReqsApart
    <3>2. ReqOK(treq[q], token', code', minted')
      BY <1>1, <2>4, <2>5, <3>1 DEF ReqOK
    <3>3. treq[q].pc = "commit" => treq[q].next # n
      BY <2>5a, <3>1 DEF ReqOK
    <3>4. Apart(treq[q], k)
      BY <1>1, <2>2, <3>1, <3>3 DEF Apart, Holding
    <3> QED
      BY <3>2, <3>4
  <2>10. ReportsOK(token', reported', raced')
    BY <1>1 DEF FamInv
  <2> QED
    BY <2>2, <2>6, <2>7, <2>8, <2>9, <2>10, StepOf
<1> QED
  BY <1>2, <1>3 DEF InsertNext, InsertOr

\* A rotation commits: the row is replaced, and its heir lives.
LEMMA CommitRotationStep ==
    ASSUME FamInv, NEW r \in TokenReqs, CommitRotation(r)
    PROVE  /\ FamInv'
           /\ Succeeds(treq[r].row, treq[r].next, token, token')
<1> DEFINE y == treq[r].row
           n == treq[r].next
<1>1. /\ treq[r] \in TReqState /\ treq[r].pc = "commit" /\ UNCHANGED <<owners, code, minted, reported, raced>>
      /\ ReqOK(treq[r], token, code, minted) /\ TablesOK(token, code, minted)
      /\ treq' = [treq EXCEPT ![r] = TReqIdle] /\ token \in [Rows -> TokenState] /\ minted \in Nat
      /\ reported \in SUBSET Codes /\ ReportsOK(token, reported, raced)
  BY Typed DEF FamInv, ReqsOK, CommitRotation, Answer, At, famHistory
<1>2. /\ y \in Rows /\ token[y].state = "live" /\ token[y].code \in Codes
      /\ n \in Rows /\ n <= minted /\ token[n].state = "none"
  BY <1>1 DEF ReqOK, OnRow, OnFamily
<1>3. Succeeds(y, n, token, token')
  BY <1>2 DEF Succeeds, CommitRotation
<1>4. token' \in [Rows -> TokenState]
  BY <1>1, <1>3, SuccessionFacts
<1>5. TablesOK(token', code, minted) /\ ReportsOK(token', reported, raced)
  BY <1>1, <1>2, <1>3, SuccessionKeepsTables
<1>6. FamTypeOK'
  BY <1>1, <1>4, Sentinels DEF FamInv, FamTypeOK
<1>7. ASSUME NEW q \in TokenReqs \ {r}
      PROVE  ReqOK(treq[q], token', code', minted') /\ Apart(treq[q], TReqIdle)
  <2>1. treq[q] \in TReqState /\ ReqOK(treq[q], token, code, minted) /\ Apart(treq[q], treq[r])
    BY Typed DEF FamInv, ReqsOK, ReqsApart
  <2>2. /\ treq[q].pc \in Holding => treq[q].row # y
        /\ treq[q].pc = "commit" => treq[q].next # n
    BY <1>1, <2>1 DEF Apart, Holding
  <2>3. ReqOK(treq[q], token', code, minted)
    BY <1>1, <1>3, <2>1, <2>2, SuccessionKeepsReq
  <2> QED
    BY <1>1, <2>3, IdleIsOK
<1>8. ReqOK(TReqIdle, token', code', minted')
  BY IdleIsOK
<1>9. FamInv'
  BY <1>1, <1>5, <1>6, <1>7, <1>8, Sentinels, StepOf
<1> QED
  BY <1>3, <1>9

-----------------------------------------------------------------------------
(* The steps that revoke rows.                                             *)

\* Whoever is about to replace a row holds it: what nobody holds may go.
LEMMA WitherStep ==
    ASSUME FamInv, Withers(token, token'), Witnesses(token, token'), UNCHANGED <<code, minted>>,
           NEW q \in TokenReqs,
           \A t \in Rows : token'[t].state # token[t].state => RowHeld(t) = {}
    PROVE  ReqOK(treq[q], token', code', minted')
<1>1. treq[q] \in TReqState /\ ReqOK(treq[q], token, code, minted)
  BY Typed DEF FamInv, ReqsOK
<1>2. treq[q].pc \in {"rotate", "commit"} => token'[treq[q].row].state = "live"
  <2>1. treq[q].pc \in {"rotate", "commit"} => /\ treq[q].row \in Rows /\ token[treq[q].row].state = "live"
                                               /\ q \in RowHeld(treq[q].row)
    BY <1>1 DEF ReqOK, OnRow, OnFamily, RowHeld
  <2> QED
    BY <2>1
<1> QED
  BY <1>1, <1>2, WitherKeepsReq

\* The row of a token gets its refresh token.
LEMMA SetRefreshTokenStep ==
    ASSUME FamInv, NEW r \in TokenReqs, SetRefreshToken(r)
    PROVE  FamInv' /\ Withers(token, token')
<1> DEFINE y == treq[r].row
           v == token[y].state # "gone"
<1>1. /\ treq[r].pc = "refresh" /\ UNCHANGED <<owners, code, minted, reported, raced>>
      /\ ReqOK(treq[r], token, code, minted)
      /\ treq' = [treq EXCEPT ![r] = TReqIdle] /\ token \in [Rows -> TokenState]
      /\ token' = [token EXCEPT ![y].refresh = v]
  BY Typed DEF FamInv, ReqsOK, SetRefreshToken, Answer, At, famHistory
<1>2. y \in Rows /\ token[y].state # "none" /\ token[y].code \in Codes
  BY <1>1 DEF ReqOK, OnRow, OnFamily
<1>3. /\ token' \in [Rows -> TokenState] /\ \A t \in Rows \ {y} : token'[t] = token[t]
      /\ token'[y].state = token[y].state /\ token'[y].code = token[y].code
      /\ token'[y].user = token[y].user /\ token'[y].client = token[y].client
  BY <1>1, <1>2 DEF TokenState
<1>4. Withers(token, token') /\ Witnesses(token, token')
  BY <1>2, <1>3 DEF Withers, Witnesses
<1>5. \A t \in Rows : token'[t].refresh => token[t].refresh \/ (token[t].code \in Codes /\ token[t].state # "none")
  BY <1>2, <1>3
<1>6. TablesOK(token', code', minted') /\ ReportsOK(token', reported', raced')
  <2>1. TablesOK(token, code, minted) /\ ReportsOK(token, reported, raced)
    BY DEF FamInv
  <2>2. TablesOK(token', code, minted) /\ ReportsOK(token', reported, raced)
    BY <1>4, <1>5, <2>1, WitherKeepsTables
  <2> QED
    BY <1>1, <2>2
<1>7. FamTypeOK'
  BY <1>1, <1>3, Sentinels DEF FamInv, FamTypeOK
<1>8. ASSUME NEW q \in TokenReqs
      PROVE  ReqOK(treq[q], token', code', minted') /\ Apart(treq[q], TReqIdle)
  <2>1. \A t \in Rows : token'[t].state = token[t].state
    BY <1>3
  <2> QED
    BY <1>1, <1>4, <2>1, WitherStep, IdleIsOK
<1>9. ReqOK(TReqIdle, token', code', minted')
  BY IdleIsOK
<1> QED
  BY <1>1, <1>4, <1>6, <1>7, <1>8, <1>9, Sentinels, StepOf

\* One row is revoked.
LEMMA RevokePATStep ==
    ASSUME FamInv, NEW y \in Rows, RevokePAT(y)
    PROVE  FamInv' /\ Withers(token, token')
<1>1. /\ UNCHANGED <<owners, code, minted, treq, reported, raced>>
      /\ token \in [Rows -> TokenState] /\ token[y].state = "live" /\ RowHeld(y) = {}
      /\ token' = [token EXCEPT ![y].state = "revoked"]
  BY Typed DEF RevokePAT, famHistory
<1>2. /\ token' \in [Rows -> TokenState] /\ \A t \in Rows \ {y} : token'[t] = token[t]
      /\ token'[y].state = "revoked" /\ token'[y].code = token[y].code /\ token'[y].refresh = token[y].refresh
      /\ token'[y].user = token[y].user /\ token'[y].client = token[y].client
  BY <1>1 DEF TokenState, Revoked
<1>3. Withers(token, token') /\ Witnesses(token, token')
  BY <1>1, <1>2 DEF Withers, Witnesses
<1>4. \A t \in Rows : token'[t].refresh => token[t].refresh
  BY <1>2
<1>5. TablesOK(token', code', minted') /\ ReportsOK(token', reported', raced')
  <2>1. TablesOK(token, code, minted) /\ ReportsOK(token, reported, raced)
    BY DEF FamInv
  <2>2. TablesOK(token', code, minted) /\ ReportsOK(token', reported, raced)
    BY <1>1, <1>3, <1>4, <2>1, WitherKeepsTables
  <2> QED
    BY <1>1, <2>2
<1>6. FamTypeOK'
  BY <1>1, <1>2 DEF FamInv, FamTypeOK
<1>7. \A q \in TokenReqs : ReqOK(treq[q], token', code', minted')
  <2>1. \A t \in Rows : token'[t].state # token[t].state => RowHeld(t) = {}
    BY <1>1, <1>2
  <2> QED
    BY <1>1, <1>3, <2>1, WitherStep
<1> QED
  BY <1>1, <1>3, <1>5, <1>6, <1>7, TableStep

\* What the snapshot of a family had is revoked.
LEMMA EndFamilyStep ==
    ASSUME FamInv, NEW r \in TokenReqs, EndFamily(r)
    PROVE  FamInv' /\ Withers(token, token')
<1> DEFINE ts == treq[r].targets
           c == token[treq[r].row].code
<1>1. /\ treq[r] \in TReqState /\ treq[r].pc = "end" /\ UNCHANGED <<owners, code, minted>>
      /\ \A t \in ts : RowHeld(t) = {}
      /\ ReqOK(treq[r], token, code, minted) /\ ts \subseteq Rows
      /\ treq' = [treq EXCEPT ![r] = TReqIdle] /\ token \in [Rows -> TokenState]
      /\ token' = [t \in Rows |-> IF t \in ts /\ token[t].state = "live"
                                  THEN [token[t] EXCEPT !.state = "ended"] ELSE token[t]]
      /\ reported' = reported \cup {c}
      /\ raced' = IF \E t \in ts : token[t].state = "replaced" THEN raced \cup {c} ELSE raced
  BY Typed, Granted DEF FamInv, ReqsOK, EndFamily, EndRows, Answer, At, TReqState
<1>2. treq[r].row \in Rows /\ c \in Codes /\ EndOK(treq[r].row, ts, token)
  BY <1>1 DEF ReqOK, OnRow, OnFamily
<1>3. /\ token' \in [Rows -> TokenState]
      /\ \A t \in Rows : /\ token'[t].code = token[t].code /\ token'[t].refresh = token[t].refresh
                         /\ token'[t].user = token[t].user /\ token'[t].client = token[t].client
                         /\ token'[t].state = IF t \in ts /\ token[t].state = "live" THEN "ended"
                                              ELSE token[t].state
  <2>1. ASSUME NEW t \in Rows
        PROVE  LET a == [token[t] EXCEPT !.state = "ended"] IN
               /\ a \in TokenState /\ a.code = token[t].code /\ a.refresh = token[t].refresh
               /\ a.user = token[t].user /\ a.client = token[t].client /\ a.state = "ended"
    <3>1. token[t] \in TokenState
      BY <1>1
    <3> QED
      BY <3>1 DEF TokenState, Revoked
  <2> HIDE DEF ts, c
  <2> QED
    BY <1>1, <2>1
<1> HIDE DEF ts, c
<1>4. Withers(token, token') /\ Witnesses(token, token')
  BY <1>3 DEF Withers, Witnesses
<1>5. \A t \in Rows : token'[t].refresh => token[t].refresh
  BY <1>3
<1>6. TablesOK(token', code', minted') /\ ReportsOK(token', reported, raced)
  BY <1>1, <1>4, <1>5, WitherKeepsTables DEF FamInv
<1>7. ReportsOK(token', reported', raced')
  <2> SUFFICES ASSUME NEW d \in reported'
               PROVE  /\ \E t \in Rows : token'[t].code = d
                      /\ d \notin raced' => \A t \in Rows : token'[t].code = d => token'[t].state # "live"
    BY DEF ReportsOK
  <2>1. CASE d # c
    BY <1>1, <1>6, <2>1 DEF ReportsOK
  <2>2. CASE d = c
    <3>1. \E t \in Rows : token'[t].code = d
      BY <1>2, <1>3, <2>2 DEF c
    <3>2. ASSUME d \notin raced', NEW t \in Rows, token'[t].code = d, token'[t].state = "live"
          PROVE  FALSE
      <4>1. ~ \E x \in ts : token[x].state = "replaced"
        BY <1>1, <2>2, <3>2
      <4>2. token[t].state = "live" /\ token[t].code = c /\ t \notin ts
        BY <1>3, <2>2, <3>2
      <4> QED
        BY <1>2, <4>1, <4>2 DEF EndOK, c
    <3> QED
      BY <3>1, <3>2
  <2> QED
    BY <2>1, <2>2
<1>8. FamTypeOK'
  BY <1>1, <1>2, <1>3, Sentinels DEF FamInv, FamTypeOK
<1>9. ASSUME NEW q \in TokenReqs
      PROVE  ReqOK(treq[q], token', code', minted') /\ Apart(treq[q], TReqIdle)
  <2>1. \A t \in Rows : token'[t].state # token[t].state => RowHeld(t) = {}
    BY <1>1, <1>3
  <2> QED
    BY <1>1, <1>4, <2>1, WitherStep, IdleIsOK
<1>10. ReqOK(TReqIdle, token', code', minted')
  BY IdleIsOK
<1> QED
  BY <1>1, <1>4, <1>6, <1>7, <1>8, <1>9, <1>10, Sentinels, StepOf

\* The rows and codes of a deleted client or user go with it.
LEMMA CascadeStep ==
    ASSUME FamInv, NEW r \in TokenReqs, Cascade(r)
    PROVE  FamInv' /\ Withers(token, token')
<1> DEFINE o == treq[r].owner
           mine(c) == o \in {code[c].user, code[c].client} /\ code[c].state # "none"
<1>1. /\ UNCHANGED <<minted, reported, raced>> /\ owners' = owners \ {o}
      /\ \A t \in OwnedBy(o) : RowHeld(t) = {}
      /\ \A c \in Codes : mine(c) => CodeHeld(c) = {}
      /\ treq' = [treq EXCEPT ![r] = TReqIdle]
      /\ token \in [Rows -> TokenState] /\ code \in [Codes -> CodeState]
      /\ TablesOK(token, code, minted) /\ ReportsOK(token, reported, raced)
  BY Typed, Granted DEF FamInv, Cascade, Answer, famHistory
<1>2. /\ token' = [t \in Rows |-> IF t \in OwnedBy(o) THEN [token[t] EXCEPT !.state = "gone"] ELSE token[t]]
      /\ code' = [c \in Codes |-> IF mine(c) THEN [code[c] EXCEPT !.state = "gone"] ELSE code[c]]
  BY DEF Cascade
<1>3. /\ token' \in [Rows -> TokenState]
      /\ \A t \in Rows : /\ token'[t].code = token[t].code /\ token'[t].refresh = token[t].refresh
                         /\ token'[t].user = token[t].user /\ token'[t].client = token[t].client
                         /\ token'[t].state = IF t \in OwnedBy(o) THEN "gone" ELSE token[t].state
  <2>1. ASSUME NEW t \in Rows
        PROVE  LET a == [token[t] EXCEPT !.state = "gone"] IN
               /\ a \in TokenState /\ a.code = token[t].code /\ a.refresh = token[t].refresh
               /\ a.user = token[t].user /\ a.client = token[t].client /\ a.state = "gone"
    <3>1. token[t] \in TokenState
      BY <1>1
    <3> QED
      BY <3>1 DEF TokenState
  <2> HIDE DEF o
  <2> QED
    BY <1>1, <1>2, <2>1
<1>4. /\ code' \in [Codes -> CodeState]
      /\ \A c \in Codes : code'[c].state = IF mine(c) THEN "gone" ELSE code[c].state
  <2>1. ASSUME NEW c \in Codes
        PROVE  LET a == [code[c] EXCEPT !.state = "gone"] IN a \in CodeState /\ a.state = "gone"
    <3>1. code[c] \in CodeState
      BY <1>1
    <3> QED
      BY <3>1 DEF CodeState
  <2> HIDE DEF mine
  <2> QED
    BY <1>1, <1>2, <2>1
<1> HIDE DEF o, mine
<1>5. \A t \in Rows : t \in OwnedBy(o) <=> o \in {token[t].user, token[t].client} /\ token[t].state \notin {"none", "gone"}
  BY DEF OwnedBy
<1>6. Withers(token, token')
  BY <1>3, <1>5 DEF Withers
<1>7. Witnesses(token, token')
  <2> SUFFICES ASSUME NEW s \in Rows, NEW t \in Rows, token[s].code = token[t].code, token[s].code \in Codes,
                      token[s].state = "replaced", token'[t].state = "live"
               PROVE  token'[s].state = "replaced"
    BY DEF Witnesses
  <2>1. token[s].user = token[t].user /\ token[s].client = token[t].client
    BY <1>1 DEF TablesOK
  <2>2. t \notin OwnedBy(o) /\ token[t].state = "live"
    BY <1>3
  <2>3. s \notin OwnedBy(o)
    BY <1>5, <2>1, <2>2
  <2> QED
    BY <1>3, <2>3
<1>8. \A t \in Rows : token'[t].refresh => token[t].refresh
  BY <1>3
<1>9. TablesOK(token', code, minted) /\ ReportsOK(token', reported', raced')
  BY <1>1, <1>6, <1>8, WitherKeepsTables
<1>10. \A c \in Codes : code[c].state \in {"used", "gone"} => code'[c].state \in {"used", "gone"}
  BY <1>4
<1>11. TablesOK(token', code', minted')
  BY <1>1, <1>9, <1>10 DEF TablesOK
<1>12. FamTypeOK'
  BY <1>1, <1>3, <1>4, Sentinels DEF FamInv, FamTypeOK
<1>13. ASSUME NEW q \in TokenReqs
       PROVE  ReqOK(treq[q], token', code', minted') /\ Apart(treq[q], TReqIdle)
  <2>1. treq[q] \in TReqState /\ ReqOK(treq[q], token, code, minted)
    BY Typed DEF FamInv, ReqsOK
  <2>2. treq[q].pc \in {"rotate", "commit"} => token'[treq[q].row].state = "live"
    <3>1. treq[q].pc \in {"rotate", "commit"} => /\ treq[q].row \in Rows /\ token[treq[q].row].state = "live"
                                                 /\ q \in RowHeld(treq[q].row)
      BY <2>1 DEF ReqOK, OnRow, OnFamily, RowHeld
    <3> QED
      BY <1>1, <1>3, <3>1
  <2>3. ReqOK(treq[q], token', code, minted)
    BY <1>6, <1>7, <2>1, <2>2, WitherKeepsReq
  <2>4. treq[q].pc = "consume" => code'[treq[q].code].state \in {"issued", "expired"}
    <3>1. treq[q].pc = "consume" => /\ treq[q].code \in Codes /\ q \in CodeHeld(treq[q].code)
                                    /\ code[treq[q].code].state \in {"issued", "expired"}
      BY <2>1 DEF ReqOK, CodeHeld, At, TReqState
    <3> QED
      BY <1>1, <1>4, <3>1
  <2> QED
    BY <1>1, <1>9, <1>10, <2>1, <2>3, <2>4, CodesKeep, IdleIsOK
<1>14. ReqOK(TReqIdle, token', code', minted')
  BY IdleIsOK
<1> QED
  BY <1>1, <1>6, <1>9, <1>11, <1>12, <1>13, <1>14, Sentinels, StepOf

-----------------------------------------------------------------------------
(* Every step.                                                             *)

\* The invariant holds where there is neither a code nor a row.
LEMMA FamInvInit == FamInit => FamInv
<1> SUFFICES ASSUME FamInit PROVE FamInv
  OBVIOUS
<1>1. 0 \in 0 .. MaxTokens
  BY TokenBound
<1>2. FamTypeOK
  BY <1>1, Sentinels DEF FamInit, FamTypeOK
<1>3. \A t \in Rows : token[t] = NoToken
  BY DEF FamInit
<1>4. TablesOK(token, code, minted)
  BY <1>3, Sentinels DEF TablesOK
<1>5. ReqsOK /\ ReqsApart
  BY IdleIsOK DEF FamInit, ReqsOK, ReqsApart
<1>6. ReportsOK(token, reported, raced)
  BY DEF FamInit, ReportsOK
<1> QED
  BY <1>2, <1>4, <1>5, <1>6 DEF FamInv

\* What a step may do to the rows.
RowsMove ==
    \/ UNCHANGED token
    \/ Grows(token, token')
    \/ Withers(token, token')
    \/ \E y, n \in Rows : Succeeds(y, n, token, token')

\* Every step keeps the invariant, and moves the rows in one of the three ways of a lineage.
LEMMA FamInvNext ==
    ASSUME FamInv, [FamNext]_famVars
    PROVE  FamInv' /\ RowsMove
<1>1. CASE UNCHANGED famVars
  <2>1. UNCHANGED <<owners, code, token, minted, treq, reported, raced>>
    BY <1>1 DEF famVars, famDb, famHistory
  <2> QED
    BY <2>1 DEF FamInv, FamTypeOK, ReqsOK, ReqsApart, RowsMove
<1>2. ASSUME NEW u \in Users, CreatePAT(u) PROVE FamInv' /\ RowsMove
  BY <1>2, CreatePATStep DEF RowsMove
<1>3. ASSUME NEW u \in Users, NEW k \in Clients, NEW c \in Codes, Decide(u, k, c) PROVE FamInv' /\ RowsMove
  BY <1>3, CodeSteps DEF RowsMove, Decide
<1>4. ASSUME NEW k \in Clients, RegisterClient(k) PROVE FamInv' /\ RowsMove
  BY <1>4, RegisterClientStep DEF RowsMove, RegisterClient
<1>5. ASSUME NEW c \in Codes, ExpireCode(c) PROVE FamInv' /\ RowsMove
  BY <1>5, CodeSteps DEF RowsMove, ExpireCode
<1>6. ASSUME NEW t \in Rows, RevokePAT(t) PROVE FamInv' /\ RowsMove
  BY <1>6, RevokePATStep DEF RowsMove
<1>7. ASSUME NEW r \in TokenReqs,
             \/ \E c \in Codes, right \in BOOLEAN : BeginExchange(r, c, right)
             \/ \E t \in Rows, right \in BOOLEAN : BeginRotation(r, t, right)
             \/ \E t \in Rows : BeginUse(r, t)
             \/ \E o \in Users \cup Clients : BeginDelete(r, o)
      PROVE  FamInv' /\ RowsMove
  <2>1. UNCHANGED token
    BY <1>7 DEF BeginExchange, BeginRotation, BeginUse, BeginDelete, famDb
  <2> QED
    BY <1>7, <2>1, BeginSteps DEF RowsMove
<1>8. ASSUME NEW r \in TokenReqs, FailToken(r) PROVE FamInv' /\ RowsMove
  BY <1>8, AnswerStep DEF FailToken, RowsMove, famDb
<1>9. ASSUME NEW r \in TokenReqs, FamStep(r) PROVE FamInv' /\ RowsMove
  <2>1. CASE LockCode(r)
    BY <2>1, LockCodeStep DEF RowsMove, LockCode, famDb
  <2>2. CASE ConsumeAuthCode(r)
    BY <2>2, ConsumeAuthCodeStep DEF RowsMove, ConsumeAuthCode
  <2>3. CASE MintAccessToken(r)
    BY <2>3, MintAccessTokenStep DEF RowsMove
  <2>4. CASE SetRefreshToken(r)
    BY <2>4, SetRefreshTokenStep DEF RowsMove
  <2>5. CASE LockRow(r)
    BY <2>5, LockRowStep DEF RowsMove, LockRow, famDb
  <2>6. CASE InsertNext(r)
    BY <2>6, InsertNextStep DEF RowsMove, InsertNext, InsertOr
  <2>7. CASE CommitRotation(r)
    <3>1. Succeeds(treq[r].row, treq[r].next, token, token')
      BY <2>7, CommitRotationStep
    <3>2. treq[r].row \in Rows /\ treq[r].next \in Rows
      BY <3>1 DEF Succeeds
    <3> QED
      BY <2>7, <3>1, <3>2, CommitRotationStep DEF RowsMove
  <2>8. CASE SnapshotFamily(r)
    BY <2>8, SnapshotFamilyStep DEF RowsMove, SnapshotFamily, famDb
  <2>9. CASE EndFamily(r)
    BY <2>9, EndFamilyStep DEF RowsMove
  <2>10. CASE ReadToken(r) \/ ReadUser(r) \/ ServeUser(r) \/ LockOwner(r)
    BY <2>10, ReadSteps DEF RowsMove, ReadToken, ReadUser, ServeUser, LockOwner, famDb
  <2>11. CASE Cascade(r)
    BY <2>11, CascadeStep DEF RowsMove
  <2>12. CASE AbortVictim(r)
    BY <1>8, <2>12 DEF AbortVictim
  <2> QED
    BY <1>9, <2>1, <2>2, <2>3, <2>4, <2>5, <2>6, <2>7, <2>8, <2>9, <2>10, <2>11, <2>12 DEF FamStep
<1>10. ASSUME NEW old \in SUBSET Codes, PurgeExpiredAuthCodes(old) PROVE FamInv' /\ RowsMove
  BY <1>10, PurgeStep DEF RowsMove, PurgeExpiredAuthCodes
<1> QED
  BY <1>1, <1>2, <1>3, <1>4, <1>5, <1>6, <1>7, <1>8, <1>9, <1>10 DEF FamNext

\* The inductive invariant holds of every reachable state.
THEOREM FamInvariant == FamSpec => []FamInv
BY FamInvInit, FamInvNext, PTL DEF FamSpec

-----------------------------------------------------------------------------
\* A reuse that was reported leaves no living token in its family, unless a rotation overtook
\* it; no revoked token is admitted by a request that came later; and every row, code and
\* request keeps its type (RotateOAuthRefreshToken, ResolvePAT).
THEOREM RevocationIsSound == FamSpec => []RevocationHolds
<1>1. FamInv => RevocationHolds
  <2> SUFFICES ASSUME FamInv PROVE RevocationHolds
    OBVIOUS
  <2>1. SurvivorIsARace
    <3> SUFFICES ASSUME NEW c \in reported \ raced PROVE Live(c) = {}
      BY DEF SurvivorIsARace
    <3>1. \A t \in Rows : token[t].code = c => token[t].state # "live"
      BY DEF FamInv, ReportsOK
    <3> QED
      BY <3>1 DEF Live, Family
  <2>2. NoPropagationDelay
    BY DEF FamInv, ReqsOK, ReqOK, NoPropagationDelay, At
  <2> QED
    BY <2>1, <2>2 DEF RevocationHolds, FamInv
<1> QED
  BY <1>1, FamInvariant, PTL

-----------------------------------------------------------------------------
(* The rows of a grant implement its lineage.                              *)

\* Of the rows of a grant at most one lives.
LEMMA LiveIsOne ==
    ASSUME FamInv, NEW c \in Codes, NEW s \in Live(c), NEW t \in Live(c)
    PROVE  s = t
BY DEF FamInv, TablesOK, Live, Family

\* An insertion gives a grant, or is of none.
LEMMA GrowthGives ==
    ASSUME FamInv, Grows(token, token')
    PROVE  Grants!LineageNext \/ UNCHANGED Grants!lineageVars
<1>1. PICK n \in Rows, new \in TokenState :
        /\ token[n].state = "none" /\ new.state = "live" /\ token' = [token EXCEPT ![n] = new]
        /\ new.code \in Codes => \A t \in Rows : token[t].code # new.code
  BY DEF Grows
<1>2. /\ token'[n] = new /\ \A t \in Rows \ {n} : token'[t] = token[t]
      /\ token[n].code \notin Codes
  BY <1>1, Typed, Sentinels DEF FamInv, TablesOK
<1>3. \A c \in Codes \ {new.code} : Family(c)' = Family(c) /\ Live(c)' = Live(c)
  BY <1>2 DEF Family, Live
<1>4. CASE new.code \in Codes
  <2>1. Family(new.code) = {}
    BY <1>1, <1>4 DEF Family
  <2>2. \A t \in Rows \ {n} : token'[t].code # new.code
    BY <1>1, <1>2, <1>4
  <2>3. Family(new.code)' = {n} /\ Live(new.code)' = {n}
    BY <1>1, <1>2, <2>2 DEF Family, Live
  <2>4. Grants!Give(new.code)
    BY <1>3, <1>4, <2>1, <2>3 DEF Grants!Give
  <2> QED
    BY <1>4, <2>4 DEF Grants!LineageNext
<1>5. CASE new.code \notin Codes
  BY <1>3, <1>5 DEF Grants!lineageVars
<1> QED
  BY <1>4, <1>5

\* Rows that stop being live end the grants they carry.
LEMMA WitheringEnds ==
    ASSUME FamInv, Withers(token, token')
    PROVE  Grants!LineageNext
<1>1. \A c \in Codes : Family(c)' = Family(c) /\ Live(c)' \subseteq Live(c)
  BY DEF Withers, Family, Live
<1>2. \A c \in Codes : Live(c)' = Live(c) \/ Live(c)' = {}
  BY <1>1, LiveIsOne
<1> DEFINE gs == {c \in Codes : Live(c)' = {}}
<1>3. Grants!End(gs)
  BY <1>1, <1>2 DEF Grants!End
<1> QED
  BY <1>3 DEF Grants!LineageNext

\* A refresh passes a grant on.
LEMMA SuccessionPasses ==
    ASSUME FamInv, NEW y \in Rows, NEW n \in Rows, Succeeds(y, n, token, token')
    PROVE  Grants!LineageNext
<1>1. PICK c \in Codes : c = token[y].code
  BY DEF Succeeds
<1>2. /\ y # n /\ token[y].state = "live" /\ token[n].state = "none" /\ token[n].code \notin Codes
  BY Sentinels DEF Succeeds, FamInv, TablesOK
<1>3. /\ token'[y].state = "replaced" /\ token'[n].state = "live"
      /\ token'[y].code = c /\ token'[n].code = c
      /\ \A t \in Rows \ {y, n} : token'[t] = token[t]
  BY <1>1, Typed, SuccessionFacts
<1>4. \A d \in Codes \ {c} : Family(d)' = Family(d) /\ Live(d)' = Live(d)
  BY <1>1, <1>2, <1>3 DEF Family, Live
<1>5. y \in Live(c) /\ y \in Family(c) /\ y \in Family(c)' /\ n \in Live(c)'
  BY <1>1, <1>2, <1>3 DEF Family, Live
<1>6. Live(c) = {y}
  BY <1>5, LiveIsOne
<1>7. Live(c)' = {n}
  <2>1. \A t \in Rows \ {y, n} : ~(token[t].code = c /\ token[t].state = "live")
    BY <1>6 DEF Family, Live
  <2> QED
    BY <1>2, <1>3, <2>1 DEF Family, Live
<1>8. \A d \in Codes : Family(d) # {} <=> Family(d)' # {}
  BY <1>4, <1>5
<1>9. Grants!Pass(c)
  <2>1. n \in Rows \ Live(c)
    BY <1>2, <1>6
  <2>2. [d \in Codes |-> Live(d)]' = [[d \in Codes |-> Live(d)] EXCEPT ![c] = {n}]
    BY <1>4, <1>7
  <2>3. {d \in Codes : Family(d) # {}}' = {d \in Codes : Family(d) # {}}
    BY <1>8
  <2>4. [d \in Codes |-> Live(d)][c] # {}
    BY <1>6
  <2> QED
    BY <2>1, <2>2, <2>3, <2>4 DEF Grants!Pass
<1> QED
  BY <1>9 DEF Grants!LineageNext

\* A code is exchanged once, at most one token of its family lives, a refresh passes the grant
\* on, and what ended never comes back: the tables implement the lineage of every grant.
THEOREM FamiliesImplementLineage == FamSpec => ImplementsLineage
<1>1. FamInit => Grants!LineageInit
  <2> SUFFICES ASSUME FamInit PROVE Grants!LineageInit
    OBVIOUS
  <2>1. \A c \in Codes : Family(c) = {} /\ Live(c) = {}
    BY Sentinels DEF FamInit, Family, Live
  <2> QED
    BY <2>1 DEF Grants!LineageInit
<1>2. FamInv /\ [FamNext]_famVars => [Grants!LineageNext]_(Grants!lineageVars)
  <2> SUFFICES ASSUME FamInv, [FamNext]_famVars
               PROVE  Grants!LineageNext \/ UNCHANGED Grants!lineageVars
    OBVIOUS
  <2>1. CASE UNCHANGED token
    BY <2>1 DEF Grants!lineageVars, Family, Live
  <2>2. CASE Grows(token, token')
    BY <2>2, GrowthGives
  <2>3. CASE Withers(token, token')
    BY <2>3, WitheringEnds
  <2>4. ASSUME NEW y \in Rows, NEW n \in Rows, Succeeds(y, n, token, token')
        PROVE  Grants!LineageNext
    BY <2>4, SuccessionPasses
  <2> QED
    BY <2>1, <2>2, <2>3, <2>4, FamInvNext DEF RowsMove
<1> QED
  BY <1>1, <1>2, FamInvariant, PTL DEF FamSpec, ImplementsLineage, Grants!Lineage
=============================================================================
