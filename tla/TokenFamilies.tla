--------------------------- MODULE TokenFamilies ---------------------------
(***************************************************************************)
(* Tokens for the platform itself: personal access tokens, and the OAuth   *)
(* server that issues them to clients.  A code is exchanged for the first  *)
(* token of a family; a refresh replaces the token by the next one of the  *)
(* family; presenting a refresh token that was replaced ends the family.   *)
(* PostgreSQL runs every transaction at READ COMMITTED.                    *)
(*                                                                         *)
(* A token stands for its row, its access token and its refresh token.     *)
(***************************************************************************)
EXTENDS Naturals, FiniteSets

CONSTANTS Users, Clients, Codes,
          TokenReqs,  \* requests in flight at once
          NoOwner,    \* stands for no client, and for no code
          MaxTokens   \* bound: rows of dashboard_pats

ASSUME TokenBound == MaxTokens \in Nat
ASSUME NoOwnerIsNone == NoOwner \notin Users \cup Clients \cup Codes
ASSUME OwnersDiffer == Users \cap Clients = {}
ASSUME OneOfEachExists == Users # {} /\ Codes # {}

VARIABLES owners,  \* users and OAuth clients that exist
          code,    \* oauth_auth_codes
          token,   \* dashboard_pats
          minted,  \* rows of dashboard_pats ever inserted
          treq,    \* requests in flight
          reported, \* history: codes of which a reuse was reported
          raced     \* history: those whose token was replaced meanwhile

famDb == <<owners, code, token, minted>>
famHistory == <<reported, raced>>
famVars == <<famDb, treq, famHistory>>

-----------------------------------------------------------------------------
Rows == 1 .. MaxTokens
AUser == CHOOSE u \in Users : TRUE
ACode == CHOOSE c \in Codes : TRUE

NoCode == [state |-> "none", user |-> AUser, client |-> NoOwner]
CodeState == [state : {"none", "issued", "used", "expired", "gone"}, user : Users,
              client : Clients \cup {NoOwner}]
\* Three of the states are one revoked_at: replaced, revoked by its user, ended.
Revoked == {"replaced", "revoked", "ended"}
NoToken == [state |-> "none", user |-> AUser, client |-> NoOwner, code |-> NoOwner,
            refresh |-> FALSE]
TokenState == [state : {"none", "live", "gone"} \cup Revoked, user : Users,
               client : Clients \cup {NoOwner}, code : Codes \cup {NoOwner}, refresh : BOOLEAN]

TReqIdle == [pc |-> "idle", owner |-> NoOwner, code |-> ACode, row |-> 0, right |-> TRUE,
             next |-> 0, targets |-> {}, revokedBefore |-> FALSE]
TReqState == [pc : {"idle", "lock_code", "consume", "mint", "refresh", "lock_row", "rotate",
                    "commit", "snapshot", "end", "lock_owner", "cascade",
                    "read_token", "read_user", "admitted"},
              owner : Users \cup Clients \cup {NoOwner}, code : Codes,
              row : 0 .. MaxTokens, right : BOOLEAN, next : 0 .. MaxTokens,
              targets : SUBSET Rows, revokedBefore : BOOLEAN]

FamInit ==
    /\ owners = Users
    /\ code = [c \in Codes |-> NoCode]
    /\ token = [t \in Rows |-> NoToken]
    /\ minted = 0
    /\ treq = [r \in TokenReqs |-> TReqIdle]
    /\ reported = {}
    /\ raced = {}

Family(c) == {t \in Rows : token[t].code = c}
Live(c) == {t \in Family(c) : token[t].state = "live"}

At(r, pc) == treq[r].pc = pc
Start(r, q) == At(r, "idle") /\ treq' = [treq EXCEPT ![r] = q]
Goto(r, pc) == treq' = [treq EXCEPT ![r].pc = pc]
Answer(r) == treq' = [treq EXCEPT ![r] = TReqIdle]

-----------------------------------------------------------------------------
(* Locks: of rows, by SELECT FOR UPDATE and UPDATE; of a user or a client,  *)
(* exclusive while it is deleted, shared by the foreign keys of an INSERT.  *)

RowHeld(t) == {r \in TokenReqs : treq[r].row = t /\ treq[r].pc \in {"rotate", "commit", "snapshot", "end"}}
CodeHeld(c) == {r \in TokenReqs : treq[r].code = c /\ At(r, "consume")}
Deleting(o) == {r \in TokenReqs : treq[r].owner = o /\ At(r, "cascade")}
Referring(o) == {r \in TokenReqs : At(r, "commit") /\ o \in {token[treq[r].row].user, token[treq[r].row].client}}
OwnedBy(o) == {t \in Rows : o \in {token[t].user, token[t].client} /\ token[t].state \notin {"none", "gone"}}

WaitsFor(r) ==
    CASE At(r, "lock_row") -> RowHeld(treq[r].row)
      [] At(r, "lock_code") -> CodeHeld(treq[r].code)
      [] At(r, "end") -> UNION {RowHeld(t) : t \in treq[r].targets}
      [] At(r, "rotate") -> LET k == token[treq[r].row] IN
                            IF k.state = "live" THEN Deleting(k.user) \cup Deleting(k.client) ELSE {}
      [] At(r, "mint") -> LET c == code[treq[r].code] IN Deleting(c.user) \cup Deleting(c.client)
      [] At(r, "lock_owner") -> Deleting(treq[r].owner) \cup Referring(treq[r].owner)
      [] At(r, "cascade") -> (UNION {RowHeld(t) : t \in OwnedBy(treq[r].owner)})
                             \cup (UNION {CodeHeld(c) : c \in {d \in Codes :
                                     treq[r].owner \in {code[d].user, code[d].client}}})
      [] OTHER -> {}

Unblocked(r) == WaitsFor(r) = {}

\* A query fails, the caller hangs up or the pod dies: nothing uncommitted stays.
FailToken(r) == ~At(r, "idle") /\ Answer(r) /\ UNCHANGED <<famDb, famHistory>>

\* PostgreSQL aborts one transaction of a ring of waits.
AbortVictim(r) ==
    /\ \E ring \in SUBSET TokenReqs : r \in ring /\ \A q \in ring : WaitsFor(q) \cap ring # {}
    /\ FailToken(r)

-----------------------------------------------------------------------------
(* Consent, and the exchange of a code.                                    *)

\* Anybody may register a client; it gets an id that no client had before.
RegisterClient(k) ==
    /\ k \notin owners
    /\ \A c \in Codes : code[c].client # k
    /\ owners' = owners \cup {k}
    /\ UNCHANGED <<code, token, minted, treq, famHistory>>

\* A user with a session, a client that exists and one of its redirect URIs: the
\* consent screen, and what its answer is checked against once more.
Authorize(u, k) == {u, k} \subseteq owners

\* The INSERT of the code waits for, or fails by, a deletion of either.
Decide(u, k, c) ==
    /\ Authorize(u, k)
    /\ Deleting(u) \cup Deleting(k) = {}
    /\ code[c].state = "none"
    /\ code' = [code EXCEPT ![c] = [state |-> "issued", user |-> u, client |-> k]]
    /\ UNCHANGED <<owners, token, minted, treq, famHistory>>

ExpireCode(c) ==
    /\ code[c].state = "issued"
    /\ code' = [code EXCEPT ![c].state = "expired"]
    /\ UNCHANGED <<owners, token, minted, treq, famHistory>>

\* At every boot and every six hours: codes past their time, used or not.  The DELETE
\* waits for who holds one of them.
PurgeExpiredAuthCodes(old) ==
    /\ \A c \in old : code[c].state \in {"expired", "used"} /\ CodeHeld(c) = {}
    /\ code' = [c \in Codes |-> IF c \in old THEN [code[c] EXCEPT !.state = "gone"] ELSE code[c]]
    /\ UNCHANGED <<owners, token, minted, treq, famHistory>>

\* Anyone may present a code, with the right client, URI and verifier or not.
BeginExchange(r, c, right) ==
    /\ Start(r, [TReqIdle EXCEPT !.pc = "lock_code", !.code = c, !.right = right])
    /\ UNCHANGED <<famDb, famHistory>>

\* Mutant: the SELECT of the code without FOR UPDATE.
ReadCode(r) ==
    /\ At(r, "lock_code")
    /\ IF code[treq[r].code].state = "issued" THEN Goto(r, "consume") ELSE Answer(r)
    /\ UNCHANGED <<famDb, famHistory>>

LockCode(r) ==
    /\ At(r, "lock_code")
    /\ Unblocked(r)
    /\ IF code[treq[r].code].state = "issued" THEN Goto(r, "consume") ELSE Answer(r)
    /\ UNCHANGED <<famDb, famHistory>>

\* Commits before the client, the URI and the verifier are compared.
ConsumeAuthCode(r) ==
    /\ At(r, "consume")
    /\ code' = [code EXCEPT ![treq[r].code].state = "used"]
    /\ IF treq[r].right THEN Goto(r, "mint") ELSE Answer(r)
    /\ UNCHANGED <<owners, token, minted, famHistory>>

\* The next row.  An INSERT that a foreign key refuses is an answer too.
NewRow(u, k, c, refresh) ==
    /\ minted < MaxTokens
    /\ minted' = minted + 1
    /\ token' = [token EXCEPT ![minted + 1] =
                   [state |-> "live", user |-> u, client |-> k, code |-> c, refresh |-> refresh]]

MintAccessToken(r) ==
    LET c == treq[r].code IN
    /\ At(r, "mint")
    /\ Unblocked(r)
    /\ IF {code[c].user, code[c].client} \subseteq owners /\ minted < MaxTokens
       THEN /\ NewRow(code[c].user, code[c].client, c, FALSE)
            /\ treq' = [treq EXCEPT ![r].pc = "refresh", ![r].row = minted + 1]
       ELSE Answer(r) /\ UNCHANGED <<token, minted>>
    /\ UNCHANGED <<owners, code, famHistory>>

\* A statement of its own: without it the token lives, and nobody knows it.
SetRefreshToken(r) ==
    /\ At(r, "refresh")
    /\ token' = [token EXCEPT ![treq[r].row].refresh = token[treq[r].row].state # "gone"]
    /\ Answer(r)
    /\ UNCHANGED <<owners, code, minted, famHistory>>

-----------------------------------------------------------------------------
(* The refresh of a token, and what ends a family.                         *)

\* Old refresh tokens are presented too: by a retry, or by who copied them.
BeginRotation(r, t, right) ==
    /\ token[t].refresh
    /\ Start(r, [TReqIdle EXCEPT !.pc = "lock_row", !.row = t, !.right = right])
    /\ UNCHANGED <<famDb, famHistory>>

LockRow(r) ==
    LET k == token[treq[r].row] IN
    /\ At(r, "lock_row")
    /\ Unblocked(r)
    /\ CASE k.state \in Revoked -> Goto(r, "snapshot")
         [] k.state = "live" /\ treq[r].right -> Goto(r, "rotate")
         [] OTHER -> Answer(r)
    /\ UNCHANGED <<famDb, famHistory>>

InsertOr(r, refused) ==
    LET k == token[treq[r].row] IN
    /\ At(r, "rotate")
    /\ Unblocked(r)
    /\ IF {k.user, k.client} \subseteq owners /\ minted < MaxTokens
       THEN /\ minted' = minted + 1
            /\ treq' = [treq EXCEPT ![r].pc = "commit", ![r].next = minted + 1]
       ELSE refused /\ UNCHANGED minted
    /\ UNCHANGED <<owners, code, token, famHistory>>

\* Mutant: a refused INSERT is tried again, without end.
InsertOrRetry(r) == InsertOr(r, Goto(r, "lock_row"))

\* The old row is revoked and the new one inserted; nobody sees it yet.
InsertNext(r) == InsertOr(r, Answer(r))

CommitRotation(r) ==
    LET t == treq[r].row IN
    /\ At(r, "commit")
    /\ token' = [token EXCEPT ![t].state = "replaced",
                              ![treq[r].next] = [token[t] EXCEPT !.state = "live"]]
    /\ Answer(r)
    /\ UNCHANGED <<owners, code, minted, famHistory>>

\* The UPDATE of the family: its statement sees the rows committed by now.
SnapshotFamily(r) ==
    /\ At(r, "snapshot")
    /\ treq' = [treq EXCEPT ![r].pc = "end", ![r].targets = Live(token[treq[r].row].code)]
    /\ UNCHANGED <<famDb, famHistory>>

EndRows(r, ts) ==
    LET c == token[treq[r].row].code IN
    /\ At(r, "end")
    /\ Unblocked(r)
    /\ token' = [t \in Rows |-> IF t \in ts /\ token[t].state = "live"
                                THEN [token[t] EXCEPT !.state = "ended"] ELSE token[t]]
    /\ reported' = reported \cup {c}
    /\ raced' = IF \E t \in treq[r].targets : token[t].state = "replaced"
                THEN raced \cup {c} ELSE raced
    /\ Answer(r)
    /\ UNCHANGED <<owners, code, minted>>

\* Mutant: the reuse is reported before the commit, and rolled back.
EndNothing(r) == EndRows(r, {})

\* It waits for who holds a row, and then takes the row only if still live.
EndFamily(r) == EndRows(r, treq[r].targets)

-----------------------------------------------------------------------------
(* Personal access tokens, and their use.                                  *)

CreatePAT(u) ==
    /\ u \in owners
    /\ Deleting(u) = {}
    /\ NewRow(u, NoOwner, NoOwner, FALSE)
    /\ UNCHANGED <<owners, code, treq, famHistory>>

\* One of the user's own tokens, of either kind.
RevokePAT(t) ==
    /\ token[t].state = "live"
    /\ RowHeld(t) = {}
    /\ token' = [token EXCEPT ![t].state = "revoked"]
    /\ UNCHANGED <<owners, code, minted, treq, famHistory>>

\* history: whether the token was already revoked, or its user deleted.
BeginUse(r, t) ==
    /\ token[t].state # "none"
    /\ Start(r, [TReqIdle EXCEPT !.pc = "read_token", !.row = t,
                   !.revokedBefore = token[t].state # "live"])
    /\ UNCHANGED <<famDb, famHistory>>

\* The token may also have expired.
ReadToken(r) ==
    /\ At(r, "read_token")
    /\ IF token[treq[r].row].state = "live" THEN Goto(r, "read_user") ELSE Answer(r)
    /\ UNCHANGED <<famDb, famHistory>>

ReadUser(r) ==
    /\ At(r, "read_user")
    /\ IF token[treq[r].row].user \in owners THEN Goto(r, "admitted") ELSE Answer(r)
    /\ UNCHANGED <<famDb, famHistory>>

ServeUser(r) == At(r, "admitted") /\ Answer(r) /\ UNCHANGED <<famDb, famHistory>>

-----------------------------------------------------------------------------
(* DeleteOAuthClient and the deletion of a user cascade to codes and rows. *)

BeginDelete(r, o) ==
    /\ Start(r, [TReqIdle EXCEPT !.pc = "lock_owner", !.owner = o])
    /\ UNCHANGED <<famDb, famHistory>>

LockOwner(r) ==
    /\ At(r, "lock_owner")
    /\ Unblocked(r)
    /\ IF treq[r].owner \in owners THEN Goto(r, "cascade") ELSE Answer(r)
    /\ UNCHANGED <<famDb, famHistory>>

Cascade(r) ==
    LET o == treq[r].owner IN
    /\ At(r, "cascade")
    /\ Unblocked(r)
    /\ owners' = owners \ {o}
    /\ token' = [t \in Rows |-> IF t \in OwnedBy(o) THEN [token[t] EXCEPT !.state = "gone"] ELSE token[t]]
    /\ code' = [c \in Codes |-> IF o \in {code[c].user, code[c].client} /\ code[c].state # "none"
                                THEN [code[c] EXCEPT !.state = "gone"] ELSE code[c]]
    /\ Answer(r)
    /\ UNCHANGED <<minted, famHistory>>

-----------------------------------------------------------------------------
FamStep(r) ==
    \/ LockCode(r) \/ ConsumeAuthCode(r) \/ MintAccessToken(r) \/ SetRefreshToken(r)
    \/ LockRow(r) \/ InsertNext(r) \/ CommitRotation(r) \/ SnapshotFamily(r) \/ EndFamily(r)
    \/ ReadToken(r) \/ ReadUser(r) \/ ServeUser(r)
    \/ LockOwner(r) \/ Cascade(r)
    \/ AbortVictim(r)

FamNext ==
    \/ \E u \in Users : CreatePAT(u) \/ \E k \in Clients, c \in Codes : Decide(u, k, c)
    \/ \E k \in Clients : RegisterClient(k)
    \/ \E c \in Codes : ExpireCode(c)
    \/ \E old \in SUBSET Codes : PurgeExpiredAuthCodes(old)
    \/ \E t \in Rows : RevokePAT(t)
    \/ \E r \in TokenReqs :
          \/ \E c \in Codes, right \in BOOLEAN : BeginExchange(r, c, right)
          \/ \E t \in Rows, right \in BOOLEAN : BeginRotation(r, t, right)
          \/ \E t \in Rows : BeginUse(r, t)
          \/ \E o \in Users \cup Clients : BeginDelete(r, o)
          \/ FamStep(r) \/ FailToken(r)

FamSpec == FamInit /\ [][FamNext]_famVars

\* PostgreSQL grants a lock in turn, and finds every ring of waits.
FamFairness == \A r \in TokenReqs : SF_famVars(FamStep(r))
FairFamSpec == FamSpec /\ FamFairness

-----------------------------------------------------------------------------
FamTypeOK ==
    /\ owners \subseteq Users \cup Clients
    /\ code \in [Codes -> CodeState]
    /\ token \in [Rows -> TokenState]
    /\ minted \in 0 .. MaxTokens
    /\ treq \in [TokenReqs -> TReqState]
    /\ reported \subseteq Codes
    /\ raced \subseteq reported

\* RotateOAuthRefreshToken, of a token that was replaced already: "every row
\* sharing that family_id is revoked (the access token issued alongside it, and any
\* tokens minted from later rotations), then ErrRefreshTokenReused is returned".
ReportedFamilyIsDead == \A c \in reported : Live(c) = {}

\* Once a reuse is reported, the family is dead for good, whatever is in flight;
\* left out is only the family whose UPDATE found that the token it saw had been
\* replaced by a rotation meanwhile, whose new token it cannot see.
SurvivorIsARace == \A c \in reported \ raced : Live(c) = {}

\* A revocation takes effect immediately (ResolvePAT: "no propagation delay"): a
\* request that comes after it is never admitted.
NoPropagationDelay == \A r \in TokenReqs : At(r, "admitted") => ~treq[r].revokedBefore

\* Reuse and revocation reach every request, but for the one race, and the rows, codes and
\* requests keep their types.
RevocationHolds == FamTypeOK /\ SurvivorIsARace /\ NoPropagationDelay

\* The codes and the rows implement the lineage of a grant: a code is exchanged
\* once, at most one token of a family lives, and a refresh neither doubles nor
\* loses it.
Grants == INSTANCE GrantLineage WITH
    Grants <- Codes, Tokens <- Rows,
    begun <- {c \in Codes : Family(c) # {}},
    heirs <- [c \in Codes |-> Live(c)]
ImplementsLineage == Grants!Lineage

\* Every request comes to an end, those that wait for one another's rows too: a
\* rotation and the deletion of its client wait for each other.
EveryTokenRequestEnds == \A r \in TokenReqs : []<>At(r, "idle")
=============================================================================
