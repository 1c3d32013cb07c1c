----------------------------- MODULE DeployKeys -----------------------------
(***************************************************************************)
(* The deploy key of a frontend app's repository: a pair of keys is made   *)
(* by the platform, the public one is added at GitHub, and the row keeps   *)
(* the id and the private one, which the dashboard reveals.  Creation, a   *)
(* retry, a regeneration and the deletion of the app do this side by side, *)
(* each with what it read at its start.                                    *)
(***************************************************************************)
EXTENDS Naturals, FiniteSets

CONSTANTS KReqs,   \* requests in flight at once
          MaxKeys  \* bound: keys ever added at GitHub

ASSUME KeyBounds == MaxKeys \in Nat \ {0}

VARIABLES cred,      \* the row of frontend_app_sync_credentials
          appGone,   \* the app is archived
          hubKeys,   \* keys that GitHub has
          keysMade,  \* keys ever added
          hubOn,     \* GitHub is connected
          kreq,      \* requests in flight
          strayKeys, \* history: keys that a known accident left at GitHub
          deadKeys   \* history: keys that a request revoked before it stopped

keyVars == <<cred, appGone, hubKeys, keysMade, hubOn, kreq, strayKeys, deadKeys>>

-----------------------------------------------------------------------------
NoKey == 0
Keys == 1 .. MaxKeys
KeyOrNone == {NoKey} \cup Keys

Cred == [stored : BOOLEAN, status : {"pending", "ready", "failed"}, key : KeyOrNone]

KReqIdle == [pc |-> "idle", old |-> NoKey, key |-> NoKey]
KReq == [pc : {"idle", "revoke", "add", "save", "fail", "archive", "drop"},
         old : KeyOrNone, key : KeyOrNone]

KeyInit ==
    /\ cred = [stored |-> FALSE, status |-> "pending", key |-> NoKey]
    /\ appGone = FALSE
    /\ hubKeys = {}
    /\ keysMade = 0
    /\ hubOn = TRUE
    /\ kreq = [r \in KReqs |-> KReqIdle]
    /\ strayKeys = {}
    /\ deadKeys = {}

KeyAt(r, pc) == kreq[r].pc = pc
KeyOpen(r, q) == KeyAt(r, "idle") /\ kreq' = [kreq EXCEPT ![r] = q]
KeyTo(r, pc) == kreq' = [kreq EXCEPT ![r].pc = pc]
KeyDone(r) == kreq' = [kreq EXCEPT ![r] = KReqIdle]
Some(k) == {k} \ {NoKey}

-----------------------------------------------------------------------------
\* Create stores the row, and goes on to add the key.
CreateSyncCredential(r) ==
    /\ ~cred.stored /\ ~appGone
    /\ cred' = [cred EXCEPT !.stored = TRUE]
    /\ IF hubOn THEN KeyOpen(r, [KReqIdle EXCEPT !.pc = "add"]) ELSE UNCHANGED kreq
    /\ UNCHANGED <<appGone, hubKeys, keysMade, hubOn, strayKeys, deadKeys>>

\* It revokes no old key.  What was connected is read before; without it there is no client, and a panic.
SyncRetry(r) ==
    /\ cred.stored /\ cred.status # "ready" /\ ~appGone /\ hubOn
    /\ KeyOpen(r, [KReqIdle EXCEPT !.pc = "add"])
    /\ UNCHANGED <<cred, appGone, hubKeys, keysMade, hubOn, strayKeys, deadKeys>>

SyncRegenerate(r) ==
    /\ cred.stored /\ ~appGone /\ hubOn
    /\ KeyOpen(r, [KReqIdle EXCEPT !.pc = IF cred.key = NoKey THEN "add" ELSE "revoke", !.old = cred.key])
    /\ UNCHANGED <<cred, appGone, hubKeys, keysMade, hubOn, strayKeys, deadKeys>>

\* Best effort: GitHub may refuse, or its answer be lost.
RevokeDeployKey(r, k, next) ==
    /\ \/ hubKeys' = hubKeys \ {k} /\ UNCHANGED strayKeys
       \/ strayKeys' = strayKeys \cup (Some(k) \cap hubKeys) /\ UNCHANGED hubKeys
    /\ IF next = "idle" THEN KeyDone(r) ELSE KeyTo(r, next)
    /\ UNCHANGED <<cred, appGone, keysMade, hubOn, deadKeys>>

\* Mutant: the old key stays.
RevokeNothing(r) ==
    /\ KeyAt(r, "revoke")
    /\ KeyTo(r, "add")
    /\ UNCHANGED <<cred, appGone, hubKeys, keysMade, hubOn, strayKeys, deadKeys>>

RevokeOld(r) == KeyAt(r, "revoke") /\ RevokeDeployKey(r, kreq[r].old, "add")

\* Added and answered, added and the answer lost, or refused.
AddDeployKey(r) ==
    /\ KeyAt(r, "add")
    /\ \E asked \in {"added", "lost", "refused"} :
        /\ asked # "refused" => keysMade < MaxKeys
        /\ IF asked = "refused" THEN UNCHANGED <<keysMade, hubKeys>>
           ELSE keysMade' = keysMade + 1 /\ hubKeys' = hubKeys \cup {keysMade + 1}
        /\ strayKeys' = IF asked = "lost" THEN strayKeys \cup {keysMade + 1} ELSE strayKeys
        /\ kreq' = [kreq EXCEPT ![r].pc = IF asked = "added" THEN "save" ELSE "fail",
                                ![r].key = IF asked = "added" THEN keysMade + 1 ELSE NoKey]
    /\ UNCHANGED <<cred, appGone, hubOn, deadKeys>>

\* The row is written, archived app or not; a key that another request put there is left
\* behind, and so is the one that a SyncRetry replaces without revoking it.
UpdateSyncCredentialSuccess(r) ==
    /\ KeyAt(r, "save")
    /\ cred' = [cred EXCEPT !.status = "ready", !.key = kreq[r].key]
    /\ strayKeys' = strayKeys \cup (IF cred.key = kreq[r].old THEN {} ELSE Some(cred.key))
                              \cup (IF appGone THEN {kreq[r].key} ELSE {})
    /\ KeyDone(r)
    /\ UNCHANGED <<appGone, hubKeys, keysMade, hubOn, deadKeys>>

UpdateSyncCredentialFailure(r) ==
    /\ KeyAt(r, "fail")
    /\ cred' = [cred EXCEPT !.status = "failed"]
    /\ KeyDone(r)
    /\ UNCHANGED <<appGone, hubKeys, keysMade, hubOn, strayKeys, deadKeys>>

-----------------------------------------------------------------------------
BeginDeleteKeys(r) ==
    /\ cred.stored /\ ~appGone
    /\ KeyOpen(r, [KReqIdle EXCEPT !.pc = "archive"])
    /\ UNCHANGED <<cred, appGone, hubKeys, keysMade, hubOn, strayKeys, deadKeys>>

\* The row of the credential is read after the app is archived.
ArchiveApp(r) ==
    /\ KeyAt(r, "archive")
    /\ appGone' = TRUE
    /\ IF appGone \/ ~hubOn
       THEN KeyDone(r) /\ strayKeys' = strayKeys \cup (IF appGone THEN {} ELSE Some(cred.key))
       ELSE kreq' = [kreq EXCEPT ![r].pc = "drop", ![r].old = cred.key] /\ UNCHANGED strayKeys
    /\ UNCHANGED <<cred, hubKeys, keysMade, hubOn, deadKeys>>

RevokeAtDelete(r) == KeyAt(r, "drop") /\ RevokeDeployKey(r, kreq[r].old, "idle")

\* The caller goes away, a statement fails, the pod dies.
AbandonKey(r) ==
    LET q == kreq[r] IN
    /\ ~KeyAt(r, "idle")
    /\ strayKeys' = strayKeys \cup (IF q.pc = "save" THEN {q.key} ELSE IF q.pc = "drop" THEN Some(q.old) ELSE {})
    /\ deadKeys' = IF q.pc \in {"add", "save", "fail"} THEN deadKeys \cup Some(q.old) ELSE deadKeys
    /\ KeyDone(r)
    /\ UNCHANGED <<cred, appGone, hubKeys, keysMade, hubOn>>

SetHub(on) ==
    /\ on # hubOn
    /\ hubOn' = on
    /\ UNCHANGED <<cred, appGone, hubKeys, keysMade, kreq, strayKeys, deadKeys>>

KeyNext ==
    \/ \E on \in BOOLEAN : SetHub(on)
    \/ \E r \in KReqs :
          \/ CreateSyncCredential(r) \/ SyncRetry(r) \/ SyncRegenerate(r) \/ BeginDeleteKeys(r)
          \/ RevokeOld(r) \/ AddDeployKey(r) \/ UpdateSyncCredentialSuccess(r)
          \/ UpdateSyncCredentialFailure(r) \/ ArchiveApp(r) \/ RevokeAtDelete(r) \/ AbandonKey(r)

KeySpec == KeyInit /\ [][KeyNext]_keyVars

-----------------------------------------------------------------------------
KeyTypeOK ==
    /\ cred \in Cred
    /\ {appGone, hubOn} \subseteq BOOLEAN
    /\ hubKeys \subseteq Keys
    /\ keysMade \in 0 .. MaxKeys
    /\ kreq \in [KReqs -> KReq]
    /\ strayKeys \subseteq Keys /\ deadKeys \subseteq Keys

\* Every key at GitHub is the one on record, or in the hands of a request, or one
\* that a known accident left there.
StrayKeyIsAccounted ==
    \A k \in hubKeys :
        \/ cred.key = k /\ ~appGone
        \/ \E r \in KReqs : KeyAt(r, "save") /\ kreq[r].key = k
        \/ \E r \in KReqs : KeyAt(r, "drop") /\ kreq[r].old = k
        \/ k \in strayKeys

\* The key that the dashboard reveals as ready opens the repository, unless a
\* regeneration that revoked it is still under way or died (SyncRegenerate, RevealKey).
RevealedKeyWorks ==
    cred.status = "ready" /\ ~appGone /\ cred.key \notin hubKeys =>
        \/ cred.key \in deadKeys
        \/ \E r \in KReqs : kreq[r].old = cred.key /\ kreq[r].pc \in {"add", "save", "fail"}

\* A sync that fails or dies between GitHub and the database leaves neither a key that
\* nobody accounts for nor one that is revealed and opens nothing.
DeployKeysAgree == StrayKeyIsAccounted /\ RevealedKeyWorks
=============================================================================
