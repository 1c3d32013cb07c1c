-------------------------- MODULE TokenRevocation --------------------------
(***************************************************************************)
(* App tokens over the replicas of RegistrySync.  The middleware caches    *)
(* the verdict of the database on a token (tokencache); a revocation       *)
(* invalidates it on the pod that served it and moves the state version,   *)
(* and the syncer of every other pod clears its cache as an OnChange hook. *)
(***************************************************************************)
EXTENDS RegistrySync

CONSTANTS Tokens,    \* issued app tokens, by jti
          Checks,    \* requests of the data API that can be in flight at once
          Revokers   \* revocation requests that can be in flight at once

ASSUME TokensExist == Tokens # {}

VARIABLES
    revoked,   \* state version of the commit that revoked a token, 0 for none
    cache,     \* tokencache.cache of each pod
    tgen,      \* tokencache.gen of each pod
    check,     \* data API requests that look a token up
    revoking,  \* tokens a revocation request has still to invalidate
    cleared,   \* history: state version of the last sync whose hooks ran
    told        \* history: revoked tokens invalidated on the pod that served it

tokenVars == <<revoked, cache, tgen, check, revoking, cleared, told>>
tvars == <<vars, tokenVars>>

-----------------------------------------------------------------------------
Verdicts == {"none", "active", "inactive"}
NoVerdicts == [t \in Tokens |-> "none"]
APod == CHOOSE p \in Pods : TRUE
CheckIdle == [pc |-> "idle", pod |-> APod, token |-> CHOOSE t \in Tokens : TRUE,
              gen |-> 0, verdict |-> "none"]
CheckState == [pc : {"idle", "query", "store"}, pod : Pods, token : Tokens,
               gen : Nat, verdict : Verdicts]
RevokeIdle == [pod |-> APod, todo |-> {}]

TInit ==
    /\ Init
    /\ revoked = [t \in Tokens |-> 0]
    /\ cache = [p \in Pods |-> NoVerdicts]
    /\ tgen = [p \in Pods |-> 0]
    /\ check = [c \in Checks |-> CheckIdle]
    /\ revoking = [v \in Revokers |-> RevokeIdle]
    /\ cleared = [p \in Pods |-> 0]
    /\ told = [p \in Pods |-> {}]

\* IsActive finds no fresh entry: the generation is read before the database.
MissToken(c, p, t) ==
    /\ up[p]
    /\ check[c].pc = "idle"
    /\ cache[p][t] = "none"
    /\ check' = [check EXCEPT ![c] = [pc |-> "query", pod |-> p, token |-> t,
                                      gen |-> tgen[p], verdict |-> "none"]]
    /\ UNCHANGED <<vars, revoked, cache, tgen, revoking, cleared, told>>

QueryToken(c) ==
    /\ check[c].pc = "query"
    /\ check' = [check EXCEPT
         ![c].pc = "store",
         ![c].verdict = IF revoked[check[c].token] = 0 THEN "active" ELSE "inactive"]
    /\ UNCHANGED <<vars, revoked, cache, tgen, revoking, cleared, told>>

\* A failed query counts, and is cached, as an inactive token.
QueryFails(c) ==
    /\ check[c].pc = "query"
    /\ faults > 0
    /\ faults' = faults - 1
    /\ check' = [check EXCEPT ![c].pc = "store", ![c].verdict = "inactive"]
    /\ UNCHANGED <<dbVars, podVars, syncVars, req,
                   revoked, cache, tgen, revoking, cleared, told>>

StoreVerdict(c, fresh) ==
    LET k == check[c] IN
    /\ k.pc = "store"
    /\ cache' = IF fresh THEN [cache EXCEPT ![k.pod][k.token] = k.verdict] ELSE cache
    /\ check' = [check EXCEPT ![c] = CheckIdle]
    /\ UNCHANGED <<vars, revoked, tgen, revoking, cleared, told>>

\* Mutant: the plain Set.
SetAlways(c) == StoreVerdict(c, TRUE)

SetIfGeneration(c) == StoreVerdict(c, tgen[check[c].pod] = check[c].gen)

\* The entry outlived its TTL.
Expire(p, t) ==
    /\ cache[p][t] # "none"
    /\ cache' = [cache EXCEPT ![p][t] = "none"]
    /\ UNCHANGED <<vars, revoked, tgen, check, revoking, cleared, told>>

\* RevokeAppToken and RevokeAllAppTokens: one UPDATE of the tokens not revoked
\* yet, whose trigger moves the state version.
CommitRevocation(ts) ==
    /\ ts # {}
    /\ \A t \in ts : revoked[t] = 0
    /\ version < MaxVersion
    /\ version' = version + 1
    /\ revoked' = [t \in Tokens |-> IF t \in ts THEN version + 1 ELSE revoked[t]]
    /\ UNCHANGED <<db, podVars, syncVars, req, faults, cache, tgen, check, cleared, told>>

Revoke(v, p, ts) ==
    /\ up[p]
    /\ revoking[v].todo = {}
    /\ CommitRevocation(ts)
    /\ revoking' = [revoking EXCEPT ![v] = [pod |-> p, todo |-> ts]]

\* Served by a replica outside Pods, or the tokens went with their app.
RevokeElsewhere(ts) == CommitRevocation(ts) /\ UNCHANGED revoking

Invalidate(v, t) ==
    LET p == revoking[v].pod IN
    /\ t \in revoking[v].todo
    /\ cache' = [cache EXCEPT ![p][t] = "none"]
    /\ tgen' = [tgen EXCEPT ![p] = @ + 1]
    /\ revoking' = [revoking EXCEPT ![v].todo = @ \ {t}]
    /\ told' = [told EXCEPT ![p] = @ \cup {t}]
    /\ UNCHANGED <<vars, revoked, check, cleared>>

ClearTo(p, verdicts, g) ==
    /\ cache' = [cache EXCEPT ![p] = verdicts]
    /\ tgen' = [tgen EXCEPT ![p] = g]
    /\ cleared' = [cleared EXCEPT ![p] = sync[p].version]
    /\ UNCHANGED <<revoked, check, revoking, told>>

\* Mutants: the entries stay; the generation counts down.
ClearNothing(p) == ClearTo(p, cache[p], tgen[p] + 1)
ClearBackwards(p) == ClearTo(p, NoVerdicts, tgen[p] - 1)

\* tokencache.Clear, the OnChange hook of the syncer.
Clear(p) == ClearTo(p, NoVerdicts, tgen[p] + 1)

ClearOnChange(p) == RunHooks(p) /\ Clear(p)

\* The cache, the requests and the revocations in flight die with the pod.
CrashWithCache(p) ==
    /\ Crash(p)
    /\ cache' = [cache EXCEPT ![p] = NoVerdicts]
    /\ tgen' = [tgen EXCEPT ![p] = 0]
    /\ check' = [c \in Checks |-> IF check[c].pod = p THEN CheckIdle ELSE check[c]]
    /\ revoking' = [v \in Revokers |-> IF revoking[v].pod = p THEN RevokeIdle ELSE revoking[v]]
    /\ UNCHANGED <<revoked, cleared, told>>

-----------------------------------------------------------------------------
TokenStep ==
    \/ \E c \in Checks :
          \/ \E p \in Pods, t \in Tokens : MissToken(c, p, t)
          \/ QueryToken(c) \/ QueryFails(c) \/ SetIfGeneration(c)
    \/ \E p \in Pods, t \in Tokens : Expire(p, t)
    \/ \E ts \in SUBSET Tokens : RevokeElsewhere(ts)
    \/ \E v \in Revokers :
          \/ \E p \in Pods, ts \in SUBSET Tokens : Revoke(v, p, ts)
          \/ \E t \in Tokens : Invalidate(v, t)

RegistryStep ==
    /\ \/ \E r \in Requests : RequestStep(r)
       \/ \E o \in Objects : ChangeElsewhere(o)
       \/ \E p \in Pods : Load(p) \/ SyncError(p)
    /\ UNCHANGED tokenVars

TNext ==
    \/ RegistryStep
    \/ TokenStep
    \/ \E p \in Pods : ClearOnChange(p) \/ CrashWithCache(p)

\* The syncers and the handlers that began go on, as in RegistrySync; nothing
\* is owed by the TTL, by data API requests or by the revocation after its
\* commit.
TFairness ==
    /\ \A p \in Pods : WF_tvars(Load(p) /\ UNCHANGED tokenVars) /\ WF_tvars(ClearOnChange(p))
    /\ \A r \in Requests : WF_tvars(Finish(r) /\ UNCHANGED tokenVars)

TSpec == TInit /\ [][TNext]_tvars
FairTSpec == TSpec /\ TFairness

-----------------------------------------------------------------------------
TokenTypeOK ==
    /\ revoked \in [Tokens -> Nat]
    /\ cache \in [Pods -> [Tokens -> Verdicts]]
    /\ tgen \in [Pods -> Nat]
    /\ check \in [Checks -> CheckState]
    /\ revoking \in [Revokers -> [pod : Pods, todo : SUBSET Tokens]]
    /\ cleared \in [Pods -> Nat]
    /\ told \in [Pods -> SUBSET Tokens]

\* Once a pod has run the hooks of a sync at the version of a revocation or a
\* later one, or has served the revocation itself to its end, it never again
\* answers from its cache that the token is active, whatever lookups were in
\* flight (tokencache.SetIfGeneration).
RevokedTokenGone ==
    \A p \in Pods, t \in Tokens :
        (cache[p][t] = "active" /\ revoked[t] # 0) => cleared[p] < revoked[t] /\ t \notin told[p]

\* A revocation reaches the cache of every pod for good, without the help of
\* the TTL, of the pod that committed it or of a restart.
RevocationReachesEveryPod ==
    \A t \in Tokens : revoked[t] # 0 ~> [](\A p \in Pods : cache[p][t] # "active")
=============================================================================
