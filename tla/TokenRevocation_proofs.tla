---------------------- MODULE TokenRevocation_proofs ----------------------
(***************************************************************************)
(* The safety of token revocation, for any number of pods, tokens, lookups *)
(* and revocations.  The invariant ties the generation that a lookup in    *)
(* flight has read to what its verdict may still be used for.              *)
(***************************************************************************)
EXTENDS TokenRevocation, RegistrySync_proofs

\* The pod p has to know that t is revoked.
Knows(p, t) == revoked[t] # 0 /\ (revoked[t] <= cleared[p] \/ t \in told[p])

\* A revocation is stamped with a version that was committed, and a pod is
\* told of a token only after it.
Revocations ==
    /\ \A t \in Tokens : revoked[t] <= version
    /\ \A p \in Pods : cleared[p] <= version
    /\ \A p \in Pods : \A t \in told[p] : revoked[t] # 0
    /\ \A v \in Revokers : \A t \in revoking[v].todo : revoked[t] # 0

\* A verdict "active" on a token the pod has to know is revoked is only in the
\* hands of a lookup whose generation is over.
Lookups ==
    \A c \in Checks :
        /\ check[c].gen <= tgen[check[c].pod]
        /\ (/\ check[c].pc = "store"
            /\ check[c].verdict = "active"
            /\ Knows(check[c].pod, check[c].token)) => check[c].gen # tgen[check[c].pod]

Cached == \A p \in Pods, t \in Tokens : Knows(p, t) => cache[p][t] # "active"

TInv == IInv /\ TokenTypeOK /\ Revocations /\ Lookups /\ Cached

-----------------------------------------------------------------------------
\* The idle lookup and the idle revocation are states of their types.
LEMMA TokenIdleTypes ==
    /\ APod \in Pods
    /\ RevokeIdle \in [pod : Pods, todo : SUBSET Tokens]
    /\ NoVerdicts \in [Tokens -> Verdicts]
    /\ CheckIdle \in CheckState
<1>1. APod \in Pods
  BY PodsExist DEF APod
<1>2. (CHOOSE t \in Tokens : TRUE) \in Tokens
  BY TokensExist
<1> QED
  BY <1>1, <1>2 DEF RevokeIdle, NoVerdicts, Verdicts, CheckIdle, CheckState

\* The invariant holds initially.
LEMMA TInitInv == TInit => TInv
<1> SUFFICES ASSUME TInit PROVE TInv
  OBVIOUS
<1>1. IInv
  BY InitInv DEF TInit
<1>2. TokenTypeOK
  BY TokenIdleTypes DEF TInit, TokenTypeOK
<1>3. Revocations
  BY <1>1, PartTypes DEF TInit, Revocations, RevokeIdle, IInv
<1>4. Lookups
  <2>1. \A c \in Checks : check[c].gen = 0 /\ check[c].pc = "idle" /\ check[c].pod \in Pods
    BY TokenIdleTypes DEF TInit, CheckIdle
  <2> QED
    BY <2>1 DEF Lookups, TInit
<1>5. Cached
  BY DEF Cached, TInit, NoVerdicts
<1> QED
  BY <1>1, <1>2, <1>3, <1>4, <1>5 DEF TInv

-----------------------------------------------------------------------------
\* Only new revocations and what a pod is told or has cleared change what a
\* pod has to know; a step of RegistrySync changes none of it.
LEMMA RegistryTokens ==
    ASSUME TInv, UNCHANGED tokenVars, IInv', version <= version'
    PROVE  TInv'
<1> USE DEF tokenVars
<1>1. TokenTypeOK' /\ Lookups' /\ Cached'
  BY DEF TInv, TokenTypeOK, Lookups, Cached, Knows
<1>2. Revocations'
  <2>1. version \in Int /\ version' \in Int
    BY PartTypes DEF TInv, IInv, TypeOK
  <2>2. \A t \in Tokens : revoked[t] \in Int /\ revoked[t] <= version
    BY DEF TInv, TokenTypeOK, Revocations
  <2>3. \A p \in Pods : cleared[p] \in Int /\ cleared[p] <= version
    BY DEF TInv, TokenTypeOK, Revocations
  <2> QED
    BY <2>1, <2>2, <2>3 DEF TInv, Revocations
<1> QED
  BY <1>1, <1>2 DEF TInv

\* Nothing but a revocation touches what RegistrySync is about.
LEMMA RegistryStays ==
    ASSUME IInv, UNCHANGED <<dbVars, podVars, syncVars, req>>, faults' \in 0..MaxFaults
    PROVE  IInv' /\ version' = version
<1>1. UNCHANGED <<version, db, reg, gen, up, lastVersion, sync, synced, req>>
  BY DEF dbVars, podVars, syncVars
<1>2. TypeOK' /\ Copies'
  BY <1>1 DEF IInv, TypeOK, Copies, AtLeast
<1> QED
  BY <1>1, <1>2, RestStays DEF IInv

\* The steps of RegistrySync never move the state version back.
LEMMA VersionGrows ==
    ASSUME TypeOK, Next
    PROVE  version <= version'
<1>1. version \in Nat
  BY PartTypes
<1>2. version' = version \/ version' = version + 1
  BY DEF Next, RequestStep, Finish, CreateApp, ReadExisting, SaveThenReread, DeleteApp,
     UpdateSystemConfig, SaveSettings, SaveMoreSettings, RereadRow, RereadTables, AppGone,
     Publish, GiveUp, ChangeElsewhere, Commit, Load, ReadVersion, StartSync, TakeGeneration,
     ListApps, LoadTables, LoadSystemConfig, ReplaceIfGeneration, Replace, RefuseSnapshot,
     DropSnapshot, RunHooks, SyncError, Crash, dbVars
<1> QED
  BY <1>1, <1>2

\* A step of the registry moves no token, no entry and no lookup.
LEMMA RegistryStepKeeps == TInv /\ RegistryStep => TInv'
<1> SUFFICES ASSUME TInv, RegistryStep PROVE TInv'
  OBVIOUS
<1>1. Next
  BY DEF RegistryStep, Next
<1>2. IInv' /\ version <= version'
  BY <1>1, StepKeeps, VersionGrows DEF TInv, IInv
<1> QED
  BY <1>2, RegistryTokens DEF RegistryStep

\* A lookup keeps the invariant: its generation is the pod's when it starts, and
\* its verdict is only stored while it still is.
LEMMA LookupKeeps ==
    ASSUME TInv, NEW c \in Checks,
           (\E p \in Pods, t \in Tokens : MissToken(c, p, t))
             \/ QueryToken(c) \/ QueryFails(c) \/ SetIfGeneration(c)
    PROVE  TInv'
<1>0. /\ TokenTypeOK /\ IInv
      /\ check[c] \in CheckState /\ check[c].pod \in Pods /\ check[c].token \in Tokens
      /\ check[c].verdict \in Verdicts
      /\ \A p \in Pods : tgen[p] \in Nat
  BY DEF TInv, TokenTypeOK, CheckState
<1>1. faults' \in 0..MaxFaults /\ UNCHANGED <<dbVars, podVars, syncVars, req>>
  <2>1. faults \in 0..MaxFaults
    BY <1>0 DEF IInv, TypeOK
  <2>2. /\ faults' = faults \/ (faults > 0 /\ faults' = faults - 1)
        /\ UNCHANGED <<dbVars, podVars, syncVars, req>>
    BY DEF MissToken, QueryToken, QueryFails, SetIfGeneration, StoreVerdict, vars,
       dbVars, podVars, syncVars
  <2> QED
    BY <2>1, <2>2, BoundsAreNat
<1>2. IInv' /\ version' = version
  BY <1>0, <1>1, RegistryStays
<1>3. UNCHANGED <<revoked, tgen, revoking, cleared, told>>
  BY DEF MissToken, QueryToken, QueryFails, SetIfGeneration, StoreVerdict
<1>4. Revocations'
  BY <1>2, <1>3 DEF TInv, Revocations
<1>5. ASSUME \A d \in Checks \ {c} : check'[d] = check[d],
             check' \in [Checks -> CheckState],
             check'[c].gen <= tgen[check'[c].pod],
             (/\ check'[c].pc = "store" /\ check'[c].verdict = "active"
              /\ Knows(check'[c].pod, check'[c].token)) => check'[c].gen # tgen[check'[c].pod],
             cache' \in [Pods -> [Tokens -> Verdicts]], Cached'
      PROVE  TInv'
  <2>1. Lookups'
    BY <1>3, <1>5 DEF TInv, Lookups, Knows
  <2>2. TokenTypeOK'
    BY <1>0, <1>3, <1>5 DEF TokenTypeOK
  <2> QED
    BY <1>2, <1>4, <1>5, <2>1, <2>2 DEF TInv
<1>6. cache' = cache => cache' \in [Pods -> [Tokens -> Verdicts]] /\ Cached'
  BY <1>0, <1>3 DEF TInv, Cached, Knows, TokenTypeOK
<1>7. ASSUME NEW p \in Pods, NEW t \in Tokens, MissToken(c, p, t) PROVE TInv'
  <2>1. check' = [check EXCEPT ![c] = [pc |-> "query", pod |-> p, token |-> t,
                                       gen |-> tgen[p], verdict |-> "none"]]
    BY <1>7 DEF MissToken
  <2>2. check' \in [Checks -> CheckState]
    BY <1>0, <2>1 DEF TokenTypeOK, CheckState, Verdicts
  <2>3. /\ \A d \in Checks \ {c} : check'[d] = check[d]
        /\ check'[c].pc = "query" /\ check'[c].gen = tgen[check'[c].pod]
        /\ check'[c].pod = p
    BY <1>0, <2>1 DEF TokenTypeOK
  <2>4. cache' = cache
    BY <1>7 DEF MissToken
  <2> QED
    BY <1>0, <1>5, <1>6, <2>2, <2>3, <2>4
<1>8. CASE QueryToken(c) \/ QueryFails(c)
  <2>1. PICK verdict \in {"active", "inactive"} :
           /\ check' = [check EXCEPT ![c].pc = "store", ![c].verdict = verdict]
           /\ verdict = "active" => revoked[check[c].token] = 0
    BY <1>8 DEF QueryToken, QueryFails
  <2>2. check'[c] = [check[c] EXCEPT !.pc = "store", !.verdict = verdict]
    BY <1>0, <2>1 DEF TokenTypeOK
  <2>3. /\ \A d \in Checks \ {c} : check'[d] = check[d]
        /\ check'[c].gen = check[c].gen /\ check'[c].pod = check[c].pod
        /\ check'[c].token = check[c].token /\ check'[c].verdict = verdict
    BY <1>0, <2>1, <2>2 DEF TokenTypeOK, CheckState
  <2>4. check' \in [Checks -> CheckState]
    BY <1>0, <2>1, <2>2 DEF TokenTypeOK, CheckState, Verdicts
  <2>5. cache' = cache
    BY <1>8 DEF QueryToken, QueryFails
  <2>6. check[c].gen <= tgen[check[c].pod]
    BY DEF TInv, Lookups
  <2> QED
    BY <1>5, <1>6, <2>1, <2>3, <2>4, <2>5, <2>6 DEF Knows
<1>9. CASE SetIfGeneration(c)
  <2> DEFINE p == check[c].pod
             t == check[c].token
  <2>1. /\ check[c].pc = "store" /\ check' = [check EXCEPT ![c] = CheckIdle]
        /\ cache' = IF tgen[p] = check[c].gen
                    THEN [cache EXCEPT ![p][t] = check[c].verdict] ELSE cache
    BY <1>9 DEF SetIfGeneration, StoreVerdict
  <2>2. /\ check' \in [Checks -> CheckState]
        /\ \A d \in Checks \ {c} : check'[d] = check[d]
        /\ check'[c] = CheckIdle
    BY <1>0, <2>1, TokenIdleTypes DEF TokenTypeOK
  <2>3. CheckIdle.gen = 0 /\ CheckIdle.pc = "idle" /\ CheckIdle.pod \in Pods
    BY TokenIdleTypes DEF CheckIdle
  <2>4. cache' \in [Pods -> [Tokens -> Verdicts]]
    BY <1>0, <2>1 DEF TokenTypeOK
  <2>5. Cached'
    <3> SUFFICES ASSUME NEW q \in Pods, NEW u \in Tokens, Knows(q, u)'
                 PROVE  cache'[q][u] # "active"
      BY DEF Cached
    <3>1. Knows(q, u) /\ cache[q][u] # "active"
      BY <1>3 DEF Knows, TInv, Cached
    <3>2. CASE q = p /\ u = t /\ tgen[p] = check[c].gen
      <4>1. check[c].verdict # "active"
        BY <1>0, <2>1, <3>1, <3>2 DEF TInv, Lookups
      <4> QED
        BY <1>0, <2>1, <3>2, <4>1 DEF TokenTypeOK
    <3>3. CASE ~(q = p /\ u = t /\ tgen[p] = check[c].gen)
      <4>1. cache'[q][u] = cache[q][u]
        BY <1>0, <2>1, <3>3 DEF TokenTypeOK
      <4> QED
        BY <3>1, <4>1
    <3> QED
      BY <3>2, <3>3
  <2> QED
    BY <1>0, <1>5, <2>2, <2>3, <2>4, <2>5
<1> QED
  BY <1>7, <1>8, <1>9

\* A new revocation is news to every pod: no pod has cleared at its version.
LEMMA CommitRevocationKeeps ==
    ASSUME TInv, NEW ts \in SUBSET Tokens, CommitRevocation(ts),
           revoking' \in [Revokers -> [pod : Pods, todo : SUBSET Tokens]],
           \A v \in Revokers : revoking'[v].todo \subseteq revoking[v].todo \cup ts
    PROVE  TInv'
<1>0. /\ IInv /\ TokenTypeOK /\ TypeOK
      /\ version \in Nat /\ version < MaxVersion
      /\ version' = version + 1
      /\ UNCHANGED <<db, reg, gen, up, lastVersion, sync, synced, req, faults>>
      /\ UNCHANGED <<cache, tgen, check, cleared, told>>
  BY PartTypes DEF TInv, IInv, CommitRevocation, podVars, syncVars
<1>1. IInv'
  <2>1. TypeOK'
    BY <1>0, BoundsAreNat DEF TypeOK
  <2>2. Stamps'
    BY <1>0, PartTypes DEF IInv, Stamps
  <2>3. Copies' /\ Served'
    BY <1>0 DEF IInv, Copies, Served, AtLeast
  <2>4. Loads'
    BY <1>0, PartTypes DEF IInv, Loads, LoadedRow, LoadedTables, RowCovered, TablesCovered, AtLeast
  <2>5. Seen'
    BY <1>0, PartTypes DEF IInv, Seen, RowCovered, TablesCovered
  <2> QED
    BY <2>1, <2>2, <2>3, <2>4, <2>5 DEF IInv
<1>2. /\ \A t \in ts : revoked[t] = 0 /\ revoked'[t] = version + 1
      /\ \A t \in Tokens \ ts : revoked'[t] = revoked[t]
      /\ revoked' \in [Tokens -> Nat]
  BY <1>0 DEF CommitRevocation, TokenTypeOK
<1>3. TokenTypeOK'
  BY <1>0, <1>2 DEF TokenTypeOK
<1>4. ASSUME NEW p \in Pods, NEW t \in Tokens, Knows(p, t)' PROVE Knows(p, t)
  <2>1. cleared[p] \in Nat /\ cleared[p] <= version /\ (t \in told[p] => revoked[t] # 0)
    BY <1>0 DEF TInv, Revocations, TokenTypeOK
  <2>2. t \notin ts
    BY <1>0, <1>2, <1>4, <2>1 DEF Knows
  <2> QED
    BY <1>0, <1>2, <1>4, <2>2 DEF Knows
<1>5. Revocations'
  <2>1. \A t \in Tokens : revoked[t] \in Nat /\ revoked[t] <= version
    BY <1>0 DEF TInv, Revocations, TokenTypeOK
  <2>2. \A t \in Tokens : revoked'[t] <= version' /\ (revoked[t] # 0 => revoked'[t] # 0)
    BY <1>0, <1>2, <2>1
  <2>3. \A p \in Pods : cleared'[p] <= version' /\ told'[p] \subseteq Tokens
    BY <1>0 DEF TInv, Revocations, TokenTypeOK
  <2>4. \A v \in Revokers : revoking[v].todo \subseteq Tokens
    BY <1>0 DEF TokenTypeOK
  <2>5. \A v \in Revokers : \A t \in revoking'[v].todo : revoked'[t] # 0
    BY <1>0, <1>2, <2>2, <2>4 DEF TInv, Revocations
  <2>6. \A p \in Pods : \A t \in told'[p] : revoked'[t] # 0
    BY <1>0, <2>2, <2>3 DEF TInv, Revocations
  <2> QED
    BY <2>2, <2>3, <2>5, <2>6 DEF Revocations
<1>6. Lookups' /\ Cached'
  <2>1. \A c \in Checks : check[c].pod \in Pods /\ check[c].token \in Tokens
    BY <1>0 DEF TokenTypeOK, CheckState
  <2> QED
    BY <1>0, <1>4, <2>1 DEF TInv, Lookups, Cached
<1> QED
  BY <1>1, <1>3, <1>5, <1>6 DEF TInv

\* Emptying entries of one pod's cache and moving its generation ends every
\* lookup in flight on that pod.
LEMMA FlushKeeps ==
    ASSUME TInv, IInv', TokenTypeOK', Revocations', NEW p \in Pods,
           UNCHANGED <<revoked, check>>, tgen'[p] = tgen[p] + 1,
           \A q \in Pods \ {p} : /\ tgen'[q] = tgen[q] /\ cleared'[q] = cleared[q]
                                 /\ told'[q] = told[q] /\ cache'[q] = cache[q],
           \A t \in Tokens : /\ cache'[p][t] \in {cache[p][t], "none"}
                             /\ Knows(p, t)' => Knows(p, t) \/ cache'[p][t] = "none"
    PROVE  TInv'
<1>1. \A q \in Pods : tgen[q] \in Nat
  BY DEF TInv, TokenTypeOK
<1>2. \A q \in Pods \ {p}, t \in Tokens : Knows(q, t)' => Knows(q, t)
  BY DEF Knows
<1>3. Cached'
  BY <1>2 DEF TInv, Cached
<1>4. Lookups'
  <2> SUFFICES ASSUME NEW c \in Checks
               PROVE  /\ check[c].gen <= tgen'[check[c].pod]
                      /\ (/\ check[c].pc = "store" /\ check[c].verdict = "active"
                          /\ Knows(check[c].pod, check[c].token)')
                         => check[c].gen # tgen'[check[c].pod]
    BY DEF Lookups
  <2>1. /\ check[c].pod \in Pods /\ check[c].token \in Tokens /\ check[c].gen \in Nat
        /\ check[c].gen <= tgen[check[c].pod]
    BY DEF TInv, TokenTypeOK, CheckState, Lookups
  <2>2. CASE check[c].pod = p
    BY <1>1, <2>1, <2>2
  <2>3. CASE check[c].pod # p
    BY <1>2, <2>1, <2>3 DEF TInv, Lookups
  <2> QED
    BY <2>2, <2>3
<1> QED
  BY <1>3, <1>4 DEF TInv

\* Invalidation empties the entry and outdates the lookups of that pod.
LEMMA InvalidateKeeps ==
    ASSUME TInv, NEW v \in Revokers, NEW t \in Tokens, Invalidate(v, t)
    PROVE  TInv'
<1> SUFFICES ASSUME NEW p \in Pods, p = revoking[v].pod
             PROVE  TInv'
  BY DEF TInv, TokenTypeOK
<1>0. /\ IInv /\ TokenTypeOK /\ tgen[p] \in Nat
      /\ revoking[v] \in [pod : Pods, todo : SUBSET Tokens]
  BY DEF TInv, TokenTypeOK
<1>1. /\ UNCHANGED <<dbVars, podVars, syncVars, req, faults, version, revoked, check, cleared>>
      /\ t \in revoking[v].todo
      /\ cache' = [cache EXCEPT ![p][t] = "none"]
      /\ tgen' = [tgen EXCEPT ![p] = @ + 1]
      /\ revoking' = [revoking EXCEPT ![v].todo = @ \ {t}]
      /\ told' = [told EXCEPT ![p] = @ \cup {t}]
  BY DEF Invalidate, vars, dbVars, podVars, syncVars
<1>2. IInv' /\ version' = version
  BY <1>0, <1>1, RegistryStays DEF IInv, TypeOK
<1>3. TokenTypeOK'
  <2>1. cache' \in [Pods -> [Tokens -> Verdicts]]
    BY <1>0, <1>1 DEF TokenTypeOK, Verdicts
  <2>2. tgen' \in [Pods -> Nat] /\ told' \in [Pods -> SUBSET Tokens]
    BY <1>0, <1>1 DEF TokenTypeOK
  <2>3. revoking' \in [Revokers -> [pod : Pods, todo : SUBSET Tokens]]
    BY <1>0, <1>1 DEF TokenTypeOK
  <2> QED
    BY <1>0, <1>1, <2>1, <2>2, <2>3 DEF TokenTypeOK
<1>4. Revocations'
  <2>1. /\ told'[p] = told[p] \cup {t} /\ \A q \in Pods \ {p} : told'[q] = told[q]
        /\ revoking'[v].todo = revoking[v].todo \ {t}
        /\ \A w \in Revokers \ {v} : revoking'[w] = revoking[w]
    BY <1>0, <1>1 DEF TokenTypeOK
  <2>2. revoked[t] # 0
    BY <1>1 DEF TInv, Revocations
  <2> QED
    BY <1>1, <1>2, <2>1, <2>2 DEF TInv, Revocations
<1>5. /\ tgen'[p] = tgen[p] + 1
      /\ \A q \in Pods \ {p} : /\ tgen'[q] = tgen[q] /\ cleared'[q] = cleared[q]
                               /\ told'[q] = told[q] /\ cache'[q] = cache[q]
      /\ told'[p] = told[p] \cup {t} /\ cleared'[p] = cleared[p]
      /\ cache'[p][t] = "none" /\ \A u \in Tokens \ {t} : cache'[p][u] = cache[p][u]
  BY <1>0, <1>1 DEF TokenTypeOK
<1>6. \A u \in Tokens : /\ cache'[p][u] \in {cache[p][u], "none"}
                        /\ Knows(p, u)' => Knows(p, u) \/ cache'[p][u] = "none"
  <2> SUFFICES ASSUME NEW u \in Tokens
               PROVE  /\ cache'[p][u] \in {cache[p][u], "none"}
                      /\ Knows(p, u)' => Knows(p, u) \/ cache'[p][u] = "none"
    OBVIOUS
  <2>1. CASE u = t
    BY <1>5, <2>1
  <2>2. CASE u # t
    <3>1. cache'[p][u] = cache[p][u] /\ (u \in told'[p] => u \in told[p])
      BY <1>5, <2>2
    <3> QED
      BY <1>1, <1>5, <3>1 DEF Knows
  <2> QED
    BY <2>1, <2>2
<1>7. UNCHANGED <<revoked, check>>
  BY <1>1
<1> QED
  BY <1>2, <1>3, <1>4, <1>5, <1>6, <1>7, FlushKeeps

\* A sync whose hooks run was at a version that was committed.
LEMMA ClearKeeps ==
    ASSUME TInv, NEW p \in Pods, ClearOnChange(p)
    PROVE  TInv'
<1>0. /\ IInv /\ TokenTypeOK /\ tgen[p] \in Nat
      /\ sync[p].version \in Nat /\ sync[p].version <= version
  BY PartTypes DEF TInv, TokenTypeOK, IInv, Loads
<1>1. /\ RunHooks(p)
      /\ cache' = [cache EXCEPT ![p] = NoVerdicts]
      /\ tgen' = [tgen EXCEPT ![p] = tgen[p] + 1]
      /\ cleared' = [cleared EXCEPT ![p] = sync[p].version]
      /\ UNCHANGED <<revoked, check, revoking, told>>
  BY DEF ClearOnChange, Clear, ClearTo
<1>2. IInv' /\ version' = version
  BY <1>0, <1>1, PodKeeps DEF RunHooks, dbVars
<1>3. TokenTypeOK'
  BY <1>0, <1>1, TokenIdleTypes DEF TokenTypeOK
<1>4. /\ tgen'[p] = tgen[p] + 1 /\ cleared'[p] = sync[p].version /\ cache'[p] = NoVerdicts
      /\ \A q \in Pods \ {p} : /\ tgen'[q] = tgen[q] /\ cleared'[q] = cleared[q]
                               /\ told'[q] = told[q] /\ cache'[q] = cache[q]
  BY <1>0, <1>1 DEF TokenTypeOK
<1>5. Revocations'
  BY <1>0, <1>1, <1>2, <1>4 DEF TInv, Revocations
<1>6. \A t \in Tokens : cache'[p][t] = "none"
  BY <1>4 DEF NoVerdicts
<1> QED
  BY <1>1, <1>2, <1>3, <1>4, <1>5, <1>6, FlushKeeps

\* What dies with a pod cannot be stored any more.
LEMMA CrashKeeps ==
    ASSUME TInv, NEW p \in Pods, CrashWithCache(p)
    PROVE  TInv'
<1>0. /\ IInv /\ TokenTypeOK
      /\ \A c \in Checks : check[c] \in CheckState
      /\ \A v \in Revokers : revoking[v] \in [pod : Pods, todo : SUBSET Tokens]
  BY DEF TInv, TokenTypeOK
<1>1. /\ Crash(p)
      /\ cache' = [cache EXCEPT ![p] = NoVerdicts]
      /\ tgen' = [tgen EXCEPT ![p] = 0]
      /\ check' = [c \in Checks |-> IF check[c].pod = p THEN CheckIdle ELSE check[c]]
      /\ revoking' = [v \in Revokers |-> IF revoking[v].pod = p THEN RevokeIdle ELSE revoking[v]]
      /\ UNCHANGED <<revoked, cleared, told>>
  BY DEF CrashWithCache
<1>2. IInv' /\ version' = version
  BY <1>0, <1>1, PodKeeps DEF Crash, dbVars
<1>3. TokenTypeOK'
  <2>1. /\ cache' \in [Pods -> [Tokens -> Verdicts]] /\ tgen' \in [Pods -> Nat]
    BY <1>0, <1>1, TokenIdleTypes DEF TokenTypeOK
  <2>2. check' \in [Checks -> CheckState]
    BY <1>0, <1>1, TokenIdleTypes
  <2>3. revoking' \in [Revokers -> [pod : Pods, todo : SUBSET Tokens]]
    BY <1>0, <1>1, TokenIdleTypes
  <2> QED
    BY <1>0, <1>1, <2>1, <2>2, <2>3 DEF TokenTypeOK
<1>4. Revocations'
  <2>1. \A v \in Revokers : revoking'[v].todo \subseteq revoking[v].todo
    BY <1>1 DEF RevokeIdle
  <2> QED
    BY <1>1, <1>2, <2>1 DEF TInv, Revocations
<1>5. Cached'
  <2>1. \A t \in Tokens : cache'[p][t] = "none"
    BY <1>0, <1>1 DEF TokenTypeOK, NoVerdicts
  <2>2. \A q \in Pods \ {p} : cache'[q] = cache[q]
    BY <1>0, <1>1 DEF TokenTypeOK
  <2> QED
    BY <1>1, <2>1, <2>2 DEF TInv, Cached, Knows
<1>6. Lookups'
  <2> SUFFICES ASSUME NEW c \in Checks
               PROVE  /\ check'[c].gen <= tgen'[check'[c].pod]
                      /\ (/\ check'[c].pc = "store" /\ check'[c].verdict = "active"
                          /\ Knows(check[c].pod, check[c].token)')
                         => check'[c].gen # tgen'[check'[c].pod]
    BY DEF Lookups, Knows
  <2>1. CASE check[c].pod = p
    <3>1. check'[c].gen = 0 /\ check'[c].pc = "idle" /\ check'[c].pod \in Pods
      BY <1>1, <2>1, TokenIdleTypes DEF CheckIdle
    <3>2. tgen'[check'[c].pod] \in Nat
      BY <1>3, <3>1 DEF TokenTypeOK
    <3> QED
      BY <3>1, <3>2
  <2>2. CASE check[c].pod # p
    <3>1. check'[c] = check[c] /\ tgen'[check[c].pod] = tgen[check[c].pod]
      BY <1>0, <1>1, <2>2 DEF TokenTypeOK, CheckState
    <3> QED
      BY <1>1, <3>1 DEF TInv, Lookups, Knows
  <2> QED
    BY <2>1, <2>2
<1> QED
  BY <1>2, <1>3, <1>4, <1>5, <1>6 DEF TInv

\* The TTL only empties entries.
LEMMA ExpireKeeps ==
    ASSUME TInv, NEW p \in Pods, NEW t \in Tokens, Expire(p, t)
    PROVE  TInv'
<1>0. IInv /\ TokenTypeOK
  BY DEF TInv
<1>1. /\ UNCHANGED <<dbVars, podVars, syncVars, req, faults>>
      /\ UNCHANGED <<revoked, tgen, check, revoking, cleared, told>>
      /\ cache' = [cache EXCEPT ![p][t] = "none"]
  BY DEF Expire, vars, dbVars, podVars, syncVars
<1>2. IInv' /\ version' = version
  BY <1>0, <1>1, RegistryStays DEF IInv, TypeOK
<1>3. TokenTypeOK' /\ Revocations' /\ Lookups'
  BY <1>0, <1>1, <1>2 DEF TInv, TokenTypeOK, Verdicts, Revocations, Lookups, Knows
<1>4. Cached'
  BY <1>0, <1>1 DEF TInv, Cached, Knows, TokenTypeOK
<1> QED
  BY <1>2, <1>3, <1>4 DEF TInv

\* Every step of the token model keeps the invariant.
LEMMA TStepKeeps == TInv /\ [TNext]_tvars => TInv'
<1> SUFFICES ASSUME TInv, [TNext]_tvars PROVE TInv'
  OBVIOUS
<1>1. CASE UNCHANGED tvars
  <2>1. UNCHANGED <<dbVars, podVars, syncVars, req, faults, version>> /\ UNCHANGED tokenVars
    BY <1>1 DEF tvars, vars, dbVars, podVars, syncVars
  <2>2. IInv'
    BY <2>1, RegistryStays DEF TInv, IInv, TypeOK
  <2>3. version \in Nat
    BY PartTypes DEF TInv, IInv
  <2> QED
    BY <2>1, <2>2, <2>3, RegistryTokens
<1>2. CASE RegistryStep
  BY <1>2, RegistryStepKeeps
<1>3. ASSUME NEW ts \in SUBSET Tokens, RevokeElsewhere(ts) PROVE TInv'
  BY <1>3, CommitRevocationKeeps DEF RevokeElsewhere, TInv, TokenTypeOK
<1>4. ASSUME NEW v \in Revokers, NEW p \in Pods, NEW ts \in SUBSET Tokens, Revoke(v, p, ts)
      PROVE  TInv'
  <2>1. revoking \in [Revokers -> [pod : Pods, todo : SUBSET Tokens]]
    BY DEF TInv, TokenTypeOK
  <2>2. CommitRevocation(ts) /\ revoking' = [revoking EXCEPT ![v] = [pod |-> p, todo |-> ts]]
    BY <1>4 DEF Revoke
  <2>3. revoking' \in [Revokers -> [pod : Pods, todo : SUBSET Tokens]]
    BY <2>1, <2>2
  <2>4. \A w \in Revokers : revoking'[w].todo \subseteq revoking[w].todo \cup ts
    BY <2>1, <2>2
  <2> QED
    BY <2>2, <2>3, <2>4, CommitRevocationKeeps
<1>5. CASE TokenStep
  BY <1>3, <1>4, <1>5, LookupKeeps, ExpireKeeps, InvalidateKeeps DEF TokenStep
<1>6. CASE \E p \in Pods : ClearOnChange(p) \/ CrashWithCache(p)
  BY <1>6, ClearKeeps, CrashKeeps
<1> QED
  BY <1>1, <1>2, <1>5, <1>6 DEF TNext

\* The types of the token model.
THEOREM TokenTypeCorrect == TSpec => []TokenTypeOK
BY TInitInv, TStepKeeps, PTL DEF TSpec, TInv

\* No interleaving of lookups, revocations, syncs and crashes lets a pod that
\* has to know of a revocation answer "active" from its cache.
THEOREM RevokedTokenStaysGone == TSpec => []RevokedTokenGone
<1>1. TInv => RevokedTokenGone
  <2> SUFFICES ASSUME TInv, NEW p \in Pods, NEW t \in Tokens,
                      cache[p][t] = "active", revoked[t] # 0
               PROVE  cleared[p] < revoked[t] /\ t \notin told[p]
    BY DEF RevokedTokenGone
  <2>1. cleared[p] \in Nat /\ revoked[t] \in Nat
    BY DEF TInv, TokenTypeOK
  <2> QED
    BY <2>1 DEF TInv, Cached, Knows
<1> QED
  BY <1>1, TInitInv, TStepKeeps, PTL DEF TSpec
=============================================================================
