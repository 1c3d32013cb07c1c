--------------------------- MODULE RegistrySync ---------------------------
(***************************************************************************)
(* The replicas of the server and the database they share.  Every pod      *)
(* serves from an in-memory registry (apps with their tables, and the      *)
(* system configuration).  A dashboard request commits its change to the   *)
(* database and then publishes the result to the registry of the pod that  *)
(* served it; every other pod learns of it from its syncer, which polls    *)
(* the shared state version and reloads the registry when it moved.        *)
(*                                                                         *)
(* The content of an app is abstracted to two stamps: the state version at *)
(* which its row, and its set of tables, last changed.  Two contents are   *)
(* the same exactly when their stamps are.                                 *)
(***************************************************************************)
EXTENDS Integers

CONSTANTS Pods,        \* server replicas
          Apps,        \* app names
          System,      \* stands for the single system_config row
          Requests,    \* dashboard requests that can be in flight at once
          MaxVersion,  \* bound: commits that move the state version
          MaxFaults    \* bound: crashes, failed queries and abandoned requests

ASSUME PodsExist == Pods # {}
ASSUME SystemIsNoApp == System \notin Apps
ASSUME BoundsAreNat == MaxVersion \in Nat /\ MaxFaults \in Nat

VARIABLES
    version,      \* zeep_system.state_version
    db,           \* committed content of every object
    reg,          \* Registry.apps and Registry.sysCfg of each pod
    gen,          \* Registry.gen of each pod
    up,           \* the boot sync succeeded: the pod takes requests
    lastVersion,  \* Syncer.lastVersion of each pod
    sync,         \* the sync in flight on each pod (singleflight: at most one)
    req,          \* dashboard requests
    faults,       \* faults that may still happen
    synced        \* history: gen when lastVersion was last assigned

dbVars == <<version, db>>
podVars == <<reg, gen, up>>
syncVars == <<lastVersion, sync, synced>>
vars == <<version, db, reg, gen, up, lastVersion, sync, req, faults, synced>>

-----------------------------------------------------------------------------
Objects == Apps \cup {System}
Content == [live : BOOLEAN, row : Nat, tables : Nat]
Unknown == -1
Missing == [live |-> FALSE, row |-> 0, tables |-> 0]
EmptyRegistry == [o \in Objects |-> Missing]

SyncIdle == [pc |-> "idle", version |-> 0, gen |-> 0, snap |-> EmptyRegistry, todo |-> {}]
SyncState == [pc : {"idle", "version", "list", "load", "hooks"}, version : Nat, gen : Nat,
              snap : [Objects -> Content], todo : SUBSET Objects]

ReqIdle == [pc |-> "idle", pod |-> CHOOSE p \in Pods : TRUE, obj |-> System, copy |-> Missing]
ReqState == [pc : {"idle", "existing", "saved", "reread", "rereadTables", "publish"},
             pod : Pods, obj : Objects, copy : Content]

\* c holds every change d holds.
AtLeast(c, d) == c.row >= d.row /\ c.tables >= d.tables

\* Every pod has finished its boot; the boot itself is what follows a Crash.
Init ==
    /\ version = 0
    /\ \E existing \in SUBSET Apps :
          db = [o \in Objects |-> [Missing EXCEPT !.live = o \in existing \cup {System}]]
    /\ reg = [p \in Pods |-> db]
    /\ gen = [p \in Pods |-> 0]
    /\ up = [p \in Pods |-> TRUE]
    /\ lastVersion = [p \in Pods |-> 0]
    /\ sync = [p \in Pods |-> SyncIdle]
    /\ req = [r \in Requests |-> ReqIdle]
    /\ faults = MaxFaults
    /\ synced = [p \in Pods |-> 0]

-----------------------------------------------------------------------------
(* The database: a trigger moves the state version in the transaction of   *)
(* the change itself.                                                      *)

Commit(o, content) ==
    /\ version < MaxVersion
    /\ version' = version + 1
    /\ db' = [db EXCEPT ![o] = content]

Stamped(o, parts) ==
    [live |-> TRUE,
     row |-> IF "row" \in parts THEN version + 1 ELSE db[o].row,
     tables |-> IF "tables" \in parts THEN version + 1 ELSE db[o].tables]

-----------------------------------------------------------------------------
(* Dashboard requests: commit, then publish on the pod that served them.   *)

Begin(r, p, o, pc, copy) ==
    /\ req[r].pc = "idle"
    /\ up[p]
    /\ req' = [req EXCEPT ![r] = [pc |-> pc, pod |-> p, obj |-> o, copy |-> copy]]

\* The inserted row is the request's copy; an app name is created once (bound).
CreateApp(r, p, a) ==
    /\ db[a] = Missing
    /\ Commit(a, Stamped(a, {"row", "tables"}))
    /\ Begin(r, p, a, "saved", db'[a])
    /\ UNCHANGED <<podVars, syncVars, faults>>

\* UpdateApp reads the app first and keeps the tables of that read.
ReadExisting(r, p, a) ==
    /\ db[a].live
    /\ Begin(r, p, a, "existing", db[a])
    /\ UNCHANGED <<dbVars, podVars, syncVars, faults>>

\* UPDATE ... RETURNING refreshes the row of the request's copy.
SaveSettings(r) ==
    LET o == req[r].obj IN
    /\ req[r].pc = "existing"
    /\ db[o].live
    /\ Commit(o, Stamped(o, {"row"}))
    /\ req' = [req EXCEPT ![r].pc = "saved", ![r].copy.row = version + 1]
    /\ UNCHANGED <<podVars, syncVars, faults>>

\* The providers, storage and rate-limit updates that may follow return
\* nothing: the copy carries them, and not what others changed in between.
SaveMoreSettings(r) ==
    LET o == req[r].obj IN
    /\ req[r].pc = "saved"
    /\ db[o].live
    /\ Commit(o, Stamped(o, {"row"}))
    /\ req' = [req EXCEPT ![r].copy.row = IF @ = db[o].row THEN version + 1 ELSE @]
    /\ UNCHANGED <<podVars, syncVars, faults>>

\* Every table operation persists its metadata and then reads the app back;
\* so do the auth-provider update and the secret rotation, which change the row.
SaveThenReread(r, p, a, part) ==
    /\ db[a].live
    /\ Commit(a, Stamped(a, {part}))
    /\ Begin(r, p, a, "reread", Missing)
    /\ UNCHANGED <<podVars, syncVars, faults>>

RereadRow(r) ==
    /\ req[r].pc = "reread"
    /\ db[req[r].obj].live
    /\ req' = [req EXCEPT ![r].pc = "rereadTables",
                          ![r].copy = [db[req[r].obj] EXCEPT !.tables = 0]]
    /\ UNCHANGED <<dbVars, podVars, syncVars, faults>>

RereadTables(r) ==
    /\ req[r].pc = "rereadTables"
    /\ req' = [req EXCEPT ![r].pc = "publish",
                          ![r].copy.tables = db[req[r].obj].tables]
    /\ UNCHANGED <<dbVars, podVars, syncVars, faults>>

\* The app was deleted under the request: nothing is published.
AppGone(r) ==
    /\ req[r].pc \in {"existing", "reread"}
    /\ ~db[req[r].obj].live
    /\ req' = [req EXCEPT ![r] = ReqIdle]
    /\ UNCHANGED <<dbVars, podVars, syncVars, faults>>

DeleteApp(r, p, a) ==
    /\ db[a].live
    /\ Commit(a, [Stamped(a, {"row", "tables"}) EXCEPT !.live = FALSE])
    /\ Begin(r, p, a, "publish", db'[a])
    /\ UNCHANGED <<podVars, syncVars, faults>>

UpdateSystemConfig(r, p) ==
    /\ Commit(System, Stamped(System, {"row"}))
    /\ Begin(r, p, System, "publish", db'[System])
    /\ UNCHANGED <<podVars, syncVars, faults>>

\* Register, Unregister (a copy that is not live) and SetSystemConfig.
Publish(r) ==
    LET p == req[r].pod IN
    /\ req[r].pc \in {"saved", "publish"}
    /\ reg' = [reg EXCEPT ![p][req[r].obj] = req[r].copy]
    /\ gen' = [gen EXCEPT ![p] = @ + 1]
    /\ req' = [req EXCEPT ![r] = ReqIdle]
    /\ UNCHANGED <<dbVars, up, syncVars, faults>>

\* A later step of the handler fails: the commit stays, nothing is published.
GiveUp(r) ==
    /\ req[r].pc # "idle"
    /\ faults > 0
    /\ faults' = faults - 1
    /\ req' = [req EXCEPT ![r] = ReqIdle]
    /\ UNCHANGED <<dbVars, podVars, syncVars>>

\* A commit served by a replica outside Pods, or a row changed by a migration:
\* the pods of the model only see the version move.
ChangeElsewhere(o) ==
    /\ db[o].live
    /\ \E live \in BOOLEAN, parts \in SUBSET {"row", "tables"} :
          /\ parts # {}
          /\ ~live => o # System /\ parts = {"row", "tables"}
          /\ "tables" \in parts => o # System
          /\ Commit(o, [Stamped(o, parts) EXCEPT !.live = live])
    /\ UNCHANGED <<podVars, syncVars, req, faults>>

-----------------------------------------------------------------------------
(* The syncer of a pod: started by its ticker, by a registry miss or by    *)
(* the boot; singleflight lets one run at a time.                          *)

StartSync(p, wanted, v) ==
    /\ sync[p].pc = "idle"
    /\ wanted
    /\ sync' = [sync EXCEPT ![p].pc = "version", ![p].version = v]
    /\ UNCHANGED <<dbVars, podVars, lastVersion, synced, req, faults>>

\* Mutants: the sentinel is taken for the version; a sync only at boot.
TakeLastVersion(p) == StartSync(p, version # lastVersion[p], lastVersion[p])
ReadVersionAtBoot(p) == StartSync(p, version # lastVersion[p] /\ ~up[p], version)

\* An unchanged version ends the sync at once: no step.
ReadVersion(p) == StartSync(p, version # lastVersion[p], version)

TakeGeneration(p) ==
    /\ sync[p].pc = "version"
    /\ sync' = [sync EXCEPT ![p].pc = "list", ![p].gen = gen[p]]
    /\ UNCHANGED <<dbVars, podVars, lastVersion, synced, req, faults>>

\* One query returns every app row; the tables of each come one by one.
ListApps(p) ==
    /\ sync[p].pc = "list"
    /\ sync' = [sync EXCEPT
         ![p].pc = "load",
         ![p].snap = [o \in Objects |->
                        IF o \in Apps /\ db[o].live THEN [db[o] EXCEPT !.tables = 0]
                        ELSE IF o \in Apps THEN db[o] ELSE Missing],
         ![p].todo = {a \in Apps : db[a].live} \cup {System}]
    /\ UNCHANGED <<dbVars, podVars, lastVersion, synced, req, faults>>

LoadTables(p, a) ==
    /\ sync[p].pc = "load"
    /\ a \in sync[p].todo
    /\ sync' = [sync EXCEPT ![p].snap[a].tables = db[a].tables,
                            ![p].todo = @ \ {a}]
    /\ UNCHANGED <<dbVars, podVars, lastVersion, synced, req, faults>>

LoadSystemConfig(p) ==
    /\ sync[p].pc = "load"
    /\ sync[p].todo = {System}
    /\ sync' = [sync EXCEPT ![p].snap[System] = db[System], ![p].todo = {}]
    /\ UNCHANGED <<dbVars, podVars, lastVersion, synced, req, faults>>

Loaded(p) == sync[p].pc = "load" /\ sync[p].todo = {}

Replace(p, v) ==
    /\ reg' = [reg EXCEPT ![p] = sync[p].snap]
    /\ lastVersion' = [lastVersion EXCEPT ![p] = v]
    /\ synced' = [synced EXCEPT ![p] = gen[p]]
    /\ sync' = [sync EXCEPT ![p] = [SyncIdle EXCEPT !.pc = "hooks", !.version = sync[p].version]]
    /\ UNCHANGED <<dbVars, gen, up, req, faults>>

\* Mutants: the version as it is after the load; generations not compared.
ReplaceAtCurrentVersion(p) == Loaded(p) /\ gen[p] = sync[p].gen /\ Replace(p, version)
ReplaceAlways(p) == Loaded(p) /\ Replace(p, sync[p].version)

ReplaceIfGeneration(p) ==
    Loaded(p) /\ gen[p] = sync[p].gen /\ Replace(p, sync[p].version)

DropSnapshot(p, v) ==
    /\ Loaded(p)
    /\ gen[p] # sync[p].gen
    /\ lastVersion' = [lastVersion EXCEPT ![p] = v]
    /\ synced' = [synced EXCEPT ![p] = gen[p]]
    /\ sync' = [sync EXCEPT ![p] = SyncIdle]
    /\ UNCHANGED <<dbVars, podVars, req, faults>>

\* Mutant: the version of the dropped snapshot is remembered as loaded.
RefuseButRemember(p) == DropSnapshot(p, sync[p].version)

\* A local write landed during the load: the snapshot is dropped.
RefuseSnapshot(p) == DropSnapshot(p, Unknown)

\* The OnChange hooks; the first successful sync ends the boot.
RunHooks(p) ==
    /\ sync[p].pc = "hooks"
    /\ sync' = [sync EXCEPT ![p] = SyncIdle]
    /\ up' = [up EXCEPT ![p] = TRUE]
    /\ UNCHANGED <<dbVars, reg, gen, lastVersion, synced, req, faults>>

\* A failed or timed-out query: the registry keeps its last good state.
SyncError(p) ==
    /\ sync[p].pc \in {"idle", "list", "load"}
    /\ sync[p].pc = "load" => sync[p].todo # {}
    /\ faults > 0
    /\ faults' = faults - 1
    /\ lastVersion' = [lastVersion EXCEPT ![p] = Unknown]
    /\ synced' = [synced EXCEPT ![p] = gen[p]]
    /\ sync' = [sync EXCEPT ![p] = SyncIdle]
    /\ UNCHANGED <<dbVars, podVars, req>>

\* The process dies with its requests and boots again with nothing.
Crash(p) ==
    /\ faults > 0
    /\ faults' = faults - 1
    /\ reg' = [reg EXCEPT ![p] = EmptyRegistry]
    /\ gen' = [gen EXCEPT ![p] = 0]
    /\ up' = [up EXCEPT ![p] = FALSE]
    /\ lastVersion' = [lastVersion EXCEPT ![p] = Unknown]
    /\ synced' = [synced EXCEPT ![p] = 0]
    /\ sync' = [sync EXCEPT ![p] = SyncIdle]
    /\ req' = [r \in Requests |-> IF req[r].pod = p THEN ReqIdle ELSE req[r]]
    /\ UNCHANGED dbVars

-----------------------------------------------------------------------------
Finish(r) == SaveSettings(r) \/ RereadRow(r) \/ RereadTables(r) \/ AppGone(r) \/ Publish(r)

RequestStep(r) ==
    \/ \E p \in Pods, a \in Apps :
          \/ CreateApp(r, p, a)
          \/ ReadExisting(r, p, a)
          \/ \E part \in {"row", "tables"} : SaveThenReread(r, p, a, part)
          \/ DeleteApp(r, p, a)
    \/ \E p \in Pods : UpdateSystemConfig(r, p)
    \/ Finish(r)
    \/ SaveMoreSettings(r)
    \/ GiveUp(r)

\* Everything a sync does up to its hooks, short of failing.
Load(p) ==
    \/ ReadVersion(p)
    \/ TakeGeneration(p)
    \/ ListApps(p)
    \/ \E a \in Apps : LoadTables(p, a)
    \/ LoadSystemConfig(p)
    \/ ReplaceIfGeneration(p)
    \/ RefuseSnapshot(p)

Next ==
    \/ \E r \in Requests : RequestStep(r)
    \/ \E o \in Objects : ChangeElsewhere(o)
    \/ \E p \in Pods : Load(p) \/ RunHooks(p) \/ SyncError(p) \/ Crash(p)

\* Run ticks until shutdown, a sync that began ends (SyncTimeout), a handler
\* that began returns.  New requests, faults and later saves are not owed.
Fairness ==
    /\ \A p \in Pods : WF_vars(Load(p)) /\ WF_vars(RunHooks(p))
    /\ \A r \in Requests : WF_vars(Finish(r))

Spec == Init /\ [][Next]_vars
FairSpec == Spec /\ Fairness

-----------------------------------------------------------------------------
TypeOK ==
    /\ version \in 0..MaxVersion
    /\ db \in [Objects -> Content]
    /\ reg \in [Pods -> [Objects -> Content]]
    /\ gen \in [Pods -> Nat]
    /\ up \in [Pods -> BOOLEAN]
    /\ lastVersion \in [Pods -> Nat \cup {Unknown}]
    /\ sync \in [Pods -> SyncState]
    /\ req \in [Requests -> ReqState]
    /\ faults \in 0..MaxFaults
    /\ synced \in [Pods -> Nat]

\* A pod that says it is at the current state version, and has published
\* nothing itself since it said so, holds exactly what the database holds:
\* the skip of an unchanged version (Syncer.sync) can then lose nothing.
CaughtUp ==
    \A p \in Pods :
        (lastVersion[p] = version /\ gen[p] = synced[p]) => reg[p] = db

\* A sync never takes back what the pod already serves: apart from a restart,
\* a registry only moves backwards by a publication of the pod's own handlers
\* (Registry.ReplaceIfGeneration).
SyncNeverRollsBack ==
    [][\A p \in Pods :
         (gen'[p] = gen[p] /\ lastVersion'[p] # Unknown) =>
            \A o \in Objects : AtLeast(reg'[p][o], reg[p][o])]_vars

\* Once commits stop, every pod reaches the current state version, whatever
\* faults and local writes came before (Syncer.Run).
EveryPodReachesTheVersion == <>[](\A p \in Pods : up[p] /\ lastVersion[p] = version)

\* Once commits stop, every pod ends with the content of the database.
EveryPodConverges == <>[](\A p \in Pods : reg[p] = db)

\* What the replicas promise, as a specification of its own.
Promise == INSTANCE ReplicaView WITH seen <- lastVersion
KeepsPromise == Promise!Spec
=============================================================================
