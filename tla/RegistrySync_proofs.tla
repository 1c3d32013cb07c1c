------------------------ MODULE RegistrySync_proofs ------------------------
(***************************************************************************)
(* Theorems about RegistrySync, for every set of pods, apps and requests   *)
(* and every bound.  The inductive invariant IInv says what the stamps of  *)
(* a request's copy, of a registry, of a snapshot being loaded and of the  *)
(* database have to do with each other.                                    *)
(***************************************************************************)
EXTENDS RegistrySync, TLAPS

RowCovered(c, o, v) == db[o].row <= v => c.row = db[o].row /\ c.live = db[o].live
TablesCovered(c, o, v) == db[o].tables <= v => c.tables = db[o].tables

\* No stamp is ahead of the state version.
Stamps == \A o \in Objects : db[o].row <= version /\ db[o].tables <= version

\* What a request may publish, and what a pod serves, was committed.
Copies == \A r \in Requests : AtLeast(db[req[r].obj], req[r].copy)
Served == \A p \in Pods, o \in Objects : AtLeast(db[o], reg[p][o])

\* What a load has read covers the version it started from, and, while no
\* local write intervenes, is at least what the pod serves.
LoadedRow(p, o) ==
    /\ RowCovered(sync[p].snap[o], o, sync[p].version)
    /\ gen[p] = sync[p].gen => sync[p].snap[o].row >= reg[p][o].row
LoadedTables(p, o) ==
    /\ TablesCovered(sync[p].snap[o], o, sync[p].version)
    /\ gen[p] = sync[p].gen => sync[p].snap[o].tables >= reg[p][o].tables
Loads ==
    \A p \in Pods :
        /\ sync[p].version <= version
        /\ sync[p].gen <= gen[p]
        /\ sync[p].pc = "load" =>
              \A o \in Objects :
                 /\ AtLeast(db[o], sync[p].snap[o])
                 /\ (o \in Apps \/ o \notin sync[p].todo) => LoadedRow(p, o)
                 /\ o \notin sync[p].todo => LoadedTables(p, o)

\* A registry covers the version its pod says it has seen, until the pod
\* publishes something itself.
Seen ==
    \A p \in Pods :
        /\ lastVersion[p] <= version
        /\ synced[p] <= gen[p]
        /\ gen[p] = synced[p] =>
              \A o \in Objects : /\ RowCovered(reg[p][o], o, lastVersion[p])
                                 /\ TablesCovered(reg[p][o], o, lastVersion[p])

IInv == TypeOK /\ Stamps /\ Copies /\ Served /\ Loads /\ Seen

-----------------------------------------------------------------------------
\* The idle values are states of their types.
LEMMA IdleTypes ==
    /\ System \in Objects
    /\ Missing \in Content
    /\ EmptyRegistry \in [Objects -> Content]
    /\ SyncIdle \in SyncState
    /\ ReqIdle \in ReqState
<1>1. Missing \in Content
  BY DEF Missing, Content
<1>2. (CHOOSE p \in Pods : TRUE) \in Pods
  BY PodsExist
<1>3. System \in Objects
  BY DEF Objects
<1>4. EmptyRegistry \in [Objects -> Content]
  BY <1>1 DEF EmptyRegistry
<1>5. SyncIdle \in SyncState
  BY <1>4 DEF SyncIdle, SyncState
<1>6. ReqIdle \in ReqState
  BY <1>1, <1>2, <1>3 DEF ReqIdle, ReqState
<1> QED
  BY <1>1, <1>3, <1>4, <1>5, <1>6

\* The content a commit leaves has its parts stamped with the new version.
LEMMA StampedType ==
    ASSUME TypeOK, NEW o \in Objects, NEW parts
    PROVE  /\ Stamped(o, parts) \in Content
           /\ [Stamped(o, parts) EXCEPT !.live = FALSE] \in Content
           /\ [Stamped(o, parts) EXCEPT !.live = TRUE] \in Content
<1>1. version + 1 \in Nat /\ db[o] \in Content
  BY BoundsAreNat DEF TypeOK
<1>2. db[o].row \in Nat /\ db[o].tables \in Nat
  BY <1>1 DEF Content
<1>3. Stamped(o, parts) \in Content
  BY <1>1, <1>2 DEF Stamped, Content
<1> QED
  BY <1>3 DEF Content

\* The initial state satisfies the type invariant.
LEMMA InitType == Init => TypeOK
<1> SUFFICES ASSUME Init PROVE TypeOK
  OBVIOUS
<1>1. PICK existing \in SUBSET Apps :
         db = [o \in Objects |-> [Missing EXCEPT !.live = o \in existing \cup {System}]]
  BY DEF Init
<1>2. \A b \in BOOLEAN : [Missing EXCEPT !.live = b] \in Content
  BY DEF Missing, Content
<1>3. db \in [Objects -> Content]
  <2>1. \A o \in Objects : (o \in existing \cup {System}) \in BOOLEAN
    OBVIOUS
  <2>2. \A o \in Objects : [Missing EXCEPT !.live = o \in existing \cup {System}] \in Content
    BY <1>2, <2>1
  <2> QED
    BY <1>1, <2>2
<1>4. 0 \in 0..MaxVersion /\ MaxFaults \in 0..MaxFaults
  BY BoundsAreNat
<1> QED
  BY <1>3, <1>4, IdleTypes DEF Init, TypeOK

\* A commit keeps the types of the database.
LEMMA CommitType ==
    ASSUME TypeOK, NEW o \in Objects, NEW c \in Content, Commit(o, c)
    PROVE  version' \in 0..MaxVersion /\ db' \in [Objects -> Content]
BY BoundsAreNat DEF TypeOK, Commit

\* A request that begins is a well-typed request.
LEMMA BeginType ==
    ASSUME TypeOK, NEW r \in Requests, NEW p \in Pods, NEW o \in Objects,
           NEW pc \in {"existing", "saved", "reread", "publish"}, NEW c \in Content,
           Begin(r, p, o, pc, c)
    PROVE  req' \in [Requests -> ReqState]
BY DEF TypeOK, Begin, ReqState

\* Every step of a request keeps the type invariant.
LEMMA RequestType ==
    ASSUME TypeOK, NEW r \in Requests, RequestStep(r)
    PROVE  TypeOK'
<1> USE DEF podVars, syncVars, dbVars
<1>0. /\ Apps \subseteq Objects /\ System \in Objects
      /\ req[r] \in ReqState
  BY DEF Objects, TypeOK
<1>1. ASSUME NEW p \in Pods, NEW a \in Apps, CreateApp(r, p, a)
      PROVE  TypeOK'
  <2>1. db' \in [Objects -> Content] /\ version' \in 0..MaxVersion
    BY <1>0, <1>1, CommitType, StampedType DEF CreateApp
  <2>2. db'[a] \in Content
    BY <1>0, <2>1
  <2> QED
    BY <1>0, <1>1, <2>1, <2>2, BeginType DEF CreateApp, TypeOK
<1>2. ASSUME NEW p \in Pods, NEW a \in Apps, ReadExisting(r, p, a)
      PROVE  TypeOK'
  <2>1. db[a] \in Content
    BY <1>0 DEF TypeOK
  <2> QED
    BY <1>0, <1>2, <2>1, BeginType DEF ReadExisting, TypeOK
<1>3. ASSUME NEW p \in Pods, NEW a \in Apps, NEW part, SaveThenReread(r, p, a, part)
      PROVE  TypeOK'
  <2>1. db' \in [Objects -> Content] /\ version' \in 0..MaxVersion
    BY <1>0, <1>3, CommitType, StampedType DEF SaveThenReread
  <2> QED
    BY <1>0, <1>3, <2>1, BeginType, IdleTypes DEF SaveThenReread, TypeOK
<1>4. ASSUME NEW p \in Pods, NEW a \in Apps, DeleteApp(r, p, a)
      PROVE  TypeOK'
  <2>1. db' \in [Objects -> Content] /\ version' \in 0..MaxVersion
    BY <1>0, <1>4, CommitType, StampedType DEF DeleteApp
  <2>2. db'[a] \in Content
    BY <1>0, <2>1
  <2> QED
    BY <1>0, <1>4, <2>1, <2>2, BeginType DEF DeleteApp, TypeOK
<1>5. ASSUME NEW p \in Pods, UpdateSystemConfig(r, p)
      PROVE  TypeOK'
  <2>1. db' \in [Objects -> Content] /\ version' \in 0..MaxVersion
    BY <1>0, <1>5, CommitType, StampedType DEF UpdateSystemConfig
  <2>2. db'[System] \in Content
    BY <1>0, <2>1
  <2> QED
    BY <1>0, <1>5, <2>1, <2>2, BeginType DEF UpdateSystemConfig, TypeOK
<1>6. ASSUME SaveSettings(r) \/ SaveMoreSettings(r)
      PROVE  TypeOK'
  <2>1. req[r].obj \in Objects
    BY <1>0 DEF ReqState
  <2>2. db' \in [Objects -> Content] /\ version' \in 0..MaxVersion
    BY <1>6, <2>1, CommitType, StampedType DEF SaveSettings, SaveMoreSettings
  <2>3. version + 1 \in Nat
    BY BoundsAreNat DEF TypeOK
  <2>4. [req[r] EXCEPT !.pc = "saved", !.copy.row = version + 1] \in ReqState
    BY <1>0, <2>3 DEF ReqState, Content
  <2>5. ASSUME NEW n \in Nat PROVE [req[r] EXCEPT !.copy.row = n] \in ReqState
    BY <1>0 DEF ReqState, Content
  <2>6. req[r].copy.row \in Nat
    BY <1>0 DEF ReqState, Content
  <2>7. CASE SaveSettings(r)
    BY <2>2, <2>4, <2>7 DEF SaveSettings, TypeOK
  <2>8. CASE SaveMoreSettings(r)
    <3>1. req' = [req EXCEPT ![r] = [req[r] EXCEPT !.copy.row =
                    IF req[r].copy.row = db[req[r].obj].row THEN version + 1 ELSE req[r].copy.row]]
      BY <2>8 DEF SaveMoreSettings
    <3>2. req' \in [Requests -> ReqState]
      BY <2>3, <2>5, <2>6, <3>1 DEF TypeOK
    <3> QED
      BY <2>2, <2>8, <3>2 DEF SaveMoreSettings, TypeOK
  <2> QED
    BY <1>6, <2>7, <2>8
<1>7. ASSUME RereadRow(r) \/ RereadTables(r)
      PROVE  TypeOK'
  <2>1. db[req[r].obj] \in Content
    BY <1>0 DEF ReqState, TypeOK
  <2>2. /\ [db[req[r].obj] EXCEPT !.tables = 0] \in Content
        /\ db[req[r].obj].tables \in Nat
    BY <2>1 DEF Content
  <2>3. [req[r] EXCEPT !.pc = "rereadTables",
                       !.copy = [db[req[r].obj] EXCEPT !.tables = 0]] \in ReqState
    BY <1>0, <2>2 DEF ReqState
  <2>4. [req[r] EXCEPT !.pc = "publish", !.copy.tables = db[req[r].obj].tables] \in ReqState
    BY <1>0, <2>2 DEF ReqState, Content
  <2>5. CASE RereadRow(r)
    BY <2>3, <2>5 DEF RereadRow, TypeOK
  <2>6. CASE RereadTables(r)
    BY <2>4, <2>6 DEF RereadTables, TypeOK
  <2> QED
    BY <1>7, <2>5, <2>6
<1>8. ASSUME AppGone(r) \/ GiveUp(r)
      PROVE  TypeOK'
  BY <1>8, IdleTypes, BoundsAreNat DEF AppGone, GiveUp, TypeOK
<1>9. ASSUME Publish(r)
      PROVE  TypeOK'
  <2>1. req[r].pod \in Pods /\ req[r].obj \in Objects /\ req[r].copy \in Content
    BY <1>0 DEF ReqState
  <2> QED
    BY <1>9, <2>1, IdleTypes DEF Publish, TypeOK
<1> QED
  BY <1>1, <1>2, <1>3, <1>4, <1>5, <1>6, <1>7, <1>8, <1>9 DEF RequestStep, Finish

\* Every step of a syncer, and a crash, keeps the type invariant.
LEMMA PodType ==
    ASSUME TypeOK, NEW p \in Pods, Load(p) \/ RunHooks(p) \/ SyncError(p) \/ Crash(p)
    PROVE  TypeOK'
<1> USE DEF podVars, syncVars, dbVars
<1>0. /\ Apps \subseteq Objects /\ System \in Objects
      /\ sync[p] \in SyncState
  BY DEF Objects, TypeOK
<1>1. ASSUME ReadVersion(p) \/ TakeGeneration(p)
      PROVE  TypeOK'
  <2>1. [sync[p] EXCEPT !.pc = "version", !.version = version] \in SyncState
    <3>1. version \in Nat
      BY BoundsAreNat DEF TypeOK
    <3> QED
      BY <1>0, <3>1 DEF SyncState
  <2>2. [sync[p] EXCEPT !.pc = "list", !.gen = gen[p]] \in SyncState
    BY <1>0 DEF SyncState, TypeOK
  <2> QED
    BY <1>1, <2>1, <2>2 DEF ReadVersion, StartSync, TakeGeneration, TypeOK
<1>2. ASSUME ListApps(p)
      PROVE  TypeOK'
  <2>1. \A o \in Objects : [db[o] EXCEPT !.tables = 0] \in Content /\ db[o] \in Content
    BY DEF TypeOK, Content
  <2>2. [o \in Objects |-> IF o \in Apps /\ db[o].live THEN [db[o] EXCEPT !.tables = 0]
                           ELSE IF o \in Apps THEN db[o] ELSE Missing]
           \in [Objects -> Content]
    BY <2>1, IdleTypes
  <2>3. {a \in Apps : db[a].live} \cup {System} \in SUBSET Objects
    BY <1>0
  <2>4. sync'[p] \in SyncState
    BY <1>0, <1>2, <2>2, <2>3 DEF ListApps, TypeOK, SyncState
  <2> QED
    BY <1>2, <2>4 DEF ListApps, TypeOK
<1>3. ASSUME NEW a \in Apps, LoadTables(p, a)
      PROVE  TypeOK'
  <2>1. /\ sync[p].snap \in [Objects -> Content] /\ a \in Objects
        /\ db[a].tables \in Nat
    BY <1>0 DEF SyncState, TypeOK, Content
  <2>2. [sync[p].snap EXCEPT ![a].tables = db[a].tables] \in [Objects -> Content]
    BY <2>1 DEF Content
  <2>3. sync'[p] \in SyncState
    BY <1>0, <1>3, <2>2 DEF LoadTables, TypeOK, SyncState
  <2> QED
    BY <1>3, <2>3 DEF LoadTables, TypeOK
<1>4. ASSUME LoadSystemConfig(p)
      PROVE  TypeOK'
  <2>1. sync'[p] \in SyncState
    BY <1>0, <1>4 DEF LoadSystemConfig, TypeOK, SyncState
  <2> QED
    BY <1>4, <2>1 DEF LoadSystemConfig, TypeOK
<1>5. ASSUME ReplaceIfGeneration(p)
      PROVE  TypeOK'
  <2>1. [SyncIdle EXCEPT !.pc = "hooks", !.version = sync[p].version] \in SyncState
    BY <1>0, IdleTypes DEF SyncState
  <2>2. sync[p].snap \in [Objects -> Content] /\ sync[p].version \in Nat
    BY <1>0 DEF SyncState
  <2> QED
    BY <1>5, <2>1, <2>2 DEF ReplaceIfGeneration, Replace, TypeOK
<1>6. ASSUME RefuseSnapshot(p) \/ SyncError(p)
      PROVE  TypeOK'
  <2>1. Unknown \in Nat \cup {Unknown}
    OBVIOUS
  <2>2. CASE RefuseSnapshot(p)
    BY <2>1, <2>2, IdleTypes DEF RefuseSnapshot, DropSnapshot, TypeOK
  <2>3. CASE SyncError(p)
    BY <2>1, <2>3, IdleTypes, BoundsAreNat DEF SyncError, TypeOK
  <2> QED
    BY <1>6, <2>2, <2>3
<1>7. ASSUME RunHooks(p)
      PROVE  TypeOK'
  BY <1>7, IdleTypes DEF RunHooks, TypeOK
<1>8. ASSUME Crash(p)
      PROVE  TypeOK'
  BY <1>8, IdleTypes, BoundsAreNat DEF Crash, TypeOK
<1> QED
  BY <1>1, <1>2, <1>3, <1>4, <1>5, <1>6, <1>7, <1>8 DEF Load

\* A change elsewhere keeps the type invariant.
LEMMA ElsewhereType ==
    ASSUME TypeOK, NEW o \in Objects, ChangeElsewhere(o)
    PROVE  TypeOK'
<1>1. PICK live \in BOOLEAN, parts \in SUBSET {"row", "tables"} :
         Commit(o, [Stamped(o, parts) EXCEPT !.live = live])
  BY DEF ChangeElsewhere
<1>2. [Stamped(o, parts) EXCEPT !.live = live] \in Content
  BY StampedType
<1>3. db' \in [Objects -> Content] /\ version' \in 0..MaxVersion
  BY <1>1, <1>2, CommitType
<1> QED
  BY <1>3 DEF ChangeElsewhere, podVars, syncVars, TypeOK

\* The variables keep their types in every behaviour.
THEOREM TypeCorrect == Spec => []TypeOK
<1>1. TypeOK /\ [Next]_vars => TypeOK'
  <2> SUFFICES ASSUME TypeOK, [Next]_vars PROVE TypeOK'
    OBVIOUS
  <2>1. CASE UNCHANGED vars
    BY <2>1 DEF vars, TypeOK
  <2> QED
    BY <2>1, RequestType, PodType, ElsewhereType DEF Next
<1> QED
  BY <1>1, InitType, PTL DEF Spec

-----------------------------------------------------------------------------
\* The types of the parts the invariant speaks of, for one pod and object.
LEMMA PartTypes ==
    ASSUME TypeOK
    PROVE  /\ version \in Nat /\ version + 1 \in Nat
           /\ \A o \in Objects : db[o] \in Content /\ db[o].row \in Nat /\ db[o].tables \in Nat
           /\ \A p \in Pods : /\ gen[p] \in Nat /\ synced[p] \in Nat
                              /\ lastVersion[p] \in Int
                              /\ sync[p].version \in Nat /\ sync[p].gen \in Nat
                              /\ sync[p] \in SyncState
           /\ \A p \in Pods, o \in Objects :
                 /\ reg[p][o] \in Content
                 /\ reg[p][o].row \in Nat /\ reg[p][o].tables \in Nat
                 /\ sync[p].snap[o] \in Content
                 /\ sync[p].snap[o].row \in Nat /\ sync[p].snap[o].tables \in Nat
           /\ \A r \in Requests : /\ req[r] \in ReqState
                                  /\ req[r].obj \in Objects /\ req[r].pod \in Pods
                                  /\ req[r].copy \in Content
                                  /\ req[r].copy.row \in Nat /\ req[r].copy.tables \in Nat
<1>1. version \in Nat /\ version + 1 \in Nat
  BY BoundsAreNat DEF TypeOK
<1>2. ASSUME NEW o \in Objects
      PROVE  db[o] \in Content /\ db[o].row \in Nat /\ db[o].tables \in Nat
  BY DEF TypeOK, Content
<1>3. ASSUME NEW p \in Pods
      PROVE  /\ gen[p] \in Nat /\ synced[p] \in Nat
             /\ lastVersion[p] \in Int
             /\ sync[p] \in SyncState
             /\ sync[p].version \in Nat /\ sync[p].gen \in Nat
             /\ sync[p].snap \in [Objects -> Content]
  <2>1. sync[p] \in SyncState /\ lastVersion[p] \in Nat \cup {Unknown}
    BY DEF TypeOK
  <2> QED
    BY <2>1 DEF TypeOK, SyncState, Unknown
<1>4. ASSUME NEW p \in Pods, NEW o \in Objects
      PROVE  /\ reg[p][o] \in Content
             /\ reg[p][o].row \in Nat /\ reg[p][o].tables \in Nat
             /\ sync[p].snap[o] \in Content
             /\ sync[p].snap[o].row \in Nat /\ sync[p].snap[o].tables \in Nat
  <2>1. reg[p][o] \in Content /\ sync[p].snap[o] \in Content
    BY <1>3 DEF TypeOK
  <2> QED
    BY <2>1 DEF Content
<1>5. ASSUME NEW r \in Requests
      PROVE  /\ req[r] \in ReqState
             /\ req[r].obj \in Objects /\ req[r].pod \in Pods
             /\ req[r].copy \in Content
             /\ req[r].copy.row \in Nat /\ req[r].copy.tables \in Nat
  BY DEF TypeOK, ReqState, Content
<1> QED
  BY <1>1, <1>2, <1>3, <1>4, <1>5

\* A stamped content differs from what it replaces only in parts stamped with
\* the next version.
Stamping(o, c) ==
    /\ c \in Content
    /\ c.row = version + 1 \/ (c.row = db[o].row /\ c.live = db[o].live)
    /\ c.tables = version + 1 \/ c.tables = db[o].tables

\* A commit only adds stamps of the next version, which no pod has seen: all
\* that is said of registries and snapshots still holds of the new database.
LEMMA CommitKeeps ==
    ASSUME IInv, NEW o \in Objects, NEW c, Stamping(o, c), Commit(o, c),
           UNCHANGED <<podVars, syncVars>>
    PROVE  /\ \A n \in Objects : AtLeast(db'[n], db[n])
           /\ Stamps' /\ Served' /\ Loads' /\ Seen'
<1> USE DEF IInv
<1>1. /\ version' = version + 1
      /\ \A n \in Objects : db'[n] = IF n = o THEN c ELSE db[n]
  BY DEF Commit, TypeOK
<1>2. /\ UNCHANGED <<reg, gen, lastVersion, sync, synced>>
  BY DEF podVars, syncVars
<1>3. c.row \in Nat /\ c.tables \in Nat
  BY DEF Stamping, Content
<1>4. \A n \in Objects : AtLeast(db'[n], db[n])
  BY <1>1, <1>3, PartTypes DEF AtLeast, Stamping, Stamps
<1>5. Stamps'
  BY <1>1, <1>3, PartTypes DEF Stamping, Stamps
<1>6. \A n \in Objects, d \in Content : AtLeast(db[n], d) => AtLeast(db'[n], d)
  <2> SUFFICES ASSUME NEW n \in Objects, NEW d \in Content, AtLeast(db[n], d)
               PROVE  AtLeast(db'[n], d)
    OBVIOUS
  <2>1. d.row \in Nat /\ d.tables \in Nat
    BY DEF Content
  <2>2. db'[n].row \in Nat /\ db'[n].tables \in Nat
    BY <1>1, <1>3, PartTypes
  <2> QED
    BY <1>4, <2>1, <2>2, PartTypes DEF AtLeast
<1>7. Served'
  BY <1>2, <1>6, PartTypes DEF Served
<1>8. ASSUME NEW n \in Objects, NEW d, NEW v \in Int, v <= version
      PROVE  /\ RowCovered(d, n, v) => (db'[n].row <= v => d.row = db'[n].row /\ d.live = db'[n].live)
             /\ TablesCovered(d, n, v) => (db'[n].tables <= v => d.tables = db'[n].tables)
  BY <1>1, <1>3, <1>8, PartTypes DEF RowCovered, TablesCovered, Stamping
<1>9. Loads'
  <2> SUFFICES ASSUME NEW p \in Pods
               PROVE  /\ sync[p].version <= version'
                      /\ sync[p].gen <= gen[p]
                      /\ sync[p].pc = "load" =>
                            \A n \in Objects :
                               /\ AtLeast(db'[n], sync[p].snap[n])
                               /\ (n \in Apps \/ n \notin sync[p].todo) => LoadedRow(p, n)'
                               /\ n \notin sync[p].todo => LoadedTables(p, n)'
    BY <1>2 DEF Loads
  <2>1. sync[p].version <= version /\ sync[p].gen <= gen[p] /\ sync[p].version \in Int
    BY PartTypes DEF Loads
  <2>2. sync[p].version <= version'
    BY <1>1, <2>1, PartTypes
  <2>3. ASSUME NEW n \in Objects
        PROVE  /\ LoadedRow(p, n) => LoadedRow(p, n)'
               /\ LoadedTables(p, n) => LoadedTables(p, n)'
    BY <1>2, <1>8, <2>1 DEF LoadedRow, LoadedTables, RowCovered, TablesCovered
  <2> QED
    BY <1>6, <2>1, <2>2, <2>3, PartTypes DEF Loads
<1>10. Seen'
  <2> SUFFICES ASSUME NEW p \in Pods
               PROVE  /\ lastVersion[p] <= version'
                      /\ synced[p] <= gen[p]
                      /\ gen[p] = synced[p] =>
                            \A n \in Objects :
                               /\ RowCovered(reg[p][n], n, lastVersion[p])'
                               /\ TablesCovered(reg[p][n], n, lastVersion[p])'
    BY <1>2 DEF Seen
  <2>1. lastVersion[p] <= version /\ synced[p] <= gen[p] /\ lastVersion[p] \in Int
    BY PartTypes DEF Seen
  <2>2. lastVersion[p] <= version'
    BY <1>1, <2>1, PartTypes
  <2> QED
    BY <1>2, <1>8, <2>1, <2>2 DEF Seen, RowCovered, TablesCovered
<1> QED
  BY <1>4, <1>5, <1>7, <1>9, <1>10

\* What Stamped builds differs only in its stamped parts.
LEMMA StampedIsStamping ==
    ASSUME TypeOK, NEW o \in Objects, NEW parts,
           "row" \in parts \/ db[o].live
    PROVE  /\ Stamping(o, Stamped(o, parts))
           /\ Stamping(o, [Stamped(o, parts) EXCEPT !.live = TRUE])
           /\ "row" \in parts => Stamping(o, [Stamped(o, parts) EXCEPT !.live = FALSE])
<1>1. db[o] \in Content
  BY DEF TypeOK
<1>2. db[o].live \in BOOLEAN
  BY <1>1 DEF Content
<1> QED
  BY <1>2, StampedType DEF Stamping, Stamped

\* Copies of requests stay committed when the database gains stamps.
LEMMA CopiesGrow ==
    ASSUME IInv, TypeOK', NEW r \in Requests,
           \A n \in Objects : AtLeast(db'[n], db[n]),
           \A q \in Requests \ {r} : req'[q] = req[q],
           AtLeast(db'[req'[r].obj], req'[r].copy)
    PROVE  Copies'
<1> SUFFICES ASSUME NEW q \in Requests, q # r
             PROVE  AtLeast(db'[req'[q].obj], req'[q].copy)
  BY DEF Copies, AtLeast
<1>1. req'[q] = req[q]
  OBVIOUS
<1>2. req[q].obj \in Objects /\ req[q].copy.row \in Nat /\ req[q].copy.tables \in Nat
  BY PartTypes DEF IInv
<1>3. db'[req[q].obj].row \in Nat /\ db'[req[q].obj].tables \in Nat
  BY <1>2 DEF TypeOK, Content
<1>4. AtLeast(db[req[q].obj], req[q].copy) /\ AtLeast(db'[req[q].obj], db[req[q].obj])
  BY <1>2 DEF IInv, Copies
<1> QED
  BY <1>1, <1>2, <1>3, <1>4, PartTypes DEF IInv, AtLeast

\* A step that leaves database, registries and syncers alone keeps what is
\* said of them.
LEMMA RestStays ==
    ASSUME IInv, UNCHANGED <<version, db, reg, gen, lastVersion, sync, synced>>
    PROVE  /\ Stamps' /\ Served' /\ Loads' /\ Seen'
           /\ \A n \in Objects : AtLeast(db'[n], db[n])
<1>1. \A n \in Objects : AtLeast(db[n], db[n])
  BY PartTypes DEF IInv, AtLeast
<1> QED
  BY <1>1 DEF IInv, Stamps, Served, Loads, Seen, LoadedRow, LoadedTables, RowCovered,
              TablesCovered, AtLeast

\* Every step of a request keeps the invariant.
LEMMA RequestKeeps ==
    ASSUME IInv, NEW r \in Requests, RequestStep(r)
    PROVE  IInv'
<1> USE DEF podVars, syncVars, dbVars
<1>0. /\ TypeOK' /\ Apps \subseteq Objects /\ System \in Objects
      /\ req[r] \in ReqState /\ req[r].obj \in Objects
      /\ TypeOK
  BY RequestType, PartTypes DEF Objects, IInv
<1>e. \A n \in Objects : db'[n] \in Content /\ db'[n].row \in Nat /\ db'[n].tables \in Nat
  BY <1>0 DEF TypeOK, Content
<1>1. ASSUME NEW p \in Pods, NEW o \in Objects, NEW c, NEW pc,
             Stamping(o, c), Commit(o, c), Begin(r, p, o, pc, db'[o]) \/ Begin(r, p, o, pc, Missing),
             UNCHANGED <<podVars, syncVars>>
      PROVE  IInv'
  <2>1. req'[r].obj = o /\ req'[r].copy \in {db'[o], Missing}
    BY <1>0, <1>1 DEF Begin, TypeOK
  <2>2. AtLeast(db'[req'[r].obj], req'[r].copy)
    BY <1>e, <2>1 DEF AtLeast, Missing
  <2>3. \A q \in Requests \ {r} : req'[q] = req[q]
    BY <1>0, <1>1 DEF Begin, TypeOK
  <2>4. /\ Stamps' /\ Served' /\ Loads' /\ Seen'
        /\ \A n \in Objects : AtLeast(db'[n], db[n])
    BY <1>1, CommitKeeps
  <2> QED
    BY <1>0, <2>2, <2>3, <2>4, CopiesGrow DEF IInv
<1>2. ASSUME NEW p \in Pods, NEW a \in Apps, CreateApp(r, p, a)
      PROVE  IInv'
  <2>1. Stamping(a, Stamped(a, {"row", "tables"}))
    BY <1>0, StampedIsStamping
  <2> QED
    BY <1>0, <1>1, <1>2, <2>1 DEF CreateApp
<1>3. ASSUME NEW p \in Pods, NEW a \in Apps, NEW part, SaveThenReread(r, p, a, part)
      PROVE  IInv'
  <2>1. Stamping(a, Stamped(a, {part}))
    BY <1>0, <1>3, StampedIsStamping DEF SaveThenReread
  <2> QED
    BY <1>0, <1>1, <1>3, <2>1 DEF SaveThenReread
<1>4. ASSUME NEW p \in Pods, NEW a \in Apps, DeleteApp(r, p, a)
      PROVE  IInv'
  <2>1. Stamping(a, [Stamped(a, {"row", "tables"}) EXCEPT !.live = FALSE])
    BY <1>0, StampedIsStamping
  <2> QED
    BY <1>0, <1>1, <1>4, <2>1 DEF DeleteApp
<1>5. ASSUME NEW p \in Pods, UpdateSystemConfig(r, p)
      PROVE  IInv'
  <2>1. Stamping(System, Stamped(System, {"row"}))
    BY <1>0, StampedIsStamping
  <2> QED
    BY <1>0, <1>1, <1>5, <2>1 DEF UpdateSystemConfig
<1>6. ASSUME SaveSettings(r) \/ SaveMoreSettings(r)
      PROVE  IInv'
  <2> DEFINE o == req[r].obj
  <2>1. Stamping(o, Stamped(o, {"row"})) /\ Commit(o, Stamped(o, {"row"}))
    BY <1>0, <1>6, StampedIsStamping DEF SaveSettings, SaveMoreSettings
  <2>2. /\ Stamps' /\ Served' /\ Loads' /\ Seen'
        /\ \A n \in Objects : AtLeast(db'[n], db[n])
    BY <1>0, <1>6, <2>1, CommitKeeps DEF SaveSettings, SaveMoreSettings
  <2>3. db'[o].row = version + 1 /\ db'[o].tables = db[o].tables
    BY <1>0, <2>1 DEF Commit, TypeOK, Stamped
  <2>4. /\ req'[r].obj = o
        /\ req'[r].copy.tables = req[r].copy.tables
        /\ req'[r].copy.row \in {version + 1, req[r].copy.row}
    BY <1>0, <1>6 DEF SaveSettings, SaveMoreSettings, TypeOK, ReqState, Content
  <2>5. AtLeast(db[o], req[r].copy) /\ db[o].row <= version
    BY <1>0 DEF IInv, Copies, Stamps
  <2>6. AtLeast(db'[req'[r].obj], req'[r].copy)
    BY <1>0, <2>3, <2>4, <2>5, PartTypes DEF AtLeast
  <2>7. \A q \in Requests \ {r} : req'[q] = req[q]
    BY <1>0, <1>6 DEF SaveSettings, SaveMoreSettings, TypeOK
  <2> QED
    BY <1>0, <2>2, <2>6, <2>7, CopiesGrow DEF IInv
<1>7. ASSUME UNCHANGED <<version, db, reg, gen, lastVersion, sync, synced>>,
             \A q \in Requests \ {r} : req'[q] = req[q],
             AtLeast(db[req'[r].obj], req'[r].copy)
      PROVE  IInv'
  BY <1>0, <1>7, CopiesGrow, RestStays DEF IInv
<1>8. ASSUME NEW p \in Pods, NEW a \in Apps, ReadExisting(r, p, a)
      PROVE  IInv'
  <2>1. /\ \A q \in Requests \ {r} : req'[q] = req[q]
        /\ req'[r].obj = a /\ req'[r].copy = db[a]
    BY <1>0, <1>8 DEF ReadExisting, Begin, TypeOK
  <2>2. AtLeast(db[a], db[a])
    BY <1>0, PartTypes DEF AtLeast
  <2> QED
    BY <1>7, <1>8, <2>1, <2>2 DEF ReadExisting
<1>9. ASSUME RereadRow(r) \/ RereadTables(r)
      PROVE  IInv'
  <2> DEFINE o == req[r].obj
  <2>1. /\ \A q \in Requests \ {r} : req'[q] = req[q]
        /\ req'[r].obj = o
        /\ \/ req'[r].copy.row = db[o].row /\ req'[r].copy.tables = 0
           \/ req'[r].copy.row = req[r].copy.row /\ req'[r].copy.tables = db[o].tables
    <3>1. db[o] \in Content
      BY <1>0, PartTypes
    <3> QED
      BY <1>0, <1>9, <3>1 DEF RereadRow, RereadTables, TypeOK, ReqState, Content
  <2>2. AtLeast(db[o], req[r].copy)
    BY <1>0 DEF IInv, Copies
  <2>3. AtLeast(db[req'[r].obj], req'[r].copy)
    BY <1>0, <2>1, <2>2, PartTypes DEF AtLeast
  <2> QED
    BY <1>7, <1>9, <2>1, <2>3 DEF RereadRow, RereadTables
<1>10. ASSUME AppGone(r) \/ GiveUp(r)
       PROVE  IInv'
  <2>1. /\ \A q \in Requests \ {r} : req'[q] = req[q]
        /\ req'[r] = ReqIdle
    BY <1>0, <1>10 DEF AppGone, GiveUp, TypeOK
  <2>2. AtLeast(db[req'[r].obj], req'[r].copy)
    BY <1>0, <2>1, PartTypes DEF ReqIdle, Missing, AtLeast
  <2> QED
    BY <1>7, <1>10, <2>1, <2>2 DEF AppGone, GiveUp
<1>11. ASSUME Publish(r)
       PROVE  IInv'
  <2> DEFINE p == req[r].pod
             o == req[r].obj
  <2>0. p \in Pods /\ req[r].copy \in Content
    BY <1>0, PartTypes
  <2>1. /\ UNCHANGED <<version, db, lastVersion, sync, synced>>
        /\ \A q \in Pods : gen'[q] = IF q = p THEN gen[q] + 1 ELSE gen[q]
        /\ \A q \in Pods, n \in Objects :
              reg'[q][n] = IF q = p /\ n = o THEN req[r].copy ELSE reg[q][n]
        /\ \A q \in Requests : req'[q] = IF q = r THEN ReqIdle ELSE req[q]
    BY <1>0, <1>11, <2>0 DEF Publish, TypeOK
  <2>2. Stamps' /\ Served'
    BY <1>0, <2>1 DEF IInv, Stamps, Served, Copies, AtLeast
  <2>3. Copies'
    <3>1. AtLeast(db[ReqIdle.obj], ReqIdle.copy)
      BY <1>0, PartTypes DEF ReqIdle, Missing, AtLeast
    <3> QED
      BY <2>1, <3>1 DEF IInv, Copies, AtLeast
  <2>4. \A q \in Pods : /\ q = p => gen'[q] # sync[q].gen /\ gen'[q] # synced[q]
                        /\ sync[q].gen <= gen'[q] /\ synced[q] <= gen'[q]
                        /\ q # p => gen'[q] = gen[q] /\ \A n \in Objects : reg'[q][n] = reg[q][n]
    BY <1>0, <2>1, PartTypes DEF IInv, Loads, Seen
  <2>5. Loads'
    BY <2>1, <2>4 DEF IInv, Loads, LoadedRow, LoadedTables, RowCovered, TablesCovered, AtLeast
  <2>6. Seen'
    BY <2>1, <2>4 DEF IInv, Seen, RowCovered, TablesCovered
  <2> QED
    BY <1>0, <2>2, <2>3, <2>5, <2>6 DEF IInv
<1> QED
  BY <1>2, <1>3, <1>4, <1>5, <1>6, <1>8, <1>9, <1>10, <1>11 DEF RequestStep, Finish

\* A change elsewhere keeps the invariant.
LEMMA ElsewhereKeeps ==
    ASSUME IInv, NEW o \in Objects, ChangeElsewhere(o)
    PROVE  IInv'
<1>1. PICK live \in BOOLEAN, parts \in SUBSET {"row", "tables"} :
         /\ ~live => parts = {"row", "tables"}
         /\ Commit(o, [Stamped(o, parts) EXCEPT !.live = live])
  BY DEF ChangeElsewhere
<1>2. Stamping(o, [Stamped(o, parts) EXCEPT !.live = live])
  <2>1. CASE live = TRUE
    BY <2>1, StampedIsStamping DEF ChangeElsewhere, IInv
  <2>2. CASE live = FALSE
    BY <1>1, <2>2, StampedIsStamping DEF ChangeElsewhere, IInv
  <2> QED
    BY <2>1, <2>2
<1>3. /\ Stamps' /\ Served' /\ Loads' /\ Seen'
      /\ \A n \in Objects : AtLeast(db'[n], db[n])
  BY <1>1, <1>2, CommitKeeps DEF ChangeElsewhere
<1>4. TypeOK'
  BY ElsewhereType DEF IInv
<1>5. Copies'
  <2> SUFFICES ASSUME NEW q \in Requests PROVE AtLeast(db'[req[q].obj], req[q].copy)
    BY DEF ChangeElsewhere, Copies, AtLeast
  <2>1. req[q].obj \in Objects /\ req[q].copy.row \in Nat /\ req[q].copy.tables \in Nat
    BY PartTypes DEF IInv
  <2>2. db'[req[q].obj].row \in Nat /\ db'[req[q].obj].tables \in Nat
    BY <1>4, <2>1 DEF TypeOK, Content
  <2>3. AtLeast(db[req[q].obj], req[q].copy) /\ AtLeast(db'[req[q].obj], db[req[q].obj])
    BY <1>3, <2>1 DEF IInv, Copies
  <2> QED
    BY <2>1, <2>2, <2>3, PartTypes DEF IInv, AtLeast
<1> QED
  BY <1>3, <1>4, <1>5 DEF IInv

\* Every step of a syncer, and a crash, keeps the invariant.
LEMMA PodKeeps ==
    ASSUME IInv, NEW p \in Pods, Load(p) \/ RunHooks(p) \/ SyncError(p) \/ Crash(p)
    PROVE  IInv'
<1> USE DEF podVars, syncVars, dbVars
<1>0. /\ TypeOK' /\ TypeOK /\ System \in Objects /\ System \notin Apps
      /\ \A o \in Objects : o \in Apps \/ o = System
  BY PodType, SystemIsNoApp DEF Objects, IInv
<1>d. /\ UNCHANGED <<version, db>>
      /\ Stamps'
  BY DEF IInv, Load, ReadVersion, StartSync, TakeGeneration, ListApps, LoadTables,
         LoadSystemConfig, ReplaceIfGeneration, Replace, RefuseSnapshot, DropSnapshot,
         RunHooks, SyncError, Crash, Stamps
\* A step of the load that leaves registries and requests alone.
<1>1. ASSUME UNCHANGED <<reg, gen, lastVersion, synced, req>>,
             \A q \in Pods \ {p} : sync'[q] = sync[q],
             sync'[p].version <= version, sync'[p].gen <= gen[p],
             sync'[p].pc = "load" =>
                \A o \in Objects :
                   /\ AtLeast(db[o], sync'[p].snap[o])
                   /\ (o \in Apps \/ o \notin sync'[p].todo) => LoadedRow(p, o)'
                   /\ o \notin sync'[p].todo => LoadedTables(p, o)'
      PROVE  IInv'
  <2>1. Copies' /\ Served' /\ Seen'
    BY <1>1, <1>d DEF IInv, Copies, Served, Seen, AtLeast, RowCovered, TablesCovered
  <2>2. Loads'
    BY <1>1, <1>d DEF IInv, Loads, LoadedRow, LoadedTables, AtLeast, RowCovered, TablesCovered
  <2> QED
    BY <1>0, <1>d, <2>1, <2>2 DEF IInv
<1>2. CASE ReadVersion(p)
  <2>1. /\ UNCHANGED <<reg, gen, lastVersion, synced, req>>
        /\ \A q \in Pods \ {p} : sync'[q] = sync[q]
        /\ sync'[p].version = version /\ sync'[p].gen = sync[p].gen /\ sync'[p].pc = "version"
    BY <1>0, <1>2, PartTypes DEF ReadVersion, StartSync, TypeOK, SyncState
  <2> QED
    BY <1>0, <1>1, <2>1, PartTypes DEF IInv, Loads
<1>3. CASE TakeGeneration(p)
  <2>1. /\ UNCHANGED <<reg, gen, lastVersion, synced, req>>
        /\ \A q \in Pods \ {p} : sync'[q] = sync[q]
        /\ sync'[p].version = sync[p].version /\ sync'[p].gen = gen[p] /\ sync'[p].pc = "list"
    BY <1>0, <1>3, PartTypes DEF TakeGeneration, TypeOK, SyncState
  <2> QED
    BY <1>0, <1>1, <2>1, PartTypes DEF IInv, Loads
<1>4. CASE ListApps(p)
  <2> DEFINE listed == [o \in Objects |->
                          IF o \in Apps /\ db[o].live THEN [db[o] EXCEPT !.tables = 0]
                          ELSE IF o \in Apps THEN db[o] ELSE Missing]
             owed == {a \in Apps : db[a].live} \cup {System}
  <2>1. /\ UNCHANGED <<reg, gen, lastVersion, synced, req>>
        /\ \A q \in Pods \ {p} : sync'[q] = sync[q]
        /\ sync'[p].version = sync[p].version /\ sync'[p].gen = sync[p].gen
        /\ sync'[p].todo = owed
        /\ sync'[p].snap = listed
    <3>1. sync'[p] = [sync[p] EXCEPT !.pc = "load", !.snap = listed, !.todo = owed]
      BY <1>0, <1>4 DEF ListApps, TypeOK
    <3>2. sync[p] \in SyncState
      BY <1>0 DEF TypeOK
    <3>3. /\ UNCHANGED <<reg, gen, lastVersion, synced, req>>
          /\ \A q \in Pods \ {p} : sync'[q] = sync[q]
      BY <1>0, <1>4 DEF ListApps, TypeOK, podVars
    <3> HIDE DEF listed, owed
    <3> QED
      BY <3>1, <3>2, <3>3 DEF SyncState
  <2>2. \A o \in Objects : AtLeast(db[o], reg[p][o])
    BY DEF IInv, Served
  <2>3. ASSUME NEW o \in Objects
        PROVE  /\ AtLeast(db[o], sync'[p].snap[o])
               /\ o \in Apps => /\ sync'[p].snap[o].row = db[o].row
                                /\ sync'[p].snap[o].live = db[o].live
               /\ o \notin sync'[p].todo => sync'[p].snap[o] = db[o]
    <3>1. db[o].row \in Nat /\ db[o].tables \in Nat /\ db[o].live \in BOOLEAN /\ db[o] \in Content
      BY <1>0, PartTypes DEF Content
    <3>2. CASE o \in Apps /\ db[o].live
      <4>1. sync'[p].snap[o] = [db[o] EXCEPT !.tables = 0] /\ o \in sync'[p].todo
        BY <2>1, <3>2
      <4>2. /\ sync'[p].snap[o].row = db[o].row /\ sync'[p].snap[o].live = db[o].live
            /\ sync'[p].snap[o].tables = 0
        BY <3>1, <4>1 DEF Content
      <4> QED
        BY <3>1, <4>1, <4>2 DEF AtLeast
    <3>3. CASE o \in Apps /\ ~db[o].live
      <4>1. sync'[p].snap[o] = db[o]
        BY <2>1, <3>3
      <4> QED
        BY <3>1, <4>1 DEF AtLeast
    <3>4. CASE o \notin Apps
      <4>1. sync'[p].snap[o] = Missing /\ o \in sync'[p].todo
        BY <2>1, <3>4 DEF Objects
      <4>2. AtLeast(db[o], Missing)
        BY <3>1 DEF AtLeast, Missing
      <4> QED
        BY <3>4, <4>1, <4>2
    <3> QED
      BY <3>2, <3>3, <3>4
  <2> HIDE DEF listed, owed
  <2>4. ASSUME NEW o \in Objects
        PROVE  /\ (o \in Apps \/ o \notin sync'[p].todo) => LoadedRow(p, o)'
               /\ o \notin sync'[p].todo => LoadedTables(p, o)'
    BY <1>0, <1>d, <2>1, <2>2, <2>3
    DEF LoadedRow, LoadedTables, RowCovered, TablesCovered, AtLeast
  <2> QED
    BY <1>0, <1>1, <2>1, <2>3, <2>4, PartTypes DEF IInv, Loads
<1>5. ASSUME NEW a \in Apps, LoadTables(p, a) PROVE IInv'
  <2>0. a \in Objects /\ db[a] \in Content
    BY <1>0, PartTypes DEF Objects
  <2>1. /\ UNCHANGED <<reg, gen, lastVersion, synced, req>>
        /\ \A q \in Pods \ {p} : sync'[q] = sync[q]
        /\ sync'[p].version = sync[p].version /\ sync'[p].gen = sync[p].gen
        /\ sync'[p].todo = sync[p].todo \ {a} /\ sync[p].pc = "load"
        /\ \A o \in Objects : o # a => sync'[p].snap[o] = sync[p].snap[o]
        /\ sync'[p].snap[a].tables = db[a].tables
        /\ sync'[p].snap[a].row = sync[p].snap[a].row
        /\ sync'[p].snap[a].live = sync[p].snap[a].live
    <3>1. sync[p] \in SyncState /\ sync[p].snap \in [Objects -> Content] /\ sync[p].snap[a] \in Content
      BY <1>0, <2>0, PartTypes DEF SyncState
    <3>2. sync'[p] = [sync[p] EXCEPT !.snap[a].tables = db[a].tables, !.todo = @ \ {a}]
      BY <1>0, <1>5 DEF LoadTables, TypeOK
    <3> QED
      BY <1>0, <1>5, <2>0, <3>1, <3>2 DEF LoadTables, TypeOK, SyncState, Content
  <2>2. \A o \in Objects :
           /\ AtLeast(db[o], sync[p].snap[o])
           /\ (o \in Apps \/ o \notin sync[p].todo) => LoadedRow(p, o)
           /\ o \notin sync[p].todo => LoadedTables(p, o)
    BY <2>1 DEF IInv, Loads
  <2>3. AtLeast(db[a], reg[p][a])
    BY <2>0 DEF IInv, Served
  <2>4. ASSUME NEW o \in Objects, o # a
        PROVE  /\ AtLeast(db[o], sync'[p].snap[o])
               /\ (o \in Apps \/ o \notin sync'[p].todo) => LoadedRow(p, o)'
               /\ o \notin sync'[p].todo => LoadedTables(p, o)'
    BY <1>0, <1>d, <2>1, <2>2, <2>4
    DEF LoadedRow, LoadedTables, RowCovered, TablesCovered
  <2>5. AtLeast(db[a], sync'[p].snap[a]) /\ LoadedRow(p, a)' /\ LoadedTables(p, a)'
    BY <1>0, <1>d, <2>0, <2>1, <2>2, <2>3, PartTypes
    DEF LoadedRow, LoadedTables, RowCovered, TablesCovered, AtLeast
  <2> QED
    BY <1>0, <1>1, <2>1, <2>4, <2>5, PartTypes DEF IInv, Loads
<1>6. CASE LoadSystemConfig(p)
  <2>1. /\ UNCHANGED <<reg, gen, lastVersion, synced, req>>
        /\ \A q \in Pods \ {p} : sync'[q] = sync[q]
        /\ sync'[p].version = sync[p].version /\ sync'[p].gen = sync[p].gen
        /\ sync'[p].todo = {} /\ sync[p].pc = "load" /\ sync[p].todo = {System}
        /\ \A o \in Objects : o # System => sync'[p].snap[o] = sync[p].snap[o]
        /\ sync'[p].snap[System] = db[System]
    BY <1>0, <1>6, PartTypes DEF LoadSystemConfig, TypeOK, SyncState
  <2>2. \A o \in Objects :
           /\ AtLeast(db[o], sync[p].snap[o])
           /\ (o \in Apps \/ o \notin sync[p].todo) => LoadedRow(p, o)
           /\ o \notin sync[p].todo => LoadedTables(p, o)
    BY <2>1 DEF IInv, Loads
  <2>3. AtLeast(db[System], reg[p][System]) /\ AtLeast(db[System], db[System])
    BY <1>0, PartTypes DEF IInv, Served, AtLeast
  <2>4. ASSUME NEW o \in Objects, o # System
        PROVE  AtLeast(db[o], sync'[p].snap[o]) /\ LoadedRow(p, o)' /\ LoadedTables(p, o)'
    BY <1>0, <1>d, <2>1, <2>2, <2>4
    DEF LoadedRow, LoadedTables, RowCovered, TablesCovered
  <2>5. /\ AtLeast(db[System], sync'[p].snap[System])
        /\ LoadedRow(p, System)' /\ LoadedTables(p, System)'
    BY <1>0, <1>d, <2>1, <2>3
    DEF LoadedRow, LoadedTables, RowCovered, TablesCovered, AtLeast
  <2> QED
    BY <1>0, <1>1, <2>1, <2>4, <2>5, PartTypes DEF IInv, Loads
\* A step after which no sync is under way on p.
<1>7. ASSUME \A q \in Pods \ {p} : /\ sync'[q] = sync[q] /\ reg'[q] = reg[q] /\ gen'[q] = gen[q]
                                   /\ lastVersion'[q] = lastVersion[q] /\ synced'[q] = synced[q],
             Copies',
             sync'[p].version <= version, sync'[p].gen <= gen'[p], sync'[p].pc # "load",
             \A o \in Objects : AtLeast(db[o], reg'[p][o]),
             lastVersion'[p] <= version, synced'[p] <= gen'[p],
             gen'[p] = synced'[p] =>
                \A o \in Objects : /\ RowCovered(reg'[p][o], o, lastVersion'[p])
                                   /\ TablesCovered(reg'[p][o], o, lastVersion'[p])
      PROVE  IInv'
  <2>1. Served'
    BY <1>7, <1>d DEF IInv, Served, AtLeast
  <2>2. Loads'
    BY <1>7, <1>d DEF IInv, Loads, LoadedRow, LoadedTables, AtLeast, RowCovered, TablesCovered
  <2>3. Seen'
    BY <1>7, <1>d DEF IInv, Seen, RowCovered, TablesCovered
  <2> QED
    BY <1>0, <1>7, <1>d, <2>1, <2>2, <2>3 DEF IInv
<1>u. ASSUME NEW c, NEW o \in Objects
      PROVE  RowCovered(c, o, Unknown) /\ TablesCovered(c, o, Unknown)
  BY <1>0, PartTypes DEF RowCovered, TablesCovered, Unknown
<1>8. CASE ReplaceIfGeneration(p)
  <2>0. sync[p].snap \in [Objects -> Content] /\ sync[p].version \in Nat /\ gen[p] \in Nat
    BY <1>0, PartTypes DEF SyncState
  <2>1. /\ UNCHANGED <<gen, req>>
        /\ \A q \in Pods \ {p} : /\ sync'[q] = sync[q] /\ reg'[q] = reg[q]
                                 /\ lastVersion'[q] = lastVersion[q] /\ synced'[q] = synced[q]
        /\ sync'[p].version = sync[p].version /\ sync'[p].gen = 0 /\ sync'[p].pc = "hooks"
        /\ reg'[p] = sync[p].snap /\ lastVersion'[p] = sync[p].version /\ synced'[p] = gen[p]
    BY <1>0, <1>8 DEF ReplaceIfGeneration, Replace, TypeOK, SyncIdle
  <2>2. \A o \in Objects : AtLeast(db[o], sync[p].snap[o]) /\ LoadedRow(p, o) /\ LoadedTables(p, o)
    BY <1>8 DEF IInv, Loads, ReplaceIfGeneration, Loaded
  <2>3. Copies'
    BY <1>d, <2>1 DEF IInv, Copies, AtLeast
  <2>4. sync[p].version <= version
    BY DEF IInv, Loads
  <2> QED
    BY <1>7, <2>0, <2>1, <2>2, <2>3, <2>4 DEF LoadedRow, LoadedTables
<1>9. CASE RefuseSnapshot(p) \/ SyncError(p)
  <2>1. /\ UNCHANGED <<reg, gen, req>>
        /\ \A q \in Pods \ {p} : /\ sync'[q] = sync[q]
                                 /\ lastVersion'[q] = lastVersion[q] /\ synced'[q] = synced[q]
        /\ sync'[p] = SyncIdle /\ lastVersion'[p] = Unknown /\ synced'[p] = gen[p]
    BY <1>0, <1>9 DEF RefuseSnapshot, DropSnapshot, SyncError, TypeOK
  <2>2. Copies'
    BY <1>d, <2>1 DEF IInv, Copies, AtLeast
  <2>3. \A o \in Objects : AtLeast(db[o], reg[p][o])
    BY DEF IInv, Served
  <2> QED
    BY <1>0, <1>7, <1>u, <2>1, <2>2, <2>3, PartTypes DEF SyncIdle, Unknown
<1>10. CASE RunHooks(p)
  <2>1. /\ UNCHANGED <<reg, gen, req, lastVersion, synced>>
        /\ \A q \in Pods \ {p} : sync'[q] = sync[q]
        /\ sync'[p] = SyncIdle
    BY <1>0, <1>10 DEF RunHooks, TypeOK
  <2>2. sync'[p].version = 0 /\ sync'[p].gen = 0 /\ sync'[p].pc = "idle"
    BY <2>1 DEF SyncIdle
  <2> QED
    BY <1>0, <1>1, <2>1, <2>2, PartTypes
<1>11. CASE Crash(p)
  <2>1. /\ \A q \in Pods \ {p} : /\ sync'[q] = sync[q] /\ reg'[q] = reg[q] /\ gen'[q] = gen[q]
                                 /\ lastVersion'[q] = lastVersion[q] /\ synced'[q] = synced[q]
        /\ sync'[p] = SyncIdle /\ lastVersion'[p] = Unknown /\ synced'[p] = 0 /\ gen'[p] = 0
        /\ reg'[p] = EmptyRegistry
        /\ \A r \in Requests : req'[r] \in {req[r], ReqIdle}
    BY <1>0, <1>11 DEF Crash, TypeOK
  <2>2. \A o \in Objects : AtLeast(db[o], EmptyRegistry[o]) /\ AtLeast(db[o], Missing)
    BY <1>0, PartTypes DEF AtLeast, EmptyRegistry, Missing
  <2>3. Copies'
    BY <1>0, <1>d, <2>1, <2>2 DEF IInv, Copies, AtLeast, ReqIdle
  <2> QED
    BY <1>0, <1>7, <1>u, <2>1, <2>2, <2>3, PartTypes DEF SyncIdle, Unknown
<1> QED
  BY <1>2, <1>3, <1>4, <1>5, <1>6, <1>8, <1>9, <1>10, <1>11 DEF Load

\* The invariant holds initially: every pod serves what the database holds.
LEMMA InitInv == Init => IInv
<1> SUFFICES ASSUME Init PROVE IInv
  OBVIOUS
<1>1. TypeOK
  BY InitType
<1>2. \A o \in Objects : db[o].row = 0 /\ db[o].tables = 0
  BY DEF Init, Missing
<1>3. Stamps /\ Served /\ Copies
  BY <1>2, IdleTypes DEF Init, Stamps, Served, Copies, AtLeast, ReqIdle, Missing
<1>4. Loads
  <2>1. \A p \in Pods : sync[p] = SyncIdle /\ version = 0 /\ gen[p] = 0
    BY DEF Init
  <2>2. SyncIdle.version = 0 /\ SyncIdle.gen = 0 /\ SyncIdle.pc # "load"
    BY DEF SyncIdle
  <2> QED
    <3> SUFFICES ASSUME NEW p \in Pods
                 PROVE  sync[p].version <= version /\ sync[p].gen <= gen[p] /\ sync[p].pc # "load"
      BY DEF Loads
    <3>1. sync[p].version = 0 /\ sync[p].gen = 0 /\ sync[p].pc # "load"
      BY <2>1, <2>2
    <3> QED
      BY <2>1, <3>1
<1>5. Seen
  <2>1. \A p \in Pods : lastVersion[p] = version /\ synced[p] = gen[p] /\ gen[p] = 0 /\ reg[p] = db
    BY DEF Init
  <2>2. version = 0
    BY DEF Init
  <2>3. ASSUME NEW p \in Pods
        PROVE  /\ lastVersion[p] <= version /\ synced[p] <= gen[p]
               /\ \A o \in Objects : /\ RowCovered(reg[p][o], o, lastVersion[p])
                                     /\ TablesCovered(reg[p][o], o, lastVersion[p])
    <3>1. lastVersion[p] = 0 /\ synced[p] = 0 /\ gen[p] = 0 /\ reg[p] = db
      BY <2>1, <2>2
    <3> QED
      BY <2>2, <3>1 DEF RowCovered, TablesCovered
  <2> QED
    BY <2>3 DEF Seen
<1> QED
  BY <1>1, <1>3, <1>4, <1>5 DEF IInv

\* The invariant is preserved by every step, and so holds throughout.
LEMMA StepKeeps == IInv /\ [Next]_vars => IInv'
<1> SUFFICES ASSUME IInv, [Next]_vars PROVE IInv'
  OBVIOUS
<1>1. CASE UNCHANGED vars
  <2>1. TypeOK' /\ Copies'
    BY <1>1 DEF IInv, TypeOK, vars, Copies, AtLeast
  <2> QED
    BY <1>1, <2>1, RestStays DEF IInv, vars
<1> QED
  BY <1>1, RequestKeeps, PodKeeps, ElsewhereKeeps DEF Next

\* The stamps of registries, copies and loads in flight stay in order: none is
\* ahead of what was committed, none behind what the version covers.
THEOREM Invariant == Spec => []IInv
BY InitInv, StepKeeps, PTL DEF Spec

-----------------------------------------------------------------------------
\* A pod at the current version that published nothing since holds exactly
\* what the database holds: all stamps are at most the version it covers.
THEOREM CaughtUpHolds == Spec => []CaughtUp
<1>1. IInv => CaughtUp
  <2> SUFFICES ASSUME IInv, NEW p \in Pods, lastVersion[p] = version, gen[p] = synced[p]
               PROVE  reg[p] = db
    BY DEF CaughtUp
  <2>1. /\ reg[p] \in [Objects -> Content] /\ db \in [Objects -> Content]
    BY DEF IInv, TypeOK
  <2>2. ASSUME NEW o \in Objects PROVE reg[p][o] = db[o]
    <3>1. /\ reg[p][o].row = db[o].row /\ reg[p][o].live = db[o].live
          /\ reg[p][o].tables = db[o].tables
      BY DEF IInv, Seen, Stamps, RowCovered, TablesCovered
    <3> QED
      BY <2>1, <3>1 DEF Content
  <2> QED
    BY <2>1, <2>2
<1> QED
  BY <1>1, Invariant, PTL

\* No sync takes back what a pod serves.
THEOREM NoRollBack == Spec => SyncNeverRollsBack
<1> DEFINE Forward ==
      \A p \in Pods : (gen'[p] = gen[p] /\ lastVersion'[p] # Unknown) =>
          \A o \in Objects : AtLeast(reg'[p][o], reg[p][o])
<1>1. IInv /\ [Next]_vars => [Forward]_vars
  <2> SUFFICES ASSUME IInv, Next, NEW p \in Pods, gen'[p] = gen[p], lastVersion'[p] # Unknown,
                      NEW o \in Objects
               PROVE  AtLeast(reg'[p][o], reg[p][o])
    BY DEF vars
  <2>0. TypeOK /\ AtLeast(reg[p][o], reg[p][o])
    BY PartTypes DEF IInv, AtLeast
  <2>1. ASSUME NEW r \in Requests, RequestStep(r)
        PROVE  AtLeast(reg'[p][o], reg[p][o])
    <3>1. CASE Publish(r)
      <4>1. req[r].pod # p
        BY <2>0, <3>1, PartTypes DEF Publish, TypeOK
      <4> QED
        BY <2>0, <3>1, <4>1 DEF Publish, TypeOK
    <3>2. CASE ~Publish(r)
      <4>1. reg' = reg
        BY <2>1, <3>2 DEF RequestStep, Finish, CreateApp, ReadExisting, SaveThenReread, DeleteApp,
             UpdateSystemConfig, SaveSettings, SaveMoreSettings, RereadRow, RereadTables,
             AppGone, GiveUp, podVars
      <4> QED
        BY <2>0, <4>1
    <3> QED
      BY <3>1, <3>2
  <2>2. ASSUME NEW n \in Objects, ChangeElsewhere(n)
        PROVE  AtLeast(reg'[p][o], reg[p][o])
    BY <2>0, <2>2 DEF ChangeElsewhere, podVars
  <2>3. ASSUME NEW q \in Pods, ReplaceIfGeneration(q)
        PROVE  AtLeast(reg'[p][o], reg[p][o])
    <3>1. CASE q = p
      <4>1. LoadedRow(p, o) /\ LoadedTables(p, o)
        BY <2>3, <3>1 DEF IInv, Loads, ReplaceIfGeneration, Loaded
      <4>2. reg'[p] = sync[p].snap /\ gen[p] = sync[p].gen
        BY <2>0, <2>3, <3>1 DEF ReplaceIfGeneration, Replace, TypeOK
      <4> QED
        BY <4>1, <4>2 DEF LoadedRow, LoadedTables, AtLeast
    <3>2. CASE q # p
      BY <2>0, <2>3, <3>2 DEF ReplaceIfGeneration, Replace, TypeOK
    <3> QED
      BY <3>1, <3>2
  <2>4. ASSUME NEW q \in Pods, Crash(q)
        PROVE  AtLeast(reg'[p][o], reg[p][o])
    BY <2>0, <2>4 DEF Crash, TypeOK
  <2>5. ASSUME NEW q \in Pods, Load(q) \/ RunHooks(q) \/ SyncError(q), ~ReplaceIfGeneration(q)
        PROVE  AtLeast(reg'[p][o], reg[p][o])
    BY <2>0, <2>5 DEF Load, ReadVersion, StartSync, TakeGeneration, ListApps, LoadTables,
         LoadSystemConfig, RefuseSnapshot, DropSnapshot, RunHooks, SyncError, podVars
  <2> QED
    BY <2>1, <2>2, <2>3, <2>4, <2>5 DEF Next
<1> QED
  BY <1>1, Invariant, PTL DEF Spec, SyncNeverRollsBack

-----------------------------------------------------------------------------
\* A commit only adds stamps.
LEMMA StampedNewer ==
    ASSUME IInv, NEW o \in Objects, NEW parts
    PROVE  /\ AtLeast(Stamped(o, parts), db[o])
           /\ \A b \in BOOLEAN : AtLeast([Stamped(o, parts) EXCEPT !.live = b], db[o])
<1>1. db[o].row \in Nat /\ db[o].tables \in Nat /\ version \in Nat
  BY BoundsAreNat DEF IInv, TypeOK, Content
<1>2. db[o].row <= version /\ db[o].tables <= version
  BY DEF IInv, Stamps
<1>3. Stamped(o, parts).row >= db[o].row /\ Stamped(o, parts).tables >= db[o].tables
  BY <1>1, <1>2 DEF Stamped
<1> QED
  BY <1>3 DEF AtLeast, Stamped

-----------------------------------------------------------------------------
\* The steps of a request are changes, shown contents or nothing
\* to what the replicas promise.
LEMMA RequestView ==
    ASSUME IInv, NEW r \in Requests, RequestStep(r)
    PROVE  Promise!Next \/ UNCHANGED <<version, db, reg, lastVersion>>
<1> USE DEF podVars, syncVars, dbVars
<1>0. TypeOK /\ Apps \subseteq Objects /\ System \in Objects
  BY DEF IInv, Objects
\* A commit of new stamps is a change.
<1>1. ASSUME NEW o \in Objects, NEW c, Commit(o, c), AtLeast(c, db[o]), UNCHANGED <<reg, lastVersion>>
      PROVE  Promise!Change
  <2>1. db' = [db EXCEPT ![o] = c] /\ version' = version + 1
    BY <1>1 DEF Commit
  <2>2. db'[o] = c /\ \A n \in Objects \ {o} : db'[n] = db[n]
    BY <1>0, <2>1 DEF TypeOK
  <2> QED
    BY <1>1, <2>1, <2>2 DEF Promise!Change, Promise!Newer, AtLeast
<1>2. ASSUME NEW o \in Objects, NEW parts
      PROVE  /\ AtLeast(Stamped(o, parts), db[o])
             /\ AtLeast([Stamped(o, parts) EXCEPT !.live = FALSE], db[o])
  BY StampedNewer
<1>3. ASSUME NEW p \in Pods, NEW a \in Apps,
             CreateApp(r, p, a) \/ (\E part \in {"row", "tables"} : SaveThenReread(r, p, a, part))
             \/ DeleteApp(r, p, a)
      PROVE  Promise!Change
  BY <1>0, <1>1, <1>2, <1>3 DEF CreateApp, SaveThenReread, DeleteApp
<1>4. ASSUME NEW p \in Pods, UpdateSystemConfig(r, p) PROVE Promise!Change
  BY <1>0, <1>1, <1>2, <1>4 DEF UpdateSystemConfig
<1>5. ASSUME SaveSettings(r) \/ SaveMoreSettings(r) PROVE Promise!Change
  <2>1. req[r].obj \in Objects
    BY <1>0 DEF TypeOK, ReqState
  <2>2. /\ Commit(req[r].obj, Stamped(req[r].obj, {"row"}))
        /\ UNCHANGED <<reg, lastVersion>>
    BY <1>5 DEF SaveSettings, SaveMoreSettings
  <2>3. AtLeast(Stamped(req[r].obj, {"row"}), db[req[r].obj])
    BY <1>2, <2>1
  <2> QED
    BY <1>1, <2>1, <2>2, <2>3
<1>6. CASE Publish(r)
  <2> DEFINE p == req[r].pod
             o == req[r].obj
  <2>1. p \in Pods /\ o \in Objects
    BY <1>0 DEF TypeOK, ReqState
  <2>2. /\ reg' = [reg EXCEPT ![p][o] = req[r].copy]
        /\ UNCHANGED <<version, db, lastVersion>>
    BY <1>6 DEF Publish
  <2>3. AtLeast(db[o], req[r].copy)
    BY DEF IInv, Copies
  <2> HIDE DEF p, o
  <2>4. /\ reg'[p][o] = req[r].copy
        /\ \A n \in Objects \ {o} : reg'[p][n] = reg[p][n]
        /\ \A q \in Pods \ {p} : reg'[q] = reg[q]
    BY <1>0, <2>1, <2>2 DEF TypeOK
  <2>5. Promise!Show(p)
    BY <2>1, <2>2, <2>3, <2>4 DEF Promise!Show, Promise!Newer, Promise!Others, AtLeast
  <2> QED
    BY <2>1, <2>5 DEF Promise!Next
<1>7. ASSUME NEW p \in Pods, NEW a \in Apps, ReadExisting(r, p, a)
      PROVE  UNCHANGED <<version, db, reg, lastVersion>>
  BY <1>7 DEF ReadExisting
<1>8. CASE RereadRow(r) \/ RereadTables(r) \/ AppGone(r) \/ GiveUp(r)
  BY <1>8 DEF RereadRow, RereadTables, AppGone, GiveUp
<1> QED
  BY <1>3, <1>4, <1>5, <1>6, <1>7, <1>8 DEF RequestStep, Finish, Promise!Next

\* So do the steps of a pod's syncer: a replacement is a refresh, a failed or
\* refused load and a crash forget.
LEMMA PodView ==
    ASSUME IInv, NEW p \in Pods, Load(p) \/ RunHooks(p) \/ SyncError(p) \/ Crash(p)
    PROVE  Promise!Next \/ UNCHANGED <<version, db, reg, lastVersion>>
<1> USE DEF podVars, dbVars
<1>0. TypeOK
  BY DEF IInv
<1>1. CASE ReplaceIfGeneration(p)
  <2>1. /\ reg'[p] = sync[p].snap /\ lastVersion'[p] = sync[p].version
        /\ \A q \in Pods \ {p} : reg'[q] = reg[q] /\ lastVersion'[q] = lastVersion[q]
        /\ UNCHANGED <<version, db>>
        /\ gen[p] = sync[p].gen
    BY <1>0, <1>1 DEF ReplaceIfGeneration, Replace, TypeOK
  <2>2. \A o \in Objects : AtLeast(db[o], sync[p].snap[o]) /\ LoadedRow(p, o) /\ LoadedTables(p, o)
    BY <1>1 DEF IInv, Loads, ReplaceIfGeneration, Loaded
  <2>3. \A o \in Objects : /\ Promise!Newer(reg'[p][o], reg[p][o])
                           /\ Promise!Newer(db[o], reg'[p][o])
    BY <2>1, <2>2 DEF Promise!Newer, AtLeast, LoadedRow, LoadedTables
  <2>4. Promise!Covers(reg'[p], lastVersion'[p])
    BY <2>1, <2>2 DEF Promise!Covers, LoadedRow, LoadedTables, RowCovered, TablesCovered
  <2>5. lastVersion'[p] \in 0..version
    BY <1>0, <2>1 DEF IInv, Loads, TypeOK, SyncState
  <2>6. Promise!Refresh(p)
    BY <2>1, <2>3, <2>4, <2>5 DEF Promise!Refresh, Promise!Others
  <2> QED
    BY <2>6 DEF Promise!Next
<1>2. CASE RefuseSnapshot(p) \/ SyncError(p) \/ Crash(p)
  <2>1. /\ reg'[p] \in {reg[p], EmptyRegistry} /\ lastVersion'[p] = Unknown
        /\ \A q \in Pods \ {p} : reg'[q] = reg[q] /\ lastVersion'[q] = lastVersion[q]
        /\ UNCHANGED <<version, db>>
    BY <1>0, <1>2 DEF RefuseSnapshot, DropSnapshot, SyncError, Crash, TypeOK
  <2>2. Promise!Forget(p)
    BY <2>1 DEF Promise!Forget, Promise!Others
  <2> QED
    BY <2>2 DEF Promise!Next
<1>3. CASE RunHooks(p) \/ ReadVersion(p) \/ TakeGeneration(p) \/ ListApps(p) \/ LoadSystemConfig(p)
           \/ \E a \in Apps : LoadTables(p, a)
  BY <1>3 DEF RunHooks, ReadVersion, StartSync, TakeGeneration, ListApps, LoadSystemConfig, LoadTables
<1> QED
  BY <1>1, <1>2, <1>3 DEF Load

\* A commit served elsewhere is a change.
LEMMA ElsewhereView ==
    ASSUME IInv, NEW o \in Objects, ChangeElsewhere(o)
    PROVE  Promise!Next
<1>0. TypeOK
  BY DEF IInv
<1>1. PICK live \in BOOLEAN, parts \in SUBSET {"row", "tables"} :
         Commit(o, [Stamped(o, parts) EXCEPT !.live = live])
  BY DEF ChangeElsewhere
<1>2. AtLeast([Stamped(o, parts) EXCEPT !.live = live], db[o])
  BY StampedNewer
<1>3. /\ version' = version + 1 /\ UNCHANGED <<reg, lastVersion>>
      /\ db'[o] = [Stamped(o, parts) EXCEPT !.live = live]
      /\ \A n \in Objects \ {o} : db'[n] = db[n]
  BY <1>0, <1>1 DEF Commit, ChangeElsewhere, podVars, syncVars, TypeOK
<1> QED
  BY <1>2, <1>3 DEF Promise!Next, Promise!Change, Promise!Newer, AtLeast

\* The detailed specification implements the promise: polled versions, racing
\* snapshots and local writes together are changes, shown contents, refreshes
\* that only move forward, and forgetting.
THEOREM Refines == Spec => KeepsPromise
<1>1. Init => Promise!Init
  BY InitType DEF Init, Promise!Init, TypeOK
<1>2. IInv /\ [Next]_vars => [Promise!Next]_(Promise!viewVars)
  <2> SUFFICES ASSUME IInv, [Next]_vars
               PROVE  Promise!Next \/ UNCHANGED <<version, db, reg, lastVersion>>
    BY DEF Promise!viewVars
  <2>1. CASE UNCHANGED vars
    BY <2>1 DEF vars
  <2> QED
    BY <2>1, RequestView, PodView, ElsewhereView DEF Next
<1> QED
  BY <1>1, <1>2, Invariant, PTL DEF Spec, KeepsPromise, Promise!Spec
=============================================================================
