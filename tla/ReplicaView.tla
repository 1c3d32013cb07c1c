---------------------------- MODULE ReplicaView ----------------------------
(***************************************************************************)
(* What a set of registry replicas promises over one database, without     *)
(* versions being polled or snapshots being loaded.  A replica may always  *)
(* serve something old; it says up to which state version it has seen, and *)
(* taking in the state of the database is only allowed to move it forward  *)
(* and must leave it with everything committed up to that version.         *)
(***************************************************************************)
EXTENDS Integers

CONSTANTS Pods, Objects, Content, EmptyRegistry, Unknown

VARIABLES version, db, reg, seen

viewVars == <<version, db, reg, seen>>

Newer(c, d) == c.row >= d.row /\ c.tables >= d.tables

Init ==
    /\ version = 0
    /\ db \in [Objects -> Content]
    /\ reg = [p \in Pods |-> db]
    /\ seen = [p \in Pods |-> 0]

Others(p, f, g) == \A q \in Pods \ {p} : g[q] = f[q]

\* A change of one object is committed under the next version.
Change ==
    /\ version' = version + 1
    /\ \E o \in Objects :
          /\ Newer(db'[o], db[o])
          /\ \A n \in Objects \ {o} : db'[n] = db[n]
    /\ UNCHANGED <<reg, seen>>

\* A local write shows a content of one object that was committed.
Show(p) ==
    /\ \E o \in Objects :
          /\ Newer(db[o], reg'[p][o])
          /\ \A n \in Objects \ {o} : reg'[p][n] = reg[p][n]
    /\ Others(p, reg, reg')
    /\ UNCHANGED <<version, db, seen>>

\* r holds whatever was last changed at version v or before.
Covers(r, v) ==
    \A o \in Objects :
        /\ db[o].row <= v => r[o].row = db[o].row /\ r[o].live = db[o].live
        /\ db[o].tables <= v => r[o].tables = db[o].tables

Refresh(p) ==
    /\ \A o \in Objects : Newer(reg'[p][o], reg[p][o]) /\ Newer(db[o], reg'[p][o])
    /\ seen'[p] \in 0..version
    /\ Covers(reg'[p], seen'[p])
    /\ Others(p, reg, reg') /\ Others(p, seen, seen')
    /\ UNCHANGED <<version, db>>

Forget(p) ==
    /\ seen'[p] = Unknown
    /\ reg'[p] \in {reg[p], EmptyRegistry}
    /\ Others(p, reg, reg') /\ Others(p, seen, seen')
    /\ UNCHANGED <<version, db>>

Next == Change \/ \E p \in Pods : Show(p) \/ Refresh(p) \/ Forget(p)

Spec == Init /\ [][Next]_viewVars
=============================================================================
