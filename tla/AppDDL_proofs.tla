---------------------------- MODULE AppDDL_proofs ----------------------------
(***************************************************************************)
(* How far what the dashboard stores of a table and what PostgreSQL has    *)
(* can drift apart, for any number of tables, columns and requests.        *)
(*                                                                         *)
(* The argument: as long as no other request has dealt with its table, a   *)
(* request still sees the row it read; after its DDL the table has what it *)
(* is about to store; and if row and table agreed when it began, its DDL   *)
(* leaves the table just as it is about to store it.                       *)
(***************************************************************************)
EXTENDS AppDDL, TLAPS

\* The table is what the request is about to store.
Agrees(k, tb) ==
    /\ tb.exists
    /\ \A c \in Columns : Has(k.want, c) =>
          /\ tb.col[c] # "absent"
          /\ k.want.from[c] = None => tb.col[c] = k.want.col[c]
    /\ k.op = "create" /\ k.want.rls = "policy" => tb.secured

ExactIn(tb, row) ==
    IF row.id = 0 THEN ~tb.exists
    ELSE /\ tb.exists
         /\ tb.col = row.shape.col
         /\ row.shape.rls = "policy" => tb.secured

\* A request that nobody overtook, with its table and the row of its table.
Fresh(k, tb, row) ==
    k.pc # "idle" /\ k.history # "raced" =>
        /\ k.op = "create" <=> row.id = 0
        /\ k.op = "add_fk" =>
              /\ k.column \in Columns
              /\ row.shape.col[k.column] = "plain"
              /\ k.want = [row.shape EXCEPT !.col[k.column] = "constrained"]
        /\ k.op = "drop_fk" =>
              /\ k.column \in Columns
              /\ row.shape.col[k.column] = "constrained"
              /\ k.want = [row.shape EXCEPT !.col[k.column] = "plain"]
        /\ k.pc = "ddl" /\ k.op \in ApplyOps \ {"create"} =>
              \A c \in Columns : Has(row.shape, c) /\ Has(k.want, c) => k.want.col[c] = row.shape.col[c]
        /\ k.pc = "write" /\ k.op \in ApplyOps =>
              tb.exists /\ \A c \in Columns : Has(k.want, c) => tb.col[c] # "absent"
        /\ k.history = "clean" /\ k.pc = "ddl" => ExactIn(tb, row)
        /\ k.history = "clean" /\ k.pc = "write" => Agrees(k, tb)

FreshReq(r) == Fresh(req[r], table[req[r].table], meta[req[r].table])

\* The inductive invariant.
IInv == TypeOK /\ \A r \in Reqs : FreshReq(r)

-----------------------------------------------------------------------------
\* The idle request and the absent table have their types.
LEMMA IdleTypes == ReqIdle \in ReqState /\ NoShape \in Shape /\ NoTable \in Table /\ NoRow \in Row
<1>1. NoShape \in Shape
  BY DEF NoShape, Shape, NoColumns, Kinds, Modes
<1>2. (CHOOSE t \in Tables : TRUE) \in Tables
  BY TablesExist
<1>3. 0 \in 0..MaxIds
  BY MaxIdsIsNat
<1>4. ReqIdle \in ReqState
  BY <1>1, <1>2, <1>3 DEF ReqIdle, ReqState, Ops, ApplyOps, AlterOps
<1>5. NoTable \in Table
  BY DEF NoTable, Table, NoColumns, Kinds
<1>6. NoRow \in Row
  BY <1>1, <1>3 DEF NoRow, Row
<1> QED
  BY <1>1, <1>4, <1>5, <1>6

\* An installation starts without tables and requests.
LEMMA InitIInv == Init => IInv
<1> SUFFICES ASSUME Init PROVE IInv
  OBVIOUS
<1>1. TypeOK
  <2>1. table \in [Tables -> Table] /\ \A t \in Tables : table[t] = NoTable
    BY IdleTypes DEF Init
  <2>2. meta \in [Tables -> Row] /\ req \in [Reqs -> ReqState]
    BY IdleTypes DEF Init
  <2>3. used \in 0..MaxIds /\ migrations \in SUBSET (Tables \X Columns \X Columns)
    BY MaxIdsIsNat DEF Init
  <2> QED
    BY <2>1, <2>2, <2>3 DEF TypeOK
<1>2. ASSUME NEW r \in Reqs PROVE FreshReq(r)
  <2>1. req[r].pc = "idle"
    BY DEF Init, ReqIdle
  <2> QED
    BY <2>1 DEF FreshReq, Fresh
<1> QED
  BY <1>1, <1>2 DEF IInv

\* A request that begins with a sound record; nothing else changes.
LEMMA BeginKeeps ==
    ASSUME IInv, NEW r \in Reqs, NEW op \in Ops, NEW t \in Tables, NEW c \in Columns \cup {None},
           NEW want \in Shape, Begin(r, op, t, c, want),
           op = "create" <=> meta[t].id = 0,
           op \in AlterOps => c \in Columns,
           op = "add_fk" => meta[t].shape.col[c] = "plain"
                            /\ want = [meta[t].shape EXCEPT !.col[c] = "constrained"],
           op = "drop_fk" => meta[t].shape.col[c] = "constrained"
                            /\ want = [meta[t].shape EXCEPT !.col[c] = "plain"],
           op \in ApplyOps \ {"create"} =>
              \A d \in Columns : Has(meta[t].shape, d) /\ Has(want, d) =>
                    want.col[d] = meta[t].shape.col[d]
    PROVE  IInv'
<1> DEFINE k == [pc |-> "ddl", op |-> op, table |-> t, id |-> meta[t].id, column |-> c,
                 want |-> want, history |-> IF Exact(t) THEN "clean" ELSE "alone"]
<1>1. req' = [req EXCEPT ![r] = k] /\ UNCHANGED <<table, meta, migrations, used>>
  BY DEF Begin
<1>2. meta[t].id \in 0..MaxIds
  BY DEF IInv, TypeOK, Row
<1>3. k \in ReqState
  BY <1>2 DEF ReqState
<1>4. TypeOK'
  <2>1. req' \in [Reqs -> ReqState]
    BY <1>1, <1>3 DEF IInv, TypeOK
  <2> QED
    BY <1>1, <2>1 DEF IInv, TypeOK
<1>5. Fresh(k, table[t], meta[t])
  <2>1. Exact(t) => ExactIn(table[t], meta[t])
    BY DEF Exact, ExactIn
  <2> QED
    BY <2>1 DEF Fresh, AlterOps
<1>6. ASSUME NEW q \in Reqs PROVE FreshReq(q)'
  <2>1. CASE q = r
    <3>1. req'[q] = k
      BY <1>1, <2>1 DEF IInv, TypeOK
    <3>2. Fresh(req'[q], table'[t], meta'[t])
      BY <1>1, <1>5, <3>1
    <3>3. k.table = t
      OBVIOUS
    <3> QED
      BY <3>1, <3>2, <3>3 DEF FreshReq
  <2>2. CASE q # r
    <3>1. req'[q] = req[q]
      BY <1>1, <2>2 DEF IInv, TypeOK
    <3> QED
      BY <1>1, <3>1 DEF IInv, FreshReq
  <2> QED
    BY <2>1, <2>2
<1> QED
  BY <1>4, <1>6 DEF IInv

\* What a request reads of a row is well typed.
LEMMA RowShape ==
    ASSUME TypeOK, NEW t \in Tables
    PROVE  /\ meta[t].id \in 0..MaxIds
           /\ meta[t].shape \in Shape
           /\ meta[t].shape.col \in [Columns -> Kinds]
           /\ meta[t].shape.from \in [Columns -> Columns \cup {None}]
           /\ meta[t].shape.rls \in Modes
BY DEF TypeOK, Row, Shape

\* Every request that begins.
LEMMA StartKeeps == ASSUME IInv, NEW r \in Reqs, Start(r) PROVE IInv'
<1> USE DEF IInv
<1> PICK t \in Tables :
        \/ CreateAppTable(r, t) \/ UpdateAppTable(r, t) \/ DeleteAppTable(r, t)
        \/ \E mode \in Modes : UpdateTableRLSMode(r, t, mode)
        \/ \E c \in Columns : AddColumnForeignKey(r, t, c) \/ RemoveColumnForeignKey(r, t, c)
        \/ \E new \in Additions : AddTableColumn(r, t, new[1], new[2])
  BY DEF Start
<1>0. {"create", "replace", "delete", "set_rls", "add_column"} \cap AlterOps = {}
  BY DEF AlterOps
<1>1. CASE CreateAppTable(r, t)
  <2>1. PICK s \in Bodies : Begin(r, "create", t, None, s)
    BY <1>1 DEF CreateAppTable
  <2>2. s \in Shape /\ meta[t].id = 0
    BY <1>1, BodiesAreShapes DEF CreateAppTable, Stored
  <2> QED
    BY <1>0, <2>1, <2>2, BeginKeeps DEF Ops, ApplyOps
<1>2. CASE UpdateAppTable(r, t)
  <2>1. PICK s \in Bodies :
          /\ \A c \in Columns : Has(meta[t].shape, c) /\ Has(s, c) => s.col[c] = meta[t].shape.col[c]
          /\ Begin(r, "replace", t, None, s)
    BY <1>2 DEF UpdateAppTable
  <2>2. s \in Shape /\ meta[t].id # 0
    BY <1>2, BodiesAreShapes DEF UpdateAppTable, Stored
  <2> QED
    BY <1>0, <2>1, <2>2, BeginKeeps DEF Ops, ApplyOps
<1>3. CASE DeleteAppTable(r, t)
  <2>1. Begin(r, "delete", t, None, NoShape) /\ meta[t].id # 0
    BY <1>3 DEF DeleteAppTable, Stored
  <2>2. "delete" \in Ops /\ "delete" \notin ApplyOps
    BY DEF Ops, ApplyOps
  <2> QED
    BY <1>0, <2>1, <2>2, IdleTypes, BeginKeeps
<1>4. CASE \E mode \in Modes : UpdateTableRLSMode(r, t, mode)
  <2>1. PICK mode \in Modes : UpdateTableRLSMode(r, t, mode)
    BY <1>4
  <2> DEFINE s == [meta[t].shape EXCEPT !.rls = mode]
  <2>2. s \in Shape /\ s.col = meta[t].shape.col
    BY RowShape DEF Shape
  <2>3. Begin(r, "set_rls", t, None, s) /\ meta[t].id # 0
    BY <2>1 DEF UpdateTableRLSMode, Stored
  <2> HIDE DEF s
  <2> QED
    BY <1>0, <2>2, <2>3, BeginKeeps DEF Ops, ApplyOps
<1>5. CASE \E c \in Columns : AddColumnForeignKey(r, t, c) \/ RemoveColumnForeignKey(r, t, c)
  <2> PICK c \in Columns : AddColumnForeignKey(r, t, c) \/ RemoveColumnForeignKey(r, t, c)
    BY <1>5
  <2>1. CASE AddColumnForeignKey(r, t, c)
    <3> DEFINE s == [meta[t].shape EXCEPT !.col[c] = "constrained"]
    <3>1. s \in Shape
      BY RowShape DEF Shape, Kinds
    <3>2. Begin(r, "add_fk", t, c, s) /\ meta[t].id # 0 /\ meta[t].shape.col[c] = "plain"
      BY <2>1 DEF AddColumnForeignKey, Stored
    <3>3. "add_fk" \in Ops /\ "add_fk" \notin ApplyOps
      BY DEF Ops, ApplyOps, AlterOps
    <3> QED
      BY <3>1, <3>2, <3>3, BeginKeeps
  <2>2. CASE RemoveColumnForeignKey(r, t, c)
    <3> DEFINE s == [meta[t].shape EXCEPT !.col[c] = "plain"]
    <3>1. s \in Shape
      BY RowShape DEF Shape, Kinds
    <3>2. Begin(r, "drop_fk", t, c, s) /\ meta[t].id # 0 /\ meta[t].shape.col[c] = "constrained"
      BY <2>2 DEF RemoveColumnForeignKey, Stored
    <3>3. "drop_fk" \in Ops /\ "drop_fk" \notin ApplyOps
      BY DEF Ops, ApplyOps, AlterOps
    <3> QED
      BY <3>1, <3>2, <3>3, BeginKeeps
  <2> QED
    BY <2>1, <2>2
<1>6. CASE \E new \in Additions : AddTableColumn(r, t, new[1], new[2])
  <2> PICK new \in Additions : AddTableColumn(r, t, new[1], new[2])
    BY <1>6
  <2> DEFINE c == new[1]
             kind == new[2]
             s == [meta[t].shape EXCEPT !.col[c] = kind, !.from[c] = None]
  <2>1. c \in Columns /\ kind \in {"plain", "constrained"}
    BY AdditionsAreColumns
  <2>2. s \in Shape
    BY <2>1, RowShape DEF Shape, Kinds
  <2>3. Begin(r, "add_column", t, None, s) /\ meta[t].id # 0 /\ ~Has(meta[t].shape, c)
    BY DEF AddTableColumn, Stored
  <2>4. \A d \in Columns \ {c} : s.col[d] = meta[t].shape.col[d]
    BY <2>1, RowShape
  <2> HIDE DEF s, c
  <2> QED
    BY <1>0, <2>2, <2>3, <2>4, BeginKeeps DEF Ops, ApplyOps
<1> QED
  BY <1>1, <1>2, <1>3, <1>4, <1>5, <1>6

\* A request fails: nothing is left of it.
LEMMA FailKeeps == ASSUME IInv, NEW r \in Reqs, Fail(r) PROVE IInv'
<1>1. req' = [req EXCEPT ![r] = ReqIdle] /\ UNCHANGED <<table, meta, migrations, used>>
  BY DEF Fail
<1>2. TypeOK'
  BY <1>1, IdleTypes DEF IInv, TypeOK
<1>3. ASSUME NEW q \in Reqs PROVE FreshReq(q)'
  <2>1. CASE q = r
    <3>1. req'[q].pc = "idle"
      BY <1>1, <2>1 DEF IInv, TypeOK, ReqIdle
    <3> QED
      BY <3>1 DEF FreshReq, Fresh
  <2>2. CASE q # r
    BY <1>1, <2>2 DEF IInv, TypeOK, FreshReq
  <2> QED
    BY <2>1, <2>2
<1> QED
  BY <1>2, <1>3 DEF IInv

\* A request that has done its DDL.
Moved(r) == [req[r] EXCEPT !.pc = "write"]

\* Only its program counter differs.
LEMMA MovedParts ==
    ASSUME TypeOK, NEW r \in Reqs
    PROVE  /\ Moved(r) \in ReqState
           /\ Moved(r).pc = "write" /\ Moved(r).op = req[r].op
           /\ Moved(r).table = req[r].table /\ Moved(r).column = req[r].column
           /\ Moved(r).want = req[r].want /\ Moved(r).history = req[r].history
<1>1. req[r] \in ReqState
  BY DEF TypeOK
<1> QED
  BY <1>1 DEF Moved, ReqState

\* What Goto means for each request.
LEMMA GotoMeans ==
    ASSUME TypeOK, NEW r \in Reqs, NEW pc \in {"idle", "write"}, Goto(r, pc)
    PROVE  /\ req' \in [Reqs -> ReqState]
           /\ req'[r] = IF pc = "idle" THEN ReqIdle ELSE Moved(r)
           /\ \A q \in Reqs \ {r} :
                 /\ req'[q].pc = req[q].pc
                 /\ IF req[q].pc # "idle" /\ req[q].table = req[r].table
                    THEN req'[q].history = "raced" ELSE req'[q] = req[q]
<1> DEFINE old(q) == req[q]
           new(q) == IF q = r THEN (IF pc = "idle" THEN ReqIdle ELSE Moved(r))
                     ELSE IF req[q].pc # "idle" /\ req[q].table = req[r].table
                          THEN [req[q] EXCEPT !.history = "raced"] ELSE req[q]
<1>1. req' = [q \in Reqs |-> new(q)]
  BY DEF Goto, Moved
<1>2. ASSUME NEW q \in Reqs PROVE new(q) \in ReqState
  <2>1. req[q] \in ReqState /\ req[r] \in ReqState
    BY DEF TypeOK
  <2>2. [req[q] EXCEPT !.history = "raced"] \in ReqState
    BY <2>1 DEF ReqState
  <2> QED
    BY <2>1, <2>2, MovedParts, IdleTypes
<1>3. req' \in [Reqs -> ReqState]
  BY <1>1, <1>2
<1>4. ASSUME NEW q \in Reqs \ {r}
      PROVE  /\ req'[q].pc = req[q].pc
             /\ IF req[q].pc # "idle" /\ req[q].table = req[r].table
                THEN req'[q].history = "raced" ELSE req'[q] = req[q]
  <2>1. req'[q] = new(q) /\ req[q] \in ReqState
    BY <1>1 DEF TypeOK
  <2> QED
    BY <2>1 DEF ReqState
<1> QED
  BY <1>1, <1>3, <1>4

\* A request goes on, and changes its own table and row at most.
LEMMA GotoKeeps ==
    ASSUME IInv, NEW r \in Reqs, NEW pc \in {"idle", "write"}, Goto(r, pc),
           table' \in [Tables -> Table],
           \A t \in Tables : ~table'[t].exists => table'[t] = NoTable,
           meta' \in [Tables -> Row],
           migrations' \in SUBSET (Tables \X Columns \X Columns),
           used' \in 0..MaxIds,
           \A t \in Tables \ {req[r].table} : table'[t] = table[t] /\ meta'[t] = meta[t],
           pc = "write" => Fresh(Moved(r), table'[req[r].table], meta'[req[r].table])
    PROVE  IInv'
<1>1. TypeOK
  BY DEF IInv
<1>2. TypeOK'
  BY <1>1, GotoMeans DEF TypeOK
<1>3. ASSUME NEW q \in Reqs PROVE FreshReq(q)'
  <2>1. CASE q = r /\ pc = "idle"
    <3>1. req'[q] = ReqIdle
      BY <1>1, <2>1, GotoMeans
    <3>2. ReqIdle.pc = "idle"
      BY DEF ReqIdle
    <3>3. req'[q].pc = "idle"
      BY <3>1, <3>2
    <3> QED
      BY <3>3 DEF FreshReq, Fresh
  <2>2. CASE q = r /\ pc = "write"
    <3>1. req'[q] = Moved(r)
      BY <1>1, <2>2, GotoMeans
    <3>2. req'[q].table = req[r].table
      BY <1>1, <3>1, MovedParts
    <3>3. Fresh(req'[q], table'[req[r].table], meta'[req[r].table])
      BY <2>2, <3>1
    <3> QED
      BY <3>2, <3>3 DEF FreshReq
  <2>3. CASE q # r /\ req[q].pc # "idle" /\ req[q].table = req[r].table
    <3>1. req'[q].history = "raced"
      BY <1>1, <2>3, GotoMeans
    <3> QED
      BY <3>1 DEF FreshReq, Fresh
  <2>4. CASE q # r /\ ~(req[q].pc # "idle" /\ req[q].table = req[r].table)
    <3>1. req'[q] = req[q]
      BY <1>1, <2>4, GotoMeans
    <3>2. CASE req[q].pc = "idle"
      BY <3>1, <3>2 DEF FreshReq, Fresh
    <3>3. CASE req[q].table # req[r].table
      <4>1. req[q].table \in Tables
        BY <1>1 DEF TypeOK, ReqState
      <4>2. table'[req[q].table] = table[req[q].table] /\ meta'[req[q].table] = meta[req[q].table]
        BY <3>3, <4>1
      <4> QED
        BY <3>1, <4>2 DEF IInv, FreshReq
    <3> QED
      BY <2>4, <3>2, <3>3
  <2> QED
    BY <2>1, <2>2, <2>3, <2>4
<1> QED
  BY <1>2, <1>3 DEF IInv

\* The parts of a request.
LEMMA ReqParts ==
    ASSUME TypeOK, NEW r \in Reqs
    PROVE  /\ req[r] \in ReqState
           /\ req[r].table \in Tables
           /\ req[r].want \in Shape
           /\ req[r].want.col \in [Columns -> Kinds]
           /\ req[r].want.from \in [Columns -> Columns \cup {None}]
BY DEF TypeOK, ReqState, Shape

\* The table of a request: its parts.
LEMMA TableParts ==
    ASSUME TypeOK, NEW t \in Tables
    PROVE  /\ table[t] \in Table
           /\ table[t].exists \in BOOLEAN /\ table[t].secured \in BOOLEAN
           /\ table[t].col \in [Columns -> Kinds \cup {"twice"}]
           /\ ~table[t].exists => ~table[t].secured /\ \A c \in Columns : table[t].col[c] = "absent"
BY DEF TypeOK, Table, NoTable, NoColumns

\* A request that nobody overtook stays fresh if its DDL made the table what
\* it is about to store.
LEMMA FreshAfter ==
    ASSUME TypeOK, NEW r \in Reqs, NEW tb, FreshReq(r), req[r].pc = "ddl",
           req[r].op \in ApplyOps =>
              tb.exists /\ \A c \in Columns : Has(req[r].want, c) => tb.col[c] # "absent",
           req[r].history = "clean" => Agrees(Moved(r), tb)
    PROVE  Fresh(Moved(r), tb, meta[req[r].table])
BY MovedParts DEF FreshReq, Fresh

\* The table is created as the request says.
LEMMA CreateTableKeeps == ASSUME IInv, NEW r \in Reqs, CreateTable(r) PROVE IInv'
<1> DEFINE t == req[r].table
           s == req[r].want
           tb == [exists |-> TRUE, secured |-> SecuredFromTheStart(s.rls), col |-> s.col]
<1>0. TypeOK /\ t \in Tables
  BY ReqParts DEF IInv
<1>1. /\ req[r].pc = "ddl" /\ req[r].op \in ApplyOps
      /\ table' = [table EXCEPT ![t] = tb]
      /\ Goto(r, "write")
      /\ UNCHANGED <<meta, migrations, used>>
  BY DEF CreateTable, At
<1>2. tb \in Table
  BY <1>0, ReqParts DEF Table, SecuredFromTheStart
<1>3. /\ table' \in [Tables -> Table]
      /\ table'[t] = tb
      /\ \A u \in Tables \ {t} : table'[u] = table[u]
  BY <1>0, <1>1, <1>2 DEF TypeOK
<1>4. \A u \in Tables : ~table'[u].exists => table'[u] = NoTable
  BY <1>0, <1>3 DEF TypeOK
<1>5. Fresh(Moved(r), tb, meta[t])
  <2>1. FreshReq(r)
    BY DEF IInv
  <2>2. \A c \in Columns : Has(s, c) => tb.col[c] # "absent"
    BY DEF Has
  <2>3. Agrees(Moved(r), tb)
    BY <1>0, <2>2, ReqParts, MovedParts DEF Agrees, SecuredFromTheStart
  <2> HIDE DEF tb
  <2>4. tb.exists
    BY DEF tb
  <2> QED
    BY <1>0, <1>1, <2>1, <2>2, <2>3, <2>4, ReqParts, MovedParts DEF FreshReq, Fresh
<1> HIDE DEF tb
<1> QED
  BY <1>0, <1>1, <1>3, <1>4, <1>5, GotoKeeps DEF TypeOK

\* Renaming and adding columns is typed, loses nothing that is asked for, and
\* without a rename changes only what was absent.
LEMMA ColumnsFilled ==
    ASSUME NEW cols \in [Columns -> Kinds \cup {"twice"}], NEW s \in Shape
    PROVE  LET new == ToRename(cols, s)
               out == Filled(RenamedColumns(cols, s), s) IN
           /\ out \in [Columns -> Kinds \cup {"twice"}]
           /\ \A c \in Columns : Has(s, c) => out[c] # "absent"
           /\ \A c \in Columns : s.from[c] = None /\ (Has(s, c) /\ cols[c] # "absent" => s.col[c] = cols[c])
                                 /\ Has(s, c) => out[c] = s.col[c]
           /\ new = {} => \A c \in Columns : cols[c] # "absent" => out[c] # "absent"
<1> DEFINE new == ToRename(cols, s)
           mid == RenamedColumns(cols, s)
           out == Filled(mid, s)
<1>1. s.col \in [Columns -> Kinds] /\ s.from \in [Columns -> Columns \cup {None}]
  BY DEF Shape
<1>2. \A c \in new : c \in Columns /\ s.from[c] # None /\ s.from[c] \in Columns
  BY <1>1 DEF ToRename
<1>3. \A c \in Columns : mid[c] = IF c \in new THEN cols[s.from[c]]
                                  ELSE IF \E d \in new : s.from[d] = c THEN "absent"
                                  ELSE cols[c]
  BY DEF RenamedColumns
<1> HIDE DEF new
<1>4. \A c \in Columns : mid[c] \in Kinds \cup {"twice"}
  BY <1>2, <1>3 DEF Kinds
<1> HIDE DEF mid
<1>5. \A c \in Columns : out[c] = IF mid[c] = "absent" THEN s.col[c] ELSE mid[c]
  BY DEF Filled
<1>6. out \in [Columns -> Kinds \cup {"twice"}]
  BY <1>1, <1>4 DEF Filled
<1> HIDE DEF out
<1>7. \A c \in Columns : Has(s, c) => out[c] # "absent"
  BY <1>5 DEF Has
<1>8. ASSUME NEW c \in Columns, s.from[c] = None, Has(s, c), cols[c] # "absent" => s.col[c] = cols[c]
      PROVE  out[c] = s.col[c]
  <2>1. c \notin new
    BY <1>2, <1>8
  <2>2. mid[c] = "absent" \/ mid[c] = cols[c]
    BY <1>3, <2>1
  <2> QED
    BY <1>5, <1>8, <2>2
<1>9. ASSUME new = {}, NEW c \in Columns, cols[c] # "absent" PROVE out[c] # "absent"
  <2>1. mid[c] = cols[c]
    BY <1>3, <1>9
  <2> QED
    BY <1>5, <1>9, <2>1
<1> QED
  BY <1>6, <1>7, <1>8, <1>9 DEF new, out, mid

\* The columns of one table change, and nothing else of the tables.
LEMMA ColumnsChange ==
    ASSUME TypeOK, NEW t \in Tables, table[t].exists,
           NEW cols \in [Columns -> Kinds \cup {"twice"}],
           table' = [table EXCEPT ![t].col = cols]
    PROVE  /\ table' \in [Tables -> Table]
           /\ \A u \in Tables : ~table'[u].exists => table'[u] = NoTable
           /\ table'[t].exists /\ table'[t].col = cols /\ table'[t].secured = table[t].secured
           /\ \A u \in Tables \ {t} : table'[u] = table[u]
<1>1. table \in [Tables -> Table] /\ table[t] \in Table
  BY DEF TypeOK
<1>2. table'[t] = [table[t] EXCEPT !.col = cols] /\ \A u \in Tables \ {t} : table'[u] = table[u]
  BY <1>1
<1>3. /\ table'[t] \in Table /\ table'[t].exists
      /\ table'[t].col = cols /\ table'[t].secured = table[t].secured
  BY <1>1, <1>2 DEF Table
<1>4. table' \in [Tables -> Table]
  BY <1>1, <1>2, <1>3
<1> QED
  BY <1>2, <1>3, <1>4 DEF TypeOK

\* What ChangeTable does to its own table.
LEMMA ChangeTableMeans ==
    ASSUME TypeOK, NEW r \in Reqs, ChangeTable(r)
    PROVE  LET t == req[r].table
               s == req[r].want
               cols == Filled(RenamedColumns(table[t].col, s), s) IN
           /\ req[r].pc = "ddl" /\ req[r].op \in ApplyOps /\ table[t].exists
           /\ cols \in [Columns -> Kinds \cup {"twice"}]
           /\ table' = [table EXCEPT ![t].col = cols]
           /\ migrations' \in SUBSET (Tables \X Columns \X Columns)
           /\ migrations' # migrations \/ ToRename(table[t].col, s) = {}
           /\ Goto(r, "write") /\ UNCHANGED <<meta, used>>
<1> DEFINE t == req[r].table
           s == req[r].want
           cols == Filled(RenamedColumns(table[t].col, s), s)
           new == ToRename(table[t].col, s)
           done == {<<t, s.from[c], c>> : c \in new}
<1>1. /\ req[r].pc = "ddl" /\ req[r].op \in ApplyOps /\ table[t].exists
      /\ done \cap migrations = {} /\ migrations' = migrations \cup done
      /\ table' = [table EXCEPT ![t].col = cols]
      /\ Goto(r, "write") /\ UNCHANGED <<meta, used>>
  BY DEF ChangeTable, At
<1>2. t \in Tables /\ s \in Shape /\ table[t].col \in [Columns -> Kinds \cup {"twice"}]
  BY ReqParts, TableParts
<1>3. cols \in [Columns -> Kinds \cup {"twice"}]
  BY <1>2, ColumnsFilled
<1>4. \A c \in new : c \in Columns /\ s.from[c] \in Columns
  BY ReqParts DEF ToRename
<1> HIDE DEF new
<1>5. done \in SUBSET (Tables \X Columns \X Columns)
  BY <1>2, <1>4
<1>6. new # {} => done # {}
  OBVIOUS
<1>7. migrations' # migrations \/ new = {}
  BY <1>1, <1>6
<1>8. migrations' \in SUBSET (Tables \X Columns \X Columns)
  BY <1>1, <1>5 DEF TypeOK
<1> QED
  BY <1>1, <1>3, <1>7, <1>8 DEF new

\* The columns of an existing table are renamed and added.
LEMMA ChangeTableKeeps == ASSUME IInv, NEW r \in Reqs, ChangeTable(r) PROVE IInv'
<1> DEFINE t == req[r].table
           s == req[r].want
           cols == Filled(RenamedColumns(table[t].col, s), s)
<1>0. TypeOK /\ t \in Tables /\ s \in Shape /\ table[t].col \in [Columns -> Kinds \cup {"twice"}]
  BY ReqParts, TableParts DEF IInv
<1>1. /\ req[r].pc = "ddl" /\ req[r].op \in ApplyOps /\ table[t].exists
      /\ cols \in [Columns -> Kinds \cup {"twice"}]
      /\ table' = [table EXCEPT ![t].col = cols]
      /\ migrations' \in SUBSET (Tables \X Columns \X Columns)
      /\ Goto(r, "write") /\ UNCHANGED <<meta, used>>
  BY <1>0, ChangeTableMeans
<1>2. /\ \A c \in Columns : Has(s, c) => cols[c] # "absent"
      /\ \A c \in Columns : s.from[c] = None /\ (Has(s, c) /\ table[t].col[c] # "absent" => s.col[c] = table[t].col[c])
                            /\ Has(s, c) => cols[c] = s.col[c]
  BY <1>0, ColumnsFilled
<1> HIDE DEF cols
<1>3. /\ table' \in [Tables -> Table]
      /\ \A u \in Tables : ~table'[u].exists => table'[u] = NoTable
      /\ table'[t].exists /\ table'[t].col = cols
      /\ \A u \in Tables \ {t} : table'[u] = table[u]
  BY <1>0, <1>1, ColumnsChange
<1>4. Fresh(Moved(r), table'[t], meta[t])
  <2>1. FreshReq(r)
    BY DEF IInv
  <2>3. ASSUME req[r].history = "clean" PROVE Agrees(Moved(r), table'[t])
    <3>1. ExactIn(table[t], meta[t]) /\ (req[r].op = "create" <=> meta[t].id = 0)
      BY <1>1, <2>1, <2>3 DEF FreshReq, Fresh
    <3>2. req[r].op # "create" /\ table[t].col = meta[t].shape.col
      BY <1>1, <3>1 DEF ExactIn
    <3>3. \A c \in Columns : Has(meta[t].shape, c) /\ Has(s, c) => s.col[c] = meta[t].shape.col[c]
      BY <1>1, <2>1, <2>3, <3>2 DEF FreshReq, Fresh
    <3>4. \A c \in Columns : Has(s, c) /\ s.from[c] = None => cols[c] = s.col[c]
      BY <1>2, <3>2, <3>3 DEF Has
    <3> QED
      BY <1>0, <1>2, <1>3, <3>2, <3>4, MovedParts DEF Agrees
  <2>4. table'[t].exists /\ \A c \in Columns : Has(s, c) => table'[t].col[c] # "absent"
    BY <1>2, <1>3
  <2>5. req[r].history = "clean" => Agrees(Moved(r), table'[t])
    BY <2>3
  <2> QED
    BY <1>0, <1>1, <2>1, <2>4, <2>5, FreshAfter
<1> QED
  BY <1>0, <1>1, <1>3, <1>4, GotoKeeps DEF TypeOK

\* At most the foreign key of one existing column changes.
AlterStep(r) ==
    LET t == req[r].table
        c == req[r].column IN
    /\ req[r].pc = "ddl" /\ req[r].op \in AlterOps
    /\ Goto(r, "write") /\ UNCHANGED <<meta, migrations, used>>
    /\ \/ /\ UNCHANGED table
          /\ c \in Columns => req[r].op = "drop_fk" /\ table[t].col[c] # "constrained"
       \/ /\ c \in Columns /\ table[t].exists /\ table[t].col[c] # "absent"
          /\ \E kind \in {"plain", "constrained", "twice"} :
                /\ table' = [table EXCEPT ![t].col = [table[t].col EXCEPT ![c] = kind]]
                /\ req[r].op = "add_fk" /\ table[t].col[c] = "plain" => kind = "constrained"
                /\ req[r].op = "drop_fk" /\ table[t].col[c] = "constrained" => kind = "plain"

\* ADD CONSTRAINT is such a step.
LEMMA AddMeans == ASSUME TypeOK, NEW r \in Reqs, AlterAddForeignKey(r) PROVE AlterStep(r)
<1> DEFINE t == req[r].table
           c == req[r].column
           kind == IF table[t].col[c] = "plain" THEN "constrained" ELSE "twice"
<1>1. /\ req[r].pc = "ddl" /\ req[r].op = "add_fk" /\ table[t].col[c] # "absent"
      /\ table' = [table EXCEPT ![t].col[c] = kind]
      /\ Goto(r, "write") /\ UNCHANGED <<meta, migrations, used>>
  BY DEF AlterAddForeignKey, At
<1>2. /\ t \in Tables /\ table \in [Tables -> Table]
      /\ table[t] \in Table /\ table[t].col \in [Columns -> Kinds \cup {"twice"}]
  BY ReqParts, TableParts DEF TypeOK
<1>3. CASE c \in Columns
  <2>1. table' = [table EXCEPT ![t].col = [table[t].col EXCEPT ![c] = kind]]
    BY <1>1, <1>2, <1>3
  <2>2. table[t].exists
    BY <1>1, <1>2, <1>3, TableParts
  <2>3. kind \in {"plain", "constrained", "twice"}
    OBVIOUS
  <2> QED
    BY <1>1, <1>3, <2>1, <2>2, <2>3 DEF AlterStep, AlterOps
<1>4. CASE c \notin Columns
  <2>1. [table[t].col EXCEPT ![c] = kind] = table[t].col
    BY <1>2, <1>4
  <2>2. [table[t] EXCEPT !.col = table[t].col] = table[t]
    BY <1>2 DEF Table
  <2>3. table' = [table EXCEPT ![t] = [table[t] EXCEPT !.col = [table[t].col EXCEPT ![c] = kind]]]
    BY <1>1
  <2>4. table' = [table EXCEPT ![t] = table[t]]
    BY <2>1, <2>2, <2>3
  <2>5. table' = table
    BY <1>2, <2>4
  <2> QED
    BY <1>1, <1>4, <2>5 DEF AlterStep, AlterOps
<1> QED
  BY <1>3, <1>4

\* DROP CONSTRAINT is such a step.
LEMMA DropMeans == ASSUME TypeOK, NEW r \in Reqs, AlterDropForeignKey(r) PROVE AlterStep(r)
<1> DEFINE t == req[r].table
           c == req[r].column
<1>1. /\ req[r].pc = "ddl" /\ req[r].op = "drop_fk"
      /\ IF table[t].col[c] \in {"constrained", "twice"}
         THEN \E kind \in OneLess(table[t].col[c]) : table' = [table EXCEPT ![t].col[c] = kind]
         ELSE UNCHANGED table
      /\ Goto(r, "write") /\ UNCHANGED <<meta, migrations, used>>
  BY DEF AlterDropForeignKey, At, ForeignKeyFound
<1>2. /\ t \in Tables /\ table \in [Tables -> Table]
      /\ table[t] \in Table /\ table[t].col \in [Columns -> Kinds \cup {"twice"}]
  BY ReqParts, TableParts DEF TypeOK
<1>3. CASE table[t].col[c] \notin {"constrained", "twice"}
  BY <1>1, <1>3 DEF AlterStep, AlterOps
<1>4. CASE table[t].col[c] \in {"constrained", "twice"}
  <2>1. PICK kind \in OneLess(table[t].col[c]) : table' = [table EXCEPT ![t].col[c] = kind]
    BY <1>1, <1>4
  <2>2. /\ kind \in {"plain", "constrained", "twice"}
        /\ table[t].col[c] = "constrained" => kind = "plain"
    BY DEF OneLess
  <2>3. CASE c \in Columns
    <3>1. table' = [table EXCEPT ![t].col = [table[t].col EXCEPT ![c] = kind]]
      BY <1>2, <2>1, <2>3
    <3>2. table[t].exists
      BY <1>2, <1>4, <2>3, TableParts
    <3> QED
      BY <1>1, <1>4, <2>2, <2>3, <3>1, <3>2 DEF AlterStep, AlterOps
  <2>4. CASE c \notin Columns
    <3>1. [table[t].col EXCEPT ![c] = kind] = table[t].col
      BY <1>2, <2>4
    <3>2. [table[t] EXCEPT !.col = table[t].col] = table[t]
      BY <1>2 DEF Table
    <3>3. table' = [table EXCEPT ![t] = [table[t] EXCEPT !.col = [table[t].col EXCEPT ![c] = kind]]]
      BY <2>1
    <3>4. table' = [table EXCEPT ![t] = table[t]]
      BY <3>1, <3>2, <3>3
    <3>5. table' = table
      BY <1>2, <3>4
    <3> QED
      BY <1>1, <2>4, <3>5 DEF AlterStep, AlterOps
  <2> QED
    BY <2>3, <2>4
<1> QED
  BY <1>3, <1>4

\* What such a step leaves of the tables.
LEMMA AlterLeaves ==
    ASSUME TypeOK, NEW r \in Reqs, AlterStep(r)
    PROVE  LET t == req[r].table IN
           /\ table' \in [Tables -> Table]
           /\ \A u \in Tables : ~table'[u].exists => table'[u] = NoTable
           /\ table'[t].exists = table[t].exists /\ table'[t].secured = table[t].secured
           /\ \A c \in Columns : table[t].col[c] # "absent" => table'[t].col[c] # "absent"
           /\ \A u \in Tables \ {t} : table'[u] = table[u]
<1> DEFINE t == req[r].table
           c == req[r].column
<1>1. t \in Tables /\ table[t].col \in [Columns -> Kinds \cup {"twice"}]
  BY ReqParts, TableParts
<1>2. CASE UNCHANGED table
  BY <1>1, <1>2 DEF TypeOK
<1>3. CASE /\ c \in Columns /\ table[t].exists
           /\ \E kind \in {"plain", "constrained", "twice"} :
                 table' = [table EXCEPT ![t].col = [table[t].col EXCEPT ![c] = kind]]
  <2>1. PICK kind \in {"plain", "constrained", "twice"} :
           table' = [table EXCEPT ![t].col = [table[t].col EXCEPT ![c] = kind]]
    BY <1>3
  <2> DEFINE cols == [table[t].col EXCEPT ![c] = kind]
  <2>2. cols \in [Columns -> Kinds \cup {"twice"}]
    BY <1>1 DEF Kinds
  <2>3. \A d \in Columns : table[t].col[d] # "absent" => cols[d] # "absent"
    BY <1>1
  <2> HIDE DEF cols
  <2>4. table' = [table EXCEPT ![t].col = cols]
    BY <2>1 DEF cols
  <2>5. /\ table' \in [Tables -> Table]
        /\ \A u \in Tables : ~table'[u].exists => table'[u] = NoTable
        /\ table'[t].exists /\ table'[t].col = cols /\ table'[t].secured = table[t].secured
        /\ \A u \in Tables \ {t} : table'[u] = table[u]
    BY <1>1, <1>3, <2>2, <2>4, ColumnsChange
  <2>6. table'[t].exists = table[t].exists
    BY <1>1, <1>3, <2>5, TableParts DEF Table
  <2> QED
    BY <2>3, <2>5, <2>6
<1> QED
  BY <1>2, <1>3 DEF AlterStep

\* The foreign key of a column is added or dropped.
LEMMA AlterKeeps == ASSUME IInv, NEW r \in Reqs, AlterStep(r) PROVE IInv'
<1> DEFINE t == req[r].table
           c == req[r].column
           row == meta[t]
<1>0. /\ TypeOK /\ t \in Tables /\ row.shape.col \in [Columns -> Kinds] /\ row.shape \in Shape
      /\ table[t].col \in [Columns -> Kinds \cup {"twice"}] /\ table \in [Tables -> Table]
  BY ReqParts, TableParts, RowShape DEF IInv, TypeOK
<1>1. /\ req[r].pc = "ddl" /\ req[r].op \in AlterOps
      /\ Goto(r, "write") /\ UNCHANGED <<meta, migrations, used>>
  BY DEF AlterStep
<1>2. /\ table' \in [Tables -> Table]
      /\ \A u \in Tables : ~table'[u].exists => table'[u] = NoTable
      /\ table'[t].exists = table[t].exists
      /\ \A u \in Tables \ {t} : table'[u] = table[u]
  BY <1>0, AlterLeaves
<1>3. ASSUME req[r].history = "clean" PROVE Agrees(Moved(r), table'[t])
  <2> DEFINE kind == IF req[r].op = "add_fk" THEN "constrained" ELSE "plain"
             was == IF req[r].op = "add_fk" THEN "plain" ELSE "constrained"
  <2>1. Fresh(req[r], table[t], row)
    BY DEF IInv, FreshReq
  <2>2. req[r].op # "create" /\ row.id # 0 /\ ExactIn(table[t], row)
    BY <1>1, <1>3, <2>1 DEF Fresh, AlterOps
  <2>3. table[t].exists /\ table[t].col = row.shape.col
    BY <2>2 DEF ExactIn
  <2>4. c \in Columns /\ row.shape.col[c] = was
    BY <1>1, <1>3, <2>1 DEF Fresh, AlterOps
  <2>5. req[r].want = [row.shape EXCEPT !.col[c] = kind]
    BY <1>1, <1>3, <2>1 DEF Fresh, AlterOps
  <2>6. req[r].want.col = [row.shape.col EXCEPT ![c] = kind]
    BY <1>0, <2>5 DEF Shape
  <2>7. table' = [table EXCEPT ![t].col = [table[t].col EXCEPT ![c] = kind]]
    BY <1>1, <2>3, <2>4 DEF AlterStep, AlterOps
  <2>8. table'[t].col = req[r].want.col
    BY <1>0, <2>3, <2>6, <2>7 DEF Table
  <2> QED
    BY <1>0, <1>2, <2>2, <2>3, <2>8, MovedParts DEF Agrees, Has
<1>4. Fresh(Moved(r), table'[t], meta[t])
  <2>1. FreshReq(r) /\ req[r].op \notin ApplyOps
    BY <1>1 DEF IInv, ApplyOps, AlterOps
  <2>2. req[r].history = "clean" => Agrees(Moved(r), table'[t])
    BY <1>3
  <2> QED
    BY <1>0, <1>1, <2>1, <2>2, FreshAfter
<1> QED
  BY <1>0, <1>1, <1>2, <1>4, GotoKeeps DEF TypeOK

\* What DropTable does: table and row go together.
LEMMA DropTableMeans ==
    ASSUME TypeOK, NEW r \in Reqs, DropTable(r)
    PROVE  LET t == req[r].table IN
           /\ table' \in [Tables -> Table] /\ meta' \in [Tables -> Row]
           /\ table'[t] = NoTable /\ meta'[t] = NoRow
           /\ \A u \in Tables \ {t} : table'[u] = table[u] /\ meta'[u] = meta[u]
           /\ req[r].pc = "ddl" /\ Goto(r, "idle") /\ UNCHANGED <<migrations, used>>
<1> DEFINE t == req[r].table
<1>1. /\ req[r].pc = "ddl" /\ meta[t].id = req[r].id
      /\ table' = [table EXCEPT ![t] = NoTable]
      /\ meta' = [meta EXCEPT ![t] = IF meta[t].id = req[r].id THEN NoRow ELSE meta[t]]
      /\ Goto(r, "idle") /\ UNCHANGED <<migrations, used>>
  BY DEF DropTable, At, RowFound
<1>2. t \in Tables /\ table \in [Tables -> Table] /\ meta \in [Tables -> Row]
  BY ReqParts DEF TypeOK
<1>3. meta' = [meta EXCEPT ![t] = NoRow]
  BY <1>1
<1> QED
  BY <1>1, <1>2, <1>3, IdleTypes

\* The row is inserted.
LEMMA InsertMeans ==
    ASSUME TypeOK, NEW r \in Reqs, InsertAppTable(r)
    PROVE  LET t == req[r].table IN
           /\ req[r].pc = "write" /\ req[r].op = "create"
           /\ meta[t].id = 0 /\ used' \in 0..MaxIds /\ meta' \in [Tables -> Row]
           /\ meta'[t].id # 0 /\ meta'[t].shape = req[r].want
           /\ \A u \in Tables \ {t} : meta'[u] = meta[u]
           /\ Goto(r, "idle") /\ UNCHANGED <<table, migrations>>
<1> DEFINE t == req[r].table
           new == [id |-> used + 1, shape |-> req[r].want]
<1>1. /\ req[r].pc = "write" /\ req[r].op = "create" /\ meta[t].id = 0 /\ used < MaxIds
      /\ used' = used + 1 /\ meta' = [meta EXCEPT ![t] = new]
      /\ Goto(r, "idle") /\ UNCHANGED <<table, migrations>>
  BY DEF InsertAppTable, At, Stored
<1>2. t \in Tables /\ meta \in [Tables -> Row] /\ req[r].want \in Shape
  BY ReqParts DEF TypeOK
<1>3. used \in 0..MaxIds /\ used + 1 \in 0..MaxIds /\ used + 1 # 0
  BY <1>1, MaxIdsIsNat DEF TypeOK
<1>4. new \in Row /\ new.id # 0 /\ new.shape = req[r].want
  BY <1>2, <1>3 DEF Row
<1> HIDE DEF new
<1> QED
  BY <1>1, <1>2, <1>3, <1>4

\* The row is overwritten, and the table secured if the row says so.
LEMMA WriteMeans ==
    ASSUME TypeOK, NEW r \in Reqs, WriteAppTable(r)
    PROVE  LET t == req[r].table IN
           /\ req[r].pc = "write" /\ req[r].op \in Ops \ {"create", "delete"}
           /\ table' \in [Tables -> Table] /\ meta' \in [Tables -> Row]
           /\ \A u \in Tables : ~table'[u].exists => table'[u] = NoTable
           /\ table'[t].exists = table[t].exists /\ table'[t].col = table[t].col
           /\ req[r].want.rls = "policy" => table'[t].secured
           /\ meta'[t].shape = req[r].want
           /\ \A u \in Tables \ {t} : table'[u] = table[u] /\ meta'[u] = meta[u]
           /\ Goto(r, "idle") /\ UNCHANGED <<migrations, used>>
<1> DEFINE t == req[r].table
           policy == req[r].want.rls = "policy"
<1>1. /\ req[r].pc = "write" /\ req[r].op \in Ops \ {"create", "delete"}
      /\ policy => table[t].exists
      /\ table' = IF policy THEN [table EXCEPT ![t].secured = TRUE] ELSE table
      /\ meta' = [meta EXCEPT ![t].shape = req[r].want]
      /\ Goto(r, "idle") /\ UNCHANGED <<migrations, used>>
  BY DEF WriteAppTable, At
<1>2. /\ t \in Tables /\ table \in [Tables -> Table] /\ meta \in [Tables -> Row]
      /\ req[r].want \in Shape /\ table[t] \in Table /\ meta[t] \in Row
      /\ \A u \in Tables : ~table[u].exists => table[u] = NoTable
  BY ReqParts DEF TypeOK
<1>3. /\ meta' \in [Tables -> Row] /\ meta'[t].shape = req[r].want
      /\ \A u \in Tables \ {t} : meta'[u] = meta[u]
  <2>1. [meta[t] EXCEPT !.shape = req[r].want] \in Row
    BY <1>2 DEF Row
  <2> QED
    BY <1>1, <1>2, <2>1 DEF Row
<1>4. CASE policy
  <2> DEFINE new == [table[t] EXCEPT !.secured = TRUE]
  <2>1. /\ new \in Table /\ new.secured /\ new.exists
        /\ new.exists = table[t].exists /\ new.col = table[t].col
    BY <1>1, <1>2, <1>4 DEF Table
  <2>2. table' = [table EXCEPT ![t] = new]
    BY <1>1, <1>4
  <2> HIDE DEF new
  <2>3. table' \in [Tables -> Table] /\ table'[t] = new /\ \A u \in Tables \ {t} : table'[u] = table[u]
    BY <1>2, <2>1, <2>2
  <2> QED
    BY <1>1, <1>2, <1>3, <2>1, <2>3
<1>5. CASE ~policy
  BY <1>1, <1>2, <1>3, <1>5
<1> QED
  BY <1>4, <1>5

\* A request that ends, however it does.
LEMMA EndKeeps ==
    ASSUME IInv, NEW r \in Reqs, DropTable(r) \/ InsertAppTable(r) \/ WriteAppTable(r)
    PROVE  IInv'
<1>0. TypeOK /\ req[r].table \in Tables
  BY ReqParts DEF IInv
<1>1. CASE DropTable(r)
  <2> DEFINE t == req[r].table
  <2>1. /\ table' \in [Tables -> Table] /\ meta' \in [Tables -> Row]
        /\ table'[t] = NoTable
        /\ \A u \in Tables \ {t} : table'[u] = table[u] /\ meta'[u] = meta[u]
        /\ Goto(r, "idle") /\ UNCHANGED <<migrations, used>>
    BY <1>0, <1>1, DropTableMeans
  <2>2. \A u \in Tables : ~table'[u].exists => table'[u] = NoTable
    BY <1>0, <2>1 DEF TypeOK
  <2> QED
    BY <1>0, <2>1, <2>2, GotoKeeps DEF TypeOK
<1>2. CASE InsertAppTable(r)
  <2>1. /\ used' \in 0..MaxIds /\ meta' \in [Tables -> Row]
        /\ \A u \in Tables \ {req[r].table} : meta'[u] = meta[u]
        /\ Goto(r, "idle") /\ UNCHANGED <<table, migrations>>
    BY <1>0, <1>2, InsertMeans
  <2> QED
    BY <1>0, <2>1, GotoKeeps DEF TypeOK
<1>3. CASE WriteAppTable(r)
  <2>1. /\ table' \in [Tables -> Table] /\ meta' \in [Tables -> Row]
        /\ \A u \in Tables : ~table'[u].exists => table'[u] = NoTable
        /\ \A u \in Tables \ {req[r].table} : table'[u] = table[u] /\ meta'[u] = meta[u]
        /\ Goto(r, "idle") /\ UNCHANGED <<migrations, used>>
    BY <1>0, <1>3, WriteMeans
  <2> QED
    BY <1>0, <2>1, GotoKeeps DEF TypeOK
<1> QED
  BY <1>1, <1>2, <1>3

\* Every step keeps the invariant.
LEMMA NextKeeps == IInv /\ [Next]_vars => IInv'
<1> SUFFICES ASSUME IInv, [Next]_vars PROVE IInv'
  OBVIOUS
<1>1. CASE UNCHANGED vars
  BY <1>1 DEF vars, IInv, TypeOK, FreshReq
<1>2. CASE Next
  <2>1. PICK r \in Reqs : Start(r) \/ Proceed(r) \/ Fail(r)
    BY <1>2 DEF Next
  <2>2. CASE AlterAddForeignKey(r) \/ AlterDropForeignKey(r)
    <3>1. AlterStep(r)
      BY <2>2, AddMeans, DropMeans DEF IInv
    <3> QED
      BY <3>1, AlterKeeps
  <2> QED
    BY <2>1, <2>2, StartKeeps, FailKeeps, CreateTableKeeps, ChangeTableKeeps, EndKeeps DEF Proceed
<1> QED
  BY <1>1, <1>2

\* What a request knows of its table and row, in every reachable state.
THEOREM Invariant == Spec => []IInv
<1> QED
  BY InitIInv, NextKeeps, PTL DEF Spec

\* The variables keep their types; an absent table has nothing.
THEOREM TypeCorrect == Spec => []TypeOK
<1>1. IInv => TypeOK
  BY DEF IInv
<1> QED
  BY <1>1, Invariant, PTL

-----------------------------------------------------------------------------
\* A step of a request that stores a row is that of InsertAppTable or
\* WriteAppTable.
LEMMA WritesMeans ==
    ASSUME IInv, NEW q \in Reqs, Start(q) \/ Proceed(q) \/ Fail(q), NEW r \in Reqs, Writes(r)
    PROVE  q = r /\ (InsertAppTable(r) \/ WriteAppTable(r))
<1>0. TypeOK
  BY DEF IInv
<1>1. req[r].pc = "write" /\ req'[r].pc = "idle" /\ meta' # meta
  BY DEF Writes
<1>2. ~Start(q) /\ ~Fail(q)
  BY <1>1 DEF Start, Fail, CreateAppTable, UpdateAppTable, DeleteAppTable, UpdateTableRLSMode,
              AddColumnForeignKey, RemoveColumnForeignKey, AddTableColumn, Begin
<1>3. ~CreateTable(q) /\ ~ChangeTable(q) /\ ~AlterAddForeignKey(q) /\ ~AlterDropForeignKey(q)
  BY <1>1 DEF CreateTable, ChangeTable, AlterAddForeignKey, AlterDropForeignKey
<1>4. DropTable(q) \/ InsertAppTable(q) \/ WriteAppTable(q)
  BY <1>2, <1>3 DEF Proceed
<1>5. Goto(q, "idle")
  BY <1>0, <1>4, DropTableMeans, InsertMeans, WriteMeans
<1>6. q = r
  BY <1>0, <1>1, <1>5, GotoMeans
<1>7. ~DropTable(q)
  BY <1>0, <1>1, <1>6, DropTableMeans
<1> QED
  BY <1>4, <1>6, <1>7

\* A request that ends is idle afterwards.
LEMMA EndsIdle ==
    ASSUME TypeOK, NEW r \in Reqs, Goto(r, "idle")
    PROVE  req'[r].pc = "idle"
<1>1. req'[r] = ReqIdle
  BY GotoMeans
<1> QED
  BY <1>1 DEF ReqIdle

\* A step that neither stores a row nor renames leaves every column that a row
\* names, and whatever secures a table.
LEMMA OthersKeep ==
    ASSUME IInv, NEW q \in Reqs, Start(q) \/ Proceed(q) \/ Fail(q),
           ~InsertAppTable(q), ~WriteAppTable(q), NEW t \in Tables
    PROVE  /\ Secured(t) => Secured(t)'
           /\ Backed(t) => Backed(t)' \/ migrations' # migrations
<1>0. TypeOK
  BY DEF IInv
<1> DEFINE u == req[q].table
<1>1. CASE Start(q) \/ Fail(q)
  <2>1. table' = table /\ meta' = meta
    BY <1>1 DEF Start, Fail, CreateAppTable, UpdateAppTable, DeleteAppTable, UpdateTableRLSMode,
                AddColumnForeignKey, RemoveColumnForeignKey, AddTableColumn, Begin
  <2> QED
    BY <2>1 DEF Secured, Backed, Stored
<1>2. CASE CreateTable(q)
  <2>1. ~table[u].exists /\ meta' = meta /\ \A v \in Tables \ {u} : table'[v] = table[v]
    BY <1>0, <1>2, ReqParts DEF CreateTable, TypeOK
  <2>2. t = u => ~table[t].exists /\ ~table[t].secured
    BY <1>0, <2>1, TableParts
  <2> QED
    BY <2>1, <2>2 DEF Secured, Backed, Stored
<1>3. CASE ChangeTable(q)
  <2> DEFINE s == req[q].want
             new == ToRename(table[u].col, s)
             cols == Filled(RenamedColumns(table[u].col, s), s)
  <2>0. u \in Tables /\ s \in Shape /\ table[u].col \in [Columns -> Kinds \cup {"twice"}]
    BY <1>0, ReqParts, TableParts
  <2>1. /\ table[u].exists /\ cols \in [Columns -> Kinds \cup {"twice"}]
        /\ table' = [table EXCEPT ![u].col = cols]
        /\ migrations' # migrations \/ new = {}
        /\ meta' = meta
    BY <1>0, <1>3, ChangeTableMeans
  <2>2. new = {} => \A c \in Columns : table[u].col[c] # "absent" => cols[c] # "absent"
    BY <2>0, ColumnsFilled
  <2> HIDE DEF cols, new
  <2>3. /\ table'[u].exists /\ table'[u].col = cols /\ table'[u].secured = table[u].secured
        /\ \A v \in Tables \ {u} : table'[v] = table[v]
    BY <1>0, <2>0, <2>1, ColumnsChange
  <2> QED
    BY <2>1, <2>2, <2>3 DEF Secured, Backed, Stored
<1>4. CASE AlterAddForeignKey(q) \/ AlterDropForeignKey(q)
  <2>1. AlterStep(q)
    BY <1>0, <1>4, AddMeans, DropMeans
  <2>2. /\ table'[u].exists = table[u].exists /\ table'[u].secured = table[u].secured
        /\ \A c \in Columns : table[u].col[c] # "absent" => table'[u].col[c] # "absent"
        /\ \A v \in Tables \ {u} : table'[v] = table[v]
    BY <1>0, <2>1, AlterLeaves
  <2>3. meta' = meta
    BY <2>1 DEF AlterStep
  <2> QED
    BY <2>2, <2>3 DEF Secured, Backed, Stored
<1>5. CASE DropTable(q)
  <2>1. meta'[u] = NoRow /\ \A v \in Tables \ {u} : table'[v] = table[v] /\ meta'[v] = meta[v]
    BY <1>0, <1>5, DropTableMeans
  <2>2. NoRow.id = 0
    BY DEF NoRow
  <2> QED
    BY <2>1, <2>2 DEF Secured, Backed, Stored
<1> QED
  BY <1>1, <1>2, <1>3, <1>4, <1>5 DEF Proceed

\* What a request nobody overtook stores names only columns that are there.
LEMMA StoredIsBacked ==
    ASSUME IInv, NEW r \in Reqs, InsertAppTable(r) \/ WriteAppTable(r), req[r].history # "raced",
           NEW t \in Tables, req[r].table = t, Backed(t)
    PROVE  Backed(t)'
<1> DEFINE s == req[r].want
<1>0. TypeOK /\ t \in Tables /\ meta[t].shape.col \in [Columns -> Kinds] /\ meta[t].shape \in Shape
  BY ReqParts, RowShape DEF IInv
<1>1. /\ req[r].pc = "write" /\ req[r].op \in Ops \ {"delete"}
      /\ table'[t].exists = table[t].exists /\ table'[t].col = table[t].col
      /\ meta'[t].shape = s
  BY <1>0, InsertMeans, WriteMeans DEF Ops, ApplyOps
<1>2. Fresh(req[r], table[t], meta[t])
  BY DEF IInv, FreshReq
<1>3. table[t].exists /\ \A c \in Columns : Has(s, c) => table[t].col[c] # "absent"
  <2>1. CASE req[r].op \in ApplyOps
    BY <1>1, <1>2, <2>1 DEF Fresh
  <2>2. CASE req[r].op \in AlterOps
    <3>1. meta[t].id # 0
      BY <1>1, <1>2, <2>2 DEF Fresh, AlterOps
    <3>2. table[t].exists /\ \A c \in Columns : Has(meta[t].shape, c) => table[t].col[c] # "absent"
      BY <3>1 DEF Backed, Stored
    <3>3. PICK kind \in {"plain", "constrained"}, c \in Columns :
            /\ s = [meta[t].shape EXCEPT !.col[c] = kind]
            /\ meta[t].shape.col[c] # "absent"
      BY <1>1, <1>2, <2>2 DEF Fresh, AlterOps
    <3>4. \A d \in Columns : s.col[d] # "absent" => meta[t].shape.col[d] # "absent"
      BY <1>0, <3>3 DEF Shape
    <3> QED
      BY <3>2, <3>4 DEF Has
  <2> QED
    BY <1>1, <2>1, <2>2 DEF Ops
<1> QED
  BY <1>1, <1>3 DEF Backed, Stored

\* Whatever interleaves and fails, a row comes to name what is not there only
\* by a rename whose row is not written yet, or by an overtaken request
\* (handler.go: the stored columns "must still match what's actually in
\* Postgres").
THEOREM BackingHolds == Spec => UnbackedIsARace
<1>1. ASSUME IInv, [Next]_vars, NEW t \in Tables, Backed(t), ~Backed(t)'
      PROVE  \/ migrations' # migrations
             \/ \E r \in Reqs : Writes(r) /\ req[r].table = t /\ req[r].history = "raced"
  <2>1. CASE UNCHANGED vars
    BY <1>1, <2>1 DEF vars, Backed, Stored
  <2>2. CASE Next
    <3>1. PICK r \in Reqs : Start(r) \/ Proceed(r) \/ Fail(r)
      BY <2>2 DEF Next
    <3>2. CASE InsertAppTable(r) \/ WriteAppTable(r)
      <4>0. TypeOK
        BY <1>1 DEF IInv
      <4>1. /\ req[r].pc = "write" /\ Goto(r, "idle")
            /\ \A u \in Tables \ {req[r].table} : table'[u] = table[u] /\ meta'[u] = meta[u]
        BY <3>2, <4>0, InsertMeans, WriteMeans
      <4>2. req[r].table = t
        BY <1>1, <4>1 DEF Backed, Stored
      <4>3. req[r].history = "raced"
        BY <1>1, <3>2, <4>2, StoredIsBacked
      <4>4. table'[t].exists = table[t].exists /\ table'[t].col = table[t].col
        BY <3>2, <4>0, <4>2, InsertMeans, WriteMeans
      <4>5. meta' # meta
        BY <1>1, <4>4 DEF Backed, Stored
      <4> QED
        BY <4>0, <4>1, <4>2, <4>3, <4>5, EndsIdle DEF Writes
    <3>3. CASE ~InsertAppTable(r) /\ ~WriteAppTable(r)
      BY <1>1, <3>1, <3>3, OthersKeep
    <3> QED
      BY <3>2, <3>3
  <2> QED
    BY <1>1, <2>1, <2>2
<1>2. IInv /\ [Next]_vars =>
        [\A t \in Tables : Backed(t) /\ ~Backed(t)' =>
          \/ migrations' # migrations
          \/ \E r \in Reqs : Writes(r) /\ req[r].table = t /\ req[r].history = "raced"]_vars
  BY <1>1
<1> QED
  BY <1>2, Invariant, PTL DEF Spec, UnbackedIsARace

\* A request that found row and table in agreement, and was not overtaken,
\* leaves them so.
LEMMA CleanIsFaithful ==
    ASSUME IInv, NEW r \in Reqs, InsertAppTable(r) \/ WriteAppTable(r), req[r].history = "clean",
           NEW t \in Tables, req[r].table = t
    PROVE  Faithful(t)'
<1> DEFINE s == req[r].want
<1>0. TypeOK
  BY DEF IInv
<1>1. /\ req[r].pc = "write"
      /\ table'[t].exists = table[t].exists /\ table'[t].col = table[t].col
      /\ meta'[t].shape = s
  BY <1>0, InsertMeans, WriteMeans
<1>2. Agrees(req[r], table[t])
  BY <1>1 DEF IInv, FreshReq, Fresh
<1>3. s.rls = "policy" => table'[t].secured
  <2>1. CASE InsertAppTable(r)
    <3>1. req[r].op = "create" /\ table' = table
      BY <1>0, <2>1, InsertMeans
    <3> QED
      BY <1>2, <3>1 DEF Agrees
  <2>2. CASE WriteAppTable(r)
    BY <1>0, <2>2, WriteMeans
  <2> QED
    BY <2>1, <2>2
<1>4. table'[t].exists /\ \A c \in Columns : Has(s, c) =>
          table'[t].col[c] # "absent" /\ (s.from[c] = None => table'[t].col[c] = s.col[c])
  BY <1>1, <1>2 DEF Agrees
<1>5. Backed(t)' /\ Secured(t)'
  BY <1>1, <1>3, <1>4 DEF Backed, Secured, Stored
<1> QED
  BY <1>1, <1>4, <1>5 DEF Faithful

\* A row that says "policy" of a table without row level security comes only of
\* a create that adopts a table it did not create, or was overtaken
\* (createTable, UpdateAppTable).
THEOREM SecurityHolds == Spec => UnsecuredIsAnAdoption
<1>1. ASSUME IInv, [Next]_vars, NEW t \in Tables, Secured(t), ~Secured(t)'
      PROVE  \E r \in Reqs : /\ Writes(r) /\ req[r].table = t
                             /\ req[r].op = "create" /\ req[r].history # "clean"
  <2>0. TypeOK
    BY <1>1 DEF IInv
  <2>1. CASE UNCHANGED vars
    BY <1>1, <2>1 DEF vars, Secured, Stored
  <2>2. CASE Next
    <3>1. PICK r \in Reqs : Start(r) \/ Proceed(r) \/ Fail(r)
      BY <2>2 DEF Next
    <3>2. CASE InsertAppTable(r)
      <4>1. /\ req[r].pc = "write" /\ req[r].op = "create" /\ Goto(r, "idle") /\ table' = table
            /\ \A u \in Tables \ {req[r].table} : meta'[u] = meta[u]
        BY <2>0, <3>2, InsertMeans
      <4>2. req[r].table = t
        BY <1>1, <4>1 DEF Secured, Stored
      <4>3. req[r].history # "clean"
        BY <1>1, <3>2, <4>2, CleanIsFaithful DEF Faithful
      <4>4. meta' # meta
        BY <1>1, <4>1 DEF Secured, Stored
      <4> QED
        BY <2>0, <4>1, <4>2, <4>3, <4>4, EndsIdle DEF Writes
    <3>3. CASE WriteAppTable(r)
      <4>1. /\ req[r].want.rls = "policy" => table'[req[r].table].secured
            /\ meta'[req[r].table].shape = req[r].want
            /\ \A u \in Tables \ {req[r].table} : table'[u] = table[u] /\ meta'[u] = meta[u]
        BY <2>0, <3>3, WriteMeans
      <4> QED
        BY <1>1, <4>1 DEF Secured, Stored
    <3>4. CASE ~InsertAppTable(r) /\ ~WriteAppTable(r)
      BY <1>1, <3>1, <3>4, OthersKeep
    <3> QED
      BY <3>2, <3>3, <3>4
  <2> QED
    BY <1>1, <2>1, <2>2
<1>2. IInv /\ [Next]_vars =>
        [\A t \in Tables : Secured(t) /\ ~Secured(t)' =>
          \E r \in Reqs : /\ Writes(r) /\ req[r].table = t
                          /\ req[r].op = "create" /\ req[r].history # "clean"]_vars
  BY <1>1
<1> QED
  BY <1>2, Invariant, PTL DEF Spec, UnsecuredIsAnAdoption

\* A request that found table and row in agreement, and that nobody overtook,
\* leaves them so (Apply, AddColumnForeignKey, DropColumnForeignKey).
THEOREM SerialAgreement == Spec => SerialWritesAgree
<1>1. ASSUME IInv, [Next]_vars, NEW r \in Reqs, NEW t \in Tables,
             Writes(r), req[r].table = t, req[r].history = "clean"
      PROVE  Faithful(t)'
  <2>1. Next
    BY <1>1 DEF vars, Writes
  <2>2. PICK q \in Reqs : Start(q) \/ Proceed(q) \/ Fail(q)
    BY <2>1 DEF Next
  <2>3. InsertAppTable(r) \/ WriteAppTable(r)
    BY <1>1, <2>2, WritesMeans
  <2> QED
    BY <1>1, <2>3, CleanIsFaithful
<1>2. IInv /\ [Next]_vars =>
        [\A r \in Reqs, t \in Tables :
          Writes(r) /\ req[r].table = t /\ req[r].history = "clean" => Faithful(t)']_vars
  BY <1>1
<1> QED
  BY <1>2, Invariant, PTL DEF Spec, SerialWritesAgree
=============================================================================
