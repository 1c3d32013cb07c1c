------------------------------- MODULE AppDDL -------------------------------
(***************************************************************************)
(* The tables of one backend app and what the dashboard stores of them, as *)
(* concurrent requests of all pods change both.                            *)
(*                                                                         *)
(* A request reads the stored tables, runs its DDL in one transaction      *)
(* under the app's advisory lock (one atomic action here: withAppLock),    *)
(* and overwrites the stored row in another.  In between, other requests   *)
(* run, and the request may fail or die with its pod.                      *)
(*                                                                         *)
(* A column is absent, plain, or constrained by a foreign key.  Types,     *)
(* enum values, NOT NULL, UNIQUE, defaults and indexes are left out.  The  *)
(* target of a foreign key is left out too: a refused DROP is a failure.   *)
(***************************************************************************)
EXTENDS Integers

CONSTANTS Tables,    \* names of tables
          Columns,   \* names of columns
          Reqs,      \* requests that can be in flight at once
          None,      \* stands for no column
          Bodies,    \* tables that a request may describe
          Additions, \* columns that a request may add, with their kinds
          MaxIds     \* bound: rows that app_tables ever has


VARIABLES
    table,       \* the physical tables
    meta,        \* app_tables: for each name its row
    migrations,  \* _schema_migrations: the renames ever done
    used,        \* ids given to rows so far
    req          \* the requests in flight

vars == <<table, meta, migrations, used, req>>

-----------------------------------------------------------------------------
Kinds == {"absent", "plain", "constrained"}
Modes == {"open", "policy"}

\* What a request or a row says of a table.  from: rename_from of a column.
Shape == [rls : Modes, col : [Columns -> Kinds], from : [Columns -> Columns \cup {None}]]
NoColumns == [c \in Columns |-> "absent"]
Has(shape, c) == shape.col[c] # "absent"
NoShape == [rls |-> "open", col |-> NoColumns, from |-> [c \in Columns |-> None]]

ASSUME TablesExist == Tables # {}
ASSUME NoneIsNoColumn == None \notin Columns
ASSUME MaxIdsIsNat == MaxIds \in Nat
ASSUME BodiesAreShapes ==
    Bodies \subseteq {s \in Shape : \A c \in Columns : s.from[c] # None => Has(s, c) /\ s.from[c] # c}
ASSUME AdditionsAreColumns == Additions \subseteq Columns \X {"plain", "constrained"}

\* "twice": by more foreign keys than one, all the same.
Table == [exists : BOOLEAN, secured : BOOLEAN, col : [Columns -> Kinds \cup {"twice"}]]
NoTable == [exists |-> FALSE, secured |-> FALSE, col |-> NoColumns]

NoRow == [id |-> 0, shape |-> NoShape]
Row == [id : 0..MaxIds, shape : Shape]

AlterOps == {"add_fk", "drop_fk"}
ApplyOps == {"create", "replace", "set_rls", "add_column"}
Ops == AlterOps \cup ApplyOps \cup {"delete"}

\* history: "clean" if table and row agreed when the request began and no
\* other one has changed them since, "raced" if another one has.
ReqState == [pc : {"idle", "ddl", "write"}, op : Ops, table : Tables, id : 0..MaxIds,
             column : Columns \cup {None}, want : Shape, history : {"clean", "alone", "raced"}]
ReqIdle == [pc |-> "idle", op |-> "create", table |-> CHOOSE t \in Tables : TRUE, id |-> 0,
            column |-> None, want |-> NoShape, history |-> "alone"]

\* The table is exactly what its row says, or there is neither.
Exact(t) ==
    IF meta[t].id = 0 THEN ~table[t].exists
    ELSE /\ table[t].exists
         /\ table[t].col = meta[t].shape.col
         /\ meta[t].shape.rls = "policy" => table[t].secured

Init ==
    /\ table = [t \in Tables |-> NoTable]
    /\ meta = [t \in Tables |-> NoRow]
    /\ migrations = {}
    /\ used = 0
    /\ req = [r \in Reqs |-> ReqIdle]

-----------------------------------------------------------------------------
(* A request begins: GetApp reads the rows, the handler works out the new  *)
(* one and validates it.                                                   *)

Begin(r, op, t, c, want) ==
    /\ req[r].pc = "idle"
    /\ req' = [req EXCEPT ![r] = [pc |-> "ddl", op |-> op, table |-> t, id |-> meta[t].id,
                                  column |-> c, want |-> want,
                                  history |-> IF Exact(t) THEN "clean" ELSE "alone"]]
    /\ UNCHANGED <<table, meta, migrations, used>>

Stored(t) == meta[t].id # 0

CreateAppTable(r, t) ==
    /\ ~Stored(t)
    /\ \E s \in Bodies : Begin(r, "create", t, None, s)

\* The body replaces everything; a column that stays keeps its foreign key.
UpdateAppTable(r, t) ==
    LET old == meta[t].shape IN
    /\ Stored(t)
    /\ \E s \in Bodies :
          /\ \A c \in Columns : Has(old, c) /\ Has(s, c) => s.col[c] = old.col[c]
          /\ Begin(r, "replace", t, None, s)

\* With the mode unchanged, AddTableIndexForUser.
UpdateTableRLSMode(r, t, mode) ==
    /\ Stored(t)
    /\ Begin(r, "set_rls", t, None, [meta[t].shape EXCEPT !.rls = mode])

AddTableColumn(r, t, c, kind) ==
    /\ Stored(t)
    /\ ~Has(meta[t].shape, c)
    /\ Begin(r, "add_column", t, None, [meta[t].shape EXCEPT !.col[c] = kind, !.from[c] = None])

AddColumnForeignKey(r, t, c) ==
    /\ Stored(t)
    /\ meta[t].shape.col[c] = "plain"
    /\ Begin(r, "add_fk", t, c, [meta[t].shape EXCEPT !.col[c] = "constrained"])

RemoveColumnForeignKey(r, t, c) ==
    /\ Stored(t)
    /\ meta[t].shape.col[c] = "constrained"
    /\ Begin(r, "drop_fk", t, c, [meta[t].shape EXCEPT !.col[c] = "plain"])

DeleteAppTable(r, t) ==
    /\ Stored(t)
    /\ Begin(r, "delete", t, None, NoShape)

-----------------------------------------------------------------------------
(* The DDL.                                                                *)

\* The request goes on, or ends; whoever deals with the same table has been
\* overtaken.
Goto(r, pc) ==
    req' = [q \in Reqs |->
              IF q = r THEN (IF pc = "idle" THEN ReqIdle ELSE [req[r] EXCEPT !.pc = pc])
              ELSE IF req[q].pc # "idle" /\ req[q].table = req[r].table
                   THEN [req[q] EXCEPT !.history = "raced"] ELSE req[q]]

At(r, pc, ops) == req[r].pc = pc /\ req[r].op \in ops

\* An error, a lock timeout or the end of the pod: nothing of the statement or
\* transaction remains, what was committed before does.
Fail(r) ==
    /\ req[r].pc # "idle"
    /\ req' = [req EXCEPT ![r] = ReqIdle]
    /\ UNCHANGED <<table, meta, migrations, used>>

\* Mutant: row level security only when the first policy comes.
SecuredLater(mode) == FALSE

SecuredFromTheStart(mode) == mode = "policy"

CreateTable(r) ==
    LET t == req[r].table
        s == req[r].want IN
    /\ At(r, "ddl", ApplyOps)
    /\ ~table[t].exists
    /\ table' = [table EXCEPT ![t] = [exists |-> TRUE, secured |-> SecuredFromTheStart(s.rls),
                                      col |-> s.col]]
    /\ Goto(r, "write")
    /\ UNCHANGED <<meta, migrations, used>>

\* The columns to rename: the old name is there and the new one is not.
ToRename(cols, s) ==
    {c \in Columns : Has(s, c) /\ s.from[c] # None /\ cols[c] = "absent" /\ cols[s.from[c]] # "absent"}

RenamedColumns(cols, s) ==
    LET new == ToRename(cols, s) IN
    [c \in Columns |-> IF c \in new THEN cols[s.from[c]]
                       ELSE IF \E d \in new : s.from[d] = c THEN "absent"
                       ELSE cols[c]]

\* Mutant: ADD COLUMN without its REFERENCES.
FilledPlain(cols, s) ==
    [c \in Columns |-> IF cols[c] = "absent" /\ Has(s, c) THEN "plain" ELSE cols[c]]

\* addMissingColumns; a column that is there stays what it is.
Filled(cols, s) == [c \in Columns |-> IF cols[c] = "absent" THEN s.col[c] ELSE cols[c]]

\* applyRename records each rename under an id that is unique in the schema:
\* the same rename a second time fails.
ChangeTable(r) ==
    LET t == req[r].table
        s == req[r].want
        new == ToRename(table[t].col, s)
        done == {<<t, s.from[c], c>> : c \in new} IN
    /\ At(r, "ddl", ApplyOps)
    /\ table[t].exists
    /\ \A c, d \in new : s.from[c] = s.from[d] => c = d
    /\ done \cap migrations = {}
    /\ migrations' = migrations \cup done
    /\ table' = [table EXCEPT ![t].col = Filled(RenamedColumns(@, s), s)]
    /\ Goto(r, "write")
    /\ UNCHANGED <<meta, used>>

\* ALTER TABLE fails where the table or the column is missing; a foreign key
\* that is there already gets a second one beside it.
AlterAddForeignKey(r) ==
    LET t == req[r].table
        c == req[r].column IN
    /\ At(r, "ddl", {"add_fk"})
    /\ table[t].col[c] # "absent"
    /\ table' = [table EXCEPT ![t].col[c] = IF @ = "plain" THEN "constrained" ELSE "twice"]
    /\ Goto(r, "write")
    /\ UNCHANGED <<meta, migrations, used>>

\* Mutant: the constraint is not looked up.
ForeignKeyAssumed(t, c) == TRUE

ForeignKeyFound(t, c) == table[t].col[c] \in {"constrained", "twice"}

\* One foreign key goes.
OneLess(kind) == IF kind = "twice" THEN {"constrained", "twice"} ELSE {"plain"}

\* No constraint, or no table, is no error: the stored row converges.
AlterDropForeignKey(r) ==
    LET t == req[r].table
        c == req[r].column IN
    /\ At(r, "ddl", {"drop_fk"})
    /\ IF ForeignKeyFound(t, c)
       THEN \E kind \in OneLess(table[t].col[c]) : table' = [table EXCEPT ![t].col[c] = kind]
       ELSE UNCHANGED table
    /\ Goto(r, "write")
    /\ UNCHANGED <<meta, migrations, used>>

\* Mutant: a row that is gone is as good as deleted.
GoneOrFound(t, id) == TRUE

RowFound(t, id) == meta[t].id = id

\* DROP TABLE and the deletion of the row commit together; if the row is gone
\* by then, neither does.
DropTable(r) ==
    LET t == req[r].table IN
    /\ At(r, "ddl", {"delete"})
    /\ RowFound(t, req[r].id)
    /\ table' = [table EXCEPT ![t] = NoTable]
    /\ meta' = [meta EXCEPT ![t] = IF @.id = req[r].id THEN NoRow ELSE @]
    /\ Goto(r, "idle")
    /\ UNCHANGED <<migrations, used>>

-----------------------------------------------------------------------------
(* The stored row.                                                         *)

\* The name is unique among the rows of the app.
InsertAppTable(r) ==
    LET t == req[r].table IN
    /\ At(r, "write", {"create"})
    /\ ~Stored(t)
    /\ used < MaxIds
    /\ used' = used + 1
    /\ meta' = [meta EXCEPT ![t] = [id |-> used + 1, shape |-> req[r].want]]
    /\ Goto(r, "idle")
    /\ UNCHANGED <<table, migrations>>

\* The whole row is overwritten; a table under policies is secured in the
\* same transaction.
WriteAppTable(r) ==
    LET t == req[r].table
        policy == req[r].want.rls = "policy" IN
    /\ At(r, "write", Ops \ {"create", "delete"})
    /\ meta[t].id = req[r].id
    /\ policy => table[t].exists
    /\ table' = IF policy THEN [table EXCEPT ![t].secured = TRUE] ELSE table
    /\ meta' = [meta EXCEPT ![t].shape = req[r].want]
    /\ Goto(r, "idle")
    /\ UNCHANGED <<migrations, used>>

Start(r) ==
    \E t \in Tables :
        \/ CreateAppTable(r, t) \/ UpdateAppTable(r, t) \/ DeleteAppTable(r, t)
        \/ \E mode \in Modes : UpdateTableRLSMode(r, t, mode)
        \/ \E c \in Columns :
              AddColumnForeignKey(r, t, c) \/ RemoveColumnForeignKey(r, t, c)
        \/ \E new \in Additions : AddTableColumn(r, t, new[1], new[2])

Proceed(r) ==
    \/ CreateTable(r) \/ ChangeTable(r) \/ AlterAddForeignKey(r) \/ AlterDropForeignKey(r)
    \/ DropTable(r) \/ InsertAppTable(r) \/ WriteAppTable(r)

Next == \E r \in Reqs : Start(r) \/ Proceed(r) \/ Fail(r)

Spec == Init /\ [][Next]_vars

-----------------------------------------------------------------------------
TypeOK ==
    /\ table \in [Tables -> Table]
    /\ \A t \in Tables : ~table[t].exists => table[t] = NoTable
    /\ meta \in [Tables -> Row]
    /\ migrations \in SUBSET (Tables \X Columns \X Columns)
    /\ used \in 0..MaxIds
    /\ req \in [Reqs -> ReqState]

\* Every column that a row names is there.
Backed(t) ==
    Stored(t) => table[t].exists /\ \A c \in Columns : Has(meta[t].shape, c) => table[t].col[c] # "absent"

Secured(t) == Stored(t) /\ meta[t].shape.rls = "policy" => table[t].secured

Writes(r) == req[r].pc = "write" /\ req'[r].pc = "idle" /\ meta' # meta

\* Whatever interleaves and fails, a row comes to name a table or a column that
\* is not there only by a rename whose row is not written yet, or by a request
\* that another one overtook (handler.go: the stored columns "must still match
\* what's actually in Postgres").
UnbackedIsARace ==
    [][\A t \in Tables : Backed(t) /\ ~Backed(t)' =>
          \/ migrations' # migrations
          \/ \E r \in Reqs : Writes(r) /\ req[r].table = t /\ req[r].history = "raced"]_vars

\* A table whose row says "policy" is without row level security only when it
\* was created by another request than the one that stored the row
\* (createTable, UpdateAppTable).
UnsecuredIsAnAdoption ==
    [][\A t \in Tables : Secured(t) /\ ~Secured(t)' =>
          \E r \in Reqs : /\ Writes(r) /\ req[r].table = t
                          /\ req[r].op = "create" /\ req[r].history # "clean"]_vars

\* The row says what the table is, except for the foreign key of a column that
\* was renamed.
Faithful(t) ==
    LET s == meta[t].shape IN
    /\ Backed(t) /\ Secured(t)
    /\ \A c \in Columns : Has(s, c) /\ s.from[c] = None => table[t].col[c] = s.col[c]

\* A request that found table and row in agreement, and that nobody overtook,
\* leaves them so (Apply, AddColumnForeignKey, DropColumnForeignKey).
SerialWritesAgree ==
    [][\A r \in Reqs, t \in Tables :
          Writes(r) /\ req[r].table = t /\ req[r].history = "clean" => Faithful(t)']_vars

\* A stored column stays until a request replaces all columns, or the table
\* goes: adding one thing "silently orphans" no other (AddTableColumnForUser).
StoredColumnsStay ==
    [][\A t \in Tables, c \in Columns :
          Stored(t) /\ meta'[t].id = meta[t].id /\ Has(meta[t].shape, c) /\ ~Has(meta[t].shape, c)' =>
              \E r \in Reqs : Writes(r) /\ req[r].table = t /\ req[r].op = "replace"]_vars
=============================================================================
