--------------------------- MODULE ColumnConstraints ---------------------------
(***************************************************************************)
(* One enum column that exists: the values, default, NOT NULL and UNIQUE   *)
(* that PostgreSQL enforces, and the row of app_tables that says so, as    *)
(* requests of the dashboard change them.                                  *)
(*                                                                         *)
(* A request reads the row, changes the column in one transaction under    *)
(* the app's advisory lock, and writes the whole row back in another.  The *)
(* rows of the table are left out: NULLs, duplicates or values in use make *)
(* a request fail before it has changed anything, as any failure may.      *)
(***************************************************************************)
EXTENDS FiniteSets

CONSTANTS ColReqs,   \* requests in flight at once
          ValueSets, \* sets of allowed values
          NoDefault  \* the column has no default

Values == UNION ValueSets
ASSUME ValueSetsAreSets == ValueSets # {} /\ {} \notin ValueSets /\ NoDefault \notin Values

VARIABLES pgColumn,  \* what the column is in PostgreSQL
          columnRow, \* what its row says
          creq       \* requests in flight

colVars == <<pgColumn, columnRow, creq>>

-----------------------------------------------------------------------------
\* strict: required, or unique; they are set and dropped alike.
Constraints == [allowed : ValueSets, default : Values \cup {NoDefault}, strict : BOOLEAN]
Fields == {"allowed", "default", "strict"}

\* config.validateDefault, and the same check of UpdateColumnEnumValuesForUser.
DefaultIsAllowed(c) == c.default \in c.allowed \cup {NoDefault}

\* want: the row as it will be written.  history: "clean" if column and row agreed when the
\* request began and nobody changed either since, "raced" if another request has.
ColReq == [pc : {"idle", "ddl", "write"}, changed : SUBSET Fields, want : Constraints,
           history : {"clean", "alone", "raced"}]

ColInit ==
    /\ columnRow \in {c \in Constraints : DefaultIsAllowed(c)}
    /\ pgColumn = columnRow
    /\ creq = [r \in ColReqs |-> [pc |-> "idle", changed |-> {}, want |-> columnRow, history |-> "alone"]]

-----------------------------------------------------------------------------
\* What r does is a race to the others in flight.
ColumnStep(r, q) ==
    creq' = [o \in ColReqs |->
        IF o = r THEN q
        ELSE IF creq[o].pc = "idle" \/ <<pgColumn, columnRow>>' = <<pgColumn, columnRow>> THEN creq[o]
        ELSE [creq[o] EXCEPT !.history = "raced"]]

ColReqEnds(r) == ColumnStep(r, [creq[r] EXCEPT !.pc = "idle", !.changed = {}, !.want = columnRow', !.history = "alone"])

DiffColumnConstraints(old, new) == {f \in Fields : old[f] # new[f]}

BeginColumnChange(r, want, changed) ==
    /\ creq[r].pc = "idle"
    /\ DefaultIsAllowed(want)
    /\ UNCHANGED <<pgColumn, columnRow>>
    /\ ColumnStep(r, [pc |-> "ddl", changed |-> changed, want |-> want,
                      history |-> IF pgColumn = columnRow THEN "clean" ELSE "alone"])

\* The values are replaced even if they are the stored ones.
UpdateColumnEnumValuesForUser(r) ==
    \E vs \in ValueSets : BeginColumnChange(r, [columnRow EXCEPT !.allowed = vs], {"allowed"})

\* The table update: the values of its body must be the stored ones.
UpdateAppTable(r) ==
    \E want \in Constraints :
        /\ want.allowed = columnRow.allowed
        /\ BeginColumnChange(r, want, DiffColumnConstraints(columnRow, want))

\* Mutant: constraints are set and never dropped.
SetOnly(q) ==
    [f \in Fields |->
        IF f \in q.changed /\ (f = "strict" => q.want.strict) THEN q.want[f] ELSE pgColumn[f]]

\* Only what the request changes, whatever the column was: a repetition changes nothing.
ApplyConstraintChanges(q) == [f \in Fields |-> IF f \in q.changed THEN q.want[f] ELSE pgColumn[f]]

\* Under the app's lock: ReplaceColumnEnumValues, or ApplyColumnConstraintChanges.
AlterColumn(r) ==
    /\ creq[r].pc = "ddl"
    /\ pgColumn' = ApplyConstraintChanges(creq[r])
    /\ UNCHANGED columnRow
    /\ ColumnStep(r, [creq[r] EXCEPT !.pc = "write"])

\* The whole row, by its id.
WriteColumnRow(r) ==
    /\ creq[r].pc = "write"
    /\ columnRow' = creq[r].want
    /\ UNCHANGED pgColumn
    /\ ColReqEnds(r)

\* Refused by the rows of the table, or by any failure; or the pod dies.
ColumnChangeFails(r) ==
    /\ creq[r].pc # "idle"
    /\ UNCHANGED <<pgColumn, columnRow>>
    /\ ColReqEnds(r)

ColNext ==
    \E r \in ColReqs :
        \/ UpdateColumnEnumValuesForUser(r) \/ UpdateAppTable(r)
        \/ AlterColumn(r) \/ WriteColumnRow(r) \/ ColumnChangeFails(r)

ColSpec == ColInit /\ [][ColNext]_colVars

-----------------------------------------------------------------------------
ColTypeOK ==
    /\ pgColumn \in Constraints /\ columnRow \in Constraints
    /\ creq \in [ColReqs -> ColReq]

Alone(r) == creq[r].history # "raced"

\* A change that nobody crossed leaves column and row alike in all it was asked to change,
\* whatever an earlier failure left behind (DiffColumnConstraints, singleColumnUniqueConstraints);
\* and where they were alike before, in everything, the default being one that is allowed.
ConstraintDriftIsARace ==
    [][\A r \in ColReqs : WriteColumnRow(r) /\ Alone(r) =>
          /\ \A f \in creq[r].changed : columnRow'[f] = pgColumn'[f]
          /\ creq[r].history = "clean" => columnRow' = pgColumn' /\ DefaultIsAllowed(pgColumn')]_colVars
=============================================================================
