------------------------------ MODULE DataRows ------------------------------
(***************************************************************************)
(* The data API of one table: requests of end users that list, read,       *)
(* create, upsert, change and delete rows, while the dashboard changes the *)
(* mode of the table and the soft-delete setting.                          *)
(*                                                                         *)
(* A request takes the registry's copy of the table when it begins, reads  *)
(* the soft-delete setting when it builds its SQL, and runs that later, in *)
(* one transaction of the role zeep_app_enduser (WithRLSContext): one      *)
(* action, but for the second statement of an "ignore", which reads the    *)
(* setting again and sees what was committed after the first.              *)
(* One unique column stands for all; values, filters and the native        *)
(* policies are left out: what they refuse is a request that fails.        *)
(***************************************************************************)
EXTENDS Naturals, FiniteSets

CONSTANTS RowReqs,  \* requests in flight at once
          EndUsers, \* signed-in end users
          NoUser,   \* no owner, and a request that nobody signed
          MaxRows   \* bound: rows that the table has at once

ASSUME RowBounds == MaxRows \in Nat \ {0} /\ NoUser \notin EndUsers

VARIABLES rlsMode,     \* rls of the table
          softDelete,  \* soft_delete_enabled
          dataRows,    \* the rows of the table
          rreq         \* requests in flight

rowVars == <<rlsMode, softDelete, dataRows, rreq>>

-----------------------------------------------------------------------------
RowIds == 1 .. MaxRows
RlsModes == {"disabled", "owner", "policy"}
Row == [state : {"absent", "live", "deleted"}, owner : EndUsers \cup {NoUser}, keyed : BOOLEAN]
NoRow == [state |-> "absent", owner |-> NoUser, keyed |-> FALSE]

\* soft: soft deletion as the SQL was built with it; off: it was off at some time of the request.
\* via: the row was written or found by its key, was listed, was listed with ?deleted=true,
\* or was asked for by its id.
RowReqIdle == [pc |-> "idle", user |-> NoUser, mode |-> "disabled", soft |-> TRUE, off |-> FALSE,
               row |-> 0, via |-> "none"]
RowReq == [pc : {"idle", "open", "built", "ignored", "fetch", "job", "answered"},
           user : EndUsers \cup {NoUser}, mode : RlsModes, soft : BOOLEAN, off : BOOLEAN,
           row : 0 .. MaxRows, via : {"none", "key", "list", "asked", "id", "conflict"}]

RowReqAt(r, pc) == rreq[r].pc = pc
Running(r) == rreq[r].pc \in {"open", "built", "ignored", "fetch"}
Kept(i) == dataRows[i].state # "absent"
IsLive(i) == dataRows[i].state = "live"
Keyed == {i \in RowIds : Kept(i) /\ dataRows[i].keyed}

RowInit ==
    /\ rlsMode = "disabled" /\ softDelete = TRUE
    /\ dataRows = [i \in RowIds |-> NoRow]
    /\ rreq = [r \in RowReqs |-> RowReqIdle]

-----------------------------------------------------------------------------
\* Every mode but "disabled" wants a user.
ResolveOwner(r) ==
    /\ RowReqAt(r, "idle")
    /\ \E u \in IF rlsMode = "disabled" THEN {NoUser} ELSE EndUsers :
        rreq' = [rreq EXCEPT ![r] = [RowReqIdle EXCEPT !.pc = "open", !.user = u, !.mode = rlsMode,
                                                        !.off = ~softDelete]]
    /\ UNCHANGED <<rlsMode, softDelete, dataRows>>

ReadSoftDelete(r, from, to) ==
    /\ RowReqAt(r, from)
    /\ rreq' = [rreq EXCEPT ![r].pc = to, ![r].soft = softDelete]
    /\ UNCHANGED <<rlsMode, softDelete, dataRows>>

\* The SQL of a list, a creation or a deletion; and the argument of the second statement.
BuildSQL(r) == ReadSoftDelete(r, "open", "built") \/ ReadSoftDelete(r, "ignored", "fetch")

\* The mode "policy" leaves every row to the native policies.
FilterOwner(q, i) == q.mode = "owner" => dataRows[i].owner = q.user

AnswerRow(r, i, how) ==
    rreq' = [rreq EXCEPT ![r] = [RowReqIdle EXCEPT !.pc = "answered", !.row = i, !.via = how]]
RowSettingsKept == UNCHANGED <<rlsMode, softDelete>>

\* Refused, timed out, failed; or its answer is read.
EndRequest(r) ==
    /\ ~RowReqAt(r, "idle")
    /\ rreq' = [rreq EXCEPT ![r] = RowReqIdle]
    /\ RowSettingsKept /\ UNCHANGED dataRows

-----------------------------------------------------------------------------
\* The rows that each statement reaches; by its id a deleted one is reached too.
BuildList(q, shown) == {i \in RowIds : Kept(i) /\ FilterOwner(q, i) /\ (q.soft /\ ~shown => IsLive(i))}
BuildGetByID(q) == {i \in RowIds : Kept(i) /\ FilterOwner(q, i)}
BuildUpdate(q) == {i \in RowIds : Kept(i) /\ FilterOwner(q, i)}
BuildDelete(q) == {i \in RowIds : Kept(i) /\ FilterOwner(q, i) /\ (q.soft => IsLive(i))}

\* One of the rows of the answer; ?deleted=true shows the deleted ones too.
HandleList(r) ==
    /\ RowReqAt(r, "built")
    /\ \E shown \in BOOLEAN : \E i \in BuildList(rreq[r], shown) :
          AnswerRow(r, i, IF shown THEN "asked" ELSE "list")
    /\ RowSettingsKept /\ UNCHANGED dataRows

HandleGetByID(r) ==
    /\ RowReqAt(r, "open")
    /\ \E i \in BuildGetByID(rreq[r]) : AnswerRow(r, i, "id")
    /\ RowSettingsKept /\ UNCHANGED dataRows

\* Of the new values only the key is kept; the unique column admits it once.
ChangeRow(i) ==
    \E keyed \in BOOLEAN :
        /\ keyed => Keyed \subseteq {i}
        /\ dataRows' = [dataRows EXCEPT ![i].keyed = keyed]

HandleUpdate(r) ==
    /\ RowReqAt(r, "open")
    /\ \E i \in BuildUpdate(rreq[r]) : ChangeRow(i) /\ AnswerRow(r, i, "id")
    /\ RowSettingsKept

\* The statement marks the row or removes it, as the setting was when it was built.
DeleteRow(q, i) ==
    dataRows' = [dataRows EXCEPT ![i] = IF q.soft THEN [@ EXCEPT !.state = "deleted"] ELSE NoRow]

HandleDelete(r) ==
    /\ RowReqAt(r, "built")
    /\ \E i \in BuildDelete(rreq[r]) : DeleteRow(rreq[r], i)
    /\ rreq' = [rreq EXCEPT ![r] = RowReqIdle]
    /\ RowSettingsKept

InsertRow(i, owner) ==
    /\ ~Kept(i) /\ \A j \in RowIds : j < i => Kept(j)
    /\ \E keyed \in BOOLEAN :
        /\ keyed => Keyed = {}
        /\ dataRows' = [dataRows EXCEPT ![i] = [state |-> "live", owner |-> owner, keyed |-> keyed]]

HandleCreate(r) ==
    /\ RowReqAt(r, "built")
    /\ \E i \in RowIds : InsertRow(i, rreq[r].user) /\ AnswerRow(r, i, "key")
    /\ RowSettingsKept

\* Mutant: the owner is not asked for when rows collide.
GuardDeletedOnly(q, i) == q.soft => IsLive(i)

ConflictGuard(q, i) == FilterOwner(q, i) /\ (q.soft => IsLive(i))

\* on_conflict "update"; a row that the guard leaves out is answered with 409.
OnConflictUpdate(r) ==
    /\ RowReqAt(r, "built")
    /\ \E i \in Keyed : ConflictGuard(rreq[r], i) /\ AnswerRow(r, i, "key")
    /\ RowSettingsKept /\ UNCHANGED dataRows

\* on_conflict "ignore": nothing is inserted, and nothing is locked.  The setting that the
\* statement was built with is of no more use.
OnConflictIgnore(r) ==
    /\ RowReqAt(r, "built")
    /\ Keyed # {}
    /\ rreq' = [rreq EXCEPT ![r].pc = "ignored", ![r].soft = TRUE]
    /\ RowSettingsKept /\ UNCHANGED dataRows

\* The second statement: the row it finds, or 409.
FetchRowByColumns(r) ==
    LET found == {i \in Keyed : ConflictGuard(rreq[r], i)} IN
    /\ RowReqAt(r, "fetch")
    /\ IF found = {} THEN AnswerRow(r, 0, "conflict") ELSE \E i \in found : AnswerRow(r, i, "key")
    /\ RowSettingsKept /\ UNCHANGED dataRows

-----------------------------------------------------------------------------
\* A member of the app creates, changes or deletes a row in the dashboard, of whatever owner;
\* a deletion there reads the setting first, and so does the purge.
DataBrowserCreate(i) == InsertRow(i, NoUser) /\ UNCHANGED <<rlsMode, softDelete, rreq>>

DataBrowserUpdate(i) == Kept(i) /\ ChangeRow(i) /\ UNCHANGED <<rlsMode, softDelete, rreq>>

BeginJob(r) == ReadSoftDelete(r, "idle", "job")

DataBrowserDelete(r) ==
    /\ RowReqAt(r, "job")
    /\ \E i \in BuildDelete(rreq[r]) : DeleteRow(rreq[r], i)
    /\ rreq' = [rreq EXCEPT ![r] = RowReqIdle]
    /\ RowSettingsKept

\* Rows deleted long ago, all at once, when a retention is set and soft delete was on.
PurgeExpiredSoftDeletes(r) ==
    /\ RowReqAt(r, "job") /\ rreq[r].soft
    /\ \E old \in SUBSET {i \in RowIds : dataRows[i].state = "deleted"} :
          dataRows' = [i \in RowIds |-> IF i \in old THEN NoRow ELSE dataRows[i]]
    /\ rreq' = [rreq EXCEPT ![r] = RowReqIdle]
    /\ RowSettingsKept

SetRlsMode(m) ==
    /\ m # rlsMode
    /\ rlsMode' = m
    /\ UNCHANGED <<softDelete, dataRows, rreq>>

SetSoftDelete(s) ==
    /\ s # softDelete
    /\ softDelete' = s
    /\ rreq' = [r \in RowReqs |-> IF Running(r) THEN [rreq[r] EXCEPT !.off = @ \/ ~s] ELSE rreq[r]]
    /\ UNCHANGED <<rlsMode, dataRows>>

RowNext ==
    \/ \E i \in RowIds : DataBrowserCreate(i) \/ DataBrowserUpdate(i)
    \/ \E m \in RlsModes : SetRlsMode(m)
    \/ \E on \in BOOLEAN : SetSoftDelete(on)
    \/ \E r \in RowReqs :
          \/ ResolveOwner(r) \/ BuildSQL(r) \/ EndRequest(r)
          \/ BeginJob(r) \/ DataBrowserDelete(r) \/ PurgeExpiredSoftDeletes(r)
          \/ HandleList(r) \/ HandleGetByID(r) \/ HandleUpdate(r) \/ HandleDelete(r) \/ HandleCreate(r)
          \/ OnConflictUpdate(r) \/ OnConflictIgnore(r) \/ FetchRowByColumns(r)

RowSpec == RowInit /\ [][RowNext]_rowVars

-----------------------------------------------------------------------------
RowTypeOK ==
    /\ rlsMode \in RlsModes
    /\ softDelete \in BOOLEAN
    /\ dataRows \in [RowIds -> Row]
    /\ rreq \in [RowReqs -> RowReq]

Answers(r) == ~RowReqAt(r, "answered") /\ rreq'[r].pc = "answered"

\* The step is one of the request itself.
Taken(r) == rreq'[r].pc # rreq[r].pc

\* A request that took the table for one scoped by owner changes and is shown rows of
\* its own user only, by whatever statement: list, id, key, upsert, deletion (filterOwner).
OwnersAreApart ==
    [][\A r \in RowReqs : Taken(r) /\ rreq[r].mode = "owner" =>
          /\ \A i \in RowIds : dataRows'[i] # dataRows[i] =>
                rreq[r].user = IF Kept(i) THEN dataRows[i].owner ELSE dataRows'[i].owner
          /\ Answers(r) /\ rreq'[r].via # "conflict" => dataRows'[rreq'[r].row].owner = rreq[r].user]_rowVars

\* A row that a list shows, or that a creation or an upsert answers with, is a deleted one
\* only if soft delete was off at some time of the request: the SQL may have been built then.
\* A read or a change by id, and a list with ?deleted=true, do reach deleted rows.
AnswerIsLive ==
    [][\A r \in RowReqs : Answers(r) /\ rreq'[r].via \in {"key", "list"} /\ ~rreq[r].off =>
          dataRows'[rreq'[r].row].state = "live"]_rowVars

\* What a request changes and answers with is its own user's, on a table scoped by owner;
\* and unless it is asked for by id or with ?deleted=true it is not a deleted row, if soft
\* delete was on as long as the request ran.
AnswersAreRight == OwnersAreApart /\ AnswerIsLive

\* HandleCreate: that both statements are of one transaction "removes that window entirely",
\* so a row that the insert collided with is still there when the conflict is answered.
ConflictIsStillThere ==
    [][\A r \in RowReqs : Answers(r) /\ rreq'[r].via = "conflict" => Keyed # {}]_rowVars

\* en.json: "Deleted rows are marked and hidden instead of removed permanently."
DeletedRowIsHidden ==
    [][\A r \in RowReqs : Answers(r) /\ ~rreq[r].off /\ rreq'[r].via \notin {"conflict", "asked"} =>
          dataRows'[rreq'[r].row].state = "live"]_rowVars
=============================================================================
