----------------------------- MODULE RowPolicies -----------------------------
(***************************************************************************)
(* The row policies of an app: its catalog of policies, the native         *)
(* policies of PostgreSQL that carry them, and the list of business roles  *)
(* that policies and end users name.                                       *)
(*                                                                         *)
(* A request looks the app up first, and then runs one transaction under   *)
(* the app's DDL lock (one action here); the role list is checked and then *)
(* overwritten without a lock.  All policies here are of one action, and   *)
(* what a policy says is the role it names; PolicyExpression has the rest. *)
(***************************************************************************)
EXTENDS Naturals, FiniteSets

CONSTANTS PolReqs,     \* requests in flight at once
          PolTables,   \* names of tables
          PolNames,    \* names of policies
          Roles,       \* business roles
          Nothing,     \* stands for no policy, name or table
          MaxPolicies  \* bound: rows that table_policies ever has

ASSUME PolicyBounds == MaxPolicies \in Nat /\ Nothing \notin Roles \cup PolTables \cup PolNames

VARIABLES secured,    \* physical tables, and whether row level security is on
          native,     \* the policies PostgreSQL has: for each table and name its role
          catalog,    \* table_policies
          policyIds,  \* rows it ever had
          roleList,   \* enduser_roles_config of the app
          held,       \* roles that some end user has
          polReq,     \* requests in flight
          misled      \* history: tables changed through the path of another one

polVars == <<secured, native, catalog, policyIds, roleList, held, polReq, misled>>

-----------------------------------------------------------------------------
Def == [name : PolNames, role : Roles]
NoDef == [name |-> Nothing, role |-> Nothing]
NoPolicies == [n \in PolNames |-> Nothing]
CatalogRow == [id : 1 .. MaxPolicies, table : PolTables, def : Def]
Counts == Roles \X {"users", "policies"}

PolIdle == [pc |-> "idle", table |-> Nothing, id |-> 0, def |-> NoDef, roles |-> {}, todo |-> {}, raced |-> {}]
PolReq == [pc : {"idle", "create", "update", "delete", "roles"}, table : PolTables \cup {Nothing},
           id : 0 .. MaxPolicies, def : Def \cup {NoDef}, roles : SUBSET Roles,
           todo : SUBSET Counts, raced : SUBSET Roles]

Exists(t) == secured[t] # "gone"
RowsOf(t) == {c \in catalog : c.table = t}
PolAt(r, pc) == polReq[r].pc = pc

\* What is in use of a role, as the count of one kind sees it.
InUse(c) == IF c[2] = "users" THEN c[1] \in held ELSE \E row \in catalog : row.def.role = c[1]

\* A use that a count has passed already, in every request for the role list.
Passed(c) == [r \in PolReqs |->
                IF PolAt(r, "roles") /\ c \notin polReq[r].todo
                THEN [polReq[r] EXCEPT !.raced = @ \cup {c[1]}] ELSE polReq[r]]

PolInit ==
    /\ secured = [t \in PolTables |-> "gone"]
    /\ native = [t \in PolTables |-> NoPolicies]
    /\ catalog = {} /\ policyIds = 0
    /\ roleList = {} /\ held = {}
    /\ polReq = [r \in PolReqs |-> PolIdle]
    /\ misled = {}

-----------------------------------------------------------------------------
\* The table of the path is looked up; nothing compares the policy with it.
OpenPolicyRequest(r, q) ==
    /\ PolAt(r, "idle") /\ Exists(q.table)
    /\ polReq' = [polReq EXCEPT ![r] = q]
    /\ UNCHANGED <<secured, native, catalog, policyIds, roleList, held, misled>>

CreateTablePolicyForUser(r) ==
    \E t \in PolTables, d \in Def :
        OpenPolicyRequest(r, [PolIdle EXCEPT !.pc = "create", !.table = t, !.def = d])
BeginUpdatePolicy(r) ==
    \E t \in PolTables, d \in Def, c \in catalog :
        OpenPolicyRequest(r, [PolIdle EXCEPT !.pc = "update", !.table = t, !.def = d, !.id = c.id])
BeginDeletePolicy(r) ==
    \E t \in PolTables, c \in catalog :
        OpenPolicyRequest(r, [PolIdle EXCEPT !.pc = "delete", !.table = t, !.id = c.id])

\* The transaction fails, the caller goes away, the pod dies.
PolicyRequestFails(r) ==
    /\ ~PolAt(r, "idle")
    /\ polReq' = [polReq EXCEPT ![r] = PolIdle]
    /\ UNCHANGED <<secured, native, catalog, policyIds, roleList, held, misled>>

\* The first row of the catalog for a table switches its row level security on.
CreateTablePolicy(r) ==
    LET q == polReq[r] IN
    /\ PolAt(r, "create")
    /\ Exists(q.table) /\ native[q.table][q.def.name] = Nothing
    /\ ~\E c \in RowsOf(q.table) : c.def.name = q.def.name
    /\ policyIds < MaxPolicies
    /\ policyIds' = policyIds + 1
    /\ secured' = IF RowsOf(q.table) = {} THEN [secured EXCEPT ![q.table] = "on"] ELSE secured
    /\ native' = [native EXCEPT ![q.table][q.def.name] = q.def.role]
    /\ catalog' = catalog \cup {[id |-> policyIds + 1, table |-> q.table, def |-> q.def]}
    /\ polReq' = [Passed(<<q.def.role, "policies">>) EXCEPT ![r] = PolIdle]
    /\ UNCHANGED <<roleList, held, misled>>

\* The native policy moves to the table of the path, the row stays with its own.
ReplacePolicy(r, dropped(_)) ==
    LET q == polReq[r] IN
    /\ PolAt(r, "update") /\ Exists(q.table)
    /\ \E c \in catalog :
        LET left == [native[q.table] EXCEPT ![dropped(c)] = Nothing] IN
        /\ c.id = q.id
        /\ left[q.def.name] = Nothing
        /\ ~\E d \in RowsOf(c.table) \ {c} : d.def.name = q.def.name
        /\ native' = [native EXCEPT ![q.table] = [left EXCEPT ![q.def.name] = q.def.role]]
        /\ catalog' = (catalog \ {c}) \cup {[c EXCEPT !.def = q.def]}
        /\ misled' = IF c.table = q.table THEN misled ELSE misled \cup {c.table, q.table}
    /\ polReq' = [Passed(<<q.def.role, "policies">>) EXCEPT ![r] = PolIdle]
    /\ UNCHANGED <<secured, policyIds, roleList, held>>

\* Mutant: the policy of the new name is dropped, not that of the old one.
ReplaceSameName(r) == ReplacePolicy(r, LAMBDA c : polReq[r].def.name)

UpdateTablePolicy(r) == ReplacePolicy(r, LAMBDA c : c.def.name)

\* Row level security stays on.
DeleteTablePolicy(r) ==
    /\ PolAt(r, "delete")
    /\ \E c \in catalog :
        /\ c.id = polReq[r].id
        /\ catalog' = catalog \ {c}
        /\ native' = [native EXCEPT ![c.table][c.def.name] = Nothing]
    /\ polReq' = [polReq EXCEPT ![r] = PolIdle]
    /\ UNCHANGED <<secured, policyIds, roleList, held, misled>>

-----------------------------------------------------------------------------
\* A table is added, in the mode "policy" or in another one.
CreateTable(t) ==
    /\ ~Exists(t)
    /\ \E mode \in {"on", "off"} : secured' = [secured EXCEPT ![t] = mode]
    /\ UNCHANGED <<native, catalog, policyIds, roleList, held, polReq, misled>>

EnsureRowLevelSecurity(t) ==
    /\ secured[t] = "off"
    /\ secured' = [secured EXCEPT ![t] = "on"]
    /\ UNCHANGED <<native, catalog, policyIds, roleList, held, polReq, misled>>

DeleteAppTable(t) ==
    /\ Exists(t)
    /\ secured' = [secured EXCEPT ![t] = "gone"]
    /\ native' = [native EXCEPT ![t] = NoPolicies]
    /\ catalog' = catalog \ RowsOf(t)
    /\ misled' = misled \ {t}
    /\ UNCHANGED <<policyIds, roleList, held, polReq>>

-----------------------------------------------------------------------------
\* An end user takes a role or loses its last holder; it need not be on the list.
SetRole(b) ==
    /\ held' = IF b \in held THEN held \ {b} ELSE held \cup {b}
    /\ polReq' = IF b \in held THEN polReq ELSE Passed(<<b, "users">>)
    /\ UNCHANGED <<secured, native, catalog, policyIds, roleList, misled>>

OpenRoles(r, counts(_)) ==
    /\ PolAt(r, "idle")
    /\ \E new \in SUBSET Roles :
        polReq' = [polReq EXCEPT ![r] = [PolIdle EXCEPT !.pc = "roles", !.roles = new,
                                         !.todo = counts(roleList \ new)]]
    /\ UNCHANGED <<secured, native, catalog, policyIds, roleList, held, misled>>

\* Mutant: only end users are counted.
CountOnlyUsers(r) == OpenRoles(r, LAMBDA gone : gone \X {"users"})

BeginUpdateRoles(r) == OpenRoles(r, LAMBDA gone : gone \X {"users", "policies"})

CountRole(r) ==
    \E c \in polReq[r].todo :
        /\ c[2] = "policies" => <<c[1], "users">> \notin polReq[r].todo
        /\ polReq' = IF InUse(c) THEN [polReq EXCEPT ![r] = PolIdle] ELSE [polReq EXCEPT ![r].todo = @ \ {c}]
        /\ UNCHANGED <<secured, native, catalog, policyIds, roleList, held, misled>>

\* The whole list is replaced; a role that another request added is lost uncounted.
UpdateAppEnduserRoles(r) ==
    LET q == polReq[r]
        added == q.roles \ roleList IN
    /\ PolAt(r, "roles") /\ q.todo = {}
    /\ roleList' = q.roles
    /\ polReq' = [s \in PolReqs |-> IF s = r THEN PolIdle
                                    ELSE IF PolAt(s, "roles")
                                    THEN [polReq[s] EXCEPT !.raced = @ \cup added] ELSE polReq[s]]
    /\ UNCHANGED <<secured, native, catalog, policyIds, held, misled>>

PolNext ==
    \/ \E t \in PolTables : CreateTable(t) \/ EnsureRowLevelSecurity(t) \/ DeleteAppTable(t)
    \/ \E b \in Roles : SetRole(b)
    \/ \E r \in PolReqs :
          \/ CreateTablePolicyForUser(r) \/ BeginUpdatePolicy(r) \/ BeginDeletePolicy(r)
          \/ CreateTablePolicy(r) \/ UpdateTablePolicy(r) \/ DeleteTablePolicy(r)
          \/ BeginUpdateRoles(r) \/ CountRole(r) \/ UpdateAppEnduserRoles(r)
          \/ PolicyRequestFails(r)

PolSpec == PolInit /\ [][PolNext]_polVars

-----------------------------------------------------------------------------
PolTypeOK ==
    /\ secured \in [PolTables -> {"gone", "off", "on"}]
    /\ native \in [PolTables -> [PolNames -> Roles \cup {Nothing}]]
    /\ catalog \subseteq CatalogRow
    /\ policyIds \in 0 .. MaxPolicies
    /\ roleList \subseteq Roles /\ held \subseteq Roles
    /\ polReq \in [PolReqs -> PolReq]
    /\ misled \subseteq PolTables

\* The policies PostgreSQL has for a table are those of the catalog.
SameOn(t) ==
    \A n \in PolNames :
        {c.def.role : c \in {d \in RowsOf(t) : d.def.name = n}} = {native[t][n]} \ {Nothing}

\* UpdateTablePolicy: "either both the native policy and the catalog change, or neither
\* does"; so they agree on every table.
CatalogIsNative == \A t \in PolTables : SameOn(t)

\* They agree on every table that no update has reached through the path of another
\* table or for a policy of another one (UpdateTablePolicy).
UnmisledCatalogIsNative == \A t \in PolTables \ misled : SameOn(t)

\* A table with a policy has row level security on: a policy is never left unenforced,
\* whatever tables of that name were deleted before (CreateTablePolicy counts rows).
PolicyIsEnforced ==
    \A t \in PolTables \ misled : native[t] # NoPolicies => secured[t] = "on"

\* What the catalog says of a table is what PostgreSQL enforces there.
CatalogIsEnforced == UnmisledCatalogIsNative /\ PolicyIsEnforced

\* A role leaves the list of the app only when neither an end user nor a policy
\* names it, except one taken, or added by another request, behind the count.
DroppedRoleIsUnused ==
    [][\A role \in roleList \ roleList' :
          \/ ~InUse(<<role, "users">>) /\ ~InUse(<<role, "policies">>)
          \/ \E r \in PolReqs : PolAt(r, "roles") /\ role \in polReq[r].raced]_polVars
=============================================================================
