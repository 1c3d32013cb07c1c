------------------------------ MODULE BuildChat ------------------------------
(***************************************************************************)
(* The chat that builds an app: the sessions of one user, the plans that   *)
(* the model proposes in them, and the confirmation that turns a plan into *)
(* an app with its tables.  Each step of a request is a statement of its   *)
(* own; a failed confirmation rolls nothing back, and is meant to be       *)
(* repeated.                                                               *)
(*                                                                         *)
(* Sessions of different users never meet, so one user is modelled; what   *)
(* is said in a session matters only for the plans in it.                  *)
(***************************************************************************)
EXTENDS Naturals, FiniteSets

CONSTANTS BuildReqs,   \* requests in flight at once
          AppNames, PlanTables,
          Undefined,   \* stands for no plan, table or name
          MaxChats, MaxBuilt  \* bounds: sessions and apps ever created

ASSUME BuildBounds == {MaxChats, MaxBuilt} \subseteq Nat \ {0} /\ Undefined \notin AppNames \cup PlanTables

VARIABLES chat,      \* ai_build_sessions of the user, each with its latest plan
          chats,     \* rows ever inserted
          built,     \* the apps, with their tables
          builds,    \* apps ever created
          buildReq,  \* requests in flight
          unfinished,  \* history: apps whose schema could not be provisioned
          cut,         \* history: apps whose request died before it recorded them
          contested,   \* history: sessions that two requests confirmed at once
          pruned       \* history: tables that a user removed

buildVars == <<chat, chats, built, builds, buildReq, unfinished, cut, contested, pruned>>

-----------------------------------------------------------------------------
ChatIds == 1 .. MaxChats
BuiltIds == 1 .. MaxBuilt

Plan == [name : AppNames, tables : SUBSET PlanTables \ {{}}]
NoPlan == [name |-> Undefined, tables |-> {}]
NoChat == [status |-> "none", app |-> 0, plan |-> NoPlan, done |-> {}]
\* history: done, the tables of the plan that completed the session.
Chat == [status : {"none", "in_progress", "abandoned", "completed"}, app : 0 .. MaxBuilt,
         plan : Plan \cup {NoPlan}, done : SUBSET PlanTables]
NotBuilt == [name |-> Undefined, tables |-> {}]

BuildIdle == [pc |-> "idle", chat |-> 0, app |-> 0, plan |-> NoPlan, todo |-> {}, table |-> Undefined]
BuildReq == [pc : {"idle", "open", "insert", "model", "create", "apply", "record", "tables", "table"},
             chat : 0 .. MaxChats, app : 0 .. MaxBuilt, plan : Plan \cup {NoPlan},
             todo : SUBSET PlanTables, table : PlanTables \cup {Undefined}]

BuildInit ==
    /\ chat = [s \in ChatIds |-> NoChat] /\ chats = 0
    /\ built = [a \in BuiltIds |-> NotBuilt] /\ builds = 0
    /\ buildReq = [r \in BuildReqs |-> BuildIdle]
    /\ unfinished = {} /\ cut = {} /\ contested = {} /\ pruned = {}

BuildAt(r, pc) == buildReq[r].pc = pc
Confirming == {"create", "apply", "record", "tables", "table"}
BuildTo(r, q) == buildReq' = [buildReq EXCEPT ![r] = q]

InProgress == {s \in ChatIds : chat[s].status = "in_progress"}
Newest(s) == \A t \in InProgress : t <= s
AppExists(a) == built[a].name # Undefined

-----------------------------------------------------------------------------
(* Sessions.  Nothing keeps a user from having two in progress.            *)

\* The page is opened ("open"), or a message is sent.
GetOrCreateInProgressSession(r, pc) ==
    /\ BuildAt(r, "idle")
    /\ \/ /\ InProgress = {}
          /\ BuildTo(r, [BuildIdle EXCEPT !.pc = IF pc = "model" THEN "insert" ELSE "open"])
       \/ \E s \in InProgress :
           /\ Newest(s)
           /\ BuildTo(r, IF pc = "model" THEN [BuildIdle EXCEPT !.pc = "model", !.chat = s] ELSE BuildIdle)
    /\ UNCHANGED <<chat, chats, built, builds, unfinished, cut, contested, pruned>>

GetBuildChatSession(r) == GetOrCreateInProgressSession(r, "open")
BuildChatTurn(r) == GetOrCreateInProgressSession(r, "model")

CreateSession(r) ==
    /\ buildReq[r].pc \in {"open", "insert"}
    /\ chats < MaxChats
    /\ chats' = chats + 1
    /\ chat' = [chat EXCEPT ![chats + 1].status = "in_progress"]
    /\ BuildTo(r, IF BuildAt(r, "open") THEN BuildIdle
                  ELSE [BuildIdle EXCEPT !.pc = "model", !.chat = chats + 1])
    /\ UNCHANGED <<built, builds, unfinished, cut, contested, pruned>>

RestartBuildChatSession(r) ==
    /\ BuildAt(r, "idle")
    /\ chat' = [s \in ChatIds |-> IF s \in InProgress THEN [chat[s] EXCEPT !.status = "abandoned"] ELSE chat[s]]
    /\ BuildTo(r, [BuildIdle EXCEPT !.pc = "open"])
    /\ UNCHANGED <<chats, built, builds, unfinished, cut, contested, pruned>>

\* What a call of the model comes to, after its rounds of tools that only read: a plan, or
\* none (it only talks, fails, or asks for one round too many).
CallModel == Plan \cup {NoPlan}

\* The plan is appended whatever has become of the session by then.
ProposePlan(r) ==
    LET s == buildReq[r].chat IN
    /\ BuildAt(r, "model")
    /\ \E p \in CallModel : chat' = [chat EXCEPT ![s].plan = IF p = NoPlan THEN @ ELSE p]
    /\ BuildTo(r, BuildIdle)
    /\ UNCHANGED <<chats, built, builds, unfinished, cut, contested, pruned>>

\* A step fails, the caller goes away, the pod dies.
BuildRequestEnds(r) ==
    /\ ~BuildAt(r, "idle")
    /\ cut' = IF buildReq[r].pc \in {"apply", "record"} THEN cut \cup {buildReq[r].app} ELSE cut
    /\ BuildTo(r, BuildIdle)
    /\ UNCHANGED <<chat, chats, built, builds, unfinished, contested, pruned>>

-----------------------------------------------------------------------------
(* Confirmation.                                                           *)

BuildChatConfirm(r) ==
    /\ BuildAt(r, "idle")
    /\ \E s \in InProgress :
        LET c == chat[s] IN
        /\ c.plan # NoPlan
        /\ BuildTo(r, [BuildIdle EXCEPT !.pc = IF c.app = 0 THEN "create" ELSE "tables", !.chat = s,
                                        !.app = c.app, !.plan = c.plan, !.todo = c.plan.tables])
        /\ contested' = IF \E o \in BuildReqs : buildReq[o].pc \in Confirming /\ buildReq[o].chat = s
                        THEN contested \cup {s} ELSE contested
    /\ UNCHANGED <<chat, chats, built, builds, unfinished, cut, pruned>>

\* The row of the app is committed; a name that is taken ends the request.
CreateBuiltApp(r) ==
    /\ BuildAt(r, "create")
    /\ \A a \in BuiltIds : built[a].name # buildReq[r].plan.name
    /\ builds < MaxBuilt
    /\ builds' = builds + 1
    /\ built' = [built EXCEPT ![builds + 1] = [name |-> buildReq[r].plan.name, tables |-> {}]]
    /\ BuildTo(r, [buildReq[r] EXCEPT !.pc = "apply", !.app = builds + 1])
    /\ UNCHANGED <<chat, chats, unfinished, cut, contested, pruned>>

ApplySchema(r) ==
    /\ BuildAt(r, "apply")
    /\ BuildTo(r, [buildReq[r] EXCEPT !.pc = "record"])
    /\ UNCHANGED <<chat, chats, built, builds, unfinished, cut, contested, pruned>>

\* The row of the app stays.
ApplySchemaFails(r) ==
    /\ BuildAt(r, "apply")
    /\ unfinished' = unfinished \cup {buildReq[r].app}
    /\ BuildTo(r, BuildIdle)
    /\ UNCHANGED <<chat, chats, built, builds, cut, contested, pruned>>

\* Mutant: the app is recorded when the session is completed, not at once.
RecordAtTheEnd(r) ==
    /\ BuildAt(r, "record")
    /\ BuildTo(r, [buildReq[r] EXCEPT !.pc = "tables"])
    /\ UNCHANGED <<chat, chats, built, builds, unfinished, cut, contested, pruned>>

\* Whatever the status of the session is.
SetSessionCreatedApp(r) ==
    /\ BuildAt(r, "record")
    /\ chat' = [chat EXCEPT ![buildReq[r].chat].app = buildReq[r].app]
    /\ BuildTo(r, [buildReq[r] EXCEPT !.pc = "tables"])
    /\ UNCHANGED <<chats, built, builds, unfinished, cut, contested, pruned>>

\* The app is read afresh for each table: one that is there already is left as it is.
CheckTable(r) ==
    LET q == buildReq[r] IN
    /\ BuildAt(r, "tables")
    /\ AppExists(q.app)
    /\ \E t \in q.todo :
        BuildTo(r, IF t \in built[q.app].tables THEN [q EXCEPT !.todo = @ \ {t}]
                   ELSE [q EXCEPT !.pc = "table", !.table = t])
    /\ UNCHANGED <<chat, chats, built, builds, unfinished, cut, contested, pruned>>

AddPlanned(r, added) ==
    LET q == buildReq[r] IN
    /\ BuildAt(r, "table")
    /\ AppExists(q.app)
    /\ built' = [built EXCEPT ![q.app].tables = @ \cup added]
    /\ BuildTo(r, [q EXCEPT !.pc = "tables", !.todo = @ \ {q.table}, !.table = Undefined])
    /\ UNCHANGED <<chat, chats, builds, unfinished, cut, contested, pruned>>

\* Mutant: any failure to create a table is taken for a duplicate.
CreateTableOrNot(r) == \E added \in {{}, {buildReq[r].table}} : AddPlanned(r, added)

\* A table that came to be meanwhile is a success; any other failure ends the request.
CreatePlannedTable(r) == AddPlanned(r, {buildReq[r].table})

CompleteSession(r) ==
    LET q == buildReq[r] IN
    /\ BuildAt(r, "tables") /\ q.todo = {}
    /\ chat' = [chat EXCEPT ![q.chat] = [@ EXCEPT !.status = "completed", !.app = q.app, !.done = q.plan.tables]]
    /\ BuildTo(r, BuildIdle)
    /\ UNCHANGED <<chats, built, builds, unfinished, cut, contested, pruned>>

-----------------------------------------------------------------------------
(* What the user does to the apps elsewhere.                               *)

DeleteBuiltApp(a) ==
    /\ AppExists(a)
    /\ built' = [built EXCEPT ![a] = NotBuilt]
    /\ unfinished' = unfinished \ {a} /\ cut' = cut \ {a}
    /\ pruned' = {p \in pruned : p[1] # a}
    /\ UNCHANGED <<chat, chats, builds, buildReq, contested>>

DeleteBuiltTable(a, t) ==
    /\ t \in built[a].tables
    /\ built' = [built EXCEPT ![a].tables = @ \ {t}]
    /\ pruned' = pruned \cup {<<a, t>>}
    /\ UNCHANGED <<chat, chats, builds, buildReq, unfinished, cut, contested>>

BuildNext ==
    \/ \E r \in BuildReqs :
        \/ GetBuildChatSession(r) \/ BuildChatTurn(r) \/ CreateSession(r) \/ RestartBuildChatSession(r)
        \/ ProposePlan(r) \/ BuildRequestEnds(r)
        \/ BuildChatConfirm(r) \/ CreateBuiltApp(r) \/ ApplySchema(r) \/ ApplySchemaFails(r) \/ SetSessionCreatedApp(r)
        \/ CheckTable(r) \/ CreatePlannedTable(r) \/ CompleteSession(r)
    \/ \E a \in BuiltIds : DeleteBuiltApp(a) \/ \E t \in PlanTables : DeleteBuiltTable(a, t)

BuildSpec == BuildInit /\ [][BuildNext]_buildVars

-----------------------------------------------------------------------------
\* Sessions, apps and requests have their types.
BuildTypeOK ==
    /\ chat \in [ChatIds -> Chat] /\ chats \in 0 .. MaxChats
    /\ built \in [BuiltIds -> [name : AppNames \cup {Undefined}, tables : SUBSET PlanTables]]
    /\ builds \in 0 .. MaxBuilt
    /\ buildReq \in [BuildReqs -> BuildReq]
    /\ unfinished \cup cut \subseteq BuiltIds /\ contested \subseteq ChatIds
    /\ pruned \subseteq BuiltIds \X PlanTables

InHand(a) == \E r \in BuildReqs : buildReq[r].pc \in Confirming /\ buildReq[r].app = a
MadeFor(a) == {s \in ChatIds : chat[s].app = a}

\* An app that the chat created is the created_app_id of a session, so that a repeated
\* confirmation goes on with it, unless its creation itself was cut short between the
\* commit of its row and the record of it, or two confirmations of one session overlapped.
\* (ai_build_chat_handlers.go: created_app_id is set before the tables are created)
OrphanAppIsAccounted ==
    \A a \in BuiltIds :
        AppExists(a) => MadeFor(a) # {} \/ InHand(a) \/ a \in unfinished \cup cut \/ contested # {}

\* The app of a completed session has every table of the plan that completed it, except
\* those removed since and sessions that two requests confirmed at once: of these the
\* slower one replaces the app of a completed session by its own, still without tables.
\* (SetSessionCreatedApp and CompleteSession do not look at the status)
CompletedBuildIsWhole ==
    \A s \in ChatIds \ contested :
        LET c == chat[s] IN
        c.status = "completed" /\ AppExists(c.app)
        => \A t \in c.done : t \in built[c.app].tables \/ <<c.app, t>> \in pruned

\* What the code says of SetSessionCreatedApp: a confirmation that failed leaves
\* created_app_id pointing at what was created.  Not so when the schema of the app could not be
\* provisioned: its row is committed, nothing records it, and a repeated confirmation
\* fails on the name.
PartialFailureIsRecorded ==
    \A a \in BuiltIds : AppExists(a) => MadeFor(a) # {} \/ InHand(a) \/ a \in cut \/ contested # {}
=============================================================================
