----------------------------- MODULE AppMembers -----------------------------
(***************************************************************************)
(* Who may do what: the platform roles of the dashboard's users and the    *)
(* members of every backend app, as the concurrent requests of all pods    *)
(* change them.  Each request is a sequence of statements or a transaction *)
(* against the same Postgres, under READ COMMITTED.                        *)
(*                                                                         *)
(* Two rules cross several rows: an app keeps an admin, and the platform   *)
(* keeps a superadmin.  The first is guarded by row locks, the second by a *)
(* count that takes none.  Deleting an app or a user takes the members'    *)
(* rows along, one by one, in no order that anybody chose.                 *)
(*                                                                         *)
(* "member" stands for auditors too, and "viewer" for editors: they differ *)
(* in what they may do elsewhere.  Ids are never reused.                   *)
(***************************************************************************)
EXTENDS Integers

CONSTANTS Users,   \* ids of dashboard users, in the order of their uuids
          Apps,    \* backend apps
          Reqs,    \* requests that can be in flight at once
          Nobody   \* stands for no user and for no request

ASSUME UsersAreOrdered == Users \subseteq Nat /\ Users # {}
ASSUME AppsExist == Apps # {}
ASSUME NobodyIsNoOne == Nobody \notin Users /\ Nobody \notin Reqs

VARIABLES
    role,     \* dashboard_users: the platform role, "none" before, "deleted" after
    owner,    \* apps.owner_id; Nobody before the app is created
    dropped,  \* apps that were deleted
    member,   \* app_members: the role of a user in an app, or "none"
    lock,     \* the transaction that holds the lock of a member's row
    req       \* the requests in flight

vars == <<role, owner, dropped, member, lock, req>>

-----------------------------------------------------------------------------
PlatformRoles == {"superadmin", "admin", "member"}
AppRoles == {"admin", "viewer"}
Rows == Apps \X Users

UserOps == {"user_role", "user_delete"}
MemberOps == {"member_role", "member_remove"}
Deletions == {"app_delete", "user_delete"}
Ops == UserOps \cup MemberOps \cup {"none", "user_create", "member_add", "app_create", "app_delete"}

\* want: the rows of the snapshot that a transaction has yet to lock.
\* seen: the roles in the rows that lockAppMembers locked.
\* raced: a platform role changed since this request began (history).
ReqIdle == [pc |-> "idle", op |-> "none", app |-> CHOOSE a \in Apps : TRUE,
            user |-> CHOOSE u \in Users : TRUE, to |-> "none", want |-> {},
            seen |-> [u \in Users |-> "none"], raced |-> FALSE]
ReqState == [pc : {"idle", "lookup", "count", "snapshot", "locking", "write"}, op : Ops,
             app : Apps, user : Users, to : PlatformRoles \cup AppRoles \cup {"none"},
             want : SUBSET Rows, seen : [Users -> AppRoles \cup {"none"}], raced : BOOLEAN]

UserExists(u) == role[u] \in PlatformRoles
Live(a) == owner[a] # Nobody /\ a \notin dropped
HasAdmin(a) == \E u \in Users : member[a][u] = "admin"
HasSuperadmin == \E u \in Users : role[u] = "superadmin"

\* A new installation, before the first superadmin.
Init ==
    /\ role = [u \in Users |-> "none"]
    /\ owner = [a \in Apps |-> Nobody]
    /\ dropped = {}
    /\ member = [a \in Apps |-> [u \in Users |-> "none"]]
    /\ lock = [a \in Apps |-> [u \in Users |-> Nobody]]
    /\ req = [r \in Reqs |-> ReqIdle]

-----------------------------------------------------------------------------
(* A request begins: the middleware reads the actor's role, the handler    *)
(* decides by it, and neither looks again (DeleteApp decides twice; this   *)
(* is the second time).                                                    *)

\* ResolveAppRole: superadmins manage every app.
CanManage(actor, a) == role[actor] = "superadmin" \/ member[a][actor] = "admin"

MayManageUsers(actor, to) ==
    role[actor] = "superadmin" \/ (role[actor] = "admin" /\ to # "superadmin")

Begin(r, op, pc, a, u, to) ==
    /\ req[r].pc = "idle"
    /\ req' = [req EXCEPT ![r] = [ReqIdle EXCEPT !.pc = pc, !.op = op, !.app = a,
                                                 !.user = u, !.to = to]]
    /\ UNCHANGED <<role, owner, dropped, member, lock>>

NoApp == ReqIdle.app

UpdateUserRole(r, actor, u, to) ==
    /\ MayManageUsers(actor, to)
    /\ Begin(r, "user_role", "lookup", NoApp, u, to)

DeleteUser(r, actor, u) ==
    /\ role[actor] = "superadmin"
    /\ u # actor
    /\ Begin(r, "user_delete", "lookup", NoApp, u, "none")

CreateUser(r, actor, u, to) ==
    /\ MayManageUsers(actor, to)
    /\ role[u] = "none"
    /\ Begin(r, "user_create", "write", NoApp, u, to)

\* A first sign-in with Google needs nobody's leave.
GoogleSignIn(r, u) ==
    /\ role[u] = "none"
    /\ Begin(r, "user_create", "write", NoApp, u, "admin")

AddAppMember(r, actor, a, u, to) ==
    /\ CanManage(actor, a)
    /\ Begin(r, "member_add", "write", a, u, to)

UpdateAppMember(r, actor, a, u, to) ==
    /\ CanManage(actor, a)
    /\ Begin(r, "member_role", "snapshot", a, u, to)

RemoveAppMember(r, actor, a, u) ==
    /\ CanManage(actor, a)
    /\ Begin(r, "member_remove", "snapshot", a, u, "none")

CreateApp(r, actor, a) ==
    /\ UserExists(actor)
    /\ owner[a] = Nobody
    /\ Begin(r, "app_create", "write", a, actor, "none")

DeleteApp(r, actor, a) ==
    /\ Live(a)
    /\ CanManage(actor, a)
    /\ Begin(r, "app_delete", "write", a, actor, "none")

-----------------------------------------------------------------------------
(* How a request goes on.                                                  *)

At(r, pc, ops) == req[r].pc = pc /\ req[r].op \in ops
Goto(r, pc) == req' = [req EXCEPT ![r].pc = pc]

\* The request ends; those that deal with a user meanwhile go on with what
\* they read.
EndUserOp(r) ==
    req' = [q \in Reqs |-> IF q = r THEN ReqIdle
                           ELSE IF req[q].op \in UserOps THEN [req[q] EXCEPT !.raced = TRUE]
                           ELSE req[q]]
End(r) == req' = [req EXCEPT ![r] = ReqIdle]

Released(r) == [a \in Apps |-> [u \in Users |-> IF lock[a][u] = r THEN Nobody ELSE lock[a][u]]]

\* A request fails, is refused, dies with its pod, or is the one that Postgres
\* picks to end a ring of waits: nothing is written and its locks are gone.
Fail(r) ==
    /\ req[r].pc # "idle"
    /\ lock' = Released(r)
    /\ End(r)
    /\ UNCHANGED <<role, owner, dropped, member>>

\* A transaction that deletes an app or a user holds its row to the end: all
\* who change it, or insert a reference to it, wait.
AppGoing(a) == \E r \in Reqs : At(r, "locking", {"app_delete"}) /\ req[r].app = a
UserGoing(u) == \E r \in Reqs : At(r, "locking", {"user_delete"}) /\ req[r].user = u

LosesSuperadmin(r) ==
    /\ role[req[r].user] = "superadmin"
    /\ req[r].op = "user_delete" \/ req[r].to # "superadmin"

\* The target's role, from which the handler concludes whether to count.
GetUser(r) ==
    /\ At(r, "lookup", UserOps)
    /\ UserExists(req[r].user)
    /\ Goto(r, IF LosesSuperadmin(r) THEN "count" ELSE "write")
    /\ UNCHANGED <<role, owner, dropped, member, lock>>

OtherSuperadmin(u) == \E v \in Users \ {u} : role[v] = "superadmin"

\* Mutant: the count does not exclude the user it is about.
AnySuperadmin(u) == HasSuperadmin

AtLeastOneSuperadminRemains(u) == OtherSuperadmin(u)

CountSuperadmins(r) ==
    /\ At(r, "count", UserOps)
    /\ AtLeastOneSuperadminRemains(req[r].user)
    /\ Goto(r, "write")
    /\ UNCHANGED <<role, owner, dropped, member, lock>>

WriteUserRole(r) ==
    /\ At(r, "write", {"user_role"})
    /\ UserExists(req[r].user)
    /\ ~UserGoing(req[r].user)
    /\ role' = [role EXCEPT ![req[r].user] = req[r].to]
    /\ EndUserOp(r)
    /\ UNCHANGED <<owner, dropped, member, lock>>

InsertUser(r) ==
    LET u == req[r].user IN
    /\ At(r, "write", {"user_create"})
    /\ role[u] = "none"
    /\ role' = [role EXCEPT ![u] = req[r].to]
    /\ EndUserOp(r)
    /\ UNCHANGED <<owner, dropped, member, lock>>

\* LOCK TABLE ... IN EXCLUSIVE MODE, count, insert: nobody writes in between.
BootstrapFirstSuperadmin(u) ==
    /\ \A v \in Users : ~UserExists(v)
    /\ role[u] = "none"
    /\ role' = [role EXCEPT ![u] = "superadmin"]
    /\ UNCHANGED <<owner, dropped, member, lock, req>>

\* Mutant: the role from before the roles of apps.
OwnerRole == "owner"

CreatorRole == "admin"

InsertApp(r) ==
    LET a == req[r].app
        u == req[r].user IN
    /\ At(r, "write", {"app_create"})
    /\ UserExists(u)
    /\ ~UserGoing(u)
    /\ owner[a] = Nobody
    /\ owner' = [owner EXCEPT ![a] = u]
    /\ member' = [member EXCEPT ![a][u] = CreatorRole]
    /\ End(r)
    /\ UNCHANGED <<role, dropped, lock>>

\* Rows inserted since a transaction's snapshot are not among those it locks.
Unseen(rows) ==
    [q \in Reqs |-> [req[q] EXCEPT !.want = @ \ rows]]

\* The unique index turns away whoever is a member already; the foreign keys
\* wait for a deletion of the app or of the user.
InsertMember(r) ==
    LET a == req[r].app
        u == req[r].user IN
    /\ At(r, "write", {"member_add"})
    /\ Live(a) /\ ~AppGoing(a)
    /\ UserExists(u) /\ ~UserGoing(u)
    /\ member[a][u] = "none"
    /\ member' = [member EXCEPT ![a][u] = req[r].to]
    /\ req' = [Unseen({<<a, u>>}) EXCEPT ![r] = ReqIdle]
    /\ UNCHANGED <<role, owner, dropped, lock>>

-----------------------------------------------------------------------------
(* The transactions that lock several members' rows: lockAppMembers, and   *)
(* the cascades of a deletion.                                             *)

\* The rows a transaction is about: a user's in all apps, or all of an app's.
Claimed(r) ==
    IF req[r].op = "user_delete" THEN Apps \X {req[r].user} ELSE {req[r].app} \X Users

MemberRows(rows) == {row \in rows : member[row[1]][row[2]] # "none"}

\* A statement sees the rows of the moment it starts.
LockAll(r) ==
    /\ req' = [req EXCEPT ![r].pc = "locking", ![r].want = MemberRows(Claimed(r))]
    /\ UNCHANGED <<role, owner, dropped, member, lock>>

\* SELECT ... FOR UPDATE.
StartLocking(r) == At(r, "snapshot", MemberOps) /\ LockAll(r)

\* DELETE FROM apps: ON DELETE CASCADE then deletes the members' rows.
StartAppDelete(r) ==
    /\ At(r, "write", {"app_delete"})
    /\ Live(req[r].app)
    /\ ~AppGoing(req[r].app)
    /\ LockAll(r)

\* DELETE FROM dashboard_users, likewise.  A user that owns an app cannot be
\* deleted, nor one the audit log names (then the request fails).
StartUserDelete(r) ==
    LET u == req[r].user IN
    /\ At(r, "write", {"user_delete"})
    /\ UserExists(u)
    /\ ~UserGoing(u)
    /\ \A a \in Apps : Live(a) => owner[a] # u
    /\ LockAll(r)

InOrder(r, row) == \A next \in req[r].want : row[2] <= next[2]

\* Mutant: the target first, then the others.
TargetFirst(r, row) ==
    LET target == <<req[r].app, req[r].user>> IN
    /\ row \in req[r].want
    /\ row = target \/ (target \notin req[r].want /\ InOrder(r, row))

\* ORDER BY user_id FOR UPDATE: one row after the other, in this order.  A
\* cascade takes the rows as its scan finds them: in any order.
LocksNext(r, row) ==
    /\ row \in req[r].want
    /\ req[r].op \in MemberOps => InOrder(r, row)

\* Mutant: without FOR UPDATE.
Unlocked(a, u) == TRUE

Lockable(a, u) == lock[a][u] = Nobody

\* A row that somebody else holds is waited for, and one that is gone by then
\* is left out.
LockRow(r, row) ==
    LET a == row[1]
        u == row[2] IN
    /\ req[r].pc = "locking"
    /\ LocksNext(r, row)
    /\ Lockable(a, u)
    /\ lock' = IF member[a][u] # "none" THEN [lock EXCEPT ![a][u] = r] ELSE lock
    /\ req' = [req EXCEPT ![r].want = @ \ {row},
                          ![r].seen[u] = IF req[r].op \in MemberOps THEN member[a][u] ELSE @]
    /\ UNCHANGED <<role, owner, dropped, member>>

\* An admin that is no more needs another one: countAdmins(members) >= 2.
KeepsAnAdmin(r) ==
    LET seen == req[r].seen
        u == req[r].user IN
    seen[u] = "admin" /\ req[r].to # "admin" => \E v \in Users \ {u} : seen[v] = "admin"

LockedAll(r, ops) == At(r, "locking", ops) /\ req[r].want = {}

\* What the locked rows decide, and the commit.  Refused: the request fails.
WriteMember(r) ==
    LET a == req[r].app
        u == req[r].user IN
    /\ LockedAll(r, MemberOps)
    /\ req[r].seen[u] # "none"
    /\ KeepsAnAdmin(r)
    /\ member' = [member EXCEPT ![a][u] = req[r].to]
    /\ lock' = Released(r)
    /\ End(r)
    /\ UNCHANGED <<role, owner, dropped>>

\* The app and its members are gone.
WriteAppDelete(r) ==
    LET a == req[r].app IN
    /\ LockedAll(r, {"app_delete"})
    /\ dropped' = dropped \cup {a}
    /\ member' = [member EXCEPT ![a] = [u \in Users |-> "none"]]
    /\ lock' = Released(r)
    /\ End(r)
    /\ UNCHANGED <<role, owner>>

\* The user and its memberships are gone.
WriteUserDelete(r) ==
    LET u == req[r].user IN
    /\ LockedAll(r, {"user_delete"})
    /\ role' = [role EXCEPT ![u] = "deleted"]
    /\ member' = [a \in Apps |-> [member[a] EXCEPT ![u] = "none"]]
    /\ lock' = Released(r)
    /\ EndUserOp(r)
    /\ UNCHANGED <<owner, dropped>>

-----------------------------------------------------------------------------
\* Every boot of a pod makes the owners admins where they are no members.
ProvisionZeepSystem ==
    LET missing == {row \in Rows : /\ Live(row[1])
                                   /\ row[2] = owner[row[1]]
                                   /\ member[row[1]][row[2]] = "none"} IN
    /\ \A row \in missing : ~AppGoing(row[1]) /\ ~UserGoing(row[2])
    /\ member' = [a \in Apps |-> [u \in Users |->
                    IF <<a, u>> \in missing THEN "admin" ELSE member[a][u]]]
    /\ req' = Unseen(missing)
    /\ UNCHANGED <<role, owner, dropped, lock>>

Authorize(r) ==
    \E actor, u \in Users, a \in Apps :
       \/ \E to \in PlatformRoles : UpdateUserRole(r, actor, u, to) \/ CreateUser(r, actor, u, to)
       \/ \E to \in AppRoles : AddAppMember(r, actor, a, u, to) \/ UpdateAppMember(r, actor, a, u, to)
       \/ DeleteUser(r, actor, u) \/ RemoveAppMember(r, actor, a, u)
       \/ CreateApp(r, actor, a) \/ DeleteApp(r, actor, a)

Proceed(r) ==
    \/ GetUser(r) \/ CountSuperadmins(r) \/ WriteUserRole(r) \/ InsertUser(r)
    \/ InsertApp(r) \/ InsertMember(r)
    \/ StartLocking(r) \/ StartAppDelete(r) \/ StartUserDelete(r)
    \/ \E row \in Rows : LockRow(r, row)
    \/ WriteMember(r) \/ WriteAppDelete(r) \/ WriteUserDelete(r)

Next ==
    \/ \E r \in Reqs : Authorize(r) \/ Proceed(r) \/ Fail(r) \/ \E u \in Users : GoogleSignIn(r, u)
    \/ \E u \in Users : BootstrapFirstSuperadmin(u)
    \/ ProvisionZeepSystem

Spec == Init /\ [][Next]_vars

-----------------------------------------------------------------------------
TypeOK ==
    /\ role \in [Users -> PlatformRoles \cup {"none", "deleted"}]
    /\ owner \in [Apps -> Users \cup {Nobody}]
    /\ dropped \in SUBSET Apps
    /\ member \in [Apps -> [Users -> AppRoles \cup {"none"}]]
    /\ lock \in [Apps -> [Users -> Reqs \cup {Nobody}]]
    /\ req \in [Reqs -> ReqState]

\* No request ends an app's last admin, whatever runs beside it: only the
\* deletion of the app, or of the user, does (UpdateAppMemberRole,
\* RemoveAppMember).
AdminLossIsADeletion ==
    [][\A a \in Apps : HasAdmin(a) /\ ~HasAdmin(a)' =>
          \/ a \in dropped'
          \/ \E u \in Users : role[u] # "deleted" /\ role'[u] = "deleted"]_vars

\* A transaction waits for a row that another one holds.
WaitsFor(r, q, row) ==
    /\ req[r].pc = "locking"
    /\ LocksNext(r, row)
    /\ lock[row[1]][row[2]] = q
    /\ q # r

IsBlockedBy(r, q) == \E row \in Rows : WaitsFor(r, q, row)

\* Transactions each of which waits for one of them, and is waited for.
IsRing(S) ==
    /\ S # {}
    /\ \A r \in S : (\E q \in S : IsBlockedBy(r, q)) /\ (\E q \in S : IsBlockedBy(q, r))

\* Changes and removals of members, of one app or of several, never wait for
\* each other in a ring, and the deletions of users that run beside them close
\* none either: the order of lockAppMembers sees to it.  A ring, of which
\* Postgres aborts one (40P01), always has the deletion of an app in it, whose
\* cascade follows no order (lockAppMembers, DeleteApp).
RingsNeedAnAppDelete ==
    \A S \in SUBSET Reqs : IsRing(S) => \E r \in S : req[r].op = "app_delete"

\* The platform loses its last superadmin only to a request that another
\* change of roles overtook: one alone is always refused
\* (assertAtLeastOneSuperadminRemains).
SuperadminLossIsARace ==
    [][HasSuperadmin /\ ~HasSuperadmin' =>
          \E r \in Reqs : req[r].op \in UserOps /\ req[r].raced /\ req'[r].pc = "idle"]_vars

\* "Removing the named user would leave the platform with zero superadmins":
\* such a request is refused, so a platform that has a superadmin keeps one
\* (users.go).
SuperadminRemains == [][HasSuperadmin => HasSuperadmin']_vars

\* A user becomes a member of an existing app only by a request to add him: in
\* particular, whoever was removed stays out (RemoveAppMember; "re-running
\* ProvisionZeepSystem is safe").
MembersAreAdded ==
    [][\A a \in Apps, u \in Users :
          Live(a) /\ member[a][u] = "none" /\ member'[a][u] # "none" =>
              \E r \in Reqs : At(r, "write", {"member_add"}) /\ req[r].user = u]_vars
=============================================================================
