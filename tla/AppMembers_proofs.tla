-------------------------- MODULE AppMembers_proofs --------------------------
(***************************************************************************)
(* An app loses its last admin only by a deletion, a ring of waiting       *)
(* transactions always has the deletion of an app in it, and the platform  *)
(* loses its last superadmin only to a race, for any number of users, apps *)
(* and requests.                                                           *)
(*                                                                         *)
(* The argument: what a transaction read in the rows it locked stays true  *)
(* until it commits, and the rows it still wants come after those it has;  *)
(* what a request about a user read stays true until a role changes.       *)
(***************************************************************************)
EXTENDS AppMembers, WellFoundedInduction, TLAPS

\* A held lock is on an existing row, of a transaction that is about it.  Such a
\* transaction of lockAppMembers has read the row and wants only later ones.
LockOK(a, u) ==
    lock[a][u] # Nobody =>
        /\ req[lock[a][u]].pc = "locking"
        /\ <<a, u>> \in Claimed(lock[a][u])
        /\ member[a][u] # "none"
        /\ req[lock[a][u]].op \in MemberOps =>
               /\ req[lock[a][u]].seen[u] # "none"
               /\ \A next \in req[lock[a][u]].want : u < next[2]

\* What a transaction read, it holds locked, and the row has not changed.
ReadOK(r, u) ==
    req[r].seen[u] # "none" =>
        /\ req[r].pc = "locking"
        /\ req[r].op \in MemberOps
        /\ lock[req[r].app][u] = r
        /\ member[req[r].app][u] = req[r].seen[u]

\* A cascade has, or still wants, every row there is of the app or the user that
\* is being deleted.
CascadeOK(r) ==
    /\ req[r].op = "app_delete" => owner[req[r].app] # Nobody
    /\ req[r].op = "user_delete" => UserExists(req[r].user)
    /\ req[r].op \in Deletions =>
           \A row \in Claimed(r) : member[row[1]][row[2]] # "none" =>
                                      row \in req[r].want \/ lock[row[1]][row[2]] = r

LockingOK(r) ==
    req[r].pc = "locking" =>
        /\ req[r].op \in MemberOps \cup Deletions
        /\ req[r].want \subseteq Claimed(r)
        /\ CascadeOK(r)

\* One transaction at a time deletes a user.
UserGoes(r, u) == At(r, "locking", {"user_delete"}) /\ req[r].user = u
Once(u) == \A r, q \in Reqs : UserGoes(r, u) /\ UserGoes(q, u) => r = q

\* A request about a user that nothing overtook acts on what is still so.
FreshOK(r) ==
    req[r].op \in UserOps /\ ~req[r].raced /\ req[r].pc \in {"count", "write", "locking"} =>
        /\ UserExists(req[r].user)
        /\ req[r].pc # "count" /\ LosesSuperadmin(r) => OtherSuperadmin(req[r].user)

\* Requests about users give platform roles, requests about members app roles.
ToOK(r) ==
    /\ req[r].op \in {"user_role", "user_create"} => req[r].to \in PlatformRoles
    /\ req[r].op \in MemberOps \cup {"member_add"} => req[r].to \in AppRoles \cup {"none"}

\* An app that is not there has no members.
RowsOK(a) == owner[a] = Nobody => \A u \in Users : member[a][u] = "none"

\* The inductive invariant.
IInv ==
    /\ TypeOK
    /\ \A a \in Apps, u \in Users : LockOK(a, u)
    /\ \A r \in Reqs, u \in Users : ReadOK(r, u)
    /\ \A r \in Reqs : LockingOK(r) /\ FreshOK(r) /\ ToOK(r)
    /\ \A a \in Apps : RowsOK(a)
    /\ \A u \in Users : Once(u)

-----------------------------------------------------------------------------
\* The idle request is a request.
LEMMA IdleIsReq == ReqIdle \in ReqState
    BY UsersAreOrdered, AppsExist
    DEF ReqIdle, ReqState, Ops, UserOps, MemberOps, PlatformRoles, AppRoles

\* A new installation satisfies the invariant.
LEMMA InitIInv == Init => IInv
<1> SUFFICES ASSUME Init PROVE IInv
    OBVIOUS
<1>1. TypeOK
    BY IdleIsReq DEF Init, TypeOK
<1>2. \A a \in Apps, u \in Users : LockOK(a, u)
    BY DEF Init, LockOK
<1>3. \A r \in Reqs, u \in Users : ReadOK(r, u)
    BY DEF Init, ReadOK, ReqIdle
<1>4. \A r \in Reqs : LockingOK(r) /\ FreshOK(r) /\ ToOK(r)
    BY DEF Init, LockingOK, FreshOK, ToOK, ReqIdle, MemberOps
<1>5. \A a \in Apps : RowsOK(a)
    BY DEF Init, RowsOK
<1>6. \A u \in Users : Once(u)
    BY DEF Init, Once, UserGoes, At, ReqIdle
<1> QED
    BY <1>1, <1>2, <1>3, <1>4, <1>5, <1>6 DEF IInv

\* What a request is about does not change, it wants no more rows than before,
\* and a cascade the same.
SameReq(q) ==
    /\ req'[q].pc = req[q].pc /\ req'[q].op = req[q].op /\ req'[q].app = req[q].app
    /\ req'[q].user = req[q].user /\ req'[q].to = req[q].to /\ req'[q].seen = req[q].seen
    /\ req'[q].want \subseteq req[q].want
    /\ req[q].pc = "locking" /\ req[q].op \in Deletions => req'[q].want = req[q].want

\* A row that a cascade of a request outside of R goes through.
InCascade(R, a, u) ==
    \E q \in Reqs \ R : At(q, "locking", Deletions) /\ <<a, u>> \in Claimed(q)

\* The rows that requests outside of R hold stay theirs, and stay as they are;
\* no row comes to those that one of them deletes.
OthersKeepRows(R) ==
    \A a \in Apps, u \in Users :
        /\ lock[a][u] \in Reqs \ R => lock'[a][u] = lock[a][u] /\ member'[a][u] = member[a][u]
        /\ lock'[a][u] \in Reqs \ R => lock[a][u] = lock'[a][u]
        /\ member[a][u] = "none" /\ member'[a][u] # "none" => ~InCascade(R, a, u)

\* An app that is created stays, a user that exists does so too.
OwnersStay == \A a \in Apps : owner[a] # Nobody => owner'[a] # Nobody

\* A step of the requests of R keeps the locks and the reads of all others, and
\* their cascades.
LEMMA OthersKeepLocks ==
    ASSUME IInv, TypeOK', NEW R, OthersKeepRows(R), OwnersStay,
           \A q \in Reqs \ R : SameReq(q),
           \A q \in Reqs \ R : At(q, "locking", {"user_delete"}) => UserExists(req[q].user)'
    PROVE  /\ \A a \in Apps, u \in Users : lock'[a][u] \in Reqs \ R => LockOK(a, u)'
           /\ \A q \in Reqs \ R, u \in Users : ReadOK(q, u)'
           /\ \A q \in Reqs \ R : LockingOK(q)'
<1>0. ASSUME NEW q \in Reqs \ R PROVE Claimed(q)' = Claimed(q)
    BY DEF SameReq, Claimed
<1>1. ASSUME NEW a \in Apps, NEW u \in Users, lock'[a][u] \in Reqs \ R PROVE LockOK(a, u)'
    <2>1. /\ lock[a][u] = lock'[a][u] /\ LockOK(a, u) /\ SameReq(lock[a][u])
          /\ member'[a][u] = member[a][u]
        BY <1>1 DEF OthersKeepRows, IInv
    <2>2. lock[a][u] # Nobody
        BY <1>1, <2>1, NobodyIsNoOne
    <2>3. Claimed(lock[a][u])' = Claimed(lock[a][u])
        BY <2>1 DEF SameReq, Claimed
    <2> QED
        BY <2>1, <2>2, <2>3 DEF LockOK, SameReq
<1>2. ASSUME NEW q \in Reqs \ R, NEW u \in Users PROVE ReadOK(q, u)'
    <2>1. SameReq(q) /\ ReadOK(q, u) /\ req[q].app \in Apps
        BY DEF IInv, TypeOK, ReqState
    <2> QED
        BY <2>1 DEF ReadOK, SameReq, OthersKeepRows
<1>3. ASSUME NEW q \in Reqs \ R PROVE LockingOK(q)'
    <2> SUFFICES ASSUME req[q].pc = "locking" PROVE LockingOK(q)'
        BY DEF LockingOK, SameReq
    <2>1. SameReq(q) /\ LockingOK(q) /\ Claimed(q)' = Claimed(q) /\ req[q].app \in Apps
        BY <1>0 DEF IInv, TypeOK, ReqState
    <2>2. Claimed(q) \subseteq Rows
        BY DEF IInv, TypeOK, ReqState, Claimed, Rows
    <2>3. ASSUME req[q].op \in Deletions, NEW row \in Claimed(q), member'[row[1]][row[2]] # "none"
          PROVE  row \in req'[q].want \/ lock'[row[1]][row[2]] = q
        <3>1. row[1] \in Apps /\ row[2] \in Users /\ row = <<row[1], row[2]>>
            BY <2>2 DEF Rows
        <3>2. member[row[1]][row[2]] # "none"
            BY <2>3, <3>1 DEF OthersKeepRows, InCascade, At
        <3> QED
            BY <2>1, <2>3, <3>1, <3>2 DEF LockingOK, CascadeOK, SameReq, OthersKeepRows
    <2>4. CascadeOK(q)'
        BY <2>1, <2>3 DEF CascadeOK, LockingOK, SameReq, OwnersStay, At
    <2> QED
        BY <2>1, <2>4 DEF LockingOK, SameReq
<1> QED
    BY <1>1, <1>2, <1>3

\* No user's deletion begins beside another one.
LEMMA OncesKept ==
    ASSUME IInv, NEW R,
           \A q \in Reqs \ R : SameReq(q),
           \A r \in R, q \in Reqs, u \in Users : UserGoes(r, u)' /\ UserGoes(q, u)' => r = q
    PROVE  \A u \in Users : Once(u)'
<1> SUFFICES ASSUME NEW u \in Users, NEW r \in Reqs, NEW q \in Reqs,
                    UserGoes(r, u)', UserGoes(q, u)'
             PROVE  r = q
    BY DEF Once
<1>1. CASE r \in R \/ q \in R
    BY <1>1
<1>2. CASE r \notin R /\ q \notin R
    <2>1. UserGoes(r, u) /\ UserGoes(q, u) /\ Once(u)
        BY <1>2 DEF SameReq, UserGoes, At, IInv
    <2> QED
        BY <2>1 DEF Once
<1> QED
    BY <1>1, <1>2

\* A step of the requests of R that changes no platform role.
LEMMA RolesKept ==
    ASSUME IInv, TypeOK', NEW R \in SUBSET Reqs, OthersKeepRows(R), OwnersStay,
           \A q \in Reqs \ R : SameReq(q) /\ req'[q].raced = req[q].raced,
           role' = role,
           \A a \in Apps, u \in Users : lock'[a][u] \in R => LockOK(a, u)',
           \A r \in R, u \in Users : ReadOK(r, u)',
           \A r \in R : LockingOK(r)' /\ FreshOK(r)' /\ ToOK(r)',
           \A r \in R, q \in Reqs, u \in Users : UserGoes(r, u)' /\ UserGoes(q, u)' => r = q,
           \A a \in Apps : RowsOK(a)'
    PROVE  IInv'
<1>0. \A q \in Reqs \ R : At(q, "locking", {"user_delete"}) => UserExists(req[q].user)'
    BY DEF IInv, LockingOK, CascadeOK, At, SameReq, UserExists
<1>1. /\ \A a \in Apps, u \in Users : lock'[a][u] \in Reqs \ R => LockOK(a, u)'
      /\ \A q \in Reqs \ R, u \in Users : ReadOK(q, u)'
      /\ \A q \in Reqs \ R : LockingOK(q)'
    BY <1>0, OthersKeepLocks
<1>2. ASSUME NEW a \in Apps, NEW u \in Users PROVE LockOK(a, u)'
    <2>1. lock'[a][u] \in Reqs \cup {Nobody}
        BY DEF TypeOK
    <2>2. lock'[a][u] = Nobody => LockOK(a, u)'
        BY DEF LockOK
    <2> QED
        BY <1>1, <2>1, <2>2
<1>3. ASSUME NEW q \in Reqs \ R PROVE FreshOK(q)' /\ ToOK(q)'
    <2>1. FreshOK(q) /\ ToOK(q) /\ SameReq(q) /\ req'[q].raced = req[q].raced
        BY DEF IInv
    <2> QED
        BY <2>1 DEF FreshOK, ToOK, SameReq, UserExists, LosesSuperadmin, OtherSuperadmin
<1>4. \A u \in Users : Once(u)'
    BY OncesKept
<1> QED
    BY <1>1, <1>2, <1>3, <1>4 DEF IInv

\* A step that ends a request about a user, or creates one.
LEMMA RolesChanged ==
    ASSUME IInv, TypeOK', NEW r \in Reqs, OthersKeepRows({r}), owner' = owner, EndUserOp(r),
           \A q \in Reqs \ {r} : At(q, "locking", {"user_delete"}) => UserExists(req[q].user)',
           \A a \in Apps, u \in Users : lock'[a][u] # r,
           \A a \in Apps : RowsOK(a)'
    PROVE  IInv'
<1>1. \A q \in Reqs \ {r} : SameReq(q) /\ (req'[q].op \in UserOps => req'[q].raced)
    BY DEF EndUserOp, SameReq, IInv, TypeOK, ReqState
<1>2. req'[r] = ReqIdle
    BY DEF EndUserOp
<1>3. /\ \A a \in Apps, u \in Users : lock'[a][u] \in Reqs \ {r} => LockOK(a, u)'
      /\ \A q \in Reqs \ {r}, u \in Users : ReadOK(q, u)'
      /\ \A q \in Reqs \ {r} : LockingOK(q)'
    BY <1>1, OthersKeepLocks DEF OwnersStay
<1>4. ASSUME NEW a \in Apps, NEW u \in Users PROVE LockOK(a, u)'
    <2>1. lock'[a][u] \in (Reqs \ {r}) \cup {Nobody}
        BY DEF TypeOK
    <2>2. lock'[a][u] = Nobody => LockOK(a, u)'
        BY DEF LockOK
    <2> QED
        BY <1>3, <2>1, <2>2
<1>5. (\A u \in Users : ReadOK(r, u)') /\ LockingOK(r)'
    BY <1>2 DEF ReadOK, LockingOK, ReqIdle
<1>6. \A q \in Reqs : FreshOK(q)'
    BY <1>1, <1>2 DEF FreshOK, ReqIdle, UserOps
<1>7. \A q \in Reqs : ToOK(q)'
    <2>1. \A q \in Reqs \ {r} : ToOK(q) /\ SameReq(q)
        BY <1>1 DEF IInv
    <2> QED
        BY <1>2, <2>1 DEF ToOK, SameReq, ReqIdle, MemberOps
<1>8. \A u \in Users : Once(u)'
    <2>1. \A u \in Users : ~UserGoes(r, u)'
        BY <1>2 DEF UserGoes, At, ReqIdle
    <2> QED
        BY <1>1, <2>1, OncesKept
<1> QED
    BY <1>3, <1>4, <1>5, <1>6, <1>7, <1>8 DEF IInv

\* A request that is not locking holds no row and has read none.
LEMMA NotLocking ==
    ASSUME IInv, NEW r \in Reqs, req[r].pc # "locking"
    PROVE  /\ \A a \in Apps, u \in Users : lock[a][u] # r
           /\ \A u \in Users : req[r].seen[u] = "none"
<1>1. ASSUME NEW a \in Apps, NEW u \in Users PROVE lock[a][u] # r
    <2>1. LockOK(a, u)
        BY DEF IInv
    <2> QED
        BY <2>1, NobodyIsNoOne DEF LockOK
<1>2. ASSUME NEW u \in Users PROVE req[r].seen[u] = "none"
    <2>1. ReadOK(r, u)
        BY DEF IInv
    <2> QED
        BY <2>1 DEF ReadOK
<1> QED
    BY <1>1, <1>2

-----------------------------------------------------------------------------
\* A request that holds no row moves on to m, and nothing else changes.
LEMMA MoveKeeps ==
    ASSUME IInv, NEW r \in Reqs, NEW m \in ReqState, req[r].pc # "locking",
           req' = [req EXCEPT ![r] = m],
           UNCHANGED <<role, owner, dropped, member, lock>>,
           \A u \in Users : m.seen[u] = "none",
           LockingOK(r)', FreshOK(r)', ToOK(r)',
           \A u \in Users : UserGoes(r, u)' => ~UserGoing(u)
    PROVE  IInv'
<1>1. req'[r] = m /\ \A q \in Reqs \ {r} : req'[q] = req[q]
    BY DEF IInv, TypeOK
<1>2. TypeOK'
    BY DEF IInv, TypeOK
<1>3. OthersKeepRows({r}) /\ OwnersStay
    BY DEF OthersKeepRows, OwnersStay
<1>4. \A q \in Reqs \ {r} : SameReq(q) /\ req'[q].raced = req[q].raced
    BY <1>1 DEF SameReq
<1>5. \A a \in Apps, u \in Users : lock'[a][u] \in {r} => LockOK(a, u)'
    BY NotLocking
<1>6. \A u \in Users : ReadOK(r, u)'
    BY <1>1 DEF ReadOK
<1>7. \A a \in Apps : RowsOK(a)'
    BY DEF IInv, RowsOK
<1>8. ASSUME NEW q \in Reqs, NEW u \in Users, UserGoes(r, u)', UserGoes(q, u)' PROVE r = q
    BY <1>1, <1>8 DEF UserGoing, UserGoes, At
<1> QED
    BY <1>2, <1>3, <1>4, <1>5, <1>6, <1>7, <1>8, RolesKept

\* A request begins.
LEMMA BeginKeeps ==
    ASSUME IInv, NEW r \in Reqs, NEW op \in Ops, NEW pc \in {"lookup", "snapshot", "write"},
           NEW a \in Apps, NEW u \in Users, NEW to \in PlatformRoles \cup AppRoles \cup {"none"},
           Begin(r, op, pc, a, u, to),
           pc = "lookup" <=> op \in UserOps,
           op \in {"user_role", "user_create"} => to \in PlatformRoles,
           op \in MemberOps \cup {"member_add"} => to \in AppRoles \cup {"none"}
    PROVE  IInv'
<1> DEFINE m == [ReqIdle EXCEPT !.pc = pc, !.op = op, !.app = a, !.user = u, !.to = to]
<1>1. m \in ReqState
    BY IdleIsReq DEF ReqState
<1>2. \A v \in Users : m.seen[v] = "none"
    BY DEF ReqIdle
<1>3. req[r].pc # "locking" /\ req' = [req EXCEPT ![r] = m]
    BY DEF Begin
<1>4. req'[r].pc = pc /\ req'[r].op = op /\ req'[r].to = to
    BY <1>3 DEF IInv, TypeOK, ReqIdle
<1>5. LockingOK(r)' /\ FreshOK(r)' /\ ToOK(r)' /\ \A v \in Users : ~UserGoes(r, v)'
    BY <1>4 DEF LockingOK, FreshOK, ToOK, UserGoes, At
<1> QED
    BY <1>1, <1>2, <1>3, <1>5, MoveKeeps DEF Begin

\* Every request that begins.
LEMMA AuthorizeKeeps == ASSUME IInv, NEW r \in Reqs, Authorize(r) PROVE IInv'
<1>1. NoApp \in Apps
    BY AppsExist DEF NoApp, ReqIdle
<1>2. PICK actor \in Users, u \in Users, a \in Apps :
       \/ \E to \in PlatformRoles : UpdateUserRole(r, actor, u, to) \/ CreateUser(r, actor, u, to)
       \/ \E to \in AppRoles : AddAppMember(r, actor, a, u, to) \/ UpdateAppMember(r, actor, a, u, to)
       \/ DeleteUser(r, actor, u) \/ RemoveAppMember(r, actor, a, u)
       \/ CreateApp(r, actor, a) \/ DeleteApp(r, actor, a)
    BY DEF Authorize
<1>3. CASE \E to \in PlatformRoles : UpdateUserRole(r, actor, u, to) \/ CreateUser(r, actor, u, to)
    BY <1>1, <1>3, BeginKeeps DEF UpdateUserRole, CreateUser, Ops, UserOps, MemberOps
<1>4. CASE \E to \in AppRoles : AddAppMember(r, actor, a, u, to) \/ UpdateAppMember(r, actor, a, u, to)
    BY <1>4, BeginKeeps DEF AddAppMember, UpdateAppMember, Ops, UserOps, MemberOps
<1>5. CASE DeleteUser(r, actor, u)
    BY <1>1, <1>5, BeginKeeps DEF DeleteUser, Ops, UserOps, MemberOps
<1>6. CASE RemoveAppMember(r, actor, a, u)
    BY <1>6, BeginKeeps DEF RemoveAppMember, Ops, UserOps, MemberOps
<1>7. CASE CreateApp(r, actor, a)
    BY <1>7, BeginKeeps DEF CreateApp, Ops, UserOps, MemberOps
<1>8. CASE DeleteApp(r, actor, a)
    BY <1>8, BeginKeeps DEF DeleteApp, Ops, UserOps, MemberOps
<1> QED
    BY <1>2, <1>3, <1>4, <1>5, <1>6, <1>7, <1>8

\* The first sign-in of a user.
LEMMA GoogleSignInKeeps == ASSUME IInv, NEW r \in Reqs, NEW u \in Users, GoogleSignIn(r, u) PROVE IInv'
<1>1. NoApp \in Apps
    BY AppsExist DEF NoApp, ReqIdle
<1> QED
    BY <1>1, BeginKeeps DEF GoogleSignIn, Ops, UserOps, MemberOps, PlatformRoles

\* A request about a user looks at the role, and counts.
LEMMA ReadsKeep == ASSUME IInv, NEW r \in Reqs, GetUser(r) \/ CountSuperadmins(r) PROVE IInv'
<1>1. PICK pc \in {"count", "write"} :
          /\ req' = [req EXCEPT ![r].pc = pc]
          /\ pc = "count" => UserExists(req[r].user)
          /\ pc = "write" /\ LosesSuperadmin(r) => OtherSuperadmin(req[r].user)
    BY DEF GetUser, CountSuperadmins, Goto, AtLeastOneSuperadminRemains
<1> DEFINE m == [req[r] EXCEPT !.pc = pc]
<1>2. req[r] \in ReqState /\ req[r].pc \in {"lookup", "count"} /\ req[r].op \in UserOps
    BY DEF IInv, TypeOK, GetUser, CountSuperadmins, At
<1>3. m \in ReqState /\ req' = [req EXCEPT ![r] = m]
    BY <1>1, <1>2 DEF ReqState, IInv, TypeOK
<1>4. \A u \in Users : m.seen[u] = "none"
    BY <1>2, NotLocking DEF ReqState
<1>5. /\ req'[r].pc = pc /\ req'[r].user = req[r].user /\ req'[r].op = req[r].op
      /\ req'[r].to = req[r].to /\ req'[r].raced = req[r].raced /\ role' = role
    BY <1>2, <1>3 DEF ReqState, IInv, TypeOK, GetUser, CountSuperadmins
<1>6. ~req[r].raced => UserExists(req[r].user)
    BY <1>2 DEF GetUser, CountSuperadmins, At, IInv, FreshOK
<1>7. LockingOK(r)' /\ FreshOK(r)' /\ ToOK(r)' /\ \A u \in Users : ~UserGoes(r, u)'
    <2>1. ToOK(r)
        BY DEF IInv
    <2> QED
        BY <1>1, <1>5, <1>6, <2>1 DEF LockingOK, FreshOK, ToOK, UserExists, LosesSuperadmin,
                                      OtherSuperadmin, UserGoes, At
<1>8. UNCHANGED <<role, owner, dropped, member, lock>>
    BY DEF GetUser, CountSuperadmins
<1> QED
    BY <1>2, <1>3, <1>4, <1>7, <1>8, MoveKeeps

\* A transaction takes its snapshot, of members to lock or to delete.
LEMMA StartsKeep ==
    ASSUME IInv, NEW r \in Reqs, StartLocking(r) \/ StartAppDelete(r) \/ StartUserDelete(r)
    PROVE  IInv'
<1> DEFINE want == MemberRows(Claimed(r))
           m == [req[r] EXCEPT !.pc = "locking", !.want = want]
<1>1. /\ req[r] \in ReqState /\ req[r].pc \in {"snapshot", "write"}
      /\ req[r].op \in MemberOps \cup Deletions /\ LockAll(r)
    BY DEF IInv, TypeOK, StartLocking, StartAppDelete, StartUserDelete, At, Deletions
<1>2. want \in SUBSET Rows
    BY <1>1 DEF ReqState, MemberRows, Claimed, Rows
<1>3. m \in ReqState /\ req' = [req EXCEPT ![r] = m]
    BY <1>1, <1>2 DEF ReqState, LockAll, IInv, TypeOK
<1>4. \A u \in Users : m.seen[u] = "none"
    BY <1>1, NotLocking DEF ReqState
<1>5. /\ req'[r].pc = "locking" /\ req'[r].op = req[r].op /\ req'[r].to = req[r].to
      /\ req'[r].user = req[r].user /\ req'[r].app = req[r].app /\ req'[r].want = want
      /\ req'[r].raced = req[r].raced
    BY <1>1, <1>3 DEF ReqState, IInv, TypeOK
<1>6. UNCHANGED <<role, owner, dropped, member, lock>>
    BY <1>1 DEF LockAll
<1>7. CascadeOK(r)'
    <2>1. Claimed(r)' = Claimed(r)
        BY <1>5 DEF Claimed
    <2>2. /\ req[r].op = "app_delete" => owner[req[r].app] # Nobody
          /\ req[r].op = "user_delete" => UserExists(req[r].user)
        BY DEF StartLocking, StartAppDelete, StartUserDelete, At, Live, MemberOps
    <2> QED
        BY <1>5, <1>6, <2>1, <2>2 DEF CascadeOK, UserExists, MemberRows
<1>8. LockingOK(r)'
    BY <1>1, <1>5, <1>7 DEF LockingOK, Claimed, MemberRows
<1>9. FreshOK(r)' /\ ToOK(r)'
    <2>1. FreshOK(r) /\ ToOK(r)
        BY DEF IInv
    <2>2. req[r].op \in UserOps => req[r].pc = "write"
        BY DEF StartLocking, StartAppDelete, StartUserDelete, At, UserOps, MemberOps
    <2> QED
        BY <1>5, <1>6, <2>1, <2>2 DEF FreshOK, ToOK, UserExists, LosesSuperadmin, OtherSuperadmin
<1>10. \A u \in Users : UserGoes(r, u)' => ~UserGoing(u)
    BY <1>5 DEF UserGoes, At, StartLocking, StartAppDelete, StartUserDelete, MemberOps
<1> QED
    BY <1>1, <1>3, <1>4, <1>6, <1>8, <1>9, <1>10, MoveKeeps

\* A transaction locks its next row; lockAppMembers reads it.
LEMMA LockRowKeeps == ASSUME IInv, NEW r \in Reqs, NEW row \in Rows, LockRow(r, row) PROVE IInv'
<1> DEFINE a == row[1]
           u == row[2]
           reads == req[r].op \in MemberOps
<1>1. /\ req[r] \in ReqState /\ a \in Apps /\ u \in Users /\ row = <<a, u>>
      /\ req[r].pc = "locking" /\ row \in req[r].want
      /\ reads => \A next \in req[r].want : u <= next[2]
      /\ lock[a][u] = Nobody
      /\ LockingOK(r)
    BY DEF IInv, TypeOK, LockRow, Rows, LocksNext, InOrder, Lockable
<1>2. \A q \in Reqs \ {r} : req'[q] = req[q]
    BY DEF LockRow, IInv, TypeOK
<1>3. /\ req'[r].pc = "locking" /\ req'[r].app = req[r].app /\ req'[r].want = req[r].want \ {row}
      /\ req'[r].op = req[r].op /\ req'[r].to = req[r].to /\ req'[r].user = req[r].user
      /\ req'[r].raced = req[r].raced
      /\ req'[r].seen[u] = IF reads THEN member[a][u] ELSE req[r].seen[u]
      /\ \A v \in Users \ {u} : req'[r].seen[v] = req[r].seen[v]
      /\ req'[r] \in ReqState
    <2> DEFINE read == IF reads THEN member[a][u] ELSE req[r].seen[u]
               seen == [req[r].seen EXCEPT ![u] = read]
               want == req[r].want \ {row}
    <2>1. req'[r] = [req[r] EXCEPT !.want = want, !.seen = seen]
        BY DEF LockRow, IInv, TypeOK
    <2>2. read \in AppRoles \cup {"none"} /\ req[r].seen \in [Users -> AppRoles \cup {"none"}]
        BY <1>1 DEF IInv, TypeOK, ReqState
    <2> HIDE DEF read
    <2>3. /\ seen \in [Users -> AppRoles \cup {"none"}] /\ seen[u] = read
          /\ \A v \in Users \ {u} : seen[v] = req[r].seen[v]
        BY <1>1, <2>2
    <2>4. want \in SUBSET Rows
        BY <1>1 DEF ReqState
    <2> HIDE DEF seen, want
    <2>5. req'[r] \in ReqState /\ req'[r].want = want /\ req'[r].seen = seen
        BY <1>1, <2>1, <2>3, <2>4 DEF ReqState
    <2>6. /\ req'[r].pc = req[r].pc /\ req'[r].app = req[r].app /\ req'[r].op = req[r].op
          /\ req'[r].to = req[r].to /\ req'[r].user = req[r].user /\ req'[r].raced = req[r].raced
        BY <1>1, <2>1 DEF ReqState
    <2> QED
        BY <1>1, <2>3, <2>5, <2>6 DEF want, read
<1>4. /\ \A b \in Apps, v \in Users : <<b, v>> # <<a, u>> => lock'[b][v] = lock[b][v]
      /\ lock'[a][u] = IF member[a][u] # "none" THEN r ELSE Nobody
      /\ lock' \in [Apps -> [Users -> Reqs \cup {Nobody}]]
    BY <1>1 DEF LockRow, IInv, TypeOK
<1>5. TypeOK'
    BY <1>2, <1>3, <1>4 DEF LockRow, IInv, TypeOK
<1>6. OthersKeepRows({r}) /\ OwnersStay
    BY <1>1, <1>4, NobodyIsNoOne DEF OthersKeepRows, OwnersStay, LockRow
<1>7. \A q \in Reqs \ {r} : SameReq(q) /\ req'[q].raced = req[q].raced
    BY <1>2 DEF SameReq
<1>8. Claimed(r)' = Claimed(r) /\ Claimed(r) \subseteq Rows
    BY <1>1, <1>3 DEF Claimed, ReqState, Rows
<1>9. member' = member
    BY DEF LockRow
<1>10. ASSUME NEW b \in Apps, NEW v \in Users, lock'[b][v] = r PROVE LockOK(b, v)'
    <2>1. Claimed(lock[b][v])' = Claimed(r)
        BY <1>8, <1>10 DEF Claimed
    <2>2. CASE <<b, v>> = <<a, u>>
        <3>1. <<a, u>> \in Claimed(r) /\ member[a][u] # "none"
            BY <1>1, <1>4, <1>10, <2>2, NobodyIsNoOne DEF LockingOK
        <3>2. ASSUME reads, NEW next \in req'[r].want PROVE u < next[2]
            <4>1. /\ next \in req[r].want /\ next \in Claimed(r) /\ next # row /\ u <= next[2]
                  /\ <<a, u>> \in Claimed(r)
                BY <1>1, <1>3, <3>1, <3>2 DEF LockingOK
            <4>2. Claimed(r) = {req[r].app} \X Users
                BY <3>2 DEF Claimed, MemberOps
            <4>3. /\ next = <<req[r].app, next[2]>> /\ next[2] \in Users /\ row = <<req[r].app, u>>
                BY <1>1, <4>1, <4>2
            <4>4. next[2] # u
                BY <4>1, <4>3
            <4> QED
                BY <1>1, <4>1, <4>3, <4>4, UsersAreOrdered
        <3> QED
            BY <1>3, <1>9, <1>10, <2>1, <2>2, <3>1, <3>2 DEF LockOK
    <2>3. CASE <<b, v>> # <<a, u>>
        <3>1. lock[b][v] = r /\ LockOK(b, v)
            BY <1>4, <1>10, <2>3 DEF IInv
        <3>2. /\ <<b, v>> \in Claimed(r) /\ member[b][v] # "none"
              /\ reads => req[r].seen[v] # "none" /\ \A next \in req[r].want : v < next[2]
            BY <3>1, NobodyIsNoOne DEF LockOK
        <3>3. reads => v # u
            BY <1>1, <3>2, UsersAreOrdered
        <3> QED
            BY <1>3, <1>9, <1>10, <2>1, <3>2, <3>3 DEF LockOK
    <2> QED
        BY <2>2, <2>3
<1>11. ASSUME NEW v \in Users PROVE ReadOK(r, v)'
    <2>1. ReadOK(r, v)
        BY DEF IInv
    <2>2. reads => a = req[r].app
        BY <1>1 DEF LockingOK, Claimed, MemberOps
    <2>3. CASE reads /\ v = u
        BY <1>3, <1>4, <1>9, <2>2, <2>3 DEF ReadOK
    <2>4. CASE reads /\ v # u
        BY <1>1, <1>3, <1>4, <1>9, <2>1, <2>2, <2>4 DEF ReadOK
    <2>5. CASE ~reads
        BY <1>3, <2>1, <2>5 DEF ReadOK
    <2> QED
        BY <2>3, <2>4, <2>5
<1>12. LockingOK(r)'
    <2>1. ASSUME req[r].op \in Deletions, NEW other \in Claimed(r),
                 member[other[1]][other[2]] # "none"
          PROVE  other \in req'[r].want \/ lock'[other[1]][other[2]] = r
        <3>1. other[1] \in Apps /\ other[2] \in Users /\ other = <<other[1], other[2]>>
            BY <1>8 DEF Rows
        <3>2. other \in req[r].want \/ lock[other[1]][other[2]] = r
            BY <1>1, <2>1 DEF LockingOK, CascadeOK
        <3> QED
            BY <1>1, <1>3, <1>4, <2>1, <3>1, <3>2
    <2>2. CascadeOK(r)'
        BY <1>1, <1>3, <1>8, <1>9, <2>1 DEF LockingOK, CascadeOK, UserExists, LockRow
    <2> QED
        BY <1>1, <1>3, <1>8, <2>2 DEF LockingOK
<1>13. FreshOK(r)' /\ ToOK(r)'
    <2>1. FreshOK(r) /\ ToOK(r) /\ role' = role
        BY DEF IInv, LockRow
    <2> QED
        BY <1>1, <1>3, <2>1 DEF FreshOK, ToOK, UserExists, LosesSuperadmin, OtherSuperadmin
<1>14. ASSUME NEW q \in Reqs, NEW v \in Users, UserGoes(r, v)', UserGoes(q, v)' PROVE r = q
    <2>1. UserGoes(r, v) /\ UserGoes(q, v)
        BY <1>1, <1>2, <1>3, <1>14 DEF UserGoes, At
    <2> QED
        BY <2>1 DEF IInv, Once
<1>15. role' = role /\ \A b \in Apps : RowsOK(b)'
    BY DEF LockRow, IInv, RowsOK
<1> QED
    BY <1>5, <1>6, <1>7, <1>10, <1>11, <1>12, <1>13, <1>14, <1>15, RolesKept

\* A request ends, with its locks, and leaves the rows that others hold.
LEMMA EndKeeps ==
    ASSUME IInv, TypeOK', NEW r \in Reqs, role' = role, OthersKeepRows({r}), OwnersStay,
           req'[r] = ReqIdle,
           \A q \in Reqs \ {r} : SameReq(q) /\ req'[q].raced = req[q].raced,
           \A a \in Apps, u \in Users : lock'[a][u] # r,
           \A a \in Apps : RowsOK(a)'
    PROVE  IInv'
<1>1. \A u \in Users : ReadOK(r, u)' /\ ~UserGoes(r, u)'
    BY DEF ReadOK, ReqIdle, UserGoes, At
<1>2. LockingOK(r)' /\ FreshOK(r)' /\ ToOK(r)'
    BY DEF LockingOK, FreshOK, ToOK, ReqIdle, MemberOps
<1> QED
    BY <1>1, <1>2, RolesKept

\* What End means for the other requests.
LEMMA EndMeans ==
    ASSUME TypeOK, NEW r \in Reqs, End(r)
    PROVE  /\ req'[r] = ReqIdle
           /\ req' \in [Reqs -> ReqState]
           /\ \A q \in Reqs \ {r} : SameReq(q) /\ req'[q].raced = req[q].raced
<1>1. req'[r] = ReqIdle /\ \A q \in Reqs \ {r} : req'[q] = req[q]
    BY DEF End, TypeOK
<1>2. req' \in [Reqs -> ReqState]
    BY IdleIsReq DEF End, TypeOK
<1> QED
    BY <1>1, <1>2 DEF SameReq

\* What releasing the locks of a transaction means.
LEMMA ReleasedMeans ==
    ASSUME TypeOK, NEW r \in Reqs, lock' = Released(r)
    PROVE  /\ \A a \in Apps, u \in Users : lock'[a][u] = IF lock[a][u] = r THEN Nobody ELSE lock[a][u]
           /\ \A a \in Apps, u \in Users : lock'[a][u] # r
           /\ lock' \in [Apps -> [Users -> Reqs \cup {Nobody}]]
<1>1. \A a \in Apps, u \in Users : lock'[a][u] = IF lock[a][u] = r THEN Nobody ELSE lock[a][u]
    BY DEF Released
<1>2. lock' \in [Apps -> [Users -> Reqs \cup {Nobody}]]
    BY DEF Released, TypeOK
<1> QED
    BY <1>1, <1>2, NobodyIsNoOne

\* A request fails.
LEMMA FailKeeps == ASSUME IInv, NEW r \in Reqs, Fail(r) PROVE IInv'
<1>1. TypeOK /\ End(r) /\ UNCHANGED <<role, owner, dropped, member>> /\ lock' = Released(r)
    BY DEF IInv, Fail
<1>2. TypeOK'
    BY <1>1, EndMeans, ReleasedMeans DEF TypeOK
<1>3. OthersKeepRows({r}) /\ OwnersStay
    BY <1>1, ReleasedMeans, NobodyIsNoOne DEF OthersKeepRows, OwnersStay
<1>4. \A a \in Apps : RowsOK(a)'
    BY <1>1 DEF IInv, RowsOK
<1> QED
    BY <1>1, <1>2, <1>3, <1>4, EndMeans, ReleasedMeans, EndKeeps

\* A transaction on members commits.
LEMMA WriteMemberKeeps == ASSUME IInv, NEW r \in Reqs, WriteMember(r) PROVE IInv'
<1> DEFINE a == req[r].app
           u == req[r].user
<1>1. TypeOK /\ End(r) /\ UNCHANGED <<role, owner, dropped>> /\ lock' = Released(r)
    BY DEF IInv, WriteMember
<1>2. req[r] \in ReqState /\ a \in Apps /\ u \in Users
    BY <1>1 DEF TypeOK, ReqState
<1>3. lock[a][u] = r /\ member[a][u] # "none"
    BY <1>2 DEF IInv, ReadOK, WriteMember
<1>4. req[r].to \in AppRoles \cup {"none"}
    BY DEF IInv, ToOK, WriteMember, LockedAll, At
<1>5. member' = [member EXCEPT ![a][u] = req[r].to]
    BY DEF WriteMember
<1>6. TypeOK'
    BY <1>1, <1>2, <1>4, <1>5, EndMeans, ReleasedMeans DEF TypeOK
<1>7. \A b \in Apps, v \in Users : <<b, v>> # <<a, u>> => member'[b][v] = member[b][v]
    BY <1>1, <1>2, <1>5 DEF TypeOK
<1>8. OthersKeepRows({r}) /\ OwnersStay
    BY <1>1, <1>3, <1>7, ReleasedMeans, NobodyIsNoOne DEF OthersKeepRows, OwnersStay
<1>9. \A b \in Apps : RowsOK(b)'
    BY <1>1, <1>2, <1>3, <1>7 DEF IInv, RowsOK
<1> QED
    BY <1>1, <1>6, <1>8, <1>9, EndMeans, ReleasedMeans, EndKeeps

\* A row that is locked is there.
LEMMA LockedRowsExist ==
    ASSUME IInv, NEW a \in Apps, NEW u \in Users, member[a][u] = "none"
    PROVE  lock[a][u] = Nobody
    BY DEF IInv, LockOK

\* A cascade that has no more to lock holds all the rows it deletes.
LEMMA CascadeHolds ==
    ASSUME IInv, NEW r \in Reqs, LockedAll(r, Deletions),
           NEW a \in Apps, NEW u \in Users, <<a, u>> \in Claimed(r)
    PROVE  lock[a][u] \in {r, Nobody}
<1>1. CASE member[a][u] = "none"
    BY <1>1, LockedRowsExist
<1>2. CASE member[a][u] # "none"
    <2>1. CascadeOK(r) /\ req[r].op \in Deletions /\ req[r].want = {}
        BY DEF IInv, LockingOK, LockedAll, At
    <2> QED
        BY <1>2, <2>1 DEF CascadeOK
<1> QED
    BY <1>1, <1>2

\* What the end of a request about a user means for the types.
LEMMA EndUserMeans ==
    ASSUME TypeOK, NEW r \in Reqs, EndUserOp(r) PROVE req' \in [Reqs -> ReqState]
<1>1. \A q \in Reqs : req[q] \in ReqState
    BY DEF TypeOK
<1>2. \A q \in Reqs : [req[q] EXCEPT !.raced = TRUE] \in ReqState
    BY <1>1 DEF ReqState
<1> QED
    BY <1>1, <1>2, IdleIsReq DEF EndUserOp

\* The app is there, with its creator as admin.
LEMMA InsertAppKeeps == ASSUME IInv, NEW r \in Reqs, InsertApp(r) PROVE IInv'
<1> DEFINE a == req[r].app
           u == req[r].user
<1>1. TypeOK /\ End(r) /\ UNCHANGED <<role, dropped, lock>> /\ req[r].pc # "locking"
    BY DEF IInv, InsertApp, At
<1>2. a \in Apps /\ u \in Users
    BY <1>1 DEF TypeOK, ReqState
<1>3. TypeOK'
    BY <1>1, <1>2, EndMeans DEF TypeOK, InsertApp, CreatorRole, AppRoles
<1>4. /\ owner[a] = Nobody /\ owner'[a] = u /\ \A b \in Apps \ {a} : owner'[b] = owner[b]
      /\ \A b \in Apps, v \in Users : <<b, v>> # <<a, u>> => member'[b][v] = member[b][v]
      /\ ~UserGoing(u)
    BY <1>1, <1>2 DEF TypeOK, InsertApp
<1>5. lock[a][u] = Nobody
    BY <1>2, <1>4, LockedRowsExist DEF IInv, RowsOK
<1>6. ~InCascade({r}, a, u)
    <2> SUFFICES ASSUME NEW q \in Reqs, At(q, "locking", Deletions), <<a, u>> \in Claimed(q)
                 PROVE  FALSE
        BY DEF InCascade
    <2>1. LockingOK(q) /\ req[q].op \in Deletions /\ req[q].pc = "locking"
        BY DEF IInv, At
    <2> QED
        BY <1>4, <2>1 DEF LockingOK, CascadeOK, Claimed, Deletions, UserGoing, At
<1>7. OthersKeepRows({r}) /\ OwnersStay
    BY <1>1, <1>2, <1>4, <1>5, <1>6, NobodyIsNoOne DEF OthersKeepRows, OwnersStay
<1>8. \A b \in Apps : RowsOK(b)'
    BY <1>2, <1>4, NobodyIsNoOne DEF IInv, RowsOK
<1> QED
    BY <1>1, <1>3, <1>7, <1>8, EndMeans, EndKeeps, NotLocking

\* The app and its members go.
LEMMA WriteAppDeleteKeeps == ASSUME IInv, NEW r \in Reqs, WriteAppDelete(r) PROVE IInv'
<1> DEFINE a == req[r].app
<1>1. /\ TypeOK /\ End(r) /\ UNCHANGED <<role, owner>> /\ lock' = Released(r)
      /\ LockedAll(r, Deletions) /\ req[r].op = "app_delete"
    BY DEF IInv, WriteAppDelete, LockedAll, At, Deletions
<1>2. a \in Apps
    BY <1>1 DEF TypeOK, ReqState
<1>3. TypeOK'
    BY <1>1, <1>2, EndMeans, ReleasedMeans DEF TypeOK, WriteAppDelete
<1>4. /\ \A u \in Users : member'[a][u] = "none"
      /\ \A b \in Apps \ {a} : member'[b] = member[b]
    BY <1>1, <1>2 DEF TypeOK, WriteAppDelete
<1>5. \A u \in Users : lock[a][u] \in {r, Nobody}
    BY <1>1, <1>2, CascadeHolds DEF Claimed
<1>6. OthersKeepRows({r}) /\ OwnersStay
    BY <1>1, <1>4, <1>5, ReleasedMeans, NobodyIsNoOne DEF OthersKeepRows, OwnersStay
<1>7. \A b \in Apps : RowsOK(b)'
    BY <1>1, <1>4 DEF IInv, RowsOK
<1> QED
    BY <1>1, <1>3, <1>6, <1>7, EndMeans, ReleasedMeans, EndKeeps

\* What Unseen means for every request.
LEMMA UnseenMeans ==
    ASSUME TypeOK, NEW rows
    PROVE  /\ Unseen(rows) \in [Reqs -> ReqState]
           /\ \A q \in Reqs :
                 /\ Unseen(rows)[q].pc = req[q].pc /\ Unseen(rows)[q].op = req[q].op
                 /\ Unseen(rows)[q].app = req[q].app /\ Unseen(rows)[q].user = req[q].user
                 /\ Unseen(rows)[q].to = req[q].to /\ Unseen(rows)[q].seen = req[q].seen
                 /\ Unseen(rows)[q].raced = req[q].raced
                 /\ Unseen(rows)[q].want = req[q].want \ rows
<1> SUFFICES ASSUME NEW q \in Reqs
             PROVE  /\ Unseen(rows)[q] \in ReqState
                    /\ Unseen(rows)[q].pc = req[q].pc /\ Unseen(rows)[q].op = req[q].op
                    /\ Unseen(rows)[q].app = req[q].app /\ Unseen(rows)[q].user = req[q].user
                    /\ Unseen(rows)[q].to = req[q].to /\ Unseen(rows)[q].seen = req[q].seen
                    /\ Unseen(rows)[q].raced = req[q].raced
                    /\ Unseen(rows)[q].want = req[q].want \ rows
    BY DEF Unseen
<1> DEFINE want == req[q].want \ rows
<1>1. req[q] \in ReqState
    BY DEF TypeOK
<1>2. want \subseteq req[q].want /\ want \in SUBSET Rows
    BY <1>1 DEF ReqState
<1>3. Unseen(rows)[q] = [req[q] EXCEPT !.want = want]
    BY DEF Unseen
<1> HIDE DEF want
<1>4. /\ Unseen(rows)[q] \in ReqState /\ Unseen(rows)[q].want = want
      /\ Unseen(rows)[q].pc = req[q].pc /\ Unseen(rows)[q].op = req[q].op
      /\ Unseen(rows)[q].app = req[q].app /\ Unseen(rows)[q].user = req[q].user
      /\ Unseen(rows)[q].to = req[q].to /\ Unseen(rows)[q].seen = req[q].seen
      /\ Unseen(rows)[q].raced = req[q].raced
    BY <1>1, <1>2, <1>3 DEF ReqState
<1> QED
    BY <1>4 DEF want

\* Rows whose app and user nobody deletes are in no cascade.
LEMMA OutsideCascades ==
    ASSUME IInv, NEW a \in Apps, NEW u \in Users, ~AppGoing(a), ~UserGoing(u)
    PROVE  \A q \in Reqs : At(q, "locking", Deletions) => <<a, u>> \notin Claimed(q)
    BY DEF At, AppGoing, UserGoing, Claimed, Deletions

\* Rows outside of the cascades that appear leave these as they are.
LEMMA UnseenKeepsCascades ==
    ASSUME IInv, NEW rows, NEW q \in Reqs, At(q, "locking", Deletions),
           \A row \in rows : row \notin Claimed(q)
    PROVE  Unseen(rows)[q].want = req[q].want
<1>1. req[q].want \subseteq Claimed(q)
    BY DEF IInv, LockingOK, At
<1>2. TypeOK
    BY DEF IInv
<1>3. Unseen(rows)[q].want = req[q].want \ rows
    BY <1>2, UnseenMeans
<1> QED
    BY <1>1, <1>3

\* A new member's row is nobody's yet.
LEMMA InsertMemberKeeps == ASSUME IInv, NEW r \in Reqs, InsertMember(r) PROVE IInv'
<1> DEFINE a == req[r].app
           u == req[r].user
<1>1. /\ TypeOK /\ UNCHANGED <<role, owner, dropped, lock>> /\ req[r].pc # "locking"
      /\ req' = [Unseen({<<a, u>>}) EXCEPT ![r] = ReqIdle]
      /\ ~AppGoing(a) /\ ~UserGoing(u)
    BY DEF IInv, InsertMember, At
<1>2. a \in Apps /\ u \in Users
    BY <1>1 DEF TypeOK, ReqState
<1>3. req[r].to \in AppRoles \cup {"none"}
    BY DEF IInv, ToOK, InsertMember, At
<1>4. /\ req' \in [Reqs -> ReqState] /\ req'[r] = ReqIdle
      /\ \A q \in Reqs \ {r} : req'[q] = Unseen({<<a, u>>})[q]
    BY <1>1, UnseenMeans, IdleIsReq
<1>5. \A q \in Reqs : At(q, "locking", Deletions) => <<a, u>> \notin Claimed(q)
    BY <1>1, <1>2, OutsideCascades
<1>6. ASSUME NEW q \in Reqs \ {r} PROVE SameReq(q) /\ req'[q].raced = req[q].raced
    <2>1. At(q, "locking", Deletions) => Unseen({<<a, u>>})[q].want = req[q].want
        BY <1>5, UnseenKeepsCascades
    <2> QED
        BY <1>1, <1>4, <2>1, UnseenMeans DEF SameReq, At
<1>7. TypeOK'
    BY <1>1, <1>2, <1>3, <1>4 DEF TypeOK, InsertMember
<1>8. /\ \A b \in Apps, v \in Users : <<b, v>> # <<a, u>> => member'[b][v] = member[b][v]
      /\ owner[a] # Nobody /\ member[a][u] = "none"
    BY <1>1, <1>2 DEF TypeOK, InsertMember, Live
<1>9. lock[a][u] = Nobody
    BY <1>2, <1>8, LockedRowsExist
<1>10. OthersKeepRows({r}) /\ OwnersStay
    BY <1>1, <1>5, <1>8, <1>9, NobodyIsNoOne DEF OthersKeepRows, OwnersStay, InCascade
<1>11. \A b \in Apps : RowsOK(b)'
    BY <1>1, <1>2, <1>8 DEF IInv, RowsOK
<1>12. \A b \in Apps, v \in Users : lock'[b][v] # r
    BY <1>1, NotLocking
<1>13. role' = role
    BY <1>1
<1> QED
    BY <1>4, <1>6, <1>7, <1>10, <1>11, <1>12, <1>13, EndKeeps

\* The owners' rows that a boot adds are nobody's yet.
LEMMA ProvisionKeeps == ASSUME IInv, ProvisionZeepSystem PROVE IInv'
<1>1. PICK missing :
       /\ missing = {row \in Rows : /\ Live(row[1])
                                    /\ row[2] = owner[row[1]]
                                    /\ member[row[1]][row[2]] = "none"}
       /\ \A row \in missing : ~AppGoing(row[1]) /\ ~UserGoing(row[2])
       /\ member' = [b \in Apps |-> [v \in Users |->
                        IF <<b, v>> \in missing THEN "admin" ELSE member[b][v]]]
       /\ req' = Unseen(missing)
       /\ UNCHANGED <<role, owner, dropped, lock>>
    BY DEF ProvisionZeepSystem
<1>2. TypeOK
    BY DEF IInv
<1>3. \A b \in Apps, v \in Users :
          <<b, v>> \in missing => owner[b] # Nobody /\ member[b][v] = "none" /\ lock[b][v] = Nobody
    BY <1>1, LockedRowsExist DEF Live
<1>4. member' \in [Apps -> [Users -> AppRoles \cup {"none"}]]
    BY <1>1, <1>2 DEF TypeOK, AppRoles
<1>5. TypeOK'
    BY <1>1, <1>2, <1>4, UnseenMeans DEF TypeOK
<1>6. ASSUME NEW q \in Reqs, At(q, "locking", Deletions), NEW row \in missing
      PROVE  row \notin Claimed(q)
    <2>1. row[1] \in Apps /\ row[2] \in Users /\ row = <<row[1], row[2]>>
        BY <1>1 DEF Rows
    <2> QED
        BY <1>1, <1>6, <2>1, OutsideCascades
<1>7. ASSUME NEW q \in Reqs PROVE SameReq(q) /\ req'[q].raced = req[q].raced
    <2>1. At(q, "locking", Deletions) => Unseen(missing)[q].want = req[q].want
        BY <1>6, UnseenKeepsCascades
    <2> QED
        BY <1>1, <1>2, <2>1, UnseenMeans DEF SameReq, At
<1>8. OthersKeepRows({}) /\ OwnersStay
    BY <1>1, <1>3, <1>6, NobodyIsNoOne DEF OthersKeepRows, OwnersStay, InCascade
<1>9. \A b \in Apps : RowsOK(b)'
    BY <1>1, <1>3 DEF IInv, RowsOK
<1>10. /\ role' = role /\ {} \in SUBSET Reqs
       /\ \A q \in Reqs \ {} : SameReq(q) /\ req'[q].raced = req[q].raced
    BY <1>1, <1>7
<1> QED
    BY <1>5, <1>8, <1>9, <1>10, RolesKept

-----------------------------------------------------------------------------
\* A user's role changes, or a user is inserted.
LEMMA WriteUserKeeps == ASSUME IInv, NEW r \in Reqs, WriteUserRole(r) \/ InsertUser(r) PROVE IInv'
<1>1. /\ TypeOK /\ EndUserOp(r) /\ UNCHANGED <<owner, dropped, member, lock>>
      /\ req[r].pc = "write" /\ req[r].op \in {"user_role", "user_create"}
      /\ role' = [role EXCEPT ![req[r].user] = req[r].to]
    BY DEF IInv, WriteUserRole, InsertUser, At
<1>2. req[r].to \in PlatformRoles
    BY <1>1 DEF IInv, ToOK
<1>3. TypeOK'
    BY <1>1, <1>2, EndUserMeans DEF TypeOK
<1>4. OthersKeepRows({r})
    BY <1>1 DEF OthersKeepRows
<1>5. \A a \in Apps : RowsOK(a)'
    BY <1>1 DEF IInv, RowsOK
<1>6. ASSUME NEW q \in Reqs \ {r}, At(q, "locking", {"user_delete"})
      PROVE  UserExists(req[q].user)'
    <2>1. UserExists(req[q].user) /\ req[q].user \in Users /\ req'[q].user = req[q].user
        BY <1>1, <1>6 DEF IInv, LockingOK, CascadeOK, At, TypeOK, ReqState, EndUserOp
    <2> QED
        BY <1>1, <1>2, <2>1 DEF UserExists, TypeOK
<1> QED
    BY <1>1, <1>3, <1>4, <1>5, <1>6, NotLocking, RolesChanged

\* A user goes, with its rows, which nobody else holds.
LEMMA WriteUserDeleteKeeps == ASSUME IInv, NEW r \in Reqs, WriteUserDelete(r) PROVE IInv'
<1> DEFINE u == req[r].user
<1>1. /\ TypeOK /\ EndUserOp(r) /\ UNCHANGED <<owner, dropped>> /\ lock' = Released(r)
      /\ LockedAll(r, Deletions) /\ req[r].op = "user_delete" /\ UserGoes(r, u)
      /\ role' = [role EXCEPT ![u] = "deleted"]
      /\ member' = [a \in Apps |-> [member[a] EXCEPT ![u] = "none"]]
    BY DEF IInv, WriteUserDelete, LockedAll, At, Deletions, UserGoes
<1>2. TypeOK' /\ u \in Users
    BY <1>1, EndUserMeans, ReleasedMeans DEF TypeOK, ReqState
<1>3. \A a \in Apps, v \in Users : member'[a][v] = IF v = u THEN "none" ELSE member[a][v]
    BY <1>1 DEF TypeOK
<1>4. \A a \in Apps : lock[a][u] \in {r, Nobody}
    BY <1>1, <1>2, CascadeHolds DEF Claimed
<1>5. OthersKeepRows({r})
    BY <1>1, <1>3, <1>4, ReleasedMeans, NobodyIsNoOne DEF OthersKeepRows
<1>6. \A a \in Apps : RowsOK(a)'
    BY <1>1, <1>3 DEF IInv, RowsOK
<1>7. ASSUME NEW q \in Reqs \ {r}, At(q, "locking", {"user_delete"})
      PROVE  UserExists(req[q].user)'
    <2>1. UserExists(req[q].user) /\ req[q].user \in Users /\ req'[q].user = req[q].user
        BY <1>1, <1>7 DEF IInv, LockingOK, CascadeOK, At, TypeOK, ReqState, EndUserOp
    <2>2. req[q].user # u
        BY <1>1, <1>2, <1>7 DEF IInv, Once, UserGoes
    <2> QED
        BY <1>1, <2>1, <2>2 DEF UserExists, TypeOK
<1> QED
    BY <1>1, <1>2, <1>5, <1>6, <1>7, ReleasedMeans, RolesChanged

\* The first superadmin: no request is at work on a user then.
LEMMA BootstrapKeeps == ASSUME IInv, NEW u \in Users, BootstrapFirstSuperadmin(u) PROVE IInv'
<1>1. /\ UNCHANGED <<owner, dropped, member, lock, req>>
      /\ role' = [role EXCEPT ![u] = "superadmin"]
      /\ \A v \in Users : ~UserExists(v)
    BY DEF BootstrapFirstSuperadmin
<1>2. TypeOK'
    BY <1>1 DEF IInv, TypeOK, PlatformRoles
<1>3. \A a \in Apps, v \in Users : LockOK(a, v)'
    <2>1. \A r \in Reqs : Claimed(r)' = Claimed(r)
        BY <1>1 DEF Claimed
    <2>2. \A a \in Apps, v \in Users : lock[a][v] \in Reqs \cup {Nobody} /\ LockOK(a, v)
        BY DEF IInv, TypeOK
    <2> QED
        BY <1>1, <2>1, <2>2 DEF LockOK, Claimed
<1>4. \A r \in Reqs, v \in Users : ReadOK(r, v)'
    BY <1>1 DEF IInv, ReadOK
<1>5. ASSUME NEW r \in Reqs PROVE LockingOK(r)' /\ FreshOK(r)' /\ ToOK(r)'
    <2>1. LockingOK(r) /\ FreshOK(r) /\ ToOK(r) /\ req[r].user \in Users
        BY DEF IInv, TypeOK, ReqState
    <2>2. req[r].pc = "locking" => req[r].op # "user_delete"
        BY <1>1, <2>1 DEF LockingOK, CascadeOK
    <2>3. LockingOK(r)'
        BY <1>1, <2>1, <2>2 DEF LockingOK, CascadeOK, Claimed
    <2> QED
        BY <1>1, <2>1, <2>3 DEF FreshOK, ToOK
<1>6. \A a \in Apps : RowsOK(a)'
    BY <1>1 DEF IInv, RowsOK
<1>7. \A v \in Users : Once(v)'
    BY <1>1 DEF IInv, Once, UserGoes, At
<1> QED
    BY <1>2, <1>3, <1>4, <1>5, <1>6, <1>7 DEF IInv

\* Every step keeps the invariant.
LEMMA NextKeeps == IInv /\ [Next]_vars => IInv'
<1> SUFFICES ASSUME IInv, [Next]_vars PROVE IInv'
    OBVIOUS
<1>1. CASE UNCHANGED vars
    BY <1>1 DEF vars, IInv, TypeOK, LockOK, ReadOK, LockingOK, CascadeOK, Claimed, FreshOK, ToOK,
                RowsOK, Once, UserGoes, At, UserExists, LosesSuperadmin, OtherSuperadmin
<1>2. ASSUME NEW r \in Reqs, Authorize(r) PROVE IInv'
    BY <1>2, AuthorizeKeeps
<1>3. ASSUME NEW r \in Reqs, Proceed(r) PROVE IInv'
    BY <1>3, ReadsKeep, WriteUserKeeps, WriteUserDeleteKeeps, InsertAppKeeps, WriteAppDeleteKeeps,
       InsertMemberKeeps, StartsKeep, WriteMemberKeeps, LockRowKeeps DEF Proceed
<1>4. ASSUME NEW r \in Reqs, Fail(r) PROVE IInv'
    BY <1>4, FailKeeps
<1>5. ASSUME NEW r \in Reqs, NEW u \in Users, GoogleSignIn(r, u) PROVE IInv'
    BY <1>5, GoogleSignInKeeps
<1>6. ASSUME NEW u \in Users, BootstrapFirstSuperadmin(u) PROVE IInv'
    BY <1>6, BootstrapKeeps
<1>7. CASE ProvisionZeepSystem
    BY <1>7, ProvisionKeeps
<1> QED
    BY <1>1, <1>2, <1>3, <1>4, <1>5, <1>6, <1>7 DEF Next

\* The inductive invariant, and with it the types.
THEOREM Invariant == Spec => []IInv
    BY InitIInv, NextKeeps, PTL DEF Spec

-----------------------------------------------------------------------------
\* Whoever waits for a row of a transaction that deletes no app sees it want rows
\* of the same user or of later ones, and of the same one only if it deletes him
\* and the other does not.
LEMMA WaitsRise ==
    ASSUME IInv, NEW r \in Reqs, NEW q \in Reqs, NEW row \in Rows, WaitsFor(r, q, row),
           req[q].op # "app_delete", NEW next \in req[q].want
    PROVE  /\ row[2] <= next[2]
           /\ row[2] = next[2] => req[q].op = "user_delete" /\ req[r].op # "user_delete"
<1>1. /\ row[1] \in Apps /\ row[2] \in Users /\ row = <<row[1], row[2]>>
      /\ lock[row[1]][row[2]] = q /\ q # r /\ req[r].pc = "locking" /\ row \in req[r].want
    BY DEF Rows, WaitsFor, LocksNext
<1>2. LockOK(row[1], row[2]) /\ LockingOK(q) /\ LockingOK(r)
    BY <1>1 DEF IInv
<1>3. /\ req[q].pc = "locking" /\ row \in Claimed(q) /\ row \in Claimed(r) /\ next \in Claimed(q)
      /\ req[q].op \in MemberOps \cup {"user_delete"}
      /\ req[q].op \in MemberOps => row[2] < next[2]
    BY <1>1, <1>2, NobodyIsNoOne DEF LockOK, LockingOK, Deletions
<1>4. CASE req[q].op \in MemberOps
    <2>1. next[2] \in Users
        BY <1>3, <1>4 DEF Claimed, MemberOps
    <2> QED
        BY <1>1, <1>3, <1>4, <2>1, UsersAreOrdered
<1>5. CASE req[q].op = "user_delete"
    <2>1. row[2] = req[q].user /\ next[2] = req[q].user
        BY <1>3, <1>5 DEF Claimed
    <2>2. ASSUME req[r].op = "user_delete" PROVE FALSE
        <3>1. row[2] = req[r].user
            BY <1>3, <2>2 DEF Claimed
        <3> QED
            BY <1>1, <1>3, <1>5, <2>1, <2>2, <3>1 DEF IInv, Once, UserGoes, At
    <2> QED
        BY <1>1, <1>5, <2>1, <2>2, UsersAreOrdered
<1> QED
    BY <1>3, <1>4, <1>5

\* Of any set of users, one comes first.
LEMMA LeastUser ==
    ASSUME NEW T \in SUBSET Nat, T # {}
    PROVE  \E u \in T : \A v \in T : u <= v
<1> DEFINE Before == {pair \in Nat \X Nat : pair[1] < pair[2]}
<1>1. IsWellFoundedOn(Before, Nat)
    BY NatLessThanWellFounded DEF OpToRel
<1>2. \A v \in T, u \in T : v < u => <<v, u>> \in Before
    OBVIOUS
<1> HIDE DEF Before
<1>3. PICK u \in T : \A v \in T : ~(<<v, u>> \in Before)
    BY <1>1, WFMin
<1>4. ASSUME NEW v \in T PROVE u <= v
    <2>1. ~(v < u) /\ v \in Nat /\ u \in Nat
        BY <1>2, <1>3, Zenon
    <2> QED
        BY <2>1
<1> QED
    BY <1>3, <1>4

\* Transactions that lock the members of apps, or delete users, and no apps,
\* never wait for each other in a ring: every ring has the deletion of an app
\* in it (lockAppMembers, DeleteApp).
\*
\* In a ring without, take the wait for the row of the first user in the order.
\* Whoever waits for the one who waits there can only wait for the same user,
\* and deletes nobody; but then whoever waits for him waits for an earlier one.
THEOREM RingsOfWaits == Spec => []RingsNeedAnAppDelete
<1>1. ASSUME IInv, NEW S \in SUBSET Reqs, IsRing(S), \A r \in S : req[r].op # "app_delete"
      PROVE  FALSE
    <2> DEFINE W == {u \in Users : \E r, q \in S, a \in Apps : WaitsFor(r, q, <<a, u>>)}
    <2>1. ASSUME NEW r \in S PROVE \E q \in S, row \in Rows : WaitsFor(q, r, row)
        BY <1>1, <2>1 DEF IsRing, IsBlockedBy
    <2>2. ASSUME NEW q \in S, NEW r \in S, NEW row \in Rows, WaitsFor(q, r, row) PROVE row[2] \in W
        <3>1. row[1] \in Apps /\ row[2] \in Users /\ row = <<row[1], row[2]>>
            BY DEF Rows
        <3> QED
            BY <2>2, <3>1
    <2>3. W \in SUBSET Nat /\ W # {}
        <3>1. PICK r \in S : TRUE
            BY <1>1 DEF IsRing
        <3> QED
            BY <2>1, <2>2, <3>1, UsersAreOrdered
    <2>4. PICK u \in W : \A v \in W : u <= v
        BY <2>3, LeastUser
    <2> HIDE DEF W
    <2>5. PICK r \in S, q \in S, a \in Apps : WaitsFor(r, q, <<a, u>>) /\ u \in Users
        BY <2>4 DEF W
    <2>6. PICK p \in S, row \in Rows : WaitsFor(p, r, row)
        BY <2>1
    <2>7. row[2] <= u /\ (row[2] = u => req[p].op # "user_delete")
        <3>1. <<a, u>> \in req[r].want /\ <<a, u>>[2] = u
            BY <2>5 DEF WaitsFor, LocksNext
        <3> QED
            BY <1>1, <2>6, <3>1, WaitsRise
    <2>8. row[2] = u
        BY <2>2, <2>3, <2>4, <2>6, <2>7
    <2>9. PICK o \in S, first \in Rows : WaitsFor(o, p, first)
        BY <2>1
    <2>10. first[2] <= u /\ first[2] # u
        <3>1. row \in req[p].want
            BY <2>6 DEF WaitsFor, LocksNext
        <3> QED
            BY <1>1, <2>7, <2>8, <2>9, <3>1, WaitsRise
    <2> QED
        <3>1. first[2] \in W
            BY <2>2, <2>9
        <3>2. u <= first[2] /\ first[2] \in Nat /\ u \in Nat
            BY <2>3, <2>4, <3>1
        <3> QED
            BY <2>10, <3>2
<1>2. IInv => RingsNeedAnAppDelete
    BY <1>1 DEF RingsNeedAnAppDelete
<1> QED
    BY <1>2, Invariant, PTL

\* Deciding whether a request may begin writes no table.
LEMMA AuthorizeWritesNothing ==
    ASSUME NEW r \in Reqs, Authorize(r) PROVE UNCHANGED <<role, member>>
<1>1. ASSUME NEW op, NEW pc, NEW a, NEW u, NEW to, Begin(r, op, pc, a, u, to)
      PROVE  UNCHANGED <<role, member>>
    BY <1>1 DEF Begin
<1>2. PICK actor \in Users, u \in Users, a \in Apps :
       \/ \E to \in PlatformRoles : UpdateUserRole(r, actor, u, to) \/ CreateUser(r, actor, u, to)
       \/ \E to \in AppRoles : AddAppMember(r, actor, a, u, to) \/ UpdateAppMember(r, actor, a, u, to)
       \/ DeleteUser(r, actor, u) \/ RemoveAppMember(r, actor, a, u)
       \/ CreateApp(r, actor, a) \/ DeleteApp(r, actor, a)
    BY DEF Authorize
<1> QED
    BY <1>1, <1>2, Zenon DEF UpdateUserRole, CreateUser, AddAppMember, UpdateAppMember, DeleteUser,
                             RemoveAppMember, CreateApp, DeleteApp

\* An app that has an admin keeps one through every step that is not the
\* deletion of the app or of a user (UpdateAppMemberRole, RemoveAppMember).
THEOREM AdminsRemain == Spec => AdminLossIsADeletion
<1> DEFINE Loss(a) == HasAdmin(a) /\ ~HasAdmin(a)' =>
              \/ a \in dropped'
              \/ \E u \in Users : role[u] # "deleted" /\ role'[u] = "deleted"
<1>1. ASSUME IInv, Next, NEW a \in Apps, NEW u \in Users, member[a][u] = "admin"
      PROVE  HasAdmin(a)' \/ a \in dropped'
                \/ \E v \in Users : role[v] # "deleted" /\ role'[v] = "deleted"
    <2> SUFFICES ASSUME member' # member PROVE HasAdmin(a)' \/ a \in dropped'
                    \/ \E v \in Users : role[v] # "deleted" /\ role'[v] = "deleted"
        BY <1>1 DEF HasAdmin
    <2>1. TypeOK
        BY <1>1 DEF IInv
    <2>2. CASE ProvisionZeepSystem
        BY <1>1, <2>2 DEF ProvisionZeepSystem, HasAdmin
    <2>3. ASSUME NEW r \in Reqs, InsertApp(r) PROVE HasAdmin(a)'
        BY <1>1, <2>1, <2>3 DEF InsertApp, HasAdmin, CreatorRole, TypeOK
    <2>4. ASSUME NEW r \in Reqs, InsertMember(r) PROVE HasAdmin(a)'
        BY <1>1, <2>1, <2>4 DEF InsertMember, HasAdmin, TypeOK
    <2>5. ASSUME NEW r \in Reqs, WriteAppDelete(r) PROVE HasAdmin(a)' \/ a \in dropped'
        BY <1>1, <2>1, <2>5 DEF WriteAppDelete, HasAdmin, TypeOK
    <2>6. ASSUME NEW r \in Reqs, WriteUserDelete(r)
          PROVE  \E v \in Users : role[v] # "deleted" /\ role'[v] = "deleted"
        <3>1. UserExists(req[r].user) /\ req[r].user \in Users
            BY <1>1, <2>1, <2>6 DEF WriteUserDelete, LockedAll, At, IInv, LockingOK, CascadeOK, TypeOK,
                                    ReqState
        <3>2. role' = [role EXCEPT ![req[r].user] = "deleted"]
            BY <2>6 DEF WriteUserDelete
        <3> QED
            BY <2>1, <3>1, <3>2 DEF TypeOK, UserExists, PlatformRoles
    <2>7. ASSUME NEW r \in Reqs, WriteMember(r) PROVE HasAdmin(a)'
        <3> DEFINE b == req[r].app
                   t == req[r].user
        <3>1. b \in Apps /\ t \in Users /\ member' = [member EXCEPT ![b][t] = req[r].to]
            BY <2>1, <2>7 DEF TypeOK, ReqState, WriteMember
        <3>2. \A c \in Apps, v \in Users : <<c, v>> # <<b, t>> => member'[c][v] = member[c][v]
            BY <2>1, <3>1 DEF TypeOK
        <3>3. CASE <<a, u>> # <<b, t>>
            BY <1>1, <3>2, <3>3 DEF HasAdmin
        <3>4. CASE <<a, u>> = <<b, t>>
            <4>1. req[r].seen[t] # "none" /\ ReadOK(r, t)
                BY <1>1, <2>7, <3>1 DEF WriteMember, IInv
            <4>2. req[r].seen[t] = "admin"
                BY <1>1, <3>4, <4>1 DEF ReadOK
            <4>3. CASE req[r].to = "admin"
                BY <2>1, <3>1, <3>4, <4>3 DEF HasAdmin, TypeOK
            <4>4. CASE req[r].to # "admin"
                <5>1. PICK v \in Users \ {t} : req[r].seen[v] = "admin"
                    BY <2>7, <4>2, <4>4 DEF WriteMember, KeepsAnAdmin
                <5>2. member[a][v] = "admin"
                    BY <1>1, <3>4, <5>1 DEF IInv, ReadOK
                <5> QED
                    BY <1>1, <3>2, <3>4, <5>1, <5>2 DEF HasAdmin
            <4> QED
                BY <4>3, <4>4
        <3> QED
            BY <3>3, <3>4
    <2>8. ASSUME NEW r \in Reqs, Authorize(r) PROVE member' = member
        BY <2>8, AuthorizeWritesNothing
    <2>9. ASSUME NEW r \in Reqs, Fail(r) \/ GetUser(r) \/ CountSuperadmins(r) \/ WriteUserRole(r)
                                  \/ InsertUser(r) \/ StartLocking(r) \/ StartAppDelete(r)
                                  \/ StartUserDelete(r) \/ (\E row \in Rows : LockRow(r, row))
                                  \/ \E v \in Users : GoogleSignIn(r, v)
          PROVE  member' = member
        BY <2>9 DEF Fail, GetUser, CountSuperadmins, WriteUserRole, InsertUser, StartLocking,
                    StartAppDelete, StartUserDelete, LockAll, LockRow, GoogleSignIn, Begin
    <2>10. ASSUME NEW v \in Users, BootstrapFirstSuperadmin(v) PROVE member' = member
        BY <2>10 DEF BootstrapFirstSuperadmin
    <2>11. ASSUME NEW r \in Reqs, Proceed(r)
           PROVE  HasAdmin(a)' \/ a \in dropped'
                     \/ \E v \in Users : role[v] # "deleted" /\ role'[v] = "deleted"
        BY <2>3, <2>4, <2>5, <2>6, <2>7, <2>9, <2>11, Zenon DEF Proceed
    <2> HIDE DEF Loss
    <2> QED
        BY <1>1, <2>2, <2>8, <2>9, <2>10, <2>11, Zenon DEF Next
<1>2. IInv /\ [Next]_vars => [\A a \in Apps : Loss(a)]_vars
    BY <1>1 DEF HasAdmin
<1> QED
    BY <1>2, Invariant, PTL DEF Spec, AdminLossIsADeletion

\* The last superadmin goes only with a request that another change of roles
\* overtook (assertAtLeastOneSuperadminRemains).
THEOREM SuperadminRemainsWithoutRace == Spec => SuperadminLossIsARace
<1> DEFINE Race == \E r \in Reqs : req[r].op \in UserOps /\ req[r].raced /\ req'[r].pc = "idle"
<1>1. ASSUME IInv, Next, NEW u \in Users, role[u] = "superadmin", ~HasSuperadmin' PROVE Race
    <2>1. TypeOK /\ role' # role /\ role'[u] # "superadmin"
        BY <1>1 DEF IInv, HasSuperadmin
    <2>2. ASSUME NEW r \in Reqs, WriteUserRole(r) \/ WriteUserDelete(r) PROVE Race
        <3> DEFINE t == req[r].user
        <3>1. /\ req[r].pc \in {"write", "locking"} /\ req[r].op \in UserOps /\ t \in Users
              /\ req'[r].pc = "idle"
              /\ \A v \in Users \ {t} : role'[v] = role[v]
            BY <2>1, <2>2 DEF WriteUserRole, WriteUserDelete, LockedAll, At, UserOps, EndUserOp,
                              ReqIdle, TypeOK, ReqState
        <3>2. t = u /\ LosesSuperadmin(r)
            BY <1>1, <2>1, <2>2, <3>1
            DEF LosesSuperadmin, WriteUserRole, WriteUserDelete, LockedAll, At, TypeOK
        <3>3. ~OtherSuperadmin(t)
            BY <1>1, <3>1 DEF OtherSuperadmin, HasSuperadmin
        <3>4. req[r].raced
            BY <1>1, <3>1, <3>2, <3>3 DEF IInv, FreshOK
        <3> QED
            BY <3>1, <3>4
    <2>3. ASSUME NEW r \in Reqs, InsertUser(r) PROVE FALSE
        BY <1>1, <2>1, <2>3 DEF InsertUser, TypeOK
    <2>4. ASSUME NEW v \in Users, BootstrapFirstSuperadmin(v) PROVE FALSE
        BY <1>1, <2>1, <2>4 DEF BootstrapFirstSuperadmin, TypeOK
    <2>5. ASSUME NEW r \in Reqs, Authorize(r) PROVE role' = role
        BY <2>5, AuthorizeWritesNothing
    <2>6. ASSUME NEW r \in Reqs, Fail(r) \/ GetUser(r) \/ CountSuperadmins(r) \/ InsertApp(r)
                                  \/ WriteAppDelete(r) \/ InsertMember(r) \/ StartLocking(r)
                                  \/ StartAppDelete(r) \/ StartUserDelete(r) \/ WriteMember(r)
                                  \/ (\E row \in Rows : LockRow(r, row))
                                  \/ \E v \in Users : GoogleSignIn(r, v)
          PROVE  role' = role
        BY <2>6 DEF Fail, GetUser, CountSuperadmins, InsertApp, WriteAppDelete, InsertMember,
                    StartLocking, StartAppDelete, StartUserDelete, LockAll, WriteMember, LockRow,
                    GoogleSignIn, Begin
    <2>7. ProvisionZeepSystem => role' = role
        BY DEF ProvisionZeepSystem
    <2> HIDE DEF Race
    <2>8. ASSUME NEW r \in Reqs, Proceed(r) PROVE Race
        BY <2>1, <2>2, <2>3, <2>6, <2>8, Zenon DEF Proceed
    <2> QED
        BY <1>1, <2>1, <2>4, <2>5, <2>6, <2>7, <2>8, Zenon DEF Next
<1>2. IInv /\ [Next]_vars => [HasSuperadmin /\ ~HasSuperadmin' => Race]_vars
    BY <1>1 DEF HasSuperadmin
<1> QED
    BY <1>2, Invariant, PTL DEF Spec, SuperadminLossIsARace
=============================================================================
