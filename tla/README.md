# Models of zeep-orbit

zeep-orbit is a backend-as-a-service server. A dashboard (and an MCP server for
agents, which calls the same functions) lets people define apps, tables,
policies, tokens and webhooks; the server turns them into PostgreSQL schemas and
serves a REST API over them. Several replicas (pods) run at once and share
nothing but PostgreSQL.

Almost everything that is hard about it comes from that last sentence. Every pod
keeps a copy of the metadata in memory, handlers read rows in one statement and
overwrite them in a later one, and what may not happen twice is protected by
advisory locks, row locks, unique indexes and log rows. The modules here model
those protocols; `PROJECT.json` maps every definition to the lines it stands
for, and lists the runs, the hazards, the findings and the theorems.

## 1. Inventory

| Part | State | Operations | Interacts with | What is hard | What makes it correct |
|---|---|---|---|---|---|
| **Registry and syncer** (`internal/registry`, `internal/dashboard/registry_snapshot.go`) | per pod: apps and system configuration, generation, last version; shared: `state_version` | Register, Unregister, SetSystemConfig, poll, load, compare and replace, miss hook, hooks | all dashboard handlers publish to it, the REST API reads it, the token cache hangs on its hook | a load races with local publications and with commits of others; faults at each query | a pod at the current version serves the database; no sync takes anything back; every pod catches up |
| **App tokens** (`internal/tokencache`, token middleware, `app_tokens_store.go`) | `app_tokens`, cache and generation per pod | lookup, TTL, revoke one, revoke all, clear | syncer hook | a lookup in flight across a revocation | a revoked token leaves every cache for good |
| **Inbound webhooks** (`internal/server/webhook_handler.go`, `webhooks_store.go`, `webhook_deliveries_store.go`) | webhooks, mappings, delivery log, lock connections per pod | deliver, capture, map, dedup, write, log, purge | app tables, registry | provider retries, hang-ups, lost log rows, four lock connections | an event is applied once; only what was applied is skipped; every delivery ends |
| **Users and members** (`users.go`, `app_members*.go`, `rbac.go`, boot) | platform roles, owners, members, row locks | create, change, delete users; add, change, remove members; create and delete apps; boot | all authorisation | two admins demote each other; deadlock of row locks; old migrations at every boot | an app keeps an admin, the platform a superadmin; only the deletion of an app closes a ring of waits |
| **Tables of an app** (`handler.go`, `apps_store.go`, `internal/provisioner`) | physical tables, `app_tables`, `_schema_migrations` | create, replace, change mode, add column, index or foreign key, drop | registry, policies, webhooks | DDL and metadata commit apart; rows are read without a lock and overwritten whole | what the row names exists; a `policy` table is secured |
| **Column constraints and enum values** (`column_constraints.go`, `table.go`) | columns of physical tables and their rows | check, apply, swap CHECK | tables | DDL and row commit apart; whole rows are written back | what a change says is true of the column and of its row |
| **Row-level policies** (`table_policies_store.go`, `provisioner/policy.go`) | catalog, native policies, list of roles | create, replace, delete, change of the roles | tables, end users | first policy turns on row level security; the path names one table and the id another; roles are counted, then dropped | catalog and PostgreSQL name the same policies; the text means what its clauses say |
| **OAuth server and access tokens** (`oauth_*.go`, `pat_store.go`, `mcpserver/auth.go`) | codes, token families | authorise, exchange, rotate, revoke family, delete client or user | MCP server | concurrent rotations and reuse; cascades | a code is used once; a reported family stays dead; every request ends |
| **Sign-in of end users** (`internal/auth`, `app_users_store.go`) | accounts, sessions per app | register, login, refresh, logout, Google, reset, change of address | dashboard | statements without a transaction | a session that lives is current; one Google account opens one account |
| **Data API** (`internal/server/handler.go`, `internal/query`) | rows of a table | list, read, create, upsert, update, delete, purge | registry, PostgreSQL | mode and soft deletion change under a request, whose SQL is built before it runs; conflicts with rows of others | what a request is shown and changes is its user's; deleted rows are shown only to who asks for them, or by SQL of a time without soft deletion |
| **Storage** (`storage_handler.go`, `internal/storage`) | rows of `_files`, objects in a bucket | upload, delete | object store | two halves, either cut short; bucket replaced | no half without the other but as named |
| **Rate limiters** (`server/ratelimit.go`, `auth/ratelimit.go`, `dashboard/middleware.go`) | counters per client | allow, sweep | registry | windows, sweeps, limit cached for ever | nobody passes oftener than allowed in a window, nobody is refused who has not |
| **Frontend apps** (`frontend_apps*.go`, `internal/deploy`, `internal/github`) | app, repository, service | create, retry, deploy, delete | GitHub, Render | saga of external calls with retries and lost answers | no orphaned or second service or repository |
| **Deploy keys** (`frontend_app_sync*.go`) | row, keys at GitHub | create, retry, regenerate, revoke | GitHub | revoke, add and save are three calls | the key revealed opens the repository; no unknown key does |
| **System configuration, providers, GitHub App** (`system_config_store.go`, `app_providers.go`, `github_config.go`) | single rows | merge, upsert | registry | read, merge, write back; verified before merged | patches of different fields both survive; what a patch leaves out it keeps, but where it replaces; App, key and installation belong together |
| **AI builder** (`ai_*.go`) | sessions, messages | create, resume, abandon, propose, confirm | dashboard handlers | partial and repeated confirmation | what was confirmed is made, once, and on record |
| Purge (`purge.go`) | session advisory lock | try lock, delete, audit, unlock | data API | one failing table | an action of `DataRows` |
| Boot provisioning (`provisioner.go` of the dashboard) | `zeep_system` | create schema, migrate | everything | replicas boot together; runs every time | its members in `AppMembers`, its triggers in `RegistrySync` |
| MCP server, webhook field mapping, validation, crypto, documents, logs, clients | none that decides anything later | | | | |

The parts in bold have modules. `PROJECT.json` lists forty hazards, each at its line. Eight smaller ones are known and not listed: a failed query cached as an inactive
token for thirty seconds (`middleware.go:117`), an activation that counts
mappings and updates in one transaction without a lock (`webhooks_store.go:425`),
a sign-in with Google before the bootstrap (`google.go:408`), a rename that can
never be done again (`migration.go:98`), a foreign key added twice (`table.go:464`),
which `AppDDL` has as "twice", one table that fails for the whole purge
(`purge.go:75`), the error of the first dial of the lock pool that is kept for ever
(`webhook_handler.go:578`), and statements that once migrated old data and run again at
every boot (`provisioner.go:318`); the models have the last two (section 4).

## 2. Modules

| Module | Models | Code it stands for |
|---|---|---|
| `RegistrySync` | registry, syncer, dashboard requests as commit and publication | `registry.go`, `syncer.go`, `registry_snapshot.go`, `handler.go` |
| `ReplicaView` | what a set of replicas promises; no polling, no snapshots | abstract specification |
| `TokenRevocation` | extends `RegistrySync` with tokens, caches and lookups | `tokencache.go`, token middleware, `app_tokens_store.go` |
| `TokenFamilies` | codes, families of tokens, cascades, row locks | `oauth_*.go`, `pat_store.go`, `mcpserver/auth.go` |
| `GrantLineage` | what a client may rely on: a grant is given once, passed on, ended | abstract specification |
| `WebhookDelivery` | deliveries, dedup, log, dashboard changes | `webhook_handler.go`, `webhooks_store.go`, `webhook_deliveries_store.go` |
| `AppMembers` | platform roles, members, row locks, boot | `users.go`, `app_members*.go`, `store.go`, `apps_store.go` |
| `AppDDL` | tables, their rows, DDL requests | `handler.go`, `apps_store.go`, `internal/provisioner` |
| `ColumnConstraints` | one enum column and its row | `column_constraints.go`, `table.go`, `handler.go` |
| `FrontendApps`, `DeployKeys` | the saga with GitHub and Render; the key of a repository | `frontend_apps*.go`, `frontend_app_sync*.go`, `internal/deploy` |
| `PlatformSettings` | patches of single rows; the GitHub App | `handler.go`, `app_providers.go`, `github_config.go` |
| `BuildChat`, `EditChat` | the two chats with the model, and their confirmations | `ai_build_*.go`, `ai_edit_*.go` |
| `AppSessions` | accounts and sessions of end users | `internal/auth`, `app_users_store.go` |
| `RowPolicies`, `PolicyExpression` | catalog and native policies, roles; the text of a policy | `table_policies_store.go`, `policy.go` |
| `DataRows` | the requests of the data API on one table | `server/handler.go`, `query/builder.go`, `purge.go` |
| `FileStorage` | rows and objects | `storage_handler.go` |
| `RateLimits` | three limiters | `ratelimit.go` (two), `middleware.go` |
| `MC*` | instances for TLC; `MCDashboard`, `MCApps` and `MCRequestEnds` compose components | |
| `RegistrySync_proofs`, `TokenRevocation_proofs`, `TokenFamilies_proofs`, `WebhookDelivery_proofs`, `AppMembers_proofs`, `AppDDL_proofs` | theorems about one component, proved with TLAPS | |
| `Dashboard_proofs` | theorems about `FrontendApps`, `DeployKeys`, `PlatformSettings`, `BuildChat`, `EditChat` and their composition in `MCDashboard` | |
| `AppApi_proofs` | theorems about `AppSessions`, `RowPolicies`, `PolicyExpression`, `DataRows`, `FileStorage`, `RateLimits`, `ColumnConstraints` and their composition in `MCApps` | |

Conventions. An action is one statement or one transaction of PostgreSQL, or one
critical section under a Go mutex, with everything that happens in it; a request
is a record with a program counter and the values the handler carries from one
step to the next. Errors, timeouts, hang-ups and crashes are actions. Names are
those of the code where it has one. An operator that a comment calls a *mutant*
is a plausible wrong variant of the definition after it; no specification uses
it, and `PROJECT.json` says which property fails when it takes that definition's
place. History variables are named as such; they decide nothing but where a bound
cuts off.

### RegistrySync and ReplicaView

Contents of apps are reduced to two stamps, the versions at which the row and
the tables last changed: two contents are equal when their stamps are. `Commit`
moves `version` in the same step as the content, as the triggers do
(`state_version`). Handlers either publish a copy they took before
(`CreateApp`, `ReadExisting` … `SaveSettings`, `DeleteApp`) or read the app again
(`SaveThenReread`, `RereadRow`, `RereadTables`), in two statements as `GetApp`
does. A sync is `ReadVersion`, `TakeGeneration`, `ListApps`, one `LoadTables` per
app, `LoadSystemConfig`, `ReplaceIfGeneration` or `RefuseSnapshot`, `RunHooks`.
`SyncError` and `Crash` can come at each point. `synced` is a history variable.

`ReplicaView` says what is promised without all that: a replica shows local
writes that were committed, and a refresh moves it forward only and leaves it
with everything up to the version it then claims (`Covers`). `RegistrySync`
implements it with `seen <- lastVersion`.

### TokenRevocation

Extends `RegistrySync`, so a lookup races with real syncs. `MissToken` takes the
cache's generation before the query, `SetIfGeneration` stores only if it has not
moved. `ClearOnChange` joins `RunHooks` and `Clear`. A failed query is cached as
an inactive token, as the code does.

### WebhookDelivery

One webhook with one event type, any number of deliveries. A delivery walks
through `resolve`, `capture` or `map`, then `pool`, `lock`, `check` when the
dedup is on, `write`, `log`, `reply`. The lock is a session lock on a connection
from a pool of its own, so `LockSessionLost` can free it under the handler, and
`HangUp` makes the later queries of a delivery fail. `exposed` is a history
variable: events that were applied without the dedup, or whose commit, record or
lock was lost. Rows keep one outcome `written` for inserted, updated and deleted,
and `error` for write errors and ambiguous matches. `ActivateWebhook` counts and
updates in one step: an active webhook without a mapping is reachable anyway by a
later `DeleteEventMapping`. Of `UpdateWebhook` only the dedup switch is there: a new
`event_id_path`, by which a resent event gets another id, is left out.

### AppMembers

`lockAppMembers` is `SELECT … ORDER BY user_id FOR UPDATE`: a snapshot
(`StartLocking`), then one `LockRow` per row, with the re-read that READ COMMITTED
does after a wait. The deletions of an app and of a user are `StartAppDelete` and
`StartUserDelete`, which take the row itself and make the foreign keys wait, then one
`LockRow` per row of the cascade, in any order, and the commit (`WriteAppDelete`,
`WriteUserDelete`). A cascade can therefore hold a row that `lockAppMembers` waits for
while it waits for one that this holds: such a ring is in the model, and `Fail` is what
PostgreSQL does to one of the two. The count of superadmins takes no lock, so `GetUser`,
`CountSuperadmins` and the write are steps of their own. `ProvisionZeepSystem` is
the part of every boot that inserts owners as members. "member" stands for
auditors too and "viewer" for editors. `raced` is a history field. Members of
frontend apps are the same code over another column.

### AppDDL

A request reads the row (`Begin`), runs its DDL in one transaction under the
app's advisory lock (`CreateTable`, `ChangeTable`, `AlterAddForeignKey`,
`AlterDropForeignKey`, `DropTable`), and writes the row in another
(`InsertAppTable`, `WriteAppTable`), except that a drop deletes its row inside the
DDL transaction. A column is absent, plain, constrained, or constrained twice.
`history` is a history field: whether table and row agreed when the request began
and whether another request on that table came in between.

### ColumnConstraints

The same steps on the constraints of one column: read the row, change the column
under the lock, write the whole row. A column is the record of its allowed
values, its default and a flag that stands for NOT NULL and for UNIQUE, which are
set and dropped alike. What the rows of the table refuse (a NULL, a duplicate, a
value in use) is a request that fails before it has changed anything, so the rows
are left out. `DiffColumnConstraints` compares the request with the row it read,
never with the database; `ApplyConstraintChanges` sets just those fields, whatever
the column was, which is what makes a repetition heal an earlier failure.

### TokenFamilies and GrantLineage

A token stands for its row of `dashboard_pats`, its access token and its refresh
token. `LockCode` and `LockRow` are the two `SELECT … FOR UPDATE`; a rotation
inserts the new row (`InsertNext`) before anyone sees it (`CommitRotation`); the
UPDATE that ends a family takes its snapshot first (`SnapshotFamily`) and then waits
for the rows in it (`EndFamily`). `WaitsFor` is who holds what a request needs: row
locks, and the shared lock that a foreign key takes on the user and the client,
against their deletion with its cascade. Where that closes a ring, PostgreSQL's
detector aborts one (`AbortVictim`). Three kinds of revocation are one `revoked_at`
in the code; they are told apart here as history. `GrantLineage` knows grants and
their heirs only: `Give` once, `Pass`, `End`. `PurgeExpiredAuthCodes` runs at boot and
every six hours; expiry itself is `ExpireCode`.

### AppSessions

`Register`, `Login`, `Refresh`, `Logout`, the Google callback with its three lookups
and what the dashboard does to an account. None of it is a transaction: a refresh
finds the session by its token (`BeginRefresh`) and overwrites it by its id
(`RotateSession`); an account whose address changes is signed out by a second
statement. JWTs have no state.

### RowPolicies and PolicyExpression

Creation, replacement and deletion of a policy each look the app up and then run one
transaction under the DDL lock. An update drops and makes the native policy by the
names it was sent, and the row by its id (`misled`: the table of the path is not that
of the policy). Roles are counted one by one, then the list is overwritten.
`PolicyExpression` builds the text of a policy clause by clause and evaluates it
as PostgreSQL does, AND before OR, with three truth values; what is in parentheses
counts there as one operand. The reference is the reading from left to right.

### DataRows

A request fixes user and mode when it begins, and runs its SQL later, in one
transaction of its own, which is one action; the two statements of an "ignore" are
two. The dashboard's data browser and the purge act on the same rows. One unique
column stands for all. The soft-delete setting is read when the SQL is built
(`BuildSQL`, `BeginJob`) and again for the second statement of an "ignore"; what runs
later follows the setting of then. `off` is history: soft delete was off at some time
of the request. A list may ask for deleted rows with `?deleted=true`.

### FileStorage and RateLimits

An upload is `HandleFileUpload`, `Upload`, `InsertFile` or `InsertFails` with
`UndoUpload`; a deletion `RemoveObject` and `ForgetFile`. Files have the bucket that
was configured when they were uploaded; a request keeps the one it began with.
Uploads without a signed-in user always fail at the insert, as the empty owner is no
UUID; they are among those that `InsertFails` undoes. `RateLimits` has an integer clock, and one limiter of each
kind, chosen initially; the times that a limiter keeps are a set of stamps, numbered
within a time, since only how many of them there are in a window matters.

### FrontendApps and DeployKeys

A request of a frontend app is a chain of calls and statements (`generate`,
`insert`, `sync`, `deploy`, `make_service`, `save_service`, …). GitHub and Render
are what their clients rely on: unique names, calls that fail, answers that get lost
after the call was carried out. `stray`, `strayKeys` and `deadKeys` are history: what
an accident with a name left behind. The key of the repository is in a module of its
own, since it shares only the archiving of the app with the rest. `ArchiveApp` archives
the app and reads its key in one step: a regeneration that saves a key between the two
is not explored.

### PlatformSettings

Six rows of settings, each with a public, a secret and another field. Four are read,
merged and written whole; two are merged by their statement. Two are not merged all
the way: the storage configuration is one object of the system's row and is replaced
as such, and of an app's providers those that a patch does not mention are dropped
(`along` is what the objects in the patch hold, `given` what they give). The GitHub App is verified with
the key on record and then merged; the installation comes back by a callback.
`overtaken` is history: another request wrote the row after it was read.

### BuildChat and EditChat

Sessions of one user, of which a unique index admits one in progress. A plan is a
name and a set of tables; its confirmation creates the app, provisions its schema,
records it, creates the tables and completes the session, each step a statement
of its own. In the other chat an operation is applied first and marked by a message
afterwards. What the model says is any answer of the kinds the code knows.

## 3. Runs

| Run | Instance | Shows |
|---|---|---|
| `registry` | 1 pod, 1 app, 2 requests, 2 versions, 2 faults | `CaughtUp`, `SyncNeverRollsBack`, refinement of `ReplicaView` (`KeepsPromise`), `EveryPodReachesTheVersion` |
| `registry_stale` (violation) | 1 pod, 1 request | a delayed publication puts old content back for good: `EveryPodConverges` fails |
| `tokens` | 1 pod, 2 tokens, 1 lookup, 1 revoker, 2 versions, 1 fault | `RevokedTokenGone`, `RevocationReachesEveryPod` |
| `request_ends` | tokens: 1 user, 1 client, 1 code, 2 requests, 3 tokens; deliveries: 1 pod, 2 deliveries, 1 lock connection, 2 changes, 2 faults | `RevocationHolds`, refinement of `GrantLineage` (`ImplementsLineage`), `EveryTokenRequestEnds`; `EveryCallEnds` |
| `webhook` | 2 pods, 2 deliveries, 1 event, 1 lock connection each, 3 changes, 2 faults | `AtMostOnce`, `SkippedWasApplied`; no deadlock |
| `webhook_once` (violation) | 1 pod, 1 fault | a lost log row: a retry writes again |
| `ddl` | 1 table, 2 columns, 2 requests, 2 rows ever | `UnbackedIsARace`, `UnsecuredIsAnAdoption`, `SerialWritesAgree` |
| `ddl_lost` (violation) | same | a column stored by an overlapping request vanishes from the row |
| `dashboard` | six components, 2 requests each | see below |
| `apps` | seven components, 2 requests each | see below |
| `frontend_recorded` (violation) | the instance of `dashboard` | a failed deployment forgets the service that another one recorded |
| `apps_sliding` (violation) | the instance of `apps` | more than max requests in one window's time: `WindowSlides` fails |

`MCDashboard`, `MCApps` and `MCRequestEnds` put components side by side that share no row with each
other. Their product would only repeat each one's states, so a variable `part`,
fixed initially, says which of them runs while the others rest in their initial
states: what is explored is the sum. A property of a component speaks of its own
variables and holds trivially in the other parts. `MCRequestEnds` has the components that
need fairness and no symmetry; only one of the two moves, so strong fairness of a step of
either is strong fairness of both, and TLC has half as many conditions to check.

`dashboard`: members (2 users, 1 app): `AdminLossIsADeletion`, `RingsNeedAnAppDelete`,
`SuperadminLossIsARace`; frontend apps (1 slug, 2 rows, 1 service):
`FrontendsAreAccounted`, `RepoLossIsARace`; keys (2 ever): `DeployKeysAgree`;
settings (6 rows, 2 patches): `LostSettingIsARace`; the GitHub App, a part of its own
(2 Apps): `AppDriftIsARace`;
build chat (2 names, 1 table, 1 session, 2 apps): `OrphanAppIsAccounted`,
`CompletedBuildIsWhole`; edit chat (2 sessions, 2 operations): `ConfirmationsAreTrue`;
types: `DashboardTypeOK`.

`apps`: sessions (2 addresses, 1 Google account, 2 accounts, 1 session with 1 token,
1 reset): `SignInsAreSound`; policies (2 tables, 2 names, 1 role, 2 rows):
`CatalogIsEnforced`, `DroppedRoleIsUnused`; expressions (all of up to 3 clauses):
`PolicyMeansItsClauses`; rows (1 row at a time, 2 users): `AnswersAreRight`; files (2 uploads,
2 buckets): `FilesMatchObjects`; limiters (2 clients, budgets 1 and 2, window 2, time
up to 8): `LimitsAreExact`; columns (2 values): `ConstraintDriftIsARace`; types:
`AppsTypeOK`.

**Bounds.** Every race here is between two actors: two requests, a request and a
sync, two deliveries. A third adds interleavings and no new pair. A second pod
matters only where pods share something besides the database: the webhook run
has two, since lock connections are per pod and locks are not; to a pod of the
registry, another one is only a source of commits, which `ChangeElsewhere` makes.
Two versions allow a commit before and one after a load; two faults allow one
fault during the recovery from another. Two users suffice for the members, since
a lock order needs two rows; two rows of `app_tables` let a name be deleted and
created again under a request that still holds the first id, and so do two rows of
policies, files and frontend apps. Three tokens are the first of a family, its
successor and one more, by a second rotation or made by hand. One service at
Render is enough for two to be wanted: the second creation is then refused by its name.
One row of a table is enough, as rows meet only at a unique
key: an insert collides with the row that is there, whether or not it has a place of its
own, and a row that was removed leaves its place to a later one; `RowAnswersRight` is
proved for any number. One session with one token still has a refresh and everything that can end it
between its two statements. Three clauses are the least in which precedence and
order differ. Time up to 8 is three windows of the limiter after the first. Requests,
tables, users and clients that are interchangeable are symmetry sets where no liveness
is checked. What the theorems of section 5 cover holds for every value of these
constants.

**Deadlock** is checked in `webhook`, `ddl` and the violations of both. In
the other runs bounded counters (versions, rows, time) run out, so a quiet end is
right; in `request_ends` being stuck is what `EveryCallEnds` and
`EveryTokenRequestEnds` ask about.

**Fairness.** `RegistrySync`: the ticker of `Syncer.Run` goes on until shutdown,
so the steps of a sync are weakly fair, as are the steps of a handler that has
begun; new requests, later saves and faults are not owed. Faults are bounded, as
the property speaks of what follows them. `TokenRevocation`: the same, and
nothing of the TTL, which therefore cannot be what makes a revocation arrive.
`WebhookDelivery`: each handler proceeds; a connection is granted under strong
fairness, since pgxpool serves its waiters in turn. `TokenFamilies`: the steps of a
request are strongly fair, since PostgreSQL queues the waiters for a row and its
detector finds every ring; requests, and their failures, are not owed. The other
modules check safety only.

## 4. What the runs found

1. `registry_stale`: the syncer's comment says that a change is "at worst …
   loaded twice, never missed". A handler that publishes after a sync has loaded
   something newer puts its older copy back, and no version moves.
2. `webhook_once`: the lock is held until "write and delivery log row", but the
   error of that row is dropped and its context is the provider's connection.
3. `ddl_lost`: adding one thing to a table overwrites all columns with the
   snapshot that the request read without a lock.
4. `frontend_recorded`: a deployment records its service at once "before any
   further step that could fail"; its own failure branches write the empty id over it,
   in a retry after the record or in a deployment that had begun before it.
5. `apps_sliding`: the limiter of the dashboard is called a sliding window "allowing max
   requests per window"; its windows begin with a request and end, and up to twice max
   pass in the time of one. `LimitsAreExact` says what does hold: max in a window of the
   limiter's own, twice max in any, and at sign-in, where the window slides, max in any.

Ten more statements of the repository do not hold. They have no run of
their own; each is stated in the module named, and fails when it is put
into a configuration of that module's run:

| Property | What is said | What happens |
|---|---|---|
| `AppMembers!SuperadminRemains` | at least one superadmin remains (`users.go:19-25`) | two superadmins demote each other: the count takes no lock |
| `AppMembers!MembersAreAdded` | owners become members once (`provisioner.go:316-317`) | at every boot, so one that was removed is back |
| `WebhookDelivery!RetriesGetThrough` | what fails is retried (`webhook_deliveries_store.go:116-118`) | the error of the first dial of the lock pool is kept for ever (under `ResendSpec`) |
| `TokenFamilies!ReportedFamilyIsDead` | on reuse every row of the family is revoked (`pat_store.go`) | not the row that a rotation in flight commits after the snapshot |
| `PlatformSettings!AbsentSecretIsKept` | a patch "overlays only the fields present" (`system_config_store.go:38-39`) | the storage configuration is taken whole: saved without its secret key, which no answer returns (`handler.go:443-445`), it loses the key; no race is needed, and `CHANGELOG.md:193` mends the same for the providers of an app |
| `RowPolicies!CatalogIsNative` | both change or neither does (`table_policies_store.go:282-287`) | an update sent to the path of another table changes that table's policy |
| `BuildChat!PartialFailureIsRecorded` | a failed confirmation leaves what it created on record (`ai_build_sessions_store.go:118-121`) | not an app whose schema could not be provisioned |
| `EditChat!MarkerIsOfTheLatest` | the marker tells that the operation was applied (`ai_edit_chat_handlers.go:202-207`) | one proposed during a confirmation is answered as applied, and never is |
| `DataRows!ConflictIsStillThere` | one transaction "removes that window entirely" (`server/handler.go`) | at READ COMMITTED its second statement sees a later deletion |
| `DataRows!DeletedRowIsHidden` | deleted rows are hidden (`ui/src/locales/en.json:333`) | a read, and an update, by id reach them; a list with `?deleted=true`, which asks for them, is not counted |

The passing properties state what holds beside them: `AtMostOnce` names the
exceptions in `exposed`, `SuperadminLossIsARace` that a request alone is always
refused, `UnbackedIsARace` that only an overtaken request or a rename under way
leaves a row naming what is not there, `RingsNeedAnAppDelete` that no other
transactions deadlock, `AnswersAreRight` which answers hold no deleted row and whose
SQL may have been built without soft deletion, `LostSettingIsARace` which fields a
patch empties by itself, `RevocationHolds` that only the one race keeps a
family alive, and `FrontendsAreAccounted`, `DeployKeysAgree`, `OrphanAppIsAccounted`,
`ConfirmationsAreTrue` and `FilesMatchObjects` name each accident that leaves something
behind.

## 5. What is proved

All theorems hold for every value of the constants under the named assumptions
of the modules concerned (`PodsExist`, `SystemIsNoApp`, `BoundsAreNat`,
`TokensExist`, `PodsAndEventsExist`, `NobodyIsNoCall`, `LimitsAreNat`,
`UsersAreOrdered`, `AppsExist`, `NobodyIsNoOne`, `TablesExist`, `NoneIsNoColumn`,
`MaxIdsIsNat`, `BodiesAreShapes`, `AdditionsAreColumns`, `ValueSetsAreSets`,
`TokenBound`, `NoOwnerIsNone`, `OwnersDiffer`, `OneOfEachExists`, `FrontBounds`, `KeyBounds`,
`SettingsBounds`, `BuildBounds`, `EditBounds`, `SessionBounds`, `MailsAreEmails`, `NilIsNone`,
`PolicyBounds`, `ClauseBounds`, `RowBounds`, `FileBounds`, `LimitBounds`), which say that sets are not
empty, sentinels are not members, bounds are numbers and what requests describe
passed validation.

* `RegistrySync_proofs`: `TypeCorrect`, `CaughtUpHolds`, `NoRollBack` and
  `Refines` (the refinement of `ReplicaView`). `CaughtUp` alone is not inductive:
  it says nothing of a load that is under way. The invariant adds that no stamp
  is ahead of the version (`Stamps`), that registries and copies hold only what
  was committed (`Served`, `Copies`), that a snapshot holds, of the parts already
  loaded, everything up to the version read before (`Loads`), and that a registry
  covers `lastVersion` as long as nothing was published since (`Seen`).
* `TokenRevocation_proofs`: `TokenTypeCorrect`, `RevokedTokenStaysGone`. The
  invariant ties the generation that a lookup took to what its verdict may be
  used for: of a token the pod has to know is revoked, a verdict "active" is only
  in the hands of a lookup whose generation is over (`Lookups`).
* `TokenFamilies_proofs`: `RevocationIsSound` and `FamiliesImplementLineage` (the
  refinement of `GrantLineage`), both from `FamInv`. It has four parts besides the
  types. The tables: a family's rows share user and client and at most one of them
  lives, and a code with a row was consumed (`TablesOK`). What a request knows at
  each point: the code it holds is not yet used, the row it replaces is live, the
  one it inserted is still blank (`ReqOK`). What two requests never share, by the
  locks (`Apart`). And for the end of a family, which takes its snapshot before it
  waits: of all that lives now it has seen everything, or one of those it saw was
  replaced since (`EndOK`); this is what makes the one race the only one. Every
  step then inserts a row of a new family, revokes some, or replaces one by its
  heir (`RowsMove`), which are the three actions of `GrantLineage`.
* `WebhookDelivery_proofs`: `TypeCorrect`, `AppliedAtMostOnce`, `SkipsOnlyApplied`. A delivery
  between its check and its log row holds the lock (`SectionLocked`); one about to
  write is the first (`WriteIsFirst`); whatever was written is in the log or in
  the hands of a delivery that is about to log it (`WriteIsKnown`). That a pool never
  has more free connections than it was made with is the hard part of the types: the
  free ones and the deliveries that hold one are `PoolSize` together (`PoolCounted`).
* `AppMembers_proofs`: `AdminsRemain`, `RingsOfWaits`,
  `SuperadminRemainsWithoutRace`. What a transaction read in a row that it locked
  stays true until it commits (`ReadOK`), a transaction of `lockAppMembers` that holds a
  row wants only later ones (`LockOK`), a cascade has or still wants every row of what it
  deletes (`CascadeOK`), and what an unraced request read of the roles is still so
  (`FreshOK`). In a ring without the deletion of an app the users of the rows waited for
  would rise from wait to wait and never fall (`WaitsRise`).
* `AppDDL_proofs`: `TypeCorrect`, `BackingHolds`, `SecurityHolds`,
  `SerialAgreement`. The three action properties speak of the moment a row is
  stored; the invariant says what a request knows at each point before (`Fresh`):
  as long as it was not overtaken, a request still has the row it read; after its
  DDL the table has every column it wants; and if row and table agreed when it
  began, the table is then just what it is about to store (`Agrees`).
* `Dashboard_proofs`. Five components, each with a section of its own, whose request
  records a handler's local variables and what others did behind its back.
  - `FrontsAccounted`, `RepoLosses` (`FrontendApps`). Every repository was made once
    (`RepoIsHeldOnce`), so one row has it or one request is about to write it; a retry
    that was overtaken by the row's own repository is marked. A service belongs to the
    request that made it until a row records it or it is an orphan.
  - `KeysAgree` (`DeployKeys`). Keys are numbered as GitHub gets them. A key about to be
    saved is on GitHub, is not the one on record and is nobody's old one
    (`SavedKeyIsFresh`); the one that a regeneration replaces is gone or known to be
    left (`OldKeyIsRevoked`).
  - `LostSettings`, `AppDrift` (`PlatformSettings`). What a patch has read is what is
    there until a write marks it (`ReadIsCurrent`), so that a write changes only what it
    gives and what it empties; an App about to be stored was verified with its own key
    (`AppIsVerified`). Of the installation what is proved exempts a plain switch of the
    App, which keeps the old one.
  - `OrphanApps`, `WholeBuilds` (`BuildChat`). A session that was never confirmed twice
    at once is in the hands of one request (`ConfirmsAlone`), and what its plan has
    done already is there or was removed since (`DoneIsThere`).
  - `Confirmed` (`EditChat`). A request that applies an operation found it as the latest
    of its session; what comes behind its back marks the operation.
  - `PartsAreImplemented`: the composition implements the specification of each of its
    six components, so that what is proved of one holds of the whole; `DashboardTypes`
    follows from all six inductive invariants.
* `AppApi_proofs`. Seven components.
  - `SignInsSound` (`AppSessions`). A sign-in in flight that was not passed by knows the
    last reset and the address of its account (`SignInIsCurrent`); whatever changes
    either ends the account's sessions or marks the sign-ins (`SignInRefers` says which
    account they are of).
  - `CatalogEnforced`, `DroppedRoles`, `PolicyTypes` (`RowPolicies`). Names are unique in
    a table, catalog and native policies agree on every table that no update reached by
    mistake, and row level security is on where there is a policy (`CatalogInv`). A
    count that found nobody is still right but for those it marks (`CountsHold`).
  - `PolicyTexts` (`PolicyExpression`). The text so far is one operand worth the reading
    so far (`ExprInv`). The reading is a recursive function of the clauses, for which
    there is no induction rule to cite: that it exists, and that its values are truth
    values, is proved from a least number of clauses for which it would fail
    (`LeastNumber`, from the well-foundedness of the natural numbers).
  - `RowAnswersRight` (`DataRows`). Each answer is one step, which tests the owner
    itself (`Touches`); that it tests deletion too is known as long as soft deletion was
    on all along, since the SQL was then built with it on (`RowReqKnows`).
  - `FilesMatch` (`FileStorage`). Keys are drawn in turn, so an upload's key is its own
    (`KeysInTurn`, `UploadIsOwn`).
  - `LimitsExact` (`RateLimits`), for every budget and window. What a fixed window counts
    is what the client passed in it (`WindowIsCounted`), and what it passed before within
    two windows is within one budget; the sign-in limiter keeps exactly the stamps of the
    last window (`SignInKeepsTimes`), since a sweep drops none that is young.
  - `ColumnTypeCorrect`, `ConstraintsDriftInRacesOnly` (`ColumnConstraints`). The
    argument of `AppDDL` on the fields of one column: a request that nobody overtook has
    the row it read, and after its DDL the column has each field that it changes.
  - `AppPartsAreImplemented` and `AppsTypes`: the composition, as above.

Two assumptions were found by these proofs: there is a slug at all (`FrontBounds`), and
the first window begins within the time that is modelled (`LimitBounds`).

Only model-checked: the four liveness properties (`EveryPodReachesTheVersion`,
`RevocationReachesEveryPod`, `EveryCallEnds`, `EveryTokenRequestEnds`), since
liveness under fairness is beyond the prover. Every other property of a passing run is
stated by a theorem. The violations are counterexamples and stay with TLC.

## 6. Plan

Modelled first was what every request depends on (`RegistrySync`), then tokens,
webhooks, members, tables and their columns, platform tokens, sessions, policies,
rows, files, limiters, frontend apps and keys, settings and the two chats. Every safety
property of a run is proved.

Next, in this order:

1. Bounded liveness: for the properties that only TLC checks, the safety lemmas a
   liveness proof would start from (a request that holds a lock can always take its next
   step; a poll after the last commit loads everything).
2. A sharper promise for `AppSessions` and `FrontendApps` as abstract specifications
   (which sessions an account may have; which services a slug owns), with refinements.
3. Type changes of a column with their record of migrations, and the boot's DDL
   beside requests of another pod.

## 7. Not modelled

* Provisioning at boot (`internal/dashboard/provisioner.go`): one script under an advisory
  lock, run before the pod listens. Its owners' rows are in `AppMembers`, its
  triggers are the versions of `RegistrySync`; that it creates what is missing is left out.
* Type changes, indexes, renames' record of migrations (`migration.go`) and the order of tables
  with references (`topsort.go`): each is one transaction of one request, and the race
  around it is the one of `AppDDL`.
* The MCP server's tools: they call the handlers of the dashboard with the user's token,
  whose admission is in `TokenFamilies`.
* Webhook field mapping, configuration types and validation, the generator of API
  documents: pure functions of one request, of which the models keep whether they succeed.
* Encryption, keys and logs: nothing that is read back to decide anything.
* The other failures of a purge: one table that fails ends the run for all
  that come after it.
* The text of SQL and JSON, HTTP routing, the clock (TTL, timeouts and tickers are
  actions that may happen at any time, except in `RateLimits`), the inside of PostgreSQL
  beyond statement snapshots, row, table and advisory locks, unique indexes, foreign keys and
  cascades. Code outside `src/` (PostgreSQL, pgx, GitHub, Render, the object store, the
  language model) appears only through what the code asks of it.
* The client libraries and the user interface, which are callers.
