---------------------------- MODULE FrontendApps ----------------------------
(***************************************************************************)
(* Frontend apps: a row of the platform, a repository at GitHub and a      *)
(* service at Render, written one after the other by handlers that share   *)
(* no transaction and take no lock.                                        *)
(*                                                                         *)
(* GitHub and Render are what the two clients rely on: names are unique,   *)
(* an archived repository keeps its name, any call may fail, and an answer *)
(* may be lost after the call was carried out.  The keys of the repository *)
(* are in DeployKeys; a custom domain touches nothing that is here.        *)
(***************************************************************************)
EXTENDS Naturals, FiniteSets

CONSTANTS Slugs,
          FReqs,       \* requests in flight at once
          MaxFronts,   \* bound: rows ever inserted
          MaxServices  \* bound: services ever created

ASSUME FrontBounds == Slugs # {} /\ MaxFronts \in Nat \ {0} /\ MaxServices \in Nat \ {0}

VARIABLES front,      \* zeep_system.frontend_apps
          fronts,     \* rows of it
          repo,       \* repositories at GitHub, by name
          service,    \* services at Render
          services,   \* services ever created
          template,   \* "off", "plain" or, with a render_service_type, "deployed"
          connected,  \* GitHub is connected, and Render is
          freq,       \* requests in flight
          stray       \* history: services that a known accident left behind

frontEnv == <<repo, service, services>>
frontCfg == <<template, connected>>
frontVars == <<front, fronts, frontEnv, frontCfg, freq, stray>>

-----------------------------------------------------------------------------
FrontIds == 1 .. MaxFronts
ServiceIds == 1 .. MaxServices
NoService == 0

Front == [slug : Slugs, repo : BOOLEAN, archived : BOOLEAN, status : {"ready", "failed"},
          service : {NoService} \cup ServiceIds,
          deploy : {"pending", "provisioning", "ready", "failed"}]
NewFront(slug, made) ==
    [slug |-> slug, repo |-> made, archived |-> FALSE, status |-> IF made THEN "ready" ELSE "failed",
     service |-> NoService, deploy |-> "pending"]

FReqIdle == [pc |-> "idle", app |-> 1, slug |-> CHOOSE s \in Slugs : TRUE, made |-> FALSE,
             service |-> NoService, deployed |-> FALSE, overtaken |-> FALSE]
FReq == [pc : {"idle", "generate", "generate_again", "insert", "set_status", "sync", "deploy", "make_service",
               "save_service", "fail_deploy", "finish", "archive", "archive_repo", "drop_service"},
         app : FrontIds, slug : Slugs, made : BOOLEAN, service : {NoService} \cup ServiceIds,
         deployed : BOOLEAN, overtaken : BOOLEAN]

FrontInit ==
    /\ front = [a \in FrontIds |-> NewFront(CHOOSE s \in Slugs : TRUE, FALSE)]
    /\ fronts = 0
    /\ repo = [s \in Slugs |-> "none"]
    /\ service = [v \in ServiceIds |-> "none"]
    /\ services = 0
    /\ template = "deployed"
    /\ connected = [github |-> TRUE, render |-> FALSE]
    /\ freq = [r \in FReqs |-> FReqIdle]
    /\ stray = {}

Fronts == 1 .. fronts
LiveFronts == {a \in Fronts : ~front[a].archived}
SlugExists(s) == \E a \in LiveFronts : front[a].slug = s
NameTaken(s) == \E v \in ServiceIds : service[v] = s

Waits(r, pc) == freq[r].pc = pc
Take(r, q) == Waits(r, "idle") /\ freq' = [freq EXCEPT ![r] = q]
To(r, pc) == freq' = [freq EXCEPT ![r].pc = pc]
Done(r) == freq' = [freq EXCEPT ![r] = FReqIdle]
Retries(r) == freq[r].pc \in {"generate_again", "set_status"}
\* history: the row has changed under the other Retries that read it.
DoneOver(r) ==
    freq' = [q \in FReqs |-> IF q = r THEN FReqIdle
                             ELSE [freq[q] EXCEPT !.overtaken = Retries(q) /\ (@ \/ freq[q].app = freq[r].app)]]

-----------------------------------------------------------------------------
(* The two services outside.                                               *)

\* The repository is made and its URL answered, or the answer is lost, or it is refused.
CreateRepoFromTemplate(r, s, next) ==
    \E asked \in {"made", "lost", "refused"} :
        /\ asked # "refused" => repo[s] = "none"
        /\ repo' = IF asked = "refused" THEN repo ELSE [repo EXCEPT ![s] = "live"]
        /\ freq' = [freq EXCEPT ![r].pc = next, ![r].made = asked = "made"]

\* Up to four attempts: the answer of one that created the service may be lost,
\* and the next then meets the name it took.
CreateService(r) ==
    \E asked \in {"made", "lost", "refused"} :
        /\ asked # "refused" => services < MaxServices /\ ~NameTaken(freq[r].slug)
        /\ IF asked = "refused" THEN UNCHANGED <<service, services>>
           ELSE services' = services + 1 /\ service' = [service EXCEPT ![services + 1] = freq[r].slug]
        /\ freq' = [freq EXCEPT ![r].pc = IF asked = "made" THEN "save_service" ELSE "fail_deploy",
                                ![r].service = IF asked = "made" THEN services + 1 ELSE NoService]
        /\ stray' = IF asked = "lost" THEN stray \cup {services + 1} ELSE stray

-----------------------------------------------------------------------------
(* The statements on the row: none of them touches an archived one.        *)

UpdateFrontend(a, row) == front' = IF front[a].archived THEN front ELSE [front EXCEPT ![a] = row]

\* Retry: the answer is written over whatever is there.
UpdateFrontendAppStatus(r) ==
    LET q == freq[r] IN
    /\ Waits(r, "set_status")
    /\ UpdateFrontend(q.app, [front[q.app] EXCEPT !.status = IF q.made THEN "ready" ELSE "failed",
                                                  !.repo = q.made])
    /\ DoneOver(r)
    /\ UNCHANGED <<fronts, frontEnv, frontCfg, stray>>

\* The whole of the deployment columns.
UpdateFrontendAppDeploy(a, v, status) ==
    UpdateFrontend(a, [front[a] EXCEPT !.service = v, !.deploy = status])

-----------------------------------------------------------------------------
(* Create and Retry.                                                       *)

BeginCreate(r, s) ==
    /\ template # "off" /\ connected.github /\ ~SlugExists(s)
    /\ Take(r, [FReqIdle EXCEPT !.pc = "generate", !.slug = s, !.deployed = template = "deployed"])
    /\ UNCHANGED <<front, fronts, frontEnv, frontCfg, stray>>

RetryIf(r, a, allowed) ==
    /\ a \in LiveFronts /\ allowed
    /\ template # "off" /\ connected.github
    /\ Take(r, [FReqIdle EXCEPT !.pc = "generate_again", !.app = a, !.slug = front[a].slug])
    /\ UNCHANGED <<front, fronts, frontEnv, frontCfg, stray>>

\* Mutant: an app that is ready is tried again.
RetryAny(r, a) == RetryIf(r, a, TRUE)

BeginRetry(r, a) == RetryIf(r, a, front[a].status = "failed")

Generate(r) ==
    /\ \/ Waits(r, "generate") /\ CreateRepoFromTemplate(r, freq[r].slug, "insert")
       \/ Waits(r, "generate_again") /\ CreateRepoFromTemplate(r, freq[r].slug, "set_status")
    /\ UNCHANGED <<front, fronts, service, services, frontCfg, stray>>

\* The unique index refuses a second live row with the slug.
CreateFrontendApp(r) ==
    LET q == freq[r] IN
    /\ Waits(r, "insert")
    /\ fronts < MaxFronts
    /\ IF SlugExists(q.slug) THEN Done(r) /\ UNCHANGED <<front, fronts>>
       ELSE /\ fronts' = fronts + 1
            /\ front' = [front EXCEPT ![fronts + 1] = NewFront(q.slug, q.made)]
            /\ freq' = [freq EXCEPT ![r] = IF q.made THEN [q EXCEPT !.pc = "sync", !.app = fronts + 1]
                                           ELSE FReqIdle]
    /\ UNCHANGED <<frontEnv, frontCfg, stray>>

\* setupSync (DeployKeys) fails without a trace here; without a configuration
\* buildClient returns neither a client nor an error, and the handler panics.
SetupSync(r) ==
    /\ Waits(r, "sync")
    /\ To(r, "deploy") \/ (~connected.github /\ Done(r))
    /\ UNCHANGED <<front, fronts, frontEnv, frontCfg, stray>>

-----------------------------------------------------------------------------
(* Deployment.                                                             *)

BeginDeployRetry(r, a) ==
    /\ a \in LiveFronts /\ front[a].deploy # "ready"
    /\ template # "off"
    /\ Take(r, [FReqIdle EXCEPT !.pc = "deploy", !.app = a, !.slug = front[a].slug,
                                !.made = front[a].repo, !.deployed = template = "deployed"])
    /\ UNCHANGED <<front, fronts, frontEnv, frontCfg, stray>>

AttemptDeploy(r) ==
    /\ Waits(r, "deploy")
    /\ IF ~freq[r].deployed THEN Done(r)
       ELSE freq' = [freq EXCEPT ![r].pc = IF connected.render /\ freq[r].made THEN "make_service" ELSE "fail_deploy",
                                 ![r].made = FALSE, ![r].deployed = FALSE]
    /\ UNCHANGED <<front, fronts, frontEnv, frontCfg, stray>>

MakeService(r) ==
    /\ Waits(r, "make_service")
    /\ CreateService(r)
    /\ UNCHANGED <<front, fronts, repo, frontCfg>>

\* Clears the service that is on record.
FailDeploy(r) ==
    LET a == freq[r].app IN
    /\ Waits(r, "fail_deploy")
    /\ UpdateFrontendAppDeploy(a, NoService, "failed")
    /\ stray' = IF front[a].archived THEN stray ELSE stray \cup ({front[a].service} \ {NoService})
    /\ Done(r)
    /\ UNCHANGED <<fronts, frontEnv, frontCfg>>

\* An archived row keeps nothing: the service is left behind.
RecordService(r, status) ==
    LET q == freq[r] IN
    /\ UpdateFrontendAppDeploy(q.app, q.service, status)
    /\ stray' = stray \cup IF front[q.app].archived THEN {q.service}
                           ELSE {front[q.app].service} \ {NoService, q.service}
    /\ UNCHANGED <<fronts, frontEnv, frontCfg>>

\* Mutant: the service is recorded at the end only.
SaveAtTheEnd(r) ==
    /\ Waits(r, "save_service")
    /\ To(r, "finish")
    /\ UNCHANGED <<front, fronts, frontEnv, frontCfg, stray>>

\* At once, before any further step that could fail.
SaveService(r) ==
    /\ Waits(r, "save_service")
    /\ RecordService(r, "provisioning")
    /\ IF front[freq[r].app].archived THEN Done(r) ELSE To(r, "finish")

FinishDeploy(r) ==
    /\ Waits(r, "finish")
    /\ RecordService(r, "ready")
    /\ Done(r)

-----------------------------------------------------------------------------
(* Delete.                                                                 *)

BeginDelete(r, a) ==
    /\ a \in LiveFronts
    /\ Take(r, [FReqIdle EXCEPT !.pc = "archive", !.app = a, !.slug = front[a].slug,
                                !.made = front[a].repo, !.service = front[a].service])
    /\ UNCHANGED <<front, fronts, frontEnv, frontCfg, stray>>

\* What the row has got since it was read is not cleaned up.
ArchiveFrontendApp(r) ==
    LET a == freq[r].app IN
    /\ Waits(r, "archive")
    /\ IF front[a].archived THEN Done(r) /\ UNCHANGED <<front, stray>>
       ELSE /\ front' = [front EXCEPT ![a].archived = TRUE]
            /\ stray' = stray \cup ({front[a].service} \ {NoService, freq[r].service})
            /\ To(r, "archive_repo")
    /\ UNCHANGED <<fronts, frontEnv, frontCfg>>

\* Best effort.
ArchiveRepo(r) ==
    /\ Waits(r, "archive_repo")
    /\ \/ /\ freq[r].made /\ connected.github /\ repo[freq[r].slug] = "live"
          /\ repo' = [repo EXCEPT ![freq[r].slug] = "archived"]
       \/ UNCHANGED repo
    /\ To(r, "drop_service")
    /\ UNCHANGED <<front, fronts, service, services, frontCfg, stray>>

\* Best effort.
DropService(r) ==
    LET v == freq[r].service IN
    /\ Waits(r, "drop_service")
    /\ \/ /\ v # NoService /\ connected.render
          /\ service' = [service EXCEPT ![v] = "none"]
          /\ UNCHANGED stray
       \/ stray' = stray \cup ({v} \ {NoService}) /\ UNCHANGED service
    /\ Done(r)
    /\ UNCHANGED <<front, fronts, repo, services, frontCfg>>

-----------------------------------------------------------------------------
\* The caller goes away, a statement fails, the pod dies.
AbandonFront(r) ==
    /\ ~Waits(r, "idle")
    /\ stray' = stray \cup IF freq[r].pc \in {"save_service", "archive_repo", "drop_service"}
                           THEN {freq[r].service} \ {NoService} ELSE {}
    /\ Done(r)
    /\ UNCHANGED <<front, fronts, frontEnv, frontCfg>>

\* Templates are verified with GitHub, then written; Delete only hides one.
SetTemplate(t) ==
    /\ t # template
    /\ t # "off" => connected.github
    /\ template' = t
    /\ UNCHANGED <<front, fronts, frontEnv, connected, freq, stray>>

\* GitHub is connected and disconnected; Render is never disconnected.
SetConnected(on) ==
    /\ on # connected /\ connected.render => on.render
    /\ connected' = on
    /\ UNCHANGED <<front, fronts, frontEnv, template, freq, stray>>

FrontStep(r) ==
    \/ Generate(r) \/ CreateFrontendApp(r) \/ UpdateFrontendAppStatus(r) \/ SetupSync(r)
    \/ AttemptDeploy(r) \/ MakeService(r) \/ FailDeploy(r) \/ SaveService(r) \/ FinishDeploy(r)
    \/ ArchiveFrontendApp(r) \/ ArchiveRepo(r) \/ DropService(r)
    \/ AbandonFront(r)

FrontNext ==
    \/ \E t \in {"off", "plain", "deployed"} : SetTemplate(t)
    \/ \E on \in [github : BOOLEAN, render : BOOLEAN] : SetConnected(on)
    \/ \E r \in FReqs :
          \/ \E s \in Slugs : BeginCreate(r, s)
          \/ \E a \in FrontIds : BeginRetry(r, a) \/ BeginDeployRetry(r, a) \/ BeginDelete(r, a)
          \/ FrontStep(r)

FrontSpec == FrontInit /\ [][FrontNext]_frontVars

-----------------------------------------------------------------------------
FrontTypeOK ==
    /\ front \in [FrontIds -> Front]
    /\ fronts \in 0 .. MaxFronts
    /\ repo \in [Slugs -> {"none", "live", "archived"}]
    /\ service \in [ServiceIds -> Slugs \cup {"none"}]
    /\ services \in 0 .. MaxServices
    /\ template \in {"off", "plain", "deployed"}
    /\ connected \in [github : BOOLEAN, render : BOOLEAN]
    /\ freq \in [FReqs -> FReq]
    /\ stray \subseteq ServiceIds

\* Every service that runs at Render is on record in a live row, or in the hands
\* of the request that made it or is to delete it, but for the accidents that
\* stray names: a lost answer, a request that died, a row archived meanwhile, a
\* failed deletion, a row that another deployment overwrote (attemptDeploy, Delete).
OrphanIsAccounted ==
    \A v \in ServiceIds : service[v] # "none" =>
        \/ \E a \in LiveFronts : front[a].service = v
        \/ \E r \in FReqs : freq[r].service = v
                            /\ freq[r].pc \in {"save_service", "archive_repo", "drop_service"}
        \/ v \in stray

\* No two apps, archived ones included, have the same repository
\* (CreateRepoFromTemplate: the name of a repository is never given twice).
RepoBelongsToOneApp ==
    \A a, b \in Fronts : a # b /\ front[a].repo /\ front[b].repo => front[a].slug # front[b].slug

\* An app loses the repository it has got only to a Retry that began when it
\* had none (Retry writes its answer over whatever is there).
RepoLossIsARace ==
    [][\A a \in FrontIds : a \in LiveFronts /\ front[a].repo /\ ~front'[a].repo
          => \E r \in FReqs : Waits(r, "set_status") /\ freq[r].app = a /\ freq[r].overtaken]_frontVars

\* A deployment or a deletion that fails, dies or is overtaken leaves neither a service
\* that nobody accounts for nor a repository of two apps.
FrontendsAreAccounted == OrphanIsAccounted /\ RepoBelongsToOneApp

\* A service on record stays on record, until its app is deleted.
RecordedServiceIsKept ==
    [][\A a \in FrontIds : a \in LiveFronts /\ front[a].service # NoService
          => front'[a].service = front[a].service]_frontVars
=============================================================================
