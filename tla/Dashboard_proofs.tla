-------------------------- MODULE Dashboard_proofs --------------------------
(***************************************************************************)
(* What the components behind the dashboard's API promise, for any number  *)
(* of requests, apps, sessions, keys and settings, and for their           *)
(* composition in MCDashboard.                                             *)
(*                                                                         *)
(* One section per component, each with the argument of its inductive      *)
(* invariant; those of AppMembers are in a module of their own.            *)
(***************************************************************************)
EXTENDS MCDashboard, AppMembers_proofs

-----------------------------------------------------------------------------
(* Frontend apps. Every repository was made once, so one row has it or one *)
(* request is about to write it; a Retry is of the slug of its row, and a  *)
(* row that got its repository meanwhile has marked it as overtaken. A     *)
(* service is in the hands of the request that made it until a row records *)
(* it or it is known to be an orphan.                                      *)

InHands(r, v) == freq[r].service = v /\ freq[r].pc \in {"save_service", "archive_repo", "drop_service"}
OnRecord(v) == \E a \in LiveFronts : front[a].service = v
\* A request that was answered a repository and has not written it yet.
HoldsRepo(r) == freq[r].pc \in {"insert", "set_status"} /\ freq[r].made

\* Past its insertion a request refers to a row; a Retry is of the slug of its row, and is
\* known to be overtaken once the row has got its repository.
RequestIsOfItsRow(r) ==
    LET q == freq[r] IN
    /\ q.pc \notin {"idle", "generate", "insert"} => q.app \in Fronts
    /\ q.pc \in {"save_service", "finish"} => q.service # NoService
    /\ Retries(r) => q.slug = front[q.app].slug /\ (front[q.app].repo => q.overtaken)

\* The repository of a name was made once: one row has it, or one request is about to write it.
RepoIsHeldOnce ==
    /\ \A a \in Fronts : front[a].repo => repo[front[a].slug] # "none" /\ front[a].status = "ready"
    /\ \A r \in FReqs : HoldsRepo(r) => repo[freq[r].slug] # "none"
    /\ \A r \in FReqs : HoldsRepo(r) => \A a \in Fronts : front[a].repo => front[a].slug # freq[r].slug
    /\ \A r \in FReqs : HoldsRepo(r) => \A q \in FReqs \ {r} : HoldsRepo(q) => freq[q].slug # freq[r].slug

\* The inductive invariant.
FrontInv ==
    /\ FrontTypeOK
    /\ \A r \in FReqs : RequestIsOfItsRow(r)
    /\ RepoIsHeldOnce
    /\ FrontendsAreAccounted

-----------------------------------------------------------------------------
\* The idle request is a request, and names a slug.
LEMMA FReqIdleIsTyped == FReqIdle \in FReq /\ FReqIdle.pc = "idle" /\ (CHOOSE s \in Slugs : TRUE) \in Slugs
<1>1. 1 \in FrontIds /\ (CHOOSE s \in Slugs : TRUE) \in Slugs
  BY FrontBounds DEF FrontIds
<1> QED
  BY <1>1 DEF FReqIdle, FReq

\* The rows that were inserted are rows.
LEMMA FrontsAreTyped == FrontTypeOK => \A a \in Fronts : a \in FrontIds /\ front[a] \in Front
<1>1. FrontTypeOK => Fronts \subseteq FrontIds
  BY FrontBounds DEF FrontTypeOK, Fronts, FrontIds
<1> QED
  BY <1>1 DEF FrontTypeOK

\* A request goes on to another record, and the rest stay.
LEMMA FrontBecomes ==
    ASSUME FrontTypeOK, NEW r \in FReqs, NEW k \in FReq, freq' = [freq EXCEPT ![r] = k]
    PROVE  /\ freq' \in [FReqs -> FReq]
           /\ freq'[r] = k
           /\ \A q \in FReqs \ {r} : freq'[q] = freq[q]
BY DEF FrontTypeOK

\* A request goes on to its next statement, and the rest stay.
LEMMA FrontGoes ==
    ASSUME FrontTypeOK, NEW r \in FReqs,
           NEW pc \in {"deploy", "finish", "archive_repo", "drop_service"}, To(r, pc)
    PROVE  /\ freq' \in [FReqs -> FReq]
           /\ freq'[r].pc = pc /\ freq'[r].app = freq[r].app /\ freq'[r].service = freq[r].service
           /\ \A q \in FReqs \ {r} : freq'[q] = freq[q]
<1> DEFINE k == [freq[r] EXCEPT !.pc = pc]
<1>1. k \in FReq /\ k.pc = pc /\ k.app = freq[r].app /\ k.service = freq[r].service
  BY DEF FrontTypeOK, FReq
<1>2. freq' = [freq EXCEPT ![r] = k]
  BY DEF FrontTypeOK, To
<1> HIDE DEF k
<1> QED
  BY <1>1, <1>2, FrontBecomes

\* A request ends.
LEMMA FrontCloses ==
    ASSUME FrontTypeOK, NEW r \in FReqs, Done(r)
    PROVE  freq' \in [FReqs -> FReq] /\ freq'[r].pc = "idle" /\ \A q \in FReqs \ {r} : freq'[q] = freq[q]
BY FReqIdleIsTyped, FrontBecomes DEF Done

\* A finished request overtakes the Retries of its row, and leaves every other request as it is.
LEMMA OvertakenIsMarked ==
    ASSUME FrontTypeOK, NEW r \in FReqs, DoneOver(r)
    PROVE  /\ freq' \in [FReqs -> FReq] /\ freq'[r].pc = "idle"
           /\ \A q \in FReqs \ {r} :
                /\ freq'[q].pc = freq[q].pc /\ freq'[q].app = freq[q].app /\ freq'[q].slug = freq[q].slug
                /\ freq'[q].made = freq[q].made /\ freq'[q].service = freq[q].service
                /\ Retries(q) /\ (freq[q].overtaken \/ freq[q].app = freq[r].app) => freq'[q].overtaken
<1>1. freq' = [q \in FReqs |-> IF q = r THEN FReqIdle
                             ELSE [freq[q] EXCEPT !.overtaken = Retries(q) /\ (@ \/ freq[q].app = freq[r].app)]]
  BY DEF DoneOver
<1>2. ASSUME NEW q \in FReqs \ {r}
      PROVE  /\ freq'[q] \in FReq
             /\ freq'[q].pc = freq[q].pc /\ freq'[q].app = freq[q].app /\ freq'[q].slug = freq[q].slug
             /\ freq'[q].made = freq[q].made /\ freq'[q].service = freq[q].service
             /\ Retries(q) /\ (freq[q].overtaken \/ freq[q].app = freq[r].app) => freq'[q].overtaken
  <2> DEFINE over == Retries(q) /\ (freq[q].overtaken \/ freq[q].app = freq[r].app)
             k == [freq[q] EXCEPT !.overtaken = over]
  <2>1. freq[q] \in FReq /\ over \in BOOLEAN
    BY DEF FrontTypeOK, Retries
  <2>2. freq'[q] = k
    BY <1>1
  <2> HIDE DEF over
  <2>3. /\ k \in FReq /\ k.pc = freq[q].pc /\ k.app = freq[q].app /\ k.slug = freq[q].slug
        /\ k.made = freq[q].made /\ k.service = freq[q].service /\ k.overtaken = over
    BY <2>1 DEF FReq
  <2> HIDE DEF k
  <2> QED
    BY <2>2, <2>3 DEF over
<1> QED
  BY <1>1, <1>2, FReqIdleIsTyped

\* A step of one request that writes no repository into a row, and inserts no row.
LEMMA FrontMoves ==
    ASSUME FrontInv, NEW r \in FReqs,
           fronts' = fronts, front' \in [FrontIds -> Front],
           \A a \in Fronts : front'[a].slug = front[a].slug /\ front'[a].repo = front[a].repo /\ front'[a].status = front[a].status,
           freq' \in [FReqs -> FReq], \A q \in FReqs \ {r} : freq'[q] = freq[q], RequestIsOfItsRow(r)',
           repo' \in [Slugs -> {"none", "live", "archived"}], \A s \in Slugs : repo[s] # "none" => repo'[s] # "none",
           HoldsRepo(r)' => repo[freq'[r].slug] = "none" /\ repo'[freq'[r].slug] # "none",
           service' \in [ServiceIds -> Slugs \cup {"none"}], services' \in 0 .. MaxServices,
           template' \in {"off", "plain", "deployed"}, connected' \in [github : BOOLEAN, render : BOOLEAN],
           stray \subseteq stray', stray' \subseteq ServiceIds,
           \A v \in ServiceIds : service'[v] # "none" =>
             /\ service[v] # "none" \/ InHands(r, v)' \/ v \in stray'
             /\ OnRecord(v) \/ InHands(r, v) => OnRecord(v)' \/ InHands(r, v)' \/ v \in stray'
    PROVE  FrontInv'
<1>1. FrontTypeOK'
  BY DEF FrontInv, FrontTypeOK
<1>2. Fronts' = Fronts
  BY DEF Fronts
<1>3. ASSUME NEW q \in FReqs PROVE RequestIsOfItsRow(q)'
  <2>1. CASE q = r
    BY <2>1
  <2>2. CASE q # r
    <3>1. RequestIsOfItsRow(q) /\ freq'[q] = freq[q] /\ (Retries(q)' <=> Retries(q))
      BY <2>2 DEF FrontInv, Retries
    <3>2. Retries(q) => freq[q].app \in Fronts
      BY <3>1 DEF Retries, RequestIsOfItsRow
    <3> QED
      BY <1>2, <3>1, <3>2 DEF RequestIsOfItsRow
  <2> QED
    BY <2>1, <2>2
<1>4. \A a \in Fronts : front[a].slug \in Slugs
  BY FrontsAreTyped DEF FrontInv, Front
<1>5. \A q \in FReqs : freq[q].slug \in Slugs /\ freq'[q].slug \in Slugs
  BY DEF FrontInv, FrontTypeOK, FReq
<1>6. \A q \in FReqs \ {r} : HoldsRepo(q)' <=> HoldsRepo(q)
  BY DEF HoldsRepo
<1>7. RepoIsHeldOnce'
  <2>1. \A a \in Fronts' : front'[a].repo => repo'[front'[a].slug] # "none" /\ front'[a].status = "ready"
    BY <1>2, <1>4 DEF FrontInv, RepoIsHeldOnce
  <2>2. \A q \in FReqs : HoldsRepo(q)' => repo'[freq'[q].slug] # "none"
    BY <1>5, <1>6 DEF FrontInv, RepoIsHeldOnce
  <2>3. ASSUME NEW q \in FReqs, HoldsRepo(q)', NEW a \in Fronts, front'[a].repo PROVE front'[a].slug # freq'[q].slug
    BY <1>4, <1>6, <2>3 DEF FrontInv, RepoIsHeldOnce
  <2>4. ASSUME NEW q \in FReqs, HoldsRepo(q)', NEW p \in FReqs \ {q}, HoldsRepo(p)' PROVE freq'[p].slug # freq'[q].slug
    BY <1>6, <2>4 DEF FrontInv, RepoIsHeldOnce
  <2> QED
    BY <1>2, <2>1, <2>2, <2>3, <2>4 DEF RepoIsHeldOnce
<1>8. OrphanIsAccounted'
  <2>1. ASSUME NEW q \in FReqs \ {r}, NEW v \in ServiceIds PROVE InHands(q, v)' <=> InHands(q, v)
    BY DEF InHands
  <2> QED
    BY <2>1 DEF FrontInv, FrontendsAreAccounted, OrphanIsAccounted, InHands, OnRecord
<1>9. RepoBelongsToOneApp'
  BY <1>2 DEF FrontInv, FrontendsAreAccounted, RepoBelongsToOneApp
<1> QED
  BY <1>1, <1>3, <1>7, <1>8, <1>9 DEF FrontInv, FrontendsAreAccounted

\* The same, when the rows and what is outside stay as they are.
LEMMA FrontWaits ==
    ASSUME FrontInv, NEW r \in FReqs, UNCHANGED <<front, fronts, repo, service, services, frontCfg>>,
           freq' \in [FReqs -> FReq], \A q \in FReqs \ {r} : freq'[q] = freq[q], RequestIsOfItsRow(r)',
           ~HoldsRepo(r)', stray \subseteq stray', stray' \subseteq ServiceIds,
           \A v \in ServiceIds : InHands(r, v) => InHands(r, v)' \/ v \in stray'
    PROVE  FrontInv'
<1>1. \A v \in ServiceIds : OnRecord(v)' <=> OnRecord(v)
  BY DEF OnRecord, LiveFronts, Fronts
<1>2. FrontTypeOK
  BY DEF FrontInv
<1>3. UNCHANGED <<template, connected>>
  BY DEF frontCfg
<1> QED
  BY <1>1, <1>2, <1>3, FrontMoves DEF FrontTypeOK

\* A statement on the deployment of a row, and what becomes of the services it had.
LEMMA FrontDeploys ==
    ASSUME FrontInv, NEW r \in FReqs, NEW a \in Fronts, NEW v \in {NoService} \cup ServiceIds,
           NEW status \in {"pending", "provisioning", "ready", "failed"},
           UpdateFrontendAppDeploy(a, v, status), UNCHANGED <<fronts, frontEnv, frontCfg>>,
           freq' \in [FReqs -> FReq], \A q \in FReqs \ {r} : freq'[q] = freq[q], RequestIsOfItsRow(r)', ~HoldsRepo(r)',
           \A w \in ServiceIds : InHands(r, w) => w = v,
           stray \subseteq stray', stray' \subseteq ServiceIds,
           front[a].archived => v = NoService \/ v \in stray',
           ~front[a].archived => front[a].service \in {NoService, v} \/ front[a].service \in stray'
    PROVE  FrontInv'
<1> DEFINE row == [front[a] EXCEPT !.service = v, !.deploy = status]
<1>1. FrontTypeOK /\ a \in FrontIds /\ front[a] \in Front
  BY FrontsAreTyped DEF FrontInv
<1>2. /\ row \in Front /\ row.service = v /\ row.slug = front[a].slug /\ row.repo = front[a].repo
      /\ row.status = front[a].status /\ row.archived = front[a].archived
  BY <1>1 DEF Front
<1>3. (front[a].archived /\ front' = front) \/ (~front[a].archived /\ front' = [front EXCEPT ![a] = row])
  BY DEF UpdateFrontendAppDeploy, UpdateFrontend
<1> HIDE DEF row
<1>4. /\ front' \in [FrontIds -> Front]
      /\ front[a].archived => front'[a] = front[a]
      /\ ~front[a].archived => front'[a] = row
      /\ \A b \in FrontIds \ {a} : front'[b] = front[b]
  BY <1>1, <1>2, <1>3 DEF FrontTypeOK
<1>5. LiveFronts' = LiveFronts /\ \A b \in Fronts : b \in FrontIds
  <2>1. \A b \in Fronts : b \in FrontIds
    BY <1>1, FrontsAreTyped
  <2>2. \A b \in Fronts : front'[b].archived = front[b].archived
    BY <1>2, <1>4, <2>1
  <2> QED
    BY <2>1, <2>2 DEF LiveFronts, Fronts
<1>6. ASSUME NEW w \in ServiceIds, OnRecord(w) PROVE OnRecord(w)' \/ w \in stray'
  <2>1. PICK b \in LiveFronts : front[b].service = w
    BY <1>6 DEF OnRecord
  <2>2. b \in FrontIds /\ ~front[b].archived /\ w # NoService
    BY <1>5, <2>1 DEF LiveFronts, ServiceIds, NoService
  <2>3. CASE b # a
    BY <1>4, <1>5, <2>1, <2>2, <2>3 DEF OnRecord
  <2>4. CASE b = a
    BY <1>2, <1>4, <1>5, <2>1, <2>2, <2>4 DEF OnRecord
  <2> QED
    BY <2>3, <2>4
<1>7. ASSUME NEW w \in ServiceIds, InHands(r, w) PROVE OnRecord(w)' \/ w \in stray'
  <2>1. w = v /\ w # NoService
    BY <1>7 DEF ServiceIds, NoService
  <2>2. CASE front[a].archived
    BY <2>1, <2>2
  <2>3. CASE ~front[a].archived
    BY <1>2, <1>4, <1>5, <2>1, <2>3 DEF OnRecord, LiveFronts
  <2> QED
    BY <2>2, <2>3
<1>8. \A b \in Fronts : front'[b].slug = front[b].slug /\ front'[b].repo = front[b].repo /\ front'[b].status = front[b].status
  BY <1>2, <1>4, <1>5
<1>9. UNCHANGED <<repo, service, services, template, connected>>
  BY DEF frontEnv, frontCfg
<1> QED
  BY <1>1, <1>4, <1>6, <1>7, <1>8, <1>9, FrontMoves DEF FrontTypeOK

\* Every operation on a frontend app keeps the invariant.
LEMMA FrontStepInv == FrontInv /\ [FrontNext]_frontVars => FrontInv'
<1> SUFFICES ASSUME FrontInv, [FrontNext]_frontVars PROVE FrontInv'
  OBVIOUS
<1> USE FrontBounds
<1>0. /\ FrontTypeOK /\ RepoIsHeldOnce /\ OrphanIsAccounted /\ RepoBelongsToOneApp
      /\ \A r \in FReqs : RequestIsOfItsRow(r) /\ freq[r] \in FReq
      /\ \A a \in Fronts : a \in FrontIds /\ front[a] \in Front
      /\ stray \subseteq ServiceIds
  BY FrontsAreTyped DEF FrontInv, FrontTypeOK, FrontendsAreAccounted
\* Requests begin.
<1>1. ASSUME NEW r \in FReqs, NEW k \in FReq, Take(r, k), UNCHANGED <<front, fronts, frontEnv, frontCfg, stray>>,
             k.pc \in {"generate", "generate_again", "deploy", "archive"},
             k.pc # "generate" => k.app \in Fronts,
             k.pc = "generate_again" => k.slug = front[k.app].slug /\ ~front[k.app].repo
      PROVE  FrontInv'
  <2>1. freq' \in [FReqs -> FReq] /\ freq'[r] = k /\ \A q \in FReqs \ {r} : freq'[q] = freq[q]
    BY <1>0, <1>1, FrontBecomes DEF Take
  <2>2. ~HoldsRepo(r)' /\ \A v \in ServiceIds : ~InHands(r, v)
    BY <1>1, <2>1 DEF HoldsRepo, InHands, Take, Waits
  <2>3. RequestIsOfItsRow(r)'
    BY <1>1, <2>1 DEF RequestIsOfItsRow, Retries, Fronts
  <2> QED
    BY <1>0, <1>1, <2>1, <2>2, <2>3, FrontWaits DEF frontEnv
<1>2. ASSUME NEW r \in FReqs, NEW s \in Slugs, BeginCreate(r, s) PROVE FrontInv'
  <2> DEFINE k == [FReqIdle EXCEPT !.pc = "generate", !.slug = s, !.deployed = template = "deployed"]
  <2>1. k \in FReq /\ k.pc = "generate"
    BY FReqIdleIsTyped DEF FReq
  <2>2. Take(r, k)
    BY <1>2 DEF BeginCreate
  <2> HIDE DEF k
  <2> QED
    BY <1>1, <1>2, <2>1, <2>2 DEF BeginCreate
<1>3. ASSUME NEW r \in FReqs, NEW a \in FrontIds, BeginRetry(r, a) PROVE FrontInv'
  <2> DEFINE k == [FReqIdle EXCEPT !.pc = "generate_again", !.app = a, !.slug = front[a].slug]
  <2>1. a \in Fronts /\ front[a] \in Front /\ front[a].status = "failed"
    BY <1>0, <1>3 DEF BeginRetry, RetryIf, LiveFronts
  <2>2. k \in FReq /\ k.pc = "generate_again" /\ k.app = a /\ k.slug = front[a].slug
    BY <2>1, FReqIdleIsTyped DEF FReq, Front
  <2>3. Take(r, k)
    BY <1>3 DEF BeginRetry, RetryIf
  <2>4. ~front[a].repo
    BY <1>0, <2>1 DEF RepoIsHeldOnce
  <2> HIDE DEF k
  <2> QED
    BY <1>1, <1>3, <2>1, <2>2, <2>3, <2>4 DEF BeginRetry, RetryIf
<1>4. ASSUME NEW r \in FReqs, NEW a \in FrontIds, BeginDeployRetry(r, a) PROVE FrontInv'
  <2> DEFINE k == [FReqIdle EXCEPT !.pc = "deploy", !.app = a, !.slug = front[a].slug,
                                   !.made = front[a].repo, !.deployed = template = "deployed"]
  <2>1. a \in Fronts /\ front[a] \in Front
    BY <1>0, <1>4 DEF BeginDeployRetry, LiveFronts
  <2>2. k \in FReq /\ k.pc = "deploy" /\ k.app = a
    BY <2>1, FReqIdleIsTyped DEF FReq, Front
  <2>3. Take(r, k)
    BY <1>4 DEF BeginDeployRetry
  <2> HIDE DEF k
  <2> QED
    BY <1>1, <1>4, <2>1, <2>2, <2>3 DEF BeginDeployRetry
<1>5. ASSUME NEW r \in FReqs, NEW a \in FrontIds, BeginDelete(r, a) PROVE FrontInv'
  <2> DEFINE k == [FReqIdle EXCEPT !.pc = "archive", !.app = a, !.slug = front[a].slug,
                                   !.made = front[a].repo, !.service = front[a].service]
  <2>1. a \in Fronts /\ front[a] \in Front
    BY <1>0, <1>5 DEF BeginDelete, LiveFronts
  <2>2. k \in FReq /\ k.pc = "archive" /\ k.app = a
    BY <2>1, FReqIdleIsTyped DEF FReq, Front
  <2>3. Take(r, k)
    BY <1>5 DEF BeginDelete
  <2> HIDE DEF k
  <2> QED
    BY <1>1, <1>5, <2>1, <2>2, <2>3 DEF BeginDelete
\* A request asks for its repository.
<1>6. ASSUME NEW r \in FReqs, Generate(r) PROVE FrontInv'
  <2>1. PICK next \in {"insert", "set_status"} :
          /\ CreateRepoFromTemplate(r, freq[r].slug, next)
          /\ freq[r].pc \in {"generate", "generate_again"} /\ (next = "set_status" <=> freq[r].pc = "generate_again")
    BY <1>6 DEF Generate, Waits
  <2>2. UNCHANGED <<front, fronts, service, services, template, connected, stray>>
    BY <1>6 DEF Generate, frontCfg
  <2> DEFINE s == freq[r].slug
  <2>3. PICK asked \in {"made", "lost", "refused"} :
          /\ asked # "refused" => repo[s] = "none"
          /\ repo' = IF asked = "refused" THEN repo ELSE [repo EXCEPT ![s] = "live"]
          /\ freq' = [freq EXCEPT ![r].pc = next, ![r].made = asked = "made"]
    BY <2>1 DEF CreateRepoFromTemplate
  <2> DEFINE k == [freq[r] EXCEPT !.pc = next, !.made = asked = "made"]
  <2>4. /\ k \in FReq /\ k.pc = next /\ k.app = freq[r].app /\ k.slug = s /\ k.overtaken = freq[r].overtaken
        /\ k.made => asked = "made"
    BY <1>0 DEF FReq
  <2>5. freq' = [freq EXCEPT ![r] = k]
    BY <1>0, <2>3 DEF FrontTypeOK
  <2>6. s \in Slugs
    BY <1>0 DEF FReq
  <2> HIDE DEF k, s
  <2>7. freq' \in [FReqs -> FReq] /\ freq'[r] = k /\ \A q \in FReqs \ {r} : freq'[q] = freq[q]
    BY <1>0, <2>4, <2>5, FrontBecomes
  <2>8. /\ repo' \in [Slugs -> {"none", "live", "archived"}]
        /\ \A t \in Slugs : repo[t] # "none" => repo'[t] # "none"
        /\ asked = "made" => repo[s] = "none" /\ repo'[s] = "live"
    BY <1>0, <2>3, <2>6 DEF FrontTypeOK
  <2>9. RequestIsOfItsRow(r)'
    BY <1>0, <2>1, <2>2, <2>4, <2>7 DEF RequestIsOfItsRow, Retries, Fronts, s
  <2>10. HoldsRepo(r)' => repo[freq'[r].slug] = "none" /\ repo'[freq'[r].slug] # "none"
    BY <2>4, <2>7, <2>8 DEF HoldsRepo
  <2>11. \A v \in ServiceIds : (OnRecord(v)' <=> OnRecord(v)) /\ ~InHands(r, v)
    BY <2>1, <2>2 DEF OnRecord, InHands, LiveFronts, Fronts
  <2> QED
    BY <1>0, <2>2, <2>7, <2>8, <2>9, <2>10, <2>11, FrontMoves DEF FrontTypeOK
\* A request goes on with its deployment, or ends.
<1>7. ASSUME NEW r \in FReqs, SetupSync(r) \/ AttemptDeploy(r) PROVE FrontInv'
  <2>1. UNCHANGED <<front, fronts, repo, service, services, frontCfg, stray>> /\ freq[r].pc \in {"sync", "deploy"}
    BY <1>7 DEF SetupSync, AttemptDeploy, Waits, frontEnv
  <2>2. freq[r].app \in Fronts
    BY <1>0, <2>1 DEF RequestIsOfItsRow
  <2>3. /\ freq' \in [FReqs -> FReq]
        /\ freq'[r].pc = "idle" \/ (freq'[r].pc \in {"deploy", "make_service", "fail_deploy"} /\ freq'[r].app = freq[r].app)
        /\ \A q \in FReqs \ {r} : freq'[q] = freq[q]
    <3>1. CASE Done(r)
      BY <1>0, <3>1, FrontCloses
    <3>2. CASE To(r, "deploy")
      BY <1>0, <3>2, FrontGoes
    <3>3. ASSUME NEW pc \in {"make_service", "fail_deploy"},
                 freq' = [freq EXCEPT ![r].pc = pc, ![r].made = FALSE, ![r].deployed = FALSE]
          PROVE  /\ freq' \in [FReqs -> FReq] /\ freq'[r].pc = pc /\ freq'[r].app = freq[r].app
                 /\ \A q \in FReqs \ {r} : freq'[q] = freq[q]
      <4> DEFINE k == [freq[r] EXCEPT !.pc = pc, !.made = FALSE, !.deployed = FALSE]
      <4>1. k \in FReq /\ k.pc = pc /\ k.app = freq[r].app
        BY <1>0 DEF FReq
      <4>2. freq' = [freq EXCEPT ![r] = k]
        BY <1>0, <3>3 DEF FrontTypeOK
      <4> HIDE DEF k
      <4> QED
        BY <1>0, <4>1, <4>2, FrontBecomes
    <3>4. Done(r) \/ To(r, "deploy") \/ \E pc \in {"make_service", "fail_deploy"} :
              freq' = [freq EXCEPT ![r].pc = pc, ![r].made = FALSE, ![r].deployed = FALSE]
      BY <1>7 DEF SetupSync, AttemptDeploy
    <3> QED
      BY <3>1, <3>2, <3>3, <3>4
  <2>4. RequestIsOfItsRow(r)' /\ ~HoldsRepo(r)' /\ \A v \in ServiceIds : ~InHands(r, v)
    BY <2>1, <2>2, <2>3 DEF RequestIsOfItsRow, HoldsRepo, InHands, Retries, Fronts
  <2> QED
    BY <1>0, <2>1, <2>3, <2>4, FrontWaits
<1>8. ASSUME NEW r \in FReqs, MakeService(r) PROVE FrontInv'
  <2>1. UNCHANGED <<front, fronts, repo, template, connected>> /\ Waits(r, "make_service") /\ CreateService(r)
    BY <1>8 DEF MakeService, frontCfg
  <2>2. freq[r].app \in Fronts
    BY <1>0, <2>1 DEF RequestIsOfItsRow, Waits
  <2> DEFINE n == services + 1
  <2>3. PICK asked \in {"made", "lost", "refused"} :
          /\ asked # "refused" => services < MaxServices
          /\ IF asked = "refused" THEN UNCHANGED <<service, services>>
             ELSE services' = n /\ service' = [service EXCEPT ![n] = freq[r].slug]
          /\ freq' = [freq EXCEPT ![r].pc = IF asked = "made" THEN "save_service" ELSE "fail_deploy",
                                  ![r].service = IF asked = "made" THEN n ELSE NoService]
          /\ stray' = IF asked = "lost" THEN stray \cup {n} ELSE stray
    BY <2>1 DEF CreateService
  <2>4. /\ asked # "refused" => n \in ServiceIds /\ n \in 0 .. MaxServices /\ n # NoService
        /\ freq[r].slug \in Slugs
    BY <1>0, <2>3 DEF FrontTypeOK, ServiceIds, NoService, FReq
  <2> DEFINE k == [freq[r] EXCEPT !.pc = IF asked = "made" THEN "save_service" ELSE "fail_deploy",
                                  !.service = IF asked = "made" THEN n ELSE NoService]
  <2>5. /\ k \in FReq /\ k.app = freq[r].app
        /\ asked = "made" => k.pc = "save_service" /\ k.service = n
        /\ asked # "made" => k.pc = "fail_deploy"
    BY <1>0, <2>4 DEF FReq
  <2>6. freq' = [freq EXCEPT ![r] = k]
    BY <1>0, <2>3 DEF FrontTypeOK
  <2> HIDE DEF k
  <2>7. freq' \in [FReqs -> FReq] /\ freq'[r] = k /\ \A q \in FReqs \ {r} : freq'[q] = freq[q]
    BY <1>0, <2>5, <2>6, FrontBecomes
  <2>8. /\ service' \in [ServiceIds -> Slugs \cup {"none"}] /\ services' \in 0 .. MaxServices
        /\ \A v \in ServiceIds : v # n \/ asked = "refused" => service'[v] = service[v]
    BY <1>0, <2>3, <2>4 DEF FrontTypeOK
  <2>9. stray \subseteq stray' /\ stray' \subseteq ServiceIds /\ (asked = "lost" => n \in stray')
    BY <1>0, <2>3, <2>4 DEF FrontTypeOK
  <2>10. \A v \in ServiceIds : (OnRecord(v)' <=> OnRecord(v)) /\ ~InHands(r, v) /\ (asked = "made" /\ v = n => InHands(r, v)')
    BY <2>1, <2>5, <2>7 DEF OnRecord, InHands, LiveFronts, Fronts, Waits
  <2>11. RequestIsOfItsRow(r)' /\ ~HoldsRepo(r)'
    BY <2>1, <2>2, <2>4, <2>5, <2>7 DEF RequestIsOfItsRow, HoldsRepo, Retries, Fronts
  <2>12. \A v \in ServiceIds : service'[v] # "none" =>
             /\ service[v] # "none" \/ InHands(r, v)' \/ v \in stray'
             /\ OnRecord(v) \/ InHands(r, v) => OnRecord(v)' \/ InHands(r, v)' \/ v \in stray'
    BY <2>8, <2>9, <2>10
  <2> HIDE DEF n
  <2> QED
    BY <1>0, <2>1, <2>7, <2>8, <2>9, <2>11, <2>12, FrontMoves DEF FrontTypeOK
<1>9. ASSUME NEW r \in FReqs, FailDeploy(r) \/ SaveService(r) \/ FinishDeploy(r) PROVE FrontInv'
  <2> DEFINE a == freq[r].app
             v == IF Waits(r, "fail_deploy") THEN NoService ELSE freq[r].service
  <2>1. a \in Fronts /\ v \in {NoService} \cup ServiceIds /\ freq[r].pc \in {"fail_deploy", "save_service", "finish"}
        /\ (freq[r].pc # "fail_deploy" => v \in ServiceIds)
    BY <1>0, <1>9 DEF FailDeploy, SaveService, FinishDeploy, RequestIsOfItsRow, Waits, FReq, NoService
  <2>2. PICK status \in {"pending", "provisioning", "ready", "failed"} : UpdateFrontendAppDeploy(a, v, status)
    BY <1>9 DEF FailDeploy, SaveService, FinishDeploy, RecordService, Waits
  <2>3. UNCHANGED <<fronts, frontEnv, frontCfg>>
    BY <1>9 DEF FailDeploy, SaveService, FinishDeploy, RecordService
  <2>4. /\ freq' \in [FReqs -> FReq] /\ \A q \in FReqs \ {r} : freq'[q] = freq[q]
        /\ freq'[r].pc = "idle" \/ (freq'[r].pc = "finish" /\ freq'[r].app = a /\ freq'[r].service = v /\ v # NoService)
    <3>1. Done(r) \/ (To(r, "finish") /\ freq[r].pc = "save_service" /\ v = freq[r].service /\ v # NoService)
      BY <1>9, <2>1 DEF FailDeploy, SaveService, FinishDeploy, Waits, ServiceIds, NoService
    <3> QED
      BY <1>0, <3>1, FrontCloses, FrontGoes
  <2>5. RequestIsOfItsRow(r)' /\ ~HoldsRepo(r)'
    BY <2>1, <2>3, <2>4 DEF RequestIsOfItsRow, HoldsRepo, Retries, Fronts
  <2>6. \A w \in ServiceIds : InHands(r, w) => w = v
    BY <2>1 DEF InHands, Waits
  <2>7. /\ stray \subseteq stray'
        /\ stray' \subseteq stray \cup ({front[a].service} \ {NoService}) \cup ({v} \ {NoService})
        /\ front[a].archived => v = NoService \/ v \in stray'
        /\ ~front[a].archived => front[a].service \in {NoService, v} \/ front[a].service \in stray'
    BY <1>9, <2>1 DEF FailDeploy, SaveService, FinishDeploy, RecordService, Waits, ServiceIds, NoService
  <2>8. stray' \subseteq ServiceIds
    BY <1>0, <2>1, <2>7 DEF Front
  <2>9. PICK b \in Fronts, w \in {NoService} \cup ServiceIds : b = a /\ w = v
    BY <2>1
  <2> HIDE DEF a, v
  <2> QED
    BY <2>2, <2>3, <2>4, <2>5, <2>6, <2>7, <2>8, <2>9, FrontDeploys
<1>10. ASSUME NEW r \in FReqs, ArchiveFrontendApp(r) PROVE FrontInv'
  <2>1. PICK a \in Fronts : a = freq[r].app
    BY <1>0, <1>10 DEF ArchiveFrontendApp, Waits, RequestIsOfItsRow
  <2>2. UNCHANGED <<fronts, repo, service, services, template, connected>> /\ freq[r].pc = "archive"
    BY <1>10 DEF ArchiveFrontendApp, frontEnv, frontCfg, Waits
  <2>3. CASE front[a].archived
    <3>1. Done(r) /\ UNCHANGED <<front, stray>>
      BY <1>10, <2>1, <2>3 DEF ArchiveFrontendApp
    <3>2. freq' \in [FReqs -> FReq] /\ freq'[r].pc = "idle" /\ \A q \in FReqs \ {r} : freq'[q] = freq[q]
      BY <1>0, <3>1, FrontCloses
    <3>3. RequestIsOfItsRow(r)' /\ ~HoldsRepo(r)' /\ \A v \in ServiceIds : ~InHands(r, v)
      BY <2>2, <3>2 DEF RequestIsOfItsRow, HoldsRepo, InHands, Retries
    <3> QED
      BY <1>0, <2>2, <3>1, <3>2, <3>3, FrontWaits DEF frontCfg
  <2>4. CASE ~front[a].archived
    <3>1. /\ To(r, "archive_repo")
          /\ front' = [front EXCEPT ![a].archived = TRUE]
          /\ stray' = stray \cup ({front[a].service} \ {NoService, freq[r].service})
      BY <1>10, <2>1, <2>4 DEF ArchiveFrontendApp
    <3>2. /\ freq' \in [FReqs -> FReq] /\ freq'[r].pc = "archive_repo" /\ freq'[r].app = a
          /\ freq'[r].service = freq[r].service /\ \A q \in FReqs \ {r} : freq'[q] = freq[q]
      BY <1>0, <2>1, <3>1, FrontGoes
    <3>3. /\ front' \in [FrontIds -> Front]
          /\ \A b \in Fronts : front'[b].slug = front[b].slug /\ front'[b].repo = front[b].repo /\ front'[b].status = front[b].status
          /\ \A b \in Fronts \ {a} : front'[b] = front[b]
      <4> DEFINE row == [front[a] EXCEPT !.archived = TRUE]
      <4>1. row \in Front /\ row.slug = front[a].slug /\ row.repo = front[a].repo /\ row.status = front[a].status
        BY <1>0 DEF Front
      <4>2. front' = [front EXCEPT ![a] = row]
        BY <1>0, <3>1 DEF FrontTypeOK
      <4> HIDE DEF row
      <4> QED
        BY <1>0, <4>1, <4>2 DEF FrontTypeOK
    <3>4. RequestIsOfItsRow(r)' /\ ~HoldsRepo(r)' /\ \A v \in ServiceIds : ~InHands(r, v)
      BY <2>2, <3>2 DEF RequestIsOfItsRow, HoldsRepo, InHands, Retries, Fronts
    <3>5. stray \subseteq stray' /\ stray' \subseteq ServiceIds
      BY <1>0, <3>1 DEF Front
    <3>6. ASSUME NEW v \in ServiceIds, OnRecord(v) PROVE OnRecord(v)' \/ InHands(r, v)' \/ v \in stray'
      <4>1. PICK b \in LiveFronts : front[b].service = v
        BY <3>6 DEF OnRecord
      <4>2. CASE b # a
        BY <2>2, <3>3, <4>1, <4>2 DEF OnRecord, LiveFronts, Fronts
      <4>3. CASE b = a
        BY <3>1, <3>2, <4>1, <4>3 DEF InHands, ServiceIds, NoService
      <4> QED
        BY <4>2, <4>3
    <3> QED
      BY <1>0, <2>2, <3>2, <3>3, <3>4, <3>5, <3>6, FrontMoves DEF FrontTypeOK
  <2> QED
    BY <2>3, <2>4
<1>11. ASSUME NEW r \in FReqs, ArchiveRepo(r) PROVE FrontInv'
  <2>1. UNCHANGED <<front, fronts, service, services, template, connected, stray>> /\ freq[r].pc = "archive_repo" /\ To(r, "drop_service")
    BY <1>11 DEF ArchiveRepo, frontCfg, Waits
  <2>2. /\ freq' \in [FReqs -> FReq] /\ freq'[r].pc = "drop_service" /\ freq'[r].app = freq[r].app
        /\ freq'[r].service = freq[r].service /\ \A q \in FReqs \ {r} : freq'[q] = freq[q]
    BY <1>0, <2>1, FrontGoes
  <2>3. repo' \in [Slugs -> {"none", "live", "archived"}] /\ \A s \in Slugs : repo[s] # "none" => repo'[s] # "none"
    BY <1>0, <1>11 DEF ArchiveRepo, FrontTypeOK, FReq
  <2>4. RequestIsOfItsRow(r)' /\ ~HoldsRepo(r)' /\ \A v \in ServiceIds : InHands(r, v) => InHands(r, v)'
    BY <1>0, <2>1, <2>2 DEF RequestIsOfItsRow, HoldsRepo, InHands, Retries, Fronts
  <2>5. \A v \in ServiceIds : OnRecord(v)' <=> OnRecord(v)
    BY <2>1 DEF OnRecord, LiveFronts, Fronts
  <2> QED
    BY <1>0, <2>1, <2>2, <2>3, <2>4, <2>5, FrontMoves DEF FrontTypeOK
<1>12. ASSUME NEW r \in FReqs, DropService(r) PROVE FrontInv'
  <2>1. UNCHANGED <<front, fronts, repo, services, template, connected>> /\ Done(r)
    BY <1>12 DEF DropService, frontCfg
  <2>2. freq' \in [FReqs -> FReq] /\ freq'[r].pc = "idle" /\ \A q \in FReqs \ {r} : freq'[q] = freq[q]
    BY <1>0, <2>1, FrontCloses
  <2>3. /\ service' \in [ServiceIds -> Slugs \cup {"none"}] /\ stray \subseteq stray' /\ stray' \subseteq ServiceIds
        /\ \A v \in ServiceIds : service'[v] # "none" => service[v] # "none" /\ (InHands(r, v) => v \in stray')
    <3>1. freq[r].service \in {NoService} \cup ServiceIds /\ \A v \in ServiceIds : v # NoService
      BY <1>0 DEF FReq, ServiceIds, NoService
    <3>2. CASE freq[r].service # NoService /\ service' = [service EXCEPT ![freq[r].service] = "none"] /\ UNCHANGED stray
      BY <1>0, <3>1, <3>2 DEF FrontTypeOK, InHands
    <3>3. CASE stray' = stray \cup ({freq[r].service} \ {NoService}) /\ UNCHANGED service
      BY <1>0, <3>1, <3>3 DEF FrontTypeOK, InHands
    <3> QED
      BY <1>12, <3>2, <3>3 DEF DropService
  <2>4. RequestIsOfItsRow(r)' /\ ~HoldsRepo(r)'
    BY <2>2 DEF RequestIsOfItsRow, HoldsRepo, Retries
  <2>5. \A v \in ServiceIds : OnRecord(v)' <=> OnRecord(v)
    BY <2>1 DEF OnRecord, LiveFronts, Fronts
  <2> QED
    BY <1>0, <2>1, <2>2, <2>3, <2>4, <2>5, FrontMoves DEF FrontTypeOK
<1>13. ASSUME NEW r \in FReqs, AbandonFront(r) PROVE FrontInv'
  <2>1. UNCHANGED <<front, fronts, repo, service, services, frontCfg>> /\ Done(r)
    BY <1>13 DEF AbandonFront, frontEnv
  <2>2. freq' \in [FReqs -> FReq] /\ freq'[r].pc = "idle" /\ \A q \in FReqs \ {r} : freq'[q] = freq[q]
    BY <1>0, <2>1, FrontCloses
  <2>3. stray \subseteq stray' /\ stray' \subseteq ServiceIds /\ \A v \in ServiceIds : InHands(r, v) => v \in stray'
    <3>1. freq[r].service \in {NoService} \cup ServiceIds /\ \A v \in ServiceIds : v # NoService
      BY <1>0 DEF FReq, ServiceIds, NoService
    <3>2. stray' = stray \cup IF freq[r].pc \in {"save_service", "archive_repo", "drop_service"}
                             THEN {freq[r].service} \ {NoService} ELSE {}
      BY <1>13 DEF AbandonFront
    <3> QED
      BY <1>0, <3>1, <3>2 DEF InHands
  <2>4. RequestIsOfItsRow(r)' /\ ~HoldsRepo(r)'
    BY <2>2 DEF RequestIsOfItsRow, HoldsRepo, Retries
  <2> QED
    BY <2>1, <2>2, <2>3, <2>4, FrontWaits
\* A row is inserted.
<1>14. ASSUME NEW r \in FReqs, CreateFrontendApp(r) PROVE FrontInv'
  <2>1. UNCHANGED <<repo, service, services, template, connected, stray>> /\ freq[r].pc = "insert" /\ fronts < MaxFronts
    BY <1>14 DEF CreateFrontendApp, Waits, frontEnv, frontCfg
  <2>2. CASE SlugExists(freq[r].slug)
    <3>1. Done(r) /\ UNCHANGED <<front, fronts>>
      BY <1>14, <2>2 DEF CreateFrontendApp
    <3>2. freq' \in [FReqs -> FReq] /\ freq'[r].pc = "idle" /\ \A q \in FReqs \ {r} : freq'[q] = freq[q]
      BY <1>0, <3>1, FrontCloses
    <3>3. RequestIsOfItsRow(r)' /\ ~HoldsRepo(r)' /\ \A v \in ServiceIds : ~InHands(r, v)
      BY <2>1, <3>2 DEF RequestIsOfItsRow, HoldsRepo, InHands, Retries
    <3> QED
      BY <1>0, <2>1, <3>1, <3>2, <3>3, FrontWaits DEF frontCfg
  <2>3. CASE ~SlugExists(freq[r].slug)
    <3> DEFINE n == fronts + 1
               q == freq[r]
               row == NewFront(q.slug, q.made)
    <3>1. /\ fronts' = n /\ front' = [front EXCEPT ![n] = row]
          /\ freq' = [freq EXCEPT ![r] = IF q.made THEN [q EXCEPT !.pc = "sync", !.app = n] ELSE FReqIdle]
      BY <1>14, <2>3 DEF CreateFrontendApp
    <3>2. n \in FrontIds /\ n \in 0 .. MaxFronts /\ Fronts' = Fronts \cup {n} /\ n \notin Fronts
      BY <1>0, <2>1, <3>1 DEF FrontTypeOK, FrontIds, Fronts
    <3>3. /\ row \in Front /\ row.slug = q.slug /\ row.repo = q.made /\ row.service = NoService
          /\ row.repo => row.status = "ready"
      BY <1>0 DEF NewFront, Front, FReq
    <3>4. /\ freq' \in [FReqs -> FReq] /\ \A p \in FReqs \ {r} : freq'[p] = freq[p]
          /\ freq'[r].pc = "idle" \/ (freq'[r].pc = "sync" /\ freq'[r].app = n)
      <4> DEFINE k == [q EXCEPT !.pc = "sync", !.app = n]
      <4>1. k \in FReq /\ k.pc = "sync" /\ k.app = n
        BY <1>0, <3>2 DEF FReq
      <4>2. freq' = [freq EXCEPT ![r] = k] \/ Done(r)
        BY <3>1 DEF Done
      <4> HIDE DEF k, n, q
      <4> QED
        BY <1>0, <4>1, <4>2, FrontBecomes, FrontCloses
    <3> HIDE DEF row
    <3>5. /\ front' \in [FrontIds -> Front] /\ front'[n] = row
          /\ \A a \in Fronts : front'[a] = front[a]
      BY <1>0, <3>1, <3>2, <3>3 DEF FrontTypeOK
    <3>6. FrontTypeOK'
      BY <1>0, <2>1, <3>1, <3>2, <3>4, <3>5 DEF FrontTypeOK
    <3>7. \A p \in FReqs : freq[p].slug \in Slugs
      BY <1>0 DEF FReq
    <3>8. q.made => /\ repo[q.slug] # "none"
                    /\ \A a \in Fronts : front[a].repo => front[a].slug # q.slug
                    /\ \A p \in FReqs \ {r} : HoldsRepo(p) => freq[p].slug # q.slug
      BY <1>0, <2>1 DEF RepoIsHeldOnce, HoldsRepo
    <3> HIDE DEF n, q
    <3>9. ASSUME NEW p \in FReqs PROVE RequestIsOfItsRow(p)'
      <4>1. CASE p = r
        BY <3>2, <3>4, <4>1 DEF RequestIsOfItsRow, Retries
      <4>2. CASE p # r
        <5>1. RequestIsOfItsRow(p) /\ freq'[p] = freq[p] /\ (Retries(p)' <=> Retries(p))
          BY <1>0, <3>4, <4>2 DEF Retries
        <5>2. Retries(p) => freq[p].app \in Fronts
          BY <5>1 DEF Retries, RequestIsOfItsRow
        <5> QED
          BY <3>2, <3>5, <5>1, <5>2 DEF RequestIsOfItsRow
      <4> QED
        BY <4>1, <4>2
    <3>10. ~HoldsRepo(r)' /\ \A p \in FReqs \ {r} : HoldsRepo(p)' <=> HoldsRepo(p)
      BY <3>4 DEF HoldsRepo
    <3>11. RepoIsHeldOnce'
      <4>1. \A a \in Fronts' : front'[a].repo => repo'[front'[a].slug] # "none" /\ front'[a].status = "ready"
        BY <1>0, <2>1, <3>2, <3>3, <3>5, <3>8 DEF RepoIsHeldOnce
      <4>2. \A p \in FReqs : HoldsRepo(p)' => repo'[freq'[p].slug] # "none"
        BY <1>0, <2>1, <3>4, <3>10 DEF RepoIsHeldOnce
      <4>3. ASSUME NEW p \in FReqs, HoldsRepo(p)', NEW a \in Fronts', front'[a].repo PROVE front'[a].slug # freq'[p].slug
        BY <1>0, <3>2, <3>3, <3>4, <3>5, <3>8, <3>10, <4>3 DEF RepoIsHeldOnce
      <4>4. ASSUME NEW p \in FReqs, HoldsRepo(p)', NEW u \in FReqs \ {p}, HoldsRepo(u)' PROVE freq'[u].slug # freq'[p].slug
        BY <1>0, <3>4, <3>10, <4>4 DEF RepoIsHeldOnce
      <4> QED
        BY <4>1, <4>2, <4>3, <4>4 DEF RepoIsHeldOnce
    <3>12. OrphanIsAccounted'
      <4>1. ASSUME NEW v \in ServiceIds, OnRecord(v) PROVE OnRecord(v)'
        BY <3>2, <3>5, <4>1 DEF OnRecord, LiveFronts
      <4>2. ASSUME NEW v \in ServiceIds, NEW p \in FReqs, InHands(p, v) PROVE InHands(p, v)'
        BY <2>1, <3>4, <4>2 DEF InHands
      <4> QED
        BY <1>0, <2>1, <4>1, <4>2 DEF OrphanIsAccounted, OnRecord, InHands
    <3>13. RepoBelongsToOneApp'
      BY <1>0, <3>2, <3>3, <3>5, <3>8 DEF RepoBelongsToOneApp
    <3> QED
      BY <3>6, <3>9, <3>11, <3>12, <3>13 DEF FrontInv, FrontendsAreAccounted
  <2> QED
    BY <2>2, <2>3
\* The answer to a Retry is written, and the other Retries of the row are overtaken.
<1>15. ASSUME NEW r \in FReqs, UpdateFrontendAppStatus(r) PROVE FrontInv'
  <2>1. UNCHANGED <<fronts, repo, service, services, template, connected, stray>> /\ freq[r].pc = "set_status" /\ DoneOver(r)
    BY <1>15 DEF UpdateFrontendAppStatus, Waits, frontEnv, frontCfg
  <2>2. PICK a \in Fronts : a = freq[r].app /\ freq[r].slug = front[a].slug
    BY <1>0, <2>1 DEF RequestIsOfItsRow, Retries
  <2>3. Fronts' = Fronts
    BY <2>1 DEF Fronts
  <2>4. /\ freq' \in [FReqs -> FReq] /\ freq'[r].pc = "idle"
        /\ \A q \in FReqs \ {r} :
             /\ freq'[q].pc = freq[q].pc /\ freq'[q].app = freq[q].app /\ freq'[q].slug = freq[q].slug
             /\ freq'[q].made = freq[q].made /\ freq'[q].service = freq[q].service
             /\ Retries(q) /\ (freq[q].overtaken \/ freq[q].app = a) => freq'[q].overtaken
    BY <1>0, <2>1, <2>2, OvertakenIsMarked
  <2> DEFINE row == [front[a] EXCEPT !.status = IF freq[r].made THEN "ready" ELSE "failed", !.repo = freq[r].made]
  <2>5. /\ row \in Front /\ row.slug = front[a].slug /\ row.repo = freq[r].made /\ row.service = front[a].service
        /\ row.archived = front[a].archived /\ (row.repo => row.status = "ready")
    BY <1>0 DEF Front, FReq
  <2>6. (front[a].archived /\ front' = front) \/ (~front[a].archived /\ front' = [front EXCEPT ![a] = row])
    BY <1>15, <2>2 DEF UpdateFrontendAppStatus, UpdateFrontend
  <2> HIDE DEF row
  <2>7. /\ front' \in [FrontIds -> Front]
        /\ front'[a] = front[a] \/ front'[a] = row
        /\ \A b \in Fronts \ {a} : front'[b] = front[b]
    BY <1>0, <2>5, <2>6 DEF FrontTypeOK
  <2>8. /\ \A b \in Fronts : front'[b].slug = front[b].slug /\ front'[b].service = front[b].service /\ front'[b].archived = front[b].archived
        /\ \A b \in Fronts \ {a} : front'[b].repo = front[b].repo /\ front'[b].status = front[b].status
        /\ front'[a].repo => front[a].repo \/ freq[r].made
        /\ front'[a].repo => front'[a].status = "ready" \/ front'[a] = front[a]
    BY <2>5, <2>7
  <2>9. FrontTypeOK'
    BY <1>0, <2>1, <2>4, <2>7 DEF FrontTypeOK
  <2>10. ASSUME NEW q \in FReqs PROVE RequestIsOfItsRow(q)'
    <3>1. CASE q = r
      BY <2>4, <3>1 DEF RequestIsOfItsRow, Retries
    <3>2. CASE q # r
      <4>1. RequestIsOfItsRow(q) /\ (Retries(q)' <=> Retries(q)) /\ freq'[q].pc = freq[q].pc /\ freq'[q].app = freq[q].app
        BY <1>0, <2>4, <3>2 DEF Retries
      <4>2. Retries(q) => freq[q].app \in Fronts
        BY <4>1 DEF Retries, RequestIsOfItsRow
      <4>3. Retries(q) => freq'[q].slug = front'[freq'[q].app].slug
        BY <2>4, <2>8, <3>2, <4>1, <4>2 DEF RequestIsOfItsRow
      <4>4. Retries(q) /\ front'[freq'[q].app].repo => freq'[q].overtaken
        BY <2>4, <2>8, <3>2, <4>1, <4>2 DEF RequestIsOfItsRow
      <4>5. /\ freq'[q].pc \notin {"idle", "generate", "insert"} => freq'[q].app \in Fronts'
            /\ freq'[q].pc \in {"save_service", "finish"} => freq'[q].service # NoService
        BY <2>3, <2>4, <3>2, <4>1 DEF RequestIsOfItsRow
      <4> QED
        BY <4>1, <4>3, <4>4, <4>5 DEF RequestIsOfItsRow
    <3> QED
      BY <3>1, <3>2
  <2>11. ~HoldsRepo(r)' /\ \A q \in FReqs \ {r} : HoldsRepo(q)' <=> HoldsRepo(q)
    BY <2>4 DEF HoldsRepo
  <2>12. freq[r].made => /\ repo[front[a].slug] # "none"
                         /\ \A b \in Fronts : front[b].repo => front[b].slug # front[a].slug
                         /\ \A q \in FReqs \ {r} : HoldsRepo(q) => freq[q].slug # front[a].slug
    BY <1>0, <2>1, <2>2 DEF RepoIsHeldOnce, HoldsRepo
  <2>13. RepoIsHeldOnce'
    <3>1. \A b \in Fronts' : front'[b].repo => repo'[front'[b].slug] # "none" /\ front'[b].status = "ready"
      BY <1>0, <2>1, <2>3, <2>8, <2>12 DEF RepoIsHeldOnce
    <3>2. \A q \in FReqs : HoldsRepo(q)' => repo'[freq'[q].slug] # "none"
      BY <1>0, <2>1, <2>4, <2>11 DEF RepoIsHeldOnce
    <3>3. ASSUME NEW q \in FReqs, HoldsRepo(q)', NEW b \in Fronts, front'[b].repo PROVE front'[b].slug # freq'[q].slug
      BY <1>0, <2>4, <2>8, <2>11, <2>12, <3>3 DEF RepoIsHeldOnce
    <3>4. ASSUME NEW q \in FReqs, HoldsRepo(q)', NEW p \in FReqs \ {q}, HoldsRepo(p)' PROVE freq'[p].slug # freq'[q].slug
      BY <1>0, <2>4, <2>11, <3>4 DEF RepoIsHeldOnce
    <3> QED
      BY <2>3, <3>1, <3>2, <3>3, <3>4 DEF RepoIsHeldOnce
  <2>14. OrphanIsAccounted'
    <3>1. ASSUME NEW v \in ServiceIds, OnRecord(v) PROVE OnRecord(v)'
      BY <2>3, <2>8, <3>1 DEF OnRecord, LiveFronts
    <3>2. ASSUME NEW v \in ServiceIds, NEW q \in FReqs, InHands(q, v) PROVE InHands(q, v)'
      BY <2>1, <2>4, <3>2 DEF InHands
    <3> QED
      BY <1>0, <2>1, <3>1, <3>2 DEF OrphanIsAccounted, OnRecord, InHands
  <2>15. RepoBelongsToOneApp'
    BY <1>0, <2>3, <2>8, <2>12 DEF RepoBelongsToOneApp
  <2> QED
    BY <2>9, <2>10, <2>13, <2>14, <2>15 DEF FrontInv, FrontendsAreAccounted
\* The configuration changes, or nothing does.
<1>16. CASE UNCHANGED <<front, fronts, repo, service, services, freq, stray>>
            /\ template' \in {"off", "plain", "deployed"} /\ connected' \in [github : BOOLEAN, render : BOOLEAN]
  <2>1. FrontTypeOK'
    BY <1>0, <1>16 DEF FrontTypeOK
  <2>2. \A r \in FReqs : RequestIsOfItsRow(r)'
    BY <1>0, <1>16 DEF RequestIsOfItsRow, Retries, Fronts
  <2>3. RepoIsHeldOnce'
    BY <1>0, <1>16 DEF RepoIsHeldOnce, HoldsRepo, Fronts
  <2>4. OrphanIsAccounted' /\ RepoBelongsToOneApp'
    BY <1>0, <1>16 DEF OrphanIsAccounted, RepoBelongsToOneApp, LiveFronts, Fronts
  <2> QED
    BY <2>1, <2>2, <2>3, <2>4 DEF FrontInv, FrontendsAreAccounted
<1>17. CASE \/ \E t \in {"off", "plain", "deployed"} : SetTemplate(t)
            \/ \E on \in [github : BOOLEAN, render : BOOLEAN] : SetConnected(on)
            \/ UNCHANGED frontVars
  BY <1>0, <1>16, <1>17 DEF SetTemplate, SetConnected, frontVars, frontEnv, frontCfg, FrontTypeOK
<1> QED
  BY <1>2, <1>3, <1>4, <1>5, <1>6, <1>7, <1>8, <1>9, <1>10, <1>11, <1>12, <1>13, <1>14, <1>15, <1>17 DEF FrontNext, FrontStep

\* The invariant holds where nothing was deployed.
LEMMA FrontStart == FrontInit => FrontInv
<1> SUFFICES ASSUME FrontInit PROVE FrontInv
  OBVIOUS
<1>1. FrontTypeOK
  <2>1. NewFront(CHOOSE s \in Slugs : TRUE, FALSE) \in Front
    BY FReqIdleIsTyped DEF NewFront, Front, NoService
  <2>2. fronts \in 0 .. MaxFronts /\ services \in 0 .. MaxServices
    BY FrontBounds DEF FrontInit
  <2>3. front \in [FrontIds -> Front] /\ freq \in [FReqs -> FReq]
    BY <2>1, FReqIdleIsTyped DEF FrontInit
  <2>4. repo \in [Slugs -> {"none", "live", "archived"}] /\ service \in [ServiceIds -> Slugs \cup {"none"}]
    BY DEF FrontInit
  <2>5. template \in {"off", "plain", "deployed"} /\ connected \in [github : BOOLEAN, render : BOOLEAN] /\ stray \subseteq ServiceIds
    BY DEF FrontInit
  <2> QED
    BY <2>2, <2>3, <2>4, <2>5 DEF FrontTypeOK
<1>2. Fronts = {} /\ \A r \in FReqs : freq[r].pc = "idle"
  BY FReqIdleIsTyped DEF FrontInit, Fronts
<1>3. \A r \in FReqs : RequestIsOfItsRow(r)
  BY <1>2 DEF RequestIsOfItsRow, Retries
<1>4. RepoIsHeldOnce /\ RepoBelongsToOneApp
  BY <1>2 DEF RepoIsHeldOnce, HoldsRepo, RepoBelongsToOneApp
<1>5. OrphanIsAccounted
  BY DEF FrontInit, OrphanIsAccounted
<1> QED
  BY <1>1, <1>3, <1>4, <1>5 DEF FrontInv, FrontendsAreAccounted

\* However deployments, retries and deletions interleave, fail and die, no service is left that
\* nobody accounts for and no repository belongs to two apps.
THEOREM FrontsAccounted == FrontSpec => []FrontendsAreAccounted
<1>1. FrontInv => FrontendsAreAccounted
  BY DEF FrontInv
<1> QED
  BY <1>1, FrontStart, FrontStepInv, PTL DEF FrontSpec

\* An app loses its repository to a Retry alone, one that read the row before it had it.
THEOREM RepoLosses == FrontSpec => RepoLossIsARace
<1> DEFINE Loses(a) == /\ a \in LiveFronts /\ front[a].repo /\ ~front'[a].repo
                       /\ ~\E r \in FReqs : Waits(r, "set_status") /\ freq[r].app = a /\ freq[r].overtaken
<1>1. ASSUME FrontInv, FrontInv', FrontNext, NEW a \in FrontIds PROVE ~Loses(a)
  <2> SUFFICES ASSUME a \in LiveFronts, front[a].repo, ~front'[a].repo
               PROVE  \E r \in FReqs : Waits(r, "set_status") /\ freq[r].app = a /\ freq[r].overtaken
    OBVIOUS
  <2>0. a \in Fronts /\ FrontTypeOK /\ front[a] \in Front
    BY <1>1, FrontsAreTyped DEF LiveFronts, FrontInv
  <2>1. ASSUME NEW r \in FReqs, UpdateFrontendAppStatus(r) PROVE freq[r].app = a /\ freq[r].overtaken /\ Waits(r, "set_status")
    <3>1. freq[r].app = a
      BY <2>0, <2>1 DEF UpdateFrontendAppStatus, UpdateFrontend, FrontTypeOK
    <3> QED
      BY <1>1, <2>1, <3>1 DEF UpdateFrontendAppStatus, Waits, FrontInv, RequestIsOfItsRow, Retries
  <2>2. ASSUME NEW b, NEW v, NEW status, UpdateFrontendAppDeploy(b, v, status) PROVE front'[a].repo = front[a].repo
    BY <2>0, <2>2 DEF UpdateFrontendAppDeploy, UpdateFrontend, FrontTypeOK, Front
  <2>3. ASSUME NEW r \in FReqs, FailDeploy(r) \/ SaveService(r) \/ FinishDeploy(r) PROVE FALSE
    BY <2>2, <2>3 DEF FailDeploy, SaveService, FinishDeploy, RecordService
  <2>4. ASSUME NEW r \in FReqs, ArchiveFrontendApp(r) PROVE FALSE
    <3>1. front' = front \/ front' = [front EXCEPT ![freq[r].app].archived = TRUE]
      BY <2>4 DEF ArchiveFrontendApp
    <3> QED
      BY <2>0, <3>1 DEF FrontTypeOK, Front
  <2>5. ASSUME NEW r \in FReqs, CreateFrontendApp(r) PROVE FALSE
    <3>1. front' = front \/ \E row : front' = [front EXCEPT ![fronts + 1] = row]
      BY <2>5 DEF CreateFrontendApp
    <3>2. a # fronts + 1
      BY <2>0 DEF Fronts, FrontTypeOK
    <3> QED
      BY <2>0, <3>1, <3>2 DEF FrontTypeOK
  <2>6. CASE front' = front
    BY <2>6
  <2>7. front' = front \/ \E r \in FReqs : \/ UpdateFrontendAppStatus(r) \/ FailDeploy(r) \/ SaveService(r) \/ FinishDeploy(r)
                                           \/ ArchiveFrontendApp(r) \/ CreateFrontendApp(r)
    BY <1>1 DEF FrontNext, FrontStep, SetTemplate, SetConnected, BeginCreate, BeginRetry, RetryIf, BeginDeployRetry, BeginDelete,
                Generate, SetupSync, AttemptDeploy, MakeService, ArchiveRepo, DropService, AbandonFront
  <2> QED
    BY <2>1, <2>3, <2>4, <2>5, <2>6, <2>7
<1>2. FrontInv /\ [FrontNext]_frontVars =>
        [\A a \in FrontIds : a \in LiveFronts /\ front[a].repo /\ ~front'[a].repo
          => \E r \in FReqs : Waits(r, "set_status") /\ freq[r].app = a /\ freq[r].overtaken]_frontVars
  BY <1>1, FrontStepInv
<1> QED
  BY <1>2, FrontStart, FrontStepInv, PTL DEF FrontSpec, RepoLossIsARace

-----------------------------------------------------------------------------
(* Deploy keys. Keys are numbered in the order in which GitHub gets them,  *)
(* so the key a request is about to save is no other one's, and is neither *)
(* the one on record nor the one that any request replaces: it can neither *)
(* be revoked by mistake nor be saved twice.                               *)

\* Keys are numbered in the order in which GitHub gets them.
KeysAreMade ==
    /\ cred.key \in 0 .. keysMade /\ (cred.status = "ready" => cred.key # NoKey)
    /\ hubKeys \subseteq 1 .. keysMade
    /\ \A r \in KReqs : kreq[r].old \in 0 .. keysMade /\ kreq[r].key \in 0 .. keysMade

\* A key that a request is about to save opens the repository and is that request's alone.
SavedKeyIsFresh(r) ==
    KeyAt(r, "save") =>
        /\ kreq[r].key \in hubKeys
        /\ kreq[r].key # cred.key
        /\ \A s \in KReqs : kreq[s].old # kreq[r].key
        /\ \A s \in KReqs \ {r} : KeyAt(s, "save") => kreq[s].key # kreq[r].key

\* A key that a request set out to replace is gone from GitHub, or known to be left there;
\* one that is revoked with its app is of an archived app.
OldKeyIsRevoked(r) ==
    /\ kreq[r].pc \in {"add", "save", "fail"} => kreq[r].old \notin hubKeys \/ kreq[r].old \in strayKeys
    /\ KeyAt(r, "drop") => appGone

\* The inductive invariant.
KeyInv ==
    /\ KeyTypeOK
    /\ KeysAreMade
    /\ \A r \in KReqs : SavedKeyIsFresh(r) /\ OldKeyIsRevoked(r)
    /\ DeployKeysAgree

-----------------------------------------------------------------------------
\* The record of one request changes.
LEMMA KeyBecomes ==
    ASSUME NEW r \in KReqs, NEW q \in KReq, KeyTypeOK, kreq' = [kreq EXCEPT ![r] = q]
    PROVE  /\ kreq' \in [KReqs -> KReq]
           /\ kreq'[r] = q
           /\ \A s \in KReqs \ {r} : kreq'[s] = kreq[s]
BY DEF KeyTypeOK

\* A request goes on to another record, and the rest stay.
LEMMA KeyMoves ==
    ASSUME NEW r \in KReqs, NEW pc \in {"add", "fail"}, KeyTypeOK, KeyTo(r, pc)
    PROVE  /\ kreq' \in [KReqs -> KReq]
           /\ kreq'[r].pc = pc /\ kreq'[r].old = kreq[r].old /\ kreq'[r].key = kreq[r].key
           /\ \A s \in KReqs \ {r} : kreq'[s] = kreq[s]
<1>1. kreq[r] \in KReq
  BY DEF KeyTypeOK
<1>2. [kreq[r] EXCEPT !.pc = pc] \in KReq
  BY <1>1 DEF KReq
<1> QED
  BY <1>1, <1>2 DEF KeyTypeOK, KeyTo, KReq

\* A request ends.
LEMMA KeyEnds ==
    ASSUME NEW r \in KReqs, KeyTypeOK, KeyDone(r)
    PROVE  /\ kreq' \in [KReqs -> KReq]
           /\ kreq'[r].pc = "idle" /\ kreq'[r].old = NoKey /\ kreq'[r].key = NoKey
           /\ \A s \in KReqs \ {r} : kreq'[s] = kreq[s]
<1>1. KReqIdle \in KReq
  BY DEF KReqIdle, KReq, KeyOrNone
<1> QED
  BY <1>1, KeyBecomes DEF KeyDone, KReqIdle

\* What the invariant says of one request and of the row.
LEMMA KeyFacts ==
    ASSUME KeyInv, NEW r \in KReqs
    PROVE  /\ kreq[r] \in KReq /\ kreq[r].old \in KeyOrNone /\ kreq[r].key \in KeyOrNone
           /\ kreq[r].pc \in {"idle", "revoke", "add", "save", "fail", "archive", "drop"}
           /\ cred.key \in KeyOrNone /\ keysMade \in Nat /\ cred \in Cred
           /\ SavedKeyIsFresh(r) /\ OldKeyIsRevoked(r)
BY KeyBounds DEF KeyInv, KeyTypeOK, KReq, Cred

\* Every step keeps the inductive invariant.
LEMMA KeyStepInv == KeyInv /\ [KeyNext]_keyVars => KeyInv'
<1> SUFFICES ASSUME KeyInv, [KeyNext]_keyVars PROVE KeyInv'
  OBVIOUS
<1> USE KeyBounds
<1>0. /\ KeyTypeOK /\ KeysAreMade /\ StrayKeyIsAccounted /\ RevealedKeyWorks
      /\ \A s \in KReqs : SavedKeyIsFresh(s) /\ OldKeyIsRevoked(s)
  BY DEF KeyInv, DeployKeysAgree
<1>1. ASSUME NEW r \in KReqs, CreateSyncCredential(r) PROVE KeyInv'
  <2>1. /\ kreq' \in [KReqs -> KReq]
        /\ \/ UNCHANGED kreq
           \/ kreq[r].pc = "idle" /\ kreq'[r].pc = "add" /\ kreq'[r].old = NoKey /\ kreq'[r].key = NoKey
        /\ \A s \in KReqs \ {r} : kreq'[s] = kreq[s]
    <3>1. CASE hubOn
      <4> DEFINE q == [KReqIdle EXCEPT !.pc = "add"]
      <4>1. KeyOpen(r, q)
        BY <1>1, <3>1 DEF CreateSyncCredential
      <4>2. q \in KReq /\ q.pc = "add" /\ q.old = NoKey /\ q.key = NoKey
        BY DEF KReqIdle, KReq, KeyOrNone
      <4> HIDE DEF q
      <4> QED
        BY <1>0, <4>1, <4>2, KeyBecomes DEF KeyOpen, KeyAt
    <3>2. CASE ~hubOn
      BY <1>0, <1>1, <3>2 DEF CreateSyncCredential, KeyTypeOK
    <3> QED
      BY <3>1, <3>2
  <2>2. /\ kreq[r] \in KReq /\ cred \in Cred /\ keysMade \in 0 .. MaxKeys
        /\ SavedKeyIsFresh(r) /\ OldKeyIsRevoked(r)
    BY <1>0, KeyFacts DEF KeyTypeOK
  <2>4. /\ kreq[r].pc = "idle" \/ UNCHANGED kreq
        /\ ~appGone /\ cred' \in Cred /\ cred'.key = cred.key /\ cred'.status = cred.status
        /\ UNCHANGED <<appGone, hubKeys, keysMade, hubOn, strayKeys, deadKeys>>
    BY <1>1, <2>1, <2>2 DEF CreateSyncCredential, KeyAt, Cred
  <2>5. KeyTypeOK'
    <3>1. appGone' \in BOOLEAN /\ hubOn' \in BOOLEAN
      BY <1>0, <2>4, Zenon DEF KeyTypeOK
    <3>2. keysMade' \in 0 .. MaxKeys /\ hubKeys' \subseteq Keys
      BY <1>0, <2>2, <2>4 DEF KeyTypeOK, Keys
    <3>3. strayKeys' \subseteq Keys /\ deadKeys' \subseteq Keys
      BY <1>0, <2>2, <2>4, KeyFacts DEF KeyTypeOK, Keys, KeyOrNone, NoKey, Some, SavedKeyIsFresh, KeyAt
    <3> QED
      BY <2>1, <2>2, <2>4, <3>1, <3>2, <3>3 DEF KeyTypeOK
  <2>6. KeysAreMade'
    BY <1>0, <2>1, <2>2, <2>4 DEF KeysAreMade, NoKey, SavedKeyIsFresh, KeyAt
  <2>7. ASSUME NEW s \in KReqs PROVE SavedKeyIsFresh(s)'
    BY <1>0, <2>1, <2>2, <2>4 DEF SavedKeyIsFresh, KeysAreMade, KeyAt, NoKey
  <2>8. ASSUME NEW s \in KReqs PROVE OldKeyIsRevoked(s)'
    BY <1>0, <2>1, <2>2, <2>4 DEF OldKeyIsRevoked, KeysAreMade, KeyAt, NoKey, Some
  <2>9. StrayKeyIsAccounted'
    BY <1>0, <2>1, <2>2, <2>4 DEF StrayKeyIsAccounted, OldKeyIsRevoked, KeysAreMade, KeyAt, NoKey, Some
  <2>10. RevealedKeyWorks'
    BY <1>0, <2>1, <2>2, <2>4 DEF RevealedKeyWorks, SavedKeyIsFresh, OldKeyIsRevoked, KeysAreMade, KeyAt, NoKey, Some
  <2> QED
    BY <2>5, <2>6, <2>7, <2>8, <2>9, <2>10 DEF KeyInv, DeployKeysAgree
<1>2. ASSUME NEW r \in KReqs, SyncRetry(r) PROVE KeyInv'
  <2>1. /\ kreq' \in [KReqs -> KReq] /\ kreq[r].pc = "idle"
        /\ kreq'[r].pc = "add" /\ kreq'[r].old = NoKey /\ kreq'[r].key = NoKey
        /\ \A s \in KReqs \ {r} : kreq'[s] = kreq[s]
    <3> DEFINE q == [KReqIdle EXCEPT !.pc = "add"]
    <3>1. KeyOpen(r, q)
      BY <1>2 DEF SyncRetry
    <3>2. q \in KReq /\ q.pc = "add" /\ q.old = NoKey /\ q.key = NoKey
      BY DEF KReqIdle, KReq, KeyOrNone
    <3> HIDE DEF q
    <3> QED
      BY <1>0, <3>1, <3>2, KeyBecomes DEF KeyOpen, KeyAt
  <2>2. /\ kreq[r] \in KReq /\ cred \in Cred /\ keysMade \in 0 .. MaxKeys
        /\ SavedKeyIsFresh(r) /\ OldKeyIsRevoked(r)
    BY <1>0, KeyFacts DEF KeyTypeOK
  <2>4. /\ UNCHANGED <<cred, appGone, hubKeys, keysMade, hubOn, strayKeys, deadKeys>>
    BY <1>2, <2>1, <2>2 DEF SyncRetry, KeyAt, Cred
  <2>5. KeyTypeOK'
    <3>1. appGone' \in BOOLEAN /\ hubOn' \in BOOLEAN
      BY <1>0, <2>4, Zenon DEF KeyTypeOK
    <3>2. keysMade' \in 0 .. MaxKeys /\ hubKeys' \subseteq Keys
      BY <1>0, <2>2, <2>4 DEF KeyTypeOK, Keys
    <3>3. strayKeys' \subseteq Keys /\ deadKeys' \subseteq Keys
      BY <1>0, <2>2, <2>4, KeyFacts DEF KeyTypeOK, Keys, KeyOrNone, NoKey, Some, SavedKeyIsFresh, KeyAt
    <3> QED
      BY <2>1, <2>2, <2>4, <3>1, <3>2, <3>3 DEF KeyTypeOK
  <2>6. KeysAreMade'
    BY <1>0, <2>1, <2>2, <2>4 DEF KeysAreMade, NoKey, SavedKeyIsFresh, KeyAt
  <2>7. ASSUME NEW s \in KReqs PROVE SavedKeyIsFresh(s)'
    BY <1>0, <2>1, <2>2, <2>4 DEF SavedKeyIsFresh, KeysAreMade, KeyAt, NoKey
  <2>8. ASSUME NEW s \in KReqs PROVE OldKeyIsRevoked(s)'
    BY <1>0, <2>1, <2>2, <2>4 DEF OldKeyIsRevoked, KeysAreMade, KeyAt, NoKey, Some
  <2>9. StrayKeyIsAccounted'
    BY <1>0, <2>1, <2>2, <2>4 DEF StrayKeyIsAccounted, OldKeyIsRevoked, KeysAreMade, KeyAt, NoKey, Some
  <2>10. RevealedKeyWorks'
    BY <1>0, <2>1, <2>2, <2>4 DEF RevealedKeyWorks, SavedKeyIsFresh, OldKeyIsRevoked, KeysAreMade, KeyAt, NoKey, Some
  <2> QED
    BY <2>5, <2>6, <2>7, <2>8, <2>9, <2>10 DEF KeyInv, DeployKeysAgree
<1>3. ASSUME NEW r \in KReqs, SyncRegenerate(r) PROVE KeyInv'
  <2>1. /\ kreq' \in [KReqs -> KReq] /\ kreq[r].pc = "idle"
        /\ kreq'[r].pc = (IF cred.key = NoKey THEN "add" ELSE "revoke") /\ kreq'[r].old = cred.key /\ kreq'[r].key = NoKey
        /\ \A s \in KReqs \ {r} : kreq'[s] = kreq[s]
    <3> DEFINE q == [KReqIdle EXCEPT !.pc = IF cred.key = NoKey THEN "add" ELSE "revoke", !.old = cred.key]
    <3>1. KeyOpen(r, q)
      BY <1>3 DEF SyncRegenerate
    <3>2. cred.key \in KeyOrNone
      BY KeyFacts
    <3>3. q \in KReq /\ q.pc = (IF cred.key = NoKey THEN "add" ELSE "revoke") /\ q.old = cred.key /\ q.key = NoKey
      BY <3>2 DEF KReqIdle, KReq, KeyOrNone
    <3> HIDE DEF q
    <3> QED
      BY <1>0, <3>1, <3>3, KeyBecomes DEF KeyOpen, KeyAt
  <2>2. /\ kreq[r] \in KReq /\ cred \in Cred /\ keysMade \in 0 .. MaxKeys
        /\ SavedKeyIsFresh(r) /\ OldKeyIsRevoked(r)
    BY <1>0, KeyFacts DEF KeyTypeOK
  <2>4. /\ UNCHANGED <<cred, appGone, hubKeys, keysMade, hubOn, strayKeys, deadKeys>>
    BY <1>3, <2>1, <2>2 DEF SyncRegenerate, KeyAt, Cred
  <2>5. KeyTypeOK'
    <3>1. appGone' \in BOOLEAN /\ hubOn' \in BOOLEAN
      BY <1>0, <2>4, Zenon DEF KeyTypeOK
    <3>2. keysMade' \in 0 .. MaxKeys /\ hubKeys' \subseteq Keys
      BY <1>0, <2>2, <2>4 DEF KeyTypeOK, Keys
    <3>3. strayKeys' \subseteq Keys /\ deadKeys' \subseteq Keys
      BY <1>0, <2>2, <2>4, KeyFacts DEF KeyTypeOK, Keys, KeyOrNone, NoKey, Some, SavedKeyIsFresh, KeyAt
    <3> QED
      BY <2>1, <2>2, <2>4, <3>1, <3>2, <3>3 DEF KeyTypeOK
  <2>6. KeysAreMade'
    BY <1>0, <2>1, <2>2, <2>4 DEF KeysAreMade, NoKey, SavedKeyIsFresh, KeyAt
  <2>7. ASSUME NEW s \in KReqs PROVE SavedKeyIsFresh(s)'
    BY <1>0, <2>1, <2>2, <2>4 DEF SavedKeyIsFresh, KeysAreMade, KeyAt, NoKey
  <2>8. ASSUME NEW s \in KReqs PROVE OldKeyIsRevoked(s)'
    BY <1>0, <2>1, <2>2, <2>4 DEF OldKeyIsRevoked, KeysAreMade, KeyAt, NoKey, Some
  <2>9. StrayKeyIsAccounted'
    BY <1>0, <2>1, <2>2, <2>4 DEF StrayKeyIsAccounted, OldKeyIsRevoked, KeysAreMade, KeyAt, NoKey, Some
  <2>10. RevealedKeyWorks'
    BY <1>0, <2>1, <2>2, <2>4 DEF RevealedKeyWorks, SavedKeyIsFresh, OldKeyIsRevoked, KeysAreMade, KeyAt, NoKey, Some
  <2> QED
    BY <2>5, <2>6, <2>7, <2>8, <2>9, <2>10 DEF KeyInv, DeployKeysAgree
<1>4. ASSUME NEW r \in KReqs, BeginDeleteKeys(r) PROVE KeyInv'
  <2>1. /\ kreq' \in [KReqs -> KReq] /\ kreq[r].pc = "idle"
        /\ kreq'[r].pc = "archive" /\ kreq'[r].old = NoKey /\ kreq'[r].key = NoKey
        /\ \A s \in KReqs \ {r} : kreq'[s] = kreq[s]
    <3> DEFINE q == [KReqIdle EXCEPT !.pc = "archive"]
    <3>1. KeyOpen(r, q)
      BY <1>4 DEF BeginDeleteKeys
    <3>2. q \in KReq /\ q.pc = "archive" /\ q.old = NoKey /\ q.key = NoKey
      BY DEF KReqIdle, KReq, KeyOrNone
    <3> HIDE DEF q
    <3> QED
      BY <1>0, <3>1, <3>2, KeyBecomes DEF KeyOpen, KeyAt
  <2>2. /\ kreq[r] \in KReq /\ cred \in Cred /\ keysMade \in 0 .. MaxKeys
        /\ SavedKeyIsFresh(r) /\ OldKeyIsRevoked(r)
    BY <1>0, KeyFacts DEF KeyTypeOK
  <2>4. /\ UNCHANGED <<cred, appGone, hubKeys, keysMade, hubOn, strayKeys, deadKeys>>
    BY <1>4, <2>1, <2>2 DEF BeginDeleteKeys, KeyAt, Cred
  <2>5. KeyTypeOK'
    <3>1. appGone' \in BOOLEAN /\ hubOn' \in BOOLEAN
      BY <1>0, <2>4, Zenon DEF KeyTypeOK
    <3>2. keysMade' \in 0 .. MaxKeys /\ hubKeys' \subseteq Keys
      BY <1>0, <2>2, <2>4 DEF KeyTypeOK, Keys
    <3>3. strayKeys' \subseteq Keys /\ deadKeys' \subseteq Keys
      BY <1>0, <2>2, <2>4, KeyFacts DEF KeyTypeOK, Keys, KeyOrNone, NoKey, Some, SavedKeyIsFresh, KeyAt
    <3> QED
      BY <2>1, <2>2, <2>4, <3>1, <3>2, <3>3 DEF KeyTypeOK
  <2>6. KeysAreMade'
    BY <1>0, <2>1, <2>2, <2>4 DEF KeysAreMade, NoKey, SavedKeyIsFresh, KeyAt
  <2>7. ASSUME NEW s \in KReqs PROVE SavedKeyIsFresh(s)'
    BY <1>0, <2>1, <2>2, <2>4 DEF SavedKeyIsFresh, KeysAreMade, KeyAt, NoKey
  <2>8. ASSUME NEW s \in KReqs PROVE OldKeyIsRevoked(s)'
    BY <1>0, <2>1, <2>2, <2>4 DEF OldKeyIsRevoked, KeysAreMade, KeyAt, NoKey, Some
  <2>9. StrayKeyIsAccounted'
    BY <1>0, <2>1, <2>2, <2>4 DEF StrayKeyIsAccounted, OldKeyIsRevoked, KeysAreMade, KeyAt, NoKey, Some
  <2>10. RevealedKeyWorks'
    BY <1>0, <2>1, <2>2, <2>4 DEF RevealedKeyWorks, SavedKeyIsFresh, OldKeyIsRevoked, KeysAreMade, KeyAt, NoKey, Some
  <2> QED
    BY <2>5, <2>6, <2>7, <2>8, <2>9, <2>10 DEF KeyInv, DeployKeysAgree
<1>5. ASSUME NEW r \in KReqs, RevokeOld(r) PROVE KeyInv'
  <2>1. /\ kreq' \in [KReqs -> KReq]
        /\ kreq'[r].pc = "add" /\ kreq'[r].old = kreq[r].old /\ kreq'[r].key = kreq[r].key
        /\ \A s \in KReqs \ {r} : kreq'[s] = kreq[s]
    BY <1>0, <1>5, KeyMoves DEF RevokeOld, RevokeDeployKey
  <2>2. /\ kreq[r] \in KReq /\ cred \in Cred /\ keysMade \in 0 .. MaxKeys
        /\ SavedKeyIsFresh(r) /\ OldKeyIsRevoked(r)
    BY <1>0, KeyFacts DEF KeyTypeOK
  <2>4. /\ kreq[r].pc = "revoke"
        /\ \/ hubKeys' = hubKeys \ {kreq[r].old} /\ UNCHANGED strayKeys
           \/ strayKeys' = strayKeys \cup (Some(kreq[r].old) \cap hubKeys) /\ UNCHANGED hubKeys
        /\ UNCHANGED <<cred, appGone, keysMade, hubOn, deadKeys>>
    BY <1>5, <2>1, <2>2 DEF RevokeOld, RevokeDeployKey, KeyAt, Cred
  <2>5. KeyTypeOK'
    <3>1. appGone' \in BOOLEAN /\ hubOn' \in BOOLEAN
      BY <1>0, <2>4, Zenon DEF KeyTypeOK
    <3>2. keysMade' \in 0 .. MaxKeys /\ hubKeys' \subseteq Keys
      BY <1>0, <2>2, <2>4 DEF KeyTypeOK, Keys
    <3>3. strayKeys' \subseteq Keys /\ deadKeys' \subseteq Keys
      BY <1>0, <2>2, <2>4, KeyFacts DEF KeyTypeOK, Keys, KeyOrNone, NoKey, Some, SavedKeyIsFresh, KeyAt
    <3> QED
      BY <2>1, <2>2, <2>4, <3>1, <3>2, <3>3 DEF KeyTypeOK
  <2>6. KeysAreMade'
    BY <1>0, <2>1, <2>2, <2>4 DEF KeysAreMade, NoKey, SavedKeyIsFresh, KeyAt
  <2>7. ASSUME NEW s \in KReqs PROVE SavedKeyIsFresh(s)'
    BY <1>0, <2>1, <2>2, <2>4 DEF SavedKeyIsFresh, KeysAreMade, KeyAt, NoKey
  <2>8. ASSUME NEW s \in KReqs PROVE OldKeyIsRevoked(s)'
    BY <1>0, <2>1, <2>2, <2>4 DEF OldKeyIsRevoked, KeysAreMade, KeyAt, NoKey, Some
  <2>9. StrayKeyIsAccounted'
    BY <1>0, <2>1, <2>2, <2>4 DEF StrayKeyIsAccounted, OldKeyIsRevoked, KeysAreMade, KeyAt, NoKey, Some
  <2>10. RevealedKeyWorks'
    BY <1>0, <2>1, <2>2, <2>4 DEF RevealedKeyWorks, SavedKeyIsFresh, OldKeyIsRevoked, KeysAreMade, KeyAt, NoKey, Some
  <2> QED
    BY <2>5, <2>6, <2>7, <2>8, <2>9, <2>10 DEF KeyInv, DeployKeysAgree
<1>6. ASSUME NEW r \in KReqs, AddDeployKey(r) PROVE KeyInv'
  <2>3. PICK asked \in {"added", "lost", "refused"} :
          /\ asked # "refused" => keysMade < MaxKeys
          /\ IF asked = "refused" THEN UNCHANGED <<keysMade, hubKeys>>
             ELSE keysMade' = keysMade + 1 /\ hubKeys' = hubKeys \cup {keysMade + 1}
          /\ strayKeys' = IF asked = "lost" THEN strayKeys \cup {keysMade + 1} ELSE strayKeys
          /\ kreq' = [kreq EXCEPT ![r].pc = IF asked = "added" THEN "save" ELSE "fail",
                                  ![r].key = IF asked = "added" THEN keysMade + 1 ELSE NoKey]
    BY <1>6 DEF AddDeployKey
  <2>11. KeyAt(r, "add") /\ UNCHANGED <<cred, appGone, hubOn, deadKeys>>
    BY <1>6 DEF AddDeployKey
  <2>1. /\ kreq' \in [KReqs -> KReq]
        /\ kreq'[r].pc = (IF asked = "added" THEN "save" ELSE "fail")
        /\ kreq'[r].key = (IF asked = "added" THEN keysMade + 1 ELSE NoKey) /\ kreq'[r].old = kreq[r].old
        /\ \A s \in KReqs \ {r} : kreq'[s] = kreq[s]
    <3> DEFINE q == [kreq[r] EXCEPT !.pc = IF asked = "added" THEN "save" ELSE "fail",
                                    !.key = IF asked = "added" THEN keysMade + 1 ELSE NoKey]
    <3>1. kreq[r] \in KReq /\ keysMade \in Nat
      BY KeyFacts
    <3>4. (IF asked = "added" THEN keysMade + 1 ELSE NoKey) \in KeyOrNone
      BY <2>3, <3>1 DEF KeyOrNone, Keys
    <3>2. /\ q \in KReq
          /\ q.pc = (IF asked = "added" THEN "save" ELSE "fail")
          /\ q.key = (IF asked = "added" THEN keysMade + 1 ELSE NoKey) /\ q.old = kreq[r].old
      BY <3>1, <3>4 DEF KReq
    <3>3. kreq' = [kreq EXCEPT ![r] = q]
      BY <1>0, <2>3 DEF KeyTypeOK
    <3> HIDE DEF q
    <3> QED
      BY <1>0, <3>2, <3>3, KeyBecomes
  <2>2. /\ kreq[r] \in KReq /\ cred \in Cred /\ keysMade \in 0 .. MaxKeys
        /\ SavedKeyIsFresh(r) /\ OldKeyIsRevoked(r)
    BY <1>0, KeyFacts DEF KeyTypeOK
  <2>4. /\ kreq[r].pc = "add" /\ (asked # "refused" => keysMade < MaxKeys)
        /\ \/ asked = "refused" /\ keysMade' = keysMade /\ hubKeys' = hubKeys
           \/ asked # "refused" /\ keysMade' = keysMade + 1 /\ hubKeys' = hubKeys \cup {keysMade + 1}
        /\ strayKeys' = IF asked = "lost" THEN strayKeys \cup {keysMade + 1} ELSE strayKeys
        /\ UNCHANGED <<cred, appGone, hubOn, deadKeys>>
    BY <1>6, <2>1, <2>2, <2>3, <2>11 DEF AddDeployKey, KeyAt, Cred
  <2>12. keysMade' \in keysMade .. MaxKeys
    BY <2>2, <2>4
  <2>13. hubKeys' \subseteq hubKeys \cup {keysMade'} /\ (hubKeys' # hubKeys => keysMade' # 0)
    BY <2>2, <2>4
  <2>5. KeyTypeOK'
    <3>1. appGone' \in BOOLEAN /\ hubOn' \in BOOLEAN
      BY <1>0, <2>4, Zenon DEF KeyTypeOK
    <3>2. keysMade' \in 0 .. MaxKeys /\ hubKeys' \subseteq Keys
      BY <1>0, <2>2, <2>12, <2>13 DEF KeyTypeOK, Keys
    <3>3. strayKeys' \subseteq Keys /\ deadKeys' \subseteq Keys
      BY <1>0, <2>2, <2>4, KeyFacts DEF KeyTypeOK, Keys, KeyOrNone, NoKey, Some, SavedKeyIsFresh, KeyAt
    <3> QED
      BY <2>1, <2>2, <2>4, <3>1, <3>2, <3>3 DEF KeyTypeOK
  <2>6. KeysAreMade'
    BY <1>0, <2>1, <2>2, <2>4, <2>12, <2>13 DEF KeysAreMade, NoKey
  <2>7. ASSUME NEW s \in KReqs PROVE SavedKeyIsFresh(s)'
    BY <1>0, <2>1, <2>2, <2>4 DEF SavedKeyIsFresh, KeysAreMade, KeyAt, NoKey
  <2>8. ASSUME NEW s \in KReqs PROVE OldKeyIsRevoked(s)'
    BY <1>0, <2>1, <2>2, <2>4 DEF OldKeyIsRevoked, KeysAreMade, KeyAt, NoKey, Some
  <2>9. StrayKeyIsAccounted'
    BY <1>0, <2>1, <2>2, <2>4 DEF StrayKeyIsAccounted, OldKeyIsRevoked, KeysAreMade, KeyAt, NoKey, Some
  <2>10. RevealedKeyWorks'
    BY <1>0, <2>1, <2>2, <2>4 DEF RevealedKeyWorks, SavedKeyIsFresh, OldKeyIsRevoked, KeysAreMade, KeyAt, NoKey, Some
  <2> QED
    BY <2>5, <2>6, <2>7, <2>8, <2>9, <2>10 DEF KeyInv, DeployKeysAgree
<1>7. ASSUME NEW r \in KReqs, UpdateSyncCredentialSuccess(r) PROVE KeyInv'
  <2>1. /\ kreq' \in [KReqs -> KReq]
        /\ kreq'[r].pc = "idle" /\ kreq'[r].old = NoKey /\ kreq'[r].key = NoKey
        /\ \A s \in KReqs \ {r} : kreq'[s] = kreq[s]
    BY <1>0, <1>7, KeyEnds DEF UpdateSyncCredentialSuccess
  <2>2. /\ kreq[r] \in KReq /\ cred \in Cred /\ keysMade \in 0 .. MaxKeys
        /\ SavedKeyIsFresh(r) /\ OldKeyIsRevoked(r)
    BY <1>0, KeyFacts DEF KeyTypeOK
  <2>4. /\ kreq[r].pc = "save"
        /\ cred' \in Cred /\ cred'.key = kreq[r].key
        /\ strayKeys' = strayKeys \cup (IF cred.key = kreq[r].old THEN {} ELSE Some(cred.key))
                                  \cup (IF appGone THEN {kreq[r].key} ELSE {})
        /\ UNCHANGED <<appGone, hubKeys, keysMade, hubOn, deadKeys>>
    BY <1>7, <2>1, <2>2 DEF UpdateSyncCredentialSuccess, KeyAt, Cred, KReq
  <2>5. KeyTypeOK'
    <3>1. appGone' \in BOOLEAN /\ hubOn' \in BOOLEAN
      BY <1>0, <2>4, Zenon DEF KeyTypeOK
    <3>2. keysMade' \in 0 .. MaxKeys /\ hubKeys' \subseteq Keys
      BY <1>0, <2>2, <2>4 DEF KeyTypeOK, Keys
    <3>3. strayKeys' \subseteq Keys /\ deadKeys' \subseteq Keys
      BY <1>0, <2>2, <2>4, KeyFacts DEF KeyTypeOK, Keys, KeyOrNone, NoKey, Some, SavedKeyIsFresh, KeyAt
    <3> QED
      BY <2>1, <2>2, <2>4, <3>1, <3>2, <3>3 DEF KeyTypeOK
  <2>6. KeysAreMade'
    BY <1>0, <2>1, <2>2, <2>4 DEF KeysAreMade, NoKey, SavedKeyIsFresh, KeyAt
  <2>7. ASSUME NEW s \in KReqs PROVE SavedKeyIsFresh(s)'
    BY <1>0, <2>1, <2>2, <2>4 DEF SavedKeyIsFresh, KeysAreMade, KeyAt, NoKey
  <2>8. ASSUME NEW s \in KReqs PROVE OldKeyIsRevoked(s)'
    BY <1>0, <2>1, <2>2, <2>4 DEF OldKeyIsRevoked, KeysAreMade, KeyAt, NoKey, Some
  <2>9. StrayKeyIsAccounted'
    BY <1>0, <2>1, <2>2, <2>4 DEF StrayKeyIsAccounted, OldKeyIsRevoked, KeysAreMade, KeyAt, NoKey, Some
  <2>10. RevealedKeyWorks'
    BY <1>0, <2>1, <2>2, <2>4 DEF RevealedKeyWorks, SavedKeyIsFresh, OldKeyIsRevoked, KeysAreMade, KeyAt, NoKey, Some
  <2> QED
    BY <2>5, <2>6, <2>7, <2>8, <2>9, <2>10 DEF KeyInv, DeployKeysAgree
<1>8. ASSUME NEW r \in KReqs, UpdateSyncCredentialFailure(r) PROVE KeyInv'
  <2>1. /\ kreq' \in [KReqs -> KReq]
        /\ kreq'[r].pc = "idle" /\ kreq'[r].old = NoKey /\ kreq'[r].key = NoKey
        /\ \A s \in KReqs \ {r} : kreq'[s] = kreq[s]
    BY <1>0, <1>8, KeyEnds DEF UpdateSyncCredentialFailure
  <2>2. /\ kreq[r] \in KReq /\ cred \in Cred /\ keysMade \in 0 .. MaxKeys
        /\ SavedKeyIsFresh(r) /\ OldKeyIsRevoked(r)
    BY <1>0, KeyFacts DEF KeyTypeOK
  <2>4. /\ kreq[r].pc = "fail"
        /\ cred' \in Cred /\ cred'.key = cred.key /\ cred'.status = "failed"
        /\ UNCHANGED <<appGone, hubKeys, keysMade, hubOn, strayKeys, deadKeys>>
    BY <1>8, <2>1, <2>2 DEF UpdateSyncCredentialFailure, KeyAt, Cred
  <2>5. KeyTypeOK'
    <3>1. appGone' \in BOOLEAN /\ hubOn' \in BOOLEAN
      BY <1>0, <2>4, Zenon DEF KeyTypeOK
    <3>2. keysMade' \in 0 .. MaxKeys /\ hubKeys' \subseteq Keys
      BY <1>0, <2>2, <2>4 DEF KeyTypeOK, Keys
    <3>3. strayKeys' \subseteq Keys /\ deadKeys' \subseteq Keys
      BY <1>0, <2>2, <2>4, KeyFacts DEF KeyTypeOK, Keys, KeyOrNone, NoKey, Some, SavedKeyIsFresh, KeyAt
    <3> QED
      BY <2>1, <2>2, <2>4, <3>1, <3>2, <3>3 DEF KeyTypeOK
  <2>6. KeysAreMade'
    BY <1>0, <2>1, <2>2, <2>4 DEF KeysAreMade, NoKey, SavedKeyIsFresh, KeyAt
  <2>7. ASSUME NEW s \in KReqs PROVE SavedKeyIsFresh(s)'
    BY <1>0, <2>1, <2>2, <2>4 DEF SavedKeyIsFresh, KeysAreMade, KeyAt, NoKey
  <2>8. ASSUME NEW s \in KReqs PROVE OldKeyIsRevoked(s)'
    BY <1>0, <2>1, <2>2, <2>4 DEF OldKeyIsRevoked, KeysAreMade, KeyAt, NoKey, Some
  <2>9. StrayKeyIsAccounted'
    BY <1>0, <2>1, <2>2, <2>4 DEF StrayKeyIsAccounted, OldKeyIsRevoked, KeysAreMade, KeyAt, NoKey, Some
  <2>10. RevealedKeyWorks'
    BY <1>0, <2>1, <2>2, <2>4 DEF RevealedKeyWorks, SavedKeyIsFresh, OldKeyIsRevoked, KeysAreMade, KeyAt, NoKey, Some
  <2> QED
    BY <2>5, <2>6, <2>7, <2>8, <2>9, <2>10 DEF KeyInv, DeployKeysAgree
<1>9. ASSUME NEW r \in KReqs, ArchiveApp(r) PROVE KeyInv'
  <2>1. /\ kreq' \in [KReqs -> KReq]
        /\ \/ /\ appGone \/ ~hubOn
              /\ kreq'[r].pc = "idle" /\ kreq'[r].old = NoKey /\ kreq'[r].key = NoKey
           \/ /\ ~(appGone \/ ~hubOn)
              /\ kreq'[r].pc = "drop" /\ kreq'[r].old = cred.key /\ kreq'[r].key = kreq[r].key
        /\ \A s \in KReqs \ {r} : kreq'[s] = kreq[s]
    <3>1. CASE appGone \/ ~hubOn
      BY <1>0, <1>9, <3>1, KeyEnds DEF ArchiveApp
    <3>2. CASE ~(appGone \/ ~hubOn)
      <4> DEFINE q == [kreq[r] EXCEPT !.pc = "drop", !.old = cred.key]
      <4>1. kreq[r] \in KReq /\ cred.key \in KeyOrNone
        BY KeyFacts
      <4>2. q \in KReq /\ q.pc = "drop" /\ q.old = cred.key /\ q.key = kreq[r].key
        BY <4>1 DEF KReq
      <4>3. kreq' = [kreq EXCEPT ![r] = q]
        BY <1>0, <1>9, <3>2 DEF ArchiveApp, KeyTypeOK
      <4> HIDE DEF q
      <4> QED
        BY <1>0, <3>2, <4>2, <4>3, KeyBecomes
    <3> QED
      BY <3>1, <3>2
  <2>2. /\ kreq[r] \in KReq /\ cred \in Cred /\ keysMade \in 0 .. MaxKeys
        /\ SavedKeyIsFresh(r) /\ OldKeyIsRevoked(r)
    BY <1>0, KeyFacts DEF KeyTypeOK
  <2>4. /\ kreq[r].pc = "archive" /\ appGone'
        /\ strayKeys' = IF ~appGone /\ ~hubOn THEN strayKeys \cup Some(cred.key) ELSE strayKeys
        /\ UNCHANGED <<cred, hubKeys, keysMade, hubOn, deadKeys>>
    BY <1>9, <2>1, <2>2 DEF ArchiveApp, KeyAt, Cred
  <2>5. KeyTypeOK'
    <3>1. appGone' \in BOOLEAN /\ hubOn' \in BOOLEAN
      BY <1>0, <2>4, Zenon DEF KeyTypeOK
    <3>2. keysMade' \in 0 .. MaxKeys /\ hubKeys' \subseteq Keys
      BY <1>0, <2>2, <2>4 DEF KeyTypeOK, Keys
    <3>3. strayKeys' \subseteq Keys /\ deadKeys' \subseteq Keys
      BY <1>0, <2>2, <2>4, KeyFacts DEF KeyTypeOK, Keys, KeyOrNone, NoKey, Some, SavedKeyIsFresh, KeyAt
    <3> QED
      BY <2>1, <2>2, <2>4, <3>1, <3>2, <3>3 DEF KeyTypeOK
  <2>6. KeysAreMade'
    BY <1>0, <2>1, <2>2, <2>4 DEF KeysAreMade, NoKey, SavedKeyIsFresh, KeyAt
  <2>7. ASSUME NEW s \in KReqs PROVE SavedKeyIsFresh(s)'
    BY <1>0, <2>1, <2>2, <2>4 DEF SavedKeyIsFresh, KeysAreMade, KeyAt, NoKey
  <2>8. ASSUME NEW s \in KReqs PROVE OldKeyIsRevoked(s)'
    BY <1>0, <2>1, <2>2, <2>4 DEF OldKeyIsRevoked, KeysAreMade, KeyAt, NoKey, Some
  <2>9. StrayKeyIsAccounted'
    <3> SUFFICES ASSUME NEW k \in hubKeys
                 PROVE  \/ \E s \in KReqs : kreq'[s].pc = "save" /\ kreq'[s].key = k
                        \/ \E s \in KReqs : kreq'[s].pc = "drop" /\ kreq'[s].old = k
                        \/ k \in strayKeys'
      BY <2>4 DEF StrayKeyIsAccounted, KeyAt
    <3>1. CASE cred.key = k /\ ~appGone
      <4>1. CASE hubOn
        BY <2>1, <3>1, <4>1
      <4>2. CASE ~hubOn
        BY <1>0, <2>4, <3>1, <4>2 DEF Some, KeysAreMade, NoKey
      <4> QED
        BY <4>1, <4>2
    <3>2. CASE ~(cred.key = k /\ ~appGone)
      BY <1>0, <2>1, <2>4, <3>2 DEF StrayKeyIsAccounted, KeyAt
    <3> QED
      BY <3>1, <3>2
  <2>10. RevealedKeyWorks'
    BY <1>0, <2>1, <2>2, <2>4 DEF RevealedKeyWorks, SavedKeyIsFresh, OldKeyIsRevoked, KeysAreMade, KeyAt, NoKey, Some
  <2> QED
    BY <2>5, <2>6, <2>7, <2>8, <2>9, <2>10 DEF KeyInv, DeployKeysAgree
<1>10. ASSUME NEW r \in KReqs, RevokeAtDelete(r) PROVE KeyInv'
  <2>1. /\ kreq' \in [KReqs -> KReq]
        /\ kreq'[r].pc = "idle" /\ kreq'[r].old = NoKey /\ kreq'[r].key = NoKey
        /\ \A s \in KReqs \ {r} : kreq'[s] = kreq[s]
    BY <1>0, <1>10, KeyEnds DEF RevokeAtDelete, RevokeDeployKey
  <2>2. /\ kreq[r] \in KReq /\ cred \in Cred /\ keysMade \in 0 .. MaxKeys
        /\ SavedKeyIsFresh(r) /\ OldKeyIsRevoked(r)
    BY <1>0, KeyFacts DEF KeyTypeOK
  <2>4. /\ kreq[r].pc = "drop"
        /\ \/ hubKeys' = hubKeys \ {kreq[r].old} /\ UNCHANGED strayKeys
           \/ strayKeys' = strayKeys \cup (Some(kreq[r].old) \cap hubKeys) /\ UNCHANGED hubKeys
        /\ UNCHANGED <<cred, appGone, keysMade, hubOn, deadKeys>>
    BY <1>10, <2>1, <2>2 DEF RevokeAtDelete, RevokeDeployKey, KeyAt, Cred
  <2>5. KeyTypeOK'
    <3>1. appGone' \in BOOLEAN /\ hubOn' \in BOOLEAN
      BY <1>0, <2>4, Zenon DEF KeyTypeOK
    <3>2. keysMade' \in 0 .. MaxKeys /\ hubKeys' \subseteq Keys
      BY <1>0, <2>2, <2>4 DEF KeyTypeOK, Keys
    <3>3. strayKeys' \subseteq Keys /\ deadKeys' \subseteq Keys
      BY <1>0, <2>2, <2>4, KeyFacts DEF KeyTypeOK, Keys, KeyOrNone, NoKey, Some, SavedKeyIsFresh, KeyAt
    <3> QED
      BY <2>1, <2>2, <2>4, <3>1, <3>2, <3>3 DEF KeyTypeOK
  <2>6. KeysAreMade'
    <3>1. hubKeys' \subseteq hubKeys
      BY <2>4
    <3>2. ASSUME NEW s \in KReqs PROVE kreq'[s].old \in 0 .. keysMade /\ kreq'[s].key \in 0 .. keysMade
      BY <1>0, <2>1, <2>2 DEF KeysAreMade, NoKey
    <3> QED
      BY <1>0, <2>4, <3>1, <3>2 DEF KeysAreMade
  <2>7. ASSUME NEW s \in KReqs PROVE SavedKeyIsFresh(s)'
    BY <1>0, <2>1, <2>2, <2>4 DEF SavedKeyIsFresh, KeysAreMade, KeyAt, NoKey
  <2>8. ASSUME NEW s \in KReqs PROVE OldKeyIsRevoked(s)'
    BY <1>0, <2>1, <2>2, <2>4 DEF OldKeyIsRevoked, KeysAreMade, KeyAt, NoKey, Some
  <2>9. StrayKeyIsAccounted'
    <3> SUFFICES ASSUME NEW k \in hubKeys', k \notin strayKeys'
                 PROVE  \/ cred.key = k /\ ~appGone
                        \/ \E s \in KReqs : KeyAt(s, "save")' /\ kreq'[s].key = k
                        \/ \E s \in KReqs : KeyAt(s, "drop")' /\ kreq'[s].old = k
      BY <2>4 DEF StrayKeyIsAccounted
    <3>1. k \in hubKeys /\ k \notin strayKeys /\ k # kreq[r].old
      BY <1>0, <2>2, <2>4 DEF Some, KeysAreMade, NoKey
    <3>2. ASSUME NEW s \in KReqs, KeyAt(s, "save"), kreq[s].key = k
          PROVE  KeyAt(s, "save")' /\ kreq'[s].key = k
      BY <2>1, <2>4, <3>2 DEF KeyAt
    <3>3. ASSUME NEW s \in KReqs, KeyAt(s, "drop"), kreq[s].old = k
          PROVE  KeyAt(s, "drop")' /\ kreq'[s].old = k
      BY <2>1, <2>4, <3>1, <3>3 DEF KeyAt
    <3> QED
      BY <1>0, <3>1, <3>2, <3>3, Zenon DEF StrayKeyIsAccounted
  <2>10. RevealedKeyWorks'
    BY <1>0, <2>1, <2>2, <2>4 DEF RevealedKeyWorks, SavedKeyIsFresh, OldKeyIsRevoked, KeysAreMade, KeyAt, NoKey, Some
  <2> QED
    BY <2>5, <2>6, <2>7, <2>8, <2>9, <2>10 DEF KeyInv, DeployKeysAgree
<1>11. ASSUME NEW r \in KReqs, AbandonKey(r) PROVE KeyInv'
  <2>1. /\ kreq' \in [KReqs -> KReq]
        /\ kreq'[r].pc = "idle" /\ kreq'[r].old = NoKey /\ kreq'[r].key = NoKey
        /\ \A s \in KReqs \ {r} : kreq'[s] = kreq[s]
    BY <1>0, <1>11, KeyEnds DEF AbandonKey
  <2>2. /\ kreq[r] \in KReq /\ cred \in Cred /\ keysMade \in 0 .. MaxKeys
        /\ SavedKeyIsFresh(r) /\ OldKeyIsRevoked(r)
    BY <1>0, KeyFacts DEF KeyTypeOK
  <2>4. /\ kreq[r].pc # "idle"
        /\ strayKeys' = strayKeys \cup (IF kreq[r].pc = "save" THEN {kreq[r].key} ELSE IF kreq[r].pc = "drop" THEN Some(kreq[r].old) ELSE {})
        /\ deadKeys' = IF kreq[r].pc \in {"add", "save", "fail"} THEN deadKeys \cup Some(kreq[r].old) ELSE deadKeys
        /\ UNCHANGED <<cred, appGone, hubKeys, keysMade, hubOn>>
    BY <1>11, <2>1, <2>2 DEF AbandonKey, KeyAt, Cred
  <2>5. KeyTypeOK'
    <3>1. appGone' \in BOOLEAN /\ hubOn' \in BOOLEAN
      BY <1>0, <2>4, Zenon DEF KeyTypeOK
    <3>2. keysMade' \in 0 .. MaxKeys /\ hubKeys' \subseteq Keys
      BY <1>0, <2>2, <2>4 DEF KeyTypeOK, Keys
    <3>3. strayKeys' \subseteq Keys /\ deadKeys' \subseteq Keys
      BY <1>0, <2>2, <2>4, KeyFacts DEF KeyTypeOK, Keys, KeyOrNone, NoKey, Some, SavedKeyIsFresh, KeyAt
    <3> QED
      BY <2>1, <2>2, <2>4, <3>1, <3>2, <3>3 DEF KeyTypeOK
  <2>6. KeysAreMade'
    BY <1>0, <2>1, <2>2, <2>4 DEF KeysAreMade, NoKey, SavedKeyIsFresh, KeyAt
  <2>7. ASSUME NEW s \in KReqs PROVE SavedKeyIsFresh(s)'
    BY <1>0, <2>1, <2>2, <2>4 DEF SavedKeyIsFresh, KeysAreMade, KeyAt, NoKey
  <2>8. ASSUME NEW s \in KReqs PROVE OldKeyIsRevoked(s)'
    BY <1>0, <2>1, <2>2, <2>4 DEF OldKeyIsRevoked, KeysAreMade, KeyAt, NoKey, Some
  <2>9. StrayKeyIsAccounted'
    BY <1>0, <2>1, <2>2, <2>4 DEF StrayKeyIsAccounted, OldKeyIsRevoked, KeysAreMade, KeyAt, NoKey, Some
  <2>10. RevealedKeyWorks'
    BY <1>0, <2>1, <2>2, <2>4 DEF RevealedKeyWorks, SavedKeyIsFresh, OldKeyIsRevoked, KeysAreMade, KeyAt, NoKey, Some
  <2> QED
    BY <2>5, <2>6, <2>7, <2>8, <2>9, <2>10 DEF KeyInv, DeployKeysAgree
<1>12. ASSUME NEW on \in BOOLEAN, SetHub(on) PROVE KeyInv'
  BY <1>0, <1>12 DEF SetHub, KeyInv, DeployKeysAgree, KeyTypeOK, KeysAreMade, SavedKeyIsFresh, OldKeyIsRevoked, KeyAt, StrayKeyIsAccounted, RevealedKeyWorks
<1>13. CASE UNCHANGED keyVars
  BY <1>0, <1>13 DEF keyVars, KeyInv, DeployKeysAgree, KeyTypeOK, KeysAreMade, SavedKeyIsFresh, OldKeyIsRevoked, KeyAt, StrayKeyIsAccounted, RevealedKeyWorks
<1> QED
  BY <1>1, <1>2, <1>3, <1>4, <1>5, <1>6, <1>7, <1>8, <1>9, <1>10, <1>11, <1>12, <1>13 DEF KeyNext

\* The invariant holds where the app has no key.
LEMMA KeyStart == KeyInit => KeyInv
<1> SUFFICES ASSUME KeyInit PROVE KeyInv
  OBVIOUS
<1>1. cred \in Cred /\ cred.status = "pending" /\ cred.key = NoKey
  BY DEF KeyInit, Cred, KeyOrNone
<1>2. kreq \in [KReqs -> KReq] /\ \A r \in KReqs : kreq[r].pc = "idle" /\ kreq[r].old = NoKey /\ kreq[r].key = NoKey
  BY DEF KeyInit, KReq, KReqIdle, KeyOrNone
<1>3. KeyTypeOK
  <2>1. appGone \in BOOLEAN /\ hubOn \in BOOLEAN
    BY Zenon DEF KeyInit
  <2>2. hubKeys \subseteq Keys /\ strayKeys \subseteq Keys /\ deadKeys \subseteq Keys /\ keysMade \in 0 .. MaxKeys
    BY KeyBounds DEF KeyInit
  <2> QED
    BY <1>1, <1>2, <2>1, <2>2 DEF KeyTypeOK
<1> QED
  BY <1>1, <1>2, <1>3 DEF KeyInit, KeyInv, NoKey, KeysAreMade, SavedKeyIsFresh, OldKeyIsRevoked, KeyAt, DeployKeysAgree, StrayKeyIsAccounted, RevealedKeyWorks

\* A sync that fails or dies between GitHub and the database leaves neither a key that
\* nobody accounts for nor one that is revealed and opens nothing.
THEOREM KeysAgree == KeySpec => []DeployKeysAgree
<1>1. KeyInv => DeployKeysAgree
  BY DEF KeyInv
<1> QED
  BY <1>1, KeyStart, KeyStepInv, PTL DEF KeySpec

-----------------------------------------------------------------------------
(* Settings. Until a write to its row marks it as overtaken, what a patch  *)
(* has read is what is there; what it leaves out is then written back      *)
(* unchanged, or emptied with what it replaces. An App of GitHub that is   *)
(* about to be saved was verified with its key or with the one on record,  *)
(* and the installation with the App on record, until a write marks it.    *)

\* What a patch has read and is to write back is still there, unless it is known to be overtaken.
ReadIsCurrent(r) ==
    LET q == setReq[r] IN
    q.pc = "patch" /\ q.row \notin {"brand", "ai"} /\ ~q.overtaken /\ ~q.failed
        => \A f \in Fields \ q.given : q.read[f] = setting[q.row][f]

\* An App that is about to be saved was verified with its key, or with the one still on record;
\* an installation that is about to be is of the App still on record.
AppIsVerified(r) ==
    LET q == setReq[r] IN
    /\ q.pc # "patch" => q.row = "system"
    /\ q.pc = "save_app" /\ q.key # NoHub => q.app = q.key
    /\ q.pc = "save_app" /\ q.key = NoHub /\ ~q.overtaken => hub.on /\ hub.key = q.app
    /\ q.pc = "install" /\ ~q.overtaken => q.app = hub.app

\* The inductive invariant.
SetInv ==
    /\ SetTypeOK
    /\ \A r \in SetReqs : ReadIsCurrent(r) /\ AppIsVerified(r)
    /\ ~hub.on => hub.installed = NoHub

-----------------------------------------------------------------------------
\* The idle request is a request.
LEMMA SetIdleIsTyped == SetIdle \in SetReq /\ SetIdle.pc = "idle" /\ SetIdle.row = "system" /\ Blank \in Content
<1>1. Blank \in Content /\ 0 \in 0 .. MaxEdits
  BY SettingsBounds DEF Blank, Content
<1> QED
  BY <1>1 DEF SetIdle, SetReq, SettingRows, HubOrNone

\* A request goes on to another record, and the rest stay.
LEMMA SetBecomes ==
    ASSUME SetTypeOK, NEW r \in SetReqs, NEW k \in SetReq, setReq' = [setReq EXCEPT ![r] = k]
    PROVE  /\ setReq' \in [SetReqs -> SetReq]
           /\ setReq'[r] = k
           /\ \A q \in SetReqs \ {r} : setReq'[q] = setReq[q]
BY DEF SetTypeOK

\* A write marks the requests that read what it overwrites, and changes nothing else of them.
LEMMA WriteIsMarked ==
    ASSUME SetTypeOK, NEW r \in SetReqs, NEW pcs, Writes(r, pcs)
    PROVE  /\ setReq' \in [SetReqs -> SetReq] /\ setReq'[r] = SetIdle
           /\ \A q \in SetReqs \ {r} :
                /\ setReq'[q].pc = setReq[q].pc /\ setReq'[q].row = setReq[q].row /\ setReq'[q].given = setReq[q].given
                /\ setReq'[q].read = setReq[q].read /\ setReq'[q].failed = setReq[q].failed
                /\ setReq'[q].app = setReq[q].app /\ setReq'[q].key = setReq[q].key
                /\ setReq[q].overtaken \/ (setReq[q].pc \in pcs /\ setReq[q].row = setReq[r].row) => setReq'[q].overtaken
<1>1. ASSUME NEW q \in SetReqs \ {r}
      PROVE  /\ setReq'[q] \in SetReq
             /\ setReq'[q].pc = setReq[q].pc /\ setReq'[q].row = setReq[q].row /\ setReq'[q].given = setReq[q].given
             /\ setReq'[q].read = setReq[q].read /\ setReq'[q].failed = setReq[q].failed
             /\ setReq'[q].app = setReq[q].app /\ setReq'[q].key = setReq[q].key
             /\ setReq[q].overtaken \/ (setReq[q].pc \in pcs /\ setReq[q].row = setReq[r].row) => setReq'[q].overtaken
  <2> DEFINE over == setReq[q].overtaken \/ (setReq[q].pc \in pcs /\ setReq[q].row = setReq[r].row)
             k == [setReq[q] EXCEPT !.overtaken = over]
  <2>1. setReq[q] \in SetReq /\ over \in BOOLEAN
    BY DEF SetTypeOK
  <2>2. setReq'[q] = k
    BY DEF Writes
  <2> HIDE DEF over
  <2>3. /\ k \in SetReq /\ k.pc = setReq[q].pc /\ k.row = setReq[q].row /\ k.given = setReq[q].given
        /\ k.read = setReq[q].read /\ k.failed = setReq[q].failed
        /\ k.app = setReq[q].app /\ k.key = setReq[q].key /\ k.overtaken = over
    BY <2>1 DEF SetReq
  <2> HIDE DEF k
  <2> QED
    BY <2>2, <2>3 DEF over
<1> QED
  BY <1>1, SetIdleIsTyped DEF Writes

\* A request is sent or ends, and writes nothing.
LEMMA SettingSent ==
    ASSUME SetInv, NEW r \in SetReqs, NEW k \in SetReq, setReq' = [setReq EXCEPT ![r] = k],
           UNCHANGED <<setting, hub>>, patches' \in 0 .. MaxEdits,
           k.pc = "patch" /\ k.row \notin {"brand", "ai"} /\ ~k.failed => \A f \in Fields \ k.given : k.read[f] = setting[k.row][f],
           k.pc # "patch" => k.row = "system",
           k.pc = "save_app" /\ k.key # NoHub => k.app = k.key,
           k.pc = "save_app" /\ k.key = NoHub => hub.on /\ hub.key = k.app,
           k.pc = "install" => k.app = hub.app
    PROVE  SetInv'
<1>1. setReq' \in [SetReqs -> SetReq] /\ setReq'[r] = k /\ \A q \in SetReqs \ {r} : setReq'[q] = setReq[q]
  BY SetBecomes DEF SetInv
<1>2. SetTypeOK'
  BY <1>1 DEF SetInv, SetTypeOK
<1>3. ASSUME NEW q \in SetReqs PROVE ReadIsCurrent(q)' /\ AppIsVerified(q)'
  <2>1. CASE q = r
    BY <1>1, <2>1 DEF ReadIsCurrent, AppIsVerified
  <2>2. CASE q # r
    BY <1>1, <2>2 DEF SetInv, ReadIsCurrent, AppIsVerified
  <2> QED
    BY <2>1, <2>2
<1> QED
  BY <1>2, <1>3 DEF SetInv

\* A patch that begins takes over what it leaves out, or knows that it could not be read.
LEMMA PatchSent ==
    ASSUME SetInv, NEW r \in SetReqs, NEW k \in SettingRows, NEW g \in SUBSET Fields, NEW along \in SUBSET Fields,
           NEW read \in Content, NEW failed \in BOOLEAN, Patch(r, k, g, along, read, failed),
           k \notin {"brand", "ai"} /\ ~failed => \A f \in Fields \ g : read[f] = setting[k][f]
    PROVE  SetInv'
<1> DEFINE q == [SetIdle EXCEPT !.pc = "patch", !.row = k, !.given = g, !.along = along, !.edit = patches + 1,
                              !.read = read, !.failed = failed]
<1>1. patches + 1 \in 0 .. MaxEdits /\ patches' \in 0 .. MaxEdits
  BY SettingsBounds DEF Patch, SetInv, SetTypeOK
<1>2. q \in SetReq /\ q.pc = "patch" /\ q.row = k /\ q.given = g /\ q.read = read /\ q.failed = failed
  BY <1>1, SetIdleIsTyped DEF SetReq
<1>3. setReq' = [setReq EXCEPT ![r] = q] /\ UNCHANGED <<setting, hub>>
  BY DEF Patch, Sends
<1> HIDE DEF q
<1> QED
  BY <1>1, <1>2, <1>3, SettingSent

\* What a patch gives is all that it changes of what it is merged with.
LEMMA MergeIsTyped ==
    ASSUME NEW q \in SetReq, NEW base \in Content
    PROVE  Merge(q, base) \in Content /\ \A f \in Fields \ q.given : Merge(q, base)[f] = base[f]
BY DEF Merge, Content, SetReq

\* What is left out of a row is emptied, and the rest stays.
LEMMA WithoutIsTyped ==
    ASSUME NEW gone, NEW content \in Content
    PROVE  /\ Without(gone, content) \in Content
           /\ \A f \in Fields : Without(gone, content)[f] = IF f \in gone THEN 0 ELSE content[f]
BY SettingsBounds DEF Without, Content

\* A row is written: what was not given changes in no other way than the property names.
LEMMA RowWritten ==
    ASSUME SetInv, NEW r \in SetReqs, WriteRow(r)
    PROVE  /\ setting' \in [SettingRows -> Content]
           /\ setReq[r].pc = "patch" /\ setReq[r].row \in SettingRows
           /\ \A k \in SettingRows \ {setReq[r].row} : setting'[k] = setting[k]
           /\ \A f \in Fields : \/ setting'[setReq[r].row][f] = setting[setReq[r].row][f]
                                \/ f \in setReq[r].given
                                \/ f \in Emptied(setReq[r]) /\ setting'[setReq[r].row][f] = 0
                                \/ Overtaken(r, setReq[r].row)
<1> DEFINE q == setReq[r]
           c == CASE q.row = "system" -> SaveSystemConfig(q)
                  [] q.row = "app_providers" -> SaveAppProviders(q)
                  [] q.row = "deploy" -> SaveDeployConfig(q)
                  [] q.row = "provider" -> SaveAuthProvider(q)
                  [] q.row = "brand" -> SaveBrandConfig(q)
                  [] q.row = "ai" -> SaveAIProvider(q)
<1>1. q \in SetReq /\ q.row \in SettingRows /\ q.read \in Content /\ setting[q.row] \in Content /\ q.pc = "patch"
      /\ SetTypeOK /\ ReadIsCurrent(r)
  BY DEF SetInv, SetTypeOK, SetReq, WriteRow
<1>2. setting' = [setting EXCEPT ![q.row] = c]
  BY DEF WriteRow
<1>3. PICK base \in {q.read, setting[q.row]} :
        /\ q.row \in {"brand", "ai"} => base = setting[q.row]
        /\ c \in Content
        /\ \/ c = setting[q.row]
           \/ \A f \in Fields \ q.given : c[f] = base[f] \/ (f \in Emptied(q) /\ c[f] = 0)
  <2>1. CASE q.row = "system"
    <3> DEFINE gone == IF "public" \in q.given THEN q.along \ q.given ELSE q.along
               m == Merge(q, q.read)
    <3>1. c = Without(gone, m) /\ m \in Content /\ \A f \in Fields \ q.given : m[f] = q.read[f]
      BY <1>1, <2>1, MergeIsTyped DEF SaveSystemConfig
    <3>2. \A f \in Fields \ q.given : f \in gone => f \in Emptied(q)
      BY <2>1 DEF Emptied
    <3> HIDE DEF c, gone, m
    <3>3. c \in Content /\ \A f \in Fields : c[f] = IF f \in gone THEN 0 ELSE m[f]
      BY <3>1, WithoutIsTyped
    <3> QED
      BY <2>1, <3>1, <3>2, <3>3
  <2>2. CASE q.row = "app_providers"
    <3> DEFINE gone == Fields \ q.along
               m == Merge(q, q.read)
    <3>1. c = Without(gone, m) /\ m \in Content /\ \A f \in Fields \ q.given : m[f] = q.read[f]
      BY <1>1, <2>2, MergeIsTyped DEF SaveAppProviders
    <3>2. gone = Emptied(q)
      BY <2>2 DEF Emptied
    <3> HIDE DEF c, gone, m
    <3>3. c \in Content /\ \A f \in Fields : c[f] = IF f \in gone THEN 0 ELSE m[f]
      BY <3>1, WithoutIsTyped
    <3> QED
      BY <2>2, <3>1, <3>2, <3>3
  <2>3. CASE q.row = "deploy"
    BY <1>1, <2>3, MergeIsTyped DEF SaveDeployConfig
  <2>4. CASE q.row = "provider"
    <3>1. c = SaveAuthProvider(q)
      BY <2>4
    <3>2. CASE q.given = {} /\ q.failed
      BY <1>1, <2>4, <3>1, <3>2 DEF SaveAuthProvider
    <3>3. CASE ~(q.given = {} /\ q.failed)
      <4>1. c = Merge(q, q.read)
        BY <3>1, <3>3 DEF SaveAuthProvider
      <4> QED
        BY <1>1, <2>4, <4>1, MergeIsTyped
    <3> QED
      BY <3>2, <3>3
  <2>5. CASE q.row \in {"brand", "ai"}
    <3>1. c = Merge(q, setting[q.row])
      BY <2>5 DEF SaveBrandConfig, SaveAIProvider
    <3> QED
      BY <1>1, <2>5, <3>1, MergeIsTyped
  <2> QED
    BY <1>1, <2>1, <2>2, <2>3, <2>4, <2>5 DEF SettingRows
<1> HIDE DEF c
<1>5. setting' \in [SettingRows -> Content] /\ setting'[q.row] = c /\ \A k \in SettingRows \ {q.row} : setting'[k] = setting[k]
  BY <1>1, <1>2, <1>3 DEF SetTypeOK
<1>6. \A f \in Fields : \/ c[f] = setting[q.row][f] \/ f \in q.given
                        \/ f \in Emptied(q) /\ c[f] = 0
                        \/ Overtaken(r, q.row)
  BY <1>1, <1>3 DEF ReadIsCurrent, Overtaken
<1> QED
  BY <1>1, <1>5, <1>6

\* Every operation on a setting keeps the invariant.
LEMMA SetStepInv == SetInv /\ [SetNext]_setVars => SetInv'
<1> SUFFICES ASSUME SetInv, [SetNext]_setVars PROVE SetInv'
  OBVIOUS
<1> USE SettingsBounds
<1>0. /\ SetTypeOK /\ patches \in 0 .. MaxEdits /\ (~hub.on => hub.installed = NoHub)
      /\ hub \in [on : BOOLEAN, app : HubOrNone, key : HubOrNone, installed : HubOrNone]
      /\ \A r \in SetReqs : ReadIsCurrent(r) /\ AppIsVerified(r) /\ setReq[r] \in SetReq
      /\ \A k \in SettingRows : setting[k] \in Content
  BY DEF SetInv, SetTypeOK
<1>1. ASSUME NEW r \in SetReqs, NEW g \in SUBSET Fields, NEW along \in SUBSET Fields,
             \/ UpdateSystemConfig(r, g, along) \/ UpdateAppAuthProviders(r, g, along) \/ UpdateFields(r, g)
             \/ UpsertAuthProvider(r, g) \/ UpdateConfig(r, g) \/ UpsertAIProvider(r, g)
      PROVE  SetInv'
  <2>1. PICK k \in SettingRows, held \in SUBSET Fields, read \in Content, failed \in BOOLEAN :
          /\ Patch(r, k, g, held, read, failed)
          /\ k \in {"brand", "ai"} \/ failed \/ read = setting[k]
    <3>1. {"system", "brand", "provider", "app_providers", "deploy", "ai"} \subseteq SettingRows /\ Blank \in Content
      BY SetIdleIsTyped DEF SettingRows
    <3> QED
      BY <1>0, <1>1, <3>1 DEF UpdateSystemConfig, UpdateAppAuthProviders, UpdateFields, UpsertAuthProvider, UpdateConfig, UpsertAIProvider
  <2> QED
    BY <2>1, PatchSent
<1>2. ASSUME NEW r \in SetReqs, UpsertConfig(r) PROVE SetInv'
  <2>1. "deploy" \in SettingRows /\ Blank \in Content /\ Fields \in SUBSET Fields /\ Fields \ Fields = {}
    BY SetIdleIsTyped DEF SettingRows
  <2> QED
    BY <1>2, <2>1, PatchSent DEF UpsertConfig
<1>3. ASSUME NEW r \in SetReqs, NEW a \in HubApps, NEW h \in HubOrNone, VerifyAppCredentials(r, a, h) PROVE SetInv'
  <2> DEFINE k == [SetIdle EXCEPT !.pc = "save_app", !.app = a, !.key = h]
  <2>1. k \in SetReq /\ k.pc = "save_app" /\ k.row = "system" /\ k.app = a /\ k.key = h
    BY SetIdleIsTyped DEF SetReq, HubOrNone
  <2>2. /\ setReq' = [setReq EXCEPT ![r] = k] /\ UNCHANGED <<setting, patches, hub>>
        /\ h # NoHub => a = h
        /\ h = NoHub => hub.on /\ hub.key = a
    BY <1>3 DEF VerifyAppCredentials, VerifyKey, Sends
  <2> HIDE DEF k
  <2> QED
    BY <1>0, <2>1, <2>2, SettingSent
<1>4. ASSUME NEW r \in SetReqs, InstallCallback(r) PROVE SetInv'
  <2> DEFINE k == [SetIdle EXCEPT !.pc = "install", !.app = hub.app]
  <2>1. k \in SetReq /\ k.pc = "install" /\ k.row = "system" /\ k.app = hub.app
    BY <1>0, SetIdleIsTyped DEF SetReq
  <2>2. setReq' = [setReq EXCEPT ![r] = k] /\ UNCHANGED <<setting, patches, hub>>
    BY <1>4 DEF InstallCallback, Sends
  <2> HIDE DEF k
  <2> QED
    BY <1>0, <2>1, <2>2, SettingSent
<1>5. ASSUME NEW r \in SetReqs, AbandonSetting(r) PROVE SetInv'
  BY <1>0, <1>5, SettingSent, SetIdleIsTyped DEF AbandonSetting
<1>6. ASSUME NEW r \in SetReqs, WriteRow(r) PROVE SetInv'
  <2>1. Writes(r, {"patch"}) /\ UNCHANGED <<patches, hub>>
    BY <1>6 DEF WriteRow
  <2>2. SetTypeOK'
    BY <1>0, <1>6, <2>1, RowWritten, WriteIsMarked DEF SetTypeOK
  <2>3. ASSUME NEW q \in SetReqs PROVE ReadIsCurrent(q)' /\ AppIsVerified(q)'
    <3>1. CASE q = r
      BY <1>0, <2>1, <3>1, SetIdleIsTyped, WriteIsMarked DEF ReadIsCurrent, AppIsVerified
    <3>2. CASE q # r
      <4>1. /\ setReq'[q].pc = setReq[q].pc /\ setReq'[q].row = setReq[q].row /\ setReq'[q].given = setReq[q].given
            /\ setReq'[q].read = setReq[q].read /\ setReq'[q].failed = setReq[q].failed
            /\ setReq'[q].app = setReq[q].app /\ setReq'[q].key = setReq[q].key
            /\ setReq[q].overtaken => setReq'[q].overtaken
            /\ setReq[q].pc = "patch" /\ setReq[q].row = setReq[r].row => setReq'[q].overtaken
        BY <1>0, <2>1, <3>2, WriteIsMarked
      <4>2. setReq[q].row # setReq[r].row => setting'[setReq[q].row] = setting[setReq[q].row]
        BY <1>0, <1>6, RowWritten DEF SetReq
      <4> QED
        BY <1>0, <2>1, <4>1, <4>2 DEF ReadIsCurrent, AppIsVerified
    <3> QED
      BY <3>1, <3>2
  <2> QED
    BY <1>0, <2>1, <2>2, <2>3 DEF SetInv
\* The App of GitHub: a write that changes it marks who read it.
<1>7. ASSUME NEW r \in SetReqs, NEW pcs, Writes(r, pcs), UNCHANGED <<setting, patches>>, setReq[r].row = "system",
             hub' \in [on : BOOLEAN, app : HubOrNone, key : HubOrNone, installed : HubOrNone],
             ~hub'.on => hub'.installed = NoHub,
             {"save_app", "install"} \subseteq pcs \/ (hub'.on = hub.on /\ hub'.app = hub.app /\ hub'.key = hub.key)
      PROVE  SetInv'
  <2>1. SetTypeOK'
    BY <1>0, <1>7, WriteIsMarked DEF SetTypeOK
  <2>2. ASSUME NEW q \in SetReqs PROVE ReadIsCurrent(q)' /\ AppIsVerified(q)'
    <3>1. CASE q = r
      BY <1>0, <1>7, <3>1, SetIdleIsTyped, WriteIsMarked DEF ReadIsCurrent, AppIsVerified
    <3>2. CASE q # r
      <4>1. /\ setReq'[q].pc = setReq[q].pc /\ setReq'[q].row = setReq[q].row /\ setReq'[q].given = setReq[q].given
            /\ setReq'[q].read = setReq[q].read /\ setReq'[q].failed = setReq[q].failed
            /\ setReq'[q].app = setReq[q].app /\ setReq'[q].key = setReq[q].key
            /\ setReq[q].overtaken => setReq'[q].overtaken
            /\ setReq[q].pc \in pcs /\ setReq[q].row = "system" => setReq'[q].overtaken
        BY <1>0, <1>7, <3>2, WriteIsMarked
      <4>2. ReadIsCurrent(q)'
        <5>1. ReadIsCurrent(q) /\ setting' = setting
          BY <1>0, <1>7
        <5> QED
          BY <4>1, <5>1 DEF ReadIsCurrent
      <4>3. AppIsVerified(q)'
        BY <1>0, <1>7, <4>1 DEF AppIsVerified
      <4> QED
        BY <4>2, <4>3
    <3> QED
      BY <3>1, <3>2
  <2> QED
    BY <1>7, <2>1, <2>2 DEF SetInv
<1>8. ASSUME NEW r \in SetReqs, UpsertGitHubConfig(r) PROVE SetInv'
  <2>1. /\ setReq[r].pc = "save_app" /\ Writes(r, {"save_app", "install"}) /\ UNCHANGED <<setting, patches>>
        /\ hub' = [on |-> TRUE, app |-> setReq[r].app, key |-> IF setReq[r].key = NoHub THEN hub.key ELSE setReq[r].key,
                   installed |-> hub.installed]
    BY <1>8 DEF UpsertGitHubConfig
  <2>2. hub' \in [on : BOOLEAN, app : HubOrNone, key : HubOrNone, installed : HubOrNone] /\ hub'.on
    BY <1>0, <2>1 DEF SetReq
  <2> QED
    BY <1>0, <1>7, <2>1, <2>2 DEF AppIsVerified
<1>9. ASSUME NEW r \in SetReqs, UpdateGitHubInstallation(r) PROVE SetInv'
  <2>1. /\ setReq[r].pc = "install" /\ Writes(r, {}) /\ UNCHANGED <<setting, patches>>
        /\ hub' = IF hub.on THEN [hub EXCEPT !.installed = setReq[r].app] ELSE hub
    BY <1>9 DEF UpdateGitHubInstallation
  <2>2. /\ hub' \in [on : BOOLEAN, app : HubOrNone, key : HubOrNone, installed : HubOrNone]
        /\ hub'.on = hub.on /\ hub'.app = hub.app /\ hub'.key = hub.key /\ (~hub.on => hub' = hub)
    BY <1>0, <2>1 DEF SetReq
  <2> QED
    BY <1>0, <1>7, <2>1, <2>2 DEF AppIsVerified
<1>10. ASSUME NEW r \in SetReqs, DeleteGitHubConfig(r) PROVE SetInv'
  <2>1. /\ setReq[r].pc = "idle" /\ Writes(r, {"save_app", "install"}) /\ UNCHANGED <<setting, patches>>
        /\ hub' = [on |-> FALSE, app |-> NoHub, key |-> NoHub, installed |-> NoHub]
    BY <1>10 DEF DeleteGitHubConfig
  <2>2. hub' \in [on : BOOLEAN, app : HubOrNone, key : HubOrNone, installed : HubOrNone] /\ hub'.installed = NoHub
    BY <2>1 DEF HubOrNone
  <2> QED
    BY <1>0, <1>7, <2>1, <2>2 DEF AppIsVerified
<1>11. CASE UNCHANGED setVars
  BY <1>0, <1>11 DEF setVars, SetInv, SetTypeOK, ReadIsCurrent, AppIsVerified
<1> QED
  BY <1>1, <1>2, <1>3, <1>4, <1>5, <1>6, <1>8, <1>9, <1>10, <1>11 DEF SetNext

\* The invariant holds for a platform that was never configured.
LEMMA SetStart == SetInit => SetInv
<1> SUFFICES ASSUME SetInit PROVE SetInv
  OBVIOUS
<1>1. SetTypeOK
  BY SettingsBounds, SetIdleIsTyped DEF SetInit, SetTypeOK, HubOrNone
<1>2. \A r \in SetReqs : ReadIsCurrent(r) /\ AppIsVerified(r)
  BY SetIdleIsTyped DEF SetInit, ReadIsCurrent, AppIsVerified
<1> QED
  BY <1>1, <1>2 DEF SetInit, SetInv

\* A setting that a patch leaves out is lost to a patch that was saved between the read and the
\* write, or to a provider that could not be read; or it is emptied with the storage
\* configuration that is replaced, or with the provider that is not mentioned.
THEOREM LostSettings == SetSpec => LostSettingIsARace
<1>1. ASSUME SetInv, SetNext, NEW k \in SettingRows, NEW f \in Fields, setting'[k][f] # setting[k][f]
      PROVE  \E r \in SetReqs :
              /\ setReq[r].pc = "patch" /\ setReq[r].row = k
              /\ \/ f \in setReq[r].given
                 \/ f \in Emptied(setReq[r]) /\ setting'[k][f] = 0
                 \/ Overtaken(r, k)
  <2>1. PICK r \in SetReqs : WriteRow(r)
    BY <1>1 DEF SetNext, UpdateSystemConfig, UpdateAppAuthProviders, UpdateFields, UpsertAuthProvider, UpdateConfig, UpsertAIProvider,
                UpsertConfig, Patch, VerifyAppCredentials, VerifyKey, UpsertGitHubConfig, InstallCallback, UpdateGitHubInstallation,
                DeleteGitHubConfig, AbandonSetting
  <2> QED
    BY <1>1, <2>1, RowWritten
<1>2. SetInv /\ [SetNext]_setVars =>
        [\A k \in SettingRows, f \in Fields : setting'[k][f] # setting[k][f] =>
          \E r \in SetReqs :
              /\ setReq[r].pc = "patch" /\ setReq[r].row = k
              /\ \/ f \in setReq[r].given
                 \/ f \in Emptied(setReq[r]) /\ setting'[k][f] = 0
                 \/ Overtaken(r, k)]_setVars
  BY <1>1
<1> QED
  BY <1>2, SetStart, SetStepInv, PTL DEF SetSpec, LostSettingIsARace

\* The App of GitHub, its key and its installation come apart only when requests overlap, or
\* when the App is switched under its installation.
THEOREM AppDrift == SetSpec => AppDriftIsARace
<1>1. ASSUME SetInv, SetNext
      PROVE  /\ hub'.on /\ hub'.app # hub'.key /\ (hub.on => hub.app = hub.key)
                => \E r \in SetReqs : setReq[r].pc = "save_app" /\ setReq[r].key = NoHub /\ setReq[r].overtaken
             /\ hub'.installed \notin {NoHub, hub'.app} /\ hub.installed \in {NoHub, hub.app}
                => \E r \in SetReqs : \/ setReq[r].pc = "save_app" /\ hub.on /\ hub.app # setReq[r].app
                                      \/ setReq[r].pc = "install" /\ setReq[r].overtaken
  <2>0. /\ \A r \in SetReqs : AppIsVerified(r) /\ (~hub.on => hub.installed = NoHub)
        /\ hub \in [on : BOOLEAN, app : HubOrNone, key : HubOrNone, installed : HubOrNone]
    BY <1>1 DEF SetInv, SetTypeOK
  <2>1. CASE hub' = hub
    BY <2>1
  <2>2. CASE \E r \in SetReqs : UpsertGitHubConfig(r)
    <3>1. PICK r \in SetReqs : UpsertGitHubConfig(r)
      BY <2>2
    <3>2. /\ setReq[r].pc = "save_app"
          /\ hub'.app = setReq[r].app /\ hub'.installed = hub.installed
          /\ hub'.key = IF setReq[r].key = NoHub THEN hub.key ELSE setReq[r].key
      BY <3>1 DEF UpsertGitHubConfig
    <3> QED
      BY <2>0, <3>2 DEF AppIsVerified
  <2>3. CASE \E r \in SetReqs : UpdateGitHubInstallation(r)
    <3>1. PICK r \in SetReqs : UpdateGitHubInstallation(r)
      BY <2>3
    <3>2. /\ setReq[r].pc = "install"
          /\ hub' = hub \/ (hub'.on = hub.on /\ hub'.app = hub.app /\ hub'.key = hub.key /\ hub.on /\ hub'.installed = setReq[r].app)
      BY <2>0, <3>1 DEF UpdateGitHubInstallation
    <3> QED
      BY <2>0, <2>1, <3>2 DEF AppIsVerified
  <2>4. CASE \E r \in SetReqs : DeleteGitHubConfig(r)
    BY <2>4 DEF DeleteGitHubConfig
  <2> QED
    BY <1>1, <2>1, <2>2, <2>3, <2>4 DEF SetNext, UpdateSystemConfig, UpdateAppAuthProviders, UpdateFields, UpsertAuthProvider,
                UpdateConfig, UpsertAIProvider, UpsertConfig, Patch, VerifyAppCredentials, VerifyKey, WriteRow, InstallCallback,
                AbandonSetting
<1>2. SetInv /\ [SetNext]_setVars =>
        [hub'.on /\ hub'.app # hub'.key /\ (hub.on => hub.app = hub.key)
           => \E r \in SetReqs : setReq[r].pc = "save_app" /\ setReq[r].key = NoHub /\ setReq[r].overtaken]_setVars
  BY <1>1
<1>3. SetInv /\ [SetNext]_setVars =>
        [hub'.installed \notin {NoHub, hub'.app} /\ hub.installed \in {NoHub, hub.app}
           => \E r \in SetReqs : \/ setReq[r].pc = "save_app" /\ hub.on /\ hub.app # setReq[r].app
                                 \/ setReq[r].pc = "install" /\ setReq[r].overtaken]_setVars
  BY <1>1
<1> QED
  BY <1>2, <1>3, SetStart, SetStepInv, PTL DEF SetSpec, AppDriftIsARace, UnverifiedPairIsARace, ForeignInstallationIsASwitch

-----------------------------------------------------------------------------
(* The chat that builds an app. A session that was never confirmed twice   *)
(* at once is in the hands of one request, which works on the app that the *)
(* session will record; of the tables of its plan, those that are no       *)
(* longer to do are there or were removed.                                 *)

Confirms(r) == buildReq[r].pc \in Confirming

\* Requests and sessions refer to sessions and apps that were created.
RequestRefers(r) ==
    /\ Confirms(r) \/ BuildAt(r, "model") => buildReq[r].chat \in 1 .. chats
    /\ BuildAt(r, "create") => buildReq[r].app = 0
    /\ buildReq[r].pc \in {"apply", "record", "tables", "table"} => buildReq[r].app \in 1 .. builds
    /\ BuildAt(r, "table") => buildReq[r].table \in PlanTables

BuildTyped ==
    /\ BuildTypeOK
    /\ \A r \in BuildReqs : RequestRefers(r)
    /\ \A s \in ChatIds :
        /\ chat[s].app \in 0 .. builds
        /\ s > chats => chat[s].status = "none"
        /\ chat[s].status = "completed" => chat[s].app # 0
    /\ \A a \in BuiltIds : a > builds => ~AppExists(a)

\* A session that was never confirmed twice at once is in the hands of one request, which
\* has recorded its app once it is past that.
ConfirmsAlone(r) ==
    Confirms(r) /\ buildReq[r].chat \notin contested =>
        /\ chat[buildReq[r].chat].status # "completed"
        /\ chat[buildReq[r].chat].app = IF buildReq[r].pc \in {"tables", "table"} THEN buildReq[r].app ELSE 0
        /\ \A q \in BuildReqs \ {r} : Confirms(q) => buildReq[q].chat # buildReq[r].chat

\* What is no longer to do is there, or was there and was removed.
DoneIsThere(r) ==
    LET q == buildReq[r] IN
    /\ q.pc \in {"create", "apply", "record"} => q.todo = q.plan.tables
    /\ q.pc \in {"tables", "table"} /\ AppExists(q.app) =>
        \A t \in q.plan.tables \ q.todo : t \in built[q.app].tables \/ <<q.app, t>> \in pruned

\* The inductive invariant.
BuildInv ==
    /\ BuildTyped
    /\ \A r \in BuildReqs : ConfirmsAlone(r) /\ DoneIsThere(r)
    /\ OrphanAppIsAccounted
    /\ CompletedBuildIsWhole

-----------------------------------------------------------------------------
\* A request goes on to another record, and the rest stay.
LEMMA BuildBecomes ==
    ASSUME BuildTypeOK, NEW r \in BuildReqs, NEW q \in BuildReq, BuildTo(r, q)
    PROVE  /\ buildReq' \in [BuildReqs -> BuildReq]
           /\ buildReq'[r] = q
           /\ \A s \in BuildReqs \ {r} : buildReq'[s] = buildReq[s]
BY DEF BuildTypeOK, BuildTo

\* The idle request is a request.
LEMMA BuildIdleIsTyped == BuildIdle \in BuildReq /\ BuildIdle.pc = "idle" /\ NoPlan \in Plan \cup {NoPlan}
<1>1. 0 \in 0 .. MaxChats /\ 0 \in 0 .. MaxBuilt
  BY BuildBounds
<1> QED
  BY <1>1 DEF BuildIdle, BuildReq

\* What a request that opens is.
LEMMA BuildOpened ==
    ASSUME NEW pc \in {"open", "insert", "model"}, NEW s \in 0 .. MaxChats
    PROVE  /\ [BuildIdle EXCEPT !.pc = pc] \in BuildReq /\ [BuildIdle EXCEPT !.pc = pc].pc = pc
           /\ [BuildIdle EXCEPT !.pc = pc, !.chat = s] \in BuildReq
           /\ [BuildIdle EXCEPT !.pc = pc, !.chat = s].pc = pc /\ [BuildIdle EXCEPT !.pc = pc, !.chat = s].chat = s
BY BuildIdleIsTyped DEF BuildReq

\* A step that neither builds nor completes anything, and leaves no request confirming.
LEMMA BuildQuiet ==
    ASSUME BuildInv, BuildTyped', NEW r \in BuildReqs,
           UNCHANGED <<built, builds, contested, pruned>>,
           \A s \in ChatIds : chat'[s].app = chat[s].app /\ chat'[s].done = chat[s].done
                              /\ (chat'[s].status = "completed" => chat[s].status = "completed"),
           unfinished \subseteq unfinished', cut \subseteq cut',
           buildReq[r].pc \in {"apply", "record"} => buildReq[r].app \in unfinished' \cup cut',
           ~Confirms(r)',
           \A q \in BuildReqs \ {r} : buildReq'[q] = buildReq[q]
    PROVE  BuildInv'
<1> USE BuildBounds
<1>1. ASSUME NEW q \in BuildReqs PROVE ConfirmsAlone(q)'
  <2>1. CASE q = r
    BY <2>1 DEF ConfirmsAlone, Confirms
  <2>2. CASE q # r /\ Confirms(q)
    <3>1. buildReq[q].chat \in ChatIds /\ ConfirmsAlone(q) /\ buildReq'[q] = buildReq[q]
      BY <2>2 DEF BuildInv, BuildTyped, RequestRefers, BuildTypeOK, ChatIds
    <3>2. \A p \in BuildReqs \ {r} : Confirms(p)' => Confirms(p)
      BY DEF Confirms
    <3> QED
      BY <2>2, <3>1, <3>2 DEF ConfirmsAlone, Confirms
  <2>3. CASE q # r /\ ~Confirms(q)
    BY <2>3 DEF ConfirmsAlone, Confirms
  <2> QED
    BY <2>1, <2>2, <2>3
<1>2. ASSUME NEW q \in BuildReqs PROVE DoneIsThere(q)'
  BY DEF BuildInv, DoneIsThere, Confirms, Confirming, AppExists
<1>3. OrphanAppIsAccounted'
  <2> SUFFICES ASSUME NEW a \in BuiltIds, AppExists(a)
               PROVE  MadeFor(a)' # {} \/ InHand(a)' \/ a \in (unfinished \cup cut)' \/ contested' # {}
    BY DEF OrphanAppIsAccounted, AppExists
  <2>1. MadeFor(a)' = MadeFor(a)
    BY DEF MadeFor
  <2>2. CASE InHand(a)
    <3>1. PICK q \in BuildReqs : Confirms(q) /\ buildReq[q].app = a
      BY <2>2 DEF InHand, Confirms
    <3>2. CASE q # r
      BY <3>1, <3>2 DEF InHand, Confirms
    <3>3. CASE q = r /\ buildReq[q].pc \in {"apply", "record"}
      BY <3>1, <3>3
    <3>4. CASE q = r /\ buildReq[q].pc \in {"tables", "table"}
      <4>1. buildReq[q].chat \in ChatIds /\ (buildReq[q].chat \notin contested => chat[buildReq[q].chat].app = a)
        BY <3>1, <3>4 DEF BuildInv, BuildTyped, RequestRefers, BuildTypeOK, ConfirmsAlone, ChatIds
      <4> QED
        BY <2>1, <4>1 DEF MadeFor
    <3>5. CASE BuildAt(q, "create")
      BY <3>1, <3>5 DEF BuildInv, BuildTyped, RequestRefers, BuiltIds
    <3> QED
      BY <3>1, <3>2, <3>3, <3>4, <3>5 DEF Confirms, Confirming, BuildAt
  <2> QED
    BY <2>1, <2>2 DEF BuildInv, OrphanAppIsAccounted
<1>4. CompletedBuildIsWhole'
  BY DEF BuildInv, CompletedBuildIsWhole, AppExists
<1> QED
  BY <1>1, <1>2, <1>3, <1>4 DEF BuildInv

\* Every operation of the chat, and every removal behind it, keeps the invariant.
LEMMA BuildStepInv == BuildInv /\ [BuildNext]_buildVars => BuildInv'
<1> SUFFICES ASSUME BuildInv, [BuildNext]_buildVars PROVE BuildInv'
  OBVIOUS
<1> USE BuildBounds
<1>0. /\ BuildTyped /\ BuildTypeOK /\ OrphanAppIsAccounted /\ CompletedBuildIsWhole
      /\ \A r \in BuildReqs : ConfirmsAlone(r) /\ DoneIsThere(r) /\ buildReq[r] \in BuildReq
      /\ \A s \in ChatIds : chat[s] \in Chat
      /\ chats \in 0 .. MaxChats /\ builds \in 0 .. MaxBuilt
  BY DEF BuildInv, BuildTyped, RequestRefers, BuildTypeOK
\* Quiet steps.
<1>1. ASSUME NEW r \in BuildReqs, NEW q \in BuildReq, BuildTo(r, q), q.pc \in {"idle", "open", "insert", "model"},
             q.pc = "model" => q.chat \in 1 .. chats',
             chats' \in 0 .. MaxChats, chats <= chats',
             chat' \in [ChatIds -> Chat],
             \A s \in ChatIds : /\ chat'[s].app = chat[s].app /\ chat'[s].done = chat[s].done
                                /\ chat'[s].status = "completed" => chat[s].status = "completed"
                                /\ s > chats' => chat'[s].status = chat[s].status,
             UNCHANGED <<built, builds, contested, pruned>>,
             unfinished \subseteq unfinished', cut \subseteq cut', unfinished' \cup cut' \subseteq BuiltIds,
             buildReq[r].pc \in {"apply", "record"} => buildReq[r].app \in unfinished' \cup cut'
      PROVE  BuildInv'
  <2>1. buildReq' \in [BuildReqs -> BuildReq] /\ buildReq'[r] = q /\ \A s \in BuildReqs \ {r} : buildReq'[s] = buildReq[s]
    BY <1>0, <1>1, BuildBecomes
  <2>2. BuildTypeOK'
    BY <1>0, <1>1, <2>1 DEF BuildTypeOK
  <2>3. ASSUME NEW s \in BuildReqs PROVE RequestRefers(s)'
    <3>1. CASE s = r
      BY <1>1, <2>1, <3>1 DEF RequestRefers, Confirms, Confirming, BuildAt
    <3>2. CASE s # r
      BY <1>0, <1>1, <2>1, <3>2 DEF BuildTyped, RequestRefers, Confirms, BuildAt
    <3> QED
      BY <3>1, <3>2
  <2>4. BuildTyped'
    <3>1. ASSUME NEW s \in ChatIds
          PROVE  /\ chat'[s].app \in 0 .. builds'
                 /\ s > chats' => chat'[s].status = "none"
                 /\ chat'[s].status = "completed" => chat'[s].app # 0
      BY <1>0, <1>1 DEF BuildTyped, ChatIds
    <3>2. ASSUME NEW a \in BuiltIds PROVE a > builds' => ~AppExists(a)'
      BY <1>0, <1>1 DEF BuildTyped, AppExists
    <3> QED
      BY <2>2, <2>3, <3>1, <3>2 DEF BuildTyped
  <2>5. ~Confirms(r)'
    BY <1>1, <2>1 DEF Confirms, Confirming
  <2> QED
    BY <1>1, <2>1, <2>4, <2>5, BuildQuiet
<1>2. ASSUME NEW r \in BuildReqs, GetBuildChatSession(r) \/ BuildChatTurn(r) PROVE BuildInv'
  <2>1. UNCHANGED <<chat, chats, built, builds, unfinished, cut, contested, pruned>> /\ BuildAt(r, "idle")
    BY <1>2 DEF GetBuildChatSession, BuildChatTurn, GetOrCreateInProgressSession
  <2>2. PICK q \in BuildReq : BuildTo(r, q) /\ q.pc \in {"idle", "open", "insert", "model"} /\ (q.pc = "model" => q.chat \in 1 .. chats)
    <3>0. 0 \in 0 .. MaxChats
      OBVIOUS
    <3>1. CASE BuildTo(r, BuildIdle)
      BY <3>1, BuildIdleIsTyped
    <3>2. CASE \E pc \in {"open", "insert"} : BuildTo(r, [BuildIdle EXCEPT !.pc = pc])
      BY <3>0, <3>2, BuildOpened
    <3>3. CASE \E s \in InProgress : BuildTo(r, [BuildIdle EXCEPT !.pc = "model", !.chat = s])
      <4>1. PICK s \in InProgress : BuildTo(r, [BuildIdle EXCEPT !.pc = "model", !.chat = s])
        BY <3>3
      <4>2. s \in 1 .. chats /\ s \in 0 .. MaxChats
        BY <1>0, <4>1 DEF InProgress, ChatIds, BuildTyped, RequestRefers
      <4> DEFINE k == [BuildIdle EXCEPT !.pc = "model", !.chat = s]
      <4>3. k \in BuildReq /\ k.pc = "model" /\ k.chat = s
        BY <4>2, BuildOpened
      <4>4. BuildTo(r, k)
        BY <4>1
      <4> HIDE DEF k
      <4> QED
        BY <4>2, <4>3, <4>4
    <3> QED
      BY <1>2, <3>1, <3>2, <3>3 DEF GetBuildChatSession, BuildChatTurn, GetOrCreateInProgressSession
  <2> QED
    BY <1>0, <1>1, <2>1, <2>2 DEF BuildTypeOK, BuildAt
<1>3. ASSUME NEW r \in BuildReqs, CreateSession(r) PROVE BuildInv'
  <2>1. /\ chats' = chats + 1 /\ chats + 1 \in ChatIds /\ chats' \in 0 .. MaxChats /\ chats + 1 \in 0 .. MaxChats
        /\ UNCHANGED <<built, builds, unfinished, cut, contested, pruned>>
        /\ buildReq[r].pc \in {"open", "insert"}
    BY <1>0, <1>3 DEF CreateSession, ChatIds
  <2>2. PICK q \in BuildReq : BuildTo(r, q) /\ q.pc \in {"idle", "model"} /\ (q.pc = "model" => q.chat = chats + 1)
    <3>1. CASE BuildAt(r, "open")
      BY <1>3, <3>1, BuildIdleIsTyped DEF CreateSession
    <3>2. CASE ~BuildAt(r, "open")
      <4> DEFINE k == [BuildIdle EXCEPT !.pc = "model", !.chat = chats + 1]
      <4>1. k \in BuildReq /\ k.pc = "model" /\ k.chat = chats + 1
        BY <2>1, BuildOpened
      <4>2. BuildTo(r, k)
        BY <1>3, <3>2 DEF CreateSession
      <4> HIDE DEF k
      <4> QED
        BY <4>1, <4>2
    <3> QED
      BY <3>1, <3>2
  <2>3. /\ chat' \in [ChatIds -> Chat]
        /\ \A s \in ChatIds : /\ chat'[s].app = chat[s].app /\ chat'[s].done = chat[s].done
                              /\ chat'[s].status \in {chat[s].status, "in_progress"}
                              /\ s > chats' => chat'[s].status = chat[s].status
    <3>1. chat' = [chat EXCEPT ![chats + 1].status = "in_progress"] /\ chats + 1 \in ChatIds /\ chat[chats + 1] \in Chat
      BY <1>0, <1>3, <2>1 DEF CreateSession
    <3> DEFINE c == [chat[chats + 1] EXCEPT !.status = "in_progress"]
    <3>2. c \in Chat /\ c.status = "in_progress" /\ c.app = chat[chats + 1].app /\ c.done = chat[chats + 1].done
      BY <3>1 DEF Chat
    <3>3. chat' = [chat EXCEPT ![chats + 1] = c]
      BY <1>0, <3>1 DEF BuildTypeOK
    <3> HIDE DEF c
    <3> QED
      BY <1>0, <2>1, <3>1, <3>2, <3>3 DEF BuildTypeOK, ChatIds
  <2> QED
    BY <1>0, <1>1, <2>1, <2>2, <2>3 DEF BuildTypeOK, ChatIds
<1>4. ASSUME NEW r \in BuildReqs, RestartBuildChatSession(r) PROVE BuildInv'
  <2>1. UNCHANGED <<chats, built, builds, unfinished, cut, contested, pruned>> /\ BuildAt(r, "idle")
    BY <1>4 DEF RestartBuildChatSession
  <2>2. PICK q \in BuildReq : BuildTo(r, q) /\ q.pc = "open"
    <3>1. 0 \in 0 .. MaxChats
      OBVIOUS
    <3> QED
      BY <1>4, <3>1, BuildOpened DEF RestartBuildChatSession
  <2>3. /\ chat' \in [ChatIds -> Chat]
        /\ \A s \in ChatIds : /\ chat'[s].app = chat[s].app /\ chat'[s].done = chat[s].done
                              /\ chat'[s].status = chat[s].status \/ (chat[s].status = "in_progress" /\ chat'[s].status = "abandoned")
    BY <1>0, <1>4 DEF RestartBuildChatSession, InProgress, Chat
  <2>4. \A s \in ChatIds : s > chats => chat'[s].status = chat[s].status
    BY <1>0, <2>3 DEF BuildTyped, RequestRefers
  <2> QED
    BY <1>0, <1>1, <2>1, <2>2, <2>3, <2>4 DEF BuildTypeOK, BuildAt
<1>5. ASSUME NEW r \in BuildReqs, ProposePlan(r) PROVE BuildInv'
  <2>1. UNCHANGED <<chats, built, builds, unfinished, cut, contested, pruned>> /\ BuildAt(r, "model") /\ BuildTo(r, BuildIdle)
    BY <1>5 DEF ProposePlan
  <2>2. PICK p \in Plan \cup {NoPlan}, s \in ChatIds :
            chat' = [chat EXCEPT ![s].plan = IF p = NoPlan THEN @ ELSE p]
    <3>1. buildReq[r].chat \in ChatIds
      BY <1>0, <2>1 DEF BuildTyped, RequestRefers, ChatIds
    <3> QED
      BY <1>5, <3>1 DEF ProposePlan, CallModel
  <2>3. /\ chat' \in [ChatIds -> Chat]
        /\ \A t \in ChatIds : chat'[t].app = chat[t].app /\ chat'[t].done = chat[t].done /\ chat'[t].status = chat[t].status
    BY <1>0, <2>2 DEF BuildTypeOK, Chat
  <2> QED
    BY <1>0, <1>1, <2>1, <2>3, BuildIdleIsTyped DEF BuildTypeOK, BuildAt
<1>6. ASSUME NEW r \in BuildReqs, BuildRequestEnds(r) PROVE BuildInv'
  <2>1. UNCHANGED <<chat, chats, built, builds, unfinished, contested, pruned>> /\ BuildTo(r, BuildIdle)
    BY <1>6 DEF BuildRequestEnds
  <2>2. /\ cut \subseteq cut' /\ cut' \subseteq BuiltIds
        /\ buildReq[r].pc \in {"apply", "record"} => buildReq[r].app \in cut'
    BY <1>0, <1>6 DEF BuildRequestEnds, BuildTyped, RequestRefers, BuildTypeOK, BuiltIds
  <2> QED
    BY <1>0, <1>1, <2>1, <2>2, BuildIdleIsTyped DEF BuildTypeOK
<1>7. ASSUME NEW r \in BuildReqs, ApplySchemaFails(r) PROVE BuildInv'
  <2>1. UNCHANGED <<chat, chats, built, builds, cut, contested, pruned>> /\ BuildTo(r, BuildIdle) /\ BuildAt(r, "apply")
    BY <1>7 DEF ApplySchemaFails
  <2>2. unfinished' = unfinished \cup {buildReq[r].app} /\ buildReq[r].app \in BuiltIds
    BY <1>0, <1>7 DEF ApplySchemaFails, BuildTyped, RequestRefers, BuiltIds, BuildAt
  <2> QED
    BY <1>0, <1>1, <2>1, <2>2, BuildIdleIsTyped DEF BuildTypeOK
<1>8. ASSUME NEW r \in BuildReqs, BuildChatConfirm(r) PROVE BuildInv'
  <2>1. PICK s \in ChatIds :
          /\ chat[s].status = "in_progress"
          /\ BuildTo(r, [BuildIdle EXCEPT !.pc = IF chat[s].app = 0 THEN "create" ELSE "tables", !.chat = s,
                                          !.app = chat[s].app, !.plan = chat[s].plan, !.todo = chat[s].plan.tables])
          /\ contested' = IF \E o \in BuildReqs : buildReq[o].pc \in Confirming /\ buildReq[o].chat = s
                          THEN contested \cup {s} ELSE contested
    BY <1>8 DEF BuildChatConfirm, InProgress
  <2>2. UNCHANGED <<chat, chats, built, builds, unfinished, cut, pruned>> /\ BuildAt(r, "idle")
    BY <1>8 DEF BuildChatConfirm
  <2>3. s \in 1 .. chats /\ s \in 0 .. MaxChats /\ chat[s].app \in 0 .. builds /\ chat[s].app \in 0 .. MaxBuilt
    BY <1>0, <2>1 DEF BuildTyped, RequestRefers, ChatIds
  <2> DEFINE k == [BuildIdle EXCEPT !.pc = IF chat[s].app = 0 THEN "create" ELSE "tables", !.chat = s,
                                    !.app = chat[s].app, !.plan = chat[s].plan, !.todo = chat[s].plan.tables]
  <2>4. /\ k.pc = (IF chat[s].app = 0 THEN "create" ELSE "tables") /\ k.chat = s
        /\ k.app = chat[s].app /\ k.todo = k.plan.tables
    BY BuildIdleIsTyped DEF BuildReq
  <2>5. k \in BuildReq
    <3>1. chat[s].plan \in Plan \cup {NoPlan} /\ chat[s].plan.tables \in SUBSET PlanTables
      BY <1>0, <2>1 DEF Chat, Plan, NoPlan
    <3>2. chat[s].app \in 0 .. MaxBuilt /\ s \in 0 .. MaxChats
      BY <2>3
    <3> QED
      BY <3>1, <3>2, BuildIdleIsTyped DEF BuildReq
  <2>6. BuildTo(r, k)
    BY <2>1
  <2> HIDE DEF k
  <2>7. /\ buildReq' \in [BuildReqs -> BuildReq]
        /\ buildReq'[r] = k
        /\ \A q \in BuildReqs \ {r} : buildReq'[q] = buildReq[q]
    BY <1>0, <2>5, <2>6, BuildBecomes
  <2>8. /\ contested \subseteq contested' /\ contested' \subseteq ChatIds /\ contested' \subseteq contested \cup {s}
        /\ \A o \in BuildReqs : Confirms(o) /\ buildReq[o].chat = s => s \in contested'
    BY <1>0, <2>1 DEF BuildTypeOK, Confirms
  <2>9. BuildTyped'
    <3>1. BuildTypeOK'
      BY <1>0, <2>2, <2>7, <2>8 DEF BuildTypeOK
    <3>2. ASSUME NEW q \in BuildReqs PROVE RequestRefers(q)'
      <4>1. CASE q = r
        BY <2>2, <2>3, <2>4, <2>7, <4>1 DEF RequestRefers, BuildAt
      <4>2. CASE q # r
        BY <1>0, <2>2, <2>7, <4>2 DEF BuildTyped, RequestRefers, Confirms, BuildAt
      <4> QED
        BY <4>1, <4>2
    <3> QED
      BY <1>0, <2>2, <3>1, <3>2 DEF BuildTyped, RequestRefers, AppExists
  <2>10. ASSUME NEW q \in BuildReqs PROVE ConfirmsAlone(q)' /\ DoneIsThere(q)'
    <3>1. CASE q = r
      <4>1. ConfirmsAlone(q)'
        BY <2>1, <2>2, <2>4, <2>7, <2>8, <3>1 DEF ConfirmsAlone, Confirms
      <4>2. DoneIsThere(q)'
        BY <2>4, <2>7, <3>1 DEF DoneIsThere
      <4> QED
        BY <4>1, <4>2
    <3>2. CASE q # r
      BY <1>0, <2>2, <2>4, <2>7, <2>8, <3>2 DEF ConfirmsAlone, Confirms, DoneIsThere, AppExists
    <3> QED
      BY <3>1, <3>2
  <2>11. OrphanAppIsAccounted'
    BY <1>0, <2>2, <2>7, <2>8 DEF OrphanAppIsAccounted, AppExists, MadeFor, InHand, BuildAt, Confirming
  <2>12. CompletedBuildIsWhole'
    BY <1>0, <2>2, <2>8 DEF CompletedBuildIsWhole, AppExists
  <2> QED
    BY <2>9, <2>10, <2>11, <2>12 DEF BuildInv
\* A request goes on with its confirmation, and at most an app or a table is added.
<1>9. ASSUME NEW r \in BuildReqs, Confirms(r), Confirms(r)', BuildTypeOK', RequestRefers(r)', DoneIsThere(r)',
             buildReq'[r].chat = buildReq[r].chat,
             buildReq[r].app # 0 => buildReq'[r].app = buildReq[r].app,
             \A q \in BuildReqs \ {r} : buildReq'[q] = buildReq[q],
             buildReq'[r].pc \in {"tables", "table"} <=> buildReq[r].pc \in {"tables", "table"},
             \A a \in 1 .. builds : built'[a].name = built[a].name /\ built[a].tables \subseteq built'[a].tables,
             builds <= builds', \A a \in BuiltIds : a > builds => (AppExists(a)' => a = builds' /\ buildReq'[r].app = a),
             UNCHANGED <<chat, chats, unfinished, cut, contested, pruned>>
      PROVE  BuildInv'
  <2>1. ASSUME NEW q \in BuildReqs PROVE RequestRefers(q)' /\ ConfirmsAlone(q)' /\ DoneIsThere(q)'
    <3>1. CASE q = r
      <4>1. ConfirmsAlone(q)'
        BY <1>0, <1>9, <3>1 DEF ConfirmsAlone, Confirms, BuildTyped, RequestRefers
      <4> QED
        BY <1>9, <3>1, <4>1
    <3>2. CASE q # r
      <4>1. RequestRefers(q)'
        BY <1>0, <1>9, <3>2 DEF RequestRefers, BuildTyped, Confirms, BuildAt, BuildTypeOK
      <4>2. ConfirmsAlone(q)'
        BY <1>0, <1>9, <3>2 DEF ConfirmsAlone, Confirms
      <4>3. DoneIsThere(q)'
        BY <1>0, <1>9, <3>2 DEF DoneIsThere, BuildTyped, RequestRefers, AppExists
      <4> QED
        BY <4>1, <4>2, <4>3
    <3> QED
      BY <3>1, <3>2
  <2>2. BuildTyped'
    <3>1. ASSUME NEW a \in BuiltIds, a > builds' PROVE ~AppExists(a)'
      BY <1>0, <1>9, <3>1 DEF BuiltIds, BuildTypeOK
    <3>2. ASSUME NEW s \in ChatIds
          PROVE  chat'[s].app \in 0 .. builds' /\ (s > chats' => chat'[s].status = "none")
                 /\ (chat'[s].status = "completed" => chat'[s].app # 0)
      BY <1>0, <1>9 DEF BuildTyped, BuildTypeOK
    <3> QED
      BY <1>9, <2>1, <3>1, <3>2 DEF BuildTyped
  <2>3. OrphanAppIsAccounted'
    <3> SUFFICES ASSUME NEW a \in BuiltIds, AppExists(a)'
                 PROVE  MadeFor(a)' # {} \/ InHand(a)' \/ a \in (unfinished \cup cut)' \/ contested' # {}
      BY DEF OrphanAppIsAccounted
    <3>1. CASE a \in 1 .. builds
      <4>1. AppExists(a)
        BY <1>9, <3>1 DEF AppExists
      <4>2. MadeFor(a)' = MadeFor(a)
        BY <1>9 DEF MadeFor
      <4>3. InHand(a) => InHand(a)'
        BY <1>9 DEF InHand, Confirms, BuiltIds
      <4> QED
        BY <1>0, <1>9, <4>1, <4>2, <4>3 DEF OrphanAppIsAccounted
    <3>2. CASE a > builds
      BY <1>9, <3>2 DEF InHand, Confirms
    <3> QED
      BY <1>0, <3>1, <3>2 DEF BuiltIds
  <2>4. CompletedBuildIsWhole'
    BY <1>0, <1>9 DEF CompletedBuildIsWhole, AppExists, BuildTyped, RequestRefers
  <2> QED
    BY <2>1, <2>2, <2>3, <2>4 DEF BuildInv
<1>10. ASSUME NEW r \in BuildReqs, CreateBuiltApp(r) PROVE BuildInv'
  <2> DEFINE n == builds + 1
             k == [buildReq[r] EXCEPT !.pc = "apply", !.app = n]
             a0 == [name |-> buildReq[r].plan.name, tables |-> {}]
  <2>1. /\ UNCHANGED <<chat, chats, unfinished, cut, contested, pruned>> /\ BuildAt(r, "create")
        /\ n \in BuiltIds /\ n \in 0 .. MaxBuilt /\ n \in 1 .. builds' /\ builds' = n /\ builds <= builds'
    BY <1>0, <1>10 DEF CreateBuiltApp, BuiltIds
  <2>2. k \in BuildReq /\ k.pc = "apply" /\ k.app = n /\ k.chat = buildReq[r].chat /\ k.plan = buildReq[r].plan /\ k.todo = buildReq[r].todo
    BY <1>0, <2>1 DEF BuildReq
  <2>3. BuildTo(r, k) /\ built' = [built EXCEPT ![n] = a0]
    BY <1>10 DEF CreateBuiltApp
  <2>4. a0 \in [name : AppNames \cup {Undefined}, tables : SUBSET PlanTables]
    BY <1>0 DEF BuildReq, Plan, NoPlan
  <2> HIDE DEF k, a0
  <2>5. buildReq' \in [BuildReqs -> BuildReq] /\ buildReq'[r] = k /\ \A q \in BuildReqs \ {r} : buildReq'[q] = buildReq[q]
    BY <1>0, <2>2, <2>3, BuildBecomes
  <2>6. /\ built' \in [BuiltIds -> [name : AppNames \cup {Undefined}, tables : SUBSET PlanTables]]
        /\ \A a \in BuiltIds \ {n} : built'[a] = built[a]
    BY <1>0, <2>1, <2>3, <2>4 DEF BuildTypeOK
  <2>7. BuildTypeOK'
    BY <1>0, <2>1, <2>5, <2>6 DEF BuildTypeOK
  <2>8. Confirms(r) /\ Confirms(r)' /\ buildReq[r].app = 0 /\ buildReq[r].chat \in 1 .. chats
    BY <1>0, <2>1, <2>2, <2>5 DEF Confirms, Confirming, BuildAt, BuildTyped, RequestRefers
  <2>9. RequestRefers(r)' /\ DoneIsThere(r)'
    BY <1>0, <2>1, <2>2, <2>5, <2>8 DEF RequestRefers, DoneIsThere, BuildAt, Confirms
  <2>10. \A a \in 1 .. builds : built'[a] = built[a]
    BY <1>0, <2>1, <2>6 DEF BuiltIds
  <2>11. \A a \in BuiltIds : a > builds => (AppExists(a)' => a = builds' /\ buildReq'[r].app = a)
    BY <1>0, <2>1, <2>2, <2>5, <2>6 DEF BuildTyped, AppExists
  <2> HIDE DEF n
  <2> QED
    BY <1>9, <2>1, <2>2, <2>5, <2>7, <2>8, <2>9, <2>10, <2>11 DEF BuildAt
<1>11. ASSUME NEW r \in BuildReqs, ApplySchema(r) \/ CheckTable(r) PROVE BuildInv'
  <2>1. UNCHANGED <<chat, chats, built, builds, unfinished, cut, contested, pruned>>
    BY <1>11 DEF ApplySchema, CheckTable
  <2>2. Confirms(r) /\ RequestRefers(r) /\ buildReq[r].chat \in 1 .. chats
    BY <1>0, <1>11 DEF ApplySchema, CheckTable, BuildAt, Confirms, Confirming, BuildTyped, RequestRefers
  <2>3. PICK k \in BuildReq :
          /\ BuildTo(r, k) /\ k.chat = buildReq[r].chat /\ k.app = buildReq[r].app /\ k.plan = buildReq[r].plan
          /\ \/ BuildAt(r, "apply") /\ k.pc = "record" /\ k.todo = buildReq[r].todo
             \/ BuildAt(r, "tables") /\ k.pc = "table" /\ k.table \in PlanTables /\ k.todo = buildReq[r].todo
             \/ \E t \in built[k.app].tables : BuildAt(r, "tables") /\ k.pc = "tables" /\ k.todo = buildReq[r].todo \ {t}
    <3>1. CASE ApplySchema(r)
      <4> DEFINE k == [buildReq[r] EXCEPT !.pc = "record"]
      <4>1. /\ k \in BuildReq /\ k.chat = buildReq[r].chat /\ k.app = buildReq[r].app /\ k.plan = buildReq[r].plan
            /\ k.pc = "record" /\ k.todo = buildReq[r].todo
        BY <1>0 DEF BuildReq
      <4>2. BuildTo(r, k) /\ BuildAt(r, "apply")
        BY <3>1 DEF ApplySchema
      <4> HIDE DEF k
      <4> QED
        BY <4>1, <4>2
    <3>2. CASE CheckTable(r)
      <4>1. BuildAt(r, "tables")
        BY <3>2 DEF CheckTable
      <4>2. PICK t \in buildReq[r].todo :
              BuildTo(r, IF t \in built[buildReq[r].app].tables THEN [buildReq[r] EXCEPT !.todo = buildReq[r].todo \ {t}]
                         ELSE [buildReq[r] EXCEPT !.pc = "table", !.table = t])
        BY <1>0, <3>2 DEF CheckTable, BuildReq
      <4>3. t \in PlanTables
        BY <1>0, <4>2 DEF BuildReq
      <4> DEFINE k == [buildReq[r] EXCEPT !.todo = buildReq[r].todo \ {t}]
                 m == [buildReq[r] EXCEPT !.pc = "table", !.table = t]
      <4>4. /\ k \in BuildReq /\ k.chat = buildReq[r].chat /\ k.app = buildReq[r].app /\ k.plan = buildReq[r].plan
            /\ k.pc = buildReq[r].pc /\ k.todo = buildReq[r].todo \ {t}
        BY <1>0 DEF BuildReq
      <4>5. /\ m \in BuildReq /\ m.chat = buildReq[r].chat /\ m.app = buildReq[r].app /\ m.plan = buildReq[r].plan
            /\ m.pc = "table" /\ m.todo = buildReq[r].todo /\ m.table = t
        BY <1>0, <4>3 DEF BuildReq
      <4>6. (BuildTo(r, k) /\ t \in built[buildReq[r].app].tables) \/ BuildTo(r, m)
        BY <4>2
      <4> HIDE DEF k, m
      <4> QED
        BY <4>1, <4>3, <4>4, <4>5, <4>6 DEF BuildAt
    <3> QED
      BY <1>11, <3>1, <3>2
  <2>4. buildReq' \in [BuildReqs -> BuildReq] /\ buildReq'[r] = k /\ \A q \in BuildReqs \ {r} : buildReq'[q] = buildReq[q]
    BY <1>0, <2>3, BuildBecomes
  <2>5. BuildTypeOK'
    BY <1>0, <2>1, <2>4 DEF BuildTypeOK
  <2>6. Confirms(r)' /\ RequestRefers(r)'
    BY <2>1, <2>2, <2>3, <2>4 DEF Confirms, Confirming, RequestRefers, BuildAt
  <2>7. DoneIsThere(r)'
    BY <1>0, <2>1, <2>3, <2>4 DEF DoneIsThere, AppExists, BuildAt
  <2>8. \A a \in BuiltIds : a > builds => ~AppExists(a)'
    BY <1>0, <2>1 DEF BuildTyped, AppExists
  <2> QED
    BY <1>0, <1>9, <2>1, <2>2, <2>3, <2>4, <2>5, <2>6, <2>7, <2>8 DEF BuildAt
<1>12. ASSUME NEW r \in BuildReqs, CreatePlannedTable(r) PROVE BuildInv'
  <2>1. UNCHANGED <<chat, chats, builds, unfinished, cut, contested, pruned>> /\ BuildAt(r, "table")
    BY <1>12 DEF CreatePlannedTable, AddPlanned
  <2>2. PICK a0 \in BuiltIds, t \in PlanTables : a0 = buildReq[r].app /\ t = buildReq[r].table
    BY <1>0, <2>1 DEF BuildAt, BuildTyped, RequestRefers, BuiltIds
  <2> DEFINE k == [buildReq[r] EXCEPT !.pc = "tables", !.todo = buildReq[r].todo \ {t}, !.table = Undefined]
  <2>3. /\ k \in BuildReq /\ k.chat = buildReq[r].chat /\ k.app = buildReq[r].app /\ k.plan = buildReq[r].plan
        /\ k.pc = "tables" /\ k.todo = buildReq[r].todo \ {t}
    BY <1>0 DEF BuildReq
  <2>4. BuildTo(r, k)
    BY <1>0, <1>12, <2>2 DEF CreatePlannedTable, AddPlanned, BuildReq
  <2> HIDE DEF k
  <2>5. buildReq' \in [BuildReqs -> BuildReq] /\ buildReq'[r] = k /\ \A q \in BuildReqs \ {r} : buildReq'[q] = buildReq[q]
    BY <1>0, <2>3, <2>4, BuildBecomes
  <2>6. /\ built' \in [BuiltIds -> [name : AppNames \cup {Undefined}, tables : SUBSET PlanTables]]
        /\ built'[a0].tables = built[a0].tables \cup {t} /\ built'[a0].name = built[a0].name
        /\ \A a \in BuiltIds \ {a0} : built'[a] = built[a]
    <3>1. built' = [built EXCEPT ![a0].tables = @ \cup {t}]
      BY <1>12, <2>2 DEF CreatePlannedTable, AddPlanned
    <3> QED
      BY <1>0, <2>2, <3>1 DEF BuildTypeOK
  <2>7. BuildTypeOK'
    BY <1>0, <2>1, <2>5, <2>6 DEF BuildTypeOK
  <2>8. Confirms(r) /\ Confirms(r)' /\ RequestRefers(r)' /\ buildReq[r].chat \in 1 .. chats
    BY <1>0, <2>1, <2>3, <2>5 DEF Confirms, Confirming, BuildAt, BuildTyped, RequestRefers
  <2>9. DoneIsThere(r)'
    BY <1>0, <2>1, <2>2, <2>3, <2>5, <2>6 DEF DoneIsThere, AppExists, BuildAt
  <2>10. \A a \in BuiltIds : built'[a].name = built[a].name /\ built[a].tables \subseteq built'[a].tables
    BY <2>6
  <2>11. \A a \in BuiltIds : a > builds => ~AppExists(a)'
    BY <1>0, <2>1, <2>10 DEF BuildTyped, AppExists
  <2>12. \A a \in 1 .. builds : a \in BuiltIds
    BY <1>0 DEF BuiltIds
  <2> QED
    BY <1>0, <1>9, <2>1, <2>3, <2>5, <2>7, <2>8, <2>9, <2>10, <2>11, <2>12 DEF BuildAt
<1>13. ASSUME NEW r \in BuildReqs, SetSessionCreatedApp(r) PROVE BuildInv'
  <2>1. UNCHANGED <<chats, built, builds, unfinished, cut, contested, pruned>> /\ BuildAt(r, "record")
    BY <1>13 DEF SetSessionCreatedApp
  <2>2. PICK s \in ChatIds, a0 \in BuiltIds : s = buildReq[r].chat /\ a0 = buildReq[r].app /\ s \in 1 .. chats /\ a0 \in 1 .. builds
    BY <1>0, <2>1 DEF BuildAt, BuildTyped, RequestRefers, Confirms, Confirming, BuiltIds, ChatIds
  <2> DEFINE k == [buildReq[r] EXCEPT !.pc = "tables"]
  <2>3. k \in BuildReq /\ k.pc = "tables" /\ k.chat = s /\ k.app = a0 /\ k.plan = buildReq[r].plan /\ k.todo = buildReq[r].todo
    BY <1>0, <2>2 DEF BuildReq
  <2>4. BuildTo(r, k) /\ chat' = [chat EXCEPT ![s].app = a0]
    BY <1>13, <2>2 DEF SetSessionCreatedApp
  <2> HIDE DEF k
  <2>5. buildReq' \in [BuildReqs -> BuildReq] /\ buildReq'[r] = k /\ \A q \in BuildReqs \ {r} : buildReq'[q] = buildReq[q]
    BY <1>0, <2>3, <2>4, BuildBecomes
  <2>6. /\ chat' \in [ChatIds -> Chat]
        /\ chat'[s].app = a0 /\ chat'[s].status = chat[s].status
        /\ \A t \in ChatIds \ {s} : chat'[t] = chat[t]
    BY <1>0, <2>2, <2>4 DEF BuildTypeOK, Chat, BuiltIds
  <2>7. BuildTyped'
    <3>1. BuildTypeOK'
      BY <1>0, <2>1, <2>5, <2>6 DEF BuildTypeOK
    <3>2. ASSUME NEW q \in BuildReqs PROVE RequestRefers(q)'
      BY <1>0, <2>1, <2>2, <2>3, <2>5 DEF RequestRefers, Confirms, BuildAt, BuildTyped
    <3> QED
      BY <1>0, <2>1, <2>2, <2>6, <3>1, <3>2 DEF BuildTyped, AppExists
  <2>8. /\ s \notin contested => chat[s].app = 0 /\ chat[s].status # "completed"
        /\ s \notin contested => \A q \in BuildReqs \ {r} : Confirms(q) => buildReq[q].chat # s
    BY <1>0, <2>1, <2>2 DEF ConfirmsAlone, Confirms, Confirming, BuildAt
  <2>9. ASSUME NEW q \in BuildReqs PROVE ConfirmsAlone(q)' /\ DoneIsThere(q)'
    <3>1. CASE q = r
      <4>1. ConfirmsAlone(q)'
        BY <2>1, <2>3, <2>5, <2>6, <2>8, <3>1 DEF ConfirmsAlone, Confirms
      <4>2. DoneIsThere(q)'
        BY <1>0, <2>1, <2>3, <2>5, <3>1 DEF DoneIsThere, BuildAt
      <4> QED
        BY <4>1, <4>2
    <3>2. CASE q # r
      <4>1. DoneIsThere(q)'
        BY <1>0, <2>1, <2>5, <3>2 DEF DoneIsThere, AppExists
      <4>2. Confirms(q) => buildReq[q].chat \in ChatIds
        BY <1>0 DEF BuildTyped, RequestRefers, ChatIds
      <4>3. ConfirmsAlone(q)'
        <5>1. CASE Confirms(q) /\ buildReq[q].chat # s
          <6>1. \A p \in BuildReqs : Confirms(p)' => Confirms(p) /\ buildReq'[p].chat = buildReq[p].chat
            BY <2>1, <2>2, <2>3, <2>5 DEF Confirms, Confirming, BuildAt
          <6> QED
            BY <1>0, <2>1, <2>5, <2>6, <3>2, <4>2, <5>1, <6>1 DEF ConfirmsAlone, Confirms
        <5>2. CASE ~(Confirms(q) /\ buildReq[q].chat # s)
          BY <2>1, <2>5, <2>8, <3>2, <5>2 DEF ConfirmsAlone, Confirms
        <5> QED
          BY <5>1, <5>2
      <4> QED
        BY <4>1, <4>3
    <3> QED
      BY <3>1, <3>2
  <2>10. OrphanAppIsAccounted'
    <3> SUFFICES ASSUME NEW a \in BuiltIds, AppExists(a), contested = {}
                 PROVE  MadeFor(a)' # {} \/ InHand(a)' \/ a \in (unfinished \cup cut)'
      BY <2>1 DEF OrphanAppIsAccounted, AppExists
    <3>1. MadeFor(a) \subseteq MadeFor(a)'
      <4>1. a # 0 /\ chat[s].app = 0
        BY <2>8 DEF BuiltIds
      <4>2. \A t \in ChatIds : chat[t].app = a => chat'[t].app = a
        BY <2>6, <4>1
      <4> QED
        BY <4>2 DEF MadeFor
    <3>2. InHand(a) => InHand(a)'
      BY <2>1, <2>2, <2>3, <2>5 DEF InHand, Confirming, BuildAt
    <3> QED
      BY <1>0, <2>1, <3>1, <3>2 DEF OrphanAppIsAccounted
  <2>11. CompletedBuildIsWhole'
    BY <1>0, <2>1, <2>2, <2>6, <2>8 DEF CompletedBuildIsWhole, AppExists
  <2> QED
    BY <2>7, <2>9, <2>10, <2>11 DEF BuildInv
<1>14. ASSUME NEW r \in BuildReqs, CompleteSession(r) PROVE BuildInv'
  <2>1. /\ UNCHANGED <<chats, built, builds, unfinished, cut, contested, pruned>> /\ BuildAt(r, "tables")
        /\ buildReq[r].todo = {} /\ BuildTo(r, BuildIdle)
    BY <1>14 DEF CompleteSession
  <2>2. PICK s \in ChatIds, a0 \in BuiltIds : s = buildReq[r].chat /\ a0 = buildReq[r].app /\ s \in 1 .. chats /\ a0 \in 1 .. builds
    BY <1>0, <2>1 DEF BuildAt, BuildTyped, RequestRefers, Confirms, Confirming, BuiltIds, ChatIds
  <2> DEFINE c == [chat[s] EXCEPT !.status = "completed", !.app = a0, !.done = buildReq[r].plan.tables]
  <2>3. c \in Chat /\ c.status = "completed" /\ c.app = a0 /\ c.done = buildReq[r].plan.tables
    <3>1. buildReq[r].plan.tables \in SUBSET PlanTables
      BY <1>0 DEF BuildReq, Plan, NoPlan
    <3>2. a0 \in 0 .. MaxBuilt /\ chat[s] \in Chat
      BY <1>0, <2>2 DEF BuiltIds
    <3> QED
      BY <3>1, <3>2 DEF Chat
  <2>4. chat' = [chat EXCEPT ![s] = c]
    BY <1>0, <1>14, <2>2 DEF CompleteSession, BuildTypeOK
  <2> HIDE DEF c
  <2>5. buildReq' \in [BuildReqs -> BuildReq] /\ buildReq'[r].pc = "idle" /\ \A q \in BuildReqs \ {r} : buildReq'[q] = buildReq[q]
    BY <1>0, <2>1, BuildBecomes, BuildIdleIsTyped
  <2>6. /\ chat' \in [ChatIds -> Chat]
        /\ chat'[s] = c
        /\ \A t \in ChatIds \ {s} : chat'[t] = chat[t]
    BY <1>0, <2>2, <2>3, <2>4 DEF BuildTypeOK
  <2>7. BuildTyped'
    <3>1. BuildTypeOK'
      BY <1>0, <2>1, <2>5, <2>6 DEF BuildTypeOK
    <3>2. ASSUME NEW q \in BuildReqs PROVE RequestRefers(q)'
      BY <1>0, <2>1, <2>5 DEF RequestRefers, Confirms, Confirming, BuildAt, BuildTyped
    <3> QED
      BY <1>0, <2>1, <2>2, <2>3, <2>6, <3>1, <3>2 DEF BuildTyped, AppExists
  <2>8. s \notin contested => chat[s].app = a0 /\ \A q \in BuildReqs \ {r} : Confirms(q) => buildReq[q].chat # s
    BY <1>0, <2>1, <2>2 DEF ConfirmsAlone, Confirms, Confirming, BuildAt
  <2>9. ASSUME NEW q \in BuildReqs PROVE ConfirmsAlone(q)' /\ DoneIsThere(q)'
    <3>1. CASE q = r
      BY <2>5, <3>1 DEF ConfirmsAlone, Confirms, Confirming, DoneIsThere
    <3>2. CASE q # r
      <4>1. DoneIsThere(q)'
        BY <1>0, <2>1, <2>5, <3>2 DEF DoneIsThere, AppExists
      <4>2. Confirms(q) => buildReq[q].chat \in ChatIds
        BY <1>0 DEF BuildTyped, RequestRefers, ChatIds
      <4>3. \A p \in BuildReqs : Confirms(p)' => Confirms(p) /\ buildReq'[p] = buildReq[p]
        BY <2>5 DEF Confirms, Confirming
      <4>4. ConfirmsAlone(q)'
        BY <1>0, <2>1, <2>5, <2>6, <2>8, <3>2, <4>2, <4>3 DEF ConfirmsAlone, Confirms
      <4> QED
        BY <4>1, <4>4
    <3> QED
      BY <3>1, <3>2
  <2>10. OrphanAppIsAccounted'
    <3> SUFFICES ASSUME NEW a \in BuiltIds, AppExists(a), contested = {}
                 PROVE  MadeFor(a)' # {} \/ InHand(a)' \/ a \in (unfinished \cup cut)'
      BY <2>1 DEF OrphanAppIsAccounted, AppExists
    <3>1. MadeFor(a) \subseteq MadeFor(a)'
      BY <2>3, <2>6, <2>8 DEF MadeFor
    <3>2. InHand(a) => InHand(a)' \/ s \in MadeFor(a)'
      BY <2>2, <2>3, <2>5, <2>6 DEF InHand, MadeFor
    <3> QED
      BY <1>0, <2>1, <3>1, <3>2 DEF OrphanAppIsAccounted
  <2>11. ASSUME NEW t \in ChatIds \ contested, chat'[t].status = "completed", AppExists(chat[t].app)', NEW b \in chat'[t].done
         PROVE  b \in built[chat'[t].app].tables \/ <<chat'[t].app, b>> \in pruned
    <3>1. CASE t = s
      BY <1>0, <2>1, <2>2, <2>3, <2>6, <2>11, <3>1 DEF DoneIsThere, BuildAt, AppExists
    <3>2. CASE t # s
      BY <1>0, <2>1, <2>6, <2>11, <3>2 DEF CompletedBuildIsWhole, AppExists
    <3> QED
      BY <3>1, <3>2
  <2>12. CompletedBuildIsWhole'
    BY <2>1, <2>11 DEF CompletedBuildIsWhole, AppExists
  <2> QED
    BY <2>7, <2>9, <2>10, <2>12 DEF BuildInv
\* What the user removes elsewhere.
<1>15. ASSUME NEW a \in BuiltIds, AppExists(a)' => AppExists(a),
              built' \in [BuiltIds -> [name : AppNames \cup {Undefined}, tables : SUBSET PlanTables]],
              \A b \in BuiltIds \ {a} : built'[b] = built[b],
              UNCHANGED <<chat, chats, builds, buildReq, contested>>,
              unfinished \subseteq unfinished' \cup {a}, cut \subseteq cut' \cup {a},
              unfinished' \cup cut' \subseteq BuiltIds, pruned' \subseteq BuiltIds \X PlanTables,
              \A b \in BuiltIds \ {a}, t \in PlanTables : <<b, t>> \in pruned => <<b, t>> \in pruned',
              \/ ~AppExists(a)'
              \/ /\ \A t \in PlanTables : t \in built[a].tables \/ <<a, t>> \in pruned => t \in built'[a].tables \/ <<a, t>> \in pruned'
                 /\ UNCHANGED <<unfinished, cut>>
       PROVE  BuildInv'
  <2>1. \A b \in BuiltIds : AppExists(b)' => AppExists(b)
    BY <1>15 DEF AppExists
  <2>2. \A b \in BuiltIds, t \in PlanTables :
          AppExists(b)' /\ (t \in built[b].tables \/ <<b, t>> \in pruned) => t \in built'[b].tables \/ <<b, t>> \in pruned'
    BY <1>15
  <2>3. BuildTyped'
    <3>1. BuildTypeOK'
      BY <1>0, <1>15 DEF BuildTypeOK
    <3>2. \A q \in BuildReqs : RequestRefers(q)'
      BY <1>0, <1>15 DEF RequestRefers, Confirms, BuildAt, BuildTyped
    <3> QED
      BY <1>0, <1>15, <2>1, <3>1, <3>2 DEF BuildTyped
  <2>4. ASSUME NEW q \in BuildReqs PROVE ConfirmsAlone(q)'
    BY <1>0, <1>15 DEF ConfirmsAlone, Confirms
  <2>5. ASSUME NEW q \in BuildReqs PROVE DoneIsThere(q)'
    <3>1. buildReq[q].plan.tables \subseteq PlanTables
      BY <1>0 DEF BuildReq, Plan, NoPlan
    <3>2. buildReq[q].pc \in {"tables", "table"} => buildReq[q].app \in BuiltIds
      BY <1>0 DEF BuildTyped, RequestRefers, BuiltIds
    <3> QED
      BY <1>0, <1>15, <2>1, <2>2, <3>1, <3>2 DEF DoneIsThere
  <2>6. OrphanAppIsAccounted'
    <3>1. ASSUME NEW b \in BuiltIds, AppExists(b)' PROVE AppExists(b) /\ (b \in unfinished \cup cut => b \in unfinished' \cup cut')
      BY <1>15, <2>1, <3>1
    <3> QED
      BY <1>0, <1>15, <3>1 DEF OrphanAppIsAccounted, MadeFor, InHand
  <2>7. ASSUME NEW s \in ChatIds \ contested, chat[s].status = "completed", AppExists(chat[s].app)', NEW t \in chat[s].done
        PROVE  t \in built'[chat[s].app].tables \/ <<chat[s].app, t>> \in pruned'
    <3>1. chat[s].app \in BuiltIds /\ t \in PlanTables
      BY <1>0, <2>7 DEF BuildTyped, BuiltIds, Chat
    <3> QED
      BY <1>0, <1>15, <2>1, <2>2, <2>7, <3>1 DEF CompletedBuildIsWhole, AppExists
  <2>8. CompletedBuildIsWhole'
    BY <1>15, <2>7 DEF CompletedBuildIsWhole, AppExists
  <2> QED
    BY <2>3, <2>4, <2>5, <2>6, <2>8 DEF BuildInv
<1>16. ASSUME NEW a \in BuiltIds, DeleteBuiltApp(a) PROVE BuildInv'
  <2>1. /\ AppExists(a) /\ built' = [built EXCEPT ![a] = NotBuilt]
        /\ unfinished' = unfinished \ {a} /\ cut' = cut \ {a} /\ pruned' = {p \in pruned : p[1] # a}
        /\ UNCHANGED <<chat, chats, builds, buildReq, contested>>
    BY <1>16 DEF DeleteBuiltApp
  <2>2. NotBuilt \in [name : AppNames \cup {Undefined}, tables : SUBSET PlanTables] /\ NotBuilt.name = Undefined
    BY DEF NotBuilt
  <2>3. /\ built' \in [BuiltIds -> [name : AppNames \cup {Undefined}, tables : SUBSET PlanTables]]
        /\ \A b \in BuiltIds \ {a} : built'[b] = built[b]
        /\ ~AppExists(a)'
    BY <1>0, <2>1, <2>2 DEF BuildTypeOK, AppExists
  <2>4. /\ unfinished' \cup cut' \subseteq BuiltIds /\ pruned' \subseteq BuiltIds \X PlanTables
        /\ unfinished \subseteq unfinished' \cup {a} /\ cut \subseteq cut' \cup {a}
    BY <1>0, <2>1 DEF BuildTypeOK
  <2>5. \A b \in BuiltIds \ {a}, t \in PlanTables : <<b, t>> \in pruned => <<b, t>> \in pruned'
    BY <2>1
  <2> QED
    BY <1>15, <2>1, <2>3, <2>4, <2>5
<1>17. ASSUME NEW a \in BuiltIds, NEW t \in PlanTables, DeleteBuiltTable(a, t) PROVE BuildInv'
  <2>1. /\ t \in built[a].tables /\ built' = [built EXCEPT ![a].tables = @ \ {t}]
        /\ pruned' = pruned \cup {<<a, t>>}
        /\ UNCHANGED <<chat, chats, builds, buildReq, unfinished, cut, contested>>
    BY <1>17 DEF DeleteBuiltTable
  <2>2. /\ built' \in [BuiltIds -> [name : AppNames \cup {Undefined}, tables : SUBSET PlanTables]]
        /\ \A b \in BuiltIds \ {a} : built'[b] = built[b]
        /\ built'[a].tables = built[a].tables \ {t} /\ built'[a].name = built[a].name
    BY <1>0, <2>1 DEF BuildTypeOK
  <2>3. unfinished' \cup cut' \subseteq BuiltIds /\ pruned' \subseteq BuiltIds \X PlanTables
    BY <1>0, <2>1 DEF BuildTypeOK
  <2>4. \A u \in PlanTables : u \in built[a].tables \/ <<a, u>> \in pruned => u \in built'[a].tables \/ <<a, u>> \in pruned'
    BY <2>1, <2>2
  <2>5. \A b \in BuiltIds \ {a}, u \in PlanTables : <<b, u>> \in pruned => <<b, u>> \in pruned'
    BY <2>1
  <2>6. AppExists(a)' => AppExists(a)
    BY <2>2 DEF AppExists
  <2> QED
    BY <1>15, <2>1, <2>2, <2>3, <2>4, <2>5, <2>6
<1>18. CASE UNCHANGED buildVars
  <2>1. BuildTyped'
    BY <1>0, <1>18 DEF buildVars, BuildTyped, BuildTypeOK, RequestRefers, Confirms, BuildAt, AppExists
  <2>2. \A r \in BuildReqs : ConfirmsAlone(r)' /\ DoneIsThere(r)'
    BY <1>0, <1>18 DEF buildVars, ConfirmsAlone, DoneIsThere, Confirms, AppExists
  <2>3. OrphanAppIsAccounted' /\ CompletedBuildIsWhole'
    BY <1>0, <1>18 DEF buildVars, OrphanAppIsAccounted, CompletedBuildIsWhole, AppExists, MadeFor, InHand
  <2> QED
    BY <2>1, <2>2, <2>3 DEF BuildInv
<1> QED
  BY <1>2, <1>3, <1>4, <1>5, <1>6, <1>7, <1>8, <1>10, <1>11, <1>12, <1>13, <1>14, <1>16, <1>17, <1>18 DEF BuildNext

\* The invariant holds where nobody talked yet.
LEMMA BuildStart == BuildInit => BuildInv
<1> SUFFICES ASSUME BuildInit PROVE BuildInv
  OBVIOUS
<1>1. NoChat \in Chat /\ NoChat.status = "none" /\ NoChat.app = 0
  BY BuildBounds DEF NoChat, Chat
<1>2. NotBuilt \in [name : AppNames \cup {Undefined}, tables : SUBSET PlanTables] /\ NotBuilt.name = Undefined
  BY DEF NotBuilt
<1>3. /\ \A s \in ChatIds : chat[s] = NoChat
      /\ \A a \in BuiltIds : ~AppExists(a)
      /\ \A r \in BuildReqs : buildReq[r] = BuildIdle
      /\ chats = 0 /\ builds = 0
  BY <1>2 DEF BuildInit, AppExists
<1>4. BuildTypeOK
  BY <1>1, <1>2, BuildBounds, BuildIdleIsTyped DEF BuildInit, BuildTypeOK
<1>5. ASSUME NEW r \in BuildReqs PROVE RequestRefers(r) /\ ConfirmsAlone(r) /\ DoneIsThere(r)
  BY <1>3, BuildIdleIsTyped DEF RequestRefers, ConfirmsAlone, DoneIsThere, Confirms, Confirming, BuildAt
<1>6. BuildTyped
  BY <1>1, <1>3, <1>4, <1>5 DEF BuildTyped
<1>7. OrphanAppIsAccounted /\ CompletedBuildIsWhole
  BY <1>1, <1>3 DEF OrphanAppIsAccounted, CompletedBuildIsWhole
<1> QED
  BY <1>5, <1>6, <1>7 DEF BuildInv

\* The invariant holds throughout.
LEMMA BuildAlways == BuildSpec => []BuildInv
BY BuildStart, BuildStepInv, PTL DEF BuildSpec

\* However requests interleave, fail or are repeated, an app that the chat created is recorded by
\* a session, unless its creation was cut short or two confirmations of a session overlapped.
THEOREM OrphanApps == BuildSpec => []OrphanAppIsAccounted
<1>1. BuildInv => OrphanAppIsAccounted
  BY DEF BuildInv
<1> QED
  BY <1>1, BuildAlways, PTL

\* The app of a session that is completed, and was never confirmed twice at once, has every
\* table of the plan that completed it, but those removed since.
THEOREM WholeBuilds == BuildSpec => []CompletedBuildIsWhole
<1>1. BuildInv => CompletedBuildIsWhole
  BY DEF BuildInv
<1> QED
  BY <1>1, BuildAlways, PTL

-----------------------------------------------------------------------------
(* The chat that edits an app. An operation belongs to one session. A      *)
(* request that applies it found it as the latest of the session; a        *)
(* message behind its back, or a second request for it, marks the          *)
(* operation as overlapped or repeated, so one that is not marked is       *)
(* applied once, and its marker follows.                                   *)

Applying(r) == editReq[r].pc \in {"apply", "mark"}

\* A confirmation in flight is of an operation of its own session alone, which is the latest
\* of it or was followed by one that is known to overlap; it is the first of that operation,
\* or the operation is known to be confirmed again.
ConfirmationIsKnown(r) ==
    Applying(r) =>
        LET o == editReq[r].op
            s == editReq[r].edit IN
        /\ o \in 1 .. proposals
        /\ edit[s].op = o \/ edit[s].op \in overlapped
        /\ \A t \in EditIds : edit[t].op = o => t = s
        /\ \A q \in EditReqs \ {r} : Applying(q) /\ editReq[q].op = o => o \in repeated
        /\ EditAt(r, "mark") => applied[o] > 0
        /\ EditAt(r, "apply") => applied[o] = 0 \/ o \in repeated

\* The latest operation of a session is of no other one; when it awaits its confirmation and
\* was applied, the marker is on its way, or it is known to be confirmed again.
ProposalIsOwn(s) ==
    /\ edit[s].op \in 0 .. proposals
    /\ edit[s].last \in {"op", "marker"} => edit[s].op # 0
    /\ \A t \in EditIds : edit[t].op = edit[s].op /\ edit[s].op # 0 => t = s
    /\ edit[s].last = "op" /\ applied[edit[s].op] > 0 =>
         \/ edit[s].op \in repeated
         \/ \E r \in EditReqs : EditAt(r, "mark") /\ editReq[r].op = edit[s].op

\* The types, with the session that a request writes to.
EditTyped ==
    /\ EditTypeOK
    /\ \A r \in EditReqs : editReq[r].pc \in {"say", "model", "apply", "mark"} => editReq[r].edit \in EditIds
    /\ \A r \in EditReqs : Applying(r) => editReq[r].op \in OpIds

\* The inductive invariant.
EditInv ==
    /\ EditTyped
    /\ \A r \in EditReqs : ConfirmationIsKnown(r)
    /\ \A s \in EditIds : ProposalIsOwn(s)
    /\ \A o \in OpIds : o > proposals => applied[o] = 0
    /\ ConfirmationsAreTrue

-----------------------------------------------------------------------------
\* A request goes on to another record, and the rest stay.
LEMMA EditBecomes ==
    ASSUME EditTypeOK, NEW r \in EditReqs, NEW q \in EditReq, EditTo(r, q)
    PROVE  /\ editReq' \in [EditReqs -> EditReq]
           /\ editReq'[r] = q
           /\ \A s \in EditReqs \ {r} : editReq'[s] = editReq[s]
BY DEF EditTypeOK, EditTo

\* The idle request is a request.
LEMMA EditIdleIsTyped == EditIdle \in EditReq /\ EditIdle.pc = "idle"
<1>1. 0 \in 0 .. MaxEditChats /\ 0 \in 0 .. MaxOps
  BY EditBounds
<1> QED
  BY <1>1 DEF EditIdle, EditReq

\* What a request that opens is.
LEMMA EditOpened ==
    ASSUME NEW pc \in {"open", "insert", "say", "idle"}, NEW s \in 0 .. MaxEditChats
    PROVE  /\ [EditIdle EXCEPT !.pc = pc] \in EditReq /\ [EditIdle EXCEPT !.pc = pc].pc = pc
           /\ [EditIdle EXCEPT !.pc = pc, !.edit = s] \in EditReq
           /\ [EditIdle EXCEPT !.pc = pc, !.edit = s].pc = pc /\ [EditIdle EXCEPT !.pc = pc, !.edit = s].edit = s
BY EditIdleIsTyped DEF EditReq

\* What a request that goes on is.
LEMMA EditMoves ==
    ASSUME NEW q \in EditReq, NEW pc \in {"model", "mark"}
    PROVE  /\ [q EXCEPT !.pc = pc] \in EditReq
           /\ [q EXCEPT !.pc = pc].pc = pc /\ [q EXCEPT !.pc = pc].edit = q.edit /\ [q EXCEPT !.pc = pc].op = q.op
BY DEF EditReq

\* A message is appended to its own session only.
LEMMA MessageIsAppended ==
    ASSUME EditTypeOK, NEW s \in EditIds, NEW kind \in {"text", "op", "marker"}, NEW o \in 0 .. MaxOps, AppendMessage(s, kind, o)
    PROVE  /\ edit' \in [EditIds -> Edit]
           /\ edit'[s].last = kind /\ edit'[s].op = o /\ edit'[s].status = edit[s].status
           /\ \A t \in EditIds \ {s} : edit'[t] = edit[t]
<1>1. edit[s] \in Edit
  BY DEF EditTypeOK
<1> DEFINE e == [edit[s] EXCEPT !.last = kind, !.op = o]
<1>2. e \in Edit /\ e.last = kind /\ e.op = o /\ e.status = edit[s].status
  BY <1>1 DEF Edit
<1>3. edit' = [edit EXCEPT ![s] = e]
  BY DEF AppendMessage, EditTypeOK
<1> HIDE DEF e
<1> QED
  BY <1>2, <1>3 DEF EditTypeOK

\* A step that neither confirms nor applies, and at most appends a text.
LEMMA EditQuiet ==
    ASSUME EditInv, EditTyped', NEW r \in EditReqs,
           \A t \in EditIds : edit'[t].op = edit[t].op /\ edit'[t].last \in {edit[t].last, "text"},
           UNCHANGED <<applied, proposals, overlapped>>, repeated \subseteq repeated',
           ~Applying(r)', EditAt(r, "mark") => editReq[r].op \in repeated',
           \A s \in EditReqs \ {r} : editReq'[s] = editReq[s]
    PROVE  EditInv'
<1>1. ASSUME NEW s \in EditReqs PROVE ConfirmationIsKnown(s)'
  BY DEF EditInv, EditTyped, ConfirmationIsKnown, Applying, EditAt
<1>2. ASSUME NEW s \in EditIds PROVE ProposalIsOwn(s)'
  BY DEF EditInv, ProposalIsOwn, EditAt
<1>3. \A o \in OpIds : o > proposals' => applied'[o] = 0
  BY DEF EditInv
<1>4. ConfirmationsAreTrue'
  BY DEF EditInv, ConfirmationsAreTrue, AppliedIsTrue, AppliedOnce
<1> QED
  BY <1>1, <1>2, <1>3, <1>4 DEF EditInv

\* Every step keeps the inductive invariant.
LEMMA EditStepInv == EditInv /\ [EditNext]_editVars => EditInv'
<1> SUFFICES ASSUME EditInv, [EditNext]_editVars PROVE EditInv'
  OBVIOUS
<1> USE EditBounds
<1>0. /\ EditTyped /\ EditTypeOK /\ ConfirmationsAreTrue
      /\ \A o \in OpIds : o > proposals => applied[o] = 0
      /\ \A s \in EditReqs : ConfirmationIsKnown(s) /\ editReq[s] \in EditReq
      /\ \A s \in EditIds : ProposalIsOwn(s) /\ edit[s] \in Edit
      /\ proposals \in 0 .. MaxOps /\ edits \in 0 .. MaxEditChats
  BY DEF EditInv, EditTyped, EditTypeOK
\* Quiet steps.
<1>1. ASSUME NEW r \in EditReqs, NEW q \in EditReq, EditTo(r, q), ~(q.pc \in {"apply", "mark"}),
             q.pc \in {"say", "model"} => q.edit \in EditIds,
             edit' \in [EditIds -> Edit], edits' \in 0 .. MaxEditChats,
             \A t \in EditIds : edit'[t].op = edit[t].op /\ edit'[t].last \in {edit[t].last, "text"},
             UNCHANGED <<applied, proposals, overlapped>>,
             repeated' = IF EditAt(r, "mark") THEN repeated \cup {editReq[r].op} ELSE repeated
      PROVE  EditInv'
  <2>1. editReq' \in [EditReqs -> EditReq] /\ editReq'[r] = q /\ \A s \in EditReqs \ {r} : editReq'[s] = editReq[s]
    BY <1>0, <1>1, EditBecomes
  <2>2. repeated \subseteq repeated' /\ (EditAt(r, "mark") => editReq[r].op \in repeated') /\ repeated' \subseteq OpIds
    BY <1>0, <1>1 DEF EditTyped, EditTypeOK, Applying, EditAt
  <2>3. EditTyped'
    BY <1>0, <1>1, <2>1, <2>2 DEF EditTyped, EditTypeOK, Applying
  <2>4. ~Applying(r)'
    BY <1>1, <2>1 DEF Applying
  <2> QED
    BY <1>1, <2>1, <2>2, <2>3, <2>4, EditQuiet
<1>2. ASSUME NEW r \in EditReqs, GetEditChatSession(r) \/ BeginEditTurn(r) PROVE EditInv'
  <2>1. UNCHANGED <<edit, edits, proposals, applied, overlapped, repeated>> /\ EditAt(r, "idle")
    BY <1>2 DEF GetEditChatSession, BeginEditTurn, GetOrCreateInProgressEditSession
  <2>2. PICK q \in EditReq : EditTo(r, q) /\ q.pc \in {"open", "insert", "say", "idle"} /\ (q.pc = "say" => q.edit \in EditIds)
    <3>1. PICK new \in {"open", "insert"}, found \in {"idle", "say"} :
            \/ EditTo(r, [EditIdle EXCEPT !.pc = new])
            \/ \E s \in EditIds : EditTo(r, [EditIdle EXCEPT !.pc = found, !.edit = IF found = "idle" THEN 0 ELSE s])
      BY <1>2 DEF GetEditChatSession, BeginEditTurn, GetOrCreateInProgressEditSession, OpenEdits
    <3>2. CASE EditTo(r, [EditIdle EXCEPT !.pc = new])
      <4>1. 0 \in 0 .. MaxEditChats
        OBVIOUS
      <4> QED
        BY <3>2, <4>1, EditOpened
    <3>3. CASE \E s \in EditIds : EditTo(r, [EditIdle EXCEPT !.pc = found, !.edit = IF found = "idle" THEN 0 ELSE s])
      <4>1. PICK s \in EditIds : EditTo(r, [EditIdle EXCEPT !.pc = found, !.edit = IF found = "idle" THEN 0 ELSE s])
        BY <3>3
      <4>2. PICK t \in 0 .. MaxEditChats : t = (IF found = "idle" THEN 0 ELSE s)
        BY DEF EditIds
      <4> DEFINE k == [EditIdle EXCEPT !.pc = found, !.edit = t]
      <4>3. k \in EditReq /\ k.pc = found /\ k.edit = t
        BY <4>2, EditIdleIsTyped DEF EditReq
      <4>4. EditTo(r, k)
        BY <4>1, <4>2
      <4> HIDE DEF k
      <4> QED
        BY <4>2, <4>3, <4>4
    <3> QED
      BY <3>1, <3>2, <3>3
  <2> QED
    BY <1>0, <1>1, <2>1, <2>2 DEF EditTypeOK, EditAt
<1>3. ASSUME NEW r \in EditReqs, CreateEditSession(r) PROVE EditInv'
  <2>1. edits + 1 \in EditIds /\ UNCHANGED <<proposals, applied, overlapped, repeated>> /\ ~EditAt(r, "mark") /\ edits' \in 0 .. MaxEditChats
    BY <1>0, <1>3 DEF CreateEditSession, EditIds, EditAt
  <2>2. PICK q \in EditReq : EditTo(r, q) /\ q.pc \in {"say", "idle"} /\ (q.pc = "say" => q.edit \in EditIds)
    <3>1. edits + 1 \in 0 .. MaxEditChats
      BY <2>1 DEF EditIds
    <3>2. CASE EditAt(r, "open")
      BY <1>3, <3>2, EditIdleIsTyped DEF CreateEditSession
    <3>3. CASE ~EditAt(r, "open")
      <4> DEFINE k == [EditIdle EXCEPT !.pc = "say", !.edit = edits + 1]
      <4>1. k \in EditReq /\ k.pc = "say" /\ k.edit = edits + 1
        BY <3>1, EditOpened
      <4>2. EditTo(r, k)
        BY <1>3, <3>3 DEF CreateEditSession
      <4> HIDE DEF k
      <4> QED
        BY <2>1, <4>1, <4>2
    <3> QED
      BY <3>2, <3>3
  <2>3. edit' \in [EditIds -> Edit] /\ \A t \in EditIds : edit'[t].op = edit[t].op /\ edit'[t].last = edit[t].last
    BY <1>0, <1>3, <2>1 DEF CreateEditSession, EditTypeOK, Edit
  <2> QED
    BY <1>1, <2>1, <2>2, <2>3
<1>4. ASSUME NEW r \in EditReqs, RestartEditChatSession(r) PROVE EditInv'
  <2>1. UNCHANGED <<edits, proposals, applied, overlapped, repeated>> /\ ~EditAt(r, "mark")
    BY <1>4 DEF RestartEditChatSession, EditAt
  <2>2. PICK q \in EditReq : EditTo(r, q) /\ q.pc = "open"
    <3>1. 0 \in 0 .. MaxEditChats
      OBVIOUS
    <3> QED
      BY <1>4, <3>1, EditOpened DEF RestartEditChatSession
  <2>3. edit' \in [EditIds -> Edit] /\ \A t \in EditIds : edit'[t].op = edit[t].op /\ edit'[t].last = edit[t].last
    BY <1>0, <1>4 DEF RestartEditChatSession, Edit
  <2> QED
    BY <1>0, <1>1, <2>1, <2>2, <2>3
<1>5. ASSUME NEW r \in EditReqs, SayToEditChat(r) PROVE EditInv'
  <2>1. UNCHANGED <<edits, proposals, applied, overlapped, repeated>> /\ ~EditAt(r, "mark")
    BY <1>5 DEF SayToEditChat, EditAt
  <2>2. PICK q \in EditReq : EditTo(r, q) /\ q.pc = "model" /\ q.edit = editReq[r].edit
    BY <1>0, <1>5, EditMoves DEF SayToEditChat
  <2>3. editReq[r].edit \in EditIds
    BY <1>0, <1>5 DEF SayToEditChat, EditTyped, EditAt
  <2>4. edit' \in [EditIds -> Edit] /\ \A t \in EditIds : edit'[t].op = edit[t].op /\ edit'[t].last \in {edit[t].last, "text"}
    BY <1>0, <1>5, <2>3, MessageIsAppended DEF SayToEditChat, Edit
  <2> QED
    BY <1>0, <1>1, <2>1, <2>2, <2>3, <2>4
<1>6. ASSUME NEW r \in EditReqs, EditRequestEnds(r) PROVE EditInv'
  BY <1>0, <1>1, <1>6, EditIdleIsTyped DEF EditRequestEnds, EditTypeOK
<1>7. ASSUME NEW r \in EditReqs, AnswerEditChat(r) PROVE EditInv'
  <2> DEFINE s == editReq[r].edit
  <2>0. s \in EditIds /\ ~EditAt(r, "mark") /\ EditTo(r, EditIdle) /\ UNCHANGED <<edits, applied, repeated>>
    BY <1>0, <1>7 DEF AnswerEditChat, EditTyped, EditAt
  <2>1. CASE UNCHANGED <<edit, proposals, overlapped>>
    BY <1>0, <1>1, <2>0, <2>1, EditIdleIsTyped DEF EditTypeOK
  <2>2. CASE AppendMessage(s, "text", edit[s].op) /\ UNCHANGED <<proposals, overlapped>>
    <3>1. edit' \in [EditIds -> Edit] /\ \A t \in EditIds : edit'[t].op = edit[t].op /\ edit'[t].last \in {edit[t].last, "text"}
      BY <1>0, <2>0, <2>2, MessageIsAppended DEF Edit
    <3> QED
      BY <1>0, <1>1, <2>0, <2>2, <3>1, EditIdleIsTyped
  <2>3. CASE /\ proposals < MaxOps
             /\ proposals' = proposals + 1
             /\ AppendMessage(s, "op", proposals + 1)
             /\ overlapped' = IF Confirmations(s) = {} THEN overlapped ELSE overlapped \cup {proposals + 1}
    <3>0. PICK t \in EditIds : t = s
      BY <2>0
    <3>1. proposals + 1 \in OpIds /\ proposals + 1 \in 0 .. MaxOps /\ proposals' \in 0 .. MaxOps
      BY <1>0, <2>3 DEF OpIds
    <3>2. /\ editReq' \in [EditReqs -> EditReq] /\ editReq'[r].pc = "idle"
          /\ \A q \in EditReqs \ {r} : editReq'[q] = editReq[q]
      BY <1>0, <2>0, EditBecomes, EditIdleIsTyped
    <3>3. /\ edit' \in [EditIds -> Edit]
          /\ edit'[t].last = "op" /\ edit'[t].op = proposals + 1
          /\ \A u \in EditIds \ {t} : edit'[u] = edit[u]
      BY <1>0, <2>0, <2>3, <3>0, <3>1, MessageIsAppended
    <3>4. /\ overlapped \subseteq overlapped' /\ overlapped' \subseteq OpIds
          /\ \A q \in EditReqs : Applying(q) /\ editReq[q].edit = t => proposals + 1 \in overlapped'
      BY <1>0, <2>3, <3>0, <3>1 DEF EditTypeOK, Confirmations, Applying
    <3>5. EditTyped'
      BY <1>0, <2>0, <3>1, <3>2, <3>3, <3>4 DEF EditTyped, EditTypeOK, Applying
    <3>6. ASSUME NEW q \in EditReqs PROVE ConfirmationIsKnown(q)'
      BY <1>0, <2>0, <2>3, <3>1, <3>2, <3>3, <3>4 DEF EditTyped, ConfirmationIsKnown, Applying, EditAt
    <3>7. ASSUME NEW u \in EditIds PROVE ProposalIsOwn(u)'
      BY <1>0, <2>0, <2>3, <3>1, <3>2, <3>3, <3>4 DEF ProposalIsOwn, EditAt, OpIds
    <3>8. \A o \in OpIds : o > proposals' => applied'[o] = 0
      BY <1>0, <2>0, <2>3 DEF OpIds
    <3>9. ConfirmationsAreTrue'
      BY <1>0, <2>0, <3>3, <3>4 DEF ConfirmationsAreTrue, AppliedIsTrue, AppliedOnce
    <3> QED
      BY <3>5, <3>6, <3>7, <3>8, <3>9 DEF EditInv
  <2> QED
    BY <1>7, <2>1, <2>2, <2>3 DEF AnswerEditChat
<1>8. ASSUME NEW r \in EditReqs, EditChatConfirm(r) PROVE EditInv'
  <2>1. PICK s \in EditIds :
          /\ edit[s].last = "op"
          /\ EditTo(r, [pc |-> "apply", edit |-> s, op |-> edit[s].op])
          /\ repeated' = IF Confirmations(s) = {} THEN repeated ELSE repeated \cup {edit[s].op}
    BY <1>8 DEF EditChatConfirm, ConfirmOf, OpenEdits
  <2>2. UNCHANGED <<edit, edits, proposals, applied, overlapped>> /\ EditAt(r, "idle")
    BY <1>8 DEF EditChatConfirm, ConfirmOf
  <2>3. edit[s].op \in OpIds /\ edit[s].op \in 1 .. proposals
    BY <1>0, <2>1 DEF ProposalIsOwn, OpIds
  <2>4. [pc |-> "apply", edit |-> s, op |-> edit[s].op] \in EditReq
    BY <2>3 DEF EditReq, EditIds, OpIds
  <2>5. /\ editReq' \in [EditReqs -> EditReq]
        /\ editReq'[r].pc = "apply" /\ editReq'[r].edit = s /\ editReq'[r].op = edit[s].op
        /\ \A q \in EditReqs \ {r} : editReq'[q] = editReq[q]
    BY <1>0, <2>1, <2>4, EditBecomes
  <2>6. /\ repeated \subseteq repeated' /\ repeated' \subseteq OpIds
        /\ \A q \in EditReqs : Applying(q) /\ editReq[q].op = edit[s].op => edit[s].op \in repeated'
    BY <1>0, <2>1, <2>3 DEF EditTypeOK, Confirmations, Applying, ConfirmationIsKnown
  <2>7. EditTyped'
    BY <1>0, <2>2, <2>3, <2>5, <2>6 DEF EditTyped, EditTypeOK, Applying
  <2>8. applied[edit[s].op] = 0 \/ edit[s].op \in repeated'
    BY <1>0, <2>1, <2>3, <2>6 DEF ProposalIsOwn, Applying, EditAt, EditTypeOK
  <2>9. ConfirmationIsKnown(r)'
    BY <1>0, <2>2, <2>3, <2>5, <2>6, <2>8 DEF ConfirmationIsKnown, ProposalIsOwn, Applying, EditAt
  <2>10. ASSUME NEW q \in EditReqs \ {r} PROVE ConfirmationIsKnown(q)'
    BY <1>0, <2>2, <2>3, <2>5, <2>6 DEF ConfirmationIsKnown, Applying, EditAt
  <2>11. ASSUME NEW t \in EditIds PROVE ProposalIsOwn(t)'
    BY <1>0, <2>2, <2>5, <2>6 DEF ProposalIsOwn, EditAt
  <2>12. ConfirmationsAreTrue' /\ \A o \in OpIds : o > proposals' => applied'[o] = 0
    BY <1>0, <2>2, <2>6 DEF ConfirmationsAreTrue, AppliedIsTrue, AppliedOnce
  <2> QED
    BY <2>7, <2>9, <2>10, <2>11, <2>12 DEF EditInv
<1>9. ASSUME NEW r \in EditReqs, ApplyEdit(r) PROVE EditInv'
  <2>0. PICK o \in OpIds : o = editReq[r].op /\ o \in 1 .. proposals
    BY <1>0, <1>9 DEF ApplyEdit, EditAt, Applying, ConfirmationIsKnown, EditTyped
  <2>1. /\ UNCHANGED <<edit, edits, proposals, overlapped, repeated>> /\ EditAt(r, "apply")
        /\ applied' = [applied EXCEPT ![o] = @ + 1] /\ applied[o] < 2
    BY <1>9, <2>0 DEF ApplyEdit
  <2>2. /\ applied' \in [OpIds -> 0 .. 2] /\ applied'[o] = applied[o] + 1
        /\ \A p \in OpIds \ {o} : applied'[p] = applied[p]
    BY <1>0, <2>1 DEF EditTypeOK
  <2>3. /\ editReq' \in [EditReqs -> EditReq]
        /\ editReq'[r].pc = "mark" /\ editReq'[r].edit = editReq[r].edit /\ editReq'[r].op = o
        /\ \A q \in EditReqs \ {r} : editReq'[q] = editReq[q]
    <3> DEFINE k == [editReq[r] EXCEPT !.pc = "mark"]
    <3>1. k \in EditReq /\ k.pc = "mark" /\ k.edit = editReq[r].edit /\ k.op = editReq[r].op
      BY <1>0, EditMoves
    <3>2. EditTo(r, k)
      BY <1>9 DEF ApplyEdit
    <3> HIDE DEF k
    <3> QED
      BY <1>0, <2>0, <3>1, <3>2, EditBecomes
  <2>4. applied[o] = 0 \/ o \in repeated
    BY <1>0, <2>0, <2>1 DEF ConfirmationIsKnown, Applying, EditAt
  <2>5. EditTyped'
    BY <1>0, <2>1, <2>2, <2>3 DEF EditTyped, EditTypeOK, Applying, EditAt
  <2>6. applied[o] \in 0 .. 2 /\ applied'[o] > 0 /\ (applied'[o] > 1 => o \in repeated)
    BY <1>0, <2>2, <2>4 DEF EditTypeOK
  <2>7. ConfirmationIsKnown(r)'
    BY <1>0, <2>0, <2>1, <2>3, <2>6 DEF ConfirmationIsKnown, Applying, EditAt
  <2>8. ASSUME NEW q \in EditReqs \ {r} PROVE ConfirmationIsKnown(q)'
    BY <1>0, <2>0, <2>1, <2>2, <2>3, <2>6 DEF ConfirmationIsKnown, Applying, EditAt, OpIds
  <2>9. ASSUME NEW t \in EditIds PROVE ProposalIsOwn(t)'
    BY <1>0, <2>0, <2>1, <2>2, <2>3, <2>6 DEF ProposalIsOwn, EditAt, OpIds
  <2>10. ConfirmationsAreTrue' /\ \A p \in OpIds : p > proposals' => applied'[p] = 0
    BY <1>0, <2>0, <2>1, <2>2, <2>6 DEF ConfirmationsAreTrue, AppliedIsTrue, AppliedOnce, ProposalIsOwn, OpIds
  <2> QED
    BY <2>5, <2>7, <2>8, <2>9, <2>10 DEF EditInv
<1>10. ASSUME NEW r \in EditReqs, MarkApplied(r) PROVE EditInv'
  <2>0. PICK s \in EditIds : s = editReq[r].edit
    BY <1>0, <1>10 DEF MarkApplied, EditTyped, EditAt
  <2>1. UNCHANGED <<edits, proposals, applied, overlapped, repeated>> /\ EditAt(r, "mark") /\ EditTo(r, EditIdle)
    BY <1>10 DEF MarkApplied
  <2>2. /\ edit' \in [EditIds -> Edit]
        /\ edit'[s].last = "marker" /\ edit'[s].op = edit[s].op
        /\ \A t \in EditIds \ {s} : edit'[t] = edit[t]
    BY <1>0, <1>10, <2>0, MessageIsAppended DEF MarkApplied, Edit
  <2>3. /\ editReq' \in [EditReqs -> EditReq] /\ editReq'[r].pc = "idle"
        /\ \A q \in EditReqs \ {r} : editReq'[q] = editReq[q]
    BY <1>0, <2>1, EditBecomes, EditIdleIsTyped
  <2>4. EditTyped'
    BY <1>0, <2>1, <2>2, <2>3 DEF EditTyped, EditTypeOK, Applying
  <2>5. /\ editReq[r].op \in OpIds /\ applied[editReq[r].op] > 0
        /\ edit[s].op = editReq[r].op \/ edit[s].op \in overlapped
        /\ \A t \in EditIds : edit[t].op = editReq[r].op => t = s
    BY <1>0, <2>0, <2>1 DEF ConfirmationIsKnown, Applying, EditAt, EditTyped
  <2>6. edit[s].op # 0 /\ (applied[edit[s].op] > 0 \/ edit[s].op \in overlapped)
    BY <1>0, <2>5 DEF EditTypeOK, OpIds
  <2>7. ASSUME NEW q \in EditReqs PROVE ConfirmationIsKnown(q)'
    BY <1>0, <2>1, <2>2, <2>3 DEF EditTyped, ConfirmationIsKnown, Applying, EditAt
  <2>8. ASSUME NEW t \in EditIds PROVE ProposalIsOwn(t)'
    BY <1>0, <2>1, <2>2, <2>3, <2>5, <2>6 DEF ProposalIsOwn, EditAt
  <2>9. ConfirmationsAreTrue' /\ \A p \in OpIds : p > proposals' => applied'[p] = 0
    BY <1>0, <2>1, <2>2, <2>6 DEF ConfirmationsAreTrue, AppliedIsTrue, AppliedOnce
  <2> QED
    BY <2>4, <2>7, <2>8, <2>9 DEF EditInv
<1>11. CASE UNCHANGED editVars
  BY <1>0, <1>11 DEF editVars, EditInv, EditTyped, EditTypeOK, ConfirmationIsKnown, Applying, EditAt, ProposalIsOwn,
                     ConfirmationsAreTrue, AppliedIsTrue, AppliedOnce
<1> QED
  BY <1>2, <1>3, <1>4, <1>5, <1>6, <1>7, <1>8, <1>9, <1>10, <1>11 DEF EditNext

\* The invariant holds where nobody talked yet.
LEMMA EditStart == EditInit => EditInv
<1> SUFFICES ASSUME EditInit PROVE EditInv
  OBVIOUS
<1>1. NoEdit \in Edit /\ NoEdit.last = "nothing" /\ NoEdit.op = 0
  BY EditBounds DEF NoEdit, Edit
<1>2. EditTyped
  BY <1>1, EditBounds, EditIdleIsTyped DEF EditInit, EditTyped, EditTypeOK, Applying
<1> QED
  BY <1>1, <1>2, EditIdleIsTyped DEF EditInit, EditInv, ConfirmationIsKnown, Applying, EditAt, ProposalIsOwn,
                                ConfirmationsAreTrue, AppliedIsTrue, AppliedOnce

\* Two confirmations, or a confirmation and a proposal, that overlap apply nothing twice and
\* leave no false marker, but as named.
THEOREM Confirmed == EditSpec => []ConfirmationsAreTrue
<1>1. EditInv => ConfirmationsAreTrue
  BY DEF EditInv
<1> QED
  BY <1>1, EditStart, EditStepInv, PTL DEF EditSpec

-----------------------------------------------------------------------------
(* The composition.  A step of the whole is a step of one component and    *)
(* leaves the variables of the others alone, so what is proved of each     *)
(* component holds of the whole.                                           *)

\* The state and the steps of the whole are those of its parts.
LEMMA PartsRun ==
    /\ DashInit => Init /\ FrontInit /\ KeyInit /\ SetInit /\ BuildInit /\ EditInit
    /\ [DashNext]_<<part, dashVars>> =>
          /\ [Next]_vars /\ [FrontNext]_frontVars /\ [KeyNext]_keyVars
          /\ [SetNext]_setVars /\ [BuildNext]_buildVars /\ [EditNext]_editVars
BY DEF DashInit, DashNext, dashVars

\* The whole implements the specification of every one of its components.
THEOREM PartsAreImplemented ==
    DashSpec => Spec /\ FrontSpec /\ KeySpec /\ SetSpec /\ BuildSpec /\ EditSpec
BY PartsRun, PTL DEF DashSpec, Spec, FrontSpec, KeySpec, SetSpec, BuildSpec, EditSpec

\* The inductive invariants of the components, together.
AllKept == IInv /\ FrontInv /\ KeyInv /\ SetInv /\ BuildInv /\ EditInv
PartIsNamed == part \in {"members", "frontend", "keys", "settings", "github", "build", "edit"}

\* Every component of the whole keeps the types of its state, whichever of
\* them took the last step.
THEOREM DashboardTypes == DashSpec => []DashboardTypeOK
<1>1. DashSpec => []AllKept
  BY PartsAreImplemented, InitIInv, NextKeeps, FrontStart, FrontStepInv, KeyStart, KeyStepInv, SetStart, SetStepInv,
     BuildStart, BuildStepInv, EditStart, EditStepInv, PTL
     DEF Spec, FrontSpec, KeySpec, SetSpec, BuildSpec, EditSpec, AllKept
<1>2. DashSpec => []PartIsNamed
  <2>1. DashInit => PartIsNamed
    BY DEF DashInit, PartIsNamed
  <2>2. PartIsNamed /\ [DashNext]_<<part, dashVars>> => PartIsNamed'
    BY DEF DashNext, PartIsNamed
  <2> QED
    BY <2>1, <2>2, PTL DEF DashSpec
<1>3. AllKept /\ PartIsNamed => DashboardTypeOK
  BY DEF AllKept, PartIsNamed, DashboardTypeOK, IInv, FrontInv, KeyInv, SetInv, BuildInv, BuildTyped, EditInv, EditTyped
<1> QED
  BY <1>1, <1>2, <1>3, PTL
=============================================================================
