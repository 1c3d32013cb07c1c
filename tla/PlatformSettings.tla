-------------------------- MODULE PlatformSettings --------------------------
(***************************************************************************)
(* Settings that are kept in one row each and saved as patches: what a     *)
(* request leaves out stays as it is, but that the storage configuration   *)
(* of the system is replaced whole and that a provider of an app that is   *)
(* not mentioned is dropped.  Four of them are read, merged in the program *)
(* and written back whole, without a lock; the brand, the AI provider and  *)
(* the GitHub App are merged by the statement that writes them.            *)
(***************************************************************************)
EXTENDS Naturals, FiniteSets

CONSTANTS SetReqs,   \* requests in flight at once
          HubApps,   \* GitHub Apps that exist; a private key is named by its App
          MaxEdits,  \* bound: patches ever sent; the number of one is the value it gives
          NoHub      \* no App, no key, no installation

ASSUME SettingsBounds == MaxEdits \in Nat \ {0} /\ NoHub \notin HubApps

VARIABLES setting,  \* the settings, by row and field
          patches,  \* patches so far
          hub,      \* github_app_config
          setReq    \* requests in flight

setVars == <<setting, patches, hub, setReq>>

-----------------------------------------------------------------------------
SettingRows == {"system", "brand", "provider", "app_providers", "deploy", "ai"}
\* A key, what goes with it, and what else the row holds: of the system that is the switches
\* and limits beside the storage configuration, of the providers of an app another provider.
Pair == {"public", "secret"}
Fields == Pair \cup {"other"}
Blank == [f \in Fields |-> 0]
Content == [Fields -> 0 .. MaxEdits]
HubOrNone == HubApps \cup {NoHub}

\* along: the fields of the objects, storage configuration or providers, that the patch holds.
SetIdle == [pc |-> "idle", row |-> "system", given |-> {}, along |-> {}, edit |-> 0, read |-> Blank, failed |-> FALSE,
            app |-> NoHub, key |-> NoHub, overtaken |-> FALSE]
SetReq == [pc : {"idle", "patch", "save_app", "install"}, row : SettingRows, given : SUBSET Fields,
           along : SUBSET Fields, edit : 0 .. MaxEdits, read : Content, failed : BOOLEAN,
           app : HubOrNone, key : HubOrNone, overtaken : BOOLEAN]

SetInit ==
    /\ setting = [k \in SettingRows |-> Blank]
    /\ patches = 0
    /\ hub = [on |-> FALSE, app |-> NoHub, key |-> NoHub, installed |-> NoHub]
    /\ setReq = [r \in SetReqs |-> SetIdle]

Sends(r, q) == setReq[r].pc = "idle" /\ setReq' = [setReq EXCEPT ![r] = q]
\* history: r writes, and those that read what it overwrites do not know.
Writes(r, pcs) ==
    setReq' = [q \in SetReqs |->
        IF q = r THEN SetIdle
        ELSE [setReq[q] EXCEPT !.overtaken = @ \/ (setReq[q].pc \in pcs /\ setReq[q].row = setReq[r].row)]]

-----------------------------------------------------------------------------
Patch(r, k, g, along, read, failed) ==
    /\ patches < MaxEdits
    /\ patches' = patches + 1
    /\ Sends(r, [SetIdle EXCEPT !.pc = "patch", !.row = k, !.given = g, !.along = along, !.edit = patches + 1,
                                 !.read = read, !.failed = failed])
    /\ UNCHANGED <<setting, hub>>

\* The handlers read the row, and a read that fails ends the request.
UpdateSystemConfig(r, g, along) ==
    /\ along \in {{}, Pair} /\ g \subseteq along \cup {"other"}
    /\ Patch(r, "system", g, along, setting["system"], FALSE)

\* A patch that is null holds every provider and gives nothing.
UpdateAppAuthProviders(r, g, along) ==
    /\ along \in {{}, Pair, {"other"}, Fields} /\ g \subseteq along
    /\ Patch(r, "app_providers", g, along, setting["app_providers"], FALSE)

\* All fields come along, but the key may be left out; UpsertConfig wants it and reads nothing.
UpdateFields(r, g) == Fields \ {"secret"} \subseteq g /\ Patch(r, "deploy", g, {}, setting["deploy"], FALSE)
UpsertConfig(r) == Patch(r, "deploy", Fields, {}, Blank, FALSE)

\* A provider that cannot be read is taken for one that is not configured.
UpsertAuthProvider(r, g) ==
    \/ Patch(r, "provider", g, {}, setting["provider"], FALSE)
    \/ Patch(r, "provider", g, {}, Blank, TRUE)

\* Reads nothing.
UpdateConfig(r, g) == g # {} /\ Patch(r, "brand", g, {}, Blank, FALSE)

\* The model and the switch always come along, the key may be left out.
UpsertAIProvider(r, g) == Fields \ {"secret"} \subseteq g /\ Patch(r, "ai", g, {}, Blank, FALSE)

\* Mutant: what is not given is emptied.
MergeNothing(q, base) == [f \in Fields |-> IF f \in q.given THEN q.edit ELSE 0]

Merge(q, base) == [f \in Fields |-> IF f \in q.given THEN q.edit ELSE base[f]]

Without(gone, content) == [f \in Fields |-> IF f \in gone THEN 0 ELSE content[f]]

\* A storage configuration replaces the old one; without a bucket nothing of it is stored.
SaveSystemConfig(q) ==
    Without(IF "public" \in q.given THEN q.along \ q.given ELSE q.along, Merge(q, q.read))
\* A provider is merged field by field; what is not mentioned is dropped.
SaveAppProviders(q) == Without(Fields \ q.along, Merge(q, q.read))
SaveDeployConfig(q) == Merge(q, q.read)
\* A patch without a configuration writes back the one that was read; an empty one is kept in SQL.
SaveAuthProvider(q) == IF q.given = {} /\ q.failed THEN setting["provider"] ELSE Merge(q, q.read)
SaveBrandConfig(q) == Merge(q, setting["brand"])
SaveAIProvider(q) == Merge(q, setting["ai"])

WriteRow(r) ==
    LET q == setReq[r] IN
    /\ q.pc = "patch"
    /\ setting' = [setting EXCEPT ![q.row] = CASE q.row = "system" -> SaveSystemConfig(q)
                                              [] q.row = "app_providers" -> SaveAppProviders(q)
                                              [] q.row = "deploy" -> SaveDeployConfig(q)
                                              [] q.row = "provider" -> SaveAuthProvider(q)
                                              [] q.row = "brand" -> SaveBrandConfig(q)
                                              [] q.row = "ai" -> SaveAIProvider(q)]
    /\ Writes(r, {"patch"})
    /\ UNCHANGED <<patches, hub>>

-----------------------------------------------------------------------------
VerifyKey(r, a, k, verified) ==
    /\ verified => a = IF k = NoHub THEN hub.key ELSE k
    /\ k = NoHub => hub.on /\ hub.key # NoHub
    /\ Sends(r, [SetIdle EXCEPT !.pc = "save_app", !.app = a, !.key = k])
    /\ UNCHANGED <<setting, patches, hub>>

\* Mutant: a key that is on record is not verified again.
VerifyGiven(r, a, k) == VerifyKey(r, a, k, k # NoHub)

\* The App is verified with the key given, or with the one on record (UpsertConfig).
VerifyAppCredentials(r, a, k) == VerifyKey(r, a, k, TRUE)

\* One statement; what it inserts has no key when none was given.
UpsertGitHubConfig(r) ==
    LET q == setReq[r] IN
    /\ q.pc = "save_app"
    /\ hub' = [on |-> TRUE, app |-> q.app,
               key |-> IF q.key = NoHub THEN hub.key ELSE q.key,
               installed |-> hub.installed]
    /\ Writes(r, {"save_app", "install"})
    /\ UNCHANGED <<setting, patches>>

\* The installation of the App that is configured, as GitHub knows it.
InstallCallback(r) ==
    /\ hub.on /\ hub.app = hub.key
    /\ Sends(r, [SetIdle EXCEPT !.pc = "install", !.app = hub.app])
    /\ UNCHANGED <<setting, patches, hub>>

UpdateGitHubInstallation(r) ==
    /\ setReq[r].pc = "install"
    /\ hub' = IF hub.on THEN [hub EXCEPT !.installed = setReq[r].app] ELSE hub
    /\ Writes(r, {})
    /\ UNCHANGED <<setting, patches>>

DeleteGitHubConfig(r) ==
    /\ hub.on /\ setReq[r].pc = "idle"
    /\ hub' = [on |-> FALSE, app |-> NoHub, key |-> NoHub, installed |-> NoHub]
    /\ Writes(r, {"save_app", "install"})
    /\ UNCHANGED <<setting, patches>>

\* The caller goes away, a statement fails, the pod dies.
AbandonSetting(r) ==
    /\ setReq[r].pc # "idle"
    /\ setReq' = [setReq EXCEPT ![r] = SetIdle]
    /\ UNCHANGED <<setting, patches, hub>>

SetNext ==
    \E r \in SetReqs :
        \/ \E g, along \in SUBSET Fields : UpdateSystemConfig(r, g, along) \/ UpdateAppAuthProviders(r, g, along)
        \/ \E g \in SUBSET Fields :
              \/ UpdateFields(r, g) \/ UpsertAuthProvider(r, g) \/ UpdateConfig(r, g) \/ UpsertAIProvider(r, g)
        \/ UpsertConfig(r)
        \/ \E a \in HubApps, k \in HubOrNone : VerifyAppCredentials(r, a, k)
        \/ WriteRow(r) \/ UpsertGitHubConfig(r) \/ InstallCallback(r) \/ UpdateGitHubInstallation(r)
        \/ DeleteGitHubConfig(r) \/ AbandonSetting(r)

SetSpec == SetInit /\ [][SetNext]_setVars

-----------------------------------------------------------------------------
SetTypeOK ==
    /\ setting \in [SettingRows -> Content]
    /\ patches \in 0 .. MaxEdits
    /\ hub \in [on : BOOLEAN, app : HubOrNone, key : HubOrNone, installed : HubOrNone]
    /\ setReq \in [SetReqs -> SetReq]

\* The fields that a patch empties although it leaves them out: those of a storage
\* configuration that is replaced, and those of a provider that is not mentioned.
Emptied(q) ==
    CASE q.row = "system" -> q.along \ q.given
      [] q.row = "app_providers" -> Fields \ q.along
      [] OTHER -> {}

\* What the patch r of the row k read is known to be old, or was never read.
Overtaken(r, k) == k \notin {"brand", "ai"} /\ (setReq[r].overtaken \/ setReq[r].failed)

\* What a patch leaves out changes only when another patch of the row was saved between
\* its read and its write, or when the provider of the platform could not be read; but
\* the storage configuration of the system is replaced and the providers of an app that
\* are not mentioned are dropped, and then what is left out is emptied
\* (UpdateSystemConfig, UpsertAuthProvider, UpdateAppAuthProviders, UpdateFields).
LostSettingIsARace ==
    [][\A k \in SettingRows, f \in Fields : setting'[k][f] # setting[k][f] =>
          \E r \in SetReqs :
              /\ setReq[r].pc = "patch" /\ setReq[r].row = k
              /\ \/ f \in setReq[r].given
                 \/ f \in Emptied(setReq[r]) /\ setting'[k][f] = 0
                 \/ Overtaken(r, k)]_setVars

\* mergeSystemConfig "overlays only the fields present in the patch onto the current config
\* (merge-on-absent, see mergeProviderConfig for the pattern)": a patch that gives the bucket
\* of the storage and leaves the key out, which no answer ever holds, keeps the key.
AbsentSecretIsKept ==
    [][setting'["system"]["secret"] # setting["system"]["secret"] =>
          \E r \in SetReqs :
              /\ setReq[r].pc = "patch" /\ setReq[r].row = "system"
              /\ "secret" \in setReq[r].given \/ "public" \notin setReq[r].given \/ setReq[r].overtaken]_setVars

\* The App id and the private key on record belong together, unless one of two
\* requests that overlapped had verified its App with a key that the other
\* replaced or deleted (UpsertConfig, DeleteConfig).
UnverifiedPairIsARace ==
    [][hub'.on /\ hub'.app # hub'.key /\ (hub.on => hub.app = hub.key)
       => \E r \in SetReqs : setReq[r].pc = "save_app" /\ setReq[r].key = NoHub /\ setReq[r].overtaken]_setVars

\* The installation on record becomes one of another App only when the App is
\* switched under it, or when a callback comes back to a configuration that was
\* replaced meanwhile (UpsertGitHubConfig, InstallCallback).
ForeignInstallationIsASwitch ==
    [][hub'.installed \notin {NoHub, hub'.app} /\ hub.installed \in {NoHub, hub.app}
       => \E r \in SetReqs : \/ setReq[r].pc = "save_app" /\ hub.on /\ hub.app # setReq[r].app
                             \/ setReq[r].pc = "install" /\ setReq[r].overtaken]_setVars

\* The GitHub App, its key and its installation come apart in no other way.
AppDriftIsARace == UnverifiedPairIsARace /\ ForeignInstallationIsASwitch
=============================================================================
