---------------------------- MODULE MCDashboard ----------------------------
(***************************************************************************)
(* The components behind the dashboard's API that share no row of the      *)
(* database with each other, each on a small instance.  `part` is the one  *)
(* that runs; the others stay in their initial states, so that the states  *)
(* explored are the sum of theirs and not the product.  Of the settings    *)
(* the GitHub App, a row of its own, is a part of its own.                 *)
(***************************************************************************)
EXTENDS AppMembers, FrontendApps, DeployKeys, PlatformSettings, BuildChat, EditChat, TLC

VARIABLE part

dashVars == <<vars, frontVars, keyVars, setVars, buildVars, editVars>>

DashInit ==
    /\ part \in {"members", "frontend", "keys", "settings", "github", "build", "edit"}
    /\ Init /\ FrontInit /\ KeyInit /\ SetInit /\ BuildInit /\ EditInit

DashNext ==
    /\ UNCHANGED part
    /\ \/ /\ part = "members" /\ Next
          /\ UNCHANGED <<frontVars, keyVars, setVars, buildVars, editVars>>
       \/ /\ part = "frontend" /\ FrontNext
          /\ UNCHANGED <<vars, keyVars, setVars, buildVars, editVars>>
       \/ /\ part = "keys" /\ KeyNext
          /\ UNCHANGED <<vars, frontVars, setVars, buildVars, editVars>>
       \/ /\ \/ part = "settings" /\ SetNext /\ UNCHANGED hub
             \/ part = "github" /\ SetNext /\ UNCHANGED <<setting, patches>>
          /\ UNCHANGED <<vars, frontVars, keyVars, buildVars, editVars>>
       \/ /\ part = "build" /\ BuildNext
          /\ UNCHANGED <<vars, frontVars, keyVars, setVars, editVars>>
       \/ /\ part = "edit" /\ EditNext
          /\ UNCHANGED <<vars, frontVars, keyVars, setVars, buildVars>>

DashSpec == DashInit /\ [][DashNext]_<<part, dashVars>>

\* Every component keeps the types of its state, whatever it is asked to do: the rows,
\* counters, locks and requests in flight of AppMembers, FrontendApps, DeployKeys,
\* PlatformSettings, BuildChat and EditChat.
DashboardTypeOK ==
    CASE part = "members" -> TypeOK
      [] part = "frontend" -> FrontTypeOK
      [] part = "keys" -> KeyTypeOK
      [] part \in {"settings", "github"} -> SetTypeOK
      [] part = "build" -> BuildTypeOK
      [] part = "edit" -> EditTypeOK

\* The requests of every component are the same two model values, and interchangeable.
RequestSymmetry == Permutations(Reqs)
=============================================================================
