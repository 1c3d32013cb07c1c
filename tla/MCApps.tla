------------------------------- MODULE MCApps -------------------------------
(***************************************************************************)
(* The components behind the API of an app that share no row of the        *)
(* database with each other, each on a small instance.  `part` is the one  *)
(* that runs; the others stay in their initial states, so that the states  *)
(* explored are the sum of theirs and not the product.                     *)
(***************************************************************************)
EXTENDS AppSessions, RowPolicies, PolicyExpression, DataRows, FileStorage, RateLimits, ColumnConstraints, TLC

VARIABLE part

appsVars == <<sesVars, polVars, build, rowVars, fileVars, limVars, colVars>>

\* The address of every Google account, which one end user may have too.
OneMail == [g \in GoogleIds |-> CHOOSE e \in Emails : TRUE]

\* Clauses, buckets and limiters of all kinds are initial states, of their own part alone.
AppsInit ==
    /\ part \in {"sessions", "policies", "expression", "rows", "files", "limits", "column"}
    /\ SesInit /\ PolInit /\ ExprInit /\ RowInit /\ FileInit /\ LimInit /\ ColInit
    /\ part # "expression" => build.clauses = <<>> /\ build.role = True
    /\ part # "files" => bucket = CHOOSE b \in Buckets : TRUE
    /\ part # "limits" => limiter = "app" /\ budget = 1
    /\ part # "column" => pgColumn = [allowed |-> Values, default |-> NoDefault, strict |-> FALSE]

AppsNext ==
    /\ UNCHANGED part
    /\ \/ /\ part = "sessions" /\ SesNext
          /\ UNCHANGED <<polVars, build, rowVars, fileVars, limVars, colVars>>
       \/ /\ part = "policies" /\ PolNext
          /\ UNCHANGED <<sesVars, build, rowVars, fileVars, limVars, colVars>>
       \/ /\ part = "expression" /\ ExprNext
          /\ UNCHANGED <<sesVars, polVars, rowVars, fileVars, limVars, colVars>>
       \/ /\ part = "rows" /\ RowNext
          /\ UNCHANGED <<sesVars, polVars, build, fileVars, limVars, colVars>>
       \/ /\ part = "files" /\ FileNext
          /\ UNCHANGED <<sesVars, polVars, build, rowVars, limVars, colVars>>
       \/ /\ part = "limits" /\ LimNext
          /\ UNCHANGED <<sesVars, polVars, build, rowVars, fileVars, colVars>>
       \/ /\ part = "column" /\ ColNext
          /\ UNCHANGED <<sesVars, polVars, build, rowVars, fileVars, limVars>>

AppsSpec == AppsInit /\ [][AppsNext]_<<part, appsVars>>

\* Every component keeps the types of its state, whatever it is asked to do: the rows,
\* catalogs, counters and requests in flight of AppSessions, RowPolicies, DataRows,
\* FileStorage, RateLimits and ColumnConstraints.
AppsTypeOK ==
    CASE part = "sessions" -> SesTypeOK
      [] part = "policies" -> PolTypeOK
      [] part = "rows" -> RowTypeOK
      [] part = "files" -> FileTypeOK
      [] part = "limits" -> LimTypeOK
      [] part = "column" -> ColTypeOK
      [] OTHER -> TRUE

\* The requests of every component are the same two model values, and so are its tables,
\* end users and clients; either two are interchangeable.
AppsSymmetry == Permutations(RowReqs) \cup Permutations(EndUsers)
=============================================================================
