------------------------------ MODULE MCAppDDL ------------------------------
(* Small instance of AppDDL for TLC: two columns, one of which a request    *)
(* may rename to the other.                                                 *)
EXTENDS AppDDL, TLC

CONSTANTS c1, c2

MCColumns == {c1, c2}
OneColumn == (c1 :> "plain" @@ c2 :> "absent")
OtherColumn == (c1 :> "absent" @@ c2 :> "plain")
NotRenamed == (c1 :> None @@ c2 :> None)

Body(mode, col, from) == [rls |-> mode, col |-> col, from |-> from]

\* Open or under policies, and with c1 renamed to c2.
MCBodies ==
    {Body("open", OneColumn, NotRenamed), Body("policy", OneColumn, NotRenamed),
     Body("open", OtherColumn, (c1 :> None @@ c2 :> c1))}

MCAdditions == {<<c2, "constrained">>}

ReqSymmetry == Permutations(Reqs)
=============================================================================
