---------------------------- MODULE GrantLineage ----------------------------
(***************************************************************************)
(* What a client may rely on about its grants: the consent of a user is    *)
(* exchanged for tokens once, from then on at most one token at a time     *)
(* carries the grant, it is passed on and never copied, and a grant that   *)
(* is over never comes back.                                               *)
(***************************************************************************)
CONSTANTS Grants, Tokens

VARIABLES begun,  \* grants that were exchanged for a token
          heirs   \* the tokens that carry each grant

lineageVars == <<begun, heirs>>

LineageInit == begun = {} /\ heirs = [g \in Grants |-> {}]

Give(g) ==
    /\ g \notin begun
    /\ begun' = begun \cup {g}
    /\ \E t \in Tokens : heirs' = [heirs EXCEPT ![g] = {t}]

Pass(g) ==
    /\ heirs[g] # {}
    /\ \E t \in Tokens \ heirs[g] : heirs' = [heirs EXCEPT ![g] = {t}]
    /\ UNCHANGED begun

\* A deletion ends every grant of a client or of a user.
End(gs) ==
    /\ heirs' = [g \in Grants |-> IF g \in gs THEN {} ELSE heirs[g]]
    /\ UNCHANGED begun

LineageNext ==
    \/ \E g \in Grants : Give(g) \/ Pass(g)
    \/ \E gs \in SUBSET Grants : End(gs)

Lineage == LineageInit /\ [][LineageNext]_lineageVars
=============================================================================
