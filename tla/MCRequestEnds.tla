-------------------------- MODULE MCRequestEnds --------------------------
(***************************************************************************)
(* An instance without symmetry of the two components whose requests wait  *)
(* for locks and connections, the token families and the webhook           *)
(* deliveries.  They share nothing: `part` is the one that runs, and the   *)
(* other stays in an initial state.                                        *)
(***************************************************************************)
EXTENDS TokenFamilies, TLC

CONSTANTS Pods, Events, PoolSize, Nobody, MaxChanges, MaxFaults

VARIABLES part, hook, log, applied, lockPool, conns, holder, call, changes, faults, exposed

\* The calls in flight are the same model values as the requests for tokens.
Delivery == INSTANCE WebhookDelivery WITH Calls <- TokenReqs

deliveryVars == <<hook, log, applied, lockPool, conns, holder, call, changes, faults, exposed>>
endsVars == <<part, famVars, deliveryVars>>

EndsInit ==
    /\ part \in {"families", "deliveries"}
    /\ FamInit
    /\ Delivery!Init
    /\ part = "families" => hook.dedup

Families(A) == part = "families" /\ A /\ UNCHANGED <<part, deliveryVars>>
Deliveries(A) == part = "deliveries" /\ A /\ UNCHANGED <<part, famVars>>

EndsNext == Families(FamNext) \/ Deliveries(Delivery!Next)

\* FamFairness and Delivery!Fairness.  Only one disjunct can be enabled in the part that
\* runs, so strong fairness of both together is that of each.
EndsFairness ==
    \A r \in TokenReqs :
       /\ SF_endsVars(Families(FamStep(r)) \/ Deliveries(Delivery!AcquireConn(r)))
       /\ WF_endsVars(Deliveries(Delivery!Proceed(r)))

EndsSpec == EndsInit /\ [][EndsNext]_endsVars /\ EndsFairness

\* Every delivery ends: the lock, the lock pool and a crash never leave one waiting for
\* ever (lockEventID), as WebhookDelivery states it.
EveryCallEnds == Delivery!EveryCallEnds
=============================================================================
