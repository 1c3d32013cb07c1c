------------------------- MODULE MCTokenRevocation -------------------------
(* An instance of TokenRevocation for TLC: no app and no dashboard request  *)
(* of RegistrySync beyond the system configuration, so that the syncer  *)
(* and the token cache of a pod, and the commits of others, interleave.     *)
EXTENDS TokenRevocation, TLC
=============================================================================
