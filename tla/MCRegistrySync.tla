-------------------------- MODULE MCRegistrySync --------------------------
(* Instances of RegistrySync for TLC. *)
EXTENDS RegistrySync, TLC
=============================================================================
