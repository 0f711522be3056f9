------------------------------- MODULE MCBoot -------------------------------
(***************************************************************************)
(* Boot on small constants: two processes of a deployment that is new or   *)
(* upgraded, two faults, two scaffolds of two files, and two audit events  *)
(* behind deployments that take their key from the environment.            *)
(***************************************************************************)
EXTENDS Boot
=============================================================================
