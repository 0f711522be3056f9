----------------------------- MODULE MCPairing -----------------------------
(***************************************************************************)
(* ConsolePairing on small constants.                                      *)
(***************************************************************************)
EXTENDS ConsolePairing, TLC
=============================================================================
