-------------------------- MODULE MCMachineClient --------------------------
(***************************************************************************)
(* MachineClient on small constants: a fresh client, or a legacy row with  *)
(* two live secrets and an expired one.                                    *)
(***************************************************************************)
EXTENDS MachineClient, TLC

CONSTANTS s1, s2, s3, r1

MCLegacyRows ==
  {[version |-> 0, status |-> "active", resource |-> r1,
    secrets |-> <<[secret |-> s1, createdAt |-> 0, expiresAt |-> 1],
                  [secret |-> s2, createdAt |-> 0, expiresAt |-> 3],
                  [secret |-> s3, createdAt |-> 1, expiresAt |-> None]>>]}

\* Operator slots are opaque.
OperatorSymmetry == Permutations(Operators)
=============================================================================
