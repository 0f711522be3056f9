------------------------------ MODULE MCToken ------------------------------
(***************************************************************************)
(* TokenUseCase on small constants.                                        *)
(***************************************************************************)
EXTENDS TokenUseCase, TLC

\* No consent token takes part.
MCJtiExpiry == [j \in Jtis |-> 0]

\* Opaque identifiers: slots, refresh tokens, families, codes, clients.
TokenSymmetry == Permutations(Requests) \cup Permutations(Tokens)
                 \cup Permutations(Families) \cup Permutations(Codes)
                 \cup Permutations(Clients)
=============================================================================
