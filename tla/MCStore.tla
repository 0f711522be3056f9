------------------------------ MODULE MCStore ------------------------------
(***************************************************************************)
(* Store on small constants, driven by every caller: three tokens of a     *)
(* family and two resources, a code and a consent whose JTI a sweep can    *)
(* outrun, and two identities of the store.                                *)
(***************************************************************************)
EXTENDS Store, TLC

CONSTANTS j1, t1, t2, t3, f1, c1, s1, k1, b1

\* The consent expires at the first instant, so the second sweeps it.
MCJtiExpiry == [j \in Jtis |-> 0]

\* Tokens are opaque.
TokenSymmetry == Permutations(Tokens)
=============================================================================
