------------------------------ MODULE MCBridge ------------------------------
(***************************************************************************)
(* Bridge on small constants: two consents of a client whose scopes        *)
(* accumulate, the second under a ceiling, or one of another client.       *)
(***************************************************************************)
EXTENDS Bridge, TLC

CONSTANTS c1, c2, s1, a, b, b1

MCJtiExpiry == [j \in Jtis |-> 2]

Flow(client, scopes, ceiling) ==
  [client |-> client, subject |-> s1, scopes |-> scopes, ceiling |-> ceiling, binding |-> b1]

MCFlows == {Flow(c1, {a}, None), Flow(c1, {b}, {b}), Flow(c2, {b}, None)}

\* Opaque identifiers: consents (all of one expiry), codes, tokens, families.
BridgeSymmetry == Permutations(Jtis) \cup Permutations(Codes)
                  \cup Permutations(Tokens) \cup Permutations(Families)
=============================================================================
