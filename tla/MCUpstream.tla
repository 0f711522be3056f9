----------------------------- MODULE MCUpstream -----------------------------
(***************************************************************************)
(* UpstreamFlow on small constants: two logins, two clients, two accounts  *)
(* of which one has a ceiling, two callbacks, and one approve request.     *)
(***************************************************************************)
EXTENDS UpstreamFlow, TLC

CONSTANTS c1, c2, s1, s2, a, b, b1

MCJtiExpiry == [j \in Jtis |-> 1]

Full == [subject |-> s1, ceiling |-> None]
Limited == [subject |-> s2, ceiling |-> {a}]

MCIdentities == {Full, Limited}

MCRequests == {[client |-> c, scopes |-> {a, b}, binding |-> b1] : c \in {c1, c2}}

MCFlows == {[client |-> r.client, scopes |-> r.scopes, binding |-> r.binding,
             subject |-> i.subject, ceiling |-> i.ceiling] : r \in MCRequests, i \in MCIdentities}

\* Slots, codes and the JTIs of one kind are opaque.
UpstreamSymmetry ==
  Permutations(Callbacks) \cup Permutations(Codes) \cup Permutations(IdpCodes)
    \cup Permutations(Logins) \cup Permutations(Jtis \ Logins)
=============================================================================
