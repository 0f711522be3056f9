--------------------------- MODULE TokenLineage ---------------------------
(***************************************************************************)
(* What refresh-token rotation promises, with no store, no clock and no    *)
(* request in sight: a family is born once with one token, passes from one *)
(* current token to the next, and once it has no current token it never    *)
(* has one again.  TokenUseCase implements it.                             *)
(***************************************************************************)
CONSTANTS Families, Tokens, None

VARIABLES
  current,  \* the one usable token of each family, or None
  born,     \* families ever issued
  used      \* tokens ever current in some family

lineageVars == <<current, born, used>>

LineageInit ==
  /\ current = [f \in Families |-> None]
  /\ born = {}
  /\ used = {}

Issue(f, t) ==
  /\ f \notin born
  /\ t \notin used
  /\ current' = [current EXCEPT ![f] = t]
  /\ born' = born \cup {f}
  /\ used' = used \cup {t}

Rotate(f, t) ==
  /\ current[f] # None
  /\ t \notin used
  /\ current' = [current EXCEPT ![f] = t]
  /\ used' = used \cup {t}
  /\ UNCHANGED born

\* Replay, revocation, compensation and expiry all end a family; a sweep ends
\* several at once.
End(ended) ==
  /\ current' = [f \in Families |-> IF f \in ended THEN None ELSE current[f]]
  /\ UNCHANGED <<born, used>>

LineageNext ==
  \/ \E f \in Families, t \in Tokens : Issue(f, t) \/ Rotate(f, t)
  \/ \E ended \in SUBSET Families : End(ended)

LineageSpec == LineageInit /\ [][LineageNext]_lineageVars
=============================================================================
