------------------------------ MODULE MCMysql ------------------------------
(***************************************************************************)
(* MysqlStore on small constants.                                          *)
(***************************************************************************)
EXTENDS MysqlStore, TLC

MCJtiExpiry == [j \in Jtis |-> 1]

\* Bound: families are stored, or codes and consents.  Open transactions of both
\* kinds still run beside each other.
OneKind == DOMAIN families = {} \/ DOMAIN authCodes \cup DOMAIN consentJtis = {}

\* Opaque identifiers: connections and tokens.
MysqlSymmetry == Permutations(Conns) \cup Permutations(Tokens)
=============================================================================
