--------------------------- MODULE RedisRateLimit ---------------------------
(***************************************************************************)
(* One key of RedisRateLimit (src/rate-limit/redis.ts): a fixed window     *)
(* counted by a script that Redis runs atomically.  EVALSHA names the      *)
(* script; when Redis has lost it, EVAL sends it again.  Redis may restart *)
(* or flush its scripts between the two, a command may fail, and the       *)
(* answer of one that ran may be lost.  Redis and its client are external. *)
(* The client is taken to send a command once.  When a window ends is free *)
(* (RedisEvent): the script sets the TTL with the first INCR, or nothing.  *)
(***************************************************************************)
EXTENDS Naturals

CONSTANTS
  Calls,   \* concurrent callers of check()
  Limit    \* requests allowed in a window

ASSUME LimitAssumption == Limit \in Nat \ {0}

VARIABLES
  scripts,   \* Redis has the script cached
  count,     \* the window's counter; 0 without a window
  checks     \* caller -> its check()

rateVars == <<scripts, count, checks>>

\* charged: how often this check ran the script.
CheckState == [pc : {"idle", "evalsha", "eval", "allowed", "denied", "threw"}, charged : 0..2]

NoCheck == [pc |-> "idle", charged |-> 0]

SetCheck(c, pc, charged) == checks' = [checks EXCEPT ![c] = [pc |-> pc, charged |-> charged]]

StartCheck(c) == SetCheck(c, "evalsha", 0) /\ UNCHANGED <<scripts, count>>

\* INCR, and EXPIRE with the first.  Bound: Limit + 1 stands for every count
\* above Limit.
Counted == IF count > Limit THEN count ELSE count + 1

\* INCR, EXPIRE and the answer, or the answer is lost.
RunScript(c) ==
  /\ count' = Counted
  /\ \/ SetCheck(c, IF Counted <= Limit THEN "allowed" ELSE "denied", checks[c].charged + 1)
     \/ SetCheck(c, "threw", checks[c].charged + 1)

\* A slip: any failure is taken for a missing script.
MutFallsBack(noScript) == TRUE

FallsBack(noScript) == noScript

Fails(c, noScript) ==
  SetCheck(c, IF FallsBack(noScript) THEN "eval" ELSE "threw", checks[c].charged)

EvalSha(c) ==
  /\ checks[c].pc = "evalsha"
  /\ \/ scripts /\ RunScript(c)
     \/ scripts /\ count' = Counted /\ SetCheck(c, IF FallsBack(FALSE) THEN "eval" ELSE "threw",
                                                checks[c].charged + 1)
     \/ Fails(c, FALSE) /\ UNCHANGED count
     \/ ~scripts /\ Fails(c, TRUE) /\ UNCHANGED count
  /\ UNCHANGED scripts

\* EVAL also caches the script for next time.
Eval(c) ==
  /\ checks[c].pc = "eval"
  /\ \/ RunScript(c) /\ scripts' = TRUE
     \/ SetCheck(c, "threw", checks[c].charged) /\ UNCHANGED <<scripts, count>>

CheckStep(c) == EvalSha(c) \/ Eval(c)

\* SCRIPT FLUSH; a restart that keeps or loses the data; the window ends.
RedisEvent ==
  \/ scripts' = FALSE /\ count' \in {0, count} /\ UNCHANGED checks
  \/ count > 0 /\ count' = 0 /\ UNCHANGED <<scripts, checks>>

RateInit ==
  /\ scripts = FALSE
  /\ count = 0
  /\ checks = [c \in Calls |-> NoCheck]

-----------------------------------------------------------------------------
RateTypeOK ==
  /\ scripts \in BOOLEAN
  /\ count \in 0..(Limit + 1)
  /\ checks \in [Calls -> CheckState]

\* One check charges its key at most once, whether the script was missing, was
\* lost between the two commands, or ran and its answer never came back, where
\* the client does not send a command again by itself.
ChargedOnce == \A c \in Calls : checks[c].charged <= 1
=============================================================================
