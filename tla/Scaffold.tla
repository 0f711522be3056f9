------------------------------ MODULE Scaffold ------------------------------
(***************************************************************************)
(* `mcp-sso init` (src/bin/init.ts): every template file is reserved by an *)
(* exclusive create before any is written, and what an invocation created  *)
(* is removed when one of its steps fails.  Invocations for one target run *)
(* side by side, others create files there, and an invocation may be       *)
(* killed.  The target directory and its ancestors are admitted; removing  *)
(* a file just created succeeds.                                           *)
(***************************************************************************)
EXTENDS Integers

CONSTANTS
  Inits,       \* invocations
  FileCount    \* template files, created in order

ASSUME ScaffoldAssumption ==
  FileCount \in Nat \ {0} /\ "nobody" \notin Inits /\ "others" \notin Inits

VARIABLES
  tree,     \* path -> who created it, and whether it is written
  inits     \* invocation -> how far it is, the files it has reserved, and of
            \* those the ones it has written or removed

scaffoldVars == <<tree, inits>>

Paths == 1..FileCount

NoFile == [owner |-> "nobody", whole |-> FALSE]
OthersFile == [owner |-> "others", whole |-> TRUE]

GoesTo(i, pc, reserved, at) ==
  inits' = [inits EXCEPT ![i] = [pc |-> pc, reserved |-> reserved, at |-> at]]

\* run: nothing is created before the preflight.  It looks at one file after
\* the other and may miss a conflict that comes or goes meanwhile.
Preflight(i) ==
  /\ inits[i].pc = "idle"
  /\ \/ GoesTo(i, "reserve", 0, 0)
     \/ (\E f \in Paths : tree[f] # NoFile) /\ GoesTo(i, "failed", 0, 0)
  /\ UNCHANGED tree

\* reserveAll: O_EXCL, one file after the other.
Reserve(i) ==
  LET f == inits[i].reserved + 1 IN
  /\ inits[i].pc = "reserve"
  /\ tree[f] = NoFile
  /\ tree' = [tree EXCEPT ![f] = [owner |-> i, whole |-> FALSE]]
  /\ IF f = FileCount THEN GoesTo(i, "write", f, 0) ELSE GoesTo(i, "reserve", f, 0)

\* EEXIST for a file that appeared since the preflight; any other error.
ReserveFails(i) ==
  /\ inits[i].pc = "reserve"
  /\ GoesTo(i, "undo", inits[i].reserved, 0)
  /\ UNCHANGED tree

Write(i) ==
  LET f == inits[i].at + 1 IN
  /\ inits[i].pc = "write"
  /\ tree' = [tree EXCEPT ![f].whole = TRUE]
  /\ IF f = FileCount THEN GoesTo(i, "done", f, f) ELSE GoesTo(i, "write", FileCount, f)

WriteBreaks(i) ==
  /\ inits[i].pc = "write"
  /\ GoesTo(i, "undo", FileCount, 0)
  /\ UNCHANGED tree

\* A slip: the rollback removes every template path.
MutRollback(reserved) == Paths

Rollback(reserved) == 1..reserved

\* Handles are closed, then the reserved files are removed in order.
Undo(i) ==
  LET f == inits[i].at + 1 IN
  /\ inits[i].pc = "undo"
  /\ IF f \in Rollback(inits[i].reserved)
     THEN tree' = [tree EXCEPT ![f] = NoFile] /\ GoesTo(i, "undo", inits[i].reserved, f)
     ELSE GoesTo(i, "failed", inits[i].reserved, inits[i].at) /\ UNCHANGED tree

Kill(i) ==
  /\ inits[i].pc \in {"reserve", "write", "undo"}
  /\ GoesTo(i, "killed", inits[i].reserved, inits[i].at)
  /\ UNCHANGED tree

OthersCreate(f) ==
  /\ tree[f] = NoFile
  /\ tree' = [tree EXCEPT ![f] = OthersFile]
  /\ UNCHANGED inits

ScaffoldInit ==
  /\ tree = [f \in Paths |-> NoFile]
  /\ inits = [i \in Inits |-> [pc |-> "idle", reserved |-> 0, at |-> 0]]

InitStep(i) ==
  \/ Preflight(i) \/ Reserve(i) \/ ReserveFails(i)
  \/ Write(i) \/ WriteBreaks(i) \/ Undo(i) \/ Kill(i)

ScaffoldNext == (\E i \in Inits : InitStep(i)) \/ (\E f \in Paths : OthersCreate(f))

Settled == \A i \in Inits : inits[i].pc \in {"done", "failed", "killed"}

Scaffolded == \E i \in Inits : inits[i].pc = "done"

-----------------------------------------------------------------------------
\* An invocation leaves its whole scaffold or nothing: one that succeeded finds
\* every file as it wrote it, whatever the rollbacks of others remove; one that
\* failed leaves no file behind; and one that is still running owns exactly
\* what it reserved and has not removed.
ScaffoldWhole ==
  \A i \in Inits :
    LET mine == {f \in Paths : tree[f].owner = i} IN
    CASE inits[i].pc = "done"   -> \A f \in Paths : tree[f] = [owner |-> i, whole |-> TRUE]
      [] inits[i].pc = "failed" -> mine = {}
      [] inits[i].pc = "undo"   -> mine = (inits[i].at + 1)..inits[i].reserved
      [] inits[i].pc = "killed" -> TRUE
      [] OTHER                  -> mine = 1..inits[i].reserved
=============================================================================
