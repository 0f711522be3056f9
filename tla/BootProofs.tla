----------------------------- MODULE BootProofs -----------------------------
(***************************************************************************)
(* Proofs about Boot, for any processes, keys, stores, scaffolding         *)
(* invocations, files, events, and any number of faults.  Each part of a   *)
(* deployment has an invariant of its own, and what the others do leaves   *)
(* it alone: the audit file, the scaffold, the store that is opened, and   *)
(* the keys in the state directory.                                        *)
(***************************************************************************)
EXTENDS Boot, TLAPS

-----------------------------------------------------------------------------
(* The audit file *)

\* While an own fragment ends the file, its writer is still busy with it or the
\* instance is disabled; a disabled instance opens nothing; and the end that a
\* rollback restores is never a fragment.
FragmentOwned ==
  /\ writer \in WriterState
  /\ fileEnd \in Ends
  /\ writer.before # "fragment"
  /\ disabled => writer.pc \in {"idle", "close"}
  /\ fileEnd = "fragment" /\ ~disabled =>
       /\ writer.sent /\ ~writer.moved
       /\ writer.pc \in {"write", "rollback", "truncate"}

FramingInv == FragmentOwned /\ RecordsWhole

\* Nothing is written, and no fragment is there to be met.
LEMMA FramingInit == AuditInit => FramingInv
BY DEF AuditInit, FramingInv, FragmentOwned, RecordsWhole, IdleWriter, WriterState, Ends

\* Queueing touches the queue alone.
LEMMA FramingFrame ==
  ASSUME FramingInv, UNCHANGED <<writer, fileEnd, disabled, spliced>>
  PROVE  FramingInv'
BY DEF FramingInv, FragmentOwned, RecordsWhole

\* The first bytes of a record never meet an own fragment.
LEMMA BeginsWhole ==
  ASSUME FramingInv, WriterAt("write"), Begins
  PROVE  RecordsWhole'
BY DEF FramingInv, FragmentOwned, RecordsWhole, WriterAt, Begins

\* The writer's steps until its line is out, or only a part of it.
LEMMA FramingWrite ==
  ASSUME FramingInv, Open \/ Stat \/ WriteRest \/ WriteShort \/ WriteFails
  PROVE  FramingInv'
<1> USE DEF FramingInv, FragmentOwned, WriterState, Ends, WriterAt, GoTo
<1>1. CASE Open
  BY <1>1 DEF Open, IdleWriter, RecordsWhole
<1>2. CASE Stat
  BY <1>2 DEF Stat, RecordsWhole
<1>3. CASE WriteRest
  <2>1. RecordsWhole'
    BY <1>3, BeginsWhole DEF WriteRest
  <2>2. FragmentOwned'
    BY <1>3 DEF WriteRest, EndsWith
  <2> QED BY <2>1, <2>2
<1>4. CASE WriteShort
  <2>1. RecordsWhole'
    BY <1>4, BeginsWhole DEF WriteShort
  <2>2. FragmentOwned'
    BY <1>4 DEF WriteShort, EndsWith
  <2> QED BY <2>1, <2>2
<1>5. CASE WriteFails
  BY <1>5 DEF WriteFails, RecordsWhole
<1> QED BY <1>1, <1>2, <1>3, <1>4, <1>5

\* A rollback removes the fragment, or the instance stops appending.
LEMMA FramingRollback ==
  ASSUME FramingInv, RollbackFails \/ RollbackStat \/ Truncate \/ RollbackVerified \/ Appended
  PROVE  FramingInv'
<1> USE DEF FramingInv, FragmentOwned, RecordsWhole, WriterState, Ends, WriterAt, GoTo
<1>1. CASE RollbackFails
  BY <1>1 DEF RollbackFails, Disables
<1>2. CASE RollbackStat
  BY <1>2 DEF RollbackStat
<1>3. CASE Truncate
  BY <1>3 DEF Truncate, EndsWith
<1>4. CASE RollbackVerified
  BY <1>4 DEF RollbackVerified
<1>5. CASE Appended
  BY <1>5 DEF Appended, IdleWriter
<1> QED BY <1>1, <1>2, <1>3, <1>4, <1>5

\* What other processes, the log rotation and a crash do.
LEMMA FramingOthers ==
  ASSUME FramingInv, ForeignLine \/ RotateLog \/ AuditCrash
  PROVE  FramingInv'
<1> USE DEF FramingInv, FragmentOwned, RecordsWhole, WriterState, Ends, WriterAt
<1>1. CASE ForeignLine
  BY <1>1 DEF ForeignLine
<1>2. CASE RotateLog
  BY <1>2 DEF RotateLog
<1>3. CASE AuditCrash
  BY <1>3 DEF AuditCrash, IdleWriter
<1> QED BY <1>1, <1>2, <1>3

\* Every step keeps the invariant.
LEMMA FramingStep == FramingInv /\ [AuditNext]_auditVars => FramingInv'
<1> SUFFICES ASSUME FramingInv, [AuditNext]_auditVars PROVE FramingInv'
  OBVIOUS
<1>1. CASE \E e \in Events : Enqueue(e)
  BY <1>1, FramingFrame DEF Enqueue
<1>2. CASE Drop
  BY <1>2, FramingFrame DEF Drop
<1>3. CASE Open \/ Stat \/ WriteRest \/ WriteShort \/ WriteFails
  BY <1>3, FramingWrite
<1>4. CASE RollbackFails \/ RollbackStat \/ Truncate \/ RollbackVerified \/ Appended
  BY <1>4, FramingRollback
<1>5. CASE ForeignLine \/ RotateLog \/ AuditCrash
  BY <1>5, FramingOthers
<1>6. CASE UNCHANGED auditVars
  BY <1>6, FramingFrame DEF auditVars
<1> QED
  BY <1>1, <1>2, <1>3, <1>4, <1>5, <1>6 DEF AuditNext, WriterStep

\* No record of an instance is begun on a fragment it left (jsonl-file.ts
\* appendEvent, writeCompleteLine, rollbackPartialLine).
THEOREM RecordsWholeCorrect == AuditSpec => []RecordsWhole
<1>1. AuditInit => FramingInv
  BY FramingInit
<1>2. FramingInv /\ [AuditNext]_auditVars => FramingInv'
  BY FramingStep
<1>3. FramingInv => RecordsWhole
  BY DEF FramingInv
<1> QED BY <1>1, <1>2, <1>3, PTL DEF AuditSpec

\* What a deployment does to the audit file is a step of its sink, of another
\* writer, a rotation, or a crash.
LEMMA BootAudits == [BootNext]_bootVars => [AuditNext]_auditVars
<1> SUFFICES ASSUME BootNext PROVE [AuditNext]_auditVars
  BY DEF bootVars
<1>1. ASSUME NEW p \in Processes, BootStep(p) \/ EndProcess(p)
      PROVE  [AuditNext]_auditVars
  BY <1>1 DEF BootStep, EndProcess, AuditNext
<1>2. CASE LogStep
  BY <1>2 DEF LogStep, AuditNext
<1> QED BY <1>1, <1>2 DEF BootNext

\* The same of the followed sink of a deployment.
THEOREM BootRecordsWhole == BootSpec => []RecordsWhole
<1>1. BootInit => FramingInv
  BY FramingInit DEF BootInit
<1>2. FramingInv /\ [BootNext]_bootVars => FramingInv'
  BY BootAudits, FramingStep
<1>3. FramingInv => RecordsWhole
  BY DEF FramingInv
<1> QED BY <1>1, <1>2, <1>3, PTL DEF BootSpec

-----------------------------------------------------------------------------
(* The scaffold *)

Phases == {"idle", "reserve", "write", "done", "undo", "failed", "killed"}

ScaffoldTypeOK ==
  /\ tree \in [Paths -> [owner : Inits \cup {"nobody", "others"}, whole : BOOLEAN]]
  /\ inits \in [Inits -> [pc : Phases, reserved : 0..FileCount, at : 0..FileCount]]

\* The files an invocation has reserved and not removed.
Keeps(i, f) ==
  CASE inits[i].pc = "done"   -> TRUE
    [] inits[i].pc = "failed" -> FALSE
    [] inits[i].pc = "undo"   -> inits[i].at < f /\ f <= inits[i].reserved
    [] OTHER                  -> f <= inits[i].reserved

\* It owns those, unless it was killed; how far it may be in each phase; and
\* the files it is past writing are whole.
Stands(i) ==
  /\ inits[i].pc # "killed" => \A f \in Paths : tree[f].owner = i <=> Keeps(i, f)
  /\ inits[i].pc = "idle" => inits[i].reserved = 0
  /\ inits[i].pc = "reserve" => inits[i].reserved < FileCount
  /\ inits[i].pc = "write" =>
       /\ inits[i].reserved = FileCount /\ inits[i].at < FileCount
       /\ \A f \in Paths : f <= inits[i].at => tree[f].whole
  /\ inits[i].pc = "done" => \A f \in Paths : tree[f].whole
  /\ inits[i].pc = "undo" => inits[i].at <= inits[i].reserved

ScaffoldInv == ScaffoldTypeOK /\ \A i \in Inits : Stands(i)

\* What the invariant says of one invocation's counters: they are numbers no
\* larger than the number of files.
LEMMA CountersBounded ==
  ASSUME ScaffoldInv, NEW i \in Inits
  PROVE  /\ FileCount \in Nat \ {0}
         /\ inits[i].reserved \in Nat /\ inits[i].at \in Nat
         /\ Stands(i)
         /\ \A g \in Paths : g \in Nat /\ 1 <= g /\ g <= FileCount
<1>1. FileCount \in Nat \ {0}
  BY ScaffoldAssumption
<1>2. inits[i].reserved \in 0..FileCount /\ inits[i].at \in 0..FileCount
  BY DEF ScaffoldInv, ScaffoldTypeOK
<1>3. Stands(i)
  BY DEF ScaffoldInv
<1>4. \A g \in Paths : g \in Nat /\ 1 <= g /\ g <= FileCount
  BY <1>1 DEF Paths
<1> QED BY <1>1, <1>2, <1>3, <1>4

\* A file that changes hands comes from nobody or goes back to nobody: the
\* files of other invocations stay as they are.
LEMMA OthersStand ==
  ASSUME ScaffoldInv, NEW i \in Inits,
         inits'[i] = inits[i],
         \A f \in Paths : tree[f].owner = i \/ tree'[f].owner = i => tree'[f] = tree[f]
  PROVE  Stands(i)'
<1>1. Stands(i) /\ \A f \in Paths : Keeps(i, f)' <=> Keeps(i, f)
  BY DEF ScaffoldInv, Keeps
<1>2. \A f \in Paths : tree'[f].owner = i <=> tree[f].owner = i
  OBVIOUS
<1>3. ASSUME \A f \in Paths : tree[f].owner = i
      PROVE  \A f \in Paths : tree'[f] = tree[f]
  BY <1>3
<1>4. ASSUME inits[i].pc = "write", NEW f \in Paths, f <= inits[i].at
      PROVE  tree'[f].whole
  <2>1. Keeps(i, f) /\ tree[f].whole
    <3>1. inits[i].at \in 0..FileCount /\ f \in 1..FileCount
      BY DEF ScaffoldInv, ScaffoldTypeOK, Paths
    <3> QED BY <1>1, <1>4, <3>1 DEF Stands, Keeps
  <2>2. tree[f].owner = i
    BY <1>1, <1>4, <2>1 DEF Stands
  <2> QED BY <2>1, <2>2
<1>5. ASSUME inits[i].pc = "done"
      PROVE  \A f \in Paths : tree'[f].whole
  <2>1. \A f \in Paths : tree[f].owner = i /\ tree[f].whole
    BY <1>1, <1>5 DEF Stands, Keeps
  <2> QED BY <1>3, <2>1
<1> QED BY <1>1, <1>2, <1>4, <1>5 DEF Stands

\* A step of one invocation: the others stand, it stands, types hold.
LEMMA ScaffoldStepOf ==
  ASSUME ScaffoldInv, NEW i \in Inits, NEW pc \in Phases,
         NEW reserved \in 0..FileCount, NEW at \in 0..FileCount,
         GoesTo(i, pc, reserved, at),
         tree' \in [Paths -> [owner : Inits \cup {"nobody", "others"}, whole : BOOLEAN]],
         \A f \in Paths : tree'[f] = tree[f] \/ (/\ tree[f].owner \in {i, "nobody"}
                                                 /\ tree'[f].owner \in {i, "nobody"}),
         inits'[i] = [pc |-> pc, reserved |-> reserved, at |-> at] => Stands(i)'
  PROVE  ScaffoldInv'
<1>1. ScaffoldTypeOK'
  BY DEF ScaffoldInv, ScaffoldTypeOK, GoesTo
<1>2. ASSUME NEW j \in Inits, j # i
      PROVE  Stands(j)'
  <2>1. inits'[j] = inits[j]
    BY <1>2 DEF GoesTo, ScaffoldInv, ScaffoldTypeOK
  <2>2. \A f \in Paths : tree[f].owner = j \/ tree'[f].owner = j => tree'[f] = tree[f]
    BY <1>2, ScaffoldAssumption
  <2> QED BY <2>1, <2>2, OthersStand
<1>3. inits'[i] = [pc |-> pc, reserved |-> reserved, at |-> at]
  BY DEF GoesTo, ScaffoldInv, ScaffoldTypeOK
<1> QED BY <1>1, <1>2, <1>3 DEF ScaffoldInv

\* Steps that leave the files alone.
LEMMA ScaffoldQuiet ==
  ASSUME ScaffoldInv, NEW i \in Inits,
         Preflight(i) \/ ReserveFails(i) \/ WriteBreaks(i) \/ Kill(i)
  PROVE  ScaffoldInv'
<1>1. /\ FileCount \in Nat /\ tree' = tree /\ Stands(i)
      /\ inits[i].reserved \in 0..FileCount /\ inits[i].at \in 0..FileCount
  BY ScaffoldAssumption
     DEF Preflight, ReserveFails, WriteBreaks, Kill, ScaffoldInv, ScaffoldTypeOK
<1>2. ASSUME NEW pc \in Phases, NEW reserved \in 0..FileCount, NEW at \in 0..FileCount,
             GoesTo(i, pc, reserved, at),
             inits'[i] = [pc |-> pc, reserved |-> reserved, at |-> at] => Stands(i)'
      PROVE  ScaffoldInv'
  <2>1. tree' \in [Paths -> [owner : Inits \cup {"nobody", "others"}, whole : BOOLEAN]]
    BY <1>1 DEF ScaffoldInv, ScaffoldTypeOK
  <2> QED BY <1>1, <1>2, <2>1, ScaffoldStepOf
<1>3. \A f \in Paths : f \in Nat /\ 1 <= f /\ f <= FileCount
  BY <1>1 DEF Paths
<1> USE DEF Phases
<1>4. ASSUME inits[i].pc = "idle", GoesTo(i, "reserve", 0, 0) \/ GoesTo(i, "failed", 0, 0)
      PROVE  ScaffoldInv'
  <2>1. \A f \in Paths : tree[f].owner # i
    BY <1>1, <1>3, <1>4 DEF Stands, Keeps
  <2>2. CASE GoesTo(i, "reserve", 0, 0)
    <3>1. inits'[i] = [pc |-> "reserve", reserved |-> 0, at |-> 0] => Stands(i)'
      BY <1>1, <1>3, <2>1, ScaffoldAssumption DEF Stands, Keeps
    <3> QED BY <1>1, <1>2, <2>2, <3>1
  <2>3. CASE GoesTo(i, "failed", 0, 0)
    <3>1. inits'[i] = [pc |-> "failed", reserved |-> 0, at |-> 0] => Stands(i)'
      BY <1>1, <1>3, <2>1 DEF Stands, Keeps
    <3> QED BY <1>1, <1>2, <2>3, <3>1
  <2> QED BY <1>4, <2>2, <2>3
<1>5. CASE Preflight(i)
  BY <1>4, <1>5 DEF Preflight
<1>6. CASE ReserveFails(i)
  <2> DEFINE r == inits[i].reserved
  <2>1. inits[i].pc = "reserve" /\ GoesTo(i, "undo", r, 0)
    BY <1>6 DEF ReserveFails
  <2>2. inits'[i] = [pc |-> "undo", reserved |-> r, at |-> 0] => Stands(i)'
    BY <1>1, <1>3, <2>1 DEF Stands, Keeps
  <2> QED BY <1>1, <1>2, <2>1, <2>2
<1>7. CASE WriteBreaks(i)
  <2>1. inits[i].pc = "write" /\ GoesTo(i, "undo", FileCount, 0)
    BY <1>7 DEF WriteBreaks
  <2>2. inits'[i] = [pc |-> "undo", reserved |-> FileCount, at |-> 0] => Stands(i)'
    BY <1>1, <1>3, <2>1 DEF Stands, Keeps
  <2> QED BY <1>1, <1>2, <2>1, <2>2
<1>8. CASE Kill(i)
  <2> DEFINE r == inits[i].reserved
             a == inits[i].at
  <2>1. GoesTo(i, "killed", r, a)
    BY <1>8 DEF Kill
  <2>2. inits'[i] = [pc |-> "killed", reserved |-> r, at |-> a] => Stands(i)'
    BY DEF Stands
  <2> QED BY <1>1, <1>2, <2>1, <2>2
<1> QED BY <1>5, <1>6, <1>7, <1>8

\* Exclusive creation takes a path of nobody's.
LEMMA ScaffoldReserve ==
  ASSUME ScaffoldInv, NEW i \in Inits, Reserve(i)
  PROVE  ScaffoldInv'
<1> DEFINE f == inits[i].reserved + 1
           pc == IF f = FileCount THEN "write" ELSE "reserve"
<1>1. /\ inits[i].pc = "reserve" /\ tree[f] = NoFile
      /\ tree' = [tree EXCEPT ![f] = [owner |-> i, whole |-> FALSE]]
      /\ GoesTo(i, pc, f, 0)
  BY DEF Reserve
<1>2. /\ FileCount \in Nat \ {0} /\ inits[i].reserved \in Nat
      /\ inits[i].reserved < FileCount /\ Stands(i)
      /\ \A g \in Paths : g \in Nat /\ 1 <= g /\ g <= FileCount
  <2>1. /\ inits[i].pc = "reserve" => inits[i].reserved < FileCount
        /\ inits[i].pc = "write" => inits[i].at < FileCount
    BY CountersBounded DEF Stands
  <2> QED BY <1>1, <2>1, CountersBounded
<1>3. f \in Paths /\ f \in 0..FileCount /\ pc \in Phases
  BY <1>2 DEF Paths, Phases
<1>4. /\ tree'[f] = [owner |-> i, whole |-> FALSE]
      /\ \A g \in Paths : g # f => tree'[g] = tree[g]
  BY <1>1, <1>3 DEF ScaffoldInv, ScaffoldTypeOK
<1>5. ASSUME inits'[i] = [pc |-> pc, reserved |-> f, at |-> 0]
      PROVE  Stands(i)'
  <2>1. \A g \in Paths : tree'[g].owner = i <=> g <= f
    <3>1. \A g \in Paths : tree[g].owner = i <=> g <= inits[i].reserved
      BY <1>1, <1>2 DEF Stands, Keeps
    <3> QED BY <1>2, <1>3, <1>4, <3>1
  <2>2. \A g \in Paths : Keeps(i, g)' <=> g <= f
    BY <1>5 DEF Keeps
  <2>3. \A g \in Paths : ~(g <= 0)
    BY <1>2
  <2> QED BY <1>2, <1>5, <2>1, <2>2, <2>3 DEF Stands
<1>6. tree' \in [Paths -> [owner : Inits \cup {"nobody", "others"}, whole : BOOLEAN]]
  BY <1>1 DEF ScaffoldInv, ScaffoldTypeOK
<1>7. \A g \in Paths : tree'[g] = tree[g] \/ (/\ tree[g].owner \in {i, "nobody"}
                                              /\ tree'[g].owner \in {i, "nobody"})
  BY <1>1, <1>4 DEF NoFile
<1>8. 0 \in 0..FileCount
  BY <1>2
<1> HIDE DEF f, pc
<1> QED BY <1>1, <1>3, <1>5, <1>6, <1>7, <1>8, ScaffoldStepOf

\* A file is written by the invocation that reserved it.
LEMMA ScaffoldWrite ==
  ASSUME ScaffoldInv, NEW i \in Inits, Write(i)
  PROVE  ScaffoldInv'
<1> DEFINE f == inits[i].at + 1
           pc == IF f = FileCount THEN "done" ELSE "write"
<1>1. /\ inits[i].pc = "write"
      /\ tree' = [tree EXCEPT ![f].whole = TRUE]
      /\ GoesTo(i, pc, FileCount, f)
  BY DEF Write
<1>2. /\ FileCount \in Nat \ {0} /\ inits[i].at \in Nat
      /\ inits[i].at < FileCount /\ Stands(i)
      /\ \A g \in Paths : g \in Nat /\ 1 <= g /\ g <= FileCount
  <2>1. /\ inits[i].pc = "reserve" => inits[i].reserved < FileCount
        /\ inits[i].pc = "write" => inits[i].at < FileCount
    BY CountersBounded DEF Stands
  <2> QED BY <1>1, <2>1, CountersBounded
<1>3. /\ f \in Paths /\ f \in 0..FileCount /\ pc \in Phases /\ FileCount \in 0..FileCount
  BY <1>2 DEF Paths, Phases
<1>4. /\ tree'[f] = [owner |-> tree[f].owner, whole |-> TRUE]
      /\ \A g \in Paths : g # f => tree'[g] = tree[g]
  BY <1>1, <1>3 DEF ScaffoldInv, ScaffoldTypeOK
<1>5. \A g \in Paths : tree[g].owner = i /\ tree'[g].owner = i
  <2>1. \A g \in Paths : tree[g].owner = i
    BY <1>1, <1>2 DEF Stands, Keeps
  <2> QED BY <1>3, <1>4, <2>1
<1>6. ASSUME inits'[i] = [pc |-> pc, reserved |-> FileCount, at |-> f]
      PROVE  Stands(i)'
  <2>1. \A g \in Paths : g <= f => tree'[g].whole
    <3>1. \A g \in Paths : g <= inits[i].at => tree[g].whole
      BY <1>1, <1>2 DEF Stands
    <3> QED BY <1>2, <1>4, <3>1
  <2>2. \A g \in Paths : Keeps(i, g)'
    BY <1>2, <1>6 DEF Keeps
  <2>3. pc = "write" => f < FileCount
    BY <1>2
  <2>4. pc = "done" => \A g \in Paths : tree'[g].whole
    BY <1>2, <2>1
  <2>5. pc \in {"done", "write"}
    OBVIOUS
  <2> HIDE DEF f, pc
  <2> QED BY <1>5, <1>6, <2>1, <2>2, <2>3, <2>4, <2>5 DEF Stands
<1>7. tree' \in [Paths -> [owner : Inits \cup {"nobody", "others"}, whole : BOOLEAN]]
  BY <1>1 DEF ScaffoldInv, ScaffoldTypeOK
<1>8. \A g \in Paths : tree'[g] = tree[g] \/ (/\ tree[g].owner \in {i, "nobody"}
                                              /\ tree'[g].owner \in {i, "nobody"})
  BY <1>5
<1> HIDE DEF f, pc
<1> QED BY <1>1, <1>3, <1>6, <1>7, <1>8, ScaffoldStepOf

\* The rollback removes a file that is still the invocation's own.
LEMMA ScaffoldUndo ==
  ASSUME ScaffoldInv, NEW i \in Inits, Undo(i)
  PROVE  ScaffoldInv'
<1> DEFINE f == inits[i].at + 1
           r == inits[i].reserved
<1>1. /\ inits[i].pc = "undo" /\ Stands(i) /\ FileCount \in Nat
      /\ inits[i].at \in Nat /\ r \in 0..FileCount /\ inits[i].at <= r
      /\ \A g \in Paths : g \in Nat /\ 1 <= g /\ g <= FileCount
  <2>1. inits[i].pc = "undo" /\ Stands(i) /\ FileCount \in Nat
    BY ScaffoldAssumption DEF Undo, ScaffoldInv
  <2>2. inits[i].at \in 0..FileCount /\ r \in 0..FileCount
    BY DEF ScaffoldInv, ScaffoldTypeOK
  <2>3. inits[i].at <= r
    BY <2>1 DEF Stands
  <2> QED BY <2>1, <2>2, <2>3 DEF Paths
<1>2. \A g \in Paths : tree[g].owner = i <=> inits[i].at < g /\ g <= r
  BY <1>1 DEF Stands, Keeps
<1>3. CASE f \in Rollback(r)
  <2>1. tree' = [tree EXCEPT ![f] = NoFile] /\ GoesTo(i, "undo", r, f)
    BY <1>3 DEF Undo
  <2>2. f <= r /\ f \in Paths /\ f \in 0..FileCount
    BY <1>1, <1>3 DEF Rollback, Paths
  <2>3. /\ tree'[f] = NoFile /\ tree[f].owner = i
        /\ \A g \in Paths : g # f => tree'[g] = tree[g]
    BY <1>1, <1>2, <2>1, <2>2 DEF ScaffoldInv, ScaffoldTypeOK
  <2>4. ASSUME inits'[i] = [pc |-> "undo", reserved |-> r, at |-> f]
        PROVE  Stands(i)'
    <3>1. \A g \in Paths : tree'[g].owner = i <=> f < g /\ g <= r
      <4>1. tree'[f].owner # i
        BY <2>3, ScaffoldAssumption DEF NoFile
      <4> QED BY <1>1, <1>2, <2>2, <2>3, <4>1
    <3>2. \A g \in Paths : Keeps(i, g)' <=> f < g /\ g <= r
      BY <2>4 DEF Keeps
    <3> QED BY <2>2, <2>4, <3>1, <3>2 DEF Stands
  <2>5. tree' \in [Paths -> [owner : Inits \cup {"nobody", "others"}, whole : BOOLEAN]]
    BY <2>1 DEF ScaffoldInv, ScaffoldTypeOK, NoFile
  <2>6. \A g \in Paths : tree'[g] = tree[g] \/ (/\ tree[g].owner \in {i, "nobody"}
                                                /\ tree'[g].owner \in {i, "nobody"})
    BY <2>3 DEF NoFile
  <2>7. "undo" \in Phases
    BY DEF Phases
  <2> HIDE DEF f, r
  <2> QED BY <1>1, <2>1, <2>2, <2>4, <2>5, <2>6, <2>7, ScaffoldStepOf
<1>4. CASE f \notin Rollback(r)
  <2>1. tree' = tree /\ GoesTo(i, "failed", r, inits[i].at)
    BY <1>4 DEF Undo
  <2>2. inits[i].at = r
    BY <1>1, <1>4 DEF Rollback
  <2>3. \A g \in Paths : tree'[g].owner # i
    BY <1>1, <1>2, <2>1, <2>2
  <2>4. ASSUME inits'[i] = [pc |-> "failed", reserved |-> r, at |-> inits[i].at]
        PROVE  Stands(i)'
    BY <2>3, <2>4 DEF Stands, Keeps
  <2>5. "failed" \in Phases /\ inits[i].at \in 0..FileCount
    BY <1>1, <2>2 DEF Phases
  <2>6. tree' \in [Paths -> [owner : Inits \cup {"nobody", "others"}, whole : BOOLEAN]]
    BY <2>1 DEF ScaffoldInv, ScaffoldTypeOK
  <2> QED BY <1>1, <2>1, <2>4, <2>5, <2>6, ScaffoldStepOf
<1> QED BY <1>3, <1>4

\* Every step of the scaffolding keeps the invariant.
LEMMA ScaffoldStep == ScaffoldInv /\ [ScaffoldNext]_scaffoldVars => ScaffoldInv'
<1> SUFFICES ASSUME ScaffoldInv, [ScaffoldNext]_scaffoldVars PROVE ScaffoldInv'
  OBVIOUS
<1>1. ASSUME NEW i \in Inits, InitStep(i)
      PROVE  ScaffoldInv'
  BY <1>1, ScaffoldQuiet, ScaffoldReserve, ScaffoldWrite, ScaffoldUndo DEF InitStep
<1>2. ASSUME NEW f \in Paths, OthersCreate(f)
      PROVE  ScaffoldInv'
  <2>1. tree[f] = NoFile /\ tree' = [tree EXCEPT ![f] = OthersFile] /\ inits' = inits
    BY <1>2 DEF OthersCreate
  <2>2. ScaffoldTypeOK'
    BY <2>1 DEF ScaffoldInv, ScaffoldTypeOK, OthersFile
  <2>3. tree'[f] = OthersFile /\ \A g \in Paths : g # f => tree'[g] = tree[g]
    BY <2>1 DEF ScaffoldInv, ScaffoldTypeOK
  <2>4. ASSUME NEW i \in Inits
        PROVE  Stands(i)'
    <3>1. tree[f].owner # i /\ tree'[f].owner # i
      BY <2>1, <2>3, ScaffoldAssumption DEF NoFile, OthersFile
    <3>2. \A g \in Paths : tree[g].owner = i \/ tree'[g].owner = i => tree'[g] = tree[g]
      BY <2>3, <3>1
    <3> QED BY <2>1, <3>2, OthersStand
  <2> QED BY <2>2, <2>4 DEF ScaffoldInv
<1>3. CASE UNCHANGED scaffoldVars
  BY <1>3 DEF scaffoldVars, ScaffoldInv, ScaffoldTypeOK, Stands, Keeps
<1> QED BY <1>1, <1>2, <1>3 DEF ScaffoldNext

\* An empty directory, before any init has begun, satisfies it.
LEMMA ScaffoldStart == ScaffoldInit => ScaffoldInv
<1> SUFFICES ASSUME ScaffoldInit PROVE ScaffoldInv
  OBVIOUS
<1>1. \A f \in Paths : f \in Nat /\ 1 <= f
  BY ScaffoldAssumption DEF Paths
<1>2. ScaffoldTypeOK
  BY ScaffoldAssumption DEF ScaffoldInit, ScaffoldTypeOK, NoFile, Phases
<1> QED BY <1>1, <1>2, ScaffoldAssumption DEF ScaffoldInit, ScaffoldInv, Stands, Keeps, NoFile

\* The invariant says of a finished, failed or failing init what
\* ScaffoldWhole says.
LEMMA ScaffoldInvWhole == ScaffoldInv => ScaffoldWhole
<1> SUFFICES ASSUME ScaffoldInv, NEW i \in Inits
             PROVE  LET mine == {f \in Paths : tree[f].owner = i} IN
                    CASE inits[i].pc = "done" ->
                           \A f \in Paths : tree[f] = [owner |-> i, whole |-> TRUE]
                      [] inits[i].pc = "failed" -> mine = {}
                      [] inits[i].pc = "undo" -> mine = (inits[i].at + 1)..inits[i].reserved
                      [] inits[i].pc = "killed" -> TRUE
                      [] OTHER -> mine = 1..inits[i].reserved
  BY DEF ScaffoldWhole
<1> DEFINE mine == {f \in Paths : tree[f].owner = i}
<1>1. /\ inits[i].reserved \in 0..FileCount /\ inits[i].at \in 0..FileCount
      /\ FileCount \in Nat /\ Stands(i) /\ Paths = 1..FileCount
  BY ScaffoldAssumption DEF ScaffoldInv, ScaffoldTypeOK, Paths
<1>2. ASSUME inits[i].pc # "killed"
      PROVE  mine = {f \in Paths : Keeps(i, f)}
  BY <1>1, <1>2 DEF Stands
<1>3. ASSUME inits[i].pc = "done", NEW f \in Paths
      PROVE  tree[f] = [owner |-> i, whole |-> TRUE]
  <2>1. tree[f].owner = i /\ tree[f].whole
    BY <1>1, <1>3 DEF Stands, Keeps
  <2>2. tree[f] \in [owner : Inits \cup {"nobody", "others"}, whole : BOOLEAN]
    BY DEF ScaffoldInv, ScaffoldTypeOK
  <2> QED BY <2>1, <2>2
<1>4. ASSUME inits[i].pc = "failed"
      PROVE  mine = {}
  BY <1>2, <1>4 DEF Keeps
<1>5. ASSUME inits[i].pc = "undo"
      PROVE  mine = (inits[i].at + 1)..inits[i].reserved
  <2>1. mine = {f \in Paths : inits[i].at < f /\ f <= inits[i].reserved}
    BY <1>2, <1>5 DEF Keeps
  <2> HIDE DEF mine
  <2> QED BY <1>1, <2>1
<1>6. ASSUME inits[i].pc \notin {"done", "failed", "undo", "killed"}
      PROVE  mine = 1..inits[i].reserved
  <2>1. mine = {f \in Paths : f <= inits[i].reserved}
    BY <1>2, <1>6 DEF Keeps
  <2> HIDE DEF mine
  <2> QED BY <1>1, <2>1
<1> HIDE DEF mine
<1> QED BY <1>3, <1>4, <1>5, <1>6 DEF mine

\* Scaffolding steps of a deployment are steps of `mcp-sso init`.
LEMMA BootScaffolds == [BootNext]_bootVars => [ScaffoldNext]_scaffoldVars
BY DEF BootNext, bootVars, BootStep, EndProcess, LogStep

\* Whatever invocations race, break off or are killed, one that succeeded has
\* its whole scaffold and one that failed has left nothing (init.ts reserveAll
\* and its rollback).
THEOREM ScaffoldWholeCorrect == BootSpec => []ScaffoldWhole
<1>1. BootInit => ScaffoldInv
  BY ScaffoldStart DEF BootInit
<1>2. ScaffoldInv /\ [BootNext]_bootVars => ScaffoldInv'
  BY BootScaffolds, ScaffoldStep
<1> QED BY <1>1, <1>2, ScaffoldInvWhole, PTL DEF BootSpec

-----------------------------------------------------------------------------
(* Opening the store *)

\* What a replica that is past statement j of the plan relies on, whatever the
\* others have done since.
Past(p, j) ==
  /\ Plan[j].what \in {"create", "column", "widen"} => Plan[j].on \in db.schema
  /\ Plan[j].what = "insert" => db.instance # Unset
  /\ Plan[j].what = "widths" => WideSubjects \ openers[p].narrow \subseteq db.schema

Opening == [pc : {"closed", "admit", "begin", "migrate", "plan", "open"},
            step : 1..Len(Plan), missing : BOOLEAN, narrow : SUBSET WideSubjects]

\* How an opener stands: nobody is refused, and an open store is complete.
OpenerStands(p) ==
  /\ openers[p] \in Opening
  /\ OpenerAt(p, "closed") => openers[p] = Closed
  /\ OpenerAt(p, "plan") => \A j \in 1..Len(Plan) : j < openers[p].step => Past(p, j)
  /\ OpenerAt(p, "open") => db.schema = Features /\ db.instance # Unset

OpeningTypeOK ==
  /\ db \in [file : BOOLEAN, schema : SUBSET Features, writer : Openers \cup {Unset},
             instance : Ids \cup {Unset}]
  /\ DOMAIN openers = Openers /\ openers = [p \in Openers |-> openers[p]]

OpeningInv == OpeningTypeOK /\ \A p \in Openers : OpenerStands(p)

Is(j, what, on) == Plan[j].what = what /\ Plan[j].on = on

\* The plan, statement by statement.
LEMMA PlanFirst ==
  /\ Len(Plan) = 17
  /\ Is(1, "create", Table("metadata"))
  /\ Is(2, "column", <<"metadata", "swept_through">>)
  /\ Is(3, "shape", Table("metadata"))
  /\ Is(4, "insert", Table("metadata"))
  /\ Is(5, "row", Table("metadata"))
  /\ Is(6, "create", Table("codes"))
  /\ Is(7, "create", Table("families"))
  /\ Is(8, "create", Table("tokens"))
  /\ Is(9, "create", Table("jtis"))
BY DEF Plan, Do, Is

\* The second half of the plan, entry by entry.
LEMMA PlanRest ==
  /\ Is(10, "column", <<"codes", "grant_generation">>)
  /\ Is(11, "column", <<"families", "grant_generation">>)
  /\ Is(12, "column", <<"tokens", "grant_generation">>)
  /\ Is(13, "column", <<"families", "resource">>)
  /\ Is(14, "column", <<"tokens", "resource">>)
  /\ Is(15, "widths", Table("codes"))
  /\ Is(16, "widen", <<"codes", "subject">>)
  /\ Is(17, "widen", <<"tokens", "subject">>)
BY DEF Plan, Do, Is

\* The numbers of its statements.
LEMMA Statements ==
  1..Len(Plan) = {1, 2, 3, 4, 5, 6, 7, 8, 9, 10, 11, 12, 13, 14, 15, 16, 17}
<1>1. Len(Plan) = 17
  BY PlanFirst
<1>2. 1..17 = {1, 2, 3, 4, 5, 6, 7, 8, 9, 10, 11, 12, 13, 14, 15, 16, 17}
  OBVIOUS
<1> QED BY <1>1, <1>2

\* A statement changes a feature of the schema; a table is created by its name,
\* with its columns.
LEMMA PlanFeatures ==
  ASSUME NEW j \in 1..Len(Plan)
  PROVE  /\ Plan[j].what \in {"create", "column", "widen"} => Plan[j].on \in Features
         /\ Plan[j].what = "create" => Plan[j].on \in FeaturesOf(Plan[j].on[1])
         /\ Plan[j].what = "widen" => Plan[j].on \in WideSubjects
<1>1. {<<"codes", "subject">>, <<"tokens", "subject">>} = WideSubjects
  BY DEF WideSubjects
<1>2. \A t \in Tables : Table(t) \in Features /\ Table(t)[1] = t
  BY DEF Features, Table
<1>3. \A t \in Tables : Table(t) \in FeaturesOf(Table(t)[1])
  BY <1>2 DEF FeaturesOf
<1>4. WideSubjects \subseteq Features /\ Columns \subseteq Features
  BY DEF Features
<1>5. CASE j \in {1, 6, 7, 8, 9}
  <2>1. Plan[j].what = "create" /\ \E t \in Tables : Plan[j].on = Table(t)
    BY <1>5, PlanFirst, Statements DEF Tables, Is
  <2> QED BY <1>2, <1>3, <2>1
<1>6. CASE j \in {2, 10, 11, 12, 13, 14}
  <2>1. Plan[j].what = "column" /\ Plan[j].on \in Columns
    BY <1>6, PlanFirst, PlanRest, Statements DEF Columns, Is
  <2> QED BY <1>4, <2>1
<1>7. CASE j \in {16, 17}
  <2>1. Plan[j].what = "widen" /\ Plan[j].on \in WideSubjects
    BY <1>1, <1>7, PlanRest, Statements DEF Is
  <2> QED BY <1>4, <2>1
<1>8. CASE j \in {3, 4, 5, 15}
  <2>1. Plan[j].what \in {"shape", "insert", "row", "widths"}
    BY <1>8, PlanFirst, PlanRest, Statements DEF Is
  <2> QED BY <2>1
<1> QED BY <1>5, <1>6, <1>7, <1>8, Statements

\* Where the statements stand that read what others have done.
LEMMA PlanOrder ==
  ASSUME NEW j \in 1..Len(Plan)
  PROVE  /\ Plan[j].what = "shape" => j = 3
         /\ Plan[j].what = "row" => j = 5
         /\ Plan[j].what = "widths" => j = 15
         /\ Plan[j].what = "widen" => j \in {16, 17}
<1>1. CASE j \in {1, 2, 6, 7, 8, 9, 10, 11, 12, 13, 14}
  <2>1. Plan[j].what \in {"create", "column"}
    BY <1>1, PlanFirst, PlanRest, Statements DEF Is
  <2> QED BY <2>1
<1>2. CASE j \in {3, 4, 5}
  <2>1. Plan[3].what = "shape" /\ Plan[4].what = "insert" /\ Plan[5].what = "row"
    BY PlanFirst, Statements DEF Is
  <2> QED BY <1>2, <2>1
<1>3. CASE j \in {15, 16, 17}
  <2>1. Plan[15].what = "widths" /\ Plan[16].what = "widen" /\ Plan[17].what = "widen"
    BY PlanRest, Statements DEF Is
  <2>2. CASE j = 15
    BY <2>1, <2>2
  <2>3. CASE j \in {16, 17}
    BY <2>1, <2>3
  <2> QED BY <1>3, <2>2, <2>3
<1> QED BY <1>1, <1>2, <1>3, Statements

\* The whole plan makes the whole schema.
LEMMA PlanComplete ==
  ASSUME NEW schema,
         \A j \in 1..Len(Plan) :
           Plan[j].what \in {"create", "column", "widen"} => Plan[j].on \in schema
  PROVE  Features \subseteq schema
<1>1. /\ Table("metadata") \in schema /\ Table("codes") \in schema
      /\ Table("families") \in schema /\ Table("tokens") \in schema
      /\ Table("jtis") \in schema
  <2>1. \A j \in {1, 6, 7, 8, 9} : Plan[j].what = "create" /\ j \in 1..Len(Plan)
    BY PlanFirst, Statements DEF Is
  <2> QED BY <2>1, PlanFirst, Statements DEF Is
<1>2. Columns \subseteq schema
  <2>1. \A j \in {2, 10, 11, 12, 13, 14} : Plan[j].what = "column" /\ j \in 1..Len(Plan)
    BY PlanFirst, PlanRest, Statements DEF Is
  <2>2. \A j \in {2, 10, 11, 12, 13, 14} : Plan[j].on \in schema
    BY <2>1
  <2> QED BY <2>2, PlanFirst, PlanRest, Statements DEF Columns, Is
<1>3. WideSubjects \subseteq schema
  <2>1. \A j \in {16, 17} : Plan[j].what = "widen" /\ j \in 1..Len(Plan)
    BY PlanRest, Statements DEF Is
  <2>2. \A j \in {16, 17} : Plan[j].on \in schema
    BY <2>1
  <2>3. Plan[16].on = <<"codes", "subject">> /\ Plan[17].on = <<"tokens", "subject">>
    BY PlanRest, Statements DEF Is
  <2> QED BY <2>2, <2>3 DEF WideSubjects
<1> QED BY <1>1, <1>2, <1>3 DEF Features, Tables

\* The strict shape of the metadata table needs the first two statements.
LEMMA MetadataShape ==
  ASSUME Plan[1].on \in db.schema, Plan[2].on \in db.schema
  PROVE  FeaturesOf("metadata") \subseteq db.schema
<1>1. Plan[1].on = Table("metadata") /\ Plan[2].on = <<"metadata", "swept_through">>
  BY PlanFirst, Statements DEF Is
<1>2. \A f \in Features : f[1] = "metadata" =>
        f = Table("metadata") \/ f = <<"metadata", "swept_through">>
  BY DEF Features, Columns, WideSubjects, Tables, Table
<1> QED BY <1>1, <1>2 DEF FeaturesOf

\* What others do to the database only adds to it.
DbGrows ==
  /\ db' \in [file : BOOLEAN, schema : SUBSET Features, writer : Openers \cup {Unset},
              instance : Ids \cup {Unset}]
  /\ db.schema \subseteq db'.schema
  /\ db.instance # Unset => db'.instance # Unset

\* An opener that does nothing stands.
LEMMA OpenersStand ==
  ASSUME OpeningInv, DbGrows, NEW p \in Openers, openers'[p] = openers[p]
  PROVE  OpenerStands(p)'
<1>1. OpenerStands(p)
  BY DEF OpeningInv
<1>2. ASSUME NEW j \in 1..Len(Plan), Past(p, j)
      PROVE  Past(p, j)'
  BY <1>2 DEF Past, DbGrows
<1>3. OpenerAt(p, "open") => db'.schema = Features /\ db'.instance # Unset
  BY <1>1 DEF OpenerStands, DbGrows
<1> QED BY <1>1, <1>2, <1>3 DEF OpenerStands, OpenerAt

\* A step of one opener.
LEMMA OpenerSteps ==
  ASSUME OpeningInv, DbGrows, NEW p \in Openers, NEW o,
         openers' = [openers EXCEPT ![p] = o],
         openers'[p] = o => OpenerStands(p)'
  PROVE  OpeningInv'
<1>1. /\ DOMAIN openers' = Openers /\ openers' = [q \in Openers |-> openers'[q]]
      /\ openers'[p] = o
      /\ \A q \in Openers : q # p => openers'[q] = openers[q]
  BY DEF OpeningInv, OpeningTypeOK
<1>2. OpeningTypeOK'
  BY <1>1 DEF OpeningTypeOK, DbGrows
<1>3. ASSUME NEW q \in Openers PROVE OpenerStands(q)'
  BY <1>1, OpenersStand
<1> QED BY <1>2, <1>3 DEF OpeningInv

\* An opener that goes on to where nothing is claimed yet.
LEMMA OpenerMoves ==
  ASSUME OpeningInv, DbGrows, NEW p \in Openers, NEW o \in Opening,
         openers' = [openers EXCEPT ![p] = o],
         o.pc \in {"admit", "begin", "migrate"} \/ o = Closed \/ o = [Closed EXCEPT !.pc = "plan"]
  PROVE  OpeningInv'
<1>1. ASSUME openers'[p] = o
      PROVE  OpenerStands(p)'
  <2>1. o.pc = "closed" => o = Closed
    BY DEF Closed
  <2>2. o.pc = "plan" => o.step = 1
    BY DEF Closed
  <2>3. o.pc # "open"
    BY DEF Closed
  <2>4. \A j \in 1..Len(Plan) : ~(j < 1)
    OBVIOUS
  <2> QED BY <1>1, <2>1, <2>2, <2>3, <2>4 DEF OpenerStands, OpenerAt
<1> QED BY <1>1, OpenerSteps

\* The plan goes on once its statement holds.
LEMMA PlanGoesOn ==
  ASSUME OpeningInv, DbGrows, NEW p \in Openers, OpenerAt(p, "plan"), NextStep(p),
         Plan[openers[p].step].what # "widths",
         Plan[openers[p].step].what \in {"create", "column", "widen"} =>
           Plan[openers[p].step].on \in db'.schema,
         Plan[openers[p].step].what = "insert" => db'.instance # Unset
  PROVE  OpeningInv'
<1> DEFINE k == openers[p].step
<1>1. /\ openers[p] \in Opening /\ k \in 1..Len(Plan) /\ Len(Plan) \in Nat
      /\ \A j \in 1..Len(Plan) : j < k => Past(p, j)
  BY PlanFirst DEF OpeningInv, OpenerStands, Opening
<1> HIDE DEF k
<1>2. ASSUME NEW j \in 1..Len(Plan), j < k
      PROVE  /\ Plan[j].what \in {"create", "column", "widen"} => Plan[j].on \in db'.schema
             /\ Plan[j].what = "insert" => db'.instance # Unset
             /\ Plan[j].what = "widths" => WideSubjects \ openers[p].narrow \subseteq db'.schema
  BY <1>1, <1>2 DEF Past, DbGrows
<1>3. CASE k = Len(Plan)
  <2>1. openers' = [openers EXCEPT ![p] = [Closed EXCEPT !.pc = "open"]]
    BY <1>3 DEF NextStep, k, OpeningInv, OpeningTypeOK
  <2>2. \A j \in 1..Len(Plan) :
          /\ Plan[j].what \in {"create", "column", "widen"} => Plan[j].on \in db'.schema
          /\ Plan[j].what = "insert" => db'.instance # Unset
    <3> SUFFICES ASSUME NEW j \in 1..Len(Plan)
                 PROVE  /\ Plan[j].what \in {"create", "column", "widen"} =>
                             Plan[j].on \in db'.schema
                        /\ Plan[j].what = "insert" => db'.instance # Unset
      OBVIOUS
    <3>1. CASE j < k
      BY <1>2, <3>1
    <3>2. CASE j = k
      BY <3>2 DEF k
    <3> QED BY <1>1, <1>3, <3>1, <3>2
  <2>4. Features \subseteq db'.schema
    BY <2>2, PlanComplete
  <2>5. db'.schema = Features
    BY <2>4 DEF DbGrows
  <2>6. db'.instance # Unset
    <3>1. 4 \in 1..Len(Plan) /\ Plan[4].what = "insert"
      BY PlanFirst, Statements DEF Is
    <3> QED BY <2>2, <3>1
  <2>7. [Closed EXCEPT !.pc = "open"] \in Opening
    <3>1. 1 \in 1..Len(Plan)
      BY Statements
    <3> QED BY <3>1 DEF Closed, Opening
  <2>8. ASSUME openers'[p] = [Closed EXCEPT !.pc = "open"]
        PROVE  OpenerStands(p)'
    <3>1. openers'[p].pc = "open"
      BY <2>8 DEF Closed
    <3> QED BY <2>5, <2>6, <2>7, <2>8, <3>1 DEF OpenerStands, OpenerAt
  <2> QED BY <2>1, <2>8, OpenerSteps
<1>4. CASE k # Len(Plan)
  <2> DEFINE o == [openers[p] EXCEPT !.step = k + 1, !.missing = FALSE]
  <2>1. openers' = [openers EXCEPT ![p] = o]
    BY <1>4 DEF NextStep, k, OpeningInv, OpeningTypeOK
  <2>2. o \in Opening /\ o.pc = "plan" /\ o.step = k + 1 /\ o.narrow = openers[p].narrow
    <3>1. k + 1 \in 1..Len(Plan)
      BY <1>1, <1>4, PlanFirst
    <3>2. openers[p].pc = "plan" /\ openers[p] \in Opening
      BY <1>1 DEF OpenerAt
    <3> QED BY <3>1, <3>2 DEF Opening
  <2> HIDE DEF o
  <2>3. ASSUME openers'[p] = o, NEW j \in 1..Len(Plan), j < k + 1
        PROVE  Past(p, j)'
    <3>1. CASE j < k
      BY <1>2, <2>2, <2>3, <3>1 DEF Past
    <3>2. CASE j = k
      BY <3>2 DEF k, Past
    <3> QED BY <1>1, <2>3, <3>1, <3>2
  <2>4. ASSUME openers'[p] = o
        PROVE  OpenerStands(p)'
    BY <2>2, <2>3, <2>4 DEF OpenerStands, OpenerAt
  <2> QED BY <2>1, <2>4, OpenerSteps
<1> QED BY <1>3, <1>4

\* A transaction of SQLite ends with the whole schema.
LEMMA SqliteKeeps ==
  ASSUME OpeningInv, NEW p \in Openers, SqliteStep(p)
  PROVE  OpeningInv'
<1>1. openers[p] \in Opening
  BY DEF OpeningInv, OpenerStands
<1>2. /\ db \in [file : BOOLEAN, schema : SUBSET Features, writer : Openers \cup {Unset},
                 instance : Ids \cup {Unset}]
      /\ openers = [q \in Openers |-> openers[q]]
  BY DEF OpeningInv, OpeningTypeOK
<1>3. CASE AdmitFile(p)
  <2> DEFINE o == [openers[p] EXCEPT !.pc = "begin"]
  <2>1. openers' = [openers EXCEPT ![p] = o] /\ o \in Opening /\ o.pc = "begin"
    BY <1>1, <1>2, <1>3 DEF AdmitFile, OpenerGoes, Opening
  <2>2. DbGrows
    BY <1>2, <1>3 DEF AdmitFile, DbGrows
  <2> HIDE DEF o
  <2> QED BY <2>1, <2>2, OpenerMoves
<1>4. CASE BeginImmediate(p)
  <2> DEFINE o == [openers[p] EXCEPT !.pc = "migrate"]
  <2>1. openers' = [openers EXCEPT ![p] = o] /\ o \in Opening /\ o.pc = "migrate"
    BY <1>1, <1>2, <1>4 DEF BeginImmediate, OpenerGoes, Opening
  <2>2. DbGrows
    BY <1>2, <1>4 DEF BeginImmediate, DbGrows
  <2> HIDE DEF o
  <2> QED BY <2>1, <2>2, OpenerMoves
<1>5. CASE MigrateSqlite(p)
  <2> DEFINE o == [openers[p] EXCEPT !.pc = "open"]
  <2>1. openers' = [openers EXCEPT ![p] = o] /\ o \in Opening /\ o.pc = "open"
    BY <1>1, <1>2, <1>5 DEF MigrateSqlite, OpenerGoes, Opening
  <2>2. PICK id \in Ids : db' = [db EXCEPT !.schema = Features, !.instance = Ensured(id),
                                           !.writer = Unset]
    BY <1>5 DEF MigrateSqlite, AfterMigration
  <2>3. Ensured(id) \in Ids
    BY <1>2 DEF Ensured
  <2>4. DbGrows /\ db'.schema = Features /\ db'.instance # Unset
    BY <1>2, <2>2, <2>3, OpeningAssumption DEF DbGrows
  <2> HIDE DEF o
  <2>5. ASSUME openers'[p] = o
        PROVE  OpenerStands(p)'
    BY <2>1, <2>4, <2>5 DEF OpenerStands, OpenerAt
  <2> QED BY <2>1, <2>4, <2>5, OpenerSteps
<1> QED BY <1>3, <1>4, <1>5 DEF SqliteStep

\* The replica's own place in the plan.
LEMMA AtPlan ==
  ASSUME OpeningInv, NEW p \in Openers, NEW what, AtStep(p, what)
  PROVE  LET k == openers[p].step IN
         /\ openers[p] \in Opening /\ OpenerAt(p, "plan")
         /\ k \in 1..Len(Plan) /\ Plan[k].what = what /\ On(p) = Plan[k].on
         /\ \A j \in 1..Len(Plan) : j < k => Past(p, j)
BY DEF OpeningInv, OpenerStands, Opening, AtStep, On

\* Statements that add to the schema.
LEMMA MysqlAdds ==
  ASSUME OpeningInv, NEW p \in Openers, CreateTable(p) \/ LookColumn(p) \/ AddColumn(p)
  PROVE  OpeningInv'
<1> DEFINE k == openers[p].step
<1>1. /\ db \in [file : BOOLEAN, schema : SUBSET Features, writer : Openers \cup {Unset},
                 instance : Ids \cup {Unset}]
      /\ openers = [q \in Openers |-> openers[q]]
  BY DEF OpeningInv, OpeningTypeOK
<1>2. CASE CreateTable(p)
  <2>1. AtStep(p, "create") /\ NextStep(p)
    BY <1>2 DEF CreateTable
  <2>2. /\ OpenerAt(p, "plan") /\ k \in 1..Len(Plan) /\ Plan[k].what = "create"
        /\ On(p) = Plan[k].on
    BY <2>1, AtPlan
  <2>3. On(p) \in FeaturesOf(On(p)[1]) /\ FeaturesOf(On(p)[1]) \subseteq Features
    BY <2>2, PlanFeatures DEF FeaturesOf
  <2>4. PICK schema : /\ db' = [db EXCEPT !.schema = schema]
                      /\ schema = IF On(p) \in db.schema THEN db.schema
                                  ELSE db.schema \cup FeaturesOf(On(p)[1])
    BY <1>2 DEF CreateTable
  <2>5. schema \in SUBSET Features /\ db.schema \subseteq schema /\ On(p) \in schema
    BY <1>1, <2>3, <2>4
  <2>6. DbGrows /\ On(p) \in db'.schema
    BY <1>1, <2>4, <2>5 DEF DbGrows
  <2> HIDE DEF k
  <2> QED BY <2>1, <2>2, <2>6, PlanGoesOn DEF k
<1>3. CASE LookColumn(p)
  <2>1. AtStep(p, "column") /\ db' = db
    BY <1>3 DEF LookColumn
  <2>2. /\ OpenerAt(p, "plan") /\ k \in 1..Len(Plan) /\ Plan[k].what = "column"
        /\ On(p) = Plan[k].on /\ openers[p] \in Opening
        /\ \A j \in 1..Len(Plan) : j < k => Past(p, j)
    BY <2>1, AtPlan
  <2>3. DbGrows
    BY <1>1, <2>1 DEF DbGrows
  <2>4. CASE On(p) \in db.schema
    <3>1. NextStep(p)
      BY <1>3, <2>4 DEF LookColumn
    <3> HIDE DEF k
    <3> QED BY <2>1, <2>2, <2>3, <2>4, <3>1, PlanGoesOn DEF k
  <2>5. CASE On(p) \notin db.schema
    <3> DEFINE o == [openers[p] EXCEPT !.missing = TRUE]
    <3>1. /\ openers' = [openers EXCEPT ![p] = o] /\ o \in Opening
          /\ o.pc = "plan" /\ o.step = k /\ o.narrow = openers[p].narrow
      BY <1>1, <1>3, <2>2, <2>5 DEF LookColumn, Opening, OpenerAt
    <3> HIDE DEF o, k
    <3>2. ASSUME openers'[p] = o, NEW j \in 1..Len(Plan), j < k
          PROVE  Past(p, j)'
      BY <2>1, <2>2, <3>1, <3>2 DEF Past
    <3>3. ASSUME openers'[p] = o
          PROVE  OpenerStands(p)'
      BY <3>1, <3>2, <3>3 DEF OpenerStands, OpenerAt
    <3> QED BY <2>3, <3>1, <3>3, OpenerSteps
  <2> QED BY <2>4, <2>5
<1>4. CASE AddColumn(p)
  <2>1. AtStep(p, "column") /\ NextStep(p)
    BY <1>4 DEF AddColumn, Tolerates
  <2>2. /\ OpenerAt(p, "plan") /\ k \in 1..Len(Plan) /\ Plan[k].what = "column"
        /\ On(p) = Plan[k].on
    BY <2>1, AtPlan
  <2>3. On(p) \in Features
    BY <2>2, PlanFeatures
  <2>4. DbGrows /\ On(p) \in db'.schema
    BY <1>1, <1>4, <2>3 DEF AddColumn, Tolerates, DbGrows
  <2> HIDE DEF k
  <2> QED BY <2>1, <2>2, <2>4, PlanGoesOn DEF k
<1> QED BY <1>2, <1>3, <1>4

\* Assertions hold, and the identity is written once.
LEMMA MysqlAsserts ==
  ASSUME OpeningInv, NEW p \in Openers, AssertShape(p) \/ InsertInstance(p) \/ AssertRow(p)
  PROVE  OpeningInv'
<1> DEFINE k == openers[p].step
<1>1. /\ db \in [file : BOOLEAN, schema : SUBSET Features, writer : Openers \cup {Unset},
                 instance : Ids \cup {Unset}]
      /\ 1 \in 1..Len(Plan) /\ 2 \in 1..Len(Plan) /\ 4 \in 1..Len(Plan)
  BY Statements DEF OpeningInv, OpeningTypeOK
<1>2. CASE AssertShape(p)
  <2>1. AtStep(p, "shape") /\ db' = db
    BY <1>2 DEF AssertShape
  <2>2. /\ OpenerAt(p, "plan") /\ Plan[k].what = "shape" /\ k = 3
        /\ \A j \in 1..Len(Plan) : j < k => Past(p, j)
    BY <2>1, AtPlan, PlanOrder
  <2>3. Past(p, 1) /\ Past(p, 2)
    BY <1>1, <2>2
  <2>4. Plan[1].on \in db.schema /\ Plan[2].on \in db.schema
    BY <2>3, PlanFirst DEF Past, Is
  <2>5. NextStep(p) /\ DbGrows
    BY <1>1, <1>2, <2>1, <2>4, MetadataShape DEF AssertShape, DbGrows
  <2> HIDE DEF k
  <2> QED BY <2>2, <2>5, PlanGoesOn DEF k
<1>3. CASE InsertInstance(p)
  <2>1. AtStep(p, "insert") /\ NextStep(p)
    BY <1>3 DEF InsertInstance
  <2>2. PICK id \in Ids : db' = [db EXCEPT !.instance = Ensured(id)]
    BY <1>3 DEF InsertInstance
  <2>3. Ensured(id) \in Ids
    BY <1>1 DEF Ensured
  <2>4. DbGrows /\ db'.instance # Unset
    BY <1>1, <2>2, <2>3, OpeningAssumption DEF DbGrows
  <2>5. OpenerAt(p, "plan") /\ Plan[k].what = "insert"
    BY <2>1, AtPlan
  <2> HIDE DEF k
  <2> QED BY <2>1, <2>4, <2>5, PlanGoesOn DEF k
<1>4. CASE AssertRow(p)
  <2>1. AtStep(p, "row") /\ db' = db
    BY <1>4 DEF AssertRow
  <2>2. /\ OpenerAt(p, "plan") /\ Plan[k].what = "row" /\ k = 5
        /\ \A j \in 1..Len(Plan) : j < k => Past(p, j)
    BY <2>1, AtPlan, PlanOrder
  <2>3. Past(p, 4)
    BY <1>1, <2>2
  <2>4. db.instance # Unset
    BY <2>3, PlanFirst DEF Past, Is
  <2>5. NextStep(p) /\ DbGrows
    BY <1>1, <1>4, <2>1, <2>4 DEF AssertRow, DbGrows
  <2> HIDE DEF k
  <2> QED BY <2>2, <2>5, PlanGoesOn DEF k
<1> QED BY <1>2, <1>3, <1>4

\* Subjects are wide, or found narrow and widened.
LEMMA MysqlWidens ==
  ASSUME OpeningInv, NEW p \in Openers, LookWidths(p) \/ WidenSubject(p)
  PROVE  OpeningInv'
<1> DEFINE k == openers[p].step
<1>1. /\ db \in [file : BOOLEAN, schema : SUBSET Features, writer : Openers \cup {Unset},
                 instance : Ids \cup {Unset}]
      /\ openers = [q \in Openers |-> openers[q]]
  BY DEF OpeningInv, OpeningTypeOK
<1>2. /\ 6 \in 1..Len(Plan) /\ 8 \in 1..Len(Plan) /\ 15 \in 1..Len(Plan)
      /\ 16 \in 1..Len(Plan) /\ Len(Plan) = 17
  BY Statements, PlanFirst
<1>3. CASE LookWidths(p)
  <2>1. AtStep(p, "widths") /\ db' = db
    BY <1>3 DEF LookWidths
  <2>2. /\ OpenerAt(p, "plan") /\ Plan[k].what = "widths" /\ k = 15
        /\ openers[p] \in Opening
        /\ \A j \in 1..Len(Plan) : j < k => Past(p, j)
    BY <2>1, AtPlan, PlanOrder
  <2>3. Past(p, 6) /\ Past(p, 8)
    BY <1>2, <2>2
  <2>4. Table("codes") \in db.schema /\ Table("tokens") \in db.schema
    BY <2>3, PlanFirst DEF Past, Is
  <2>5. {Table(f[1]) : f \in WideSubjects} \subseteq db.schema
    BY <2>4 DEF WideSubjects
  <2> DEFINE wider == [openers[p] EXCEPT !.step = openers[p].step + 1]
             o == [wider EXCEPT !.narrow = WideSubjects \ db.schema]
  <2>6. openers' = [openers EXCEPT ![p] = o]
    <3>1. openers' = [openers EXCEPT ![p].step = @ + 1, ![p].narrow = WideSubjects \ db.schema]
      BY <1>3, <2>5 DEF LookWidths
    <3> QED BY <1>1, <3>1
  <2>7. /\ o \in Opening /\ o.pc = "plan" /\ o.step = 16
        /\ o.narrow = WideSubjects \ db.schema
    <3>1. openers[p].step + 1 = 16 /\ openers[p] \in Opening /\ openers[p].pc = "plan"
      BY <2>2 DEF OpenerAt
    <3>2. wider \in Opening /\ wider.pc = "plan" /\ wider.step = 16
      BY <1>2, <3>1 DEF Opening
    <3> HIDE DEF wider
    <3> QED BY <3>2 DEF Opening
  <2>8. DbGrows
    BY <1>1, <2>1 DEF DbGrows
  <2> HIDE DEF o
  <2>9. ASSUME openers'[p] = o, NEW j \in 1..Len(Plan), j < 16
        PROVE  Past(p, j)'
    <3>1. CASE j < 15
      <4>1. Past(p, j) /\ Plan[j].what # "widths"
        BY <2>2, <3>1, PlanOrder
      <4> QED BY <2>1, <4>1 DEF Past
    <3>2. CASE j = 15
      BY <2>1, <2>2, <2>7, <2>9, <3>2 DEF Past
    <3> QED BY <1>2, <2>9, <3>1, <3>2
  <2>10. ASSUME openers'[p] = o
         PROVE  OpenerStands(p)'
    BY <2>7, <2>9, <2>10 DEF OpenerStands, OpenerAt
  <2> QED BY <2>6, <2>8, <2>10, OpenerSteps
<1>4. CASE WidenSubject(p)
  <2>1. AtStep(p, "widen") /\ NextStep(p)
    BY <1>4 DEF WidenSubject
  <2>2. /\ OpenerAt(p, "plan") /\ Plan[k].what = "widen" /\ k \in {16, 17}
        /\ On(p) = Plan[k].on /\ On(p) \in WideSubjects /\ On(p) \in Features
        /\ \A j \in 1..Len(Plan) : j < k => Past(p, j)
    BY <2>1, AtPlan, PlanOrder, PlanFeatures
  <2>3. Past(p, 15)
    BY <1>2, <2>2
  <2>4. WideSubjects \ openers[p].narrow \subseteq db.schema
    BY <2>3, PlanRest DEF Past, Is
  <2>5. DbGrows /\ On(p) \in db'.schema
    BY <1>1, <1>4, <2>2, <2>4 DEF WidenSubject, DbGrows
  <2> HIDE DEF k
  <2> QED BY <2>1, <2>2, <2>5, PlanGoesOn DEF k
<1> QED BY <1>3, <1>4

\* What a deployment does to the store that it opens.
OpeningMove ==
  \E p \in Openers :
    \/ OpeningStep(p) \/ RotateIdentity(p) \/ LoseOpener(p)
    \/ /\ OpenerAt(p, "closed")
       /\ OpenerGoes(p, "plan") \/ OpenerGoes(p, "admit")
       /\ UNCHANGED db

\* Every step of an opener, of either store, keeps the invariant.
LEMMA OpeningKeeps == OpeningInv /\ [OpeningMove]_openingVars => OpeningInv'
<1> SUFFICES ASSUME OpeningInv, [OpeningMove]_openingVars PROVE OpeningInv'
  OBVIOUS
<1>1. /\ db \in [file : BOOLEAN, schema : SUBSET Features, writer : Openers \cup {Unset},
                 instance : Ids \cup {Unset}]
      /\ openers = [q \in Openers |-> openers[q]]
  BY DEF OpeningInv, OpeningTypeOK
<1>2. Closed \in Opening
  BY Statements DEF Closed, Opening
<1>3. ASSUME NEW p \in Openers, OpeningStep(p)
      PROVE  OpeningInv'
  BY <1>3, SqliteKeeps, MysqlAdds, MysqlAsserts, MysqlWidens DEF OpeningStep, MysqlStep
<1>4. ASSUME NEW p \in Openers, RotateIdentity(p)
      PROVE  OpeningInv'
  <2>0. PICK id \in Ids : db' = [db EXCEPT !.instance = id]
    BY <1>4 DEF RotateIdentity
  <2>1. DbGrows /\ openers' = openers
    BY <1>1, <1>4, <2>0, OpeningAssumption DEF RotateIdentity, DbGrows
  <2>2. OpeningTypeOK'
    BY <1>1, <2>1 DEF OpeningInv, OpeningTypeOK, DbGrows
  <2> QED BY <2>1, <2>2, OpenersStand DEF OpeningInv
<1>5. ASSUME NEW p \in Openers, LoseOpener(p)
      PROVE  OpeningInv'
  <2>1. DbGrows
    BY <1>1, <1>5 DEF LoseOpener, DbGrows
  <2> QED BY <1>2, <1>5, <2>1, OpenerMoves DEF LoseOpener
<1>6. ASSUME NEW p \in Openers, OpenerAt(p, "closed"), UNCHANGED db,
             NEW pc \in {"plan", "admit"}, OpenerGoes(p, pc)
      PROVE  OpeningInv'
  <2> DEFINE o == [Closed EXCEPT !.pc = pc]
  <2>1. openers[p] = Closed
    BY <1>6 DEF OpeningInv, OpenerStands
  <2>2. openers' = [openers EXCEPT ![p] = o]
    BY <1>1, <1>6, <2>1 DEF OpenerGoes
  <2>3. o \in Opening /\ o.pc = pc
    BY <1>2 DEF Opening, Closed
  <2>4. DbGrows
    BY <1>1, <1>6 DEF DbGrows
  <2>5. pc = "plan" => o = [Closed EXCEPT !.pc = "plan"]
    OBVIOUS
  <2> HIDE DEF o
  <2> QED BY <2>2, <2>3, <2>4, <2>5, OpenerMoves
<1>7. CASE UNCHANGED openingVars
  <2>1. db' = db /\ openers' = openers
    BY <1>7 DEF openingVars
  <2> QED BY <2>1 DEF OpeningInv, OpeningTypeOK, OpenerStands, OpenerAt, Past
<1> QED BY <1>3, <1>4, <1>5, <1>6, <1>7 DEF OpeningMove

\* What a booting process does to the store is one of those.
LEMMA BootOpens == [BootNext]_bootVars => [OpeningMove]_openingVars
<1> SUFFICES ASSUME BootNext PROVE [OpeningMove]_openingVars
  BY DEF bootVars, openingVars
<1>1. ASSUME NEW p \in Processes, BootStep(p)
      PROVE  [OpeningMove]_openingVars
  <2>1. p \in Openers
    BY BootAssumption
  <2>2. CASE OpenStore(p)
    <3>1. OpenerAt(p, "closed") /\ UNCHANGED db
          /\ (OpenerGoes(p, "plan") \/ OpenerGoes(p, "admit"))
      BY <2>2 DEF OpenStore
    <3> QED BY <2>1, <3>1 DEF OpeningMove
  <2>3. CASE Exit(p)
    BY <2>1, <2>3 DEF Exit, OpeningMove
  <2>4. CASE OpeningStep(p)
    BY <2>1, <2>4 DEF OpeningMove
  <2>5. CASE BootProcess(p) \/ UNCHANGED openingVars
    BY <2>5 DEF BootProcess
  <2> QED BY <1>1, <2>2, <2>3, <2>4, <2>5 DEF BootStep
<1>2. ASSUME NEW p \in Processes, EndProcess(p)
      PROVE  [OpeningMove]_openingVars
  BY <1>2, BootAssumption DEF EndProcess, OpeningMove
<1>3. ASSUME NEW p \in Processes, RotateIdentity(p)
      PROVE  [OpeningMove]_openingVars
  BY <1>3, BootAssumption DEF OpeningMove
<1>4. CASE LogStep
  BY <1>4 DEF LogStep
<1> QED BY <1>1, <1>2, <1>3, <1>4 DEF BootNext

\* A new or formerly deployed database with nobody opening it satisfies it.
LEMMA OpeningStart == OpeningInit => OpeningInv
<1> SUFFICES ASSUME OpeningInit PROVE OpeningInv
  OBVIOUS
<1>1. \A schema \in Deployed : schema \subseteq Features
  BY DEF Deployed, Old, Features
<1>2. (CHOOSE id \in Ids : TRUE) \in Ids
  BY OpeningAssumption
<1>3. db \in [file : BOOLEAN, schema : SUBSET Features, writer : Openers \cup {Unset},
              instance : Ids \cup {Unset}]
  BY <1>1, <1>2 DEF OpeningInit
<1>4. OpeningTypeOK
  BY <1>3 DEF OpeningInit, OpeningTypeOK
<1>5. Closed \in Opening /\ Closed.pc = "closed"
  BY Statements DEF Closed, Opening
<1> QED BY <1>4, <1>5 DEF OpeningInv, OpeningInit, OpenerStands, OpenerAt

\* Whatever replicas open one database together, of whatever version, none is
\* refused for what another did, and whoever has it open finds it complete
\* (mysql-schema.ts migrateMysqlStore, sqlite-schema.ts migrateSqliteStore).
THEOREM OpensTogetherCorrect == BootSpec => []OpensTogether
<1>1. BootInit => OpeningInv
  BY OpeningStart DEF BootInit
<1>2. OpeningInv /\ [BootNext]_bootVars => OpeningInv'
  BY BootOpens, OpeningKeeps
<1>3. OpeningInv => OpensTogether
  BY DEF OpeningInv, OpenerStands, OpensTogether, Opening, OpenerAt
<1> QED BY <1>1, <1>2, <1>3, PTL DEF BootSpec

\* The identity of a store changes by the operator's hand alone: a boot writes
\* one where there is none (INSERT IGNORE, mysql-instance.ts).
THEOREM InstanceKeptCorrect == BootSpec => InstanceKept
<1>1. BootInit => OpeningInv
  BY OpeningStart DEF BootInit
<1>2. OpeningInv /\ [BootNext]_bootVars => OpeningInv'
  BY BootOpens, OpeningKeeps
<1>3. ASSUME OpeningInv, [BootNext]_bootVars
      PROVE  [db.instance # Unset => \/ db'.instance = db.instance
                                     \/ \E p \in Openers : RotateIdentity(p)]_openingVars
  <2>1. db \in [file : BOOLEAN, schema : SUBSET Features, writer : Openers \cup {Unset},
                instance : Ids \cup {Unset}]
    BY <1>3 DEF OpeningInv, OpeningTypeOK
  <2>2. [OpeningMove]_openingVars
    BY <1>3, BootOpens
  <2> SUFFICES ASSUME OpeningMove, db.instance # Unset
               PROVE  \/ db'.instance = db.instance
                      \/ \E p \in Openers : RotateIdentity(p)
    BY <2>2
  <2>3. ASSUME NEW p \in Openers, SqliteStep(p)
        PROVE  db'.instance = db.instance
    BY <2>1, <2>3 DEF SqliteStep, AdmitFile, BeginImmediate, MigrateSqlite, Ensured
  <2>4. ASSUME NEW p \in Openers, CreateTable(p) \/ LookColumn(p) \/ AddColumn(p)
        PROVE  db'.instance = db.instance
    BY <2>1, <2>4 DEF CreateTable, LookColumn, AddColumn
  <2>5. ASSUME NEW p \in Openers, AssertShape(p) \/ InsertInstance(p) \/ AssertRow(p)
        PROVE  db'.instance = db.instance
    BY <2>1, <2>5 DEF AssertShape, InsertInstance, AssertRow, Ensured
  <2>6. ASSUME NEW p \in Openers, LookWidths(p) \/ WidenSubject(p)
        PROVE  db'.instance = db.instance
    BY <2>1, <2>6 DEF LookWidths, WidenSubject
  <2>7. ASSUME NEW p \in Openers, LoseOpener(p)
        PROVE  db'.instance = db.instance
    BY <2>1, <2>7 DEF LoseOpener
  <2> QED BY <2>3, <2>4, <2>5, <2>6, <2>7 DEF OpeningMove, OpeningStep, MysqlStep
<1> QED BY <1>1, <1>2, <1>3, PTL DEF BootSpec, InstanceKept

-----------------------------------------------------------------------------
(* The keys in the state directory *)

Preparation == [pc : {"off", "look", "load", "read", "lookDir", "generate", "validate", "mkdir",
                      "ignore", "writeIgnore", "secrets", "writeSecrets", "ready", "refused"},
                key : Keys \cup {None, EnvKey}, created : BOOLEAN, loaded : BOOLEAN]

Directory == [dir : BOOLEAN, ignore : {"absent", "empty", "managed"},
              secrets : {None} \cup [key : Keys, whole : BOOLEAN]]

\* secrets.json is of the key of p, whole or not yet.
Persisted(p, whole) ==
  /\ files.secrets # None
  /\ files.secrets.key = starts[p].key
  /\ files.secrets.whole <=> whole

\* How a process of the starter stands: what it will persist it generated, and
\* what it loaded or persisted is in the directory.
KeyStands(p) ==
  /\ starts[p].loaded => starts[p].pc \in {"validate", "ready"}
  /\ starts[p].pc \in {"mkdir", "ignore", "writeIgnore", "secrets", "writeSecrets"} =>
       starts[p].key \in Keys
  /\ starts[p].pc = "validate" =>
       IF starts[p].loaded THEN Persisted(p, TRUE) ELSE starts[p].key \in Keys
  /\ starts[p].pc = "writeSecrets" => Persisted(p, FALSE)
  /\ starts[p].pc = "ready" => Persisted(p, TRUE)

OneWriter ==
  \A p, q \in Processes : StartAt(p, "writeSecrets") /\ StartAt(q, "writeSecrets") => p = q

KeysInv ==
  mode = "starter" =>
    /\ files \in Directory /\ starts \in [Processes -> Preparation]
    /\ OneWriter
    /\ \A p \in Processes : KeyStands(p)

\* Who opens a store has its key.
BootedFirst == \A p \in Processes : ~OpenerAt(p, "closed") => StartAt(p, "ready")

\* A step of one process that leaves secrets.json alone.
LEMMA KeysStepOf ==
  ASSUME KeysInv, mode = "starter", mode' = mode, NEW p \in Processes, NEW s \in Preparation,
         starts' = [starts EXCEPT ![p] = s],
         files' \in Directory, files'.secrets = files.secrets,
         s.pc # "writeSecrets",
         starts'[p] = s => KeyStands(p)'
  PROVE  KeysInv'
<1>1. /\ starts' \in [Processes -> Preparation] /\ starts'[p] = s
      /\ \A q \in Processes : q # p => starts'[q] = starts[q]
  BY DEF KeysInv
<1>2. ASSUME NEW q \in Processes PROVE KeyStands(q)'
  BY <1>1 DEF KeysInv, KeyStands, Persisted
<1>3. OneWriter'
  BY <1>1 DEF KeysInv, OneWriter, StartAt
<1> QED BY <1>1, <1>2, <1>3 DEF KeysInv

\* Looking around, loading and generating.
LEMMA KeysPrepare ==
  ASSUME KeysInv, mode = "starter", mode' = mode, NEW p \in Processes,
         \/ LookSecrets(p) \/ LoadIgnore(p) \/ ReadSecrets(p)
         \/ LookDir(p) \/ GenerateKey(p) \/ Validate(p)
  PROVE  KeysInv'
<1>1. /\ files \in Directory /\ starts \in [Processes -> Preparation] /\ KeyStands(p)
      /\ files' = files
  BY DEF KeysInv, LookSecrets, LoadIgnore, ReadSecrets, LookDir, GenerateKey, Validate
<1>2. ASSUME NEW s \in Preparation, starts' = [starts EXCEPT ![p] = s],
             s.pc # "writeSecrets", starts'[p] = s => KeyStands(p)'
      PROVE  KeysInv'
  BY <1>1, <1>2, KeysStepOf
<1>3. ASSUME NEW pc \in {"load", "lookDir", "read", "refused", "generate"}, Goes(p, pc),
             starts[p].pc \in {"look", "load", "read", "lookDir"}
      PROVE  KeysInv'
  <2> DEFINE s == [starts[p] EXCEPT !.pc = pc]
  <2>1. /\ s \in Preparation /\ s.pc = pc /\ ~s.loaded
        /\ starts' = [starts EXCEPT ![p] = s]
    BY <1>1, <1>3 DEF Goes, Preparation, KeyStands
  <2> HIDE DEF s
  <2>2. starts'[p] = s => KeyStands(p)'
    BY <2>1 DEF KeyStands
  <2> QED BY <1>2, <2>1, <2>2
<1>4. CASE LookSecrets(p) \/ LoadIgnore(p) \/ LookDir(p)
  BY <1>3, <1>4 DEF LookSecrets, LoadIgnore, LookDir, Refuse, StartAt
<1>5. CASE ReadSecrets(p)
  <2>1. CASE files.secrets # None /\ files.secrets.whole
    <3> DEFINE s == [starts[p] EXCEPT !.pc = "validate", !.loaded = TRUE,
                                      !.key = files.secrets.key]
    <3>1. starts' = [starts EXCEPT ![p] = s]
      BY <1>1, <1>5, <2>1 DEF ReadSecrets
    <3>2. files.secrets.key \in Keys
      BY <1>1, <2>1 DEF Directory
    <3>3. s \in Preparation /\ s.pc = "validate" /\ s.loaded /\ s.key = files.secrets.key
      BY <1>1, <3>2 DEF Preparation
    <3> HIDE DEF s
    <3>4. starts'[p] = s => KeyStands(p)'
      BY <1>1, <2>1, <3>3 DEF KeyStands, Persisted
    <3> QED BY <1>2, <3>1, <3>3, <3>4
  <2>2. CASE ~(files.secrets # None /\ files.secrets.whole)
    BY <1>3, <1>5, <2>2 DEF ReadSecrets, Refuse, StartAt
  <2> QED BY <2>1, <2>2
<1>6. CASE GenerateKey(p)
  <2>1. PICK k \in Keys \ InUse : starts' = [starts EXCEPT ![p].pc = "validate", ![p].key = k]
    BY <1>6 DEF GenerateKey
  <2> DEFINE s == [starts[p] EXCEPT !.pc = "validate", !.key = k]
  <2>2. s \in Preparation /\ s.pc = "validate" /\ s.key = k /\ s.loaded = starts[p].loaded
    BY <1>1, <2>1 DEF Preparation
  <2>3. starts' = [starts EXCEPT ![p] = s]
    BY <1>1, <2>1
  <2>4. ~starts[p].loaded
    BY <1>1, <1>6 DEF GenerateKey, StartAt, KeyStands
  <2> HIDE DEF s
  <2>5. starts'[p] = s => KeyStands(p)'
    BY <2>1, <2>2, <2>4 DEF KeyStands
  <2> QED BY <1>2, <2>2, <2>3, <2>5
<1>7. CASE Validate(p)
  <2> DEFINE pc == IF starts[p].loaded THEN "ready" ELSE "mkdir"
             s == [starts[p] EXCEPT !.pc = pc]
  <2>1. /\ s \in Preparation /\ s.pc = pc /\ s.key = starts[p].key
        /\ starts' = [starts EXCEPT ![p] = s]
    BY <1>1, <1>7 DEF Validate, Goes, Preparation
  <2>2. starts[p].pc = "validate"
    BY <1>7 DEF Validate, StartAt
  <2> HIDE DEF s
  <2>3. s.loaded = starts[p].loaded
    BY <1>1 DEF s, Preparation
  <2>4. ASSUME starts[p].loaded, starts'[p] = s
        PROVE  KeyStands(p)'
    <3>1. Persisted(p, TRUE) /\ s.pc = "ready"
      BY <1>1, <2>1, <2>2, <2>4 DEF KeyStands
    <3> QED BY <1>1, <2>1, <2>4, <3>1 DEF KeyStands, Persisted
  <2>5. ASSUME ~starts[p].loaded, starts'[p] = s
        PROVE  KeyStands(p)'
    <3>1. starts[p].key \in Keys /\ s.pc = "mkdir"
      BY <1>1, <2>1, <2>2, <2>5 DEF KeyStands
    <3> QED BY <2>1, <2>3, <2>5, <3>1 DEF KeyStands
  <2> HIDE DEF pc
  <2>6. s.pc # "writeSecrets"
    BY <2>1 DEF pc
  <2> QED BY <1>2, <2>1, <2>4, <2>5, <2>6
<1> QED BY <1>4, <1>5, <1>6, <1>7

\* Making the directory and its ignore.
LEMMA KeysDirectory ==
  ASSUME KeysInv, mode = "starter", mode' = mode, NEW p \in Processes,
         MakeDir(p) \/ Ignore(p) \/ WriteIgnore(p)
  PROVE  KeysInv'
<1>1. /\ files \in Directory /\ starts \in [Processes -> Preparation] /\ KeyStands(p)
      /\ starts[p].pc \in {"mkdir", "ignore", "writeIgnore"}
  BY DEF KeysInv, MakeDir, Ignore, WriteIgnore, StartAt
<1>2. starts[p].key \in Keys /\ starts[p].key # EnvKey /\ ~starts[p].loaded
  BY <1>1, QuickstartAssumption DEF KeyStands
<1>3. files' \in Directory /\ files'.secrets = files.secrets
  <2>1. \/ files' = files \/ files' = [files EXCEPT !.dir = TRUE]
        \/ files' = [files EXCEPT !.ignore = "empty"]
        \/ files' = [files EXCEPT !.ignore = "managed"]
    BY DEF MakeDir, Ignore, WriteIgnore
  <2> QED BY <1>1, <2>1 DEF Directory
<1>4. ASSUME NEW s \in Preparation, starts' = [starts EXCEPT ![p] = s],
             s.pc \in {"ignore", "writeIgnore", "secrets", "refused"},
             s.key = starts[p].key, s.loaded = starts[p].loaded
      PROVE  KeysInv'
  <2>1. starts'[p] = s => KeyStands(p)'
    BY <1>2, <1>4 DEF KeyStands
  <2> QED BY <1>1, <1>3, <1>4, <2>1, KeysStepOf
<1>5. ASSUME NEW pc \in {"ignore", "writeIgnore", "secrets", "refused"}, Goes(p, pc)
      PROVE  KeysInv'
  <2> DEFINE s == [starts[p] EXCEPT !.pc = pc]
  <2>1. /\ s \in Preparation /\ s.pc = pc /\ s.key = starts[p].key
        /\ s.loaded = starts[p].loaded /\ starts' = [starts EXCEPT ![p] = s]
    BY <1>1, <1>5 DEF Goes, Preparation
  <2> HIDE DEF s
  <2> QED BY <1>4, <2>1
<1>6. CASE MakeDir(p)
  <2> DEFINE s == [starts[p] EXCEPT !.pc = "ignore", !.created = ~files.dir]
  <2>1. /\ s \in Preparation /\ s.pc = "ignore" /\ s.key = starts[p].key
        /\ s.loaded = starts[p].loaded
    BY <1>1 DEF Preparation
  <2>2. starts' = [starts EXCEPT ![p] = s]
    BY <1>1, <1>6 DEF MakeDir
  <2> HIDE DEF s
  <2> QED BY <1>4, <2>1, <2>2
<1>7. AfterIgnore(p) => Goes(p, "secrets")
  BY <1>2 DEF AfterIgnore
<1>8. CASE Ignore(p) \/ WriteIgnore(p)
  BY <1>5, <1>7, <1>8 DEF Ignore, WriteIgnore, Refuse
<1> QED BY <1>6, <1>8

\* secrets.json is created where there is none, by one process, and written by
\* the process that created it.
LEMMA KeysPersist ==
  ASSUME KeysInv, mode = "starter", mode' = mode, NEW p \in Processes,
         CreateSecrets(p) \/ WriteSecrets(p)
  PROVE  KeysInv'
<1>1. /\ files \in Directory /\ starts \in [Processes -> Preparation] /\ KeyStands(p)
      /\ OneWriter /\ \A q \in Processes : KeyStands(q)
  BY DEF KeysInv
<1>2. ASSUME NEW pc \in {"writeSecrets", "ready", "refused"}, Goes(p, pc)
      PROVE  /\ starts' \in [Processes -> Preparation]
             /\ starts'[p].pc = pc /\ starts'[p].key = starts[p].key
             /\ starts'[p].loaded = starts[p].loaded
             /\ \A q \in Processes : q # p => starts'[q] = starts[q]
  <2> DEFINE s == [starts[p] EXCEPT !.pc = pc]
  <2>1. /\ s \in Preparation /\ s.pc = pc /\ s.key = starts[p].key
        /\ s.loaded = starts[p].loaded /\ starts' = [starts EXCEPT ![p] = s]
    BY <1>1, <1>2 DEF Goes, Preparation
  <2> HIDE DEF s
  <2> QED BY <1>1, <2>1
<1>3. CASE CreateSecrets(p) /\ MayCreate
  <2>1. /\ starts[p].pc = "secrets" /\ files.secrets = None /\ starts[p].key \in Keys
        /\ files' = [files EXCEPT !.secrets = [key |-> starts[p].key, whole |-> FALSE]]
        /\ Goes(p, "writeSecrets") /\ ~starts[p].loaded
    BY <1>1, <1>3 DEF CreateSecrets, MayCreate, StartAt, KeyStands
  <2>2. /\ files' \in Directory /\ files'.secrets # None
        /\ files'.secrets.key = starts[p].key /\ files'.secrets.whole = FALSE
    <3>1. [key |-> starts[p].key, whole |-> FALSE] \in [key : Keys, whole : BOOLEAN]
      BY <2>1
    <3> QED BY <1>1, <2>1, <3>1, QuickstartAssumption DEF Directory
  <2>3. \A q \in Processes : /\ starts[q].pc \notin {"writeSecrets", "ready"}
                             /\ starts[q].pc = "validate" => ~starts[q].loaded
    BY <1>1, <2>1 DEF KeyStands, Persisted
  <2>4. /\ starts' \in [Processes -> Preparation]
        /\ starts'[p].pc = "writeSecrets" /\ starts'[p].key = starts[p].key
        /\ ~starts'[p].loaded
        /\ \A q \in Processes : q # p => starts'[q] = starts[q]
    BY <1>2, <2>1
  <2>5. KeyStands(p)'
    BY <2>1, <2>2, <2>4 DEF KeyStands, Persisted
  <2>6. \A q \in Processes : q # p => KeyStands(q)'
    BY <1>1, <2>3, <2>4 DEF KeyStands
  <2>7. OneWriter'
    BY <2>3, <2>4 DEF OneWriter, StartAt
  <2> QED BY <2>2, <2>4, <2>5, <2>6, <2>7 DEF KeysInv
<1>4. CASE CreateSecrets(p) /\ ~MayCreate
  <2> DEFINE s == [starts[p] EXCEPT !.pc = "refused"]
  <2>1. /\ s \in Preparation /\ s.pc = "refused" /\ s.loaded = starts[p].loaded
        /\ starts' = [starts EXCEPT ![p] = s] /\ files' = files
    BY <1>1, <1>4 DEF CreateSecrets, Refuse, Goes, Preparation
  <2>2. ~starts[p].loaded
    BY <1>1, <1>4 DEF CreateSecrets, StartAt, KeyStands
  <2> HIDE DEF s
  <2>3. starts'[p] = s => KeyStands(p)'
    BY <2>1, <2>2 DEF KeyStands
  <2> QED BY <1>1, <2>1, <2>3, KeysStepOf
<1>5. CASE WriteSecrets(p)
  <2>1. /\ starts[p].pc = "writeSecrets" /\ Persisted(p, FALSE) /\ ~starts[p].loaded
        /\ files' = [files EXCEPT !.secrets.whole = TRUE] /\ Goes(p, "ready")
    BY <1>1, <1>5 DEF WriteSecrets, StartAt, KeyStands
  <2>2. files.secrets \in [key : Keys, whole : BOOLEAN] /\ ~files.secrets.whole
    BY <1>1, <2>1 DEF Directory, Persisted
  <2>3. PICK written : written = [files.secrets EXCEPT !.whole = TRUE]
    OBVIOUS
  <2>4. /\ written \in [key : Keys, whole : BOOLEAN]
        /\ written.key = files.secrets.key /\ written.whole
    BY <2>2, <2>3
  <2>5. files' = [files EXCEPT !.secrets = written]
    BY <1>1, <2>1, <2>3 DEF Directory
  <2>6. /\ files' \in Directory /\ files'.secrets = written /\ written # None
    BY <1>1, <2>4, <2>5, QuickstartAssumption DEF Directory
  <2>7. \A q \in Processes : q # p =>
          /\ starts[q].pc \notin {"writeSecrets", "ready"}
          /\ starts[q].pc = "validate" => ~starts[q].loaded
    BY <1>1, <2>1, <2>2 DEF KeyStands, Persisted, OneWriter, StartAt
  <2>8. /\ starts' \in [Processes -> Preparation]
        /\ starts'[p].pc = "ready" /\ starts'[p].key = starts[p].key
        /\ ~starts'[p].loaded
        /\ \A q \in Processes : q # p => starts'[q] = starts[q]
    BY <1>2, <2>1
  <2>9. KeyStands(p)'
    BY <2>1, <2>4, <2>6, <2>8 DEF KeyStands, Persisted
  <2>10. \A q \in Processes : q # p => KeyStands(q)'
    BY <1>1, <2>7, <2>8 DEF KeyStands
  <2>11. OneWriter'
    BY <2>7, <2>8 DEF OneWriter, StartAt
  <2> QED BY <2>6, <2>8, <2>9, <2>10, <2>11 DEF KeysInv
<1> QED BY <1>3, <1>4, <1>5

\* Starting and ending a process.
LEMMA KeysOnOff ==
  ASSUME KeysInv, mode = "starter", mode' = mode, NEW p \in Processes, files' = files,
         NEW s \in Preparation, s.pc \in {"off", "look"}, ~s.loaded,
         starts' = [starts EXCEPT ![p] = s]
  PROVE  KeysInv'
<1>1. files \in Directory
  BY DEF KeysInv
<1>2. starts'[p] = s => KeyStands(p)'
  BY DEF KeyStands
<1> QED BY <1>1, <1>2, KeysStepOf

\* Every step of a deployment keeps the invariant about secrets.json.
LEMMA KeysKeep == KeysInv /\ [BootNext]_bootVars => KeysInv'
<1> SUFFICES ASSUME KeysInv, [BootNext]_bootVars PROVE KeysInv'
  OBVIOUS
<1>1. mode' = mode
  BY DEF BootNext, BootStep, EndProcess, LogStep, bootVars
<1>2. CASE mode # "starter"
  BY <1>1, <1>2 DEF KeysInv
<1>3. CASE mode = "starter"
  <2>1. CASE UNCHANGED quickstartVars
    <3>1. files' = files /\ starts' = starts
      BY <2>1 DEF quickstartVars
    <3> QED BY <1>1, <3>1 DEF KeysInv, OneWriter, StartAt, KeyStands, Persisted
  <2>2. ASSUME NEW p \in Processes, BootProcess(p)
        PROVE  KeysInv'
    <3> DEFINE s == [NotStarted EXCEPT !.pc = "look"]
    <3>1. starts' = [starts EXCEPT ![p] = s] /\ files' = files
      BY <1>3, <2>2 DEF BootProcess
    <3>2. s \in Preparation /\ s.pc = "look" /\ ~s.loaded
      BY DEF NotStarted, Preparation
    <3> HIDE DEF s
    <3> QED BY <1>1, <1>3, <3>1, <3>2, KeysOnOff
  <2>3. ASSUME NEW p \in Processes, QuickstartStep(p)
        PROVE  KeysInv'
    BY <1>1, <1>3, <2>3, KeysPrepare, KeysDirectory, KeysPersist DEF QuickstartStep
  <2>4. ASSUME NEW p \in Processes, Exit(p) \/ EndProcess(p)
        PROVE  KeysInv'
    <3>1. starts' = [starts EXCEPT ![p] = NotStarted] /\ files' = files
      BY <2>4 DEF Exit, EndProcess
    <3>2. NotStarted \in Preparation /\ NotStarted.pc = "off" /\ ~NotStarted.loaded
      BY DEF NotStarted, Preparation
    <3> QED BY <1>1, <1>3, <3>1, <3>2, KeysOnOff
  <2>5. ASSUME NEW p \in Processes, BootStep(p)
        PROVE  KeysInv'
    BY <2>1, <2>2, <2>3, <2>4, <2>5 DEF BootStep, OpenStore
  <2>6. CASE LogStep
    BY <2>1, <2>6 DEF LogStep
  <2>7. CASE (\E p \in Processes : RotateIdentity(p)) /\ UNCHANGED quickstartVars
    BY <2>1, <2>7
  <2> QED BY <2>1, <2>4, <2>5, <2>6, <2>7 DEF BootNext, bootVars
<1> QED BY <1>2, <1>3

\* A step of one opener that has begun leaves the other openers alone.
LEMMA OpeningFrame ==
  ASSUME OpeningTypeOK, NEW p \in Openers, OpeningStep(p)
  PROVE  /\ ~OpenerAt(p, "closed")
         /\ \A q \in Openers : q # p => openers'[q] = openers[q]
<1> USE DEF OpenerAt, OpenerGoes
<1>1. openers = [q \in Openers |-> openers[q]]
  BY DEF OpeningTypeOK
<1>2. NextStep(p) => \A q \in Openers : q # p => openers'[q] = openers[q]
  BY <1>1 DEF NextStep
<1>3. CASE SqliteStep(p)
  BY <1>1, <1>3 DEF SqliteStep, AdmitFile, BeginImmediate, MigrateSqlite
<1>4. CASE CreateTable(p) \/ LookColumn(p) \/ AddColumn(p)
  BY <1>1, <1>2, <1>4 DEF CreateTable, LookColumn, AddColumn, AtStep
<1>5. CASE AssertShape(p) \/ InsertInstance(p) \/ AssertRow(p)
  BY <1>1, <1>2, <1>5 DEF AssertShape, InsertInstance, AssertRow, AtStep
<1>6. CASE LookWidths(p) \/ WidenSubject(p)
  BY <1>1, <1>2, <1>6 DEF LookWidths, WidenSubject, AtStep
<1> QED BY <1>3, <1>4, <1>5, <1>6 DEF OpeningStep, MysqlStep

\* A store is opened with the keys at hand, and both end together.
LEMMA BootedKeeps ==
  ASSUME OpeningInv, BootedFirst, DOMAIN starts = Processes,
         starts = [p \in Processes |-> starts[p]], [BootNext]_bootVars
  PROVE  BootedFirst' /\ starts' = [p \in Processes |-> starts'[p]]
<1> USE BootAssumption
<1>1. openers = [q \in Openers |-> openers[q]] /\ OpeningTypeOK
  BY DEF OpeningInv, OpeningTypeOK
<1>2. CASE UNCHANGED <<starts, openers>>
  BY <1>2 DEF BootedFirst, OpenerAt, StartAt
<1>3. ASSUME NEW p \in Processes, NEW s, starts' = [starts EXCEPT ![p] = s],
             \A q \in Processes : q # p => openers'[q] = openers[q],
             openers'[p].pc = "closed"
      PROVE  BootedFirst' /\ starts' = [q \in Processes |-> starts'[q]]
  BY <1>3 DEF BootedFirst, OpenerAt, StartAt
<1>4. ASSUME NEW p \in Processes, BootProcess(p) \/ QuickstartStep(p), UNCHANGED openingVars
      PROVE  BootedFirst' /\ starts' = [q \in Processes |-> starts'[q]]
  <2>1. starts[p].pc # "ready"
    BY <1>4 DEF BootProcess, QuickstartStep, StartAt, LookSecrets, LoadIgnore, ReadSecrets,
                LookDir, GenerateKey, Validate, MakeDir, Ignore, WriteIgnore,
                CreateSecrets, WriteSecrets
  <2>2. openers'[p].pc = "closed" /\ openers' = openers
    BY <1>4, <2>1 DEF BootedFirst, OpenerAt, StartAt, openingVars
  <2>3. \E s : starts' = [starts EXCEPT ![p] = s]
    BY <1>4 DEF BootProcess, QuickstartStep, LookSecrets, LoadIgnore, ReadSecrets,
                LookDir, GenerateKey, Validate, MakeDir, Ignore, WriteIgnore,
                CreateSecrets, WriteSecrets, Goes, Refuse, AfterIgnore
  <2> QED BY <1>3, <2>2, <2>3
<1>5. ASSUME NEW p \in Processes, Exit(p) \/ EndProcess(p)
      PROVE  BootedFirst' /\ starts' = [q \in Processes |-> starts'[q]]
  <2>1. starts' = [starts EXCEPT ![p] = NotStarted] /\ openers' = [openers EXCEPT ![p] = Closed]
    BY <1>5 DEF Exit, EndProcess, LoseOpener
  <2>2. openers'[p].pc = "closed" /\ \A q \in Processes : q # p => openers'[q] = openers[q]
    BY <1>1, <2>1 DEF Closed
  <2> QED BY <1>3, <2>1, <2>2
<1>6. ASSUME NEW p \in Processes, OpenStore(p)
      PROVE  BootedFirst' /\ starts' = [q \in Processes |-> starts'[q]]
  <2>1. /\ starts' = starts /\ StartAt(p, "ready")
        /\ \A q \in Processes : q # p => openers'[q] = openers[q]
    BY <1>1, <1>6 DEF OpenStore, OpenerGoes, quickstartVars
  <2> QED BY <2>1 DEF BootedFirst, OpenerAt, StartAt
<1>7. ASSUME NEW p \in Processes, OpeningStep(p), UNCHANGED quickstartVars
      PROVE  BootedFirst' /\ starts' = [q \in Processes |-> starts'[q]]
  <2>1. starts' = starts
    BY <1>7 DEF quickstartVars
  <2>2. /\ ~OpenerAt(p, "closed")
        /\ \A q \in Processes : q # p => openers'[q] = openers[q]
    BY <1>1, <1>7, OpeningFrame
  <2> QED BY <2>1, <2>2 DEF BootedFirst, OpenerAt, StartAt
<1>8. ASSUME NEW p \in Processes, BootStep(p)
      PROVE  BootedFirst' /\ starts' = [q \in Processes |-> starts'[q]]
  <2>1. CASE BootProcess(p)
    <3>1. UNCHANGED openingVars
      BY <2>1 DEF BootProcess
    <3> QED BY <1>4, <2>1, <3>1
  <2>2. CASE QuickstartStep(p) /\ UNCHANGED openingVars
    BY <1>4, <2>2
  <2>3. CASE OpeningStep(p) /\ UNCHANGED quickstartVars
    BY <1>7, <2>3
  <2> QED BY <1>5, <1>6, <1>8, <2>1, <2>2, <2>3 DEF BootStep
<1>9. CASE LogStep \/ UNCHANGED bootVars
  BY <1>2, <1>9 DEF LogStep, bootVars, quickstartVars, openingVars
<1>10. CASE /\ \E p \in Processes : RotateIdentity(p)
            /\ UNCHANGED quickstartVars
  BY <1>2, <1>10 DEF RotateIdentity, quickstartVars
<1>11. CASE mode = "starter" /\ ScaffoldNext /\ UNCHANGED <<quickstartVars, openingVars>>
  BY <1>2, <1>11 DEF quickstartVars, openingVars
<1> QED BY <1>5, <1>8, <1>9, <1>10, <1>11 DEF BootNext

SecretsInv ==
  /\ KeysInv /\ OpeningInv /\ BootedFirst
  /\ DOMAIN starts = Processes /\ starts = [p \in Processes |-> starts[p]]

\* A deployment before its first boot satisfies the invariant.
LEMMA SecretsStart == BootInit => SecretsInv
<1> SUFFICES ASSUME BootInit PROVE SecretsInv
  OBVIOUS
<1>1. (CHOOSE k \in Keys : TRUE) \in Keys
  BY QuickstartAssumption
<1>2. files \in Directory
  <2>1. PICK secrets : secrets = [key |-> CHOOSE k \in Keys : TRUE, whole |-> TRUE]
    OBVIOUS
  <2>2. secrets \in [key : Keys, whole : BOOLEAN]
    BY <1>1, <2>1
  <2>3. files \in {NoFiles, [dir |-> TRUE, ignore |-> "managed", secrets |-> secrets]}
    BY <2>1 DEF BootInit, QuickstartInit, Installed
  <2>4. NoFiles \in Directory
    BY DEF NoFiles, Directory
  <2>5. [dir |-> TRUE, ignore |-> "managed", secrets |-> secrets] \in Directory
    BY <2>2 DEF Directory
  <2> QED BY <2>3, <2>4, <2>5
<1>3. /\ starts = [p \in Processes |-> NotStarted]
      /\ NotStarted \in Preparation /\ NotStarted.pc = "off" /\ ~NotStarted.loaded
  BY DEF BootInit, QuickstartInit, NotStarted, Preparation
<1>4. KeysInv
  BY <1>2, <1>3 DEF KeysInv, OneWriter, StartAt, KeyStands
<1>5. openers = [p \in Openers |-> Closed] /\ Closed.pc = "closed"
  BY DEF BootInit, OpeningInit, Closed
<1>6. BootedFirst
  BY <1>5, BootAssumption DEF BootedFirst, OpenerAt
<1> QED BY <1>3, <1>4, <1>6, OpeningStart DEF BootInit, SecretsInv

\* Every step of a deployment keeps the invariant.
LEMMA SecretsKeep == SecretsInv /\ [BootNext]_bootVars => SecretsInv'
<1> SUFFICES ASSUME SecretsInv, [BootNext]_bootVars PROVE SecretsInv'
  OBVIOUS
<1>1. KeysInv' /\ OpeningInv'
  BY KeysKeep, BootOpens, OpeningKeeps DEF SecretsInv
<1>2. BootedFirst' /\ starts' = [p \in Processes |-> starts'[p]]
  BY BootedKeeps DEF SecretsInv
<1> QED BY <1>1, <1>2 DEF SecretsInv

\* Whoever serves from a state directory signs with the key that secrets.json
\* holds, whole: racing first boots, and boots that broke off, leave no process
\* with a key of its own (quickstart.ts prepareQuickstart and its persist).
THEOREM SecretsAgreeCorrect == BootSpec => []SecretsAgree
<1>1. ASSUME SecretsInv PROVE SecretsAgree
  <2> SUFFICES ASSUME mode = "starter", NEW p \in Processes, Serving(p)
               PROVE  files.secrets = [key |-> starts[p].key, whole |-> TRUE]
    BY DEF SecretsAgree
  <2>1. files \in Directory /\ KeyStands(p)
    BY <1>1 DEF SecretsInv, KeysInv
  <2>2. StartAt(p, "ready")
    BY <1>1, BootAssumption DEF SecretsInv, BootedFirst, Serving, OpenerAt
  <2>3. Persisted(p, TRUE)
    BY <2>1, <2>2 DEF KeyStands, StartAt
  <2>4. PICK secrets \in [key : Keys, whole : BOOLEAN] : secrets = files.secrets
    BY <2>1, <2>3 DEF Directory, Persisted
  <2>5. secrets.key = starts[p].key /\ secrets.whole
    BY <2>3, <2>4 DEF Persisted
  <2>6. secrets = [key |-> starts[p].key, whole |-> TRUE]
    BY <2>5
  <2> QED BY <2>4, <2>6
<1> QED BY <1>1, SecretsStart, SecretsKeep, PTL DEF BootSpec
=============================================================================
