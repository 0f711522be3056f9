----------------------------- MODULE JsonlAudit -----------------------------
(***************************************************************************)
(* JsonlFileAudit (src/audit/jsonl-file.ts): one instance appends a line   *)
(* per event, one event at a time, to the file the path names when the     *)
(* event's turn comes.  The OS may write a part of a line, an operation    *)
(* may fail, the log may be rotated (rename and recreate), another process *)
(* may append to the same file, and a crash may leave half a line.         *)
(*                                                                         *)
(* A line is two parts: what a short write appended, and the rest with the *)
(* newline.  Of a file the module keeps how it ends.                       *)
(***************************************************************************)
EXTENDS Sequences

CONSTANT Events   \* audit events that may wait at once

VARIABLES
  queue,      \* events that wait on appendTail, the first being written
  writer,     \* appendEvent of the first
  fileEnd,    \* how the file at the path ends
  disabled,   \* appendDisabled
  spliced     \* history: a record was begun on a fragment of this instance

auditVars == <<queue, writer, fileEnd, disabled, spliced>>

\* "line": empty, or after a newline.  "fragment": after half a line of this
\* instance.  "stale": after half a line of a process that crashed.
Ends == {"line", "fragment", "stale"}

\* sent: a part of the line is written.  before: how the file ended at fstat.
\* grown: others have appended since the size was last known.  moved: the path
\* names another file by now.
WriterState == [pc : {"idle", "stat", "write", "rollback", "truncate", "verify", "close"},
                sent : BOOLEAN, before : Ends, grown : BOOLEAN, moved : BOOLEAN]

IdleWriter == [pc |-> "idle", sent |-> FALSE, before |-> "line", grown |-> FALSE, moved |-> FALSE]

WriterAt(pc) == writer.pc = pc

GoTo(pc) == writer' = [writer EXCEPT !.pc = pc]

\* How the file ends after the writer's own write: an older file is nobody's
\* concern any more.
EndsWith(end) == fileEnd' = IF writer.moved THEN fileEnd ELSE end

Enqueue(e) ==
  /\ \A i \in DOMAIN queue : queue[i] # e
  /\ queue' = Append(queue, e)
  /\ UNCHANGED <<writer, fileEnd, disabled, spliced>>

\* A slip: a disabled sink leaves its events in the queue.
MutDrop ==
  /\ queue # <<>> /\ WriterAt("idle") /\ ~disabled
  /\ queue' = Tail(queue)
  /\ UNCHANGED <<writer, fileEnd, disabled, spliced>>

\* Dropped when disabled, or when open() refuses the path.
Drop ==
  /\ queue # <<>> /\ WriterAt("idle")
  /\ queue' = Tail(queue)
  /\ UNCHANGED <<writer, fileEnd, disabled, spliced>>

Open ==
  /\ queue # <<>> /\ WriterAt("idle") /\ ~disabled
  /\ writer' = [IdleWriter EXCEPT !.pc = "stat"]
  /\ UNCHANGED <<queue, fileEnd, disabled, spliced>>

\* fstat; not a regular file, or an error, ends the attempt.
Stat ==
  /\ WriterAt("stat")
  /\ \/ writer' = [writer EXCEPT !.pc = "write", !.before = fileEnd, !.grown = FALSE]
     \/ GoTo("close")
  /\ UNCHANGED <<queue, fileEnd, disabled, spliced>>

\* The first bytes of a record land behind whatever the file ends with.
Begins ==
  spliced' = (spliced \/ (~writer.sent /\ ~writer.moved /\ fileEnd = "fragment"))

\* The whole line, or the rest of it.
WriteRest ==
  /\ WriterAt("write")
  /\ Begins /\ EndsWith("line") /\ GoTo("close")
  /\ UNCHANGED <<queue, disabled>>

WriteShort ==
  /\ WriterAt("write") /\ ~writer.sent
  /\ Begins /\ EndsWith("fragment")
  /\ writer' = [writer EXCEPT !.sent = TRUE]
  /\ UNCHANGED <<queue, disabled>>

\* An error or a zero count: nothing was appended, or a prefix was.
WriteFails ==
  /\ WriterAt("write")
  /\ GoTo(IF writer.sent THEN "rollback" ELSE "close")
  /\ UNCHANGED <<queue, fileEnd, disabled, spliced>>

\* A slip: a rollback that could not be verified is only reported.
MutDisables == FALSE

Disables == TRUE

RollbackFails ==
  /\ writer.pc \in {"rollback", "truncate", "verify"}
  /\ disabled' = Disables
  /\ GoTo("close")
  /\ UNCHANGED <<queue, fileEnd, spliced>>

\* The size must be what fstat said and what was written since.
RollbackStat ==
  /\ WriterAt("rollback") /\ ~writer.grown
  /\ GoTo("truncate")
  /\ UNCHANGED <<queue, fileEnd, disabled, spliced>>

\* Lines that others appended since the check go too.
Truncate ==
  /\ WriterAt("truncate")
  /\ EndsWith(writer.before)
  /\ writer' = [writer EXCEPT !.pc = "verify", !.grown = FALSE]
  /\ UNCHANGED <<queue, disabled, spliced>>

RollbackVerified ==
  /\ WriterAt("verify") /\ ~writer.grown
  /\ GoTo("close")
  /\ UNCHANGED <<queue, fileEnd, disabled, spliced>>

\* close() settles, and writeAuthEvent with it, failed or not.
Appended ==
  /\ WriterAt("close")
  /\ queue' = Tail(queue)
  /\ writer' = IdleWriter
  /\ UNCHANGED <<fileEnd, disabled, spliced>>

WriterStep ==
  \/ Drop \/ Open \/ Stat \/ WriteRest \/ WriteShort \/ WriteFails
  \/ RollbackFails \/ RollbackStat \/ Truncate \/ RollbackVerified
  \/ Appended

\* Another process appends a line.
ForeignLine ==
  /\ fileEnd' = "line"
  /\ writer' = IF writer.moved THEN writer ELSE [writer EXCEPT !.grown = ~WriterAt("idle")]
  /\ UNCHANGED <<queue, disabled, spliced>>

RotateLog ==
  /\ fileEnd' = "line"
  /\ writer' = [writer EXCEPT !.moved = ~WriterAt("idle")]
  /\ UNCHANGED <<queue, disabled, spliced>>

AuditCrash ==
  /\ queue' = <<>>
  /\ writer' = IdleWriter
  /\ fileEnd' = IF fileEnd = "fragment" THEN "stale" ELSE fileEnd
  /\ disabled' = FALSE
  /\ UNCHANGED spliced

AuditInit ==
  /\ queue = <<>>
  /\ writer = IdleWriter
  /\ fileEnd \in {"line", "stale"}
  /\ disabled = FALSE
  /\ spliced = FALSE

AuditNext ==
  \/ \E e \in Events : Enqueue(e)
  \/ WriterStep \/ ForeignLine \/ RotateLog \/ AuditCrash

\* File operations settle; O_NONBLOCK keeps open() from waiting for a reader.
AuditSpec == AuditInit /\ [][AuditNext]_auditVars /\ WF_auditVars(WriterStep)

-----------------------------------------------------------------------------
\* An instance never begins a record on a fragment it left itself, whatever
\* fails, whoever else appends to the file, and wherever a rotation falls.
RecordsWhole == ~spliced

\* No caller waits for its evidence forever: every event is written, dropped or
\* lost with its error contained, also behind one that disabled the sink.
EveryEventSettles ==
  \A e \in Events : (\E i \in DOMAIN queue : queue[i] = e) ~> (\A i \in DOMAIN queue : queue[i] # e)
=============================================================================
