----------------------------- MODULE Quickstart -----------------------------
(***************************************************************************)
(* The state directory (src/quickstart.ts, quickstart-fs.ts, state-dir.ts):*)
(* a process prepares its signing keys, from secrets.json or in memory,    *)
(* validates its configuration, and only then creates the directory, the   *)
(* managed .gitignore and secrets.json.  Every filesystem call is a step;  *)
(* processes of one directory boot side by side and may end anywhere.      *)
(*                                                                         *)
(* Ownership, modes and symlinks are admitted: each refuses a boot for     *)
(* what somebody else did to the directory.                                *)
(***************************************************************************)
CONSTANTS
  Processes,
  Keys,         \* signing keys with their consent secret
  EnvKey,       \* the key of a deployment that takes it from its environment
  None

ASSUME QuickstartAssumption ==
  /\ Keys # {} /\ EnvKey \notin Keys
  /\ None \notin Keys \cup {EnvKey} \cup [key : Keys, whole : BOOLEAN]

VARIABLES
  files,    \* the directory, its .gitignore and secrets.json
  starts    \* process -> its preparation, "off" to "ready" or "refused"

quickstartVars == <<files, starts>>

\* secrets: None, or whose key secrets.json is to hold and whether it does.
\* created: mkdir made the directory.  loaded: persist() writes nothing.
NotStarted == [pc |-> "off", key |-> None, created |-> FALSE, loaded |-> FALSE]

StartAt(p, pc) == starts[p].pc = pc
Goes(p, pc) == starts' = [starts EXCEPT ![p].pc = pc]

\* AuthConfigError: the process ends.
Refuse(p) == Goes(p, "refused")

-----------------------------------------------------------------------------
(* prepare: nothing is written *)

\* The managed ignore is there, or the directory is not ours.
Managed == files.ignore = "managed"

LookSecrets(p) ==
  /\ StartAt(p, "look")
  /\ Goes(p, IF files.secrets # None THEN "load" ELSE "lookDir")
  /\ UNCHANGED files

LoadIgnore(p) ==
  /\ StartAt(p, "load")
  /\ IF Managed THEN Goes(p, "read") ELSE Refuse(p)
  /\ UNCHANGED files

\* Half a secrets.json is refused: no fallback to another key.
ReadSecrets(p) ==
  /\ StartAt(p, "read")
  /\ IF files.secrets # None /\ files.secrets.whole
     THEN starts' = [starts EXCEPT ![p].pc = "validate", ![p].loaded = TRUE,
                                   ![p].key = files.secrets.key]
     ELSE Refuse(p)
  /\ UNCHANGED files

LookDir(p) ==
  /\ StartAt(p, "lookDir")
  /\ IF files.dir /\ ~Managed THEN Refuse(p) ELSE Goes(p, "generate")
  /\ UNCHANGED files

InUse == {starts[p].key : p \in Processes} \cup
         (IF files.secrets = None THEN {} ELSE {files.secrets.key})

GenerateKey(p) ==
  /\ StartAt(p, "generate")
  /\ \E k \in Keys \ InUse : starts' = [starts EXCEPT ![p].pc = "validate", ![p].key = k]
  /\ UNCHANGED files

\* createBridgeConfig, on the very material that is written next.
Validate(p) ==
  /\ StartAt(p, "validate")
  /\ Goes(p, IF starts[p].loaded THEN "ready" ELSE "mkdir")
  /\ UNCHANGED files

-----------------------------------------------------------------------------
(* persist, and ensureStateDir up to the ignore *)

MakeDir(p) ==
  /\ StartAt(p, "mkdir")
  /\ files' = [files EXCEPT !.dir = TRUE]
  /\ starts' = [starts EXCEPT ![p].pc = "ignore", ![p].created = ~files.dir]

AfterIgnore(p) == Goes(p, IF starts[p].key = EnvKey THEN "ready" ELSE "secrets")

\* Only a directory that was just made gets an ignore.
Ignore(p) ==
  /\ StartAt(p, "ignore")
  /\ IF files.ignore = "absent" /\ starts[p].created
     THEN files' = [files EXCEPT !.ignore = "empty"] /\ Goes(p, "writeIgnore")
     ELSE (IF Managed THEN AfterIgnore(p) ELSE Refuse(p)) /\ UNCHANGED files

WriteIgnore(p) ==
  /\ StartAt(p, "writeIgnore")
  /\ files' = [files EXCEPT !.ignore = "managed"]
  /\ AfterIgnore(p)

\* A slip: secrets.json is written over.
MutMayCreate == TRUE

\* O_EXCL: "appeared concurrently; restart to load it".
MayCreate == files.secrets = None

CreateSecrets(p) ==
  /\ StartAt(p, "secrets")
  /\ IF MayCreate
     THEN files' = [files EXCEPT !.secrets = [key |-> starts[p].key, whole |-> FALSE]]
          /\ Goes(p, "writeSecrets")
     ELSE Refuse(p) /\ UNCHANGED files

WriteSecrets(p) ==
  /\ StartAt(p, "writeSecrets")
  /\ files' = [files EXCEPT !.secrets.whole = TRUE]
  /\ Goes(p, "ready")

-----------------------------------------------------------------------------
NoFiles == [dir |-> FALSE, ignore |-> "absent", secrets |-> None]
Installed == [dir |-> TRUE, ignore |-> "managed",
              secrets |-> [key |-> CHOOSE k \in Keys : TRUE, whole |-> TRUE]]

QuickstartInit ==
  /\ files \in {NoFiles, Installed}
  /\ starts = [p \in Processes |-> NotStarted]

QuickstartStep(p) ==
  \/ LookSecrets(p) \/ LoadIgnore(p) \/ ReadSecrets(p) \/ LookDir(p) \/ GenerateKey(p)
  \/ Validate(p) \/ MakeDir(p) \/ Ignore(p) \/ WriteIgnore(p)
  \/ CreateSecrets(p) \/ WriteSecrets(p)
=============================================================================
