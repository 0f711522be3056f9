-------------------------------- MODULE Boot --------------------------------
(***************************************************************************)
(* A deployment from its first boot on: processes prepare their keys       *)
(* (Quickstart), open the store (StoreOpening) and serve.  The zero-setup  *)
(* starter keeps keys and a SQLite file in the state directory `mcp-sso    *)
(* init` scaffolded (Scaffold); a deployment behind an identity provider   *)
(* takes its keys from the environment, with SQLite or with MySQL.         *)
(*                                                                         *)
(* A supervisor restarts every process that ends.  Every serving process   *)
(* appends to one audit log; the sink of one of them is followed           *)
(* (JsonlAudit), the lines of the others are foreign to it.                *)
(***************************************************************************)
EXTENDS Quickstart, StoreOpening, Scaffold, JsonlAudit

CONSTANTS
  Logger,      \* the process whose audit sink is followed
  Followed,    \* bound: the modes it is followed in
  MaxFaults    \* bound: processes that end other than by a refusal

ASSUME BootAssumption == Logger \in Processes /\ Processes = Openers /\ MaxFaults \in Nat

VARIABLES
  mode,     \* "starter", "deployed", "mysql"
  faults

bootVars == <<quickstartVars, openingVars, scaffoldVars, auditVars, mode, faults>>

MayBoot == mode = "starter" => Scaffolded /\ Settled

\* MySQL deployments keep no state directory.
BootProcess(p) ==
  /\ MayBoot /\ StartAt(p, "off")
  /\ starts' = [starts EXCEPT ![p] =
       CASE mode = "starter"  -> [NotStarted EXCEPT !.pc = "look"]
         [] mode = "deployed" -> [NotStarted EXCEPT !.pc = "mkdir", !.key = EnvKey]
         [] OTHER             -> [NotStarted EXCEPT !.pc = "ready", !.key = EnvKey]]
  /\ UNCHANGED <<files, openingVars>>

OpenStore(p) ==
  /\ StartAt(p, "ready") /\ OpenerAt(p, "closed")
  /\ OpenerGoes(p, IF mode = "mysql" THEN "plan" ELSE "admit")
  /\ UNCHANGED <<quickstartVars, db>>

\* A refused boot ends the process.
Exit(p) ==
  /\ StartAt(p, "refused") \/ OpenerAt(p, "refused")
  /\ starts' = [starts EXCEPT ![p] = NotStarted]
  /\ LoseOpener(p)
  /\ UNCHANGED files

BootStep(p) ==
  /\ \/ BootProcess(p)
     \/ QuickstartStep(p) /\ UNCHANGED openingVars
     \/ OpenStore(p)
     \/ OpeningStep(p) /\ UNCHANGED quickstartVars
     \/ Exit(p)
  /\ UNCHANGED <<scaffoldVars, auditVars, mode, faults>>

\* Killed, stopped, or failed on I/O, on a connection, on a busy timeout, or on
\* a configuration that does not validate.
EndProcess(p) ==
  /\ faults < MaxFaults
  /\ ~StartAt(p, "off")
  /\ starts' = [starts EXCEPT ![p] = NotStarted]
  /\ LoseOpener(p)
  /\ faults' = faults + 1
  /\ IF p = Logger THEN AuditCrash ELSE UNCHANGED auditVars
  /\ UNCHANGED <<files, scaffoldVars, mode>>

BootInit ==
  /\ QuickstartInit /\ OpeningInit /\ ScaffoldInit /\ AuditInit
  /\ mode \in {"starter", "deployed", "mysql"}
  /\ mode # "starter" => files = NoFiles
  /\ mode \notin Followed => fileEnd = "line"
  /\ faults = 0

Serving(p) == OpenerAt(p, "open")

\* The sink of the followed process, among rotations and the lines of others.
LogStep ==
  /\ mode \in Followed
  /\ \/ Serving(Logger) /\ ((\E e \in Events : Enqueue(e)) \/ WriterStep)
     \/ (\E p \in Processes \ {Logger} : Serving(p)) /\ ForeignLine
     \/ Serving(Logger) /\ RotateLog
  /\ UNCHANGED <<quickstartVars, openingVars, scaffoldVars, mode, faults>>

BootNext ==
  \/ \E p \in Processes : BootStep(p) \/ EndProcess(p)
  \/ /\ \E p \in Processes : RotateIdentity(p)
     /\ UNCHANGED <<quickstartVars, scaffoldVars, auditVars, mode, faults>>
  \/ /\ mode = "starter" /\ ScaffoldNext
     /\ UNCHANGED <<quickstartVars, openingVars, auditVars, mode, faults>>
  \/ LogStep

\* Every process is scheduled and restarted, and file operations settle.
BootSpec ==
  /\ BootInit /\ [][BootNext]_bootVars
  /\ \A p \in Processes : WF_bootVars(BootStep(p))
  /\ WF_bootVars(LogStep /\ WriterStep)

-----------------------------------------------------------------------------
\* Whoever serves signs with the key secrets.json holds: processes that booted
\* together, or before and after a crash, accept each other's tokens.
SecretsAgree ==
  mode = "starter" =>
    \A p \in Processes :
      Serving(p) => files.secrets = [key |-> starts[p].key, whole |-> TRUE]

\* Without a fault, racing first boots refuse each other only for a while:
\* every process ends up serving.
BootsServe ==
  [](faults = 0) => \A p \in Processes : MayBoot ~> Serving(p)
=============================================================================
