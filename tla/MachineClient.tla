--------------------------- MODULE MachineClient ---------------------------
(***************************************************************************)
(* The lifecycle of one machine client (src/machine-client*.ts): provision,*)
(* rotate and disable are read-modify-write over a store the deployer      *)
(* supplies, whose compare-and-swap commits row and durable audit together *)
(* or neither (src/ports/client-store.ts).  Operators race, their clocks   *)
(* disagree, and a store call may throw before or after its effect.        *)
(*                                                                         *)
(* A secret is random, hence new: it is named by the number of the commit  *)
(* that installs it.  Those of the losers of a race are nobody's.          *)
(***************************************************************************)
EXTENDS Naturals, Sequences, FiniteSets

CONSTANTS
  Operators,   \* slots of lifecycle calls, reused
  LegacySecrets,
  Resources,   \* bridge resources the operators are configured for
  Times,       \* clock readings, in seconds
  Graces,      \* values of graceSeconds
  Ttls,        \* values of secretTtlSeconds
  LegacyRows,  \* v0.3.0 rows the store may start with, as parsed (version 0)
  MaxCommits,  \* bound: committed mutations
  None

ASSUME TimesAssumption ==
  /\ Times \subseteq Nat /\ Graces \subseteq Nat \ {0} /\ Ttls \subseteq Nat \ {0}
  /\ MaxCommits \in Nat /\ None \notin Nat /\ LegacySecrets \cap Nat = {}

VARIABLES
  row,        \* the stored row, or None
  trail,      \* durable audit: the committed events, in order
  operators,  \* slot -> the call in it
  returned,   \* history: version -> the secret handed to an operator
  retired     \* history: secrets that were in a row and then were not

vars == <<row, trail, operators, returned, retired>>
history == <<returned, retired>>

Secrets == LegacySecrets \cup 1..MaxCommits

Expiry == Nat \cup {None}

Slot == [secret : Secrets, createdAt : Nat, expiresAt : Expiry]

\* A row, as parseMachineClientRegistration returns it.
Row == [version : Nat, status : {"active", "disabled"}, resource : Resources,
        secrets : Seq(Slot)]

\* A v0.3.0 row carries no version and cannot be disabled.
ASSUME LegacyAssumption ==
  /\ \A r \in LegacyRows :
       /\ r \in Row /\ r.version = 0 /\ r.status = "active"
       /\ \A i \in DOMAIN r.secrets : r.secrets[i].secret \in LegacySecrets
  /\ None \notin Row

Live(entry, now) == entry.expiresAt = None \/ entry.expiresAt > now

LiveSlots(secrets, now) == {i \in DOMAIN secrets : Live(secrets[i], now)}

Held(r) == IF r = None THEN {} ELSE {r.secrets[i].secret : i \in DOMAIN r.secrets}

Put(f, k, v) == [x \in DOMAIN f \cup {k} |-> IF x = k THEN v ELSE f[x]]

Idle == [pc |-> "idle", op |-> None, resource |-> None, now |-> 0, grace |-> 0,
         current |-> None]

Finish(o) == operators' = [operators EXCEPT ![o] = Idle]

-----------------------------------------------------------------------------
(* The pure parts *)

Unbounded(secrets) == {i \in DOMAIN secrets : secrets[i].expiresAt = None}

\* One secret without expiry and two live ones at most, by the reader's clock;
\* expired history is allowed to an unversioned row only.
Parses(r, now) ==
  /\ Cardinality(Unbounded(r.secrets)) <= 1
  /\ Cardinality(LiveSlots(r.secrets, now)) <= 2
  /\ r.status = "active" => r.secrets # <<>>
  /\ r.version > 0 => Len(r.secrets) <= 2

\* Slot i is kept rather than j: it has no expiry, or it expires later, or it
\* is the younger of two, or the first listed of equals.
KeptBefore(secrets, i, j) ==
  LET a == secrets[i]
      b == secrets[j]
  IN \/ i = j
     \/ a.expiresAt = None
     \/ /\ b.expiresAt # None
        /\ \/ a.expiresAt > b.expiresAt
           \/ /\ a.expiresAt = b.expiresAt
              /\ \/ a.createdAt > b.createdAt
                 \/ a.createdAt = b.createdAt /\ i < j

\* A slip: the first live secret is kept for the grace, the older one.
MutDemoted(secrets, now) ==
  CHOOSE i \in LiveSlots(secrets, now) : \A j \in LiveSlots(secrets, now) : i <= j

\* The slot of the secret that stays for the grace.
Demoted(secrets, now) ==
  CHOOSE i \in LiveSlots(secrets, now) :
    \A j \in LiveSlots(secrets, now) : KeptBefore(secrets, i, j)

Fresh(secret, now) == [secret |-> secret, createdAt |-> now, expiresAt |-> None]

RotateSecrets(secrets, now, grace, secret) ==
  IF LiveSlots(secrets, now) = {} THEN <<Fresh(secret, now)>>
  ELSE <<[secrets[Demoted(secrets, now)] EXCEPT !.expiresAt = now + grace],
         Fresh(secret, now)>>

Accepts(r, secret, resource, now) ==
  /\ r # None
  /\ Parses(r, now)
  /\ r.status = "active" /\ r.resource = resource
  /\ \E i \in LiveSlots(r.secrets, now) : r.secrets[i].secret = secret

-----------------------------------------------------------------------------
(* The store: row and audit in one transaction *)

Install(next, event) ==
  /\ Len(trail) < MaxCommits
  /\ row' = next
  /\ trail' = Append(trail, event)
  /\ retired' = retired \cup (Held(row) \ Held(next))

\* A slip of the caller: the version it expects is not the one it read.
MutExpected(o) == row.version

Expected(o) == operators[o].current.version

-----------------------------------------------------------------------------
(* Lifecycle calls *)

NewSecret == Len(trail) + 1

\* The next version of a row that was read.
Successor(r, status, secrets) ==
  [version |-> r.version + 1, status |-> status, resource |-> r.resource,
   secrets |-> secrets]

\* The id is random, so the row is not there; the answer may be lost.
Provision(resource, now, ttl, answered) ==
  /\ row = None
  /\ Install([version |-> 1, status |-> "active", resource |-> resource,
              secrets |-> <<[Fresh(NewSecret, now) EXCEPT !.expiresAt =
                               IF ttl = None THEN None ELSE now + ttl]>>],
             "provision")
  /\ returned' = IF answered THEN Put(returned, 1, NewSecret) ELSE returned
  /\ UNCHANGED operators

\* One clock reading serves the call.
Begin(o, op, resource, now, grace) ==
  /\ operators[o] = Idle
  /\ operators' = [operators EXCEPT ![o] =
       [Idle EXCEPT !.pc = "find", !.op = op, !.resource = resource, !.now = now,
                    !.grace = grace]]
  /\ UNCHANGED <<row, trail, history>>

Mutable(r, resource, now) ==
  /\ r # None
  /\ Parses(r, now)
  /\ r.status = "active"
  /\ r.resource = resource

\* Unknown, malformed, disabled or foreign rows are invalid_client.
Find(o) ==
  LET call == operators[o] IN
  /\ call.pc = "find"
  /\ IF Mutable(row, call.resource, call.now)
     THEN operators' = [operators EXCEPT ![o].pc = "swap", ![o].current = row]
     ELSE Finish(o)
  /\ UNCHANGED <<row, trail, history>>

\* A conflict is answered without the minted secret.
Conflict(o) ==
  /\ operators[o].pc = "swap"
  /\ Expected(o) # row.version
  /\ Finish(o)
  /\ UNCHANGED <<row, trail, history>>

Rotate(o, answered) ==
  LET call == operators[o] IN
  /\ call.pc = "swap" /\ call.op = "rotate"
  /\ Expected(o) = row.version
  /\ Install(Successor(call.current, "active",
                       RotateSecrets(call.current.secrets, call.now, call.grace, NewSecret)),
             "rotate")
  /\ returned' = IF answered THEN Put(returned, call.current.version + 1, NewSecret)
                             ELSE returned
  /\ Finish(o)

\* A slip: the tombstone keeps its secrets.
MutDisable(o) ==
  LET call == operators[o] IN
  /\ call.pc = "swap" /\ call.op = "disable"
  /\ Expected(o) = row.version
  /\ Install(Successor(call.current, "active", call.current.secrets), "disable")
  /\ Finish(o)
  /\ UNCHANGED returned

\* A tombstone without secrets; what the caller is told is not secret.
Disable(o) ==
  LET call == operators[o] IN
  /\ call.pc = "swap" /\ call.op = "disable"
  /\ Expected(o) = row.version
  /\ Install(Successor(call.current, "disabled", <<>>), "disable")
  /\ Finish(o)
  /\ UNCHANGED returned

\* The store throws before any effect, or the process dies.
CallThrows(o) ==
  /\ operators[o] # Idle
  /\ Finish(o)
  /\ UNCHANGED <<row, trail, history>>

-----------------------------------------------------------------------------
Init ==
  /\ row \in LegacyRows \cup {None}
  /\ trail = <<>>
  /\ operators = [o \in Operators |-> Idle]
  /\ returned = [v \in {} |-> None]
  /\ retired = {}

Next ==
  \/ \E resource \in Resources, now \in Times, ttl \in Ttls \cup {None}, answered \in BOOLEAN :
       Provision(resource, now, ttl, answered)
  \/ \E o \in Operators :
       \/ \E resource \in Resources, now \in Times, grace \in Graces :
            Begin(o, "rotate", resource, now, grace)
       \/ \E resource \in Resources, now \in Times : Begin(o, "disable", resource, now, 0)
       \/ Find(o)
       \/ Conflict(o)
       \/ \E answered \in BOOLEAN : Rotate(o, answered)
       \/ Disable(o)
       \/ CallThrows(o)

Spec == Init /\ [][Next]_vars

-----------------------------------------------------------------------------
Call == [pc : {"idle", "find", "swap"}, op : {"rotate", "disable", None},
         resource : Resources \cup {None}, now : Times, grace : Nat,
         current : Row \cup {None}]

\* Types, and the shape of a versioned row: one or two secrets while active,
\* none once disabled.
TypeOK ==
  /\ row # None => row \in Row
  /\ row # None /\ row.version > 0 =>
       IF row.status = "active" THEN Len(row.secrets) \in 1..2 ELSE row.secrets = <<>>
  /\ trail \in Seq({"provision", "rotate", "disable"})
  /\ operators \in [Operators -> Call \cup {Idle}]

\* Docs (contracts 17.2): every committed mutation has its durable audit, and
\* of the calls that read one version, one commits: versions count the events.
EveryMutationAudited ==
  /\ row # None => row.version = Len(trail)
  /\ \A i \in DOMAIN trail : trail[i] = "disable" => i = Len(trail) /\ row.status = "disabled"

\* The secret handed to the operator of the latest rotation is accepted by any
\* clock, and the one handed out before it until the grace of that rotation
\* ends -- whatever other operators read, retried or lost meanwhile.
HandedOutWorks ==
  \A v \in DOMAIN returned :
    row.status = "active" =>
      /\ v = row.version /\ v > 1 =>
           \A now \in Times : Accepts(row, returned[v], row.resource, now)
      /\ v = row.version - 1 /\ v > 1 =>
           LET grace == row.secrets[1].expiresAt IN
           \A now \in Times : now < grace => Accepts(row, returned[v], row.resource, now)

\* A secret that left the row -- rotated out, expired, or disabled -- never
\* comes back, however stale the row an operator writes from.
RetiredForever == retired \cap Held(row) = {}

\* A tombstone is final: no rotation that read the row before brings the client
\* back to life.
DisabledIsFinal ==
  [][row # None /\ row.status = "disabled" => row' = row]_vars
=============================================================================
