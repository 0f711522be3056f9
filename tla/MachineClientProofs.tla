------------------------ MODULE MachineClientProofs ------------------------
(***************************************************************************)
(* Proofs about MachineClient, for any number of operators, secrets,       *)
(* commits, and any clocks: every mutation is audited once, a disabled     *)
(* client stays disabled, and a retired secret never returns.              *)
(*                                                                         *)
(* All three rest on one fact: a call that may still swap holds an active  *)
(* row as it was at an earlier version, and if the stored version is the   *)
(* one it read, that row is the stored one.                                *)
(*                                                                         *)
(* The last section is about the secrets operators were handed: a row      *)
(* written by a rotation ends with its own secret, without expiry, behind  *)
(* the one it demoted, so that what was handed out last is in the row.     *)
(***************************************************************************)
EXTENDS MachineClient, FiniteSetTheorems, TLAPS

\* The row a call read is an active row of the past.
SnapshotsPast ==
  \A o \in Operators : operators[o].pc = "swap" =>
    LET current == operators[o].current IN
    /\ row \in Row /\ current \in Row
    /\ current.status = "active"
    /\ Parses(current, operators[o].now)
    /\ current.version <= row.version
    /\ current.version = row.version => current = row

\* No row, no history.
NothingBefore == row = None => trail = <<>>

\* Secrets are numbered by the commits so far.
KnownSecrets == LegacySecrets \cup 1..Len(trail)

SecretsKnown == Held(row) \subseteq KnownSecrets /\ retired \subseteq KnownSecrets

LifecycleInv ==
  TypeOK /\ SnapshotsPast /\ NothingBefore /\ EveryMutationAudited

SecretInv == LifecycleInv /\ SecretsKnown /\ RetiredForever

-----------------------------------------------------------------------------
(* Rows that the steps install *)

\* The slots of a row, as slots.
LEMMA SlotOfRow ==
  ASSUME NEW r \in Row, NEW i \in DOMAIN r.secrets
  PROVE  r.secrets[i] \in Slot /\ i \in Nat
<1>1. r.secrets \in Seq(Slot)
  BY DEF Row
<1> QED BY <1>1

\* Of two slots one is kept before the other.
LEMMA KeptBeforeTotal ==
  ASSUME NEW r \in Row, NEW i \in DOMAIN r.secrets, NEW j \in DOMAIN r.secrets
  PROVE  /\ KeptBefore(r.secrets, i, i)
         /\ KeptBefore(r.secrets, i, j) \/ KeptBefore(r.secrets, j, i)
<1>1. /\ r.secrets[i].expiresAt \in Nat \cup {None}
      /\ r.secrets[j].expiresAt \in Nat \cup {None}
      /\ r.secrets[i].createdAt \in Nat /\ r.secrets[j].createdAt \in Nat
      /\ i \in Nat /\ j \in Nat
  BY SlotOfRow DEF Slot, Expiry
<1> QED BY <1>1, TimesAssumption DEF KeptBefore

\* Of at most two live slots one is kept before all others.
LEMMA OneIsKept ==
  ASSUME NEW r \in Row, NEW now \in Times, Parses(r, now),
         LiveSlots(r.secrets, now) # {}
  PROVE  Demoted(r.secrets, now) \in DOMAIN r.secrets
<1> DEFINE S == LiveSlots(r.secrets, now)
<1>1. S \subseteq DOMAIN r.secrets
  BY DEF LiveSlots
<1>2. IsFiniteSet(S)
  <2>1. Len(r.secrets) \in Int /\ DOMAIN r.secrets = 1..Len(r.secrets)
    BY DEF Row
  <2>2. IsFiniteSet(1..Len(r.secrets))
    <3>1. 1 \in Int
      OBVIOUS
    <3> QED BY <2>1, <3>1, FS_Interval, Zenon
  <2> QED BY <1>1, <2>1, <2>2, FS_Subset
<1>3. Cardinality(S) <= 2
  BY DEF Parses
<1>4. PICK x \in S : TRUE
  OBVIOUS
<1>5. PICK y \in S : S = {x, y}
  <2>1. IsFiniteSet(S \ {x}) /\ Cardinality(S \ {x}) = Cardinality(S) - 1
    BY <1>2, <1>4, FS_RemoveElement
  <2>2. CASE S \ {x} = {}
    BY <1>4, <2>2
  <2>3. CASE S \ {x} # {}
    <3>1. PICK y \in S \ {x} : TRUE
      BY <2>3
    <3>2. /\ IsFiniteSet((S \ {x}) \ {y})
          /\ Cardinality((S \ {x}) \ {y}) = Cardinality(S \ {x}) - 1
      BY <2>1, <3>1, FS_RemoveElement
    <3>3. Cardinality(S) \in Nat /\ Cardinality((S \ {x}) \ {y}) \in Nat
      BY <1>2, <3>2, FS_CardinalityType
    <3>4. (S \ {x}) \ {y} = {}
      BY <1>3, <2>1, <3>2, <3>3, FS_EmptySet
    <3> QED BY <1>4, <3>1, <3>4
  <2> QED BY <2>2, <2>3
<1>6. \E i \in S : \A j \in S : KeptBefore(r.secrets, i, j)
  <2>1. /\ KeptBefore(r.secrets, x, x) /\ KeptBefore(r.secrets, y, y)
        /\ KeptBefore(r.secrets, x, y) \/ KeptBefore(r.secrets, y, x)
    BY <1>1, <1>4, <1>5, KeptBeforeTotal
  <2> QED BY <1>4, <1>5, <2>1
<1>7. Demoted(r.secrets, now) \in S
  BY <1>6 DEF Demoted
<1> QED BY <1>1, <1>7

\* Rotation writes one or two secrets: the fresh one and at most one it read.
LEMMA RotateSecretsType ==
  ASSUME NEW r \in Row, NEW now \in Times, NEW grace \in Nat, NEW secret \in Secrets,
         Parses(r, now)
  PROVE  LET written == RotateSecrets(r.secrets, now, grace, secret) IN
         /\ written \in Seq(Slot)
         /\ Len(written) \in 1..2
         /\ \A i \in DOMAIN written :
              \/ written[i].secret = secret
              \/ \E j \in DOMAIN r.secrets : written[i].secret = r.secrets[j].secret
<1>1. Fresh(secret, now) \in Slot /\ Fresh(secret, now).secret = secret
  BY TimesAssumption DEF Fresh, Slot, Expiry
<1>2. CASE LiveSlots(r.secrets, now) = {}
  <2>1. RotateSecrets(r.secrets, now, grace, secret) = <<Fresh(secret, now)>>
    BY <1>2 DEF RotateSecrets
  <2> QED BY <1>1, <2>1
<1>3. CASE LiveSlots(r.secrets, now) # {}
  <2> DEFINE d == Demoted(r.secrets, now)
             kept == [r.secrets[d] EXCEPT !.expiresAt = now + grace]
  <2>1. d \in DOMAIN r.secrets
    BY <1>3, OneIsKept
  <2>2. r.secrets[d] \in Slot
    BY <2>1, SlotOfRow
  <2>3. kept \in Slot /\ kept.secret = r.secrets[d].secret
    BY <2>2, TimesAssumption DEF Slot, Expiry
  <2>4. RotateSecrets(r.secrets, now, grace, secret) = <<kept, Fresh(secret, now)>>
    BY <1>3 DEF RotateSecrets
  <2> HIDE DEF kept
  <2> DEFINE new == Fresh(secret, now)
  <2> HIDE DEF new
  <2>5. /\ <<kept, new>> \in Seq(Slot) /\ Len(<<kept, new>>) = 2
        /\ \A i \in DOMAIN <<kept, new>> :
             <<kept, new>>[i] = kept \/ <<kept, new>>[i] = new
    BY <1>1, <2>3 DEF new
  <2>6. new.secret = secret
    BY <1>1 DEF new
  <2>7. RotateSecrets(r.secrets, now, grace, secret) = <<kept, new>>
    BY <2>4 DEF new
  <2> HIDE DEF d
  <2> QED BY <2>1, <2>3, <2>5, <2>6, <2>7
<1> QED BY <1>2, <1>3

-----------------------------------------------------------------------------
(* The steps that write the row *)

\* What a call that may swap has in hand.
LEMMA SwapFacts ==
  ASSUME LifecycleInv, NEW o \in Operators, operators[o].pc = "swap"
  PROVE  LET call == operators[o] IN
         /\ call \in Call /\ call.now \in Times /\ call.grace \in Nat
         /\ row \in Row /\ call.current \in Row /\ call.current.status = "active"
         /\ Parses(call.current, call.now)
         /\ call.current.version <= row.version
         /\ call.current.version = row.version => call.current = row
         /\ row.version = Len(trail)
<1>1. operators[o] \in Call
  BY DEF LifecycleInv, TypeOK, Idle
<1>2. row # None
  BY LegacyAssumption DEF LifecycleInv, SnapshotsPast
<1>3. operators[o].now \in Times /\ operators[o].grace \in Nat
  BY <1>1 DEF Call
<1> QED BY <1>1, <1>2, <1>3 DEF LifecycleInv, SnapshotsPast, EveryMutationAudited

\* The number of a new secret was never used.
LEMMA NewSecretIsNew ==
  ASSUME LifecycleInv, Len(trail) < MaxCommits
  PROVE  /\ NewSecret \in Secrets /\ NewSecret \notin KnownSecrets
         /\ Len(trail) \in Nat
<1>1. Len(trail) \in Nat
  BY DEF LifecycleInv, TypeOK
<1> QED BY <1>1, TimesAssumption DEF NewSecret, Secrets, KnownSecrets

\* A step that installs the next version of the row keeps the invariant.
LEMMA InstallKeeps ==
  ASSUME LifecycleInv, NEW next \in Row, NEW event \in {"provision", "rotate", "disable"},
         Install(next, event),
         next.version = Len(trail) + 1,
         (event = "disable") <=> (next.status = "disabled"),
         \A i \in DOMAIN trail : trail[i] # "disable",
         IF next.status = "active" THEN Len(next.secrets) \in 1..2
                                   ELSE next.secrets = <<>>,
         \/ UNCHANGED operators
         \/ \E o \in Operators : operators' = [operators EXCEPT ![o] = Idle]
  PROVE  LifecycleInv'
<1>1. /\ row' = next /\ trail' = Append(trail, event)
      /\ trail \in Seq({"provision", "rotate", "disable"}) /\ Len(trail) \in Nat
  BY DEF Install, LifecycleInv, TypeOK
<1>2. /\ trail' \in Seq({"provision", "rotate", "disable"})
      /\ Len(trail') = Len(trail) + 1
      /\ \A i \in DOMAIN trail' : i # Len(trail') => i \in DOMAIN trail /\ trail'[i] = trail[i]
      /\ trail'[Len(trail')] = event
  BY <1>1
<1>3. row' # None
  BY <1>1, LegacyAssumption
<1> DEFINE Calls == [Operators -> Call \cup {Idle}]
<1>4. TypeOK'
  <2>1. operators' \in Calls
    BY DEF LifecycleInv, TypeOK
  <2> QED BY <1>1, <1>2, <2>1 DEF TypeOK
<1>5. SnapshotsPast'
  <2> SUFFICES ASSUME NEW o \in Operators, operators'[o].pc = "swap"
               PROVE  LET current == operators'[o].current IN
                      /\ row' \in Row /\ current \in Row
                      /\ current.status = "active"
                      /\ Parses(current, operators'[o].now)
                      /\ current.version < row'.version
    BY DEF SnapshotsPast, Row
  <2>1. operators'[o] = operators[o]
    BY DEF LifecycleInv, TypeOK, Idle
  <2> QED BY <1>1, <2>1, SwapFacts DEF Row
<1>6. EveryMutationAudited'
  BY <1>1, <1>2, <1>3 DEF EveryMutationAudited
<1> QED BY <1>3, <1>4, <1>5, <1>6 DEF LifecycleInv, NothingBefore

\* An active row has no disable in its trail.
LEMMA ActiveTrail ==
  ASSUME LifecycleInv, row # None => row.status = "active"
  PROVE  \A i \in DOMAIN trail : trail[i] # "disable"
BY DEF LifecycleInv, TypeOK, EveryMutationAudited, NothingBefore

\* The row a rotation writes.
RotatedRow(o) ==
  LET call == operators[o] IN
  Successor(call.current, "active",
            RotateSecrets(call.current.secrets, call.now, call.grace, NewSecret))

\* What a rotation writes over the row it read is an active row of the
\* next version, with its new secret and at most one other.
LEMMA RotatedRowType ==
  ASSUME LifecycleInv, NEW o \in Operators, operators[o].pc = "swap",
         Expected(o) = row.version, Len(trail) < MaxCommits
  PROVE  /\ row # None /\ row.status = "active"
         /\ RotatedRow(o) \in Row
         /\ RotatedRow(o).version = Len(trail) + 1
         /\ RotatedRow(o).status = "active"
         /\ Len(RotatedRow(o).secrets) \in 1..2
         /\ Held(RotatedRow(o)) \subseteq Held(row) \cup {NewSecret}
<1> DEFINE call == operators[o]
           written == RotateSecrets(call.current.secrets, call.now, call.grace, NewSecret)
<1>1. /\ call.current = row /\ row \in Row /\ row.status = "active"
      /\ Parses(row, call.now) /\ row.version = Len(trail) /\ call \in Call
  BY SwapFacts DEF Expected
<1>2. call.now \in Times /\ call.grace \in Nat
  BY SwapFacts
<1>3. NewSecret \in Secrets /\ Len(trail) \in Nat
  BY NewSecretIsNew
<1>4. /\ written \in Seq(Slot) /\ Len(written) \in 1..2
      /\ \A i \in DOMAIN written :
           \/ written[i].secret = NewSecret
           \/ \E j \in DOMAIN row.secrets : written[i].secret = row.secrets[j].secret
  BY <1>1, <1>2, <1>3, RotateSecretsType
<1>5. RotatedRow(o) = Successor(row, "active", written)
  BY <1>1 DEF RotatedRow
<1> HIDE DEF written
<1>6. /\ RotatedRow(o) \in Row /\ RotatedRow(o).version = Len(trail) + 1
      /\ RotatedRow(o).status = "active" /\ RotatedRow(o).secrets = written
  <2>1. Len(trail) + 1 \in Nat /\ "active" \in {"active", "disabled"}
    BY <1>3
  <2>2. written \in Seq(Slot) /\ row \in Row
    BY <1>1, <1>4
  <2> HIDE DEF call
  <2> QED BY <1>1, <1>5, <2>1, <2>2 DEF Successor, Row
<1>7. row # None /\ RotatedRow(o) # None
  BY <1>1, <1>6, LegacyAssumption
<1>8. Held(RotatedRow(o)) \subseteq Held(row) \cup {NewSecret}
  BY <1>4, <1>6, <1>7 DEF Held
<1> QED BY <1>1, <1>4, <1>6, <1>7, <1>8

\* The tombstone a disable writes.
Tombstone(o) == Successor(operators[o].current, "disabled", <<>>)

\* What a disable writes is a row of the next version without secrets.
LEMMA TombstoneType ==
  ASSUME LifecycleInv, NEW o \in Operators, operators[o].pc = "swap",
         Expected(o) = row.version
  PROVE  /\ row # None /\ row.status = "active"
         /\ Tombstone(o) \in Row
         /\ Tombstone(o).version = Len(trail) + 1
         /\ Tombstone(o).status = "disabled"
         /\ Tombstone(o).secrets = <<>> /\ Held(Tombstone(o)) = {}
<1>1. /\ operators[o].current = row /\ row \in Row /\ row.status = "active"
      /\ row.version = Len(trail)
  BY SwapFacts DEF Expected
<1>2. /\ Tombstone(o) \in Row /\ Tombstone(o).version = Len(trail) + 1
      /\ Tombstone(o).status = "disabled" /\ Tombstone(o).secrets = <<>>
  <2>1. Tombstone(o) = Successor(row, "disabled", <<>>)
    BY <1>1 DEF Tombstone
  <2>2. /\ <<>> \in Seq(Slot) /\ Len(trail) + 1 \in Nat
        /\ "disabled" \in {"active", "disabled"}
    BY DEF LifecycleInv, TypeOK
  <2> QED BY <1>1, <2>1, <2>2 DEF Successor, Row
<1>3. row # None
  BY <1>1, LegacyAssumption
<1> QED BY <1>1, <1>2, <1>3 DEF Held

\* The row a provision writes.
FirstRow(resource, now, ttl) ==
  [version |-> 1, status |-> "active", resource |-> resource,
   secrets |-> <<[Fresh(NewSecret, now) EXCEPT !.expiresAt =
                    IF ttl = None THEN None ELSE now + ttl]>>]

\* What provisioning writes is a first row, with one secret.
LEMMA FirstRowType ==
  ASSUME LifecycleInv, row = None, Len(trail) < MaxCommits,
         NEW resource \in Resources, NEW now \in Times, NEW ttl \in Ttls \cup {None}
  PROVE  LET first == FirstRow(resource, now, ttl) IN
         /\ first \in Row /\ first.version = Len(trail) + 1
         /\ first.status = "active" /\ Len(first.secrets) \in 1..2
         /\ Held(first) = {NewSecret}
<1> DEFINE slot == [Fresh(NewSecret, now) EXCEPT !.expiresAt =
                      IF ttl = None THEN None ELSE now + ttl]
<1>1. trail = <<>> /\ NewSecret \in Secrets
  BY NewSecretIsNew DEF LifecycleInv, NothingBefore
<1>2. slot \in Slot /\ slot.secret = NewSecret
  BY <1>1, TimesAssumption DEF Fresh, Slot, Expiry
<1> HIDE DEF slot
<1>3. FirstRow(resource, now, ttl) =
        [version |-> 1, status |-> "active", resource |-> resource, secrets |-> <<slot>>]
  BY DEF FirstRow, slot
<1>4. <<slot>> \in Seq(Slot)
  BY <1>2
<1>5. FirstRow(resource, now, ttl) \in Row
  BY <1>3, <1>4 DEF Row
<1>6. FirstRow(resource, now, ttl) # None
  BY <1>5, LegacyAssumption
<1>7. Held(FirstRow(resource, now, ttl)) = {NewSecret}
  BY <1>2, <1>3, <1>6 DEF Held
<1> QED BY <1>1, <1>3, <1>5, <1>7

-----------------------------------------------------------------------------
(* The lifecycle invariant *)

\* A step that changes one call only.
LEMMA CallKeeps ==
  ASSUME LifecycleInv, NEW o \in Operators, NEW call,
         operators' = [operators EXCEPT ![o] = call],
         call = Idle \/ call \in Call,
         call.pc = "swap" =>
           /\ row \in Row /\ call.current = row
           /\ row.status = "active" /\ Parses(row, call.now),
         UNCHANGED <<row, trail>>
  PROVE  LifecycleInv'
<1>1. TypeOK'
  BY DEF LifecycleInv, TypeOK
<1>2. SnapshotsPast'
  BY DEF LifecycleInv, SnapshotsPast, TypeOK, Row
<1> QED BY <1>1, <1>2 DEF LifecycleInv, NothingBefore, EveryMutationAudited

\* A call that reads the row keeps it as the snapshot it will compare.
LEMMA FindKeeps ==
  ASSUME LifecycleInv, NEW o \in Operators, Find(o)
  PROVE  LifecycleInv'
<1> DEFINE call == [operators[o] EXCEPT !.pc = "swap", !.current = row]
<1>1. operators[o] \in Call
  BY DEF Find, LifecycleInv, TypeOK, Idle
<1>2. CASE Mutable(row, operators[o].resource, operators[o].now)
  <2>1. row \in Row /\ row.status = "active" /\ Parses(row, operators[o].now)
    BY <1>2 DEF Mutable, LifecycleInv, TypeOK
  <2>2. /\ call \in Call /\ call.current = row /\ call.now = operators[o].now
        /\ operators' = [operators EXCEPT ![o] = call]
    BY <1>1, <1>2, <2>1 DEF Find, Call
  <2> HIDE DEF call
  <2> QED BY <2>1, <2>2, CallKeeps DEF Find
<1>3. CASE ~Mutable(row, operators[o].resource, operators[o].now)
  <2>1. operators' = [operators EXCEPT ![o] = Idle] /\ Idle.pc # "swap"
    BY <1>3 DEF Find, Finish, Idle
  <2> QED BY <2>1, CallKeeps DEF Find
<1> QED BY <1>2, <1>3

\* A call that begins has read nothing.
LEMMA BeginKeeps ==
  ASSUME LifecycleInv, NEW o \in Operators, NEW op \in {"rotate", "disable"},
         NEW resource \in Resources, NEW now \in Times, NEW grace \in Nat,
         Begin(o, op, resource, now, grace)
  PROVE  LifecycleInv'
<1> DEFINE call == [Idle EXCEPT !.pc = "find", !.op = op, !.resource = resource,
                                !.now = now, !.grace = grace]
<1>1. call \in Call /\ call.pc # "swap" /\ operators' = [operators EXCEPT ![o] = call]
  BY DEF Begin, Idle, Call
<1> HIDE DEF call
<1> QED BY <1>1, CallKeeps DEF Begin

\* Only rotation, disabling and provisioning write, and each writes the next
\* version of the row; Find takes the row as it is.
LEMMA LifecycleStep ==
  ASSUME LifecycleInv, [Next]_vars
  PROVE  LifecycleInv'
<1>1. ASSUME NEW resource \in Resources, NEW now \in Times, NEW ttl \in Ttls \cup {None},
             NEW answered \in BOOLEAN, Provision(resource, now, ttl, answered)
      PROVE  LifecycleInv'
  <2> DEFINE first == FirstRow(resource, now, ttl)
  <2>1. row = None /\ Install(first, "provision") /\ operators' = operators
    BY <1>1 DEF Provision, FirstRow
  <2>2. Len(trail) < MaxCommits
    BY <2>1 DEF Install
  <2>3. /\ first \in Row /\ first.version = Len(trail) + 1
        /\ first.status = "active" /\ Len(first.secrets) \in 1..2
    BY <2>1, <2>2, FirstRowType
  <2>4. \A i \in DOMAIN trail : trail[i] # "disable"
    BY <2>1, ActiveTrail
  <2> HIDE DEF first
  <2> QED BY <2>1, <2>3, <2>4, InstallKeeps
<1>2. ASSUME NEW o \in Operators, NEW answered \in BOOLEAN, Rotate(o, answered)
      PROVE  LifecycleInv'
  <2>1. /\ operators[o].pc = "swap" /\ Expected(o) = row.version
        /\ Install(RotatedRow(o), "rotate")
        /\ operators' = [operators EXCEPT ![o] = Idle]
    BY <1>2 DEF Rotate, RotatedRow, Finish
  <2>2. Len(trail) < MaxCommits
    BY <2>1 DEF Install
  <2>3. \A i \in DOMAIN trail : trail[i] # "disable"
    BY <2>1, <2>2, RotatedRowType, ActiveTrail
  <2> QED BY <2>1, <2>2, <2>3, RotatedRowType, InstallKeeps
<1>3. ASSUME NEW o \in Operators, Disable(o)
      PROVE  LifecycleInv'
  <2>1. /\ operators[o].pc = "swap" /\ Expected(o) = row.version
        /\ Install(Tombstone(o), "disable")
        /\ operators' = [operators EXCEPT ![o] = Idle]
    BY <1>3 DEF Disable, Tombstone, Finish
  <2>2. \A i \in DOMAIN trail : trail[i] # "disable"
    BY <2>1, TombstoneType, ActiveTrail
  <2> QED BY <2>1, <2>2, TombstoneType, InstallKeeps
<1>4. ASSUME NEW o \in Operators, Conflict(o) \/ CallThrows(o)
      PROVE  LifecycleInv'
  <2>1. operators' = [operators EXCEPT ![o] = Idle] /\ Idle.pc # "swap"
    BY <1>4 DEF Conflict, CallThrows, Finish, Idle
  <2> QED BY <1>4, <2>1, CallKeeps DEF Conflict, CallThrows
<1>5. CASE UNCHANGED vars
  BY <1>5 DEF vars, LifecycleInv, TypeOK, SnapshotsPast, NothingBefore, EveryMutationAudited
<1>6. Graces \subseteq Nat /\ 0 \in Nat
  BY TimesAssumption
<1> QED BY <1>1, <1>2, <1>3, <1>4, <1>5, <1>6, FindKeeps, BeginKeeps DEF Next

\* A client that does not exist, or a legacy row, satisfies the invariant.
LEMMA LifecycleInit == Init => LifecycleInv
<1> SUFFICES ASSUME Init PROVE LifecycleInv
  OBVIOUS
<1>1. row # None => row \in Row /\ row.version = 0 /\ row.status = "active"
  BY LegacyAssumption DEF Init
<1>2. TypeOK
  BY <1>1 DEF Init, TypeOK
<1>3. SnapshotsPast
  BY DEF Init, SnapshotsPast, Idle
<1> QED BY <1>1, <1>2, <1>3 DEF Init, LifecycleInv, NothingBefore, EveryMutationAudited

\* Types, and a row's shape: one or two secrets while active, none afterwards.
THEOREM MachineClientTypeCorrect == Spec => []TypeOK
<1>1. LifecycleInv => TypeOK
  BY DEF LifecycleInv
<1> QED BY <1>1, LifecycleInit, LifecycleStep, PTL DEF Spec

\* The version of the row counts the durable audit events, whatever operators
\* race: no commit without its event, no two commits of one version.
THEOREM EveryMutationAuditedCorrect == Spec => []EveryMutationAudited
<1>1. LifecycleInv => EveryMutationAudited
  BY DEF LifecycleInv
<1> QED BY <1>1, LifecycleInit, LifecycleStep, PTL DEF Spec

-----------------------------------------------------------------------------
(* A disabled client, and retired secrets *)

\* A disabled row is never written again: whoever still holds it from before
\* read an earlier version, and loses the swap.
LEMMA DisabledStep ==
  ASSUME LifecycleInv, Next, row # None, row.status = "disabled"
  PROVE  row' = row
<1>1. ASSUME NEW o \in Operators, operators[o].pc = "swap"
      PROVE  Expected(o) # row.version
  BY <1>1, SwapFacts DEF Expected
<1>2. ASSUME NEW o \in Operators, NEW answered \in BOOLEAN
      PROVE  ~Rotate(o, answered) /\ ~Disable(o)
  BY <1>1 DEF Rotate, Disable
<1> QED BY <1>2 DEF Next, Provision, Begin, Find, Conflict, CallThrows

\* A disabled client stays as it is.
THEOREM DisabledIsFinalCorrect == Spec => DisabledIsFinal
<1>1. LifecycleInv /\ [Next]_vars =>
        [row # None /\ row.status = "disabled" => row' = row]_vars
  BY DisabledStep
<1> QED BY <1>1, LifecycleInit, LifecycleStep, PTL DEF Spec, DisabledIsFinal

\* A write whose secrets are those of the row or the new one.
LEMMA InstallSecrets ==
  ASSUME SecretInv, NEW next, NEW event, Install(next, event),
         Held(next) \subseteq Held(row) \cup {NewSecret}
  PROVE  SecretsKnown' /\ RetiredForever'
<1>1. /\ row' = next /\ Len(trail) \in Nat /\ Len(trail') = Len(trail) + 1
      /\ retired' = retired \cup (Held(row) \ Held(next))
      /\ NewSecret = Len(trail) + 1
  BY DEF Install, SecretInv, LifecycleInv, TypeOK, NewSecret
<1>2. NewSecret \notin KnownSecrets
  BY NewSecretIsNew DEF Install, SecretInv
<1>3. KnownSecrets' = KnownSecrets \cup {NewSecret}
  BY <1>1 DEF KnownSecrets
<1>4. Held(row)' = Held(next)
  BY <1>1 DEF Held
<1>5. SecretsKnown'
  BY <1>1, <1>3, <1>4 DEF SecretsKnown, SecretInv
<1>6. RetiredForever'
  BY <1>1, <1>2, <1>4 DEF RetiredForever, SecretsKnown, SecretInv
<1> QED BY <1>5, <1>6

\* A commit writes a secret no earlier commit numbered: what is retired
\* stays out of the row.
LEMMA SecretStep ==
  ASSUME SecretInv, [Next]_vars
  PROVE  SecretInv'
<1>1. LifecycleInv'
  BY LifecycleStep DEF SecretInv
<1>2. CASE UNCHANGED <<row, trail, retired>>
  BY <1>1, <1>2 DEF SecretInv, SecretsKnown, RetiredForever, Held, KnownSecrets
<1>3. ASSUME NEW next, NEW event, Install(next, event),
             Held(next) \subseteq Held(row) \cup {NewSecret}
      PROVE  SecretInv'
  BY <1>1, <1>3, InstallSecrets DEF SecretInv
<1>4. ASSUME NEW resource \in Resources, NEW now \in Times, NEW ttl \in Ttls \cup {None},
             NEW answered \in BOOLEAN, Provision(resource, now, ttl, answered)
      PROVE  SecretInv'
  <2>1. row = None /\ Install(FirstRow(resource, now, ttl), "provision")
    BY <1>4 DEF Provision, FirstRow
  <2>2. Held(FirstRow(resource, now, ttl)) = {NewSecret}
    BY <2>1, FirstRowType DEF Install, SecretInv
  <2> QED BY <1>3, <2>1, <2>2
<1>5. ASSUME NEW o \in Operators, NEW answered \in BOOLEAN, Rotate(o, answered)
      PROVE  SecretInv'
  <2>1. /\ operators[o].pc = "swap" /\ Expected(o) = row.version
        /\ Install(RotatedRow(o), "rotate")
    BY <1>5 DEF Rotate, RotatedRow
  <2>2. Held(RotatedRow(o)) \subseteq Held(row) \cup {NewSecret}
    BY <2>1, RotatedRowType DEF Install, SecretInv
  <2> QED BY <1>3, <2>1, <2>2
<1>6. ASSUME NEW o \in Operators, Disable(o)
      PROVE  SecretInv'
  <2>1. /\ operators[o].pc = "swap" /\ Expected(o) = row.version
        /\ Install(Tombstone(o), "disable")
    BY <1>6 DEF Disable, Tombstone
  <2>2. Held(Tombstone(o)) = {}
    BY <2>1, TombstoneType DEF SecretInv
  <2> QED BY <1>3, <2>1, <2>2
<1> QED BY <1>2, <1>4, <1>5, <1>6
        DEF Next, Begin, Find, Conflict, CallThrows, history, vars

\* A secret that left the row is never in it again.
THEOREM RetiredForeverCorrect == Spec => []RetiredForever
<1>1. Init => SecretInv
  <2> SUFFICES ASSUME Init PROVE SecretInv
    OBVIOUS
  <2>1. Held(row) \subseteq LegacySecrets
    BY LegacyAssumption DEF Init, Held
  <2> QED BY <2>1, LifecycleInit DEF Init, SecretInv, SecretsKnown, KnownSecrets, RetiredForever
<1>2. SecretInv => RetiredForever
  BY DEF SecretInv
<1> QED BY <1>1, <1>2, SecretStep, PTL DEF Spec

-----------------------------------------------------------------------------
(* The secrets operators were handed *)

\* The shape of a row from version 2 on: the last secret is the one its rotation
\* minted and does not expire, the one before it does; from version 3 on that
\* one was minted by the rotation before.
Shaped(r) ==
  LET secrets == r.secrets
      last == Len(secrets)
  IN /\ last \in 1..2
     /\ secrets[last].secret = r.version /\ secrets[last].expiresAt = None
     /\ last = 2 => secrets[1].expiresAt \in Nat
     /\ r.version > 2 => last = 2 /\ secrets[1].secret = r.version - 1

ShapedInv == row # None /\ row.version > 1 /\ row.status = "active" => Shaped(row)

\* What was returned for a version is the secret of that commit.
ReturnedInv ==
  /\ DOMAIN returned \subseteq 1..Len(trail)
  /\ \A v \in DOMAIN returned : returned[v] = v

HandedInv == LifecycleInv /\ ShapedInv /\ ReturnedInv

\* The one secret without expiry is the one kept, if the others expire.
LEMMA UnboundedIsKept ==
  ASSUME NEW r \in Row, NEW now \in Times, NEW last \in DOMAIN r.secrets,
         r.secrets[last].expiresAt = None,
         \A i \in DOMAIN r.secrets : i # last => r.secrets[i].expiresAt \in Nat
  PROVE  last \in LiveSlots(r.secrets, now) /\ Demoted(r.secrets, now) = last
<1> DEFINE S == LiveSlots(r.secrets, now)
           Kept(i) == \A j \in S : KeptBefore(r.secrets, i, j)
<1>1. last \in S /\ S \subseteq DOMAIN r.secrets
  BY DEF LiveSlots, Live
<1>2. Kept(last)
  BY DEF KeptBefore
<1>3. ASSUME NEW i \in S, i # last
      PROVE  ~Kept(i)
  <2>1. r.secrets[i].expiresAt # None
    BY <1>1, <1>3, TimesAssumption
  <2>2. ~KeptBefore(r.secrets, i, last)
    BY <1>3, <2>1 DEF KeptBefore
  <2> QED BY <1>1, <2>2
<1>4. Demoted(r.secrets, now) = CHOOSE i \in S : Kept(i)
  BY DEF Demoted
<1> HIDE DEF S, Kept
<1>5. (CHOOSE i \in S : Kept(i)) = last
  BY <1>1, <1>2, <1>3
<1> QED BY <1>1, <1>4, <1>5 DEF S

\* A rotation puts its secret last, without expiry, after one that expires: the
\* secret of the rotation before, if there was one.
LEMMA RotateSecretsShape ==
  ASSUME NEW r \in Row, NEW now \in Times, NEW grace \in Nat, NEW secret \in Secrets,
         Parses(r, now), r.version > 1 => Shaped(r)
  PROVE  LET written == RotateSecrets(r.secrets, now, grace, secret)
             last == Len(written)
         IN /\ written[last].secret = secret /\ written[last].expiresAt = None
            /\ last = 2 => written[1].expiresAt \in Nat
            /\ r.version > 1 => last = 2 /\ written[1].secret = r.version
<1>1. Fresh(secret, now).secret = secret /\ Fresh(secret, now).expiresAt = None
  BY DEF Fresh
<1>2. ASSUME r.version > 1
      PROVE  /\ LiveSlots(r.secrets, now) # {}
             /\ r.secrets[Demoted(r.secrets, now)].secret = r.version
  <2> DEFINE last == Len(r.secrets)
  <2>1. /\ last \in 1..2 /\ DOMAIN r.secrets = 1..last
        /\ r.secrets[last].secret = r.version /\ r.secrets[last].expiresAt = None
        /\ last = 2 => r.secrets[1].expiresAt \in Nat
    BY <1>2 DEF Shaped, Row
  <2> HIDE DEF last
  <2>2. /\ last \in DOMAIN r.secrets
        /\ \A i \in DOMAIN r.secrets : i # last => r.secrets[i].expiresAt \in Nat
    BY <2>1
  <2> QED BY <2>1, <2>2, UnboundedIsKept
<1>3. CASE LiveSlots(r.secrets, now) = {}
  <2>1. RotateSecrets(r.secrets, now, grace, secret) = <<Fresh(secret, now)>>
    BY <1>3 DEF RotateSecrets
  <2>2. ~(r.version > 1)
    BY <1>2, <1>3
  <2> QED BY <1>1, <2>1, <2>2
<1>4. CASE LiveSlots(r.secrets, now) # {}
  <2> DEFINE d == Demoted(r.secrets, now)
             kept == [r.secrets[d] EXCEPT !.expiresAt = now + grace]
             new == Fresh(secret, now)
  <2>1. r.secrets[d] \in Slot
    BY <1>4, OneIsKept, SlotOfRow
  <2>2. kept.expiresAt \in Nat /\ kept.secret = r.secrets[d].secret
    BY <2>1, TimesAssumption DEF Slot, Expiry
  <2>3. RotateSecrets(r.secrets, now, grace, secret) = <<kept, new>>
    BY <1>4 DEF RotateSecrets
  <2>4. r.version > 1 => kept.secret = r.version
    BY <1>2, <2>2
  <2>5. new.secret = secret /\ new.expiresAt = None
    BY <1>1
  <2> HIDE DEF kept, new, d
  <2> QED BY <2>2, <2>3, <2>4, <2>5
<1> QED BY <1>3, <1>4

\* What a rotation writes has that shape.
LEMMA RotatedRowShaped ==
  ASSUME HandedInv, NEW o \in Operators, operators[o].pc = "swap",
         Expected(o) = row.version, Len(trail) < MaxCommits,
         RotatedRow(o).version > 1
  PROVE  Shaped(RotatedRow(o))
<1> DEFINE call == operators[o]
<1>0. LifecycleInv
  BY DEF HandedInv
<1>1. /\ call.current = row /\ row \in Row /\ row.status = "active"
      /\ Parses(row, call.now) /\ row.version = Len(trail)
      /\ call.now \in Times /\ call.grace \in Nat
  BY <1>0, SwapFacts DEF Expected
<1>2. NewSecret \in Secrets /\ Len(trail) \in Nat
  BY <1>0, NewSecretIsNew
<1>3. row.version > 1 => Shaped(row)
  BY <1>1, LegacyAssumption DEF HandedInv, ShapedInv
<1>4. PICK written : written = RotateSecrets(row.secrets, call.now, call.grace, NewSecret)
  OBVIOUS
<1>5. /\ written[Len(written)].secret = NewSecret
      /\ written[Len(written)].expiresAt = None
      /\ Len(written) = 2 => written[1].expiresAt \in Nat
      /\ row.version > 1 => Len(written) = 2 /\ written[1].secret = row.version
  BY <1>1, <1>2, <1>3, <1>4, RotateSecretsShape
<1>6. /\ RotatedRow(o).secrets = written /\ RotatedRow(o).version = row.version + 1
      /\ Len(written) \in 1..2
  <2>1. RotatedRow(o) = Successor(row, "active", written)
    BY <1>1, <1>4 DEF RotatedRow
  <2>2. Len(RotatedRow(o).secrets) \in 1..2
    BY <1>0, RotatedRowType
  <2> QED BY <2>1, <2>2 DEF Successor
<1>7. NewSecret = row.version + 1 /\ row.version \in Nat
  BY <1>1, <1>2 DEF NewSecret
<1> HIDE DEF call
<1> QED BY <1>5, <1>6, <1>7 DEF Shaped

\* Handing out the secret of the commit just made.
LEMMA ReturnedKeeps ==
  ASSUME HandedInv, NEW next, NEW event, Install(next, event),
         \/ returned' = returned
         \/ returned' = Put(returned, NewSecret, NewSecret)
  PROVE  ReturnedInv'
<1>1. /\ Len(trail) \in Nat /\ Len(trail') = Len(trail) + 1
      /\ NewSecret = Len(trail) + 1
  BY DEF Install, HandedInv, LifecycleInv, TypeOK, NewSecret
<1> QED BY <1>1 DEF ReturnedInv, HandedInv, Put

\* Every step keeps the rows' shape and the secrets handed out.
LEMMA HandedStep ==
  ASSUME HandedInv, [Next]_vars
  PROVE  HandedInv'
<1>1. LifecycleInv /\ LifecycleInv'
  BY LifecycleStep DEF HandedInv
<1>2. CASE UNCHANGED <<row, trail, returned>>
  BY <1>1, <1>2 DEF HandedInv, ShapedInv, ReturnedInv
<1>3. ASSUME NEW resource \in Resources, NEW now \in Times, NEW ttl \in Ttls \cup {None},
             NEW answered \in BOOLEAN, Provision(resource, now, ttl, answered)
      PROVE  HandedInv'
  <2> DEFINE first == FirstRow(resource, now, ttl)
  <2>1. /\ row = None /\ Install(first, "provision")
        /\ returned' = IF answered THEN Put(returned, 1, NewSecret) ELSE returned
    BY <1>3 DEF Provision, FirstRow
  <2>2. NewSecret = 1
    BY <1>1, <2>1 DEF LifecycleInv, NothingBefore, NewSecret
  <2>3. ReturnedInv'
    BY <2>1, <2>2, ReturnedKeeps
  <2>4. row' = first /\ first.version = 1
    BY <2>1 DEF Install, FirstRow
  <2>5. ShapedInv'
    BY <2>4 DEF ShapedInv
  <2> QED BY <1>1, <2>3, <2>5 DEF HandedInv
<1>4. ASSUME NEW o \in Operators, NEW answered \in BOOLEAN, Rotate(o, answered)
      PROVE  HandedInv'
  <2>1. /\ operators[o].pc = "swap" /\ Expected(o) = row.version
        /\ Install(RotatedRow(o), "rotate")
        /\ returned' = IF answered
                       THEN Put(returned, operators[o].current.version + 1, NewSecret)
                       ELSE returned
    BY <1>4 DEF Rotate, RotatedRow
  <2>2. operators[o].current.version + 1 = NewSecret
    BY <1>1, <2>1, SwapFacts DEF Expected, NewSecret
  <2>3. ReturnedInv'
    BY <2>1, <2>2, ReturnedKeeps
  <2>4. row' = RotatedRow(o) /\ Len(trail) < MaxCommits
    BY <2>1 DEF Install
  <2>5. ShapedInv'
    BY <2>1, <2>4, RotatedRowShaped DEF ShapedInv
  <2> QED BY <1>1, <2>3, <2>5 DEF HandedInv
<1>5. ASSUME NEW o \in Operators, Disable(o)
      PROVE  HandedInv'
  <2>1. /\ operators[o].pc = "swap" /\ Expected(o) = row.version
        /\ Install(Tombstone(o), "disable") /\ returned' = returned
    BY <1>5 DEF Disable, Tombstone
  <2>2. ReturnedInv'
    BY <2>1, ReturnedKeeps
  <2>3. row' = Tombstone(o) /\ Tombstone(o).status = "disabled"
    BY <1>1, <2>1, TombstoneType DEF Install
  <2> QED BY <1>1, <2>2, <2>3 DEF HandedInv, ShapedInv
<1> QED BY <1>2, <1>3, <1>4, <1>5
        DEF Next, Begin, Find, Conflict, CallThrows, history, vars

\* Any clock reads a row of that shape without complaint.
LEMMA ShapedParses ==
  ASSUME NEW r \in Row, Shaped(r), NEW now \in Times
  PROVE  Parses(r, now)
<1> DEFINE last == Len(r.secrets)
<1>1. /\ last \in {1, 2} /\ DOMAIN r.secrets = 1..last
      /\ last = 2 => r.secrets[1].expiresAt \in Nat
  BY DEF Shaped, Row
<1>0. 1..last = IF last = 1 THEN {1} ELSE {1, 2}
  <2>1. 1..1 = {1} /\ 1..2 = {1, 2}
    OBVIOUS
  <2>2. last \in {1, 2}
    BY <1>1
  <2> HIDE DEF last
  <2> QED BY <2>1, <2>2
<1>2. IsFiniteSet(1..last) /\ Cardinality(1..last) = last
  <2>1. 1 \in Int /\ last \in Int /\ last >= 1
    <3> HIDE DEF last
    <3> QED BY <1>1
  <2>2. Cardinality(1..last) = IF 1 > last THEN 0 ELSE last - 1 + 1
    BY <2>1, FS_Interval, Zenon
  <2>3. IsFiniteSet(1..last)
    BY <2>1, FS_Interval, Zenon
  <2> HIDE DEF last
  <2> QED BY <2>1, <2>2, <2>3
<1>3. Cardinality(Unbounded(r.secrets)) <= 1
  <2>1. Unbounded(r.secrets) \subseteq {last}
    BY <1>0, <1>1, TimesAssumption DEF Unbounded
  <2>2. IsFiniteSet({last}) /\ Cardinality({last}) = 1
    BY FS_Singleton
  <2> HIDE DEF last
  <2>3. Cardinality(Unbounded(r.secrets)) <= Cardinality({last})
    BY <2>1, <2>2, FS_Subset
  <2> QED BY <2>2, <2>3
<1>4. Cardinality(LiveSlots(r.secrets, now)) <= 2
  <2>1. LiveSlots(r.secrets, now) \subseteq 1..last
    BY <1>1 DEF LiveSlots
  <2> HIDE DEF last
  <2>2. /\ Cardinality(LiveSlots(r.secrets, now)) <= Cardinality(1..last)
        /\ IsFiniteSet(LiveSlots(r.secrets, now))
    BY <1>2, <2>1, FS_Subset
  <2>3. Cardinality(LiveSlots(r.secrets, now)) \in Nat
    BY <2>2, FS_CardinalityType
  <2> QED BY <1>1, <1>2, <2>2, <2>3
<1>5. r.secrets # <<>> /\ last <= 2
  <2>1. Len(<<>>) = 0
    OBVIOUS
  <2>2. last # 0 /\ last <= 2
    <3>1. last \in {1, 2}
      BY <1>1
    <3> HIDE DEF last
    <3> QED BY <3>1
  <2>3. r.secrets # <<>>
    BY <2>1, <2>2, Zenon
  <2> QED BY <2>2, <2>3
<1> QED BY <1>1, <1>3, <1>4, <1>5 DEF Parses

\* The secret handed out with the latest rotation works, and the one handed out
\* with the rotation before it until the grace ends: for every clock.
THEOREM HandedOutWorksCorrect == Spec => []HandedOutWorks
<1>1. Init => HandedInv
  BY LifecycleInit, LegacyAssumption DEF Init, HandedInv, ShapedInv, ReturnedInv
<1>2. ASSUME HandedInv PROVE HandedOutWorks
  <2> SUFFICES ASSUME NEW v \in DOMAIN returned, row.status = "active", v > 1
               PROVE  /\ v = row.version =>
                           \A now \in Times : Accepts(row, returned[v], row.resource, now)
                      /\ v = row.version - 1 =>
                           \A now \in Times : now < row.secrets[1].expiresAt =>
                             Accepts(row, returned[v], row.resource, now)
    BY DEF HandedOutWorks
  <2>1. row # None
    BY <1>2 DEF HandedInv, ReturnedInv, LifecycleInv, NothingBefore
  <2>2. row \in Row /\ returned[v] = v /\ v \in Nat
    BY <1>2, <2>1 DEF HandedInv, ReturnedInv, LifecycleInv, TypeOK
  <2>3. row.version \in Nat /\ \A k \in 1..2 : Len(row.secrets) = k => k \in DOMAIN row.secrets
    BY <2>2 DEF Row
  <2>4. ASSUME v = row.version, NEW now \in Times
        PROVE  Accepts(row, returned[v], row.resource, now)
    <3>1. Shaped(row)
      BY <1>2, <2>1, <2>4 DEF HandedInv, ShapedInv
    <3>2. Parses(row, now)
      BY <2>2, <3>1, ShapedParses
    <3>3. PICK k \in 1..2 : /\ Len(row.secrets) = k /\ row.secrets[k].secret = v
                            /\ row.secrets[k].expiresAt = None
      BY <2>4, <3>1 DEF Shaped
    <3>4. k \in LiveSlots(row.secrets, now)
      BY <2>3, <3>3 DEF LiveSlots, Live
    <3> QED BY <2>1, <2>2, <3>2, <3>3, <3>4 DEF Accepts
  <2>5. ASSUME v = row.version - 1, NEW now \in Times, now < row.secrets[1].expiresAt
        PROVE  Accepts(row, returned[v], row.resource, now)
    <3>1. Shaped(row) /\ row.version > 2
      BY <1>2, <2>1, <2>2, <2>3, <2>5 DEF HandedInv, ShapedInv
    <3>2. Parses(row, now)
      BY <2>2, <3>1, ShapedParses
    <3>3. /\ Len(row.secrets) = 2 /\ row.secrets[1].secret = v
          /\ row.secrets[1].expiresAt \in Nat /\ now \in Nat
      BY <2>5, <3>1, TimesAssumption DEF Shaped
    <3>4. 1 \in DOMAIN row.secrets
      BY <2>2, <3>3 DEF Row
    <3>5. 1 \in LiveSlots(row.secrets, now)
      BY <2>5, <3>3, <3>4 DEF LiveSlots, Live
    <3> QED BY <2>1, <2>2, <3>2, <3>3, <3>5 DEF Accepts
  <2> QED BY <2>4, <2>5
<1> QED BY <1>1, <1>2, HandedStep, PTL DEF Spec
=============================================================================
