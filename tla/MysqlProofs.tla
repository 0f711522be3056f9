---------------------------- MODULE MysqlProofs ----------------------------
(***************************************************************************)
(* Proofs about MysqlStore: its transactions of several statements do what *)
(* the operations of Store do in one step, for every number of             *)
(* connections, replicas and rows.  The lemmas about the operations of     *)
(* Store come from AuthorizeProofs.                                        *)
(***************************************************************************)
EXTENDS MysqlStore, AuthorizeProofs

USE DEF IsMap

-----------------------------------------------------------------------------
(* What transactions hold and know *)

\* A connection's record has these fields and no others.
Record(op, pc, args, fresh, locks, seen, doomed) ==
  [op |-> op, pc |-> pc, args |-> args, fresh |-> fresh, locks |-> locks, seen |-> seen,
   doomed |-> doomed]

ConnShape(c) ==
  conns[c] = Record(conns[c].op, conns[c].pc, conns[c].args, conns[c].fresh, conns[c].locks,
                    conns[c].seen, conns[c].doomed)

Timed == {"rotate", "save", "consume", "consent"}

\* A call that compares its reading with expiries commits before the reading
\* is older than Skew; a sweep's time is a reading less the allowance.
InTime(c) ==
  LET now == conns[c].args.now IN
  /\ conns[c].op \in Timed => now \in Times /\ now <= time /\ time <= now + Skew
  /\ conns[c].op = "sweep" => now \in 0..time /\ (now = 0 \/ now + Lag <= time)

RotateArgs(c) ==
  LET args == conns[c].args IN
  /\ args.token \in Tokens /\ args.next \in NextTokens /\ args.token # args.next.token
  /\ args.next.expiresAt = args.now + Ttl
  /\ args.generation \in Generations /\ args.resource \in Resources
  /\ conns[c].fresh = TokenKeys({args.next.token})

SaveArgs(c) ==
  LET args == conns[c].args IN
  /\ args.token \in Tokens /\ args.row \in RootRows
  /\ args.row.expiresAt = args.now + Ttl
  /\ conns[c].fresh = TokenKeys({args.token}) \cup FamilyKeys({args.row.family})

\* What a call was given, and the keys it generated.
ArgsOK(c) ==
  LET k == conns[c]
      args == conns[c].args
  IN /\ k.op \in {"none", "rotate", "save", "revoke", "consume", "jti", "consent", "sweep"}
     /\ k.op = "none" => k = Idle
     /\ k.op = "rotate" => RotateArgs(c)
     /\ k.op = "save" => SaveArgs(c)
     /\ k.op \in {"revoke", "consume"} => args.resource \in Resources \cup {None} /\ k.fresh = {}
     /\ k.op = "revoke" => args.family \in Families
     /\ k.op = "consume" => args.code \in Codes
     /\ k.op \in {"jti", "consent"} => args.jti \in Jtis
     /\ k.op = "consent" => /\ args.code \in Codes /\ args.record \in AuthCodeRecord
                            /\ k.fresh = CodeKeys({args.code})
     /\ k.op = "jti" => k.fresh = {}
     /\ k.op = "sweep" => args.store \in Stores /\ k.fresh = {}

\* What each transaction holds at each statement: its rows in the order
\* watermark, tokens, family.
HoldsOK(c) ==
  LET k == conns[c]
      args == conns[c].args
  IN /\ k.doomed \subseteq k.locks
     /\ k.op \notin {"consume", "sweep"} => k.doomed = {}
     /\ k.op = "rotate" =>
          \/ k.pc = "token" /\ k.locks = {}
          \/ k.pc = "family" /\ k.locks = TokenKeys({args.token})
          \/ k.pc = "commit" /\ k.locks \subseteq TokenKeys({args.token}) \cup FamilyKeys(Families)
     /\ k.op = "save" =>
          \/ k.pc = "upsert" /\ k.locks = {}
          \/ k.pc = "commit" /\ k.locks = FamilyKeys({args.row.family})
     /\ k.op = "revoke" =>
          \/ k.pc = "family" /\ k.locks = {}
          \/ k.pc = "commit" /\ k.locks \subseteq FamilyKeys({args.family})
     /\ k.op = "consume" =>
          \/ k.pc = "code" /\ k.locks = {}
          \/ k.pc = "commit" /\ k.locks \subseteq CodeKeys({args.code})
     /\ k.op \in {"jti", "consent"} =>
          \/ k.pc = "meta" /\ k.locks = {}
          \/ k.pc = "commit" /\ k.locks = {Meta}
     /\ k.op = "sweep" =>
          \/ k.pc = "meta" /\ k.locks = {}
          \/ /\ k.pc = "codes" /\ k.locks = {Meta} /\ k.doomed = {}
          \/ /\ k.pc = "select" /\ k.locks = {Meta} \cup k.doomed
             /\ k.doomed \subseteq CodeKeys(Codes) \cup JtiKeys(Jtis)
          \/ /\ k.pc \in {"tokens", "families"} /\ k.locks = {Meta} \cup k.doomed
             /\ k.doomed \subseteq CodeKeys(Codes) \cup JtiKeys(Jtis) \cup TokenKeys(Tokens)
          \/ /\ k.pc \in {"cascade", "commit"} /\ k.locks = {Meta} \cup k.doomed
             /\ k.doomed \subseteq RowKeys(Tokens, Families, Codes, Jtis)

\* Two transactions hold different rows, and rows that are there; what one has
\* generated is nobody else's and is not stored.
LocksOK ==
  /\ \A c \in Conns : /\ conns[c].locks \subseteq Stored \cup conns[c].fresh \cup {Meta}
                      /\ conns[c].fresh \cap Stored = {}
  /\ \A c, d \in Conns : c # d => /\ conns[c].locks \cap conns[d].locks = {}
                                  /\ conns[c].fresh \cap conns[d].fresh = {}

\* The statements of a sweep, that is, its rows for DELETE.
SweepSeen(c) ==
  LET k == conns[c]
      now == conns[c].args.now
  IN /\ k.pc \in {"select", "tokens", "families", "cascade", "commit"} =>
          /\ \A x \in DOMAIN authCodes : <<"code", x>> \in k.doomed <=> authCodes[x].expiresAt < now
          /\ \A j \in DOMAIN consentJtis : <<"jti", j>> \in k.doomed <=> consentJtis[j] < now
     /\ k.pc = "families" =>
          \A f \in DOMAIN families \ k.seen.present :
             \E t \in DOMAIN refreshTokens : /\ refreshTokens[t].family = f
                                             /\ <<"token", t>> \notin k.doomed
     /\ k.pc = "cascade" =>
          /\ \A f \in DOMAIN families :
               <<"family", f>> \notin k.doomed =>
                 \E t \in DOMAIN refreshTokens : /\ refreshTokens[t].family = f
                                                 /\ <<"token", t>> \notin k.doomed
          /\ \A t \in DOMAIN refreshTokens :
               <<"family", refreshTokens[t].family>> \in k.doomed /\ <<"token", t>> \notin k.doomed
                 => refreshTokens[t].family \notin k.seen.present
     /\ k.pc = "commit" =>
          \A f \in DOMAIN families :
             <<"family", f>> \in k.doomed <=>
               \A t \in DOMAIN refreshTokens :
                  refreshTokens[t].family = f => <<"token", t>> \in k.doomed

RotateSeen(c) ==
  LET k == conns[c]
      t == conns[c].args.token
  IN IF k.seen.row = None THEN k.seen.verdict = "none"
     ELSE /\ t \in DOMAIN refreshTokens
          /\ <<"token", t>> \in k.locks
          /\ <<"family", refreshTokens[t].family>> \in k.locks
          /\ k.seen.row = refreshTokens[t]
          /\ k.seen.verdict = Verdict(k.args)

RevokeSeen(c) ==
  LET k == conns[c] IN
  k.seen.revokes =>
    /\ <<"family", k.args.family>> \in k.locks
    /\ k.args.family \in DOMAIN families
    /\ k.args.resource # None => families[k.args.family].resource = k.args.resource

ConsumeSeen(c) ==
  LET k == conns[c]
      args == conns[c].args
  IN /\ <<"code", args.code>> \in k.doomed => ~WrongResource(args.code, args.resource)
     /\ k.seen.answer # None =>
          /\ <<"code", args.code>> \in k.doomed
          /\ k.seen.answer = ConsumeAuthCodeAnswer(args.code, args.now, args.generation, args.resource)

JtiSeen(c) ==
  LET k == conns[c]
      args == conns[c].args
  IN k.seen.verdict = IF k.op = "jti"
                      THEN IF ConsumeConsentJtiAnswer(args.jti, JtiExpiry[args.jti])
                           THEN "new" ELSE "replayed"
                      ELSE CommitConsentAnswer(args.instance, args.jti, JtiExpiry[args.jti])

\* What a transaction read is still so when it commits.
SeenOK(c) ==
  LET k == conns[c] IN
  /\ k.op = "sweep" => SweepSeen(c)
  /\ k.pc = "commit" => /\ k.op = "rotate" => RotateSeen(c)
                        /\ k.op = "revoke" => RevokeSeen(c)
                        /\ k.op = "consume" => ConsumeSeen(c)
                        /\ k.op \in {"jti", "consent"} => JtiSeen(c)

\* Every family has a token, and every token its family.
RowsOK ==
  /\ RowsMatchFamily
  /\ \A f \in DOMAIN families : \E t \in DOMAIN refreshTokens : refreshTokens[t].family = f

\* The tables are functions.
TablesOK ==
  /\ authCodes = [x \in DOMAIN authCodes |-> authCodes[x]]
  /\ refreshTokens = [t \in DOMAIN refreshTokens |-> refreshTokens[t]]
  /\ families = [f \in DOMAIN families |-> families[f]]
  /\ consentJtis = [j \in DOMAIN consentJtis |-> consentJtis[j]]

TimeOK == time \in Times /\ 0..time \subseteq Times

ConnsOK ==
  /\ conns = [c \in Conns |-> conns[c]]
  /\ \A c \in Conns : ConnShape(c) /\ ArgsOK(c) /\ InTime(c) /\ HoldsOK(c)

MysqlInv ==
  /\ StoreTypeOK /\ TablesOK /\ TimeOK /\ ConnsOK /\ LocksOK /\ RowsOK
  /\ \A c \in Conns : SeenOK(c)

\* Families that were saved while a sweep ran and that its DELETE met.
Lost(c) == {f \in DOMAIN families \ conns[c].seen.present : <<"family", f>> \in conns[c].doomed}

\* The two-step delete takes the tokens of dead families, no more and no less:
\* with an allowance for slow clocks, no dead family comes back to life.
SweepExact(c) ==
  LET k == conns[c]
      now == conns[c].args.now
  IN /\ k.pc = "tokens" =>
          /\ k.seen.dead \subseteq DOMAIN refreshTokens
          /\ \A t \in DOMAIN refreshTokens :
               t \notin RetainedTokens(now) <=> t \in k.seen.dead \/ <<"token", t>> \in k.doomed
     /\ k.pc \in {"families", "cascade"} =>
          \A t \in DOMAIN refreshTokens :
             t \notin RetainedTokens(now) <=> <<"token", t>> \in k.doomed
     /\ k.pc = "commit" =>
          \A t \in DOMAIN refreshTokens :
             <<"token", t>> \in k.doomed
               <=> t \notin RetainedTokens(now) \/ refreshTokens[t].family \in Lost(c)

SweepInv == \A c \in Conns : conns[c].op = "sweep" => SweepExact(c)

-----------------------------------------------------------------------------
(* Keys *)

\* A key names one row of one table.
LEMMA Keys ==
  ASSUME NEW S, NEW x
  PROVE  /\ <<"token", x>> \in TokenKeys(S) <=> x \in S
         /\ <<"family", x>> \in FamilyKeys(S) <=> x \in S
         /\ <<"code", x>> \in CodeKeys(S) <=> x \in S
         /\ <<"jti", x>> \in JtiKeys(S) <=> x \in S
BY DEF TokenKeys, FamilyKeys, CodeKeys, JtiKeys

\* No key is one of another table.
LEMMA KeysApart ==
  ASSUME NEW S, NEW x
  PROVE  /\ <<"token", x>> \notin FamilyKeys(S) \cup CodeKeys(S) \cup JtiKeys(S) \cup {Meta}
         /\ <<"family", x>> \notin TokenKeys(S) \cup CodeKeys(S) \cup JtiKeys(S) \cup {Meta}
         /\ <<"code", x>> \notin TokenKeys(S) \cup FamilyKeys(S) \cup JtiKeys(S) \cup {Meta}
         /\ <<"jti", x>> \notin TokenKeys(S) \cup FamilyKeys(S) \cup CodeKeys(S) \cup {Meta}
BY DEF TokenKeys, FamilyKeys, CodeKeys, JtiKeys, Meta

\* The watermark is no row of a table.
LEMMA MetaApart ==
  ASSUME NEW S
  PROVE  Meta \notin TokenKeys(S) \cup FamilyKeys(S) \cup CodeKeys(S) \cup JtiKeys(S)
BY DEF TokenKeys, FamilyKeys, CodeKeys, JtiKeys, Meta

\* The stored keys are those of the rows.
LEMMA StoredKeys ==
  ASSUME NEW x
  PROVE  /\ <<"token", x>> \in Stored <=> x \in DOMAIN refreshTokens
         /\ <<"family", x>> \in Stored <=> x \in DOMAIN families
         /\ <<"code", x>> \in Stored <=> x \in DOMAIN authCodes
         /\ <<"jti", x>> \in Stored <=> x \in DOMAIN consentJtis
BY Keys, KeysApart DEF Stored, RowKeys

\* And those of the next state.
LEMMA StoredNext ==
  ASSUME NEW x
  PROVE  /\ <<"token", x>> \in Stored' <=> x \in DOMAIN refreshTokens'
         /\ <<"family", x>> \in Stored' <=> x \in DOMAIN families'
         /\ <<"code", x>> \in Stored' <=> x \in DOMAIN authCodes'
         /\ <<"jti", x>> \in Stored' <=> x \in DOMAIN consentJtis'
BY Keys, KeysApart DEF Stored, RowKeys

\* A single key in a set of one.
LEMMA OneKey ==
  ASSUME NEW x
  PROVE  /\ TokenKeys({x}) = {<<"token", x>>} /\ FamilyKeys({x}) = {<<"family", x>>}
         /\ CodeKeys({x}) = {<<"code", x>>} /\ JtiKeys({x}) = {<<"jti", x>>}
BY DEF TokenKeys, FamilyKeys, CodeKeys, JtiKeys

-----------------------------------------------------------------------------
(* Steps of one connection *)

\* Only c's transaction moves on.
Moves(c) ==
  /\ conns' = [d \in Conns |-> conns'[d]]
  /\ \A d \in Conns \ {c} : conns'[d] = conns[d]
  /\ ConnShape(c)'

\* The records that statements write.
Read(k, pc, seen) == [k EXCEPT !.pc = pc, !.seen = seen]
Locked(k, pc, seen, new) == [k EXCEPT !.pc = pc, !.seen = seen, !.locks = @ \cup new]
Deleted(k, pc, seen, new) ==
  [k EXCEPT !.pc = pc, !.seen = seen, !.locks = @ \cup new, !.doomed = @ \cup new]

\* What a statement that reads writes.
LEMMA ReadRecord ==
  ASSUME NEW op, NEW oldPc, NEW args, NEW fresh, NEW locks, NEW oldSeen, NEW doomed,
         NEW k, k = Record(op, oldPc, args, fresh, locks, oldSeen, doomed),
         NEW pc, NEW seen
  PROVE  Read(k, pc, seen) = Record(op, pc, args, fresh, locks, seen, doomed)
<1>1. [k EXCEPT !.pc = pc] = Record(op, pc, args, fresh, locks, oldSeen, doomed)
  BY DEF Record
<1>2. \A r : r = Record(op, pc, args, fresh, locks, oldSeen, doomed)
           => [r EXCEPT !.seen = seen] = Record(op, pc, args, fresh, locks, seen, doomed)
  BY DEF Record
<1> QED BY <1>1, <1>2, Zenon DEF Read

\* What a statement that locks writes.
LEMMA LockedRecord ==
  ASSUME NEW op, NEW oldPc, NEW args, NEW fresh, NEW locks, NEW oldSeen, NEW doomed,
         NEW k, k = Record(op, oldPc, args, fresh, locks, oldSeen, doomed),
         NEW pc, NEW seen, NEW new
  PROVE  Locked(k, pc, seen, new)
           = Record(op, pc, args, fresh, locks \cup new, seen, doomed)
<1> DEFINE now == k.locks \cup new
<1>1. k.locks = locks
  BY DEF Record
<1>2. Read(k, pc, seen) = Record(op, pc, args, fresh, locks, seen, doomed)
  BY ReadRecord
<1> HIDE DEF now
<1>3. \A r : r = Record(op, pc, args, fresh, locks, seen, doomed)
           => [r EXCEPT !.locks = now] = Record(op, pc, args, fresh, now, seen, doomed)
  BY DEF Record
<1>4. [Read(k, pc, seen) EXCEPT !.locks = now] = Record(op, pc, args, fresh, now, seen, doomed)
  BY <1>2, <1>3, Zenon
<1> QED BY <1>1, <1>4, Zenon DEF Locked, Read, now

\* What a DELETE writes.
LEMMA DeletedRecord ==
  ASSUME NEW op, NEW oldPc, NEW args, NEW fresh, NEW locks, NEW oldSeen, NEW doomed,
         NEW k, k = Record(op, oldPc, args, fresh, locks, oldSeen, doomed),
         NEW pc, NEW seen, NEW new
  PROVE  Deleted(k, pc, seen, new)
           = Record(op, pc, args, fresh, locks \cup new, seen, doomed \cup new)
<1> DEFINE gone == k.doomed \cup new
<1>1. k.doomed = doomed
  BY DEF Record
<1>2. Locked(k, pc, seen, new) = Record(op, pc, args, fresh, locks \cup new, seen, doomed)
  BY LockedRecord
<1> HIDE DEF gone
<1>3. \A r : r = Record(op, pc, args, fresh, locks \cup new, seen, doomed)
           => [r EXCEPT !.doomed = gone]
                = Record(op, pc, args, fresh, locks \cup new, seen, gone)
  BY DEF Record
<1>4. [Locked(k, pc, seen, new) EXCEPT !.doomed = gone]
        = Record(op, pc, args, fresh, locks \cup new, seen, gone)
  BY <1>2, <1>3, Zenon
<1> QED BY <1>1, <1>4, Zenon DEF Deleted, Locked, gone

\* The fields of such a record.
LEMMA RecordFields ==
  ASSUME NEW op, NEW pc, NEW args, NEW fresh, NEW locks, NEW seen, NEW doomed,
         NEW k, k = Record(op, pc, args, fresh, locks, seen, doomed)
  PROVE  /\ k.op = op /\ k.pc = pc /\ k.args = args /\ k.fresh = fresh
         /\ k.locks = locks /\ k.seen = seen /\ k.doomed = doomed
         /\ k = Record(k.op, k.pc, k.args, k.fresh, k.locks, k.seen, k.doomed)
BY DEF Record

\* SetConn(c, r) is such a step.
LEMMA SetConnMoves ==
  ASSUME ConnsOK, NEW c \in Conns, NEW r, SetConn(c, r),
         r = Record(r.op, r.pc, r.args, r.fresh, r.locks, r.seen, r.doomed)
  PROVE  Moves(c) /\ conns'[c] = r
<1>1. conns' = [conns EXCEPT ![c] = r]
  BY DEF SetConn
<1>2. conns = [d \in Conns |-> conns[d]]
  BY DEF ConnsOK
<1>3. conns' = [d \in Conns |-> IF d = c THEN r ELSE conns[d]]
  BY <1>1, <1>2
<1>4. conns'[c] = r /\ \A d \in Conns \ {c} : conns'[d] = conns[d]
  BY <1>3
<1>5. conns' = [d \in Conns |-> conns'[d]]
  BY <1>3
<1> QED BY <1>4, <1>5 DEF Moves, ConnShape

\* What a statement does to its own connection.
Goes(c, pc, new, seen, gone) ==
  /\ Moves(c)
  /\ UNCHANGED <<storeVars, expiryVars, time>>
  /\ conns'[c].op = conns[c].op /\ conns'[c].args = conns[c].args
  /\ conns'[c].fresh = conns[c].fresh
  /\ conns'[c].pc = pc /\ conns'[c].seen = seen
  /\ conns'[c].locks = conns[c].locks \cup new
  /\ conns'[c].doomed = conns[c].doomed \cup gone

\* Keys that c may take: they exist and nobody else holds them.
Takes(c, new) ==
  /\ new \subseteq Stored \cup conns[c].fresh \cup {Meta}
  /\ \A d \in Conns \ {c} : conns[d].locks \cap new = {}

\* A locking statement.
LEMMA LockGoes ==
  ASSUME ConnsOK, NEW c \in Conns, NEW keys, NEW pc, NEW seen, Lock(c, keys, pc, seen)
  PROVE  /\ Goes(c, pc, keys \cap (Stored \cup conns[c].fresh \cup {Meta}), seen, {})
         /\ Takes(c, keys \cap (Stored \cup conns[c].fresh \cup {Meta}))
<1> DEFINE k == conns[c]
           new == keys \cap (Stored \cup k.fresh \cup {Meta})
           r == Locked(k, pc, seen, new)
<1>1. r = Record(k.op, pc, k.args, k.fresh, k.locks \cup new, seen, k.doomed)
  <2>1. k = Record(k.op, k.pc, k.args, k.fresh, k.locks, k.seen, k.doomed)
    BY DEF ConnsOK, ConnShape
  <2> HIDE DEF k, new
  <2> QED BY <2>1, LockedRecord
<1>2. SetConn(c, r) /\ Unlocked(c, keys) /\ UNCHANGED <<storeVars, expiryVars, time>>
  BY DEF Lock, Locked
<1> HIDE DEF r
<1>3. /\ r.op = k.op /\ r.pc = pc /\ r.args = k.args /\ r.fresh = k.fresh
      /\ r.locks = k.locks \cup new /\ r.seen = seen /\ r.doomed = k.doomed
      /\ r = Record(r.op, r.pc, r.args, r.fresh, r.locks, r.seen, r.doomed)
  BY <1>1, RecordFields
<1>4. Moves(c) /\ conns'[c] = r
  BY <1>2, <1>3, SetConnMoves
<1>5. Goes(c, pc, new, seen, {})
  BY <1>2, <1>3, <1>4 DEF Goes
<1>6. Takes(c, new)
  BY <1>2 DEF Takes, Unlocked
<1> QED BY <1>5, <1>6

\* A DELETE.
LEMMA DeleteGoes ==
  ASSUME ConnsOK, NEW c \in Conns, NEW keys, NEW pc, NEW seen, Delete(c, keys, pc, seen)
  PROVE  /\ Goes(c, pc, keys \cap Stored, seen, keys \cap Stored)
         /\ Takes(c, keys \cap Stored)
<1> DEFINE k == conns[c]
           new == keys \cap Stored
           r == Deleted(k, pc, seen, new)
<1>1. r = Record(k.op, pc, k.args, k.fresh, k.locks \cup new, seen, k.doomed \cup new)
  <2>1. k = Record(k.op, k.pc, k.args, k.fresh, k.locks, k.seen, k.doomed)
    BY DEF ConnsOK, ConnShape
  <2> HIDE DEF k, new
  <2> QED BY <2>1, DeletedRecord
<1>2. SetConn(c, r) /\ Unlocked(c, keys) /\ UNCHANGED <<storeVars, expiryVars, time>>
  BY DEF Delete, Deleted
<1> HIDE DEF r
<1>3. /\ r.op = k.op /\ r.pc = pc /\ r.args = k.args /\ r.fresh = k.fresh
      /\ r.locks = k.locks \cup new /\ r.seen = seen /\ r.doomed = k.doomed \cup new
      /\ r = Record(r.op, r.pc, r.args, r.fresh, r.locks, r.seen, r.doomed)
  BY <1>1, RecordFields
<1>4. Moves(c) /\ conns'[c] = r
  BY <1>2, <1>3, SetConnMoves
<1>5. Goes(c, pc, new, seen, new)
  BY <1>2, <1>3, <1>4 DEF Goes
<1>6. Takes(c, new)
  BY <1>2 DEF Takes, Unlocked
<1> QED BY <1>5, <1>6

-----------------------------------------------------------------------------
(* What the others' steps leave to a transaction *)

\* The step leaves alone what d has locked; d's new keys are still new; and
\* while d holds the watermark, rows are added but none is taken.
KeptFor(d) ==
  LET k == conns[d] IN
  /\ conns'[d] = conns[d]
  /\ \A t \in DOMAIN refreshTokens :
       <<"token", t>> \in k.locks
         => t \in DOMAIN refreshTokens' /\ refreshTokens'[t] = refreshTokens[t]
  /\ \A f \in DOMAIN families :
       <<"family", f>> \in k.locks => f \in DOMAIN families' /\ families'[f] = families[f]
  /\ \A x \in DOMAIN authCodes :
       <<"code", x>> \in k.locks => x \in DOMAIN authCodes' /\ authCodes'[x] = authCodes[x]
  /\ k.fresh \cap Stored' = {}
  /\ Meta \in k.locks =>
       /\ UNCHANGED <<consentJtis, sweptThrough, storeInstanceId>>
       /\ \A x \in DOMAIN authCodes' : x \in DOMAIN authCodes /\ authCodes'[x] = authCodes[x]
       /\ \A t \in DOMAIN refreshTokens :
            /\ t \in DOMAIN refreshTokens'
            /\ refreshTokens'[t].family = refreshTokens[t].family
            /\ refreshTokens'[t].expiresAt = refreshTokens[t].expiresAt
       /\ \A t \in DOMAIN refreshTokens' \ DOMAIN refreshTokens :
            <<"family", refreshTokens'[t].family>> \notin k.locks
       /\ \A f \in DOMAIN families : f \in DOMAIN families'
       /\ \A f \in DOMAIN families' \ DOMAIN families :
            \E t \in DOMAIN refreshTokens' \ DOMAIN refreshTokens : refreshTokens'[t].family = f

\* The verdict on a rotation depends on its token's row, the family's row and
\* on its successor being new.
LEMMA VerdictSame ==
  ASSUME NEW args,
         args.token \in DOMAIN refreshTokens, args.token \in DOMAIN refreshTokens',
         refreshTokens'[args.token] = refreshTokens[args.token],
         refreshTokens[args.token].family \in DOMAIN families,
         refreshTokens[args.token].family \in DOMAIN families',
         families'[refreshTokens[args.token].family] = families[refreshTokens[args.token].family],
         args.next.token \notin DOMAIN refreshTokens,
         args.next.token \notin DOMAIN refreshTokens'
  PROVE  Verdict(args)' = Verdict(args)
<1> DEFINE t == args.token
<1>1. Addressable(t, args.generation, args.resource)'
        <=> Addressable(t, args.generation, args.resource)
  BY DEF Addressable
<1>2. Rotates(t, args.next, args.now, args.generation, args.resource)'
        <=> Rotates(t, args.next, args.now, args.generation, args.resource)
  BY <1>1 DEF Rotates
<1>3. IsReplay(t, args.generation, args.resource)'
        <=> IsReplay(t, args.generation, args.resource)
  BY <1>1 DEF IsReplay
<1> QED BY <1>2, <1>3 DEF Verdict

\* A rotation's reading of its token stands.
LEMMA RotateKept ==
  ASSUME MysqlInv, NEW d \in Conns, KeptFor(d), RotateSeen(d), conns[d].op = "rotate"
  PROVE  RotateSeen(d)'
<1>1. conns'[d] = conns[d]
  BY DEF KeptFor
<1>2. CASE conns[d].seen.row = None
  BY <1>1, <1>2 DEF RotateSeen
<1>3. CASE conns[d].seen.row # None
  <2>0. PICK k : k = conns[d]
    OBVIOUS
  <2> DEFINE t == k.args.token
             f == refreshTokens[t].family
  <2>1. /\ t \in DOMAIN refreshTokens /\ <<"token", t>> \in k.locks
        /\ <<"family", f>> \in k.locks
        /\ k.seen.row = refreshTokens[t] /\ k.seen.verdict = Verdict(k.args)
    BY <1>3, <2>0 DEF RotateSeen
  <2>2. t \in DOMAIN refreshTokens' /\ refreshTokens'[t] = refreshTokens[t]
    BY <2>0, <2>1 DEF KeptFor
  <2>3. f \in DOMAIN families
    BY <2>1 DEF MysqlInv, RowsOK, RowsMatchFamily
  <2>4. f \in DOMAIN families' /\ families'[f] = families[f]
    BY <2>0, <2>1, <2>3 DEF KeptFor
  <2>5. k.args.next.token \notin DOMAIN refreshTokens /\ k.args.next.token \notin DOMAIN refreshTokens'
    <3>1. <<"token", k.args.next.token>> \in k.fresh
      <4>1. RotateArgs(d)
        BY DEF MysqlInv, ConnsOK, ArgsOK
      <4> QED BY <2>0, <4>1, Keys DEF RotateArgs
    <3>2. k.fresh \cap Stored = {} /\ k.fresh \cap Stored' = {}
      BY <2>0 DEF MysqlInv, LocksOK, KeptFor
    <3> QED BY <3>1, <3>2, StoredKeys, StoredNext
  <2>6. Verdict(k.args)' = Verdict(k.args)
    BY <2>1, <2>2, <2>3, <2>4, <2>5, VerdictSame
  <2> QED BY <1>1, <2>0, <2>1, <2>2, <2>6 DEF RotateSeen
<1> QED BY <1>2, <1>3

\* So does a revocation's of its family, and a redemption's of its code.
LEMMA RevokeKept ==
  ASSUME MysqlInv, NEW d \in Conns, KeptFor(d), RevokeSeen(d)
  PROVE  RevokeSeen(d)'
BY DEF KeptFor, RevokeSeen

LEMMA ConsumeKept ==
  ASSUME MysqlInv, NEW d \in Conns, KeptFor(d), ConsumeSeen(d), conns[d].op = "consume"
  PROVE  ConsumeSeen(d)'
<1>1. conns'[d] = conns[d]
  BY DEF KeptFor
<1>2. PICK k : k = conns[d]
  OBVIOUS
<1> DEFINE args == k.args
           x == k.args.code
<1>3. CASE <<"code", x>> \notin k.doomed
  BY <1>1, <1>2, <1>3 DEF ConsumeSeen
<1>4. CASE <<"code", x>> \in k.doomed
  <2>1. k.doomed \subseteq k.locks /\ k.locks \subseteq Stored \cup k.fresh \cup {Meta}
        /\ k.fresh = {}
    BY <1>2 DEF MysqlInv, ConnsOK, HoldsOK, ArgsOK, LocksOK
  <2>2. <<"code", x>> \in k.locks /\ x \in DOMAIN authCodes
    <3>1. <<"code", x>> # Meta
      BY DEF Meta
    <3> QED BY <1>4, <2>1, <3>1, StoredKeys
  <2>3. x \in DOMAIN authCodes' /\ authCodes'[x] = authCodes[x]
    BY <1>2, <2>2 DEF KeptFor
  <2>4. WrongResource(x, args.resource)' <=> WrongResource(x, args.resource)
    BY <2>2, <2>3 DEF WrongResource
  <2>5. ConsumeAuthCodeAnswer(x, args.now, args.generation, args.resource)'
          = ConsumeAuthCodeAnswer(x, args.now, args.generation, args.resource)
    BY <2>2, <2>3, <2>4 DEF ConsumeAuthCodeAnswer
  <2> QED BY <1>1, <1>2, <2>4, <2>5 DEF ConsumeSeen
<1> QED BY <1>3, <1>4

\* The watermark's readers see what they saw.
LEMMA JtiKept ==
  ASSUME MysqlInv, NEW d \in Conns, KeptFor(d), JtiSeen(d), Meta \in conns[d].locks
  PROVE  JtiSeen(d)'
<1>1. /\ conns'[d] = conns[d]
      /\ UNCHANGED <<consentJtis, sweptThrough, storeInstanceId>>
  BY DEF KeptFor
<1> QED BY <1>1 DEF JtiSeen, ConsumeConsentJtiAnswer, CommitConsentAnswer, JtiSpent

\* So do the lists a sweep made.
LEMMA SweepKept ==
  ASSUME MysqlInv, NEW d \in Conns, KeptFor(d), conns[d].op = "sweep", SweepSeen(d)
  PROVE  SweepSeen(d)'
<1>1. conns'[d] = conns[d]
  BY DEF KeptFor
<1>2. PICK k : k = conns[d]
  OBVIOUS
<1>3. k.doomed \subseteq k.locks /\ k.locks \subseteq Stored \cup {Meta}
  BY <1>2 DEF MysqlInv, ConnsOK, HoldsOK, ArgsOK, LocksOK
<1>4. CASE k.pc \notin {"select", "tokens", "families", "cascade", "commit"}
  BY <1>1, <1>2, <1>4 DEF SweepSeen
<1>5. CASE k.pc \in {"select", "tokens", "families", "cascade", "commit"}
  <2>1. Meta \in k.locks
    BY <1>2, <1>5 DEF MysqlInv, ConnsOK, HoldsOK
  <2>2. /\ consentJtis' = consentJtis
        /\ \A x \in DOMAIN authCodes' : x \in DOMAIN authCodes /\ authCodes'[x] = authCodes[x]
        /\ \A t \in DOMAIN refreshTokens :
             t \in DOMAIN refreshTokens' /\ refreshTokens'[t].family = refreshTokens[t].family
        /\ \A t \in DOMAIN refreshTokens' \ DOMAIN refreshTokens :
             <<"family", refreshTokens'[t].family>> \notin k.locks
        /\ \A f \in DOMAIN families : f \in DOMAIN families'
        /\ \A f \in DOMAIN families' \ DOMAIN families :
             \E t \in DOMAIN refreshTokens' \ DOMAIN refreshTokens : refreshTokens'[t].family = f
    BY <1>2, <2>1 DEF KeptFor
  <2>3. /\ \A x \in DOMAIN authCodes : <<"code", x>> \in k.doomed <=> authCodes[x].expiresAt < k.args.now
        /\ \A j \in DOMAIN consentJtis : <<"jti", j>> \in k.doomed <=> consentJtis[j] < k.args.now
    BY <1>2, <1>5 DEF SweepSeen
  <2>4. ASSUME NEW t \in DOMAIN refreshTokens' \ DOMAIN refreshTokens
        PROVE  <<"token", t>> \notin k.doomed
    <3>1. <<"token", t>> \notin Stored /\ <<"token", t>> # Meta
      BY StoredKeys DEF Meta
    <3> QED BY <1>3, <3>1
  <2>5. ASSUME NEW f \in DOMAIN families' \ DOMAIN families
        PROVE  <<"family", f>> \notin k.doomed
    <3>1. <<"family", f>> \notin Stored /\ <<"family", f>> # Meta
      BY StoredKeys DEF Meta
    <3> QED BY <1>3, <3>1
  <2>6. CASE k.pc \in {"select", "tokens"}
    BY <1>1, <1>2, <2>2, <2>3, <2>6 DEF SweepSeen
  <2>7. CASE k.pc = "families"
    <3>1. \A f \in DOMAIN families \ k.seen.present :
             \E t \in DOMAIN refreshTokens : /\ refreshTokens[t].family = f
                                             /\ <<"token", t>> \notin k.doomed
      BY <1>2, <2>7 DEF SweepSeen
    <3>2. \A f \in DOMAIN families' \ k.seen.present :
             \E t \in DOMAIN refreshTokens' : /\ refreshTokens'[t].family = f
                                              /\ <<"token", t>> \notin k.doomed
      BY <2>2, <2>4, <3>1
    <3> QED BY <1>1, <1>2, <2>2, <2>3, <2>7, <3>2 DEF SweepSeen
  <2>8. CASE k.pc = "commit"
    <3>1. \A f \in DOMAIN families :
             <<"family", f>> \in k.doomed <=>
               \A t \in DOMAIN refreshTokens :
                  refreshTokens[t].family = f => <<"token", t>> \in k.doomed
      BY <1>2, <2>8 DEF SweepSeen
    <3>2. ASSUME NEW f \in DOMAIN families'
          PROVE  <<"family", f>> \in k.doomed <=>
                   \A t \in DOMAIN refreshTokens' :
                      refreshTokens'[t].family = f => <<"token", t>> \in k.doomed
      <4>1. CASE f \in DOMAIN families
        BY <1>3, <2>2, <2>4, <3>1, <4>1
      <4>2. CASE f \notin DOMAIN families
        BY <2>2, <2>4, <2>5, <4>2
      <4> QED BY <4>1, <4>2
    <3> QED BY <1>1, <1>2, <2>2, <2>3, <2>8, <3>2 DEF SweepSeen
  <2>9. CASE k.pc = "cascade"
    <3>1. /\ \A f \in DOMAIN families :
               <<"family", f>> \notin k.doomed =>
                 \E t \in DOMAIN refreshTokens : /\ refreshTokens[t].family = f
                                                 /\ <<"token", t>> \notin k.doomed
          /\ \A t \in DOMAIN refreshTokens :
               <<"family", refreshTokens[t].family>> \in k.doomed /\ <<"token", t>> \notin k.doomed
                 => refreshTokens[t].family \notin k.seen.present
      BY <1>2, <2>9 DEF SweepSeen
    <3>2. \A f \in DOMAIN families' :
             <<"family", f>> \notin k.doomed =>
               \E t \in DOMAIN refreshTokens' : /\ refreshTokens'[t].family = f
                                                /\ <<"token", t>> \notin k.doomed
      BY <2>2, <2>4, <3>1
    <3>3. \A t \in DOMAIN refreshTokens' :
             <<"family", refreshTokens'[t].family>> \in k.doomed /\ <<"token", t>> \notin k.doomed
               => refreshTokens'[t].family \notin k.seen.present
      <4>1. \A t \in DOMAIN refreshTokens' \ DOMAIN refreshTokens :
               <<"family", refreshTokens'[t].family>> \notin k.doomed
        BY <1>2, <1>5, <2>2 DEF MysqlInv, ConnsOK, HoldsOK
      <4> QED BY <2>2, <3>1, <4>1
    <3> QED BY <1>1, <1>2, <2>2, <2>3, <2>9, <3>2, <3>3 DEF SweepSeen
  <2> QED BY <1>5, <2>6, <2>7, <2>8, <2>9
<1> QED BY <1>4, <1>5

\* What a transaction read stands while the others go on.
LEMMA SeenKept ==
  ASSUME MysqlInv, NEW d \in Conns, KeptFor(d)
  PROVE  SeenOK(d)'
<1>1. conns'[d] = conns[d] /\ SeenOK(d)
  BY DEF KeptFor, MysqlInv
<1>2. CASE conns[d].op = "sweep"
  BY <1>1, <1>2, SweepKept DEF SeenOK
<1>3. CASE conns[d].op = "rotate"
  BY <1>1, <1>3, RotateKept DEF SeenOK
<1>4. CASE conns[d].op = "revoke"
  BY <1>1, <1>4, RevokeKept DEF SeenOK
<1>5. CASE conns[d].op = "consume"
  BY <1>1, <1>5, ConsumeKept DEF SeenOK
<1>6. CASE conns[d].op \in {"jti", "consent"}
  <2>1. conns[d].pc = "commit" => Meta \in conns[d].locks
    BY <1>6 DEF MysqlInv, ConnsOK, HoldsOK
  <2> QED BY <1>1, <1>6, <2>1, JtiKept DEF SeenOK
<1>7. CASE conns[d].op \notin {"sweep", "rotate", "revoke", "consume", "jti", "consent"}
  BY <1>1, <1>7 DEF SeenOK
<1> QED BY <1>2, <1>3, <1>4, <1>5, <1>6, <1>7

\* Its arguments, and what it holds, are its own.
LEMMA OwnKept ==
  ASSUME NEW d \in Conns, conns'[d] = conns[d]
  PROVE  /\ ConnShape(d) => ConnShape(d)'
         /\ ArgsOK(d) => ArgsOK(d)'
         /\ HoldsOK(d) => HoldsOK(d)'
         /\ InTime(d) /\ time' = time => InTime(d)'
BY DEF ConnShape, ArgsOK, RotateArgs, SaveArgs, HoldsOK, InTime

\* A step that leaves the tables alone leaves everything to the others.
LEMMA StillKept ==
  ASSUME MysqlInv, NEW d \in Conns, conns'[d] = conns[d], UNCHANGED storeVars
  PROVE  KeptFor(d)
<1>1. Stored' = Stored
  BY DEF storeVars, Stored, RowKeys
<1> QED BY <1>1 DEF storeVars, KeptFor, MysqlInv, LocksOK

-----------------------------------------------------------------------------
(* Statements *)

\* A statement keeps the invariant if what it takes is free and what it read
\* is what it says.
LEMMA StatementKeeps ==
  ASSUME MysqlInv, NEW c \in Conns, NEW pc, NEW new, NEW seen, NEW gone,
         Goes(c, pc, new, seen, gone), Takes(c, new), conns[c].op # "none",
         HoldsOK(c)', SeenOK(c)'
  PROVE  MysqlInv'
<1>1. /\ conns' = [d \in Conns |-> conns'[d]]
      /\ \A d \in Conns \ {c} : conns'[d] = conns[d]
      /\ ConnShape(c)' /\ UNCHANGED storeVars /\ time' = time
      /\ conns'[c].op = conns[c].op /\ conns'[c].args = conns[c].args
      /\ conns'[c].fresh = conns[c].fresh
      /\ conns'[c].locks = conns[c].locks \cup new
  BY DEF Goes, Moves
<1>2. StoreTypeOK' /\ TablesOK' /\ RowsOK' /\ TimeOK'
  BY <1>1 DEF MysqlInv, storeVars, StoreTypeOK, AuthCodesOK, TokensOK, FamiliesOK, ConsentsOK,
              TablesOK, RowsOK, RowsMatchFamily, TimeOK
<1>3. \A d \in Conns \ {c} : SeenOK(d)'
  BY <1>1, StillKept, SeenKept
<1>4. ConnsOK'
  <2>1. ArgsOK(c)' /\ InTime(c)'
    <3>1. ArgsOK(c) /\ InTime(c)
      BY DEF MysqlInv, ConnsOK
    <3> QED BY <1>1, <3>1 DEF ArgsOK, RotateArgs, SaveArgs, InTime
  <2>2. ASSUME NEW d \in Conns \ {c}
        PROVE  ConnShape(d)' /\ ArgsOK(d)' /\ InTime(d)' /\ HoldsOK(d)'
    BY <1>1, OwnKept DEF MysqlInv, ConnsOK
  <2> QED BY <1>1, <2>1, <2>2 DEF ConnsOK
<1>5. LocksOK'
  <2>1. Stored' = Stored
    BY <1>1 DEF storeVars, Stored, RowKeys
  <2>2. \A d \in Conns : conns'[d].fresh = conns[d].fresh
    BY <1>1
  <2>3. ASSUME NEW d \in Conns
        PROVE  conns'[d].locks \subseteq Stored \cup conns[d].fresh \cup {Meta}
    BY <1>1 DEF MysqlInv, LocksOK, Takes
  <2>4. ASSUME NEW d \in Conns, NEW e \in Conns, d # e
        PROVE  conns'[d].locks \cap conns'[e].locks = {}
    BY <1>1, <2>4 DEF MysqlInv, LocksOK, Takes
  <2>5. \A d, e \in Conns : d # e => conns[d].fresh \cap conns[e].fresh = {}
    BY DEF MysqlInv, LocksOK
  <2>6. \A d \in Conns : conns[d].fresh \cap Stored = {}
    BY DEF MysqlInv, LocksOK
  <2>7. Meta' = Meta
    BY DEF Meta
  <2> QED BY <2>1, <2>2, <2>3, <2>4, <2>5, <2>6, <2>7 DEF LocksOK
<1> QED BY <1>2, <1>3, <1>4, <1>5 DEF MysqlInv

\* What c is and holds before its statement.
LEMMA Before ==
  ASSUME MysqlInv, NEW c \in Conns
  PROVE  /\ ConnsOK /\ ArgsOK(c) /\ HoldsOK(c) /\ SeenOK(c)
         /\ conns[c].locks \subseteq Stored \cup conns[c].fresh \cup {Meta}
         /\ conns[c].fresh \cap Stored = {}
BY DEF MysqlInv, ConnsOK, LocksOK

\* A rotation locks its token.
LEMMA LockTokenKeeps ==
  ASSUME MysqlInv, NEW c \in Conns, LockToken(c)
  PROVE  MysqlInv'
<1> DEFINE t == conns[c].args.token
           keys == TokenKeys({t})
           new == keys \cap (Stored \cup conns[c].fresh \cup {Meta})
<1>0. conns[c].op = "rotate" /\ conns[c].pc = "token" /\ conns[c].locks = {}
      /\ conns[c].doomed = {}
  BY Before DEF LockToken, HoldsOK
<1>1. CASE t \in DOMAIN refreshTokens
  <2>1. Lock(c, keys, "family", None)
    BY <1>1 DEF LockToken, RotateLocks
  <2>2. Goes(c, "family", new, None, {}) /\ Takes(c, new)
    BY <2>1, LockGoes, Before
  <2>3. new = keys
    <3>1. keys = {<<"token", t>>}
      BY OneKey
    <3>2. <<"token", t>> \in Stored
      BY <1>1, StoredKeys
    <3> HIDE DEF t, keys
    <3> QED BY <3>1, <3>2
  <2>4. /\ conns'[c].op = "rotate" /\ conns'[c].pc = "family"
        /\ conns'[c].locks = TokenKeys({conns'[c].args.token}) /\ conns'[c].doomed = {}
    <3>1. conns'[c].locks = TokenKeys({t})
      BY <1>0, <2>2, <2>3 DEF Goes
    <3>2. /\ conns'[c].op = "rotate" /\ conns'[c].pc = "family"
          /\ conns'[c].args = conns[c].args /\ conns'[c].doomed = {}
      BY <1>0, <2>2 DEF Goes
    <3> QED BY <3>1, <3>2
  <2>5. HoldsOK(c)' /\ SeenOK(c)'
    BY <2>4 DEF HoldsOK, SeenOK, TokenKeys
  <2> QED BY <1>0, <2>2, <2>5, StatementKeeps
<1>2. CASE t \notin DOMAIN refreshTokens
  <2>1. Lock(c, keys, "commit", NoRow)
    BY <1>2 DEF LockToken
  <2>2. Goes(c, "commit", new, NoRow, {}) /\ Takes(c, new)
    BY <2>1, LockGoes, Before
  <2>3. HoldsOK(c)'
    BY <1>0, <2>2 DEF Goes, HoldsOK
  <2>4. SeenOK(c)'
    BY <1>0, <2>2 DEF Goes, SeenOK, RotateSeen, NoRow
  <2> QED BY <1>0, <2>2, <2>3, <2>4, StatementKeeps
<1> QED BY <1>1, <1>2

\* Then the family of that token, and reads both.
LEMMA LockFamilyKeeps ==
  ASSUME MysqlInv, NEW c \in Conns, LockFamily(c)
  PROVE  MysqlInv'
<1>0. PICK k : k = conns[c]
  OBVIOUS
<1> DEFINE t == k.args.token
           row == refreshTokens[t]
           keys == FamilyKeys({row.family})
           new == keys \cap (Stored \cup k.fresh \cup {Meta})
           seen == [verdict |-> Verdict(k.args), row |-> row]
<1>1. k.op = "rotate" /\ k.pc = "family" /\ k.locks = TokenKeys({t}) /\ k.doomed = {}
  BY <1>0, Before DEF LockFamily, HoldsOK
<1>2. t \in DOMAIN refreshTokens /\ k.args.next.token \notin DOMAIN refreshTokens
  <2>1. k.fresh = {<<"token", k.args.next.token>>} /\ t # k.args.next.token
    <3>1. RotateArgs(c)
      BY <1>0, <1>1, Before DEF ArgsOK
    <3> QED BY <1>0, <3>1, OneKey DEF RotateArgs
  <2>2. <<"token", t>> \in k.locks /\ <<"token", t>> \notin k.fresh /\ <<"token", t>> # Meta
    <3>1. k.locks = {<<"token", t>>}
      BY <1>1, OneKey
    <3>2. <<"token", t>> # Meta
      BY DEF Meta
    <3> HIDE DEF t
    <3> QED BY <2>1, <3>1, <3>2
  <2>3. <<"token", k.args.next.token>> \in k.fresh
    BY <2>1, Keys
  <2> QED BY <1>0, <2>2, <2>3, Before, StoredKeys
<1>3. row \in RefreshTokenRow /\ row.family \in DOMAIN families /\ row # None
  BY <1>2, RowAssumption DEF MysqlInv, StoreTypeOK, TokensOK, RowsOK, RowsMatchFamily
<1>4. Lock(c, keys, "commit", seen)
  BY <1>0, <1>2 DEF LockFamily, RotateLocks
<1>5. Goes(c, "commit", new, seen, {}) /\ Takes(c, new)
  BY <1>0, <1>4, LockGoes, Before
<1>6. new = {<<"family", row.family>>}
  <2>1. keys = {<<"family", row.family>>}
    BY OneKey
  <2>2. <<"family", row.family>> \in Stored
    BY <1>3, StoredKeys
  <2> HIDE DEF row, keys
  <2> QED BY <2>1, <2>2
<1>7. /\ conns'[c].op = "rotate" /\ conns'[c].pc = "commit" /\ conns'[c].args = k.args
      /\ conns'[c].locks = {<<"token", t>>, <<"family", row.family>>}
      /\ conns'[c].seen = seen /\ conns'[c].doomed = {}
      /\ refreshTokens' = refreshTokens /\ families' = families
  <2>1. TokenKeys({t}) = {<<"token", t>>}
    BY OneKey
  <2>2. /\ conns'[c].op = k.op /\ conns'[c].pc = "commit" /\ conns'[c].args = k.args
        /\ conns'[c].locks = k.locks \cup new /\ conns'[c].seen = seen
        /\ conns'[c].doomed = k.doomed \cup {}
        /\ refreshTokens' = refreshTokens /\ families' = families
    BY <1>0, <1>5 DEF Goes, storeVars
  <2> HIDE DEF seen, new, t, row
  <2> QED BY <1>1, <1>6, <2>1, <2>2
<1>8. HoldsOK(c)'
  <2>1. row.family \in Families
    BY <1>3 DEF RefreshTokenRow
  <2>2. <<"family", row.family>> \in FamilyKeys(Families) /\ <<"token", t>> \in TokenKeys({t})
    BY <2>1, Keys
  <2> QED BY <1>7, <2>2 DEF HoldsOK
<1>9. SeenOK(c)'
  <2>1. Verdict(k.args)' = Verdict(k.args)
    BY <1>2, <1>3, <1>7, VerdictSame
  <2>2. seen.row = row /\ seen.verdict = Verdict(k.args)
    OBVIOUS
  <2> HIDE DEF seen
  <2>3. RotateSeen(c)'
    BY <1>2, <1>3, <1>7, <2>1, <2>2 DEF RotateSeen
  <2> QED BY <1>7, <2>3 DEF SeenOK
<1>10. conns[c].op # "none"
  BY <1>0, <1>1
<1> QED BY <1>5, <1>8, <1>9, <1>10, StatementKeeps

\* A save locks the family it inserts.
LEMMA UpsertFamilyKeeps ==
  ASSUME MysqlInv, NEW c \in Conns, UpsertFamily(c)
  PROVE  MysqlInv'
<1> DEFINE f == conns[c].args.row.family
           new == FamilyKeys({f}) \cap (Stored \cup conns[c].fresh \cup {Meta})
<1>1. /\ conns[c].op = "save" /\ conns[c].pc = "upsert" /\ conns[c].locks = {}
      /\ conns[c].doomed = {}
  BY Before DEF UpsertFamily, HoldsOK
<1>2. Goes(c, "commit", new, None, {}) /\ Takes(c, new)
  BY LockGoes, Before DEF UpsertFamily
<1>3. new = FamilyKeys({f})
  BY <1>1, Before DEF ArgsOK, SaveArgs
<1>4. HoldsOK(c)' /\ SeenOK(c)'
  BY <1>1, <1>2, <1>3 DEF Goes, HoldsOK, SeenOK
<1> QED BY <1>1, <1>2, <1>4, StatementKeeps

\* A revocation locks its family and compares the resource.
LEMMA LockRevokedKeeps ==
  ASSUME MysqlInv, NEW c \in Conns, LockRevoked(c)
  PROVE  MysqlInv'
<1>0. PICK k : k = conns[c]
  OBVIOUS
<1> DEFINE f == k.args.family
           new == FamilyKeys({f}) \cap (Stored \cup k.fresh \cup {Meta})
           revokes == /\ f \in DOMAIN families
                      /\ k.args.resource # None => families[f].resource = k.args.resource
           seen == [revokes |-> revokes]
<1>1. k.op = "revoke" /\ k.pc = "family" /\ k.locks = {} /\ k.doomed = {}
  BY <1>0, Before DEF LockRevoked, HoldsOK
<1>2. Lock(c, FamilyKeys({f}), "commit", seen)
  BY <1>0 DEF LockRevoked
<1>3. Goes(c, "commit", new, seen, {}) /\ Takes(c, new)
  BY <1>0, <1>2, LockGoes, Before
<1>4. /\ conns'[c].op = "revoke" /\ conns'[c].pc = "commit" /\ conns'[c].args = k.args
      /\ conns'[c].locks = new /\ conns'[c].seen = seen /\ conns'[c].doomed = {}
      /\ families' = families
  BY <1>0, <1>1, <1>3 DEF Goes, storeVars
<1>5. HoldsOK(c)'
  BY <1>4 DEF HoldsOK
<1>6. SeenOK(c)'
  <2>1. seen.revokes = revokes
    OBVIOUS
  <2>2. revokes => <<"family", f>> \in new
    BY StoredKeys, OneKey
  <2> HIDE DEF seen
  <2>3. RevokeSeen(c)'
    BY <1>4, <2>1, <2>2 DEF RevokeSeen
  <2> QED BY <1>4, <2>3 DEF SeenOK
<1> QED BY <1>0, <1>1, <1>3, <1>5, <1>6, StatementKeeps

\* A redemption locks its code, and deletes it unless it is another resource's.
LEMMA LockCodeKeeps ==
  ASSUME MysqlInv, NEW c \in Conns, LockCode(c)
  PROVE  MysqlInv'
<1>0. PICK k : k = conns[c]
  OBVIOUS
<1> DEFINE x == k.args.code
           answer == ConsumeAuthCodeAnswer(x, k.args.now, k.args.generation, k.args.resource)
           seen == [answer |-> answer]
<1>1. k.op = "consume" /\ k.pc = "code" /\ k.locks = {} /\ k.fresh = {} /\ k.doomed \subseteq {}
  BY <1>0, Before DEF LockCode, HoldsOK, ArgsOK
<1>2. seen.answer = answer
  OBVIOUS
<1>3. CodeKeys({x}) = {<<"code", x>>}
  BY OneKey
<1>4. CASE WrongResource(x, k.args.resource)
  <2> DEFINE new == CodeKeys({x}) \cap (Stored \cup k.fresh \cup {Meta})
  <2>1. Lock(c, CodeKeys({x}), "commit", seen)
    BY <1>0, <1>4 DEF LockCode
  <2>2. Goes(c, "commit", new, seen, {}) /\ Takes(c, new)
    BY <1>0, <2>1, LockGoes, Before
  <2>3. answer = None
    BY <1>4 DEF ConsumeAuthCodeAnswer
  <2> HIDE DEF seen, new
  <2>4. /\ conns'[c].op = "consume" /\ conns'[c].pc = "commit" /\ conns'[c].args = k.args
        /\ conns'[c].locks = new /\ conns'[c].seen = seen /\ conns'[c].doomed = {}
    BY <1>0, <1>1, <2>2 DEF Goes
  <2>5. new \subseteq CodeKeys({x})
    BY DEF new
  <2>6. HoldsOK(c)'
    BY <2>4, <2>5 DEF HoldsOK, CodeKeys
  <2>7. SeenOK(c)'
    BY <1>2, <2>3, <2>4 DEF SeenOK, ConsumeSeen
  <2> QED BY <1>0, <1>1, <2>2, <2>6, <2>7, StatementKeeps
<1>5. CASE ~WrongResource(x, k.args.resource)
  <2> DEFINE new == CodeKeys({x}) \cap Stored
  <2>1. Delete(c, CodeKeys({x}), "commit", seen)
    BY <1>0, <1>5 DEF LockCode
  <2>2. Goes(c, "commit", new, seen, new) /\ Takes(c, new)
    BY <1>0, <2>1, DeleteGoes, Before
  <2>3. answer # None => <<"code", x>> \in new
    BY <1>3, StoredKeys DEF ConsumeAuthCodeAnswer
  <2> HIDE DEF seen, new
  <2>4. /\ conns'[c].op = "consume" /\ conns'[c].pc = "commit" /\ conns'[c].args = k.args
        /\ conns'[c].locks = new /\ conns'[c].seen = seen /\ conns'[c].doomed = new
        /\ authCodes' = authCodes
    BY <1>0, <1>1, <2>2 DEF Goes, storeVars
  <2>5. new \subseteq CodeKeys({x})
    BY DEF new
  <2>6. HoldsOK(c)'
    BY <2>4, <2>5 DEF HoldsOK, CodeKeys
  <2>7. /\ WrongResource(x, k.args.resource)' <=> WrongResource(x, k.args.resource)
        /\ ConsumeAuthCodeAnswer(x, k.args.now, k.args.generation, k.args.resource)' = answer
    BY <2>4 DEF WrongResource, ConsumeAuthCodeAnswer
  <2> HIDE DEF answer
  <2>8. ConsumeSeen(c)'
    BY <1>2, <1>5, <2>3, <2>4, <2>7 DEF ConsumeSeen
  <2>9. SeenOK(c)'
    BY <2>4, <2>8 DEF SeenOK
  <2> QED BY <1>0, <1>1, <2>2, <2>6, <2>9, StatementKeeps
<1> QED BY <1>4, <1>5

\* The consents' transactions lock the watermark and compare their JTI.
LEMMA LockMetaKeeps ==
  ASSUME MysqlInv, NEW c \in Conns, LockMeta(c)
  PROVE  MysqlInv'
<1>0. PICK k : k = conns[c]
  OBVIOUS
<1> DEFINE args == k.args
           verdict == IF k.op = "jti"
                      THEN IF ConsumeConsentJtiAnswer(args.jti, JtiExpiry[args.jti])
                           THEN "new" ELSE "replayed"
                      ELSE CommitConsentAnswer(args.instance, args.jti, JtiExpiry[args.jti])
           seen == [verdict |-> verdict]
           new == {Meta} \cap (Stored \cup k.fresh \cup {Meta})
<1>1. k.op \in {"jti", "consent"} /\ k.pc = "meta" /\ k.locks = {} /\ k.doomed = {}
  BY <1>0, Before DEF LockMeta, HoldsOK
<1>2. Lock(c, {Meta}, "commit", seen)
  BY <1>0 DEF LockMeta, MetaLocks
<1>3. Goes(c, "commit", new, seen, {}) /\ Takes(c, new)
  BY <1>0, <1>2, LockGoes, Before
<1>4. seen.verdict = verdict
  OBVIOUS
<1> HIDE DEF seen, new
<1>5. /\ conns'[c].op = k.op /\ conns'[c].pc = "commit" /\ conns'[c].args = k.args
      /\ conns'[c].locks = new /\ conns'[c].seen = seen /\ conns'[c].doomed = {}
      /\ UNCHANGED <<consentJtis, sweptThrough, storeInstanceId>>
  BY <1>0, <1>1, <1>3 DEF Goes, storeVars
<1>6. new = {Meta}
  BY DEF new
<1>7. HoldsOK(c)'
  <2>1. Meta' = Meta
    BY DEF Meta
  <2> QED BY <1>1, <1>5, <1>6, <2>1 DEF HoldsOK
<1>8. SeenOK(c)'
  <2>1. /\ ConsumeConsentJtiAnswer(args.jti, JtiExpiry[args.jti])'
             <=> ConsumeConsentJtiAnswer(args.jti, JtiExpiry[args.jti])
        /\ CommitConsentAnswer(args.instance, args.jti, JtiExpiry[args.jti])'
             = CommitConsentAnswer(args.instance, args.jti, JtiExpiry[args.jti])
    BY <1>5 DEF ConsumeConsentJtiAnswer, CommitConsentAnswer, JtiSpent
  <2>2. JtiSeen(c)'
    BY <1>4, <1>5, <2>1 DEF JtiSeen
  <2> QED BY <1>1, <1>5, <2>2 DEF SeenOK
<1> QED BY <1>0, <1>1, <1>3, <1>7, <1>8, StatementKeeps

\* A statement that reads and locks nothing.
LEMMA ReadGoes ==
  ASSUME ConnsOK, NEW c \in Conns, NEW pc, NEW seen, SetConn(c, Read(conns[c], pc, seen)),
         UNCHANGED <<storeVars, expiryVars, time>>
  PROVE  Goes(c, pc, {}, seen, {}) /\ Takes(c, {})
<1> DEFINE k == conns[c]
           r == Read(k, pc, seen)
<1>1. r = Record(k.op, pc, k.args, k.fresh, k.locks, seen, k.doomed)
  <2>1. k = Record(k.op, k.pc, k.args, k.fresh, k.locks, k.seen, k.doomed)
    BY DEF ConnsOK, ConnShape
  <2> HIDE DEF k
  <2> QED BY <2>1, ReadRecord
<1> HIDE DEF r
<1>2. /\ r.op = k.op /\ r.pc = pc /\ r.args = k.args /\ r.fresh = k.fresh
      /\ r.locks = k.locks /\ r.seen = seen /\ r.doomed = k.doomed
      /\ r = Record(r.op, r.pc, r.args, r.fresh, r.locks, r.seen, r.doomed)
  BY <1>1, RecordFields
<1>3. SetConn(c, r)
  BY DEF r
<1>4. Moves(c) /\ conns'[c] = r
  BY <1>2, <1>3, SetConnMoves
<1>5. Goes(c, pc, {}, seen, {})
  BY <1>2, <1>4 DEF Goes
<1> QED BY <1>5 DEF Takes

\* The sweep locks the watermark.
LEMMA SweepMetaKeeps ==
  ASSUME MysqlInv, NEW c \in Conns, SweepMeta(c)
  PROVE  MysqlInv'
<1> DEFINE new == {Meta} \cap (Stored \cup conns[c].fresh \cup {Meta})
<1>1. conns[c].op = "sweep" /\ conns[c].pc = "meta" /\ conns[c].locks = {}
      /\ conns[c].doomed \subseteq {}
  BY Before DEF SweepMeta, Sweeps, HoldsOK
<1>2. Lock(c, {Meta}, "codes", None)
  BY DEF SweepMeta, MetaLocks
<1>3. Goes(c, "codes", new, None, {}) /\ Takes(c, new)
  BY <1>2, LockGoes, Before
<1>4. new = {Meta} /\ Meta' = Meta
  BY DEF Meta
<1> HIDE DEF new
<1>5. /\ conns'[c].op = "sweep" /\ conns'[c].pc = "codes"
      /\ conns'[c].locks = {Meta} /\ conns'[c].doomed = {}
  BY <1>1, <1>3, <1>4 DEF Goes
<1>6. HoldsOK(c)' /\ SeenOK(c)'
  BY <1>4, <1>5 DEF HoldsOK, SeenOK, SweepSeen
<1> QED BY <1>1, <1>3, <1>6, StatementKeeps

\* It deletes the codes and JTIs that expired before its time, and no others.
LEMMA SweepCodesKeeps ==
  ASSUME MysqlInv, NEW c \in Conns, SweepCodes(c)
  PROVE  MysqlInv'
<1>0. PICK k : k = conns[c]
  OBVIOUS
<1> DEFINE now == k.args.now
           codes == {x \in DOMAIN authCodes : authCodes[x].expiresAt < now}
           jtis == {j \in DOMAIN consentJtis : consentJtis[j] < now}
           new == (CodeKeys(codes) \cup JtiKeys(jtis)) \cap Stored
<1>1. k.op = "sweep" /\ k.pc = "codes" /\ k.locks = {Meta} /\ k.doomed = {}
  BY <1>0, Before DEF SweepCodes, Sweeps, HoldsOK
<1>2. Delete(c, CodeKeys(codes) \cup JtiKeys(jtis), "select", None)
  BY <1>0 DEF SweepCodes
<1>3. Goes(c, "select", new, None, new) /\ Takes(c, new)
  BY <1>0, <1>2, DeleteGoes, Before
<1>4. ASSUME NEW x \in DOMAIN authCodes
      PROVE  <<"code", x>> \in new <=> authCodes[x].expiresAt < now
  <2>1. <<"code", x>> \in Stored
    BY StoredKeys
  <2>2. <<"code", x>> \in CodeKeys(codes) <=> x \in codes
    BY Keys
  <2>3. <<"code", x>> \notin JtiKeys(jtis)
    BY KeysApart
  <2> QED BY <2>1, <2>2, <2>3
<1>5. ASSUME NEW j \in DOMAIN consentJtis
      PROVE  <<"jti", j>> \in new <=> consentJtis[j] < now
  <2>1. <<"jti", j>> \in Stored
    BY StoredKeys
  <2>2. <<"jti", j>> \in JtiKeys(jtis) <=> j \in jtis
    BY Keys
  <2>3. <<"jti", j>> \notin CodeKeys(codes)
    BY KeysApart
  <2> QED BY <2>1, <2>2, <2>3
<1>6. new \subseteq CodeKeys(Codes) \cup JtiKeys(Jtis)
  <2>1. codes \subseteq Codes /\ jtis \subseteq Jtis
    BY DEF MysqlInv, StoreTypeOK, AuthCodesOK, ConsentsOK
  <2> QED BY <2>1 DEF CodeKeys, JtiKeys
<1> HIDE DEF new, codes, jtis
<1>7. /\ conns'[c].op = "sweep" /\ conns'[c].pc = "select" /\ conns'[c].args = k.args
      /\ conns'[c].locks = {Meta} \cup new /\ conns'[c].doomed = new
      /\ authCodes' = authCodes /\ consentJtis' = consentJtis
  BY <1>0, <1>1, <1>3 DEF Goes, storeVars
<1>8. HoldsOK(c)'
  <2>1. /\ Meta' = Meta /\ CodeKeys(Codes)' = CodeKeys(Codes) /\ JtiKeys(Jtis)' = JtiKeys(Jtis)
    BY DEF Meta, CodeKeys, JtiKeys
  <2> QED BY <1>6, <1>7, <2>1 DEF HoldsOK
<1>9. SeenOK(c)'
  BY <1>4, <1>5, <1>7 DEF SeenOK, SweepSeen
<1>10. conns[c].op # "none"
  BY <1>0, <1>1
<1> QED BY <1>3, <1>8, <1>9, <1>10, StatementKeeps

\* The selection of dead tokens takes nothing.
LEMMA SelectDeadKeeps ==
  ASSUME MysqlInv, NEW c \in Conns, SelectDead(c)
  PROVE  MysqlInv'
<1>0. PICK k : k = conns[c]
  OBVIOUS
<1> DEFINE seen == [dead |-> DeadTokens(k.args.now)]
<1>1. /\ k.op = "sweep" /\ k.pc = "select" /\ k.locks = {Meta} \cup k.doomed
      /\ k.doomed \subseteq CodeKeys(Codes) \cup JtiKeys(Jtis)
      /\ \A x \in DOMAIN authCodes : <<"code", x>> \in k.doomed <=> authCodes[x].expiresAt < k.args.now
      /\ \A j \in DOMAIN consentJtis : <<"jti", j>> \in k.doomed <=> consentJtis[j] < k.args.now
  <2>1. HoldsOK(c) /\ SweepSeen(c)
    BY Before DEF SelectDead, Sweeps, SeenOK
  <2> QED BY <1>0, <2>1 DEF SelectDead, Sweeps, HoldsOK, SweepSeen
<1>2. Goes(c, "tokens", {}, seen, {}) /\ Takes(c, {})
  <2>1. SetConn(c, Read(conns[c], "tokens", seen)) /\ UNCHANGED <<storeVars, expiryVars, time>>
    BY <1>0 DEF SelectDead, Read
  <2> HIDE DEF seen
  <2> QED BY <2>1, ReadGoes, Before
<1> HIDE DEF seen
<1>3. /\ conns'[c].op = "sweep" /\ conns'[c].pc = "tokens" /\ conns'[c].args = k.args
      /\ conns'[c].locks = k.locks /\ conns'[c].doomed = k.doomed
      /\ authCodes' = authCodes /\ consentJtis' = consentJtis
  BY <1>0, <1>1, <1>2 DEF Goes, storeVars
<1>4. HoldsOK(c)'
  <2>1. /\ Meta' = Meta /\ CodeKeys(Codes)' = CodeKeys(Codes) /\ JtiKeys(Jtis)' = JtiKeys(Jtis)
    BY DEF Meta, CodeKeys, JtiKeys
  <2> QED BY <1>1, <1>3, <2>1 DEF HoldsOK
<1>5. SeenOK(c)'
  BY <1>1, <1>3 DEF SeenOK, SweepSeen
<1>6. conns[c].op # "none"
  BY <1>0, <1>1
<1> QED BY <1>2, <1>4, <1>5, <1>6, StatementKeeps

\* Keys of a type: the sets are constants.
LEMMA ConstantKeys ==
  /\ Meta' = Meta
  /\ CodeKeys(Codes)' = CodeKeys(Codes) /\ JtiKeys(Jtis)' = JtiKeys(Jtis)
  /\ TokenKeys(Tokens)' = TokenKeys(Tokens) /\ FamilyKeys(Families)' = FamilyKeys(Families)
BY DEF Meta, CodeKeys, JtiKeys, TokenKeys, FamilyKeys

\* What a sweep knows once it has deleted codes and JTIs.
LEMMA CodesSwept ==
  ASSUME MysqlInv, NEW c \in Conns, conns[c].op = "sweep",
         conns[c].pc \in {"select", "tokens", "families", "cascade", "commit"}
  PROVE  LET k == conns[c] IN
         /\ \A x \in DOMAIN authCodes : <<"code", x>> \in k.doomed <=> authCodes[x].expiresAt < k.args.now
         /\ \A j \in DOMAIN consentJtis : <<"jti", j>> \in k.doomed <=> consentJtis[j] < k.args.now
         /\ k.locks = {Meta} \cup k.doomed
<1>1. SweepSeen(c) /\ HoldsOK(c)
  BY Before DEF SeenOK
<1> QED BY <1>1 DEF SweepSeen, HoldsOK

\* One dead token is deleted.
LEMMA DeleteDeadKeeps ==
  ASSUME MysqlInv, NEW c \in Conns, DeleteDead(c)
  PROVE  MysqlInv'
<1>0. PICK k : k = conns[c]
  OBVIOUS
<1>1. PICK t \in k.seen.dead :
        Delete(c, TokenKeys({t} \cap DOMAIN refreshTokens), "tokens", [dead |-> k.seen.dead \ {t}])
  BY <1>0 DEF DeleteDead
<1> DEFINE seen == [dead |-> k.seen.dead \ {t}]
           new == TokenKeys({t} \cap DOMAIN refreshTokens) \cap Stored
<1>2. k.op = "sweep" /\ k.pc = "tokens"
  BY <1>0 DEF DeleteDead, Sweeps
<1>3. k.doomed \subseteq CodeKeys(Codes) \cup JtiKeys(Jtis) \cup TokenKeys(Tokens)
  BY <1>0, <1>2, Before DEF HoldsOK
<1>4. Goes(c, "tokens", new, seen, new) /\ Takes(c, new)
  BY <1>0, <1>1, DeleteGoes, Before
<1>5. new \subseteq TokenKeys(Tokens)
  <2>1. {t} \cap DOMAIN refreshTokens \subseteq Tokens
    BY DEF MysqlInv, StoreTypeOK, TokensOK
  <2> QED BY <2>1 DEF TokenKeys
<1> HIDE DEF new, seen
<1>6. /\ conns'[c].op = "sweep" /\ conns'[c].pc = "tokens" /\ conns'[c].args = k.args
      /\ conns'[c].locks = k.locks \cup new /\ conns'[c].doomed = k.doomed \cup new
      /\ authCodes' = authCodes /\ consentJtis' = consentJtis
  BY <1>0, <1>2, <1>4 DEF Goes, storeVars
<1>7. /\ \A x \in DOMAIN authCodes : <<"code", x>> \in k.doomed <=> authCodes[x].expiresAt < k.args.now
      /\ \A j \in DOMAIN consentJtis : <<"jti", j>> \in k.doomed <=> consentJtis[j] < k.args.now
      /\ k.locks = {Meta} \cup k.doomed
  BY <1>0, <1>2, CodesSwept
<1>8. HoldsOK(c)'
  BY <1>3, <1>5, <1>6, <1>7, ConstantKeys DEF HoldsOK
<1>9. SeenOK(c)'
  <2>1. \A x : <<"code", x>> \notin new /\ <<"jti", x>> \notin new
    BY <1>5, KeysApart
  <2> QED BY <1>6, <1>7, <2>1 DEF SeenOK, SweepSeen
<1>10. conns[c].op # "none"
  BY <1>0, <1>2
<1> QED BY <1>4, <1>8, <1>9, <1>10, StatementKeeps

\* The families' DELETE has listed every family there is.
LEMMA ScanFamiliesKeeps ==
  ASSUME MysqlInv, NEW c \in Conns, ScanFamilies(c)
  PROVE  MysqlInv'
<1>0. PICK k : k = conns[c]
  OBVIOUS
<1> DEFINE seen == [present |-> DOMAIN families]
<1>1. k.op = "sweep" /\ k.pc = "tokens"
  BY <1>0 DEF ScanFamilies, Sweeps
<1>2. k.doomed \subseteq CodeKeys(Codes) \cup JtiKeys(Jtis) \cup TokenKeys(Tokens)
  BY <1>0, <1>1, Before DEF HoldsOK
<1>3. Goes(c, "families", {}, seen, {}) /\ Takes(c, {})
  <2>1. SetConn(c, Read(conns[c], "families", seen)) /\ UNCHANGED <<storeVars, expiryVars, time>>
    BY <1>0 DEF ScanFamilies, Read
  <2> HIDE DEF seen
  <2> QED BY <2>1, ReadGoes, Before
<1>4. seen.present = DOMAIN families
  OBVIOUS
<1> HIDE DEF seen
<1>5. /\ conns'[c].op = "sweep" /\ conns'[c].pc = "families" /\ conns'[c].args = k.args
      /\ conns'[c].locks = k.locks /\ conns'[c].doomed = k.doomed /\ conns'[c].seen = seen
      /\ authCodes' = authCodes /\ consentJtis' = consentJtis /\ families' = families
  BY <1>0, <1>1, <1>3 DEF Goes, storeVars
<1>6. /\ \A x \in DOMAIN authCodes : <<"code", x>> \in k.doomed <=> authCodes[x].expiresAt < k.args.now
      /\ \A j \in DOMAIN consentJtis : <<"jti", j>> \in k.doomed <=> consentJtis[j] < k.args.now
      /\ k.locks = {Meta} \cup k.doomed
  BY <1>0, <1>1, CodesSwept
<1>7. HoldsOK(c)'
  BY <1>2, <1>5, <1>6, ConstantKeys DEF HoldsOK
<1>8. SeenOK(c)'
  BY <1>4, <1>5, <1>6 DEF SeenOK, SweepSeen
<1>9. conns[c].op # "none"
  BY <1>0, <1>1
<1> QED BY <1>3, <1>7, <1>8, <1>9, StatementKeeps

\* It deletes the families that have no tokens left, and families saved since
\* its list was made when it met those.
LEMMA DeleteFamiliesKeeps ==
  ASSUME MysqlInv, NEW c \in Conns, DeleteFamilies(c)
  PROVE  MysqlInv'
<1>0. PICK k : k = conns[c]
  OBVIOUS
<1> DEFINE present == k.seen.present
           surviving == {t \in DOMAIN refreshTokens : <<"token", t>> \notin k.doomed}
<1>1. PICK met \in SUBSET (DOMAIN families \ present) :
        Delete(c, FamilyKeys((present \ FamiliesOf(surviving)) \cup met), "cascade", k.seen)
  BY <1>0 DEF DeleteFamilies, Surviving
<1> DEFINE dead == (present \ FamiliesOf(surviving)) \cup met
           new == FamilyKeys(dead) \cap Stored
<1>2. k.op = "sweep" /\ k.pc = "families"
  BY <1>0 DEF DeleteFamilies, Sweeps
<1>3. k.doomed \subseteq CodeKeys(Codes) \cup JtiKeys(Jtis) \cup TokenKeys(Tokens)
  BY <1>0, <1>2, Before DEF HoldsOK
<1>4. Goes(c, "cascade", new, k.seen, new) /\ Takes(c, new)
  BY <1>0, <1>1, DeleteGoes, Before
<1>5. new \subseteq FamilyKeys(Families)
  <2>1. ASSUME NEW f, <<"family", f>> \in Stored
        PROVE  <<"family", f>> \in FamilyKeys(Families)
    <3>1. f \in Families
      BY <2>1, StoredKeys DEF MysqlInv, StoreTypeOK, FamiliesOK
    <3> QED BY <3>1, Keys
  <2>2. FamilyKeys(dead) = {<<"family", f>> : f \in dead}
    BY DEF FamilyKeys
  <2> HIDE DEF dead
  <2> QED BY <2>1, <2>2
<1>6. \A x : <<"code", x>> \notin new /\ <<"jti", x>> \notin new /\ <<"token", x>> \notin new
  BY <1>5, KeysApart
<1>7. ASSUME NEW f \in DOMAIN families
      PROVE  <<"family", f>> \in k.doomed \cup new <=> f \in dead
  <2>1. <<"family", f>> \notin k.doomed
    BY <1>3, KeysApart
  <2>2. <<"family", f>> \in Stored
    BY StoredKeys
  <2>3. <<"family", f>> \in FamilyKeys(dead) <=> f \in dead
    BY Keys
  <2> HIDE DEF dead
  <2> QED BY <2>1, <2>2, <2>3
<1>8. ASSUME NEW f \in DOMAIN families, <<"family", f>> \notin k.doomed \cup new
      PROVE  \E t \in DOMAIN refreshTokens : /\ refreshTokens[t].family = f
                                             /\ <<"token", t>> \notin k.doomed \cup new
  <2>1. CASE f \in present
    <3>1. f \in FamiliesOf(surviving)
      BY <1>7, <1>8, <2>1
    <3> QED BY <1>6, <3>1 DEF FamiliesOf
  <2>2. CASE f \notin present
    <3>1. SweepSeen(c)
      BY <1>0, <1>2, Before DEF SeenOK
    <3> QED BY <1>0, <1>2, <1>6, <2>2, <3>1 DEF SweepSeen
  <2> QED BY <2>1, <2>2
<1>9. ASSUME NEW t \in DOMAIN refreshTokens,
             <<"family", refreshTokens[t].family>> \in k.doomed \cup new,
             <<"token", t>> \notin k.doomed \cup new
      PROVE  refreshTokens[t].family \notin present
  <2>1. refreshTokens[t].family \in DOMAIN families
    BY DEF MysqlInv, RowsOK, RowsMatchFamily
  <2>2. refreshTokens[t].family \in dead
    BY <1>7, <1>9, <2>1
  <2>3. refreshTokens[t].family \in FamiliesOf(surviving)
    BY <1>9 DEF FamiliesOf
  <2> HIDE DEF surviving, present
  <2> QED BY <2>2, <2>3
<1> HIDE DEF new, dead
<1>10. /\ conns'[c].op = "sweep" /\ conns'[c].pc = "cascade" /\ conns'[c].args = k.args
       /\ conns'[c].locks = k.locks \cup new /\ conns'[c].doomed = k.doomed \cup new
       /\ conns'[c].seen = k.seen
       /\ UNCHANGED <<authCodes, consentJtis, families, refreshTokens>>
  BY <1>0, <1>2, <1>4 DEF Goes, storeVars
<1>11. /\ \A x \in DOMAIN authCodes : <<"code", x>> \in k.doomed <=> authCodes[x].expiresAt < k.args.now
       /\ \A j \in DOMAIN consentJtis : <<"jti", j>> \in k.doomed <=> consentJtis[j] < k.args.now
       /\ k.locks = {Meta} \cup k.doomed
  BY <1>0, <1>2, CodesSwept
<1>12. HoldsOK(c)'
  <2>1. k.doomed \cup new \subseteq RowKeys(Tokens, Families, Codes, Jtis)
    BY <1>3, <1>5 DEF RowKeys
  <2>2. RowKeys(Tokens, Families, Codes, Jtis)' = RowKeys(Tokens, Families, Codes, Jtis)
    BY ConstantKeys DEF RowKeys
  <2> QED BY <1>10, <1>11, <2>1, <2>2, ConstantKeys DEF HoldsOK
<1>13. SeenOK(c)'
  BY <1>6, <1>8, <1>9, <1>10, <1>11 DEF SeenOK, SweepSeen
<1>14. conns[c].op # "none"
  BY <1>0, <1>2
<1> QED BY <1>4, <1>12, <1>13, <1>14, StatementKeeps

\* The tokens of a family it deletes go with it: the family has none left then,
\* and the others keep one.
LEMMA CascadeTokensKeeps ==
  ASSUME MysqlInv, NEW c \in Conns, CascadeTokens(c)
  PROVE  MysqlInv'
<1>0. PICK k : k = conns[c]
  OBVIOUS
<1> DEFINE theirs == TheirTokens(c)
           new == TokenKeys(theirs) \cap Stored
<1>1. k.op = "sweep" /\ k.pc = "cascade"
  BY <1>0 DEF CascadeTokens, Sweeps
<1>2. k.doomed \subseteq RowKeys(Tokens, Families, Codes, Jtis)
  BY <1>0, <1>1, Before DEF HoldsOK
<1>3. Goes(c, "commit", new, k.seen, new) /\ Takes(c, new)
  BY <1>0, DeleteGoes, Before DEF CascadeTokens
<1>4. new \subseteq TokenKeys(Tokens)
  <2>1. theirs \subseteq Tokens
    BY DEF TheirTokens, MysqlInv, StoreTypeOK, TokensOK
  <2> QED BY <2>1 DEF TokenKeys
<1>5. \A x : <<"code", x>> \notin new /\ <<"jti", x>> \notin new /\ <<"family", x>> \notin new
  BY <1>4, KeysApart
<1>6. ASSUME NEW t \in DOMAIN refreshTokens
      PROVE  <<"token", t>> \in new <=> <<"family", refreshTokens[t].family>> \in k.doomed
  <2>1. <<"token", t>> \in Stored
    BY StoredKeys
  <2>2. <<"token", t>> \in TokenKeys(theirs) <=> t \in theirs
    BY Keys
  <2> QED BY <1>0, <2>1, <2>2 DEF TheirTokens
<1> HIDE DEF new, theirs
<1>7. ASSUME NEW f \in DOMAIN families
      PROVE  <<"family", f>> \in k.doomed \cup new <=>
               \A t \in DOMAIN refreshTokens :
                  refreshTokens[t].family = f => <<"token", t>> \in k.doomed \cup new
  <2>1. SweepSeen(c)
    BY <1>0, <1>1, Before DEF SeenOK
  <2>2. <<"family", f>> \notin k.doomed =>
          \E t \in DOMAIN refreshTokens : /\ refreshTokens[t].family = f
                                          /\ <<"token", t>> \notin k.doomed
    BY <1>0, <1>1, <2>1 DEF SweepSeen
  <2> QED BY <1>5, <1>6, <2>2
<1>8. /\ conns'[c].op = "sweep" /\ conns'[c].pc = "commit" /\ conns'[c].args = k.args
      /\ conns'[c].locks = k.locks \cup new /\ conns'[c].doomed = k.doomed \cup new
      /\ UNCHANGED <<authCodes, consentJtis, families, refreshTokens>>
  BY <1>0, <1>1, <1>3 DEF Goes, storeVars
<1>9. /\ \A x \in DOMAIN authCodes : <<"code", x>> \in k.doomed <=> authCodes[x].expiresAt < k.args.now
      /\ \A j \in DOMAIN consentJtis : <<"jti", j>> \in k.doomed <=> consentJtis[j] < k.args.now
      /\ k.locks = {Meta} \cup k.doomed
  BY <1>0, <1>1, CodesSwept
<1>10. HoldsOK(c)'
  <2>1. k.doomed \cup new \subseteq RowKeys(Tokens, Families, Codes, Jtis)
    BY <1>2, <1>4 DEF RowKeys
  <2>2. RowKeys(Tokens, Families, Codes, Jtis)' = RowKeys(Tokens, Families, Codes, Jtis)
    BY ConstantKeys DEF RowKeys
  <2> QED BY <1>8, <1>9, <2>1, <2>2, ConstantKeys DEF HoldsOK
<1>11. SeenOK(c)'
  BY <1>5, <1>7, <1>8, <1>9 DEF SeenOK, SweepSeen
<1>12. conns[c].op # "none"
  BY <1>0, <1>1
<1> QED BY <1>3, <1>10, <1>11, <1>12, StatementKeeps

-----------------------------------------------------------------------------
(* Calls begin *)

\* Where each kind of call starts.
FirstStatement ==
  {<<"rotate", "token">>, <<"save", "upsert">>, <<"revoke", "family">>, <<"consume", "code">>,
   <<"jti", "meta">>, <<"consent", "meta">>, <<"sweep", "meta">>}

\* What Begin does to its connection.
Starts(c, op, pc, args, fresh) ==
  /\ Moves(c)
  /\ UNCHANGED <<storeVars, expiryVars, time>>
  /\ conns'[c].op = op /\ conns'[c].pc = pc /\ conns'[c].args = args
  /\ conns'[c].fresh = fresh
  /\ conns'[c].locks = {} /\ conns'[c].seen = None /\ conns'[c].doomed = {}

\* The record of a transaction that begins.
LEMMA BeginRecord ==
  ASSUME NEW op, NEW pc, NEW args, NEW fresh
  PROVE  [Idle EXCEPT !.op = op, !.pc = pc, !.args = args, !.fresh = fresh]
           = Record(op, pc, args, fresh, {}, None, {})
<1>1. Idle = Record("none", "idle", None, {}, {}, None, {})
  BY DEF Idle, Record
<1>2. [Idle EXCEPT !.op = op] = Record(op, "idle", None, {}, {}, None, {})
  BY <1>1 DEF Record
<1>3. \A r : r = Record(op, "idle", None, {}, {}, None, {})
           => [r EXCEPT !.pc = pc] = Record(op, pc, None, {}, {}, None, {})
  BY DEF Record
<1>4. \A r : r = Record(op, pc, None, {}, {}, None, {})
           => [r EXCEPT !.args = args] = Record(op, pc, args, {}, {}, None, {})
  BY DEF Record
<1>5. \A r : r = Record(op, pc, args, {}, {}, None, {})
           => [r EXCEPT !.fresh = fresh] = Record(op, pc, args, fresh, {}, None, {})
  BY DEF Record
<1>6. [Idle EXCEPT !.op = op, !.pc = pc] = Record(op, pc, None, {}, {}, None, {})
  BY <1>2, <1>3, Zenon
<1>7. [Idle EXCEPT !.op = op, !.pc = pc, !.args = args] = Record(op, pc, args, {}, {}, None, {})
  BY <1>4, <1>6, Zenon
<1> QED BY <1>5, <1>7, Zenon

\* Nothing moves but the connection's record.
LEMMA BeginStarts ==
  ASSUME ConnsOK, NEW c \in Conns, NEW op, NEW pc, NEW args, NEW fresh,
         Begin(c, op, pc, args, fresh)
  PROVE  Starts(c, op, pc, args, fresh)
<1> DEFINE r == [Idle EXCEPT !.op = op, !.pc = pc, !.args = args, !.fresh = fresh]
<1>1. r = Record(op, pc, args, fresh, {}, None, {})
  BY BeginRecord
<1>2. SetConn(c, r) /\ UNCHANGED <<storeVars, expiryVars, time>>
  BY DEF Begin
<1> HIDE DEF r
<1>3. /\ r.op = op /\ r.pc = pc /\ r.args = args /\ r.fresh = fresh
      /\ r.locks = {} /\ r.seen = None /\ r.doomed = {}
      /\ r = Record(r.op, r.pc, r.args, r.fresh, r.locks, r.seen, r.doomed)
  BY <1>1, RecordFields
<1>4. Moves(c) /\ conns'[c] = r
  BY <1>2, <1>3, SetConnMoves
<1> QED BY <1>2, <1>3, <1>4 DEF Starts

\* A call that begins with proper arguments keeps the invariant.
LEMMA BeginKeeps ==
  ASSUME MysqlInv, NEW c \in Conns, NEW op, NEW pc, NEW args, NEW fresh,
         Begin(c, op, pc, args, fresh), <<op, pc>> \in FirstStatement,
         Starts(c, op, pc, args, fresh) => ArgsOK(c)' /\ InTime(c)'
  PROVE  MysqlInv'
<1>1. Starts(c, op, pc, args, fresh)
  BY Before, BeginStarts
<1>2. ArgsOK(c)' /\ InTime(c)'
  BY <1>1
<1>3. /\ conns' = [d \in Conns |-> conns'[d]]
      /\ \A d \in Conns \ {c} : conns'[d] = conns[d]
      /\ ConnShape(c)' /\ UNCHANGED storeVars /\ time' = time
      /\ conns'[c].op = op /\ conns'[c].pc = pc /\ conns'[c].fresh = fresh
      /\ conns'[c].locks = {} /\ conns'[c].doomed = {}
  BY <1>1 DEF Starts, Moves
<1>4. StoreTypeOK' /\ TablesOK' /\ RowsOK' /\ TimeOK'
  BY <1>3 DEF MysqlInv, storeVars, StoreTypeOK, AuthCodesOK, TokensOK, FamiliesOK, ConsentsOK,
              TablesOK, RowsOK, RowsMatchFamily, TimeOK
<1>5. SeenOK(c)' /\ HoldsOK(c)'
  BY <1>3 DEF FirstStatement, SeenOK, SweepSeen, HoldsOK
<1>6. \A d \in Conns \ {c} : SeenOK(d)'
  BY <1>3, StillKept, SeenKept
<1>7. ConnsOK'
  <2>1. ASSUME NEW d \in Conns \ {c}
        PROVE  ConnShape(d)' /\ ArgsOK(d)' /\ InTime(d)' /\ HoldsOK(d)'
    BY <1>3, OwnKept DEF MysqlInv, ConnsOK
  <2> QED BY <1>2, <1>3, <1>5, <2>1 DEF ConnsOK
<1>8. LocksOK'
  <2>1. Stored' = Stored
    BY <1>3 DEF storeVars, Stored, RowKeys
  <2>2. fresh \cap Stored = {} /\ \A d \in Conns : conns[d].fresh \cap fresh = {}
    BY DEF Begin, Fresh
  <2>3. /\ \A d \in Conns : /\ conns[d].locks \subseteq Stored \cup conns[d].fresh \cup {Meta}
                            /\ conns[d].fresh \cap Stored = {}
        /\ \A d, e \in Conns : d # e => /\ conns[d].locks \cap conns[e].locks = {}
                                        /\ conns[d].fresh \cap conns[e].fresh = {}
    BY DEF MysqlInv, LocksOK
  <2>4. ASSUME NEW d \in Conns
        PROVE  /\ conns'[d].locks \subseteq Stored \cup conns'[d].fresh \cup {Meta}
               /\ conns'[d].fresh \cap Stored = {}
    BY <1>3, <2>2, <2>3
  <2>5. ASSUME NEW d \in Conns, NEW e \in Conns, d # e
        PROVE  /\ conns'[d].locks \cap conns'[e].locks = {}
               /\ conns'[d].fresh \cap conns'[e].fresh = {}
    BY <1>3, <2>2, <2>3, <2>5
  <2> QED BY <2>1, <2>4, <2>5, ConstantKeys DEF LocksOK
<1> QED BY <1>4, <1>5, <1>6, <1>7, <1>8 DEF MysqlInv

\* A rotation begins with a successor that is new, and in time.
LEMMA BeginRotateKeeps ==
  ASSUME MysqlInv, NEW c \in Conns, BeginRotate(c)
  PROVE  MysqlInv'
<1>1. PICK t \in Tokens, s \in Tokens, generation \in Generations, resource \in Resources,
           now \in Readings :
        /\ t # s
        /\ now + Ttl \in Times
        /\ \E f \in Families :
             Begin(c, "rotate", "token",
                   [token |-> t, now |-> now, generation |-> generation, resource |-> resource,
                    next |-> [token |-> s, family |-> f, expiresAt |-> now + Ttl, grant |-> None]],
                   TokenKeys({s}))
  BY DEF BeginRotate
<1>2. PICK f \in Families :
        Begin(c, "rotate", "token",
              [token |-> t, now |-> now, generation |-> generation, resource |-> resource,
               next |-> [token |-> s, family |-> f, expiresAt |-> now + Ttl, grant |-> None]],
              TokenKeys({s}))
  BY <1>1
<1> DEFINE next == [token |-> s, family |-> f, expiresAt |-> now + Ttl, grant |-> None]
           args == [token |-> t, now |-> now, generation |-> generation, resource |-> resource,
                    next |-> next]
<1>3. /\ args.token = t /\ args.now = now /\ args.generation = generation
      /\ args.resource = resource /\ args.next = next
      /\ next.token = s /\ next.expiresAt = now + Ttl
  OBVIOUS
<1>7. next \in NextTokens
  BY <1>1 DEF NextTokens
<1>4. Begin(c, "rotate", "token", args, TokenKeys({s}))
  BY <1>2
<1> HIDE DEF args, next
<1>5. ASSUME Starts(c, "rotate", "token", args, TokenKeys({s}))
      PROVE  ArgsOK(c)' /\ InTime(c)'
  <2>1. /\ conns'[c].op = "rotate" /\ conns'[c].args = args
        /\ conns'[c].fresh = TokenKeys({s}) /\ time' = time
    BY <1>5 DEF Starts
  <2>2. RotateArgs(c)'
    BY <1>1, <1>3, <1>7, <2>1 DEF RotateArgs, TokenKeys
  <2>3. ArgsOK(c)'
    BY <2>1, <2>2 DEF ArgsOK
  <2>4. InTime(c)'
    BY <1>1, <1>3, <2>1 DEF InTime, Readings
  <2> QED BY <2>3, <2>4
<1>6. <<"rotate", "token">> \in FirstStatement
  BY DEF FirstStatement
<1> QED BY <1>4, <1>5, <1>6, BeginKeeps

\* A save begins with a token and a family that are new.
LEMMA BeginSaveKeeps ==
  ASSUME MysqlInv, NEW c \in Conns, BeginSave(c)
  PROVE  MysqlInv'
<1>1. PICK t \in Tokens, f \in Families, grant \in Grants, resource \in Resources,
           generation \in Generations, now \in Readings :
        /\ now + Ttl \in Times
        /\ Begin(c, "save", "upsert",
                 [token |-> t, now |-> now,
                  row |-> RootRow(f, grant, resource, generation, now + Ttl)],
                 TokenKeys({t}) \cup FamilyKeys({f}))
  BY DEF BeginSave
<1> DEFINE row == RootRow(f, grant, resource, generation, now + Ttl)
           args == [token |-> t, now |-> now, row |-> row]
           fresh == TokenKeys({t}) \cup FamilyKeys({f})
<1>2. row \in RootRows /\ row.family = f /\ row.expiresAt = now + Ttl
  BY <1>1 DEF RootRows, RootRow, RefreshTokenRow
<1> HIDE DEF row
<1>3. args.token = t /\ args.now = now /\ args.row = row
  OBVIOUS
<1>4. Begin(c, "save", "upsert", args, fresh)
  BY <1>1 DEF row
<1> HIDE DEF args
<1>5. ASSUME Starts(c, "save", "upsert", args, fresh)
      PROVE  ArgsOK(c)' /\ InTime(c)'
  <2>1. /\ conns'[c].op = "save" /\ conns'[c].args = args
        /\ conns'[c].fresh = fresh /\ time' = time
    BY <1>5 DEF Starts
  <2>2. SaveArgs(c)'
    BY <1>1, <1>2, <1>3, <2>1 DEF SaveArgs, TokenKeys, FamilyKeys
  <2>3. ArgsOK(c)'
    BY <2>1, <2>2 DEF ArgsOK
  <2>4. InTime(c)'
    BY <1>1, <1>3, <2>1 DEF InTime, Readings
  <2> QED BY <2>3, <2>4
<1>6. <<"save", "upsert">> \in FirstStatement
  BY DEF FirstStatement
<1> QED BY <1>4, <1>5, <1>6, BeginKeeps

\* A revocation names a family.
LEMMA BeginRevokeKeeps ==
  ASSUME MysqlInv, NEW c \in Conns, BeginRevoke(c)
  PROVE  MysqlInv'
<1>1. PICK args \in [family : Families, resource : Resources \cup {None}] :
        Begin(c, "revoke", "family", args, {})
  BY DEF BeginRevoke
<1>2. ASSUME Starts(c, "revoke", "family", args, {})
      PROVE  ArgsOK(c)' /\ InTime(c)'
  <2>1. conns'[c].op = "revoke" /\ conns'[c].args = args /\ conns'[c].fresh = {}
    BY <1>2 DEF Starts
  <2> QED BY <2>1 DEF ArgsOK, InTime, Timed
<1>3. <<"revoke", "family">> \in FirstStatement
  BY DEF FirstStatement
<1> QED BY <1>1, <1>2, <1>3, BeginKeeps

\* A redemption names a code, and is in time.
LEMMA BeginConsumeKeeps ==
  ASSUME MysqlInv, NEW c \in Conns, BeginConsume(c)
  PROVE  MysqlInv'
<1>1. PICK k \in Codes, resource \in Resources \cup {None}, generation \in Generations,
           now \in Readings :
        Begin(c, "consume", "code",
              [code |-> k, resource |-> resource, generation |-> generation, now |-> now], {})
  BY DEF BeginConsume
<1> DEFINE args == [code |-> k, resource |-> resource, generation |-> generation, now |-> now]
<1>2. args.code = k /\ args.now = now /\ args.resource = resource
  OBVIOUS
<1> HIDE DEF args
<1>3. ASSUME Starts(c, "consume", "code", args, {})
      PROVE  ArgsOK(c)' /\ InTime(c)'
  <2>1. conns'[c].op = "consume" /\ conns'[c].args = args /\ conns'[c].fresh = {} /\ time' = time
    BY <1>3 DEF Starts
  <2> QED BY <1>1, <1>2, <2>1 DEF ArgsOK, InTime, Readings
<1>4. <<"consume", "code">> \in FirstStatement
  BY DEF FirstStatement
<1>5. Begin(c, "consume", "code", args, {})
  BY <1>1 DEF args
<1> QED BY <1>3, <1>4, <1>5, BeginKeeps

\* The consents' calls name a JTI, and an approval generates its code.
LEMMA BeginJtiKeeps ==
  ASSUME MysqlInv, NEW c \in Conns, BeginJti(c)
  PROVE  MysqlInv'
<1>1. PICK args \in [jti : Jtis] : Begin(c, "jti", "meta", args, {})
  BY DEF BeginJti
<1>2. ASSUME Starts(c, "jti", "meta", args, {})
      PROVE  ArgsOK(c)' /\ InTime(c)'
  <2>1. conns'[c].op = "jti" /\ conns'[c].args = args /\ conns'[c].fresh = {}
    BY <1>2 DEF Starts
  <2> QED BY <2>1 DEF ArgsOK, InTime, Timed
<1>3. <<"jti", "meta">> \in FirstStatement
  BY DEF FirstStatement
<1> QED BY <1>1, <1>2, <1>3, BeginKeeps

LEMMA BeginConsentKeeps ==
  ASSUME MysqlInv, NEW c \in Conns, BeginConsent(c)
  PROVE  MysqlInv'
<1>1. PICK j \in Jtis, instance \in 1..storeInstanceId, k \in Codes, grant \in Grants,
           binding \in Bindings, resource \in Resources, generation \in Generations,
           now \in Readings :
        /\ now + Ttl \in Times
        /\ Begin(c, "consent", "meta",
                 [jti |-> j, now |-> now, instance |-> instance, code |-> k,
                  record |-> [grant |-> grant, binding |-> binding, resource |-> resource,
                              generation |-> generation, expiresAt |-> now + Ttl]],
                 CodeKeys({k}))
  BY DEF BeginConsent
<1> DEFINE record == [grant |-> grant, binding |-> binding, resource |-> resource,
                      generation |-> generation, expiresAt |-> now + Ttl]
           args == [jti |-> j, now |-> now, instance |-> instance, code |-> k, record |-> record]
<1>2. record \in AuthCodeRecord
  BY <1>1 DEF AuthCodeRecord
<1>3. Begin(c, "consent", "meta", args, CodeKeys({k}))
  BY <1>1
<1> HIDE DEF record
<1>4. args.jti = j /\ args.now = now /\ args.code = k /\ args.record = record
  OBVIOUS
<1> HIDE DEF args
<1>5. ASSUME Starts(c, "consent", "meta", args, CodeKeys({k}))
      PROVE  ArgsOK(c)' /\ InTime(c)'
  <2>1. /\ conns'[c].op = "consent" /\ conns'[c].args = args
        /\ conns'[c].fresh = CodeKeys({k}) /\ time' = time
    BY <1>5 DEF Starts
  <2>2. ArgsOK(c)'
    BY <1>1, <1>2, <1>4, <2>1 DEF ArgsOK, CodeKeys
  <2>3. InTime(c)'
    BY <1>1, <1>4, <2>1 DEF InTime, Readings
  <2> QED BY <2>2, <2>3
<1>6. <<"consent", "meta">> \in FirstStatement
  BY DEF FirstStatement
<1> QED BY <1>3, <1>5, <1>6, BeginKeeps

\* A sweep's time is a reading of its replica's clock, less the allowance.
LEMMA BeginSweepKeeps ==
  ASSUME MysqlInv, NEW c \in Conns, BeginSweep(c)
  PROVE  MysqlInv'
<1>1. PICK s \in Stores, reading \in Readings :
        Begin(c, "sweep", "meta", [store |-> s, now |-> SweepTime(reading)], {})
  BY DEF BeginSweep
<1> DEFINE args == [store |-> s, now |-> SweepTime(reading)]
<1>2. args.store = s /\ args.now = SweepTime(reading)
  OBVIOUS
<1> HIDE DEF args
<1>3. ASSUME Starts(c, "sweep", "meta", args, {})
      PROVE  ArgsOK(c)' /\ InTime(c)'
  <2>1. conns'[c].op = "sweep" /\ conns'[c].args = args /\ conns'[c].fresh = {} /\ time' = time
    BY <1>3 DEF Starts
  <2>2. ArgsOK(c)'
    BY <1>1, <1>2, <2>1 DEF ArgsOK
  <2>3. reading \in Nat /\ time \in Nat /\ reading <= time
    BY <1>1, TimesAssumption DEF Readings, MysqlInv, TimeOK
  <2>4. args.now \in 0..time /\ (args.now = 0 \/ args.now + Lag <= time)
    BY <1>2, <2>3, MysqlAssumption DEF SweepTime
  <2>5. InTime(c)'
    BY <2>1, <2>4 DEF InTime, Timed
  <2> QED BY <2>2, <2>5
<1>4. <<"sweep", "meta">> \in FirstStatement
  BY DEF FirstStatement
<1>5. Begin(c, "sweep", "meta", args, {})
  BY <1>1 DEF args
<1> QED BY <1>3, <1>4, <1>5, BeginKeeps

-----------------------------------------------------------------------------
(* Transactions end; time and the deployment *)

\* Who has a JTI's row has the watermark's.
LEMMA JtiLocked ==
  ASSUME MysqlInv, NEW d \in Conns, NEW j, <<"jti", j>> \in conns[d].locks
  PROVE  Meta \in conns[d].locks
<1>1. ArgsOK(d) /\ HoldsOK(d)
  BY Before
<1>2. PICK k : k = conns[d]
  OBVIOUS
<1>3. k.op # "none"
  <2>1. Idle.locks = {}
    BY DEF Idle
  <2> QED BY <1>1, <1>2, <2>1 DEF ArgsOK
<1>4. k.op \in {"rotate", "save", "revoke", "consume", "jti", "consent", "sweep"}
  BY <1>1, <1>2, <1>3 DEF ArgsOK
<1>5. CASE k.op \in {"rotate", "save", "revoke", "consume"}
  <2>1. \A S : <<"jti", j>> \notin TokenKeys(S)
    BY KeysApart
  <2>2. \A S : <<"jti", j>> \notin FamilyKeys(S)
    BY KeysApart
  <2>3. \A S : <<"jti", j>> \notin CodeKeys(S)
    BY KeysApart
  <2> QED BY <1>1, <1>2, <1>5, <2>1, <2>2, <2>3 DEF HoldsOK
<1>6. CASE k.op \in {"jti", "consent", "sweep"}
  BY <1>1, <1>2, <1>6 DEF HoldsOK
<1> QED BY <1>4, <1>5, <1>6

\* What a transaction has locked is still there.
LEMMA StillStored ==
  ASSUME MysqlInv, NEW d \in Conns, KeptFor(d)
  PROVE  conns[d].locks \subseteq Stored' \cup conns[d].fresh \cup {Meta}
<1> SUFFICES ASSUME NEW key \in conns[d].locks, key \in Stored
             PROVE  key \in Stored'
  BY Before
<1>1. CASE key \in TokenKeys(DOMAIN refreshTokens)
  <2>1. PICK t \in DOMAIN refreshTokens : key = <<"token", t>>
    BY <1>1 DEF TokenKeys
  <2>2. t \in DOMAIN refreshTokens'
    BY <2>1 DEF KeptFor
  <2> QED BY <2>1, <2>2, StoredNext
<1>2. CASE key \in FamilyKeys(DOMAIN families)
  <2>1. PICK f \in DOMAIN families : key = <<"family", f>>
    BY <1>2 DEF FamilyKeys
  <2>2. f \in DOMAIN families'
    BY <2>1 DEF KeptFor
  <2> QED BY <2>1, <2>2, StoredNext
<1>3. CASE key \in CodeKeys(DOMAIN authCodes)
  <2>1. PICK x \in DOMAIN authCodes : key = <<"code", x>>
    BY <1>3 DEF CodeKeys
  <2>2. x \in DOMAIN authCodes'
    BY <2>1 DEF KeptFor
  <2> QED BY <2>1, <2>2, StoredNext
<1>4. CASE key \in JtiKeys(DOMAIN consentJtis)
  <2>1. PICK j \in DOMAIN consentJtis : key = <<"jti", j>>
    BY <1>4 DEF JtiKeys
  <2>2. consentJtis' = consentJtis
    BY <2>1, JtiLocked DEF KeptFor
  <2> QED BY <2>1, <2>2, StoredNext
<1> QED BY <1>1, <1>2, <1>3, <1>4 DEF Stored, RowKeys

\* A transaction that ends, however, keeps the invariant if its rows do and if
\* it left the others theirs.
LEMMA EndKeeps ==
  ASSUME MysqlInv, NEW c \in Conns, SetConn(c, Idle), time' = time,
         StoreTypeOK', TablesOK', RowsOK',
         \A d \in Conns \ {c} : conns'[d] = conns[d] => KeptFor(d)
  PROVE  MysqlInv'
<1>1. /\ conns' = [d \in Conns |-> conns'[d]]
      /\ \A d \in Conns \ {c} : conns'[d] = conns[d]
      /\ ConnShape(c)' /\ conns'[c] = Idle
  <2>1. Idle = Record("none", "idle", None, {}, {}, None, {})
    BY DEF Idle, Record
  <2>2. Idle = Record(Idle.op, Idle.pc, Idle.args, Idle.fresh, Idle.locks, Idle.seen, Idle.doomed)
    BY <2>1, RecordFields
  <2>3. Moves(c) /\ conns'[c] = Idle
    BY <2>2, Before, SetConnMoves
  <2> QED BY <2>3 DEF Moves
<1>2. \A d \in Conns \ {c} : KeptFor(d)
  BY <1>1
<1>3. /\ conns'[c].op = "none" /\ conns'[c].pc = "idle" /\ conns'[c].locks = {}
      /\ conns'[c].fresh = {} /\ conns'[c].doomed = {} /\ Idle' = Idle
  BY <1>1 DEF Idle
<1>4. TimeOK'
  BY DEF MysqlInv, TimeOK
<1>5. ArgsOK(c)' /\ InTime(c)' /\ HoldsOK(c)' /\ SeenOK(c)'
  BY <1>1, <1>3 DEF ArgsOK, InTime, HoldsOK, SeenOK, Timed
<1>6. ConnsOK'
  <2>1. ASSUME NEW d \in Conns \ {c}
        PROVE  ConnShape(d)' /\ ArgsOK(d)' /\ InTime(d)' /\ HoldsOK(d)'
    BY <1>1, OwnKept DEF MysqlInv, ConnsOK
  <2> QED BY <1>1, <1>5, <2>1 DEF ConnsOK
<1>7. LocksOK'
  <2>1. \A d \in Conns \ {c} : conns[d].locks \subseteq Stored' \cup conns[d].fresh \cup {Meta}
    BY <1>2, StillStored
  <2>2. \A d \in Conns \ {c} : conns[d].fresh \cap Stored' = {}
    BY <1>2 DEF KeptFor
  <2>3. \A d, e \in Conns : d # e => /\ conns[d].locks \cap conns[e].locks = {}
                                     /\ conns[d].fresh \cap conns[e].fresh = {}
    BY DEF MysqlInv, LocksOK
  <2>4. ASSUME NEW d \in Conns
        PROVE  /\ conns'[d].locks \subseteq Stored' \cup conns'[d].fresh \cup {Meta}
               /\ conns'[d].fresh \cap Stored' = {}
    BY <1>1, <1>3, <2>1, <2>2
  <2>5. ASSUME NEW d \in Conns, NEW e \in Conns, d # e
        PROVE  /\ conns'[d].locks \cap conns'[e].locks = {}
               /\ conns'[d].fresh \cap conns'[e].fresh = {}
    BY <1>1, <1>3, <2>3, <2>5
  <2> QED BY <2>4, <2>5, ConstantKeys DEF LocksOK
<1>8. \A d \in Conns \ {c} : SeenOK(d)'
  BY <1>2, SeenKept
<1> QED BY <1>4, <1>5, <1>6, <1>7, <1>8 DEF MysqlInv

\* A failure rolls back: its rows were never seen.
LEMMA FailKeeps ==
  ASSUME MysqlInv, NEW c \in Conns, Fail(c)
  PROVE  MysqlInv'
<1>1. SetConn(c, Idle) /\ UNCHANGED storeVars /\ time' = time
  BY DEF Fail, RolledBack
<1>2. StoreTypeOK' /\ TablesOK' /\ RowsOK'
  BY <1>1 DEF MysqlInv, storeVars, StoreTypeOK, AuthCodesOK, TokensOK, FamiliesOK, ConsentsOK,
              TablesOK, RowsOK, RowsMatchFamily
<1>3. \A d \in Conns \ {c} : conns'[d] = conns[d] => KeptFor(d)
  BY <1>1, StillKept
<1> QED BY <1>1, <1>2, <1>3, EndKeeps

\* A step that touches neither rows nor connections.
LEMMA IdleKeeps ==
  ASSUME MysqlInv, UNCHANGED <<storeVars, time, conns>>
  PROVE  MysqlInv'
<1>1. StoreTypeOK' /\ TablesOK' /\ RowsOK' /\ TimeOK'
  BY DEF MysqlInv, storeVars, StoreTypeOK, AuthCodesOK, TokensOK, FamiliesOK, ConsentsOK,
         TablesOK, RowsOK, RowsMatchFamily, TimeOK
<1>2. ConnsOK'
  <2>1. ASSUME NEW d \in Conns
        PROVE  ConnShape(d)' /\ ArgsOK(d)' /\ InTime(d)' /\ HoldsOK(d)'
    BY OwnKept DEF MysqlInv, ConnsOK
  <2> QED BY <2>1 DEF MysqlInv, ConnsOK
<1>3. LocksOK'
  BY ConstantKeys DEF MysqlInv, LocksOK, storeVars, Stored, RowKeys
<1>4. \A d \in Conns : SeenOK(d)'
  BY StillKept, SeenKept
<1> QED BY <1>1, <1>2, <1>3, <1>4 DEF MysqlInv

\* A new identity waits for the watermark.
LEMMA InstanceKeeps ==
  ASSUME MysqlInv, RotateInstance
  PROVE  MysqlInv'
<1>1. /\ storeInstanceId < MaxInstance /\ storeInstanceId' = storeInstanceId + 1
      /\ UNCHANGED <<authCodes, refreshTokens, families, consentJtis, sweptThrough, spentJtis>>
      /\ time' = time /\ conns' = conns
  BY DEF RotateInstance, RotateStoreInstanceId
<1>2. StoreTypeOK' /\ TablesOK' /\ RowsOK' /\ TimeOK'
  BY <1>1, InstanceAssumption
     DEF MysqlInv, StoreTypeOK, AuthCodesOK, TokensOK, FamiliesOK, ConsentsOK,
         TablesOK, RowsOK, RowsMatchFamily, TimeOK
<1>3. ConnsOK'
  <2>1. ASSUME NEW d \in Conns
        PROVE  ConnShape(d)' /\ ArgsOK(d)' /\ InTime(d)' /\ HoldsOK(d)'
    BY <1>1, OwnKept DEF MysqlInv, ConnsOK
  <2> QED BY <1>1, <2>1 DEF MysqlInv, ConnsOK
<1>4. Stored' = Stored
  BY <1>1 DEF Stored, RowKeys
<1>5. LocksOK'
  BY <1>1, <1>4, ConstantKeys DEF MysqlInv, LocksOK
<1>6. \A d \in Conns : KeptFor(d)
  <2>1. \A d \in Conns : Meta \notin conns[d].locks /\ conns[d].fresh \cap Stored' = {}
    BY <1>4 DEF RotateInstance, MysqlInv, LocksOK
  <2> QED BY <1>1, <2>1 DEF KeptFor
<1>7. \A d \in Conns : SeenOK(d)'
  BY <1>6, SeenKept
<1> QED BY <1>2, <1>3, <1>5, <1>7 DEF MysqlInv

\* Time passes, but not beyond what an open call allows.
LEMMA TickKeeps ==
  ASSUME MysqlInv, Tick
  PROVE  MysqlInv'
<1>1. /\ time + 1 \in Times /\ time' = time + 1 /\ UNCHANGED <<storeVars, conns>>
      /\ \A c \in Conns : conns[c].op \in Timed => time < conns[c].args.now + Skew
  BY DEF Tick, Timed
<1>2. time \in Nat /\ time \in Times /\ 0..time \subseteq Times
  BY TimesAssumption DEF MysqlInv, TimeOK
<1>3. TimeOK'
  BY <1>1, <1>2 DEF TimeOK
<1>4. StoreTypeOK' /\ TablesOK' /\ RowsOK'
  BY <1>1 DEF MysqlInv, storeVars, StoreTypeOK, AuthCodesOK, TokensOK, FamiliesOK, ConsentsOK,
              TablesOK, RowsOK, RowsMatchFamily
<1>5. ConnsOK'
  <2>1. ASSUME NEW d \in Conns
        PROVE  InTime(d)'
    <3>1. PICK k : k = conns[d] /\ k = conns'[d]
      BY <1>1
    <3>2. InTime(d)
      BY DEF MysqlInv, ConnsOK
    <3>3. k.op \in Timed => /\ k.args.now \in Times /\ k.args.now <= time + 1
                            /\ time + 1 <= k.args.now + Skew
      <4>1. k.op \in Timed => /\ k.args.now \in Nat /\ k.args.now \in Times /\ k.args.now <= time
                              /\ time < k.args.now + Skew
        BY <1>1, <3>1, <3>2, TimesAssumption DEF InTime
      <4> QED BY <1>2, <4>1, MysqlAssumption
    <3>4. k.op = "sweep" => /\ k.args.now \in 0..(time + 1)
                            /\ (k.args.now = 0 \/ k.args.now + Lag <= time + 1)
      <4>1. k.op = "sweep" => /\ k.args.now \in 0..time
                              /\ (k.args.now = 0 \/ k.args.now + Lag <= time)
        BY <3>1, <3>2 DEF InTime
      <4> QED BY <1>2, <4>1, MysqlAssumption
    <3> QED BY <1>1, <3>1, <3>3, <3>4 DEF InTime, Timed
  <2>2. ASSUME NEW d \in Conns
        PROVE  ConnShape(d)' /\ ArgsOK(d)' /\ HoldsOK(d)'
    BY <1>1, OwnKept DEF MysqlInv, ConnsOK
  <2> QED BY <1>1, <2>1, <2>2 DEF MysqlInv, ConnsOK
<1>6. LocksOK'
  BY <1>1, ConstantKeys DEF MysqlInv, LocksOK, storeVars, Stored, RowKeys
<1>7. \A d \in Conns : SeenOK(d)'
  BY <1>1, StillKept, SeenKept
<1> QED BY <1>3, <1>4, <1>5, <1>6, <1>7 DEF MysqlInv

-----------------------------------------------------------------------------
(* Commits *)

\* A commit changes rows the transaction has locked and adds rows it has
\* generated; codes, JTIs and watermark, and the removal of tokens and
\* families, are for those who hold the watermark or, for a code, its row.
Touches(c) ==
  LET k == conns[c] IN
  /\ \A t \in DOMAIN refreshTokens :
       <<"token", t>> \notin k.locks
         => t \in DOMAIN refreshTokens' /\ refreshTokens'[t] = refreshTokens[t]
  /\ \A f \in DOMAIN families :
       <<"family", f>> \notin k.locks => f \in DOMAIN families' /\ families'[f] = families[f]
  /\ \A x \in DOMAIN authCodes :
       <<"code", x>> \notin k.locks => x \in DOMAIN authCodes' /\ authCodes'[x] = authCodes[x]
  /\ Stored' \subseteq Stored \cup k.fresh \cup JtiKeys(Jtis)
  /\ Meta \notin k.locks =>
       /\ UNCHANGED <<consentJtis, sweptThrough, storeInstanceId>>
       /\ \A x \in DOMAIN authCodes' : x \in DOMAIN authCodes /\ authCodes'[x] = authCodes[x]
       /\ \A t \in DOMAIN refreshTokens :
            /\ t \in DOMAIN refreshTokens'
            /\ refreshTokens'[t].family = refreshTokens[t].family
            /\ refreshTokens'[t].expiresAt = refreshTokens[t].expiresAt
       /\ \A t \in DOMAIN refreshTokens' \ DOMAIN refreshTokens :
            <<"family", refreshTokens'[t].family>> \in k.locks
       /\ \A f \in DOMAIN families : f \in DOMAIN families'
       /\ \A f \in DOMAIN families' \ DOMAIN families :
            \E t \in DOMAIN refreshTokens' \ DOMAIN refreshTokens : refreshTokens'[t].family = f

\* Nobody generates a JTI's row.
LEMMA FreshApart ==
  ASSUME MysqlInv, NEW d \in Conns
  PROVE  conns[d].fresh \cap JtiKeys(Jtis) = {}
<1>1. ArgsOK(d)
  BY Before
<1>2. PICK k : k = conns[d]
  OBVIOUS
<1>3. /\ \A S : TokenKeys(S) \cap JtiKeys(Jtis) = {}
      /\ \A S : FamilyKeys(S) \cap JtiKeys(Jtis) = {}
      /\ \A S : CodeKeys(S) \cap JtiKeys(Jtis) = {}
  BY DEF TokenKeys, FamilyKeys, CodeKeys, JtiKeys
<1>4. CASE k.op = "none"
  BY <1>1, <1>2, <1>4 DEF ArgsOK, Idle
<1>5. CASE k.op = "rotate"
  <2>1. RotateArgs(d)
    BY <1>1, <1>2, <1>5 DEF ArgsOK
  <2> QED BY <1>2, <1>3, <2>1 DEF RotateArgs
<1>6. CASE k.op = "save"
  <2>1. SaveArgs(d)
    BY <1>1, <1>2, <1>6 DEF ArgsOK
  <2> QED BY <1>2, <1>3, <2>1 DEF SaveArgs
<1>7. CASE k.op = "consent"
  <2>1. k.fresh = CodeKeys({k.args.code})
    BY <1>1, <1>2, <1>7 DEF ArgsOK
  <2> QED BY <1>2, <1>3, <2>1
<1>8. CASE k.op \in {"revoke", "consume", "jti", "sweep"}
  BY <1>1, <1>2, <1>8 DEF ArgsOK
<1> QED BY <1>1, <1>2, <1>4, <1>5, <1>6, <1>7, <1>8 DEF ArgsOK

\* Such a commit leaves the others what they hold.
LEMMA TouchesKept ==
  ASSUME MysqlInv, NEW c \in Conns, NEW d \in Conns \ {c}, Touches(c), conns'[d] = conns[d]
  PROVE  KeptFor(d)
<1>1. PICK k : k = conns[c]
  OBVIOUS
<1>2. PICK m : m = conns[d]
  OBVIOUS
<1>3. k.locks \cap m.locks = {} /\ k.fresh \cap m.fresh = {} /\ m.fresh \cap Stored = {}
  BY <1>1, <1>2 DEF MysqlInv, LocksOK
<1>4. m.fresh \cap JtiKeys(Jtis) = {}
  BY <1>2, FreshApart
<1>5. m.fresh \cap Stored' = {}
  BY <1>1, <1>3, <1>4 DEF Touches
<1>6. \A t \in DOMAIN refreshTokens :
        <<"token", t>> \in m.locks
          => t \in DOMAIN refreshTokens' /\ refreshTokens'[t] = refreshTokens[t]
  BY <1>1, <1>3 DEF Touches
<1>7. \A f \in DOMAIN families :
        <<"family", f>> \in m.locks => f \in DOMAIN families' /\ families'[f] = families[f]
  BY <1>1, <1>3 DEF Touches
<1>8. \A x \in DOMAIN authCodes :
        <<"code", x>> \in m.locks => x \in DOMAIN authCodes' /\ authCodes'[x] = authCodes[x]
  BY <1>1, <1>3 DEF Touches
<1>9. CASE Meta \in m.locks
  <2>1. Meta \notin k.locks
    BY <1>3, <1>9
  <2>2. /\ UNCHANGED <<consentJtis, sweptThrough, storeInstanceId>>
        /\ \A x \in DOMAIN authCodes' : x \in DOMAIN authCodes /\ authCodes'[x] = authCodes[x]
        /\ \A t \in DOMAIN refreshTokens :
             /\ t \in DOMAIN refreshTokens'
             /\ refreshTokens'[t].family = refreshTokens[t].family
             /\ refreshTokens'[t].expiresAt = refreshTokens[t].expiresAt
        /\ \A f \in DOMAIN families : f \in DOMAIN families'
        /\ \A f \in DOMAIN families' \ DOMAIN families :
             \E t \in DOMAIN refreshTokens' \ DOMAIN refreshTokens : refreshTokens'[t].family = f
    BY <1>1, <2>1 DEF Touches
  <2>3. \A t \in DOMAIN refreshTokens' \ DOMAIN refreshTokens :
          <<"family", refreshTokens'[t].family>> \in k.locks
    BY <1>1, <2>1 DEF Touches
  <2>4. \A t \in DOMAIN refreshTokens' \ DOMAIN refreshTokens :
          <<"family", refreshTokens'[t].family>> \notin m.locks
    BY <1>3, <2>3
  <2> QED BY <1>2, <1>5, <1>6, <1>7, <1>8, <2>2, <2>4 DEF KeptFor
<1>10. CASE Meta \notin m.locks
  BY <1>2, <1>5, <1>6, <1>7, <1>8, <1>10 DEF KeptFor
<1> QED BY <1>9, <1>10

\* The rows that a commit leaves, and to whom.
RowsAfter(c) == StoreTypeOK' /\ TablesOK' /\ RowsOK' /\ Touches(c)

\* A commit keeps the invariant if its rows do.
LEMMA CommitKeeps ==
  ASSUME MysqlInv, NEW c \in Conns, CommitTransaction(c), RowsAfter(c)
  PROVE  MysqlInv'
<1> USE DEF RowsAfter
<1>1. SetConn(c, Idle) /\ time' = time
  BY DEF CommitTransaction
<1>2. \A d \in Conns \ {c} : conns'[d] = conns[d] => KeptFor(d)
  BY TouchesKept
<1> QED BY <1>1, <1>2, EndKeeps

\* A filter that takes nothing leaves the table as it is.
LEMMA KeptAll ==
  ASSUME NEW f, f = [x \in DOMAIN f |-> f[x]], NEW kind, NEW doomed,
         \A x \in DOMAIN f : <<kind, x>> \notin doomed
  PROVE  KeptRows(f, kind, doomed) = f
<1>1. {x \in DOMAIN f : <<kind, x>> \notin doomed} = DOMAIN f
  OBVIOUS
<1>2. Restrict(f, DOMAIN f) = f
  BY DEF Restrict
<1> QED BY <1>1, <1>2 DEF KeptRows

\* Revocation rewrites one row of the families' table.
LEMMA RevokedFun ==
  ASSUME MysqlInv, NEW f \in DOMAIN families, families' = RevokeFamilyRow(f)
  PROVE  /\ families' = [g \in DOMAIN families' |-> families'[g]]
         /\ DOMAIN families' = DOMAIN families
         /\ \A g \in DOMAIN families : /\ families'[g] \in FamilyRow
                                       /\ families'[g].resource = families[g].resource
                                       /\ families'[g].generation = families[g].generation
                                       /\ g # f => families'[g] = families[g]
<1>1. \A g \in DOMAIN families : families[g] \in FamilyRow
  BY DEF MysqlInv, StoreTypeOK, FamiliesOK
<1>2. families' = [families EXCEPT ![f].revoked = TRUE]
  BY DEF RevokeFamilyRow
<1>3. \A g \in DOMAIN families : g # f => families'[g] = families[g]
  BY <1>2
<1>4. families'[f] = [families[f] EXCEPT !.revoked = TRUE]
  BY <1>2
<1>5. /\ families'[f] \in FamilyRow /\ families'[f].resource = families[f].resource
      /\ families'[f].generation = families[f].generation
  BY <1>1, <1>4 DEF FamilyRow
<1>6. DOMAIN families' = DOMAIN families /\ families' = [g \in DOMAIN families' |-> families'[g]]
  BY <1>2
<1> QED BY <1>1, <1>3, <1>5, <1>6

\* What the transaction that commits had locked and read.
LEMMA AtCommit ==
  ASSUME MysqlInv, NEW c \in Conns, conns[c].pc = "commit"
  PROVE  /\ conns[c].op = "rotate" => RotateArgs(c) /\ RotateSeen(c) /\ conns[c].doomed = {}
         /\ conns[c].op = "save" => /\ SaveArgs(c)
                                    /\ conns[c].locks = FamilyKeys({conns[c].args.row.family})
         /\ conns[c].op = "revoke" => RevokeSeen(c)
         /\ conns[c].op = "consume" =>
              /\ ConsumeSeen(c)
              /\ conns[c].locks \subseteq CodeKeys({conns[c].args.code})
              /\ conns[c].doomed \subseteq conns[c].locks
         /\ conns[c].op \in {"jti", "consent"} =>
              JtiSeen(c) /\ conns[c].locks = {Meta} /\ conns[c].args.jti \in Jtis
         /\ conns[c].op = "consent" =>
              /\ conns[c].args.code \in Codes /\ conns[c].args.record \in AuthCodeRecord
              /\ conns[c].fresh = CodeKeys({conns[c].args.code})
         /\ conns[c].op = "sweep" =>
              SweepSeen(c) /\ conns[c].locks = {Meta} \cup conns[c].doomed
         /\ conns[c].fresh \cap Stored = {}
<1>1. ArgsOK(c) /\ HoldsOK(c) /\ SeenOK(c) /\ conns[c].fresh \cap Stored = {}
  BY Before
<1>2. conns[c].op = "rotate" => RotateArgs(c) /\ RotateSeen(c) /\ conns[c].doomed = {}
  BY <1>1 DEF ArgsOK, HoldsOK, SeenOK
<1>3. conns[c].op = "save" => /\ SaveArgs(c)
                              /\ conns[c].locks = FamilyKeys({conns[c].args.row.family})
  BY <1>1 DEF ArgsOK, HoldsOK
<1>4. conns[c].op = "revoke" => RevokeSeen(c)
  BY <1>1 DEF SeenOK
<1>5. conns[c].op = "consume" =>
        /\ ConsumeSeen(c)
        /\ conns[c].locks \subseteq CodeKeys({conns[c].args.code})
        /\ conns[c].doomed \subseteq conns[c].locks
  BY <1>1 DEF SeenOK, HoldsOK
<1>6. conns[c].op \in {"jti", "consent"} =>
        JtiSeen(c) /\ conns[c].locks = {Meta} /\ conns[c].args.jti \in Jtis
  BY <1>1 DEF SeenOK, HoldsOK, ArgsOK
<1>7. conns[c].op = "consent" =>
        /\ conns[c].args.code \in Codes /\ conns[c].args.record \in AuthCodeRecord
        /\ conns[c].fresh = CodeKeys({conns[c].args.code})
  BY <1>1 DEF ArgsOK
<1>8. conns[c].op = "sweep" => SweepSeen(c) /\ conns[c].locks = {Meta} \cup conns[c].doomed
  BY <1>1 DEF SeenOK, HoldsOK
<1> QED BY <1>1, <1>2, <1>3, <1>4, <1>5, <1>6, <1>7, <1>8

\* A save commits as one SaveRefreshToken, which is accepted.
LEMMA SaveCommits ==
  ASSUME MysqlInv, NEW c \in Conns, conns[c].pc = "commit", CommitSave(c),
         storeInstanceId' = storeInstanceId
  PROVE  /\ SaveAccepted(conns[c].args.token, conns[c].args.row)
         /\ SaveRefreshToken(conns[c].args.token, conns[c].args.row)
         /\ conns[c].args.row.family \notin DOMAIN families
<1>1. PICK k : k = conns[c]
  OBVIOUS
<1>2. k.op = "save" /\ k.fresh \cap Stored = {} /\ SaveArgs(c)
  BY <1>1, AtCommit DEF CommitSave
<1>3. k.fresh = {<<"token", k.args.token>>} \cup {<<"family", k.args.row.family>>}
  BY <1>1, <1>2, OneKey DEF SaveArgs
<1>4. <<"token", k.args.token>> \notin Stored /\ <<"family", k.args.row.family>> \notin Stored
  BY <1>2, <1>3
<1>5. k.args.token \notin DOMAIN refreshTokens /\ k.args.row.family \notin DOMAIN families
  BY <1>4, StoredKeys
<1>6. SaveAccepted(k.args.token, k.args.row)
  BY <1>5 DEF SaveAccepted
<1>7. SaveRefreshToken(k.args.token, k.args.row)
  BY <1>1, <1>6 DEF CommitSave, SaveRefreshToken, consentRows
<1> QED BY <1>1, <1>5, <1>6, <1>7

\* It inserts its own rows.
LEMMA SaveRowsAfter ==
  ASSUME MysqlInv, NEW c \in Conns, CommitTransaction(c), CommitSave(c)
  PROVE  RowsAfter(c)
<1>0. PICK k : k = conns[c]
  OBVIOUS
<1> DEFINE t == k.args.token
           row == k.args.row
           new == [revoked |-> FALSE, generation |-> row.generation, resource |-> row.resource]
<1>1. k.pc = "commit" /\ storeInstanceId' = storeInstanceId
  BY <1>0 DEF CommitTransaction
<1>2. SaveAccepted(t, row) /\ SaveRefreshToken(t, row) /\ row.family \notin DOMAIN families
  BY <1>0, <1>1, SaveCommits
<1>3. /\ refreshTokens' = Put(refreshTokens, t, row)
      /\ families' = Put(families, row.family, new)
      /\ UNCHANGED <<authCodes, consentJtis, sweptThrough, storeInstanceId, spentJtis>>
      /\ t \notin DOMAIN refreshTokens
  BY <1>2 DEF SaveAccepted, SaveRefreshToken, InsertToken
<1>4. /\ t \in Tokens /\ row \in RootRows /\ k.locks = {<<"family", row.family>>}
      /\ k.fresh = {<<"token", t>>, <<"family", row.family>>}
  <2>1. SaveArgs(c) /\ k.locks = FamilyKeys({row.family})
    BY <1>0, <1>1, AtCommit DEF CommitSave
  <2>2. TokenKeys({t}) = {<<"token", t>>} /\ FamilyKeys({row.family}) = {<<"family", row.family>>}
    BY OneKey
  <2>3. t \in Tokens /\ row \in RootRows /\ k.fresh = TokenKeys({t}) \cup FamilyKeys({row.family})
    BY <1>0, <2>1 DEF SaveArgs
  <2> HIDE DEF t, row
  <2> QED BY <2>1, <2>2, <2>3
<1>5. row \in RefreshTokenRow
  BY <1>4 DEF RootRows
<1>6. StoreTypeOK'
  BY <1>2, <1>4, <1>5, SaveTokenType DEF MysqlInv
<1>7. new.resource = row.resource /\ new.generation = row.generation
  OBVIOUS
<1> HIDE DEF new
<1>8. /\ DOMAIN refreshTokens' = DOMAIN refreshTokens \cup {t} /\ refreshTokens'[t] = row
      /\ \A u \in DOMAIN refreshTokens : refreshTokens'[u] = refreshTokens[u]
      /\ refreshTokens' = [u \in DOMAIN refreshTokens' |-> refreshTokens'[u]]
  BY <1>3 DEF Put
<1>9. /\ DOMAIN families' = DOMAIN families \cup {row.family} /\ families'[row.family] = new
      /\ \A f \in DOMAIN families : families'[f] = families[f]
      /\ families' = [f \in DOMAIN families' |-> families'[f]]
  BY <1>2, <1>3 DEF Put
<1>10. TablesOK'
  BY <1>3, <1>8, <1>9 DEF MysqlInv, TablesOK
<1> HIDE DEF t, row
<1>11. RowsOK'
  <2>1. /\ \A u \in DOMAIN refreshTokens :
             /\ refreshTokens[u].family \in DOMAIN families
             /\ families[refreshTokens[u].family].resource = refreshTokens[u].resource
             /\ families[refreshTokens[u].family].generation = refreshTokens[u].generation
        /\ \A f \in DOMAIN families : \E u \in DOMAIN refreshTokens : refreshTokens[u].family = f
    BY DEF MysqlInv, RowsOK, RowsMatchFamily
  <2>2. \A u \in DOMAIN refreshTokens' :
             /\ refreshTokens'[u].family \in DOMAIN families'
             /\ families'[refreshTokens'[u].family].resource = refreshTokens'[u].resource
             /\ families'[refreshTokens'[u].family].generation = refreshTokens'[u].generation
    BY <1>7, <1>8, <1>9, <2>1
  <2>3. \A f \in DOMAIN families' : \E u \in DOMAIN refreshTokens' : refreshTokens'[u].family = f
    BY <1>8, <1>9, <2>1
  <2> QED BY <2>2, <2>3 DEF RowsOK, RowsMatchFamily
<1>12. Touches(c)
  <2>1. Stored' \subseteq Stored \cup k.fresh
    <3>1. TokenKeys(DOMAIN refreshTokens') = TokenKeys(DOMAIN refreshTokens) \cup {<<"token", t>>}
      BY <1>8 DEF TokenKeys
    <3>2. FamilyKeys(DOMAIN families') = FamilyKeys(DOMAIN families) \cup {<<"family", row.family>>}
      BY <1>9 DEF FamilyKeys
    <3> QED BY <1>3, <1>4, <3>1, <3>2 DEF Stored, RowKeys
  <2>2. /\ UNCHANGED <<consentJtis, sweptThrough, storeInstanceId>>
        /\ \A x \in DOMAIN authCodes' : x \in DOMAIN authCodes /\ authCodes'[x] = authCodes[x]
        /\ authCodes' = authCodes
    BY <1>3
  <2>3. \A u \in DOMAIN refreshTokens' \ DOMAIN refreshTokens :
          <<"family", refreshTokens'[u].family>> \in k.locks
    BY <1>4, <1>8
  <2>4. \A f \in DOMAIN families' \ DOMAIN families :
          \E u \in DOMAIN refreshTokens' \ DOMAIN refreshTokens : refreshTokens'[u].family = f
    BY <1>3, <1>8, <1>9
  <2> QED BY <1>0, <1>8, <1>9, <2>1, <2>2, <2>3, <2>4 DEF Touches
<1> QED BY <1>6, <1>10, <1>11, <1>12 DEF RowsAfter

\* A commit that changes no row.
LEMMA NothingCommitted ==
  ASSUME MysqlInv, NEW c \in Conns, UNCHANGED storeVars
  PROVE  StoreTypeOK' /\ TablesOK' /\ RowsOK' /\ Touches(c)
<1>1. StoreTypeOK' /\ TablesOK' /\ RowsOK'
  BY DEF MysqlInv, storeVars, StoreTypeOK, AuthCodesOK, TokensOK, FamiliesOK, ConsentsOK,
         TablesOK, RowsOK, RowsMatchFamily
<1>2. Stored' = Stored
  BY DEF storeVars, Stored, RowKeys
<1> QED BY <1>1, <1>2 DEF storeVars, Touches

\* A family's revocation is type-correct and touches that family only.
LEMMA RevocationCommits ==
  ASSUME MysqlInv, NEW c \in Conns, NEW f \in DOMAIN families,
         families' = RevokeFamilyRow(f), <<"family", f>> \in conns[c].locks,
         UNCHANGED <<authCodes, refreshTokens, consentRows, sweptThrough, storeInstanceId>>
  PROVE  StoreTypeOK' /\ TablesOK' /\ RowsOK' /\ Touches(c)
<1>1. /\ families' = [g \in DOMAIN families' |-> families'[g]]
      /\ DOMAIN families' = DOMAIN families
      /\ \A g \in DOMAIN families : /\ families'[g] \in FamilyRow
                                    /\ families'[g].resource = families[g].resource
                                    /\ families'[g].generation = families[g].generation
                                    /\ g # f => families'[g] = families[g]
  BY RevokedFun
<1>2. StoreTypeOK'
  BY <1>1 DEF MysqlInv, StoreTypeOK, AuthCodesOK, TokensOK, FamiliesOK, ConsentsOK, consentRows
<1>3. TablesOK'
  BY <1>1 DEF MysqlInv, TablesOK, consentRows
<1>4. RowsOK'
  BY <1>1 DEF MysqlInv, RowsOK, RowsMatchFamily
<1>5. Stored' = Stored
  BY <1>1 DEF Stored, RowKeys, consentRows
<1>6. Touches(c)
  BY <1>1, <1>5 DEF Touches, consentRows
<1> QED BY <1>2, <1>3, <1>4, <1>6

\* A revocation commits as one RevokeRefreshTokenFamily, or does nothing.
LEMMA RevokeCommits ==
  ASSUME MysqlInv, NEW c \in Conns, conns[c].pc = "commit", CommitRevoke(c),
         storeInstanceId' = storeInstanceId
  PROVE  \/ UNCHANGED storeVars
         \/ /\ RevokeRefreshTokenFamily(conns[c].args.family, conns[c].args.resource)
            /\ conns[c].args.family \in DOMAIN families
            /\ families' = RevokeFamilyRow(conns[c].args.family)
            /\ <<"family", conns[c].args.family>> \in conns[c].locks
<1>1. PICK k : k = conns[c]
  OBVIOUS
<1>2. k.op = "revoke" /\ RevokeSeen(c)
  BY <1>1, AtCommit DEF CommitRevoke
<1>3. CASE ~k.seen.revokes
  BY <1>1, <1>3 DEF CommitRevoke, storeVars, consentRows
<1>4. CASE k.seen.revokes
  <2>1. /\ <<"family", k.args.family>> \in k.locks
        /\ k.args.family \in DOMAIN families
        /\ k.args.resource # None => families[k.args.family].resource = k.args.resource
    BY <1>1, <1>2, <1>4 DEF RevokeSeen
  <2>2. /\ families' = RevokeFamilyRow(k.args.family)
        /\ UNCHANGED <<authCodes, refreshTokens, consentRows, sweptThrough>>
    BY <1>1, <1>4 DEF CommitRevoke
  <2>3. RevokeRefreshTokenFamily(k.args.family, k.args.resource)
    BY <2>1, <2>2 DEF RevokeRefreshTokenFamily, consentRows
  <2> QED BY <1>1, <2>1, <2>2, <2>3
<1> QED BY <1>3, <1>4

LEMMA RevokeRowsAfter ==
  ASSUME MysqlInv, NEW c \in Conns, CommitTransaction(c), CommitRevoke(c)
  PROVE  RowsAfter(c)
<1>1. /\ conns[c].pc = "commit" /\ storeInstanceId' = storeInstanceId
      /\ UNCHANGED <<authCodes, refreshTokens, consentRows, sweptThrough>>
  BY DEF CommitTransaction, CommitRevoke
<1>2. StoreTypeOK' /\ TablesOK' /\ RowsOK' /\ Touches(c)
  <2>1. CASE UNCHANGED storeVars
    BY <2>1, NothingCommitted
  <2>2. PICK f : f = conns[c].args.family
    OBVIOUS
  <2>3. CASE /\ f \in DOMAIN families /\ families' = RevokeFamilyRow(f)
             /\ <<"family", f>> \in conns[c].locks
    BY <1>1, <2>3, RevocationCommits
  <2> QED BY <1>1, <2>1, <2>2, <2>3, RevokeCommits
<1> QED BY <1>2 DEF RowsAfter

\* A consent's transaction commits as one ConsumeConsentJti or one
\* CommitConsentApproval; that it read the table before others committed makes
\* no difference, because the watermark was locked.
LEMMA JtiCommits ==
  ASSUME MysqlInv, NEW c \in Conns, conns[c].pc = "commit", CommitJti(c),
         storeInstanceId' = storeInstanceId
  PROVE  LET args == conns[c].args IN
         /\ conns[c].op = "jti" => ConsumeConsentJti(args.jti, JtiExpiry[args.jti])
         /\ conns[c].op = "consent" =>
              CommitConsentApproval(args.instance, args.jti, JtiExpiry[args.jti], args.code, args.record)
<1>1. PICK k : k = conns[c]
  OBVIOUS
<1> DEFINE e == JtiExpiry[k.args.jti]
           verdict == k.seen.verdict
<1>2. k.op \in {"jti", "consent"} /\ JtiSeen(c)
  BY <1>1, AtCommit DEF CommitJti
<1>3. /\ IF verdict \in {"new", "stored"}
         THEN /\ consentJtis' = Put(consentJtis, k.args.jti, e)
              /\ spentJtis' = spentJtis \cup {k.args.jti}
         ELSE UNCHANGED consentRows
      /\ authCodes' = IF verdict = "stored" THEN Put(authCodes, k.args.code, k.args.record)
                      ELSE authCodes
      /\ UNCHANGED <<tokenRows, sweptThrough>>
  BY <1>1 DEF CommitJti
<1>4. CASE k.op = "jti"
  <2>1. verdict = IF JtiSpent(k.args.jti, e) THEN "replayed" ELSE "new"
    BY <1>1, <1>2, <1>4 DEF JtiSeen, ConsumeConsentJtiAnswer
  <2> HIDE DEF e, verdict
  <2>2. ConsumeConsentJti(k.args.jti, e)
    BY <1>3, <2>1 DEF ConsumeConsentJti, tokenRows, consentRows
  <2> QED BY <1>1, <1>4, <2>2 DEF e
<1>5. CASE k.op = "consent"
  <2>1. verdict = CommitConsentAnswer(k.args.instance, k.args.jti, e)
    BY <1>1, <1>2, <1>5 DEF JtiSeen
  <2>2. verdict # "new"
    BY <2>1 DEF CommitConsentAnswer
  <2> HIDE DEF e, verdict
  <2>3. CommitConsentApproval(k.args.instance, k.args.jti, e, k.args.code, k.args.record)
    BY <1>3, <2>1, <2>2 DEF CommitConsentApproval, tokenRows, consentRows
  <2> QED BY <1>1, <1>5, <2>3 DEF e
<1> QED BY <1>1, <1>2, <1>4, <1>5

LEMMA JtiRowsAfter ==
  ASSUME MysqlInv, NEW c \in Conns, CommitTransaction(c), CommitJti(c)
  PROVE  RowsAfter(c)
<1>0. PICK k : k = conns[c]
  OBVIOUS
<1> DEFINE j == k.args.jti
           e == JtiExpiry[j]
<1>1. k.pc = "commit" /\ storeInstanceId' = storeInstanceId
  BY <1>0 DEF CommitTransaction
<1>2. /\ k.op \in {"jti", "consent"} /\ k.locks = {Meta} /\ j \in Jtis
      /\ k.op = "consent" => /\ k.args.code \in Codes /\ k.args.record \in AuthCodeRecord
                             /\ k.fresh = {<<"code", k.args.code>>}
  <2>1. k.op = "consent" => /\ k.args.code \in Codes /\ k.args.record \in AuthCodeRecord
                            /\ k.fresh = CodeKeys({k.args.code})
    BY <1>0, <1>1, AtCommit
  <2>2. CodeKeys({k.args.code}) = {<<"code", k.args.code>>}
    BY OneKey
  <2>3. k.op \in {"jti", "consent"}
    BY <1>0 DEF CommitJti
  <2>4. k.locks = {Meta} /\ j \in Jtis
    BY <1>0, <1>1, <2>3, AtCommit
  <2> QED BY <2>1, <2>2, <2>3, <2>4
<1>3. e \in Times
  BY <1>2, JtiExpiryAssumption
<1>4. /\ consentJtis' = consentJtis \/ consentJtis' = Put(consentJtis, j, e)
      /\ authCodes' = authCodes \/ /\ k.op = "consent"
                                   /\ authCodes' = Put(authCodes, k.args.code, k.args.record)
      /\ UNCHANGED <<refreshTokens, families, sweptThrough>>
  <2>1. /\ \/ consentJtis' = consentJtis
           \/ consentJtis' = Put(consentJtis, j, e)
        /\ UNCHANGED <<refreshTokens, families, sweptThrough>>
    BY <1>0 DEF CommitJti, tokenRows, consentRows
  <2>2. CASE k.op = "jti"
    <3>1. ConsumeConsentJti(j, e)
      BY <1>0, <1>1, <2>2, JtiCommits
    <3> QED BY <2>1, <3>1 DEF ConsumeConsentJti
  <2>3. CASE k.op = "consent"
    <3>1. CommitConsentApproval(k.args.instance, j, e, k.args.code, k.args.record)
      BY <1>0, <1>1, <2>3, JtiCommits
    <3> QED BY <2>1, <2>3, <3>1 DEF CommitConsentApproval
  <2> QED BY <1>2, <2>2, <2>3
<1>5. StoreTypeOK'
  <2>1. CASE k.op = "jti"
    <3>1. ConsumeConsentJti(j, e)
      BY <1>0, <1>1, <2>1, JtiCommits
    <3> QED BY <1>2, <1>3, <3>1, ConsumeJtiType DEF MysqlInv
  <2>2. CASE k.op = "consent"
    <3>1. CommitConsentApproval(k.args.instance, j, e, k.args.code, k.args.record)
      BY <1>0, <1>1, <2>2, JtiCommits
    <3> QED BY <1>2, <1>3, <2>2, <3>1, CommitType DEF MysqlInv
  <2> QED BY <1>2, <2>1, <2>2
<1> HIDE DEF j, e
<1>6. TablesOK'
  BY <1>4 DEF MysqlInv, TablesOK, Put
<1>7. RowsOK'
  BY <1>4 DEF MysqlInv, RowsOK, RowsMatchFamily
<1>8. Touches(c)
  <2>1. \A x \in DOMAIN authCodes :
          <<"code", x>> \notin k.fresh => x \in DOMAIN authCodes' /\ authCodes'[x] = authCodes[x]
    BY <1>2, <1>4 DEF Put
  <2>2. \A x \in DOMAIN authCodes : <<"code", x>> \notin k.fresh
    <3>1. k.fresh \cap Stored = {}
      BY <1>0, Before
    <3> QED BY <3>1, StoredKeys
  <2>3. Stored' \subseteq Stored \cup k.fresh \cup JtiKeys(Jtis)
    <3>1. CodeKeys(DOMAIN authCodes') \subseteq CodeKeys(DOMAIN authCodes) \cup k.fresh
      BY <1>2, <1>4 DEF Put, CodeKeys
    <3>2. JtiKeys(DOMAIN consentJtis') \subseteq JtiKeys(Jtis)
      BY <1>5 DEF StoreTypeOK, ConsentsOK, JtiKeys
    <3> QED BY <1>4, <3>1, <3>2 DEF Stored, RowKeys
  <2> QED BY <1>0, <1>2, <1>4, <2>1, <2>2, <2>3 DEF Touches
<1> QED BY <1>5, <1>6, <1>7, <1>8 DEF RowsAfter

\* A redemption commits as one ConsumeAuthCode, or does nothing: a code that was
\* missing, or another resource's, stays as it is.
LEMMA ConsumeCommits ==
  ASSUME MysqlInv, NEW c \in Conns, conns[c].pc = "commit", CommitDeletes(c),
         conns[c].op = "consume", storeInstanceId' = storeInstanceId
  PROVE  \/ UNCHANGED storeVars
         \/ ConsumeAuthCode(conns[c].args.code, conns[c].args.resource)
<1>1. PICK k : k = conns[c]
  OBVIOUS
<1> DEFINE x == k.args.code
           doomed == k.doomed
<1>2. ConsumeSeen(c) /\ doomed \subseteq {<<"code", x>>}
  <2>1. CodeKeys({x}) = {<<"code", x>>}
    BY OneKey
  <2> QED BY <1>1, <2>1, AtCommit
<1>3. /\ refreshTokens' = KeptRows(refreshTokens, "token", doomed)
      /\ families' = KeptRows(families, "family", doomed)
      /\ authCodes' = KeptRows(authCodes, "code", doomed)
      /\ consentJtis' = KeptRows(consentJtis, "jti", doomed)
      /\ sweptThrough' = sweptThrough /\ spentJtis' = spentJtis
  BY <1>1 DEF CommitDeletes
<1>4. /\ refreshTokens = [t \in DOMAIN refreshTokens |-> refreshTokens[t]]
      /\ families = [f \in DOMAIN families |-> families[f]]
      /\ authCodes = [y \in DOMAIN authCodes |-> authCodes[y]]
      /\ consentJtis = [j \in DOMAIN consentJtis |-> consentJtis[j]]
  BY DEF MysqlInv, TablesOK
<1>5. KeptRows(refreshTokens, "token", doomed) = refreshTokens
  BY <1>2, <1>4, KeptAll
<1>6. KeptRows(families, "family", doomed) = families
  BY <1>2, <1>4, KeptAll
<1>7. KeptRows(consentJtis, "jti", doomed) = consentJtis
  BY <1>2, <1>4, KeptAll
<1>8. CASE doomed = {}
  <2>1. KeptRows(authCodes, "code", doomed) = authCodes
    BY <1>4, <1>8, KeptAll
  <2> QED BY <1>3, <1>5, <1>6, <1>7, <2>1 DEF storeVars
<1>9. CASE doomed = {<<"code", x>>}
  <2>1. ~WrongResource(x, k.args.resource)
    BY <1>1, <1>2, <1>9 DEF ConsumeSeen
  <2>2. {y \in DOMAIN authCodes : <<"code", y>> \notin doomed} = DOMAIN authCodes \ {x}
    BY <1>9
  <2>3. KeptRows(authCodes, "code", doomed) = Restrict(authCodes, DOMAIN authCodes \ {x})
    BY <2>2 DEF KeptRows
  <2>4. ConsumeAuthCode(x, k.args.resource)
    BY <1>3, <1>5, <1>6, <1>7, <2>1, <2>3 DEF ConsumeAuthCode
  <2> QED BY <1>1, <2>4
<1> QED BY <1>2, <1>8, <1>9

\* The rows a redemption or a sweep deletes were its own, and rows of deleted
\* families go with them.
LEMMA DeletesRowsAfter ==
  ASSUME MysqlInv, NEW c \in Conns, CommitTransaction(c), CommitDeletes(c)
  PROVE  RowsAfter(c)
<1>0. PICK k : k = conns[c]
  OBVIOUS
<1> DEFINE doomed == k.doomed
<1>1. /\ k.pc = "commit" /\ storeInstanceId' = storeInstanceId /\ k.op \in {"consume", "sweep"}
      /\ refreshTokens' = KeptRows(refreshTokens, "token", doomed)
      /\ families' = KeptRows(families, "family", doomed)
      /\ authCodes' = KeptRows(authCodes, "code", doomed)
      /\ consentJtis' = KeptRows(consentJtis, "jti", doomed)
      /\ sweptThrough' = IF k.op = "sweep" THEN SweptThrough(k.args.now) ELSE sweptThrough
      /\ spentJtis' = spentJtis
  BY <1>0 DEF CommitTransaction, CommitDeletes
<1>2. /\ refreshTokens' = [t \in DOMAIN refreshTokens' |-> refreshTokens'[t]]
      /\ DOMAIN refreshTokens' = {t \in DOMAIN refreshTokens : <<"token", t>> \notin doomed}
      /\ \A t \in DOMAIN refreshTokens' : refreshTokens'[t] = refreshTokens[t]
  BY <1>1 DEF KeptRows, Restrict
<1>3. /\ families' = [f \in DOMAIN families' |-> families'[f]]
      /\ DOMAIN families' = {f \in DOMAIN families : <<"family", f>> \notin doomed}
      /\ \A f \in DOMAIN families' : families'[f] = families[f]
  BY <1>1 DEF KeptRows, Restrict
<1>4. /\ authCodes' = [x \in DOMAIN authCodes' |-> authCodes'[x]]
      /\ DOMAIN authCodes' = {x \in DOMAIN authCodes : <<"code", x>> \notin doomed}
      /\ \A x \in DOMAIN authCodes' : authCodes'[x] = authCodes[x]
  BY <1>1 DEF KeptRows, Restrict
<1>5. /\ consentJtis' = [j \in DOMAIN consentJtis' |-> consentJtis'[j]]
      /\ DOMAIN consentJtis' = {j \in DOMAIN consentJtis : <<"jti", j>> \notin doomed}
      /\ \A j \in DOMAIN consentJtis' : consentJtis'[j] = consentJtis[j]
  BY <1>1 DEF KeptRows, Restrict
<1>6. TablesOK'
  BY <1>2, <1>3, <1>4, <1>5 DEF TablesOK
<1>7. sweptThrough' \in Times
  <2>1. sweptThrough \in Times
    BY DEF MysqlInv, StoreTypeOK, ConsentsOK
  <2>2. k.op = "sweep" => k.args.now \in Times
    <3>1. InTime(c) /\ 0..time \subseteq Times
      BY DEF MysqlInv, ConnsOK, TimeOK
    <3> QED BY <1>0, <3>1 DEF InTime
  <2> QED BY <1>1, <2>1, <2>2 DEF SweptThrough
<1>8. StoreTypeOK'
  <2>1. AuthCodesOK'
    BY <1>4 DEF MysqlInv, StoreTypeOK, AuthCodesOK
  <2>2. TokensOK'
    BY <1>2 DEF MysqlInv, StoreTypeOK, TokensOK
  <2>3. FamiliesOK'
    BY <1>3 DEF MysqlInv, StoreTypeOK, FamiliesOK
  <2>4. ConsentsOK'
    BY <1>1, <1>5, <1>7 DEF MysqlInv, StoreTypeOK, ConsentsOK
  <2> QED BY <2>1, <2>2, <2>3, <2>4 DEF StoreTypeOK
<1>9. Stored' \subseteq Stored
  BY <1>2, <1>3, <1>4, <1>5 DEF Stored, RowKeys, TokenKeys, FamilyKeys, CodeKeys, JtiKeys
<1>10. doomed \subseteq k.locks
  BY <1>0, Before DEF HoldsOK
<1>11. CASE k.op = "consume"
  <2>1. k.locks \subseteq {<<"code", k.args.code>>}
    <3>1. CodeKeys({k.args.code}) = {<<"code", k.args.code>>}
      BY OneKey
    <3> QED BY <1>0, <1>1, <1>11, <3>1, AtCommit
  <2>2. UNCHANGED <<refreshTokens, families, consentJtis, sweptThrough>>
    <3>1. UNCHANGED storeVars \/ ConsumeAuthCode(k.args.code, k.args.resource)
      BY <1>0, <1>1, <1>11, ConsumeCommits
    <3> QED BY <3>1 DEF storeVars, ConsumeAuthCode
  <2>3. RowsOK'
    BY <2>2 DEF MysqlInv, RowsOK, RowsMatchFamily
  <2>4. Touches(c)
    BY <1>0, <1>1, <1>4, <1>9, <1>10, <2>2 DEF Touches
  <2> QED BY <1>6, <1>8, <2>3, <2>4 DEF RowsAfter
<1>12. CASE k.op = "sweep"
  <2>1. /\ k.locks = {Meta} \cup doomed
        /\ \A f \in DOMAIN families :
             <<"family", f>> \in doomed <=>
               \A t \in DOMAIN refreshTokens :
                  refreshTokens[t].family = f => <<"token", t>> \in doomed
    <3>1. SweepSeen(c) /\ k.locks = {Meta} \cup doomed
      BY <1>0, <1>1, <1>12, AtCommit
    <3> QED BY <1>0, <1>1, <3>1 DEF SweepSeen
  <2>2. RowsOK'
    <3>1. /\ \A u \in DOMAIN refreshTokens :
               /\ refreshTokens[u].family \in DOMAIN families
               /\ families[refreshTokens[u].family].resource = refreshTokens[u].resource
               /\ families[refreshTokens[u].family].generation = refreshTokens[u].generation
      BY DEF MysqlInv, RowsOK, RowsMatchFamily
    <3>2. \A u \in DOMAIN refreshTokens' :
             /\ refreshTokens'[u].family \in DOMAIN families'
             /\ families'[refreshTokens'[u].family].resource = refreshTokens'[u].resource
             /\ families'[refreshTokens'[u].family].generation = refreshTokens'[u].generation
      BY <1>2, <1>3, <2>1, <3>1
    <3>3. \A f \in DOMAIN families' : \E u \in DOMAIN refreshTokens' : refreshTokens'[u].family = f
      BY <1>2, <1>3, <2>1
    <3> QED BY <3>2, <3>3 DEF RowsOK, RowsMatchFamily
  <2>3. Touches(c)
    BY <1>0, <1>2, <1>3, <1>4, <1>9, <1>10, <2>1 DEF Touches
  <2> QED BY <1>6, <1>8, <2>2, <2>3 DEF RowsAfter
<1> QED BY <1>1, <1>11, <1>12

\* A row whose consumed flag is written again is the row.
LEMMA RowMarked ==
  ASSUME NEW row \in RefreshTokenRow, NEW mark \in BOOLEAN
  PROVE  [row EXCEPT !.consumed = @ \/ mark]
           = IF mark THEN [row EXCEPT !.consumed = TRUE] ELSE row
<1>1. CASE mark
  <2>1. (row.consumed \/ mark) = TRUE
    BY <1>1
  <2> QED BY <1>1, <2>1, Zenon
<1>2. CASE ~mark
  <2>1. (row.consumed \/ mark) = row.consumed
    BY <1>2 DEF RefreshTokenRow
  <2>2. [row EXCEPT !.consumed = row.consumed] = row
    BY DEF RefreshTokenRow
  <2> QED BY <1>2, <2>1, <2>2, Zenon
<1> QED BY <1>1, <1>2

\* A token's row, field by field.
TokenRow(family, previous, grant, resource, generation, expiresAt, consumed) ==
  [family |-> family, previous |-> previous, grant |-> grant, resource |-> resource,
   generation |-> generation, expiresAt |-> expiresAt, consumed |-> consumed]

\* A row with one field written.
SetPrevious(row, value) == [row EXCEPT !.previous = value]
SetExpiresAt(row, value) == [row EXCEPT !.expiresAt = value]
SetConsumed(row, value) == [row EXCEPT !.consumed = value]

LEMMA RowWritten ==
  ASSUME NEW family, NEW previous, NEW grant, NEW resource, NEW generation, NEW expiresAt,
         NEW consumed, NEW value,
         NEW row, row = TokenRow(family, previous, grant, resource, generation, expiresAt, consumed)
  PROVE  /\ SetPrevious(row, value)
              = TokenRow(family, value, grant, resource, generation, expiresAt, consumed)
         /\ SetExpiresAt(row, value)
              = TokenRow(family, previous, grant, resource, generation, value, consumed)
         /\ SetConsumed(row, value)
              = TokenRow(family, previous, grant, resource, generation, expiresAt, value)
BY DEF TokenRow, SetPrevious, SetExpiresAt, SetConsumed

\* The order in which a successor's fields are written makes no difference.
LEMMA WritesCommute ==
  ASSUME NEW row \in RefreshTokenRow, NEW t, NEW e, NEW no
  PROVE  SetExpiresAt(SetConsumed(SetPrevious(row, t), no), e)
           = SetConsumed(SetExpiresAt(SetPrevious(row, t), e), no)
<1> DEFINE from == SetPrevious(row, t)
<1>1. row = TokenRow(row.family, row.previous, row.grant, row.resource, row.generation,
                     row.expiresAt, row.consumed)
  BY DEF RefreshTokenRow, TokenRow
<1>2. from = TokenRow(row.family, t, row.grant, row.resource, row.generation, row.expiresAt,
                      row.consumed)
  BY <1>1, RowWritten
<1> HIDE DEF from
<1>3. SetConsumed(from, no) = TokenRow(row.family, t, row.grant, row.resource, row.generation,
                                       row.expiresAt, no)
  BY <1>2, RowWritten
<1>4. SetExpiresAt(from, e) = TokenRow(row.family, t, row.grant, row.resource, row.generation,
                                       e, row.consumed)
  BY <1>2, RowWritten
<1>5. SetExpiresAt(SetConsumed(from, no), e)
        = TokenRow(row.family, t, row.grant, row.resource, row.generation, e, no)
  BY <1>3, RowWritten
<1>6. SetConsumed(SetExpiresAt(from, e), no)
        = TokenRow(row.family, t, row.grant, row.resource, row.generation, e, no)
  BY <1>4, RowWritten
<1> QED BY <1>5, <1>6 DEF from

\* The two ways of writing the successor's row, and the predecessor's.
LEMMA SuccessorWritten ==
  ASSUME TokensOK, NEW t \in DOMAIN refreshTokens, NEW next
  PROVE  [refreshTokens[t] EXCEPT !.previous = t, !.consumed = FALSE, !.expiresAt = next.expiresAt]
           = Successor(t, next)
<1>1. refreshTokens[t] \in RefreshTokenRow
  BY DEF TokensOK
<1>2. SetExpiresAt(SetConsumed(SetPrevious(refreshTokens[t], t), FALSE), next.expiresAt)
        = SetConsumed(SetExpiresAt(SetPrevious(refreshTokens[t], t), next.expiresAt), FALSE)
  <2>1. PICK row \in RefreshTokenRow : row = refreshTokens[t]
    BY <1>1
  <2>2. \A no : SetExpiresAt(SetConsumed(SetPrevious(row, t), no), next.expiresAt)
                  = SetConsumed(SetExpiresAt(SetPrevious(row, t), next.expiresAt), no)
    BY WritesCommute
  <2>3. SetExpiresAt(SetConsumed(SetPrevious(row, t), FALSE), next.expiresAt)
          = SetConsumed(SetExpiresAt(SetPrevious(row, t), next.expiresAt), FALSE)
    BY <2>2, Zenon
  <2> QED BY <2>1, <2>3, Zenon
<1> QED BY <1>2, Zenon DEF Successor, SetPrevious, SetExpiresAt, SetConsumed

LEMMA PredecessorWritten ==
  ASSUME TokensOK, refreshTokens = [t \in DOMAIN refreshTokens |-> refreshTokens[t]],
         NEW t \in DOMAIN refreshTokens
  PROVE  [u \in DOMAIN refreshTokens |-> [refreshTokens[u] EXCEPT !.consumed = @ \/ u = t]]
           = [refreshTokens EXCEPT ![t].consumed = TRUE]
<1> DEFINE Marked(u) == [refreshTokens[u] EXCEPT !.consumed = @ \/ u = t]
<1>1. ASSUME NEW u \in DOMAIN refreshTokens
      PROVE  Marked(u) = IF u = t THEN [refreshTokens[u] EXCEPT !.consumed = TRUE]
                         ELSE refreshTokens[u]
  <2>1. refreshTokens[u] \in RefreshTokenRow /\ (u = t) \in BOOLEAN
    BY DEF TokensOK
  <2> QED BY <2>1, RowMarked
<1> HIDE DEF Marked
<1>2. [u \in DOMAIN refreshTokens |-> Marked(u)]
        = [u \in DOMAIN refreshTokens |->
             IF u = t THEN [refreshTokens[u] EXCEPT !.consumed = TRUE] ELSE refreshTokens[u]]
  BY <1>1
<1>3. [refreshTokens EXCEPT ![t].consumed = TRUE]
        = [u \in DOMAIN refreshTokens |->
             IF u = t THEN [refreshTokens[u] EXCEPT !.consumed = TRUE] ELSE refreshTokens[u]]
  OBVIOUS
<1> QED BY <1>2, <1>3 DEF Marked

\* A rotation commits as one RotateRefreshToken, or does nothing: a token that
\* was missing could not be locked.
LEMMA RotateCommits ==
  ASSUME MysqlInv, NEW c \in Conns, conns[c].pc = "commit", CommitRotate(c),
         storeInstanceId' = storeInstanceId
  PROVE  LET args == conns[c].args IN
         \/ UNCHANGED storeVars
         \/ /\ RotateRefreshToken(args.token, args.next, args.now, args.generation, args.resource)
            /\ args.token \in DOMAIN refreshTokens
            /\ <<"token", args.token>> \in conns[c].locks
            /\ <<"family", refreshTokens[args.token].family>> \in conns[c].locks
<1>1. PICK k : k = conns[c]
  OBVIOUS
<1> DEFINE args == k.args
           t == k.args.token
           next == k.args.next
           seen == k.seen
<1>2. k.op = "rotate" /\ RotateSeen(c)
  BY <1>1, AtCommit DEF CommitRotate
<1>3. /\ refreshTokens' =
           IF seen.verdict # "rotated" THEN refreshTokens
           ELSE Put([u \in DOMAIN refreshTokens |->
                       [refreshTokens[u] EXCEPT !.consumed = @ \/ u = t]],
                    next.token,
                    [seen.row EXCEPT !.previous = t, !.consumed = FALSE,
                                     !.expiresAt = next.expiresAt])
      /\ families' = IF seen.verdict = "replayed" THEN RevokeFamilyRow(seen.row.family)
                     ELSE families
      /\ UNCHANGED <<authCodes, consentRows, sweptThrough>>
  BY <1>1 DEF CommitRotate
<1>4. CASE seen.row = None
  <2>1. seen.verdict = "none"
    BY <1>1, <1>2, <1>4 DEF RotateSeen
  <2>2. refreshTokens' = refreshTokens /\ families' = families
    BY <1>3, <2>1
  <2> QED BY <1>3, <2>2 DEF storeVars, consentRows
<1>5. CASE seen.row # None
  <2>1. /\ t \in DOMAIN refreshTokens /\ <<"token", t>> \in k.locks
        /\ <<"family", refreshTokens[t].family>> \in k.locks
        /\ seen.row = refreshTokens[t] /\ seen.verdict = Verdict(args)
    BY <1>1, <1>2, <1>5 DEF RotateSeen
  <2>2. /\ TokensOK
        /\ refreshTokens = [u \in DOMAIN refreshTokens |-> refreshTokens[u]]
    BY DEF MysqlInv, StoreTypeOK, TablesOK
  <2>3. seen.verdict = "rotated" =>
          refreshTokens' = Put([refreshTokens EXCEPT ![t].consumed = TRUE],
                               next.token, Successor(t, next))
    <3> SUFFICES ASSUME seen.verdict = "rotated"
                 PROVE  refreshTokens' = Put([refreshTokens EXCEPT ![t].consumed = TRUE],
                                             next.token, Successor(t, next))
      OBVIOUS
    <3>1. [refreshTokens[t] EXCEPT !.previous = t, !.consumed = FALSE, !.expiresAt = next.expiresAt]
            = Successor(t, next)
      BY <2>1, <2>2, SuccessorWritten, Zenon
    <3>2. [u \in DOMAIN refreshTokens |-> [refreshTokens[u] EXCEPT !.consumed = @ \/ u = t]]
            = [refreshTokens EXCEPT ![t].consumed = TRUE]
      BY <2>1, <2>2, PredecessorWritten
    <3>3. refreshTokens' =
            Put([u \in DOMAIN refreshTokens |->
                   [refreshTokens[u] EXCEPT !.consumed = @ \/ u = t]],
                next.token,
                [refreshTokens[t] EXCEPT !.previous = t, !.consumed = FALSE,
                                         !.expiresAt = next.expiresAt])
      BY <1>3, <2>1, Zenon
    <3> QED BY <3>1, <3>2, <3>3, Zenon
  <2>4. seen.verdict = "replayed" => families' = RevokeFamilyRow(refreshTokens[t].family)
    BY <1>3, <2>1
  <2>5. /\ seen.verdict # "rotated" => refreshTokens' = refreshTokens
        /\ seen.verdict # "replayed" => families' = families
    BY <1>3
  <2> DEFINE Takes1 == Rotates(t, next, args.now, args.generation, args.resource)
             Again  == IsReplay(t, args.generation, args.resource)
  <2>6. /\ seen.verdict = "rotated" => Takes1
        /\ seen.verdict = "replayed" => Again
        /\ seen.verdict \notin {"rotated", "replayed"} => ~Takes1 /\ ~Again
    BY <2>1 DEF Verdict
  <2>7. UNCHANGED <<authCodes, consentJtis, sweptThrough, storeInstanceId, spentJtis>>
    BY <1>3 DEF consentRows
  <2> HIDE DEF seen, t, next, args
  <2>8. RotateRefreshToken(t, next, args.now, args.generation, args.resource)
    <3>1. CASE seen.verdict = "rotated"
      BY <2>3, <2>5, <2>6, <2>7, <3>1, Zenon DEF RotateRefreshToken
    <3>2. CASE seen.verdict = "replayed"
      BY <2>4, <2>5, <2>6, <2>7, <3>2, Zenon DEF RotateRefreshToken
    <3>3. CASE seen.verdict \notin {"rotated", "replayed"}
      BY <2>5, <2>6, <2>7, <3>3 DEF RotateRefreshToken, tokenRows
    <3> QED BY <3>1, <3>2, <3>3
  <2> QED BY <1>1, <2>1, <2>8 DEF t, next, args
<1> QED BY <1>4, <1>5

\* It spends its token and adds the successor, or revokes its family.
LEMMA RotateRowsAfter ==
  ASSUME MysqlInv, NEW c \in Conns, CommitTransaction(c), CommitRotate(c)
  PROVE  RowsAfter(c)
<1>0. PICK k : k = conns[c]
  OBVIOUS
<1> DEFINE t == k.args.token
           next == k.args.next
           s == next.token
           Rotate == RotateRefreshToken(t, next, k.args.now, k.args.generation, k.args.resource)
<1>1. k.pc = "commit" /\ storeInstanceId' = storeInstanceId
  BY <1>0 DEF CommitTransaction
<1>2. RotateArgs(c) /\ k.fresh = {<<"token", s>>} /\ t \in Tokens /\ s \in Tokens
      /\ next.expiresAt \in Times
  <2>1. RotateArgs(c)
    BY <1>0, <1>1, AtCommit DEF CommitRotate
  <2>2. TokenKeys({s}) = {<<"token", s>>}
    BY OneKey
  <2>3. k.args.next \in NextTokens /\ t \in Tokens /\ k.fresh = TokenKeys({s})
    BY <1>0, <2>1 DEF RotateArgs
  <2> QED BY <2>1, <2>2, <2>3 DEF NextTokens
<1>3. CASE UNCHANGED storeVars
  BY <1>3, NothingCommitted DEF RowsAfter
<1>4. ASSUME Rotate, t \in DOMAIN refreshTokens, <<"token", t>> \in k.locks,
             <<"family", refreshTokens[t].family>> \in k.locks
      PROVE  RowsAfter(c)
  <2>1. UNCHANGED <<authCodes, consentJtis, sweptThrough, storeInstanceId, spentJtis>>
    BY <1>4 DEF RotateRefreshToken
  <2>2. CASE UNCHANGED tokenRows
    <3>1. UNCHANGED storeVars
      BY <2>1, <2>2 DEF storeVars, tokenRows
    <3> QED BY <1>3, <3>1
  <2>3. CASE families' = RevokeFamilyRow(refreshTokens[t].family) /\ UNCHANGED refreshTokens
    <3>1. refreshTokens[t].family \in DOMAIN families
      BY <1>4 DEF MysqlInv, RowsOK, RowsMatchFamily
    <3>2. PICK f : f = refreshTokens[t].family
      OBVIOUS
    <3>3. StoreTypeOK' /\ TablesOK' /\ RowsOK' /\ Touches(c)
      BY <1>0, <1>4, <2>1, <2>3, <3>1, <3>2, RevocationCommits DEF consentRows
    <3> QED BY <3>3 DEF RowsAfter
  <2>4. CASE /\ Rotates(t, next, k.args.now, k.args.generation, k.args.resource)
             /\ refreshTokens' = Put([refreshTokens EXCEPT ![t].consumed = TRUE],
                                     s, Successor(t, next))
             /\ UNCHANGED families
    <3>1. Extended(t, s)
      BY <1>2, <2>4, RotatedRows DEF MysqlInv
    <3>2. StoreTypeOK'
      BY <1>2, <1>4, RotateType DEF MysqlInv
    <3>3. refreshTokens' = [u \in DOMAIN refreshTokens' |-> refreshTokens'[u]]
      BY <2>4 DEF Put
    <3>4. TablesOK'
      BY <2>1, <2>4, <3>3 DEF MysqlInv, TablesOK
    <3> HIDE DEF s, t
    <3>5. /\ s \notin DOMAIN refreshTokens
          /\ DOMAIN refreshTokens' = DOMAIN refreshTokens \cup {s}
          /\ \A u \in DOMAIN refreshTokens :
               /\ refreshTokens'[u].family = refreshTokens[u].family
               /\ refreshTokens'[u].resource = refreshTokens[u].resource
               /\ refreshTokens'[u].generation = refreshTokens[u].generation
               /\ refreshTokens'[u].expiresAt = refreshTokens[u].expiresAt
               /\ u # t => refreshTokens'[u] = refreshTokens[u]
          /\ refreshTokens'[s].family = refreshTokens[t].family
          /\ refreshTokens'[s].resource = refreshTokens[t].resource
          /\ refreshTokens'[s].generation = refreshTokens[t].generation
          /\ t \in DOMAIN refreshTokens
      BY <3>1 DEF Extended
    <3>6. RowsOK'
      <4>0. families' = families
        BY <2>4
      <4>1. /\ \A u \in DOMAIN refreshTokens :
                 /\ refreshTokens[u].family \in DOMAIN families
                 /\ families[refreshTokens[u].family].resource = refreshTokens[u].resource
                 /\ families[refreshTokens[u].family].generation = refreshTokens[u].generation
            /\ \A f \in DOMAIN families : \E u \in DOMAIN refreshTokens : refreshTokens[u].family = f
        BY DEF MysqlInv, RowsOK, RowsMatchFamily
      <4>2. \A u \in DOMAIN refreshTokens' :
              /\ refreshTokens'[u].family \in DOMAIN families'
              /\ families'[refreshTokens'[u].family].resource = refreshTokens'[u].resource
              /\ families'[refreshTokens'[u].family].generation = refreshTokens'[u].generation
        BY <3>5, <4>0, <4>1
      <4>3. \A f \in DOMAIN families' : \E u \in DOMAIN refreshTokens' : refreshTokens'[u].family = f
        BY <3>5, <4>0, <4>1
      <4> QED BY <4>2, <4>3 DEF RowsOK, RowsMatchFamily
    <3>7. Touches(c)
      <4>1. Stored' \subseteq Stored \cup k.fresh
        <5>1. TokenKeys(DOMAIN refreshTokens') = TokenKeys(DOMAIN refreshTokens) \cup {<<"token", s>>}
          BY <3>5 DEF TokenKeys
        <5> QED BY <1>2, <2>1, <2>4, <5>1 DEF Stored, RowKeys
      <4>2. \A u \in DOMAIN refreshTokens' \ DOMAIN refreshTokens :
              <<"family", refreshTokens'[u].family>> \in k.locks
        BY <1>4, <3>5
      <4> QED BY <1>0, <1>4, <2>1, <2>4, <3>5, <4>1, <4>2 DEF Touches
    <3> QED BY <3>2, <3>4, <3>6, <3>7 DEF RowsAfter
  <2> QED BY <1>4, <2>2, <2>3, <2>4 DEF RotateRefreshToken
<1> QED BY <1>0, <1>1, <1>3, <1>4, RotateCommits

\* Every commit leaves such rows.
LEMMA CommitRowsAfter ==
  ASSUME MysqlInv, NEW c \in Conns, CommitTransaction(c)
  PROVE  RowsAfter(c)
<1>1. CommitRotate(c) \/ CommitSave(c) \/ CommitRevoke(c) \/ CommitJti(c) \/ CommitDeletes(c)
  BY DEF CommitTransaction
<1> QED
  BY <1>1, RotateRowsAfter, SaveRowsAfter, RevokeRowsAfter, JtiRowsAfter, DeletesRowsAfter

-----------------------------------------------------------------------------
(* The invariant *)

\* Nothing is stored, and no connection is in use.
LEMMA MysqlInvInit == MysqlInit => MysqlInv
<1> SUFFICES ASSUME MysqlInit
             PROVE  MysqlInv
  OBVIOUS
<1>1. /\ StoreInit /\ time = 0 /\ conns = [c \in Conns |-> Idle]
  BY DEF MysqlInit
<1>2. StoreTypeOK
  BY <1>1, StoreTypeInit
<1>3. /\ DOMAIN authCodes = {} /\ DOMAIN refreshTokens = {} /\ DOMAIN families = {}
      /\ DOMAIN consentJtis = {}
  BY <1>1 DEF StoreInit
<1>4. TablesOK
  BY <1>1 DEF StoreInit, TablesOK
<1>5. TimeOK
  BY <1>1, TimesAssumption DEF TimeOK
<1>6. RowsOK
  BY <1>3 DEF RowsOK, RowsMatchFamily
<1>7. \A c \in Conns : conns[c] = Idle
  BY <1>1
<1>8. /\ Idle.op = "none" /\ Idle.pc = "idle" /\ Idle.locks = {} /\ Idle.fresh = {}
      /\ Idle.doomed = {}
      /\ Idle = Record(Idle.op, Idle.pc, Idle.args, Idle.fresh, Idle.locks, Idle.seen, Idle.doomed)
  BY DEF Idle, Record
<1>9. ASSUME NEW c \in Conns
      PROVE  ConnShape(c) /\ ArgsOK(c) /\ InTime(c) /\ HoldsOK(c) /\ SeenOK(c)
  <2>1. conns[c] = Idle
    BY <1>7
  <2>2. ConnShape(c)
    BY <1>8, <2>1 DEF ConnShape
  <2>3. ArgsOK(c) /\ InTime(c) /\ HoldsOK(c) /\ SeenOK(c)
    BY <1>8, <2>1 DEF ArgsOK, InTime, HoldsOK, SeenOK, Timed
  <2> QED BY <2>2, <2>3
<1>10. ConnsOK
  BY <1>1, <1>9 DEF ConnsOK
<1>11. LocksOK
  BY <1>7, <1>8 DEF LocksOK
<1> QED BY <1>2, <1>4, <1>5, <1>6, <1>9, <1>10, <1>11 DEF MysqlInv

\* Every step keeps the invariant.
LEMMA MysqlInvStep == MysqlInv /\ [MysqlNext]_mysqlVars => MysqlInv'
<1> SUFFICES ASSUME MysqlInv, [MysqlNext]_mysqlVars
             PROVE  MysqlInv'
  OBVIOUS
<1>1. ASSUME NEW c \in Conns, BeginCall(c) \/ BeginSweep(c)
      PROVE  MysqlInv'
  BY <1>1, BeginRotateKeeps, BeginSaveKeeps, BeginRevokeKeeps, BeginConsumeKeeps, BeginJtiKeeps,
     BeginConsentKeeps, BeginSweepKeeps DEF BeginCall
<1>2. ASSUME NEW c \in Conns, Statement(c)
      PROVE  MysqlInv'
  BY <1>2, LockTokenKeeps, LockFamilyKeeps, UpsertFamilyKeeps, LockRevokedKeeps, LockCodeKeeps,
     LockMetaKeeps, SweepMetaKeeps, SweepCodesKeeps, SelectDeadKeeps, DeleteDeadKeeps,
     ScanFamiliesKeeps, DeleteFamiliesKeeps, CascadeTokensKeeps, CommitRowsAfter, CommitKeeps
     DEF Statement
<1>3. ASSUME NEW c \in Conns, Fail(c)
      PROVE  MysqlInv'
  BY <1>3, FailKeeps
<1>4. CASE \E s \in Stores : SweepNotBegun(s)
  BY <1>4, IdleKeeps DEF SweepNotBegun
<1>5. CASE (\E s \in Stores : LifecycleStep(s)) /\ UNCHANGED <<storeVars, time, conns>>
  BY <1>5, IdleKeeps
<1>6. CASE RotateInstance
  BY <1>6, InstanceKeeps
<1>7. CASE Tick
  BY <1>7, TickKeeps
<1>8. CASE UNCHANGED mysqlVars
  BY <1>8, IdleKeeps DEF mysqlVars
<1> QED BY <1>1, <1>2, <1>3, <1>4, <1>5, <1>6, <1>7, <1>8 DEF MysqlNext

\* The transactions keep the invariant, whatever they interleave with: it holds
\* what each of them has locked and read, and that the rows fit each other.
THEOREM MysqlInvariant == MysqlSpec => []MysqlInv
<1>1. MysqlInit => MysqlInv
  BY MysqlInvInit
<1>2. MysqlInv /\ [MysqlNext]_mysqlVars => MysqlInv'
  BY MysqlInvStep
<1> QED BY <1>1, <1>2, PTL DEF MysqlSpec

\* The rows of the MySQL store are well typed, under any interleaving of its
\* statements, failures and sweeps (src/store/mysql*.ts).
THEOREM MysqlTypeCorrect == MysqlSpec => []StoreTypeOK
<1>1. MysqlInv => StoreTypeOK
  BY DEF MysqlInv
<1> QED BY <1>1, MysqlInvariant, PTL

\* A token's row and its family's agree, although a sweep deletes tokens and
\* families in separate statements while rotations and saves commit between
\* them, and may take a family saved meanwhile.
THEOREM MysqlRowsMatch == MysqlSpec => []RowsMatchFamily
<1>1. MysqlInv => RowsMatchFamily
  BY DEF MysqlInv, RowsOK
<1> QED BY <1>1, MysqlInvariant, PTL

-----------------------------------------------------------------------------
(* The sweep takes what was dead *)

\* The allowance for slow clocks covers how far a caller's reading may lag.
AllowanceCovers == Skew <= Lag + 1

\* A sweep's time is then no later than the expiries that a call still open
\* counts as past.
LEMMA SweepBehind ==
  ASSUME MysqlInv, AllowanceCovers, NEW c \in Conns, NEW d \in Conns,
         conns[c].op \in Timed, conns[d].op = "sweep"
  PROVE  /\ conns[c].args.now \in Nat /\ conns[d].args.now \in Nat
         /\ conns[d].args.now <= conns[c].args.now + 1
<1>1. PICK now \in Times : now = conns[c].args.now /\ now <= time /\ time <= now + Skew
  BY DEF MysqlInv, ConnsOK, InTime
<1>2. PICK swept \in 0..time : swept = conns[d].args.now /\ (swept = 0 \/ swept + Lag <= time)
  BY DEF MysqlInv, ConnsOK, InTime
<1>3. now \in Nat /\ time \in Nat /\ swept \in Nat
  BY TimesAssumption DEF MysqlInv, TimeOK
<1> QED BY <1>1, <1>2, <1>3, MysqlAssumption DEF AllowanceCovers

\* New tokens are live, and join no family that is dead.
NewTokensLive(now) ==
  \A t \in DOMAIN refreshTokens' \ DOMAIN refreshTokens :
    /\ refreshTokens'[t].expiresAt >= now
    /\ \A u \in DOMAIN refreshTokens :
         refreshTokens[u].family = refreshTokens'[t].family => u \in RetainedTokens(now)

\* So it is with every commit, for every sweep that is under way.
LEMMA CommitsLive ==
  ASSUME MysqlInv, AllowanceCovers, NEW c \in Conns, NEW d \in Conns,
         CommitTransaction(c), conns[d].op = "sweep"
  PROVE  NewTokensLive(conns[d].args.now)
<1>1. PICK k : k = conns[c]
  OBVIOUS
<1>2. PICK swept : swept = conns[d].args.now
  OBVIOUS
<1>3. /\ k.pc = "commit" /\ storeInstanceId' = storeInstanceId
      /\ CommitRotate(c) \/ CommitSave(c) \/ CommitRevoke(c) \/ CommitJti(c) \/ CommitDeletes(c)
  BY <1>1 DEF CommitTransaction
<1>4. CASE DOMAIN refreshTokens' \subseteq DOMAIN refreshTokens
  BY <1>4 DEF NewTokensLive
<1>5. CASE CommitSave(c)
  <2> DEFINE t == k.args.token
             row == k.args.row
  <2>1. /\ SaveAccepted(t, row) /\ SaveRefreshToken(t, row) /\ row.family \notin DOMAIN families
    BY <1>1, <1>3, <1>5, SaveCommits
  <2>2. refreshTokens' = Put(refreshTokens, t, row)
    BY <2>1 DEF SaveRefreshToken, InsertToken
  <2>3. \A u \in DOMAIN refreshTokens' \ DOMAIN refreshTokens : u = t /\ refreshTokens'[u] = row
    BY <2>2 DEF Put
  <2>4. \A u \in DOMAIN refreshTokens : refreshTokens[u].family # row.family
    BY <2>1 DEF MysqlInv, RowsOK, RowsMatchFamily
  <2>5. k.op = "save" /\ row.expiresAt = k.args.now + Ttl
    <3>1. SaveArgs(c)
      BY <1>1, <1>3, <1>5, AtCommit DEF CommitSave
    <3> QED BY <1>1, <1>5, <3>1 DEF SaveArgs, CommitSave
  <2>6. k.args.now \in Nat /\ swept \in Nat /\ swept <= k.args.now + 1
    BY <1>1, <1>2, <2>5, SweepBehind DEF Timed
  <2>7. row.expiresAt >= swept
    BY <2>5, <2>6, MysqlAssumption
  <2> HIDE DEF t, row
  <2> QED BY <1>2, <2>3, <2>4, <2>7 DEF NewTokensLive
<1>6. CASE CommitRotate(c)
  <2> DEFINE t == k.args.token
             next == k.args.next
             s == next.token
             Rotate == RotateRefreshToken(t, next, k.args.now, k.args.generation, k.args.resource)
             Takes1 == Rotates(t, next, k.args.now, k.args.generation, k.args.resource)
  <2>1. CASE UNCHANGED refreshTokens
    BY <1>4, <2>1
  <2>2. CASE Takes1 /\ refreshTokens' = Put([refreshTokens EXCEPT ![t].consumed = TRUE],
                                            s, Successor(t, next))
    <3>1. RotateArgs(c)
      BY <1>1, <1>3, <1>6, AtCommit DEF CommitRotate
    <3>2. t \in Tokens /\ next.expiresAt = k.args.now + Ttl
      BY <1>1, <3>1 DEF RotateArgs
    <3>3. Extended(t, s)
      BY <2>2, <3>2, RotatedRows DEF MysqlInv
    <3>4. k.args.now \in Nat /\ swept \in Nat /\ swept <= k.args.now + 1
      BY <1>1, <1>2, <1>6, SweepBehind DEF Timed, CommitRotate
    <3>5. t \in DOMAIN refreshTokens /\ refreshTokens[t].expiresAt > k.args.now
      BY <2>2 DEF Rotates, Addressable
    <3>6. refreshTokens[t].expiresAt \in Nat
      BY <3>5, TimesAssumption DEF MysqlInv, StoreTypeOK, TokensOK, RefreshTokenRow
    <3>7. refreshTokens[t].expiresAt >= swept
      BY <3>4, <3>5, <3>6
    <3>8. \A u \in DOMAIN refreshTokens :
            refreshTokens[u].family = refreshTokens[t].family => u \in RetainedTokens(swept)
      BY <3>5, <3>7 DEF RetainedTokens
    <3>9. refreshTokens'[s].expiresAt = next.expiresAt
      <4>1. Successor(t, next).expiresAt = next.expiresAt
        <5>1. refreshTokens[t] \in RefreshTokenRow
          BY <3>5 DEF MysqlInv, StoreTypeOK, TokensOK
        <5> QED BY <5>1 DEF Successor, RefreshTokenRow
      <4>2. refreshTokens'[s] = Successor(t, next)
        BY <2>2 DEF Put
      <4> QED BY <4>1, <4>2
    <3>10. refreshTokens'[s].expiresAt >= swept
      BY <3>2, <3>4, <3>9, MysqlAssumption
    <3>11. /\ DOMAIN refreshTokens' = DOMAIN refreshTokens \cup {s}
           /\ refreshTokens'[s].family = refreshTokens[t].family
      BY <3>3 DEF Extended
    <3> HIDE DEF s, t
    <3> QED BY <1>2, <3>8, <3>10, <3>11 DEF NewTokensLive
  <2>3. Rotate => UNCHANGED refreshTokens
                  \/ (Takes1 /\ refreshTokens' = Put([refreshTokens EXCEPT ![t].consumed = TRUE],
                                                     s, Successor(t, next)))
    BY DEF RotateRefreshToken, tokenRows
  <2> QED BY <1>1, <1>3, <1>6, <2>1, <2>2, <2>3, RotateCommits DEF storeVars
<1>7. CASE CommitRevoke(c) \/ CommitJti(c)
  BY <1>4, <1>7 DEF CommitRevoke, CommitJti, tokenRows
<1>8. CASE CommitDeletes(c)
  <2>1. refreshTokens' = KeptRows(refreshTokens, "token", k.doomed)
    BY <1>1, <1>8 DEF CommitDeletes
  <2>2. DOMAIN refreshTokens' \subseteq DOMAIN refreshTokens
    BY <2>1 DEF KeptRows, Restrict
  <2> QED BY <1>4, <2>2
<1> QED BY <1>3, <1>5, <1>6, <1>7, <1>8

\* Existing tokens then stay dead or alive, and new ones are alive.
LEMMA RetainedNext ==
  ASSUME NEW now, NewTokensLive(now),
         \A t \in DOMAIN refreshTokens :
           /\ t \in DOMAIN refreshTokens'
           /\ refreshTokens'[t].family = refreshTokens[t].family
           /\ refreshTokens'[t].expiresAt = refreshTokens[t].expiresAt
  PROVE  \A t \in DOMAIN refreshTokens' :
           t \in RetainedTokens(now)' <=> t \notin DOMAIN refreshTokens \/ t \in RetainedTokens(now)
<1>1. RetainedTokens(now)' = {t \in DOMAIN refreshTokens' :
                                \E m \in DOMAIN refreshTokens' :
                                  /\ refreshTokens'[m].family = refreshTokens'[t].family
                                  /\ refreshTokens'[m].expiresAt >= now}
  BY DEF RetainedTokens
<1>2. ASSUME NEW t \in DOMAIN refreshTokens
      PROVE  t \in RetainedTokens(now)' <=> t \in RetainedTokens(now)
  <2>1. ASSUME t \in RetainedTokens(now)
        PROVE  t \in RetainedTokens(now)'
    BY <1>1, <2>1 DEF RetainedTokens
  <2>2. ASSUME t \in RetainedTokens(now)'
        PROVE  t \in RetainedTokens(now)
    <3>1. PICK m \in DOMAIN refreshTokens' : /\ refreshTokens'[m].family = refreshTokens'[t].family
                                             /\ refreshTokens'[m].expiresAt >= now
      BY <1>1, <2>2
    <3>2. CASE m \in DOMAIN refreshTokens
      BY <3>1, <3>2 DEF RetainedTokens
    <3>3. CASE m \notin DOMAIN refreshTokens
      BY <3>1, <3>3 DEF NewTokensLive
    <3> QED BY <3>2, <3>3
  <2> QED BY <2>1, <2>2
<1>3. ASSUME NEW t \in DOMAIN refreshTokens' \ DOMAIN refreshTokens
      PROVE  t \in RetainedTokens(now)'
  BY <1>1 DEF NewTokensLive
<1> QED BY <1>2, <1>3

\* What a sweep has chosen stays what is dead, while calls commit beside it.
LEMMA SweepExactKept ==
  ASSUME MysqlInv, NEW d \in Conns, conns[d].op = "sweep", KeptFor(d), SweepExact(d),
         NewTokensLive(conns[d].args.now)
  PROVE  SweepExact(d)'
<1>1. PICK k : k = conns[d]
  OBVIOUS
<1>2. PICK now : now = k.args.now
  OBVIOUS
<1>3. conns'[d] = k
  BY <1>1 DEF KeptFor
<1>4. CASE k.pc \notin {"tokens", "families", "cascade", "commit"}
  BY <1>3, <1>4 DEF SweepExact
<1>5. CASE k.pc \in {"tokens", "families", "cascade", "commit"}
  <2>1. k.locks = {Meta} \cup k.doomed
    BY <1>1, <1>5, CodesSwept
  <2>2. /\ \A t \in DOMAIN refreshTokens :
             /\ t \in DOMAIN refreshTokens'
             /\ refreshTokens'[t].family = refreshTokens[t].family
             /\ refreshTokens'[t].expiresAt = refreshTokens[t].expiresAt
        /\ \A t \in DOMAIN refreshTokens' \ DOMAIN refreshTokens :
             <<"family", refreshTokens'[t].family>> \notin k.locks
        /\ \A f \in DOMAIN families : f \in DOMAIN families'
    BY <1>1, <2>1 DEF KeptFor
  <2>3. \A t \in DOMAIN refreshTokens' :
           t \in RetainedTokens(now)' <=> t \notin DOMAIN refreshTokens \/ t \in RetainedTokens(now)
    <3>1. NewTokensLive(now)
      BY <1>1, <1>2
    <3> QED BY <2>2, <3>1, RetainedNext
  <2>4. ASSUME NEW t \in DOMAIN refreshTokens' \ DOMAIN refreshTokens
        PROVE  <<"token", t>> \notin k.doomed
    <3>1. k.doomed \subseteq Stored \cup {Meta}
      <4>1. k.doomed \subseteq k.locks /\ k.locks \subseteq Stored \cup k.fresh \cup {Meta}
        BY <1>1, Before DEF HoldsOK
      <4>2. k.fresh = {}
        BY <1>1, Before DEF ArgsOK
      <4> QED BY <4>1, <4>2
    <3>2. <<"token", t>> \notin Stored /\ <<"token", t>> # Meta
      BY StoredKeys DEF Meta
    <3> QED BY <3>1, <3>2
  <2>5. CASE k.pc = "tokens"
    <3>1. /\ k.seen.dead \subseteq DOMAIN refreshTokens
          /\ \A t \in DOMAIN refreshTokens :
               t \notin RetainedTokens(now) <=> t \in k.seen.dead \/ <<"token", t>> \in k.doomed
      BY <1>1, <1>2, <2>5 DEF SweepExact
    <3>2. \A t \in DOMAIN refreshTokens' :
             t \notin RetainedTokens(now)' <=> t \in k.seen.dead \/ <<"token", t>> \in k.doomed
      BY <2>3, <2>4, <3>1
    <3>3. k.seen.dead \subseteq DOMAIN refreshTokens'
      BY <2>2, <3>1
    <3> QED BY <1>2, <1>3, <2>5, <3>2, <3>3 DEF SweepExact, RetainedTokens
  <2>6. CASE k.pc \in {"families", "cascade"}
    <3>1. \A t \in DOMAIN refreshTokens :
            t \notin RetainedTokens(now) <=> <<"token", t>> \in k.doomed
      BY <1>1, <1>2, <2>6 DEF SweepExact
    <3>2. \A t \in DOMAIN refreshTokens' :
            t \notin RetainedTokens(now)' <=> <<"token", t>> \in k.doomed
      BY <2>3, <2>4, <3>1
    <3> QED BY <1>2, <1>3, <2>6, <3>2 DEF SweepExact, RetainedTokens
  <2>7. CASE k.pc = "commit"
    <3> DEFINE gone(f) == f \notin k.seen.present /\ <<"family", f>> \in k.doomed
    <3>1. \A t \in DOMAIN refreshTokens :
             refreshTokens[t].family \in DOMAIN families
      BY DEF MysqlInv, RowsOK, RowsMatchFamily
    <3>2. \A t \in DOMAIN refreshTokens :
             <<"token", t>> \in k.doomed
               <=> t \notin RetainedTokens(now) \/ gone(refreshTokens[t].family)
      BY <1>1, <1>2, <2>7, <3>1 DEF SweepExact, Lost
    <3>3. \A t \in DOMAIN refreshTokens' :
             <<"token", t>> \in k.doomed
               <=> t \notin RetainedTokens(now)' \/ gone(refreshTokens'[t].family)
      <4>1. ASSUME NEW t \in DOMAIN refreshTokens' \ DOMAIN refreshTokens
            PROVE  ~gone(refreshTokens'[t].family)
        BY <2>1, <2>2
      <4> HIDE DEF gone
      <4> QED BY <2>2, <2>3, <2>4, <3>2, <4>1
    <3>4. ASSUME NEW t \in DOMAIN refreshTokens'
          PROVE  gone(refreshTokens'[t].family)
                   <=> /\ refreshTokens'[t].family \in DOMAIN families' \ k.seen.present
                       /\ <<"family", refreshTokens'[t].family>> \in k.doomed
      <4>1. CASE t \in DOMAIN refreshTokens
        BY <2>2, <3>1, <4>1
      <4>2. CASE t \notin DOMAIN refreshTokens
        BY <2>1, <2>2, <4>2
      <4> QED BY <4>1, <4>2
    <3> HIDE DEF gone
    <3> QED BY <1>2, <1>3, <2>7, <3>3, <3>4 DEF SweepExact, Lost, RetainedTokens
  <2> QED BY <1>5, <2>5, <2>6, <2>7
<1> QED BY <1>4, <1>5

\* While the token rows and the families stand still, so does the choice.
LEMMA SweepExactStill ==
  ASSUME NEW d \in Conns, conns'[d] = conns[d], SweepExact(d), UNCHANGED tokenRows
  PROVE  SweepExact(d)'
BY DEF SweepExact, tokenRows, RetainedTokens, Lost

\* A sweep selects the dead tokens.
LEMMA SelectDeadExact ==
  ASSUME MysqlInv, NEW c \in Conns, SelectDead(c)
  PROVE  SweepExact(c)'
<1>1. PICK k : k = conns[c]
  OBVIOUS
<1> DEFINE seen == [dead |-> DeadTokens(k.args.now)]
<1>2. Goes(c, "tokens", {}, seen, {})
  <2>1. SetConn(c, Read(conns[c], "tokens", seen)) /\ UNCHANGED <<storeVars, expiryVars, time>>
    BY <1>1 DEF SelectDead, Read
  <2> HIDE DEF seen
  <2> QED BY <2>1, ReadGoes, Before
<1>3. seen.dead = DOMAIN refreshTokens \ RetainedTokens(k.args.now)
  BY DEF DeadTokens
<1> HIDE DEF seen
<1>4. /\ conns'[c].pc = "tokens" /\ conns'[c].args = k.args /\ conns'[c].seen = seen
      /\ conns'[c].doomed = k.doomed /\ refreshTokens' = refreshTokens
  BY <1>1, <1>2 DEF Goes, storeVars
<1>5. \A t : <<"token", t>> \notin k.doomed
  <2>1. k.doomed \subseteq CodeKeys(Codes) \cup JtiKeys(Jtis)
    BY <1>1, Before DEF SelectDead, Sweeps, HoldsOK
  <2> QED BY <2>1, KeysApart
<1> QED BY <1>3, <1>4, <1>5 DEF SweepExact, RetainedTokens

\* It deletes them one by one.
LEMMA DeleteDeadExact ==
  ASSUME MysqlInv, NEW c \in Conns, DeleteDead(c), SweepExact(c)
  PROVE  SweepExact(c)'
<1>1. PICK k : k = conns[c]
  OBVIOUS
<1>2. PICK t \in k.seen.dead :
        Delete(c, TokenKeys({t} \cap DOMAIN refreshTokens), "tokens", [dead |-> k.seen.dead \ {t}])
  BY <1>1 DEF DeleteDead
<1> DEFINE seen == [dead |-> k.seen.dead \ {t}]
           new == TokenKeys({t} \cap DOMAIN refreshTokens) \cap Stored
<1>3. /\ k.seen.dead \subseteq DOMAIN refreshTokens
      /\ \A u \in DOMAIN refreshTokens :
           u \notin RetainedTokens(k.args.now) <=> u \in k.seen.dead \/ <<"token", u>> \in k.doomed
  BY <1>1 DEF DeleteDead, Sweeps, SweepExact
<1>4. Goes(c, "tokens", new, seen, new)
  BY <1>1, <1>2, DeleteGoes, Before
<1>5. seen.dead = k.seen.dead \ {t}
  OBVIOUS
<1>6. \A u \in DOMAIN refreshTokens : <<"token", u>> \in new <=> u = t
  <2>1. {t} \cap DOMAIN refreshTokens = {t}
    BY <1>3
  <2>2. TokenKeys({t}) = {<<"token", t>>} /\ <<"token", t>> \in Stored
    BY <1>3, OneKey, StoredKeys
  <2> QED BY <2>1, <2>2
<1> HIDE DEF new, seen
<1>7. /\ conns'[c].pc = "tokens" /\ conns'[c].args = k.args /\ conns'[c].seen = seen
      /\ conns'[c].doomed = k.doomed \cup new /\ refreshTokens' = refreshTokens
  BY <1>1, <1>4 DEF Goes, storeVars
<1> QED BY <1>3, <1>5, <1>6, <1>7 DEF SweepExact, RetainedTokens

\* When none is left, the deleted ones are the dead ones.
LEMMA ScanFamiliesExact ==
  ASSUME MysqlInv, NEW c \in Conns, ScanFamilies(c), SweepExact(c)
  PROVE  SweepExact(c)'
<1>1. PICK k : k = conns[c]
  OBVIOUS
<1> DEFINE seen == [present |-> DOMAIN families]
<1>2. Goes(c, "families", {}, seen, {})
  <2>1. SetConn(c, Read(conns[c], "families", seen)) /\ UNCHANGED <<storeVars, expiryVars, time>>
    BY <1>1 DEF ScanFamilies, Read
  <2> HIDE DEF seen
  <2> QED BY <2>1, ReadGoes, Before
<1> HIDE DEF seen
<1>3. \A u \in DOMAIN refreshTokens :
        u \notin RetainedTokens(k.args.now) <=> <<"token", u>> \in k.doomed
  BY <1>1 DEF ScanFamilies, Sweeps, SweepExact
<1>4. /\ conns'[c].pc = "families" /\ conns'[c].args = k.args
      /\ conns'[c].doomed = k.doomed /\ refreshTokens' = refreshTokens
  BY <1>1, <1>2 DEF Goes, storeVars
<1> QED BY <1>3, <1>4 DEF SweepExact, RetainedTokens

\* The families' DELETE takes no token by itself.
LEMMA DeleteFamiliesExact ==
  ASSUME MysqlInv, NEW c \in Conns, DeleteFamilies(c), SweepExact(c)
  PROVE  SweepExact(c)'
<1>0. PICK k : k = conns[c]
  OBVIOUS
<1>1. PICK dead : Delete(c, FamilyKeys(dead), "cascade", k.seen)
  BY <1>0 DEF DeleteFamilies
<1> DEFINE new == FamilyKeys(dead) \cap Stored
<1>2. k.op = "sweep" /\ k.pc = "families"
  BY <1>0 DEF DeleteFamilies, Sweeps
<1>3. Goes(c, "cascade", new, k.seen, new)
  BY <1>0, <1>1, DeleteGoes, Before
<1>4. \A t : <<"token", t>> \notin new
  BY KeysApart
<1> HIDE DEF new
<1>5. /\ conns'[c].pc = "cascade" /\ conns'[c].args = k.args
      /\ conns'[c].doomed = k.doomed \cup new /\ refreshTokens' = refreshTokens
  BY <1>0, <1>3 DEF Goes, storeVars
<1>6. \A t \in DOMAIN refreshTokens :
        t \notin RetainedTokens(k.args.now) <=> <<"token", t>> \in k.doomed
  BY <1>0, <1>2 DEF SweepExact
<1> QED BY <1>4, <1>5, <1>6 DEF SweepExact, RetainedTokens

\* A family that was saved meanwhile goes with all its tokens.
LEMMA CascadeTokensExact ==
  ASSUME MysqlInv, NEW c \in Conns, CascadeTokens(c), SweepExact(c)
  PROVE  SweepExact(c)'
<1>0. PICK k : k = conns[c]
  OBVIOUS
<1> DEFINE theirs == TheirTokens(c)
           new == TokenKeys(theirs) \cap Stored
<1>1. k.op = "sweep" /\ k.pc = "cascade"
  BY <1>0 DEF CascadeTokens, Sweeps
<1>2. Goes(c, "commit", new, k.seen, new)
  BY <1>0, DeleteGoes, Before DEF CascadeTokens
<1>3. ASSUME NEW t \in DOMAIN refreshTokens
      PROVE  <<"token", t>> \in new <=> <<"family", refreshTokens[t].family>> \in k.doomed
  <2>1. <<"token", t>> \in Stored
    BY StoredKeys
  <2>2. <<"token", t>> \in TokenKeys(theirs) <=> t \in theirs
    BY Keys
  <2> QED BY <1>0, <2>1, <2>2 DEF TheirTokens
<1>4. \A f : <<"family", f>> \notin new
  BY KeysApart
<1> HIDE DEF new, theirs
<1>5. /\ conns'[c].pc = "commit" /\ conns'[c].args = k.args /\ conns'[c].seen = k.seen
      /\ conns'[c].doomed = k.doomed \cup new
      /\ refreshTokens' = refreshTokens /\ families' = families
  BY <1>0, <1>2 DEF Goes, storeVars
<1>6. \A t \in DOMAIN refreshTokens :
        t \notin RetainedTokens(k.args.now) <=> <<"token", t>> \in k.doomed
  BY <1>0, <1>1 DEF SweepExact
<1>7. \A f : f \in Lost(c)' <=> /\ f \in DOMAIN families \ k.seen.present
                                /\ <<"family", f>> \in k.doomed
  BY <1>4, <1>5 DEF Lost
<1>8. ASSUME NEW t \in DOMAIN refreshTokens
      PROVE  <<"token", t>> \in k.doomed \cup new
               <=> t \notin RetainedTokens(k.args.now) \/ refreshTokens[t].family \in Lost(c)'
  <2>1. refreshTokens[t].family \in DOMAIN families
    BY DEF MysqlInv, RowsOK, RowsMatchFamily
  <2>2. SweepSeen(c)
    BY <1>0, <1>1, Before DEF SeenOK
  <2>3. <<"family", refreshTokens[t].family>> \in k.doomed /\ <<"token", t>> \notin k.doomed
          => refreshTokens[t].family \notin k.seen.present
    BY <1>0, <1>1, <2>2 DEF SweepSeen
  <2> QED BY <1>3, <1>6, <1>7, <2>1, <2>3
<1> QED BY <1>5, <1>8 DEF SweepExact, RetainedTokens

\* Only how far c's transaction has come changes.
Alone(c) ==
  /\ UNCHANGED <<storeVars, expiryVars>>
  /\ \A d \in Conns \ {c} : conns'[d] = conns[d]
  /\ conns'[c].op = conns[c].op /\ conns'[c].args = conns[c].args

\* A statement before the commit changes no row.
LEMMA StatementAlone ==
  ASSUME MysqlInv, NEW c \in Conns, Statement(c), ~CommitTransaction(c)
  PROVE  Alone(c)
<1>1. ASSUME NEW keys, NEW pc, NEW seen, Lock(c, keys, pc, seen) \/ Delete(c, keys, pc, seen)
      PROVE  Alone(c)
  <2>1. \E new, gone : Goes(c, pc, new, seen, gone)
    BY <1>1, LockGoes, DeleteGoes, Before
  <2> QED BY <2>1 DEF Goes, Moves, Alone
<1>2. ASSUME NEW pc, NEW seen, SetConn(c, Read(conns[c], pc, seen)),
             UNCHANGED <<storeVars, expiryVars, time>>
      PROVE  Alone(c)
  <2>1. Goes(c, pc, {}, seen, {})
    BY <1>2, ReadGoes, Before
  <2> QED BY <2>1 DEF Goes, Moves, Alone
<1>3. CASE LockToken(c) \/ LockFamily(c)
  BY <1>1, <1>3 DEF LockToken, LockFamily
<1>4. CASE UpsertFamily(c) \/ LockRevoked(c)
  BY <1>1, <1>4 DEF UpsertFamily, LockRevoked
<1>5. CASE LockCode(c) \/ LockMeta(c)
  BY <1>1, <1>5 DEF LockCode, LockMeta
<1>6. CASE SweepMeta(c) \/ SweepCodes(c)
  BY <1>1, <1>6 DEF SweepMeta, SweepCodes, Sweeps
<1>7. CASE DeleteDead(c) \/ DeleteFamilies(c) \/ CascadeTokens(c)
  BY <1>1, <1>7 DEF DeleteDead, DeleteFamilies, CascadeTokens, Sweeps
<1>8. CASE SelectDead(c) \/ ScanFamilies(c)
  BY <1>2, <1>8 DEF SelectDead, ScanFamilies, Sweeps, Read
<1> QED BY <1>3, <1>4, <1>5, <1>6, <1>7, <1>8 DEF Statement

\* So every sweep's choice stands, the one's that took the step too.
LEMMA StatementExact ==
  ASSUME MysqlInv, SweepInv, NEW c \in Conns, Statement(c), ~CommitTransaction(c)
  PROVE  SweepInv'
<1>1. UNCHANGED tokenRows /\ \A d \in Conns \ {c} : conns'[d] = conns[d]
  BY StatementAlone DEF Alone, storeVars, tokenRows
<1>2. ASSUME NEW d \in Conns \ {c}, conns'[d].op = "sweep"
      PROVE  SweepExact(d)'
  <2>1. SweepExact(d)
    BY <1>1, <1>2 DEF SweepInv
  <2> QED BY <1>1, <2>1, SweepExactStill
<1>3. ASSUME conns'[c].op = "sweep"
      PROVE  SweepExact(c)'
  <2>1. conns[c].op = "sweep" /\ SweepExact(c)
    BY <1>3, StatementAlone DEF SweepInv, Alone
  <2>2. CASE SweepMeta(c)
    <3>1. Lock(c, MetaLocks, "codes", None)
      BY <2>2 DEF SweepMeta
    <3>2. \E new, gone : Goes(c, "codes", new, None, gone)
      BY <3>1, LockGoes, Before
    <3>3. conns'[c].pc = "codes"
      BY <3>2 DEF Goes
    <3> QED BY <3>3 DEF SweepExact
  <2>3. CASE SweepCodes(c)
    <3>1. PICK keys : Delete(c, keys, "select", None)
      BY <2>3 DEF SweepCodes
    <3>2. \E new, gone : Goes(c, "select", new, None, gone)
      BY <3>1, DeleteGoes, Before
    <3>3. conns'[c].pc = "select"
      BY <3>2 DEF Goes
    <3> QED BY <3>3 DEF SweepExact
  <2>4. CASE SelectDead(c)
    BY <2>4, SelectDeadExact
  <2>5. CASE DeleteDead(c)
    BY <2>1, <2>5, DeleteDeadExact
  <2>6. CASE ScanFamilies(c)
    BY <2>1, <2>6, ScanFamiliesExact
  <2>7. CASE DeleteFamilies(c)
    BY <2>1, <2>7, DeleteFamiliesExact
  <2>8. CASE CascadeTokens(c)
    BY <2>1, <2>8, CascadeTokensExact
  <2> QED
    BY <2>1, <2>2, <2>3, <2>4, <2>5, <2>6, <2>7, <2>8
       DEF Statement, LockToken, LockFamily, UpsertFamily, LockRevoked, LockCode, LockMeta
<1> QED BY <1>2, <1>3 DEF SweepInv

\* A sweep that begins has chosen nothing yet.
LEMMA BeginExact ==
  ASSUME MysqlInv, SweepInv, NEW c \in Conns, BeginCall(c) \/ BeginSweep(c)
  PROVE  SweepInv'
<1>1. ASSUME NEW op, NEW pc, NEW args, NEW fresh, Begin(c, op, pc, args, fresh),
             op = "sweep" => pc = "meta"
      PROVE  SweepInv'
  <2>1. /\ UNCHANGED tokenRows /\ \A d \in Conns \ {c} : conns'[d] = conns[d]
        /\ conns'[c].op = op /\ conns'[c].pc = pc
    BY <1>1, BeginStarts, Before DEF Starts, Moves, storeVars, tokenRows
  <2>2. ASSUME NEW d \in Conns \ {c}, conns'[d].op = "sweep"
        PROVE  SweepExact(d)'
    <3>1. SweepExact(d)
      BY <2>1, <2>2 DEF SweepInv
    <3> QED BY <2>1, <3>1, SweepExactStill
  <2>3. conns'[c].op = "sweep" => SweepExact(c)'
    BY <1>1, <2>1 DEF SweepExact
  <2>4. \A d \in Conns : conns'[d].op = "sweep" => SweepExact(d)'
    BY <2>2, <2>3
  <2> QED BY <2>4 DEF SweepInv
<1>2. CASE BeginRotate(c) \/ BeginSave(c)
  <2>1. \E op \in {"rotate", "save"} : \E pc, args, fresh : Begin(c, op, pc, args, fresh)
    <3>1. CASE BeginRotate(c)
      <4>1. \E args, fresh : Begin(c, "rotate", "token", args, fresh)
        BY <3>1, Zenon DEF BeginRotate
      <4> QED BY <4>1
    <3>2. CASE BeginSave(c)
      <4>1. \E args, fresh : Begin(c, "save", "upsert", args, fresh)
        BY <3>2, Zenon DEF BeginSave
      <4> QED BY <4>1
    <3> QED BY <1>2, <3>1, <3>2
  <2> QED BY <1>1, <2>1
<1>3. CASE BeginRevoke(c) \/ BeginConsume(c)
  BY <1>1, <1>3 DEF BeginRevoke, BeginConsume
<1>4. CASE BeginJti(c) \/ BeginConsent(c)
  BY <1>1, <1>4 DEF BeginJti, BeginConsent
<1>5. CASE BeginSweep(c)
  BY <1>1, <1>5 DEF BeginSweep
<1> QED BY <1>2, <1>3, <1>4, <1>5 DEF BeginCall

\* A transaction that ends is no sweep any more.
LEMMA EndExact ==
  ASSUME MysqlInv, SweepInv, NEW c \in Conns, SetConn(c, Idle),
         \A d \in Conns \ {c} : conns'[d] = conns[d] /\ conns[d].op = "sweep" => SweepExact(d)'
  PROVE  SweepInv'
<1>1. Idle.op # "sweep" /\ Idle' = Idle
  BY DEF Idle
<1>2. conns' = [conns EXCEPT ![c] = Idle] /\ conns = [d \in Conns |-> conns[d]]
  BY DEF SetConn, MysqlInv, ConnsOK
<1> HIDE DEF Idle
<1>3. conns'[c] = Idle /\ \A d \in Conns \ {c} : conns'[d] = conns[d]
  BY <1>2
<1>4. ASSUME NEW d \in Conns, conns'[d].op = "sweep"
      PROVE  SweepExact(d)'
  BY <1>1, <1>3, <1>4
<1> QED BY <1>4 DEF SweepInv

\* With an allowance that covers slow clocks, no sweep takes a family that a
\* call brings back to life, and none stays that was dead.
LEMMA SweepInvStep ==
  ASSUME AllowanceCovers, MysqlInv, SweepInv, [MysqlNext]_mysqlVars
  PROVE  SweepInv'
<1>1. ASSUME NEW c \in Conns, BeginCall(c) \/ BeginSweep(c)
      PROVE  SweepInv'
  BY <1>1, BeginExact
<1>2. ASSUME NEW c \in Conns, Statement(c), ~CommitTransaction(c)
      PROVE  SweepInv'
  BY <1>2, StatementExact
<1>3. ASSUME NEW c \in Conns, CommitTransaction(c)
      PROVE  SweepInv'
  <2>1. Touches(c) /\ SetConn(c, Idle)
    BY <1>3, CommitRowsAfter DEF RowsAfter, CommitTransaction
  <2>2. ASSUME NEW d \in Conns \ {c}, conns'[d] = conns[d], conns[d].op = "sweep"
        PROVE  SweepExact(d)'
    <3>1. KeptFor(d)
      BY <2>1, <2>2, TouchesKept
    <3>2. NewTokensLive(conns[d].args.now)
      BY <1>3, <2>2, CommitsLive
    <3>3. SweepExact(d)
      BY <2>2 DEF SweepInv
    <3> QED BY <2>2, <3>1, <3>2, <3>3, SweepExactKept
  <2> QED BY <2>1, <2>2, EndExact
<1>4. ASSUME NEW c \in Conns, Fail(c)
      PROVE  SweepInv'
  <2>1. SetConn(c, Idle) /\ UNCHANGED tokenRows
    BY <1>4 DEF Fail, RolledBack, storeVars, tokenRows
  <2>2. ASSUME NEW d \in Conns \ {c}, conns'[d] = conns[d], conns[d].op = "sweep"
        PROVE  SweepExact(d)'
    <3>1. SweepExact(d)
      BY <2>2 DEF SweepInv
    <3> QED BY <2>1, <2>2, <3>1, SweepExactStill
  <2> QED BY <2>1, <2>2, EndExact
<1>5. ASSUME UNCHANGED <<tokenRows, conns>>
      PROVE  SweepInv'
  <2>1. ASSUME NEW d \in Conns, conns'[d].op = "sweep"
        PROVE  SweepExact(d)'
    <3>1. conns'[d] = conns[d] /\ SweepExact(d)
      BY <1>5, <2>1 DEF SweepInv
    <3> QED BY <1>5, <3>1, SweepExactStill
  <2> QED BY <2>1 DEF SweepInv
<1>6. CASE \E s \in Stores : SweepNotBegun(s)
  BY <1>5, <1>6 DEF SweepNotBegun, storeVars, tokenRows
<1>7. CASE (\E s \in Stores : LifecycleStep(s)) /\ UNCHANGED <<storeVars, time, conns>>
  BY <1>5, <1>7 DEF storeVars, tokenRows
<1>8. CASE RotateInstance
  BY <1>5, <1>8 DEF RotateInstance, RotateStoreInstanceId, tokenRows
<1>9. CASE Tick
  BY <1>5, <1>9 DEF Tick, storeVars, tokenRows
<1>10. CASE UNCHANGED mysqlVars
  BY <1>5, <1>10 DEF mysqlVars, storeVars, tokenRows
<1> QED BY <1>1, <1>2, <1>3, <1>4, <1>6, <1>7, <1>8, <1>9, <1>10 DEF MysqlNext

\* A sweep deletes the tokens of dead families, no more and no less, although
\* it selects them without a lock and deletes them one by one while rotations
\* commit: once the allowance covers how far callers' clocks may lag, what was
\* dead when selected is dead when deleted (src/store/mysql*.ts, two-step delete).
THEOREM MysqlSweepExact == AllowanceCovers => (MysqlSpec => []SweepInv)
<1> SUFFICES ASSUME AllowanceCovers
             PROVE  MysqlSpec => []SweepInv
  OBVIOUS
<1>1. MysqlInit => SweepInv
  <2>1. Idle.op # "sweep"
    BY DEF Idle
  <2> QED BY <2>1 DEF MysqlInit, SweepInv
<1>2. MysqlInv /\ SweepInv /\ [MysqlNext]_mysqlVars => SweepInv'
  BY SweepInvStep
<1> QED BY <1>1, <1>2, MysqlInvariant, PTL DEF MysqlSpec

-----------------------------------------------------------------------------
(* A transaction is an operation of Store *)

\* Its answer is what Store answers when it commits.
LEMMA CommitAnswers ==
  ASSUME MysqlInv, NEW c \in Conns, conns[c].pc = "commit"
  PROVE  StoreAnswer(c)
<1>1. PICK k : k = conns[c]
  OBVIOUS
<1>2. ArgsOK(c)
  BY Before
<1>3. CASE k.op = "rotate"
  <2>1. RotateSeen(c)
    BY <1>1, <1>3, AtCommit
  <2>2. k.seen.row # None => k.seen.verdict = Verdict(k.args) /\ k.seen.row = FindRefreshToken(k.args.token)
    BY <1>1, <2>1 DEF RotateSeen, FindRefreshToken
  <2> QED BY <1>1, <1>3, <2>2 DEF StoreAnswer
<1>4. CASE k.op = "consume"
  <2>1. ConsumeSeen(c)
    BY <1>1, <1>4, AtCommit
  <2> QED BY <1>1, <1>4, <2>1 DEF StoreAnswer, ConsumeSeen
<1>5. CASE k.op = "jti"
  <2>1. JtiSeen(c)
    BY <1>1, <1>5, AtCommit
  <2>2. k.seen.verdict = IF ConsumeConsentJtiAnswer(k.args.jti, JtiExpiry[k.args.jti])
                         THEN "new" ELSE "replayed"
    BY <1>1, <1>5, <2>1 DEF JtiSeen
  <2>3. ConsumeConsentJtiAnswer(k.args.jti, JtiExpiry[k.args.jti]) \in BOOLEAN
    BY DEF ConsumeConsentJtiAnswer
  <2>4. (k.seen.verdict = "new") = ConsumeConsentJtiAnswer(k.args.jti, JtiExpiry[k.args.jti])
    BY <2>2, <2>3
  <2> QED BY <1>1, <1>5, <2>4 DEF StoreAnswer
<1>6. CASE k.op = "consent"
  <2>1. JtiSeen(c)
    BY <1>1, <1>6, AtCommit
  <2>2. k.seen.verdict = CommitConsentAnswer(k.args.instance, k.args.jti, JtiExpiry[k.args.jti])
    BY <1>1, <1>6, <2>1 DEF JtiSeen
  <2> QED BY <1>1, <1>6, <2>2 DEF StoreAnswer
<1>7. CASE k.op \notin {"rotate", "consume", "jti", "consent"}
  BY <1>1, <1>7 DEF StoreAnswer
<1> QED BY <1>3, <1>4, <1>5, <1>6, <1>7

\* What a caller's transaction did to the rows is what Store does in one step.
LEMMA CallCommits ==
  ASSUME MysqlInv, NEW c \in Conns, CommitTransaction(c), conns[c].op # "sweep",
         storeVars' # storeVars
  PROVE  StoreOperation(c)
<1>1. PICK k : k = conns[c]
  OBVIOUS
<1>2. /\ k.pc = "commit" /\ storeInstanceId' = storeInstanceId
      /\ CommitRotate(c) \/ CommitSave(c) \/ CommitRevoke(c) \/ CommitJti(c) \/ CommitDeletes(c)
  BY <1>1 DEF CommitTransaction
<1>3. CASE CommitRotate(c)
  <2>1. RotateRefreshToken(k.args.token, k.args.next, k.args.now, k.args.generation, k.args.resource)
    BY <1>1, <1>2, <1>3, RotateCommits
  <2>2. k.op = "rotate"
    BY <1>1, <1>3 DEF CommitRotate
  <2> QED BY <1>1, <2>1, <2>2 DEF StoreOperation
<1>4. CASE CommitSave(c)
  <2>1. SaveRefreshToken(k.args.token, k.args.row)
    BY <1>1, <1>2, <1>4, SaveCommits
  <2>2. k.op = "save"
    BY <1>1, <1>4 DEF CommitSave
  <2> QED BY <1>1, <2>1, <2>2 DEF StoreOperation
<1>5. CASE CommitRevoke(c)
  <2>1. RevokeRefreshTokenFamily(k.args.family, k.args.resource)
    BY <1>1, <1>2, <1>5, RevokeCommits
  <2>2. k.op = "revoke"
    BY <1>1, <1>5 DEF CommitRevoke
  <2> QED BY <1>1, <2>1, <2>2 DEF StoreOperation
<1>6. CASE CommitJti(c)
  <2>1. /\ k.op = "jti" => ConsumeConsentJti(k.args.jti, JtiExpiry[k.args.jti])
        /\ k.op = "consent" =>
             CommitConsentApproval(k.args.instance, k.args.jti, JtiExpiry[k.args.jti], k.args.code,
                                   k.args.record)
    BY <1>1, <1>2, <1>6, JtiCommits
  <2>2. k.op \in {"jti", "consent"}
    BY <1>1, <1>6 DEF CommitJti
  <2> QED BY <1>1, <2>1, <2>2 DEF StoreOperation
<1>7. CASE CommitDeletes(c)
  <2>1. k.op = "consume"
    BY <1>1, <1>7 DEF CommitDeletes
  <2>2. ConsumeAuthCode(k.args.code, k.args.resource)
    BY <1>1, <1>2, <1>7, <2>1, ConsumeCommits
  <2> QED BY <1>1, <2>1, <2>2 DEF StoreOperation
<1> QED BY <1>2, <1>3, <1>4, <1>5, <1>6, <1>7

\* A sweep deletes the codes and the tombstones that are dead, by whatever clock.
LEMMA SweepClears ==
  ASSUME MysqlInv, NEW c \in Conns, CommitTransaction(c), conns[c].op = "sweep"
  PROVE  LET now == conns[c].args.now IN
         /\ now \in Times
         /\ sweptThrough' = SweptThrough(now)
         /\ authCodes' = Restrict(authCodes, {x \in DOMAIN authCodes : authCodes[x].expiresAt >= now})
         /\ consentJtis' = Restrict(consentJtis, {j \in DOMAIN consentJtis : consentJtis[j] >= now})
         /\ UNCHANGED <<storeInstanceId, spentJtis>>
<1>1. PICK k : k = conns[c]
  OBVIOUS
<1>2. PICK now : now = k.args.now
  OBVIOUS
<1> DEFINE doomed == k.doomed
<1>3. k.pc = "commit" /\ CommitDeletes(c) /\ storeInstanceId' = storeInstanceId
  BY <1>1 DEF CommitTransaction, CommitRotate, CommitSave, CommitRevoke, CommitJti
<1>4. /\ authCodes' = KeptRows(authCodes, "code", doomed)
      /\ consentJtis' = KeptRows(consentJtis, "jti", doomed)
      /\ sweptThrough' = SweptThrough(now) /\ spentJtis' = spentJtis
  BY <1>1, <1>2, <1>3 DEF CommitDeletes
<1>5. /\ \A x \in DOMAIN authCodes : <<"code", x>> \in doomed <=> authCodes[x].expiresAt < now
      /\ \A j \in DOMAIN consentJtis : <<"jti", j>> \in doomed <=> consentJtis[j] < now
  <2>1. SweepSeen(c)
    BY <1>1, <1>3, AtCommit
  <2> QED BY <1>1, <1>2, <1>3, <2>1 DEF SweepSeen
<1>6. now \in Times /\ now \in Nat
  <2>1. k.args.now \in 0..time
    BY <1>1 DEF MysqlInv, ConnsOK, InTime
  <2> QED BY <1>2, <2>1 DEF MysqlInv, TimeOK
<1>7. {x \in DOMAIN authCodes : <<"code", x>> \notin doomed}
        = {x \in DOMAIN authCodes : authCodes[x].expiresAt >= now}
  <2>1. \A x \in DOMAIN authCodes : authCodes[x].expiresAt \in Nat
    BY TimesAssumption DEF MysqlInv, StoreTypeOK, AuthCodesOK, AuthCodeRecord
  <2> QED BY <1>5, <1>6, <2>1
<1>8. {j \in DOMAIN consentJtis : <<"jti", j>> \notin doomed}
         = {j \in DOMAIN consentJtis : consentJtis[j] >= now}
  <2>1. \A j \in DOMAIN consentJtis : consentJtis[j] \in Nat
    BY TimesAssumption DEF MysqlInv, StoreTypeOK, ConsentsOK
  <2> QED BY <1>5, <1>6, <2>1
<1>9. /\ authCodes' = Restrict(authCodes, {x \in DOMAIN authCodes : authCodes[x].expiresAt >= now})
      /\ consentJtis' = Restrict(consentJtis, {j \in DOMAIN consentJtis : consentJtis[j] >= now})
  BY <1>4, <1>7, <1>8 DEF KeptRows
<1> QED BY <1>1, <1>2, <1>3, <1>4, <1>6, <1>9

\* So it commits as one SweepExpired, less the families it lost.
LEMMA SweepCommits ==
  ASSUME MysqlInv, NEW c \in Conns, CommitTransaction(c), conns[c].op = "sweep", SweepExact(c)
  PROVE  SweepLosing(conns[c].args.now, Lost(c))
<1>1. PICK k : k = conns[c]
  OBVIOUS
<1>2. PICK now : now = k.args.now
  OBVIOUS
<1>3. PICK lost : lost = Lost(c)
  OBVIOUS
<1> DEFINE doomed == k.doomed
           retained == {t \in RetainedTokens(now) : refreshTokens[t].family \notin lost}
<1>4. /\ k.pc = "commit"
      /\ CommitDeletes(c)
  BY <1>1 DEF CommitTransaction, CommitRotate, CommitSave, CommitRevoke, CommitJti
<1>5. /\ refreshTokens' = KeptRows(refreshTokens, "token", doomed)
      /\ families' = KeptRows(families, "family", doomed)
  BY <1>1, <1>4 DEF CommitDeletes
<1>6. \A f \in DOMAIN families :
        <<"family", f>> \in doomed <=>
          \A t \in DOMAIN refreshTokens :
             refreshTokens[t].family = f => <<"token", t>> \in doomed
  <2>1. SweepSeen(c)
    BY <1>1, <1>4, AtCommit
  <2> QED BY <1>1, <1>4, <2>1 DEF SweepSeen
<1>7. \A t \in DOMAIN refreshTokens :
        <<"token", t>> \in doomed <=> t \notin RetainedTokens(now) \/ refreshTokens[t].family \in lost
  BY <1>1, <1>2, <1>3, <1>4 DEF SweepExact
<1>8. RetainedTokens(now) \subseteq DOMAIN refreshTokens
  BY DEF RetainedTokens
<1>9. {t \in DOMAIN refreshTokens : <<"token", t>> \notin doomed} = retained
  BY <1>7, <1>8
<1>10. {f \in DOMAIN families : <<"family", f>> \notin doomed} = FamiliesOf(retained)
  <2>1. \A t \in DOMAIN refreshTokens : refreshTokens[t].family \in DOMAIN families
    BY DEF MysqlInv, RowsOK, RowsMatchFamily
  <2>2. \A t : t \in retained <=> t \in DOMAIN refreshTokens /\ <<"token", t>> \notin doomed
    BY <1>9
  <2>3. FamiliesOf(retained) = {refreshTokens[t].family : t \in retained}
    BY DEF FamiliesOf
  <2> HIDE DEF retained, doomed
  <2>4. ASSUME NEW f \in FamiliesOf(retained)
        PROVE  f \in DOMAIN families /\ <<"family", f>> \notin doomed
    BY <1>6, <2>1, <2>2, <2>3
  <2>5. ASSUME NEW f \in DOMAIN families, <<"family", f>> \notin doomed
        PROVE  f \in FamiliesOf(retained)
    BY <1>6, <2>2, <2>3, <2>5
  <2> QED BY <2>4, <2>5
<1> HIDE DEF retained, doomed
<1>11. refreshTokens' = Restrict(refreshTokens, retained) /\ families' = Restrict(families, FamiliesOf(retained))
  BY <1>5, <1>9, <1>10 DEF KeptRows
<1>12. /\ sweptThrough' = SweptThrough(now)
       /\ authCodes' = Restrict(authCodes, {x \in DOMAIN authCodes : authCodes[x].expiresAt >= now})
       /\ consentJtis' = Restrict(consentJtis, {j \in DOMAIN consentJtis : consentJtis[j] >= now})
  BY <1>1, <1>2, SweepClears
<1>13. SweepLosing(now, lost)
  BY <1>11, <1>12 DEF SweepLosing, retained
<1> QED BY <1>1, <1>2, <1>3, <1>13

\* A sweep's commit is a store's sweep.
LEMMA SweepOperates ==
  ASSUME MysqlInv, SweepInv, NEW c \in Conns, CommitTransaction(c), conns[c].op = "sweep"
  PROVE  StoreOperation(c)
<1>1. SweepLosing(conns[c].args.now, Lost(c))
  BY SweepCommits DEF SweepInv
<1>2. Lost(c) \in SUBSET (DOMAIN families \ conns[c].seen.present)
  BY DEF Lost
<1>3. PICK k : k = conns[c]
  OBVIOUS
<1>4. \E lost \in SUBSET (DOMAIN families \ k.seen.present) : SweepLosing(k.args.now, lost)
  BY <1>1, <1>2, <1>3
<1> QED BY <1>3, <1>4 DEF StoreOperation

\* Every call but the sweep commits as one operation of Store, whatever
\* committed between its statements, and however far clocks differ.
CallsAreStoreOperations ==
  [][\A c \in Conns :
       conns[c].op # "sweep" /\ CommitTransaction(c)
       => StoreAnswer(c) /\ (storeVars' # storeVars => StoreOperation(c))]_mysqlVars

\* Rotations, saves, revocations, redemptions and consents are atomic: each is
\* one step of Store (src/store/mysql*.ts against src/ports/store.ts).
THEOREM MysqlCallsAtomic == MysqlSpec => CallsAreStoreOperations
<1>1. ASSUME MysqlInv, [MysqlNext]_mysqlVars
      PROVE  [\A c \in Conns :
                conns[c].op # "sweep" /\ CommitTransaction(c)
                => StoreAnswer(c) /\ (storeVars' # storeVars => StoreOperation(c))]_mysqlVars
  <2>1. ASSUME NEW c \in Conns, conns[c].op # "sweep", CommitTransaction(c)
        PROVE  StoreAnswer(c) /\ (storeVars' # storeVars => StoreOperation(c))
    <3>1. conns[c].pc = "commit"
      BY <2>1 DEF CommitTransaction
    <3> QED BY <1>1, <2>1, <3>1, CommitAnswers, CallCommits
  <2> QED BY <2>1
<1> QED BY <1>1, MysqlInvariant, PTL DEF MysqlSpec, CallsAreStoreOperations

\* So are the sweeps, when the allowance covers how far callers' clocks lag,
\* except for a family that was saved while the sweep ran.
THEOREM MysqlCommitsAtomic == AllowanceCovers => (MysqlSpec => CommitsAreStoreOperations)
<1> SUFFICES ASSUME AllowanceCovers
             PROVE  MysqlSpec => CommitsAreStoreOperations
  OBVIOUS
<1>1. ASSUME MysqlInv, SweepInv, [MysqlNext]_mysqlVars
      PROVE  [\A c \in Conns :
                conns[c].pc = "commit" /\ <<CommitTransaction(c)>>_mysqlVars
                => StoreAnswer(c) /\ (storeVars' # storeVars => StoreOperation(c))]_mysqlVars
  <2>1. ASSUME NEW c \in Conns, conns[c].pc = "commit", CommitTransaction(c)
        PROVE  StoreAnswer(c) /\ (storeVars' # storeVars => StoreOperation(c))
    BY <1>1, <2>1, CommitAnswers, CallCommits, SweepOperates
  <2> QED BY <2>1
<1> QED BY <1>1, MysqlInvariant, MysqlSweepExact, PTL DEF MysqlSpec, CommitsAreStoreOperations

-----------------------------------------------------------------------------
(* The store implements Store, but for families that a sweep loses *)

\* A call's commit is a step of Store.
LEMMA CallSteps ==
  ASSUME MysqlInv, NEW c \in Conns, CommitTransaction(c), conns[c].op # "sweep"
  PROVE  [StoreNext]_storeVars
<1>1. PICK k : k = conns[c]
  OBVIOUS
<1>2. PICK args : args = k.args
  OBVIOUS
<1>3. /\ k.pc = "commit" /\ storeInstanceId' = storeInstanceId
      /\ CommitRotate(c) \/ CommitSave(c) \/ CommitRevoke(c) \/ CommitJti(c) \/ CommitDeletes(c)
  BY <1>1 DEF CommitTransaction
<1>4. ArgsOK(c) /\ InTime(c)
  BY DEF MysqlInv, ConnsOK
<1>5. CASE CommitRotate(c)
  <2>1. k.op = "rotate"
    BY <1>1, <1>5 DEF CommitRotate
  <2>2. RotateArgs(c) /\ args.now \in Times
    BY <1>1, <1>2, <1>4, <2>1 DEF ArgsOK, InTime, Timed
  <2>3. /\ args.token \in Tokens /\ args.next \in NextTokens
        /\ args.generation \in Generations /\ args.resource \in Resources
    BY <1>1, <1>2, <2>2 DEF RotateArgs
  <2>4. \/ UNCHANGED storeVars
        \/ RotateRefreshToken(args.token, args.next, args.now, args.generation, args.resource)
    BY <1>1, <1>2, <1>3, <1>5, RotateCommits
  <2> QED BY <2>2, <2>3, <2>4 DEF StoreNext
<1>6. CASE CommitSave(c)
  <2>1. k.op = "save"
    BY <1>1, <1>6 DEF CommitSave
  <2>2. args.token \in Tokens /\ args.row \in RootRows
    BY <1>1, <1>2, <1>4, <2>1 DEF ArgsOK, SaveArgs
  <2>3. SaveRefreshToken(args.token, args.row)
    BY <1>1, <1>2, <1>3, <1>6, SaveCommits
  <2> QED BY <2>2, <2>3 DEF StoreNext
<1>7. CASE CommitRevoke(c)
  <2>1. k.op = "revoke"
    BY <1>1, <1>7 DEF CommitRevoke
  <2>2. args.family \in Families /\ args.resource \in Resources \cup {None}
    BY <1>1, <1>2, <1>4, <2>1 DEF ArgsOK
  <2>3. UNCHANGED storeVars \/ RevokeRefreshTokenFamily(args.family, args.resource)
    BY <1>1, <1>2, <1>3, <1>7, RevokeCommits
  <2> QED BY <2>2, <2>3 DEF StoreNext
<1>8. CASE CommitJti(c)
  <2>1. k.op \in {"jti", "consent"}
    BY <1>1, <1>8 DEF CommitJti
  <2>2. /\ k.op = "jti" => ConsumeConsentJti(args.jti, JtiExpiry[args.jti])
        /\ k.op = "consent" =>
             CommitConsentApproval(args.instance, args.jti, JtiExpiry[args.jti], args.code, args.record)
    BY <1>1, <1>2, <1>3, <1>8, JtiCommits
  <2>3. args.jti \in Jtis
    BY <1>1, <1>2, <1>4, <2>1 DEF ArgsOK
  <2>4. CASE k.op = "jti"
    BY <2>2, <2>3, <2>4 DEF StoreNext
  <2>5. CASE k.op = "consent"
    <3>1. args.code \in Codes /\ args.record \in AuthCodeRecord
      BY <1>1, <1>2, <1>4, <2>5 DEF ArgsOK
    <3>2. CASE args.instance = storeInstanceId
      <4>1. args.instance \in 1..MaxInstance
        BY <3>2 DEF MysqlInv, StoreTypeOK, ConsentsOK
      <4> QED BY <2>2, <2>3, <2>5, <3>1, <4>1 DEF StoreNext
    <3>3. CASE args.instance # storeInstanceId
      BY <2>2, <2>5, <3>3 DEF CommitConsentApproval, CommitConsentAnswer, storeVars
    <3> QED BY <3>2, <3>3
  <2> QED BY <2>1, <2>4, <2>5
<1>9. CASE CommitDeletes(c)
  <2>1. k.op = "consume"
    BY <1>1, <1>9 DEF CommitDeletes
  <2>2. args.code \in Codes /\ args.resource \in Resources \cup {None}
    BY <1>1, <1>2, <1>4, <2>1 DEF ArgsOK
  <2>3. UNCHANGED storeVars \/ ConsumeAuthCode(args.code, args.resource)
    BY <1>1, <1>2, <1>3, <1>9, <2>1, ConsumeCommits
  <2> QED BY <2>2, <2>3 DEF StoreNext
<1> QED BY <1>3, <1>5, <1>6, <1>7, <1>8, <1>9

\* A step of the database is one of Store's, or nothing, or a sweep commits.
LEMMA StoreSteps ==
  ASSUME MysqlInv, [MysqlNext]_mysqlVars
  PROVE  \/ [StoreNext]_storeVars
         \/ \E c \in Conns : CommitTransaction(c) /\ conns[c].op = "sweep"
<1>1. ASSUME NEW c \in Conns, BeginCall(c) \/ BeginSweep(c)
      PROVE  UNCHANGED storeVars
  <2>1. ASSUME NEW op, NEW pc, NEW args, NEW fresh, Begin(c, op, pc, args, fresh)
        PROVE  UNCHANGED storeVars
    BY <2>1 DEF Begin
  <2>2. CASE BeginRotate(c)
    <3>1. \E args, fresh : Begin(c, "rotate", "token", args, fresh)
      BY <2>2, Zenon DEF BeginRotate
    <3> QED BY <2>1, <3>1
  <2>3. CASE BeginSave(c)
    <3>1. \E args, fresh : Begin(c, "save", "upsert", args, fresh)
      BY <2>3, Zenon DEF BeginSave
    <3> QED BY <2>1, <3>1
  <2>4. CASE BeginRevoke(c) \/ BeginConsume(c)
    BY <2>1, <2>4 DEF BeginRevoke, BeginConsume
  <2>5. CASE BeginJti(c) \/ BeginConsent(c)
    BY <2>1, <2>5 DEF BeginJti, BeginConsent
  <2>6. CASE BeginSweep(c)
    BY <2>1, <2>6 DEF BeginSweep
  <2> QED BY <1>1, <2>2, <2>3, <2>4, <2>5, <2>6 DEF BeginCall
<1>2. ASSUME NEW c \in Conns, Statement(c), ~CommitTransaction(c)
      PROVE  UNCHANGED storeVars
  BY <1>2, StatementAlone DEF Alone
<1>3. ASSUME NEW c \in Conns, CommitTransaction(c)
      PROVE  [StoreNext]_storeVars \/ conns[c].op = "sweep"
  BY <1>3, CallSteps
<1>4. ASSUME NEW c \in Conns, Fail(c)
      PROVE  UNCHANGED storeVars
  BY <1>4 DEF Fail
<1>5. CASE \E s \in Stores : SweepNotBegun(s)
  BY <1>5 DEF SweepNotBegun
<1>6. CASE RotateInstance
  BY <1>6 DEF RotateInstance, StoreNext
<1>7. CASE Tick
  BY <1>7 DEF Tick
<1>8. CASE UNCHANGED mysqlVars
  BY <1>8 DEF mysqlVars
<1> QED BY <1>1, <1>2, <1>3, <1>4, <1>5, <1>6, <1>7, <1>8 DEF MysqlNext

\* Store, with a sweep that may lose some families whose tokens were saved
\* while it ran, each with all its tokens.
LosingNext ==
  \/ StoreNext
  \/ \E now \in Times, lost \in SUBSET Families :
       SweepLosing(now, lost) /\ UNCHANGED <<storeInstanceId, spentJtis>>

LosingSpec == StoreInit /\ [][LosingNext]_storeVars

\* A sweep that commits is such a step.
LEMMA SweepLoses ==
  ASSUME MysqlInv, SweepInv, NEW c \in Conns, CommitTransaction(c), conns[c].op = "sweep"
  PROVE  LosingNext
<1>1. SweepLosing(conns[c].args.now, Lost(c))
  BY SweepCommits DEF SweepInv
<1>2. conns[c].args.now \in Times /\ UNCHANGED <<storeInstanceId, spentJtis>>
  BY SweepClears
<1>3. Lost(c) \in SUBSET Families
  BY DEF Lost, MysqlInv, StoreTypeOK, FamiliesOK
<1> QED BY <1>1, <1>2, <1>3 DEF LosingNext

\* The database implements Store, transaction by transaction, under any
\* interleaving of statements, failed commits and skewed clocks, but for the
\* families its sweep may lose (src/store/mysql*.ts against src/ports/store.ts).
THEOREM MysqlImplementsStore == AllowanceCovers => (MysqlSpec => LosingSpec)
<1> SUFFICES ASSUME AllowanceCovers
             PROVE  MysqlSpec => LosingSpec
  OBVIOUS
<1>1. MysqlInit => StoreInit
  BY DEF MysqlInit
<1>2. MysqlInv /\ SweepInv /\ [MysqlNext]_mysqlVars => [LosingNext]_storeVars
  BY StoreSteps, SweepLoses DEF LosingNext
<1> QED BY <1>1, <1>2, MysqlInvariant, MysqlSweepExact, PTL DEF MysqlSpec, LosingSpec

-----------------------------------------------------------------------------
(* What Store promises still holds *)

\* A sweep that loses whole families leaves the other lineages in order.
LEMMA LosingRows ==
  ASSUME TokenRowsInv, NEW now \in Times, NEW lost \in SUBSET Families, SweepLosing(now, lost)
  PROVE  TokenRowsInv'
<1> DEFINE kept == {t \in RetainedTokens(now) : refreshTokens[t].family \notin lost}
<1>1. /\ refreshTokens' = Restrict(refreshTokens, kept)
      /\ families' = Restrict(families, FamiliesOf(kept))
  BY DEF SweepLosing
<1>2. /\ kept \in SUBSET DOMAIN refreshTokens
      /\ \A t \in kept, u \in DOMAIN refreshTokens :
           refreshTokens[u].family = refreshTokens[t].family => u \in kept
  BY DEF RetainedTokens
<1>3. FamiliesOf(kept) = {f \in DOMAIN families : \E t \in kept : refreshTokens[t].family = f}
  <2>1. \A t \in DOMAIN refreshTokens : refreshTokens[t].family \in DOMAIN families
    BY DEF TokenRowsInv, RowsMatchFamily
  <2>2. FamiliesOf(kept) = {refreshTokens[t].family : t \in kept}
    BY DEF FamiliesOf
  <2> HIDE DEF kept
  <2> QED BY <1>2, <2>1, <2>2
<1> HIDE DEF kept
<1> QED BY <1>1, <1>2, <1>3, WholeFamilies

\* Every step keeps the lineages.
LEMMA LosingStep ==
  ASSUME StoreTypeOK, TokenRowsInv, [LosingNext]_storeVars
  PROVE  TokenRowsInv'
BY RowsStep, LosingRows DEF LosingNext

\* No presentation of a token wins twice, the token a successor came from stays
\* to betray a replay, and successors speak for whom their predecessor did,
\* over the database too: between SELECT ... FOR UPDATE and COMMIT, and while a
\* sweep deletes what it selected before.
THEOREM MysqlLineage ==
  AllowanceCovers => (MysqlSpec => [](LineageKept /\ OneSuccessor /\ SuccessorInherits))
<1> SUFFICES ASSUME AllowanceCovers
             PROVE  MysqlSpec => [](LineageKept /\ OneSuccessor /\ SuccessorInherits)
  OBVIOUS
<1>1. StoreInit => TokenRowsInv
  BY RowsInit
<1>2. StoreTypeOK /\ TokenRowsInv /\ [LosingNext]_storeVars => TokenRowsInv'
  BY LosingStep
<1>3. TokenRowsInv => LineageKept /\ OneSuccessor /\ SuccessorInherits
  BY DEF TokenRowsInv
<1> QED BY <1>1, <1>2, <1>3, MysqlTypeCorrect, MysqlImplementsStore, PTL DEF LosingSpec

\* The watermark and the tombstones guard the consent tokens, whatever clocks
\* the sweeps go by.
LEMMA MysqlFenceStep ==
  ASSUME MysqlInv, JtiFenced, [MysqlNext]_mysqlVars
  PROVE  /\ JtiFenced'
         /\ \A j \in DOMAIN consentJtis' \ DOMAIN consentJtis : j \notin spentJtis
<1>1. StoreTypeOK
  BY DEF MysqlInv
<1>2. CASE [StoreNext]_storeVars
  BY <1>1, <1>2, FenceStep, FreshUse
<1>3. CASE \E c \in Conns : CommitTransaction(c) /\ conns[c].op = "sweep"
  <2>1. PICK c \in Conns : CommitTransaction(c) /\ conns[c].op = "sweep"
    BY <1>3
  <2>2. PICK now \in Times :
          /\ sweptThrough' = SweptThrough(now) /\ spentJtis' = spentJtis
          /\ consentJtis' = Restrict(consentJtis, {j \in DOMAIN consentJtis : consentJtis[j] >= now})
    BY <2>1, SweepClears
  <2>3. JtiFenced'
    BY <1>1, <2>2, FenceCollect
  <2>4. DOMAIN consentJtis' \subseteq DOMAIN consentJtis
    BY <2>2 DEF Restrict
  <2> QED BY <2>3, <2>4
<1> QED BY <1>2, <1>3, StoreSteps

\* A consent token is accepted at most once by the database: two approvals, an
\* approval and a callback, or either and a sweep, meet at the watermark's row.
THEOREM MysqlJtiOnce == MysqlSpec => JtiAcceptedOnce
<1>1. MysqlInit => JtiFenced
  BY DEF MysqlInit, StoreInit, JtiFenced
<1>2. MysqlInv /\ JtiFenced /\ [MysqlNext]_mysqlVars
      => /\ JtiFenced'
         /\ [\A j \in DOMAIN consentJtis' \ DOMAIN consentJtis : j \notin spentJtis]_storeVars
  BY MysqlFenceStep
<1> QED BY <1>1, <1>2, MysqlInvariant, PTL DEF MysqlSpec, JtiAcceptedOnce

-----------------------------------------------------------------------------
(* Who sweeps, and until when *)

\* What a scheduler may be doing.
LifeRecord == [ready : BOOLEAN, started : BOOLEAN, timer : BOOLEAN,
               sweeping : BOOLEAN, stopped : BOOLEAN, closed : BOOLEAN]

LifeGood(e) ==
  /\ e \in LifeRecord
  /\ e.closed => e.stopped /\ ~e.sweeping
  /\ e.stopped => ~e.timer
  /\ e.started /\ ~e.stopped => e.timer \/ e.sweeping

OwnersOK(s) == \A c \in Conns : OwnsSweep(s, c) => /\ expiry[s].sweeping
                                                   /\ \A d \in Conns : OwnsSweep(s, d) => d = c

LifeOK ==
  /\ expiry = [s \in Stores |-> expiry[s]]
  /\ \A s \in Stores : LifeGood(expiry[s]) /\ OwnersOK(s)

\* A step of one scheduler.
LEMMA LifeSet ==
  ASSUME LifeOK, NEW s \in Stores, NEW e, SetExpiry(s, e), LifeGood(e),
         \A c \in Conns : OwnsSweep(s, c)' => OwnsSweep(s, c) /\ e.sweeping,
         \A r \in Stores \ {s}, c \in Conns : OwnsSweep(r, c)' => OwnsSweep(r, c)
  PROVE  LifeOK'
<1>1. expiry' = [r \in Stores |-> IF r = s THEN e ELSE expiry[r]]
  BY DEF SetExpiry, LifeOK
<1>2. expiry'[s] = e /\ \A r \in Stores \ {s} : expiry'[r] = expiry[r]
  BY <1>1
<1>3. OwnersOK(s)'
  BY <1>2 DEF LifeOK, OwnersOK
<1>4. ASSUME NEW r \in Stores \ {s}
      PROVE  LifeGood(expiry[r])' /\ OwnersOK(r)'
  BY <1>2 DEF LifeOK, OwnersOK, LifeGood
<1>5. LifeGood(expiry[s])'
  BY <1>2 DEF LifeGood
<1>6. expiry' = [r \in Stores |-> expiry'[r]]
  BY <1>1
<1> QED BY <1>3, <1>4, <1>5, <1>6 DEF LifeOK

\* A step of a connection that leaves the schedulers alone.
LEMMA LifeKept ==
  ASSUME LifeOK, UNCHANGED expiryVars,
         \A s \in Stores, c \in Conns : OwnsSweep(s, c)' => OwnsSweep(s, c)
  PROVE  LifeOK'
<1>1. expiry' = expiry
  BY DEF expiryVars
<1> QED BY <1>1 DEF LifeOK, OwnersOK, LifeGood

\* The scheduler's own steps.
LEMMA LifecycleLife ==
  ASSUME LifeOK, NEW s \in Stores, LifecycleStep(s), conns' = conns
  PROVE  LifeOK'
<1>1. PICK e : e = expiry[s]
  OBVIOUS
<1>2. LifeGood(e)
  BY <1>1 DEF LifeOK
<1>3. \A r \in Stores, c \in Conns : OwnsSweep(r, c)' <=> OwnsSweep(r, c)
  BY DEF OwnsSweep
<1>4. \A c \in Conns : OwnsSweep(s, c) => e.sweeping
  BY <1>1 DEF LifeOK, OwnersOK
<1>5. ASSUME NEW new, SetExpiry(s, new), LifeGood(new), e.sweeping => new.sweeping
      PROVE  LifeOK'
  BY <1>3, <1>4, <1>5, LifeSet
<1> USE DEF LifeGood, LifeRecord
<1>6. CASE MarkReady(s)
  <2>1. SetExpiry(s, [e EXCEPT !.ready = TRUE])
    BY <1>1, <1>6 DEF MarkReady
  <2> QED BY <1>2, <1>5, <2>1
<1>7. CASE StartCollection(s)
  <2>1. SetExpiry(s, [e EXCEPT !.started = TRUE, !.timer = TRUE]) /\ ~e.stopped /\ ~e.closed
    BY <1>1, <1>7 DEF StartCollection
  <2> QED BY <1>2, <1>5, <2>1
<1>8. CASE TimerFires(s)
  <2>1. SetExpiry(s, [e EXCEPT !.timer = FALSE, !.sweeping = TRUE]) /\ e.timer
    BY <1>1, <1>8 DEF TimerFires
  <2> QED BY <1>2, <1>5, <2>1
<1>9. CASE Stop(s)
  <2>1. SetExpiry(s, [e EXCEPT !.stopped = TRUE, !.timer = FALSE]) /\ ~e.closed
    BY <1>1, <1>9 DEF Stop
  <2> QED BY <1>2, <1>5, <2>1
<1>10. CASE CloseReturns(s)
  <2>1. SetExpiry(s, [e EXCEPT !.closed = TRUE]) /\ e.stopped /\ ~e.sweeping
    BY <1>1, <1>10 DEF CloseReturns, MayClose
  <2> QED BY <1>2, <1>5, <2>1
<1> QED BY <1>6, <1>7, <1>8, <1>9, <1>10 DEF LifecycleStep

\* A sweep that has settled, well or badly, arms the timer again.
LEMMA SettledLife ==
  ASSUME NEW e, LifeGood(e), e.sweeping
  PROVE  LifeGood(AfterSweep(e))
BY DEF LifeGood, LifeRecord, AfterSweep

\* A transaction that ends settles its sweep.
LEMMA EndLife ==
  ASSUME MysqlInv, LifeOK, NEW c \in Conns, SetConn(c, Idle), NEW failed, Settle(c, failed)
  PROVE  LifeOK'
<1>1. /\ conns'[c] = Idle /\ Idle.op # "sweep"
      /\ \A d \in Conns \ {c} : conns'[d] = conns[d]
  <2>1. conns' = [conns EXCEPT ![c] = Idle] /\ conns = [d \in Conns |-> conns[d]]
    BY DEF SetConn, MysqlInv, ConnsOK
  <2>2. Idle.op # "sweep"
    BY DEF Idle
  <2> QED BY <2>1, <2>2
<1>2. \A r \in Stores, d \in Conns : OwnsSweep(r, d)' => OwnsSweep(r, d) /\ d # c
  BY <1>1 DEF OwnsSweep
<1>3. CASE conns[c].op = "sweep"
  <2>1. PICK s \in Stores : s = conns[c].args.store
    BY <1>3, Before DEF ArgsOK
  <2>2. OwnsSweep(s, c)
    BY <1>3, <2>1 DEF OwnsSweep
  <2>3. PICK e : e = expiry[s]
    OBVIOUS
  <2>4. LifeGood(e) /\ e.sweeping /\ \A d \in Conns : OwnsSweep(s, d) => d = c
    BY <2>2, <2>3 DEF LifeOK, OwnersOK
  <2>5. SetExpiry(s, AfterSweep(e))
    BY <1>3, <2>1, <2>3 DEF Settle, AfterFailedSweep
  <2>6. LifeGood(AfterSweep(e))
    BY <2>4, SettledLife
  <2>7. \A d \in Conns : ~OwnsSweep(s, d)'
    BY <1>2, <2>4
  <2> QED BY <1>2, <2>5, <2>6, <2>7, LifeSet
<1>4. CASE conns[c].op # "sweep"
  <2>1. UNCHANGED expiryVars
    BY <1>4 DEF Settle, expiryVars
  <2> QED BY <1>2, <2>1, LifeKept
<1> QED BY <1>3, <1>4

\* A transaction that begins is a sweep only for a scheduler that waits for one
\* and has none.
LEMMA BeginLife ==
  ASSUME MysqlInv, LifeOK, NEW c \in Conns, BeginCall(c) \/ BeginSweep(c)
  PROVE  LifeOK'
<1>1. ASSUME NEW op, NEW pc, NEW args, NEW fresh, Begin(c, op, pc, args, fresh)
      PROVE  /\ expiry' = expiry
             /\ \A d \in Conns \ {c} : conns'[d] = conns[d]
             /\ conns'[c].op = op /\ conns'[c].args = args
  BY <1>1, BeginStarts, Before DEF Starts, Moves, expiryVars
<1>2. CASE BeginCall(c)
  <2>1. ASSUME NEW op, NEW pc, NEW args, NEW fresh, Begin(c, op, pc, args, fresh), op # "sweep"
        PROVE  LifeOK'
    <3>1. \A s \in Stores, d \in Conns : OwnsSweep(s, d)' => OwnsSweep(s, d)
      BY <1>1, <2>1 DEF OwnsSweep
    <3>2. expiry' = expiry
      BY <1>1, <2>1
    <3> QED BY <3>1, <3>2, LifeKept DEF expiryVars
  <2>2. CASE BeginRotate(c)
    <3>1. \E args, fresh : Begin(c, "rotate", "token", args, fresh)
      BY <2>2, Zenon DEF BeginRotate
    <3> QED BY <2>1, <3>1
  <2>3. CASE BeginSave(c)
    <3>1. \E args, fresh : Begin(c, "save", "upsert", args, fresh)
      BY <2>3, Zenon DEF BeginSave
    <3> QED BY <2>1, <3>1
  <2>4. CASE BeginRevoke(c) \/ BeginConsume(c)
    BY <2>1, <2>4 DEF BeginRevoke, BeginConsume
  <2>5. CASE BeginJti(c) \/ BeginConsent(c)
    BY <2>1, <2>5 DEF BeginJti, BeginConsent
  <2> QED BY <1>2, <2>2, <2>3, <2>4, <2>5 DEF BeginCall
<1>3. CASE BeginSweep(c)
  <2>1. PICK s \in Stores, reading \in Readings :
          /\ expiry[s].sweeping /\ \A d \in Conns : ~OwnsSweep(s, d)
          /\ Begin(c, "sweep", "meta", [store |-> s, now |-> SweepTime(reading)], {})
    BY <1>3 DEF BeginSweep
  <2>2. /\ expiry' = expiry /\ \A d \in Conns \ {c} : conns'[d] = conns[d]
        /\ conns'[c].args.store = s
    BY <1>1, <2>1
  <2>3. /\ \A d \in Conns : OwnsSweep(s, d)' => d = c
        /\ \A r \in Stores \ {s}, d \in Conns : OwnsSweep(r, d)' => OwnsSweep(r, d)
    BY <2>1, <2>2 DEF OwnsSweep
  <2>4. OwnersOK(s)'
    BY <2>1, <2>2, <2>3 DEF OwnersOK
  <2>5. ASSUME NEW r \in Stores \ {s}
        PROVE  OwnersOK(r)'
    BY <2>2, <2>3 DEF LifeOK, OwnersOK
  <2> QED BY <2>2, <2>4, <2>5 DEF LifeOK, LifeGood
<1> QED BY <1>2, <1>3

\* Every step keeps schedulers and sweeps together.
LEMMA LifeStep ==
  ASSUME MysqlInv, LifeOK, [MysqlNext]_mysqlVars
  PROVE  LifeOK'
<1>1. ASSUME NEW c \in Conns, BeginCall(c) \/ BeginSweep(c)
      PROVE  LifeOK'
  BY <1>1, BeginLife
<1>2. ASSUME NEW c \in Conns, Statement(c), ~CommitTransaction(c)
      PROVE  LifeOK'
  <2>1. Alone(c)
    BY <1>2, StatementAlone
  <2>2. \A s \in Stores, d \in Conns : OwnsSweep(s, d)' => OwnsSweep(s, d)
    BY <2>1 DEF Alone, OwnsSweep
  <2> QED BY <2>1, <2>2, LifeKept DEF Alone
<1>3. ASSUME NEW c \in Conns, CommitTransaction(c)
      PROVE  LifeOK'
  BY <1>3, EndLife DEF CommitTransaction
<1>4. ASSUME NEW c \in Conns, Fail(c)
      PROVE  LifeOK'
  BY <1>4, EndLife DEF Fail, RolledBack
<1>5. CASE \E s \in Stores : SweepNotBegun(s)
  <2>1. PICK s \in Stores : SweepNotBegun(s)
    BY <1>5
  <2>2. PICK e : e = expiry[s]
    OBVIOUS
  <2>3. /\ SetExpiry(s, AfterSweep(e)) /\ e.sweeping /\ conns' = conns
        /\ \A c \in Conns : ~OwnsSweep(s, c)
    BY <2>1, <2>2 DEF SweepNotBegun, AfterFailedSweep
  <2>4. LifeGood(AfterSweep(e))
    BY <2>2, <2>3, SettledLife DEF LifeOK
  <2>5. \A r \in Stores, c \in Conns : OwnsSweep(r, c)' <=> OwnsSweep(r, c)
    BY <2>3 DEF OwnsSweep
  <2> QED BY <2>3, <2>4, <2>5, LifeSet
<1>6. CASE (\E s \in Stores : LifecycleStep(s)) /\ UNCHANGED <<storeVars, time, conns>>
  BY <1>6, LifecycleLife
<1>7. ASSUME UNCHANGED <<expiryVars, conns>>
      PROVE  LifeOK'
  <2>1. \A s \in Stores, d \in Conns : OwnsSweep(s, d)' => OwnsSweep(s, d)
    BY <1>7 DEF OwnsSweep
  <2> QED BY <1>7, <2>1, LifeKept
<1>8. CASE RotateInstance
  BY <1>7, <1>8 DEF RotateInstance
<1>9. CASE Tick
  BY <1>7, <1>9 DEF Tick
<1>10. CASE UNCHANGED mysqlVars
  BY <1>7, <1>10 DEF mysqlVars
<1> QED BY <1>1, <1>2, <1>3, <1>4, <1>5, <1>6, <1>8, <1>9, <1>10 DEF MysqlNext

\* Collection goes on until it is stopped, whatever sweeps fail and at whatever
\* statement; and a close() that has returned left no sweep behind in the
\* database (src/store/expiry-*.ts over src/store/mysql*.ts).
THEOREM MysqlCollects == MysqlSpec => []CollectsUntilClosed
<1>1. MysqlInit => LifeOK
  <2> SUFFICES ASSUME MysqlInit
               PROVE  LifeOK
    OBVIOUS
  <2>1. /\ expiry = [s \in Stores |-> [ready |-> FALSE, started |-> FALSE, timer |-> FALSE,
                                       sweeping |-> FALSE, stopped |-> FALSE, closed |-> FALSE]]
        /\ conns = [c \in Conns |-> Idle]
    BY DEF MysqlInit, ExpiryInit
  <2>2. \A s \in Stores : LifeGood(expiry[s])
    BY <2>1 DEF LifeGood, LifeRecord
  <2>3. \A s \in Stores, c \in Conns : ~OwnsSweep(s, c)
    BY <2>1 DEF OwnsSweep, Idle
  <2> QED BY <2>1, <2>2, <2>3 DEF LifeOK, OwnersOK
<1>2. MysqlInv /\ LifeOK /\ [MysqlNext]_mysqlVars => LifeOK'
  BY LifeStep
<1>3. LifeOK => CollectsUntilClosed
  BY DEF LifeOK, LifeGood, OwnersOK, CollectsUntilClosed
<1> QED BY <1>1, <1>2, <1>3, MysqlInvariant, PTL DEF MysqlSpec

-----------------------------------------------------------------------------
(* No deadlock *)

\* At which statement a transaction may be that holds a row of each table.
MetaHeld(k) == Meta \in k.locks => k.pc \in {"codes", "select", "tokens", "families", "cascade", "commit"}
CodesHeld(k) ==
  \A x : <<"code", x>> \in k.locks =>
     k.pc = "commit" \/ (k.pc \in {"select", "tokens", "families", "cascade"} /\ Meta \in k.locks)
TokensHeld(k) ==
  \A t : <<"token", t>> \in k.locks =>
     k.pc \in {"family", "commit"} \/ (k.pc \in {"tokens", "families", "cascade"} /\ Meta \in k.locks)
FamiliesHeld(k) == \A f : <<"family", f>> \in k.locks => k.pc \in {"cascade", "commit"}
Held(k) == MetaHeld(k) /\ CodesHeld(k) /\ TokensHeld(k) /\ FamiliesHeld(k)

\* Who holds nothing, or is about to commit, is at none of the others' statements.
LEMMA HeldTrivially ==
  ASSUME NEW k, k.locks = {} \/ k.pc = "commit"
  PROVE  Held(k)
BY DEF Held, MetaHeld, CodesHeld, TokensHeld, FamiliesHeld

\* So it is with every transaction.
LEMMA Holders ==
  ASSUME MysqlInv, NEW d \in Conns
  PROVE  Held(conns[d])
<1>1. ArgsOK(d) /\ HoldsOK(d)
  BY Before
<1>2. PICK k : k = conns[d]
  OBVIOUS
<1>3. /\ \A S, x : <<"token", x>> \notin FamilyKeys(S) \cup CodeKeys(S) \cup JtiKeys(S) \cup {Meta}
      /\ \A S, x : <<"family", x>> \notin TokenKeys(S) \cup CodeKeys(S) \cup JtiKeys(S) \cup {Meta}
      /\ \A S, x : <<"code", x>> \notin TokenKeys(S) \cup FamilyKeys(S) \cup JtiKeys(S) \cup {Meta}
  BY KeysApart
<1>4. \A S : Meta \notin TokenKeys(S) \cup FamilyKeys(S) \cup CodeKeys(S) \cup JtiKeys(S)
  BY MetaApart
<1>5. CASE k.op = "none"
  <2>1. Idle.locks = {}
    BY DEF Idle
  <2> QED BY <1>1, <1>2, <1>5, <2>1, HeldTrivially DEF ArgsOK
<1>6. CASE k.op = "rotate"
  <2>1. \/ k.pc = "token" /\ k.locks = {}
        \/ k.pc = "family" /\ k.locks = TokenKeys({k.args.token})
        \/ k.pc = "commit"
    BY <1>1, <1>2, <1>6 DEF HoldsOK
  <2>2. ASSUME k.pc = "family", k.locks = TokenKeys({k.args.token})
        PROVE  Held(k)
    <3>1. MetaHeld(k)
      BY <1>4, <2>2 DEF MetaHeld
    <3>2. CodesHeld(k) /\ FamiliesHeld(k)
      BY <1>3, <2>2 DEF CodesHeld, FamiliesHeld
    <3>3. TokensHeld(k)
      BY <2>2 DEF TokensHeld
    <3> QED BY <3>1, <3>2, <3>3 DEF Held
  <2> QED BY <1>2, <2>1, <2>2, HeldTrivially
<1>7. CASE k.op \in {"save", "revoke", "consume", "jti", "consent"}
  <2>1. k.locks = {} \/ k.pc = "commit"
    BY <1>1, <1>2, <1>7 DEF HoldsOK
  <2> QED BY <1>2, <2>1, HeldTrivially
<1>8. CASE k.op = "sweep"
  <2>1. \/ k.locks = {} \/ k.pc = "commit"
        \/ k.pc = "cascade" /\ Meta \in k.locks
        \/ k.pc = "codes" /\ k.locks = {Meta}
        \/ /\ k.pc = "select" /\ k.locks = {Meta} \cup k.doomed
           /\ k.doomed \subseteq CodeKeys(Codes) \cup JtiKeys(Jtis)
        \/ /\ k.pc \in {"tokens", "families"} /\ k.locks = {Meta} \cup k.doomed
           /\ k.doomed \subseteq CodeKeys(Codes) \cup JtiKeys(Jtis) \cup TokenKeys(Tokens)
    BY <1>1, <1>2, <1>8 DEF HoldsOK
  <2>2. ASSUME k.pc = "codes", k.locks = {Meta}
        PROVE  Held(k)
    <3>1. \A x : /\ <<"code", x>> \notin k.locks /\ <<"token", x>> \notin k.locks
                 /\ <<"family", x>> \notin k.locks
      BY <1>3, <2>2
    <3> QED BY <2>2, <3>1 DEF Held, MetaHeld, CodesHeld, TokensHeld, FamiliesHeld
  <2>3. ASSUME k.pc = "select", k.locks = {Meta} \cup k.doomed,
               k.doomed \subseteq CodeKeys(Codes) \cup JtiKeys(Jtis)
        PROVE  Held(k)
    <3>1. \A x : <<"token", x>> \notin k.locks /\ <<"family", x>> \notin k.locks
      BY <1>3, <2>3
    <3>2. Meta \in k.locks
      BY <2>3
    <3> QED BY <2>3, <3>1, <3>2 DEF Held, MetaHeld, CodesHeld, TokensHeld, FamiliesHeld
  <2>4. ASSUME k.pc \in {"tokens", "families"}, k.locks = {Meta} \cup k.doomed,
               k.doomed \subseteq CodeKeys(Codes) \cup JtiKeys(Jtis) \cup TokenKeys(Tokens)
        PROVE  Held(k)
    <3>1. \A f : <<"family", f>> \notin k.locks
      BY <1>3, <2>4
    <3>2. Meta \in k.locks
      BY <2>4
    <3> QED BY <2>4, <3>1, <3>2 DEF Held, MetaHeld, CodesHeld, TokensHeld, FamiliesHeld
  <2>5. ASSUME k.pc = "cascade", Meta \in k.locks
        PROVE  Held(k)
    BY <2>5 DEF Held, MetaHeld, CodesHeld, TokensHeld, FamiliesHeld
  <2> QED BY <1>2, <2>1, <2>2, <2>3, <2>4, <2>5, HeldTrivially
<1> QED BY <1>1, <1>2, <1>5, <1>6, <1>7, <1>8 DEF ArgsOK

\* How many more tables a transaction may wait for.
Rank(c) ==
  LET pc == conns[c].pc IN
  IF pc \in {"commit", "select", "idle"} THEN 0
  ELSE IF pc \in {"family", "upsert", "families", "codes"} THEN 1
  ELSE IF pc = "tokens" THEN 2 ELSE 3

\* Who is waited for is nearer its end, sweeps in their cascade apart.
LEMMA BlockersNearer ==
  ASSUME MysqlInv, NEW c \in Conns, NEW d \in Blockers(c),
         conns[c].pc # "cascade", conns[d].pc # "cascade"
  PROVE  d \in Conns /\ Open(d) /\ Rank(d) < Rank(c)
<1>1. /\ d \in Conns \ {c} /\ conns[d].locks \cap NextKeys(c) # {}
  BY DEF Blockers
<1>2. PICK key : key \in conns[d].locks /\ key \in NextKeys(c)
  BY <1>1
<1>3. PICK k : k = conns[c]
  OBVIOUS
<1>4. PICK l : l = conns[d]
  OBVIOUS
<1>5. /\ Meta \in l.locks => l.pc \in {"codes", "select", "tokens", "families", "commit"}
      /\ \A x : <<"code", x>> \in l.locks =>
           l.pc = "commit" \/ (l.pc \in {"select", "tokens", "families"} /\ Meta \in l.locks)
      /\ \A t : <<"token", t>> \in l.locks =>
           l.pc \in {"family", "commit"} \/ (l.pc \in {"tokens", "families"} /\ Meta \in l.locks)
      /\ \A f : <<"family", f>> \in l.locks => l.pc = "commit"
  BY <1>1, <1>4, Holders DEF Held, MetaHeld, CodesHeld, TokensHeld, FamiliesHeld
<1>6. ~(Meta \in k.locks /\ Meta \in l.locks)
  BY <1>1, <1>3, <1>4 DEF MysqlInv, LocksOK
<1>7. k.pc \in {"codes", "tokens"} => Meta \in k.locks
  <2>1. ArgsOK(c) /\ HoldsOK(c)
    BY Before
  <2>2. Idle.pc = "idle"
    BY DEF Idle
  <2>3. k.op # "none" \/ k.pc = "idle"
    BY <1>3, <2>1, <2>2 DEF ArgsOK
  <2> QED BY <1>3, <2>1, <2>3 DEF HoldsOK, ArgsOK
<1>8. \A j : <<"jti", j>> \in l.locks => Meta \in l.locks
  BY <1>1, <1>4, JtiLocked
<1>9. Rank(c) = IF k.pc \in {"commit", "select", "idle"} THEN 0
                ELSE IF k.pc \in {"family", "upsert", "families", "codes"} THEN 1
                ELSE IF k.pc = "tokens" THEN 2 ELSE 3
  BY <1>3 DEF Rank
<1>10. Rank(d) = IF l.pc \in {"commit", "select", "idle"} THEN 0
                 ELSE IF l.pc \in {"family", "upsert", "families", "codes"} THEN 1
                 ELSE IF l.pc = "tokens" THEN 2 ELSE 3
  BY <1>4 DEF Rank
<1>11. CASE k.pc = "meta"
  <2>1. key = Meta
    BY <1>2, <1>3, <1>11 DEF NextKeys
  <2> QED BY <1>1, <1>2, <1>4, <1>5, <1>9, <1>10, <1>11, <2>1 DEF Open
<1>12. CASE k.pc \in {"token", "tokens"}
  <2>1. PICK t : key = <<"token", t>>
    BY <1>2, <1>3, <1>12 DEF NextKeys, TokenKeys
  <2> QED BY <1>1, <1>2, <1>4, <1>5, <1>6, <1>7, <1>9, <1>10, <1>12, <2>1 DEF Open
<1>13. CASE k.pc \in {"family", "upsert", "families"}
  <2>1. PICK f : key = <<"family", f>>
    BY <1>2, <1>3, <1>13 DEF NextKeys, FamilyKeys
  <2> QED BY <1>1, <1>2, <1>4, <1>5, <1>9, <1>10, <1>13, <2>1 DEF Open
<1>14. CASE k.pc = "code"
  <2>1. PICK x : key = <<"code", x>>
    BY <1>2, <1>3, <1>14 DEF NextKeys, CodeKeys
  <2> QED BY <1>1, <1>2, <1>4, <1>5, <1>9, <1>10, <1>14, <2>1 DEF Open
<1>15. CASE k.pc = "codes"
  <2>1. (\E x : key = <<"code", x>>) \/ (\E j : key = <<"jti", j>>)
    BY <1>2, <1>3, <1>15 DEF NextKeys, CodeKeys, JtiKeys
  <2>2. l.pc = "commit"
    BY <1>2, <1>4, <1>5, <1>6, <1>7, <1>8, <1>15, <2>1
  <2> QED BY <1>1, <1>4, <1>9, <1>10, <1>15, <2>2 DEF Open
<1>16. k.pc \in {"meta", "token", "tokens", "family", "upsert", "families", "code", "codes"}
  BY <1>2, <1>3 DEF NextKeys
<1> QED BY <1>11, <1>12, <1>13, <1>14, <1>15, <1>16

\* Of several transactions one is nearest its end.
LEMMA NearestRank ==
  ASSUME NEW S, S # {}
  PROVE  \E c \in S : \A d \in S : ~(Rank(d) < Rank(c))
<1>1. \A c : Rank(c) \in 0..3
  BY DEF Rank
<1> HIDE DEF Rank
<1>2. CASE \E c \in S : Rank(c) = 0
  BY <1>1, <1>2
<1>3. CASE (\A c \in S : Rank(c) # 0) /\ \E c \in S : Rank(c) = 1
  BY <1>1, <1>3
<1>4. CASE (\A c \in S : Rank(c) \notin {0, 1}) /\ \E c \in S : Rank(c) = 2
  BY <1>1, <1>4
<1>5. CASE \A c \in S : Rank(c) \notin {0, 1, 2}
  BY <1>1, <1>5
<1> QED BY <1>2, <1>3, <1>4, <1>5

\* In its cascade a sweep waits for tokens of families saved meanwhile only.
LEMMA CascadeUnblocked ==
  ASSUME MysqlInv, NEW c \in Conns, conns[c].pc = "cascade", ~MetNewborn(c)
  PROVE  Blockers(c) = {}
<1>1. PICK k : k = conns[c]
  OBVIOUS
<1>2. ArgsOK(c) /\ HoldsOK(c) /\ SeenOK(c)
  BY Before
<1>3. k.op = "sweep"
  <2>1. Idle.pc = "idle"
    BY DEF Idle
  <2> QED BY <1>1, <1>2, <2>1 DEF ArgsOK, HoldsOK
<1>4. \A t \in TheirTokens(c) : <<"token", t>> \in k.locks
  <2> SUFFICES ASSUME NEW t \in DOMAIN refreshTokens,
                      <<"family", refreshTokens[t].family>> \in k.doomed,
                      <<"token", t>> \notin k.doomed
               PROVE  FALSE
    BY <1>1, <1>2 DEF TheirTokens, HoldsOK
  <2>1. refreshTokens[t].family \in DOMAIN families
    BY DEF MysqlInv, RowsOK, RowsMatchFamily
  <2>2. refreshTokens[t].family \notin k.seen.present
    BY <1>1, <1>2, <1>3 DEF SeenOK, SweepSeen
  <2> QED BY <1>1, <1>3, <2>1, <2>2 DEF MetNewborn, Sweeps
<1>5. NextKeys(c) \subseteq k.locks
  BY <1>1, <1>4 DEF NextKeys, TokenKeys
<1>6. \A d \in Conns \ {c} : conns[d].locks \cap k.locks = {}
  BY <1>1 DEF MysqlInv, LocksOK
<1> QED BY <1>5, <1>6 DEF Blockers

\* No transactions wait for each other, unless a sweep among them met a family
\* saved meanwhile: watermark, codes, tokens and families are named in this
\* order by every operation, the two sweeps of two replicas included, which meet
\* at the watermark (src/store/mysql*.ts).
THEOREM MysqlDeadlockFree == MysqlSpec => []NoDeadlock
<1>1. ASSUME MysqlInv
      PROVE  NoDeadlock
  <2> SUFFICES ASSUME NEW S \in SUBSET {c \in Conns : ~MetNewborn(c)}, \E c \in S : Open(c)
               PROVE  \E c \in S : Open(c) /\ Blockers(c) \cap S = {}
    BY DEF NoDeadlock, Stuck
  <2>1. CASE \E c \in S : conns[c].pc = "cascade"
    BY <1>1, <2>1, CascadeUnblocked DEF Open
  <2>2. CASE \A c \in S : conns[c].pc # "cascade"
    <3>1. PICK c \in {d \in S : Open(d)} : \A d \in {e \in S : Open(e)} : ~(Rank(d) < Rank(c))
      BY NearestRank
    <3>2. ASSUME NEW d \in Blockers(c), d \in S
          PROVE  FALSE
      BY <1>1, <2>2, <3>1, <3>2, BlockersNearer
    <3> QED BY <3>1, <3>2
  <2> QED BY <2>1, <2>2
<1> QED BY <1>1, MysqlInvariant, PTL

\* The statements of each operation, COMMIT included.
Calls == {"rotate", "save", "revoke", "consume", "jti", "consent", "sweep"}

Statements ==
  {<<"rotate", "token">>, <<"rotate", "family">>, <<"save", "upsert">>, <<"revoke", "family">>,
   <<"consume", "code">>, <<"jti", "meta">>, <<"consent", "meta">>,
   <<"sweep", "meta">>, <<"sweep", "codes">>, <<"sweep", "select">>, <<"sweep", "tokens">>,
   <<"sweep", "families">>, <<"sweep", "cascade">>}
  \cup (Calls \X {"commit"})

\* What the guard of a statement asks for, whatever rows of its table it names.
MayGoOn(c) ==
  /\ <<conns[c].op, conns[c].pc>> \in Statements
  /\ \A keys \in SUBSET NextKeys(c) : Unlocked(c, keys)

UnblockedGoOn == \A c \in Conns : Open(c) /\ Blockers(c) = {} => MayGoOn(c)

\* Nothing but rows is waited for: an open transaction is always at a statement
\* of its operation, never at a point where the code needs a second connection
\* or an answer, and one that nobody blocks finds every row of the statement's
\* table free (src/store/mysql*.ts).
THEOREM MysqlUnblocked == MysqlSpec => []UnblockedGoOn
<1>1. ASSUME MysqlInv, NEW c \in Conns, Open(c), Blockers(c) = {}
      PROVE  MayGoOn(c)
  <2>1. PICK k : k = conns[c]
    OBVIOUS
  <2>2. ArgsOK(c) /\ HoldsOK(c)
    BY <1>1, Before
  <2>3. k.pc # "idle" /\ Idle.pc = "idle"
    BY <1>1, <2>1 DEF Open, Idle
  <2>4. k.op \in Calls
    BY <2>1, <2>2, <2>3 DEF ArgsOK, Calls
  <2>5. <<k.op, k.pc>> \in Statements
    <3>1. \/ k.pc = "commit"
          \/ k.op = "rotate" /\ k.pc \in {"token", "family"}
          \/ k.op = "save" /\ k.pc = "upsert"
          \/ k.op = "revoke" /\ k.pc = "family"
          \/ k.op = "consume" /\ k.pc = "code"
          \/ k.op \in {"jti", "consent"} /\ k.pc = "meta"
          \/ /\ k.op = "sweep"
             /\ k.pc \in {"meta", "codes", "select", "tokens", "families", "cascade"}
      BY <2>1, <2>2, <2>4 DEF HoldsOK, Calls
    <3> QED BY <2>4, <3>1 DEF Statements
  <2>6. \A d \in Conns \ {c} : conns[d].locks \cap NextKeys(c) = {}
    BY <1>1 DEF Blockers
  <2>7. ASSUME NEW keys \in SUBSET NextKeys(c)
        PROVE  Unlocked(c, keys)
    BY <2>6 DEF Unlocked
  <2> QED BY <2>1, <2>5, <2>7 DEF MayGoOn
<1>2. MysqlInv => UnblockedGoOn
  BY <1>1 DEF UnblockedGoOn
<1> QED BY <1>2, MysqlInvariant, PTL
=============================================================================
