----------------------------- MODULE MysqlStore -----------------------------
(***************************************************************************)
(* MysqlStore: each operation of Store is a READ COMMITTED transaction of  *)
(* several statements over a pool of connections (src/store/mysql*.ts).    *)
(*                                                                         *)
(* The variables of Store hold the committed rows.  A transaction locks    *)
(* rows as its statements name them, decides from what it read, and its    *)
(* writes appear when it commits, which is also when it lets go of every   *)
(* lock.  SELECT ... FOR UPDATE, UPDATE and DELETE wait for a row another  *)
(* transaction has locked and then see what that one committed; a plain    *)
(* SELECT neither waits nor locks.  MySQL itself is external.              *)
(*                                                                         *)
(* Row keys a caller has just generated at random are new to the database: *)
(* nobody waits for them, and the statement that inserts them is the one   *)
(* before COMMIT.  Single statements on such keys are actions of Store.    *)
(***************************************************************************)
EXTENDS Store, ExpiryLifecycle

CONSTANTS
  Conns,     \* the pool's connections
  Ttl,       \* lifetime of refresh tokens and codes
  Skew,      \* how far a caller's reading may lag the time: offset and stall
  Lag        \* MYSQL_EXPIRY_REPLICA_SKEW_MS; 0 for sweeps by hand

ASSUME MysqlAssumption == Ttl \in Nat \ {0} /\ Skew \in Nat /\ Lag \in Nat

VARIABLES
  time,      \* the fastest clock
  conns      \* connection -> its transaction

mysqlVars == <<storeVars, expiryVars, time, conns>>

Meta == <<"meta", 0>>
TokenKeys(S) == {<<"token", t>> : t \in S}
FamilyKeys(S) == {<<"family", f>> : f \in S}
CodeKeys(S) == {<<"code", k>> : k \in S}
JtiKeys(S) == {<<"jti", j>> : j \in S}

RowKeys(tokens, fams, codes, jtis) ==
  TokenKeys(tokens) \cup FamilyKeys(fams) \cup CodeKeys(codes) \cup JtiKeys(jtis)

Stored == RowKeys(DOMAIN refreshTokens, DOMAIN families, DOMAIN authCodes, DOMAIN consentJtis)

\* fresh: keys the caller generated.  seen: what the statements so far read.
\* doomed: rows deleted, not yet committed.
Idle == [op |-> "none", pc |-> "idle", args |-> None, fresh |-> {}, locks |-> {},
         seen |-> None, doomed |-> {}]

SetConn(c, record) == conns' = [conns EXCEPT ![c] = record]

Unlocked(c, keys) == \A d \in Conns \ {c} : conns[d].locks \cap keys = {}

Fresh(keys) == keys \cap Stored = {} /\ \A c \in Conns : conns[c].fresh \cap keys = {}

\* What some caller's clock may read now.
Readings == {t \in Times : t <= time /\ time <= t + Skew}

Begin(c, op, pc, args, fresh) ==
  /\ conns[c] = Idle
  /\ \E s \in Stores : expiry[s].ready /\ ~expiry[s].closed
  /\ Fresh(fresh)
  /\ SetConn(c, [Idle EXCEPT !.op = op, !.pc = pc, !.args = args, !.fresh = fresh])
  /\ UNCHANGED <<storeVars, expiryVars, time>>

\* One statement: it waits for the keys, holds the rows it found or inserted
\* (READ COMMITTED locks no gaps) and reads.
Lock(c, keys, pc, seen) ==
  /\ Unlocked(c, keys)
  /\ SetConn(c, [conns[c] EXCEPT !.pc = pc, !.seen = seen,
                   !.locks = @ \cup (keys \cap (Stored \cup conns[c].fresh \cup {Meta}))])
  /\ UNCHANGED <<storeVars, expiryVars, time>>

\* A DELETE: it waits for the keys and holds the rows it removes.
Delete(c, keys, pc, seen) ==
  /\ Unlocked(c, keys)
  /\ SetConn(c, [conns[c] EXCEPT !.pc = pc, !.seen = seen,
                   !.locks = @ \cup (keys \cap Stored),
                   !.doomed = @ \cup (keys \cap Stored)])
  /\ UNCHANGED <<storeVars, expiryVars, time>>

-----------------------------------------------------------------------------
(* Refresh tokens *)

BeginRotate(c) ==
  \E t, s \in Tokens, generation \in Generations, resource \in Resources, now \in Readings :
     /\ t # s
     /\ now + Ttl \in Times
     /\ \E f \in Families :
          Begin(c, "rotate", "token",
                [token |-> t, now |-> now, generation |-> generation, resource |-> resource,
                 next |-> [token |-> s, family |-> f, expiresAt |-> now + Ttl, grant |-> None]],
                TokenKeys({s}))

\* A slip: the join is not read FOR UPDATE.
MutRotateLocks(keys) == {}

RotateLocks(keys) == keys

NoRow == [verdict |-> "none", row |-> None]

\* SELECT ... JOIN ... FOR UPDATE, the token's row first.
LockToken(c) ==
  LET t == conns[c].args.token IN
  /\ conns[c].op = "rotate" /\ conns[c].pc = "token"
  /\ IF t \in DOMAIN refreshTokens
     THEN Lock(c, RotateLocks(TokenKeys({t})), "family", None)
     ELSE Lock(c, TokenKeys({t}), "commit", NoRow)

Verdict(args) ==
  IF Rotates(args.token, args.next, args.now, args.generation, args.resource) THEN "rotated"
  ELSE IF IsReplay(args.token, args.generation, args.resource) THEN "replayed" ELSE "none"

LockFamily(c) ==
  LET args == conns[c].args IN
  /\ conns[c].op = "rotate" /\ conns[c].pc = "family"
  /\ IF args.token \in DOMAIN refreshTokens
     THEN Lock(c, RotateLocks(FamilyKeys({refreshTokens[args.token].family})), "commit",
               [verdict |-> Verdict(args), row |-> refreshTokens[args.token]])
     ELSE Lock(c, {}, "commit", NoRow)

BeginSave(c) ==
  \E t \in Tokens, f \in Families, grant \in Grants, resource \in Resources,
     generation \in Generations, now \in Readings :
     /\ now + Ttl \in Times
     /\ Begin(c, "save", "upsert",
              [token |-> t, now |-> now,
               row |-> RootRow(f, grant, resource, generation, now + Ttl)],
              TokenKeys({t}) \cup FamilyKeys({f}))

\* INSERT ... ON DUPLICATE KEY: the family's row, new and uncommitted, is
\* locked; the comparison that follows reads it back.
UpsertFamily(c) ==
  /\ conns[c].op = "save" /\ conns[c].pc = "upsert"
  /\ Lock(c, FamilyKeys({conns[c].args.row.family}), "commit", None)

BeginRevoke(c) ==
  \E args \in [family : Families, resource : Resources \cup {None}] :
     Begin(c, "revoke", "family", args, {})

LockRevoked(c) ==
  /\ conns[c].op = "revoke" /\ conns[c].pc = "family"
  /\ LET args == conns[c].args IN
     Lock(c, FamilyKeys({args.family}), "commit",
          [revokes |-> /\ args.family \in DOMAIN families
                       /\ args.resource # None => families[args.family].resource = args.resource])

-----------------------------------------------------------------------------
(* Codes and consents *)

BeginConsume(c) ==
  \E k \in Codes, resource \in Resources \cup {None}, generation \in Generations, now \in Readings :
     Begin(c, "consume", "code",
           [code |-> k, resource |-> resource, generation |-> generation, now |-> now], {})

\* SELECT ... FOR UPDATE, the checks, and the DELETE of that row.
LockCode(c) ==
  LET args == conns[c].args
      seen == [answer |-> ConsumeAuthCodeAnswer(args.code, args.now, args.generation,
                                                args.resource)]
  IN /\ conns[c].op = "consume" /\ conns[c].pc = "code"
     /\ IF WrongResource(args.code, args.resource)
        THEN Lock(c, CodeKeys({args.code}), "commit", seen)
        ELSE Delete(c, CodeKeys({args.code}), "commit", seen)

BeginJti(c) ==
  \E args \in [jti : Jtis] : Begin(c, "jti", "meta", args, {})

BeginConsent(c) ==
  \E j \in Jtis, instance \in 1..storeInstanceId, k \in Codes, grant \in Grants,
     binding \in Bindings, resource \in Resources, generation \in Generations, now \in Readings :
     /\ now + Ttl \in Times
     /\ Begin(c, "consent", "meta",
              [jti |-> j, now |-> now, instance |-> instance, code |-> k,
               record |-> [grant |-> grant, binding |-> binding, resource |-> resource,
                           generation |-> generation, expiresAt |-> now + Ttl]],
              CodeKeys({k}))

MetaLocks == {Meta}

\* Every reader of the watermark locks its row until it commits, so the JTI's
\* INSERT finds a duplicate exactly when a committed row holds it.
LockMeta(c) ==
  LET args == conns[c].args IN
  /\ conns[c].op \in {"jti", "consent"} /\ conns[c].pc = "meta"
  /\ Lock(c, MetaLocks, "commit",
          [verdict |-> IF conns[c].op = "jti"
                       THEN IF ConsumeConsentJtiAnswer(args.jti, JtiExpiry[args.jti])
                            THEN "new" ELSE "replayed"
                       ELSE CommitConsentAnswer(args.instance, args.jti, JtiExpiry[args.jti])])

\* One UPDATE in a transaction of its own.
RotateInstance ==
  /\ \A c \in Conns : Meta \notin conns[c].locks
  /\ RotateStoreInstanceId
  /\ UNCHANGED <<expiryVars, time, conns>>

-----------------------------------------------------------------------------
(* The sweep *)

SweepTime(reading) == IF reading < Lag THEN 0 ELSE reading - Lag

OwnsSweep(s, c) == conns[c].op = "sweep" /\ conns[c].args.store = s

BeginSweep(c) ==
  \E s \in Stores, reading \in Readings :
     /\ expiry[s].sweeping
     /\ \A d \in Conns : ~OwnsSweep(s, d)
     /\ Begin(c, "sweep", "meta", [store |-> s, now |-> SweepTime(reading)], {})

Sweeps(c, pc) == conns[c].op = "sweep" /\ conns[c].pc = pc

SweepMeta(c) == Sweeps(c, "meta") /\ Lock(c, MetaLocks, "codes", None)

\* Two DELETEs; nobody else is at a JTI while the watermark is locked.
SweepCodes(c) ==
  LET now == conns[c].args.now IN
  /\ Sweeps(c, "codes")
  /\ Delete(c, CodeKeys({k \in DOMAIN authCodes : authCodes[k].expiresAt < now})
                \cup JtiKeys({j \in DOMAIN consentJtis : consentJtis[j] < now}),
            "select", None)

DeadTokens(now) == DOMAIN refreshTokens \ RetainedTokens(now)

\* The first half of the two-step delete reads and locks nothing.
SelectDead(c) ==
  /\ Sweeps(c, "select")
  /\ SetConn(c, [conns[c] EXCEPT !.pc = "tokens",
                                 !.seen = [dead |-> DeadTokens(conns[c].args.now)]])
  /\ UNCHANGED <<storeVars, expiryVars, time>>

\* DELETE ... IN (?): row by row, waiting where a rotation holds one.
DeleteDead(c) ==
  /\ Sweeps(c, "tokens")
  /\ \E t \in conns[c].seen.dead :
       Delete(c, TokenKeys({t} \cap DOMAIN refreshTokens), "tokens",
              [dead |-> conns[c].seen.dead \ {t}])

Surviving(c) == {t \in DOMAIN refreshTokens : <<"token", t>> \notin conns[c].doomed}

\* The families' DELETE begins: its subquery lists the families with tokens.
ScanFamilies(c) ==
  /\ Sweeps(c, "tokens")
  /\ conns[c].seen.dead = {}
  /\ SetConn(c, [conns[c] EXCEPT !.pc = "families",
                                 !.seen = [present |-> DOMAIN families]])
  /\ UNCHANGED <<storeVars, expiryVars, time>>

FamiliesOf(S) == {refreshTokens[t].family : t \in S}

\* It waits for every row it meets.  A family saved after the list was made may
\* be met or not, and when it is met the list does not know it.
DeleteFamilies(c) ==
  LET present == conns[c].seen.present IN
  /\ Sweeps(c, "families")
  /\ Unlocked(c, FamilyKeys(DOMAIN families))
  /\ \E met \in SUBSET (DOMAIN families \ present) :
       Delete(c, FamilyKeys((present \ FamiliesOf(Surviving(c))) \cup met), "cascade",
              conns[c].seen)

TheirTokens(c) ==
  {t \in DOMAIN refreshTokens : <<"family", refreshTokens[t].family>> \in conns[c].doomed}

\* ON DELETE CASCADE: the tokens such a family has go with it, and are waited for
\* while the family's row is held.
CascadeTokens(c) ==
  /\ Sweeps(c, "cascade")
  /\ Delete(c, TokenKeys(TheirTokens(c)), "commit", conns[c].seen)

-----------------------------------------------------------------------------
(* COMMIT, ROLLBACK and time *)

KeptRows(f, kind, doomed) == Restrict(f, {x \in DOMAIN f : <<kind, x>> \notin doomed})

\* UPDATE consumed_at after the successor's INSERT, or revokeFamily.
CommitRotate(c) ==
  LET args == conns[c].args
      seen == conns[c].seen
  IN /\ conns[c].op = "rotate"
     /\ refreshTokens' =
          IF seen.verdict # "rotated" THEN refreshTokens
          ELSE Put([t \in DOMAIN refreshTokens |->
                      [refreshTokens[t] EXCEPT !.consumed = @ \/ t = args.token]],
                   args.next.token,
                   [seen.row EXCEPT !.previous = args.token, !.consumed = FALSE,
                                    !.expiresAt = args.next.expiresAt])
     /\ families' = IF seen.verdict = "replayed" THEN RevokeFamilyRow(seen.row.family)
                    ELSE families
     /\ UNCHANGED <<authCodes, consentRows, sweptThrough>>

CommitSave(c) ==
  /\ conns[c].op = "save"
  /\ InsertToken(conns[c].args.token, conns[c].args.row)
  /\ UNCHANGED <<authCodes, consentRows, sweptThrough>>

CommitRevoke(c) ==
  /\ conns[c].op = "revoke"
  /\ families' = IF conns[c].seen.revokes THEN RevokeFamilyRow(conns[c].args.family)
                 ELSE families
  /\ UNCHANGED <<authCodes, refreshTokens, consentRows, sweptThrough>>

CommitJti(c) ==
  LET args == conns[c].args
      verdict == conns[c].seen.verdict
  IN /\ conns[c].op \in {"jti", "consent"}
     /\ IF verdict \in {"new", "stored"}
        THEN /\ consentJtis' = Put(consentJtis, args.jti, JtiExpiry[args.jti])
             /\ spentJtis' = spentJtis \cup {args.jti}
        ELSE UNCHANGED consentRows
     /\ authCodes' = IF verdict = "stored" THEN Put(authCodes, args.code, args.record)
                     ELSE authCodes
     /\ UNCHANGED <<tokenRows, sweptThrough>>

CommitDeletes(c) ==
  LET doomed == conns[c].doomed IN
  /\ conns[c].op \in {"consume", "sweep"}
  /\ refreshTokens' = KeptRows(refreshTokens, "token", doomed)
  /\ families' = KeptRows(families, "family", doomed)
  /\ authCodes' = KeptRows(authCodes, "code", doomed)
  /\ consentJtis' = KeptRows(consentJtis, "jti", doomed)
  /\ sweptThrough' = IF conns[c].op = "sweep" THEN SweptThrough(conns[c].args.now)
                     ELSE sweptThrough
  /\ UNCHANGED spentJtis

\* The scheduler hears of its sweep.
Settle(c, failed) ==
  IF conns[c].op = "sweep"
  THEN LET before == expiry[conns[c].args.store] IN
       SetExpiry(conns[c].args.store,
                 IF failed THEN AfterFailedSweep(before) ELSE AfterSweep(before))
  ELSE UNCHANGED expiry

\* COMMIT, whether or not its answer reaches the caller.
CommitTransaction(c) ==
  /\ conns[c].pc = "commit"
  /\ \/ CommitRotate(c) \/ CommitSave(c) \/ CommitRevoke(c) \/ CommitJti(c) \/ CommitDeletes(c)
  /\ SetConn(c, Idle)
  /\ Settle(c, FALSE)
  /\ UNCHANGED <<storeInstanceId, time>>

\* A slip: the connection goes back to the pool with its transaction open.
MutRolledBack(record) == [Idle EXCEPT !.locks = record.locks]

RolledBack(record) == Idle

\* A statement or COMMIT fails, or the connection or the process is lost.
Fail(c) ==
  /\ conns[c] # Idle
  /\ SetConn(c, RolledBack(conns[c]))
  /\ Settle(c, TRUE)
  /\ UNCHANGED <<storeVars, time>>

\* run() fails before it has a connection: an invalid clock, no connection.
SweepNotBegun(s) ==
  /\ expiry[s].sweeping
  /\ \A c \in Conns : ~OwnsSweep(s, c)
  /\ SetExpiry(s, AfterFailedSweep(expiry[s]))
  /\ UNCHANGED <<storeVars, time, conns>>

\* A caller commits before its reading is older than Skew.
Tick ==
  /\ time + 1 \in Times
  /\ \A c \in Conns : conns[c].op \in {"rotate", "save", "consume", "consent"}
                       => time < conns[c].args.now + Skew
  /\ time' = time + 1
  /\ UNCHANGED <<storeVars, expiryVars, conns>>

-----------------------------------------------------------------------------
MysqlInit ==
  /\ StoreInit /\ ExpiryInit
  /\ time = 0
  /\ conns = [c \in Conns |-> Idle]

BeginCall(c) ==
  \/ BeginRotate(c) \/ BeginSave(c) \/ BeginRevoke(c)
  \/ BeginConsume(c) \/ BeginJti(c) \/ BeginConsent(c)

Statement(c) ==
  \/ LockToken(c) \/ LockFamily(c) \/ UpsertFamily(c) \/ LockRevoked(c)
  \/ LockCode(c) \/ LockMeta(c)
  \/ SweepMeta(c) \/ SweepCodes(c) \/ SelectDead(c) \/ DeleteDead(c)
  \/ ScanFamilies(c) \/ DeleteFamilies(c) \/ CascadeTokens(c)
  \/ CommitTransaction(c)

MysqlNext ==
  \/ \E c \in Conns : BeginCall(c) \/ BeginSweep(c) \/ Statement(c) \/ Fail(c)
  \/ \E s \in Stores : SweepNotBegun(s)
  \/ (\E s \in Stores : LifecycleStep(s)) /\ UNCHANGED <<storeVars, time, conns>>
  \/ RotateInstance
  \/ Tick

MysqlSpec == MysqlInit /\ [][MysqlNext]_mysqlVars

-----------------------------------------------------------------------------
\* The store's sweep, less families that were saved while it ran.
SweepLosing(now, lost) ==
  LET retained == {t \in RetainedTokens(now) : refreshTokens[t].family \notin lost} IN
  /\ sweptThrough' = SweptThrough(now)
  /\ authCodes' = Restrict(authCodes, {c \in DOMAIN authCodes : authCodes[c].expiresAt >= now})
  /\ consentJtis' = Restrict(consentJtis, {j \in DOMAIN consentJtis : consentJtis[j] >= now})
  /\ refreshTokens' = Restrict(refreshTokens, retained)
  /\ families' = Restrict(families, FamiliesOf(retained))

StoreOperation(c) ==
  LET args == conns[c].args IN
  CASE conns[c].op = "rotate" ->
         RotateRefreshToken(args.token, args.next, args.now, args.generation, args.resource)
    [] conns[c].op = "save" -> SaveRefreshToken(args.token, args.row)
    [] conns[c].op = "revoke" -> RevokeRefreshTokenFamily(args.family, args.resource)
    [] conns[c].op = "consume" -> ConsumeAuthCode(args.code, args.resource)
    [] conns[c].op = "jti" -> ConsumeConsentJti(args.jti, JtiExpiry[args.jti])
    [] conns[c].op = "consent" ->
         CommitConsentApproval(args.instance, args.jti, JtiExpiry[args.jti], args.code, args.record)
    [] conns[c].op = "sweep" ->
         \E lost \in SUBSET (DOMAIN families \ conns[c].seen.present) : SweepLosing(args.now, lost)

\* The answer is Store's, at the moment of the commit.  A row that was missing
\* could not be locked and may have been stored since.
StoreAnswer(c) ==
  LET args == conns[c].args
      seen == conns[c].seen
  IN CASE conns[c].op = "rotate" -> seen.row # None =>
            /\ seen.verdict = Verdict(args)
            /\ seen.row = FindRefreshToken(args.token)
       [] conns[c].op = "consume" -> seen.answer # None =>
            seen.answer = ConsumeAuthCodeAnswer(args.code, args.now, args.generation, args.resource)
       [] conns[c].op = "jti" ->
            (seen.verdict = "new") = ConsumeConsentJtiAnswer(args.jti, JtiExpiry[args.jti])
       [] conns[c].op = "consent" ->
            seen.verdict = CommitConsentAnswer(args.instance, args.jti, JtiExpiry[args.jti])
       [] OTHER -> TRUE

\* Several statements, one operation: a transaction that commits answers, and
\* did to the rows, what Store does in one step, although others committed
\* between its reads and its writes.  One thing escapes: the families' DELETE
\* may take, with its tokens, a family saved after its subquery was read.
CommitsAreStoreOperations ==
  [][\A c \in Conns :
       conns[c].pc = "commit" /\ <<CommitTransaction(c)>>_mysqlVars
       => StoreAnswer(c) /\ (storeVars' # storeVars => StoreOperation(c))]_mysqlVars

Open(c) == conns[c].pc # "idle"

\* The rows of which c's next statement may wait for some.
NextKeys(c) ==
  LET pc == conns[c].pc IN
  CASE pc = "meta" -> {Meta}
    [] pc \in {"token", "tokens"} -> TokenKeys(Tokens)
    [] pc \in {"family", "upsert", "families"} -> FamilyKeys(Families)
    [] pc = "cascade" -> TokenKeys(TheirTokens(c))
    [] pc = "code" -> CodeKeys(Codes)
    [] pc = "codes" -> CodeKeys(Codes) \cup JtiKeys(Jtis)
    [] OTHER -> {}

Blockers(c) == {d \in Conns \ {c} : conns[d].locks \cap NextKeys(c) # {}}

\* Transactions that wait for each other, each for another of them.
Stuck(S) ==
  /\ \E c \in S : Open(c)
  /\ \A c \in S : Open(c) => Blockers(c) \cap S # {}

\* The sweep's families' DELETE is at a family that was saved after its list was
\* made, and at that family's tokens.
MetNewborn(c) ==
  /\ Sweeps(c, "cascade")
  /\ \E f \in DOMAIN families \ conns[c].seen.present : <<"family", f>> \in conns[c].doomed

\* No deadlock but for one: however many transactions are open, some of them
\* wait for each other only if a sweep among them met a family saved meanwhile.
\* Otherwise rows are named in one order: watermark, codes, tokens, families.
NoDeadlock == \A S \in SUBSET {c \in Conns : ~MetNewborn(c)} : ~Stuck(S)

\* A store that was started keeps collecting, after failed sweeps too, until it
\* is stopped; once close() has returned, no sweep of it is in flight in the
\* database and no timer is left to start one.
CollectsUntilClosed ==
  \A s \in Stores :
    /\ expiry[s].started /\ ~expiry[s].stopped => expiry[s].timer \/ expiry[s].sweeping
    /\ expiry[s].closed => /\ ~expiry[s].sweeping /\ ~expiry[s].timer
                           /\ \A c \in Conns : ~OwnsSweep(s, c)
=============================================================================
