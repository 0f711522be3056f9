# Formal model of mcp-sso

TLA+ modules, TLC configurations and TLAPS proofs about `mcp-sso`, a TypeScript library that
puts an OAuth 2.1 authorization server ("bridge") and a resource-server verifier in front of an
MCP server. Identity comes from an upstream IdP or a console pairing code; the bridge issues
authorization codes, access JWTs and rotating refresh tokens over a pluggable store.

Source paths below are relative to `src/src/`. `PROJECT.json` maps each definition to the lines
it stands for, each property to the hazards it is aimed at, and each run to its properties.

## The system: inventory

| Component | State | Operations | What makes it correct |
|---|---|---|---|
| **StorePort** (`store/memory.ts`, `store/sqlite*.ts`, `store/mysql*.ts`, `ports/store.ts`) | authorization codes, refresh-token rows and family rows, consent JTIs, sweep watermark, store identity | `commitConsentApproval`, `consumeConsentJti`, `saveAuthCode`, `consumeAuthCode`, `saveRefreshToken`, `rotateRefreshToken`, `revokeRefreshTokenFamily`, `findRefreshToken`, `findGrantedScopes`, `sweepExpired`, `rotateStoreInstanceId` | a code and a JTI are spent once; a family has one live token and a replay kills it; a sweep never forgets what still protects something |
| **MySQL store** (`store/mysql*.ts`) | the same, behind row locks and a pool | the same, as transactions of several statements | each commit is the operation it stands for; no deadlock but one |
| **Schemas and opening** (`store/sqlite-open.ts`, `*-schema.ts`, `mysql-instance.ts`) | the schema, the store identity | open, migrate | every deployed schema comes up, once, beside other replicas |
| **Expiry lifecycle** (`store/expiry-*.ts`) | timers, the active sweep | ready, start, tick, close | sweeps do not overlap; collection neither stops early nor outlives close |
| **Token use case** (`token.ts`, `token-revoke.ts`, `port-result.ts`) | none but the requests in flight | code exchange, refresh, revoke, client credentials | single use end to end, although store calls fail, requests race and the process dies |
| **Authorization use case** (`authorize.ts`, `authorize-internals.ts`) | none but signed consent tokens held by browsers | `prepare`, `approve` | one code per consent, never beyond the signed ceiling, sent where policy allows |
| **CIMD resolver** (`cimd/*`) | LRU cache, in-flight table, waiter count, last clock reading | `resolve` | one fetch per client id at a time, bounded waiters, no stale or never-ending answer |
| **Console pairing** (`identity/console-pairing.ts`, `adapters/pairing-flow.ts`) | the active code, its attempt counter, the generation in flight | begin, render, submit | a printed code stays good until spent; guesses are capped |
| **Upstream redirect flow** (`adapters/upstream-flow*.ts`) | signed cookie; flow JTIs in the consent registry | start, callback, completion | the flow JTI is spent before the IdP exchange; nothing survives a replayed callback |
| **Machine clients** (`machine-client*.ts`, `ports/client-store.ts`) | versioned records with current and grace secrets | create, rotate, disable, authenticate | compare-and-swap: no lost update; a disabled client never authenticates |
| **Client registration and redirect policies** (`register.ts`, `redirect*.ts`, `stored-dcr-generation.ts`) | registered clients | register, find, match | a process trusts what its own configuration trusts, whatever an earlier one let through |
| **Rate limits** (`rate-limit/redis.ts`, adapters) | windows | consume | counts once per request, outage policy |
| **Audit sinks** (`audit/*`) | append queue, file size, disabled flag | emit, close | no half-written line stays in the file; every event settles |
| **Quickstart and CLI** (`quickstart*.ts`, `state-dir.ts`, `bin/*`) | the state directory and its `secrets.json`, a scaffolded project | boot, `mcp-sso init` | racing boots agree on one key; a scaffold is whole or absent |
| **Verifier, identity providers, configuration, adapters, crypto** | none after boot | | stateless checks; not modelled |

Interactions. The HTTP adapters hand normalised requests to the bridge (`adapters/bridge.ts`),
which calls a use case; the use cases call each other only through the store and through signed
tokens. Everything is single-threaded JavaScript: code between two `await`s is atomic, and every
`await` of a port is a point where other requests, timers and sweeps run. Several replicas may
share a database, so store operations of different processes interleave and their clocks
disagree. Before it serves, a process prepares its keys, opens the store, and may do both beside
another process of the same deployment.

What is hard here, and hard to test: races at every `await` (two exchanges of one code, two
refreshes of one token, two approvals of one consent); a store call whose effect happened but
whose answer was lost; compensation that itself fails; sweeps by a clock that runs fast, slow or
backward against tombstones that must outlive what they protect; transactions whose statements
interleave; a database restored from a backup; scopes that accumulate over approvals; shared
fetches and generations and their late followers; file appends interrupted half-way; two first
boots in one directory, or two replicas that migrate one database. `PROJECT.json` lists each
hazard at its line.

## Modules

| Module | Models | Remarks |
|---|---|---|
| `Store` | `StorePort` with the semantics of `MemoryStore` | One action per operation. `SqliteStore` does the same checks in the same order inside `BEGIN IMMEDIATE`, so one atomic action stands for either. What an operation answers is a state function beside its action (`ConsumeAuthCodeAnswer` and `ConsumeAuthCode`), so that the use cases can compose them. |
| `MysqlStore` | the MySQL transactions, statement by statement | Extends `Store`, whose variables hold the committed rows, and `ExpiryLifecycle`. Described below. |
| `ExpiryLifecycle` | who calls `sweepExpired`, and when | One timer per store object, armed again only after its sweep settled; `close()` awaits the sweep. |
| `TokenUseCase` | exchange, refresh, revoke | Extends `Store`. A request is a slot with a program counter; each store call is one step. Failures: a call throws before its effect (`CallThrows`, `RotateThrows`), after it (the last disjuncts of `ConsumeCode`, `SaveFamily`, `RotateToken`), preparation fails (signing, malformed scopes, reserved subject), the process crashes. |
| `TokenLineage` | the promise of refresh rotation | Abstract specification: a family is issued once, its one usable token is replaced by tokens never used before, and once ended it stays ended. |
| `Authorize` | `prepare` and `approve` | Extends `Store`. Steps of `approve`: verify the consent, compare the store identity, read prior scopes, commit. The operator's backup and restore are actions. |
| `Clients` | `register`, the redirect policies, and `approve` with its client gates | Extends `Authorize`. Each request is served by a process of one of `Configs` (allowlist and its mode, stored or stateless registration, CIMD) and keeps it to the end: replicas in the middle of an upgrade, or a deployment restarted with another configuration, share the store. A redirect URI is a record of scheme, host, port and path, in the one spelling the grammar admits. `SettleScopes` and `CommitAt` are the steps of `Authorize` with the configuration as parameter (`ReadPriorAs`, `CommitAs`). |
| `Bridge` | both use cases over one store | Extends both. A code passes from one to the other through the store alone. |
| `UpstreamFlow` | initiation, callback and completion of the redirect flow | Extends `Authorize`: the flow JTI is spent through `Store`, and completion is `prepare`. A browser may present any flow token at any time from any tab, in any number of callbacks; `SpendLost` is a store answer lost after its effect. The provider (`SignIn`, and what `Exchange` accepts) is external: a code answers one login's verifier and nonce, once. Backups are left to `Authorize`: a flow JTI is not bound to the store identity. Rows 1 to 5a of the callback touch no state and are the guard of `Callback`; `onIdentity`, in time or not, is `EndCallback`. |
| `Cimd` | `CimdResolver`, `CimdSuccessCache`, `WaiterCounts`, the deadline of `guarded-fetcher` | A caller's turn from the limiter's answer to its await is one action per branch (`Hit`, `Follow`, `Overload`, `Lead` with the lookup). A fetch settles by an answer, a failure or the deadline; its leader and followers then resume one at a time, in any order and with other callers between them. JavaScript orders those microtasks, so the model allows more than the code does. A clock reading is any time, or `None` where `ClockPort` throws. |
| `MachineClient` | provision, rotate, disable, and what authentication accepts | Calls read the row (`Find`), then compare and swap (`Rotate`, `Disable`, `Conflict`). The store is the deployer's; `Install` is its contract: row and durable audit together or not at all. A secret is named by the commit that installs it. One client, since rows do not interact. |
| `RedisRateLimit` | one key of the Redis fixed-window limiter | The script is atomic; Redis may lose the script cache between EVALSHA and EVAL, a command may fail, and its answer may be lost after its effect. The client is taken to send a command once: one that resends after a reconnection, as ioredis can, may charge a check again. The window may end at any time, which stands for any TTL. The count saturates one above the limit. |
| `ConsolePairing` | `ConsolePairingIdentity` behind its authorize handler | Extends `RedisRateLimit`, the limiter `verify()` awaits. Requests ask for sessions, share a generation in flight, guess and pair, interleaved at every await; the console may fail. |
| `JsonlAudit` | `JsonlFileAudit` | The append queue, short writes and their rollback, the disabled state, rotation, foreign writers, a crash that leaves half a line. |
| `Scaffold` | `mcp-sso init` | Exclusive creates first, then writes, then the removal of what an invocation created when it fails. |
| `Quickstart` | the state directory | `secrets.json` looked for, loaded or generated, and created exclusively, call by call; half of one is refused. |
| `StoreOpening` | opening SQLite and MySQL | A schema is the set of its features; SQLite migrates in one write transaction, MySQL statement by statement. |
| `Boot` | a deployment from its first boot on | Extends the last three and `JsonlAudit`: a process boots from scaffold to serving, ends, and is restarted. |
| `MC*` | instances for TLC | Only values for constants, symmetry sets, and the sum of two parts in `MCClients`. |
| `AuthorizeProofs` | theorems about `Store` and `Authorize` | The lemmas of the store's operations are cited by `BridgeProofs`, `ApprovalProofs` and `MysqlProofs`. |
| `BridgeProofs` | theorems about `TokenUseCase` and `Bridge` | The token use case first, the composition after it. |
| `ApprovalProofs` | theorems about `UpstreamFlow` and `Clients` | What the two add to `Authorize`. |
| `MysqlProofs` | theorems about `MysqlStore`, with `ExpiryLifecycle` under it | The transactions first, then their commits against `Store`, the schedulers, the locks. |
| `CimdProofs`, `MachineClientProofs`, `PairingProofs`, `BootProofs` | theorems about the module so named | `BootProofs` covers `JsonlAudit`, `Scaffold`, `StoreOpening` and `Quickstart` as `Boot` composes them. See "What is proved". |

How state and actions correspond to the code:

* **Digests and signed tokens are opaque values.** SHA-256 and JWT signatures are taken to be
  perfect: a digest is its preimage's name, and a consent token is a record of its claims.
* **Time is a reading.** Every operation that takes a clock takes any member of `Times`. Nothing
  orders two readings, so clocks of replicas disagree and go backward, except within one
  operation where the code compares two of its own readings (`CommitClock`). Only `MysqlStore` has
  a time of its own, because its sweep depends on how far a reading lags (below).
* **Tables are functions with a changing domain** (`Put`, `Restrict`), as the `Map`s of the memory
  store are.
* **History variables** (`spentJtis`, `issued`, `redeemed`, `returned`, `rotatedAway`, `condemned`,
  `lost`, `codeFor`, `sent`, `storedCodes`, `exchanges`, `origin`, `retired`, `spliced`, `charged`,
  and in a cache entry `requestedAt` and `storedAt`) record what happened and never guard what the
  code does, but for freshness of randomly generated values (`FreshTokens`, `FreshFamilies`, `code
  \notin DOMAIN codeFor`). Keys, pairing codes and identities that would not run out in reality are
  used again once nobody holds them, which stands for values that never repeat.
* `minted` is not history: a raw refresh token names its family (`crypto.ts`,
  `parseRefreshFamilyId`), which the compensation relies on.
* In `CondemnedIsDead`, a family is condemned when a revocation or compensation of it returned, or
  when the store, without throwing, refused a token whose rotation had taken effect at the family's
  own bridge.

### MySQL

The database is external; what the model takes from READ COMMITTED is that locking statements wait
for rows another transaction holds and then see what it committed, that plain reads do neither, that
no gap is locked (so an absent row cannot be), and that writes appear and locks fall at COMMIT. A
key the caller has just drawn at random collides with nothing, so single statements on such keys and
pure reads stay actions of `Store`, and the answer for a successor's digest that is stored already
(`isDuplicateEntry`) is not reached. The sweep is its watermark lock, two DELETEs, the unlocked
SELECT of dead tokens with their DELETE row by row, and the families' DELETE, whose subquery is read
at a moment of its own: a family saved meanwhile may be met or not. That DELETE holds the rows of its
families while the foreign keys' cascade waits for the rows of their tokens (`CascadeTokens`). Its
subquery is taken to lock nothing, as plain reads do. A transaction may lose its connection at any
statement. The answers the code gives are computed where it computes them, from
what the statements before read (`seen`), and `CommitsAreStoreOperations` compares them and the rows
with `Store` at the commit.

`Skew` bounds how far a reading used in a transaction lies behind the fastest clock when it commits:
the offset of the replica's clock and the time it stalls. `Lag` is what automatic sweeps subtract
(five minutes, `MYSQL_EXPIRY_REPLICA_SKEW_MS`); a sweep by hand subtracts nothing.

That a lock wait ends is not checked as liveness (a busy row may starve a waiter, and InnoDB times
waits out). `NoDeadlock` says that no set of transactions waits for each other: whichever open ones
one looks at, one of them is blocked by none of the others. The order that makes it so is watermark,
codes and JTIs, tokens, families. `Blockers` names those a statement may have to wait for (it takes
every row of the statement's table, so it errs towards a deadlock). The one statement against the
order is the cascade, from a family to its tokens. It finds tokens only in a family saved after the
subquery read them (`MetNewborn`); a sweep that met one is left out of `NoDeadlock`
(see "Findings" for what it can come to). That nothing but `Blockers` is waited for, so that a
transaction without any can take its next statement, is the theorem `MysqlUnblocked`.

### Boot

The starter keeps keys and a SQLite file in the state directory its scaffold made; a deployment
behind an identity provider takes keys from its environment, with SQLite or MySQL. A new and every
formerly deployed schema is an initial state. A process that dies in the middle of the very first
boot can leave a directory that later boots refuse until the operator acts (a directory without
ignore file, or half a `secrets.json`): the code fails closed there, which is why `BootsServe` is
about runs without faults. Two first boots may also refuse each other for a moment for these
reasons, besides the documented "restart to load it" (`docs/contracts/17`); the supervisor's
restart resolves it, which `BootsServe` shows. A busy timeout is one of the faults. File ownership,
modes, symlinks and schema drift are admitted: those checks refuse what somebody else did.
`Followed` names the modes in which the audit log is followed: its files are none of the boot's, so
following it in one of them loses no interleaving that matters and saves a product of states.

## Runs

| Run | Question | Instance |
|---|---|---|
| `store` | do rows and families agree, does the replay signal survive, is a consent JTI accepted once, whatever the sweeps' clocks? | three tokens of one family, two resources, one code, one JTI that expires at 0, two store identities, clocks `0..2` |
| `token_flow` | are codes and refresh tokens single use although calls fail, requests race and the process dies? Does rotation implement `TokenLineage`? | two requests in flight, one code, three tokens, two families, two clients, store calls may throw |
| `token_bridges_failing_store` | does a request at the wrong bridge leave a family alone when store calls may fail? (expected violation, see "Findings") | one request, two resources |
| `authorize` | one code per consent, under races, sweeps and restored backups? Between processes of different configurations, does `approve` answer only where its own process trusts, and do grants of stateless mode stay out of stored mode? | two parts, by an initial choice. "copied": two consents, two approvals, two store identities, one backup, clocks `0..4`. "configured": four configurations, an opaque and a CIMD client, five redirect URIs, two consents, one approval at a time, one token, one clock |
| `bridge` | do scopes stay within what was consented, and below the ceiling? Does a refresh at the wrong bridge leave every row of the store alone when the store does not fail? | two consents of one or two clients, a ceiling on one, two resources, one request of each use case in flight |
| `upstream` | one exchange and one code per login, for the account that signed in, although callbacks race, replay and lose answers? | two logins of two clients, two accounts (one with a ceiling), two provider codes, two callbacks, one approve request, sweeps by clocks `0..2` |
| `cimd` | one fetch per client id, waiters counted exactly and bounded, no hit past its cap, every caller answered? | three callers, two ids, one or two fetch slots, one waiter slot, one cache entry, clocks `0..1` or unusable, a network that may never answer |
| `machine_client` | no lost update, no secret back from the dead, no disabled client revived? | two operators, four commits, clocks `0..2`, a fresh client or a legacy row of three secrets |
| `mysql` | is every commit the store operation it stands for, can its transactions deadlock where no sweep met a newborn family, does collection go on until close? | two connections, two tokens, one family, code and JTI, one store object, times `0..3`, `Skew` 2, `Lag` 1; a family is stored, or codes and consents (`OneKind`) |
| `mysql_sweep` | the replay signal under a sweep by hand (expected violation, see "Findings") | two connections, two tokens, one family, `Lag` 0 |
| `pairing` | does a printed code live until spent, are guesses capped, does one check charge once, is every request answered? | two requests, three code values, two attempts, a limit of one, clocks `0..1` |
| `boot` | do racing boots agree on key, identity and schema, is a scaffold whole or absent, is every audit record whole and settled? | two processes, two faults anywhere, two scaffolds of two files, two events |

Why the bounds are enough. Two in-flight slots show each race, because every interference is between
one operation and what happened between two of its steps, which the other slot, the sweep and the
crash can do in any number since slots are reused. Three tokens are a chain root, middle, last: the
least on which "the predecessor is still stored" differs from "some token is stored". `store` has
one family because no operation relates two; `token_flow` and `bridge` have two, where a request
could end in the wrong one. In `mysql` two tokens are a token and its successor, which is what the
sweep's two statements can separate, and `Skew` exceeds `Lag` so that the window the lag does not
cover is there too; `OneKind` keeps committed families apart from committed codes and consents,
which no statement but the sweep's relates, while transactions on both stay open beside each other.
`Watched` names one caller of `cimd` for the liveness property, since slots are alike. Clock ranges
hold one value before, at and after each expiry that occurs. In `authorize` the four configurations
differ pairwise in what they admit: a built-in host, an exact URI, one loopback port and another are
each admitted by one and refused by another, and another port of the exact URI is refused by all;
what an approval keeps between its steps is settled by its configuration and consent, so approvals
beside each other are left to the first part. `MaxInstance` bounds the random store identities; two
tell "the same" from "another". `MaxCommits` and `MaxFaults` bound commits and crashes: with four
commits a secret is current, in grace, retired and could return; with two faults both processes die,
or one does twice.

`CHECK_DEADLOCK FALSE`, in all runs but `cimd`: the system is a server that may stop being called,
and the fresh values (codes, tokens) of an instance run out.

**Symmetry** is used in safety runs only, on identifiers that no operator orders or singles out.

**Fairness.** Liveness is checked in three runs.

* `cimd` (`FairSpec`): weak fairness of `Admit` says that the limiter answers or throws, as any
  awaited call must, of `Deadline` that a `setTimeout` fires, of `Return` that the event loop
  resumes a promise reaction that is ready. Nothing is assumed of the network: `FetchAnswers` and
  `FetchFails` may never happen, and no caller need ever arrive.
* `pairing` (`PairingSpec`): awaited Redis commands, console writes and audit records settle, well
  or badly, and their reactions run.
* `boot` (`BootSpec`): every process is scheduled and, when it ends, restarted by its supervisor;
  file operations settle, so the audit writer goes on while its process serves.

All other runs are safety only.

## What is proved

`tlapm` checks every proof to its leaves. The assumptions are those named in the modules:
expiries and clock readings are naturals; `None`, `Unbound` and `Unset` are not identifiers, nor
rows, slots or files (`NoneAssumption`, `RowAssumption`, `SlotsAssumption`, ...); a JTI carries one
signed expiry; the configured resource and generation are among the modelled ones; limits are
positive; a random draw of a key or an identity has something to draw
(`QuickstartAssumption`, `OpeningAssumption`). No set of requests, callers, processes, tokens or
identifiers is assumed finite. Each invariant below was checked by TLC on the run of its module
before it was proved.

`AuthorizeProofs` is about `StoreSpec` first: any caller, any interleaving of operations.

* `StoreTypeCorrect`: the type invariant; inductive by itself.
* `TokenRowsCorrect`: `RowsMatchFamily`, `LineageKept`, `OneSuccessor` and `SuccessorInherits`,
  proved as one inductive invariant. None but the first is inductive alone: that a successor's
  predecessor is still stored (`LineageKept`) is what makes a second rotation of it a replay
  (`OneSuccessor`), and its being in the same family is what makes the family-level sweep keep it.
  `RowsMatchFamilyCorrect` is its first conjunct by itself.
* `JtiFence`: a spent JTI is stored or its signed expiry lies below the watermark. It is inductive
  because the watermark never falls, and needs that a stored JTI carries its signed expiry, the
  first conjunct.
* `JtiOnce`: the action property, from the fence and `JtiSpent`.

Then about `AuthorizeSpec`, which adds approvals in flight, backups and restores.

* `AuthorizeTypeCorrect`.
* `OneCodePerConsentCorrect`. A restored backup makes the store forget JTIs, so the fence of
  `Store` is false there. The inductive invariant (`ConsentFence`) holds the fence only for the
  JTIs whose consent is bound to the present store identity, with its counterpart for the backup,
  and says that every committed code's JTI is bound to the present or an earlier identity. A
  restore raises the identity, which retires all earlier consents at once: `approve` compares the
  identity, and the commit compares it again.
* `CodeWithinConsentCorrect`: every stored code keeps the client, subject and binding of the
  consent it was committed with and stays under the signed ceiling, from an invariant that also
  speaks of the scopes held by approvals in flight and of the codes in the backup.

`BridgeProofs` is about `TokenSpec` first, with store calls that throw, requests that race, and
crashes. One inductive invariant, `TokenInv`, carries all of it:

* `SlotInv`: what a request in flight knows is still true of what was minted and redeemed, because
  raw tokens name their family and histories only grow.
* `CodeInv` gives `OneFamilyPerCodeCorrect`: a code is stored as it was issued until it is burned,
  and of the requests about to save, no two hold one code, nor one that has been redeemed.
* `FamilyInv` gives `GrantFollowsCodeCorrect`: families and tokens carry the grant of the code the
  family was redeemed for, a stored family has every token that was ever minted for it (the store
  drops a family whole), and at most one of them is unconsumed.
* `DeadInv` gives `CondemnedIsDeadCorrect`: a condemned family was redeemed, so that its identifier
  is never given out again, and is revoked or gone.
* `HeldInv` gives `NoOrphanSuccessorCorrect`: a usable successor that no response carried has a
  request that will judge the answer or compensate, or its family is among the `lost`.
* `TokenImplementsLineage`: the refinement of `TokenLineage`, initial state and step by step. The
  abstract current token of a family is its unconsumed row while the family is not revoked. A sweep
  may drop a whole family, which is the abstract end of it; it drops no part of one, by
  `FamilyInv`.
* `WrongResourceHarmlessCorrect`, under the hypothesis `~StoreMayThrow` (the other case is a
  finding, below): a request reaches its compensation only from an answer the store gave, and the
  store answers with a rotation or a replay only at the family's own resource (`RightInv`). What is
  kept is every row of the store, tokens as well as the family.

Then about `BridgeSpec`, from `BridgeInv`: `TokenInv`, the invariant of `Authorize` (`AuthorizeInv`)
and what joins them (`HandedInv`): a code the token use case was issued is one an approval
committed, and its scopes, those of the approvals in flight and those of every row were consented
to. An approval is a step of the token use case that issues a code; a request is a step of the
authorization use case that at most consumes one. So `TokenPromisesInBridge`,
`BridgeCodesWithinConsent` and `BridgeWrongResourceHarmless` carry over, and
`ScopesConsentedCorrect` and `FamilyWithinConsentCorrect` follow.

`ApprovalProofs` is about `UpstreamSpec` first, from `UpstreamInv`: `AuthorizeInv`, which logins
keep since they only spend JTIs (`ConsumedKeeps`), with three parts. `CallbackInv`: a callback holds
a login of this bridge and, behind the exchange, what the provider answered for it. `OnceInv`: a
login that went on to the provider is spent in the store, and is spoken for by one callback or by
one consent. `OriginInv`: each consent has the client and binding its login's request had, and the
subject and ceiling of the account whose provider code was exchanged.

* `OneExchangePerLoginCorrect`, `OneCodePerLoginCorrect` (the login's JTI, then the consent's) and
  `CodeOfIdentityCorrect`.

Then about `ClientsSpec`, with any configurations, registrations and documents.

* `OneCodeAcrossConfigs`: the fence of `AuthorizeProofs` does not depend on who serves an approval.
* `SentWhereTrustedCorrect`, from `AdmittedInv`: an approval reaches its commit only when it was
  admitted, and what admitted it still does, because a registration is never changed and the request
  keeps its configuration. For a CIMD client `approve` looks at the switch alone; that its redirect
  is one of its document's comes from `prepare`, so the invariant remembers it of every consent.
* `LegacyStaysOutCorrect`, from `LegacyInv`: a code or token that carries the stored generation goes
  back to a code committed in stored mode, and its scopes to consents approved there. Both halves
  are needed: stored mode adds prior scopes to a new code, so a token of the stored generation with
  one scope too many would pass it on.

`MachineClientProofs` is about `MachineClient`.

* `MachineClientTypeCorrect`, `EveryMutationAuditedCorrect`, `DisabledIsFinalCorrect`. The inductive
  invariant (`LifecycleInv`) adds what a call between its read and its swap holds (`SnapshotsPast`):
  an active row of an earlier version, and, if the stored version is still the one it read, the
  stored row itself. That is what makes comparing versions as good as comparing rows.
* `RetiredForeverCorrect`, from the same invariant and that every secret in a row or retired is
  numbered by a commit that happened (`SecretsKnown`), so that a new one is neither.
* `OneIsKept`: of the live secrets of a row that parses, at most two, one is kept before all
  others, so that the `CHOOSE` in `Demoted` denotes a slot of the row.

* `HandedOutWorksCorrect`, from `HandedInv`: a row that a rotation wrote (any version above one) ends
  with the secret of its own version, without expiry, and has before it the one of the version
  before, with one. `OneIsKept` and `UnboundedIsKept` say which slot a rotation demotes.

`CimdProofs` is about `Spec` of `Cimd`, without fairness, from `CimdInv`.

* `SingleFlightCorrect`: an id has an entry in the table of fetches exactly while its leader leads or
  has yet to resume, and the two name each other (`Registered`); the table has at most `maxInFlight`
  entries (`Bounded`), and the leaders inject into it.
* `WaitersCountedCorrect`: for each id the followers that hold a slot are finitely many and as many as
  the count (`Counted`). Finiteness is part of the invariant since callers need not be finitely many.
* `HitFreshCorrect`: no entry is stored later than the last reading the cache observed, and none
  expires later than the cap after its request (`CacheOK`); so a reading that is not before the last
  one is not before the entry's storage either. `TtlBound` is the arithmetic of
  `computeCacheExpiryMs`; `WithoutSound`, `EvictedSound` and `AppendSound` are the Map's operations.

`BootProofs` is about `BootSpec`, any number of processes, crashes and restarts.

* `RecordsWholeCorrect` (`AuditSpec` alone) and `BootRecordsWhole`, from `FramingInv`, which says
  how the file ends at each step of the writer. A fragment of this instance is at the end of the
  file only while its own write is under way or once the sink is disabled.
* `ScaffoldWholeCorrect`, from `ScaffoldInv`: an invocation that was not killed owns exactly the
  files it has reserved and not removed, which no rollback of another touches, since each removes
  what it created. That it reserves all before it writes any is why one that succeeded owns all.
* `OpensTogetherCorrect` and `InstanceKeptCorrect`, from `OpeningInv`: whoever is past statement `j` of
  the migration can rely on what `j` brings about (`Past`), whatever the others have done since,
  because no statement takes a feature away. The widths are read before they are altered: what an
  opener saw as narrow may have been widened by another, but what it saw as wide stays wide.
* `SecretsAgreeCorrect`, from `SecretsInv`: one process at a time is between the exclusive create of
  `secrets.json` and the end of its write; a process that is ready has its key there, whole; and only
  a process that is ready opens the store.

`PairingProofs` is about `PairingSpec`.

* `ChargedOnceCorrect`, from `ChargedInv`: EVAL is sent only after an EVALSHA that ran nothing.
* `PrintedCodeLivesCorrect` and `GuessesCappedCorrect`, from `PairingInv`, the conjunction of the
  types, that at most one request is printing and it is the one followers wait for (`Printers`), that
  the attempts counted against the active code are the wrong guesses judged since it was published,
  and below the cap (`Counts`), and `PrintedCodeLives` itself.

`MysqlProofs` is about `MysqlSpec`: any number of connections, replicas and rows, any skew of clocks,
failures at every statement. The inductive invariant (`MysqlInv`) is what each transaction holds and
knows at each of its statements, because a commit is right only if what was read is still so then:

* `ArgsOK` and `HoldsOK` say which rows it has locked where it stands, and which it has deleted;
  `LocksOK` that no row is locked by two transactions, and that fresh keys are nobody else's.
* `SeenOK` says that what it read of a row it has locked is that row still. For a sweep this is not so:
  its SELECT locks nothing, so `SweepSeen` speaks of the rows it has deleted by now.
* `InTime` says how far its reading may lag. `RowsOK` is `RowsMatchFamily` with its converse, that a
  family has a token, which the sweep's families' DELETE relies on.

From it follow, with no hypothesis,

* `MysqlTypeCorrect` and `MysqlRowsMatch`;
* `MysqlCallsAtomic`: every commit but a sweep's is one operation of `Store`, with the answer the code
  computed from what its statements read;
* `MysqlJtiOnce`: the fence of `Store` again. A sweep by hand at any time only raises it;
* `MysqlDeadlockFree`: `NoDeadlock`. Transactions are ranked by the table their next statement names.
  What a transaction holds that another may wait for was named earlier in the order, so whoever
  blocks is nearer to its commit (`BlockersNearer`); of any set, one that is nearest is blocked by
  none of it (`NearestRank`). Two sweeps, whose row-by-row deletes could cross, meet at the watermark
  first, and a sweep whose cascade met no newborn family waits for nobody (`CascadeUnblocked`);
* `MysqlUnblocked`: `UnblockedGoOn`. A transaction whose next rows are free of others can take a
  statement. The prover has no `ENABLED`, so the theorem speaks of the statements' guards;
* `MysqlCollects`: each sweep in the database is owned by one scheduler that knows it is sweeping
  (`LifeOK`), so that `close()`, which waits for it, leaves none.

The others carry the hypothesis `AllowanceCovers == Skew <= Lag + 1`: what automatic sweeps subtract
covers how far a reading in an open transaction may lag. The code chooses its five minutes for that,
and cannot enforce it. The run `mysql` satisfies it with equality; `mysql_sweep` is the instance
beyond it (`Skew` 2, `Lag` 0), where `LineageKept` is violated, so the hypothesis cannot be dropped.
Sweeps by hand fall outside it too: they subtract nothing, which is an instance with `Lag` 0.

* `MysqlSweepExact`, from `SweepInv`: the tokens a sweep deletes are those of families dead at
  its commit, and those of families saved meanwhile that its DELETE met. The argument is
  `SweepBehind`: a sweep's time is at most one above any reading still in use, so whoever rotates a
  token of a family the sweep found dead finds it expired.
* `MysqlCommitsAtomic`: `CommitsAreStoreOperations`, the sweeps included.
* `MysqlImplementsStore`: the refinement, step by step, of `LosingSpec`, which is `Store` whose sweep
  may also take whole families. That freedom is the one thing the database's sweep does that the
  memory store's cannot: its DELETE of families may meet one that was saved after its subquery
  read the tokens. It loses a fresh login, and no promise about those that remain:
* `MysqlLineage`: `LineageKept`, `OneSuccessor` and `SuccessorInherits`, by the lemmas of
  `AuthorizeProofs` over the refinement.

Only model-checked: liveness (`EveryCallerAnswered`, `EveryRequestAnswered`, `BootsServe`,
`EveryEventSettles`), which is not within what the prover does. The refinement of `LosingSpec` is
proved and not run: TLC checks the same at every commit as `CommitsAreStoreOperations`. Induction
over data is out of reach as well; no model has a recursive definition that a theorem depends on.

## Findings

`token_bridges_failing_store`: `rotateRefreshTokenSnapshot` (`port-result.ts`) compensates a thrown
`rotateRefreshToken` by revoking the family the raw token names, without `expectedResource`. When a
token is presented at a bridge of another resource and the store call fails, the correctly bound
family is revoked. `docs/threat-model.md:80` and `docs/contracts/07-crypto-and-token-contracts.md:67`
say such a request commits no mutation, so that the family stays usable. With a store that does
not fail the statement holds (`bridge`).

`mysql_sweep`: `sweepExpired` (`store/mysql.ts`) lists the tokens of dead families with a SELECT that
locks nothing, and deletes them by digest in a later statement. A rotation that read its clock before
the expiry and commits in between leaves a live successor whose consumed predecessor is then
deleted, so that a replay of it no longer revokes the family.
`docs/contracts/12-store-conformance-contract.md:73` says that a sweep deletes a token only when no
token of its family is still valid. It takes a sweep by hand at its exact time: where the sweep
lags by as much as callers may, `MysqlLineage` shows that the predecessor stays.

Noted without a run:

* The comment at `store/mysql.ts:210` says that READ COMMITTED leaves "no sweep/rotate deadlock".
  Rows are named in one order except by the cascade (`store/mysql-schema.ts:64-65`). When the
  families' DELETE meets a family saved after it read the tokens, it holds that family's row and
  goes on to the tokens, while a rotation of its first token holds that row and comes to the
  family's. InnoDB then rolls one of the two back (`Fail`): the sweep is tried again at its next
  time, and a rotation is a failed store call, which the bridge compensates by revoking the family.
  TLC shows the circle when the exception of `MetNewborn` is taken out of `NoDeadlock`; with it,
  `MysqlDeadlockFree` shows that there is no other.
* A MySQL sweep whose families' DELETE meets a family saved after its subquery read the tokens
  deletes that fresh family, with all its tokens, although
  `docs/contracts/12-store-conformance-contract.md:73` has a sweep keep tokens of live families.
  `CommitsAreStoreOperations` lets this through, and `LosingSpec` says what is left: the family goes
  whole, so its holder must log in again and no replay signal is lost.
* The comment of `sweepExpired` in `ports/store.ts` speaks of expired records, while every store
  keeps an expired refresh-token row as long as a member of its family is valid. The model follows
  the stores.
* A rotation of a machine client reads its clock before it reads the row. A secret with
  a lifetime that ends between the two is still judged live and is demoted into the full grace, as
  the documented rule for grace windows has it. `HandedOutWorks` speaks of rotated secrets, not of the
  provisioned one, whose lifetime the operator chooses.
* When `saveRefreshToken` commits and then throws, the code is burned and a family nobody can reach
  stays live until it expires. The exchange has no compensation, and the code promises none.

## Not modelled, and why

* Cryptography, JWT formats, HTTP parsing, HTML, headers, error wording and logging: data the
  properties do not tell apart.
* Input validation of the store ports (`StoreInputError` for malformed records): callers in the
  library never trigger it.
* Audit events other than as the JSONL sink's lines: fire-and-forget beside the operation, except
  where they decide its outcome (a durable audit of machine clients, the `trail` of `MachineClient`).
  The sink's disable callback, the webhook (one request per event) and the fan-out keep no state a
  later step reads.
* Scope hierarchies and the raw grammar of redirect URIs: pure functions of a request. A URI in
  the models has passed the grammar; machine-shaped registrations and the caps on their fields are
  refused before anything happens.
* Configuration: validation at boot and a frozen snapshot, without later state.
* HTTP adapters: translation between frameworks and normalised requests; the pairing handler's own
  request window and the bridge's guard only refuse a request before it gets to what is modelled.
* Identity providers and the verifier: stateless checks around libraries and external services.
  The CIMD claim matrix of the redirect flow and what a CIMD fetch validates are success or failure.
* Checks at opening that refuse a schema, owner or mode somebody changed by hand.
* Conformance suites, scripts and examples (but for the boot order in `examples/fastify-sqlite`,
  which `Boot` follows): tests, tooling and wiring.

These are most of the repository's lines; the lines the map covers are those that keep state over
an `await`, a crash or another process.
