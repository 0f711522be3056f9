-------------------------------- MODULE Cimd --------------------------------
(***************************************************************************)
(* The CIMD resolver (src/cimd/): one cache of validated registrations,    *)
(* one fetch per raw client id at a time, a bound on fetches and on the    *)
(* callers parked on each.  JavaScript runs a caller without interruption  *)
(* from the limiter's answer to the await of a fetch; a fetch that settles *)
(* makes its leader and followers runnable, and they resume one by one,    *)
(* other callers between them.                                             *)
(*                                                                         *)
(* A clock reading is any time, or None where ClockPort throws or answers  *)
(* out of range: the cache must stay sound under any sequence of readings. *)
(***************************************************************************)
EXTENDS Integers, Sequences, FiniteSets

CONSTANTS
  Callers,      \* slots of concurrent resolutions, reused
  Watched,      \* bound: the slots watched for an answer; slots are alike
  Ids,          \* raw client ids
  FlightLimits, \* maxInFlight, as a deployment may set it
  MaxWaiters,   \* maxWaitersPerFetch
  MaxEntries,   \* ceiling of the cache
  Cap,          \* cacheTtlCapSeconds
  Times,        \* readings of the clock
  Views,        \* freshness headers a response may carry
  None

ASSUME SlotsAssumption == None \notin Callers
ASSUME BoundsAssumption ==
  FlightLimits \subseteq Nat \ {0} /\ MaxWaiters \in Nat \ {0} /\ MaxEntries \in Nat \ {0}
ASSUME TimesAssumption == Cap \in Nat \ {0} /\ Times \subseteq Nat /\ None \notin Times
ASSUME ViewsAssumption ==
  Views \subseteq [maxAge : Nat, age : Nat, date : Times \cup {None}]

VARIABLES
  cache,         \* entries, least recently used first; requestedAt and
                 \* storedAt are history: the readings around the fetch
  lastObserved,  \* the cache's previous reading, or None
  inFlight,      \* id -> the leader whose fetch callers of id await, or None
  waiters,       \* id -> followers admitted and not yet released
  callers,       \* slot -> the caller in it
  maxInFlight    \* frozen when the resolver is made

vars == <<cache, lastObserved, inFlight, waiters, callers>>

Readings == Times \cup {None}

Idle == [pc |-> "idle", id |-> None, leader |-> None, t0 |-> None, ok |-> FALSE,
         hit |-> None, now |-> None]

Step(c, changes) == callers' = [callers EXCEPT ![c] = changes]
Answer(c) == Step(c, Idle)

-----------------------------------------------------------------------------
(* CimdSuccessCache *)

\* A slip: a clock that goes backward is trusted.
MutRegressed(now) == now = None

\* An unusable reading, or one before the previous: temporal state is void.
Regressed(now) ==
  \/ now = None
  \/ lastObserved # None /\ now < lastObserved

\* The Map's entry of an id, and the Map without it.
Has(id) == \E i \in DOMAIN cache : cache[i].id = id
Place(id) == CHOOSE i \in DOMAIN cache : cache[i].id = id
EntryOf(id) == cache[Place(id)]
Without(id) ==
  IF Has(id)
  THEN [i \in 1..Len(cache) - 1 |-> cache[IF i < Place(id) THEN i ELSE i + 1]]
  ELSE cache

Fresh(id, now) ==
  /\ ~Regressed(now)
  /\ Has(id)
  /\ now < EntryOf(id).expiresAt

\* A hit moves to the most recent end; an expired entry goes.
Get(id, now) ==
  /\ lastObserved' = now
  /\ cache' = IF Regressed(now) THEN <<>>
              ELSE IF Fresh(id, now) THEN Append(Without(id), EntryOf(id))
              ELSE Without(id)

\* Room for one more: the oldest go.
Evicted(entries) ==
  IF Len(entries) < MaxEntries THEN entries
  ELSE SubSeq(entries, Len(entries) - MaxEntries + 2, Len(entries))

Set(entry) ==
  /\ lastObserved' = entry.storedAt
  /\ cache' = IF Regressed(entry.storedAt) THEN <<>>
              ELSE Append(Evicted(Without(entry.id)), entry)

Larger(a, b) == IF a > b THEN a ELSE b
Smaller(a, b) == IF a < b THEN a ELSE b

\* The remaining lifetime, by the larger of two estimates of the age.
Ttl(view, t0, t1) ==
  Smaller(view.maxAge, Cap)
    - Larger(IF view.date = None THEN 0 ELSE Larger(0, t1 - view.date),
             view.age + (t1 - t0))

\* Storable: usable readings in order, and some lifetime left.  A response
\* without usable freshness headers is no member of Views.
Cacheable(view, t0, t1) ==
  t0 # None /\ t1 # None /\ t0 <= t1 /\ Ttl(view, t0, t1) > 0

-----------------------------------------------------------------------------
(* WaiterCounts; a refused caller takes nothing *)

Acquirable(id) == waiters[id] < MaxWaiters
Acquire(id) == waiters' = [waiters EXCEPT ![id] = @ + 1]
Release(id) == waiters' = [waiters EXCEPT ![id] = IF @ > 0 THEN @ - 1 ELSE 0]

-----------------------------------------------------------------------------
(* resolve *)

Arrive(c, id) ==
  /\ callers[c] = Idle
  /\ Step(c, [Idle EXCEPT !.pc = "guard", !.id = id])
  /\ UNCHANGED <<cache, lastObserved, inFlight, waiters>>

GuardDenies(c) ==
  /\ callers[c].pc = "guard"
  /\ Answer(c)
  /\ UNCHANGED <<cache, lastObserved, inFlight, waiters>>

\* The guard allows, or is out of order; every lookup observes the clock.
LookUp(c, now) ==
  /\ callers[c].pc = "guard"
  /\ Get(callers[c].id, now)

Hit(c, now) ==
  /\ LookUp(c, now)
  /\ Fresh(callers[c].id, now)
  /\ Step(c, [callers[c] EXCEPT !.pc = "matching", !.ok = TRUE,
                                !.hit = EntryOf(callers[c].id), !.now = now])
  /\ UNCHANGED <<inFlight, waiters>>

Miss(c, now) == LookUp(c, now) /\ ~Fresh(callers[c].id, now)

\* The leader may have settled already: its entry stays until it resumes.
Follow(c, now) ==
  LET id == callers[c].id
      leader == inFlight[id]
  IN /\ Miss(c, now)
     /\ leader # None
     /\ Acquirable(id)
     /\ Acquire(id)
     /\ Step(c, [callers[c] EXCEPT !.leader = leader,
                   !.pc = IF callers[leader].pc = "led" THEN "resumed" ELSE "following",
                   !.ok = callers[leader].ok])
     /\ UNCHANGED inFlight

\* A slip: the refused follower releases a slot it never took.
MutRefuseFollower(c, now) ==
  LET id == callers[c].id IN
  /\ Miss(c, now)
  /\ inFlight[id] # None
  /\ ~Acquirable(id)
  /\ Release(id)
  /\ Answer(c)
  /\ UNCHANGED inFlight

RefuseFollower(c, now) ==
  /\ Miss(c, now)
  /\ inFlight[callers[c].id] # None
  /\ ~Acquirable(callers[c].id)
  /\ Answer(c)
  /\ UNCHANGED <<inFlight, waiters>>

Flights == {id \in Ids : inFlight[id] # None}

Overload(c, now) ==
  /\ Miss(c, now)
  /\ inFlight[callers[c].id] = None
  /\ Cardinality(Flights) >= maxInFlight
  /\ Answer(c)
  /\ UNCHANGED <<inFlight, waiters>>

Lead(c, now, t0) ==
  /\ Miss(c, now)
  /\ inFlight[callers[c].id] = None
  /\ Cardinality(Flights) < maxInFlight
  /\ inFlight' = [inFlight EXCEPT ![callers[c].id] = c]
  /\ Step(c, [callers[c] EXCEPT !.pc = "leading", !.t0 = t0])
  /\ UNCHANGED waiters

\* The fetch of leader c settles: c and its followers become runnable.
Settle(c, ok) ==
  callers' = [d \in Callers |->
    CASE d = c -> [callers[d] EXCEPT !.pc = "led", !.ok = ok]
      [] callers[d].pc = "following" /\ callers[d].leader = c
           -> [callers[d] EXCEPT !.pc = "resumed", !.ok = ok]
      [] OTHER -> callers[d]]

FetchAnswers(c, t1, view) ==
  /\ callers[c].pc = "leading"
  /\ IF view # None /\ Cacheable(view, callers[c].t0, t1)
     THEN Set([id |-> callers[c].id, requestedAt |-> callers[c].t0, storedAt |-> t1,
               expiresAt |-> t1 + Ttl(view, callers[c].t0, t1)])
     ELSE UNCHANGED <<cache, lastObserved>>
  /\ Settle(c, TRUE)
  /\ UNCHANGED <<inFlight, waiters>>

\* A slip: the entry is dropped as soon as the fetch settles, and again
\* when its leader resumes.
MutFetchFails(c) ==
  /\ callers[c].pc = "leading"
  /\ Settle(c, FALSE)
  /\ inFlight' = [inFlight EXCEPT ![callers[c].id] = None]
  /\ UNCHANGED <<cache, lastObserved, waiters>>

\* DNS, transport, status, size or document refused.
FetchFails(c) ==
  /\ callers[c].pc = "leading"
  /\ Settle(c, FALSE)
  /\ UNCHANGED <<cache, lastObserved, inFlight, waiters>>

\* A slip: no timer guards the fetch.
MutDeadline(c) == FALSE /\ FetchFails(c)

\* fetchWithDeadline: the timer wins the race, and a later answer is ignored.
Deadline(c) == FetchFails(c)

Resume(c) ==
  IF callers[c].ok THEN Step(c, [callers[c] EXCEPT !.pc = "matching"]) ELSE Answer(c)

LeaderReturns(c) ==
  /\ callers[c].pc = "led"
  /\ inFlight' = [inFlight EXCEPT ![callers[c].id] = None]
  /\ Resume(c)
  /\ UNCHANGED <<cache, lastObserved, waiters>>

FollowerReturns(c) ==
  /\ callers[c].pc = "resumed"
  /\ Release(callers[c].id)
  /\ Resume(c)
  /\ UNCHANGED <<cache, lastObserved, inFlight>>

\* The redirect_uri is matched for every caller, cache hits included; either
\* verdict is audited and ends the resolution.
Match(c) ==
  /\ callers[c].pc = "matching"
  /\ Answer(c)
  /\ UNCHANGED <<cache, lastObserved, inFlight, waiters>>

-----------------------------------------------------------------------------
Init ==
  /\ cache = <<>>
  /\ lastObserved = None
  /\ inFlight = [id \in Ids |-> None]
  /\ waiters = [id \in Ids |-> 0]
  /\ callers = [c \in Callers |-> Idle]
  /\ maxInFlight \in FlightLimits

\* Run by the limiter's answer; the caller cannot be kept waiting after it.
Admit(c) ==
  \/ GuardDenies(c)
  \/ \E now \in Readings :
       \/ Hit(c, now) \/ Follow(c, now) \/ RefuseFollower(c, now) \/ Overload(c, now)
       \/ \E t0 \in Readings : Lead(c, now, t0)

Return(c) == LeaderReturns(c) \/ FollowerReturns(c) \/ Match(c)

Next ==
  /\ \E c \in Callers :
       \/ \E id \in Ids : Arrive(c, id)
       \/ Admit(c)
       \/ \E t1 \in Readings, view \in Views \cup {None} : FetchAnswers(c, t1, view)
       \/ FetchFails(c)
       \/ Deadline(c)
       \/ Return(c)
  /\ UNCHANGED maxInFlight

\* The limiter answers, the deadline timer fires, runnable callers resume.
\* Nothing is assumed of the network.
Fairness ==
  \A c \in Callers : WF_vars(Admit(c)) /\ WF_vars(Deadline(c)) /\ WF_vars(Return(c))

Spec == Init /\ [][Next]_<<vars, maxInFlight>>
FairSpec == Spec /\ Fairness

-----------------------------------------------------------------------------
\* At most one fetch of an id is under way, and at most maxInFlight in all,
\* although callers arrive between the moment a fetch settles and the moment
\* its leader takes it off the table.
SingleFlight ==
  LET leading == {c \in Callers : callers[c].pc = "leading"} IN
  /\ \A c, d \in leading : callers[c].id = callers[d].id => c = d
  /\ Cardinality(leading) <= maxInFlight

\* The waiter count of an id is the number of followers that hold a slot, so
\* a refused, failed or timed-out follower neither leaks nor frees one.
WaitersCounted ==
  \A id \in Ids :
    waiters[id] = Cardinality({c \in Callers : /\ callers[c].id = id
                                               /\ callers[c].pc \in {"following", "resumed"}})

\* No hit is served by a reading before the one its entry was stored at, nor
\* later than Cap after its request, however the clock jumped in between; and
\* of the entries of an id there is one, of all ids at most MaxEntries.
HitFresh ==
  /\ \A c \in Callers :
       callers[c].hit # None =>
         LET entry == callers[c].hit IN
         /\ entry.id = callers[c].id
         /\ entry.storedAt <= callers[c].now
         /\ callers[c].now < entry.requestedAt + Cap
  /\ Len(cache) <= MaxEntries
  /\ \A i, j \in DOMAIN cache : cache[i].id = cache[j].id => i = j

\* Every caller is answered, although the network may never answer.
EveryCallerAnswered ==
  \A c \in Watched : callers[c].pc # "idle" ~> callers[c].pc = "idle"
=============================================================================
