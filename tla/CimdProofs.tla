----------------------------- MODULE CimdProofs -----------------------------
(***************************************************************************)
(* Proofs about Cimd, for any number of callers, client ids and fetch and  *)
(* waiter slots, any ceiling of the cache and any readings of the clock.   *)
(*                                                                         *)
(* One fetch per id rests on the table of fetches and the callers' states  *)
(* naming each other; the waiter counts on the followers being finitely    *)
(* many; and the freshness of a hit on no entry being stored after the     *)
(* last reading the cache observed.                                        *)
(***************************************************************************)
EXTENDS Cimd, FiniteSetTheorems, TLAPS

-----------------------------------------------------------------------------
(* Types *)

Entry == [id : Ids, requestedAt : Times, storedAt : Times, expiresAt : Nat]

Caller ==
  [pc : {"idle", "guard", "following", "resumed", "leading", "led", "matching"},
   id : Ids \cup {None}, leader : Callers \cup {None}, t0 : Readings, ok : BOOLEAN,
   hit : Entry \cup {None}, now : Readings]

CallersOK ==
  /\ callers \in [Callers -> Caller]
  /\ \A c \in Callers : callers[c].pc # "idle" => callers[c].id \in Ids

TablesOK ==
  /\ inFlight \in [Ids -> Callers \cup {None}]
  /\ waiters \in [Ids -> Nat]
  /\ maxInFlight \in FlightLimits

\* The table of fetches names exactly the callers that lead one.
Leads(c) == callers[c].pc \in {"leading", "led"}
Registered ==
  /\ \A id \in Ids : inFlight[id] # None => /\ Leads(inFlight[id])
                                            /\ callers[inFlight[id]].id = id
  /\ \A c \in Callers : Leads(c) => inFlight[callers[c].id] = c

\* An entry was stored no later than the cache's last reading, and does not
\* outlive its request by more than the cap.
Current(entry, last) ==
  last # None /\ entry.storedAt <= last /\ entry.expiresAt <= entry.requestedAt + Cap

\* One entry per id, all of them current.
Sound(entries, last) ==
  /\ entries \in Seq(Entry)
  /\ \A i, j \in DOMAIN entries : entries[i].id = entries[j].id => i = j
  /\ \A i \in DOMAIN entries : Current(entries[i], last)

CacheOK ==
  /\ lastObserved \in Readings
  /\ Sound(cache, lastObserved)
  /\ Len(cache) <= MaxEntries

-----------------------------------------------------------------------------
(* The cache *)

\* Dropping the entry of an id leaves the others, each once, in their order.
LEMMA WithoutSound ==
  ASSUME NEW id \in Ids, NEW last \in Readings, Sound(cache, last)
  PROVE  /\ Sound(Without(id), last)
         /\ Len(Without(id)) <= Len(cache)
         /\ Has(id) => Len(Without(id)) = Len(cache) - 1
         /\ \A i \in DOMAIN Without(id) : Without(id)[i].id # id
<1> DEFINE w == Without(id)
<1>1. cache \in Seq(Entry) /\ Len(cache) \in Nat /\ DOMAIN cache = 1..Len(cache)
  BY DEF Sound
<1>2. CASE ~Has(id)
  <2>1. Without(id) = cache
    BY <1>2 DEF Without
  <2>2. \A i \in DOMAIN cache : cache[i].id # id
    BY <1>2 DEF Has
  <2>3. Len(cache) <= Len(cache)
    BY <1>1
  <2> HIDE DEF w
  <2> QED BY <1>2, <2>1, <2>2, <2>3
<1>3. CASE Has(id)
  <2> DEFINE p == Place(id)
             from(i) == IF i < p THEN i ELSE i + 1
             n == Len(cache) - 1
  <2>1. p \in 1..Len(cache) /\ cache[p].id = id
    BY <1>1, <1>3 DEF Has, Place
  <2>2. w = [i \in 1..n |-> cache[from(i)]]
    BY <1>3 DEF Without
  <2>3. n \in Nat
    BY <1>1, <2>1
  <2> HIDE DEF p
  <2>4. \A i \in 1..n : from(i) \in 1..Len(cache) /\ from(i) # p
    BY <1>1, <2>1, <2>3
  <2>5. \A i, j \in 1..n : from(i) = from(j) => i = j
    BY <1>1, <2>1, <2>3
  <2> HIDE DEF from, n, w
  <2>6. DOMAIN w = 1..n /\ \A i \in 1..n : w[i] = cache[from(i)]
    BY <2>2
  <2>7. w \in Seq(Entry) /\ Len(w) = n
    <3>1. \A i \in 1..n : cache[from(i)] \in Entry
      BY <1>1, <2>4
    <3> QED BY <2>2, <2>3, <3>1
  <2>8. \A i, j \in DOMAIN w : w[i].id = w[j].id => i = j
    BY <1>1, <2>4, <2>5, <2>6 DEF Sound
  <2>9. \A i \in DOMAIN w : Current(w[i], last)
    BY <1>1, <2>4, <2>6 DEF Sound
  <2>10. \A i \in DOMAIN w : w[i].id # id
    BY <1>1, <2>1, <2>4, <2>6 DEF Sound
  <2> QED BY <1>1, <2>7, <2>8, <2>9, <2>10, <2>3 DEF Sound, w, n
<1> QED BY <1>2, <1>3

\* Making room keeps the newest entries, and leaves a place for one more.
LEMMA EvictedSound ==
  ASSUME NEW last \in Readings, NEW s, Sound(s, last)
  PROVE  /\ Sound(Evicted(s), last)
         /\ Len(Evicted(s)) < MaxEntries
         /\ \A i \in DOMAIN Evicted(s) : \E j \in DOMAIN s : Evicted(s)[i] = s[j]
<1>1. s \in Seq(Entry) /\ Len(s) \in Nat /\ DOMAIN s = 1..Len(s)
  BY DEF Sound
<1>2. CASE Len(s) < MaxEntries
  BY <1>1, <1>2 DEF Evicted
<1>3. CASE ~(Len(s) < MaxEntries)
  <2> DEFINE k == Len(s) - MaxEntries + 1
             n == MaxEntries - 1
             e == Evicted(s)
  <2>1. k \in 1..Len(s) /\ n \in Nat /\ k + n = Len(s)
    BY <1>1, <1>3, BoundsAssumption
  <2>2. e = SubSeq(s, k + 1, k + n)
    BY <1>3, <2>1, BoundsAssumption, <1>1 DEF Evicted
  <2> HIDE DEF k, e
  <2>3. e = [i \in 1..n |-> s[i + k]]
    BY <1>1, <2>1, <2>2, BoundsAssumption
  <2> HIDE DEF n
  <2>4. DOMAIN e = 1..n /\ \A i \in 1..n : e[i] = s[i + k] /\ i + k \in DOMAIN s
    BY <1>1, <2>1, <2>3
  <2>5. e \in Seq(Entry) /\ Len(e) = n
    <3>1. \A i \in 1..n : s[i + k] \in Entry
      BY <1>1, <2>4
    <3> QED BY <2>1, <2>3, <3>1
  <2>6. \A i, j \in DOMAIN e : e[i].id = e[j].id => i = j
    <3> SUFFICES ASSUME NEW i \in 1..n, NEW j \in 1..n, e[i].id = e[j].id
                 PROVE  i = j
      BY <2>4
    <3>1. s[i + k].id = s[j + k].id /\ i + k \in DOMAIN s /\ j + k \in DOMAIN s
      BY <2>4
    <3>2. i + k = j + k
      BY <3>1 DEF Sound
    <3>3. i \in Nat /\ j \in Nat /\ k \in Nat
      BY <2>1, <1>1
    <3> QED BY <3>2, <3>3
  <2>7. \A i \in DOMAIN e : Current(e[i], last)
    BY <2>4 DEF Sound
  <2>8. n < MaxEntries
    BY BoundsAssumption DEF n
  <2> QED BY <2>4, <2>5, <2>6, <2>7, <2>8 DEF Sound, e
<1> QED BY <1>2, <1>3

\* A later reading of the clock keeps every entry current.
LEMMA LaterSound ==
  ASSUME NEW now \in Times, NEW s, Sound(s, lastObserved), lastObserved \in Readings,
         ~Regressed(now)
  PROVE  Sound(s, now)
<1>1. ASSUME NEW i \in DOMAIN s
      PROVE  Current(s[i], now)
  <2>1. Current(s[i], lastObserved) /\ s[i] \in Entry
    BY DEF Sound
  <2>2. lastObserved \in Nat /\ now \in Nat /\ lastObserved <= now
    BY <2>1, TimesAssumption DEF Current, Regressed, Readings
  <2>3. s[i].storedAt \in Nat
    BY <2>1, TimesAssumption DEF Entry
  <2> QED BY <2>1, <2>2, <2>3, TimesAssumption DEF Current
<1> QED BY <1>1 DEF Sound

\* A new entry of an id that has none joins the others.
LEMMA AppendSound ==
  ASSUME NEW last \in Readings, NEW s, Sound(s, last), NEW entry \in Entry,
         Current(entry, last), \A i \in DOMAIN s : s[i].id # entry.id
  PROVE  Sound(Append(s, entry), last) /\ Len(Append(s, entry)) = Len(s) + 1
<1> DEFINE a == Append(s, entry)
<1>1. s \in Seq(Entry) /\ Len(s) \in Nat /\ DOMAIN s = 1..Len(s)
  BY DEF Sound
<1>2. a \in Seq(Entry) /\ Len(a) = Len(s) + 1 /\ DOMAIN a = 1..(Len(s) + 1)
  BY <1>1
<1>3. \A i \in DOMAIN a : a[i] = IF i = Len(s) + 1 THEN entry ELSE s[i]
  BY <1>1, <1>2
<1> HIDE DEF a
<1>4. \A i, j \in DOMAIN a : a[i].id = a[j].id => i = j
  BY <1>1, <1>2, <1>3 DEF Sound
<1>5. \A i \in DOMAIN a : Current(a[i], last)
  BY <1>1, <1>2, <1>3 DEF Sound
<1> QED BY <1>2, <1>4, <1>5 DEF Sound, a

\* A fresh entry is the entry of its id, and current at the reading that
\* finds it so.
LEMMA FreshEntry ==
  ASSUME CacheOK, NEW id \in Ids, NEW now \in Readings, Fresh(id, now)
  PROVE  /\ now \in Times
         /\ EntryOf(id) \in Entry /\ EntryOf(id).id = id
         /\ Current(EntryOf(id), now)
         /\ now < EntryOf(id).expiresAt
<1>1. now \in Times /\ ~Regressed(now)
  BY DEF Fresh, Regressed, Readings
<1>2. Place(id) \in DOMAIN cache /\ cache[Place(id)].id = id
  BY DEF Fresh, Has, Place
<1>3. EntryOf(id) \in Entry /\ EntryOf(id).id = id
  BY <1>2 DEF EntryOf, CacheOK, Sound
<1>4. Sound(cache, now)
  BY <1>1, LaterSound DEF CacheOK
<1>5. Current(EntryOf(id), now)
  BY <1>2, <1>4 DEF Sound, EntryOf
<1> QED BY <1>1, <1>3, <1>5 DEF Fresh

\* A lookup keeps the cache sound, whatever the clock reads.
LEMMA GetKeeps ==
  ASSUME CacheOK, NEW id \in Ids, NEW now \in Readings, Get(id, now)
  PROVE  CacheOK'
<1>1. lastObserved' = now /\ now \in Readings
  BY DEF Get
<1>2. CASE Regressed(now)
  <2>1. cache' = <<>>
    BY <1>2 DEF Get
  <2>2. Sound(<<>>, now) /\ Len(<<>>) <= MaxEntries
    BY BoundsAssumption DEF Sound
  <2> QED BY <1>1, <2>1, <2>2 DEF CacheOK
<1>3. CASE ~Regressed(now)
  <2>1. now \in Times
    BY <1>3 DEF Regressed, Readings
  <2>2. /\ Sound(Without(id), lastObserved)
        /\ Len(Without(id)) <= Len(cache)
        /\ Has(id) => Len(Without(id)) = Len(cache) - 1
        /\ \A i \in DOMAIN Without(id) : Without(id)[i].id # id
    BY WithoutSound DEF CacheOK
  <2>3. Sound(Without(id), now)
    BY <1>3, <2>1, <2>2, LaterSound DEF CacheOK
  <2>4. Len(cache) \in Nat /\ Len(cache) <= MaxEntries /\ Len(Without(id)) \in Nat
    BY <2>2 DEF CacheOK, Sound
  <2>5. CASE Fresh(id, now)
    <3>1. cache' = Append(Without(id), EntryOf(id))
      BY <1>3, <2>5 DEF Get
    <3>2. EntryOf(id) \in Entry /\ EntryOf(id).id = id /\ Current(EntryOf(id), now)
      BY <2>5, FreshEntry
    <3>3. /\ Sound(Append(Without(id), EntryOf(id)), now)
          /\ Len(Append(Without(id), EntryOf(id))) = Len(Without(id)) + 1
      BY <2>2, <2>3, <3>2, AppendSound
    <3>4. Len(Append(Without(id), EntryOf(id))) <= MaxEntries
      BY <2>2, <2>4, <2>5, <3>3, BoundsAssumption DEF Fresh
    <3> QED BY <1>1, <3>1, <3>3, <3>4 DEF CacheOK
  <2>6. CASE ~Fresh(id, now)
    <3>1. cache' = Without(id)
      BY <1>3, <2>6 DEF Get
    <3>2. Len(Without(id)) <= MaxEntries
      BY <2>2, <2>4, BoundsAssumption
    <3> QED BY <1>1, <2>3, <3>1, <3>2 DEF CacheOK
  <2> QED BY <2>5, <2>6
<1> QED BY <1>2, <1>3

\* Storing an entry keeps the cache sound, and under its ceiling.
LEMMA SetKeeps ==
  ASSUME CacheOK, NEW entry \in Entry, entry.expiresAt <= entry.requestedAt + Cap,
         Set(entry)
  PROVE  CacheOK'
<1> DEFINE now == entry.storedAt
<1>1. now \in Times /\ lastObserved' = now /\ now \in Readings /\ entry.id \in Ids
  BY DEF Set, Entry, Readings
<1>2. CASE Regressed(now)
  <2>1. cache' = <<>>
    BY <1>2 DEF Set
  <2>2. Sound(<<>>, now) /\ Len(<<>>) <= MaxEntries
    BY BoundsAssumption DEF Sound
  <2> QED BY <1>1, <2>1, <2>2 DEF CacheOK
<1>3. CASE ~Regressed(now)
  <2> DEFINE w == Without(entry.id)
  <2>1. cache' = Append(Evicted(w), entry)
    BY <1>3 DEF Set
  <2>2. Sound(w, lastObserved) /\ \A i \in DOMAIN w : w[i].id # entry.id
    BY <1>1, WithoutSound DEF CacheOK
  <2>3. Sound(w, now)
    BY <1>1, <1>3, <2>2, LaterSound DEF CacheOK
  <2> HIDE DEF w
  <2>4. /\ Sound(Evicted(w), now)
        /\ Len(Evicted(w)) < MaxEntries
        /\ \A i \in DOMAIN Evicted(w) : \E j \in DOMAIN w : Evicted(w)[i] = w[j]
    BY <1>1, <2>3, EvictedSound
  <2>5. \A i \in DOMAIN Evicted(w) : Evicted(w)[i].id # entry.id
    BY <2>2, <2>4
  <2>6. Current(entry, now)
    <3>1. now # None /\ now \in Nat
      BY <1>1, TimesAssumption
    <3>2. entry.storedAt <= now
      BY <3>1
    <3> QED BY <3>1, <3>2 DEF Current
  <2>7. /\ Sound(Append(Evicted(w), entry), now)
        /\ Len(Append(Evicted(w), entry)) = Len(Evicted(w)) + 1
    BY <1>1, <2>4, <2>5, <2>6, AppendSound
  <2>8. Len(Append(Evicted(w), entry)) <= MaxEntries
    <3>1. Len(Evicted(w)) \in Nat
      BY <2>4 DEF Sound
    <3> QED BY <2>4, <2>7, <3>1, BoundsAssumption
  <2> QED BY <1>1, <2>1, <2>7, <2>8 DEF CacheOK
<1> QED BY <1>2, <1>3

\* What a response may be stored for: not past the cap, counted from the
\* request.
LEMMA TtlBound ==
  ASSUME NEW view \in Views, NEW t0 \in Readings, NEW t1 \in Readings,
         Cacheable(view, t0, t1)
  PROVE  /\ t0 \in Times /\ t1 \in Times
         /\ t1 + Ttl(view, t0, t1) \in Nat
         /\ t1 + Ttl(view, t0, t1) <= t0 + Cap
<1>1. t0 \in Times /\ t1 \in Times /\ t0 \in Nat /\ t1 \in Nat /\ t0 <= t1
  BY TimesAssumption DEF Cacheable, Readings
<1>2. view.maxAge \in Nat /\ view.age \in Nat /\ (view.date = None \/ view.date \in Nat)
  BY ViewsAssumption, TimesAssumption
<1> DEFINE life == Smaller(view.maxAge, Cap)
           apparent == IF view.date = None THEN 0 ELSE Larger(0, t1 - view.date)
           age == Larger(apparent, view.age + (t1 - t0))
<1>3. life \in Nat /\ life <= Cap
  BY <1>2, TimesAssumption DEF Smaller
<1>4. apparent \in Nat
  BY <1>1, <1>2 DEF Larger
<1> HIDE DEF apparent
<1>5. age \in Nat /\ age >= t1 - t0
  BY <1>1, <1>2, <1>4 DEF Larger
<1>6. Ttl(view, t0, t1) = life - age
  BY DEF Ttl, apparent
<1> HIDE DEF life, age
<1>7. Ttl(view, t0, t1) > 0
  BY DEF Cacheable
<1> QED BY <1>1, <1>3, <1>5, <1>6, <1>7, TimesAssumption

-----------------------------------------------------------------------------
(* Callers, fetches and waiters *)

\* At most maxInFlight ids have a fetch.
Bounded == IsFiniteSet(Flights) /\ Cardinality(Flights) <= maxInFlight

\* The callers that hold a waiter slot of an id, and their count.
Parks(c) == callers[c].pc \in {"following", "resumed"}
Parked(id) == {c \in Callers : callers[c].id = id /\ Parks(c)}
Counted == \A id \in Ids : IsFiniteSet(Parked(id)) /\ waiters[id] = Cardinality(Parked(id))

\* What a caller took from the cache was current when it took it, and not
\* yet expired.
HitOK(caller) ==
  caller.hit # None =>
    /\ caller.hit \in Entry /\ caller.hit.id = caller.id
    /\ caller.now \in Times
    /\ Current(caller.hit, caller.now)
    /\ caller.now < caller.hit.expiresAt
HitsOK == \A c \in Callers : HitOK(callers[c])

CimdInv ==
  /\ CallersOK /\ TablesOK
  /\ Registered /\ Bounded
  /\ Counted
  /\ CacheOK /\ HitsOK

\* A caller's own step changes that caller alone.
LEMMA StepBecomes ==
  ASSUME CallersOK, HitsOK, NEW c \in Callers, NEW r \in Caller,
         r.pc # "idle" => r.id \in Ids, HitOK(r), Step(c, r)
  PROVE  /\ CallersOK' /\ HitsOK'
         /\ callers'[c] = r
         /\ \A d \in Callers \ {c} : callers'[d] = callers[d]
<1>1. /\ callers' \in [Callers -> Caller]
      /\ callers'[c] = r
      /\ \A d \in Callers \ {c} : callers'[d] = callers[d]
  BY DEF Step, CallersOK
<1>2. CallersOK'
  BY <1>1 DEF CallersOK
<1>3. \A d \in Callers : HitOK(callers'[d])
  BY <1>1 DEF HitsOK
<1>4. HitsOK'
  BY <1>3 DEF HitsOK, HitOK, Current, Entry
<1> QED BY <1>1, <1>2, <1>4

\* The empty slot is a caller, and holds nothing.
LEMMA IdleCaller == Idle \in Caller /\ HitOK(Idle) /\ Idle.pc = "idle" /\ Idle.hit = None
BY DEF Idle, Caller, HitOK, Readings

\* Callers that neither lead nor start or stop leading leave the table of
\* fetches as it is.
LEMMA FlightsKept ==
  ASSUME Registered, Bounded, UNCHANGED <<inFlight, maxInFlight>>,
         \A c \in Callers : Leads(c)' = Leads(c),
         \A c \in Callers : Leads(c) => callers'[c].id = callers[c].id,
         inFlight \in [Ids -> Callers \cup {None}]
  PROVE  Registered' /\ Bounded'
<1>1. Registered'
  <2>1. ASSUME NEW id \in Ids, inFlight[id] # None
        PROVE  Leads(inFlight[id])' /\ callers'[inFlight[id]].id = id
    <3>1. inFlight[id] \in Callers
      BY <2>1
    <3>2. Leads(inFlight[id]) /\ callers[inFlight[id]].id = id
      BY <2>1 DEF Registered
    <3>3. \A c \in Callers : c = inFlight[id] => Leads(c)' /\ callers'[c].id = id
      BY <3>2
    <3> QED BY <3>1, <3>3 DEF Leads
  <2>2. ASSUME NEW c \in Callers, Leads(c)'
        PROVE  inFlight[callers'[c].id] = c
    BY <2>2 DEF Registered
  <2> QED BY <2>1, <2>2 DEF Registered, Leads
<1>2. Bounded'
  BY DEF Bounded, Flights
<1> QED BY <1>1, <1>2

\* Callers that keep their waiter slots, or their want of one, leave the
\* counts as they are.
LEMMA CountsKept ==
  ASSUME Counted, UNCHANGED waiters,
         \A c \in Callers : Parks(c)' = Parks(c),
         \A c \in Callers : Parks(c) => callers'[c].id = callers[c].id
  PROVE  Counted'
<1>1. \A id \in Ids : Parked(id)' = Parked(id)
  BY DEF Parked
<1> QED BY <1>1 DEF Counted

\* A step of a caller that neither leads nor holds a waiter slot, before or
\* after it.
LEMMA Aside ==
  ASSUME CimdInv, CacheOK', UNCHANGED <<inFlight, waiters, maxInFlight>>,
         NEW c \in Callers, ~Leads(c), ~Parks(c),
         NEW r \in Caller, r.pc \in {"idle", "guard", "matching"},
         r.pc # "idle" => r.id \in Ids, HitOK(r), Step(c, r)
  PROVE  CimdInv'
<1>1. /\ CallersOK' /\ HitsOK'
      /\ callers'[c] = r
      /\ \A d \in Callers \ {c} : callers'[d] = callers[d]
  BY StepBecomes DEF CimdInv
<1>2. \A d \in Callers : /\ Leads(d)' = Leads(d)
                         /\ Parks(d)' = Parks(d)
                         /\ Leads(d) \/ Parks(d) => callers'[d].id = callers[d].id
  BY <1>1 DEF Leads, Parks
<1>3. Registered' /\ Bounded'
  BY <1>2, FlightsKept DEF CimdInv, TablesOK
<1>4. Counted'
  BY <1>2, CountsKept DEF CimdInv
<1>5. TablesOK'
  BY DEF CimdInv, TablesOK
<1> QED BY <1>1, <1>3, <1>4, <1>5 DEF CimdInv

-----------------------------------------------------------------------------
(* The steps of resolve *)

\* A caller that waits for the limiter is one of an id, with nothing taken.
LEMMA AtGuard ==
  ASSUME CimdInv, NEW c \in Callers, callers[c].pc = "guard"
  PROVE  callers[c] \in Caller /\ callers[c].id \in Ids /\ ~Leads(c) /\ ~Parks(c)
BY DEF CimdInv, CallersOK, Leads, Parks

\* A lookup in the cache keeps it sound.
LEMMA LookUpKeeps ==
  ASSUME CimdInv, NEW c \in Callers, NEW now \in Readings, LookUp(c, now)
  PROVE  CacheOK'
<1>1. callers[c].id \in Ids
  BY AtGuard DEF LookUp
<1> QED BY <1>1, GetKeeps DEF LookUp, CimdInv

\* The cache of a step that leaves it alone.
LEMMA CacheKept ==
  ASSUME CacheOK, UNCHANGED <<cache, lastObserved>>
  PROVE  CacheOK'
BY DEF CacheOK, Sound, Current

\* A new resolution takes an empty slot.
LEMMA ArriveKeeps ==
  ASSUME CimdInv, NEW c \in Callers, NEW id \in Ids, Arrive(c, id), UNCHANGED maxInFlight
  PROVE  CimdInv'
<1> DEFINE r == [Idle EXCEPT !.pc = "guard", !.id = id]
<1>1. r \in Caller /\ r.pc = "guard" /\ r.id \in Ids /\ r.hit = None
  BY DEF Idle, Caller, Readings
<1>2. HitOK(r)
  BY <1>1 DEF HitOK
<1>3. ~Leads(c) /\ ~Parks(c) /\ Step(c, r) /\ UNCHANGED <<inFlight, waiters>>
  BY DEF Arrive, Idle, Leads, Parks
<1>4. CacheOK'
  BY CacheKept DEF Arrive, CimdInv
<1> HIDE DEF r
<1> QED BY <1>1, <1>2, <1>3, <1>4, Aside

\* A caller that is answered leaves its slot empty.
LEMMA AnswerKeeps ==
  ASSUME CimdInv, CacheOK', UNCHANGED <<inFlight, waiters, maxInFlight>>,
         NEW c \in Callers, ~Leads(c), ~Parks(c), Answer(c)
  PROVE  CimdInv'
<1>1. Step(c, Idle) /\ Idle.pc \in {"idle", "guard", "matching"}
  BY IdleCaller DEF Answer
<1> QED BY <1>1, IdleCaller, Aside

\* A hit is of the caller's id, and current at the reading that found it.
LEMMA HitKeeps ==
  ASSUME CimdInv, NEW c \in Callers, NEW now \in Readings, Hit(c, now), UNCHANGED maxInFlight
  PROVE  CimdInv'
<1> DEFINE id == callers[c].id
           r == [callers[c] EXCEPT !.pc = "matching", !.ok = TRUE,
                                   !.hit = EntryOf(id), !.now = now]
<1>1. callers[c] \in Caller /\ id \in Ids /\ ~Leads(c) /\ ~Parks(c)
  BY AtGuard DEF Hit, LookUp
<1>2. /\ now \in Times
      /\ EntryOf(id) \in Entry /\ EntryOf(id).id = id
      /\ Current(EntryOf(id), now)
      /\ now < EntryOf(id).expiresAt
  BY <1>1, FreshEntry DEF Hit, CimdInv
<1>3. /\ r \in Caller
      /\ r.pc = "matching" /\ r.id = id /\ r.hit = EntryOf(id) /\ r.now = now
  BY <1>1, <1>2 DEF Caller
<1>4. Step(c, r) /\ UNCHANGED <<inFlight, waiters>>
  BY DEF Hit
<1>5. CacheOK'
  BY LookUpKeeps DEF Hit
<1> HIDE DEF r
<1>6. HitOK(r)
  BY <1>2, <1>3 DEF HitOK
<1> HIDE DEF id
<1> QED BY <1>1, <1>3, <1>4, <1>5, <1>6, Aside

\* A follower takes one waiter slot of its id.
LEMMA FollowKeeps ==
  ASSUME CimdInv, NEW c \in Callers, NEW now \in Readings, Follow(c, now),
         UNCHANGED maxInFlight
  PROVE  CimdInv'
<1>0. callers[c].id \in Ids
  BY AtGuard DEF Follow, Miss, LookUp
<1> PICK id \in Ids : id = callers[c].id
  BY <1>0
<1> DEFINE leader == inFlight[id]
           r == [callers[c] EXCEPT !.leader = leader,
                   !.pc = IF callers[leader].pc = "led" THEN "resumed" ELSE "following",
                   !.ok = callers[leader].ok]
<1>1. callers[c] \in Caller /\ ~Leads(c) /\ ~Parks(c)
  BY AtGuard DEF Follow, Miss, LookUp
<1>2. leader \in Callers /\ callers[leader] \in Caller
  BY <1>1 DEF Follow, CimdInv, TablesOK, CallersOK
<1>3. /\ r \in Caller
      /\ r.pc \in {"resumed", "following"} /\ r.id = id
      /\ r.hit = callers[c].hit /\ r.now = callers[c].now
  BY <1>1, <1>2 DEF Caller
<1>4. Step(c, r) /\ UNCHANGED inFlight
  BY DEF Follow
<1>5. waiters' = [waiters EXCEPT ![id] = @ + 1]
  BY DEF Follow, Acquire
<1> HIDE DEF r
<1>6. HitOK(r)
  BY <1>3 DEF HitOK, CimdInv, HitsOK
<1>7. /\ CallersOK' /\ HitsOK'
      /\ callers'[c] = r
      /\ \A d \in Callers \ {c} : callers'[d] = callers[d]
  BY <1>1, <1>3, <1>4, <1>6, StepBecomes DEF CimdInv
<1> HIDE DEF leader
<1>8. Registered' /\ Bounded'
  <2>1. \A d \in Callers : /\ Leads(d)' = Leads(d)
                           /\ Leads(d) => callers'[d].id = callers[d].id
    BY <1>1, <1>3, <1>7 DEF Leads
  <2> QED BY <1>4, <2>1, FlightsKept DEF CimdInv, TablesOK
<1>9. Counted'
  <2>1. Parked(id)' = Parked(id) \cup {c} /\ c \notin Parked(id)
    BY <1>1, <1>3, <1>7 DEF Parked, Parks
  <2>2. IsFiniteSet(Parked(id)) /\ waiters[id] = Cardinality(Parked(id))
    BY <1>1 DEF CimdInv, Counted
  <2>3. IsFiniteSet(Parked(id)') /\ Cardinality(Parked(id)') = waiters[id] + 1
    BY <2>1, <2>2, FS_AddElement
  <2>4. \A i \in Ids \ {id} : Parked(i)' = Parked(i)
    BY <1>1, <1>3, <1>7 DEF Parked, Parks
  <2>5. waiters'[id] = waiters[id] + 1 /\ \A i \in Ids \ {id} : waiters'[i] = waiters[i]
    BY <1>1, <1>5 DEF CimdInv, TablesOK
  <2>6. \A i \in Ids : IsFiniteSet(Parked(i)') /\ waiters'[i] = Cardinality(Parked(i)')
    BY <1>1, <2>3, <2>4, <2>5 DEF CimdInv, Counted
  <2> QED BY <2>6 DEF Counted
<1>10. TablesOK'
  BY <1>1, <1>4, <1>5 DEF CimdInv, TablesOK
<1>11. CacheOK'
  BY LookUpKeeps DEF Follow, Miss
<1> QED BY <1>7, <1>8, <1>9, <1>10, <1>11 DEF CimdInv

\* A leader takes one entry of the table, free before and within the bound.
LEMMA LeadKeeps ==
  ASSUME CimdInv, NEW c \in Callers, NEW now \in Readings, NEW t0 \in Readings,
         Lead(c, now, t0), UNCHANGED maxInFlight
  PROVE  CimdInv'
<1> DEFINE id == callers[c].id
           r == [callers[c] EXCEPT !.pc = "leading", !.t0 = t0]
<1>1. callers[c] \in Caller /\ id \in Ids /\ ~Leads(c) /\ ~Parks(c)
  BY AtGuard DEF Lead, Miss, LookUp
<1>2. /\ r \in Caller
      /\ r.pc = "leading" /\ r.id = id
      /\ r.hit = callers[c].hit /\ r.now = callers[c].now
  BY <1>1 DEF Caller
<1>3. /\ Step(c, r) /\ UNCHANGED waiters
      /\ inFlight[id] = None
      /\ inFlight' = [inFlight EXCEPT ![id] = c]
      /\ Cardinality(Flights) < maxInFlight
  BY DEF Lead
<1> HIDE DEF r
<1>4. HitOK(r)
  BY <1>2 DEF HitOK, CimdInv, HitsOK
<1>5. /\ CallersOK' /\ HitsOK'
      /\ callers'[c] = r
      /\ \A d \in Callers \ {c} : callers'[d] = callers[d]
  BY <1>1, <1>2, <1>3, <1>4, StepBecomes DEF CimdInv
<1> HIDE DEF id
<1>6. TablesOK'
  BY <1>1, <1>3 DEF CimdInv, TablesOK
<1>7. inFlight'[id] = c /\ \A i \in Ids \ {id} : inFlight'[i] = inFlight[i]
  BY <1>1, <1>3 DEF CimdInv, TablesOK
<1>8. Registered'
  <2>1. ASSUME NEW i \in Ids, inFlight'[i] # None
        PROVE  /\ callers'[inFlight'[i]].pc \in {"leading", "led"}
               /\ callers'[inFlight'[i]].id = i
    <3>1. CASE i = id
      BY <1>2, <1>5, <1>7, <3>1
    <3>2. CASE i # id
      <4>1. inFlight'[i] = inFlight[i] /\ inFlight[i] \in Callers
        BY <1>7, <2>1, <3>2 DEF CimdInv, TablesOK
      <4>2. Leads(inFlight[i]) /\ callers[inFlight[i]].id = i
        BY <2>1, <4>1 DEF CimdInv, Registered
      <4>3. inFlight[i] # c
        BY <1>1, <4>2
      <4> QED BY <1>5, <4>1, <4>2, <4>3 DEF Leads
    <3> QED BY <3>1, <3>2
  <2>2. ASSUME NEW d \in Callers, callers'[d].pc \in {"leading", "led"}
        PROVE  inFlight'[callers'[d].id] = d
    <3>1. CASE d = c
      BY <1>2, <1>5, <1>7, <3>1
    <3>2. CASE d # c
      <4>1. callers'[d] = callers[d] /\ Leads(d)
        BY <1>5, <2>2, <3>2 DEF Leads
      <4>2. inFlight[callers[d].id] = d /\ callers[d].id \in Ids
        BY <4>1 DEF CimdInv, Registered, CallersOK, Leads
      <4>3. callers[d].id # id
        BY <1>3, <4>2, SlotsAssumption
      <4> QED BY <1>7, <4>1, <4>2, <4>3
    <3> QED BY <3>1, <3>2
  <2> QED BY <2>1, <2>2 DEF Registered, Leads
<1>9. Bounded'
  <2>1. Flights' = Flights \cup {id} /\ id \notin Flights
    BY <1>1, <1>3, <1>7, SlotsAssumption DEF Flights
  <2>2. IsFiniteSet(Flights') /\ Cardinality(Flights') = Cardinality(Flights) + 1
    BY <2>1, FS_AddElement DEF CimdInv, Bounded
  <2>3. Cardinality(Flights) \in Nat /\ maxInFlight \in Nat
    BY FS_CardinalityType, BoundsAssumption DEF CimdInv, Bounded, TablesOK
  <2>4. Cardinality(Flights') <= maxInFlight
    BY <1>3, <2>2, <2>3
  <2> QED BY <2>2, <2>4 DEF Bounded
<1>10. Counted'
  <2>1. \A d \in Callers : /\ Parks(d)' = Parks(d)
                           /\ Parks(d) => callers'[d].id = callers[d].id
    BY <1>1, <1>2, <1>5 DEF Parks
  <2> QED BY <1>3, <2>1, CountsKept DEF CimdInv
<1>11. CacheOK'
  BY LookUpKeeps DEF Lead, Miss
<1> QED BY <1>5, <1>6, <1>8, <1>9, <1>10, <1>11 DEF CimdInv

\* A fetch that settles moves its leader and its followers on, and leaves
\* what each holds.
LEMMA SettleKeeps ==
  ASSUME CimdInv, CacheOK', NEW c \in Callers, NEW ok \in BOOLEAN,
         callers[c].pc = "leading", Settle(c, ok), UNCHANGED <<inFlight, waiters, maxInFlight>>
  PROVE  CimdInv'
<1> DEFINE led == [callers[c] EXCEPT !.pc = "led", !.ok = ok]
           follows(d) == callers[d].pc = "following" /\ callers[d].leader = c
           resumed(d) == [callers[d] EXCEPT !.pc = "resumed", !.ok = ok]
<1>1. \A d \in Callers : callers[d] \in Caller
  BY DEF CimdInv, CallersOK
<1>2. /\ led \in Caller
      /\ led.pc = "led" /\ led.id = callers[c].id
      /\ led.hit = callers[c].hit /\ led.now = callers[c].now
  BY <1>1 DEF Caller
<1>3. \A d \in Callers : /\ resumed(d) \in Caller
                         /\ resumed(d).pc = "resumed" /\ resumed(d).id = callers[d].id
                         /\ resumed(d).hit = callers[d].hit /\ resumed(d).now = callers[d].now
  BY <1>1 DEF Caller
<1>4. /\ callers' = [d \in Callers |-> callers'[d]]
      /\ \A d \in Callers : callers'[d] = IF d = c THEN led
                                          ELSE IF follows(d) THEN resumed(d) ELSE callers[d]
  BY DEF Settle
<1> HIDE DEF led, resumed
<1>5. \A d \in Callers : /\ callers'[d] \in Caller
                         /\ callers'[d].id = callers[d].id
                         /\ callers'[d].hit = callers[d].hit
                         /\ callers'[d].now = callers[d].now
  BY <1>1, <1>2, <1>3, <1>4
<1>6. \A d \in Callers : Leads(d)' = Leads(d) /\ Parks(d)' = Parks(d)
  BY <1>2, <1>3, <1>4 DEF Leads, Parks
<1>7. \A d \in Callers : callers'[d].pc # "idle" => callers[d].pc # "idle"
  BY <1>2, <1>3, <1>4
<1>8. CallersOK'
  <2>1. callers' \in [Callers -> Caller]
    BY <1>4, <1>5
  <2> QED BY <1>5, <1>7, <2>1 DEF CimdInv, CallersOK
<1>9. HitsOK'
  <2>1. \A d \in Callers : HitOK(callers'[d])
    BY <1>5 DEF CimdInv, HitsOK, HitOK
  <2> QED BY <2>1 DEF HitsOK, HitOK, Current, Entry
<1>10. Registered' /\ Bounded'
  BY <1>5, <1>6, FlightsKept DEF CimdInv, TablesOK
<1>11. Counted'
  BY <1>5, <1>6, CountsKept DEF CimdInv
<1>12. TablesOK'
  BY DEF CimdInv, TablesOK
<1> QED BY <1>8, <1>9, <1>10, <1>11, <1>12 DEF CimdInv

\* An answer is stored only with a lifetime, counted from its request.
LEMMA FetchAnswersKeeps ==
  ASSUME CimdInv, NEW c \in Callers, NEW t1 \in Readings, NEW view \in Views \cup {None},
         FetchAnswers(c, t1, view), UNCHANGED maxInFlight
  PROVE  CimdInv'
<1>1. callers[c] \in Caller /\ callers[c].id \in Ids /\ callers[c].t0 \in Readings
  BY DEF FetchAnswers, CimdInv, CallersOK, Caller
<1>2. CacheOK'
  <2>1. CASE view # None /\ Cacheable(view, callers[c].t0, t1)
    <3> DEFINE t0 == callers[c].t0
               entry == [id |-> callers[c].id, requestedAt |-> t0, storedAt |-> t1,
                         expiresAt |-> t1 + Ttl(view, t0, t1)]
    <3>1. Set(entry)
      BY <2>1 DEF FetchAnswers
    <3>2. /\ t0 \in Times /\ t1 \in Times
          /\ t1 + Ttl(view, t0, t1) \in Nat
          /\ t1 + Ttl(view, t0, t1) <= t0 + Cap
      BY <1>1, <2>1, TtlBound
    <3>3. entry \in Entry
      BY <1>1, <3>2 DEF Entry
    <3>4. entry.expiresAt <= entry.requestedAt + Cap
      BY <3>2
    <3> HIDE DEF entry
    <3> QED BY <3>1, <3>3, <3>4, SetKeeps DEF CimdInv
  <2>2. CASE ~(view # None /\ Cacheable(view, callers[c].t0, t1))
    BY <2>2, CacheKept DEF FetchAnswers, CimdInv
  <2> QED BY <2>1, <2>2
<1> QED BY <1>2, SettleKeeps DEF FetchAnswers

\* A refused or timed-out fetch stores nothing.
LEMMA FetchFailsKeeps ==
  ASSUME CimdInv, NEW c \in Callers, FetchFails(c), UNCHANGED maxInFlight
  PROVE  CimdInv'
<1>1. CacheOK'
  BY CacheKept DEF FetchFails, CimdInv
<1> QED BY <1>1, SettleKeeps DEF FetchFails

\* What a caller that resumes becomes.
LEMMA ResumeBecomes ==
  ASSUME CallersOK, HitsOK, NEW c \in Callers, callers[c].pc # "idle", Resume(c)
  PROVE  /\ CallersOK' /\ HitsOK'
         /\ callers'[c].pc \in {"idle", "matching"}
         /\ \A d \in Callers \ {c} : callers'[d] = callers[d]
<1>1. CASE callers[c].ok
  <2> DEFINE r == [callers[c] EXCEPT !.pc = "matching"]
  <2>1. callers[c] \in Caller /\ callers[c].id \in Ids
    BY DEF CallersOK
  <2>2. /\ r \in Caller
        /\ r.pc = "matching" /\ r.id = callers[c].id
        /\ r.hit = callers[c].hit /\ r.now = callers[c].now
    BY <2>1 DEF Caller
  <2>3. Step(c, r)
    BY <1>1 DEF Resume
  <2> HIDE DEF r
  <2>4. HitOK(r)
    BY <2>2 DEF HitOK, HitsOK
  <2> QED BY <2>1, <2>2, <2>3, <2>4, StepBecomes
<1>2. CASE ~callers[c].ok
  BY <1>2, IdleCaller, StepBecomes DEF Resume, Answer
<1> QED BY <1>1, <1>2

\* The leader that resumes takes its own fetch off the table.
LEMMA LeaderReturnsKeeps ==
  ASSUME CimdInv, NEW c \in Callers, LeaderReturns(c), UNCHANGED maxInFlight
  PROVE  CimdInv'
<1>1. callers[c].id \in Ids /\ Leads(c)
  BY DEF LeaderReturns, CimdInv, CallersOK, Leads
<1> PICK id \in Ids : id = callers[c].id
  BY <1>1
<1>2. inFlight[id] = c
  BY <1>1 DEF CimdInv, Registered
<1>3. /\ CallersOK' /\ HitsOK'
      /\ callers'[c].pc \in {"idle", "matching"}
      /\ \A d \in Callers \ {c} : callers'[d] = callers[d]
  BY ResumeBecomes DEF LeaderReturns, CimdInv
<1>4. inFlight'[id] = None /\ \A i \in Ids \ {id} : inFlight'[i] = inFlight[i]
  BY DEF LeaderReturns, CimdInv, TablesOK
<1>5. TablesOK'
  BY DEF LeaderReturns, CimdInv, TablesOK
<1>6. Registered'
  <2>1. ASSUME NEW i \in Ids, inFlight'[i] # None
        PROVE  /\ callers'[inFlight'[i]].pc \in {"leading", "led"}
               /\ callers'[inFlight'[i]].id = i
    <3>1. i # id /\ inFlight'[i] = inFlight[i] /\ inFlight[i] \in Callers
      BY <1>4, <2>1 DEF CimdInv, TablesOK
    <3>2. Leads(inFlight[i]) /\ callers[inFlight[i]].id = i
      BY <2>1, <3>1 DEF CimdInv, Registered
    <3>3. inFlight[i] # c
      BY <3>1, <3>2
    <3> QED BY <1>3, <3>1, <3>2, <3>3 DEF Leads
  <2>2. ASSUME NEW d \in Callers, callers'[d].pc \in {"leading", "led"}
        PROVE  inFlight'[callers'[d].id] = d
    <3>1. d # c /\ callers'[d] = callers[d] /\ Leads(d)
      BY <1>3, <2>2 DEF Leads
    <3>2. inFlight[callers[d].id] = d /\ callers[d].id \in Ids
      BY <3>1 DEF CimdInv, Registered, CallersOK, Leads
    <3> QED BY <1>2, <1>4, <3>1, <3>2
  <2> QED BY <2>1, <2>2 DEF Registered, Leads
<1>7. Bounded'
  <2>1. Flights' = Flights \ {id} /\ id \in Flights
    BY <1>2, <1>4, SlotsAssumption DEF Flights
  <2>2. IsFiniteSet(Flights') /\ Cardinality(Flights') = Cardinality(Flights) - 1
    BY <2>1, FS_RemoveElement DEF CimdInv, Bounded
  <2>3. Cardinality(Flights) \in Nat /\ maxInFlight \in Nat /\ maxInFlight' = maxInFlight
    BY FS_CardinalityType, BoundsAssumption DEF CimdInv, Bounded, TablesOK
  <2>4. Cardinality(Flights') <= maxInFlight'
    BY <2>2, <2>3 DEF CimdInv, Bounded
  <2> QED BY <2>2, <2>4 DEF Bounded
<1>8. Counted'
  <2>1. \A d \in Callers : /\ Parks(d)' = Parks(d)
                           /\ Parks(d) => callers'[d].id = callers[d].id
    BY <1>3 DEF Parks, LeaderReturns
  <2> QED BY <2>1, CountsKept DEF CimdInv, LeaderReturns
<1>9. CacheOK'
  BY CacheKept DEF LeaderReturns, CimdInv
<1> QED BY <1>3, <1>5, <1>6, <1>7, <1>8, <1>9 DEF CimdInv

\* The follower that resumes gives its own waiter slot back.
LEMMA FollowerReturnsKeeps ==
  ASSUME CimdInv, NEW c \in Callers, FollowerReturns(c), UNCHANGED maxInFlight
  PROVE  CimdInv'
<1>1. callers[c].id \in Ids /\ Parks(c) /\ ~Leads(c)
  BY DEF FollowerReturns, CimdInv, CallersOK, Parks, Leads
<1> PICK id \in Ids : id = callers[c].id
  BY <1>1
<1>2. /\ CallersOK' /\ HitsOK'
      /\ callers'[c].pc \in {"idle", "matching"}
      /\ \A d \in Callers \ {c} : callers'[d] = callers[d]
  BY ResumeBecomes DEF FollowerReturns, CimdInv
<1>3. waiters' = [waiters EXCEPT ![id] = IF @ > 0 THEN @ - 1 ELSE 0]
  BY DEF FollowerReturns, Release
<1>4. Registered' /\ Bounded'
  <2>1. \A d \in Callers : /\ Leads(d)' = Leads(d)
                           /\ Leads(d) => callers'[d].id = callers[d].id
    BY <1>1, <1>2 DEF Leads
  <2> QED BY <2>1, FlightsKept DEF CimdInv, TablesOK, FollowerReturns
<1>5. Counted'
  <2>1. Parked(id)' = Parked(id) \ {c} /\ c \in Parked(id)
    BY <1>1, <1>2 DEF Parked, Parks
  <2>2. IsFiniteSet(Parked(id)) /\ waiters[id] = Cardinality(Parked(id))
    BY DEF CimdInv, Counted
  <2>3. IsFiniteSet(Parked(id)') /\ Cardinality(Parked(id)') = waiters[id] - 1
    BY <2>1, <2>2, FS_RemoveElement
  <2>4. waiters[id] \in Nat /\ waiters[id] # 0
    <3>1. waiters[id] \in Nat
      BY DEF CimdInv, TablesOK
    <3>2. Parked(id) # {}
      BY <2>1
    <3> QED BY <2>2, <3>1, <3>2, FS_EmptySet
  <2>5. waiters'[id] = waiters[id] - 1 /\ \A i \in Ids \ {id} : waiters'[i] = waiters[i]
    BY <1>3, <2>4 DEF CimdInv, TablesOK
  <2>6. \A i \in Ids \ {id} : Parked(i)' = Parked(i)
    BY <1>1, <1>2 DEF Parked, Parks
  <2>7. \A i \in Ids : IsFiniteSet(Parked(i)') /\ waiters'[i] = Cardinality(Parked(i)')
    BY <2>3, <2>5, <2>6 DEF CimdInv, Counted
  <2> QED BY <2>7 DEF Counted
<1>6. TablesOK'
  BY <1>3 DEF CimdInv, TablesOK, FollowerReturns
<1>7. CacheOK'
  BY CacheKept DEF FollowerReturns, CimdInv
<1> QED BY <1>2, <1>4, <1>5, <1>6, <1>7 DEF CimdInv

-----------------------------------------------------------------------------
(* The theorems *)

\* A new resolver has nothing in flight, counted or cached.
LEMMA CimdInit == Init => CimdInv
<1> SUFFICES ASSUME Init
             PROVE  CimdInv
  OBVIOUS
<1> USE DEF Init
<1>1. CallersOK /\ HitsOK
  BY IdleCaller DEF CallersOK, HitsOK
<1>2. TablesOK
  BY DEF TablesOK
<1>3. \A c \in Callers : ~Leads(c) /\ ~Parks(c)
  BY IdleCaller DEF Leads, Parks
<1>4. Registered
  BY <1>3 DEF Registered
<1>5. Bounded
  <2>1. Flights = {}
    BY DEF Flights
  <2>2. maxInFlight \in Nat
    BY BoundsAssumption
  <2> QED BY <2>1, <2>2, FS_EmptySet DEF Bounded
<1>6. Counted
  <2>1. \A id \in Ids : Parked(id) = {}
    BY <1>3 DEF Parked
  <2> QED BY <2>1, FS_EmptySet DEF Counted
<1>7. CacheOK
  BY BoundsAssumption DEF CacheOK, Sound, Readings
<1> QED BY <1>1, <1>2, <1>4, <1>5, <1>6, <1>7 DEF CimdInv

\* Every step keeps the invariant.
LEMMA CimdStep == CimdInv /\ [Next]_<<vars, maxInFlight>> => CimdInv'
<1> SUFFICES ASSUME CimdInv, [Next]_<<vars, maxInFlight>>
             PROVE  CimdInv'
  OBVIOUS
<1>1. ASSUME Next
      PROVE  CimdInv'
  <2>1. UNCHANGED maxInFlight
    BY <1>1 DEF Next
  <2>2. PICK c \in Callers :
          \/ \E id \in Ids : Arrive(c, id)
          \/ Admit(c)
          \/ \E t1 \in Readings, view \in Views \cup {None} : FetchAnswers(c, t1, view)
          \/ FetchFails(c)
          \/ Deadline(c)
          \/ Return(c)
    BY <1>1 DEF Next
  <2>3. CASE \E id \in Ids : Arrive(c, id)
    BY <2>1, <2>3, ArriveKeeps
  <2>4. CASE Admit(c)
    <3>1. CASE GuardDenies(c)
      <4>1. ~Leads(c) /\ ~Parks(c)
        BY <3>1, AtGuard DEF GuardDenies
      <4>2. CacheOK'
        BY <3>1, CacheKept DEF GuardDenies, CimdInv
      <4> QED BY <2>1, <3>1, <4>1, <4>2, AnswerKeeps DEF GuardDenies
    <3>2. ASSUME NEW now \in Readings, Hit(c, now)
          PROVE  CimdInv'
      BY <2>1, <3>2, HitKeeps
    <3>3. ASSUME NEW now \in Readings, Follow(c, now)
          PROVE  CimdInv'
      BY <2>1, <3>3, FollowKeeps
    <3>4. ASSUME NEW now \in Readings, RefuseFollower(c, now) \/ Overload(c, now)
          PROVE  CimdInv'
      <4>1. LookUp(c, now) /\ Answer(c) /\ UNCHANGED <<inFlight, waiters>>
        BY <3>4 DEF RefuseFollower, Overload, Miss
      <4>2. ~Leads(c) /\ ~Parks(c)
        BY <4>1, AtGuard DEF LookUp
      <4> QED BY <2>1, <4>1, <4>2, LookUpKeeps, AnswerKeeps
    <3>5. ASSUME NEW now \in Readings, NEW t0 \in Readings, Lead(c, now, t0)
          PROVE  CimdInv'
      BY <2>1, <3>5, LeadKeeps
    <3> QED BY <2>4, <3>1, <3>2, <3>3, <3>4, <3>5 DEF Admit
  <2>5. CASE \E t1 \in Readings, view \in Views \cup {None} : FetchAnswers(c, t1, view)
    BY <2>1, <2>5, FetchAnswersKeeps
  <2>6. CASE FetchFails(c) \/ Deadline(c)
    BY <2>1, <2>6, FetchFailsKeeps DEF Deadline
  <2>7. CASE Return(c)
    <3>1. CASE LeaderReturns(c)
      BY <2>1, <3>1, LeaderReturnsKeeps
    <3>2. CASE FollowerReturns(c)
      BY <2>1, <3>2, FollowerReturnsKeeps
    <3>3. CASE Match(c)
      <4>1. ~Leads(c) /\ ~Parks(c)
        BY <3>3 DEF Match, Leads, Parks
      <4>2. CacheOK'
        BY <3>3, CacheKept DEF Match, CimdInv
      <4> QED BY <2>1, <3>3, <4>1, <4>2, AnswerKeeps DEF Match
    <3> QED BY <2>7, <3>1, <3>2, <3>3 DEF Return
  <2> QED BY <2>2, <2>3, <2>4, <2>5, <2>6, <2>7
<1>2. ASSUME UNCHANGED <<vars, maxInFlight>>
      PROVE  CimdInv'
  <2>1. UNCHANGED <<cache, lastObserved, inFlight, waiters, callers, maxInFlight>>
    BY <1>2 DEF vars
  <2>2. CallersOK' /\ TablesOK' /\ HitsOK'
    BY <2>1 DEF CimdInv, CallersOK, TablesOK, HitsOK, HitOK, Current, Entry
  <2>3. Registered' /\ Bounded'
    BY <2>1, FlightsKept DEF CimdInv, TablesOK, Leads
  <2>4. Counted'
    BY <2>1, CountsKept DEF CimdInv, Parks
  <2>5. CacheOK'
    BY <2>1, CacheKept DEF CimdInv
  <2> QED BY <2>2, <2>3, <2>4, <2>5 DEF CimdInv
<1> QED BY <1>1, <1>2

\* The leaders of fetches under way are at most as many as the ids that have
\* an entry in the table: the table names each of them.
LEMMA LeadersBounded ==
  ASSUME CimdInv
  PROVE  LET leading == {c \in Callers : callers[c].pc = "leading"}
         IN  Cardinality(leading) <= maxInFlight
<1> DEFINE leading == {c \in Callers : callers[c].pc = "leading"}
           of == [c \in leading |-> callers[c].id]
<1>1. \A c \in leading : inFlight[callers[c].id] = c /\ callers[c].id \in Flights
  BY SlotsAssumption DEF CimdInv, Registered, Leads, CallersOK, Flights
<1>2. of \in Injection(leading, Flights)
  <2>1. of \in [leading -> Flights]
    BY <1>1
  <2>2. \A c, d \in leading : of[c] = of[d] => c = d
    BY <1>1
  <2> QED BY <2>1, <2>2 DEF Injection, IsInjective
<1>3. IsFiniteSet(Flights) /\ Cardinality(Flights) <= maxInFlight
  BY DEF CimdInv, Bounded
<1> HIDE DEF of, leading
<1>4. IsFiniteSet(leading) /\ Cardinality(leading) <= Cardinality(Flights)
  BY <1>2, <1>3, FS_Injection
<1>5. Cardinality(leading) \in Nat /\ Cardinality(Flights) \in Nat /\ maxInFlight \in Nat
  BY <1>3, <1>4, FS_CardinalityType, BoundsAssumption DEF CimdInv, TablesOK
<1>6. Cardinality(leading) <= maxInFlight
  BY <1>3, <1>4, <1>5
<1> QED BY <1>6 DEF leading

\* One fetch of an id at a time, and at most maxInFlight in all, however
\* callers arrive between a fetch that settles and the leader that takes it
\* off the table (CimdResolver.#registrationFor).
THEOREM SingleFlightCorrect == Spec => []SingleFlight
<1>1. CimdInv => SingleFlight
  <2> SUFFICES ASSUME CimdInv
               PROVE  SingleFlight
    OBVIOUS
  <2>1. \A c \in Callers : callers[c].pc = "leading" => inFlight[callers[c].id] = c
    BY DEF CimdInv, Registered, Leads
  <2> QED BY <2>1, LeadersBounded DEF SingleFlight
<1> QED BY <1>1, CimdInit, CimdStep, PTL DEF Spec

\* The count of an id is the number of its followers, however fetches fail,
\* time out or settle beside new followers (WaiterCounts).
THEOREM WaitersCountedCorrect == Spec => []WaitersCounted
<1>1. CimdInv => WaitersCounted
  <2>1. ASSUME NEW id \in Ids
        PROVE  Parked(id) = {c \in Callers : /\ callers[c].id = id
                                             /\ callers[c].pc \in {"following", "resumed"}}
    BY DEF Parked, Parks
  <2> QED BY <2>1 DEF CimdInv, Counted, WaitersCounted
<1> QED BY <1>1, CimdInit, CimdStep, PTL DEF Spec

\* No hit precedes its entry's storage or outlives its request by the cap,
\* under any clock, and the cache keeps one entry per id within its ceiling
\* (CimdSuccessCache).
THEOREM HitFreshCorrect == Spec => []HitFresh
<1>1. CimdInv => HitFresh
  <2> SUFFICES ASSUME CimdInv
               PROVE  HitFresh
    OBVIOUS
  <2>1. ASSUME NEW c \in Callers, callers[c].hit # None
        PROVE  /\ callers[c].hit.id = callers[c].id
               /\ callers[c].hit.storedAt <= callers[c].now
               /\ callers[c].now < callers[c].hit.requestedAt + Cap
    <3>1. HitOK(callers[c])
      BY DEF CimdInv, HitsOK
    <3>2. /\ callers[c].hit \in Entry /\ callers[c].hit.id = callers[c].id
          /\ callers[c].now \in Times
          /\ Current(callers[c].hit, callers[c].now)
          /\ callers[c].now < callers[c].hit.expiresAt
      BY <2>1, <3>1 DEF HitOK
    <3>3. /\ callers[c].now \in Nat /\ callers[c].hit.requestedAt \in Nat
          /\ callers[c].hit.expiresAt \in Nat
      BY <3>2, TimesAssumption DEF Entry
    <3> QED BY <3>2, <3>3, TimesAssumption DEF Current
  <2>2. Len(cache) <= MaxEntries /\ \A i, j \in DOMAIN cache : cache[i].id = cache[j].id => i = j
    BY DEF CimdInv, CacheOK, Sound
  <2> QED BY <2>1, <2>2 DEF HitFresh
<1> QED BY <1>1, CimdInit, CimdStep, PTL DEF Spec
=============================================================================
