--------------------------- MODULE ConsolePairing ---------------------------
(***************************************************************************)
(* ConsolePairingIdentity (src/identity/console-pairing.ts) behind its     *)
(* authorize handler (src/adapters/pairing-flow.ts): one code at a time is *)
(* printed on the console and pasted back.  A request asks for a session,  *)
(* or submits a code and, when that fails, asks for a session.  verify()   *)
(* awaits the rate limiter, judges in one synchronous step and awaits its  *)
(* audit record; requests interleave at every await.  The audit port       *)
(* settles and its failures are dropped (src/audit/best-effort.ts).        *)
(*                                                                         *)
(* A code stands for the pair of code and form nonce.  A code's value is   *)
(* used again once nobody holds it, which stands for codes never repeating.*)
(***************************************************************************)
EXTENDS RedisRateLimit

CONSTANTS
  Codes,
  Wrong,         \* a submission that matches no code
  MaxAttempts,
  CodeTtl,
  Times,         \* clock readings; a clock may go backward
  None

\* A code that can be redeemed.
Session == [code : Codes, expiresAt : Nat, wrong : Nat]

ASSUME PairingAssumption ==
  /\ Wrong \notin Codes /\ None \notin Codes /\ None \notin Session
  /\ MaxAttempts \in Nat \ {0} /\ CodeTtl \in Nat \ {0}
  /\ Times \subseteq Nat

VARIABLES
  active,       \* the code that can be redeemed, or None
  generating,   \* the code of the generation in flight, or None
  requests,     \* caller -> its request
  fate,         \* history: code -> what became of it
  tries         \* history: wrong submissions judged since a code was last published

pairingVars == <<rateVars, active, generating, requests, fate, tries>>

\* code: what the request submitted, generates, or waits for.
Request == [pc : {"idle", "begin", "print", "printed", "failed", "shared",
                  "limit", "paired", "refused", "audit", "auditFailed"},
            code : Codes \cup {Wrong, None},
            expiresAt : Nat]

IdleRequest == [pc |-> "idle", code |-> None, expiresAt |-> 0]

RequestAt(c, pc) == requests[c].pc = pc

SetRequest(c, pc, code, expiresAt) ==
  requests' = [requests EXCEPT ![c] = [pc |-> pc, code |-> code, expiresAt |-> expiresAt]]

Answer(c) == requests' = [requests EXCEPT ![c] = IdleRequest]

Move(c, pc) == requests' = [requests EXCEPT ![c].pc = pc]

Bury(S) == fate' = [k \in Codes |-> IF k \in S THEN "dead" ELSE fate[k]]

ActiveCodes == IF active = None THEN {} ELSE {active.code}

Held == ActiveCodes \cup {generating} \cup {requests[c].code : c \in Calls}

-----------------------------------------------------------------------------
(* beginSession *)

AskSession(c) ==
  /\ RequestAt(c, "idle")
  /\ Move(c, "begin")
  /\ UNCHANGED <<rateVars, active, generating, fate, tries>>

\* A slip: a generation in flight is not shared.
MutInFlight == FALSE

InFlight == generating # None

Share(c) ==
  /\ RequestAt(c, "begin") /\ InFlight
  /\ SetRequest(c, "shared", generating, 0)
  /\ UNCHANGED <<rateVars, active, generating, fate, tries>>

Reusable(now) == active # None /\ now < active.expiresAt /\ active.wrong < MaxAttempts

Reuse(c) ==
  /\ RequestAt(c, "begin") /\ ~InFlight
  /\ \E now \in Times : Reusable(now)
  /\ Answer(c)
  /\ UNCHANGED <<rateVars, active, generating, fate, tries>>

\* The code that was active stays so until the new one is printed, although
\* the clock has been seen to pass its expiry.
Generate(c) ==
  /\ RequestAt(c, "begin") /\ ~InFlight
  /\ \E k \in Codes : k \notin Held   \* bound: the values of codes
  /\ \E seen, now \in Times :
       LET k == CHOOSE j \in Codes : j \notin Held IN
       /\ ~Reusable(seen)
       /\ now + CodeTtl \in Times
       /\ SetRequest(c, "print", k, now + CodeTtl)
       /\ generating' = k
       /\ fate' = [j \in Codes |-> IF j = k THEN "printing"
                                   ELSE IF j \in ActiveCodes THEN "expired"
                                   ELSE IF j \in Held THEN fate[j] ELSE "dead"]
  /\ UNCHANGED <<rateVars, active, tries>>

\* The clock throws before anything is printed.
BeginThrows(c) ==
  /\ RequestAt(c, "begin") /\ ~InFlight
  /\ Answer(c)
  /\ UNCHANGED <<rateVars, active, generating, fate, tries>>

\* output.write settled: only now is the code published.
PrintSettles(c) ==
  /\ RequestAt(c, "print")
  /\ active' = [code |-> requests[c].code, expiresAt |-> requests[c].expiresAt, wrong |-> 0]
  /\ fate' = [k \in Codes |-> IF k = requests[c].code THEN "live"
                              ELSE IF fate[k] = "expired" THEN "dead" ELSE fate[k]]
  /\ tries' = 0
  /\ Move(c, "printed")
  /\ UNCHANGED <<rateVars, generating>>

PrintFails(c) ==
  /\ RequestAt(c, "print")
  /\ fate' = [fate EXCEPT ![requests[c].code] = "failed"]
  /\ Move(c, "failed")
  /\ UNCHANGED <<rateVars, active, generating, tries>>

\* The finally clause, some microtasks after the promise settled.
Generated(c) ==
  /\ requests[c].pc \in {"printed", "failed"}
  /\ generating' = None
  /\ Answer(c)
  /\ UNCHANGED <<rateVars, active, fate, tries>>

\* A slip: a print that failed rejects nobody.
MutSettled(k) == fate[k] = "live"

Settled(k) == fate[k] # "printing"

\* Whoever shared the promise gets its session or its error.
Shared(c) ==
  /\ RequestAt(c, "shared")
  /\ Settled(requests[c].code)
  /\ Answer(c)
  /\ UNCHANGED <<rateVars, active, generating, fate, tries>>

-----------------------------------------------------------------------------
(* verify *)

Submit(c) ==
  /\ RequestAt(c, "idle")
  /\ \E k \in (Held \cap Codes) \cup {Wrong} : SetRequest(c, "limit", k, 0)
  /\ StartCheck(c)
  /\ UNCHANGED <<active, generating, fate, tries>>

\* A slip: one submission too many.
MutExhausted(wrong) == wrong > MaxAttempts

Exhausted(wrong) == wrong >= MaxAttempts

\* A limiter that throws allows; one that denies costs no attempt.
Deny(c) ==
  /\ RequestAt(c, "limit") /\ checks[c].pc = "denied"
  /\ Move(c, "refused")
  /\ checks' = [checks EXCEPT ![c] = NoCheck]
  /\ UNCHANGED <<scripts, count, active, generating, fate, tries>>

Judging(c) ==
  /\ RequestAt(c, "limit") /\ checks[c].pc \in {"allowed", "threw"}
  /\ checks' = [checks EXCEPT ![c] = NoCheck]
  /\ UNCHANGED <<scripts, count, generating>>

JudgeNothing(c) ==
  /\ Judging(c)
  /\ active = None
  /\ Move(c, "refused")
  /\ UNCHANGED <<active, fate, tries>>

JudgeExpired(c) ==
  /\ Judging(c)
  /\ active # None /\ \E now \in Times : now >= active.expiresAt
  /\ active' = None
  /\ Bury(ActiveCodes)
  /\ Move(c, "refused")
  /\ UNCHANGED tries

InTime == active # None /\ \E now \in Times : now < active.expiresAt

JudgeRight(c) ==
  /\ Judging(c)
  /\ InTime /\ requests[c].code = active.code
  /\ active' = None
  /\ Bury(ActiveCodes)
  /\ Move(c, "paired")
  /\ UNCHANGED tries

JudgeWrong(c) ==
  /\ Judging(c)
  /\ InTime /\ requests[c].code # active.code
  /\ tries' = tries + 1
  /\ IF Exhausted(active.wrong + 1) THEN active' = None /\ Bury(ActiveCodes)
     ELSE active' = [active EXCEPT !.wrong = @ + 1] /\ UNCHANGED fate
  /\ Move(c, "refused")

\* The clock throws, before the judgement or for the record's timestamp: the
\* request fails, and a code it redeemed is spent.
JudgeThrows(c) ==
  /\ Judging(c)
  /\ active # None
  /\ Answer(c)
  /\ UNCHANGED <<active, fate, tries>>

EmitThrows(c) ==
  /\ requests[c].pc \in {"paired", "refused"}
  /\ Answer(c)
  /\ UNCHANGED <<rateVars, active, generating, fate, tries>>

Emit(c) ==
  /\ requests[c].pc \in {"paired", "refused"}
  /\ Move(c, IF RequestAt(c, "paired") THEN "audit" ELSE "auditFailed")
  /\ UNCHANGED <<rateVars, active, generating, fate, tries>>

\* A success goes on to the bridge; a failure asks for a session again.
Recorded(c) ==
  /\ requests[c].pc \in {"audit", "auditFailed"}
  /\ SetRequest(c, IF RequestAt(c, "audit") THEN "idle" ELSE "begin", None, 0)
  /\ UNCHANGED <<rateVars, active, generating, fate, tries>>

\* Process memory only: a restart forgets every code.
Restart ==
  /\ active' = None /\ generating' = None
  /\ requests' = [c \in Calls |-> IdleRequest]
  /\ checks' = [c \in Calls |-> NoCheck]
  /\ Bury(Codes)
  /\ tries' = 0
  /\ UNCHANGED <<scripts, count>>

-----------------------------------------------------------------------------
PairingInit ==
  /\ RateInit
  /\ active = None /\ generating = None
  /\ requests = [c \in Calls |-> IdleRequest]
  /\ fate = [k \in Codes |-> "dead"]
  /\ tries = 0

Arrive(c) == AskSession(c) \/ Submit(c)

Begin(c) == Share(c) \/ Reuse(c) \/ Generate(c) \/ BeginThrows(c)

Judge(c) == JudgeNothing(c) \/ JudgeExpired(c) \/ JudgeRight(c) \/ JudgeWrong(c) \/ JudgeThrows(c)

RequestStep(c) ==
  \/ Begin(c) \/ PrintSettles(c) \/ PrintFails(c) \/ Generated(c) \/ Shared(c)
  \/ Deny(c) \/ Judge(c) \/ EmitThrows(c) \/ Emit(c) \/ Recorded(c)

pairingOnly == <<active, generating, requests, fate, tries>>

LimiterStep(c) == CheckStep(c) /\ UNCHANGED pairingOnly

PairingNext ==
  \/ \E c \in Calls : Arrive(c) \/ RequestStep(c) \/ LimiterStep(c)
  \/ RedisEvent /\ UNCHANGED pairingOnly
  \/ Restart

\* The promises a request awaits settle: the console's write, Redis's answers
\* or errors, the audit port.
PairingSpec ==
  /\ PairingInit /\ [][PairingNext]_pairingVars
  /\ \A c \in Calls : WF_pairingVars(RequestStep(c)) /\ WF_pairingVars(LimiterStep(c))

-----------------------------------------------------------------------------
\* The code a page asked for can still be pasted: what was printed is the
\* active code until it is redeemed, used up, or seen to expire.  No request,
\* however it interleaves, replaces or clears a live code; and a code that was
\* redeemed, used up or never printed is not redeemable, also not while the
\* record of its redemption is being written and others submit it.
PrintedCodeLives ==
  \A k \in Codes :
    /\ fate[k] = "live" => ActiveCodes = {k}
    /\ fate[k] \in {"printing", "failed", "dead"} => k \notin ActiveCodes

\* At most MaxAttempts wrong submissions are judged against one code, however
\* many are in flight when the last one is spent.
GuessesCapped == tries <= MaxAttempts

\* Every request is answered, whatever Redis and the console do to the promises
\* it waits for: also one that shares a generation whose print fails, and one
\* that fails to pair and then asks for a session.
EveryRequestAnswered == \A c \in Calls : requests[c].pc # "idle" ~> requests[c].pc = "idle"
=============================================================================
