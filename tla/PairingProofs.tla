---------------------------- MODULE PairingProofs ----------------------------
(***************************************************************************)
(* The safety properties of ConsolePairing, and of the rate limit in front *)
(* of it, for any callers, codes, clock readings, limit and attempt cap.   *)
(***************************************************************************)
EXTENDS ConsolePairing, TLAPS

-----------------------------------------------------------------------------
(* What a step does to the requests *)

RequestsTyped == requests \in [Calls -> Request]

\* c's request is at pc with code, and every other one is as it was.
Becomes(c, pc, code) ==
  /\ RequestsTyped'
  /\ requests'[c].pc = pc /\ requests'[c].code = code
  /\ \A d \in Calls \ {c} : requests'[d] = requests[d]

Pcs == {"idle", "begin", "print", "printed", "failed", "shared",
        "limit", "paired", "refused", "audit", "auditFailed"}

\* A request that moves on keeps its code.
LEMMA MoveBecomes ==
  ASSUME RequestsTyped, NEW c \in Calls, NEW pc \in Pcs, Move(c, pc)
  PROVE  Becomes(c, pc, requests[c].code)
<1>1. requests[c] \in Request
  BY DEF RequestsTyped
<1>2. requests' = [requests EXCEPT ![c] = [requests[c] EXCEPT !.pc = pc]]
  BY DEF Move
<1> DEFINE r == [requests[c] EXCEPT !.pc = pc]
<1>3. r \in Request /\ r.pc = pc /\ r.code = requests[c].code
  BY <1>1 DEF Request, Pcs
<1> HIDE DEF r
<1>4. requests' = [requests EXCEPT ![c] = r]
  BY <1>2 DEF r
<1> QED BY <1>3, <1>4 DEF Becomes, RequestsTyped

\* A request that is set becomes what it is set to, and no other changes.
LEMMA SetBecomes ==
  ASSUME RequestsTyped, NEW c \in Calls, NEW pc \in Pcs,
         NEW code \in Codes \cup {Wrong, None}, NEW at \in Nat, SetRequest(c, pc, code, at)
  PROVE  Becomes(c, pc, code)
<1> DEFINE r == [pc |-> pc, code |-> code, expiresAt |-> at]
<1>1. r \in Request /\ r.pc = pc /\ r.code = code
  BY DEF Request, Pcs
<1>2. requests' = [requests EXCEPT ![c] = r]
  BY DEF SetRequest
<1> HIDE DEF r
<1> QED BY <1>1, <1>2 DEF Becomes, RequestsTyped

\* A request that is answered leaves its slot empty.
LEMMA AnswerBecomes ==
  ASSUME RequestsTyped, NEW c \in Calls, Answer(c)
  PROVE  Becomes(c, "idle", None)
<1>1. SetRequest(c, "idle", None, 0)
  BY DEF Answer, SetRequest, IdleRequest
<1> QED BY <1>1, SetBecomes DEF Pcs

\* A request whose audit was recorded ends, or begins a new generation.
LEMMA RecordedBecomes ==
  ASSUME RequestsTyped, NEW c \in Calls, Recorded(c)
  PROVE  \E pc \in {"idle", "begin"} : Becomes(c, pc, None)
<1>1. CASE SetRequest(c, "idle", None, 0)
  BY <1>1, SetBecomes DEF Pcs
<1>2. CASE SetRequest(c, "begin", None, 0)
  BY <1>2, SetBecomes DEF Pcs
<1> QED BY <1>1, <1>2 DEF Recorded

-----------------------------------------------------------------------------
(* A check charges once *)

\* A check that may still run the script has not run it.
ChargedInv ==
  /\ checks \in [Calls -> CheckState]
  /\ \A c \in Calls :
       /\ checks[c].charged <= 1
       /\ checks[c].pc \in {"evalsha", "eval"} => checks[c].charged = 0

\* A check is replaced by one that keeps the invariant.
LEMMA ChargedSet ==
  ASSUME ChargedInv, NEW c \in Calls,
         NEW pc \in {"idle", "evalsha", "eval", "allowed", "denied", "threw"}, NEW n \in 0..1,
         pc \in {"evalsha", "eval"} => n = 0,
         SetCheck(c, pc, n)
  PROVE  ChargedInv'
<1> DEFINE s == [pc |-> pc, charged |-> n]
<1>1. s \in CheckState /\ s.pc = pc /\ s.charged = n
  BY DEF CheckState
<1>2. checks' = [checks EXCEPT ![c] = s]
  BY DEF SetCheck
<1> HIDE DEF s
<1> QED BY <1>1, <1>2 DEF ChargedInv

\* The script runs only from a check that charged nothing.
LEMMA ChargedScript ==
  ASSUME ChargedInv, NEW c \in Calls, checks[c].pc \in {"evalsha", "eval"}, RunScript(c)
  PROVE  ChargedInv'
<1>1. checks[c].charged + 1 = 1
  BY DEF ChargedInv
<1>2. CASE SetCheck(c, "allowed", 1)
  BY <1>2, ChargedSet
<1>3. CASE SetCheck(c, "denied", 1)
  BY <1>3, ChargedSet
<1>4. CASE SetCheck(c, "threw", 1)
  BY <1>4, ChargedSet
<1> QED BY <1>1, <1>2, <1>3, <1>4 DEF RunScript

\* A check's own step charges the window only before its script is known
\* to have run.
LEMMA ChargedCheckStep ==
  ASSUME ChargedInv, NEW c \in Calls, CheckStep(c)
  PROVE  ChargedInv'
<1>1. CASE EvalSha(c)
  <2>1. checks[c].pc = "evalsha" /\ checks[c].charged = 0
    BY <1>1 DEF EvalSha, ChargedInv
  <2>2. CASE RunScript(c)
    BY <2>1, <2>2, ChargedScript
  <2>3. CASE SetCheck(c, "threw", 1)
    BY <2>3, ChargedSet
  <2>4. CASE SetCheck(c, "threw", 0)
    BY <2>4, ChargedSet
  <2>5. CASE SetCheck(c, "eval", 0)
    BY <2>5, ChargedSet
  <2> QED BY <1>1, <2>1, <2>2, <2>3, <2>4, <2>5 DEF EvalSha, Fails, FallsBack
<1>2. CASE Eval(c)
  <2>1. checks[c].pc = "eval" /\ checks[c].charged = 0
    BY <1>2 DEF Eval, ChargedInv
  <2>2. CASE RunScript(c)
    BY <2>1, <2>2, ChargedScript
  <2>3. CASE SetCheck(c, "threw", 0)
    BY <2>3, ChargedSet
  <2> QED BY <1>2, <2>1, <2>2, <2>3 DEF Eval
<1> QED BY <1>1, <1>2 DEF CheckStep

\* Every step keeps the invariant about charges.
LEMMA ChargedStep == ChargedInv /\ [PairingNext]_pairingVars => ChargedInv'
<1> SUFFICES ASSUME ChargedInv, [PairingNext]_pairingVars PROVE ChargedInv'
  OBVIOUS
<1>1. CASE UNCHANGED checks
  BY <1>1 DEF ChargedInv
<1>2. ASSUME NEW c \in Calls, checks' = [checks EXCEPT ![c] = NoCheck]
      PROVE  ChargedInv'
  <2>1. SetCheck(c, "idle", 0)
    BY <1>2 DEF NoCheck, SetCheck
  <2> QED BY <2>1, ChargedSet
<1>3. ASSUME NEW c \in Calls, Submit(c)
      PROVE  ChargedInv'
  BY <1>3, ChargedSet DEF Submit, StartCheck
<1>4. ASSUME NEW c \in Calls, Deny(c) \/ Judge(c)
      PROVE  ChargedInv'
  BY <1>2, <1>4 DEF Deny, Judge, JudgeNothing, JudgeExpired, JudgeRight, JudgeWrong, JudgeThrows,
                    Judging
<1>5. ASSUME NEW c \in Calls, LimiterStep(c)
      PROVE  ChargedInv'
  BY <1>5, ChargedCheckStep DEF LimiterStep
<1>6. CASE Restart
  BY <1>6 DEF Restart, ChargedInv, NoCheck, CheckState
<1>7. CASE UNCHANGED pairingVars
  BY <1>1, <1>7 DEF pairingVars, rateVars
<1>8. CASE RedisEvent
  BY <1>1, <1>8 DEF RedisEvent
<1>9. ASSUME NEW c \in Calls,
             \/ AskSession(c) \/ Begin(c) \/ PrintSettles(c) \/ PrintFails(c) \/ Generated(c)
             \/ Shared(c) \/ EmitThrows(c) \/ Emit(c) \/ Recorded(c)
      PROVE  ChargedInv'
  BY <1>1, <1>9 DEF AskSession, Begin, Share, Reuse, Generate, BeginThrows, PrintSettles,
     PrintFails, Generated, Shared, EmitThrows, Emit, Recorded, rateVars
<1> QED
  BY <1>3, <1>4, <1>5, <1>6, <1>7, <1>8, <1>9 DEF PairingNext, Arrive, RequestStep

\* A check charges its key at most once (redis.ts runScript, check).
THEOREM ChargedOnceCorrect == PairingSpec => []ChargedOnce
<1>1. PairingInit => ChargedInv
  BY DEF PairingInit, RateInit, ChargedInv, NoCheck, CheckState
<1>2. ChargedInv => ChargedOnce
  BY DEF ChargedInv, ChargedOnce
<1> QED BY <1>1, <1>2, ChargedStep, PTL DEF PairingSpec
-----------------------------------------------------------------------------
(* Codes and guesses *)

Fates == {"dead", "printing", "live", "failed", "expired"}

PairingTyped ==
  /\ RequestsTyped
  /\ active \in Session \cup {None}
  /\ generating \in Codes \cup {None}
  /\ fate \in [Codes -> Fates]
  /\ tries \in Nat

\* A request generates a code until the finally clause of its generation.
Printing(c) == requests[c].pc \in {"print", "printed", "failed"}

\* One request generates at a time, and it is the one the flight token names;
\* until its code is printed, no code is live.
Printers ==
  /\ \A c, d \in Calls : Printing(c) /\ Printing(d) => c = d
  /\ \A c \in Calls : Printing(c) => generating # None /\ requests[c].code = generating
  /\ \A c \in Calls : RequestAt(c, "print") =>
       fate[requests[c].code] = "printing" /\ \A k \in Codes : fate[k] # "live"

\* The attempts counted against the active code are the wrong submissions
\* judged since it was published, and one more can still be counted.
Counts ==
  /\ tries <= MaxAttempts
  /\ active # None => active.wrong = tries /\ tries < MaxAttempts

PairingInv == PairingTyped /\ Printers /\ Counts /\ PrintedCodeLives

\* Steps that leave every code as it is.
LEMMA CodesFrame ==
  ASSUME PairingInv, NEW c \in Calls, NEW pc \in Pcs \ {"print", "printed", "failed"}, NEW code,
         Becomes(c, pc, code), UNCHANGED <<active, generating, fate, tries>>
  PROVE  PairingInv'
<1> USE DEF PairingInv, Becomes
<1>1. PairingTyped'
  BY DEF PairingTyped
<1>2. Printers'
  BY DEF Printers, Printing, RequestAt
<1>3. Counts' /\ PrintedCodeLives'
  BY DEF Counts, PrintedCodeLives, ActiveCodes
<1> QED BY <1>1, <1>2, <1>3

\* The active code is redeemed, used up or seen to expire.
LEMMA CodeDies ==
  ASSUME PairingInv, NEW c \in Calls, NEW pc \in Pcs \ {"print", "printed", "failed"}, NEW code,
         Becomes(c, pc, code), UNCHANGED generating,
         active' = None, Bury(ActiveCodes), tries' \in 0..MaxAttempts
  PROVE  PairingInv'
<1> USE PairingAssumption DEF PairingInv, Becomes, Bury
<1>1. PairingTyped'
  BY DEF PairingTyped, Fates
<1>2. \A k \in Codes : fate'[k] = IF k \in ActiveCodes THEN "dead" ELSE fate[k]
  OBVIOUS
<1>3. \A k \in Codes : fate[k] = "printing" => k \notin ActiveCodes
  BY DEF PrintedCodeLives
<1>4. \A k \in Codes : fate'[k] # "live"
  BY <1>2 DEF PrintedCodeLives
<1>5. Printers'
  BY <1>2, <1>3, <1>4 DEF Printers, Printing, RequestAt, PairingTyped
<1>6. Counts' /\ PrintedCodeLives'
  BY <1>4 DEF Counts, PrintedCodeLives, ActiveCodes
<1> QED BY <1>1, <1>5, <1>6

\* Steps that neither publish a code, judge a guess against one nor spend one.
LEMMA CodesQuiet ==
  ASSUME PairingInv, NEW c \in Calls,
         \/ AskSession(c) \/ Share(c) \/ Reuse(c) \/ BeginThrows(c) \/ Shared(c) \/ Submit(c)
         \/ Deny(c) \/ JudgeNothing(c) \/ JudgeThrows(c) \/ EmitThrows(c) \/ Emit(c) \/ Recorded(c)
  PROVE  PairingInv'
<1>t. PairingTyped /\ RequestsTyped
  BY DEF PairingInv, PairingTyped
<1>1. CASE AskSession(c)
  BY <1>1, <1>t, MoveBecomes, CodesFrame DEF AskSession, Pcs
<1>2. CASE Share(c)
  <2>1. Becomes(c, "shared", generating)
    BY <1>2, <1>t, SetBecomes DEF Share, PairingTyped, Pcs
  <2> QED BY <1>2, <2>1, CodesFrame DEF Share, Pcs
<1>3. CASE Reuse(c) \/ BeginThrows(c) \/ Shared(c) \/ JudgeThrows(c) \/ EmitThrows(c)
  <2>1. Becomes(c, "idle", None)
    BY <1>3, <1>t, AnswerBecomes DEF Reuse, BeginThrows, Shared, JudgeThrows, EmitThrows
  <2>2. UNCHANGED <<active, generating, fate, tries>>
    BY <1>3 DEF Reuse, BeginThrows, Shared, JudgeThrows, EmitThrows, Judging
  <2> QED BY <2>1, <2>2, CodesFrame DEF Pcs
<1>4. CASE Submit(c)
  <2>1. PICK k \in Codes \cup {Wrong} : SetRequest(c, "limit", k, 0)
    BY <1>4 DEF Submit
  <2>2. Becomes(c, "limit", k)
    BY <2>1, <1>t, SetBecomes DEF Pcs
  <2> QED BY <1>4, <2>2, CodesFrame DEF Submit, Pcs
<1>5. CASE Deny(c) \/ JudgeNothing(c)
  <2>1. Becomes(c, "refused", requests[c].code)
    BY <1>5, <1>t, MoveBecomes DEF Deny, JudgeNothing, Pcs
  <2>2. UNCHANGED <<active, generating, fate, tries>>
    BY <1>5 DEF Deny, JudgeNothing, Judging
  <2> QED BY <2>1, <2>2, CodesFrame DEF Pcs
<1>6. CASE Emit(c)
  <2>1. Becomes(c, "audit", requests[c].code) \/ Becomes(c, "auditFailed", requests[c].code)
    BY <1>6, <1>t, MoveBecomes DEF Emit, Pcs
  <2> QED BY <1>6, <2>1, CodesFrame DEF Emit, Pcs
<1>7. CASE Recorded(c)
  <2>1. PICK pc \in {"idle", "begin"} : Becomes(c, pc, None)
    BY <1>7, <1>t, RecordedBecomes
  <2> QED BY <1>7, <2>1, CodesFrame DEF Recorded, Pcs
<1> QED BY <1>1, <1>2, <1>3, <1>4, <1>5, <1>6, <1>7

\* A generation begins only when none is in flight, and what was active may be
\* replaced from then on.
LEMMA CodesGenerate ==
  ASSUME PairingInv, NEW c \in Calls, Generate(c)
  PROVE  PairingInv'
<1>t. PairingTyped /\ RequestsTyped
  BY DEF PairingInv, PairingTyped
<1> DEFINE k == CHOOSE j \in Codes : j \notin Held
<1>1. k \in Codes /\ k \notin Held
  BY DEF Generate
<1>2. PICK seen, now \in Times :
        /\ now + CodeTtl \in Times
        /\ SetRequest(c, "print", k, now + CodeTtl)
        /\ generating' = k
        /\ fate' = [j \in Codes |-> IF j = k THEN "printing"
                                    ELSE IF j \in ActiveCodes THEN "expired"
                                    ELSE IF j \in Held THEN fate[j] ELSE "dead"]
  BY DEF Generate
<1> HIDE DEF k
<1>3. UNCHANGED <<active, tries>> /\ generating = None
  BY DEF Generate, InFlight
<1>4. Becomes(c, "print", k)
  BY <1>1, <1>2, <1>t, SetBecomes, PairingAssumption DEF Pcs
<1>5. k \notin ActiveCodes
  BY <1>1 DEF Held
<1>6. fate'[k] = "printing" /\ \A j \in Codes : fate'[j] # "live"
  BY <1>1, <1>2 DEF PairingInv, PrintedCodeLives
<1>7. PairingTyped'
  BY <1>1, <1>2, <1>3, <1>4, <1>t DEF PairingTyped, Becomes, Fates
<1>8. \A d \in Calls : ~Printing(d)
  BY <1>3 DEF PairingInv, Printers
<1>9. Printers'
  BY <1>1, <1>2, <1>4, <1>6, <1>8, PairingAssumption DEF Printers, Printing, RequestAt, Becomes
<1>10. Counts'
  BY <1>3 DEF PairingInv, Counts
<1>11. ActiveCodes' = ActiveCodes
  BY <1>3 DEF ActiveCodes
<1>12. \A j \in Codes : fate'[j] \in {"failed", "dead"} => j \notin ActiveCodes
  BY <1>1, <1>2 
<1>13. PrintedCodeLives'
  <2> SUFFICES ASSUME NEW j \in Codes
      PROVE  /\ fate'[j] = "live" => ActiveCodes' = {j}
             /\ fate'[j] \in {"printing", "failed", "dead"} => j \notin ActiveCodes'
    BY DEF PrintedCodeLives
  <2>1. fate'[j] = "printing" => j \notin ActiveCodes
    BY <1>2, <1>5
  <2> QED BY <1>6, <1>11, <1>12, <2>1
<1> QED BY <1>7, <1>9, <1>10, <1>13 DEF PairingInv

\* A printed code replaces the one before it.
LEMMA CodesPrinted ==
  ASSUME PairingInv, NEW c \in Calls, PrintSettles(c)
  PROVE  PairingInv'
<1> DEFINE k == requests[c].code
           s == [code |-> k, expiresAt |-> requests[c].expiresAt, wrong |-> 0]
<1>t. PairingTyped /\ RequestsTyped /\ requests[c] \in Request
  BY DEF PairingInv, PairingTyped, RequestsTyped
<1>1. Becomes(c, "printed", k)
  BY <1>t, MoveBecomes DEF PrintSettles, Pcs
<1>2. k \in Codes /\ k = generating /\ \A j \in Codes : fate[j] # "live"
  BY <1>t DEF PairingInv, Printers, Printing, RequestAt, PrintSettles, PairingTyped
<1>3. s \in Session /\ s # None /\ s.code = k /\ s.wrong = 0
  BY <1>2, <1>t, PairingAssumption DEF Session, Request
<1>4. active' = s /\ tries' = 0 /\ UNCHANGED generating
  BY DEF PrintSettles
<1>5. \A j \in Codes : fate'[j] = IF j = k THEN "live"
                                  ELSE IF fate[j] = "expired" THEN "dead" ELSE fate[j]
  BY DEF PrintSettles
<1>6. fate' \in [Codes -> Fates]
  BY <1>t DEF PrintSettles, PairingTyped, Fates
<1>a. RequestAt(c, "print")
  BY DEF PrintSettles
<1> HIDE DEF k, s
<1>7. PairingTyped'
  BY <1>1, <1>3, <1>4, <1>6, <1>t DEF PairingTyped, Becomes
<1>8. \A d \in Calls : ~RequestAt(d, "print")'
  BY <1>1, <1>a DEF PairingInv, Printers, Printing, RequestAt, Becomes
<1>9. Printers'
  BY <1>1, <1>2, <1>4, <1>8, <1>a DEF PairingInv, Printers, Printing, RequestAt, Becomes, k
<1>10. Counts'
  BY <1>3, <1>4, PairingAssumption DEF Counts
<1>11. ActiveCodes' = {k}
  BY <1>3, <1>4 DEF ActiveCodes
<1>12. PrintedCodeLives'
  BY <1>2, <1>5, <1>11 DEF PrintedCodeLives
<1> QED BY <1>7, <1>9, <1>10, <1>12 DEF PairingInv

\* A print that fails publishes nothing.
LEMMA CodesFailed ==
  ASSUME PairingInv, NEW c \in Calls, PrintFails(c)
  PROVE  PairingInv'
<1>t. PairingTyped /\ RequestsTyped
  BY DEF PairingInv, PairingTyped
<1>1. Becomes(c, "failed", requests[c].code)
  BY <1>t, MoveBecomes DEF PrintFails, Pcs
<1>2. UNCHANGED <<active, generating, tries>> /\ RequestAt(c, "print")
  BY DEF PrintFails
<1>3. /\ requests[c].code \in Codes
      /\ requests[c].code \notin ActiveCodes
      /\ generating # None /\ requests[c].code = generating
  BY <1>2, <1>t DEF PairingInv, Printers, Printing, RequestAt, PairingTyped, PrintedCodeLives
<1>4. fate' = [fate EXCEPT ![requests[c].code] = "failed"]
  BY DEF PrintFails
<1>5. PairingTyped'
  BY <1>1, <1>2, <1>3, <1>4, <1>t DEF PairingTyped, Becomes, Fates
<1>6. \A d \in Calls : ~RequestAt(d, "print")'
  BY <1>1, <1>2 DEF PairingInv, Printers, Printing, RequestAt, Becomes
<1>7. Printers'
  BY <1>1, <1>2, <1>3, <1>6 DEF PairingInv, Printers, Printing, RequestAt, Becomes
<1>8. Counts'
  BY <1>2 DEF PairingInv, Counts
<1>9. ActiveCodes' = ActiveCodes
  BY <1>2 DEF ActiveCodes
<1>10. PrintedCodeLives'
  BY <1>3, <1>4, <1>9, <1>t DEF PairingInv, PrintedCodeLives, PairingTyped
<1> QED BY <1>5, <1>7, <1>8, <1>10 DEF PairingInv

\* The flight token is cleared with nobody left generating.
LEMMA CodesGenerated ==
  ASSUME PairingInv, NEW c \in Calls, Generated(c)
  PROVE  PairingInv'
<1>t. PairingTyped /\ RequestsTyped
  BY DEF PairingInv, PairingTyped
<1>1. Becomes(c, "idle", None)
  BY <1>t, AnswerBecomes DEF Generated
<1>2. UNCHANGED <<active, fate, tries>> /\ generating' = None /\ Printing(c)
  BY DEF Generated, Printing
<1>3. PairingTyped'
  BY <1>1, <1>2, <1>t DEF PairingTyped, Becomes
<1>4. \A d \in Calls : ~Printing(d)'
  BY <1>1, <1>2 DEF PairingInv, Printers, Printing, Becomes
<1>5. Printers'
  BY <1>4 DEF Printers, Printing, RequestAt
<1>6. Counts' /\ PrintedCodeLives'
  BY <1>2 DEF PairingInv, Counts, PrintedCodeLives, ActiveCodes
<1> QED BY <1>3, <1>5, <1>6 DEF PairingInv

\* The judgement is one synchronous step: a wrong submission is counted
\* against the code that is active then.
LEMMA CodesJudged ==
  ASSUME PairingInv, NEW c \in Calls, JudgeExpired(c) \/ JudgeRight(c) \/ JudgeWrong(c)
  PROVE  PairingInv'
<1>t. PairingTyped /\ RequestsTyped /\ Counts /\ UNCHANGED generating
  BY DEF PairingInv, PairingTyped, JudgeExpired, JudgeRight, JudgeWrong, Judging
<1>1. CASE JudgeExpired(c) \/ JudgeRight(c)
  <2>1. \E pc \in {"refused", "paired"} : Becomes(c, pc, requests[c].code)
    BY <1>1, <1>t, MoveBecomes DEF JudgeExpired, JudgeRight, Pcs
  <2>2. active' = None /\ Bury(ActiveCodes) /\ tries' = tries
    BY <1>1 DEF JudgeExpired, JudgeRight
  <2>3. tries' \in 0..MaxAttempts
    BY <2>2, <1>t, PairingAssumption DEF Counts, PairingTyped
  <2> QED BY <2>1, <2>2, <2>3, <1>t, CodeDies DEF Pcs
<1>2. CASE JudgeWrong(c)
  <2>1. Becomes(c, "refused", requests[c].code)
    BY <1>2, <1>t, MoveBecomes DEF JudgeWrong, Pcs
  <2>2. active # None /\ active \in Session /\ active.wrong = tries /\ tries < MaxAttempts
    BY <1>2, <1>t DEF JudgeWrong, InTime, Counts, PairingTyped
  <2>3. tries' = tries + 1 /\ tries' \in 0..MaxAttempts
    BY <1>2, <2>2, <1>t, PairingAssumption DEF JudgeWrong, PairingTyped
  <2>4. CASE Exhausted(active.wrong + 1)
    BY <1>2, <1>t, <2>1, <2>3, <2>4, CodeDies DEF JudgeWrong, Pcs
  <2>5. CASE ~Exhausted(active.wrong + 1)
    <3> DEFINE s == [active EXCEPT !.wrong = active.wrong + 1]
    <3>1. active' = s /\ UNCHANGED fate
      BY <1>2, <2>5 DEF JudgeWrong
    <3>2. s \in Session /\ s.code = active.code /\ s.wrong = tries + 1
      BY <2>2 DEF Session
    <3>3. tries + 1 < MaxAttempts
      BY <2>2, <2>5, <1>t, PairingAssumption DEF Exhausted, PairingTyped
    <3> HIDE DEF s
    <3>4. PairingTyped'
      BY <1>t, <2>1, <2>3, <3>1, <3>2 DEF PairingTyped, Becomes
    <3>5. Printers'
      BY <1>t, <2>1, <3>1 DEF PairingInv, Printers, Printing, RequestAt, Becomes
    <3>6. Counts'
      BY <2>3, <3>1, <3>2, <3>3 DEF Counts
    <3>7. ActiveCodes' = ActiveCodes
      BY <2>2, <3>1, <3>2, PairingAssumption DEF ActiveCodes
    <3>8. PrintedCodeLives'
      BY <3>1, <3>7 DEF PairingInv, PrintedCodeLives
    <3> QED BY <3>4, <3>5, <3>6, <3>8 DEF PairingInv
  <2> QED BY <2>4, <2>5
<1> QED BY <1>1, <1>2

\* A restart forgets every code.
LEMMA CodesForgotten == PairingInv /\ Restart => PairingInv'
<1> SUFFICES ASSUME PairingInv, Restart PROVE PairingInv'
  OBVIOUS
<1>1. IdleRequest \in Request /\ IdleRequest.pc = "idle"
  BY DEF IdleRequest, Request
<1>2. \A c \in Calls : requests'[c] = IdleRequest
  BY DEF Restart
<1>3. PairingTyped'
  BY <1>1 DEF PairingInv, PairingTyped, RequestsTyped, Restart, Bury, Fates
<1>4. Printers'
  BY <1>1, <1>2 DEF Printers, Printing, RequestAt
<1>5. Counts' /\ PrintedCodeLives'
  BY PairingAssumption DEF Restart, Bury, Counts, PrintedCodeLives, ActiveCodes
<1> QED BY <1>3, <1>4, <1>5 DEF PairingInv

\* Nothing printed and nobody asking satisfies the invariant.
LEMMA PairingInitInv == PairingInit => PairingInv
<1> SUFFICES ASSUME PairingInit PROVE PairingInv
  OBVIOUS
<1>1. IdleRequest \in Request /\ IdleRequest.pc = "idle"
  BY DEF IdleRequest, Request
<1>2. PairingTyped /\ Printers
  BY <1>1 DEF PairingInit, PairingTyped, RequestsTyped, Fates, Printers, Printing, RequestAt
<1>3. Counts /\ PrintedCodeLives
  BY PairingAssumption DEF PairingInit, Counts, PrintedCodeLives, ActiveCodes
<1> QED BY <1>2, <1>3 DEF PairingInv

\* Every step keeps the invariant.
LEMMA PairingStep == PairingInv /\ [PairingNext]_pairingVars => PairingInv'
<1> SUFFICES ASSUME PairingInv, [PairingNext]_pairingVars PROVE PairingInv'
  OBVIOUS
<1>1. ASSUME NEW c \in Calls, Arrive(c)
      PROVE  PairingInv'
  BY <1>1, CodesQuiet DEF Arrive
<1>2. ASSUME NEW c \in Calls, Begin(c)
      PROVE  PairingInv'
  BY <1>2, CodesQuiet, CodesGenerate DEF Begin
<1>3. ASSUME NEW c \in Calls, Judge(c)
      PROVE  PairingInv'
  BY <1>3, CodesQuiet, CodesJudged DEF Judge
<1>4. ASSUME NEW c \in Calls, RequestStep(c)
      PROVE  PairingInv'
  BY <1>2, <1>3, <1>4, CodesQuiet, CodesPrinted, CodesFailed, CodesGenerated DEF RequestStep
<1>5. CASE Restart
  BY <1>5, CodesForgotten
<1>6. CASE UNCHANGED pairingOnly
  BY <1>6 DEF pairingOnly, PairingInv, PairingTyped, RequestsTyped, Printers, Printing, RequestAt,
              Counts, PrintedCodeLives, ActiveCodes
<1>7. CASE UNCHANGED pairingVars
  BY <1>6, <1>7 DEF pairingVars, pairingOnly
<1> QED BY <1>1, <1>4, <1>5, <1>6, <1>7 DEF PairingNext, LimiterStep

\* What was printed is the active code until it is redeemed, used up or seen to
\* expire, and nothing else can be redeemed (console-pairing.ts generateFresh,
\* verify).
THEOREM PrintedCodeLivesCorrect == PairingSpec => []PrintedCodeLives
<1>1. PairingInv => PrintedCodeLives
  BY DEF PairingInv
<1> QED BY <1>1, PairingInitInv, PairingStep, PTL DEF PairingSpec

\* No interleaving of submissions judges more wrong ones against a code than
\* the cap (console-pairing.ts verify).
THEOREM GuessesCappedCorrect == PairingSpec => []GuessesCapped
<1>1. PairingInv => GuessesCapped
  BY DEF PairingInv, Counts, GuessesCapped
<1> QED BY <1>1, PairingInitInv, PairingStep, PTL DEF PairingSpec
=============================================================================
