---------------------------- MODULE BridgeProofs ----------------------------
(***************************************************************************)
(* Proofs about TokenUseCase -- code exchange, refresh and revocation      *)
(* interleaved request by request over a store that may fail -- and about  *)
(* Bridge, which composes it with the authorization use case.  For every   *)
(* number of requests, codes, tokens, families, bridges and clocks.        *)
(***************************************************************************)
EXTENDS Bridge, AuthorizeProofs

USE DEF IsMap

-----------------------------------------------------------------------------
(* Request slots *)

Pcs == {"idle", "consume", "save", "rotate", "judge", "compensate", "find", "revoke"}

Request ==
  [pc : Pcs, code : Codes \cup {None}, token : Tokens \cup {None},
   client : Clients \cup {None}, binding : Bindings \cup {None},
   resource : Resources \cup {None}, now : Times,
   record : AuthCodeRecord \cup RefreshTokenRow \cup {None}, next : Tokens \cup {None}]

RequestsOK == requests \in [Requests -> Request]

Others(r) == \A q \in Requests \ {r} : requests'[q] = requests[q]

\* The idle slot is a slot.
LEMMA IdleType == Idle \in Request /\ Idle.pc = "idle"
BY TimesAssumption DEF Idle, Request, Pcs

\* A finished request leaves an idle slot, and the other slots alone.
LEMMA FinishSlot ==
  ASSUME RequestsOK, NEW r \in Requests, Finish(r)
  PROVE  RequestsOK' /\ Others(r) /\ requests'[r] = Idle /\ requests'[r].pc = "idle"
BY IdleType DEF RequestsOK, Finish, Others

\* A request that goes on to another call keeps what it was asked.
LEMMA AdvanceSlot ==
  ASSUME RequestsOK, NEW r \in Requests, NEW pc \in Pcs,
         NEW record \in AuthCodeRecord \cup RefreshTokenRow \cup {None}, Advance(r, pc, record)
  PROVE  /\ RequestsOK' /\ Others(r)
         /\ requests'[r].pc = pc /\ requests'[r].record = record
         /\ requests'[r].code = requests[r].code /\ requests'[r].token = requests[r].token
         /\ requests'[r].client = requests[r].client
         /\ requests'[r].resource = requests[r].resource
         /\ requests'[r].now = requests[r].now /\ requests'[r].next = requests[r].next
<1> DEFINE q == [requests[r] EXCEPT !.pc = pc, !.record = record]
<1>1. requests[r] \in Request /\ requests' = [requests EXCEPT ![r] = q]
  BY DEF RequestsOK, Advance, Request
<1>2. /\ q \in Request /\ q.pc = pc /\ q.record = record
      /\ q.code = requests[r].code /\ q.token = requests[r].token
      /\ q.client = requests[r].client /\ q.resource = requests[r].resource
      /\ q.now = requests[r].now /\ q.next = requests[r].next
  BY <1>1 DEF Request
<1> HIDE DEF q
<1>3. requests'[r] = q /\ RequestsOK' /\ Others(r)
  BY <1>1, <1>2 DEF RequestsOK, Others
<1> QED BY <1>2, <1>3

\* Every way a request begins.
LEMMA BeginSlot ==
  ASSUME RequestsOK, NEW r \in Requests, NEW q \in Request, Begin(r, q)
  PROVE  /\ RequestsOK' /\ Others(r) /\ requests'[r] = q /\ requests[r].pc = "idle"
         /\ UNCHANGED <<storeVars, historyVars>>
BY IdleType DEF RequestsOK, Begin, Others

\* What arrives is well formed: an exchange, a refresh or a revocation of a
\* token some response or some lost response named.
LEMMA Arrived ==
  ASSUME RequestsOK, NEW r \in Requests, Arrival(r)
  PROVE  /\ RequestsOK' /\ Others(r) /\ requests[r].pc = "idle"
         /\ UNCHANGED <<storeVars, historyVars>>
         /\ requests'[r].resource \in Resources
         /\ \/ requests'[r].pc = "consume" /\ requests'[r].code \in Codes
               /\ requests'[r].now \in Clock
            \/ requests'[r].pc = "rotate" /\ requests'[r].token \in DOMAIN minted
               /\ requests'[r].now \in Clock
            \/ requests'[r].pc = "find" /\ requests'[r].token \in DOMAIN minted
<1> PICK resource \in Resources, client \in Clients, now \in Clock :
      \/ \E code \in Codes, binding \in Bindings :
           BeginExchange(r, code, client, binding, resource, now)
      \/ \E token \in Tokens :
           BeginRefresh(r, token, client, resource, now) \/ BeginRevoke(r, token, resource)
  BY DEF Arrival
<1>1. now \in Times
  BY DEF Clock
<1>2. ASSUME NEW code \in Codes, NEW binding \in Bindings,
             BeginExchange(r, code, client, binding, resource, now)
      PROVE  \E q \in Request : Begin(r, q) /\ q.pc = "consume" /\ q.code \in Codes
                                /\ q.now = now /\ q.resource = resource
  <2> DEFINE q == [Idle EXCEPT !.pc = "consume", !.code = code, !.client = client,
                               !.binding = binding, !.resource = resource, !.now = now]
  <2>1. q \in Request /\ q.pc = "consume" /\ q.code = code /\ q.now = now
        /\ q.resource = resource
    BY <1>1 DEF Idle, Request, Pcs
  <2>2. Begin(r, q)
    BY <1>2 DEF BeginExchange
  <2> HIDE DEF q
  <2> QED BY <2>1, <2>2
<1>3. ASSUME NEW token \in Tokens, BeginRefresh(r, token, client, resource, now)
      PROVE  \E q \in Request : Begin(r, q) /\ q.pc = "rotate" /\ q.token \in DOMAIN minted
                                /\ q.now = now /\ q.resource = resource
  <2> DEFINE q == [Idle EXCEPT !.pc = "rotate", !.token = token, !.client = client,
                               !.resource = resource, !.now = now]
  <2>1. q \in Request /\ q.pc = "rotate" /\ q.token = token /\ q.now = now
        /\ q.resource = resource
    BY <1>1 DEF Idle, Request, Pcs
  <2>2. Begin(r, q) /\ token \in DOMAIN minted
    BY <1>3 DEF BeginRefresh
  <2> HIDE DEF q
  <2> QED BY <2>1, <2>2
<1>4. ASSUME NEW token \in Tokens, BeginRevoke(r, token, resource)
      PROVE  \E q \in Request : Begin(r, q) /\ q.pc = "find" /\ q.token \in DOMAIN minted
                                /\ q.resource = resource
  <2> DEFINE q == [Idle EXCEPT !.pc = "find", !.token = token, !.resource = resource]
  <2>1. q \in Request /\ q.pc = "find" /\ q.token = token /\ q.resource = resource
    BY TimesAssumption DEF Idle, Request, Pcs
  <2>2. Begin(r, q) /\ token \in DOMAIN minted
    BY <1>4 DEF BeginRevoke
  <2> HIDE DEF q
  <2> QED BY <2>1, <2>2
<1>5. CASE \E code \in Codes, binding \in Bindings :
             BeginExchange(r, code, client, binding, resource, now)
  BY <1>2, <1>5, BeginSlot
<1>6. CASE \E token \in Tokens : BeginRefresh(r, token, client, resource, now)
  BY <1>3, <1>6, BeginSlot
<1>7. CASE \E token \in Tokens : BeginRevoke(r, token, resource)
  BY <1>4, <1>7, BeginSlot
<1> QED BY <1>5, <1>6, <1>7

-----------------------------------------------------------------------------
(* Types *)

\* Every variable keeps its type (the shapes of src/ports/store.ts, and what a
\* request holds between two awaits of src/token.ts).
TokenTypeOK ==
  /\ StoreTypeOK
  /\ RequestsOK
  /\ IsMap(issued, Codes, AuthCodeRecord)
  /\ IsMap(minted, Tokens, Families)
  /\ IsMap(redeemed, Families, Codes)
  /\ returned \subseteq DOMAIN minted /\ rotatedAway \subseteq DOMAIN minted
  /\ condemned \subseteq Families /\ lost \subseteq Families

\* What a request in each of its phases can rely on.
SlotOK(r) ==
  LET q == requests[r] IN
  /\ q.pc # "idle" => q.resource \in Resources
  /\ q.pc = "consume" => q.code \in Codes
  /\ q.pc \in {"consume", "save", "rotate"} => q.now \in Clock
  /\ q.pc \in {"rotate", "judge", "compensate", "find"} => q.token \in DOMAIN minted
  /\ q.pc = "judge" => q.next \in DOMAIN minted /\ minted[q.next] = minted[q.token]
  /\ q.pc = "revoke" => /\ q.record.family \in DOMAIN redeemed
                        /\ issued[redeemed[q.record.family]].resource = q.resource

SlotInv == \A r \in Requests : SlotOK(r)

\* A code that was issued and that no exchange can find any more.
Burned(c) == c \in DOMAIN issued \ DOMAIN authCodes

\* A code is stored as issued until it is burned; the exchange that burned it
\* is alone in holding it, and redeems it once.
CodeInv ==
  /\ \A c \in DOMAIN authCodes : c \in DOMAIN issued /\ authCodes[c] = issued[c]
  /\ \A f \in DOMAIN redeemed : Burned(redeemed[f])
  /\ \A r \in Requests : requests[r].pc = "save" =>
       /\ Burned(requests[r].code)
       /\ requests[r].record = issued[requests[r].code]
       /\ ExpectedGeneration # None => requests[r].record.generation = ExpectedGeneration
       /\ \A f \in DOMAIN redeemed : redeemed[f] # requests[r].code
  /\ \A q, r \in Requests :
       /\ requests[q].pc = "save" /\ requests[r].pc = "save"
       /\ requests[q].code = requests[r].code
       => q = r
  /\ OneFamilyPerCode

\* A stored family and its tokens belong to the code the family was redeemed
\* for; the store drops a family whole, keeps rotated tokens as consumed, and
\* has at most one unconsumed token per family.
FamilyInv ==
  /\ \A f \in DOMAIN families :
       /\ f \in DOMAIN redeemed
       /\ families[f].resource = issued[redeemed[f]].resource
       /\ ExpectedGeneration # None => families[f].generation = ExpectedGeneration
  /\ \A t \in DOMAIN refreshTokens :
       /\ t \in DOMAIN minted
       /\ refreshTokens[t].family = minted[t]
       /\ refreshTokens[t].grant = issued[redeemed[minted[t]]].grant
  /\ \A t \in DOMAIN minted :
       /\ minted[t] \in DOMAIN redeemed
       /\ minted[t] \in DOMAIN families => t \in DOMAIN refreshTokens
  /\ \A t \in rotatedAway : t \in DOMAIN refreshTokens => refreshTokens[t].consumed
  /\ \A s, t \in DOMAIN refreshTokens :
       /\ refreshTokens[s].family = refreshTokens[t].family
       /\ ~refreshTokens[s].consumed /\ ~refreshTokens[t].consumed
       => s = t

\* A condemned family is gone or revoked, and family ids are never reused.
DeadInv ==
  \A f \in condemned :
    f \in DOMAIN redeemed /\ (f \in DOMAIN families => families[f].revoked)

HeldBy(r, t, f) ==
  /\ \/ requests[r].pc = "judge" /\ requests[r].next = t
     \/ requests[r].pc = "compensate"
  /\ FamilyOf(requests[r]) = f

\* Somebody answers for every successor that is usable and was never returned.
HeldInv ==
  \A t \in DOMAIN refreshTokens :
    LET f == refreshTokens[t].family IN
    /\ ~refreshTokens[t].consumed
    /\ ~families[f].revoked
    /\ refreshTokens[t].previous # None
    /\ t \notin returned
    => f \in lost \/ \E r \in Requests : HeldBy(r, t, f)

TokenInv ==
  TokenTypeOK /\ TokenRowsInv /\ SlotInv /\ CodeInv /\ FamilyInv /\ DeadInv /\ HeldInv

-----------------------------------------------------------------------------
(* What the steps do *)

\* A consumed code is gone for everybody, and the exchange holds its record.
LEMMA ConsumeEffect ==
  ASSUME TokenTypeOK, NEW r \in Requests, ConsumeCode(r)
  PROVE  /\ StoreTypeOK' /\ RequestsOK' /\ Others(r)
         /\ UNCHANGED <<refreshTokens, families, historyVars>>
         /\ DOMAIN authCodes' \subseteq DOMAIN authCodes
         /\ \A c \in DOMAIN authCodes' : authCodes'[c] = authCodes[c]
         /\ requests[r].pc = "consume"
         /\ \/ requests'[r].pc = "idle"
            \/ LET c == requests[r].code IN
               /\ requests'[r].pc = "save" /\ requests'[r].code = c
               /\ requests'[r].now = requests[r].now
               /\ requests'[r].resource = requests[r].resource
               /\ c \in DOMAIN authCodes /\ c \notin DOMAIN authCodes'
               /\ requests'[r].record = authCodes[c]
               /\ ExpectedGeneration # None => authCodes[c].generation = ExpectedGeneration
<1> DEFINE request == requests[r]
           record == ConsumeAuthCodeAnswer(request.code, request.now, ExpectedGeneration,
                                           request.resource)
<1>1. /\ request.pc = "consume"
      /\ ConsumeAuthCode(request.code, request.resource)
      /\ UNCHANGED historyVars
      /\ \/ CodeAccepted(request, record) /\ Advance(r, "save", record)
         \/ Finish(r)
  BY DEF ConsumeCode
<1>2. StoreTypeOK'
  BY <1>1, ConsumeCodeType DEF TokenTypeOK
<1>3. /\ DOMAIN authCodes' \subseteq DOMAIN authCodes
      /\ \A c \in DOMAIN authCodes' : authCodes'[c] = authCodes[c]
      /\ UNCHANGED <<refreshTokens, families>>
  BY <1>1 DEF ConsumeAuthCode, Restrict
<1>4. CASE CodeAccepted(request, record) /\ Advance(r, "save", record)
  <2>1. record # None
    BY <1>4 DEF CodeAccepted
  <2>2. /\ request.code \in DOMAIN authCodes
        /\ ~WrongResource(request.code, request.resource)
        /\ record = authCodes[request.code]
    BY <2>1 DEF ConsumeAuthCodeAnswer
  <2>3. request.code \notin DOMAIN authCodes'
    BY <1>1, <2>2 DEF ConsumeAuthCode, Restrict
  <2>4. record \in AuthCodeRecord /\ "save" \in Pcs
    BY <2>2 DEF TokenTypeOK, StoreTypeOK, AuthCodesOK, Pcs
  <2>5. ExpectedGeneration # None => record.generation = ExpectedGeneration
    BY <1>4 DEF CodeAccepted
  <2> HIDE DEF record
  <2>6. /\ RequestsOK' /\ Others(r) /\ requests'[r].pc = "save" /\ requests'[r].record = record
        /\ requests'[r].code = requests[r].code /\ requests'[r].now = requests[r].now
        /\ requests'[r].resource = requests[r].resource
    BY <1>4, <2>4, AdvanceSlot DEF TokenTypeOK
  <2> QED BY <1>1, <1>2, <1>3, <2>2, <2>3, <2>5, <2>6
<1>5. CASE Finish(r)
  BY <1>1, <1>2, <1>3, <1>5, FinishSlot DEF TokenTypeOK
<1> QED BY <1>1, <1>4, <1>5

\* The row exchangeAuthorizationCode saves for a family.
FirstRow(r, f) ==
  RootRow(f, requests[r].record.grant, requests[r].record.resource,
          requests[r].record.generation, requests[r].now + RefreshTtl)

\* A saved family: one new token, one new family row, both as issued.
Founded(r, t, f) ==
  /\ requests[r].pc = "save"
  /\ t \in Tokens \ DOMAIN minted /\ f \in Families \ DOMAIN redeemed
  /\ minted' = Put(minted, t, f) /\ redeemed' = Put(redeemed, f, requests[r].code)
  /\ DOMAIN refreshTokens' = DOMAIN refreshTokens \cup {t} /\ t \notin DOMAIN refreshTokens
  /\ \A u \in DOMAIN refreshTokens : refreshTokens'[u] = refreshTokens[u]
  /\ refreshTokens'[t] = FirstRow(r, f)
  /\ DOMAIN families' = DOMAIN families \cup {f} /\ f \notin DOMAIN families
  /\ \A g \in DOMAIN families : families'[g] = families[g]
  /\ families'[f] = [revoked |-> FALSE, generation |-> requests[r].record.generation,
                     resource |-> requests[r].record.resource]
  /\ returned' \in {returned, returned \cup {t}}
  /\ UNCHANGED <<authCodes, issued, rotatedAway, condemned, lost>>

\* The save of an exchange is never refused: its token and family are new.
LEMMA SaveEffect ==
  ASSUME TokenInv, NEW r \in Requests, SaveFamily(r)
  PROVE  /\ StoreTypeOK' /\ TokenRowsInv' /\ RequestsOK' /\ Others(r)
         /\ requests'[r].pc = "idle"
         /\ \E t \in Tokens, f \in Families : Founded(r, t, f)
<1> USE DEF TokenInv
<1>1. PICK t \in FreshTokens, f \in FreshFamilies :
        /\ SaveRefreshToken(t, FirstRow(r, f))
        /\ minted' = Put(minted, t, f)
        /\ redeemed' = Put(redeemed, f, requests[r].code)
        /\ returned' \in {returned, returned \cup {t}}
  BY DEF SaveFamily, FirstRow
<1>2. requests[r].pc = "save" /\ Finish(r) /\ UNCHANGED <<issued, rotatedAway, condemned, lost>>
  BY DEF SaveFamily
<1>3. /\ t \in Tokens \ DOMAIN minted /\ f \in Families \ DOMAIN redeemed
      /\ t \notin DOMAIN refreshTokens /\ f \notin DOMAIN families
  BY DEF FreshTokens, FreshFamilies, FamilyInv
<1>4. requests[r].record \in AuthCodeRecord /\ requests[r].now + RefreshTtl \in Times
  BY <1>2 DEF CodeInv, TokenTypeOK, Burned, SlotInv, SlotOK, Clock
<1>5. FirstRow(r, f) \in RefreshTokenRow /\ FirstRow(r, f).previous = None
      /\ FirstRow(r, f).family = f
  BY <1>3, <1>4 DEF FirstRow, RootRow, RefreshTokenRow, AuthCodeRecord
<1>6. StoreTypeOK' /\ TokenRowsInv'
  <2> HIDE DEF TokenInv
  <2>1. StoreTypeOK /\ TokenRowsInv
    BY DEF TokenInv, TokenTypeOK
  <2> QED BY <1>1, <1>3, <1>5, <2>1, SaveTokenType, SaveRows
<1>7. InsertToken(t, FirstRow(r, f)) /\ UNCHANGED authCodes
  BY <1>1, <1>3, <1>5 DEF SaveRefreshToken, SaveAccepted
<1>8. /\ DOMAIN refreshTokens' = DOMAIN refreshTokens \cup {t}
      /\ \A u \in DOMAIN refreshTokens : refreshTokens'[u] = refreshTokens[u]
      /\ refreshTokens'[t] = FirstRow(r, f)
  BY <1>3, <1>7 DEF InsertToken, Put
<1>9. /\ DOMAIN families' = DOMAIN families \cup {f}
      /\ \A g \in DOMAIN families : families'[g] = families[g]
      /\ families'[f] = [revoked |-> FALSE, generation |-> FirstRow(r, f).generation,
                         resource |-> FirstRow(r, f).resource]
  BY <1>3, <1>5, <1>7 DEF InsertToken, Put
<1>10. FirstRow(r, f).generation = requests[r].record.generation
       /\ FirstRow(r, f).resource = requests[r].record.resource
  BY DEF FirstRow, RootRow
<1>11. Founded(r, t, f)
  BY <1>1, <1>2, <1>3, <1>7, <1>8, <1>9, <1>10 DEF Founded
<1>12. RequestsOK' /\ Others(r) /\ requests'[r].pc = "idle"
  BY <1>2, FinishSlot DEF TokenTypeOK
<1> QED BY <1>3, <1>6, <1>11, <1>12

\* The token table stays; of the families at most f changes, and only by dying.
Dying(f) ==
  /\ UNCHANGED refreshTokens
  /\ DOMAIN families' = DOMAIN families
  /\ \A g \in DOMAIN families :
       /\ families'[g].resource = families[g].resource
       /\ families'[g].generation = families[g].generation
       /\ families[g].revoked => families'[g].revoked
       /\ g # f => families'[g] = families[g]

\* Revoking a family row, stored or not, is a death.
LEMMA RevokedDies ==
  ASSUME StoreTypeOK, NEW f, families' = RevokeFamilyRow(f), UNCHANGED refreshTokens
  PROVE  Dying(f) /\ (f \in DOMAIN families => families'[f].revoked)
BY DEF StoreTypeOK, FamiliesOK, FamilyRow, RevokeFamilyRow, Dying

\* What a rotation leaves in its slot: the successor to be judged, an error
\* answer, or a compensation to run.
Rotating(r, s) ==
  /\ Others(r) /\ requests[r].pc = "rotate"
  /\ requests'[r].token = requests[r].token
  /\ requests'[r].resource = requests[r].resource
  /\ \/ requests'[r].pc = "judge" /\ requests'[r].next = s
     \/ requests'[r].pc = "compensate" /\ StoreMayThrow

Replays(r) ==
  /\ requests[r].token \in rotatedAway
  /\ issued[redeemed[FamilyOf(requests[r])]].resource = requests[r].resource

\* The successor took the token's place.
Succeeded(r, s) ==
  /\ s \in Tokens \ DOMAIN minted
  /\ Extended(requests[r].token, s)
  /\ Addressable(requests[r].token, ExpectedGeneration, requests[r].resource)
  /\ Rotating(r, s)
  /\ minted' = Put(minted, s, FamilyOf(requests[r]))
  /\ rotatedAway' = rotatedAway \cup {requests[r].token}
  /\ UNCHANGED <<families, authCodes, issued, redeemed, returned, condemned, lost>>

\* The token was a replay, and its family died of it; or nothing happened.
Refused(r) ==
  /\ Dying(FamilyOf(requests[r]))
  /\ \/ /\ Others(r) /\ requests'[r].pc = "idle"
        /\ condemned' = IF Replays(r) THEN condemned \cup {FamilyOf(requests[r])} ELSE condemned
     \/ Rotating(r, None) /\ requests'[r].pc = "compensate" /\ UNCHANGED condemned
  /\ IsReplay(requests[r].token, ExpectedGeneration, requests[r].resource)
       => families'[FamilyOf(requests[r])].revoked
  /\ ~IsReplay(requests[r].token, ExpectedGeneration, requests[r].resource)
       => UNCHANGED families
  /\ UNCHANGED <<authCodes, issued, minted, redeemed, returned, rotatedAway, lost>>

\* A stored row is not the null the store answers for a missing one.
LEMMA RowNotNone ==
  ASSUME StoreTypeOK, NEW t \in DOMAIN refreshTokens
  PROVE  refreshTokens[t] # None
BY RowAssumption DEF StoreTypeOK, TokensOK

\* A refresh succeeds, is refused, or its answer is lost.
LEMMA RotateEffect ==
  ASSUME TokenInv, NEW r \in Requests, RotateToken(r)
  PROVE  /\ StoreTypeOK' /\ TokenRowsInv' /\ RequestsOK'
         /\ (\E s \in Tokens : Succeeded(r, s)) \/ Refused(r)
<1> DEFINE request == requests[r]
           t == request.token
           f == FamilyOf(request)
<1>0. TokenTypeOK /\ StoreTypeOK /\ TokenRowsInv /\ SlotInv /\ FamilyInv
  BY DEF TokenInv, TokenTypeOK
<1>1. /\ request.pc = "rotate" /\ request \in Request
      /\ t \in DOMAIN minted /\ t \in Tokens /\ request.now + RefreshTtl \in Times
  BY <1>0 DEF RotateToken, SlotInv, SlotOK, TokenTypeOK, RequestsOK, Clock
<1>2. PICK s \in FreshTokens :
        LET next == [token |-> s, family |-> f, grant |-> None,
                     expiresAt |-> request.now + RefreshTtl]
            row == RotateRefreshTokenAnswer(t, next, request.now, ExpectedGeneration,
                                            request.resource)
        IN /\ RotateRefreshToken(t, next, request.now, ExpectedGeneration, request.resource)
           /\ IF row # None
              THEN /\ minted' = Put(minted, s, f)
                   /\ rotatedAway' = rotatedAway \cup {t}
              ELSE UNCHANGED <<minted, rotatedAway>>
           /\ \/ /\ row # None
                 /\ requests' = [requests EXCEPT ![r].pc = "judge", ![r].record = row,
                                                 ![r].next = s]
                 /\ UNCHANGED condemned
              \/ /\ row = None
                 /\ Finish(r)
                 /\ condemned' = IF Replays(r) THEN condemned \cup {f} ELSE condemned
              \/ /\ StoreMayThrow
                 /\ Advance(r, "compensate", None)
                 /\ UNCHANGED condemned
  BY DEF RotateToken, Replays
<1> DEFINE next == [token |-> s, family |-> f, grant |-> None,
                    expiresAt |-> request.now + RefreshTtl]
           row == RotateRefreshTokenAnswer(t, next, request.now, ExpectedGeneration,
                                           request.resource)
<1>3. /\ RotateRefreshToken(t, next, request.now, ExpectedGeneration, request.resource)
      /\ IF row # None
         THEN /\ minted' = Put(minted, s, f)
              /\ rotatedAway' = rotatedAway \cup {t}
         ELSE UNCHANGED <<minted, rotatedAway>>
      /\ \/ /\ row # None
            /\ requests' = [requests EXCEPT ![r].pc = "judge", ![r].record = row,
                                            ![r].next = s]
            /\ UNCHANGED condemned
         \/ /\ row = None
            /\ Finish(r)
            /\ condemned' = IF Replays(r) THEN condemned \cup {f} ELSE condemned
         \/ /\ StoreMayThrow
            /\ Advance(r, "compensate", None)
            /\ UNCHANGED condemned
  BY <1>2
<1>4. next.token = s /\ next.token \in Tokens /\ next.expiresAt \in Times /\ next.family = f
      /\ s \in Tokens \ DOMAIN minted
  BY <1>1 DEF FreshTokens
<1>5. StoreTypeOK' /\ TokenRowsInv'
  <2> HIDE DEF next, t
  <2> QED BY <1>0, <1>1, <1>3, <1>4, RotateType, RotateRows
<1>6. UNCHANGED <<issued, redeemed, returned, lost>> /\ UNCHANGED authCodes
  BY <1>3 DEF RotateToken, RotateRefreshToken
<1>7. ASSUME StoreMayThrow, Advance(r, "compensate", None), NEW v
      PROVE  RequestsOK' /\ Rotating(r, v) /\ requests'[r].pc = "compensate"
  <2>1. /\ RequestsOK' /\ Others(r) /\ requests'[r].pc = "compensate"
        /\ requests'[r].token = requests[r].token
        /\ requests'[r].resource = requests[r].resource
    BY <1>0, <1>7, AdvanceSlot DEF TokenTypeOK, Pcs
  <2> QED BY <1>1, <1>7, <2>1 DEF Rotating
<1>8. CASE row # None
  <2>1. /\ Rotates(t, next, request.now, ExpectedGeneration, request.resource)
        /\ row = refreshTokens[t] /\ t \in DOMAIN refreshTokens
    BY <1>8 DEF RotateRefreshTokenAnswer, Rotates, Addressable
  <2>2. row \in RefreshTokenRow
    BY <1>0, <2>1 DEF StoreTypeOK, TokensOK
  <2>3. RequestsOK' /\ Rotating(r, s) /\ UNCHANGED condemned
    <3> HIDE DEF row, next
    <3>1. CASE requests' = [requests EXCEPT ![r].pc = "judge", ![r].record = row,
                                            ![r].next = s] /\ UNCHANGED condemned
      <4> DEFINE q == [request EXCEPT !.pc = "judge", !.record = row, !.next = s]
      <4>1. /\ q \in Request /\ q.pc = "judge" /\ q.next = s
            /\ q.token = request.token /\ q.resource = request.resource
        BY <1>1, <1>4, <2>2 DEF Request, Pcs
      <4>2. requests' = [requests EXCEPT ![r] = q]
        BY <1>0, <1>1, <3>1 DEF TokenTypeOK, RequestsOK, Request
      <4> HIDE DEF q
      <4>3. requests'[r] = q /\ RequestsOK' /\ Others(r)
        BY <1>0, <4>1, <4>2 DEF TokenTypeOK, RequestsOK, Others
      <4> QED BY <1>1, <3>1, <4>1, <4>3 DEF Rotating
    <3>2. CASE StoreMayThrow /\ Advance(r, "compensate", None) /\ UNCHANGED condemned
      BY <1>7, <3>2
    <3> QED BY <1>3, <1>8, <3>1, <3>2
  <2>4. /\ refreshTokens' = Put([refreshTokens EXCEPT ![t].consumed = TRUE],
                                next.token, Successor(t, next))
        /\ UNCHANGED families
    BY <1>3, <2>1 DEF RotateRefreshToken, Rotates, IsReplay
  <2>5. Extended(t, s)
    <3>1. Extended(t, next.token)
      <4> HIDE DEF next, t
      <4> QED BY <1>0, <1>1, <2>1, <2>4, RotatedRows
    <3> QED BY <1>4, <3>1
  <2>6. minted' = Put(minted, s, f) /\ rotatedAway' = rotatedAway \cup {t}
    BY <1>3, <1>8
  <2>7. Addressable(t, ExpectedGeneration, request.resource)
    BY <2>1 DEF Rotates
  <2>8. Succeeded(r, s)
    BY <1>4, <1>6, <2>3, <2>4, <2>5, <2>6, <2>7 DEF Succeeded
  <2> QED BY <1>4, <1>5, <2>3, <2>8
<1>9. CASE row = None
  <2>1. ~Rotates(t, next, request.now, ExpectedGeneration, request.resource)
    <3>1. ASSUME t \in DOMAIN refreshTokens PROVE refreshTokens[t] # None
      BY <1>0, <3>1, RowNotNone
    <3> QED BY <1>9, <3>1 DEF RotateRefreshTokenAnswer, Rotates, Addressable
  <2> HIDE DEF row, next
  <2>2. /\ UNCHANGED refreshTokens
        /\ \/ /\ IsReplay(t, ExpectedGeneration, request.resource)
              /\ families' = RevokeFamilyRow(refreshTokens[t].family)
           \/ /\ ~IsReplay(t, ExpectedGeneration, request.resource)
              /\ UNCHANGED families
    BY <1>3, <2>1 DEF RotateRefreshToken, tokenRows
  <2>3. /\ Dying(f)
        /\ IsReplay(t, ExpectedGeneration, request.resource) => families'[f].revoked
        /\ ~IsReplay(t, ExpectedGeneration, request.resource) => UNCHANGED families
    <3>1. CASE /\ IsReplay(t, ExpectedGeneration, request.resource)
               /\ families' = RevokeFamilyRow(refreshTokens[t].family)
      <4>1. t \in DOMAIN refreshTokens /\ refreshTokens[t].family \in DOMAIN families
        BY <3>1 DEF IsReplay, Addressable
      <4>2. refreshTokens[t].family = f
        BY <1>0, <4>1 DEF FamilyInv, FamilyOf
      <4> QED BY <1>0, <2>2, <3>1, <4>1, <4>2, RevokedDies
    <3>2. CASE /\ ~IsReplay(t, ExpectedGeneration, request.resource)
               /\ UNCHANGED families
      BY <2>2, <3>2 DEF Dying
    <3> QED BY <2>2, <3>1, <3>2
  <2>4. UNCHANGED <<minted, rotatedAway>>
    BY <1>3, <1>9
  <2>5. /\ RequestsOK'
        /\ \/ /\ Others(r) /\ requests'[r].pc = "idle"
              /\ condemned' = IF Replays(r) THEN condemned \cup {f} ELSE condemned
           \/ /\ Rotating(r, None) /\ requests'[r].pc = "compensate"
              /\ UNCHANGED condemned
    <3>1. CASE /\ Finish(r)
               /\ condemned' = IF Replays(r) THEN condemned \cup {f} ELSE condemned
      BY <1>0, <3>1, FinishSlot DEF TokenTypeOK
    <3>2. CASE StoreMayThrow /\ Advance(r, "compensate", None) /\ UNCHANGED condemned
      BY <1>7, <3>2
    <3> QED BY <1>3, <1>9, <3>1, <3>2
  <2>6. Refused(r)
    BY <1>6, <2>3, <2>4, <2>5 DEF Refused
  <2> QED BY <1>5, <2>5, <2>6
<1> QED BY <1>8, <1>9

\* The steps of a request that do not touch the store: it ends, it answers, it
\* turns to compensation, or it has found the family to revoke.
Quiet(r) ==
  /\ Others(r)
  /\ UNCHANGED <<storeVars, issued, minted, redeemed, rotatedAway, condemned>>
  /\ \/ /\ requests[r].pc \in {"consume", "save", "find", "revoke"}
        /\ requests'[r].pc = "idle" /\ UNCHANGED <<returned, lost>>
     \/ /\ requests[r].pc = "judge" /\ requests'[r].pc = "idle"
        /\ returned' = returned \cup {requests[r].next} /\ UNCHANGED lost
     \/ /\ requests[r].pc = "compensate" /\ requests'[r].pc = "idle"
        /\ lost' = lost \cup {FamilyOf(requests[r])} /\ UNCHANGED returned
     \/ /\ requests[r].pc = "judge" \/ (requests[r].pc = "rotate" /\ StoreMayThrow)
        /\ requests'[r].pc = "compensate" /\ requests'[r].token = requests[r].token
        /\ requests'[r].resource = requests[r].resource
        /\ UNCHANGED <<returned, lost>>
     \/ /\ requests[r].pc = "find" /\ requests'[r].pc = "revoke"
        /\ requests[r].token \in DOMAIN refreshTokens
        /\ requests'[r].record = refreshTokens[requests[r].token]
        /\ requests'[r].record.resource = requests'[r].resource
        /\ requests'[r].resource = requests[r].resource
        /\ UNCHANGED <<returned, lost>>

\* The row a revocation found belongs to the bridge that asked.
LEMMA FindEffect ==
  ASSUME TokenTypeOK, NEW r \in Requests, Find(r)
  PROVE  Quiet(r) /\ RequestsOK'
<1> DEFINE row == FindRefreshToken(requests[r].token)
<1>1. /\ requests[r].pc = "find" /\ UNCHANGED <<storeVars, historyVars>>
      /\ \/ /\ row # None /\ row.resource = requests[r].resource
            /\ Advance(r, "revoke", row)
         \/ Finish(r)
  BY DEF Find
<1>2. CASE row # None /\ row.resource = requests[r].resource /\ Advance(r, "revoke", row)
  <2>1. requests[r].token \in DOMAIN refreshTokens /\ row = refreshTokens[requests[r].token]
    BY <1>2 DEF FindRefreshToken
  <2>2. row \in RefreshTokenRow /\ "revoke" \in Pcs
    BY <2>1 DEF TokenTypeOK, StoreTypeOK, TokensOK, Pcs
  <2> HIDE DEF row
  <2>3. /\ RequestsOK' /\ Others(r) /\ requests'[r].pc = "revoke" /\ requests'[r].record = row
        /\ requests'[r].resource = requests[r].resource
    BY <1>2, <2>2, AdvanceSlot DEF TokenTypeOK
  <2> QED BY <1>1, <1>2, <2>1, <2>3 DEF Quiet, historyVars
<1>3. CASE Finish(r)
  BY <1>1, <1>3, FinishSlot DEF TokenTypeOK, Quiet, historyVars
<1> QED BY <1>1, <1>2, <1>3

\* Every step of a request that leaves the store alone.
LEMMA QuietEffect ==
  ASSUME TokenTypeOK, NEW r \in Requests,
         \/ RotateThrows(r) \/ Judge(r) \/ CompensateThrows(r) \/ Find(r)
         \/ CallThrows(r) \/ PreparationFails(r)
  PROVE  Quiet(r) /\ RequestsOK'
<1>0. RequestsOK /\ requests[r] \in Request
  BY DEF TokenTypeOK, RequestsOK
<1>1. ASSUME NEW record \in AuthCodeRecord \cup RefreshTokenRow \cup {None},
             Advance(r, "compensate", record)
      PROVE  /\ RequestsOK' /\ Others(r) /\ requests'[r].pc = "compensate"
             /\ requests'[r].token = requests[r].token
             /\ requests'[r].resource = requests[r].resource
  BY <1>0, <1>1, AdvanceSlot DEF Pcs
<1>2. CASE RotateThrows(r)
  BY <1>1, <1>2 DEF RotateThrows, Quiet, historyVars
<1>3. CASE Judge(r)
  <2>1. requests[r].record \in AuthCodeRecord \cup RefreshTokenRow \cup {None}
    BY <1>0 DEF Request
  <2>2. CASE Finish(r) /\ returned' = returned \cup {requests[r].next}
    BY <1>0, <1>3, <2>2, FinishSlot DEF Judge, Quiet
  <2>3. CASE Advance(r, "compensate", requests[r].record) /\ UNCHANGED returned
    BY <1>1, <1>3, <2>1, <2>3 DEF Judge, Quiet
  <2> QED BY <1>3, <2>2, <2>3 DEF Judge
<1>4. CASE CompensateThrows(r)
  BY <1>0, <1>4, FinishSlot DEF CompensateThrows, Quiet
<1>5. CASE Find(r)
  BY <1>5, FindEffect
<1>6. CASE CallThrows(r)
  BY <1>0, <1>6, FinishSlot DEF CallThrows, Quiet, historyVars
<1>7. CASE PreparationFails(r)
  <2>1. CASE requests[r].pc = "save" /\ Finish(r)
    BY <1>0, <1>7, <2>1, FinishSlot DEF PreparationFails, Quiet, historyVars
  <2>2. CASE requests[r].pc = "judge" /\ Advance(r, "compensate", None)
    BY <1>1, <1>7, <2>2 DEF PreparationFails, Quiet, historyVars
  <2> QED BY <1>7, <2>1, <2>2 DEF PreparationFails
<1> QED BY <1>2, <1>3, <1>4, <1>5, <1>6, <1>7

\* A revocation leaves the family it was meant for dead.
Ended(r, f) ==
  /\ Others(r) /\ requests'[r].pc = "idle"
  /\ \/ requests[r].pc = "compensate" /\ f = FamilyOf(requests[r])
     \/ requests[r].pc = "revoke" /\ f = requests[r].record.family
  /\ f \in DOMAIN redeemed
  /\ Dying(f) /\ (f \in DOMAIN families => families'[f].revoked)
  /\ condemned' = condemned \cup {f}
  /\ UNCHANGED <<authCodes, issued, minted, redeemed, returned, rotatedAway, lost>>

\* A revocation without an expected resource always reaches the family; one
\* with it was asked by the bridge the family belongs to.
LEMMA RevokeEffect ==
  ASSUME TokenInv, NEW r \in Requests, Compensate(r) \/ RevokeFound(r)
  PROVE  StoreTypeOK' /\ TokenRowsInv' /\ RequestsOK' /\ \E f \in Families : Ended(r, f)
<1>0. TokenTypeOK /\ StoreTypeOK /\ TokenRowsInv /\ SlotOK(r) /\ FamilyInv
  BY DEF TokenInv, TokenTypeOK, SlotInv
<1>1. PICK f, resource :
        /\ RevokeRefreshTokenFamily(f, resource)
        /\ \/ requests[r].pc = "compensate" /\ f = FamilyOf(requests[r]) /\ resource = None
           \/ /\ requests[r].pc = "revoke" /\ f = requests[r].record.family
              /\ resource = requests[r].resource
        /\ condemned' = condemned \cup {f}
        /\ Finish(r)
        /\ UNCHANGED <<issued, minted, redeemed, returned, rotatedAway, lost>>
  BY DEF Compensate, RevokeFound
<1>2. StoreTypeOK' /\ TokenRowsInv'
  BY <1>0, <1>1, RevokeType, RevokeRows
<1>3. f \in DOMAIN redeemed /\ f \in Families
  BY <1>0, <1>1 DEF SlotOK, FamilyOf, FamilyInv, TokenTypeOK
<1>4. f \in DOMAIN families => (resource # None => families[f].resource = resource)
  BY <1>0, <1>1 DEF SlotOK, FamilyInv
<1>5. Dying(f) /\ (f \in DOMAIN families => families'[f].revoked)
  <2>1. UNCHANGED refreshTokens /\ UNCHANGED authCodes
    BY <1>1 DEF RevokeRefreshTokenFamily
  <2>2. CASE f \in DOMAIN families
    BY <1>0, <1>1, <1>4, <2>1, <2>2, RevokedDies DEF RevokeRefreshTokenFamily
  <2>3. CASE f \notin DOMAIN families
    BY <1>1, <2>1, <2>3 DEF RevokeRefreshTokenFamily, Dying
  <2> QED BY <2>2, <2>3
<1>6. UNCHANGED authCodes
  BY <1>1 DEF RevokeRefreshTokenFamily
<1>7. RequestsOK' /\ Others(r) /\ requests'[r].pc = "idle"
  BY <1>0, <1>1, FinishSlot DEF TokenTypeOK
<1> QED BY <1>1, <1>2, <1>3, <1>5, <1>6, <1>7 DEF Ended

\* A sweep drops codes, and families whole.
Swept ==
  /\ DOMAIN authCodes' \subseteq DOMAIN authCodes
  /\ \A c \in DOMAIN authCodes' : authCodes'[c] = authCodes[c]
  /\ DOMAIN refreshTokens' \subseteq DOMAIN refreshTokens
  /\ \A t \in DOMAIN refreshTokens' : refreshTokens'[t] = refreshTokens[t]
  /\ DOMAIN families' \subseteq DOMAIN families
  /\ \A f \in DOMAIN families' : families'[f] = families[f]
  /\ \A t \in DOMAIN refreshTokens :
       refreshTokens[t].family \in DOMAIN families' => t \in DOMAIN refreshTokens'

\* Whatever the sweep's clock.
LEMMA SweepEffect ==
  ASSUME NEW now, SweepExpired(now)
  PROVE  Swept
<1> DEFINE kept == RetainedTokens(now)
<1>1. /\ DOMAIN refreshTokens' = DOMAIN refreshTokens \cap kept
      /\ \A t \in DOMAIN refreshTokens' : refreshTokens'[t] = refreshTokens[t]
      /\ DOMAIN families' = {f \in DOMAIN families : \E t \in kept : refreshTokens[t].family = f}
      /\ \A f \in DOMAIN families' : families'[f] = families[f]
      /\ DOMAIN authCodes' \subseteq DOMAIN authCodes
      /\ \A c \in DOMAIN authCodes' : authCodes'[c] = authCodes[c]
  BY DEF SweepExpired, Restrict, RetainedTokens
<1>2. /\ kept \subseteq DOMAIN refreshTokens
      /\ \A t \in kept, u \in DOMAIN refreshTokens :
           refreshTokens[u].family = refreshTokens[t].family => u \in kept
  BY DEF RetainedTokens
<1> HIDE DEF kept
<1> QED BY <1>1, <1>2 DEF Swept

-----------------------------------------------------------------------------
(* Frames *)

\* The histories only grow, and keep what they say.
Grown ==
  /\ \A c \in DOMAIN issued : c \in DOMAIN issued' /\ issued'[c] = issued[c]
  /\ \A t \in DOMAIN minted : t \in DOMAIN minted' /\ minted'[t] = minted[t]
  /\ \A f \in DOMAIN redeemed : f \in DOMAIN redeemed' /\ redeemed'[f] = redeemed[f]

\* What one slot relies on survives the steps of the others.
LEMMA SlotKept ==
  ASSUME TokenInv, Grown, NEW q \in Requests, requests'[q] = requests[q]
  PROVE  SlotOK(q)'
<1>1. SlotOK(q)
  BY DEF TokenInv, SlotInv
<1>2. \A f \in DOMAIN redeemed : redeemed[f] \in DOMAIN issued
  BY DEF TokenInv, CodeInv, Burned
<1> QED BY <1>1, <1>2 DEF Grown, SlotOK

\* So a step of one slot is judged by that slot alone.
LEMMA SlotStep ==
  ASSUME TokenInv, Grown, NEW r \in Requests, Others(r), SlotOK(r)'
  PROVE  SlotInv'
<1>1. ASSUME NEW q \in Requests PROVE SlotOK(q)'
  BY SlotKept DEF Others
<1> QED BY <1>1 DEF SlotInv

\* A family that dies, or nothing at all, keeps the family rows in order.
LEMMA FamilyKept ==
  ASSUME TokenInv, NEW f, Dying(f), Grown, UNCHANGED <<minted, redeemed, rotatedAway>>
  PROVE  FamilyInv'
<1>1. FamilyInv /\ \A g \in DOMAIN redeemed : redeemed[g] \in DOMAIN issued
  BY DEF TokenInv, CodeInv, Burned
<1> QED BY <1>1 DEF FamilyInv, Dying, Grown

\* The codes under a step that saves none, redeems none, and lets no request
\* start holding one.
LEMMA CodeKept ==
  ASSUME TokenInv, UNCHANGED <<issued, redeemed>>,
         DOMAIN authCodes' \subseteq DOMAIN authCodes,
         \A c \in DOMAIN authCodes' : authCodes'[c] = authCodes[c],
         \A q \in Requests : requests'[q].pc = "save" => requests'[q] = requests[q]
  PROVE  CodeInv'
<1>1. CodeInv
  BY DEF TokenInv
<1> QED BY <1>1 DEF CodeInv, Burned, OneFamilyPerCode

\* The condemned stay dead while families only die.
LEMMA DeadKept ==
  ASSUME TokenInv, NEW f, Dying(f), Grown,
         \A g \in condemned' \ condemned :
           g \in DOMAIN redeemed' /\ (g \in DOMAIN families' => families'[g].revoked)
  PROVE  DeadInv'
<1>1. DeadInv
  BY DEF TokenInv
<1> QED BY <1>1 DEF DeadInv, Dying, Grown

\* A step that changes one slot and no token keeps every unreturned successor
\* answered for, if that slot hands on the one it held.
LEMMA HeldKept ==
  ASSUME TokenInv, NEW f, Dying(f), Grown, NEW r \in Requests, Others(r),
         returned \subseteq returned', lost \subseteq lost',
         \A t, g : /\ HeldBy(r, t, g)
                   /\ g \in DOMAIN families /\ ~families'[g].revoked
                   => t \in returned' \/ g \in lost' \/ HeldBy(r, t, g)'
  PROVE  HeldInv'
<1>0. HeldInv /\ SlotInv /\ RowsMatchFamily
  BY DEF TokenInv, TokenRowsInv
<1>1. SUFFICES ASSUME NEW t \in DOMAIN refreshTokens', NEW g, g = refreshTokens'[t].family,
                      ~refreshTokens'[t].consumed, ~families'[g].revoked,
                      refreshTokens'[t].previous # None, t \notin returned', g \notin lost'
               PROVE  \E q \in Requests : HeldBy(q, t, g)'
  BY DEF HeldInv, HeldBy, FamilyOf
<1>2. t \in DOMAIN refreshTokens /\ refreshTokens' = refreshTokens /\ g \in DOMAIN families
  BY <1>0, <1>1 DEF Dying, RowsMatchFamily
<1>3. ~families[g].revoked
  BY <1>1, <1>2 DEF Dying
<1>4. PICK q \in Requests : HeldBy(q, t, g)
  BY <1>0, <1>1, <1>2, <1>3 DEF HeldInv
<1>5. CASE q = r
  BY <1>1, <1>2, <1>4, <1>5
<1>6. CASE q # r
  <2>1. requests'[q] = requests[q]
    BY <1>6 DEF Others
  <2>2. requests[q].pc \in {"judge", "compensate"} => FamilyOf(requests[q])' = FamilyOf(requests[q])
    BY <1>0, <2>1 DEF SlotInv, SlotOK, FamilyOf, Grown
  <2> QED BY <1>4, <2>1, <2>2 DEF HeldBy
<1> QED BY <1>5, <1>6

-----------------------------------------------------------------------------
(* The invariant, step by step *)

\* An arriving request promises nothing yet.
LEMMA ArrivalKeeps ==
  ASSUME TokenInv, NEW r \in Requests, Arrival(r)
  PROVE  TokenInv'
<1>0. TokenTypeOK /\ RequestsOK /\ TokenRowsInv
  BY DEF TokenInv, TokenTypeOK
<1>1. /\ RequestsOK' /\ Others(r) /\ requests[r].pc = "idle"
      /\ UNCHANGED <<storeVars, historyVars>>
      /\ requests'[r].resource \in Resources
      /\ \/ requests'[r].pc = "consume" /\ requests'[r].code \in Codes
            /\ requests'[r].now \in Clock
         \/ requests'[r].pc = "rotate" /\ requests'[r].token \in DOMAIN minted
            /\ requests'[r].now \in Clock
         \/ requests'[r].pc = "find" /\ requests'[r].token \in DOMAIN minted
  BY <1>0, Arrived
<1>2. Grown /\ Dying(None) /\ UNCHANGED <<issued, minted, redeemed, rotatedAway, condemned>>
  BY <1>1 DEF Grown, Dying, storeVars, historyVars
<1>3. TokenTypeOK'
  BY <1>0, <1>1 DEF TokenTypeOK, storeVars, historyVars, StoreTypeOK, AuthCodesOK, TokensOK,
                    FamiliesOK, ConsentsOK
<1>4. TokenRowsInv'
  BY <1>0, <1>1, RowsFrame DEF storeVars, tokenRows
<1>5. SlotInv'
  <2>1. SlotOK(r)'
    BY <1>1 DEF SlotOK, historyVars
  <2> QED BY <1>1, <1>2, <2>1, SlotStep
<1>6. CodeInv'
  <2>1. /\ UNCHANGED authCodes
        /\ \A q \in Requests : requests'[q].pc = "save" => requests'[q] = requests[q]
    BY <1>1 DEF Others, storeVars
  <2> QED BY <1>2, <2>1, CodeKept
<1>7. FamilyInv' /\ DeadInv'
  BY <1>2, FamilyKept, DeadKept
<1>8. HeldInv'
  <2>1. UNCHANGED <<returned, lost>> /\ \A t, g : ~HeldBy(r, t, g)
    BY <1>1 DEF historyVars, HeldBy
  <2> QED BY <1>1, <1>2, <2>1, HeldKept
<1> QED BY <1>3, <1>4, <1>5, <1>6, <1>7, <1>8 DEF TokenInv

\* Burning a code makes its exchange the only one that may redeem it.
LEMMA ConsumeKeeps ==
  ASSUME TokenInv, NEW r \in Requests, ConsumeCode(r)
  PROVE  TokenInv'
<1>0. TokenTypeOK /\ TokenRowsInv /\ CodeInv /\ SlotOK(r)
  BY DEF TokenInv, SlotInv
<1>1. /\ StoreTypeOK' /\ RequestsOK' /\ Others(r)
      /\ UNCHANGED <<refreshTokens, families, historyVars>>
      /\ DOMAIN authCodes' \subseteq DOMAIN authCodes
      /\ \A c \in DOMAIN authCodes' : authCodes'[c] = authCodes[c]
      /\ requests[r].pc = "consume"
      /\ \/ requests'[r].pc = "idle"
         \/ LET c == requests[r].code IN
            /\ requests'[r].pc = "save" /\ requests'[r].code = c
            /\ requests'[r].now = requests[r].now
            /\ requests'[r].resource = requests[r].resource
            /\ c \in DOMAIN authCodes /\ c \notin DOMAIN authCodes'
            /\ requests'[r].record = authCodes[c]
            /\ ExpectedGeneration # None => authCodes[c].generation = ExpectedGeneration
  BY <1>0, ConsumeEffect
<1>2. Grown /\ Dying(None) /\ UNCHANGED <<issued, minted, redeemed, rotatedAway, condemned>>
  BY <1>1 DEF Grown, Dying, historyVars
<1>3. TokenTypeOK'
  BY <1>0, <1>1 DEF TokenTypeOK, historyVars
<1>4. TokenRowsInv'
  BY <1>0, <1>1, RowsFrame DEF tokenRows
<1>5. SlotInv'
  <2>1. SlotOK(r)'
    BY <1>0, <1>1 DEF SlotOK
  <2> QED BY <1>1, <1>2, <2>1, SlotStep
<1>6. CodeInv'
  <2>1. CASE requests'[r].pc = "idle"
    <3>1. \A q \in Requests : requests'[q].pc = "save" => requests'[q] = requests[q]
      BY <1>1, <2>1 DEF Others
    <3> QED BY <1>1, <1>2, <3>1, CodeKept
  <2>2. CASE requests'[r].pc = "save"
    <3> DEFINE c == requests[r].code
    <3>1. /\ c \in DOMAIN authCodes /\ c \notin DOMAIN authCodes'
          /\ requests'[r].code = c /\ requests'[r].record = authCodes[c]
          /\ ExpectedGeneration # None => authCodes[c].generation = ExpectedGeneration
      BY <1>1, <2>2
    <3>2. c \in DOMAIN issued /\ authCodes[c] = issued[c]
      BY <1>0, <3>1 DEF CodeInv
    <3>3. \A f \in DOMAIN redeemed : redeemed[f] # c
      BY <1>0, <3>1 DEF CodeInv, Burned
    <3>4. \A q \in Requests : requests[q].pc = "save" => requests[q].code # c
      BY <1>0, <3>1 DEF CodeInv, Burned
    <3> HIDE DEF c
    <3>5. \A x \in DOMAIN authCodes' : x \in DOMAIN issued' /\ authCodes'[x] = issued'[x]
      BY <1>0, <1>1, <1>2 DEF CodeInv
    <3>6. \A f \in DOMAIN redeemed' : Burned(redeemed[f])'
      BY <1>0, <1>1, <1>2 DEF CodeInv, Burned
    <3>7. OneFamilyPerCode'
      BY <1>0, <1>2 DEF CodeInv, OneFamilyPerCode
    <3>8. ASSUME NEW q \in Requests, requests'[q].pc = "save"
          PROVE  /\ Burned(requests[q].code)'
                 /\ requests'[q].record = issued'[requests'[q].code]
                 /\ ExpectedGeneration # None
                      => requests'[q].record.generation = ExpectedGeneration
                 /\ \A f \in DOMAIN redeemed' : redeemed'[f] # requests'[q].code
      <4>1. CASE q = r
        BY <1>2, <3>1, <3>2, <3>3, <4>1 DEF Burned
      <4>2. CASE q # r
        <5>1. requests'[q] = requests[q]
          BY <1>1, <4>2 DEF Others
        <5> QED BY <1>0, <1>1, <1>2, <3>8, <5>1 DEF CodeInv, Burned
      <4> QED BY <4>1, <4>2
    <3>9. ASSUME NEW p \in Requests, NEW q \in Requests, requests'[p].pc = "save",
                 requests'[q].pc = "save", requests'[p].code = requests'[q].code
          PROVE  p = q
      BY <1>0, <1>1, <3>1, <3>4, <3>9 DEF CodeInv, Others
    <3> QED BY <3>5, <3>6, <3>7, <3>8, <3>9 DEF CodeInv
  <2> QED BY <1>1, <2>1, <2>2
<1>7. FamilyInv' /\ DeadInv'
  BY <1>2, FamilyKept, DeadKept
<1>8. HeldInv'
  <2>1. UNCHANGED <<returned, lost>> /\ \A t, g : ~HeldBy(r, t, g)
    BY <1>1 DEF historyVars, HeldBy
  <2> QED BY <1>1, <1>2, <2>1, HeldKept
<1> QED BY <1>3, <1>4, <1>5, <1>6, <1>7, <1>8 DEF TokenInv

\* A family is founded on a code that had none.
LEMMA SaveKeeps ==
  ASSUME TokenInv, NEW r \in Requests, SaveFamily(r)
  PROVE  TokenInv'
<1>0. TokenTypeOK /\ CodeInv /\ FamilyInv /\ DeadInv /\ HeldInv /\ RowsMatchFamily /\ SlotInv
  BY DEF TokenInv, TokenRowsInv
<1>1. /\ StoreTypeOK' /\ TokenRowsInv' /\ RequestsOK' /\ Others(r)
      /\ requests'[r].pc = "idle"
      /\ \E t \in Tokens, f \in Families : Founded(r, t, f)
  BY SaveEffect
<1> PICK t \in Tokens, f \in Families : Founded(r, t, f)
  BY <1>1
<1> DEFINE c == requests[r].code
<1>2. /\ requests[r].pc = "save" /\ t \notin DOMAIN minted /\ f \notin DOMAIN redeemed
      /\ minted' = Put(minted, t, f) /\ redeemed' = Put(redeemed, f, c)
      /\ UNCHANGED <<authCodes, issued, rotatedAway, condemned, lost>>
      /\ returned \subseteq returned' /\ returned' \subseteq returned \cup {t}
  BY DEF Founded
<1>3. /\ Burned(c) /\ requests[r].record = issued[c] /\ c \in Codes
      /\ ExpectedGeneration # None => requests[r].record.generation = ExpectedGeneration
      /\ \A g \in DOMAIN redeemed : redeemed[g] # c
  BY <1>0, <1>2 DEF CodeInv, Burned, TokenTypeOK
<1>4. Grown /\ DOMAIN redeemed' = DOMAIN redeemed \cup {f} /\ redeemed'[f] = c
      /\ DOMAIN minted' = DOMAIN minted \cup {t} /\ minted'[t] = f
  BY <1>2 DEF Grown, Put
<1>5. TokenTypeOK'
  BY <1>0, <1>1, <1>2, <1>3 DEF TokenTypeOK, Put
<1>6. SlotInv'
  <2>1. SlotOK(r)'
    BY <1>1 DEF SlotOK
  <2> QED BY <1>1, <1>4, <2>1, SlotStep
<1>7. CodeInv'
  <2>1. \A x \in DOMAIN authCodes' : x \in DOMAIN issued' /\ authCodes'[x] = issued'[x]
    BY <1>0, <1>2 DEF CodeInv
  <2>2. \A g \in DOMAIN redeemed' : Burned(redeemed[g])'
    BY <1>0, <1>2, <1>3, <1>4 DEF CodeInv, Burned, Grown
  <2>3. OneFamilyPerCode'
    BY <1>0, <1>3, <1>4 DEF CodeInv, OneFamilyPerCode, Grown
  <2>4. ASSUME NEW q \in Requests, requests'[q].pc = "save"
        PROVE  requests'[q] = requests[q] /\ requests[q].code # c
    BY <1>0, <1>1, <1>2, <2>4 DEF CodeInv, Others
  <2>5. ASSUME NEW q \in Requests, requests'[q].pc = "save"
        PROVE  /\ Burned(requests[q].code)'
               /\ requests'[q].record = issued'[requests'[q].code]
               /\ ExpectedGeneration # None
                    => requests'[q].record.generation = ExpectedGeneration
               /\ \A g \in DOMAIN redeemed' : redeemed'[g] # requests'[q].code
    BY <1>0, <1>2, <1>4, <2>4, <2>5 DEF CodeInv, Burned, Grown
  <2>6. ASSUME NEW p \in Requests, NEW q \in Requests, requests'[p].pc = "save",
               requests'[q].pc = "save", requests'[p].code = requests'[q].code
        PROVE  p = q
    BY <1>0, <2>4, <2>6 DEF CodeInv
  <2> QED BY <2>1, <2>2, <2>3, <2>5, <2>6 DEF CodeInv
<1>8. /\ FirstRow(r, f).family = f /\ FirstRow(r, f).grant = issued[c].grant
      /\ FirstRow(r, f).previous = None
  BY <1>3 DEF FirstRow, RootRow
<1>9. /\ DOMAIN refreshTokens' = DOMAIN refreshTokens \cup {t} /\ t \notin DOMAIN refreshTokens
      /\ \A u \in DOMAIN refreshTokens : refreshTokens'[u] = refreshTokens[u]
      /\ refreshTokens'[t] = FirstRow(r, f)
      /\ DOMAIN families' = DOMAIN families \cup {f} /\ f \notin DOMAIN families
      /\ \A g \in DOMAIN families : families'[g] = families[g]
      /\ families'[f].generation = requests[r].record.generation
      /\ families'[f].resource = requests[r].record.resource
  BY DEF Founded
<1>10. FamilyInv'
  <2>1. \A g \in DOMAIN redeemed : redeemed[g] \in DOMAIN issued
    BY <1>0 DEF CodeInv, Burned
  <2>2. ASSUME NEW g \in DOMAIN families'
        PROVE  /\ g \in DOMAIN redeemed'
               /\ families'[g].resource = issued'[redeemed'[g]].resource
               /\ ExpectedGeneration # None => families'[g].generation = ExpectedGeneration
    BY <1>0, <1>2, <1>3, <1>4, <1>9 DEF FamilyInv, Grown
  <2>3. ASSUME NEW u \in DOMAIN refreshTokens'
        PROVE  /\ u \in DOMAIN minted'
               /\ refreshTokens'[u].family = minted'[u]
               /\ refreshTokens'[u].grant = issued'[redeemed'[minted'[u]]].grant
    BY <1>0, <1>2, <1>4, <1>8, <1>9, <2>1 DEF FamilyInv, Grown
  <2>4. ASSUME NEW u \in DOMAIN minted'
        PROVE  /\ minted'[u] \in DOMAIN redeemed'
               /\ minted'[u] \in DOMAIN families' => u \in DOMAIN refreshTokens'
    BY <1>0, <1>2, <1>4, <1>9 DEF FamilyInv, Grown
  <2>5. \A u \in rotatedAway' : u \in DOMAIN refreshTokens' => refreshTokens'[u].consumed
    BY <1>0, <1>2, <1>9 DEF FamilyInv, TokenTypeOK
  <2>6. \A u \in DOMAIN refreshTokens : refreshTokens[u].family # f
    BY <1>0, <1>9 DEF RowsMatchFamily
  <2>7. ASSUME NEW s \in DOMAIN refreshTokens', NEW u \in DOMAIN refreshTokens',
               refreshTokens'[s].family = refreshTokens'[u].family,
               ~refreshTokens'[s].consumed, ~refreshTokens'[u].consumed
        PROVE  s = u
    BY <1>0, <1>8, <1>9, <2>6, <2>7 DEF FamilyInv
  <2> QED BY <2>2, <2>3, <2>4, <2>5, <2>7 DEF FamilyInv
<1>11. DeadInv'
  BY <1>0, <1>2, <1>4, <1>9 DEF DeadInv, Grown
<1>12. HeldInv'
  <2> SUFFICES ASSUME NEW u \in DOMAIN refreshTokens', NEW g, g = refreshTokens'[u].family,
                      ~refreshTokens'[u].consumed, ~families'[g].revoked,
                      refreshTokens'[u].previous # None, u \notin returned', g \notin lost'
               PROVE  \E q \in Requests : HeldBy(q, u, g)'
    BY DEF HeldInv, HeldBy, FamilyOf
  <2>1. u \in DOMAIN refreshTokens /\ refreshTokens'[u] = refreshTokens[u]
    BY <1>8, <1>9
  <2>2. g \in DOMAIN families /\ families'[g] = families[g]
    BY <1>0, <1>9, <2>1 DEF RowsMatchFamily
  <2>3. PICK q \in Requests : HeldBy(q, u, g)
    BY <1>0, <1>2, <2>1, <2>2 DEF HeldInv
  <2>4. requests'[q] = requests[q]
    BY <1>1, <1>2, <2>3 DEF Others, HeldBy
  <2>5. requests[q].pc \in {"judge", "compensate"} => FamilyOf(requests[q])' = FamilyOf(requests[q])
    BY <1>0, <1>4, <2>4 DEF SlotInv, SlotOK, FamilyOf, Grown
  <2> QED BY <2>3, <2>4, <2>5 DEF HeldBy
<1> QED BY <1>1, <1>5, <1>6, <1>7, <1>10, <1>11, <1>12 DEF TokenInv

\* The successor is minted into its predecessor's family, and its request
\* answers for it.
LEMMA SuccessorKeeps ==
  ASSUME TokenInv, NEW r \in Requests, NEW s \in Tokens, Succeeded(r, s),
         StoreTypeOK', TokenRowsInv', RequestsOK'
  PROVE  TokenInv'
<1>0. TokenTypeOK /\ CodeInv /\ FamilyInv /\ DeadInv /\ HeldInv /\ RowsMatchFamily /\ SlotInv
  BY DEF TokenInv, TokenRowsInv
<1> DEFINE t == requests[r].token
           f == FamilyOf(requests[r])
<1>1. /\ s \notin DOMAIN minted /\ Others(r) /\ requests[r].pc = "rotate"
      /\ requests'[r].token = t /\ requests'[r].resource = requests[r].resource
      /\ \/ requests'[r].pc = "judge" /\ requests'[r].next = s
         \/ requests'[r].pc = "compensate"
      /\ minted' = Put(minted, s, f) /\ rotatedAway' = rotatedAway \cup {t}
      /\ UNCHANGED <<families, authCodes, issued, redeemed, returned, condemned, lost>>
  BY DEF Succeeded, Rotating
<1>2. t \in DOMAIN minted /\ f = minted[t] /\ f \in DOMAIN redeemed /\ f \in Families
      /\ redeemed[f] \in DOMAIN issued /\ requests[r].resource \in Resources
  BY <1>0, <1>1 DEF SlotInv, SlotOK, FamilyOf, FamilyInv, TokenTypeOK, CodeInv, Burned
<1>3. Grown /\ DOMAIN minted' = DOMAIN minted \cup {s} /\ minted'[s] = f
  BY <1>1 DEF Grown, Put
<1>4. /\ t \in DOMAIN refreshTokens /\ ~refreshTokens[t].consumed
      /\ s \notin DOMAIN refreshTokens
      /\ DOMAIN refreshTokens' = DOMAIN refreshTokens \cup {s}
      /\ refreshTokens'[t].consumed
      /\ \A u \in DOMAIN refreshTokens :
           /\ refreshTokens'[u].family = refreshTokens[u].family
           /\ refreshTokens'[u].previous = refreshTokens[u].previous
           /\ refreshTokens'[u].grant = refreshTokens[u].grant
           /\ refreshTokens[u].consumed => refreshTokens'[u].consumed
      /\ refreshTokens'[s].family = refreshTokens[t].family
      /\ refreshTokens'[s].grant = refreshTokens[t].grant
  BY DEF Succeeded, Extended
<1>5. refreshTokens[t].family = f /\ refreshTokens[t].grant = issued[redeemed[f]].grant
  BY <1>0, <1>2, <1>4 DEF FamilyInv
<1>6. FamilyOf(requests[r])' = f
  BY <1>1, <1>2, <1>3 DEF FamilyOf, Grown
<1> HIDE DEF t, f
<1>7. TokenTypeOK'
  BY <1>0, <1>1, <1>2 DEF TokenTypeOK, Put
<1>8. SlotInv'
  <2>1. SlotOK(r)'
    BY <1>1, <1>2, <1>3 DEF SlotOK, Grown
  <2> QED BY <1>1, <1>3, <2>1, SlotStep
<1>9. CodeInv'
  <2>1. \A q \in Requests : requests'[q].pc = "save" => requests'[q] = requests[q]
    BY <1>1 DEF Others
  <2> QED BY <1>1, <2>1, CodeKept
<1>10. FamilyInv'
  <2>1. ASSUME NEW g \in DOMAIN families'
        PROVE  /\ g \in DOMAIN redeemed'
               /\ families'[g].resource = issued'[redeemed'[g]].resource
               /\ ExpectedGeneration # None => families'[g].generation = ExpectedGeneration
    BY <1>0, <1>1 DEF FamilyInv
  <2>2. ASSUME NEW u \in DOMAIN refreshTokens'
        PROVE  /\ u \in DOMAIN minted'
               /\ refreshTokens'[u].family = minted'[u]
               /\ refreshTokens'[u].grant = issued'[redeemed'[minted'[u]]].grant
    <3>1. CASE u = s
      BY <1>1, <1>3, <1>4, <1>5, <3>1
    <3>2. CASE u \in DOMAIN refreshTokens
      BY <1>0, <1>1, <1>3, <1>4, <3>2 DEF FamilyInv, Grown
    <3> QED BY <1>4, <3>1, <3>2
  <2>3. ASSUME NEW u \in DOMAIN minted'
        PROVE  /\ minted'[u] \in DOMAIN redeemed'
               /\ minted'[u] \in DOMAIN families' => u \in DOMAIN refreshTokens'
    BY <1>0, <1>1, <1>2, <1>3, <1>4 DEF FamilyInv, Grown
  <2>4. \A u \in rotatedAway' : u \in DOMAIN refreshTokens' => refreshTokens'[u].consumed
    BY <1>0, <1>1, <1>4 DEF FamilyInv, TokenTypeOK
  <2>5. ASSUME NEW u \in DOMAIN refreshTokens', NEW v \in DOMAIN refreshTokens',
               refreshTokens'[u].family = refreshTokens'[v].family,
               ~refreshTokens'[u].consumed, ~refreshTokens'[v].consumed
        PROVE  u = v
    <3>1. \A w \in DOMAIN refreshTokens :
            refreshTokens[w].family = f /\ ~refreshTokens[w].consumed => w = t
      BY <1>0, <1>4, <1>5 DEF FamilyInv
    <3>2. \A w \in DOMAIN refreshTokens :
            refreshTokens'[w].family = f => refreshTokens'[w].consumed
      BY <1>4, <3>1
    <3>3. refreshTokens'[s].family = f
      BY <1>4, <1>5
    <3>4. CASE u = s \/ v = s
      BY <1>4, <2>5, <3>2, <3>3, <3>4
    <3>5. CASE u # s /\ v # s
      BY <1>0, <1>4, <2>5, <3>5 DEF FamilyInv
    <3> QED BY <3>4, <3>5
  <2> QED BY <2>1, <2>2, <2>3, <2>4, <2>5 DEF FamilyInv
<1>11. DeadInv'
  BY <1>0, <1>1 DEF DeadInv
<1>12. HeldInv'
  <2> SUFFICES ASSUME NEW u \in DOMAIN refreshTokens', NEW g, g = refreshTokens'[u].family,
                      ~refreshTokens'[u].consumed, ~families'[g].revoked,
                      refreshTokens'[u].previous # None, u \notin returned', g \notin lost'
               PROVE  \E q \in Requests : HeldBy(q, u, g)'
    BY DEF HeldInv, HeldBy, FamilyOf
  <2>1. CASE u = s
    <3>1. g = f
      BY <1>4, <1>5, <2>1
    <3>2. HeldBy(r, u, g)'
      BY <1>1, <1>6, <2>1, <3>1 DEF HeldBy
    <3> QED BY <3>2
  <2>2. CASE u \in DOMAIN refreshTokens
    <3>1. PICK q \in Requests : HeldBy(q, u, g)
      BY <1>0, <1>1, <1>4, <2>2 DEF HeldInv
    <3>2. requests'[q] = requests[q]
      BY <1>1, <3>1 DEF HeldBy, Others
    <3>3. requests[q].pc \in {"judge", "compensate"}
            => FamilyOf(requests[q])' = FamilyOf(requests[q])
      BY <1>0, <1>3, <3>2 DEF SlotInv, SlotOK, FamilyOf, Grown
    <3>4. HeldBy(q, u, g)'
      BY <3>1, <3>2, <3>3 DEF HeldBy
    <3> QED BY <3>4
  <2> QED BY <1>4, <2>1, <2>2
<1> QED BY <1>7, <1>8, <1>9, <1>10, <1>11, <1>12 DEF TokenInv

\* A replayed token leaves no live family behind: either the store saw it as a
\* replay, or the family was dead before.
LEMMA ReplayIsSeen ==
  ASSUME TokenInv, NEW r \in Requests, requests[r].pc = "rotate", Replays(r),
         FamilyOf(requests[r]) \in DOMAIN families,
         ~families[FamilyOf(requests[r])].revoked
  PROVE  IsReplay(requests[r].token, ExpectedGeneration, requests[r].resource)
<1> DEFINE t == requests[r].token
           f == FamilyOf(requests[r])
<1>0. TokenTypeOK /\ FamilyInv /\ CodeInv /\ RowsMatchFamily /\ SlotInv
  BY DEF TokenInv, TokenRowsInv
<1>1. t \in DOMAIN minted /\ f = minted[t]
  BY <1>0 DEF SlotInv, SlotOK, FamilyOf
<1>2. t \in DOMAIN refreshTokens /\ refreshTokens[t].consumed /\ refreshTokens[t].family = f
  BY <1>0, <1>1 DEF FamilyInv, Replays
<1>3. /\ families[f].resource = requests[r].resource
      /\ ExpectedGeneration # None => families[f].generation = ExpectedGeneration
  BY <1>0 DEF FamilyInv, Replays
<1>4. families[f].resource # Unbound
  <2>1. f \in DOMAIN redeemed /\ redeemed[f] \in DOMAIN issued
        /\ families[f].resource = issued[redeemed[f]].resource
    BY <1>0 DEF FamilyInv, CodeInv, Burned
  <2>2. families[f].resource \in Resources
    BY <1>0, <2>1 DEF TokenTypeOK, AuthCodeRecord
  <2> QED BY <2>2, UnboundAssumption
<1>5. /\ families[f].resource = refreshTokens[t].resource
      /\ families[f].generation = refreshTokens[t].generation
  BY <1>0, <1>2 DEF RowsMatchFamily
<1> HIDE DEF t, f
<1>6. /\ f \in DOMAIN families /\ ~families[f].revoked
  BY DEF f
<1>7. IsReplay(t, ExpectedGeneration, requests[r].resource)
  BY <1>2, <1>3, <1>4, <1>5, <1>6 DEF IsReplay, Addressable
<1> QED BY <1>7 DEF t

\* A refused refresh condemns only what is dead.
LEMMA RefusalKeeps ==
  ASSUME TokenInv, NEW r \in Requests, requests[r].pc = "rotate", Refused(r),
         StoreTypeOK', TokenRowsInv', RequestsOK'
  PROVE  TokenInv'
<1>0. TokenTypeOK /\ SlotInv /\ FamilyInv
  BY DEF TokenInv
<1> DEFINE f == FamilyOf(requests[r])
<1>1. /\ Others(r) /\ Dying(f)
      /\ requests'[r].pc \in {"idle", "compensate"}
      /\ requests'[r].pc = "compensate" => /\ requests'[r].token = requests[r].token
                                           /\ requests'[r].resource = requests[r].resource
      /\ condemned' = condemned \/ (condemned' = condemned \cup {f} /\ Replays(r))
      /\ UNCHANGED <<authCodes, issued, minted, redeemed, returned, rotatedAway, lost>>
  BY DEF Refused, Rotating
<1>2. Grown
  BY <1>1 DEF Grown
<1>3. requests[r].token \in DOMAIN minted /\ f \in DOMAIN redeemed /\ f \in Families
      /\ requests[r].resource \in Resources
  BY <1>0 DEF SlotInv, SlotOK, FamilyOf, FamilyInv, TokenTypeOK
<1>4. Replays(r) => (f \in DOMAIN families' => families'[f].revoked)
  <2> SUFFICES ASSUME Replays(r), f \in DOMAIN families' PROVE families'[f].revoked
    OBVIOUS
  <2>1. f \in DOMAIN families /\ (families[f].revoked => families'[f].revoked)
    BY <1>1 DEF Dying
  <2>2. CASE ~families[f].revoked
    BY <2>1, <2>2, ReplayIsSeen DEF Refused
  <2> QED BY <2>1, <2>2
<1> HIDE DEF f
<1>5. TokenTypeOK'
  BY <1>0, <1>1, <1>3 DEF TokenTypeOK
<1>6. SlotInv'
  <2>1. SlotOK(r)'
    BY <1>1, <1>3 DEF SlotOK
  <2> QED BY <1>1, <1>2, <2>1, SlotStep
<1>7. CodeInv'
  <2>1. \A q \in Requests : requests'[q].pc = "save" => requests'[q] = requests[q]
    BY <1>1 DEF Others
  <2> QED BY <1>1, <2>1, CodeKept
<1>8. FamilyInv'
  BY <1>1, <1>2, FamilyKept
<1>9. DeadInv'
  <2>1. \A g \in condemned' \ condemned :
          g \in DOMAIN redeemed' /\ (g \in DOMAIN families' => families'[g].revoked)
    BY <1>1, <1>3, <1>4
  <2> QED BY <1>1, <1>2, <2>1, DeadKept
<1>10. HeldInv'
  <2>1. \A t, g : ~HeldBy(r, t, g)
    BY DEF HeldBy
  <2> QED BY <1>1, <1>2, <2>1, HeldKept
<1> QED BY <1>5, <1>6, <1>7, <1>8, <1>9, <1>10 DEF TokenInv

\* However a refresh turns out.
LEMMA RotateKeeps ==
  ASSUME TokenInv, NEW r \in Requests, RotateToken(r)
  PROVE  TokenInv'
<1>1. requests[r].pc = "rotate"
  BY DEF RotateToken
<1> QED BY <1>1, RotateEffect, SuccessorKeeps, RefusalKeeps

\* A step that leaves the store alone.
LEMMA QuietKeeps ==
  ASSUME TokenInv, NEW r \in Requests, Quiet(r), RequestsOK'
  PROVE  TokenInv'
<1>0. TokenTypeOK /\ TokenRowsInv /\ SlotOK(r) /\ FamilyInv
  BY DEF TokenInv, SlotInv
<1>1. Others(r) /\ UNCHANGED <<storeVars, issued, minted, redeemed, rotatedAway, condemned>>
  BY DEF Quiet
<1>2. Grown /\ Dying(None) /\ UNCHANGED <<refreshTokens, families, authCodes>>
  BY <1>1 DEF Grown, Dying, storeVars
<1>3. returned \subseteq returned' /\ returned' \subseteq DOMAIN minted
      /\ lost \subseteq lost' /\ lost' \subseteq Families
  BY <1>0 DEF Quiet, SlotOK, FamilyOf, TokenTypeOK
<1>4. TokenTypeOK'
  <2>1. StoreTypeOK'
    BY <1>0, <1>1 DEF TokenTypeOK, storeVars, StoreTypeOK, AuthCodesOK, TokensOK, FamiliesOK,
                      ConsentsOK
  <2> QED BY <1>0, <1>1, <1>3, <2>1 DEF TokenTypeOK
<1>5. TokenRowsInv'
  BY <1>0, <1>2, RowsFrame DEF tokenRows
<1>6. SlotInv'
  <2>1. CASE requests'[r].pc = "revoke"
    <3>1. requests[r].token \in DOMAIN refreshTokens /\ requests'[r].pc = "revoke"
          /\ requests'[r].record = refreshTokens[requests[r].token]
          /\ requests'[r].record.resource = requests'[r].resource
          /\ requests'[r].resource = requests[r].resource
      BY <2>1 DEF Quiet
    <3> DEFINE t == requests[r].token
    <3>2. /\ refreshTokens[t].family \in DOMAIN families
          /\ families[refreshTokens[t].family].resource = refreshTokens[t].resource
      BY <1>0, <3>1 DEF TokenRowsInv, RowsMatchFamily
    <3>3. /\ refreshTokens[t].family \in DOMAIN redeemed
          /\ families[refreshTokens[t].family].resource
               = issued[redeemed[refreshTokens[t].family]].resource
      BY <1>0, <3>2 DEF FamilyInv
    <3>4. SlotOK(r)'
      BY <1>0, <1>1, <3>1, <3>2, <3>3 DEF SlotOK, Quiet
    <3> QED BY <1>1, <1>2, <3>4, SlotStep
  <2>2. CASE requests'[r].pc # "revoke"
    <3>1. SlotOK(r)'
      BY <1>0, <1>1, <2>2 DEF SlotOK, Quiet
    <3> QED BY <1>1, <1>2, <3>1, SlotStep
  <2> QED BY <2>1, <2>2
<1>7. CodeInv'
  <2>1. \A q \in Requests : requests'[q].pc = "save" => requests'[q] = requests[q]
    BY DEF Quiet, Others
  <2> QED BY <1>1, <1>2, <2>1, CodeKept
<1>8. FamilyInv' /\ DeadInv'
  BY <1>1, <1>2, FamilyKept, DeadKept
<1>9. HeldInv'
  <2>1. ASSUME NEW t, NEW g, HeldBy(r, t, g)
        PROVE  t \in returned' \/ g \in lost' \/ HeldBy(r, t, g)'
    <3>1. CASE requests[r].pc = "judge" /\ requests[r].next = t
      BY <1>1, <2>1, <3>1 DEF HeldBy, Quiet, FamilyOf
    <3>2. CASE requests[r].pc = "compensate"
      BY <2>1, <3>2 DEF HeldBy, Quiet
    <3> QED BY <2>1, <3>1, <3>2 DEF HeldBy
  <2>2. \A t, g : /\ HeldBy(r, t, g)
                  /\ g \in DOMAIN families /\ ~families'[g].revoked
                  => t \in returned' \/ g \in lost' \/ HeldBy(r, t, g)'
    BY <2>1
  <2> QED BY <1>1, <1>2, <1>3, <2>2, HeldKept
<1> QED BY <1>4, <1>5, <1>6, <1>7, <1>8, <1>9 DEF TokenInv

\* A revocation ends the family it condemns.
LEMMA RevokeKeeps ==
  ASSUME TokenInv, NEW r \in Requests, Compensate(r) \/ RevokeFound(r)
  PROVE  TokenInv'
<1>0. TokenTypeOK
  BY DEF TokenInv
<1>1. StoreTypeOK' /\ TokenRowsInv' /\ RequestsOK' /\ \E f \in Families : Ended(r, f)
  BY RevokeEffect
<1> PICK f \in Families : Ended(r, f)
  BY <1>1
<1>2. /\ Others(r) /\ requests'[r].pc = "idle" /\ Dying(f) /\ f \in DOMAIN redeemed
      /\ f \in DOMAIN families => families'[f].revoked
      /\ condemned' = condemned \cup {f}
      /\ UNCHANGED <<authCodes, issued, minted, redeemed, returned, rotatedAway, lost>>
  BY DEF Ended
<1>3. Grown
  BY <1>2 DEF Grown
<1>4. TokenTypeOK'
  BY <1>0, <1>1, <1>2 DEF TokenTypeOK
<1>5. SlotInv'
  <2>1. SlotOK(r)'
    BY <1>2 DEF SlotOK
  <2> QED BY <1>2, <1>3, <2>1, SlotStep
<1>6. CodeInv'
  <2>1. \A q \in Requests : requests'[q].pc = "save" => requests'[q] = requests[q]
    BY <1>2 DEF Others
  <2> QED BY <1>2, <2>1, CodeKept
<1>7. FamilyInv'
  BY <1>2, <1>3, FamilyKept
<1>8. DeadInv'
  <2>1. \A g \in condemned' \ condemned :
          g \in DOMAIN redeemed' /\ (g \in DOMAIN families' => families'[g].revoked)
    BY <1>2 DEF Dying
  <2> QED BY <1>2, <1>3, <2>1, DeadKept
<1>9. HeldInv'
  <2>1. \A t, g : /\ HeldBy(r, t, g)
                  /\ g \in DOMAIN families /\ ~families'[g].revoked
                  => t \in returned' \/ g \in lost' \/ HeldBy(r, t, g)'
    BY <1>2 DEF HeldBy, Ended
  <2> QED BY <1>2, <1>3, <2>1, HeldKept
<1> QED BY <1>1, <1>4, <1>5, <1>6, <1>7, <1>8, <1>9 DEF TokenInv

\* A sweep, by whatever clock, forgets codes and whole families.
LEMMA SweepKeeps ==
  ASSUME TokenInv, NEW now \in Times, SweepExpired(now), UNCHANGED <<requests, historyVars>>
  PROVE  TokenInv'
<1>0. TokenTypeOK /\ TokenRowsInv /\ CodeInv /\ FamilyInv /\ DeadInv /\ HeldInv
      /\ RowsMatchFamily /\ SlotInv
  BY DEF TokenInv, TokenRowsInv
<1>1. Swept
  BY SweepEffect
<1>2. UNCHANGED <<requests, issued, minted, redeemed, returned, rotatedAway, condemned, lost>>
  BY DEF historyVars
<1>3. Grown
  BY <1>2 DEF Grown
<1>4. TokenTypeOK' /\ TokenRowsInv'
  <2>1. StoreTypeOK' /\ TokenRowsInv'
    BY <1>0, SweepType, SweepRows DEF TokenTypeOK
  <2> QED BY <1>0, <1>2, <2>1 DEF TokenTypeOK, RequestsOK
<1>5. SlotInv'
  BY <1>2, <1>3, SlotKept DEF SlotInv
<1>6. CodeInv'
  BY <1>1, <1>2, CodeKept DEF Swept
<1>7. FamilyInv'
  <2>1. ASSUME NEW g \in DOMAIN families'
        PROVE  /\ g \in DOMAIN redeemed'
               /\ families'[g].resource = issued'[redeemed'[g]].resource
               /\ ExpectedGeneration # None => families'[g].generation = ExpectedGeneration
    BY <1>0, <1>1, <1>2 DEF FamilyInv, Swept
  <2>2. ASSUME NEW u \in DOMAIN refreshTokens'
        PROVE  /\ u \in DOMAIN minted'
               /\ refreshTokens'[u].family = minted'[u]
               /\ refreshTokens'[u].grant = issued'[redeemed'[minted'[u]]].grant
    BY <1>0, <1>1, <1>2 DEF FamilyInv, Swept
  <2>3. ASSUME NEW u \in DOMAIN minted'
        PROVE  /\ minted'[u] \in DOMAIN redeemed'
               /\ minted'[u] \in DOMAIN families' => u \in DOMAIN refreshTokens'
    BY <1>0, <1>1, <1>2 DEF FamilyInv, Swept
  <2>4. \A u \in rotatedAway' : u \in DOMAIN refreshTokens' => refreshTokens'[u].consumed
    BY <1>0, <1>1, <1>2 DEF FamilyInv, Swept
  <2>5. ASSUME NEW u \in DOMAIN refreshTokens', NEW v \in DOMAIN refreshTokens',
               refreshTokens'[u].family = refreshTokens'[v].family,
               ~refreshTokens'[u].consumed, ~refreshTokens'[v].consumed
        PROVE  u = v
    BY <1>0, <1>1, <2>5 DEF FamilyInv, Swept
  <2> QED BY <2>1, <2>2, <2>3, <2>4, <2>5 DEF FamilyInv
<1>8. DeadInv'
  BY <1>0, <1>1, <1>2 DEF DeadInv, Swept
<1>9. HeldInv'
  <2> SUFFICES ASSUME NEW u \in DOMAIN refreshTokens', NEW g, g = refreshTokens'[u].family,
                      ~refreshTokens'[u].consumed, ~families'[g].revoked,
                      refreshTokens'[u].previous # None, u \notin returned', g \notin lost'
               PROVE  \E q \in Requests : HeldBy(q, u, g)'
    BY DEF HeldInv, HeldBy, FamilyOf
  <2>1. u \in DOMAIN refreshTokens /\ refreshTokens'[u] = refreshTokens[u]
    BY <1>1 DEF Swept
  <2>2. g \in DOMAIN families'
    BY <1>4 DEF TokenRowsInv, RowsMatchFamily
  <2>3. PICK q \in Requests : HeldBy(q, u, g)
    BY <1>0, <1>1, <1>2, <2>1, <2>2 DEF HeldInv, Swept
  <2> QED BY <1>2, <2>3 DEF HeldBy, FamilyOf
<1> QED BY <1>4, <1>5, <1>6, <1>7, <1>8, <1>9 DEF TokenInv

\* A code never issued before is stored as issued.  (The authorization use case
\* commits it together with the consent's JTI.)
LEMMA IssueKeeps ==
  ASSUME TokenInv, StoreTypeOK', NEW code \in Codes, NEW record \in AuthCodeRecord,
         code \notin DOMAIN issued,
         authCodes' = Put(authCodes, code, record), issued' = Put(issued, code, record),
         UNCHANGED <<refreshTokens, families, requests, minted, redeemed, returned,
                     rotatedAway, condemned, lost>>
  PROVE  TokenInv'
<1>0. TokenTypeOK /\ TokenRowsInv /\ CodeInv /\ HeldInv
  BY DEF TokenInv
<1>1. Grown /\ Dying(None)
  BY DEF Grown, Dying, Put
<1>2. TokenTypeOK'
  BY <1>0 DEF TokenTypeOK, RequestsOK, Put
<1>3. TokenRowsInv'
  BY <1>0, RowsFrame DEF tokenRows
<1>4. SlotInv'
  BY <1>1, SlotKept DEF SlotInv
<1>5. CodeInv'
  <2>1. \A c : Burned(c) => Burned(c)' /\ issued'[c] = issued[c]
    BY DEF Burned, Put
  <2>2. \A x \in DOMAIN authCodes' : x \in DOMAIN issued' /\ authCodes'[x] = issued'[x]
    BY <1>0 DEF CodeInv, Put
  <2>3. \A g \in DOMAIN redeemed' : Burned(redeemed[g])'
    BY <1>0, <2>1 DEF CodeInv
  <2>4. OneFamilyPerCode'
    BY <1>0 DEF CodeInv, OneFamilyPerCode
  <2>5. \A q \in Requests : requests'[q].pc = "save" =>
          /\ Burned(requests[q].code)'
          /\ requests'[q].record = issued'[requests'[q].code]
          /\ ExpectedGeneration # None
               => requests'[q].record.generation = ExpectedGeneration
          /\ \A g \in DOMAIN redeemed' : redeemed'[g] # requests'[q].code
    BY <1>0, <2>1 DEF CodeInv
  <2>6. \A p, q \in Requests :
          /\ requests'[p].pc = "save" /\ requests'[q].pc = "save"
          /\ requests'[p].code = requests'[q].code
          => p = q
    BY <1>0 DEF CodeInv
  <2> QED BY <2>2, <2>3, <2>4, <2>5, <2>6 DEF CodeInv
<1>6. FamilyInv' /\ DeadInv'
  BY <1>1, FamilyKept, DeadKept
<1>7. HeldInv'
  BY <1>0 DEF HeldInv, HeldBy, FamilyOf
<1> QED BY <1>2, <1>3, <1>4, <1>5, <1>6, <1>7 DEF TokenInv

\* A crash ends the requests and remembers which compensations were lost.
LEMMA CrashKeeps ==
  ASSUME TokenInv, Crash
  PROVE  TokenInv'
<1>0. TokenTypeOK /\ TokenRowsInv /\ CodeInv /\ FamilyInv /\ SlotInv /\ HeldInv
  BY DEF TokenInv
<1>1. /\ requests' = [r \in Requests |-> Idle]
      /\ lost' = lost \cup {FamilyOf(requests[r]) :
                   r \in {q \in Requests : requests[q].pc \in {"judge", "compensate"}}}
      /\ UNCHANGED <<storeVars, issued, minted, redeemed, returned, rotatedAway, condemned>>
  BY DEF Crash
<1>2. Grown /\ Dying(None) /\ UNCHANGED <<refreshTokens, families, authCodes>>
  BY <1>1 DEF Grown, Dying, storeVars
<1>3. TokenTypeOK'
  <2>1. RequestsOK'
    BY <1>1, IdleType DEF RequestsOK
  <2>2. \A r \in Requests : requests[r].pc \in {"judge", "compensate"}
                            => FamilyOf(requests[r]) \in Families
    BY <1>0 DEF SlotInv, SlotOK, FamilyOf, TokenTypeOK
  <2>3. lost' \subseteq Families
    BY <1>0, <1>1, <2>2 DEF TokenTypeOK
  <2>4. StoreTypeOK'
    BY <1>0, <1>1 DEF TokenTypeOK, storeVars, StoreTypeOK, AuthCodesOK, TokensOK, FamiliesOK,
                      ConsentsOK
  <2> QED BY <1>0, <1>1, <2>1, <2>3, <2>4 DEF TokenTypeOK
<1>4. TokenRowsInv'
  BY <1>0, <1>2, RowsFrame DEF tokenRows
<1>5. \A r \in Requests : requests'[r].pc = "idle"
  BY <1>1, IdleType
<1>6. SlotInv'
  BY <1>5 DEF SlotInv, SlotOK
<1>7. CodeInv'
  BY <1>1, <1>2, <1>5, CodeKept
<1>8. FamilyInv' /\ DeadInv'
  BY <1>1, <1>2, FamilyKept, DeadKept
<1>9. HeldInv'
  <2>1. ASSUME NEW t \in DOMAIN refreshTokens, NEW q \in Requests,
               HeldBy(q, t, refreshTokens[t].family)
        PROVE  refreshTokens[t].family \in lost'
    <3>1. FamilyOf(requests[q]) = refreshTokens[t].family
      BY <1>0, <2>1 DEF HeldBy, SlotInv, SlotOK, FamilyInv, FamilyOf
    <3> QED BY <1>1, <2>1, <3>1 DEF HeldBy
  <2> QED BY <1>0, <1>1, <1>2, <2>1 DEF HeldInv
<1> QED BY <1>3, <1>4, <1>6, <1>7, <1>8, <1>9 DEF TokenInv

\* Every step of a request.
LEMMA RequestKeeps ==
  ASSUME TokenInv, NEW r \in Requests, Arrival(r) \/ RequestStep(r)
  PROVE  TokenInv'
<1>1. TokenTypeOK
  BY DEF TokenInv
<1> QED
  BY <1>1, ArrivalKeeps, ConsumeKeeps, SaveKeeps, RotateKeeps, QuietEffect, QuietKeeps,
     RevokeKeeps
     DEF RequestStep

\* The initial state.
LEMMA TokenInvInit == TokenInit => TokenInv
<1> SUFFICES ASSUME TokenInit PROVE TokenInv
  OBVIOUS
<1>1. /\ StoreInit /\ \A r \in Requests : requests[r].pc = "idle"
      /\ DOMAIN issued = {} /\ DOMAIN minted = {} /\ DOMAIN redeemed = {}
      /\ returned = {} /\ rotatedAway = {} /\ condemned = {} /\ lost = {}
      /\ DOMAIN authCodes = {} /\ DOMAIN refreshTokens = {} /\ DOMAIN families = {}
  BY IdleType DEF TokenInit, StoreInit
<1>2. RequestsOK
  BY IdleType DEF TokenInit, RequestsOK
<1>3. TokenTypeOK
  BY <1>1, <1>2, StoreTypeInit DEF TokenTypeOK
<1>4. TokenRowsInv
  BY <1>1, RowsInit
<1> QED
  BY <1>1, <1>3, <1>4
     DEF TokenInv, SlotInv, SlotOK, CodeInv, OneFamilyPerCode, FamilyInv, DeadInv, HeldInv

\* Every step of the system.
LEMMA TokenInvStep == TokenInv /\ [TokenNext]_tokenVars => TokenInv'
<1> SUFFICES ASSUME TokenInv, [TokenNext]_tokenVars PROVE TokenInv'
  OBVIOUS
<1>1. CASE \E r \in Requests : Arrival(r) \/ RequestStep(r)
  BY <1>1, RequestKeeps
<1>2. CASE \E code \in Codes, record \in AuthCodeRecord : IssueCode(code, record)
  <2> PICK code \in Codes, record \in AuthCodeRecord : IssueCode(code, record)
    BY <1>2
  <2>1. StoreTypeOK'
    BY SaveCodeType DEF IssueCode, TokenInv, TokenTypeOK
  <2> QED BY <2>1, IssueKeeps DEF IssueCode, SaveAuthCode
<1>3. CASE (\E now \in Times : SweepExpired(now)) /\ UNCHANGED <<requests, historyVars>>
  BY <1>3, SweepKeeps
<1>4. CASE Crash
  BY <1>4, CrashKeeps
<1>5. CASE UNCHANGED tokenVars
  BY <1>5 DEF tokenVars, storeVars, historyVars, TokenInv, TokenTypeOK, StoreTypeOK,
    AuthCodesOK, TokensOK, FamiliesOK, ConsentsOK, RequestsOK, TokenRowsInv, RowsMatchFamily,
    LineageKept, OneSuccessor, SuccessorInherits, SlotInv, SlotOK, CodeInv, Burned,
    OneFamilyPerCode, FamilyInv, DeadInv, HeldInv, HeldBy, FamilyOf
<1> QED BY <1>1, <1>2, <1>3, <1>4, <1>5 DEF TokenNext

-----------------------------------------------------------------------------
(* What the token use case promises *)

\* The invariant holds in every behaviour.
LEMMA TokenInvCorrect == TokenSpec => []TokenInv
BY TokenInvInit, TokenInvStep, PTL DEF TokenSpec

\* Stores, requests and histories keep their types whatever fails or crashes.
THEOREM TokenTypeCorrect == TokenSpec => []TokenTypeOK
<1>1. TokenInv => TokenTypeOK
  BY DEF TokenInv
<1> QED BY <1>1, TokenInvCorrect, PTL

\* An authorization code yields at most one family: not when exchanges race on
\* it, not when one fails halfway, not after a crash (token.ts
\* exchangeAuthorizationCode: consume, then save under a new family id).
THEOREM OneFamilyPerCodeCorrect == TokenSpec => []OneFamilyPerCode
<1>1. TokenInv => OneFamilyPerCode
  BY DEF TokenInv, CodeInv
<1> QED BY <1>1, TokenInvCorrect, PTL

\* The token rows agree with the code they go back to.
LEMMA GrantFollows == TokenInv => GrantFollowsCode
<1> SUFFICES ASSUME TokenInv, NEW t \in DOMAIN refreshTokens
             PROVE  LET code == redeemed[refreshTokens[t].family] IN
                    /\ refreshTokens[t].grant = issued[code].grant
                    /\ refreshTokens[t].resource = issued[code].resource
  BY DEF GrantFollowsCode
<1> QED BY DEF TokenInv, FamilyInv, TokenRowsInv, RowsMatchFamily

\* Whatever client refreshes, with whatever claims, the tokens of a family speak
\* for the code it was issued for (token.ts refresh over memory.ts
\* rotateRefreshToken).
THEOREM GrantFollowsCodeCorrect == TokenSpec => []GrantFollowsCode
BY GrantFollows, TokenInvCorrect, PTL

\* A family a completed call condemned has no usable token, although refreshes
\* were in flight, and although a sweep may have forgotten the replayed token.
THEOREM CondemnedIsDeadCorrect == TokenSpec => []CondemnedIsDead
<1>1. TokenInv => CondemnedIsDead
  BY DEF TokenInv, DeadInv, CondemnedIsDead, UsableTokens
<1> QED BY <1>1, TokenInvCorrect, PTL

\* A successor nobody returned is held by a request, or its compensation was
\* lost with the process or the store call (token.ts refresh, compensation).
LEMMA HeldNoOrphan == TokenInv => NoOrphanSuccessor
<1> SUFFICES ASSUME TokenInv, NEW f \in Families, NEW t \in Tokens, t \in UsableTokens(f),
                    refreshTokens[t].previous # None, t \notin returned, f \notin lost
             PROVE  \E r \in Requests : /\ requests[r].pc \in {"judge", "compensate"}
                                        /\ FamilyOf(requests[r]) = f
  BY DEF NoOrphanSuccessor
<1>1. /\ t \in DOMAIN refreshTokens /\ refreshTokens[t].family = f
      /\ ~refreshTokens[t].consumed /\ ~families[f].revoked
  BY DEF UsableTokens
<1>2. \E r \in Requests : HeldBy(r, t, f)
  BY <1>1 DEF TokenInv, HeldInv
<1> QED BY <1>2 DEF HeldBy

\* No refresh ends with a usable successor that nobody was given.
THEOREM NoOrphanSuccessorCorrect == TokenSpec => []NoOrphanSuccessor
BY HeldNoOrphan, TokenInvCorrect, PTL

-----------------------------------------------------------------------------
(* The token use case implements the rotation it promises *)

\* The abstract current token of a family.
Current(f) == IF UsableTokens(f) = {} THEN None ELSE CHOOSE t \in UsableTokens(f) : TRUE

\* There is never more than one candidate.
LEMMA OneUsable ==
  ASSUME TokenInv, NEW f, NEW t \in UsableTokens(f)
  PROVE  UsableTokens(f) = {t} /\ Current(f) = t /\ t \in Tokens /\ Current(f) # None
<1>1. UsableTokens(f) = {t}
  BY DEF TokenInv, FamilyInv, UsableTokens
<1>2. Current(f) = t
  BY <1>1 DEF Current
<1>3. t \in Tokens
  BY DEF UsableTokens, TokenInv, TokenTypeOK, StoreTypeOK, TokensOK
<1> QED BY <1>1, <1>2, <1>3, NoneAssumption

\* The mapped variable, as a function.
LineageOf == [f \in Families |-> Current(f)]

\* A family whose usable tokens stay keeps its current token.
LEMMA SameCurrent ==
  ASSUME NEW f, UsableTokens(f)' = UsableTokens(f)
  PROVE  Current(f)' = Current(f)
BY DEF Current

\* The families in which something ends.
EndedFamilies == {f \in Families : UsableTokens(f)' = {}}

\* A step in which usable tokens only go away ends families, or is no step.
LEMMA OnlyEnds ==
  ASSUME UNCHANGED <<minted, redeemed>>,
         \A f \in Families : UsableTokens(f)' \in {UsableTokens(f), {}}
  PROVE  Lineage!End(EndedFamilies)
<1>1. ASSUME NEW f \in Families
      PROVE  Current(f)' = IF f \in EndedFamilies THEN None ELSE Current(f)
  <2>1. CASE UsableTokens(f)' = {}
    BY <2>1 DEF EndedFamilies, Current
  <2>2. CASE UsableTokens(f)' # {}
    BY <2>2, SameCurrent DEF EndedFamilies
  <2> QED BY <2>1, <2>2
<1>2. LineageOf' = [f \in Families |-> IF f \in EndedFamilies THEN None ELSE LineageOf[f]]
  BY <1>1 DEF LineageOf
<1> QED BY <1>2 DEF Lineage!End, LineageOf, Current

\* A step that touches neither tokens nor histories is no step of the lineage.
LEMMA NoLineageStep ==
  ASSUME UNCHANGED <<refreshTokens, families, minted, redeemed>>
  PROVE  UNCHANGED Lineage!lineageVars
BY DEF Lineage!lineageVars, UsableTokens

\* A dying family ends; nothing else moves.
LEMMA DyingEnds ==
  ASSUME TokenInv, StoreTypeOK', NEW f, Dying(f), UNCHANGED <<minted, redeemed>>
  PROVE  \E ended \in SUBSET Families : Lineage!End(ended)
<1>1. ASSUME NEW g \in Families
      PROVE  UsableTokens(g)' \in {UsableTokens(g), {}}
  <2>1. CASE g \in DOMAIN families /\ families'[g].revoked
    BY <2>1 DEF UsableTokens
  <2>2. CASE g \in DOMAIN families /\ ~families'[g].revoked
    BY <2>2 DEF UsableTokens, Dying
  <2>3. CASE g \notin DOMAIN families
    BY <2>3 DEF UsableTokens, Dying
  <2> QED BY <2>1, <2>2, <2>3
<1>2. Lineage!End(EndedFamilies)
  BY <1>1, OnlyEnds
<1> QED BY <1>2 DEF EndedFamilies

\* A sweep ends the families it drops.
LEMMA SweepEnds ==
  ASSUME Swept, UNCHANGED <<minted, redeemed>>
  PROVE  \E ended \in SUBSET Families : Lineage!End(ended)
<1>1. ASSUME NEW g \in Families
      PROVE  UsableTokens(g)' \in {UsableTokens(g), {}}
  <2>1. CASE g \in DOMAIN families'
    BY <2>1 DEF UsableTokens, Swept
  <2>2. CASE g \notin DOMAIN families'
    BY <2>2 DEF UsableTokens
  <2> QED BY <2>1, <2>2
<1>2. Lineage!End(EndedFamilies)
  BY <1>1, OnlyEnds
<1> QED BY <1>2 DEF EndedFamilies

\* A family and its first token are born together.
LEMMA FoundedIssues ==
  ASSUME TokenInv, TokenInv', NEW r \in Requests, NEW t \in Tokens, NEW f \in Families,
         Founded(r, t, f)
  PROVE  Lineage!Issue(f, t)
<1>0. RowsMatchFamily
  BY DEF TokenInv, TokenRowsInv
<1>1. /\ t \notin DOMAIN minted /\ f \notin DOMAIN redeemed
      /\ DOMAIN minted' = DOMAIN minted \cup {t} /\ DOMAIN redeemed' = DOMAIN redeemed \cup {f}
      /\ DOMAIN refreshTokens' = DOMAIN refreshTokens \cup {t} /\ t \notin DOMAIN refreshTokens
      /\ \A u \in DOMAIN refreshTokens : refreshTokens'[u] = refreshTokens[u]
      /\ refreshTokens'[t] = FirstRow(r, f)
      /\ DOMAIN families' = DOMAIN families \cup {f} /\ f \notin DOMAIN families
      /\ \A g \in DOMAIN families : families'[g] = families[g]
      /\ ~families'[f].revoked
  BY DEF Founded, Put
<1>2. FirstRow(r, f).family = f /\ ~FirstRow(r, f).consumed
  BY DEF FirstRow, RootRow
<1>3. Current(f)' = t
  <2>1. t \in UsableTokens(f)'
    BY <1>1, <1>2 DEF UsableTokens
  <2>2. UsableTokens(f)' = {t}
    BY <2>1 DEF TokenInv, FamilyInv, UsableTokens
  <2> QED BY <2>2 DEF Current
<1>4. ASSUME NEW g \in Families, g # f
      PROVE  Current(g)' = Current(g)
  <2>1. UsableTokens(g)' = UsableTokens(g)
    BY <1>0, <1>1, <1>2, <1>4 DEF UsableTokens, RowsMatchFamily
  <2> QED BY <2>1, SameCurrent
<1>5. LineageOf' = [LineageOf EXCEPT ![f] = t]
  BY <1>3, <1>4 DEF LineageOf
<1> QED BY <1>1, <1>5 DEF Lineage!Issue, LineageOf, Current

\* A family passes from its current token to the successor.
LEMMA SucceededRotates ==
  ASSUME TokenInv, TokenInv', NEW r \in Requests, NEW s \in Tokens, Succeeded(r, s)
  PROVE  \E f \in Families : Lineage!Rotate(f, s)
<1>0. TokenTypeOK /\ FamilyInv /\ SlotInv
  BY DEF TokenInv
<1> PICK t : t = requests[r].token
  OBVIOUS
<1>1. /\ s \notin DOMAIN minted /\ DOMAIN minted' = DOMAIN minted \cup {s}
      /\ UNCHANGED <<families, redeemed>>
      /\ t \in DOMAIN refreshTokens /\ ~refreshTokens[t].consumed
      /\ s \notin DOMAIN refreshTokens
      /\ DOMAIN refreshTokens' = DOMAIN refreshTokens \cup {s}
      /\ \A u \in DOMAIN refreshTokens :
           /\ refreshTokens'[u].family = refreshTokens[u].family
           /\ u # t => refreshTokens'[u] = refreshTokens[u]
      /\ refreshTokens'[t].consumed
      /\ refreshTokens'[s].family = refreshTokens[t].family /\ ~refreshTokens'[s].consumed
      /\ refreshTokens[t].family \in DOMAIN families
      /\ ~families[refreshTokens[t].family].revoked
  BY DEF Succeeded, Extended, Addressable, Put
<1>2. PICK f \in Families : refreshTokens[t].family = f
  BY <1>0, <1>1 DEF FamilyInv, TokenTypeOK
<1>3. LineageOf[f] # None
  <2>1. t \in UsableTokens(f)
    BY <1>1, <1>2 DEF UsableTokens
  <2> QED BY <1>2, <2>1, OneUsable DEF LineageOf
<1>4. Current(f)' = s
  <2>1. s \in UsableTokens(f)'
    BY <1>1, <1>2 DEF UsableTokens
  <2>2. UsableTokens(f)' = {s}
    BY <2>1 DEF TokenInv, FamilyInv, UsableTokens
  <2> QED BY <2>2 DEF Current
<1>5. ASSUME NEW g \in Families, g # f
      PROVE  Current(g)' = Current(g)
  <2>1. UsableTokens(g)' = UsableTokens(g)
    BY <1>1, <1>2, <1>5 DEF UsableTokens
  <2> QED BY <2>1, SameCurrent
<1>6. LineageOf' = [LineageOf EXCEPT ![f] = s]
  BY <1>4, <1>5 DEF LineageOf
<1>7. Lineage!Rotate(f, s)
  BY <1>1, <1>3, <1>6 DEF Lineage!Rotate, LineageOf, Current
<1> QED BY <1>2, <1>7

\* Every step of the token use case, with its store, is a step of the lineage or
\* invisible to it.
LEMMA LineageStep ==
  TokenInv /\ TokenInv' /\ [TokenNext]_tokenVars
    => [Lineage!LineageNext]_(Lineage!lineageVars)
<1> SUFFICES ASSUME TokenInv, TokenInv', [TokenNext]_tokenVars
             PROVE  Lineage!LineageNext \/ UNCHANGED Lineage!lineageVars
  OBVIOUS
<1>0. TokenTypeOK /\ StoreTypeOK'
  BY DEF TokenInv, TokenTypeOK
<1>1. CASE UNCHANGED <<refreshTokens, families, minted, redeemed>>
  BY <1>1, NoLineageStep
<1>2. ASSUME NEW r \in Requests, Arrival(r)
      PROVE  UNCHANGED <<refreshTokens, families, minted, redeemed>>
  BY <1>0, <1>2, Arrived DEF TokenTypeOK, storeVars, historyVars
<1>3. ASSUME NEW r \in Requests, ConsumeCode(r)
      PROVE  UNCHANGED <<refreshTokens, families, minted, redeemed>>
  BY <1>3 DEF ConsumeCode, ConsumeAuthCode, historyVars
<1>4. ASSUME NEW r \in Requests, SaveFamily(r)
      PROVE  Lineage!LineageNext
  <2> PICK t \in Tokens, f \in Families : Founded(r, t, f)
    BY <1>4, SaveEffect
  <2>1. Lineage!Issue(f, t)
    BY FoundedIssues
  <2> QED BY <2>1 DEF Lineage!LineageNext
<1>5. ASSUME NEW r \in Requests, RotateToken(r)
      PROVE  Lineage!LineageNext
  <2>1. (\E s \in Tokens : Succeeded(r, s)) \/ Refused(r)
    BY <1>5, RotateEffect
  <2>2. ASSUME NEW s \in Tokens, Succeeded(r, s)
        PROVE  Lineage!LineageNext
    BY <2>2, SucceededRotates DEF Lineage!LineageNext
  <2>3. ASSUME Refused(r)
        PROVE  Lineage!LineageNext
    <3>1. Dying(FamilyOf(requests[r])) /\ UNCHANGED <<minted, redeemed>>
      BY <2>3 DEF Refused
    <3> QED BY <1>0, <3>1, DyingEnds DEF Lineage!LineageNext
  <2> QED BY <2>1, <2>2, <2>3
<1>6. ASSUME NEW r \in Requests, Compensate(r) \/ RevokeFound(r)
      PROVE  Lineage!LineageNext
  <2> PICK f \in Families : Ended(r, f)
    BY <1>6, RevokeEffect
  <2>1. Dying(f) /\ UNCHANGED <<minted, redeemed>>
    BY DEF Ended
  <2> QED BY <1>0, <2>1, DyingEnds DEF Lineage!LineageNext
<1>7. ASSUME NEW r \in Requests,
             \/ RotateThrows(r) \/ Judge(r) \/ CompensateThrows(r) \/ Find(r)
             \/ CallThrows(r) \/ PreparationFails(r)
      PROVE  UNCHANGED <<refreshTokens, families, minted, redeemed>>
  BY <1>0, <1>7, QuietEffect DEF Quiet, storeVars
<1>8. ASSUME NEW code \in Codes, NEW record \in AuthCodeRecord, IssueCode(code, record)
      PROVE  UNCHANGED <<refreshTokens, families, minted, redeemed>>
  BY <1>8 DEF IssueCode, SaveAuthCode
<1>9. ASSUME NEW now \in Times, SweepExpired(now), UNCHANGED <<requests, historyVars>>
      PROVE  Lineage!LineageNext
  <2>1. Swept /\ UNCHANGED <<minted, redeemed>>
    BY <1>9, SweepEffect DEF historyVars
  <2> QED BY <2>1, SweepEnds DEF Lineage!LineageNext
<1>10. ASSUME Crash \/ UNCHANGED tokenVars
       PROVE  UNCHANGED <<refreshTokens, families, minted, redeemed>>
  BY <1>10 DEF Crash, tokenVars, storeVars, historyVars
<1> QED
  BY <1>1, <1>2, <1>3, <1>4, <1>5, <1>6, <1>7, <1>8, <1>9, <1>10 DEF TokenNext, RequestStep

\* No family is born, and no token is current.
LEMMA LineageStart == TokenInit => Lineage!LineageInit
<1> SUFFICES ASSUME TokenInit PROVE Lineage!LineageInit
  OBVIOUS
<1>1. DOMAIN refreshTokens = {} /\ DOMAIN minted = {} /\ DOMAIN redeemed = {}
  BY DEF TokenInit, StoreInit
<1>2. \A f \in Families : Current(f) = None
  BY <1>1 DEF Current, UsableTokens
<1> QED BY <1>1, <1>2 DEF Lineage!LineageInit, Current

\* Refresh-token rotation over the store, with every race, replay, failure and
\* crash of token.ts, is a lineage: one usable token per family, which passes to
\* a token never used before, and an ended family never comes back.
THEOREM TokenImplementsLineage == TokenSpec => ImplementsLineage
BY LineageStart, LineageStep, TokenInvCorrect, PTL
   DEF TokenSpec, ImplementsLineage, Lineage!LineageSpec

-----------------------------------------------------------------------------
(* A refresh at a bridge of another resource *)

\* With a store that answers every call, only a request of the family's own
\* bridge reaches the judgement of an answer, and so its compensation.
RightOK(r) ==
  requests[r].pc \in {"judge", "compensate"}
    => issued[redeemed[FamilyOf(requests[r])]].resource = requests[r].resource

RightInv == \A r \in Requests : RightOK(r)

\* What a request's own step does to its slot, and how a slot comes to be
\* judged or compensated.
LEMMA RequestMoves ==
  ASSUME TokenInv, NEW r \in Requests, Arrival(r) \/ RequestStep(r)
  PROVE  /\ Others(r) /\ Grown
         /\ requests'[r].pc \in {"judge", "compensate"} =>
              /\ requests'[r].token = requests[r].token
              /\ requests'[r].resource = requests[r].resource
              /\ \/ requests[r].pc = "judge"
                 \/ requests[r].pc = "rotate"
                    /\ \/ StoreMayThrow
                       \/ Addressable(requests[r].token, ExpectedGeneration, requests[r].resource)
<1> DEFINE Moved == /\ requests'[r].token = requests[r].token
                    /\ requests'[r].resource = requests[r].resource
                    /\ \/ requests[r].pc = "judge"
                       \/ requests[r].pc = "rotate"
                          /\ \/ StoreMayThrow
                             \/ Addressable(requests[r].token, ExpectedGeneration,
                                            requests[r].resource)
           Goal == /\ Others(r) /\ Grown
                   /\ requests'[r].pc \in {"judge", "compensate"} => Moved
<1>0. TokenTypeOK /\ RequestsOK
  BY DEF TokenInv, TokenTypeOK
<1>1. ASSUME UNCHANGED <<issued, minted, redeemed>>
      PROVE  Grown
  BY <1>1 DEF Grown
<1>2. CASE Arrival(r)
  BY <1>0, <1>1, <1>2, Arrived DEF historyVars
<1>3. CASE ConsumeCode(r)
  BY <1>0, <1>1, <1>3, ConsumeEffect DEF historyVars
<1>4. CASE SaveFamily(r)
  <2> PICK t \in Tokens, f \in Families : Founded(r, t, f)
    BY <1>4, SaveEffect
  <2>1. Grown
    BY DEF Founded, Grown, Put
  <2> QED BY <1>4, <2>1, SaveEffect
<1>5. CASE RotateToken(r)
  <2>1. (\E s \in Tokens : Succeeded(r, s)) \/ Refused(r)
    BY <1>5, RotateEffect
  <2>2. ASSUME NEW s \in Tokens, Succeeded(r, s)
        PROVE  Goal
    <3>1. Grown
      BY <2>2 DEF Succeeded, Grown, Put
    <3> QED BY <2>2, <3>1 DEF Succeeded, Rotating
  <2>3. CASE Refused(r)
    <3>1. Grown
      BY <2>3, <1>1 DEF Refused
    <3> QED BY <2>3, <3>1 DEF Refused, Rotating
  <2> QED BY <2>1, <2>2, <2>3
<1>6. CASE Compensate(r) \/ RevokeFound(r)
  <2> PICK f \in Families : Ended(r, f)
    BY <1>6, RevokeEffect
  <2> QED BY <1>1 DEF Ended
<1>7. CASE \/ RotateThrows(r) \/ Judge(r) \/ CompensateThrows(r) \/ Find(r)
           \/ CallThrows(r) \/ PreparationFails(r)
  <2>1. Quiet(r)
    BY <1>0, <1>7, QuietEffect
  <2> QED BY <1>1, <2>1 DEF Quiet
<1> QED BY <1>2, <1>3, <1>4, <1>5, <1>6, <1>7 DEF RequestStep

\* What a slot relies on survives the steps of the others.
LEMMA RightKept ==
  ASSUME TokenInv, Grown, NEW q \in Requests, requests'[q] = requests[q], RightOK(q)
  PROVE  RightOK(q)'
BY DEF RightOK, FamilyOf, Grown, TokenInv, SlotInv, SlotOK, FamilyInv, CodeInv, Burned

\* An addressable token's family was issued for the bridge that asks.
LEMMA AddressedRight ==
  ASSUME TokenInv, NEW r \in Requests, requests[r].pc = "rotate",
         Addressable(requests[r].token, ExpectedGeneration, requests[r].resource)
  PROVE  issued[redeemed[FamilyOf(requests[r])]].resource = requests[r].resource
<1>1. requests[r].resource # None
  BY NoneAssumption DEF TokenInv, SlotInv, SlotOK
<1> QED BY <1>1 DEF Addressable, TokenInv, FamilyInv, FamilyOf

\* The steps of requests.
LEMMA RightStep ==
  ASSUME ~StoreMayThrow, TokenInv, RightInv, NEW r \in Requests, Arrival(r) \/ RequestStep(r)
  PROVE  RightInv'
<1>1. Others(r) /\ Grown
  BY RequestMoves
<1>2. RightOK(r)'
  <2> SUFFICES ASSUME requests'[r].pc \in {"judge", "compensate"}
               PROVE  issued'[redeemed'[FamilyOf(requests[r])']].resource
                        = requests'[r].resource
    BY DEF RightOK
  <2>1. /\ requests'[r].token = requests[r].token
        /\ requests'[r].resource = requests[r].resource
        /\ \/ requests[r].pc = "judge"
           \/ /\ requests[r].pc = "rotate"
              /\ Addressable(requests[r].token, ExpectedGeneration, requests[r].resource)
    BY RequestMoves
  <2>2. issued[redeemed[FamilyOf(requests[r])]].resource = requests[r].resource
    BY <2>1, AddressedRight DEF RightInv, RightOK
  <2>3. requests[r].token \in DOMAIN minted
    BY <2>1 DEF TokenInv, SlotInv, SlotOK, FamilyInv, Addressable
  <2> QED BY <1>1, <2>1, <2>2, <2>3 DEF FamilyOf, Grown, TokenInv, FamilyInv, CodeInv, Burned
<1> QED BY <1>1, <1>2, RightKept DEF RightInv, Others

\* The refresh or the compensation of a request at another bridge leaves every
\* row as it was.
LEMMA Harmless ==
  ASSUME ~StoreMayThrow, TokenInv, RightInv, NEW r \in Requests, Arrival(r) \/ RequestStep(r),
         requests[r].pc \in {"rotate", "compensate"},
         FamilyOf(requests[r]) \in DOMAIN families,
         families[FamilyOf(requests[r])].resource # requests[r].resource
  PROVE  UNCHANGED storeVars
<1>0. TokenTypeOK
  BY DEF TokenInv
<1>1. requests[r].pc = "rotate"
  BY DEF RightInv, RightOK, TokenInv, FamilyInv
<1>2. CASE RotateToken(r)
  <2>1. ~Addressable(requests[r].token, ExpectedGeneration, requests[r].resource)
    BY <1>1, AddressedRight DEF TokenInv, FamilyInv
  <2>2. PICK next :
          RotateRefreshToken(requests[r].token, next, requests[r].now,
                             ExpectedGeneration, requests[r].resource)
    BY <1>2 DEF RotateToken
  <2> QED BY <2>1, <2>2 DEF RotateRefreshToken, Rotates, IsReplay, tokenRows, storeVars
<1>3. CASE RotateThrows(r)
  BY <1>3 DEF RotateThrows
<1>4. ~Arrival(r)
  BY <1>0, <1>1, Arrived DEF TokenTypeOK
<1> QED
  BY <1>1, <1>2, <1>3, <1>4
     DEF RequestStep, ConsumeCode, SaveFamily, Judge, Compensate, CompensateThrows, Find,
         RevokeFound, CallThrows, PreparationFails

\* What WrongResourceHarmless says of one step.
HarmlessStep ==
  \A r \in Requests, f \in DOMAIN families :
    /\ requests[r].pc \in {"rotate", "compensate"}
    /\ requests'[r] # requests[r]
    /\ FamilyOf(requests[r]) = f
    /\ families[f].resource # requests[r].resource
    => UNCHANGED storeVars

\* The request that moves is the one whose step it is.
LEMMA HarmlessRequest ==
  ASSUME ~StoreMayThrow, TokenInv, RightInv, NEW q \in Requests, Arrival(q) \/ RequestStep(q)
  PROVE  HarmlessStep
<1> SUFFICES ASSUME NEW r \in Requests, FamilyOf(requests[r]) \in DOMAIN families,
                    requests[r].pc \in {"rotate", "compensate"},
                    requests'[r] # requests[r],
                    families[FamilyOf(requests[r])].resource # requests[r].resource
             PROVE  UNCHANGED storeVars
  BY DEF HarmlessStep
<1>1. r = q
  BY RequestMoves DEF Others
<1> QED BY <1>1, Harmless

\* Every step of the system keeps RightInv and is harmless.
LEMMA RightNext ==
  ASSUME ~StoreMayThrow, TokenInv, RightInv, [TokenNext]_tokenVars
  PROVE  RightInv' /\ HarmlessStep
<1>1. CASE \E r \in Requests : Arrival(r) \/ RequestStep(r)
  BY <1>1, RightStep, HarmlessRequest
<1>2. CASE UNCHANGED requests /\ Grown
  BY <1>2, RightKept DEF RightInv, HarmlessStep
<1>3. ASSUME NEW code \in Codes, NEW record \in AuthCodeRecord, IssueCode(code, record)
      PROVE  UNCHANGED requests /\ Grown
  BY <1>3 DEF IssueCode, Grown, Put
<1>4. ASSUME UNCHANGED <<requests, historyVars>>
      PROVE  UNCHANGED requests /\ Grown
  BY <1>4 DEF historyVars, Grown
<1>5. CASE Crash
  <2>1. RightInv'
    BY <1>5, IdleType DEF Crash, RightInv, RightOK
  <2> QED BY <1>5, <2>1 DEF Crash, HarmlessStep, storeVars
<1> QED BY <1>1, <1>2, <1>3, <1>4, <1>5 DEF TokenNext, tokenVars

\* Docs (contracts 7.4), for a store whose calls answer: a refresh at a bridge
\* of another resource changes nothing in the store.  (A store that throws is
\* compensated without a resource, and the run that lets it throw refutes this.)
THEOREM WrongResourceHarmlessCorrect ==
  ASSUME ~StoreMayThrow
  PROVE  TokenSpec => WrongResourceHarmless
<1>1. TokenInit => RightInv
  BY IdleType DEF TokenInit, RightInv, RightOK
<1>2. TokenInv /\ RightInv /\ [TokenNext]_tokenVars => RightInv' /\ HarmlessStep
  BY RightNext
<1>3. TokenSpec => [][HarmlessStep]_tokenVars
  BY <1>1, <1>2, TokenInvCorrect, PTL DEF TokenSpec
<1> QED BY <1>3 DEF WrongResourceHarmless, HarmlessStep

-----------------------------------------------------------------------------
(* The bridge: two use cases over one store *)

\* What was handed over goes back to consents: every code ever issued is one an
\* approval committed, within its consent, and its scopes were consented to; so
\* were the scopes of an approval about to commit, but for those it asks now.
HandedInv ==
  /\ issued = [c \in DOMAIN codeFor |-> issued[c]]
  /\ WithinConsent(issued)
  /\ \A c \in DOMAIN issued : issued[c].grant.scopes \subseteq Consented(issued[c].grant)
  /\ \A a \in Approvals :
       LET consent == consents[approvals[a].jti] IN
       approvals[a].pc = "commit"
         => approvals[a].scopes \subseteq consent.scopes \cup Consented(consent)

BridgeInv == TokenInv /\ AuthorizeInv /\ HandedInv

\* Consents and the codes they were given only accumulate.
ConsentsGrow ==
  /\ \A j \in DOMAIN consents : j \in DOMAIN consents' /\ consents'[j] = consents[j]
  /\ \A c \in DOMAIN codeFor : c \in DOMAIN codeFor' /\ codeFor'[c] = codeFor[c]

\* What was consented to stays consented to.
LEMMA ConsentedGrows ==
  ASSUME ConsentFence, ConsentsGrow, NEW grant
  PROVE  Consented(grant) \subseteq Consented(grant)'
<1> SUFFICES ASSUME NEW s \in Consented(grant) PROVE s \in Consented(grant)'
  OBVIOUS
<1>1. PICK c \in DOMAIN codeFor : /\ consents[codeFor[c]].client = grant.client
                                  /\ consents[codeFor[c]].subject = grant.subject
                                  /\ s \in consents[codeFor[c]].scopes
  BY DEF Consented
<1>2. c \in DOMAIN codeFor' /\ consents'[codeFor'[c]] = consents[codeFor[c]]
  BY DEF ConsentFence, ConsentsGrow
<1> QED BY <1>1, <1>2 DEF Consented

\* The scopes of a stored token are those of its code.
LEMMA TokensConsented ==
  ASSUME TokenInv, HandedInv, NEW t \in DOMAIN refreshTokens
  PROVE  refreshTokens[t].grant.scopes \subseteq Consented(refreshTokens[t].grant)
BY DEF TokenInv, FamilyInv, CodeInv, Burned, HandedInv

\* What prior grants contribute was consented to for the same client and subject.
LEMMA PriorConsented ==
  ASSUME TokenInv, HandedInv, NEW consent, NEW now, NEW generation, NEW resource
  PROVE  FindGrantedScopes(consent.subject, consent.client, now, generation, resource)
           \subseteq Consented(consent)
<1> SUFFICES ASSUME NEW t \in DOMAIN refreshTokens,
                    refreshTokens[t].grant.subject = consent.subject,
                    refreshTokens[t].grant.client = consent.client
             PROVE  refreshTokens[t].grant.scopes \subseteq Consented(consent)
  BY DEF FindGrantedScopes, Contributes
<1>1. Consented(refreshTokens[t].grant) = Consented(consent)
  BY DEF Consented
<1> QED BY <1>1, TokensConsented

-----------------------------------------------------------------------------
(* Authorization steps of the bridge *)

\* A preparation, a step of an approval, or a step of the deployment.
AuthorizeStep ==
  \/ \E j \in Jtis, flow \in Flows : Prepare(j, flow)
  \/ \E a \in Approvals : ApproveStep(a)
  \/ Deployment

\* The authorization use case keeps its invariant.
LEMMA AuthorizeKeeps ==
  ASSUME AuthorizeInv, AuthorizeStep
  PROVE  AuthorizeInv'
BY AuthorizeInvStep DEF AuthorizeStep, AuthorizeNext

\* An approval of slot a commits a new code.
Committed(a, code, record) ==
  /\ approvals[a].pc = "commit"
  /\ code \notin DOMAIN codeFor
  /\ authCodes' = Put(authCodes, code, record)
  /\ codeFor' = Put(codeFor, code, approvals[a].jti)
  /\ approvals' = [approvals EXCEPT ![a] = NoApproval]
  /\ record.grant.client = consents[approvals[a].jti].client
  /\ record.grant.subject = consents[approvals[a].jti].subject
  /\ record.grant.scopes = approvals[a].scopes
  /\ record.binding = consents[approvals[a].jti].binding
  /\ UNCHANGED <<refreshTokens, families, consents>>

\* The store calls of approve: a code is stored, or nothing the token use case
\* reads has changed.
LEMMA ApproveEffect ==
  ASSUME AuthorizeInv, NEW a \in Approvals, ApproveStep(a)
  PROVE  \/ \E code \in Codes, record \in AuthCodeRecord : Committed(a, code, record)
         \/ UNCHANGED <<authCodes, refreshTokens, families, consents, codeFor>>
<1>1. CASE (\E j \in Jtis, now \in Times : Verify(a, j, now)) \/ CheckBinding(a)
           \/ ReadPrior(a) \/ Abandon(a)
  BY <1>1 DEF Verify, CheckBinding, ReadPrior, ReadPriorAs, Abandon, storeVars
<1>2. ASSUME NEW code \in Codes, NEW later \in Times, Commit(a, code, later)
      PROVE  \/ \E record \in AuthCodeRecord : Committed(a, code, record)
             \/ UNCHANGED <<authCodes, refreshTokens, families, consents, codeFor>>
  <2> DEFINE j == approvals[a].jti
             instance == consents[j].instance
             record == CodeOf(approvals[a], later, Generation)
  <2>1. /\ approvals[a].pc = "commit" /\ CommitClock(approvals[a], later)
        /\ code \notin DOMAIN codeFor
        /\ CommitConsentApproval(instance, j, JtiExpiry[j], code, record)
        /\ codeFor' = IF CommitConsentAnswer(instance, j, JtiExpiry[j]) = "stored"
                      THEN Put(codeFor, code, j) ELSE codeFor
        /\ EndApproval(a) /\ UNCHANGED <<consents, copy>>
    BY <1>2 DEF Commit, CommitAs
  <2>2. record \in AuthCodeRecord
    BY <2>1, CodeOfType, ConfigAssumption DEF AuthorizeInv
  <2>3. /\ record.grant.client = consents[j].client
        /\ record.grant.subject = consents[j].subject
        /\ record.grant.scopes = approvals[a].scopes
        /\ record.binding = consents[j].binding
    BY DEF CodeOf
  <2> HIDE DEF instance, record
  <2>4. CASE CommitConsentAnswer(instance, j, JtiExpiry[j]) = "stored"
    BY <2>1, <2>2, <2>3, <2>4 DEF CommitConsentApproval, Committed, EndApproval
  <2>5. CASE CommitConsentAnswer(instance, j, JtiExpiry[j]) # "stored"
    BY <2>1, <2>5 DEF CommitConsentApproval
  <2> QED BY <2>4, <2>5
<1> QED BY <1>1, <1>2 DEF ApproveStep

\* Without a new code, nothing is handed over.
LEMMA NothingHanded ==
  ASSUME HandedInv, HandOver, UNCHANGED codeFor
  PROVE  UNCHANGED issued
BY DEF HandedInv, HandOver

\* A committed code is handed over as stored.
LEMMA CodeHanded ==
  ASSUME HandedInv, HandOver, NEW a, NEW code, NEW record, Committed(a, code, record)
  PROVE  issued' = Put(issued, code, record) /\ code \notin DOMAIN issued
<1>1. /\ DOMAIN codeFor' = DOMAIN codeFor \cup {code} /\ code \notin DOMAIN codeFor
      /\ authCodes'[code] = record
  BY DEF Committed, Put
<1>2. DOMAIN issued = DOMAIN codeFor
  BY DEF HandedInv
<1>3. issued' = [c \in DOMAIN issued \cup {code} |-> IF c = code THEN record ELSE issued[c]]
  BY <1>1, <1>2 DEF HandOver
<1> QED BY <1>1, <1>2, <1>3 DEF Put

\* Steps that leave the token use case and its tables alone.
LEMMA TokenFrame ==
  ASSUME TokenInv, StoreTypeOK',
         UNCHANGED <<authCodes, refreshTokens, families, requests, historyVars>>
  PROVE  TokenInv'
BY DEF historyVars, TokenInv, TokenTypeOK, RequestsOK, TokenRowsInv, RowsMatchFamily,
   LineageKept, OneSuccessor, SuccessorInherits, SlotInv, SlotOK, CodeInv, Burned,
   OneFamilyPerCode, FamilyInv, DeadInv, HeldInv, HeldBy, FamilyOf

\* The token use case survives every authorization step.
LEMMA TokenInvUnderApproval ==
  ASSUME BridgeInv, AuthorizeStep, HandOver, UNCHANGED tokenOnly
  PROVE  TokenInv'
<1>0. TokenInv /\ AuthorizeInv /\ HandedInv /\ StoreTypeOK'
  BY AuthorizeKeeps DEF BridgeInv, AuthorizeInv, AuthorizeTypeOK
<1>1. UNCHANGED <<requests, minted, redeemed, returned, rotatedAway, condemned, lost>>
  BY DEF tokenOnly
<1>2. ASSUME UNCHANGED <<authCodes, refreshTokens, families, codeFor>>
      PROVE  TokenInv'
  BY <1>0, <1>1, <1>2, NothingHanded, TokenFrame DEF historyVars
<1>3. ASSUME NEW j, NEW flow, Prepare(j, flow)
      PROVE  UNCHANGED <<authCodes, refreshTokens, families, codeFor>>
  BY <1>3 DEF Prepare, storeVars
<1>4. ASSUME NEW a \in Approvals, ApproveStep(a)
      PROVE  TokenInv'
  <2>1. ASSUME NEW code \in Codes, NEW record \in AuthCodeRecord, Committed(a, code, record)
        PROVE  TokenInv'
    <3>1. issued' = Put(issued, code, record) /\ code \notin DOMAIN issued
      BY <1>0, <2>1, CodeHanded
    <3>2. authCodes' = Put(authCodes, code, record) /\ UNCHANGED <<refreshTokens, families>>
      BY <2>1 DEF Committed
    <3> QED BY <1>0, <1>1, <3>1, <3>2, IssueKeeps
  <2> QED BY <1>0, <1>2, <1>4, <2>1, ApproveEffect
<1>5. ASSUME NEW now \in Times, SweepExpired(now), UNCHANGED codeFor
      PROVE  TokenInv'
  BY <1>0, <1>1, <1>5, NothingHanded, SweepKeeps DEF historyVars
<1>6. ASSUME RotateStoreInstanceId
      PROVE  UNCHANGED <<authCodes, refreshTokens, families>>
  BY <1>6 DEF RotateStoreInstanceId
<1> QED BY <1>2, <1>3, <1>4, <1>5, <1>6 DEF AuthorizeStep, Deployment

\* Every authorization step only adds consents, and codes for them.
LEMMA ApproveGrows ==
  ASSUME AuthorizeInv, AuthorizeStep
  PROVE  ConsentsGrow
<1>1. ASSUME NEW j, NEW flow, Prepare(j, flow)
      PROVE  ConsentsGrow
  BY <1>1 DEF Prepare, Put, ConsentsGrow
<1>2. ASSUME NEW a \in Approvals, ApproveStep(a)
      PROVE  ConsentsGrow
  <2>1. ASSUME NEW code, NEW record, Committed(a, code, record)
        PROVE  ConsentsGrow
    BY <2>1 DEF Committed, Put, ConsentsGrow
  <2> QED BY <1>2, <2>1, ApproveEffect DEF ConsentsGrow
<1>3. CASE Deployment
  BY <1>3 DEF Deployment, ConsentsGrow
<1> QED BY <1>1, <1>2, <1>3 DEF AuthorizeStep

\* The codes handed over before keep what they promised.
LEMMA HandedKept ==
  ASSUME AuthorizeInv, HandedInv, ConsentsGrow, NEW c \in DOMAIN issued, c \in DOMAIN issued',
         issued'[c] = issued[c]
  PROVE  /\ LET consent == consents'[codeFor'[c]] IN
            /\ issued'[c].grant.client = consent.client
            /\ issued'[c].grant.subject = consent.subject
            /\ issued'[c].binding = consent.binding
            /\ consent.ceiling # None => issued'[c].grant.scopes \subseteq consent.ceiling
         /\ issued'[c].grant.scopes \subseteq Consented(issued[c].grant)'
<1>1. c \in DOMAIN codeFor /\ codeFor[c] \in DOMAIN consents
  BY DEF HandedInv, AuthorizeInv, WithinInv
<1>2. consents'[codeFor'[c]] = consents[codeFor[c]]
  BY <1>1 DEF ConsentsGrow
<1>3. PICK grant : grant = issued[c].grant
  OBVIOUS
<1>4. Consented(grant) \subseteq Consented(grant)'
  BY ConsentedGrows DEF AuthorizeInv
<1>5. issued[c].grant.scopes \subseteq Consented(grant)
  BY <1>3 DEF HandedInv
<1>6. issued'[c].grant.scopes \subseteq Consented(grant)'
  BY <1>4, <1>5
<1> QED BY <1>1, <1>2, <1>3, <1>6 DEF HandedInv, WithinConsent

\* The scopes an approval may commit: those it asks for and prior consents.
ApprovalOK(a) ==
  LET consent == consents[approvals[a].jti] IN
  approvals[a].pc = "commit"
    => approvals[a].scopes \subseteq consent.scopes \cup Consented(consent)

\* An approval that did not move keeps its scopes.
LEMMA ApprovalKept ==
  ASSUME AuthorizeInv, ConsentsGrow, NEW a \in Approvals, ApprovalOK(a),
         approvals'[a] = approvals[a]
  PROVE  ApprovalOK(a)'
<1> SUFFICES ASSUME approvals[a].pc = "commit"
             PROVE  approvals'[a].scopes \subseteq
                      consents'[approvals'[a].jti].scopes
                        \cup Consented(consents[approvals[a].jti])'
  BY DEF ApprovalOK
<1>1. approvals[a].jti \in DOMAIN consents
  BY DEF AuthorizeInv, AuthorizeTypeOK
<1>2. PICK consent : consent = consents[approvals[a].jti]
  OBVIOUS
<1>3. consents'[approvals'[a].jti] = consent
  BY <1>1, <1>2 DEF ConsentsGrow
<1>4. Consented(consent) \subseteq Consented(consent)'
  BY ConsentedGrows DEF AuthorizeInv
<1>5. approvals[a].scopes \subseteq consent.scopes \cup Consented(consent)
  BY <1>2 DEF ApprovalOK
<1> QED BY <1>2, <1>3, <1>4, <1>5

\* A slot that is not about to commit promises nothing.
LEMMA ApprovalIdle ==
  ASSUME NEW a, approvals'[a].pc # "commit"
  PROVE  ApprovalOK(a)'
BY DEF ApprovalOK

\* The prior scopes an approval reads were consented to.
LEMMA ReadPriorOK ==
  ASSUME BridgeInv, NEW a \in Approvals, ReadPrior(a)
  PROVE  ApprovalOK(a)'
<1> DEFINE prior == IF consents[approvals[a].jti].client \in Accumulating
                    THEN FindGrantedScopes(consents[approvals[a].jti].subject,
                                           consents[approvals[a].jti].client,
                                           approvals[a].now, Generation, Resource)
                    ELSE {}
<1>1. PICK consent : consent = consents[approvals[a].jti]
  OBVIOUS
<1>2. prior \subseteq Consented(consent)
  BY <1>1, PriorConsented DEF BridgeInv
<1>3. approvals' = [approvals EXCEPT ![a].pc = "commit",
                                     ![a].scopes = CodeScopes(consent, prior)]
      /\ UNCHANGED <<consents, codeFor>>
  BY <1>1 DEF ReadPrior, ReadPriorAs
<1> HIDE DEF prior
<1>4. approvals \in [Approvals -> Approval]
  BY DEF BridgeInv, AuthorizeInv, AuthorizeTypeOK
<1>5. approvals'[a].scopes = CodeScopes(consent, prior) /\ approvals'[a].jti = approvals[a].jti
  BY <1>3, <1>4 DEF Approval
<1>6. CodeScopes(consent, prior) \subseteq consent.scopes \cup prior
  BY DEF CodeScopes, Narrow
<1>7. Consented(consent)' = Consented(consent)
  BY <1>3 DEF Consented
<1>8. consents'[approvals'[a].jti] = consent
  BY <1>1, <1>3, <1>5
<1>9. approvals'[a].scopes \subseteq consent.scopes \cup Consented(consent)'
  BY <1>2, <1>5, <1>6, <1>7
<1> QED BY <1>8, <1>9 DEF ApprovalOK

\* Every step of an approval leaves each slot with consented scopes.
LEMMA ApprovalsStep ==
  ASSUME BridgeInv, AuthorizeStep, NEW b \in Approvals
  PROVE  ApprovalOK(b)'
<1>0. AuthorizeInv /\ ConsentsGrow /\ ApprovalOK(b)
  BY ApproveGrows DEF BridgeInv, HandedInv, ApprovalOK
<1>1. approvals \in [Approvals -> Approval]
  BY <1>0 DEF AuthorizeInv, AuthorizeTypeOK
<1>2. CASE UNCHANGED approvals
  BY <1>0, <1>2, ApprovalKept
<1>3. ASSUME NEW a \in Approvals, ApproveStep(a)
      PROVE  ApprovalOK(b)'
  <2>1. CASE EndApproval(a)
    <3>1. approvals'[b] = approvals[b] \/ approvals'[b].pc # "commit"
      BY <1>1, <2>1 DEF EndApproval, NoApproval
    <3> QED BY <1>0, <3>1, ApprovalKept, ApprovalIdle
  <2>2. CASE \E j \in Jtis, now \in Times : Verify(a, j, now)
    <3>1. approvals'[b] = approvals[b] \/ approvals'[b].pc # "commit"
      BY <1>1, <2>2 DEF Verify, NoApproval
    <3> QED BY <1>0, <3>1, ApprovalKept, ApprovalIdle
  <2>3. CASE approvals' = [approvals EXCEPT ![a].pc = "prior"]
    <3>1. approvals'[b] = approvals[b] \/ approvals'[b].pc # "commit"
      BY <1>1, <2>3 DEF Approval
    <3> QED BY <1>0, <3>1, ApprovalKept, ApprovalIdle
  <2>4. CASE ReadPrior(a)
    <3>1. CASE a = b
      BY <2>4, <3>1, ReadPriorOK
    <3>2. CASE a # b
      <4>1. \E scopes : approvals' = [approvals EXCEPT ![a].pc = "commit", ![a].scopes = scopes]
        BY <2>4 DEF ReadPrior, ReadPriorAs
      <4>2. approvals'[b] = approvals[b]
        BY <1>1, <3>2, <4>1
      <4> QED BY <1>0, <4>2, ApprovalKept
    <3> QED BY <3>1, <3>2
  <2>5. CASE CheckBinding(a)
    BY <2>1, <2>3, <2>5 DEF CheckBinding
  <2>6. CASE Abandon(a)
    BY <2>1, <2>6 DEF Abandon
  <2>7. ASSUME NEW code, NEW later, Commit(a, code, later)
        PROVE  ApprovalOK(b)'
    BY <2>1, <2>7 DEF Commit, CommitAs
  <2> QED BY <1>3, <2>2, <2>4, <2>5, <2>6, <2>7 DEF ApproveStep
<1>4. ASSUME NEW j, NEW flow, Prepare(j, flow)
      PROVE  UNCHANGED approvals
  BY <1>4 DEF Prepare
<1>5. CASE Deployment
  BY <1>2, <1>5 DEF Deployment
<1> QED BY <1>2, <1>3, <1>4, <1>5 DEF AuthorizeStep

\* A new code goes back to the consent its approval was for.
LEMMA HandedCode ==
  ASSUME BridgeInv, ConsentsGrow, HandOver, NEW a \in Approvals, NEW code, NEW record,
         Committed(a, code, record)
  PROVE  /\ code \in DOMAIN issued' /\ issued'[code] = record
         /\ LET consent == consents'[codeFor'[code]] IN
            /\ record.grant.client = consent.client
            /\ record.grant.subject = consent.subject
            /\ record.binding = consent.binding
            /\ consent.ceiling # None => record.grant.scopes \subseteq consent.ceiling
         /\ record.grant.scopes \subseteq Consented(record.grant)'
<1>1. PICK consent : consent = consents[approvals[a].jti]
  OBVIOUS
<1>2. /\ issued' = Put(issued, code, record)
      /\ codeFor' = Put(codeFor, code, approvals[a].jti) /\ UNCHANGED consents
      /\ approvals[a].pc = "commit"
      /\ record.grant.client = consent.client /\ record.grant.subject = consent.subject
      /\ record.grant.scopes = approvals[a].scopes /\ record.binding = consent.binding
  BY <1>1, CodeHanded DEF BridgeInv, Committed
<1>3. code \in DOMAIN codeFor' /\ consents'[codeFor'[code]] = consent
  BY <1>1, <1>2 DEF Put
<1>4. consent.ceiling # None => record.grant.scopes \subseteq consent.ceiling
  BY <1>1, <1>2 DEF BridgeInv, AuthorizeInv, WithinInv
<1>5. record.grant.scopes \subseteq Consented(record.grant)'
  <2>1. record.grant.scopes \subseteq consent.scopes \cup Consented(consent)
    BY <1>1, <1>2 DEF BridgeInv, HandedInv
  <2>2. Consented(record.grant) = Consented(consent)
    BY <1>2 DEF Consented
  <2>3. Consented(record.grant) \subseteq Consented(record.grant)'
    BY ConsentedGrows DEF BridgeInv, AuthorizeInv
  <2>4. consent.scopes \subseteq Consented(record.grant)'
    BY <1>2, <1>3 DEF Consented
  <2> QED BY <2>1, <2>2, <2>3, <2>4
<1>6. code \in DOMAIN issued' /\ issued'[code] = record
  BY <1>2 DEF Put
<1> QED BY <1>2, <1>3, <1>4, <1>5, <1>6

\* What is handed over by an authorization step goes back to consents.
LEMMA HandedInvStep ==
  ASSUME BridgeInv, AuthorizeStep, HandOver
  PROVE  HandedInv'
<1>0. AuthorizeInv /\ HandedInv /\ ConsentsGrow
  BY ApproveGrows DEF BridgeInv
<1>1. issued' = [c \in DOMAIN codeFor' |-> issued'[c]]
  BY DEF HandOver
<1>2. ASSUME UNCHANGED codeFor
      PROVE  WithinConsent(issued)'
             /\ \A c \in DOMAIN issued' :
                  issued'[c].grant.scopes \subseteq Consented(issued[c].grant)'
  BY <1>0, <1>2, NothingHanded, HandedKept DEF WithinConsent
<1>3. ASSUME NEW a \in Approvals, NEW code, NEW record, Committed(a, code, record)
      PROVE  WithinConsent(issued)'
             /\ \A c \in DOMAIN issued' :
                  issued'[c].grant.scopes \subseteq Consented(issued[c].grant)'
  <2>1. issued' = Put(issued, code, record) /\ code \notin DOMAIN issued
    BY <1>0, <1>3, CodeHanded
  <2>2. DOMAIN issued' = DOMAIN issued \cup {code}
        /\ \A c \in DOMAIN issued : issued'[c] = issued[c]
    BY <2>1 DEF Put
  <2>3. WithinConsent(issued)'
    BY <1>0, <1>3, <2>2, HandedKept, HandedCode DEF WithinConsent
  <2>4. ASSUME NEW c \in DOMAIN issued'
        PROVE  issued'[c].grant.scopes \subseteq Consented(issued[c].grant)'
    <3>1. CASE c = code
      <4>1. issued'[c] = record /\ record.grant.scopes \subseteq Consented(record.grant)'
        BY <1>0, <1>3, <3>1, HandedCode
      <4> QED BY <4>1
    <3>2. CASE c # code
      BY <1>0, <2>2, <3>2, HandedKept
    <3> QED BY <3>1, <3>2
  <2> QED BY <2>3, <2>4
<1>4. WithinConsent(issued)'
      /\ \A c \in DOMAIN issued' :
           issued'[c].grant.scopes \subseteq Consented(issued[c].grant)'
  <2>1. ASSUME NEW j, NEW flow, Prepare(j, flow)
        PROVE  UNCHANGED codeFor
    BY <2>1 DEF Prepare
  <2>2. CASE Deployment
    BY <1>2, <2>2 DEF Deployment
  <2>3. ASSUME NEW a \in Approvals, ApproveStep(a)
        PROVE  \/ UNCHANGED codeFor
               \/ \E code, record : Committed(a, code, record)
    BY <1>0, <2>3, ApproveEffect
  <2> QED BY <1>2, <1>3, <2>1, <2>2, <2>3 DEF AuthorizeStep
<1>5. \A a \in Approvals : ApprovalOK(a)'
  BY ApprovalsStep
<1> QED BY <1>1, <1>4, <1>5 DEF HandedInv, ApprovalOK

-----------------------------------------------------------------------------
(* Token steps of the bridge *)

\* A request may take a code away; it touches no consent, no code history and no
\* row of the authorization use case.
LEMMA RequestFrame ==
  ASSUME TokenInv, NEW r \in Requests, Arrival(r) \/ RequestStep(r)
  PROVE  /\ UNCHANGED <<consentJtis, sweptThrough, storeInstanceId, issued>>
         /\ DOMAIN authCodes' \subseteq DOMAIN authCodes
         /\ \A c \in DOMAIN authCodes' : authCodes'[c] = authCodes[c]
<1>0. TokenTypeOK /\ RequestsOK
  BY DEF TokenInv, TokenTypeOK
<1>1. CASE Arrival(r)
  BY <1>0, <1>1, Arrived DEF storeVars, historyVars
<1>2. CASE ConsumeCode(r)
  BY <1>0, <1>2, ConsumeEffect DEF ConsumeCode, ConsumeAuthCode, historyVars
<1>3. CASE SaveFamily(r)
  BY <1>3 DEF SaveFamily, SaveRefreshToken
<1>4. CASE RotateToken(r)
  BY <1>4 DEF RotateToken, RotateRefreshToken
<1>5. CASE Compensate(r) \/ RevokeFound(r)
  BY <1>5 DEF Compensate, RevokeFound, RevokeRefreshTokenFamily
<1>6. CASE \/ RotateThrows(r) \/ Judge(r) \/ CompensateThrows(r) \/ Find(r)
           \/ CallThrows(r) \/ PreparationFails(r)
  BY <1>0, <1>6, QuietEffect DEF Quiet, storeVars
<1> QED BY <1>1, <1>2, <1>3, <1>4, <1>5, <1>6 DEF RequestStep

\* The authorization side of the bridge survives every step of a request.
LEMMA BridgeUnderRequest ==
  ASSUME BridgeInv, NEW r \in Requests, Arrival(r) \/ RequestStep(r), UNCHANGED authorizeOnly
  PROVE  BridgeInv'
<1>0. TokenInv /\ AuthorizeInv /\ HandedInv
  BY DEF BridgeInv
<1>1. TokenInv' /\ StoreTypeOK'
  BY <1>0, RequestKeeps DEF TokenInv, TokenTypeOK
<1>2. /\ UNCHANGED <<consentJtis, sweptThrough, storeInstanceId, issued>>
      /\ UNCHANGED <<consents, approvals, codeFor, copy>>
      /\ DOMAIN authCodes' \subseteq DOMAIN authCodes
      /\ \A c \in DOMAIN authCodes' : authCodes'[c] = authCodes[c]
  BY <1>0, RequestFrame DEF authorizeOnly
<1>3. AuthorizeTypeOK'
  BY <1>0, <1>1, <1>2 DEF AuthorizeInv, AuthorizeTypeOK, CopyOK
<1>4. ConsentFence' /\ OneCodePerConsent'
  BY <1>0, <1>2 DEF AuthorizeInv, ConsentFence, JtiSpent, OneCodePerConsent
<1>5. WithinInv'
  BY <1>0, <1>2 DEF AuthorizeInv, WithinInv, WithinConsent
<1>6. HandedInv'
  BY <1>0, <1>2 DEF HandedInv, WithinConsent, Consented
<1> QED BY <1>1, <1>3, <1>4, <1>5, <1>6 DEF BridgeInv, AuthorizeInv

\* The initial state of the bridge.
LEMMA BridgeInvInit == BridgeInit => BridgeInv
<1> SUFFICES ASSUME BridgeInit PROVE BridgeInv
  OBVIOUS
<1>1. TokenInv /\ AuthorizeInv
  BY TokenInvInit, AuthorizeInvInit DEF BridgeInit
<1>2. DOMAIN issued = {} /\ \A a \in Approvals : approvals[a].pc # "commit"
  BY DEF BridgeInit, AuthorizeInit, TokenInit, NoApproval
<1>3. issued = [c \in DOMAIN codeFor |-> issued[c]]
  BY DEF BridgeInit, AuthorizeInit, TokenInit
<1>4. HandedInv
  BY <1>2, <1>3 DEF HandedInv, WithinConsent
<1> QED BY <1>1, <1>4 DEF BridgeInv

\* Every step of the bridge.
LEMMA BridgeInvStep == BridgeInv /\ [BridgeNext]_bridgeVars => BridgeInv'
<1> SUFFICES ASSUME BridgeInv, [BridgeNext]_bridgeVars PROVE BridgeInv'
  OBVIOUS
<1>1. CASE AuthorizeStep /\ HandOver /\ UNCHANGED tokenOnly
  BY <1>1, TokenInvUnderApproval, AuthorizeKeeps, HandedInvStep DEF BridgeInv
<1>2. ASSUME NEW r \in Requests, Arrival(r) \/ RequestStep(r), UNCHANGED authorizeOnly
      PROVE  BridgeInv'
  BY <1>2, BridgeUnderRequest
<1>3. CASE UNCHANGED bridgeVars
  <2>1. UNCHANGED <<storeVars, requests, historyVars>>
        /\ UNCHANGED <<consents, approvals, codeFor, copy>>
    BY <1>3 DEF bridgeVars
  <2>2. TokenInv'
    BY <2>1, TokenInvStep DEF BridgeInv, tokenVars
  <2>3. AuthorizeInv'
    BY <2>1, AuthorizeInvStep DEF BridgeInv, authorizeVars
  <2>4. HandedInv'
    BY <2>1 DEF BridgeInv, HandedInv, WithinConsent, Consented, historyVars
  <2> QED BY <2>2, <2>3, <2>4 DEF BridgeInv
<1> QED BY <1>1, <1>2, <1>3 DEF BridgeNext, AuthorizeStep

-----------------------------------------------------------------------------
(* What the bridge promises *)

\* The invariant holds in every behaviour.
LEMMA BridgeInvCorrect == BridgeSpec => []BridgeInv
BY BridgeInvInit, BridgeInvStep, PTL DEF BridgeSpec

\* The token use case, under the authorization use case that feeds it, keeps
\* what it promised alone: one family per code, the grant of the code, no usable
\* token in a condemned family, no orphaned successor.
THEOREM TokenPromisesInBridge ==
  BridgeSpec =>
    [](OneFamilyPerCode /\ GrantFollowsCode /\ CondemnedIsDead /\ NoOrphanSuccessor)
<1>1. BridgeInv => OneFamilyPerCode /\ GrantFollowsCode /\ CondemnedIsDead /\ NoOrphanSuccessor
  BY GrantFollows, HeldNoOrphan
     DEF BridgeInv, TokenInv, CodeInv, DeadInv, CondemnedIsDead, UsableTokens
<1> QED BY <1>1, BridgeInvCorrect, PTL

\* Codes in the store of a whole bridge stay within the consent they came from,
\* while exchanges consume them and refreshes grow the scopes approvals add.
THEOREM BridgeCodesWithinConsent == BridgeSpec => []CodeWithinConsent
<1>1. BridgeInv => CodeWithinConsent
  BY DEF BridgeInv, AuthorizeInv, WithinInv, CodeWithinConsent
<1> QED BY <1>1, BridgeInvCorrect, PTL

\* Codes and tokens alike carry consented scopes.
LEMMA InvScopesConsented == BridgeInv => ScopesConsented
<1> SUFFICES ASSUME BridgeInv PROVE ScopesConsented
  OBVIOUS
<1>1. ASSUME NEW c \in DOMAIN authCodes
      PROVE  authCodes[c].grant.scopes \subseteq Consented(authCodes[c].grant)
  BY DEF BridgeInv, TokenInv, CodeInv, HandedInv
<1>2. ASSUME NEW t \in DOMAIN refreshTokens
      PROVE  refreshTokens[t].grant.scopes \subseteq Consented(refreshTokens[t].grant)
  BY TokensConsented DEF BridgeInv
<1> QED BY <1>1, <1>2 DEF ScopesConsented

\* No scope appears from nowhere: through any number of approvals that add prior
\* scopes, exchanges, refreshes, failures and sweeps, every scope of a stored
\* code or token was consented to by that subject for that client.
THEOREM ScopesConsentedCorrect == BridgeSpec => []ScopesConsented
BY InvScopesConsented, BridgeInvCorrect, PTL

\* One family per consent, under the consent's ceiling.
LEMMA InvFamilyWithinConsent == BridgeInv => FamilyWithinConsent
<1> SUFFICES ASSUME BridgeInv PROVE FamilyWithinConsent
  OBVIOUS
<1>0. TokenInv /\ HandedInv /\ OneCodePerConsent /\ OneFamilyPerCode
      /\ DOMAIN issued = DOMAIN codeFor
  BY DEF BridgeInv, AuthorizeInv, TokenInv, CodeInv, HandedInv
<1>1. \A f \in DOMAIN redeemed : redeemed[f] \in DOMAIN codeFor
  BY <1>0 DEF TokenInv, CodeInv, Burned
<1>2. \A f, g \in DOMAIN redeemed : codeFor[redeemed[f]] = codeFor[redeemed[g]] => f = g
  BY <1>0, <1>1 DEF OneCodePerConsent, OneFamilyPerCode
<1>3. ASSUME NEW t \in DOMAIN refreshTokens, NEW code,
             code = redeemed[refreshTokens[t].family],
             consents[codeFor[code]].ceiling # None
      PROVE  refreshTokens[t].grant.scopes \subseteq consents[codeFor[code]].ceiling
  <2>1. code \in DOMAIN issued /\ refreshTokens[t].grant = issued[code].grant
    BY <1>0, <1>1, <1>3 DEF TokenInv, FamilyInv
  <2> QED BY <1>0, <1>3, <2>1 DEF HandedInv, WithinConsent
<1> QED BY <1>2, <1>3 DEF FamilyWithinConsent

\* End to end: a consent yields at most one family, and none of its tokens, after
\* any number of refreshes, exceeds the ceiling the consent was signed with.
THEOREM FamilyWithinConsentCorrect == BridgeSpec => []FamilyWithinConsent
BY InvFamilyWithinConsent, BridgeInvCorrect, PTL

\* Steps of the bridge that are no request's leave requests and histories alone.
LEMMA ApproveRight ==
  ASSUME BridgeInv, RightInv, AuthorizeStep, HandOver, UNCHANGED tokenOnly
  PROVE  RightInv' /\ HarmlessStep
<1>1. UNCHANGED <<requests, minted, redeemed>>
  BY DEF tokenOnly
<1>2. \A c \in DOMAIN issued : c \in DOMAIN issued' /\ issued'[c] = issued[c]
  BY ApproveGrows DEF BridgeInv, HandedInv, HandOver, ConsentsGrow
<1>3. Grown
  BY <1>1, <1>2 DEF Grown
<1> QED BY <1>1, <1>3, RightKept DEF BridgeInv, RightInv, HarmlessStep

\* In a whole bridge whose store answers, a refresh at a bridge of another
\* resource commits no mutation.
THEOREM BridgeWrongResourceHarmless ==
  ASSUME ~StoreMayThrow
  PROVE  BridgeSpec => WrongResourceHarmless
<1>1. BridgeInit => RightInv
  BY IdleType DEF BridgeInit, TokenInit, RightInv, RightOK
<1>2. BridgeInv /\ RightInv /\ [BridgeNext]_bridgeVars => RightInv' /\ [HarmlessStep]_tokenVars
  <2> SUFFICES ASSUME BridgeInv, RightInv, [BridgeNext]_bridgeVars
               PROVE  RightInv' /\ [HarmlessStep]_tokenVars
    OBVIOUS
  <2>1. CASE AuthorizeStep /\ HandOver /\ UNCHANGED tokenOnly
    BY <2>1, ApproveRight
  <2>2. ASSUME NEW r \in Requests, Arrival(r) \/ RequestStep(r)
        PROVE  RightInv' /\ HarmlessStep
    BY <2>2, RightStep, HarmlessRequest DEF BridgeInv
  <2>3. CASE UNCHANGED bridgeVars
    BY <2>3, RightNext DEF bridgeVars, tokenVars, BridgeInv
  <2> QED BY <2>1, <2>2, <2>3 DEF BridgeNext, AuthorizeStep
<1>3. BridgeSpec => [][HarmlessStep]_tokenVars
  BY <1>1, <1>2, BridgeInvCorrect, PTL DEF BridgeSpec
<1> QED BY <1>3 DEF WrongResourceHarmless, HarmlessStep
=============================================================================
