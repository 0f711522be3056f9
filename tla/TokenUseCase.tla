--------------------------- MODULE TokenUseCase ---------------------------
(***************************************************************************)
(* OAuthTokenUseCase (src/token.ts, src/token-revoke.ts) over the store:   *)
(* code exchange, refresh with rotation, and revocation.  Every await is a *)
(* step boundary, so requests interleave with each other and with sweeps.  *)
(* A store call may also throw, before or after its effect (an indetermi-  *)
(* nate outcome), and the process may crash between any two steps.         *)
(*                                                                         *)
(* A bridge is configured for one resource; requests at different bridges  *)
(* over one store differ in the resource they carry.                       *)
(***************************************************************************)
EXTENDS Store

CONSTANTS
  Requests,            \* request slots, reused
  ExpectedGeneration,  \* STORED_DCR_GRANT_GENERATION in stored mode, else None
  CodeExpiries,        \* expiries the issued codes carry
  RefreshTtl,
  StoreMayThrow        \* whether store calls may fail

ASSUME TtlAssumption == CodeExpiries \subseteq Times /\ RefreshTtl \in Nat
ASSUME ThrowAssumption == StoreMayThrow \in BOOLEAN

VARIABLES
  requests,     \* slot -> in-flight request
  issued,       \* history: code -> its record as issued
  minted,       \* refresh token -> the family its raw string names
  redeemed,     \* history: family -> the code it was issued for
  returned,     \* history: tokens some response carried
  rotatedAway,  \* history: tokens whose rotation took effect
  condemned,    \* history: families a completed call declared dead
  lost          \* history: families whose compensation the process lost

historyVars == <<issued, minted, redeemed, returned, rotatedAway, condemned, lost>>
tokenVars == <<storeVars, requests, historyVars>>

\* finiteClockSnapshot refuses a reading whose expiry would not fit.
Clock == {now \in Times : now + RefreshTtl \in Times}

\* pc: the store call that comes next, or "judge", the decision on its answer.
Idle == [pc |-> "idle", code |-> None, token |-> None, client |-> None,
         binding |-> None, resource |-> None, now |-> 0, record |-> None,
         next |-> None]

Begin(r, request) ==
  /\ requests[r] = Idle
  /\ requests' = [requests EXCEPT ![r] = request]
  /\ UNCHANGED <<storeVars, historyVars>>

Finish(r) == requests' = [requests EXCEPT ![r] = Idle]

Advance(r, pc, record) ==
  requests' = [requests EXCEPT ![r].pc = pc, ![r].record = record]

FreshTokens == Tokens \ DOMAIN minted
FreshFamilies == Families \ DOMAIN redeemed

-----------------------------------------------------------------------------
(* The authorization use case hands a code over; Authorize models it. *)

IssueCode(code, record) ==
  /\ code \notin DOMAIN issued
  /\ record.expiresAt \in CodeExpiries
  /\ SaveAuthCode(code, record)
  /\ issued' = Put(issued, code, record)
  /\ UNCHANGED <<requests, minted, redeemed, returned, rotatedAway, condemned, lost>>

-----------------------------------------------------------------------------
(* exchangeAuthorizationCode *)

BeginExchange(r, code, client, binding, resource, now) ==
  Begin(r, [Idle EXCEPT !.pc = "consume", !.code = code, !.client = client,
                        !.binding = binding, !.resource = resource, !.now = now])

CodeAccepted(request, record) ==
  /\ record # None
  /\ ExpectedGeneration # None => record.generation = ExpectedGeneration
  /\ record.resource = request.resource
  /\ record.grant.client = request.client
  /\ record.binding = request.binding

\* The code is burned before client, redirect_uri and verifier are compared.
ConsumeCode(r) ==
  LET request == requests[r]
      record == ConsumeAuthCodeAnswer(request.code, request.now,
                                      ExpectedGeneration, request.resource)
  IN /\ request.pc = "consume"
     /\ ConsumeAuthCode(request.code, request.resource)
     /\ \/ CodeAccepted(request, record) /\ Advance(r, "save", record)
        \/ (StoreMayThrow \/ ~CodeAccepted(request, record)) /\ Finish(r)
     /\ UNCHANGED historyVars

\* The response is signed before the save, and returned after it: a save that
\* commits and throws leaves a family nobody holds a token of.
SaveFamily(r) ==
  LET request == requests[r] IN
  /\ request.pc = "save"
  /\ \E t \in FreshTokens, f \in FreshFamilies :
       /\ SaveRefreshToken(t, RootRow(f, request.record.grant, request.record.resource,
                                      request.record.generation, request.now + RefreshTtl))
       /\ minted' = Put(minted, t, f)
       /\ redeemed' = Put(redeemed, f, request.code)
       /\ \/ returned' = returned \cup {t}
          \/ StoreMayThrow /\ UNCHANGED returned
  /\ Finish(r)
  /\ UNCHANGED <<issued, rotatedAway, condemned, lost>>

-----------------------------------------------------------------------------
(* refresh *)

\* The raw token names its family, so a forgotten token still names it.
BeginRefresh(r, token, client, resource, now) ==
  /\ token \in DOMAIN minted
  /\ Begin(r, [Idle EXCEPT !.pc = "rotate", !.token = token, !.client = client,
                           !.resource = resource, !.now = now])

FamilyOf(request) == minted[request.token]

RotateToken(r) ==
  LET request == requests[r] IN
  /\ request.pc = "rotate"
  /\ \E s \in FreshTokens :
     LET next == [token |-> s, family |-> FamilyOf(request), grant |-> None,
                  expiresAt |-> request.now + RefreshTtl]
         row == RotateRefreshTokenAnswer(request.token, next, request.now,
                                         ExpectedGeneration, request.resource)
         replay == request.token \in rotatedAway
                   /\ issued[redeemed[FamilyOf(request)]].resource = request.resource
     IN /\ RotateRefreshToken(request.token, next, request.now,
                              ExpectedGeneration, request.resource)
        /\ IF row # None
           THEN /\ minted' = Put(minted, s, FamilyOf(request))
                /\ rotatedAway' = rotatedAway \cup {request.token}
           ELSE UNCHANGED <<minted, rotatedAway>>
        /\ \/ /\ row # None
              /\ requests' = [requests EXCEPT ![r].pc = "judge", ![r].record = row,
                                              ![r].next = s]
              /\ UNCHANGED condemned
           \/ /\ row = None
              /\ Finish(r)
              /\ condemned' = IF replay THEN condemned \cup {FamilyOf(request)} ELSE condemned
           \/ /\ StoreMayThrow
              /\ Advance(r, "compensate", None)
              /\ UNCHANGED condemned
  /\ UNCHANGED <<issued, redeemed, returned, lost>>

\* The rotation threw and never happened; it is compensated all the same.
RotateThrows(r) ==
  /\ StoreMayThrow
  /\ requests[r].pc = "rotate"
  /\ Advance(r, "compensate", None)
  /\ UNCHANGED <<storeVars, historyVars>>

\* A slip: a refused client is answered without compensation.
MutJudge(r) ==
  LET request == requests[r] IN
  /\ request.pc = "judge"
  /\ returned' = IF request.client = request.record.grant.client
                 THEN returned \cup {request.next} ELSE returned
  /\ Finish(r)
  /\ UNCHANGED <<storeVars, issued, minted, redeemed, rotatedAway, condemned, lost>>

Judge(r) ==
  LET request == requests[r] IN
  /\ request.pc = "judge"
  /\ IF request.client = request.record.grant.client
     THEN Finish(r) /\ returned' = returned \cup {request.next}
     ELSE Advance(r, "compensate", request.record) /\ UNCHANGED returned
  /\ UNCHANGED <<storeVars, issued, minted, redeemed, rotatedAway, condemned, lost>>

\* No expectedResource: the family the raw token names is revoked whatever
\* bridge it belongs to.
Compensate(r) ==
  /\ requests[r].pc = "compensate"
  /\ RevokeRefreshTokenFamily(FamilyOf(requests[r]), None)
  /\ condemned' = condemned \cup {FamilyOf(requests[r])}
  /\ Finish(r)
  /\ UNCHANGED <<issued, minted, redeemed, returned, rotatedAway, lost>>

CompensateThrows(r) ==
  /\ StoreMayThrow
  /\ requests[r].pc = "compensate"
  /\ lost' = lost \cup {FamilyOf(requests[r])}
  /\ Finish(r)
  /\ UNCHANGED <<storeVars, issued, minted, redeemed, returned, rotatedAway, condemned>>

-----------------------------------------------------------------------------
(* revoke *)

BeginRevoke(r, token, resource) ==
  /\ token \in DOMAIN minted
  /\ Begin(r, [Idle EXCEPT !.pc = "find", !.token = token, !.resource = resource])

Find(r) ==
  LET request == requests[r]
      row == FindRefreshToken(request.token)
  IN /\ request.pc = "find"
     /\ IF row # None /\ row.resource = request.resource
        THEN Advance(r, "revoke", row) ELSE Finish(r)
     /\ UNCHANGED <<storeVars, historyVars>>

RevokeFound(r) ==
  LET request == requests[r] IN
  /\ request.pc = "revoke"
  /\ RevokeRefreshTokenFamily(request.record.family, request.resource)
  /\ condemned' = condemned \cup {request.record.family}
  /\ Finish(r)
  /\ UNCHANGED <<issued, minted, redeemed, returned, rotatedAway, lost>>

-----------------------------------------------------------------------------
(* Failures *)

\* A call that throws before its effect ends the request with an error.
CallThrows(r) ==
  /\ StoreMayThrow
  /\ requests[r].pc \in {"consume", "save", "find", "revoke"}
  /\ Finish(r)
  /\ UNCHANGED <<storeVars, historyVars>>

\* Signing fails, stored scopes are malformed, or the subject is reserved.
PreparationFails(r) ==
  /\ \/ requests[r].pc = "save" /\ Finish(r)
     \/ requests[r].pc = "judge" /\ Advance(r, "compensate", None)
  /\ UNCHANGED <<storeVars, historyVars>>

\* The process dies with every request in flight; the durable store stays.
Crash ==
  /\ requests' = [r \in Requests |-> Idle]
  /\ lost' = lost \cup {FamilyOf(requests[r]) :
                          r \in {q \in Requests : requests[q].pc \in {"judge", "compensate"}}}
  /\ UNCHANGED <<storeVars, issued, minted, redeemed, returned, rotatedAway, condemned>>

-----------------------------------------------------------------------------
TokenInit ==
  /\ StoreInit
  /\ requests = [r \in Requests |-> Idle]
  /\ issued = [c \in {} |-> None]
  /\ minted = [t \in {} |-> None]
  /\ redeemed = [f \in {} |-> None]
  /\ returned = {} /\ rotatedAway = {} /\ condemned = {} /\ lost = {}

RequestStep(r) ==
  \/ ConsumeCode(r) \/ SaveFamily(r)
  \/ RotateToken(r) \/ RotateThrows(r) \/ Judge(r)
  \/ Compensate(r) \/ CompensateThrows(r)
  \/ Find(r) \/ RevokeFound(r)
  \/ CallThrows(r) \/ PreparationFails(r)

Arrival(r) ==
  \E resource \in Resources, client \in Clients, now \in Clock :
    \/ \E code \in Codes, binding \in Bindings :
         BeginExchange(r, code, client, binding, resource, now)
    \/ \E token \in Tokens :
         BeginRefresh(r, token, client, resource, now) \/ BeginRevoke(r, token, resource)

TokenNext ==
  \/ \E r \in Requests : Arrival(r) \/ RequestStep(r)
  \/ \E code \in Codes, record \in AuthCodeRecord : IssueCode(code, record)
  \/ (\E now \in Times : SweepExpired(now)) /\ UNCHANGED <<requests, historyVars>>
  \/ Crash

TokenSpec == TokenInit /\ [][TokenNext]_tokenVars

-----------------------------------------------------------------------------
UsableTokens(f) ==
  {t \in DOMAIN refreshTokens :
     /\ refreshTokens[t].family = f
     /\ ~refreshTokens[t].consumed
     /\ f \in DOMAIN families /\ ~families[f].revoked}

\* One authorization code yields at most one family, however many exchanges
\* race on it, fail halfway or are retried after a crash.
OneFamilyPerCode ==
  \A f, g \in DOMAIN redeemed : redeemed[f] = redeemed[g] => f = g

\* Every stored token still speaks for the client, subject and scopes of the
\* code its family was issued for, after any number of refreshes by any client.
GrantFollowsCode ==
  \A t \in DOMAIN refreshTokens :
     LET code == redeemed[refreshTokens[t].family] IN
     /\ refreshTokens[t].grant = issued[code].grant
     /\ refreshTokens[t].resource = issued[code].resource

\* A family some completed call condemned -- a replayed token the store saw, a
\* revocation, a compensated refresh -- has no usable token, then or later,
\* whatever in-flight refresh was racing with that call.
CondemnedIsDead == \A f \in condemned : UsableTokens(f) = {}

\* A successor no response ever carried is never left usable: a request still
\* holds it and will return it or revoke its family, unless the process or the
\* compensating store call was lost.
NoOrphanSuccessor ==
  \A f \in Families, t \in Tokens :
     /\ t \in UsableTokens(f)
     /\ refreshTokens[t].previous # None
     /\ t \notin returned
     => \/ f \in lost
        \/ \E r \in Requests : /\ requests[r].pc \in {"judge", "compensate"}
                               /\ FamilyOf(requests[r]) = f

\* Docs (contracts 7.4): a refresh at a bridge of another resource commits no
\* store mutation, neither of the family nor of one of its tokens or of any
\* other row, so the correctly bound token remains usable.
WrongResourceHarmless ==
  [][\A r \in Requests, f \in DOMAIN families :
        /\ requests[r].pc \in {"rotate", "compensate"}
        /\ requests'[r] # requests[r]
        /\ FamilyOf(requests[r]) = f
        /\ families[f].resource # requests[r].resource
        => UNCHANGED storeVars]_tokenVars

\* Rotation as a promise: at most one usable token per family, tokens never
\* come back, and a family that ended stays ended.
Lineage == INSTANCE TokenLineage WITH
  current <- [f \in Families |-> IF UsableTokens(f) = {} THEN None
                                 ELSE CHOOSE t \in UsableTokens(f) : TRUE],
  born <- DOMAIN redeemed,
  used <- DOMAIN minted

ImplementsLineage == Lineage!LineageSpec
=============================================================================
