------------------------------- MODULE Store -------------------------------
(***************************************************************************)
(* The StorePort: authorization codes, refresh-token families and tokens,  *)
(* single-use consent JTIs and the identity of the logical store.  The     *)
(* reference semantics is MemoryStore (src/store/memory.ts); SqliteStore   *)
(* performs the same checks in the same order inside BEGIN IMMEDIATE, so   *)
(* every operation is one atomic action in both.                           *)
(*                                                                         *)
(* An operation is two definitions: what it answers (a state function) and *)
(* what it does (an action), both evaluated in the same state.  The use-   *)
(* case modules compose them; StoreNext exercises them with every caller.  *)
(*                                                                         *)
(* Time is a caller's clock reading.  Nothing relates two readings: two    *)
(* replicas disagree, and a clock may go backward.                         *)
(***************************************************************************)
EXTENDS Naturals, Functions

CONSTANTS
  Codes,        \* digests of authorization codes
  Tokens,       \* digests of refresh tokens
  Families,     \* refresh-token family ids
  Jtis,         \* ids of consent tokens
  Clients, Subjects, Scopes,
  Bindings,     \* what the redeemer must prove: redirect_uri and PKCE verifier
  Resources,    \* configured bridge resources
  Unbound,      \* UNBOUND_REFRESH_RESOURCE, and the null of a legacy row
  Generations,  \* grant generations, the legacy null among them
  Times,        \* clock readings and expiries
  JtiExpiry,    \* the signed expiry a consent token carries with its jti
  MaxInstance,  \* bound: number of store identities
  None          \* JavaScript null or undefined

ASSUME TimesAssumption == Times \subseteq Nat /\ 0 \in Times
ASSUME NoneAssumption == None \notin Tokens /\ None \notin Resources
ASSUME UnboundAssumption == Unbound \notin Resources /\ Unbound # None
ASSUME JtiExpiryAssumption == JtiExpiry \in [Jtis -> Times]
ASSUME InstanceAssumption == MaxInstance \in Nat \ {0}

VARIABLES
  authCodes,        \* code digest -> record
  refreshTokens,    \* token digest -> row
  families,         \* family id -> row
  consentJtis,      \* jti -> expiry
  sweptThrough,     \* latest sweep time; 0 before any sweep
  storeInstanceId,  \* the n-th random identity; identities never repeat
  spentJtis         \* history: JTIs the store ever accepted

storeVars == <<authCodes, refreshTokens, families, consentJtis, sweptThrough,
               storeInstanceId, spentJtis>>
tokenRows == <<refreshTokens, families>>
consentRows == <<consentJtis, spentJtis>>

\* Whom a code or a token speaks for, and for what.
Grants == [client : Clients, subject : Subjects, scopes : SUBSET Scopes]

AuthCodeRecord == [grant : Grants, binding : Bindings, resource : Resources,
                   generation : Generations, expiresAt : Times]

RefreshTokenRow == [family : Families, previous : Tokens \cup {None},
                    grant : Grants, resource : Resources \cup {Unbound},
                    generation : Generations, expiresAt : Times,
                    consumed : BOOLEAN]

FamilyRow == [revoked : BOOLEAN, generation : Generations,
              resource : Resources \cup {Unbound}]

\* The null a lookup answers is no row.
ASSUME RowAssumption == None \notin AuthCodeRecord /\ None \notin RefreshTokenRow

\* f maps some of S, to members of T.
IsMap(f, S, T) == DOMAIN f \subseteq S /\ \A x \in DOMAIN f : f[x] \in T

\* Map.set: write v at k, over whatever was there.
Put(f, k, v) == [x \in DOMAIN f \cup {k} |-> IF x = k THEN v ELSE f[x]]

-----------------------------------------------------------------------------
(* Consent JTIs and authorization codes *)

\* A slip: no watermark.
MutJtiSpent(jti, expiresAt) == jti \in DOMAIN consentJtis

\* A missing JTI whose signed expiry lies before the sweep watermark may have
\* been collected after its use, so it counts as used.
JtiSpent(jti, expiresAt) ==
  \/ jti \in DOMAIN consentJtis
  \/ expiresAt < sweptThrough

\* A slip: the identity of the store is not compared again at the commit.
MutCommitConsentAnswer(instance, jti, expiresAt) ==
  IF JtiSpent(jti, expiresAt) THEN "replayed" ELSE "stored"

CommitConsentAnswer(instance, jti, expiresAt) ==
  IF instance # storeInstanceId THEN "binding_mismatch"
  ELSE IF JtiSpent(jti, expiresAt) THEN "replayed" ELSE "stored"

CommitConsentApproval(instance, jti, expiresAt, code, record) ==
  /\ IF CommitConsentAnswer(instance, jti, expiresAt) = "stored"
     THEN /\ consentJtis' = Put(consentJtis, jti, expiresAt)
          /\ authCodes' = Put(authCodes, code, record)
          /\ spentJtis' = spentJtis \cup {jti}
     ELSE UNCHANGED <<consentJtis, authCodes, spentJtis>>
  /\ UNCHANGED <<refreshTokens, families, sweptThrough, storeInstanceId>>

ConsumeConsentJtiAnswer(jti, expiresAt) == ~JtiSpent(jti, expiresAt)

ConsumeConsentJti(jti, expiresAt) ==
  /\ IF JtiSpent(jti, expiresAt)
     THEN UNCHANGED consentRows
     ELSE /\ consentJtis' = Put(consentJtis, jti, expiresAt)
          /\ spentJtis' = spentJtis \cup {jti}
  /\ UNCHANGED <<authCodes, refreshTokens, families, sweptThrough, storeInstanceId>>

SaveAuthCode(code, record) ==
  /\ authCodes' = Put(authCodes, code, record)
  /\ UNCHANGED <<refreshTokens, families, consentJtis, sweptThrough,
                 storeInstanceId, spentJtis>>

WrongResource(code, resource) ==
  /\ code \in DOMAIN authCodes
  /\ resource # None
  /\ authCodes[code].resource # resource

\* Expiry and generation are judged on a record already deleted: a code
\* presented late is burned all the same.
ConsumeAuthCodeAnswer(code, now, generation, resource) ==
  IF /\ code \in DOMAIN authCodes
     /\ ~WrongResource(code, resource)
     /\ authCodes[code].expiresAt > now
     /\ generation # None => authCodes[code].generation = generation
  THEN authCodes[code] ELSE None

\* A slip: the code is read and never deleted.
MutConsumeAuthCode(code, resource) == UNCHANGED storeVars

ConsumeAuthCode(code, resource) ==
  /\ authCodes' = IF WrongResource(code, resource) THEN authCodes
                  ELSE Restrict(authCodes, DOMAIN authCodes \ {code})
  /\ UNCHANGED <<refreshTokens, families, consentJtis, sweptThrough,
                 storeInstanceId, spentJtis>>

-----------------------------------------------------------------------------
(* Refresh tokens *)

\* A slip: a save may join a family it does not match.
MutSaveAccepted(token, row) == token \notin DOMAIN refreshTokens

\* Rejected saves throw StoreInputError and change nothing.
SaveAccepted(token, row) ==
  /\ token \notin DOMAIN refreshTokens
  /\ row.family \in DOMAIN families =>
       /\ families[row.family].generation = row.generation
       /\ families[row.family].resource = row.resource

InsertToken(token, row) ==
  /\ refreshTokens' = Put(refreshTokens, token, row)
  /\ families' = IF row.family \in DOMAIN families THEN families
                 ELSE Put(families, row.family,
                          [revoked |-> FALSE, generation |-> row.generation,
                           resource |-> row.resource])

SaveRefreshToken(token, row) ==
  /\ IF SaveAccepted(token, row) THEN InsertToken(token, row)
     ELSE UNCHANGED tokenRows
  /\ UNCHANGED <<authCodes, consentJtis, sweptThrough, storeInstanceId, spentJtis>>

\* A slip: the caller's bridge is not compared.
MutAddressable(token, generation, resource) ==
  /\ token \in DOMAIN refreshTokens
  /\ LET row == refreshTokens[token] IN
     /\ row.family \in DOMAIN families
     /\ ~families[row.family].revoked
     /\ generation # None => families[row.family].generation = generation
     /\ row.resource # Unbound
     /\ row.resource = families[row.family].resource

\* The token exists and neither revocation, generation nor resource bars the
\* caller from it.  Everything below mutates such a token or family only.
Addressable(token, generation, resource) ==
  /\ token \in DOMAIN refreshTokens
  /\ LET row == refreshTokens[token] IN
     /\ row.family \in DOMAIN families
     /\ ~families[row.family].revoked
     /\ generation # None => /\ families[row.family].generation = generation
                             /\ row.generation = generation
     /\ row.resource # Unbound
     /\ row.resource = families[row.family].resource
     /\ resource # None => row.resource = resource

IsReplay(token, generation, resource) ==
  /\ Addressable(token, generation, resource)
  /\ refreshTokens[token].consumed

\* A slip: a consumed token rotates again.
MutRotates(token, next, now, generation, resource) ==
  /\ Addressable(token, generation, resource)
  /\ refreshTokens[token].expiresAt > now
  /\ next.family = refreshTokens[token].family
  /\ next.token \notin DOMAIN refreshTokens

\* next is the caller's successor: its token, the family it names, its expiry
\* and a grant the caller does not vouch for.
Rotates(token, next, now, generation, resource) ==
  /\ Addressable(token, generation, resource)
  /\ ~refreshTokens[token].consumed
  /\ refreshTokens[token].expiresAt > now
  /\ next.family = refreshTokens[token].family
  /\ next.token \notin DOMAIN refreshTokens

\* A slip: the successor's grant is the caller's.
MutSuccessor(token, next) ==
  [refreshTokens[token] EXCEPT !.previous = token, !.grant = next.grant,
                               !.expiresAt = next.expiresAt, !.consumed = FALSE]

\* Backfill: the successor's identity comes from the consumed row, never from
\* the caller.
Successor(token, next) ==
  [refreshTokens[token] EXCEPT !.previous = token,
                               !.expiresAt = next.expiresAt,
                               !.consumed = FALSE]

\* A slip: the row is rebuilt without its other columns.
MutRevokeFamilyRow(family) == [families EXCEPT ![family] = [revoked |-> TRUE]]

RevokeFamilyRow(family) == [families EXCEPT ![family].revoked = TRUE]

RotateRefreshTokenAnswer(token, next, now, generation, resource) ==
  IF Rotates(token, next, now, generation, resource)
  THEN refreshTokens[token] ELSE None

RotateRefreshToken(token, next, now, generation, resource) ==
  /\ \/ /\ Rotates(token, next, now, generation, resource)
        /\ refreshTokens' = Put([refreshTokens EXCEPT ![token].consumed = TRUE],
                                next.token, Successor(token, next))
        /\ UNCHANGED families
     \/ /\ IsReplay(token, generation, resource)
        /\ families' = RevokeFamilyRow(refreshTokens[token].family)
        /\ UNCHANGED refreshTokens
     \/ /\ ~Rotates(token, next, now, generation, resource)
        /\ ~IsReplay(token, generation, resource)
        /\ UNCHANGED tokenRows
  /\ UNCHANGED <<authCodes, consentJtis, sweptThrough, storeInstanceId, spentJtis>>

RevokeRefreshTokenFamily(family, resource) ==
  /\ families' = IF /\ family \in DOMAIN families
                    /\ resource # None => families[family].resource = resource
                 THEN RevokeFamilyRow(family) ELSE families
  /\ UNCHANGED <<authCodes, refreshTokens, consentJtis, sweptThrough,
                 storeInstanceId, spentJtis>>

FindRefreshToken(token) ==
  IF token \in DOMAIN refreshTokens THEN refreshTokens[token] ELSE None

\* A slip: the client is not compared.
MutContributes(row, subject, client, now, generation, resource) ==
  /\ row.grant.subject = subject
  /\ ~row.consumed
  /\ row.expiresAt > now
  /\ ~families[row.family].revoked
  /\ generation # None => row.generation = generation
  /\ resource # None => row.resource = resource

Contributes(row, subject, client, now, generation, resource) ==
  /\ row.grant.subject = subject
  /\ row.grant.client = client
  /\ ~row.consumed
  /\ row.expiresAt > now
  /\ row.family \in DOMAIN families
  /\ ~families[row.family].revoked
  /\ generation # None => row.generation = generation
  /\ resource # None => /\ row.resource = resource
                        /\ families[row.family].resource = resource

FindGrantedScopes(subject, client, now, generation, resource) ==
  UNION {refreshTokens[t].grant.scopes :
           t \in {u \in DOMAIN refreshTokens :
                    Contributes(refreshTokens[u], subject, client, now, generation, resource)}}

-----------------------------------------------------------------------------
(* Expiry and store identity *)

\* A slip: each token is judged by its own expiry.
MutRetainedTokens(now) == {t \in DOMAIN refreshTokens : refreshTokens[t].expiresAt >= now}

\* A row stays while some member of its family is still valid, consumed rows
\* included: they carry the replay signal.
RetainedTokens(now) ==
  {t \in DOMAIN refreshTokens :
     \E m \in DOMAIN refreshTokens :
        /\ refreshTokens[m].family = refreshTokens[t].family
        /\ refreshTokens[m].expiresAt >= now}

SweptThrough(now) == IF sweptThrough < now THEN now ELSE sweptThrough

SweepExpired(now) ==
  /\ sweptThrough' = SweptThrough(now)
  /\ authCodes' = Restrict(authCodes, {c \in DOMAIN authCodes : authCodes[c].expiresAt >= now})
  /\ consentJtis' = Restrict(consentJtis, {j \in DOMAIN consentJtis : consentJtis[j] >= now})
  /\ refreshTokens' = Restrict(refreshTokens, RetainedTokens(now))
  /\ families' = Restrict(families, {f \in DOMAIN families :
                   \E t \in RetainedTokens(now) : refreshTokens[t].family = f})
  /\ UNCHANGED <<storeInstanceId, spentJtis>>

RotateStoreInstanceId ==
  /\ storeInstanceId < MaxInstance
  /\ storeInstanceId' = storeInstanceId + 1
  /\ UNCHANGED <<authCodes, refreshTokens, families, consentJtis, sweptThrough, spentJtis>>

-----------------------------------------------------------------------------
StoreInit ==
  /\ authCodes = [c \in {} |-> None]
  /\ refreshTokens = [t \in {} |-> None]
  /\ families = [f \in {} |-> None]
  /\ consentJtis = [j \in {} |-> None]
  /\ sweptThrough = 0
  /\ storeInstanceId = 1
  /\ spentJtis = {}

\* Roots have no predecessor: the one caller of saveRefreshToken outside the
\* store passes null (src/token.ts, exchangeAuthorizationCode).
RootRow(family, grant, resource, generation, expiresAt) ==
  [family |-> family, previous |-> None, grant |-> grant, resource |-> resource,
   generation |-> generation, expiresAt |-> expiresAt, consumed |-> FALSE]

RootRows == {row \in RefreshTokenRow : row.previous = None /\ ~row.consumed}

\* What a caller of a rotation generates and asks for.
NextTokens == [token : Tokens, family : Families, grant : Grants \cup {None}, expiresAt : Times]

StoreNext ==
  \/ \E instance \in 1..MaxInstance, j \in Jtis, c \in Codes, r \in AuthCodeRecord :
       CommitConsentApproval(instance, j, JtiExpiry[j], c, r)
  \/ \E j \in Jtis : ConsumeConsentJti(j, JtiExpiry[j])
  \/ \E c \in Codes, r \in AuthCodeRecord : SaveAuthCode(c, r)
  \/ \E c \in Codes, resource \in Resources \cup {None} : ConsumeAuthCode(c, resource)
  \/ \E t \in Tokens, row \in RootRows : SaveRefreshToken(t, row)
  \/ \E t \in Tokens, next \in NextTokens, now \in Times,
        generation \in Generations \cup {None}, resource \in Resources \cup {None} :
       RotateRefreshToken(t, next, now, generation, resource)
  \/ \E f \in Families, resource \in Resources \cup {None} :
       RevokeRefreshTokenFamily(f, resource)
  \/ \E now \in Times : SweepExpired(now)
  \/ RotateStoreInstanceId

StoreSpec == StoreInit /\ [][StoreNext]_storeVars

-----------------------------------------------------------------------------
AuthCodesOK == IsMap(authCodes, Codes, AuthCodeRecord)
TokensOK == IsMap(refreshTokens, Tokens, RefreshTokenRow)
FamiliesOK == IsMap(families, Families, FamilyRow)
ConsentsOK ==
  /\ IsMap(consentJtis, Jtis, Times)
  /\ sweptThrough \in Times
  /\ storeInstanceId \in 1..MaxInstance
  /\ spentJtis \subseteq Jtis

\* Every variable keeps its type (the shapes of src/ports/store.ts).
StoreTypeOK == AuthCodesOK /\ TokensOK /\ FamiliesOK /\ ConsentsOK

\* A token never outlives its family row, and agrees with it on generation and
\* resource: a rotation that finds the row alone can trust the pair, whatever
\* mix of saves, rotations and sweeps of any clock came before.
RowsMatchFamily ==
  \A t \in DOMAIN refreshTokens :
     LET row == refreshTokens[t] IN
     /\ row.family \in DOMAIN families
     /\ families[row.family].resource = row.resource
     /\ families[row.family].generation = row.generation

\* The replay signal survives: as long as a successor is stored, the token it
\* was rotated from is stored too, in the same family, and still consumed --
\* through sweeps by any clock and through saves that name its digest again.
LineageKept ==
  \A t \in DOMAIN refreshTokens :
     LET p == refreshTokens[t].previous IN
     p # None => /\ p \in DOMAIN refreshTokens
                 /\ refreshTokens[p].consumed
                 /\ refreshTokens[p].family = refreshTokens[t].family

\* One presentation of a token wins: no token has two successors, so two
\* refreshes racing on one token cannot fork the family.
OneSuccessor ==
  \A s, t \in DOMAIN refreshTokens :
     /\ refreshTokens[s].previous = refreshTokens[t].previous
     /\ refreshTokens[s].previous # None
     => s = t

\* A successor speaks for whom its predecessor spoke for, whatever grant,
\* resource or generation the refresh request carried.
SuccessorInherits ==
  \A t \in DOMAIN refreshTokens :
     LET p == refreshTokens[t].previous IN
     p # None => /\ refreshTokens[t].grant = refreshTokens[p].grant
                 /\ refreshTokens[t].resource = refreshTokens[p].resource
                 /\ refreshTokens[t].generation = refreshTokens[p].generation

\* What keeps a used JTI used: it is still stored, or the watermark has passed
\* its signed expiry.
JtiFenced ==
  /\ \A j \in DOMAIN consentJtis : consentJtis[j] = JtiExpiry[j]
  /\ \A j \in spentJtis : j \in DOMAIN consentJtis \/ JtiExpiry[j] < sweptThrough

\* A consent token is accepted at most once in the life of the store, by either
\* entry (approval or upstream callback), although sweeps by a fast clock
\* delete the tombstone while a slow clock still takes the token for valid.
JtiAcceptedOnce ==
  [][\A j \in DOMAIN consentJtis' \ DOMAIN consentJtis : j \notin spentJtis]_storeVars
=============================================================================
