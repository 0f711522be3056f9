-------------------------- MODULE AuthorizeProofs --------------------------
(***************************************************************************)
(* Proofs about Store and about Authorize.                                 *)
(*                                                                         *)
(* Store, for every number of codes, tokens, families, JTIs, clients and   *)
(* clock readings: one lemma per operation and invariant, so that the      *)
(* use-case modules, which compose the same operations, can cite them;     *)
(* then one theorem per invariant.                                         *)
(*                                                                         *)
(* Authorize: its types, and that one consent yields at most one code, for *)
(* every number of approvals, replicas, sweeps, copies and restores.       *)
(***************************************************************************)
EXTENDS Authorize, TLAPS

USE DEF IsMap

-----------------------------------------------------------------------------
(* The store: types *)

\* An approval's commit keeps the types.
LEMMA CommitType ==
  ASSUME StoreTypeOK, NEW instance, NEW j \in Jtis, NEW e \in Times,
         NEW c \in Codes, NEW r \in AuthCodeRecord,
         CommitConsentApproval(instance, j, e, c, r)
  PROVE  StoreTypeOK'
<1> USE DEF StoreTypeOK, CommitConsentApproval
<1>1. AuthCodesOK'
  BY DEF AuthCodesOK, Put
<1>2. TokensOK' /\ FamiliesOK'
  BY DEF TokensOK, FamiliesOK
<1>3. ConsentsOK'
  BY DEF ConsentsOK, Put
<1> QED BY <1>1, <1>2, <1>3

\* A JTI consumed on its own keeps the types.
LEMMA ConsumeJtiType ==
  ASSUME StoreTypeOK, NEW j \in Jtis, NEW e \in Times, ConsumeConsentJti(j, e)
  PROVE  StoreTypeOK'
<1> USE DEF StoreTypeOK, ConsumeConsentJti, consentRows
<1>1. AuthCodesOK' /\ TokensOK' /\ FamiliesOK'
  BY DEF AuthCodesOK, TokensOK, FamiliesOK
<1>2. ConsentsOK'
  BY DEF ConsentsOK, Put
<1> QED BY <1>1, <1>2

\* Saving a code keeps the types.
LEMMA SaveCodeType ==
  ASSUME StoreTypeOK, NEW c \in Codes, NEW r \in AuthCodeRecord, SaveAuthCode(c, r)
  PROVE  StoreTypeOK'
<1> USE DEF StoreTypeOK, SaveAuthCode
<1>1. AuthCodesOK'
  BY DEF AuthCodesOK, Put
<1>2. TokensOK' /\ FamiliesOK' /\ ConsentsOK'
  BY DEF TokensOK, FamiliesOK, ConsentsOK
<1> QED BY <1>1, <1>2

\* Consuming a code keeps the types.
LEMMA ConsumeCodeType ==
  ASSUME StoreTypeOK, NEW c, NEW resource, ConsumeAuthCode(c, resource)
  PROVE  StoreTypeOK'
<1> USE DEF StoreTypeOK, ConsumeAuthCode
<1>1. AuthCodesOK'
  BY DEF AuthCodesOK, Restrict
<1>2. TokensOK' /\ FamiliesOK' /\ ConsentsOK'
  BY DEF TokensOK, FamiliesOK, ConsentsOK
<1> QED BY <1>1, <1>2

\* Saving a refresh token keeps the types.
LEMMA SaveTokenType ==
  ASSUME StoreTypeOK, NEW t \in Tokens, NEW row \in RefreshTokenRow,
         SaveRefreshToken(t, row)
  PROVE  StoreTypeOK'
<1> USE DEF StoreTypeOK, SaveRefreshToken, InsertToken, tokenRows
<1>1. AuthCodesOK' /\ ConsentsOK'
  BY DEF AuthCodesOK, ConsentsOK
<1>2. TokensOK'
  BY DEF TokensOK, Put
<1>3. FamiliesOK'
  <2> DEFINE new == [revoked |-> FALSE, generation |-> row.generation,
                     resource |-> row.resource]
  <2>1. row.family \in Families /\ new \in FamilyRow
    BY DEF RefreshTokenRow, FamilyRow
  <2>2. families' = families \/ families' = Put(families, row.family, new)
    OBVIOUS
  <2> HIDE DEF new
  <2> QED BY <2>1, <2>2 DEF FamiliesOK, Put
<1> QED BY <1>1, <1>2, <1>3

\* A successor is a row of the right shape.
LEMMA SuccessorType ==
  ASSUME TokensOK, NEW t \in DOMAIN refreshTokens, NEW next, next.expiresAt \in Times
  PROVE  Successor(t, next) \in RefreshTokenRow
BY DEF TokensOK, Successor, RefreshTokenRow

\* Rotation keeps the types, whichever of its three outcomes it takes.
LEMMA RotateType ==
  ASSUME StoreTypeOK, NEW t \in Tokens, NEW next, next.token \in Tokens,
         next.expiresAt \in Times, NEW now, NEW generation, NEW resource,
         RotateRefreshToken(t, next, now, generation, resource)
  PROVE  StoreTypeOK'
<1> USE DEF StoreTypeOK, RotateRefreshToken
<1>1. AuthCodesOK' /\ ConsentsOK'
  BY DEF AuthCodesOK, ConsentsOK
<1>2. CASE Rotates(t, next, now, generation, resource) /\
           refreshTokens' = Put([refreshTokens EXCEPT ![t].consumed = TRUE],
                                next.token, Successor(t, next)) /\
           UNCHANGED families
  <2>1. t \in DOMAIN refreshTokens
    BY <1>2 DEF Rotates, Addressable
  <2>2. Successor(t, next) \in RefreshTokenRow
    BY <2>1, SuccessorType
  <2> DEFINE spent == [refreshTokens EXCEPT ![t].consumed = TRUE]
  <2>3. /\ DOMAIN spent = DOMAIN refreshTokens
        /\ \A u \in DOMAIN refreshTokens : spent[u] \in RefreshTokenRow
    BY <2>1 DEF TokensOK, RefreshTokenRow
  <2>4. refreshTokens' = Put(spent, next.token, Successor(t, next))
    BY <1>2
  <2> HIDE DEF spent
  <2>5. TokensOK'
    BY <2>2, <2>3, <2>4 DEF TokensOK, Put
  <2>6. FamiliesOK'
    BY <1>2 DEF FamiliesOK
  <2> QED BY <1>1, <2>5, <2>6
<1>3. CASE IsReplay(t, generation, resource) /\
           families' = RevokeFamilyRow(refreshTokens[t].family) /\
           UNCHANGED refreshTokens
  <2>1. FamiliesOK'
    BY <1>3 DEF FamiliesOK, RevokeFamilyRow, FamilyRow
  <2>2. TokensOK'
    BY <1>3 DEF TokensOK
  <2> QED BY <1>1, <2>1, <2>2
<1>4. CASE UNCHANGED tokenRows
  BY <1>1, <1>4 DEF tokenRows, TokensOK, FamiliesOK
<1> QED BY <1>2, <1>3, <1>4

\* Revoking a family keeps the types.
LEMMA RevokeType ==
  ASSUME StoreTypeOK, NEW f, NEW resource, RevokeRefreshTokenFamily(f, resource)
  PROVE  StoreTypeOK'
<1> USE DEF StoreTypeOK, RevokeRefreshTokenFamily
<1>1. AuthCodesOK' /\ TokensOK' /\ ConsentsOK'
  BY DEF AuthCodesOK, TokensOK, ConsentsOK
<1>2. FamiliesOK'
  BY DEF FamiliesOK, RevokeFamilyRow, FamilyRow
<1> QED BY <1>1, <1>2

\* A sweep keeps the types.
LEMMA SweepType ==
  ASSUME StoreTypeOK, NEW now \in Times, SweepExpired(now)
  PROVE  StoreTypeOK'
<1> USE DEF StoreTypeOK, SweepExpired, Restrict
<1>1. AuthCodesOK'
  BY DEF AuthCodesOK
<1>2. TokensOK'
  BY DEF TokensOK, RetainedTokens
<1>3. FamiliesOK'
  BY DEF FamiliesOK
<1>4. ConsentsOK'
  BY DEF ConsentsOK, SweptThrough
<1> QED BY <1>1, <1>2, <1>3, <1>4

\* A new store identity keeps the types.
LEMMA RotateIdType ==
  ASSUME StoreTypeOK, RotateStoreInstanceId
  PROVE  StoreTypeOK'
<1> USE DEF StoreTypeOK, RotateStoreInstanceId
<1>1. AuthCodesOK' /\ TokensOK' /\ FamiliesOK'
  BY DEF AuthCodesOK, TokensOK, FamiliesOK
<1>2. ConsentsOK'
  BY InstanceAssumption DEF ConsentsOK
<1> QED BY <1>1, <1>2

\* The initial state is well typed.
LEMMA StoreTypeInit == StoreInit => StoreTypeOK
BY TimesAssumption, InstanceAssumption
   DEF StoreInit, StoreTypeOK, AuthCodesOK, TokensOK, FamiliesOK, ConsentsOK

\* Every step keeps the types.
LEMMA StoreTypeStep == StoreTypeOK /\ [StoreNext]_storeVars => StoreTypeOK'
<1> SUFFICES ASSUME StoreTypeOK, [StoreNext]_storeVars PROVE StoreTypeOK'
  OBVIOUS
<1> USE JtiExpiryAssumption
<1>1. CASE \E instance \in 1..MaxInstance, j \in Jtis, c \in Codes, r \in AuthCodeRecord :
             CommitConsentApproval(instance, j, JtiExpiry[j], c, r)
  BY <1>1, CommitType
<1>2. CASE \E j \in Jtis : ConsumeConsentJti(j, JtiExpiry[j])
  BY <1>2, ConsumeJtiType
<1>3. CASE \E c \in Codes, r \in AuthCodeRecord : SaveAuthCode(c, r)
  BY <1>3, SaveCodeType
<1>4. CASE \E c \in Codes, resource \in Resources \cup {None} : ConsumeAuthCode(c, resource)
  BY <1>4, ConsumeCodeType
<1>5. CASE \E t \in Tokens, row \in RootRows : SaveRefreshToken(t, row)
  BY <1>5, SaveTokenType DEF RootRows
<1>6. CASE \E t \in Tokens, next \in NextTokens, now \in Times,
              generation \in Generations \cup {None}, resource \in Resources \cup {None} :
             RotateRefreshToken(t, next, now, generation, resource)
  BY <1>6, RotateType DEF NextTokens
<1>7. CASE \E f \in Families, resource \in Resources \cup {None} :
             RevokeRefreshTokenFamily(f, resource)
  BY <1>7, RevokeType
<1>8. CASE \E now \in Times : SweepExpired(now)
  BY <1>8, SweepType
<1>9. CASE RotateStoreInstanceId
  BY <1>9, RotateIdType
<1>10. CASE UNCHANGED storeVars
  BY <1>10 DEF storeVars, StoreTypeOK, AuthCodesOK, TokensOK, FamiliesOK, ConsentsOK
<1> QED
  BY <1>1, <1>2, <1>3, <1>4, <1>5, <1>6, <1>7, <1>8, <1>9, <1>10 DEF StoreNext

\* The store is well typed whatever its callers do.
THEOREM StoreTypeCorrect == StoreSpec => []StoreTypeOK
<1>1. StoreInit => StoreTypeOK
  BY StoreTypeInit
<1>2. StoreTypeOK /\ [StoreNext]_storeVars => StoreTypeOK'
  BY StoreTypeStep
<1> QED BY <1>1, <1>2, PTL DEF StoreSpec

-----------------------------------------------------------------------------
(* The store: token rows *)

\* The four facts about token rows hold each other up: a rotation forks no
\* family (OneSuccessor) because a rotated token is still stored as consumed
\* (LineageKept), and a sweep keeps it because rows of one family go together.
TokenRowsInv == RowsMatchFamily /\ LineageKept /\ OneSuccessor /\ SuccessorInherits

\* An operation that leaves both tables alone keeps the invariant.
LEMMA RowsFrame ==
  ASSUME TokenRowsInv, UNCHANGED tokenRows
  PROVE  TokenRowsInv'
BY DEF TokenRowsInv, tokenRows, RowsMatchFamily, LineageKept, OneSuccessor, SuccessorInherits

\* Families may only lose their validity: revocation keeps the invariant.
LEMMA RowsRevoked ==
  ASSUME StoreTypeOK, TokenRowsInv, NEW f,
         families' = RevokeFamilyRow(f), UNCHANGED refreshTokens
  PROVE  TokenRowsInv'
<1>1. /\ DOMAIN families' = DOMAIN families
      /\ \A g \in DOMAIN families : /\ families'[g].resource = families[g].resource
                                    /\ families'[g].generation = families[g].generation
  BY DEF RevokeFamilyRow, StoreTypeOK, FamiliesOK, FamilyRow
<1>2. RowsMatchFamily'
  BY <1>1 DEF TokenRowsInv, RowsMatchFamily
<1>3. LineageKept' /\ OneSuccessor' /\ SuccessorInherits'
  BY DEF TokenRowsInv, LineageKept, OneSuccessor, SuccessorInherits
<1> QED BY <1>2, <1>3 DEF TokenRowsInv

\* A root joins no lineage and overwrites no row.
LEMMA SaveRows ==
  ASSUME StoreTypeOK, TokenRowsInv, NEW t \in Tokens, NEW row \in RefreshTokenRow,
         row.previous = None, SaveRefreshToken(t, row)
  PROVE  TokenRowsInv'
<1>1. CASE ~SaveAccepted(t, row)
  BY <1>1, RowsFrame DEF SaveRefreshToken
<1>2. CASE SaveAccepted(t, row)
  <2>1. /\ t \notin DOMAIN refreshTokens
        /\ DOMAIN refreshTokens' = DOMAIN refreshTokens \cup {t}
        /\ refreshTokens'[t] = row
        /\ \A u \in DOMAIN refreshTokens : refreshTokens'[u] = refreshTokens[u]
    BY <1>2 DEF SaveRefreshToken, SaveAccepted, InsertToken, Put
  <2>2. /\ DOMAIN families' = DOMAIN families \cup {row.family}
        /\ \A g \in DOMAIN families : families'[g] = families[g]
        /\ families'[row.family].generation = row.generation
        /\ families'[row.family].resource = row.resource
    BY <1>2 DEF SaveRefreshToken, SaveAccepted, InsertToken, Put
  <2>3. RowsMatchFamily'
    BY <2>1, <2>2 DEF TokenRowsInv, RowsMatchFamily
  <2>4. LineageKept' /\ OneSuccessor' /\ SuccessorInherits'
    BY <2>1 DEF TokenRowsInv, LineageKept, OneSuccessor, SuccessorInherits
  <2> QED BY <2>3, <2>4 DEF TokenRowsInv
<1> QED BY <1>1, <1>2

\* The token table before and after t was replaced by its successor s.
Extended(t, s) ==
  /\ t \in DOMAIN refreshTokens /\ ~refreshTokens[t].consumed
  /\ s \notin DOMAIN refreshTokens
  /\ DOMAIN refreshTokens' = DOMAIN refreshTokens \cup {s}
  /\ refreshTokens'[t].consumed
  /\ \A u \in DOMAIN refreshTokens :
       /\ refreshTokens'[u].family = refreshTokens[u].family
       /\ refreshTokens'[u].previous = refreshTokens[u].previous
       /\ refreshTokens'[u].grant = refreshTokens[u].grant
       /\ refreshTokens'[u].resource = refreshTokens[u].resource
       /\ refreshTokens'[u].generation = refreshTokens[u].generation
       /\ refreshTokens'[u].expiresAt = refreshTokens[u].expiresAt
       /\ refreshTokens[u].consumed => refreshTokens'[u].consumed
       /\ u # t => refreshTokens'[u] = refreshTokens[u]
  /\ refreshTokens'[s].family = refreshTokens[t].family
  /\ refreshTokens'[s].previous = t
  /\ refreshTokens'[s].grant = refreshTokens[t].grant
  /\ refreshTokens'[s].resource = refreshTokens[t].resource
  /\ refreshTokens'[s].generation = refreshTokens[t].generation
  /\ ~refreshTokens'[s].consumed

\* What a rotation that takes effect does to the token table.
LEMMA RotatedRows ==
  ASSUME StoreTypeOK, NEW t \in Tokens, NEW next, NEW now, NEW generation, NEW resource,
         Rotates(t, next, now, generation, resource),
         refreshTokens' = Put([refreshTokens EXCEPT ![t].consumed = TRUE],
                              next.token, Successor(t, next))
  PROVE  Extended(t, next.token)
<1> DEFINE spent == [refreshTokens EXCEPT ![t].consumed = TRUE]
           s == next.token
<1>1. t \in DOMAIN refreshTokens /\ ~refreshTokens[t].consumed
      /\ s \notin DOMAIN refreshTokens
  BY DEF Rotates, Addressable
<1>2. \A u \in DOMAIN refreshTokens : refreshTokens[u] \in RefreshTokenRow
  BY DEF StoreTypeOK, TokensOK
<1>3. /\ DOMAIN spent = DOMAIN refreshTokens
      /\ \A u \in DOMAIN refreshTokens : u # t => spent[u] = refreshTokens[u]
      /\ spent[t] = [refreshTokens[t] EXCEPT !.consumed = TRUE]
  BY <1>1
<1>4. /\ spent[t].family = refreshTokens[t].family
      /\ spent[t].previous = refreshTokens[t].previous
      /\ spent[t].grant = refreshTokens[t].grant
      /\ spent[t].resource = refreshTokens[t].resource
      /\ spent[t].generation = refreshTokens[t].generation
      /\ spent[t].expiresAt = refreshTokens[t].expiresAt
      /\ spent[t].consumed
  BY <1>1, <1>2, <1>3 DEF RefreshTokenRow
<1>5. refreshTokens' = Put(spent, s, Successor(t, next))
  OBVIOUS
<1>6. /\ Successor(t, next).family = refreshTokens[t].family
      /\ Successor(t, next).previous = t
      /\ Successor(t, next).grant = refreshTokens[t].grant
      /\ Successor(t, next).resource = refreshTokens[t].resource
      /\ Successor(t, next).generation = refreshTokens[t].generation
      /\ ~Successor(t, next).consumed
  BY <1>1, <1>2 DEF Successor, RefreshTokenRow
<1> HIDE DEF spent
<1>7. /\ DOMAIN refreshTokens' = DOMAIN refreshTokens \cup {s}
      /\ refreshTokens'[s] = Successor(t, next)
      /\ \A u \in DOMAIN refreshTokens : refreshTokens'[u] = spent[u]
  BY <1>1, <1>3, <1>5 DEF Put
<1> QED BY <1>1, <1>3, <1>4, <1>6, <1>7 DEF Extended

\* A rotation extends one lineage by one token, or revokes, or does nothing.
LEMMA RotateRows ==
  ASSUME StoreTypeOK, TokenRowsInv, NEW t \in Tokens, NEW next,
         NEW now, NEW generation, NEW resource,
         RotateRefreshToken(t, next, now, generation, resource)
  PROVE  TokenRowsInv'
<1>1. CASE /\ Rotates(t, next, now, generation, resource)
           /\ refreshTokens' = Put([refreshTokens EXCEPT ![t].consumed = TRUE],
                                   next.token, Successor(t, next))
           /\ UNCHANGED families
  <2> DEFINE s == next.token
  <2>0. Extended(t, s)
    BY <1>1, RotatedRows
  <2> HIDE DEF s
  <2>1. /\ t \in DOMAIN refreshTokens /\ ~refreshTokens[t].consumed
        /\ s \notin DOMAIN refreshTokens
        /\ DOMAIN refreshTokens' = DOMAIN refreshTokens \cup {s}
        /\ refreshTokens'[t].consumed
        /\ \A u \in DOMAIN refreshTokens :
             /\ refreshTokens'[u].family = refreshTokens[u].family
             /\ refreshTokens'[u].previous = refreshTokens[u].previous
             /\ refreshTokens'[u].grant = refreshTokens[u].grant
             /\ refreshTokens'[u].resource = refreshTokens[u].resource
             /\ refreshTokens'[u].generation = refreshTokens[u].generation
             /\ refreshTokens[u].consumed => refreshTokens'[u].consumed
        /\ refreshTokens'[s].family = refreshTokens[t].family
        /\ refreshTokens'[s].previous = t
        /\ refreshTokens'[s].grant = refreshTokens[t].grant
        /\ refreshTokens'[s].resource = refreshTokens[t].resource
        /\ refreshTokens'[s].generation = refreshTokens[t].generation
    BY <2>0 DEF Extended
  <2>2. RowsMatchFamily'
    <3>1. families' = families
      BY <1>1
    <3>2. /\ refreshTokens[t].family \in DOMAIN families
          /\ families[refreshTokens[t].family].resource = refreshTokens[t].resource
          /\ families[refreshTokens[t].family].generation = refreshTokens[t].generation
      BY <2>1 DEF TokenRowsInv, RowsMatchFamily
    <3> QED BY <2>1, <3>1, <3>2 DEF TokenRowsInv, RowsMatchFamily
  <2>3. LineageKept'
    BY <2>1 DEF TokenRowsInv, LineageKept
  <2>4. \A u \in DOMAIN refreshTokens : refreshTokens[u].previous # t
    BY <2>1, NoneAssumption DEF TokenRowsInv, LineageKept
  <2>5. OneSuccessor'
    BY <2>1, <2>4 DEF TokenRowsInv, OneSuccessor
  <2>6. SuccessorInherits'
    BY <2>1 DEF TokenRowsInv, LineageKept, SuccessorInherits
  <2> QED BY <2>2, <2>3, <2>5, <2>6 DEF TokenRowsInv
<1>2. CASE /\ families' = RevokeFamilyRow(refreshTokens[t].family)
           /\ UNCHANGED refreshTokens
  BY <1>2, RowsRevoked
<1>3. CASE UNCHANGED tokenRows
  BY <1>3, RowsFrame
<1> QED BY <1>1, <1>2, <1>3 DEF RotateRefreshToken

\* Revoking a family changes no lineage.
LEMMA RevokeRows ==
  ASSUME StoreTypeOK, TokenRowsInv, NEW f, NEW resource,
         RevokeRefreshTokenFamily(f, resource)
  PROVE  TokenRowsInv'
<1>1. UNCHANGED refreshTokens /\ (families' = RevokeFamilyRow(f) \/ UNCHANGED families)
  BY DEF RevokeRefreshTokenFamily
<1> QED BY <1>1, RowsRevoked, RowsFrame DEF tokenRows

\* Rows that go by whole families leave the rest in order.
LEMMA WholeFamilies ==
  ASSUME TokenRowsInv, NEW kept \in SUBSET DOMAIN refreshTokens,
         \A t \in kept, u \in DOMAIN refreshTokens :
           refreshTokens[u].family = refreshTokens[t].family => u \in kept,
         refreshTokens' = Restrict(refreshTokens, kept),
         families' = Restrict(families, {f \in DOMAIN families :
                                           \E t \in kept : refreshTokens[t].family = f})
  PROVE  TokenRowsInv'
<1>1. /\ DOMAIN refreshTokens' = kept
      /\ \A t \in kept : refreshTokens'[t] = refreshTokens[t]
  BY DEF Restrict
<1>2. /\ DOMAIN families' = {f \in DOMAIN families : \E t \in kept : refreshTokens[t].family = f}
      /\ \A f \in DOMAIN families' : families'[f] = families[f]
  BY DEF Restrict
<1>3. /\ kept \subseteq DOMAIN refreshTokens
      /\ \A t \in kept, u \in DOMAIN refreshTokens :
           refreshTokens[u].family = refreshTokens[t].family => u \in kept
  OBVIOUS
<1>4. RowsMatchFamily'
  BY <1>1, <1>2, <1>3 DEF TokenRowsInv, RowsMatchFamily
<1>5. LineageKept'
  BY <1>1, <1>3 DEF TokenRowsInv, LineageKept
<1>6. OneSuccessor'
  BY <1>1, <1>3 DEF TokenRowsInv, OneSuccessor
<1>7. SuccessorInherits'
  BY <1>1, <1>3 DEF TokenRowsInv, LineageKept, SuccessorInherits
<1> QED BY <1>4, <1>5, <1>6, <1>7 DEF TokenRowsInv

\* A sweep takes whole families or nothing, by whatever clock.
LEMMA SweepRows ==
  ASSUME StoreTypeOK, TokenRowsInv, NEW now \in Times, SweepExpired(now)
  PROVE  TokenRowsInv'
<1> DEFINE kept == RetainedTokens(now)
<1>1. /\ refreshTokens' = Restrict(refreshTokens, kept)
      /\ families' = Restrict(families, {f \in DOMAIN families :
                                            \E t \in kept : refreshTokens[t].family = f})
  BY DEF SweepExpired
<1>2. /\ kept \in SUBSET DOMAIN refreshTokens
      /\ \A t \in kept, u \in DOMAIN refreshTokens :
           refreshTokens[u].family = refreshTokens[t].family => u \in kept
  BY DEF RetainedTokens
<1> HIDE DEF kept
<1> QED BY <1>1, <1>2, WholeFamilies

\* The empty store has no rows.
LEMMA RowsInit == StoreInit => TokenRowsInv
BY DEF StoreInit, TokenRowsInv, RowsMatchFamily, LineageKept, OneSuccessor, SuccessorInherits

\* Every step keeps the invariant.
LEMMA RowsStep == StoreTypeOK /\ TokenRowsInv /\ [StoreNext]_storeVars => TokenRowsInv'
<1> SUFFICES ASSUME StoreTypeOK, TokenRowsInv, [StoreNext]_storeVars PROVE TokenRowsInv'
  OBVIOUS
<1>1. CASE \E instance \in 1..MaxInstance, j \in Jtis, c \in Codes, r \in AuthCodeRecord :
             CommitConsentApproval(instance, j, JtiExpiry[j], c, r)
  BY <1>1, RowsFrame DEF CommitConsentApproval, tokenRows
<1>2. CASE \E j \in Jtis : ConsumeConsentJti(j, JtiExpiry[j])
  BY <1>2, RowsFrame DEF ConsumeConsentJti, tokenRows
<1>3. CASE \E c \in Codes, r \in AuthCodeRecord : SaveAuthCode(c, r)
  BY <1>3, RowsFrame DEF SaveAuthCode, tokenRows
<1>4. CASE \E c \in Codes, resource \in Resources \cup {None} : ConsumeAuthCode(c, resource)
  BY <1>4, RowsFrame DEF ConsumeAuthCode, tokenRows
<1>5. CASE \E t \in Tokens, row \in RootRows : SaveRefreshToken(t, row)
  BY <1>5, SaveRows DEF RootRows
<1>6. CASE \E t \in Tokens, next \in NextTokens, now \in Times,
              generation \in Generations \cup {None}, resource \in Resources \cup {None} :
             RotateRefreshToken(t, next, now, generation, resource)
  BY <1>6, RotateRows
<1>7. CASE \E f \in Families, resource \in Resources \cup {None} :
             RevokeRefreshTokenFamily(f, resource)
  BY <1>7, RevokeRows
<1>8. CASE \E now \in Times : SweepExpired(now)
  BY <1>8, SweepRows
<1>9. CASE RotateStoreInstanceId
  BY <1>9, RowsFrame DEF RotateStoreInstanceId, tokenRows
<1>10. CASE UNCHANGED storeVars
  BY <1>10, RowsFrame DEF storeVars, tokenRows
<1> QED
  BY <1>1, <1>2, <1>3, <1>4, <1>5, <1>6, <1>7, <1>8, <1>9, <1>10 DEF StoreNext

\* Token rows and family rows agree; the replay signal survives sweeps; no
\* token has two successors; successors inherit (memory.ts rotateRefreshToken,
\* saveRefreshToken, sweepExpired).
THEOREM TokenRowsCorrect ==
  StoreSpec => [](RowsMatchFamily /\ LineageKept /\ OneSuccessor /\ SuccessorInherits)
<1>1. StoreInit => StoreTypeOK /\ TokenRowsInv
  BY StoreTypeInit, RowsInit
<1>2. StoreTypeOK /\ TokenRowsInv /\ [StoreNext]_storeVars => (StoreTypeOK /\ TokenRowsInv)'
  BY StoreTypeStep, RowsStep
<1>3. TokenRowsInv => RowsMatchFamily /\ LineageKept /\ OneSuccessor /\ SuccessorInherits
  BY DEF TokenRowsInv
<1> QED BY <1>1, <1>2, <1>3, PTL DEF StoreSpec

\* A token row and its family row agree on generation and resource, whatever was
\* saved, rotated, revoked or swept (schema.ts, two tables and no foreign key).
THEOREM RowsMatchFamilyCorrect == StoreSpec => []RowsMatchFamily
BY TokenRowsCorrect, PTL

-----------------------------------------------------------------------------
(* The store: consent JTIs *)

\* An operation that leaves tombstones and watermark alone keeps the fence.
LEMMA FenceFrame ==
  ASSUME JtiFenced, UNCHANGED <<consentJtis, sweptThrough, spentJtis>>
  PROVE  JtiFenced'
BY DEF JtiFenced

\* Recording a use keeps the fence.
LEMMA FenceSpend ==
  ASSUME JtiFenced, NEW j \in Jtis,
         consentJtis' = Put(consentJtis, j, JtiExpiry[j]),
         spentJtis' = spentJtis \cup {j}, UNCHANGED sweptThrough
  PROVE  JtiFenced'
BY DEF JtiFenced, Put

\* The watermark never goes back, and whatever is collected lies behind it.
LEMMA FenceCollect ==
  ASSUME StoreTypeOK, JtiFenced, NEW now \in Times, spentJtis' = spentJtis,
         sweptThrough' = SweptThrough(now),
         consentJtis' = Restrict(consentJtis, {j \in DOMAIN consentJtis : consentJtis[j] >= now})
  PROVE  JtiFenced'
<1>1. /\ DOMAIN consentJtis' = {j \in DOMAIN consentJtis : consentJtis[j] >= now}
      /\ \A j \in DOMAIN consentJtis' : consentJtis'[j] = consentJtis[j]
      /\ spentJtis' = spentJtis
      /\ sweptThrough' = SweptThrough(now)
  BY DEF Restrict
<1>2. now \in Nat /\ sweptThrough \in Nat
  BY TimesAssumption DEF StoreTypeOK, ConsentsOK
<1>3. sweptThrough' \in Nat /\ sweptThrough' >= now /\ sweptThrough' >= sweptThrough
  BY <1>1, <1>2 DEF SweptThrough
<1>4. \A j \in spentJtis : JtiExpiry[j] \in Nat
  BY TimesAssumption, JtiExpiryAssumption DEF StoreTypeOK, ConsentsOK
<1>5. ASSUME NEW j \in spentJtis', j \notin DOMAIN consentJtis'
      PROVE  JtiExpiry[j] < sweptThrough'
  <2>1. CASE j \in DOMAIN consentJtis
    <3>1. JtiExpiry[j] = consentJtis[j] /\ ~(consentJtis[j] >= now)
      BY <1>1, <1>5, <2>1 DEF JtiFenced
    <3> QED BY <1>1, <1>2, <1>3, <1>4, <3>1
  <2>2. CASE j \notin DOMAIN consentJtis
    <3>1. JtiExpiry[j] < sweptThrough
      BY <1>1, <2>2 DEF JtiFenced
    <3> QED BY <1>1, <1>2, <1>3, <1>4, <3>1
  <2> QED BY <2>1, <2>2
<1>6. \A j \in DOMAIN consentJtis' : consentJtis'[j] = JtiExpiry[j]
  BY <1>1 DEF JtiFenced
<1> QED BY <1>5, <1>6 DEF JtiFenced

\* A sweep is such a step.
LEMMA FenceSweep ==
  ASSUME StoreTypeOK, JtiFenced, NEW now \in Times, SweepExpired(now)
  PROVE  JtiFenced'
BY FenceCollect DEF SweepExpired

\* Every step keeps the fence.
LEMMA FenceStep == StoreTypeOK /\ JtiFenced /\ [StoreNext]_storeVars => JtiFenced'
<1> SUFFICES ASSUME StoreTypeOK, JtiFenced, [StoreNext]_storeVars PROVE JtiFenced'
  OBVIOUS
<1>1. CASE \E instance \in 1..MaxInstance, j \in Jtis, c \in Codes, r \in AuthCodeRecord :
             CommitConsentApproval(instance, j, JtiExpiry[j], c, r)
  BY <1>1, FenceSpend, FenceFrame DEF CommitConsentApproval
<1>2. CASE \E j \in Jtis : ConsumeConsentJti(j, JtiExpiry[j])
  BY <1>2, FenceSpend, FenceFrame DEF ConsumeConsentJti, consentRows
<1>3. CASE \E c \in Codes, r \in AuthCodeRecord : SaveAuthCode(c, r)
  BY <1>3, FenceFrame DEF SaveAuthCode
<1>4. CASE \E c \in Codes, resource \in Resources \cup {None} : ConsumeAuthCode(c, resource)
  BY <1>4, FenceFrame DEF ConsumeAuthCode
<1>5. CASE \E t \in Tokens, row \in RootRows : SaveRefreshToken(t, row)
  BY <1>5, FenceFrame DEF SaveRefreshToken
<1>6. CASE \E t \in Tokens, next \in NextTokens, now \in Times,
              generation \in Generations \cup {None}, resource \in Resources \cup {None} :
             RotateRefreshToken(t, next, now, generation, resource)
  BY <1>6, FenceFrame DEF RotateRefreshToken
<1>7. CASE \E f \in Families, resource \in Resources \cup {None} :
             RevokeRefreshTokenFamily(f, resource)
  BY <1>7, FenceFrame DEF RevokeRefreshTokenFamily
<1>8. CASE \E now \in Times : SweepExpired(now)
  BY <1>8, FenceSweep
<1>9. CASE RotateStoreInstanceId
  BY <1>9, FenceFrame DEF RotateStoreInstanceId
<1>10. CASE UNCHANGED storeVars
  BY <1>10, FenceFrame DEF storeVars
<1> QED
  BY <1>1, <1>2, <1>3, <1>4, <1>5, <1>6, <1>7, <1>8, <1>9, <1>10 DEF StoreNext

\* A used JTI stays stored until the watermark has passed its signed expiry.
THEOREM JtiFence == StoreSpec => []JtiFenced
<1>1. StoreInit => JtiFenced
  BY DEF StoreInit, JtiFenced
<1>2. StoreTypeOK /\ JtiFenced /\ [StoreNext]_storeVars => JtiFenced'
  BY FenceStep
<1> QED BY <1>1, <1>2, StoreTypeCorrect, PTL DEF StoreSpec

\* A JTI enters the table only as an accepted use.
LEMMA FreshUse ==
  ASSUME JtiFenced, [StoreNext]_storeVars
  PROVE  \A j \in DOMAIN consentJtis' \ DOMAIN consentJtis : j \notin spentJtis
<1>1. ASSUME NEW k \in Jtis, ~JtiSpent(k, JtiExpiry[k]),
             consentJtis' = Put(consentJtis, k, JtiExpiry[k])
      PROVE  \A j \in DOMAIN consentJtis' \ DOMAIN consentJtis : j \notin spentJtis
  BY <1>1 DEF JtiSpent, JtiFenced, Put
<1>2. CASE \E instance \in 1..MaxInstance, j \in Jtis, c \in Codes, r \in AuthCodeRecord :
             CommitConsentApproval(instance, j, JtiExpiry[j], c, r)
  BY <1>1, <1>2 DEF CommitConsentApproval, CommitConsentAnswer
<1>3. CASE \E j \in Jtis : ConsumeConsentJti(j, JtiExpiry[j])
  BY <1>1, <1>3 DEF ConsumeConsentJti, consentRows
<1>4. CASE DOMAIN consentJtis' \subseteq DOMAIN consentJtis
  BY <1>4
<1>5. CASE \E now \in Times : SweepExpired(now)
  BY <1>4, <1>5 DEF SweepExpired, Restrict
<1>6. CASE UNCHANGED consentJtis
  BY <1>4, <1>6
<1>7. \/ \E c \in Codes, r \in AuthCodeRecord : SaveAuthCode(c, r)
      \/ \E c \in Codes, resource \in Resources \cup {None} : ConsumeAuthCode(c, resource)
      \/ \E f \in Families, resource \in Resources \cup {None} :
           RevokeRefreshTokenFamily(f, resource)
      \/ RotateStoreInstanceId
      \/ UNCHANGED storeVars
      => UNCHANGED consentJtis
  BY DEF SaveAuthCode, ConsumeAuthCode, RevokeRefreshTokenFamily, RotateStoreInstanceId,
         storeVars
<1>8. CASE \E t \in Tokens, row \in RootRows : SaveRefreshToken(t, row)
  BY <1>6, <1>8 DEF SaveRefreshToken
<1>9. CASE \E t \in Tokens, next \in NextTokens, now \in Times,
              generation \in Generations \cup {None}, resource \in Resources \cup {None} :
             RotateRefreshToken(t, next, now, generation, resource)
  BY <1>6, <1>9 DEF RotateRefreshToken
<1> QED
  BY <1>2, <1>3, <1>5, <1>6, <1>7, <1>8, <1>9 DEF StoreNext

\* A consent token is accepted at most once, although sweeps drop its tombstone
\* and clocks disagree (memory.ts commitConsentApproval, consumeConsentJti).
THEOREM JtiOnce == StoreSpec => JtiAcceptedOnce
<1>1. JtiFenced /\ [StoreNext]_storeVars
      => [\A j \in DOMAIN consentJtis' \ DOMAIN consentJtis : j \notin spentJtis]_storeVars
  BY FreshUse
<1> QED BY <1>1, JtiFence, PTL DEF StoreSpec, JtiAcceptedOnce

-----------------------------------------------------------------------------
(* The use case: types *)

\* A consent prepared from a configured flow has the right shape.
LEMMA PreparedType ==
  ASSUME AuthorizeTypeOK, NEW j \in Jtis, NEW flow \in Flows, Prepare(j, flow)
  PROVE  AuthorizeTypeOK'
<1> DEFINE consent == [client |-> flow.client, subject |-> flow.subject,
                       binding |-> flow.binding,
                       scopes |-> Narrow(flow.scopes, flow.ceiling),
                       ceiling |-> flow.ceiling, instance |-> storeInstanceId]
<1>1. consent \in Consent
  BY FlowsAssumption DEF Consent, Narrow, AuthorizeTypeOK, StoreTypeOK, ConsentsOK
<1>2. consents' = Put(consents, j, consent)
  BY DEF Prepare
<1> HIDE DEF consent
<1>3. IsMap(consents', Jtis, Consent) /\ DOMAIN consents \subseteq DOMAIN consents'
  BY <1>1, <1>2 DEF AuthorizeTypeOK, Put
<1>4. StoreTypeOK' /\ CopyOK'
  BY DEF Prepare, AuthorizeTypeOK, storeVars, StoreTypeOK, AuthCodesOK, TokensOK,
         FamiliesOK, ConsentsOK, CopyOK
<1> QED BY <1>3, <1>4 DEF Prepare, AuthorizeTypeOK

\* Steps of approve that touch nothing but their slot.
LEMMA SlotType ==
  ASSUME AuthorizeTypeOK, NEW a \in Approvals, NEW approval \in Approval,
         approval.pc # "idle" => approval.jti \in DOMAIN consents,
         approvals' = [approvals EXCEPT ![a] = approval],
         UNCHANGED <<storeVars, consents, codeFor, copy>>
  PROVE  AuthorizeTypeOK'
<1>1. StoreTypeOK' /\ CopyOK'
  BY DEF AuthorizeTypeOK, storeVars, StoreTypeOK, AuthCodesOK, TokensOK,
         FamiliesOK, ConsentsOK, CopyOK
<1> QED BY <1>1 DEF AuthorizeTypeOK

\* The idle slot is a slot.
LEMMA NoApprovalType == NoApproval \in Approval /\ NoApproval.pc = "idle"
BY TimesAssumption DEF NoApproval, Approval

\* The scopes an approval settles on are configured scopes.
LEMMA ScopesType ==
  ASSUME AuthorizeTypeOK, NEW a \in Approvals, approvals[a].pc = "prior",
         NEW subject, NEW client, NEW now, NEW generation, NEW resource,
         NEW consent \in Consent
  PROVE  /\ CodeScopes(consent, FindGrantedScopes(subject, client, now, generation, resource))
              \subseteq Scopes
         /\ CodeScopes(consent, {}) \subseteq Scopes
<1>1. \A t \in DOMAIN refreshTokens : refreshTokens[t].grant.scopes \subseteq Scopes
  BY DEF AuthorizeTypeOK, StoreTypeOK, TokensOK, RefreshTokenRow, Grants
<1>2. FindGrantedScopes(subject, client, now, generation, resource) \subseteq Scopes
  BY <1>1 DEF FindGrantedScopes
<1>3. consent.scopes \subseteq Scopes
  BY DEF Consent
<1> QED BY <1>2, <1>3 DEF CodeScopes, Narrow

\* Reading the prior scopes settles the scopes of the code.
LEMMA ReadPriorType ==
  ASSUME AuthorizeTypeOK, NEW a \in Approvals, NEW accumulates, NEW generation,
         ReadPriorAs(a, accumulates, generation)
  PROVE  AuthorizeTypeOK'
<1> DEFINE consent == consents[approvals[a].jti]
           prior == IF accumulates
                    THEN FindGrantedScopes(consent.subject, consent.client,
                                           approvals[a].now, generation, Resource)
                    ELSE {}
           approval == [approvals[a] EXCEPT !.pc = "commit",
                                            !.scopes = CodeScopes(consent, prior)]
<1>1. approvals[a] \in Approval /\ approvals[a].pc = "prior"
      /\ approvals[a].jti \in DOMAIN consents
  BY DEF ReadPriorAs, AuthorizeTypeOK
<1>2. consent \in Consent
  BY <1>1 DEF AuthorizeTypeOK
<1>3. CodeScopes(consent, prior) \subseteq Scopes
  BY <1>1, <1>2, ScopesType
<1>4. approvals' = [approvals EXCEPT ![a] = approval]
  <2>1. approvals' = [approvals EXCEPT ![a].pc = "commit",
                                       ![a].scopes = CodeScopes(consent, prior)]
    BY DEF ReadPriorAs
  <2> HIDE DEF consent, prior
  <2> QED BY <1>1, <2>1 DEF AuthorizeTypeOK, Approval
<1>5. UNCHANGED <<storeVars, consents, codeFor, copy>>
  BY DEF ReadPriorAs
<1> HIDE DEF consent, prior
<1>6. approval \in Approval /\ approval.jti \in DOMAIN consents
  BY <1>1, <1>3 DEF Approval
<1> HIDE DEF approval
<1> QED BY <1>4, <1>5, <1>6, SlotType

\* The steps that only move a slot along keep the types.
LEMMA SlotStepsType ==
  ASSUME AuthorizeTypeOK, NEW a \in Approvals,
         \/ \E j \in Jtis, now \in Times : Verify(a, j, now)
         \/ CheckBinding(a)
         \/ Abandon(a)
  PROVE  AuthorizeTypeOK'
<1>1. CASE \E j \in Jtis, now \in Times : Verify(a, j, now)
  <2> PICK j \in Jtis, now \in Times : Verify(a, j, now)
    BY <1>1
  <2> DEFINE approval == [NoApproval EXCEPT !.pc = "bind", !.jti = j, !.now = now]
  <2>1. approval \in Approval /\ approval.jti = j
    BY NoApprovalType DEF NoApproval, Approval
  <2>2. approvals' = [approvals EXCEPT ![a] = approval] /\ j \in DOMAIN consents
        /\ UNCHANGED <<storeVars, consents, codeFor, copy>>
    BY DEF Verify
  <2> HIDE DEF approval
  <2> QED BY <2>1, <2>2, SlotType
<1>2. CASE CheckBinding(a)
  <2> DEFINE approval == [approvals[a] EXCEPT !.pc = "prior"]
  <2>1. approvals[a] \in Approval /\ approvals[a].jti \in DOMAIN consents
    BY <1>2 DEF CheckBinding, AuthorizeTypeOK
  <2>2. approval \in Approval /\ approval.jti \in DOMAIN consents
    BY <2>1 DEF Approval
  <2>3. \/ approvals' = [approvals EXCEPT ![a] = approval]
        \/ approvals' = [approvals EXCEPT ![a] = NoApproval]
    BY <1>2 DEF CheckBinding, EndApproval, AuthorizeTypeOK
  <2>4. UNCHANGED <<storeVars, consents, codeFor, copy>>
    BY <1>2 DEF CheckBinding
  <2> HIDE DEF approval
  <2> QED BY <2>2, <2>3, <2>4, NoApprovalType, SlotType
<1>3. CASE Abandon(a)
  BY <1>3, NoApprovalType, SlotType DEF Abandon, EndApproval
<1> QED BY <1>1, <1>2, <1>3

\* The code an approval commits has the right shape.
LEMMA CodeOfType ==
  ASSUME AuthorizeTypeOK, NEW a \in Approvals, approvals[a].pc = "commit",
         NEW later \in Times, CommitClock(approvals[a], later),
         NEW generation \in Generations
  PROVE  CodeOf(approvals[a], later, generation) \in AuthCodeRecord
<1>1. approvals[a] \in Approval /\ consents[approvals[a].jti] \in Consent
  BY DEF AuthorizeTypeOK
<1> QED
  BY <1>1, ConfigAssumption
     DEF CodeOf, CommitClock, Approval, Consent, AuthCodeRecord, Grants

\* A commit keeps the types.
LEMMA CommitStepType ==
  ASSUME AuthorizeTypeOK, NEW a \in Approvals, NEW code \in Codes, NEW later \in Times,
         NEW generation \in Generations, CommitAs(a, code, later, generation)
  PROVE  AuthorizeTypeOK'
<1> DEFINE j == approvals[a].jti
           instance == consents[j].instance
           record == CodeOf(approvals[a], later, generation)
<1>1. approvals[a].pc = "commit" /\ CommitClock(approvals[a], later)
      /\ CommitConsentApproval(instance, j, JtiExpiry[j], code, record)
  BY DEF CommitAs
<1>2. record \in AuthCodeRecord /\ j \in Jtis /\ JtiExpiry[j] \in Times
  BY <1>1, CodeOfType, JtiExpiryAssumption DEF AuthorizeTypeOK
<1>3. StoreTypeOK'
  <2> HIDE DEF j, instance, record
  <2> QED BY <1>1, <1>2, CommitType DEF AuthorizeTypeOK
<1>4. IsMap(codeFor', Codes, Jtis)
  BY <1>2 DEF CommitAs, Put, AuthorizeTypeOK
<1>5. approvals' = [approvals EXCEPT ![a] = NoApproval] /\ UNCHANGED <<consents, copy>>
  BY DEF CommitAs, EndApproval
<1> QED BY <1>3, <1>4, <1>5, NoApprovalType DEF AuthorizeTypeOK, CopyOK

\* Sweeps, new identities, backups and restores keep the types.
LEMMA DeploymentType ==
  ASSUME AuthorizeTypeOK, Deployment \/ TakeCopy \/ RestoreCopy
  PROVE  AuthorizeTypeOK'
<1>1. CASE Deployment
  <2>1. StoreTypeOK'
    BY <1>1, SweepType, RotateIdType DEF Deployment, AuthorizeTypeOK
  <2>2. UNCHANGED <<consents, approvals, codeFor, copy>>
    BY <1>1 DEF Deployment
  <2> QED BY <2>1, <2>2 DEF AuthorizeTypeOK, CopyOK
<1>2. CASE TakeCopy
  <2>1. StoreTypeOK' /\ UNCHANGED <<consents, approvals, codeFor>>
    BY <1>2 DEF TakeCopy, AuthorizeTypeOK, storeVars, StoreTypeOK, AuthCodesOK, TokensOK,
                FamiliesOK, ConsentsOK
  <2>2. CopyOK'
    BY <1>2 DEF TakeCopy, CopyOK, AuthorizeTypeOK, StoreTypeOK, AuthCodesOK, TokensOK,
                FamiliesOK, ConsentsOK
  <2> QED BY <2>1, <2>2 DEF AuthorizeTypeOK
<1>3. CASE RestoreCopy
  <2>1. AuthCodesOK' /\ TokensOK' /\ FamiliesOK'
    BY <1>3 DEF RestoreCopy, AuthorizeTypeOK, CopyOK, AuthCodesOK, TokensOK, FamiliesOK
  <2>2. storeInstanceId' \in 1..MaxInstance
    BY <1>3, InstanceAssumption DEF RestoreCopy, AuthorizeTypeOK, StoreTypeOK, ConsentsOK
  <2>3. ConsentsOK'
    BY <1>3, <2>2 DEF RestoreCopy, AuthorizeTypeOK, CopyOK, StoreTypeOK, ConsentsOK
  <2>4. UNCHANGED <<consents, approvals, codeFor>> /\ CopyOK'
    BY <1>3 DEF RestoreCopy, CopyOK
  <2> QED BY <2>1, <2>3, <2>4 DEF AuthorizeTypeOK, StoreTypeOK
<1> QED BY <1>1, <1>2, <1>3

\* The initial state is well typed.
LEMMA AuthorizeTypeInit == AuthorizeInit => AuthorizeTypeOK
BY StoreTypeInit, NoApprovalType DEF AuthorizeInit, AuthorizeTypeOK, CopyOK

\* Every step keeps the types.
LEMMA AuthorizeTypeStep ==
  AuthorizeTypeOK /\ [AuthorizeNext]_authorizeVars => AuthorizeTypeOK'
<1> SUFFICES ASSUME AuthorizeTypeOK, [AuthorizeNext]_authorizeVars PROVE AuthorizeTypeOK'
  OBVIOUS
<1>1. CASE \E j \in Jtis, flow \in Flows : Prepare(j, flow)
  BY <1>1, PreparedType
<1>2. ASSUME NEW a \in Approvals, ApproveStep(a) PROVE AuthorizeTypeOK'
  BY <1>2, SlotStepsType, ReadPriorType, CommitStepType, ConfigAssumption
     DEF ApproveStep, ReadPrior, Commit
<1>3. CASE Deployment \/ TakeCopy \/ RestoreCopy
  BY <1>3, DeploymentType
<1>4. CASE UNCHANGED authorizeVars
  BY <1>4 DEF authorizeVars, storeVars, AuthorizeTypeOK, CopyOK, StoreTypeOK, AuthCodesOK,
              TokensOK, FamiliesOK, ConsentsOK
<1> QED BY <1>1, <1>2, <1>3, <1>4 DEF AuthorizeNext

\* Consents, approvals and copies keep their types in every deployment.
THEOREM AuthorizeTypeCorrect == AuthorizeSpec => []AuthorizeTypeOK
BY AuthorizeTypeInit, AuthorizeTypeStep, PTL DEF AuthorizeSpec

-----------------------------------------------------------------------------
(* The use case: one code per consent *)

\* A consent that has its code is used up: the store it is bound to still
\* counts its JTI as spent, or the store has another identity by now.  A
\* restore brings the old tombstones back and a new identity with them.
ConsentFence ==
  /\ \A j \in DOMAIN consents : consents[j].instance <= storeInstanceId
  /\ \A j \in DOMAIN consentJtis : consentJtis[j] = JtiExpiry[j]
  /\ copy # None => \A j \in DOMAIN copy.consentJtis : copy.consentJtis[j] = JtiExpiry[j]
  /\ \A c \in DOMAIN codeFor :
       /\ codeFor[c] \in DOMAIN consents
       /\ consents[codeFor[c]].instance = storeInstanceId
            => JtiSpent(codeFor[c], JtiExpiry[codeFor[c]])

\* What the invariant says of numbers, from the types.
LEMMA FenceNumbers ==
  ASSUME AuthorizeTypeOK
  PROVE  /\ sweptThrough \in Nat /\ storeInstanceId \in Nat
         /\ \A j \in Jtis : JtiExpiry[j] \in Nat
         /\ \A j \in DOMAIN consents : consents[j].instance \in Nat
<1>1. sweptThrough \in Nat /\ \A j \in Jtis : JtiExpiry[j] \in Nat
  BY TimesAssumption, JtiExpiryAssumption DEF AuthorizeTypeOK, StoreTypeOK, ConsentsOK
<1>2. 1..MaxInstance \subseteq Nat
  BY InstanceAssumption
<1>3. storeInstanceId \in Nat
  BY <1>2 DEF AuthorizeTypeOK, StoreTypeOK, ConsentsOK
<1>4. \A j \in DOMAIN consents : consents[j].instance \in 1..MaxInstance
  BY DEF AuthorizeTypeOK, Consent
<1> QED BY <1>1, <1>2, <1>3, <1>4

\* A spent JTI stays spent through a sweep by any clock.
LEMMA SpentThroughSweep ==
  ASSUME AuthorizeTypeOK, ConsentFence, NEW now \in Times, SweepExpired(now),
         NEW j \in Jtis, JtiSpent(j, JtiExpiry[j])
  PROVE  JtiSpent(j, JtiExpiry[j])'
<1>1. /\ DOMAIN consentJtis' = {k \in DOMAIN consentJtis : consentJtis[k] >= now}
      /\ sweptThrough' = SweptThrough(now)
  BY DEF SweepExpired, Restrict
<1>2. now \in Nat /\ sweptThrough \in Nat /\ JtiExpiry[j] \in Nat
  BY TimesAssumption, FenceNumbers
<1>3. sweptThrough' \in Nat /\ sweptThrough' >= now /\ sweptThrough' >= sweptThrough
  BY <1>1, <1>2 DEF SweptThrough
<1>4. CASE j \in DOMAIN consentJtis
  <2>1. consentJtis[j] = JtiExpiry[j]
    BY <1>4 DEF ConsentFence
  <2> QED BY <1>1, <1>2, <1>3, <1>4, <2>1 DEF JtiSpent
<1>5. CASE JtiExpiry[j] < sweptThrough
  BY <1>2, <1>3, <1>5 DEF JtiSpent
<1> QED BY <1>4, <1>5 DEF JtiSpent

\* A new consent keeps the fence.
LEMMA FencePrepared ==
  ASSUME AuthorizeTypeOK, ConsentFence, NEW j \in Jtis, NEW flow, Prepare(j, flow)
  PROVE  ConsentFence'
<1>1. /\ j \notin DOMAIN consents
      /\ DOMAIN consents' = DOMAIN consents \cup {j}
      /\ consents'[j].instance = storeInstanceId
      /\ \A k \in DOMAIN consents : consents'[k] = consents[k]
      /\ UNCHANGED <<storeVars, codeFor, copy>>
  BY DEF Prepare, Put
<1> QED BY <1>1, FenceNumbers DEF ConsentFence, storeVars, JtiSpent

\* A commit, under whatever generation, keeps the fence.
LEMMA FenceCommit ==
  ASSUME AuthorizeTypeOK, ConsentFence, NEW a \in Approvals, NEW code \in Codes,
         NEW later \in Times, NEW generation, CommitAs(a, code, later, generation)
  PROVE  ConsentFence'
<1> DEFINE j == approvals[a].jti
           instance == consents[j].instance
           record == CodeOf(approvals[a], later, generation)
<1>1. j \in DOMAIN consents /\ j \in Jtis
  BY DEF CommitAs, AuthorizeTypeOK
<1>2. /\ CommitConsentApproval(instance, j, JtiExpiry[j], code, record)
      /\ codeFor' = IF CommitConsentAnswer(instance, j, JtiExpiry[j]) = "stored"
                    THEN Put(codeFor, code, j) ELSE codeFor
      /\ UNCHANGED <<consents, copy>>
  BY DEF CommitAs
<1> HIDE DEF j, instance, record
<1>3. UNCHANGED <<sweptThrough, storeInstanceId>>
  BY <1>2 DEF CommitConsentApproval
<1>4. CASE CommitConsentAnswer(instance, j, JtiExpiry[j]) = "stored"
  <2>1. consentJtis' = Put(consentJtis, j, JtiExpiry[j]) /\ codeFor' = Put(codeFor, code, j)
    BY <1>2, <1>4 DEF CommitConsentApproval
  <2>2. /\ DOMAIN consentJtis' = DOMAIN consentJtis \cup {j}
        /\ \A k \in DOMAIN consentJtis' : consentJtis'[k] = JtiExpiry[k]
    BY <2>1 DEF Put, ConsentFence
  <2>3. \A c \in DOMAIN codeFor' : codeFor'[c] = j \/ (c \in DOMAIN codeFor /\ codeFor'[c] = codeFor[c])
    BY <2>1 DEF Put
  <2> QED BY <1>1, <1>2, <1>3, <2>2, <2>3 DEF ConsentFence, JtiSpent
<1>5. CASE CommitConsentAnswer(instance, j, JtiExpiry[j]) # "stored"
  BY <1>2, <1>3, <1>5 DEF CommitConsentApproval, ConsentFence, JtiSpent
<1> QED BY <1>4, <1>5

\* Every step of the system keeps the fence.
LEMMA ConsentFenceStep ==
  AuthorizeTypeOK /\ ConsentFence /\ [AuthorizeNext]_authorizeVars => ConsentFence'
<1> SUFFICES ASSUME AuthorizeTypeOK, ConsentFence, [AuthorizeNext]_authorizeVars
             PROVE  ConsentFence'
  OBVIOUS
<1>0. ASSUME UNCHANGED <<storeVars, consents, codeFor, copy>> PROVE ConsentFence'
  BY <1>0 DEF ConsentFence, storeVars, JtiSpent
<1>1. CASE \E j \in Jtis, flow \in Flows : Prepare(j, flow)
  BY <1>1, FencePrepared
<1>2. ASSUME NEW a \in Approvals, ApproveStep(a) PROVE ConsentFence'
  <2>1. CASE \E code \in Codes, later \in Times : Commit(a, code, later)
    BY <2>1, FenceCommit DEF Commit
  <2>2. CASE (\E j \in Jtis, now \in Times : Verify(a, j, now)) \/ CheckBinding(a)
             \/ ReadPrior(a) \/ Abandon(a)
    BY <1>0, <2>2 DEF Verify, CheckBinding, ReadPrior, ReadPriorAs, Abandon
  <2> QED BY <1>2, <2>1, <2>2 DEF ApproveStep
<1>3. CASE Deployment
  <2>1. UNCHANGED <<consents, codeFor, copy>>
    BY <1>3 DEF Deployment
  <2>2. CASE \E now \in Times : SweepExpired(now)
    <3> PICK now \in Times : SweepExpired(now)
      BY <2>2
    <3>1. /\ UNCHANGED storeInstanceId
          /\ DOMAIN consentJtis' \subseteq DOMAIN consentJtis
          /\ \A k \in DOMAIN consentJtis' : consentJtis'[k] = consentJtis[k]
      BY DEF SweepExpired, Restrict
    <3>2. \A c \in DOMAIN codeFor : codeFor[c] \in Jtis
      BY DEF AuthorizeTypeOK
    <3>3. \A c \in DOMAIN codeFor : JtiSpent(codeFor[c], JtiExpiry[codeFor[c]])
                                    => JtiSpent(codeFor[c], JtiExpiry[codeFor[c]])'
      BY <2>1, <3>2, SpentThroughSweep
    <3> QED BY <2>1, <3>1, <3>3 DEF ConsentFence
  <2>3. CASE RotateStoreInstanceId
    BY <2>1, <2>3, FenceNumbers DEF RotateStoreInstanceId, ConsentFence, JtiSpent
  <2> QED BY <1>3, <2>2, <2>3 DEF Deployment
<1>4. CASE TakeCopy
  BY <1>4 DEF TakeCopy, ConsentFence, storeVars, JtiSpent
<1>5. CASE RestoreCopy
  BY <1>5, FenceNumbers DEF RestoreCopy, ConsentFence, JtiSpent
<1>6. CASE UNCHANGED authorizeVars
  BY <1>0, <1>6 DEF authorizeVars
<1> QED BY <1>1, <1>2, <1>3, <1>4, <1>5, <1>6 DEF AuthorizeNext

\* A commit gives a code to a consent that had none.
LEMMA OneCodeCommit ==
  ASSUME ConsentFence, OneCodePerConsent, NEW a, NEW code, NEW later, NEW generation,
         CommitAs(a, code, later, generation)
  PROVE  OneCodePerConsent'
<1> DEFINE j == approvals[a].jti
<1>1. CASE CommitConsentAnswer(consents[j].instance, j, JtiExpiry[j]) = "stored"
  <2>1. codeFor' = Put(codeFor, code, j) /\ code \notin DOMAIN codeFor
    BY <1>1 DEF CommitAs
  <2>2. consents[j].instance = storeInstanceId /\ ~JtiSpent(j, JtiExpiry[j])
    BY <1>1 DEF CommitConsentAnswer
  <2>3. \A c \in DOMAIN codeFor : codeFor[c] # j
    BY <2>2 DEF ConsentFence
  <2> HIDE DEF j
  <2> QED BY <2>1, <2>3 DEF OneCodePerConsent, Put
<1>2. CASE CommitConsentAnswer(consents[j].instance, j, JtiExpiry[j]) # "stored"
  BY <1>2 DEF CommitAs, OneCodePerConsent
<1> QED BY <1>1, <1>2

\* No other step gives a code.
LEMMA OneCodeStep ==
  ConsentFence /\ OneCodePerConsent /\ [AuthorizeNext]_authorizeVars => OneCodePerConsent'
<1> SUFFICES ASSUME ConsentFence, OneCodePerConsent, [AuthorizeNext]_authorizeVars
             PROVE  OneCodePerConsent'
  OBVIOUS
<1>0. ASSUME UNCHANGED codeFor PROVE OneCodePerConsent'
  BY <1>0 DEF OneCodePerConsent
<1>1. ASSUME NEW a \in Approvals, ApproveStep(a) PROVE OneCodePerConsent'
  BY <1>0, <1>1, OneCodeCommit
     DEF ApproveStep, Commit, Verify, CheckBinding, ReadPrior, ReadPriorAs, Abandon
<1>2. CASE ~\E a \in Approvals : ApproveStep(a)
  BY <1>0, <1>2 DEF AuthorizeNext, Prepare, Deployment, TakeCopy, RestoreCopy, authorizeVars
<1> QED BY <1>1, <1>2

\* One consent, one code: whatever approvals race, whatever a sweep collected,
\* and whichever copy of the store was restored (authorize.ts approve over
\* memory.ts commitConsentApproval).
THEOREM OneCodePerConsentCorrect == AuthorizeSpec => []OneCodePerConsent
<1>1. AuthorizeInit => AuthorizeTypeOK /\ ConsentFence /\ OneCodePerConsent
  BY AuthorizeTypeInit DEF AuthorizeInit, StoreInit, ConsentFence, OneCodePerConsent
<1>2. AuthorizeTypeOK /\ ConsentFence /\ OneCodePerConsent /\ [AuthorizeNext]_authorizeVars
      => (AuthorizeTypeOK /\ ConsentFence /\ OneCodePerConsent)'
  BY AuthorizeTypeStep, ConsentFenceStep, OneCodeStep
<1> QED BY <1>1, <1>2, PTL DEF AuthorizeSpec

-----------------------------------------------------------------------------
(* The use case: codes within their consents *)

\* Every code of the store and of its copy came from a consent and stays in it,
\* and so will the code of every approval about to commit.
WithinInv ==
  /\ DOMAIN authCodes \subseteq DOMAIN codeFor
  /\ copy # None => DOMAIN copy.authCodes \subseteq DOMAIN codeFor
  /\ \A c \in DOMAIN codeFor : codeFor[c] \in DOMAIN consents
  /\ WithinConsent(authCodes)
  /\ copy # None => WithinConsent(copy.authCodes)
  /\ \A a \in Approvals :
       LET ceiling == consents[approvals[a].jti].ceiling IN
       approvals[a].pc = "commit" /\ ceiling # None => approvals[a].scopes \subseteq ceiling

\* Prior scopes join under the ceiling.
LEMMA CodeScopesWithin ==
  ASSUME NEW consent, NEW prior, consent.ceiling # None
  PROVE  CodeScopes(consent, prior) \subseteq consent.ceiling
BY DEF CodeScopes, Narrow

\* Steps of approve that touch nothing but their slot.
LEMMA WithinSlot ==
  ASSUME AuthorizeTypeOK, WithinInv, NEW a \in Approvals,
         \/ \E j \in Jtis, now \in Times : Verify(a, j, now)
         \/ CheckBinding(a) \/ ReadPrior(a) \/ Abandon(a)
  PROVE  WithinInv'
<1>1. UNCHANGED <<authCodes, consents, codeFor, copy>>
  BY DEF Verify, CheckBinding, ReadPrior, ReadPriorAs, Abandon, storeVars
<1>0. approvals \in [Approvals -> Approval]
  BY DEF AuthorizeTypeOK
<1> DEFINE Others == \A b \in Approvals \ {a} : approvals'[b] = approvals[b]
           Slot   == Others /\ (approvals'[a].pc = "commit" => ReadPrior(a))
<1>2. Slot
  <2>1. ASSUME EndApproval(a) PROVE Slot
    BY <1>0, <2>1 DEF EndApproval, NoApproval
  <2>2. ASSUME NEW j \in Jtis, NEW now \in Times, Verify(a, j, now) PROVE Slot
    BY <1>0, <2>2 DEF Verify, NoApproval, Approval
  <2>3. CASE CheckBinding(a)
    <3>1. CASE EndApproval(a)
      <4> HIDE DEF Slot
      <4> QED BY <2>1, <3>1
    <3>2. CASE approvals' = [approvals EXCEPT ![a].pc = "prior"]
      BY <1>0, <3>2 DEF Approval
    <3>3. \/ EndApproval(a)
          \/ approvals' = [approvals EXCEPT ![a].pc = "prior"]
      BY <2>3 DEF CheckBinding
    <3> QED BY <3>1, <3>2, <3>3
  <2>4. CASE ReadPrior(a)
    <3>1. \E scopes : approvals' = [approvals EXCEPT ![a].pc = "commit", ![a].scopes = scopes]
      BY <2>4 DEF ReadPrior, ReadPriorAs
    <3>2. Others
      BY <1>0, <3>1 DEF Approval
    <3> QED BY <2>4, <3>2
  <2>5. CASE Abandon(a)
    <3>1. EndApproval(a)
      BY <2>5 DEF Abandon
    <3> HIDE DEF Slot
    <3> QED BY <2>1, <3>1
  <2> HIDE DEF Slot
  <2> QED BY <2>2, <2>3, <2>4, <2>5
<1>3. ASSUME ReadPrior(a), consents[approvals'[a].jti].ceiling # None
      PROVE  approvals'[a].scopes \subseteq consents[approvals'[a].jti].ceiling
  <2> DEFINE consent == consents[approvals[a].jti]
             prior == IF consent.client \in Accumulating
                      THEN FindGrantedScopes(consent.subject, consent.client,
                                             approvals[a].now, Generation, Resource)
                      ELSE {}
  <2>1. approvals' = [approvals EXCEPT ![a].pc = "commit",
                                       ![a].scopes = CodeScopes(consent, prior)]
    BY <1>3 DEF ReadPrior, ReadPriorAs
  <2> HIDE DEF prior
  <2>2. approvals[a] \in Approval
    BY DEF AuthorizeTypeOK
  <2>3. approvals'[a].scopes = CodeScopes(consent, prior) /\ approvals'[a].jti = approvals[a].jti
    BY <2>1, <2>2 DEF AuthorizeTypeOK, Approval
  <2> QED BY <1>3, <2>3, CodeScopesWithin
<1> QED BY <1>1, <1>2, <1>3 DEF WithinInv, WithinConsent

\* A commit adds a code that speaks for its consent.
LEMMA WithinCommit ==
  ASSUME AuthorizeTypeOK, WithinInv, NEW a \in Approvals, NEW code \in Codes,
         NEW later \in Times, Commit(a, code, later)
  PROVE  WithinInv'
<1> DEFINE j == approvals[a].jti
           consent == consents[j]
           record == CodeOf(approvals[a], later, Generation)
<1>1. /\ CommitConsentApproval(consent.instance, j, JtiExpiry[j], code, record)
      /\ codeFor' = IF CommitConsentAnswer(consent.instance, j, JtiExpiry[j]) = "stored"
                    THEN Put(codeFor, code, j) ELSE codeFor
      /\ code \notin DOMAIN codeFor
      /\ UNCHANGED <<consents, copy>>
  BY DEF Commit, CommitAs
<1>2. /\ record.grant.client = consent.client /\ record.grant.subject = consent.subject
      /\ record.binding = consent.binding
      /\ consent.ceiling # None => record.grant.scopes \subseteq consent.ceiling
      /\ j \in DOMAIN consents
  BY DEF CodeOf, WithinInv, Commit, CommitAs, AuthorizeTypeOK
<1>3. \A b \in Approvals : approvals'[b].pc = "commit" => approvals'[b] = approvals[b]
  BY DEF Commit, CommitAs, EndApproval, NoApproval, AuthorizeTypeOK
<1> HIDE DEF j, consent, record
<1>4. CASE CommitConsentAnswer(consent.instance, j, JtiExpiry[j]) = "stored"
  <2>1. authCodes' = Put(authCodes, code, record) /\ codeFor' = Put(codeFor, code, j)
    BY <1>1, <1>4 DEF CommitConsentApproval
  <2>2. \A c \in DOMAIN codeFor : codeFor'[c] = codeFor[c]
    BY <1>1, <2>1 DEF Put
  <2>3. DOMAIN codeFor' = DOMAIN codeFor \cup {code} /\ codeFor'[code] = j
    BY <2>1 DEF Put
  <2>4. /\ DOMAIN authCodes' = DOMAIN authCodes \cup {code} /\ authCodes'[code] = record
        /\ \A c \in DOMAIN authCodes : authCodes'[c] = authCodes[c]
    BY <1>1, <2>1 DEF Put, WithinInv
  <2>5. WithinConsent(authCodes)'
    BY <1>1, <1>2, <2>2, <2>3, <2>4 DEF WithinInv, WithinConsent, consent
  <2>6. copy # None => WithinConsent(copy.authCodes)'
    BY <1>1, <2>2 DEF WithinInv, WithinConsent
  <2> QED BY <1>1, <1>2, <1>3, <2>2, <2>3, <2>4, <2>5, <2>6 DEF WithinInv
<1>5. CASE CommitConsentAnswer(consent.instance, j, JtiExpiry[j]) # "stored"
  <2>1. UNCHANGED <<authCodes, codeFor, consents, copy>>
    BY <1>1, <1>5 DEF CommitConsentApproval
  <2> QED BY <1>3, <2>1 DEF WithinInv, WithinConsent
<1> QED BY <1>4, <1>5

\* Every step keeps codes within their consents.
LEMMA WithinStep ==
  AuthorizeTypeOK /\ WithinInv /\ [AuthorizeNext]_authorizeVars => WithinInv'
<1> SUFFICES ASSUME AuthorizeTypeOK, WithinInv, [AuthorizeNext]_authorizeVars PROVE WithinInv'
  OBVIOUS
<1>1. CASE \E j \in Jtis, flow \in Flows : Prepare(j, flow)
  <2> PICK j \in Jtis, flow \in Flows : Prepare(j, flow)
    BY <1>1
  <2>1. /\ DOMAIN consents' = DOMAIN consents \cup {j}
        /\ \A k \in DOMAIN consents : consents'[k] = consents[k]
        /\ UNCHANGED <<authCodes, approvals, codeFor, copy>>
    BY DEF Prepare, Put, storeVars
  <2> QED BY <2>1 DEF WithinInv, WithinConsent, AuthorizeTypeOK
<1>2. ASSUME NEW a \in Approvals, ApproveStep(a) PROVE WithinInv'
  BY <1>2, WithinSlot, WithinCommit DEF ApproveStep
<1>3. CASE Deployment
  <2>1. /\ UNCHANGED <<consents, approvals, codeFor, copy>>
        /\ DOMAIN authCodes' \subseteq DOMAIN authCodes
        /\ \A c \in DOMAIN authCodes' : authCodes'[c] = authCodes[c]
    BY <1>3 DEF Deployment, SweepExpired, Restrict, RotateStoreInstanceId
  <2> QED BY <2>1 DEF WithinInv, WithinConsent
<1>4. CASE TakeCopy
  BY <1>4 DEF TakeCopy, WithinInv, WithinConsent, storeVars
<1>5. CASE RestoreCopy
  BY <1>5 DEF RestoreCopy, WithinInv, WithinConsent
<1>6. CASE UNCHANGED authorizeVars
  BY <1>6 DEF authorizeVars, storeVars, WithinInv, WithinConsent
<1> QED BY <1>1, <1>2, <1>3, <1>4, <1>5, <1>6 DEF AuthorizeNext

\* A stored code speaks for the client, subject and binding of its consent and
\* never rises above the signed ceiling (authorize.ts approve).
THEOREM CodeWithinConsentCorrect == AuthorizeSpec => []CodeWithinConsent
<1>1. AuthorizeInit => AuthorizeTypeOK /\ WithinInv
  BY AuthorizeTypeInit
     DEF AuthorizeInit, StoreInit, WithinInv, WithinConsent, NoApproval
<1>2. AuthorizeTypeOK /\ WithinInv /\ [AuthorizeNext]_authorizeVars
      => (AuthorizeTypeOK /\ WithinInv)'
  BY AuthorizeTypeStep, WithinStep
<1>3. WithinInv => CodeWithinConsent
  BY DEF WithinInv, CodeWithinConsent
<1> QED BY <1>1, <1>2, <1>3, PTL DEF AuthorizeSpec

-----------------------------------------------------------------------------
(* The invariants together, for the modules that compose the use case *)

\* What the authorization use case knows of its consents and codes.
AuthorizeInv == AuthorizeTypeOK /\ ConsentFence /\ OneCodePerConsent /\ WithinInv

\* It holds at first.
LEMMA AuthorizeInvInit == AuthorizeInit => AuthorizeInv
BY AuthorizeTypeInit
   DEF AuthorizeInit, StoreInit, AuthorizeInv, ConsentFence, OneCodePerConsent, WithinInv,
       WithinConsent, NoApproval

\* Every step keeps it.
LEMMA AuthorizeInvStep == AuthorizeInv /\ [AuthorizeNext]_authorizeVars => AuthorizeInv'
BY AuthorizeTypeStep, ConsentFenceStep, OneCodeStep, WithinStep DEF AuthorizeInv
=============================================================================
