--------------------------- MODULE ApprovalProofs ---------------------------
(***************************************************************************)
(* Proofs about the two modules that say how an approval comes about, each *)
(* an extension of Authorize by itself.                                    *)
(*                                                                         *)
(* Clients: whatever configurations the processes have, no response of     *)
(* approve leaves for a place its process would not trust, and grants of   *)
(* stateless mode stay out of stored mode.                                 *)
(*                                                                         *)
(* UpstreamFlow: one exchange per login, one code per login, and codes     *)
(* that speak for the account that signed in.  For every number of logins, *)
(* callbacks, provider codes, approvals, sweeps and clocks.                *)
(***************************************************************************)
EXTENDS Clients, UpstreamFlow, AuthorizeProofs

USE DEF IsMap

-----------------------------------------------------------------------------
(* Clients: types of the approvals and the store *)

\* A step of a slot is one of Authorize's, but for the re-admission.
LEMMA ApproveTypes ==
  ASSUME AuthorizeTypeOK, NEW a \in Approvals, ApproveAt(a)
  PROVE  AuthorizeTypeOK'
<1>0. ASSUME NEW config PROVE ExpectedGeneration(config) \in Generations
  BY ConfigAssumption, ClientsAssumption DEF ExpectedGeneration
<1>1. CASE Readmit(a)
  BY <1>1 DEF Readmit, authorizeVars, storeVars, AuthorizeTypeOK, CopyOK, StoreTypeOK,
              AuthCodesOK, TokensOK, FamiliesOK, ConsentsOK
<1>2. CASE SettleScopes(a)
  BY <1>2, ReadPriorType DEF SettleScopes
<1>3. CASE \E code \in Codes, later \in Times : CommitAt(a, code, later)
  <2> PICK code \in Codes, later \in Times : CommitAt(a, code, later)
    BY <1>3
  <2>1. CommitAs(a, code, later, ExpectedGeneration(serving[a].config))
    BY DEF CommitAt
  <2> QED BY <1>0, <2>1, CommitStepType
<1>4. CASE \/ \E config \in Configs, j \in Jtis, now \in Times : ArriveAt(config, a, j, now)
           \/ Bind(a) \/ Deny(a) \/ Refuse(a)
  BY <1>4, SlotStepsType DEF ArriveAt, Bind, Deny, Refuse
<1> QED BY <1>1, <1>2, <1>3, <1>4 DEF ApproveAt

\* A redeemed code has the shape of its record, and its token that of a row.
LEMMA RedeemTypes ==
  ASSUME AuthorizeTypeOK, NEW config, NEW code \in Codes, NEW family \in Families,
         NEW token \in Tokens, NEW now \in Times, Redeem(config, code, family, token, now)
  PROVE  AuthorizeTypeOK'
<1> DEFINE record == ConsumeAuthCodeAnswer(code, now, ExpectedGeneration(config), Resource)
           row == RootRow(family, record.grant, record.resource, record.generation,
                          now + RefreshTtl)
<1> HIDE DEF record, row
<1>1. AuthCodesOK'
  BY DEF Redeem, Restrict, AuthorizeTypeOK, StoreTypeOK, AuthCodesOK
<1>2. ConsentsOK' /\ CopyOK'
  BY DEF Redeem, consentRows, AuthorizeTypeOK, StoreTypeOK, ConsentsOK, CopyOK
<1>3. \/ record # None /\ InsertToken(token, row)
      \/ UNCHANGED <<refreshTokens, families>>
  BY DEF Redeem, tokenRows, record, row
<1>4. CASE UNCHANGED <<refreshTokens, families>>
  BY <1>1, <1>2, <1>4 DEF Redeem, AuthorizeTypeOK, StoreTypeOK, TokensOK, FamiliesOK
<1>5. CASE record # None /\ InsertToken(token, row)
  <2>1. record \in AuthCodeRecord
    BY <1>5 DEF record, ConsumeAuthCodeAnswer, AuthorizeTypeOK, StoreTypeOK, AuthCodesOK
  <2>2. row \in RefreshTokenRow
    BY <2>1 DEF row, Redeem, RootRow, RefreshTokenRow, AuthCodeRecord
  <2>3. TokensOK'
    BY <1>5, <2>2 DEF InsertToken, Put, AuthorizeTypeOK, StoreTypeOK, TokensOK
  <2>4. FamiliesOK'
    <3> DEFINE new == [revoked |-> FALSE, generation |-> row.generation,
                       resource |-> row.resource]
    <3>1. row.family \in Families /\ new \in FamilyRow
      BY <2>2 DEF RefreshTokenRow, FamilyRow
    <3>2. families' = families \/ families' = Put(families, row.family, new)
      BY <1>5 DEF InsertToken
    <3> HIDE DEF new
    <3> QED BY <3>1, <3>2 DEF AuthorizeTypeOK, StoreTypeOK, FamiliesOK, Put
  <2> QED BY <1>1, <1>2, <2>3, <2>4 DEF Redeem, AuthorizeTypeOK, StoreTypeOK
<1> QED BY <1>3, <1>4, <1>5

\* Every step keeps the types of Authorize.
LEMMA ClientsTypeStep ==
  AuthorizeTypeOK /\ [ClientsNext]_clientsVars => AuthorizeTypeOK'
<1> SUFFICES ASSUME AuthorizeTypeOK, [ClientsNext]_clientsVars PROVE AuthorizeTypeOK'
  OBVIOUS
<1>1. ASSUME UNCHANGED authorizeVars PROVE AuthorizeTypeOK'
  BY <1>1 DEF authorizeVars, storeVars, AuthorizeTypeOK, CopyOK, StoreTypeOK, AuthCodesOK,
              TokensOK, FamiliesOK, ConsentsOK
<1>2. ASSUME NEW config \in Configs, NEW j \in Jtis, NEW flow \in Flows,
             PrepareAt(config, j, flow)
      PROVE  AuthorizeTypeOK'
  BY <1>2, PreparedType DEF PrepareAt
<1> QED BY <1>1, <1>2, ApproveTypes, RedeemTypes DEF ClientsNext, Register, clientsVars

\* Every initial state is well typed.
LEMMA ClientsTypeInit == ClientsInit => AuthorizeTypeOK
BY AuthorizeTypeInit DEF ClientsInit

-----------------------------------------------------------------------------
(* Clients: one code per consent *)

\* Processes of different configurations keep the fence of AuthorizeProofs.
LEMMA ClientsFenceStep ==
  AuthorizeTypeOK /\ ConsentFence /\ OneCodePerConsent /\ [ClientsNext]_clientsVars
  => ConsentFence' /\ OneCodePerConsent'
<1> SUFFICES ASSUME AuthorizeTypeOK, ConsentFence, OneCodePerConsent, [ClientsNext]_clientsVars
             PROVE  ConsentFence' /\ OneCodePerConsent'
  OBVIOUS
<1>0. ASSUME UNCHANGED <<consentJtis, sweptThrough, storeInstanceId, consents, codeFor, copy>>
      PROVE  ConsentFence' /\ OneCodePerConsent'
  BY <1>0 DEF ConsentFence, OneCodePerConsent, JtiSpent
<1>1. ASSUME NEW config \in Configs, NEW j \in Jtis, NEW flow \in Flows,
             PrepareAt(config, j, flow)
      PROVE  ConsentFence' /\ OneCodePerConsent'
  <2>1. Prepare(j, flow)
    BY <1>1 DEF PrepareAt
  <2> QED BY <2>1, FencePrepared DEF Prepare, OneCodePerConsent
<1>2. ASSUME NEW a \in Approvals, ApproveAt(a) PROVE ConsentFence' /\ OneCodePerConsent'
  <2>1. ASSUME NEW code \in Codes, NEW later \in Times, CommitAt(a, code, later)
        PROVE  ConsentFence' /\ OneCodePerConsent'
    <3>1. CommitAs(a, code, later, ExpectedGeneration(serving[a].config))
      BY <2>1 DEF CommitAt
    <3> QED BY <3>1, FenceCommit, OneCodeCommit
  <2>2. CASE ~\E code \in Codes, later \in Times : CommitAt(a, code, later)
    <3>1. UNCHANGED <<storeVars, consents, codeFor, copy>>
      BY <1>2, <2>2 DEF ApproveAt, ArriveAt, Verify, Bind, CheckBinding, Readmit, authorizeVars,
                        Deny, Refuse, Abandon, SettleScopes, ReadPriorAs
    <3> QED BY <1>0, <3>1 DEF storeVars
  <2> QED BY <2>1, <2>2
<1>3. ASSUME NEW config, NEW code, NEW family, NEW token, NEW now,
             Redeem(config, code, family, token, now)
      PROVE  ConsentFence' /\ OneCodePerConsent'
  BY <1>0, <1>3 DEF Redeem, consentRows
<1>4. ASSUME NEW config, NEW client, NEW registration, Register(config, client, registration)
      PROVE  ConsentFence' /\ OneCodePerConsent'
  BY <1>0, <1>4 DEF Register, authorizeVars, storeVars
<1>5. CASE UNCHANGED clientsVars
  BY <1>0, <1>5 DEF clientsVars, authorizeVars, storeVars
<1> QED BY <1>1, <1>2, <1>3, <1>4, <1>5 DEF ClientsNext

\* One consent yields one code although the processes that approve it disagree
\* on registration mode, allowlist and CIMD.
THEOREM OneCodeAcrossConfigs == ClientsSpec => []OneCodePerConsent
<1>1. ClientsInit => AuthorizeTypeOK /\ ConsentFence /\ OneCodePerConsent
  BY ClientsTypeInit DEF ClientsInit, AuthorizeInit, StoreInit, ConsentFence, OneCodePerConsent
<1>2. AuthorizeTypeOK /\ ConsentFence /\ OneCodePerConsent /\ [ClientsNext]_clientsVars
      => (AuthorizeTypeOK /\ ConsentFence /\ OneCodePerConsent)'
  BY ClientsTypeStep, ClientsFenceStep
<1> QED BY <1>1, <1>2, PTL DEF ClientsSpec

-----------------------------------------------------------------------------
(* Clients: where approve sends a browser *)

\* A CIMD consent named a redirect of its document, and an approval that
\* commits was admitted by the process that serves it, under its own policy.
Servings == [config : Configs \cup {None}, admitted : BOOLEAN]

ServingOK == serving \in [Approvals -> Servings]

AdmittedInv ==
  /\ \A j \in DOMAIN consents :
       consents[j].client \in CimdClients =>
         \E document \in Documents[consents[j].client] :
            CimdRedirectMatches(consents[j].binding, document)
  /\ \A a \in Approvals : approvals[a].pc = "commit" => serving[a].admitted
  /\ \A a \in Approvals :
       serving[a].admitted =>
         /\ approvals[a].jti \in DOMAIN consents
         /\ Readmits(serving[a].config, consents[approvals[a].jti].client,
                     consents[approvals[a].jti].binding)

\* A global match is of one scheme and host.
LEMMA GlobalMatchHost ==
  ASSUME NEW config, NEW uri, AllowedGlobally(config, uri)
  PROVE  \E entry \in Allowlist(config) : entry.scheme = uri.scheme /\ entry.host = uri.host
BY DEF AllowedGlobally, GlobalMatch

\* What re-admission lets through is trusted.
LEMMA ReadmittedTrusted ==
  ASSUME NEW config, NEW client, NEW uri, Readmits(config, client, uri),
         client \in CimdClients =>
           \E document \in Documents[client] : CimdRedirectMatches(uri, document)
  PROVE  Trusted(config, client, uri)
<1>1. CASE client \in CimdClients
  BY <1>1 DEF Readmits, CimdRedirectMatches, Trusted, UpToLoopbackPort, SameButPort
<1>2. CASE client \notin CimdClients /\ ~config.stored
  BY <1>2, GlobalMatchHost DEF Readmits, ResolveOpaqueRedirect, Trusted
<1>3. CASE client \notin CimdClients /\ config.stored
  <2>1. /\ client \in DOMAIN registered
        /\ \A entry \in registered[client].uris : AllowedGlobally(config, entry)
        /\ AllowedForClient(registered[client], uri)
    BY <1>3 DEF Readmits, ResolveOpaqueRedirect
  <2>2. PICK entry \in registered[client].uris :
          \/ entry = uri
          \/ registered[client].type = "native" /\ entry.scheme = "http" /\ SameButPort(uri, entry)
    BY <2>1 DEF AllowedForClient
  <2>3. UpToLoopbackPort(uri, entry)
    BY <2>1, <2>2 DEF AllowedForClient, RegistrationPolicy, UpToLoopbackPort, SameButPort
  <2>4. \E other \in Allowlist(config) : other.scheme = uri.scheme /\ other.host = uri.host
    <3>1. \E other \in Allowlist(config) : other.scheme = entry.scheme /\ other.host = entry.host
      BY <2>1, GlobalMatchHost
    <3> QED BY <2>2, <3>1 DEF SameButPort
  <2> QED BY <1>3, <2>1, <2>3, <2>4 DEF Trusted
<1> QED BY <1>1, <1>2, <1>3

\* Steps that admit nobody.
LEMMA AdmittedFrame ==
  ASSUME AdmittedInv, UNCHANGED <<consents, registered>>,
         \A a \in Approvals :
            /\ approvals'[a].pc = "commit" => serving'[a].admitted
            /\ serving'[a].admitted => /\ serving'[a] = serving[a]
                                       /\ approvals'[a].jti = approvals[a].jti
  PROVE  AdmittedInv'
BY DEF AdmittedInv, Readmits, ResolveOpaqueRedirect

\* A released slot is nobody's, and the others go on as they were.
LEMMA ReleaseAdmitted ==
  ASSUME AuthorizeTypeOK, AdmittedInv, NEW a \in Approvals, Release,
         UNCHANGED <<consents, registered>>,
         \/ EndApproval(a)
         \/ approvals' = [approvals EXCEPT ![a].pc = "prior"]
  PROVE  AdmittedInv'
<1>1. approvals \in [Approvals -> Approval]
  BY DEF AuthorizeTypeOK
<1>2. \A b \in Approvals : approvals'[b] # NoApproval =>
         /\ approvals'[b].jti = approvals[b].jti
         /\ approvals'[b].pc = "commit" => approvals[b].pc = "commit"
  BY <1>1 DEF EndApproval, Approval
<1>3. \A b \in Approvals :
         IF approvals'[b] = NoApproval THEN ~serving'[b].admitted /\ approvals'[b].pc = "idle"
         ELSE serving'[b] = serving[b]
  BY DEF Release, NotServing, NoApproval
<1>4. \A b \in Approvals :
         /\ approvals'[b].pc = "commit" => serving'[b].admitted
         /\ serving'[b].admitted => /\ serving'[b] = serving[b]
                                    /\ approvals'[b].jti = approvals[b].jti
  BY <1>2, <1>3 DEF AdmittedInv
<1> QED BY <1>4, AdmittedFrame

\* Approvals admit under the policy in force.
LEMMA ApproveAdmitted ==
  ASSUME AuthorizeTypeOK, ServingOK, AdmittedInv, NEW a \in Approvals, ApproveAt(a)
  PROVE  AdmittedInv'
<1>0. approvals \in [Approvals -> Approval]
  BY DEF AuthorizeTypeOK
<1>1. CASE \E config \in Configs, j \in Jtis, now \in Times : ArriveAt(config, a, j, now)
  <2> PICK config \in Configs, j \in Jtis, now \in Times : ArriveAt(config, a, j, now)
    BY <1>1
  <2>1. /\ \A b \in Approvals \ {a} : approvals'[b] = approvals[b] /\ serving'[b] = serving[b]
        /\ approvals'[a].pc = "bind" /\ ~serving'[a].admitted
        /\ UNCHANGED <<consents, registered>>
    BY <1>0 DEF ArriveAt, Verify, NoApproval, ServingOK
  <2>2. \A b \in Approvals :
         /\ approvals'[b].pc = "commit" => serving'[b].admitted
         /\ serving'[b].admitted => /\ serving'[b] = serving[b]
                                    /\ approvals'[b].jti = approvals[b].jti
    BY <2>1 DEF AdmittedInv
  <2> QED BY <2>1, <2>2, AdmittedFrame
<1>2. CASE Bind(a) \/ Deny(a) \/ Refuse(a)
  BY <1>2, ReleaseAdmitted DEF Bind, CheckBinding, Deny, Refuse, Abandon
<1>3. CASE \E code \in Codes, later \in Times : CommitAt(a, code, later)
  BY <1>3, ReleaseAdmitted DEF CommitAt, CommitAs
<1>4. CASE Readmit(a)
  <2>1. approvals[a].jti \in DOMAIN consents
    BY <1>4 DEF Readmit, AuthorizeTypeOK
  <2>2. /\ Readmits(serving[a].config, consents[approvals[a].jti].client,
                    consents[approvals[a].jti].binding)
        /\ serving' = [serving EXCEPT ![a].admitted = TRUE]
        /\ approvals' = approvals /\ consents' = consents /\ registered' = registered
    BY <1>4 DEF Readmit, authorizeVars
  <2>3. \A b \in Approvals : /\ serving'[b].config = serving[b].config
                             /\ serving'[b].admitted => b = a \/ serving[b].admitted
                             /\ serving[b].admitted => serving'[b].admitted
    BY <2>2 DEF ServingOK, Servings
  <2> QED BY <2>1, <2>2, <2>3 DEF AdmittedInv, Readmits, ResolveOpaqueRedirect
<1>5. CASE SettleScopes(a)
  <2>1. \E scopes : approvals' = [approvals EXCEPT ![a].pc = "commit", ![a].scopes = scopes]
    BY <1>5 DEF SettleScopes, ReadPriorAs
  <2>2. serving' = serving /\ serving[a].admitted /\ UNCHANGED <<consents, registered>>
    BY <1>5 DEF SettleScopes, ReadPriorAs
  <2>3. \A b \in Approvals : /\ approvals'[b].jti = approvals[b].jti
                             /\ approvals'[b].pc = "commit" => b = a \/ approvals[b].pc = "commit"
    BY <1>0, <2>1 DEF Approval
  <2>4. \A b \in Approvals :
         /\ approvals'[b].pc = "commit" => serving'[b].admitted
         /\ serving'[b].admitted => /\ serving'[b] = serving[b]
                                    /\ approvals'[b].jti = approvals[b].jti
    BY <2>2, <2>3 DEF AdmittedInv
  <2> QED BY <2>2, <2>4, AdmittedFrame
<1> QED BY <1>1, <1>2, <1>3, <1>4, <1>5 DEF ApproveAt

\* Each slot is served by one configuration, or by none.
LEMMA ServingStep ==
  ServingOK /\ [ClientsNext]_clientsVars => ServingOK'
<1> SUFFICES ASSUME ServingOK, [ClientsNext]_clientsVars PROVE ServingOK'
  OBVIOUS
<1>1. ASSUME Release PROVE ServingOK'
  BY <1>1 DEF Release, ServingOK, Servings, NotServing
<1>2. ASSUME NEW a \in Approvals, ApproveAt(a) PROVE ServingOK'
  <2>1. CASE \E config \in Configs, j \in Jtis, now \in Times : ArriveAt(config, a, j, now)
    BY <2>1 DEF ArriveAt, ServingOK, Servings
  <2>2. CASE Readmit(a) \/ SettleScopes(a)
    BY <2>2 DEF Readmit, SettleScopes, ServingOK, Servings
  <2>3. CASE \/ Bind(a) \/ Deny(a) \/ Refuse(a)
             \/ \E code \in Codes, later \in Times : CommitAt(a, code, later)
    BY <1>1, <2>3 DEF Bind, Deny, Refuse, CommitAt
  <2> QED BY <1>2, <2>1, <2>2, <2>3 DEF ApproveAt
<1>3. CASE UNCHANGED serving
  BY <1>3 DEF ServingOK
<1> QED BY <1>2, <1>3 DEF ClientsNext, Register, PrepareAt, Redeem, clientsVars, clientVars

\* Every step keeps approvals admitted.
LEMMA AdmittedStep ==
  AuthorizeTypeOK /\ ServingOK /\ AdmittedInv /\ [ClientsNext]_clientsVars => AdmittedInv'
<1> SUFFICES ASSUME AuthorizeTypeOK, ServingOK, AdmittedInv, [ClientsNext]_clientsVars
             PROVE  AdmittedInv'
  OBVIOUS
<1>1. ASSUME NEW config, NEW client, NEW registration, Register(config, client, registration)
      PROVE  AdmittedInv'
  <2>1. UNCHANGED <<consents, approvals, serving>>
    BY <1>1 DEF Register, authorizeVars
  <2>2. \A a \in Approvals :
          Readmits(serving[a].config, consents[approvals[a].jti].client,
                   consents[approvals[a].jti].binding)
          => Readmits(serving[a].config, consents[approvals[a].jti].client,
                      consents[approvals[a].jti].binding)'
    <3>1. /\ DOMAIN registered \subseteq DOMAIN registered'
          /\ \A d \in DOMAIN registered : registered'[d] = registered[d]
      BY <1>1 DEF Register, Put
    <3> QED BY <2>1, <3>1 DEF Readmits, ResolveOpaqueRedirect
  <2> QED BY <2>1, <2>2 DEF AdmittedInv
<1>2. ASSUME NEW config, NEW j \in Jtis, NEW flow \in Flows, PrepareAt(config, j, flow)
      PROVE  AdmittedInv'
  <2>1. /\ DOMAIN consents' = DOMAIN consents \cup {j} /\ j \notin DOMAIN consents
        /\ consents'[j].client = flow.client /\ consents'[j].binding = flow.binding
        /\ \A k \in DOMAIN consents : consents'[k] = consents[k]
    BY <1>2 DEF PrepareAt, Prepare, Put
  <2>2. UNCHANGED <<approvals, serving, registered>>
    BY <1>2 DEF PrepareAt, Prepare
  <2>3. flow.client \in CimdClients =>
          \E document \in Documents[flow.client] : CimdRedirectMatches(flow.binding, document)
    BY <1>2 DEF PrepareAt, ResolveAuthorizeClient
  <2> QED BY <2>1, <2>2, <2>3 DEF AdmittedInv, Readmits, ResolveOpaqueRedirect
<1>3. CASE UNCHANGED <<consents, approvals, serving, registered>>
  BY <1>3, AdmittedFrame DEF AdmittedInv
<1>4. ASSUME NEW config, NEW code, NEW family, NEW token, NEW now,
             Redeem(config, code, family, token, now)
      PROVE  UNCHANGED <<consents, approvals, serving, registered>>
  BY <1>4 DEF Redeem
<1> QED BY <1>1, <1>2, <1>3, <1>4, ApproveAdmitted
        DEF ClientsNext, clientsVars, clientVars, authorizeVars

\* A response goes where its process admitted the client.
LEMMA SentStep ==
  AdmittedInv /\ SentWhereTrusted /\ [ClientsNext]_clientsVars => SentWhereTrusted'
<1> SUFFICES ASSUME AdmittedInv, SentWhereTrusted, [ClientsNext]_clientsVars
             PROVE  SentWhereTrusted'
  OBVIOUS
<1>1. ASSUME NEW a \in Approvals, serving[a].admitted, sent' = Response(a), UNCHANGED registered
      PROVE  SentWhereTrusted'
  <2> DEFINE consent == consents[approvals[a].jti]
  <2>1. Trusted(serving[a].config, consent.client, consent.binding)
    BY <1>1, ReadmittedTrusted DEF AdmittedInv
  <2>2. /\ sent'.config = serving[a].config /\ sent'.client = consent.client
        /\ sent'.uri = consent.binding
    BY <1>1 DEF Response
  <2> HIDE DEF consent
  <2> QED BY <1>1, <2>1, <2>2 DEF SentWhereTrusted, Trusted
<1>2. CASE sent' = None
  BY <1>2 DEF SentWhereTrusted
<1>3. ASSUME NEW a \in Approvals, ApproveAt(a) PROVE SentWhereTrusted'
  <2>1. ASSUME NEW code \in Codes, NEW later \in Times, CommitAt(a, code, later)
        PROVE  SentWhereTrusted'
    <3>1. serving[a].admitted /\ UNCHANGED registered
      BY <2>1 DEF CommitAt, CommitAs, AdmittedInv
    <3>2. sent' = Response(a) \/ sent' = None
      BY <2>1 DEF CommitAt
    <3> QED BY <1>1, <1>2, <3>1, <3>2
  <2>2. CASE Deny(a)
    BY <1>1, <2>2 DEF Deny
  <2> QED BY <1>2, <1>3, <2>1, <2>2 DEF ApproveAt, ArriveAt, Bind, Readmit, SettleScopes, Refuse
<1>4. CASE UNCHANGED clientsVars
  BY <1>4 DEF clientsVars, clientVars, SentWhereTrusted, Trusted
<1> QED BY <1>2, <1>3, <1>4 DEF ClientsNext, Register, PrepareAt, Redeem

\* No code and no denial leaves approve for a place that its own process does
\* not trust, whichever process showed the consent page and whatever was
\* registered since (authorize.ts approve, authorize-internals.ts
\* assertCurrentConsentRedirect).
THEOREM SentWhereTrustedCorrect == ClientsSpec => []SentWhereTrusted
<1>1. ClientsInit => AuthorizeTypeOK /\ ServingOK /\ AdmittedInv /\ SentWhereTrusted
  BY ClientsTypeInit
     DEF ClientsInit, AuthorizeInit, ServingOK, Servings, NotServing, NoApproval, AdmittedInv,
         SentWhereTrusted
<1>2. AuthorizeTypeOK /\ ServingOK /\ AdmittedInv /\ SentWhereTrusted /\ [ClientsNext]_clientsVars
      => (AuthorizeTypeOK /\ ServingOK /\ AdmittedInv /\ SentWhereTrusted)'
  BY ClientsTypeStep, ServingStep, AdmittedStep, SentStep
<1> QED BY <1>1, <1>2, PTL DEF ClientsSpec

-----------------------------------------------------------------------------
(* Clients: grants of stateless mode *)

\* Scopes of a grant were approved in stored mode by its subject for its client.
Approved(grant) == grant.scopes \subseteq ApprovedInStoredMode(grant.client, grant.subject)

\* What carries the stored generation was committed in stored mode, or came of
\* a code that was.
LegacyInv ==
  /\ storedCodes \subseteq DOMAIN codeFor
  /\ \A c \in DOMAIN codeFor : codeFor[c] \in DOMAIN consents
  /\ \A c \in DOMAIN authCodes :
       /\ c \in DOMAIN codeFor
       /\ authCodes[c].generation = Generation => c \in storedCodes
       /\ c \in storedCodes => Approved(authCodes[c].grant)
  /\ \A t \in DOMAIN refreshTokens :
       refreshTokens[t].generation = Generation => Approved(refreshTokens[t].grant)
  /\ \A a \in Approvals :
       LET consent == consents[approvals[a].jti] IN
       approvals[a].pc = "commit" /\ serving[a].config.stored =>
         approvals[a].scopes \subseteq
           consent.scopes \cup ApprovedInStoredMode(consent.client, consent.subject)
  /\ \A f \in DOMAIN redeemed : redeemed[f].config.stored => redeemed[f].code \in storedCodes

\* Consents and codes are never forgotten, so what was approved stays approved.
LEMMA ApprovedGrows ==
  ASSUME LegacyInv,
         \A j \in DOMAIN consents : j \in DOMAIN consents' /\ consents'[j] = consents[j],
         \A c \in DOMAIN codeFor : c \in DOMAIN codeFor' /\ codeFor'[c] = codeFor[c],
         storedCodes \subseteq storedCodes'
  PROVE  \A client, subject : ApprovedInStoredMode(client, subject)
                               \subseteq ApprovedInStoredMode(client, subject)'
<1> SUFFICES ASSUME NEW client, NEW subject, NEW scope \in ApprovedInStoredMode(client, subject)
             PROVE  scope \in ApprovedInStoredMode(client, subject)'
  OBVIOUS
<1>1. PICK c \in storedCodes : /\ consents[codeFor[c]].client = client
                               /\ consents[codeFor[c]].subject = subject
                               /\ scope \in consents[codeFor[c]].scopes
  BY DEF ApprovedInStoredMode
<1>2. c \in storedCodes' /\ consents'[codeFor'[c]] = consents[codeFor[c]]
  BY <1>1 DEF LegacyInv
<1> QED BY <1>1, <1>2 DEF ApprovedInStoredMode

\* Stored mode reads prior scopes of its own generation only.
LEMMA PriorApproved ==
  ASSUME LegacyInv, NEW subject, NEW client, NEW now
  PROVE  FindGrantedScopes(subject, client, now, Generation, Resource)
           \subseteq ApprovedInStoredMode(client, subject)
<1> SUFFICES ASSUME NEW scope \in FindGrantedScopes(subject, client, now, Generation, Resource)
             PROVE  scope \in ApprovedInStoredMode(client, subject)
  OBVIOUS
<1>1. PICK t \in DOMAIN refreshTokens :
        /\ Contributes(refreshTokens[t], subject, client, now, Generation, Resource)
        /\ scope \in refreshTokens[t].grant.scopes
  BY DEF FindGrantedScopes
<1>2. /\ refreshTokens[t].grant.client = client /\ refreshTokens[t].grant.subject = subject
      /\ refreshTokens[t].generation = Generation
  BY <1>1, ClientsAssumption DEF Contributes
<1> QED BY <1>1, <1>2 DEF LegacyInv, Approved

\* Steps that change no grant.
LEMMA LegacyFrame ==
  ASSUME LegacyInv, UNCHANGED <<authCodes, refreshTokens, consents, codeFor, storedCodes, redeemed>>,
         \A a \in Approvals :
            approvals'[a].pc = "commit" /\ serving'[a].config.stored =>
              /\ approvals[a].pc = "commit" /\ approvals'[a] = approvals[a]
              /\ serving'[a].config = serving[a].config
  PROVE  LegacyInv'
<1>1. \A client, subject :
        ApprovedInStoredMode(client, subject)' = ApprovedInStoredMode(client, subject)
  BY DEF ApprovedInStoredMode
<1>2. ASSUME NEW a \in Approvals, approvals'[a].pc = "commit", serving'[a].config.stored
      PROVE  (approvals[a].scopes \subseteq
                consents[approvals[a].jti].scopes
                \cup ApprovedInStoredMode(consents[approvals[a].jti].client,
                                         consents[approvals[a].jti].subject))'
  BY <1>2 DEF LegacyInv, ApprovedInStoredMode
<1> QED BY <1>1, <1>2 DEF LegacyInv, Approved

\* The steps of a slot before it reads the prior scopes, and those that end it.
LEMMA LegacySlot ==
  ASSUME AuthorizeTypeOK, ServingOK, LegacyInv, NEW a \in Approvals,
         \/ \E config \in Configs, j \in Jtis, now \in Times : ArriveAt(config, a, j, now)
         \/ Bind(a) \/ Readmit(a) \/ Deny(a) \/ Refuse(a)
  PROVE  LegacyInv'
<1> DEFINE Kept(b) == /\ approvals[b].pc = "commit" /\ approvals'[b] = approvals[b]
                      /\ serving'[b].config = serving[b].config
<1>0. approvals \in [Approvals -> Approval]
  BY DEF AuthorizeTypeOK
<1>1. UNCHANGED <<authCodes, refreshTokens, consents, codeFor, storedCodes, redeemed>>
  BY DEF ArriveAt, Verify, Bind, CheckBinding, Readmit, authorizeVars, Deny, Refuse, Abandon,
         storeVars
<1>2. \A b \in Approvals : approvals'[b].pc = "commit" => Kept(b)
  <2>1. CASE \E config \in Configs, j \in Jtis, now \in Times : ArriveAt(config, a, j, now)
    <3>1. /\ \A b \in Approvals \ {a} : approvals'[b] = approvals[b] /\ serving'[b] = serving[b]
          /\ approvals'[a].pc = "bind"
      BY <1>0, <2>1 DEF ArriveAt, Verify, NoApproval, ServingOK
    <3> QED BY <3>1
  <2>2. CASE Readmit(a)
    BY <2>2 DEF Readmit, authorizeVars, ServingOK, Servings
  <2>3. CASE Bind(a) \/ Deny(a) \/ Refuse(a)
    <3>1. Release /\ (EndApproval(a) \/ approvals' = [approvals EXCEPT ![a].pc = "prior"])
      BY <2>3 DEF Bind, CheckBinding, Deny, Refuse, Abandon
    <3>2. \A b \in Approvals : approvals'[b].pc = "commit" =>
            approvals[b].pc = "commit" /\ approvals'[b] = approvals[b] /\ approvals'[b] # NoApproval
      BY <1>0, <3>1 DEF EndApproval, NoApproval, Approval
    <3> QED BY <3>1, <3>2 DEF Release
  <2> QED BY <2>1, <2>2, <2>3
<1> QED BY <1>1, <1>2, LegacyFrame

\* A new consent leaves every grant where it was.
LEMMA LegacyPrepare ==
  ASSUME AuthorizeTypeOK, LegacyInv, NEW config, NEW j \in Jtis, NEW flow, PrepareAt(config, j, flow)
  PROVE  LegacyInv'
<1>1. /\ \A k \in DOMAIN consents : k \in DOMAIN consents' /\ consents'[k] = consents[k]
      /\ UNCHANGED <<authCodes, refreshTokens, approvals, codeFor>>
      /\ UNCHANGED <<serving, storedCodes, redeemed>>
  BY DEF PrepareAt, Prepare, Put, storeVars
<1>2. \A client, subject : ApprovedInStoredMode(client, subject)
                             \subseteq ApprovedInStoredMode(client, subject)'
  BY <1>1, ApprovedGrows
<1>3. ASSUME NEW a \in Approvals, approvals'[a].pc = "commit", serving'[a].config.stored
      PROVE  (approvals[a].scopes \subseteq
                consents[approvals[a].jti].scopes
                \cup ApprovedInStoredMode(consents[approvals[a].jti].client,
                                          consents[approvals[a].jti].subject))'
  <2> DEFINE k == approvals[a].jti
  <2>1. approvals'[a] = approvals[a] /\ k \in DOMAIN consents /\ consents'[k] = consents[k]
    BY <1>1, <1>3 DEF AuthorizeTypeOK
  <2>2. approvals[a].scopes \subseteq
          consents[k].scopes \cup ApprovedInStoredMode(consents[k].client, consents[k].subject)
    BY <1>1, <1>3 DEF LegacyInv
  <2>3. ApprovedInStoredMode(consents[k].client, consents[k].subject) \subseteq
          ApprovedInStoredMode(consents[k].client, consents[k].subject)'
    BY <1>1, <2>1 DEF ApprovedInStoredMode, LegacyInv
  <2> QED BY <2>1, <2>2, <2>3
<1> QED BY <1>1, <1>2, <1>3 DEF LegacyInv, Approved

\* An approval in stored mode settles on scopes approved in stored mode.
LEMMA LegacySettle ==
  ASSUME AuthorizeTypeOK, ServingOK, LegacyInv, NEW a \in Approvals, SettleScopes(a)
  PROVE  LegacyInv'
<1> DEFINE consent == consents[approvals[a].jti]
           config == serving[a].config
           prior == IF AccumulationAllowed(config, consent.client)
                    THEN FindGrantedScopes(consent.subject, consent.client, approvals[a].now,
                                           ExpectedGeneration(config), Resource)
                    ELSE {}
<1>0. approvals \in [Approvals -> Approval]
  BY DEF AuthorizeTypeOK
<1>1. /\ approvals' = [approvals EXCEPT ![a].pc = "commit", ![a].scopes = CodeScopes(consent, prior)]
      /\ UNCHANGED <<authCodes, refreshTokens, consents, codeFor>>
      /\ UNCHANGED <<serving, storedCodes, redeemed>>
  BY DEF SettleScopes, ReadPriorAs, storeVars
<1>2. config.stored =>
        prior \subseteq ApprovedInStoredMode(consent.client, consent.subject)
  BY PriorApproved DEF ExpectedGeneration, AccumulationAllowed
<1>3. CodeScopes(consent, prior) \subseteq consent.scopes \cup prior
  BY DEF CodeScopes, Narrow
<1> HIDE DEF prior
<1>4. /\ approvals'[a].scopes = CodeScopes(consent, prior) /\ approvals'[a].jti = approvals[a].jti
      /\ \A b \in Approvals \ {a} : approvals'[b] = approvals[b]
  BY <1>0, <1>1 DEF Approval
<1>5. \A client, subject :
        ApprovedInStoredMode(client, subject)' = ApprovedInStoredMode(client, subject)
  BY <1>1 DEF ApprovedInStoredMode
<1>6. ASSUME NEW b \in Approvals, approvals'[b].pc = "commit", serving'[b].config.stored
      PROVE  (approvals[b].scopes \subseteq
                consents[approvals[b].jti].scopes
                \cup ApprovedInStoredMode(consents[approvals[b].jti].client,
                                          consents[approvals[b].jti].subject))'
  <2>1. approvals'[b].scopes \subseteq
          consents[approvals[b].jti].scopes
          \cup ApprovedInStoredMode(consents[approvals[b].jti].client,
                                    consents[approvals[b].jti].subject)
    <3>1. CASE b = a
      BY <1>1, <1>2, <1>3, <1>4, <1>6, <3>1
    <3>2. CASE b # a
      BY <1>1, <1>4, <1>6, <3>2 DEF LegacyInv
    <3> QED BY <3>1, <3>2
  <2>2. approvals'[b].jti = approvals[b].jti
    BY <1>4
  <2> QED BY <1>1, <2>1, <2>2 DEF ApprovedInStoredMode
<1> QED BY <1>1, <1>5, <1>6 DEF LegacyInv, Approved

\* A commit in stored mode adds to what was approved there; one in stateless
\* mode carries no stored generation.
LEMMA LegacyCommit ==
  ASSUME AuthorizeTypeOK, ServingOK, LegacyInv, NEW a \in Approvals, NEW code \in Codes,
         NEW later \in Times, CommitAt(a, code, later)
  PROVE  LegacyInv'
<1> DEFINE j == approvals[a].jti
           consent == consents[j]
           config == serving[a].config
           record == CodeOf(approvals[a], later, ExpectedGeneration(config))
           answer == CommitConsentAnswer(consent.instance, j, JtiExpiry[j])
<1>0. approvals \in [Approvals -> Approval]
  BY DEF AuthorizeTypeOK
<1>1. /\ CommitConsentApproval(consent.instance, j, JtiExpiry[j], code, record)
      /\ codeFor' = IF answer = "stored" THEN Put(codeFor, code, j) ELSE codeFor
      /\ code \notin DOMAIN codeFor
      /\ UNCHANGED <<consents, copy, registered, redeemed>>
      /\ storedCodes' = storedCodes \cup {c \in {code} : code \in DOMAIN codeFor' /\ config.stored}
      /\ approvals[a].pc = "commit" /\ j \in DOMAIN consents
  BY DEF CommitAt, CommitAs, AuthorizeTypeOK
<1>2. \A b \in Approvals : approvals'[b].pc = "commit" =>
        /\ approvals[b].pc = "commit" /\ approvals'[b] = approvals[b]
        /\ serving'[b].config = serving[b].config
  <2>1. \A b \in Approvals : approvals'[b].pc = "commit" =>
          approvals[b].pc = "commit" /\ approvals'[b] = approvals[b] /\ approvals'[b] # NoApproval
    BY <1>0 DEF CommitAt, CommitAs, EndApproval, NoApproval
  <2> QED BY <2>1 DEF CommitAt, Release
<1> HIDE DEF answer
<1>3. CASE answer # "stored"
  <2>1. UNCHANGED <<authCodes, refreshTokens, consents, codeFor, redeemed>>
    BY <1>1, <1>3 DEF CommitConsentApproval, answer
  <2>2. storedCodes' = storedCodes
    BY <1>1, <2>1
  <2> QED BY <1>2, <2>1, <2>2, LegacyFrame
<1>4. CASE answer = "stored"
  <2>1. /\ authCodes' = Put(authCodes, code, record) /\ refreshTokens' = refreshTokens
        /\ codeFor' = Put(codeFor, code, j)
    BY <1>1, <1>4 DEF CommitConsentApproval, answer
  <2>2. /\ DOMAIN codeFor' = DOMAIN codeFor \cup {code} /\ codeFor'[code] = j
        /\ \A c \in DOMAIN codeFor : c \in DOMAIN codeFor' /\ codeFor'[c] = codeFor[c]
    BY <1>1, <2>1 DEF Put
  <2>3. storedCodes' = IF config.stored THEN storedCodes \cup {code} ELSE storedCodes
    BY <1>1, <2>2
  <2>4. \A client, subject : ApprovedInStoredMode(client, subject)
                               \subseteq ApprovedInStoredMode(client, subject)'
    BY <1>1, <2>2, <2>3, ApprovedGrows
  <2>5. /\ record.grant.client = consent.client /\ record.grant.subject = consent.subject
        /\ record.grant.scopes = approvals[a].scopes
        /\ record.generation = ExpectedGeneration(config)
    BY DEF CodeOf
  <2>6. ASSUME NEW grant, grant = record.grant, config.stored
        PROVE  Approved(grant)'
    <3>1. /\ grant.client = consent.client /\ grant.subject = consent.subject
          /\ grant.scopes = approvals[a].scopes
      BY <2>5, <2>6
    <3>2. grant.scopes \subseteq
            consent.scopes \cup ApprovedInStoredMode(grant.client, grant.subject)
      BY <1>1, <2>6, <3>1 DEF LegacyInv
    <3>3. code \in storedCodes' /\ consents'[codeFor'[code]] = consent
      BY <1>1, <2>2, <2>3, <2>6
    <3>4. consent.scopes \subseteq ApprovedInStoredMode(grant.client, grant.subject)'
      BY <3>1, <3>3 DEF ApprovedInStoredMode
    <3>5. ApprovedInStoredMode(grant.client, grant.subject)
            \subseteq ApprovedInStoredMode(grant.client, grant.subject)'
      BY <2>4
    <3> QED BY <3>2, <3>4, <3>5 DEF Approved
  <2>7. /\ DOMAIN authCodes' = DOMAIN authCodes \cup {code} /\ authCodes'[code] = record
        /\ \A c \in DOMAIN authCodes : c # code /\ authCodes'[c] = authCodes[c]
    BY <1>1, <2>1 DEF Put, LegacyInv
  <2>8. \A grant : Approved(grant) => Approved(grant)'
    BY <2>4 DEF Approved
  <2>9. ASSUME NEW c \in DOMAIN authCodes'
        PROVE  /\ c \in DOMAIN codeFor'
               /\ authCodes'[c].generation = Generation => c \in storedCodes'
               /\ \A grant : grant = authCodes'[c].grant /\ c \in storedCodes' => Approved(grant)'
    <3>1. CASE c = code
      <4>1. record.generation = Generation => config.stored
        BY <2>5, ClientsAssumption DEF ExpectedGeneration
      <4>2. code \in storedCodes' => config.stored
        BY <1>1, <2>3 DEF LegacyInv
      <4> QED BY <2>2, <2>3, <2>6, <2>7, <3>1, <4>1, <4>2
    <3>2. CASE c # code
      <4>1. c \in DOMAIN authCodes /\ authCodes'[c] = authCodes[c]
        BY <2>7, <3>2
      <4>2. c \in storedCodes' => c \in storedCodes
        BY <2>3, <3>2
      <4> QED BY <2>2, <2>3, <2>8, <4>1, <4>2 DEF LegacyInv
    <3> QED BY <3>1, <3>2
  <2>10. ASSUME NEW b \in Approvals, approvals'[b].pc = "commit", serving'[b].config.stored
         PROVE  (approvals[b].scopes \subseteq
                   consents[approvals[b].jti].scopes
                   \cup ApprovedInStoredMode(consents[approvals[b].jti].client,
                                             consents[approvals[b].jti].subject))'
    <3> DEFINE k == approvals[b].jti
    <3>1. /\ approvals[b].pc = "commit" /\ approvals'[b] = approvals[b]
          /\ serving[b].config.stored
      BY <1>2, <2>10
    <3>2. approvals[b].scopes \subseteq
            consents[k].scopes \cup ApprovedInStoredMode(consents[k].client, consents[k].subject)
      BY <3>1 DEF LegacyInv
    <3>3. ASSUME NEW shown, shown = consents[k]
          PROVE  ApprovedInStoredMode(shown.client, shown.subject)
                   \subseteq ApprovedInStoredMode(shown.client, shown.subject)'
      BY <2>4
    <3>4. ASSUME NEW shown, shown = consents[k]
          PROVE  approvals[b].scopes \subseteq
                   shown.scopes \cup ApprovedInStoredMode(shown.client, shown.subject)'
      BY <3>2, <3>3, <3>4
    <3>5. consents'[approvals'[b].jti] = consents[k]
      BY <1>1, <3>1
    <3> QED BY <3>1, <3>4, <3>5 DEF ApprovedInStoredMode
  <2>11. \A t \in DOMAIN refreshTokens' : refreshTokens'[t].generation = Generation =>
           \A grant : grant = refreshTokens'[t].grant => Approved(grant)'
    BY <2>1, <2>8 DEF LegacyInv
  <2>12. /\ storedCodes' \subseteq DOMAIN codeFor'
         /\ \A c \in DOMAIN codeFor' : codeFor'[c] \in DOMAIN consents'
         /\ \A f \in DOMAIN redeemed' : redeemed'[f].config.stored => redeemed'[f].code \in storedCodes'
    BY <1>1, <2>2, <2>3 DEF LegacyInv
  <2> QED BY <2>9, <2>10, <2>11, <2>12 DEF LegacyInv, Approved
<1> QED BY <1>3, <1>4

\* A token of the stored generation comes of a code that stored mode committed.
LEMMA LegacyRedeem ==
  ASSUME LegacyInv, NEW config, NEW code, NEW family, NEW token, NEW now,
         Redeem(config, code, family, token, now)
  PROVE  LegacyInv'
<1> DEFINE record == ConsumeAuthCodeAnswer(code, now, ExpectedGeneration(config), Resource)
           row == RootRow(family, record.grant, record.resource, record.generation,
                          now + RefreshTtl)
           source == [code |-> code, config |-> config]
<1>1. /\ \A c \in DOMAIN authCodes' : c \in DOMAIN authCodes /\ authCodes'[c] = authCodes[c]
      /\ UNCHANGED <<consents, approvals, codeFor, serving, storedCodes>>
      /\ code \in DOMAIN authCodes /\ family \notin DOMAIN redeemed
  BY DEF Redeem, Restrict
<1>2. /\ record # None => record = authCodes[code]
      /\ record # None /\ config.stored => authCodes[code].generation = Generation
  BY ClientsAssumption DEF ConsumeAuthCodeAnswer, ExpectedGeneration
<1>3. row.grant = record.grant /\ row.generation = record.generation
  BY DEF RootRow
<1>4. \/ UNCHANGED <<refreshTokens, redeemed>>
      \/ record # None /\ refreshTokens' = Put(refreshTokens, token, row)
                       /\ redeemed' = Put(redeemed, family, source)
  BY DEF Redeem, InsertToken, tokenRows
<1> HIDE DEF record, row
<1>5. \A t \in DOMAIN refreshTokens' : refreshTokens'[t].generation = Generation =>
        Approved(refreshTokens'[t].grant)
  <2>1. CASE UNCHANGED <<refreshTokens, redeemed>>
    BY <2>1 DEF LegacyInv
  <2>2. CASE record # None /\ refreshTokens' = Put(refreshTokens, token, row)
    <3>1. row.generation = Generation => Approved(row.grant)
      BY <1>1, <1>2, <1>3, <2>2 DEF LegacyInv
    <3> QED BY <2>2, <3>1 DEF Put, LegacyInv
  <2> QED BY <1>4, <2>1, <2>2
<1>6. \A f \in DOMAIN redeemed' : redeemed'[f].config.stored => redeemed'[f].code \in storedCodes
  <2>1. CASE UNCHANGED <<refreshTokens, redeemed>>
    BY <2>1 DEF LegacyInv
  <2>2. CASE record # None /\ redeemed' = Put(redeemed, family, source)
    <3>1. config.stored => code \in storedCodes
      BY <1>1, <1>2, <2>2 DEF LegacyInv
    <3> QED BY <2>2, <3>1 DEF Put, LegacyInv
  <2> QED BY <1>4, <2>1, <2>2
<1>7. \A client, subject :
        ApprovedInStoredMode(client, subject)' = ApprovedInStoredMode(client, subject)
  BY <1>1 DEF ApprovedInStoredMode
<1>8. \A grant : Approved(grant)' <=> Approved(grant)
  BY <1>7 DEF Approved
<1>9. /\ \A c \in DOMAIN authCodes' : c \in storedCodes => Approved(authCodes'[c].grant)
      /\ \A c \in DOMAIN authCodes' :
           c \in DOMAIN codeFor /\ (authCodes'[c].generation = Generation => c \in storedCodes)
  BY <1>1 DEF LegacyInv
<1>10. ASSUME NEW a \in Approvals, approvals'[a].pc = "commit", serving'[a].config.stored
       PROVE  (approvals[a].scopes \subseteq
                 consents[approvals[a].jti].scopes
                 \cup ApprovedInStoredMode(consents[approvals[a].jti].client,
                                           consents[approvals[a].jti].subject))'
  BY <1>1, <1>10 DEF LegacyInv, ApprovedInStoredMode
<1> QED BY <1>1, <1>5, <1>6, <1>8, <1>9, <1>10 DEF LegacyInv, Approved

\* Every step keeps grants of stateless mode out.
LEMMA LegacyStep ==
  AuthorizeTypeOK /\ ServingOK /\ LegacyInv /\ [ClientsNext]_clientsVars => LegacyInv'
<1> SUFFICES ASSUME AuthorizeTypeOK, ServingOK, LegacyInv, [ClientsNext]_clientsVars
             PROVE  LegacyInv'
  OBVIOUS
<1>1. ASSUME UNCHANGED authorizeVars, UNCHANGED <<serving, storedCodes, redeemed>>
      PROVE  LegacyInv'
  BY <1>1, LegacyFrame DEF authorizeVars, storeVars
<1>2. ASSUME NEW config, NEW client, NEW registration, Register(config, client, registration)
      PROVE  LegacyInv'
  BY <1>1, <1>2 DEF Register
<1>3. ASSUME NEW a \in Approvals, ApproveAt(a) PROVE LegacyInv'
  BY <1>3, LegacySlot, LegacySettle, LegacyCommit DEF ApproveAt
<1>4. CASE UNCHANGED clientsVars
  BY <1>1, <1>4 DEF clientsVars, clientVars
<1> QED BY <1>2, <1>3, <1>4, LegacyPrepare, LegacyRedeem DEF ClientsNext

\* A code that a stored-mode process redeems was committed in stored mode, and
\* a code committed there carries no scope but those its user approved there,
\* also while stateless processes share the store (authorize.ts approve,
\* token.ts, stored-dcr-generation.ts expectedDcrGrantGeneration).
THEOREM LegacyStaysOutCorrect == ClientsSpec => []LegacyStaysOut
<1>1. ClientsInit => AuthorizeTypeOK /\ ServingOK /\ LegacyInv
  BY ClientsTypeInit
     DEF ClientsInit, AuthorizeInit, StoreInit, ServingOK, Servings, NotServing, NoApproval,
         LegacyInv
<1>2. AuthorizeTypeOK /\ ServingOK /\ LegacyInv /\ [ClientsNext]_clientsVars
      => (AuthorizeTypeOK /\ ServingOK /\ LegacyInv)'
  BY ClientsTypeStep, ServingStep, LegacyStep
<1>3. LegacyInv => LegacyStaysOut
  BY DEF LegacyInv, LegacyStaysOut, Approved
<1> QED BY <1>1, <1>2, <1>3, PTL DEF ClientsSpec

-----------------------------------------------------------------------------
(* Upstream: the invariant *)

IdpCode == [login : Logins, identity : Identities, spent : BOOLEAN]

CallbackSlot == [pc : {"idle", "spend", "exchange", "complete"}, login : Logins \cup {None},
                 code : IdpCodes \cup {None}, identity : Identities \cup {None}]

\* What the flow keeps has its type; consents are prepared by callbacks alone,
\* under JTIs that name no login.
UpstreamTypeOK ==
  /\ IsMap(logins, Logins, Requests \cup {None})
  /\ IsMap(idpCodes, IdpCodes, IdpCode)
  /\ callbacks \in [Callbacks -> CallbackSlot]
  /\ exchanges \in [Logins -> {0, 1}]
  /\ DOMAIN origin = DOMAIN consents
  /\ \A k \in DOMAIN origin : origin[k] \in DOMAIN idpCodes

\* A callback past the store, in front of the provider or behind it.
Live(h) == callbacks[h].pc \in {"exchange", "complete"}

\* A callback holds a login of this bridge, and what the provider answered.
CallbackInv ==
  \A h \in Callbacks :
    LET callback == callbacks[h] IN
    /\ callback.pc # "idle" => callback.login \in DOMAIN logins
    /\ callback.pc = "complete" =>
         /\ callback.code \in DOMAIN idpCodes
         /\ idpCodes[callback.code].login = callback.login
         /\ idpCodes[callback.code].identity = callback.identity

\* The login behind a consent.
LoginBehind(k) == idpCodes[origin[k]].login

\* A login that went on to the provider is spent in the store, and is spoken for
\* by one callback or by one consent.
OnceInv ==
  /\ \A j \in Logins : exchanges[j] = 1 => JtiSpent(j, JtiExpiry[j])
  /\ \A h \in Callbacks : Live(h) => exchanges[callbacks[h].login] = 1
  /\ \A k \in DOMAIN origin : exchanges[LoginBehind(k)] = 1
  /\ \A g, h \in Callbacks : Live(g) /\ Live(h) /\ callbacks[g].login = callbacks[h].login => g = h
  /\ \A h \in Callbacks, k \in DOMAIN origin : Live(h) => callbacks[h].login # LoginBehind(k)
  /\ \A k, m \in DOMAIN origin : LoginBehind(k) = LoginBehind(m) => k = m

\* A consent says what its login asked for and what the provider answered.
OriginInv ==
  \A k \in DOMAIN origin :
    LET request == logins[LoginBehind(k)]
        identity == idpCodes[origin[k]].identity
    IN /\ LoginBehind(k) \in DOMAIN logins /\ request # None
       /\ consents[k].client = request.client /\ consents[k].binding = request.binding
       /\ consents[k].subject = identity.subject
       /\ consents[k].ceiling = identity.ceiling

UpstreamInv == AuthorizeInv /\ UpstreamTypeOK /\ CallbackInv /\ OnceInv /\ OriginInv

-----------------------------------------------------------------------------
(* Upstream: the authorization use case under the flow *)

\* What a spent JTI does not lose.
SpentKept == \A j \in Jtis : JtiSpent(j, JtiExpiry[j]) => JtiSpent(j, JtiExpiry[j])'

\* Spending a JTI, of a login or of a consent, disturbs no approval.
LEMMA ConsumedKeeps ==
  ASSUME AuthorizeInv, NEW j \in Jtis, ConsumeConsentJti(j, JtiExpiry[j]),
         UNCHANGED <<consents, approvals, codeFor, copy>>
  PROVE  AuthorizeInv' /\ SpentKept
<1>1. /\ UNCHANGED <<authCodes, sweptThrough, storeInstanceId>>
      /\ \/ UNCHANGED consentJtis
         \/ consentJtis' = Put(consentJtis, j, JtiExpiry[j])
  BY DEF ConsumeConsentJti, consentRows
<1>2. /\ \A k \in DOMAIN consentJtis : k \in DOMAIN consentJtis'
      /\ \A k \in DOMAIN consentJtis' :
           consentJtis'[k] = IF k \in DOMAIN consentJtis THEN consentJtis[k] ELSE JtiExpiry[k]
  BY <1>1 DEF Put, AuthorizeInv, ConsentFence
<1>3. AuthorizeTypeOK'
  <2>1. StoreTypeOK'
    BY ConsumeJtiType, JtiExpiryAssumption DEF AuthorizeInv, AuthorizeTypeOK
  <2> QED BY <2>1 DEF AuthorizeInv, AuthorizeTypeOK, CopyOK
<1>4. SpentKept
  BY <1>1, <1>2 DEF SpentKept, JtiSpent
<1>5. ConsentFence'
  BY <1>1, <1>2 DEF AuthorizeInv, ConsentFence, JtiSpent
<1>6. OneCodePerConsent' /\ WithinInv'
  BY <1>1 DEF AuthorizeInv, OneCodePerConsent, WithinInv, WithinConsent
<1> QED BY <1>3, <1>4, <1>5, <1>6 DEF AuthorizeInv

\* What a callback prepares is a configured flow.
LEMMA PreparedFlow ==
  ASSUME UpstreamInv, NEW h \in Callbacks, callbacks[h].pc = "complete",
         logins[callbacks[h].login] # None
  PROVE  Prepared(callbacks[h].login, callbacks[h].identity) \in Flows
<1>1. callbacks[h].login \in DOMAIN logins /\ callbacks[h].code \in DOMAIN idpCodes
      /\ idpCodes[callbacks[h].code].identity = callbacks[h].identity
  BY DEF UpstreamInv, CallbackInv
<1>2. logins[callbacks[h].login] \in Requests /\ callbacks[h].identity \in Identities
  BY <1>1 DEF UpstreamInv, UpstreamTypeOK, IdpCode
<1> QED BY <1>2, RequestsAssumption DEF Prepared

\* An approval spends JTIs and forgets none.
LEMMA ApproveSpent ==
  ASSUME NEW a \in Approvals, ApproveStep(a)
  PROVE  SpentKept /\ UNCHANGED consents
<1>1. CASE (\E j \in Jtis, now \in Times : Verify(a, j, now)) \/ CheckBinding(a)
           \/ ReadPrior(a) \/ Abandon(a)
  BY <1>1 DEF Verify, CheckBinding, ReadPrior, ReadPriorAs, Abandon, storeVars, SpentKept,
              JtiSpent
<1>2. ASSUME NEW code \in Codes, NEW later \in Times, Commit(a, code, later)
      PROVE  SpentKept /\ UNCHANGED consents
  <2>1. /\ \A j \in DOMAIN consentJtis : j \in DOMAIN consentJtis'
        /\ UNCHANGED <<sweptThrough, consents>>
    BY <1>2 DEF Commit, CommitAs, CommitConsentApproval, Put
  <2> QED BY <2>1 DEF SpentKept, JtiSpent
<1> QED BY <1>1, <1>2 DEF ApproveStep

\* Every step of the flow keeps the authorization use case's invariant, and no
\* JTI once spent is ever accepted again.
LEMMA FlowKeepsAuthorize ==
  ASSUME UpstreamInv, [UpstreamNext]_upstreamAllVars
  PROVE  AuthorizeInv' /\ SpentKept
<1>0. AuthorizeInv
  BY DEF UpstreamInv
<1>1. CASE UNCHANGED authorizeVars
  BY <1>0, <1>1, AuthorizeInvStep DEF authorizeVars, storeVars, SpentKept, JtiSpent
<1>2. ASSUME NEW h \in Callbacks, SpendLogin(h) \/ SpendLost(h)
      PROVE  AuthorizeInv' /\ SpentKept
  <2>1. callbacks[h].login \in Jtis
    BY <1>2, LoginsAssumption
       DEF UpstreamInv, CallbackInv, UpstreamTypeOK, SpendLogin, SpendLost
  <2>2. /\ ConsumeConsentJti(callbacks[h].login, JtiExpiry[callbacks[h].login])
        /\ UNCHANGED <<consents, approvals, codeFor, copy>>
    BY <1>2 DEF SpendLogin, SpendLost
  <2> QED BY <1>0, <2>1, <2>2, ConsumedKeeps
<1>3. ASSUME NEW h \in Callbacks, NEW k \in Jtis \ Logins, CompleteBridge(h, k)
      PROVE  AuthorizeInv' /\ SpentKept
  <2>1. \E flow \in Flows : Prepare(k, flow)
    BY <1>3, PreparedFlow DEF CompleteBridge
  <2>2. UNCHANGED storeVars
    BY <2>1 DEF Prepare
  <2> QED BY <1>0, <2>1, <2>2, AuthorizeInvStep DEF AuthorizeNext, storeVars, SpentKept, JtiSpent
<1>4. ASSUME NEW a \in Approvals, ApproveStep(a)
      PROVE  AuthorizeInv' /\ SpentKept
  BY <1>0, <1>4, AuthorizeInvStep, ApproveSpent DEF AuthorizeNext
<1>5. ASSUME NEW now \in Times, SweepExpired(now),
             UNCHANGED <<consents, approvals, codeFor, copy>>
      PROVE  AuthorizeInv' /\ SpentKept
  <2>1. AuthorizeInv'
    BY <1>0, <1>5, AuthorizeInvStep DEF AuthorizeNext, Deployment
  <2>2. SpentKept
    BY <1>0, <1>5, SpentThroughSweep DEF AuthorizeInv, SpentKept
  <2> QED BY <2>1, <2>2
<1> QED
  BY <1>1, <1>2, <1>3, <1>4, <1>5
     DEF UpstreamNext, upstreamAllVars, Start, SignIn, Callback, Exchange, EndCallback

-----------------------------------------------------------------------------
(* Upstream: the steps of the flow *)

FlowInv == UpstreamTypeOK /\ CallbackInv /\ OnceInv /\ OriginInv

\* A fresh slot is typed and idle.
LEMMA NoCallbackType == NoCallback \in CallbackSlot /\ NoCallback.pc = "idle"
BY DEF NoCallback, CallbackSlot

\* A slot that moves without going on to the provider.
LEMMA SlotMoves ==
  ASSUME UpstreamInv, SpentKept, NEW h \in Callbacks, NEW callback \in CallbackSlot,
         SetCallback(h, callback), callback.pc \in {"idle", "spend"},
         callback.pc = "spend" => callback.login \in DOMAIN logins,
         UNCHANGED <<consents, logins, idpCodes, exchanges, origin>>
  PROVE  FlowInv'
<1>0. UpstreamTypeOK /\ CallbackInv /\ OnceInv /\ OriginInv
  BY DEF UpstreamInv
<1>1. /\ callbacks' \in [Callbacks -> CallbackSlot]
      /\ callbacks'[h] = callback
      /\ \A g \in Callbacks \ {h} : callbacks'[g] = callbacks[g]
  BY <1>0 DEF SetCallback, UpstreamTypeOK
<1>2. UpstreamTypeOK'
  BY <1>0, <1>1 DEF UpstreamTypeOK
<1>3. CallbackInv'
  BY <1>0, <1>1 DEF CallbackInv
<1>4. ~Live(h)' /\ \A g \in Callbacks : Live(g)' => Live(g) /\ callbacks'[g] = callbacks[g]
  BY <1>1 DEF Live
<1>5. OnceInv'
  <2>1. \A j \in Logins : exchanges'[j] = 1 => JtiSpent(j, JtiExpiry[j])'
    BY <1>0, LoginsAssumption DEF OnceInv, SpentKept
  <2> QED BY <1>0, <1>4, <2>1 DEF OnceInv, LoginBehind
<1>6. OriginInv'
  BY <1>0 DEF OriginInv, LoginBehind
<1> QED BY <1>2, <1>3, <1>5, <1>6 DEF FlowInv

\* A login starts; no callback and no consent has it yet.
LEMMA StartKeeps ==
  ASSUME UpstreamInv, NEW j \in Logins, NEW request \in Requests \cup {None}, Start(j, request)
  PROVE  FlowInv'
<1>0. UpstreamTypeOK /\ CallbackInv /\ OnceInv /\ OriginInv
  BY DEF UpstreamInv
<1>1. /\ DOMAIN logins' = DOMAIN logins \cup {j} /\ logins'[j] = request
      /\ \A k \in DOMAIN logins : logins'[k] = logins[k]
      /\ UNCHANGED <<consents, idpCodes, callbacks, exchanges, origin>>
      /\ UNCHANGED <<consentJtis, sweptThrough>>
  BY DEF Start, Put, authorizeVars, storeVars
<1>2. UpstreamTypeOK' /\ CallbackInv'
  BY <1>0, <1>1 DEF UpstreamTypeOK, CallbackInv
<1>3. OnceInv'
  BY <1>0, <1>1 DEF OnceInv, Live, LoginBehind, JtiSpent
<1>4. OriginInv'
  BY <1>0, <1>1 DEF OriginInv, LoginBehind
<1> QED BY <1>2, <1>3, <1>4 DEF FlowInv

\* The provider issues a code nobody has presented yet.
LEMMA SignInKeeps ==
  ASSUME UpstreamInv, NEW code \in IdpCodes, NEW j \in Logins, NEW identity \in Identities,
         SignIn(code, j, identity)
  PROVE  FlowInv'
<1>0. UpstreamTypeOK /\ CallbackInv /\ OnceInv /\ OriginInv
  BY DEF UpstreamInv
<1>1. /\ DOMAIN idpCodes' = DOMAIN idpCodes \cup {code} /\ idpCodes'[code] \in IdpCode
      /\ \A c \in DOMAIN idpCodes : idpCodes'[c] = idpCodes[c]
      /\ UNCHANGED <<consents, logins, callbacks, exchanges, origin>>
      /\ UNCHANGED <<consentJtis, sweptThrough>>
  BY DEF SignIn, Put, IdpCode, authorizeVars, storeVars
<1>2. UpstreamTypeOK' /\ CallbackInv'
  BY <1>0, <1>1 DEF UpstreamTypeOK, CallbackInv
<1>3. \A k \in DOMAIN origin : idpCodes'[origin[k]] = idpCodes[origin[k]]
  BY <1>0, <1>1 DEF UpstreamTypeOK
<1>4. OnceInv'
  BY <1>0, <1>1, <1>3 DEF OnceInv, Live, LoginBehind, JtiSpent
<1>5. OriginInv'
  BY <1>0, <1>1, <1>3 DEF OriginInv, LoginBehind
<1> QED BY <1>2, <1>4, <1>5 DEF FlowInv

\* The one callback that spends a login goes on; every other is turned away.
LEMMA SpendKeeps ==
  ASSUME UpstreamInv, SpentKept, NEW h \in Callbacks, SpendLogin(h)
  PROVE  FlowInv'
<1>0. UpstreamTypeOK /\ CallbackInv /\ OnceInv /\ OriginInv /\ AuthorizeInv
  BY DEF UpstreamInv
<1> PICK j : j = callbacks[h].login
  OBVIOUS
<1>1. /\ callbacks[h].pc = "spend" /\ ConsumeConsentJti(j, JtiExpiry[j])
      /\ IF GoesOn(j, callbacks[h].code)
         THEN /\ SetCallback(h, [callbacks[h] EXCEPT !.pc = "exchange"])
              /\ exchanges' = [exchanges EXCEPT ![j] = @ + 1]
         ELSE Respond(h) /\ UNCHANGED exchanges
      /\ UNCHANGED <<consents, logins, idpCodes, origin>>
  BY DEF SpendLogin
<1>2. callbacks[h] \in CallbackSlot /\ j \in DOMAIN logins /\ j \in Logins
  BY <1>0, <1>1 DEF CallbackInv, UpstreamTypeOK
<1>3. CASE ~GoesOn(j, callbacks[h].code)
  BY <1>1, <1>3, NoCallbackType, SlotMoves DEF Respond
<1>4. CASE GoesOn(j, callbacks[h].code)
  <2> DEFINE callback == [callbacks[h] EXCEPT !.pc = "exchange"]
  <2>1. callback \in CallbackSlot /\ callback.pc = "exchange" /\ callback.login = j
    BY <1>2 DEF CallbackSlot
  <2>2. callbacks' = [callbacks EXCEPT ![h] = callback]
    BY <1>1, <1>4 DEF SetCallback
  <2> HIDE DEF callback
  <2>3. /\ callbacks' \in [Callbacks -> CallbackSlot] /\ callbacks'[h] = callback
        /\ \A g \in Callbacks \ {h} : callbacks'[g] = callbacks[g]
    BY <1>0, <2>1, <2>2 DEF UpstreamTypeOK
  <2>4. ~JtiSpent(j, JtiExpiry[j]) /\ consentJtis' = Put(consentJtis, j, JtiExpiry[j])
    BY <1>1, <1>4 DEF GoesOn, ConsumeConsentJtiAnswer, ConsumeConsentJti
  <2>5. exchanges[j] = 0
    BY <1>0, <1>2, <2>4 DEF OnceInv, UpstreamTypeOK
  <2>6. /\ exchanges' \in [Logins -> {0, 1}] /\ exchanges'[j] = 1
        /\ \A k \in Logins \ {j} : exchanges'[k] = exchanges[k]
    BY <1>0, <1>1, <1>2, <1>4, <2>5 DEF UpstreamTypeOK
  <2>7. UpstreamTypeOK'
    BY <1>0, <1>1, <2>3, <2>6 DEF UpstreamTypeOK
  <2>8. CallbackInv'
    BY <1>0, <1>1, <1>2, <2>1, <2>3 DEF CallbackInv
  <2>9. OriginInv'
    BY <1>0, <1>1 DEF OriginInv, LoginBehind
  <2>10. /\ \A g \in Callbacks : Live(g) => callbacks[g].login # j /\ callbacks[g].login \in Logins
         /\ \A k \in DOMAIN origin : LoginBehind(k) # j /\ LoginBehind(k) \in Logins
    <3>1. \A g \in Callbacks : Live(g) => callbacks[g].login \in Logins
      BY <1>0 DEF CallbackInv, Live, UpstreamTypeOK
    <3>2. \A k \in DOMAIN origin : LoginBehind(k) \in Logins
      BY <1>0 DEF LoginBehind, UpstreamTypeOK, IdpCode
    <3> QED BY <1>0, <2>5, <3>1, <3>2 DEF OnceInv
  <2>11. /\ \A g \in Callbacks \ {h} : Live(g)' => Live(g) /\ callbacks'[g].login # j
         /\ \A k \in DOMAIN origin : LoginBehind(k)' = LoginBehind(k)
    BY <1>1, <2>3, <2>10 DEF Live, LoginBehind
  <2>12. \A k \in Logins : exchanges'[k] = 1 => JtiSpent(k, JtiExpiry[k])'
    <3>1. JtiSpent(j, JtiExpiry[j])'
      BY <2>4 DEF JtiSpent, Put
    <3> QED BY <1>0, <2>6, <3>1, LoginsAssumption DEF OnceInv, SpentKept
  <2>13. OnceInv'
    <3>1. \A g \in Callbacks : Live(g)' => exchanges'[callbacks'[g].login] = 1
      BY <1>0, <2>1, <2>3, <2>6, <2>10, <2>11 DEF OnceInv
    <3>2. \A k \in DOMAIN origin' : exchanges'[LoginBehind(k)'] = 1
      BY <1>0, <1>1, <2>6, <2>10, <2>11 DEF OnceInv
    <3>3. \A f, g \in Callbacks :
            Live(f)' /\ Live(g)' /\ callbacks'[f].login = callbacks'[g].login => f = g
      BY <1>0, <2>1, <2>3, <2>11 DEF OnceInv
    <3>4. \A g \in Callbacks, k \in DOMAIN origin' :
            Live(g)' => callbacks'[g].login # LoginBehind(k)'
      BY <1>0, <1>1, <2>1, <2>3, <2>10, <2>11 DEF OnceInv
    <3>5. \A k, m \in DOMAIN origin' : LoginBehind(k)' = LoginBehind(m)' => k = m
      BY <1>0, <1>1, <2>11 DEF OnceInv
    <3> QED BY <2>12, <3>1, <3>2, <3>3, <3>4, <3>5 DEF OnceInv
  <2> QED BY <2>7, <2>8, <2>9, <2>13 DEF FlowInv
<1> QED BY <1>3, <1>4

\* The provider's answer is that of the login the callback is for.
LEMMA ExchangeKeeps ==
  ASSUME UpstreamInv, NEW h \in Callbacks, Exchange(h)
  PROVE  FlowInv'
<1>0. UpstreamTypeOK /\ CallbackInv /\ OnceInv /\ OriginInv
  BY DEF UpstreamInv
<1> PICK code : code = callbacks[h].code
  OBVIOUS
<1> DEFINE callback == [callbacks[h] EXCEPT !.pc = "complete", !.identity = idpCodes[code].identity]
<1>1. /\ callbacks[h].pc = "exchange" /\ code \in DOMAIN idpCodes
      /\ idpCodes[code].login = callbacks[h].login
      /\ idpCodes' = [idpCodes EXCEPT ![code].spent = TRUE]
      /\ callbacks' = [callbacks EXCEPT ![h] = callback]
      /\ UNCHANGED <<consents, logins, exchanges, origin, consentJtis, sweptThrough>>
  BY DEF Exchange, SetCallback, authorizeVars, storeVars
<1>2. /\ callbacks[h] \in CallbackSlot /\ callbacks[h].login \in DOMAIN logins
      /\ \A c \in DOMAIN idpCodes : idpCodes[c] \in IdpCode
  BY <1>0, <1>1 DEF CallbackInv, UpstreamTypeOK
<1>3. /\ callback \in CallbackSlot /\ callback.pc = "complete" /\ callback.code = code
      /\ callback.login = callbacks[h].login /\ callback.identity = idpCodes[code].identity
  BY <1>1, <1>2 DEF CallbackSlot, IdpCode
<1>4. /\ DOMAIN idpCodes' = DOMAIN idpCodes
      /\ \A c \in DOMAIN idpCodes : /\ idpCodes'[c] \in IdpCode
                                    /\ idpCodes'[c].login = idpCodes[c].login
                                    /\ idpCodes'[c].identity = idpCodes[c].identity
  BY <1>1, <1>2 DEF IdpCode
<1> HIDE DEF callback
<1>5. /\ callbacks' \in [Callbacks -> CallbackSlot] /\ callbacks'[h] = callback
      /\ \A g \in Callbacks \ {h} : callbacks'[g] = callbacks[g]
  BY <1>0, <1>1, <1>3 DEF UpstreamTypeOK
<1>6. UpstreamTypeOK'
  BY <1>0, <1>1, <1>4, <1>5 DEF UpstreamTypeOK
<1>7. CallbackInv'
  BY <1>0, <1>1, <1>2, <1>3, <1>4, <1>5 DEF CallbackInv
<1>8. \A k \in DOMAIN origin : /\ LoginBehind(k)' = LoginBehind(k)
                               /\ idpCodes'[origin[k]].identity = idpCodes[origin[k]].identity
  BY <1>0, <1>1, <1>4 DEF UpstreamTypeOK, LoginBehind
<1>9. \A g \in Callbacks : (Live(g)' <=> Live(g)) /\ callbacks'[g].login = callbacks[g].login
  BY <1>1, <1>3, <1>5 DEF Live
<1>10. OnceInv'
  BY <1>0, <1>1, <1>8, <1>9 DEF OnceInv, JtiSpent
<1>11. OriginInv'
  BY <1>0, <1>1, <1>8 DEF OriginInv
<1> QED BY <1>6, <1>7, <1>10, <1>11 DEF FlowInv

\* The consent a callback prepares takes over its login.
LEMMA CompleteKeeps ==
  ASSUME UpstreamInv, NEW h \in Callbacks, NEW k \in Jtis \ Logins, CompleteBridge(h, k)
  PROVE  FlowInv'
<1>0. UpstreamTypeOK /\ CallbackInv /\ OnceInv /\ OriginInv
  BY DEF UpstreamInv
<1> PICK j, code, identity : /\ j = callbacks[h].login /\ code = callbacks[h].code
                             /\ identity = callbacks[h].identity
  OBVIOUS
<1>1. /\ callbacks[h].pc = "complete" /\ logins[j] # None
      /\ Prepare(k, Prepared(j, identity))
      /\ origin' = Put(origin, k, code)
      /\ callbacks' = [callbacks EXCEPT ![h] = NoCallback]
      /\ UNCHANGED <<logins, idpCodes, exchanges>>
  BY DEF CompleteBridge, Respond, SetCallback
<1>2. /\ j \in DOMAIN logins /\ code \in DOMAIN idpCodes
      /\ idpCodes[code].login = j /\ idpCodes[code].identity = identity
  BY <1>0, <1>1 DEF CallbackInv
<1>3. /\ k \notin DOMAIN consents /\ DOMAIN consents' = DOMAIN consents \cup {k}
      /\ \A m \in DOMAIN consents : consents'[m] = consents[m]
      /\ consents'[k].client = logins[j].client /\ consents'[k].binding = logins[j].binding
      /\ consents'[k].subject = identity.subject /\ consents'[k].ceiling = identity.ceiling
      /\ UNCHANGED <<consentJtis, sweptThrough>>
  BY <1>1 DEF Prepare, Prepared, Put, storeVars
<1>4. /\ k \notin DOMAIN origin /\ DOMAIN origin' = DOMAIN origin \cup {k}
      /\ origin'[k] = code
      /\ \A m \in DOMAIN origin : origin'[m] = origin[m]
  BY <1>0, <1>1, <1>3 DEF UpstreamTypeOK, Put
<1>5. /\ callbacks' \in [Callbacks -> CallbackSlot] /\ callbacks'[h].pc = "idle"
      /\ \A g \in Callbacks \ {h} : callbacks'[g] = callbacks[g]
  BY <1>0, <1>1, NoCallbackType DEF UpstreamTypeOK
<1>6. UpstreamTypeOK'
  BY <1>0, <1>1, <1>2, <1>3, <1>4, <1>5 DEF UpstreamTypeOK
<1>7. CallbackInv'
  BY <1>0, <1>1, <1>5 DEF CallbackInv
<1>8. /\ LoginBehind(k)' = j
      /\ \A m \in DOMAIN origin : LoginBehind(m)' = LoginBehind(m)
  BY <1>1, <1>2, <1>4 DEF LoginBehind
<1>9. Live(h) /\ \A g \in Callbacks : Live(g)' => g # h /\ Live(g) /\ callbacks'[g] = callbacks[g]
  BY <1>1, <1>5 DEF Live
<1>10. OnceInv'
  <2>1. \A g \in Logins : exchanges'[g] = 1 => JtiSpent(g, JtiExpiry[g])'
    BY <1>0, <1>1, <1>3 DEF OnceInv, JtiSpent
  <2>2. \A g \in Callbacks : Live(g)' => exchanges'[callbacks'[g].login] = 1
    BY <1>0, <1>1, <1>9 DEF OnceInv
  <2>3. \A m \in DOMAIN origin' : exchanges'[LoginBehind(m)'] = 1
    BY <1>0, <1>1, <1>4, <1>8, <1>9 DEF OnceInv
  <2>4. \A f, g \in Callbacks :
          Live(f)' /\ Live(g)' /\ callbacks'[f].login = callbacks'[g].login => f = g
    BY <1>0, <1>9 DEF OnceInv
  <2>5. \A g \in Callbacks, m \in DOMAIN origin' :
          Live(g)' => callbacks'[g].login # LoginBehind(m)'
    BY <1>0, <1>4, <1>8, <1>9 DEF OnceInv
  <2>6. \A l, m \in DOMAIN origin' : LoginBehind(l)' = LoginBehind(m)' => l = m
    BY <1>0, <1>4, <1>8, <1>9 DEF OnceInv
  <2> QED BY <2>1, <2>2, <2>3, <2>4, <2>5, <2>6 DEF OnceInv
<1>11. OriginInv'
  <2>1. ASSUME NEW m \in DOMAIN origin', m # k
        PROVE  LET request == logins'[LoginBehind(m)']
                   someone == idpCodes'[origin'[m]].identity
               IN /\ LoginBehind(m)' \in DOMAIN logins' /\ request # None
                  /\ consents'[m].client = request.client
                  /\ consents'[m].binding = request.binding
                  /\ consents'[m].subject = someone.subject
                  /\ consents'[m].ceiling = someone.ceiling
    BY <1>0, <1>1, <1>3, <1>4, <1>8, <2>1 DEF OriginInv, UpstreamTypeOK
  <2>2. LET request == logins'[LoginBehind(k)']
            someone == idpCodes'[origin'[k]].identity
        IN /\ LoginBehind(k)' \in DOMAIN logins' /\ request # None
           /\ consents'[k].client = request.client
           /\ consents'[k].binding = request.binding
           /\ consents'[k].subject = someone.subject
           /\ consents'[k].ceiling = someone.ceiling
    BY <1>1, <1>2, <1>3, <1>4, <1>8
  <2> QED BY <2>1, <2>2 DEF OriginInv
<1> QED BY <1>6, <1>7, <1>10, <1>11 DEF FlowInv

\* Approvals and sweeps leave the flow alone.
LEMMA FlowFrame ==
  ASSUME UpstreamInv, SpentKept, UNCHANGED <<upstreamVars, consents>>
  PROVE  FlowInv'
<1>0. UpstreamTypeOK /\ CallbackInv /\ OnceInv /\ OriginInv
  BY DEF UpstreamInv
<1>1. UNCHANGED <<logins, idpCodes, callbacks, exchanges, origin, consents>>
  BY DEF upstreamVars
<1>2. UpstreamTypeOK' /\ CallbackInv' /\ OriginInv'
  BY <1>0, <1>1 DEF UpstreamTypeOK, CallbackInv, OriginInv, LoginBehind
<1>3. OnceInv'
  BY <1>0, <1>1, LoginsAssumption DEF OnceInv, Live, LoginBehind, SpentKept
<1> QED BY <1>2, <1>3 DEF FlowInv

\* Every step of a callback.
LEMMA CallbackKeeps ==
  ASSUME UpstreamInv, SpentKept, NEW h \in Callbacks,
         \/ \E j \in Logins, code \in IdpCodes \cup {None}, now \in Times :
              Callback(h, j, code, now)
         \/ SpendLogin(h) \/ SpendLost(h) \/ Exchange(h)
         \/ \E j \in Jtis \ Logins : CompleteBridge(h, j)
         \/ EndCallback(h)
  PROVE  FlowInv'
<1>1. ASSUME NEW j \in Logins, NEW code \in IdpCodes \cup {None}, NEW now \in Times,
             Callback(h, j, code, now)
      PROVE  FlowInv'
  <2> DEFINE callback == [NoCallback EXCEPT !.pc = "spend", !.login = j, !.code = code]
  <2>1. callback \in CallbackSlot /\ callback.pc = "spend" /\ callback.login = j
    BY DEF NoCallback, CallbackSlot
  <2>2. /\ SetCallback(h, callback) /\ j \in DOMAIN logins
        /\ UNCHANGED <<consents, logins, idpCodes, exchanges, origin>>
    BY <1>1 DEF Callback, authorizeVars
  <2> HIDE DEF callback
  <2> QED BY <2>1, <2>2, SlotMoves
<1>2. CASE SpendLost(h) \/ EndCallback(h)
  BY <1>2, NoCallbackType, SlotMoves DEF SpendLost, EndCallback, Respond, authorizeVars
<1> QED BY <1>1, <1>2, SpendKeeps, ExchangeKeeps, CompleteKeeps

\* The initial state.
LEMMA UpstreamInvInit == UpstreamInit => UpstreamInv
<1> SUFFICES ASSUME UpstreamInit PROVE UpstreamInv
  OBVIOUS
<1>1. /\ DOMAIN logins = {} /\ DOMAIN idpCodes = {} /\ DOMAIN origin = {}
      /\ DOMAIN consents = {} /\ \A j \in Logins : exchanges[j] = 0
      /\ exchanges \in [Logins -> {0, 1}]
      /\ callbacks \in [Callbacks -> CallbackSlot]
      /\ \A h \in Callbacks : callbacks[h].pc = "idle"
  BY NoCallbackType DEF UpstreamInit, AuthorizeInit
<1>2. AuthorizeInv
  BY AuthorizeInvInit DEF UpstreamInit
<1> QED
  BY <1>1, <1>2 DEF UpstreamInv, UpstreamTypeOK, CallbackInv, OnceInv, Live, OriginInv

\* Every step of the system.
LEMMA UpstreamInvStep == UpstreamInv /\ [UpstreamNext]_upstreamAllVars => UpstreamInv'
<1> SUFFICES ASSUME UpstreamInv, [UpstreamNext]_upstreamAllVars PROVE UpstreamInv'
  OBVIOUS
<1>1. AuthorizeInv' /\ SpentKept
  BY FlowKeepsAuthorize
<1>2. ASSUME NEW j \in Logins, NEW request \in Requests \cup {None}, Start(j, request)
      PROVE  FlowInv'
  BY <1>2, StartKeeps
<1>3. ASSUME NEW code \in IdpCodes, NEW j \in Logins, NEW identity \in Identities,
             SignIn(code, j, identity)
      PROVE  FlowInv'
  BY <1>3, SignInKeeps
<1>4. ASSUME NEW h \in Callbacks,
             \/ \E j \in Logins, code \in IdpCodes \cup {None}, now \in Times :
                  Callback(h, j, code, now)
             \/ SpendLogin(h) \/ SpendLost(h) \/ Exchange(h)
             \/ \E j \in Jtis \ Logins : CompleteBridge(h, j)
             \/ EndCallback(h)
      PROVE  FlowInv'
  BY <1>1, <1>4, CallbackKeeps
<1>5. ASSUME NEW a \in Approvals, ApproveStep(a), UNCHANGED upstreamVars
      PROVE  FlowInv'
  BY <1>1, <1>5, ApproveSpent, FlowFrame
<1>6. ASSUME UNCHANGED <<upstreamVars, consents>>
      PROVE  FlowInv'
  BY <1>1, <1>6, FlowFrame
<1>7. FlowInv'
  BY <1>2, <1>3, <1>4, <1>5, <1>6 DEF UpstreamNext, upstreamAllVars, authorizeVars
<1> QED BY <1>1, <1>7 DEF UpstreamInv, FlowInv

-----------------------------------------------------------------------------
(* Upstream: what the flow promises *)

\* The invariant holds in every behaviour.
LEMMA UpstreamInvCorrect == UpstreamSpec => []UpstreamInv
BY UpstreamInvInit, UpstreamInvStep, PTL DEF UpstreamSpec

\* At most one of the callbacks that present a flow token reaches the provider
\* (upstream-flow-callback.ts, row 6): whatever they race with, whatever answer
\* of the store was lost, whatever a sweep forgot.
THEOREM OneExchangePerLoginCorrect == UpstreamSpec => []OneExchangePerLogin
<1>1. UpstreamInv => OneExchangePerLogin
  BY DEF UpstreamInv, UpstreamTypeOK, OneExchangePerLogin
<1> QED BY <1>1, UpstreamInvCorrect, PTL

\* A login yields at most one authorization code: the login's JTI and then the
\* consent's, each accepted once.
THEOREM OneCodePerLoginCorrect == UpstreamSpec => []OneCodePerLogin
<1>1. UpstreamInv => OneCodePerLogin
  BY DEF UpstreamInv, OneCodePerLogin, LoginOf, LoginBehind, OnceInv, UpstreamTypeOK,
         AuthorizeInv, OneCodePerConsent, WithinInv
<1> QED BY <1>1, UpstreamInvCorrect, PTL

\* A stored code speaks for the client that asked, and for the account that
\* signed in during that login, under the account's ceiling.
THEOREM CodeOfIdentityCorrect == UpstreamSpec => []CodeOfIdentity
<1>1. ASSUME UpstreamInv, NEW c \in DOMAIN authCodes
      PROVE  /\ codeFor[c] \in DOMAIN origin
             /\ LoginOf(c) = LoginBehind(codeFor[c])
  BY <1>1 DEF UpstreamInv, UpstreamTypeOK, AuthorizeInv, WithinInv, LoginOf, LoginBehind
<1>2. UpstreamInv => CodeOfIdentity
  BY <1>1 DEF UpstreamInv, OriginInv, AuthorizeInv, WithinInv, WithinConsent, CodeOfIdentity
<1> QED BY <1>2, UpstreamInvCorrect, PTL
=============================================================================
