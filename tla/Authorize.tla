----------------------------- MODULE Authorize -----------------------------
(***************************************************************************)
(* OAuthAuthorizationUseCase (src/authorize.ts) over the store: prepare    *)
(* signs a consent token bound to the store's identity; approve verifies   *)
(* it, reads the scopes already granted, and commits the JTI and an        *)
(* authorization code in one store call.  Every await of approve is a step *)
(* boundary.  The same consent may be approved by any number of requests   *)
(* at once, by replicas whose clocks disagree.                             *)
(*                                                                         *)
(* The deployment may also restore a copy of the store; the operator calls *)
(* rotateStoreInstanceId on the copy before it serves (contracts 12).      *)
(***************************************************************************)
EXTENDS Store

CONSTANTS
  Approvals,      \* slots of in-flight approve requests, reused
  Flows,          \* authorize requests: client, subject, scopes, ceiling, binding
  Accumulating,   \* clients of stored DCR with an opaque id
  Resource,       \* config.resource
  Generation,     \* generation stamped on codes and expected of prior grants
  CodeTtl

ASSUME FlowsAssumption ==
  Flows \subseteq [client : Clients, subject : Subjects, scopes : SUBSET Scopes,
                   ceiling : (SUBSET Scopes) \cup {None}, binding : Bindings]
ASSUME ConfigAssumption == Resource \in Resources /\ Generation \in Generations

VARIABLES
  consents,   \* jti -> the signed claims of a consent token
  approvals,  \* slot -> in-flight approve
  codeFor,    \* history: code -> the jti it was committed with
  copy        \* a backup of the store, or None

authorizeVars == <<storeVars, consents, approvals, codeFor, copy>>

NoApproval == [pc |-> "idle", jti |-> None, now |-> 0, scopes |-> {}]

\* A present ceiling narrows; an absent one leaves the scopes alone.
Narrow(scopes, ceiling) == IF ceiling = None THEN scopes ELSE scopes \cap ceiling

-----------------------------------------------------------------------------
\* prepare: an empty intersection with a present ceiling is access_denied.
Prepare(j, flow) ==
  /\ j \notin DOMAIN consents
  /\ flow.ceiling # None => Narrow(flow.scopes, flow.ceiling) # {}
  /\ consents' = Put(consents, j,
       [client |-> flow.client, subject |-> flow.subject, binding |-> flow.binding,
        scopes |-> Narrow(flow.scopes, flow.ceiling), ceiling |-> flow.ceiling,
        instance |-> storeInstanceId])
  /\ UNCHANGED <<storeVars, approvals, codeFor, copy>>

-----------------------------------------------------------------------------
(* approve *)

\* One clock snapshot serves the whole operation up to the commit.
Verify(a, j, now) ==
  /\ approvals[a] = NoApproval
  /\ j \in DOMAIN consents
  /\ JtiExpiry[j] > now
  /\ approvals' = [approvals EXCEPT ![a] = [NoApproval EXCEPT
                     !.pc = "bind", !.jti = j, !.now = now]]
  /\ UNCHANGED <<storeVars, consents, codeFor, copy>>

EndApproval(a) == approvals' = [approvals EXCEPT ![a] = NoApproval]

CheckBinding(a) ==
  /\ approvals[a].pc = "bind"
  /\ IF consents[approvals[a].jti].instance = storeInstanceId
     THEN approvals' = [approvals EXCEPT ![a].pc = "prior"]
     ELSE EndApproval(a)
  /\ UNCHANGED <<storeVars, consents, codeFor, copy>>

\* A slip: prior scopes join after the ceiling was applied.
MutCodeScopes(consent, prior) == Narrow(consent.scopes, consent.ceiling) \cup prior

\* The signed ceiling is applied to the union.
CodeScopes(consent, prior) == Narrow(consent.scopes \cup prior, consent.ceiling)

ReadPriorAs(a, accumulates, generation) ==
  LET approval == approvals[a]
      consent == consents[approval.jti]
      prior == IF accumulates
               THEN FindGrantedScopes(consent.subject, consent.client, approval.now,
                                      generation, Resource)
               ELSE {}
  IN /\ approval.pc = "prior"
     /\ approvals' = [approvals EXCEPT
          ![a].pc = "commit",
          ![a].scopes = CodeScopes(consent, prior)]
     /\ UNCHANGED <<storeVars, consents, codeFor, copy>>

ReadPrior(a) ==
  ReadPriorAs(a, consents[approvals[a].jti].client \in Accumulating, Generation)

CodeOf(approval, later, generation) ==
  LET consent == consents[approval.jti] IN
  [grant |-> [client |-> consent.client, subject |-> consent.subject,
              scopes |-> approval.scopes],
   binding |-> consent.binding, resource |-> Resource, generation |-> generation,
   expiresAt |-> later + CodeTtl]

\* The commit clock is read afresh: not before the first reading, and before
\* the signed expiry.
CommitClock(approval, later) ==
  /\ later >= approval.now
  /\ later < JtiExpiry[approval.jti]
  /\ later + CodeTtl \in Times

CommitAs(a, code, later, generation) ==
  LET approval == approvals[a]
      answer == CommitConsentAnswer(consents[approval.jti].instance, approval.jti,
                                    JtiExpiry[approval.jti])
  IN /\ approval.pc = "commit"
     /\ CommitClock(approval, later)
     /\ code \notin DOMAIN codeFor
     /\ CommitConsentApproval(consents[approval.jti].instance, approval.jti,
                              JtiExpiry[approval.jti], code,
                              CodeOf(approval, later, generation))
     /\ codeFor' = IF answer = "stored" THEN Put(codeFor, code, approval.jti) ELSE codeFor
     /\ EndApproval(a)
     /\ UNCHANGED <<consents, copy>>

Commit(a, code, later) == CommitAs(a, code, later, Generation)

\* Denied by the user, refused by the CIMD gate, the redirect policy or the
\* commit clock, or a port threw before its effect: nothing is consumed.
Abandon(a) ==
  /\ approvals[a].pc # "idle"
  /\ EndApproval(a)
  /\ UNCHANGED <<storeVars, consents, codeFor, copy>>

-----------------------------------------------------------------------------
(* The deployment *)

TakeCopy ==
  /\ copy = None
  /\ copy' = [authCodes |-> authCodes, refreshTokens |-> refreshTokens,
              families |-> families, consentJtis |-> consentJtis,
              sweptThrough |-> sweptThrough]
  /\ UNCHANGED <<storeVars, consents, approvals, codeFor>>

\* Restore and rotateStoreInstanceId, before the copy serves.
RestoreCopy ==
  /\ copy # None
  /\ storeInstanceId < MaxInstance
  /\ storeInstanceId' = storeInstanceId + 1
  /\ authCodes' = copy.authCodes /\ refreshTokens' = copy.refreshTokens
  /\ families' = copy.families /\ consentJtis' = copy.consentJtis
  /\ sweptThrough' = copy.sweptThrough
  /\ copy' = None
  /\ UNCHANGED <<spentJtis, consents, approvals, codeFor>>

AuthorizeInit ==
  /\ StoreInit
  /\ consents = [j \in {} |-> None]
  /\ approvals = [a \in Approvals |-> NoApproval]
  /\ codeFor = [c \in {} |-> None]
  /\ copy = None

ApproveStep(a) ==
  \/ \E j \in Jtis, now \in Times : Verify(a, j, now)
  \/ CheckBinding(a)
  \/ ReadPrior(a)
  \/ \E code \in Codes, later \in Times : Commit(a, code, later)
  \/ Abandon(a)

Deployment ==
  \/ (\E now \in Times : SweepExpired(now)) /\ UNCHANGED <<consents, approvals, codeFor, copy>>
  \/ RotateStoreInstanceId /\ UNCHANGED <<consents, approvals, codeFor, copy>>

AuthorizeNext ==
  \/ \E j \in Jtis, flow \in Flows : Prepare(j, flow)
  \/ \E a \in Approvals : ApproveStep(a)
  \/ Deployment
  \/ TakeCopy
  \/ RestoreCopy

AuthorizeSpec == AuthorizeInit /\ [][AuthorizeNext]_authorizeVars

-----------------------------------------------------------------------------
Consent == [client : Clients, subject : Subjects, binding : Bindings,
            scopes : SUBSET Scopes, ceiling : (SUBSET Scopes) \cup {None},
            instance : 1..MaxInstance]

Approval == [pc : {"idle", "bind", "prior", "commit"}, jti : Jtis \cup {None},
             now : Times, scopes : SUBSET Scopes]

CopyOK ==
  copy # None =>
    /\ IsMap(copy.authCodes, Codes, AuthCodeRecord)
    /\ IsMap(copy.refreshTokens, Tokens, RefreshTokenRow)
    /\ IsMap(copy.families, Families, FamilyRow)
    /\ IsMap(copy.consentJtis, Jtis, Times)
    /\ copy.sweptThrough \in Times

AuthorizeTypeOK ==
  /\ StoreTypeOK
  /\ IsMap(consents, Jtis, Consent)
  /\ approvals \in [Approvals -> Approval]
  /\ \A a \in Approvals : approvals[a].pc # "idle" => approvals[a].jti \in DOMAIN consents
  /\ IsMap(codeFor, Codes, Jtis)
  /\ CopyOK

\* One consent token yields at most one authorization code: not under racing
\* approvals, not after a sweep by a fast clock collected the tombstone, and
\* not after a restored copy of the store forgot the use altogether.
OneCodePerConsent ==
  \A c, d \in DOMAIN codeFor : codeFor[c] = codeFor[d] => c = d

\* What the codes of a table must share with the consent they came from.
WithinConsent(table) ==
  \A c \in DOMAIN table :
     LET consent == consents[codeFor[c]] IN
     /\ table[c].grant.client = consent.client
     /\ table[c].grant.subject = consent.subject
     /\ table[c].binding = consent.binding
     /\ consent.ceiling # None => table[c].grant.scopes \subseteq consent.ceiling

\* A code speaks for the consent it was committed with: client, subject and
\* binding are the signed ones, and prior grants never lift it over the signed
\* ceiling.
CodeWithinConsent == WithinConsent(authCodes)
=============================================================================
