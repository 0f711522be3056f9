------------------------------- MODULE Bridge -------------------------------
(***************************************************************************)
(* The bridge: authorization and token use cases over one store.  A code   *)
(* committed by an approval is redeemed by an exchange, and the refresh    *)
(* tokens of that family are what later approvals read prior scopes from.  *)
(***************************************************************************)
EXTENDS Authorize, TokenUseCase

bridgeVars == <<storeVars, consents, approvals, codeFor, copy, requests, historyVars>>
authorizeOnly == <<consents, approvals, codeFor, copy>>
tokenOnly == <<requests, minted, redeemed, returned, rotatedAway, condemned, lost>>

BridgeInit == AuthorizeInit /\ TokenInit

\* Codes reach the token use case through the store alone.
HandOver == issued' = [c \in DOMAIN codeFor' |->
                         IF c \in DOMAIN issued THEN issued[c] ELSE authCodes'[c]]

BridgeNext ==
  \/ /\ \/ \E j \in Jtis, flow \in Flows : Prepare(j, flow)
        \/ \E a \in Approvals : ApproveStep(a)
        \/ Deployment
     /\ HandOver
     /\ UNCHANGED tokenOnly
  \/ /\ \E r \in Requests : Arrival(r) \/ RequestStep(r)
     /\ UNCHANGED authorizeOnly

BridgeSpec == BridgeInit /\ [][BridgeNext]_bridgeVars

-----------------------------------------------------------------------------
\* No scope appears from nowhere: whatever accumulates across approvals,
\* exchanges and refreshes, each scope a stored code or token carries was
\* consented to by that subject for that client, in an approval that committed.
Consented(grant) ==
  UNION {consents[codeFor[c]].scopes :
           c \in {d \in DOMAIN codeFor : /\ consents[codeFor[d]].client = grant.client
                                         /\ consents[codeFor[d]].subject = grant.subject}}

ScopesConsented ==
  /\ \A c \in DOMAIN authCodes :
       authCodes[c].grant.scopes \subseteq Consented(authCodes[c].grant)
  /\ \A t \in DOMAIN refreshTokens :
       refreshTokens[t].grant.scopes \subseteq Consented(refreshTokens[t].grant)

\* End to end, one consent is one family, and its tokens never rise above the
\* ceiling the identity provider set for that consent.
FamilyWithinConsent ==
  /\ \A f, g \in DOMAIN redeemed :
       codeFor[redeemed[f]] = codeFor[redeemed[g]] => f = g
  /\ \A t \in DOMAIN refreshTokens :
       LET ceiling == consents[codeFor[redeemed[refreshTokens[t].family]]].ceiling IN
       ceiling # None => refreshTokens[t].grant.scopes \subseteq ceiling
=============================================================================
