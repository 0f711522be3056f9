---------------------------- MODULE UpstreamFlow ----------------------------
(***************************************************************************)
(* The redirect flow (src/adapters/upstream-flow*.ts) in front of the      *)
(* authorization use case: initiation signs a flow token into a cookie and *)
(* sends the browser to the identity provider; the callback spends the     *)
(* token's JTI in the store, exchanges the provider's code, and hands the  *)
(* identity with its ceiling to prepare (or to the deployer's onIdentity). *)
(*                                                                         *)
(* The state, nonce and verifier of a flow token are random and minted     *)
(* together: the login's JTI names them all.  A browser may present any    *)
(* flow token it was given, any number of times, from any tab.             *)
(***************************************************************************)
EXTENDS Authorize

CONSTANTS
  Logins,      \* JTIs of flow tokens (prefix upf_)
  Requests,    \* client, scopes and binding of an authorize request
  Identities,  \* accounts at the provider: subject and allowedScopes
  IdpCodes,    \* authorization codes of the provider
  Callbacks    \* slots of callback requests, reused

ASSUME LoginsAssumption == Logins \subseteq Jtis /\ None \notin Requests \cup Identities
ASSUME RequestsAssumption ==
  \A r \in Requests, i \in Identities :
    [client |-> r.client, scopes |-> r.scopes, binding |-> r.binding,
     subject |-> i.subject, ceiling |-> i.ceiling] \in Flows

VARIABLES
  logins,     \* login -> the request its signed token carries, None for onIdentity
  idpCodes,   \* the provider: code -> whose login it answers, and spent or not
  callbacks,  \* slot -> the callback in it
  exchanges,  \* history: login -> how many callbacks went on to the provider
  origin      \* history: consent jti -> the provider's code behind it

upstreamVars == <<logins, idpCodes, callbacks, exchanges, origin>>
upstreamAllVars == <<authorizeVars, upstreamVars>>

NoCallback == [pc |-> "idle", login |-> None, code |-> None, identity |-> None]

SetCallback(h, callback) == callbacks' = [callbacks EXCEPT ![h] = callback]
Respond(h) == SetCallback(h, NoCallback)

-----------------------------------------------------------------------------
(* Initiation, and the identity provider *)

\* The guard, the client and its redirect URI have been checked.
Start(j, request) ==
  /\ j \notin DOMAIN logins
  /\ logins' = Put(logins, j, request)
  /\ UNCHANGED <<authorizeVars, idpCodes, callbacks, exchanges, origin>>

\* The user signs in, perhaps more than once from one authorization URL.
SignIn(code, j, identity) ==
  /\ j \in DOMAIN logins
  /\ code \notin DOMAIN idpCodes
  /\ idpCodes' = Put(idpCodes, code, [login |-> j, identity |-> identity, spent |-> FALSE])
  /\ UNCHANGED <<authorizeVars, logins, callbacks, exchanges, origin>>

-----------------------------------------------------------------------------
(* The callback *)

\* Rows 1 to 5a: everything that is answered without touching the store.  The
\* state in the query is that of the token in the cookie; the code in the query
\* may be any, None where the provider sent an error or nothing.
Callback(h, j, code, now) ==
  /\ callbacks[h] = NoCallback
  /\ j \in DOMAIN logins
  /\ JtiExpiry[j] > now
  /\ SetCallback(h, [NoCallback EXCEPT !.pc = "spend", !.login = j, !.code = code])
  /\ UNCHANGED <<authorizeVars, logins, idpCodes, exchanges, origin>>

\* A slip: the answer of the store is not looked at.
MutGoesOn(j, code) == code # None

\* Row 6 refuses a replay; rows 7 to 9 end a callback without a code.
GoesOn(j, code) == ConsumeConsentJtiAnswer(j, JtiExpiry[j]) /\ code # None

\* Row 6, before the error branch and before the exchange.
SpendLogin(h) ==
  LET j == callbacks[h].login IN
  /\ callbacks[h].pc = "spend"
  /\ ConsumeConsentJti(j, JtiExpiry[j])
  /\ IF GoesOn(j, callbacks[h].code)
     THEN /\ SetCallback(h, [callbacks[h] EXCEPT !.pc = "exchange"])
          /\ exchanges' = [exchanges EXCEPT ![j] = @ + 1]
     ELSE Respond(h) /\ UNCHANGED exchanges
  /\ UNCHANGED <<consents, approvals, codeFor, copy, logins, idpCodes, origin>>

\* The store consumed the JTI and its answer is lost.
SpendLost(h) ==
  LET j == callbacks[h].login IN
  /\ callbacks[h].pc = "spend"
  /\ ConsumeConsentJti(j, JtiExpiry[j])
  /\ Respond(h)
  /\ UNCHANGED <<consents, approvals, codeFor, copy, logins, idpCodes, exchanges, origin>>

\* The provider honours a code once, for the verifier and the nonce of the
\* login it answers.
Exchange(h) ==
  LET callback == callbacks[h]
      code == callback.code
  IN /\ callback.pc = "exchange"
     /\ code \in DOMAIN idpCodes
     /\ idpCodes[code].login = callback.login
     /\ ~idpCodes[code].spent
     /\ idpCodes' = [idpCodes EXCEPT ![code].spent = TRUE]
     /\ SetCallback(h, [callback EXCEPT !.pc = "complete",
                                        !.identity = idpCodes[code].identity])
     /\ UNCHANGED <<authorizeVars, logins, exchanges, origin>>

\* A slip: the identity's ceiling does not travel.
MutPrepared(j, identity) ==
  [client |-> logins[j].client, scopes |-> logins[j].scopes, binding |-> logins[j].binding,
   subject |-> identity.subject, ceiling |-> None]

\* The request prepare sees: parameters from the token, who and how far from
\* the provider.
Prepared(j, identity) ==
  [client |-> logins[j].client, scopes |-> logins[j].scopes, binding |-> logins[j].binding,
   subject |-> identity.subject, ceiling |-> identity.ceiling]

CompleteBridge(h, consentJti) ==
  LET callback == callbacks[h] IN
  /\ callback.pc = "complete"
  /\ logins[callback.login] # None
  /\ Prepare(consentJti, Prepared(callback.login, callback.identity))
  /\ origin' = Put(origin, consentJti, callback.code)
  /\ Respond(h)
  /\ UNCHANGED <<logins, idpCodes, exchanges>>

\* Any refusal, failure or crash after the JTI: the exchange fails, the
\* identity is rejected, prepare refuses, or onIdentity has taken over (in time
\* or not).  Before the JTI: the store threw without effect.
EndCallback(h) ==
  /\ callbacks[h].pc # "idle"
  /\ Respond(h)
  /\ UNCHANGED <<authorizeVars, logins, idpCodes, exchanges, origin>>

-----------------------------------------------------------------------------
UpstreamInit ==
  /\ AuthorizeInit
  /\ logins = [j \in {} |-> None]
  /\ idpCodes = [c \in {} |-> None]
  /\ callbacks = [h \in Callbacks |-> NoCallback]
  /\ exchanges = [j \in Logins |-> 0]
  /\ origin = [j \in {} |-> None]

UpstreamNext ==
  \/ \E j \in Logins, request \in Requests \cup {None} : Start(j, request)
  \/ \E code \in IdpCodes, j \in Logins, identity \in Identities : SignIn(code, j, identity)
  \/ \E h \in Callbacks :
       \/ \E j \in Logins, code \in IdpCodes \cup {None}, now \in Times : Callback(h, j, code, now)
       \/ SpendLogin(h)
       \/ SpendLost(h)
       \/ Exchange(h)
       \/ \E j \in Jtis \ Logins : CompleteBridge(h, j)
       \/ EndCallback(h)
  \/ \E a \in Approvals : ApproveStep(a) /\ UNCHANGED upstreamVars
  \/ \E now \in Times : SweepExpired(now) /\ UNCHANGED <<consents, approvals, codeFor, copy,
                                                          upstreamVars>>

UpstreamSpec == UpstreamInit /\ [][UpstreamNext]_upstreamAllVars

-----------------------------------------------------------------------------
\* Of all callbacks that present one flow token, at most one goes on to the
\* provider: not after a lost answer, nor when a sweep has collected the JTI
\* and the callback's clock is slow.
OneExchangePerLogin == \A j \in Logins : exchanges[j] <= 1

LoginOf(c) == idpCodes[origin[codeFor[c]]].login

\* One login, one authorization code: two single-use fences in a row, with the
\* consent page between them.
OneCodePerLogin ==
  \A c, d \in DOMAIN codeFor : LoginOf(c) = LoginOf(d) => c = d

\* A code of the bridge speaks for the account that signed in at the provider
\* during the login that asked for it, for that login's client, and never
\* beyond the account's ceiling.
CodeOfIdentity ==
  \A c \in DOMAIN authCodes :
    LET identity == idpCodes[origin[codeFor[c]]].identity
        request == logins[LoginOf(c)]
        grant == authCodes[c].grant
    IN /\ request # None
       /\ grant.client = request.client /\ authCodes[c].binding = request.binding
       /\ grant.subject = identity.subject
       /\ identity.ceiling # None => grant.scopes \subseteq identity.ceiling
=============================================================================
