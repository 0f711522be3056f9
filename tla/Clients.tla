------------------------------ MODULE Clients ------------------------------
(***************************************************************************)
(* Who a client is and where its codes may be sent: dynamic registration   *)
(* (register.ts), the redirect policies (redirect.ts) and the dispatch of  *)
(* authorize-internals.ts, around the approvals of Authorize.              *)
(*                                                                         *)
(* The processes that share the store need not agree: replicas are         *)
(* upgraded one by one, and a deployment is restarted with another         *)
(* allowlist, with another registration mode, with or without CIMD, while  *)
(* its consents and codes live on.  So each request is served by a process *)
(* of any configuration, and keeps it to the end.                          *)
(*                                                                         *)
(* A binding is a redirect URI in the one spelling the grammar admits.  A  *)
(* client's redemption of a code is one step here; TokenUseCase takes it   *)
(* apart.  Clocks, sweeps and identities are Authorize's.                  *)
(***************************************************************************)
EXTENDS Authorize

CONSTANTS
  Configs,      \* what a process may be configured with
  CimdClients,  \* clients whose id is an https URL
  Documents,    \* CIMD client -> the registrations its document may hold
  BuiltIns,     \* DEFAULT_ALLOWED_REDIRECT_ORIGINS
  Registrable,  \* sets of redirect URIs a registration may ask for
  RefreshTtl

Uris == [scheme : {"https", "http"}, host : STRING, port : Nat \cup {None}, path : STRING]
Registrations(types) == [uris : SUBSET Bindings, type : types]

ASSUME ClientsAssumption ==
  /\ \A uri \in Bindings \cup BuiltIns : uri \in Uris
  /\ \A config \in Configs :
       /\ config.mode \in {"extend", "replace"} /\ {config.stored, config.cimd} \subseteq BOOLEAN
       /\ \A uri \in config.allowlist : uri \in Uris
  /\ CimdClients \subseteq Clients /\ RefreshTtl \in Nat
  /\ None \in Generations \ {Generation}
  /\ \A client \in CimdClients : \A document \in Documents[client] :
       document \in Registrations({"web", "native", None})

VARIABLES
  registered,   \* opaque client -> its stored registration
  serving,      \* slot -> the configuration that serves it, and whether it re-admitted the client
  sent,         \* where the last step's response sent the browser, or None
  storedCodes,  \* history: codes committed in stored mode
  redeemed      \* history: family -> the code it came from, and the redeemer's configuration

clientVars == <<registered, serving, sent, storedCodes, redeemed>>
clientsVars == <<authorizeVars, clientVars>>

-----------------------------------------------------------------------------
(* Redirect policies.  A port of None is the scheme's default; a path of   *)
(* "/" makes an allowlist entry an origin.                                 *)

Loopback(uri) == uri.host \in {"localhost", "127.0.0.1", "[::1]"}

WellFormed(uri) == uri.scheme = "https" \/ Loopback(uri)

SameButPort(uri, entry) ==
  uri.scheme = entry.scheme /\ uri.host = entry.host /\ uri.path = entry.path

\* A loopback origin without a port admits any port.
GlobalMatch(entry, uri) ==
  \/ entry = uri
  \/ /\ entry.path = "/"
     /\ entry.scheme = uri.scheme /\ entry.host = uri.host
     /\ entry.port = uri.port \/ (Loopback(entry) /\ entry.port = None)

Allowlist(config) ==
  config.allowlist \cup (IF config.mode = "extend" THEN BuiltIns ELSE {})

AllowedGlobally(config, uri) ==
  WellFormed(uri) /\ \E entry \in Allowlist(config) : GlobalMatch(entry, uri)

RegistrationPolicy(uri, type) ==
  IF type = "web" THEN uri.scheme = "https" ELSE Loopback(uri)

\* Web clients are matched exactly; native ones may pick another http port.
AllowedForClient(registration, uri) ==
  /\ RegistrationPolicy(uri, registration.type)
  /\ \A entry \in registration.uris : RegistrationPolicy(entry, registration.type)
  /\ \E entry \in registration.uris :
       \/ entry = uri
       \/ registration.type = "native" /\ entry.scheme = "http" /\ SameButPort(uri, entry)

CimdRedirectMatches(uri, document) ==
  /\ WellFormed(uri)
  /\ \E entry \in document.uris :
       \/ entry = uri
       \/ /\ document.type # "web"
          /\ entry.scheme = "http" /\ Loopback(entry) /\ SameButPort(uri, entry)

\* Stored mode holds every registered URI against the current allowlist again,
\* and the presented one against the registration.
ResolveOpaqueRedirect(config, client, uri) ==
  IF config.stored
  THEN /\ client \in DOMAIN registered
       /\ \A entry \in registered[client].uris : AllowedGlobally(config, entry)
       /\ AllowedForClient(registered[client], uri)
  ELSE AllowedGlobally(config, uri)

ResolveAuthorizeClient(config, client, uri) ==
  IF client \in CimdClients
  THEN config.cimd /\ \E document \in Documents[client] : CimdRedirectMatches(uri, document)
  ELSE ResolveOpaqueRedirect(config, client, uri)

\* A slip: a consent once given keeps its redirect.
MutReadmits(config, client, uri) == client \in CimdClients => config.cimd

\* approve: CIMD must still be enabled; an opaque client passes today's policy.
Readmits(config, client, uri) ==
  IF client \in CimdClients THEN config.cimd
  ELSE ResolveOpaqueRedirect(config, client, uri)

\* A slip: the cutover to stored registration is not marked.
MutExpectedGeneration(config) == None

\* Stored mode stamps its grants, and takes no others.
ExpectedGeneration(config) == IF config.stored THEN Generation ELSE None

AccumulationAllowed(config, client) == config.stored /\ client \notin CimdClients

-----------------------------------------------------------------------------
(* Registration and prepare *)

\* Stateless mode answers a fresh id as well, and keeps nothing.
Register(config, client, registration) ==
  /\ config.stored
  /\ client \notin DOMAIN registered \cup CimdClients
  /\ registration.uris # {}
  /\ \A uri \in registration.uris :
       AllowedGlobally(config, uri) /\ RegistrationPolicy(uri, registration.type)
  /\ registered' = Put(registered, client, registration)
  /\ sent' = None
  /\ UNCHANGED <<authorizeVars, serving, storedCodes, redeemed>>

PrepareAt(config, j, flow) ==
  /\ ResolveAuthorizeClient(config, flow.client, flow.binding)
  /\ Prepare(j, flow)
  /\ sent' = None
  /\ UNCHANGED <<registered, serving, storedCodes, redeemed>>

-----------------------------------------------------------------------------
(* approve *)

NotServing == [config |-> None, admitted |-> FALSE]

\* A slot that a step ended forgets its process.
Release ==
  serving' = [a \in Approvals |-> IF approvals'[a] = NoApproval THEN NotServing ELSE serving[a]]

ArriveAt(config, a, j, now) ==
  /\ Verify(a, j, now)
  /\ serving' = [serving EXCEPT ![a] = [config |-> config, admitted |-> FALSE]]
  /\ sent' = None
  /\ UNCHANGED <<registered, storedCodes, redeemed>>

Readmit(a) ==
  LET consent == consents[approvals[a].jti] IN
  /\ approvals[a].pc = "prior"
  /\ ~serving[a].admitted
  /\ Readmits(serving[a].config, consent.client, consent.binding)
  /\ serving' = [serving EXCEPT ![a].admitted = TRUE]
  /\ sent' = None
  /\ UNCHANGED <<authorizeVars, registered, storedCodes, redeemed>>

\* The redirect of this approval's response.
Response(a) ==
  LET consent == consents[approvals[a].jti] IN
  [config |-> serving[a].config, client |-> consent.client, uri |-> consent.binding]

\* The user refuses: the redirect carries access_denied, the JTI stays unspent.
Deny(a) ==
  /\ approvals[a].pc = "prior" /\ serving[a].admitted
  /\ Abandon(a) /\ Release
  /\ sent' = Response(a)
  /\ UNCHANGED <<registered, storedCodes, redeemed>>

SettleScopes(a) ==
  LET config == serving[a].config
      client == consents[approvals[a].jti].client
  IN /\ serving[a].admitted
     /\ ReadPriorAs(a, AccumulationAllowed(config, client), ExpectedGeneration(config))
     /\ sent' = None
     /\ UNCHANGED <<registered, serving, storedCodes, redeemed>>

CommitAt(a, code, later) ==
  LET committed == code \in DOMAIN codeFor'
      config == serving[a].config
  IN /\ CommitAs(a, code, later, ExpectedGeneration(config))
     /\ Release
     /\ sent' = IF committed THEN Response(a) ELSE None
     /\ storedCodes' = storedCodes \cup {c \in {code} : committed /\ config.stored}
     /\ UNCHANGED <<registered, redeemed>>

Refuse(a) ==
  /\ Abandon(a) /\ Release
  /\ sent' = None
  /\ UNCHANGED <<registered, storedCodes, redeemed>>

Bind(a) ==
  /\ CheckBinding(a) /\ Release
  /\ sent' = None
  /\ UNCHANGED <<registered, storedCodes, redeemed>>

ApproveAt(a) ==
  \/ \E config \in Configs, j \in Jtis, now \in Times : ArriveAt(config, a, j, now)
  \/ Bind(a)
  \/ Readmit(a)
  \/ Deny(a)
  \/ SettleScopes(a)
  \/ \E code \in Codes, later \in Times : CommitAt(a, code, later)
  \/ Refuse(a)

-----------------------------------------------------------------------------
(* Redemption *)

\* A process redeems a code for a family, or burns it: the code is consumed
\* before client, redirect and verifier are compared.
Redeem(config, code, family, token, now) ==
  LET record == ConsumeAuthCodeAnswer(code, now, ExpectedGeneration(config), Resource) IN
  /\ code \in DOMAIN authCodes
  /\ now + RefreshTtl \in Times
  /\ family \notin DOMAIN redeemed /\ token \notin DOMAIN refreshTokens
  /\ authCodes' = Restrict(authCodes, DOMAIN authCodes \ {code})
  /\ \/ /\ record # None
        /\ InsertToken(token, RootRow(family, record.grant, record.resource,
                                      record.generation, now + RefreshTtl))
        /\ redeemed' = Put(redeemed, family, [code |-> code, config |-> config])
     \/ UNCHANGED <<tokenRows, redeemed>>
  /\ sent' = None
  /\ UNCHANGED <<consentRows, sweptThrough, storeInstanceId, consents, approvals, codeFor,
                 copy, registered, serving, storedCodes>>

ClientsInit ==
  /\ AuthorizeInit
  /\ registered = [c \in {} |-> None]
  /\ serving = [a \in Approvals |-> NotServing]
  /\ sent = None
  /\ storedCodes = {}
  /\ redeemed = [f \in {} |-> None]

ClientsNext ==
  \/ \E config \in Configs, client \in Clients, uris \in Registrable, type \in {"web", "native"} :
       Register(config, client, [uris |-> uris, type |-> type])
  \/ \E config \in Configs, j \in Jtis, flow \in Flows : PrepareAt(config, j, flow)
  \/ \E a \in Approvals : ApproveAt(a)
  \/ \E config \in Configs, code \in Codes, family \in Families, token \in Tokens, now \in Times :
       Redeem(config, code, family, token, now)

ClientsSpec == ClientsInit /\ [][ClientsNext]_clientsVars

-----------------------------------------------------------------------------
\* No response of approve, neither a code nor a denial, leaves for a place its
\* own process would not trust today, whoever showed the consent page and under
\* which configuration: an opaque client is sent to a host of the allowlist in
\* force, in stored mode to what that client registered up to a loopback port;
\* a CIMD client to what a document of its own lists, while CIMD is enabled
\* (docs/contracts/10: consents in flight are not grandfathered).
UpToLoopbackPort(uri, entry) ==
  SameButPort(uri, entry) /\ (uri.port = entry.port \/ Loopback(entry))

Trusted(config, client, uri) ==
  IF client \in CimdClients
  THEN /\ config.cimd
       /\ \E document \in Documents[client] : \E entry \in document.uris : UpToLoopbackPort(uri, entry)
  ELSE /\ \E entry \in Allowlist(config) : entry.scheme = uri.scheme /\ entry.host = uri.host
       /\ config.stored =>
            /\ client \in DOMAIN registered
            /\ \E entry \in registered[client].uris : UpToLoopbackPort(uri, entry)

SentWhereTrusted == sent # None => Trusted(sent.config, sent.client, sent.uri)

\* Grants from before the cutover to stored registration stay out of it: what a
\* stored-mode process redeems was approved in stored mode, and a code it
\* committed carries no scope but those its user approved in stored mode.
\* Stateless processes may run beside it all the while.
ApprovedInStoredMode(client, subject) ==
  UNION {consents[codeFor[c]].scopes :
           c \in {d \in storedCodes : /\ consents[codeFor[d]].client = client
                                      /\ consents[codeFor[d]].subject = subject}}

LegacyStaysOut ==
  /\ \A f \in DOMAIN redeemed : redeemed[f].config.stored => redeemed[f].code \in storedCodes
  /\ \A c \in DOMAIN authCodes \cap storedCodes :
       LET grant == authCodes[c].grant IN
       grant.scopes \subseteq ApprovedInStoredMode(grant.client, grant.subject)
=============================================================================
