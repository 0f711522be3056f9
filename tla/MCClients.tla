----------------------------- MODULE MCClients -----------------------------
(***************************************************************************)
(* Two parts, told apart by an initial choice.  "copied" is Authorize:     *)
(* two consents raced by two approvals over a store that is swept, copied  *)
(* and restored; no token is ever issued.  "configured" is Clients: one    *)
(* approval at a time, at one clock, under every configuration.            *)
(***************************************************************************)
EXTENDS Clients, FiniteSets, TLC

CONSTANTS j1, c1, c2, s1, a, b

VARIABLE part
mcVars == <<clientsVars, part>>

\* One consent expires before the other.
MCJtiExpiry == [j \in Jtis |-> IF j = j1 THEN 3 ELSE 1]

Https(host, path) == [scheme |-> "https", host |-> host, port |-> None, path |-> path]
Local(port, path) == [scheme |-> "http", host |-> "localhost", port |-> port, path |-> path]

hosted == Https("claude.ai", "/cb")
app    == Https("app.example", "/cb")
other  == [app EXCEPT !.port = 8443]
native == Local(8080, "/cb")
moved  == Local(9090, "/cb")

MCBindings == {hosted, app, other, native, moved}
MCBuiltIns == {Https("claude.ai", "/"), Https("chatgpt.com", "/")}
MCRegistrable == {{app}, {hosted, app}, {native}}

Config(stored, cimd, mode, allowlist) ==
  [stored |-> stored, cimd |-> cimd, mode |-> mode, allowlist |-> allowlist]

\* Built-ins and any loopback port; the same with stored registration; a
\* replaced list of one exact URI and one loopback port, in either mode.
MCConfigs ==
  {Config(FALSE, TRUE, "extend", {Local(None, "/")}),
   Config(TRUE, TRUE, "extend", {Local(None, "/"), app}),
   Config(TRUE, FALSE, "replace", {app, Local(8080, "/")}),
   Config(FALSE, FALSE, "replace", {app, Local(8080, "/")})}

MCDocuments == [c \in CimdClients |-> {[uris |-> {hosted}, type |-> None],
                                       [uris |-> {native}, type |-> "web"]}]

Flow(client, scopes, binding) ==
  [client |-> client, subject |-> s1, scopes |-> scopes, ceiling |-> None, binding |-> binding]

MCFlows == {Flow(c1, {a}, hosted), Flow(c1, {b}, app), Flow(c1, {a}, other), Flow(c1, {b}, native),
            Flow(c1, {a}, moved), Flow(c2, {a}, hosted), Flow(c2, {a}, moved)}

MCInit == ClientsInit /\ part \in {"copied", "configured"}

MCNext ==
  \/ part = "copied" /\ AuthorizeNext /\ UNCHANGED <<clientVars, part>>
  \/ part = "configured" /\ ClientsNext /\ UNCHANGED part

MCSpec == MCInit /\ [][MCNext]_mcVars

\* One flow in the first part; one approval and one clock in the second.
Bounded ==
  /\ part = "copied" => \A j \in DOMAIN consents : consents[j].binding = hosted
                                                   /\ consents[j].client = c1
  /\ part = "configured" =>
       /\ Cardinality({p \in Approvals : approvals[p].pc # "idle"}) <= 1
       /\ \A p \in Approvals : approvals[p].now = 0
       /\ \A c \in DOMAIN authCodes : authCodes[c].expiresAt = CodeTtl
       /\ \A t \in DOMAIN refreshTokens : refreshTokens[t].expiresAt = RefreshTtl

\* Opaque identifiers: approval slots and codes.
ApprovalSymmetry == Permutations(Approvals) \cup Permutations(Codes)
=============================================================================
