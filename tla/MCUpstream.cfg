SPECIFICATION UpstreamSpec
CONSTANTS
  c1 = c1
  c2 = c2
  s1 = s1
  s2 = s2
  a = a
  b = b
  b1 = b1
  Codes = {k1, k2}
  Tokens = {}
  Families = {}
  Jtis = {l1, l2, j1, j2}
  Clients = {c1, c2}
  Subjects = {s1, s2}
  Scopes = {a, b}
  Bindings = {b1}
  Resources = {r1}
  Unbound = Unbound
  Generations = {1}
  Times = {0, 1, 2}
  JtiExpiry <- MCJtiExpiry
  MaxInstance = 1
  None = None
  Approvals = {p1}
  Flows <- MCFlows
  Accumulating = {}
  Resource = r1
  Generation = 1
  CodeTtl = 1
  Logins = {l1, l2}
  Requests <- MCRequests
  Identities <- MCIdentities
  IdpCodes = {u1, u2}
  Callbacks = {h1, h2}
SYMMETRY UpstreamSymmetry
INVARIANTS OneExchangePerLogin OneCodePerLogin CodeOfIdentity
CHECK_DEADLOCK FALSE
