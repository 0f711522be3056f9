SPECIFICATION MCSpec
CONSTANTS
  j1 = j1
  c1 = c1
  c2 = c2
  s1 = s1
  a = a
  b = b
  Codes = {k1, k2, k3}
  Tokens = {t1}
  Families = {f1}
  Jtis = {j1, j2}
  Clients = {c1, c2}
  Subjects = {s1}
  Scopes = {a, b}
  Bindings <- MCBindings
  Resources = {r1}
  Unbound = Unbound
  Generations = {1, None}
  Times = {0, 1, 2, 3, 4}
  JtiExpiry <- MCJtiExpiry
  MaxInstance = 2
  None = None
  Approvals = {p1, p2}
  Flows <- MCFlows
  Accumulating = {}
  Resource = r1
  Generation = 1
  CodeTtl = 3
  Configs <- MCConfigs
  CimdClients = {c2}
  Documents <- MCDocuments
  BuiltIns <- MCBuiltIns
  Registrable <- MCRegistrable
  RefreshTtl = 4
SYMMETRY ApprovalSymmetry
INVARIANTS OneCodePerConsent SentWhereTrusted LegacyStaysOut
CONSTRAINT Bounded
CHECK_DEADLOCK FALSE
