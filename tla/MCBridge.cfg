SPECIFICATION BridgeSpec
CONSTANTS
  c1 = c1
  c2 = c2
  s1 = s1
  a = a
  b = b
  b1 = b1
  Codes = {k1, k2}
  Tokens = {t1, t2, t3}
  Families = {f1, f2}
  Jtis = {j1, j2}
  Clients = {c1, c2}
  Subjects = {s1}
  Scopes = {a, b}
  Bindings = {b1}
  Resources = {r1, r2}
  Unbound = Unbound
  Generations = {1}
  Times = {0, 1, 2}
  JtiExpiry <- MCJtiExpiry
  MaxInstance = 1
  None = None
  Approvals = {p1}
  Flows <- MCFlows
  Accumulating = {c1}
  Resource = r1
  Generation = 1
  CodeTtl = 1
  Requests = {q1}
  ExpectedGeneration = 1
  CodeExpiries = {}
  RefreshTtl = 2
  StoreMayThrow = FALSE
SYMMETRY BridgeSymmetry
INVARIANTS CodeWithinConsent ScopesConsented FamilyWithinConsent
PROPERTY WrongResourceHarmless
CHECK_DEADLOCK FALSE
