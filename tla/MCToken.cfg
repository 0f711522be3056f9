SPECIFICATION TokenSpec
CONSTANTS
  Codes = {k1}
  Tokens = {t1, t2, t3}
  Families = {f1, f2}
  Jtis = {}
  Clients = {c1, c2}
  Subjects = {s1}
  Scopes = {}
  Bindings = {b1}
  Resources = {r1}
  Unbound = Unbound
  Generations = {1}
  Times = {0, 1, 2, 3}
  JtiExpiry <- MCJtiExpiry
  MaxInstance = 1
  None = None
  Requests = {q1, q2}
  ExpectedGeneration = 1
  RefreshTtl = 2
  CodeExpiries = {1}
  StoreMayThrow = TRUE
SYMMETRY TokenSymmetry
INVARIANTS OneFamilyPerCode GrantFollowsCode CondemnedIsDead NoOrphanSuccessor
PROPERTY ImplementsLineage
CHECK_DEADLOCK FALSE
