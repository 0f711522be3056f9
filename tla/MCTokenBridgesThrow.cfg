SPECIFICATION TokenSpec
CONSTANTS
  Codes = {k1}
  Tokens = {t1, t2}
  Families = {f1}
  Jtis = {}
  Clients = {c1}
  Subjects = {s1}
  Scopes = {}
  Bindings = {b1}
  Resources = {r1, r2}
  Unbound = Unbound
  Generations = {1}
  Times = {0, 1, 2, 3}
  JtiExpiry <- MCJtiExpiry
  MaxInstance = 1
  None = None
  Requests = {q1}
  ExpectedGeneration = 1
  RefreshTtl = 2
  CodeExpiries = {1}
  StoreMayThrow = TRUE
PROPERTY WrongResourceHarmless
CHECK_DEADLOCK FALSE
