SPECIFICATION StoreSpec
CONSTANTS
  t1 = t1
  t2 = t2
  t3 = t3
  f1 = f1
  c1 = c1
  s1 = s1
  k1 = k1
  b1 = b1
  j1 = j1
  Codes = {k1}
  Tokens = {t1, t2, t3}
  Families = {f1}
  Jtis = {j1}
  Clients = {c1}
  Subjects = {s1}
  Scopes = {}
  Bindings = {b1}
  Resources = {r1, r2}
  Unbound = Unbound
  Generations = {1}
  Times = {0, 1, 2}
  JtiExpiry <- MCJtiExpiry
  MaxInstance = 2
  None = None
SYMMETRY TokenSymmetry
INVARIANTS RowsMatchFamily LineageKept
PROPERTY JtiAcceptedOnce
CHECK_DEADLOCK FALSE
