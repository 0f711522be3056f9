SPECIFICATION MysqlSpec
CONSTANTS
  Codes = {}
  Tokens = {t1, t2}
  Families = {f1}
  Jtis = {}
  Clients = {c1}
  Subjects = {s1}
  Scopes = {}
  Bindings = {b1}
  Resources = {r1}
  Unbound = Unbound
  Generations = {1}
  Times = {0, 1, 2, 3}
  JtiExpiry <- MCJtiExpiry
  MaxInstance = 1
  None = None
  Stores = {m1}
  Conns = {x1, x2}
  Ttl = 1
  Skew = 2
  Lag = 0
INVARIANT LineageKept
CHECK_DEADLOCK FALSE
