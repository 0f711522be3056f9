SPECIFICATION BootSpec
CONSTANTS
  Processes = {p1, p2}
  Openers = {p1, p2}
  Keys = {k1, k2, k3}
  EnvKey = env
  None = None
  Unset = Unset
  Ids = {i1, i2}
  Inits = {n1, n2}
  FileCount = 2
  MaxFaults = 2
  Logger = p1
  Followed = {"deployed"}
  Events = {e1, e2}
INVARIANTS SecretsAgree OpensTogether ScaffoldWhole RecordsWhole
PROPERTIES InstanceKept BootsServe EveryEventSettles
CHECK_DEADLOCK FALSE
