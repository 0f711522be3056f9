SPECIFICATION Spec
CONSTANTS
  s1 = s1
  s2 = s2
  s3 = s3
  r1 = r1
  Operators = {o1, o2}
  LegacySecrets = {s1, s2, s3}
  MaxCommits = 4
  Resources = {r1}
  Times = {0, 1, 2}
  Graces = {1, 2}
  Ttls = {1}
  LegacyRows <- MCLegacyRows
  None = None
SYMMETRY OperatorSymmetry
INVARIANTS EveryMutationAudited HandedOutWorks RetiredForever
PROPERTY DisabledIsFinal
CHECK_DEADLOCK FALSE
