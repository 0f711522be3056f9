SPECIFICATION PairingSpec
CONSTANTS
  Calls = {q1, q2}
  Limit = 1
  Codes = {k1, k2, k3}
  Wrong = Wrong
  MaxAttempts = 2
  CodeTtl = 1
  Times = {0, 1}
  None = None
INVARIANTS ChargedOnce PrintedCodeLives GuessesCapped
PROPERTY EveryRequestAnswered
CHECK_DEADLOCK FALSE
