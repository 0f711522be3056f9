SPECIFICATION FairSpec
CONSTANTS
  Callers = {c1, c2, c3}
  Watched = {c1}
  Ids = {i1, i2}
  FlightLimits = {1, 2}
  MaxWaiters = 1
  MaxEntries = 1
  Cap = 1
  Times = {0, 1}
  Views <- MCViews
  None = None
INVARIANTS SingleFlight WaitersCounted HitFresh
PROPERTY EveryCallerAnswered
