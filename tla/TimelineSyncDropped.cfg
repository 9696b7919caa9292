SPECIFICATION FairSpec
CONSTANTS
  Segments = {1}
  Requests = {r1, r2}
  Reconciler = reconciler
  Worker = worker
  None = none
  MaxFlights = 3
  MaxFaults = 0
  MaxStops = 1
CHECK_DEADLOCK FALSE
PROPERTIES
  CancelEnds
