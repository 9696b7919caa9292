SPECIFICATION FairSpec
CONSTANTS
  Segments = {1, 2}
  Requests = {r1}
  Reconciler = reconciler
  Worker = worker
  None = none
  MaxFlights = 3
  MaxFaults = 1
  MaxStops = 1
CHECK_DEADLOCK FALSE
PROPERTIES
  CancelEnds
  JobEnds
