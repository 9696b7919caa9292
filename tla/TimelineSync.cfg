SYMMETRY RequestSymmetry
SPECIFICATION Spec
CONSTANTS
  Segments = {1, 2}
  Requests = {r1, r2}
  Reconciler = reconciler
  Worker = worker
  None = none
  MaxFlights = 3
  MaxFaults = 1
  MaxStops = 1
CHECK_DEADLOCK FALSE
INVARIANTS
  ClaimHasOwner
  NoAssemblyAfterClick
  WaitersSurvive
  CancelReadsCancelled
  AnswersFollowClick
  TerminalIsCoherent
  FlightInvariant
  CancelIsSettled
