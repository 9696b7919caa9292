CONSTANTS
  MaxJobs = 3
  Operator = Operator
  None = None
SPECIFICATION FairSpec
INVARIANTS
  AdmissionOrder
  OperatorIsAlone
  TicketInvariant
PROPERTIES
  EntersInOrder
  DispatchersEnd
  TicketsComplete
CHECK_DEADLOCK FALSE
