\* An ordinary submission to a fast host.
CONSTANTS
    Users = {}
    Disturbances = {}
SPECIFICATION Spec
CHECK_DEADLOCK FALSE
INVARIANT RecordedSuccessIsKept
