\* One request to cancel, a host that answers everything.
CONSTANTS
    Users = {u1}
    Disturbances = {}
SPECIFICATION Spec
CHECK_DEADLOCK FALSE
PROPERTY AcknowledgedCancelIsRecorded
