\* A failed submission and its recovery worker, nobody else.
CONSTANTS
    Users = {}
    Disturbances = {"error", "failed"}
SPECIFICATION FairSpec
CHECK_DEADLOCK FALSE
PROPERTY LatePromptIsReleased
