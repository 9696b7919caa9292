\* Two requests to cancel, every disturbance, restarts of backend and host.
\* One job: when it is over and the host has settled, nothing is left to do.
CONSTANTS
    Users = {u1, u2}
    Disturbances = {"error", "silence", "refuse", "lose", "drop", "forget", "failed", "restart", "reboot"}
SPECIFICATION Spec
CHECK_DEADLOCK FALSE
INVARIANTS
    OutstandingIsOpen
    ClosedMeansReleased
    CertifiedIsFinished
    ParentFollowsChild
    RecoveryLeavesSubmitsAlone
    OwnershipInvariant
PROPERTY
    NeverRevived
