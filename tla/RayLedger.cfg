\* Three Ray prompts, every disturbance short of a restart.
CONSTANTS
    keyA = keyA
    keyB = keyB
    Keys = {keyA, keyB}
    None = None
    Standard = Standard
    MaxPrompts = 3
    MaxBoots = 0
    Disturbances = {"cancel", "lose", "drop", "forget", "artifact", "delete"}
SYMMETRY KeySymmetry
VIEW View
SPECIFICATION Spec
INVARIANTS
    TypeOK
    PoolReusedOnlyAfterSuccess
    KilledPoolStaysDead
    OnePool
    OneGenerationVisible
    CertificateIsTrue
    OutstandingWorkIsTheTail
    LedgerInvariant
