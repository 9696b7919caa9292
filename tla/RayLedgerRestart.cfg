\* Three Ray prompts across one restart of the host.
CONSTANTS
    keyA = keyA
    keyB = keyB
    Keys = {keyA, keyB}
    None = None
    Standard = Standard
    MaxPrompts = 3
    MaxBoots = 1
    Disturbances = {"cancel", "restart", "lose"}
SYMMETRY KeySymmetry
VIEW View
SPECIFICATION Spec
INVARIANTS
    BarrierInvariant
    OutstandingWorkIsTheTail
PROPERTIES
    ImplementsBarrier
