\* The tail is cleaned up while a dispatcher refreshes it.
CONSTANTS
    keyA = keyA
    keyB = keyB
    Keys = {keyA, keyB}
    None = None
    Standard = Standard
    MaxPrompts = 2
    MaxBoots = 0
    Disturbances = {}
CHECK_DEADLOCK FALSE
SPECIFICATION Spec
INVARIANTS
    QuietFrontierIsPlannable
