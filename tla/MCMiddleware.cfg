SPECIFICATION Spec
CONSTANTS
    Runs = {r1,r2}
    Names = {"consent", "timing"}
    Order <- MCOrder
    Timing = "timing"
    MaxObjects = 2
INVARIANTS
    ChainCurrent
    GateHolds
    OutcomeEarned
SYMMETRY MCSymmetry
CHECK_DEADLOCK FALSE
