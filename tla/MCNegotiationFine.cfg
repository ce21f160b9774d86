\* MCNegotiation with a QC3.5 brick whose step is half of a QC3 step.
SPECIFICATION Spec
CONSTANTS
    Cells <- MCCells
    Bricks = {"dcp", "qc2", "qc35"}
    FineStep = 5
    Top = 490
    SrcCaps <- MCSrcCaps
    Settle = 1
    Extend = 3
    HardCap = 4
INVARIANTS TypeOK ForcedIsLatched Qc3IsNotForced
PROPERTIES BusHasACeiling NegotiationEnds WalkSettles
CHECK_DEADLOCK FALSE
