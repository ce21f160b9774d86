SPECIFICATION Spec
CONSTANTS
    Cells <- MCCells
    Bricks = {"dcp", "qc2", "qc35"}
    FineStep = 10
    Top = 490
    SrcCaps <- MCSrcCaps
    Settle = 1
    Extend = 3
    HardCap = 4
INVARIANTS TypeOK ForcedIsLatched Qc3IsNotForced
PROPERTIES BusHasACeiling NegotiationEnds WalkSettles
CHECK_DEADLOCK FALSE
