\* A brick known as QC3 and a rerun that shows neither DCP nor QC3.
SPECIFICATION Spec
CONSTANTS
    Cells <- MCCells
    Bricks = {"dcp", "qc2", "qc35"}
    FineStep = 10
    Top = 490
    SrcCaps <- MCSrcCaps
    Settle = 1
    Extend = 3
    HardCap = 4
INVARIANT KnownQc3KeepsPulses
CHECK_DEADLOCK FALSE
