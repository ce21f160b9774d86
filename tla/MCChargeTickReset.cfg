\* A discharged cell, whose 2:1 window lies below 8 V.
SPECIFICATION Spec
CONSTANTS
    Vins = {5000000, 7400000}
    Vbats = {3500000}
    IinLimits = {500000}
    Floats = {}
    ProfileIin = 2700000
    ProfileFloat = 4470000
    PorIin = 54
    Gauges = {0}
    DieTemps = {500, 560, 610, 660, 1600}
    Iins = {39000, 400000}
    Losses <- SingleLosses
    Faults = {"watchdog", "none"}
    InitLimits <- StandardLimits
INVARIANT NoResetOnElevatedInput
