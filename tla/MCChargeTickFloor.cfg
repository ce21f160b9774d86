\* A five-volt and an elevated input, a half-charged cell.
SPECIFICATION Spec
CONSTANTS
    Vins = {5000000, 9400000}
    Vbats = {4000000}
    IinLimits = {500000}
    Floats = {}
    ProfileIin = 2700000
    ProfileFloat = 4470000
    PorIin = 54
    Gauges = {0}
    DieTemps = {500, 560, 610, 660, 1600}
    Iins = {39000, 400000}
    Losses <- SingleLosses
    Faults = {"watchdog", "none"}
    InitLimits <- StandardLimits
PROPERTY DeniedReducesCurrent
