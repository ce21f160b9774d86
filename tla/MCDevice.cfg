\* The values of FCC are in amperes here; a unit of time is half a minute.
SPECIFICATION Spec
CONSTANTS
    FccRaw = 4
    Factory = 2
    ProbeRaw = 1
    WriteMax = 3
    Grace = 2
INVARIANTS
    TypeOK
    ReleasedIsQuiet
    RecordMatchesPmic
PROPERTIES
    GraceIsKept
    RaiseIsTakenBack
    TelemetryKeepsRunning
