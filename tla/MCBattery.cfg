\* A unit of time is several seconds; the online hold is the shorter one.
SPECIFICATION Spec
CONSTANTS
    OnlineHold = 1
    ChargingHold = 2
    SocRiseHold = 1
    Cell = 4200000
    Current = 1500000
    Bricks <- MCBricks
    Floating <- MCFloating
INVARIANT TypeOK
PROPERTIES
    MotionlessCableKeepsAc
    ChargingIsWitnessed
    RemovalShows
    AdapterShows
