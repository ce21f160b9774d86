SPECIFICATION Spec
CONSTANTS
    RetryDelay = 1
    RetryMax = 2
    ElevateFirst = 1
    ElevateMax = 2
PROPERTY PresentVbusWakesAdc
