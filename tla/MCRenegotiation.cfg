\* One unit is the retry delay; the backoff doubles once and then meets its cap.
SPECIFICATION Spec
CONSTANTS
    RetryDelay = 1
    RetryMax = 2
    ElevateFirst = 2
    ElevateMax = 5
INVARIANT TypeOK
PROPERTIES
    RetriesSpaced
    ReElevationsBackOff
    UnseenCableIsFound
    FreedSlotIsUsed
    StarvedInputIsRenegotiated
