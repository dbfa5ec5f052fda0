\* Up to four bytes, patterns and newlines, at any moment.
SPECIFICATION Spec
CONSTANTS
    Bytes = {"pattern", "newline"}
    MaxBytes = 4
INVARIANTS
    NothingLost
    NoLostWakeup
PROPERTIES
    HearsAndMatches
    WaitEnds
CHECK_DEADLOCK FALSE
