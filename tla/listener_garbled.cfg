\* The boot of a chip whose ROM speaks at another speed.
SPECIFICATION Spec
CONSTANTS
    Bytes = {"pattern", "newline", "garbled"}
    MaxBytes = 3
INVARIANTS
    CursorInBuffer
CHECK_DEADLOCK FALSE
