\* Three sensors, room for four, and nothing disturbs the scan.
SPECIFICATION Spec
CONSTANTS
    RomBits = 4
    CrcBits = 2
    Poly = {0, 1}
    MaxSensors = 4
    MaxGlitches = 0
    MaxHotplugs = 0
    ConvTime = 1
    TimeLimit = 2
    MaxLate = 2
    BufSize = 2
    MaxPlugged = 3
INVARIANTS
    EverySensorFound
CHECK_DEADLOCK FALSE
