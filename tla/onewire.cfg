\* ROM codes of two data bits and two CRC bits (x^2 + x + 1): four sensors can
\* exist.  One inverted sample and one hotplug.
SPECIFICATION Spec
CONSTANTS
    RomBits = 4
    CrcBits = 2
    Poly = {0, 1}
    MaxSensors = 2
    MaxGlitches = 1
    MaxHotplugs = 1
    ConvTime = 1
    TimeLimit = 2
    MaxLate = 2
    BufSize = 1
    MaxPlugged = 3
INVARIANTS
    NoPhantom
    NoDuplicate
    TwoSensorsFound
    FreshReport
    ReportComplete
    TimeoutIsReal
CHECK_DEADLOCK FALSE
