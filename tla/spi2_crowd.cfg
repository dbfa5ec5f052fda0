\* Every path at once on one waiter slot, so that the queue overflows.  The
\* card with a guard has its chip-select frozen; sd is behind into_inner, raw
\* is the device finish returns.
SPECIFICATION Spec
CONSTANTS
    NoUser = NoUser
    Displays = {disp}
    Prepared = {card}
    Inner = {sd}
    Raw = {raw}
    Absent = {card}
    Quitters = {disp, sd, raw}
    SPI2_WAITERS = 1
    DisplayConfig = mhz40
    SdInitConfig = khz400
    CardConfigs = {khz400, bad}
    Rejected = {bad}
INVARIANTS
    OneSelected
    CountersTellHolder
PROPERTIES
    NoOvertaking
