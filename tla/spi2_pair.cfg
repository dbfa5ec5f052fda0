\* The firmware finish_sd builds: one display and one PreparedCard.  Two waiter
\* slots are the tight bound for two users (the code has four).
SPECIFICATION Spec
CONSTANTS
    NoUser = NoUser
    Displays = {disp}
    Prepared = {card}
    Inner = {}
    Raw = {}
    Absent = {}
    Quitters = {disp, card}
    SPI2_WAITERS = 2
    DisplayConfig = mhz40
    SdInitConfig = khz400
    CardConfigs = {khz400, mhz20, bad}
    Rejected = {bad}
INVARIANTS
    PadFollowsTurn
    CardOnOwnTerms
PROPERTIES
    Served
    TakesTurns
