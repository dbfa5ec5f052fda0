\* Two callers, either of which may give up; three requests make a stale reply
\* and a stale command possible at once.
SPECIFICATION Spec
CONSTANTS
    None = None
    Callers = {a, b}
    Quitters = {a, b}
    MaxRequests = 4
INVARIANTS
    OwnReply
PROPERTIES
    Answered
    Rejoins
CHECK_DEADLOCK FALSE
