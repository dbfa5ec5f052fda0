\* One caller gives up on its request, the next one asks for something else.
SPECIFICATION Spec
CONSTANTS
    None = None
    Callers = {a, b}
    Quitters = {a}
    MaxRequests = 2
INVARIANT RightShape
CHECK_DEADLOCK FALSE
