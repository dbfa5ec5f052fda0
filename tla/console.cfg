\* One logger on the second core and two dumpers on the first; lines of one byte
\* and of most of the ring, so that it wraps, fills, overwrites and makes the
\* dumpers wait; a panic on either core, and three boots.
SPECIFICATION BSpec
CONSTANTS
    NoTask = NoTask
    log = log
    app = app
    cat1 = cat1
    cat2 = cat2
    Loggers = {log, app}
    Dumpers = {cat1, cat2}
    AppTasks = {app}
    RING_SIZE = 4
    LineLens = {1, 3}
    MaxLines = 3
    Scratch = 2
    PanicLen = 2
    PanicChunk = 2
    IdentityLen = 1
    Plans <- MCPlans
    Targets <- MCTargets
    Filters <- MCFilters
INVARIANTS
    GapsMarked
    PanicTold
    CrumbTrue
    FilterLetsThrough
PROPERTIES
    KeepsNewest
    Drained
    DumpsFinish
CHECK_DEADLOCK FALSE
