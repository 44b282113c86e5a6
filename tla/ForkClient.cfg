SPECIFICATION FairSpec
CONSTANTS
    PROCS = 5
    QUEUE = 1
INVARIANTS TypeOK SoleReader StopReaches StopStops
PROPERTIES StartStreams ConnectionEnds
CHECK_DEADLOCK FALSE
