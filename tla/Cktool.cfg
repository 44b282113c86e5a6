SPECIFICATION FairSpec
CONSTANTS
    HEADERS = 2
    PACKS = 2
INVARIANTS TypeOK HandlesOpen ClosesAll HeadersFirst
PROPERTIES QuitEnds
CHECK_DEADLOCK FALSE
