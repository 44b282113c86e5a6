SPECIFICATION FairSpec
CONSTANTS
    Viewer = {v1}
    Raspi = {r1}
    CHANNEL_MAX = 2
    FD = {5, 6}
    LIST_MAX = 2
    StackFd = {0}
    Choice = {5}
    AHEAD = 1
    QUEUE = 1
    STARTS = 2
PROPERTIES StreamStops
CHECK_DEADLOCK FALSE
