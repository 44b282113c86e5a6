SPECIFICATION Spec
CONSTANTS
    Viewer = {v1, v2}
    Raspi = {r1}
    CHANNEL_MAX = 3
    FD = {5, 6, 7}
    LIST_MAX = 2
    StackFd = {0, 5}
    Choice = {5}
    AHEAD = 1
    QUEUE = 2
    STARTS = 4
INVARIANTS TypeOK StreamWanted BridgeHasViewer AnswerUnderWay
SYMMETRY Symmetry
CHECK_DEADLOCK FALSE
