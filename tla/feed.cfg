SPECIFICATION Spec
CONSTANTS
    Node = {n1, n2, n3}
    NULL = NULL
    Item <- Items
    Logs <- SomeLogs
    MSG_CNT_MAX = 4
    SIZE_MOD = 1024
    Latencies = {3, 7}
INVARIANTS TypeOK PacketsWhole ComparedEqual IdsCount AllCompared NoLivelock
PROPERTIES IsQueue Ends
