SPECIFICATION Spec
CONSTANTS
    SEQ_MOD = 32
    SID_MOD = 8
    SID_GAP_MAX = 4
    MaxSeq = 4
    MaxCnt = 2
    MaxPackets = 3
    FirstSid = 0
    LastSid = 1
INVARIANTS EveryGapReported
CHECK_DEADLOCK FALSE
