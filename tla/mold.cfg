SPECIFICATION Spec
CONSTANTS
    SEQ_MOD = 64
    SID_MOD = 3
    SID_GAP_MAX = 2
    MaxSeq = 5
    MaxCnt = 2
    MaxPackets = 3
    FirstSid = 1
    LastSid = 2
INVARIANTS TypeOK HiddenBounded ReportsAreMissing
CHECK_DEADLOCK FALSE
