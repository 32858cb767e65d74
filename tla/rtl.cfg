SPECIFICATION Spec
CONSTANTS
    Packets <- OneOrTwo
    MaxPackets = 2
    GAP = 3
    Pads = {0, 255}
    SEQ_LO = 2
    SEQ_HI = 2
INVARIANTS TypeOK MessagesWhole NumberedInOrder CountIsWhatRemains
CHECK_DEADLOCK FALSE
