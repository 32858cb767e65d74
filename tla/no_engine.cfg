SPECIFICATION Spec
CONSTANTS
    RX_RING_SIZE = 2
    TX_RING_SIZE = 3
    U32 = 5
    U8 = 5
    Datagrams <- FloodTraffic
    MaxDatagrams = 3
    TxPresent = FALSE
    DoorbellInclusive = TRUE
    Paced = TRUE
    EarlyTraffic = FALSE
PROPERTY SpinEnds
