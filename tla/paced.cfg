SPECIFICATION Spec
CONSTANTS
    RX_RING_SIZE = 2
    TX_RING_SIZE = 3
    U32 = 8
    U8 = 2
    Datagrams <- MixedTraffic
    MaxDatagrams = 3
    TxPresent = TRUE
    DoorbellInclusive = TRUE
    Paced = TRUE
    EarlyTraffic = FALSE
PROPERTIES KeepsPromise JudgesAll OrdersSent SpinEnds
