SPECIFICATION Spec
CONSTANTS
    RX_RING_SIZE = 2
    TX_RING_SIZE = 3
    U32 = 8
    U8 = 2
    Datagrams <- QuietTraffic
    MaxDatagrams = 4
    TxPresent = TRUE
    DoorbellInclusive = TRUE
    Paced = FALSE
    EarlyTraffic = FALSE
PROPERTY ArrivedPacketTaken
