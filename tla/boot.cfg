SPECIFICATION Spec
CONSTANTS
    RX_RING_SIZE = 2
    TX_RING_SIZE = 3
    U32 = 8
    U8 = 2
    Datagrams <- BootTraffic
    MaxDatagrams = 4
    TxPresent = TRUE
    DoorbellInclusive = TRUE
    Paced = TRUE
    EarlyTraffic = TRUE
INVARIANTS OrdersAreQuotes RoomWhenIdle
PROPERTY KeepsLatePromise
