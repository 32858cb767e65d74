SPECIFICATION Spec
CONSTANTS
    RX_RING_SIZE = 2
    TX_RING_SIZE = 2
    U32 = 4
    U8 = 4
    Datagrams <- Flood3
    MaxDatagrams = 4
    TxPresent = TRUE
    DoorbellInclusive = TRUE
    Paced = FALSE
    EarlyTraffic = TRUE
INVARIANTS TypeOK WireInOrder OrderIdBelowPrice PricesRise
PROPERTY OrdersOnlyGrow
