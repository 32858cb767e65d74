------------------------------- MODULE MemMap -------------------------------
(***************************************************************************)
(* Everything the kernel and the NIC share (src/src/memmap.h): the RX       *)
(* descriptor ring and its packet buffers, the TX ring and its packet       *)
(* buffers, and the MMIO registers.  One slot of a ring is a descriptor     *)
(* together with the packet buffer its `addr` field always points to.       *)
(***************************************************************************)
EXTENDS Integers, Sequences

CONSTANTS
    RX_RING_SIZE,   \* 16 in the code (memmap.h:30)
    TX_RING_SIZE,   \* 16 in the code (memmap.h:31)
    U32,            \* 2^32 in the code: the modulus of every uint32_t
    U8,             \* 2^8 in the code: the modulus of a byte
    Datagrams       \* the UDP datagrams the generator may send

PKT_BUF_SIZE     == 64
PKT_MIN_LEN      == 23
ITCH_PAYLOAD_LEN == 11
AAPL_LOCATE      == 66

RxSlots == 0 .. RX_RING_SIZE - 1
TxSlots == 0 .. TX_RING_SIZE - 1
Word    == 0 .. U32 - 1

(* Where each field of a packet ends, in bytes from its first, and a place   *)
(* inside one: 16 is after the first, low byte of the price.                *)
Cuts == {12, 13, 15, 16, 19, 23}

(* A price whose low byte is p's and whose other bytes are b's.             *)
TornPrice(p, b) == b - (b % U8) + (p % U8)

ASSUME RingAssumption == /\ RX_RING_SIZE \in Nat \ {0}
                         /\ TX_RING_SIZE \in Nat \ {0, 1}
                         /\ U32 \in Nat \ {0, 1}
                         /\ U8 \in 1 .. U32 /\ U32 % U8 = 0

(* The generator's three message types; "other" is any other byte, one it   *)
(* corrupted or one never written.                                          *)
MsgTypes == {"A", "R", "X", "other"}

(* The fields of a packet that handle_packet reads.                         *)
Packet == [payload_len : Nat, msg_type : MsgTypes, stock_locate : Nat,
           price : Word, shares : Word]
Order  == [order_id : Word, price : Word, shares : Word]

(* A datagram is a length and a packet; one that is too short to be a quote *)
(* ends at one of the cuts.                                                 *)
ASSUME DatagramAssumption ==
    \A d \in Datagrams : /\ d.len \in Nat \ {0}
                         /\ d.len < PKT_MIN_LEN => d.len \in Cuts
                         /\ d.pkt \in Packet

(* Guest memory before anything is written to it.                           *)
ZeroPacket == [payload_len |-> 0, msg_type |-> "other", stock_locate |-> 0,
               price |-> 0, shares |-> 0]
ZeroOrder  == [order_id |-> 0, price |-> 0, shares |-> 0]

VARIABLES
    rxDesc,      \* rx_desc_t ring: length and the DD bit of status
    rxPkt,       \* RX packet buffers
    rxHeadReg,   \* NIC_REG_RXDESC_HEAD
    rxTailReg,   \* NIC_REG_RXDESC_TAIL
    txPkt,       \* TX packet buffers, each an OuchEnter
    txHeadReg,   \* NIC_REG_TXDESC_HEAD
    txTailReg,   \* NIC_REG_TXDESC_TAIL
    ctrl         \* enable bits of NIC_REG_CTRL

rxVars  == <<rxDesc, rxPkt, rxHeadReg, rxTailReg>>
txVars  == <<txPkt, txHeadReg, txTailReg>>
memVars == <<rxDesc, rxPkt, rxHeadReg, rxTailReg, txPkt, txHeadReg,
             txTailReg, ctrl>>

MemTypeOK ==
    /\ rxDesc \in [RxSlots -> [length : 0 .. PKT_BUF_SIZE, status : {0, 1}]]
    /\ rxPkt \in [RxSlots -> Packet]
    /\ rxHeadReg \in RxSlots
    /\ rxTailReg \in RxSlots
    /\ txPkt \in [TxSlots -> Order]
    /\ txHeadReg \in TxSlots
    /\ txTailReg \in TxSlots
    /\ ctrl \subseteq {"RX_EN", "TX_EN"}

MemInit ==
    /\ rxDesc = [i \in RxSlots |-> [length |-> 0, status |-> 0]]
    /\ rxPkt = [i \in RxSlots |-> ZeroPacket]
    /\ rxHeadReg = 0
    /\ rxTailReg = 0
    /\ txPkt = [i \in TxSlots |-> ZeroOrder]
    /\ txHeadReg = 0
    /\ txTailReg = 0
    /\ ctrl = {}
=============================================================================
