---------------------------- MODULE HftOs_proofs ----------------------------
(***************************************************************************)
(* Proofs about HftOs for every ring size, every modulus, every set of      *)
(* datagrams and every kind of traffic.                                     *)
(***************************************************************************)
EXTENDS HftOs, FiniteSetTheorems, SequenceTheorems, TLAPS

(***************************************************************************)
(* Ring arithmetic.                                                         *)
(***************************************************************************)

(* The sum of two positions in a ring wraps at most once.                   *)
LEMMA ModSum ==
    ASSUME NEW N \in Nat \ {0}, NEW i \in 0 .. N - 1, NEW j \in 0 .. N
    PROVE  (i + j) % N = IF i + j < N THEN i + j ELSE i + j - N
  BY SMT

(* A remainder is a slot of the ring.                                       *)
LEMMA ModIn == ASSUME NEW N \in Nat \ {0}, NEW i \in Nat
               PROVE  i % N \in 0 .. N - 1
  BY SMT

(* Quotient and remainder.                                                  *)
LEMMA DivMod == ASSUME NEW N \in Nat \ {0}, NEW i \in Nat
                PROVE  i \div N \in Nat /\ i = N * (i \div N) + (i % N)
  BY SMT

(* The sizes of the rings and of the buffers, as the provers need them.     *)
LEMMA Sizes == /\ 0 \in RxSlots /\ 0 \in TxSlots /\ 0 \in Word /\ 1 \in Word
               /\ \A i \in RxSlots : (i + 1) % RX_RING_SIZE \in RxSlots
               /\ \A i \in TxSlots : (i + 1) % TX_RING_SIZE \in TxSlots
               /\ \A i \in Word : (i + 1) % U32 \in Word
  BY RingAssumption, ModIn DEF RxSlots, TxSlots, Word

(* What memory holds before it is written has the type of what is written.  *)
LEMMA ZeroTypes == ZeroPacket \in Packet /\ ZeroOrder \in Order
<1>1. 0 \in Word
  BY Sizes
<1>2. ZeroPacket \in Packet
  BY <1>1 DEF ZeroPacket, Packet, MsgTypes
<1>3. ZeroOrder \in Order
  BY <1>1 DEF ZeroOrder, Order
<1>. QED
  BY <1>2, <1>3

(* A price torn at the end of its low byte is still a word.                 *)
LEMMA TornWord ==
    ASSUME NEW p \in Word, NEW b \in Word
    PROVE  TornPrice(p, b) \in Word
<1>1. /\ U32 \in Nat \ {0} /\ U8 \in Nat \ {0} /\ U32 % U8 = 0
      /\ p \in Nat /\ b \in Nat /\ b < U32
  BY RingAssumption DEF Word
<1>2. /\ b % U8 \in 0 .. U8 - 1 /\ p % U8 \in 0 .. U8 - 1
      /\ b \div U8 \in Nat /\ b = U8 * (b \div U8) + (b % U8)
  BY <1>1, ModIn, DivMod
<1>3. U32 \div U8 \in Nat /\ U32 = U8 * (U32 \div U8)
  BY <1>1, DivMod
<1>4. U8 * (b \div U8) + U8 <= U32
  <2>1. b \div U8 + 1 <= U32 \div U8
    BY <1>1, <1>2, <1>3
  <2>. QED
    BY <1>1, <1>2, <1>3, <2>1
<1>. QED
  BY <1>1, <1>2, <1>4 DEF TornPrice, Word

(* Copying a part of a packet over another leaves a packet.                 *)
LEMMA OverlayPacket ==
    ASSUME NEW b \in Packet, NEW p \in Packet, NEW n
    PROVE  Overlay(b, p, n) \in Packet
  BY TornWord DEF Overlay, Packet

(* What recv leaves in the plugin's buffer fits it.                         *)
LEMMA TruncateFits ==
    ASSUME NEW d \in Datagrams
    PROVE  Truncate(d) \in [len : 1 .. PKT_BUF_SIZE, pkt : Packet]
  BY DatagramAssumption DEF Truncate, PKT_BUF_SIZE

(***************************************************************************)
(* Type correctness.                                                        *)
(***************************************************************************)
LEMMA InitType == Init => TypeOK
<1> SUFFICES ASSUME Init PROVE TypeOK
  OBVIOUS
<1>. USE DEF Init
<1>1. MemTypeOK
  BY Sizes, ZeroTypes DEF MemInit, MemTypeOK, PKT_BUF_SIZE
<1>2. NicTypeOK
  <2>1. packet_buffer \in [len : 1 .. PKT_BUF_SIZE, pkt : Packet]
    BY ZeroTypes DEF NicInit, PKT_BUF_SIZE
  <2>. QED
    BY <2>1, Sizes DEF NicInit, NicTypeOK
<1>3. EngineTypeOK
  BY Sizes DEF EngineInit, EngineTypeOK
<1>4. KernelTypeOK
  BY Sizes DEF KernelInit, KernelTypeOK, InitPCs, PKT_BUF_SIZE
<1>. QED
  BY <1>1, <1>2, <1>3, <1>4 DEF TypeOK

LEMMA ArriveType == TypeOK /\ Arrive => TypeOK'
<1> SUFFICES ASSUME TypeOK, Arrive PROVE TypeOK'
  OBVIOUS
<1>1. PICK d \in Datagrams : Recv(d)
  BY DEF Arrive
<1>2. UNCHANGED <<kernelVars, engineVars, memVars, rx_tail>>
  BY <1>1 DEF Arrive, Recv
<1>3. MemTypeOK' /\ EngineTypeOK' /\ KernelTypeOK'
  BY <1>2 DEF TypeOK, MemTypeOK, EngineTypeOK, KernelTypeOK, memVars,
              kernelVars, engineVars
<1>4. NicTypeOK'
  BY <1>1, <1>2, TruncateFits DEF TypeOK, NicTypeOK, Recv
<1>. QED
  BY <1>3, <1>4 DEF TypeOK

LEMMA NicType == TypeOK /\ Nic => TypeOK'
<1> SUFFICES ASSUME TypeOK, Nic PROVE TypeOK'
  OBVIOUS
<1>. USE DEF TypeOK, MemTypeOK, NicTypeOK
<1>1. EngineTypeOK' /\ KernelTypeOK'
  BY DEF Nic, EngineTypeOK, KernelTypeOK, kernelVars, engineVars
<1>2. (MemTypeOK /\ NicTypeOK)'
  <2>1. CASE DmaLength
    <3>1. packet_buffer.len \in 0 .. PKT_BUF_SIZE
      BY DEF PKT_BUF_SIZE
    <3>2. rxDesc' \in [RxSlots -> [length : 0 .. PKT_BUF_SIZE, status : {0, 1}]]
      BY <2>1, <3>1 DEF DmaLength
    <3>. QED
      BY <2>1, <3>2 DEF DmaLength, txVars
  <2>2. CASE \E n \in Cuts \cup {0} : DmaFront(n)
    <3>1. PICK n : DmaFront(n)
      BY <2>2
    <3>2. Overlay(rxPkt[rx_tail], packet_buffer.pkt, n) \in Packet
      BY OverlayPacket
    <3>. QED
      BY <3>1, <3>2 DEF DmaFront, CopyBytes, txVars
  <2>3. CASE DmaBack
    <3>1. Overlay(rxPkt[rx_tail], packet_buffer.pkt, packet_buffer.len) \in Packet
      BY OverlayPacket
    <3>. QED
      BY <2>3, <3>1 DEF DmaBack, CopyBytes, txVars
  <2>4. CASE SetDD
    BY <2>4 DEF SetDD, txVars
  <2>5. CASE BumpTail
    BY <2>5, Sizes DEF BumpTail, txVars
  <2>. QED
    BY <2>1, <2>2, <2>3, <2>4, <2>5 DEF Nic, NicStep
<1>. QED
  BY <1>1, <1>2

LEMMA EngineType == TypeOK /\ Engine => TypeOK'
<1> SUFFICES ASSUME TypeOK, Engine PROVE TypeOK'
  OBVIOUS
<1>. USE DEF Engine, TxSend, TypeOK
<1>1. NicTypeOK' /\ KernelTypeOK'
  BY DEF NicTypeOK, KernelTypeOK, kernelVars, nicVars
<1>2. MemTypeOK'
  BY Sizes DEF MemTypeOK, rxVars
<1>3. EngineTypeOK'
  BY DEF EngineTypeOK, MemTypeOK
<1>. QED
  BY <1>1, <1>2, <1>3

(* A doorbell with a slot of the ring leaves the engine's limit in it.      *)
LEMMA DoorbellType ==
    ASSUME TypeOK, NEW v \in TxSlots, OnDoorbell(v)
    PROVE  txLimit' \in TxSlots
  BY Sizes DEF OnDoorbell, TypeOK, EngineTypeOK

(* The loops over the RX ring stay in the ring.                             *)
LEMMA NextSlotType ==
    ASSUME KernelTypeOK, NEW done \in InitPCs \cup LoopPCs, NextSlot(done)
    PROVE  k' \in RxSlots /\ pc' \in InitPCs \cup LoopPCs
  BY RingAssumption DEF KernelTypeOK, NextSlot, RxSlots

LEMMA CpuType == TypeOK /\ Cpu => TypeOK'
<1> SUFFICES ASSUME TypeOK, Cpu PROVE TypeOK'
  OBVIOUS
<1>1. NicTypeOK'
  BY DEF TypeOK, NicTypeOK, Cpu, nicVars
<1>2. (MemTypeOK /\ EngineTypeOK /\ KernelTypeOK)'
  <2>. USE Sizes DEF TypeOK, MemTypeOK, EngineTypeOK, KernelTypeOK, memVars, rxVars,
           txVars, engineVars, rxLocals, txLocals, book, InitPCs, LoopPCs
  <2>1. CASE RxClear
    BY <2>1, NextSlotType DEF RxClear, PKT_BUF_SIZE
  <2>2. CASE RxFill
    <3>1. rxDesc' \in [RxSlots -> [length : 0 .. PKT_BUF_SIZE, status : {0, 1}]]
      BY <2>2 DEF RxFill, PKT_BUF_SIZE
    <3>2. k' \in RxSlots /\ pc' \in InitPCs \cup LoopPCs
      BY <2>2, NextSlotType DEF RxFill
    <3>. QED
      BY <2>2, <3>1, <3>2 DEF RxFill
  <2>3. CASE RxRegs
    BY <2>3 DEF RxRegs
  <2>4. CASE TxInit
    BY <2>4, DoorbellType DEF TxInit
  <2>5. CASE ReclaimTx
    BY <2>5 DEF ReclaimTx, Reclaim
  <2>6. CASE CheckDD
    BY <2>6 DEF CheckDD
  <2>7. CASE ReadLength
    BY <2>7 DEF ReadLength
  <2>8. CASE ClearDD
    BY <2>8 DEF ClearDD
  <2>9. CASE LoadPayloadLen
    BY <2>9 DEF LoadPayloadLen
  <2>16. CASE Filter
    BY <2>16 DEF Filter
  <2>10. CASE Decide
    <3>1. rxPkt[rx_head].price \in Word /\ rxPkt[rx_head].shares \in Word
      BY DEF Packet
    <3>. QED
      BY <2>10, <3>1 DEF Decide
  <2>11. CASE SpinTx
    BY <2>11 DEF SpinTx, Reclaim
  <2>12. CASE TxSlotFree
    BY <2>12 DEF TxSlotFree
  <2>13. CASE BuildOrder
    BY <2>13 DEF BuildOrder, Order
  <2>14. CASE RingDoorbell
    BY <2>14, DoorbellType DEF RingDoorbell, NextTx
  <2>15. CASE AdvanceRx
    BY <2>15 DEF AdvanceRx
  <2>. QED
    BY <2>1, <2>2, <2>3, <2>4, <2>5, <2>6, <2>7, <2>8, <2>9, <2>10, <2>11,
       <2>12, <2>13, <2>14, <2>15, <2>16 DEF Cpu, KernelStep
<1>. QED
  BY <1>1, <1>2 DEF TypeOK

(* Every variable keeps its type: no index leaves its ring, no length       *)
(* exceeds a packet buffer, no counter leaves its word.                     *)
THEOREM TypeCorrect == Spec => []TypeOK
<1>1. TypeOK /\ [Next]_vars => TypeOK'
  <2>1. TypeOK /\ UNCHANGED vars => TypeOK'
    BY DEF vars, TypeOK, MemTypeOK, NicTypeOK, EngineTypeOK, KernelTypeOK
  <2>. QED
    BY <2>1, ArriveType, NicType, CpuType, EngineType DEF Next
<1>. QED
  BY InitType, <1>1, PTL DEF Spec

(***************************************************************************)
(* The TX ring.                                                             *)
(*                                                                          *)
(* Around the ring, tx_head, HEAD, the engine's limit and tx_idx always     *)
(* stand in this order, and tx_idx never catches up with tx_head: what the  *)
(* kernel believes free really is.  Before init_tx_ring all are zero.       *)
(***************************************************************************)
TxInv ==
    /\ pc \in InitPCs => /\ txHeadReg = 0 /\ txLimit = 0
                         /\ tx_idx = 0 /\ tx_head = 0
                         /\ "TX_EN" \notin ctrl
    /\ Dist(tx_head, txHeadReg) <= Dist(tx_head, tx_idx)
    /\ Dist(txHeadReg, txLimit) <= Dist(txHeadReg, tx_idx)
    /\ pc \in {"build", "doorbell"} => NextTx # tx_head
    /\ pc = "doorbell" => txPkt[tx_idx] = OrderInHand

(* One step forward in the TX ring, without a remainder.                    *)
LEMMA TxSucc ==
    ASSUME NEW i \in TxSlots
    PROVE  (i + 1) % TX_RING_SIZE = IF i + 1 = TX_RING_SIZE THEN 0 ELSE i + 1
<1>1. /\ TX_RING_SIZE \in Nat \ {0} /\ 1 \in 0 .. TX_RING_SIZE
      /\ i \in 0 .. TX_RING_SIZE - 1
  BY RingAssumption DEF TxSlots
<1>2. (i + 1) % TX_RING_SIZE = IF i + 1 < TX_RING_SIZE THEN i + 1
                               ELSE i + 1 - TX_RING_SIZE
  BY <1>1, ModSum
<1>. QED
  BY <1>1, <1>2

LEMMA InitTxInv == Init => TxInv
  BY DEF Init, MemInit, EngineInit, KernelInit, TxInv, InitPCs, Dist

(* The engine moves HEAD only towards its limit.                            *)
LEMMA EngineTxInv == TypeOK /\ TxInv /\ Engine => TxInv'
<1> SUFFICES ASSUME TypeOK, TxInv, Engine PROVE TxInv'
  OBVIOUS
<1>1. /\ txHeadReg \in TxSlots /\ txLimit \in TxSlots
      /\ tx_idx \in TxSlots /\ tx_head \in TxSlots
  BY DEF TypeOK, MemTypeOK, EngineTypeOK, KernelTypeOK
<1>2. /\ txHeadReg # txLimit /\ "TX_EN" \in ctrl
      /\ txHeadReg' = (txHeadReg + 1) % TX_RING_SIZE
      /\ UNCHANGED <<txLimit, txPkt, ctrl, pc, tx_idx, tx_head, order_id,
                     best_bid_price, best_bid_shares>>
  BY DEF Engine, TxSend, kernelVars
<1>3. txHeadReg' = IF txHeadReg + 1 = TX_RING_SIZE THEN 0 ELSE txHeadReg + 1
  BY <1>1, <1>2, TxSucc
<1>4. /\ Dist(tx_head, txHeadReg)' <= Dist(tx_head, tx_idx)'
      /\ Dist(txHeadReg, txLimit)' <= Dist(txHeadReg, tx_idx)'
  BY <1>1, <1>2, <1>3, RingAssumption DEF TxInv, Dist, TxSlots
<1>. QED
  BY <1>2, <1>4 DEF TxInv, NextTx, OrderInHand

(* The kernel reads HEAD late, never early, and rings only filled slots.    *)
LEMMA CpuTxInv == TypeOK /\ TxInv /\ Cpu => TxInv'
<1> SUFFICES ASSUME TypeOK, TxInv, Cpu PROVE TxInv'
  OBVIOUS
<1>1. /\ txHeadReg \in TxSlots /\ txLimit \in TxSlots
      /\ tx_idx \in TxSlots /\ tx_head \in TxSlots
      /\ txPkt \in [TxSlots -> Order]
  BY DEF TypeOK, MemTypeOK, EngineTypeOK, KernelTypeOK
<1>. USE DEF memVars, rxVars, txVars, engineVars, rxLocals, txLocals, book
<1>2. CASE RxClear \/ RxFill
  BY <1>2 DEF RxClear, RxFill, NextSlot, TxInv, InitPCs, Dist
<1>3. CASE RxRegs
  <2>1. "TX_EN" \notin ctrl'
    BY <1>3 DEF RxRegs, TxInv, InitPCs
  <2>. QED
    BY <1>3, <2>1 DEF RxRegs, TxInv, InitPCs, Dist
<1>4. CASE TxInit
  BY <1>4 DEF TxInit, OnDoorbell, TxInv, InitPCs, Dist
<1>5. CASE ReclaimTx \/ SpinTx
  <2>1. /\ tx_head' = txHeadReg /\ pc \in {"poll", "spin"}
        /\ pc' \in {"check", "spin"}
        /\ UNCHANGED <<txHeadReg, txLimit, tx_idx>>
    BY <1>5 DEF ReclaimTx, SpinTx, Reclaim
  <2>2. Dist(txHeadReg, txHeadReg) <= Dist(txHeadReg, tx_idx)
    BY <1>1, RingAssumption DEF Dist, TxSlots
  <2>. QED
    BY <2>1, <2>2 DEF TxInv, InitPCs, Dist
<1>6. CASE CheckDD \/ ReadLength \/ ClearDD \/ LoadPayloadLen \/ Filter \/ AdvanceRx
  BY <1>6 DEF CheckDD, ReadLength, ClearDD, LoadPayloadLen, Filter, AdvanceRx, TxInv,
              InitPCs, Dist
<1>7. CASE Decide
  BY <1>7 DEF Decide, TxInv, InitPCs, Dist
<1>8. CASE TxSlotFree
  BY <1>8 DEF TxSlotFree, TxInv, InitPCs, Dist, NextTx
<1>9. CASE BuildOrder
  BY <1>1, <1>9 DEF BuildOrder, TxInv, InitPCs, Dist, NextTx, OrderInHand
<1>10. CASE RingDoorbell
  <2>1. /\ pc = "doorbell" /\ pc' = "advance" /\ OnDoorbell(tx_idx)
        /\ tx_idx' = NextTx /\ NextTx # tx_head
        /\ UNCHANGED <<txHeadReg, tx_head, ctrl>>
    BY <1>10 DEF RingDoorbell, TxInv
  <2>2. NextTx = IF tx_idx + 1 = TX_RING_SIZE THEN 0 ELSE tx_idx + 1
    BY <1>1, TxSucc DEF NextTx
  <2>3. txLimit' \in {txLimit, tx_idx, NextTx}
    BY <2>1 DEF OnDoorbell, NextTx
  <2>4. /\ Dist(tx_head, txHeadReg) <= Dist(tx_head, tx_idx)
        /\ Dist(txHeadReg, txLimit) <= Dist(txHeadReg, tx_idx)
    BY DEF TxInv
  <2>5. /\ Dist(tx_head, txHeadReg) <= Dist(tx_head, NextTx)
        /\ \A l \in {txLimit, tx_idx, NextTx} :
             Dist(txHeadReg, l) <= Dist(txHeadReg, NextTx)
    BY <1>1, <2>1, <2>2, <2>4, RingAssumption DEF Dist, TxSlots
  <2>6. /\ Dist(tx_head, txHeadReg)' <= Dist(tx_head, tx_idx)'
        /\ Dist(txHeadReg, txLimit)' <= Dist(txHeadReg, tx_idx)'
    BY <2>1, <2>3, <2>5 DEF Dist
  <2>. QED
    BY <2>1, <2>6 DEF TxInv, InitPCs
<1>. QED
  BY <1>2, <1>3, <1>4, <1>5, <1>6, <1>7, <1>8, <1>9, <1>10
  DEF Cpu, KernelStep

LEMMA NextTxInv == TypeOK /\ TxInv /\ [Next]_vars => TxInv'
<1> SUFFICES ASSUME TypeOK, TxInv, [Next]_vars PROVE TxInv'
  OBVIOUS
<1>1. CASE Arrive \/ Nic \/ UNCHANGED vars
  <2>1. UNCHANGED <<txPkt, txHeadReg, ctrl, kernelVars, engineVars>>
    BY <1>1 DEF Arrive, Recv, Nic, NicStep, DmaLength, DmaFront, DmaBack,
                SetDD, BumpTail, txVars, memVars, vars, kernelVars, engineVars
  <2>. QED
    BY <2>1 DEF TxInv, Dist, NextTx, OrderInHand, kernelVars, engineVars
<1>. QED
  BY <1>1, EngineTxInv, CpuTxInv DEF Next

THEOREM TxRingOrdered == Spec => []TxInv
  BY TypeCorrect, InitTxInv, NextTxInv, PTL DEF Spec

(***************************************************************************)
(* Orders only grow.                                                        *)
(***************************************************************************)
SameOrders == /\ OrderCount' = OrderCount
              /\ \A n \in 1 .. OrderCount : OrderAt(n)' = OrderAt(n)

NewOrder == /\ OrderCount' = OrderCount + 1
            /\ \A n \in 1 .. OrderCount : OrderAt(n)' = OrderAt(n)
            /\ OrderAt(OrderCount)' = OrderInHand'
            /\ order_id' = next_order_id
            /\ next_order_id' = (next_order_id + 1) % U32
            /\ best_bid_price' > best_bid_price

(* The window between HEAD and tx_idx is shorter than the ring, and the     *)
(* slots of it are those SlotAt counts.                                     *)
LEMMA Window ==
    ASSUME TypeOK
    PROVE  /\ Len(wire) \in Nat /\ Rung \in Nat /\ OrderCount \in Nat
           /\ Dist(txHeadReg, tx_idx) \in 0 .. TX_RING_SIZE - 1
           /\ Rung - Len(wire) = Dist(txHeadReg, tx_idx)
           /\ \A j \in 0 .. TX_RING_SIZE - 1 :
                 SlotAt(j) = IF txHeadReg + j < TX_RING_SIZE THEN txHeadReg + j
                             ELSE txHeadReg + j - TX_RING_SIZE
<1>1. /\ txHeadReg \in TxSlots /\ tx_idx \in TxSlots /\ wire \in Seq(Order)
      /\ TX_RING_SIZE \in Nat \ {0}
  BY RingAssumption DEF TypeOK, MemTypeOK, KernelTypeOK, EngineTypeOK
<1>2. Dist(txHeadReg, tx_idx) \in 0 .. TX_RING_SIZE - 1
  BY <1>1 DEF Dist, TxSlots
<1>3. Len(wire) \in Nat
  BY <1>1
<1>4. ASSUME NEW j \in 0 .. TX_RING_SIZE - 1
      PROVE  SlotAt(j) = IF txHeadReg + j < TX_RING_SIZE THEN txHeadReg + j
                         ELSE txHeadReg + j - TX_RING_SIZE
  <2>1. txHeadReg \in 0 .. TX_RING_SIZE - 1 /\ j \in 0 .. TX_RING_SIZE
    BY <1>1 DEF TxSlots
  <2>. QED
    BY <1>1, <2>1, ModSum DEF SlotAt
<1>. QED
  BY <1>2, <1>3, <1>4 DEF Rung, OrderCount

(* A step that touches neither the TX ring nor the order in hand.           *)
LEMMA QuietOrders ==
    ASSUME UNCHANGED <<wire, txPkt, txHeadReg, tx_idx>>, InHand' = InHand,
           InHand => OrderInHand' = OrderInHand, TypeOK
    PROVE  SameOrders
<1>1. Rung' = Rung /\ OrderCount' = OrderCount
  BY DEF Rung, OrderCount, Dist
<1>2. ASSUME NEW n \in 1 .. OrderCount
      PROVE  OrderAt(n)' = OrderAt(n)
  <2>1. CASE n <= Rung
    BY <1>1, <2>1 DEF OrderAt, SlotAt
  <2>2. CASE ~(n <= Rung)
    <3>1. ~(n <= Len(wire)) /\ InHand
      BY <2>2, Window DEF OrderCount
    <3>. QED
      BY <1>1, <2>2, <3>1 DEF OrderAt
  <2>. QED
    BY <2>1, <2>2
<1>. QED
  BY <1>1, <1>2 DEF SameOrders

(* Sending moves the oldest order of the ring to the end of the wire.       *)
LEMMA EngineOrders == TypeOK /\ TxInv /\ Engine => SameOrders
<1> SUFFICES ASSUME TypeOK, TxInv, Engine PROVE SameOrders
  OBVIOUS
<1>1. /\ txHeadReg \in TxSlots /\ txLimit \in TxSlots /\ tx_idx \in TxSlots
      /\ wire \in Seq(Order) /\ txPkt \in [TxSlots -> Order]
      /\ TX_RING_SIZE \in Nat \ {0, 1}
  BY RingAssumption DEF TypeOK, MemTypeOK, EngineTypeOK, KernelTypeOK
<1>2. /\ txHeadReg # txLimit
      /\ wire' = Append(wire, txPkt[txHeadReg])
      /\ txHeadReg' = (txHeadReg + 1) % TX_RING_SIZE
      /\ UNCHANGED <<txPkt, tx_idx, pc, order_id, best_bid_price, best_bid_shares>>
  BY DEF Engine, TxSend, kernelVars
<1>3. txHeadReg' = IF txHeadReg + 1 = TX_RING_SIZE THEN 0 ELSE txHeadReg + 1
  BY <1>1, <1>2, TxSucc
<1>4. /\ Len(wire') = Len(wire) + 1
      /\ wire'[Len(wire) + 1] = txPkt[txHeadReg]
      /\ \A n \in 1 .. Len(wire) : wire'[n] = wire[n]
  BY <1>1, <1>2
<1>5. Dist(txHeadReg, tx_idx) >= 1
  BY <1>1, <1>2 DEF TxInv, Dist, TxSlots
<1>6. Dist(txHeadReg, tx_idx)' = Dist(txHeadReg, tx_idx) - 1
  <2>1. txHeadReg # tx_idx
    BY <1>1, <1>5 DEF Dist, TxSlots
  <2>2. Dist(txHeadReg', tx_idx) = Dist(txHeadReg, tx_idx) - 1
    BY <1>1, <1>3, <2>1 DEF Dist, TxSlots
  <2>. QED
    BY <1>2, <2>2 DEF Dist
<1>7. Rung' = Rung /\ OrderCount' = OrderCount
  <2>1. Rung' = Len(wire') + Dist(txHeadReg, tx_idx)'
    BY DEF Rung
  <2>2. Rung' = Rung
    BY <1>4, <1>6, <2>1, Window DEF Rung
  <2>. QED
    BY <1>2, <2>2 DEF OrderCount, InHand
<1>8. TypeOK'
  BY EngineType
<1>9. ASSUME NEW n \in 1 .. OrderCount
      PROVE  OrderAt(n)' = OrderAt(n)
  <2>. Len(wire) \in Nat /\ n \in Nat /\ Rung \in Nat
    BY Window
  <2>. Rung - Len(wire) \in 1 .. TX_RING_SIZE - 1
    BY <1>5, Window
  <2>1. CASE n <= Len(wire)
    BY <1>4, <2>1 DEF OrderAt
  <2>2. CASE n = Len(wire) + 1
    <3>1. SlotAt(0) = txHeadReg
      BY <1>1, Window DEF TxSlots
    <3>2. n <= Rung
      BY <2>2
    <3>. QED
      BY <1>4, <2>2, <3>1, <3>2 DEF OrderAt
  <2>3. CASE n > Len(wire) + 1 /\ n <= Rung
    <3>. DEFINE j == n - Len(wire) - 1
    <3>1. j \in 1 .. TX_RING_SIZE - 1
      BY <1>1, <2>3
    <3>2. n - Len(wire') - 1 = j - 1
      BY <1>4
    <3>3. SlotAt(j) = IF txHeadReg + j < TX_RING_SIZE THEN txHeadReg + j
                      ELSE txHeadReg + j - TX_RING_SIZE
      BY <3>1, Window
    <3>4. (txHeadReg' + (j - 1)) % TX_RING_SIZE
            = IF txHeadReg' + (j - 1) < TX_RING_SIZE THEN txHeadReg' + (j - 1)
              ELSE txHeadReg' + (j - 1) - TX_RING_SIZE
      <4>1. txHeadReg' \in 0 .. TX_RING_SIZE - 1 /\ j - 1 \in 0 .. TX_RING_SIZE
        BY <1>1, <1>3, <3>1 DEF TxSlots
      <4>. QED
        BY <1>1, <4>1, ModSum
    <3>5. (txHeadReg' + (j - 1)) % TX_RING_SIZE = SlotAt(j)
      <4>. txHeadReg \in 0 .. TX_RING_SIZE - 1 /\ j \in Nat
        BY <1>1, <3>1 DEF TxSlots
      <4>. HIDE DEF j
      <4>1. CASE txHeadReg + 1 = TX_RING_SIZE
        BY <1>1, <1>3, <3>1, <3>3, <3>4, <4>1
      <4>2. CASE txHeadReg + 1 # TX_RING_SIZE
        BY <1>1, <1>3, <3>1, <3>3, <3>4, <4>2
      <4>. QED
        BY <4>1, <4>2
    <3>6. OrderAt(n) = txPkt[SlotAt(j)]
      BY <2>3 DEF OrderAt
    <3>7. OrderAt(n)' = txPkt'[(txHeadReg' + (n - Len(wire') - 1)) % TX_RING_SIZE]
      BY <1>4, <1>7, <2>3 DEF OrderAt, SlotAt
    <3>. QED
      BY <1>2, <3>2, <3>5, <3>6, <3>7
  <2>4. CASE n > Rung
    <3>1. ~(n <= Len(wire)) /\ ~(n <= Rung) /\ ~(n <= Len(wire'))
      BY <1>4, <2>4
    <3>. QED
      BY <1>2, <1>7, <3>1 DEF OrderAt, OrderInHand
  <2>. QED
    BY <2>1, <2>2, <2>3, <2>4
<1>. QED
  BY <1>7, <1>9 DEF SameOrders

(* The kernel changes where an order is, never the order; Decide is *)
(* the only step that makes one.                                            *)
LEMMA CpuOrders ==
    TypeOK /\ TxInv /\ Cpu =>
        \/ SameOrders /\ UNCHANGED <<best_bid_price, next_order_id>>
        \/ NewOrder
<1> SUFFICES ASSUME TypeOK, TxInv, Cpu
    PROVE  \/ SameOrders /\ UNCHANGED <<best_bid_price, next_order_id>>
           \/ NewOrder
  OBVIOUS
<1>. USE DEF memVars, rxVars, txVars, engineVars, rxLocals, txLocals, book
<1>1. CASE \/ RxClear \/ RxFill \/ RxRegs \/ ReclaimTx \/ CheckDD \/ ReadLength
           \/ ClearDD \/ LoadPayloadLen \/ Filter \/ SpinTx \/ TxSlotFree
           \/ AdvanceRx
  <2>1. UNCHANGED <<wire, txPkt, txHeadReg, tx_idx, order_id, best_bid_price,
                    best_bid_shares, next_order_id>>
    BY <1>1 DEF RxClear, RxFill, RxRegs, ReclaimTx, CheckDD, ReadLength, ClearDD,
                LoadPayloadLen, Filter, SpinTx, TxSlotFree, AdvanceRx
  <2>2. InHand' = InHand
    BY <1>1 DEF RxClear, RxFill, RxRegs, ReclaimTx, CheckDD, ReadLength, ClearDD,
                LoadPayloadLen, Filter, SpinTx, TxSlotFree, AdvanceRx, NextSlot, InHand
  <2>. QED
    BY <2>1, <2>2, QuietOrders DEF OrderInHand
<1>2. CASE TxInit
  <2>1. /\ UNCHANGED <<wire, txPkt, txHeadReg, tx_idx, order_id, best_bid_price,
                       best_bid_shares, next_order_id>>
        /\ InHand' = InHand
    BY <1>2 DEF TxInit, TxInv, InitPCs, InHand
  <2>. QED
    BY <2>1, QuietOrders DEF OrderInHand
<1>3. CASE Decide /\ ~Improves(rxPkt[rx_head])
  <2>1. /\ UNCHANGED <<wire, txPkt, txHeadReg, tx_idx, order_id, best_bid_price,
                       best_bid_shares, next_order_id>>
        /\ InHand' = InHand
    BY <1>3 DEF Decide, InHand
  <2>. QED
    BY <2>1, QuietOrders DEF OrderInHand
<1>4. CASE Decide /\ Improves(rxPkt[rx_head])
  <2>1. /\ UNCHANGED <<wire, txPkt, txHeadReg, tx_idx>>
        /\ ~InHand /\ InHand'
        /\ order_id' = next_order_id
        /\ next_order_id' = (next_order_id + 1) % U32
        /\ best_bid_price' > best_bid_price
    BY <1>4 DEF Decide, Improves, InHand
  <2>2. Rung' = Rung /\ OrderCount = Rung /\ OrderCount' = OrderCount + 1
    BY <2>1, Window DEF Rung, Dist, OrderCount
  <2>3. ASSUME NEW n \in 1 .. OrderCount
        PROVE  OrderAt(n)' = OrderAt(n)
    BY <2>1, <2>2 DEF OrderAt, SlotAt
  <2>4. OrderAt(OrderCount)' = OrderInHand'
    <3>1. ~(OrderCount' <= Rung) /\ ~(OrderCount' <= Len(wire))
      BY <2>2, Window
    <3>. QED
      BY <2>1, <2>2, <3>1 DEF OrderAt
  <2>. QED
    BY <2>1, <2>2, <2>3, <2>4 DEF NewOrder
<1>5. CASE BuildOrder
  <2>1. /\ UNCHANGED <<wire, txHeadReg, tx_idx, order_id, best_bid_price,
                       best_bid_shares, next_order_id>>
        /\ InHand' = InHand
        /\ txPkt' = [txPkt EXCEPT ![tx_idx] = OrderInHand]
    BY <1>5 DEF BuildOrder, InHand, OrderInHand
  <2>2. Rung' = Rung /\ OrderCount' = OrderCount
    BY <2>1 DEF Rung, Dist, OrderCount
  <2>3. ASSUME NEW n \in 1 .. OrderCount
        PROVE  OrderAt(n)' = OrderAt(n)
    <3>1. CASE n > Len(wire) /\ n <= Rung
      <4>. DEFINE j == n - Len(wire) - 1
      <4>1. j \in 0 .. TX_RING_SIZE - 1 /\ j < Dist(txHeadReg, tx_idx)
        <5>1. /\ n \in Nat /\ Len(wire) \in Nat /\ Rung \in Nat
              /\ Dist(txHeadReg, tx_idx) \in 0 .. TX_RING_SIZE - 1
              /\ Rung - Len(wire) = Dist(txHeadReg, tx_idx)
          BY Window
        <5>. QED
          BY <3>1, <5>1, RingAssumption
      <4>2. /\ txHeadReg \in TxSlots /\ tx_idx \in TxSlots
            /\ txPkt \in [TxSlots -> Order] /\ TX_RING_SIZE \in Nat
        BY RingAssumption DEF TypeOK, MemTypeOK, KernelTypeOK
      <4>3. SlotAt(j) # tx_idx
        <5>1. SlotAt(j) = IF txHeadReg + j < TX_RING_SIZE THEN txHeadReg + j
                          ELSE txHeadReg + j - TX_RING_SIZE
          BY <4>1, Window
        <5>. HIDE DEF j
        <5>. QED
          BY <4>1, <4>2, <5>1 DEF Dist, TxSlots
      <4>4. OrderAt(n) = txPkt[SlotAt(j)] /\ OrderAt(n)' = txPkt'[SlotAt(j)]
        BY <2>1, <2>2, <3>1, Window DEF OrderAt, SlotAt
      <4>. QED
        BY <2>1, <4>2, <4>3, <4>4
    <3>2. CASE ~(n > Len(wire) /\ n <= Rung)
      BY <2>1, <2>2, <3>2, Window DEF OrderAt, OrderInHand
    <3>. QED
      BY <3>1, <3>2
  <2>. QED
    BY <2>1, <2>2, <2>3 DEF SameOrders
<1>6. CASE RingDoorbell
  <2>1. /\ UNCHANGED <<wire, txPkt, txHeadReg, order_id, best_bid_price,
                       best_bid_shares, next_order_id>>
        /\ InHand /\ ~InHand' /\ tx_idx' = NextTx /\ NextTx # tx_head
        /\ txPkt[tx_idx] = OrderInHand
    BY <1>6 DEF RingDoorbell, InHand, TxInv
  <2>2. /\ txHeadReg \in 0 .. TX_RING_SIZE - 1 /\ tx_idx \in 0 .. TX_RING_SIZE - 1
        /\ tx_head \in 0 .. TX_RING_SIZE - 1 /\ TX_RING_SIZE \in Nat \ {0, 1}
    BY RingAssumption DEF TypeOK, MemTypeOK, KernelTypeOK, TxSlots
  <2>3. NextTx = IF tx_idx + 1 = TX_RING_SIZE THEN 0 ELSE tx_idx + 1
    BY <2>2, TxSucc DEF NextTx, TxSlots
  <2>4. Dist(txHeadReg, NextTx) = Dist(txHeadReg, tx_idx) + 1
    BY <2>1, <2>2, <2>3 DEF TxInv, Dist
  <2>5. Rung' = Rung + 1 /\ OrderCount = Rung + 1 /\ OrderCount' = OrderCount
    <3>1. Rung' = Len(wire) + Dist(txHeadReg, NextTx)
      BY <2>1 DEF Rung, Dist
    <3>. QED
      BY <2>1, <2>4, <3>1, Window DEF Rung, OrderCount
  <2>6. ASSUME NEW n \in 1 .. OrderCount
        PROVE  OrderAt(n)' = OrderAt(n)
    <3>1. CASE n <= Rung
      BY <2>1, <2>5, <3>1, Window DEF OrderAt, SlotAt
    <3>2. CASE n = Rung + 1
      <4>1. n - Len(wire) - 1 = Dist(txHeadReg, tx_idx)
        BY <3>2, Window
      <4>2. SlotAt(Dist(txHeadReg, tx_idx)) = tx_idx
        BY <2>2, Window DEF Dist
      <4>3. ~(n <= Len(wire)) /\ ~(n <= Rung) /\ n <= Rung'
        BY <2>5, <3>2, Window
      <4>4. OrderAt(n)' = txPkt[SlotAt(n - Len(wire) - 1)]
        BY <2>1, <4>3 DEF OrderAt, SlotAt
      <4>. QED
        BY <2>1, <4>1, <4>2, <4>3, <4>4 DEF OrderAt
    <3>. QED
      BY <2>5, <3>1, <3>2, Window
  <2>. QED
    BY <2>1, <2>5, <2>6 DEF SameOrders
<1>. QED
  BY <1>1, <1>2, <1>3, <1>4, <1>5, <1>6 DEF Cpu, KernelStep

(* No step of the system does more to the orders than add one.              *)
LEMMA StepOrders ==
    TypeOK /\ TxInv /\ [Next]_vars =>
        \/ SameOrders /\ UNCHANGED <<best_bid_price, next_order_id>>
        \/ NewOrder
<1> SUFFICES ASSUME TypeOK, TxInv, [Next]_vars
    PROVE  \/ SameOrders /\ UNCHANGED <<best_bid_price, next_order_id>>
           \/ NewOrder
  OBVIOUS
<1>1. CASE Arrive \/ Nic \/ UNCHANGED vars
  <2>1. UNCHANGED <<txPkt, txHeadReg, kernelVars, engineVars>>
    BY <1>1 DEF Arrive, Recv, Nic, NicStep, DmaLength, DmaFront, DmaBack,
                SetDD, BumpTail, txVars, memVars, vars, kernelVars, engineVars
  <2>2. /\ UNCHANGED <<wire, txPkt, txHeadReg, tx_idx, best_bid_price,
                       next_order_id>>
        /\ InHand' = InHand /\ OrderInHand' = OrderInHand
    BY <2>1 DEF kernelVars, engineVars, InHand, OrderInHand
  <2>. QED
    BY <2>2, QuietOrders
<1>2. CASE Engine
  BY <1>2, EngineOrders DEF Engine, kernelVars
<1>. QED
  BY <1>1, <1>2, CpuOrders DEF Next

(* Whatever the traffic and however the threads interleave, orders are only *)
(* added, at the end: the TX ring loses, repeats and changes none.          *)
THEOREM OrdersNeverChange == Spec => OrdersOnlyGrow
<1>1. TypeOK /\ TxInv /\ [Next]_vars =>
        /\ OrderCount' \in {OrderCount, OrderCount + 1}
        /\ \A n \in 1 .. OrderCount : OrderAt(n)' = OrderAt(n)
  BY StepOrders DEF SameOrders, NewOrder
<1>. QED
  BY TypeCorrect, TxRingOrdered, <1>1, PTL DEF Spec, OrdersOnlyGrow

(***************************************************************************)
(* The numbers and the prices of the orders.  That ids do not exceed prices *)
(* needs that the last price is the best bid, and that ids are the orders'  *)
(* positions needs that ids do not wrap, which needs the first: the three   *)
(* are invariant only together.                                             *)
(***************************************************************************)
OrdersInv ==
    /\ \A n \in 1 .. OrderCount : /\ OrderAt(n).order_id = n
                                  /\ n <= OrderAt(n).price
    /\ PricesRise
    /\ next_order_id = (OrderCount + 1) % U32

LEMMA OrderTypes == TypeOK => \A n \in 1 .. OrderCount : OrderAt(n) \in Order
<1> SUFFICES ASSUME TypeOK, NEW n \in 1 .. OrderCount
    PROVE  OrderAt(n) \in Order
  OBVIOUS
<1>1. /\ wire \in Seq(Order) /\ txPkt \in [TxSlots -> Order]
      /\ OrderInHand \in Order
  BY DEF TypeOK, MemTypeOK, EngineTypeOK, KernelTypeOK, OrderInHand, Order
<1>2. CASE n <= Len(wire)
  BY <1>1, <1>2 DEF OrderAt
<1>3. CASE n > Len(wire) /\ n <= Rung
  <2>1. /\ n \in Nat /\ Len(wire) \in Nat /\ Rung \in Nat
        /\ Rung - Len(wire) \in 0 .. TX_RING_SIZE - 1
    BY Window
  <2>2. n - Len(wire) - 1 \in 0 .. TX_RING_SIZE - 1
    BY <1>3, <2>1, RingAssumption
  <2>3. SlotAt(n - Len(wire) - 1) \in TxSlots
    <3>1. txHeadReg \in Nat /\ TX_RING_SIZE \in Nat \ {0}
      BY RingAssumption DEF TypeOK, MemTypeOK, TxSlots
    <3>2. txHeadReg + (n - Len(wire) - 1) \in Nat
      BY <2>2, <3>1
    <3>. QED
      BY <3>1, <3>2, ModIn DEF SlotAt, TxSlots
  <2>. QED
    BY <1>1, <1>3, <2>1, <2>3 DEF OrderAt
<1>4. CASE n > Rung
  <2>1. ~(n <= Len(wire)) /\ ~(n <= Rung)
    BY <1>4, Window
  <2>. QED
    BY <1>1, <2>1 DEF OrderAt
<1>. QED
  BY <1>2, <1>3, <1>4, Window

LEMMA InitOrders == Init => OrdersInv
<1> SUFFICES ASSUME Init PROVE OrdersInv
  OBVIOUS
<1>1. OrderCount = 0
  BY DEF Init, MemInit, EngineInit, KernelInit, OrderCount, Rung, Dist, InHand
<1>2. 1 = (0 + 1) % U32
  <2>1. U32 \in Nat \ {0} /\ 0 \in 0 .. U32 - 1 /\ 1 \in 0 .. U32 /\ 0 + 1 < U32
    BY RingAssumption
  <2>2. (0 + 1) % U32 = IF 0 + 1 < U32 THEN 0 + 1 ELSE 0 + 1 - U32
    BY <2>1, ModSum
  <2>. QED
    BY <2>1, <2>2
<1>. QED
  BY <1>1, <1>2 DEF OrdersInv, PricesRise, Init, KernelInit

LEMMA NextOrders == TypeOK /\ TypeOK' /\ TxInv /\ OrdersInv /\ [Next]_vars
                    => OrdersInv'
<1> SUFFICES ASSUME TypeOK, TypeOK', TxInv, OrdersInv, [Next]_vars
    PROVE  OrdersInv'
  OBVIOUS
<1>. DEFINE c == OrderCount
<1>0. c \in Nat
  BY Window
<1>1. CASE SameOrders /\ UNCHANGED <<best_bid_price, next_order_id>>
  <2>1. /\ \A n \in 1 .. c : OrderAt(n)' = OrderAt(n)
        /\ OrderCount' = c
    BY <1>1 DEF SameOrders
  <2>2. c # 0 => OrderAt(OrderCount)' = OrderAt(c)
    <3>1. c # 0 => c \in 1 .. c
      BY <1>0
    <3>2. OrderAt(OrderCount)' = IF c <= Len(wire') THEN wire'[c]
                                 ELSE IF c <= Rung' THEN txPkt'[SlotAt(c - Len(wire) - 1)']
                                 ELSE OrderInHand'
      BY <2>1 DEF OrderAt
    <3>. QED
      BY <2>1, <3>1, <3>2 DEF OrderAt
  <2>. QED
    BY <1>1, <2>1, <2>2 DEF OrdersInv, PricesRise
<1>2. CASE NewOrder
  <2>. DEFINE best == best_bid_price
  <2>1. /\ OrderCount' = c + 1
        /\ \A n \in 1 .. c : OrderAt(n)' = OrderAt(n)
        /\ OrderAt(OrderCount)' = OrderInHand'
        /\ order_id' = next_order_id
        /\ next_order_id' = (next_order_id + 1) % U32
        /\ best' > best
    BY <1>2 DEF NewOrder
  <2>2. /\ best \in Nat /\ best' \in Nat /\ best' < U32
        /\ U32 \in Nat \ {0, 1}
    BY RingAssumption DEF TypeOK, KernelTypeOK, Word
  <2>3. c <= best
    BY <1>0, <2>2 DEF OrdersInv, PricesRise
  <2>4. next_order_id = c + 1
    <3>1. c \in 0 .. U32 - 1 /\ 1 \in 0 .. U32 /\ c + 1 < U32 /\ U32 \in Nat \ {0}
      BY <1>0, <2>1, <2>2, <2>3
    <3>2. (c + 1) % U32 = c + 1
      BY <3>1, ModSum
    <3>. QED
      BY <3>2 DEF OrdersInv
  <2>5. /\ OrderAt(OrderCount)'.order_id = c + 1
        /\ OrderAt(OrderCount)'.price = best'
    BY <2>1, <2>4 DEF OrderInHand
  <2>6. ASSUME NEW n \in 1 .. c + 1
        PROVE  OrderAt(n)' = IF n = c + 1 THEN OrderAt(OrderCount)' ELSE OrderAt(n)
    <3>1. CASE n = c + 1
      BY <2>1, <3>1 DEF OrderAt, SlotAt
    <3>2. CASE n # c + 1
      BY <1>0, <2>1, <3>2
    <3>. QED
      BY <3>1, <3>2
  <2>7. ASSUME NEW n \in 1 .. c + 1
        PROVE  OrderAt(n)'.order_id = n /\ n <= OrderAt(n)'.price
    <3>1. CASE n = c + 1
      BY <1>0, <2>1, <2>2, <2>3, <2>5, <2>6, <3>1
    <3>2. CASE n # c + 1
      BY <1>0, <2>6, <3>2 DEF OrdersInv
    <3>. QED
      BY <3>1, <3>2
  <2>8. ASSUME NEW n \in 1 .. c
        PROVE  OrderAt(n).price <= best /\ OrderAt(n).price \in Nat
    <3>1. OrderAt(n).price \in Nat /\ OrderAt(c).price \in Nat
      BY <1>0, OrderTypes, RingAssumption DEF Order, Word
    <3>. QED
      BY <1>0, <3>1 DEF OrdersInv, PricesRise
  <2>9. ASSUME NEW m \in 1 .. c + 1, NEW n \in 1 .. c + 1, m < n
        PROVE  OrderAt(m)'.price < OrderAt(n)'.price
    <3>1. m \in 1 .. c /\ OrderAt(m)' = OrderAt(m)
      BY <1>0, <2>1, <2>9
    <3>2. CASE n = c + 1
      BY <2>1, <2>2, <2>5, <2>6, <2>8, <3>1, <3>2
    <3>3. CASE n # c + 1
      <4>1. n \in 1 .. c /\ OrderAt(n)' = OrderAt(n)
        BY <1>0, <2>1, <3>3
      <4>. QED
        BY <2>9, <3>1, <4>1 DEF OrdersInv, PricesRise
    <3>. QED
      BY <3>2, <3>3
  <2>10. PricesRise'
    <3>1. OrderCount' # 0
      BY <1>0, <2>1
    <3>. QED
      BY <2>1, <2>5, <2>9, <3>1 DEF PricesRise
  <2>11. next_order_id' = (OrderCount' + 1) % U32
    BY <2>1, <2>4
  <2>. QED
    BY <2>1, <2>7, <2>10, <2>11 DEF OrdersInv
<1>. QED
  BY <1>1, <1>2, StepOrders

LEMMA OrdersCorrect == Spec => []OrdersInv
  BY TypeCorrect, TxRingOrdered, InitOrders, NextOrders, PTL DEF Spec

(* Orders reach the wire in the order they were made, each exactly once.    *)
THEOREM WireOrder == Spec => []WireInOrder
<1>1. TypeOK /\ OrdersInv => WireInOrder
  <2> SUFFICES ASSUME TypeOK, OrdersInv, NEW n \in 1 .. Len(wire)
      PROVE  wire[n].order_id = n
    BY DEF WireInOrder
  <2>1. n \in 1 .. OrderCount /\ n <= Len(wire)
    BY Window DEF OrderCount
  <2>. QED
    BY <2>1 DEF OrdersInv, OrderAt
<1>. QED
  BY TypeCorrect, OrdersCorrect, <1>1, PTL

(* No order id exceeds its price, so none is ever used twice.               *)
THEOREM OrderIdsBounded == Spec => []OrderIdBelowPrice
<1>1. TypeOK /\ OrdersInv => OrderIdBelowPrice
  <2> SUFFICES ASSUME TypeOK, OrdersInv, NEW n \in 1 .. OrderCount
      PROVE  OrderAt(n).order_id \in 1 .. OrderAt(n).price
    BY DEF OrderIdBelowPrice
  <2>1. OrderAt(n).price \in Nat
    BY OrderTypes, RingAssumption DEF Order, Word
  <2>. QED
    BY <2>1 DEF OrdersInv
<1>. QED
  BY TypeCorrect, OrdersCorrect, <1>1, PTL

(* The prices of all orders rise, and the last is the book's best bid.      *)
THEOREM BookMatchesOrders == Spec => []PricesRise
  BY OrdersCorrect, PTL DEF OrdersInv

-----------------------------------------------------------------------------
(***************************************************************************)
(* Proofs about the receive side of HftOs: paced traffic is judged as       *)
(* BestBid judges it, or, if it did not wait for the boot, as LateBid does. *)
(***************************************************************************)

(***************************************************************************)
(* The receive ring, when traffic waits for the boot.                       *)
(***************************************************************************)

(* The kernel has taken the packet at rx_head off the ring and not yet      *)
(* stepped over it.                                                         *)
Reading == pc \in {"load", "parse", "decide", "advance"} \/ InHand

Taken == handled + (IF Reading THEN 1 ELSE 0)

(* Datagrams whose descriptor is, and whose packet is written.              *)
Sized   == Len(recvd) - (IF nic_pc = "length" THEN 1 ELSE 0)
Written == Len(recvd) - (IF nic_pc \in {"length", "front", "back"} THEN 1 ELSE 0)

Full(n) == recvd[n].len >= PKT_MIN_LEN

(* Where kernel and plugin are in the ring.                                 *)
PlaceInv ==
    /\ handled <= Filled
    /\ Len(recvd) <= handled + RX_RING_SIZE
    /\ rx_head = handled % RX_RING_SIZE
    /\ rx_tail = IF nic_pc = "recv" THEN Len(recvd) % RX_RING_SIZE
                 ELSE SlotOf(Len(recvd))
    /\ nic_pc # "recv" => Len(recvd) > 0 /\ packet_buffer = recvd[Len(recvd)]
    /\ pc \in InitPCs => handled = 0 /\ recvd = <<>>

(* What is in it: the DD bits stand for the datagrams that are not taken,   *)
(* and the packets that are not stepped over are whole.                     *)
RingInv ==
    /\ \A i \in RxSlots : rxDesc[i].status = 1 =>
           \E n \in Taken + 1 .. Filled : i = SlotOf(n)
    /\ \A n \in Taken + 1 .. Filled : rxDesc[SlotOf(n)].status = 1
    /\ \A n \in handled + 1 .. Written :
           Full(n) => rxPkt[SlotOf(n)] = recvd[n].pkt
    /\ pc \in {"length", "clear"} => rxDesc[rx_head].status = 1
    /\ Reading => handled < Filled

(* A length in the ring is that of the packet.                              *)
LengthInv ==
    /\ \A n \in handled + 1 .. Sized : rxDesc[SlotOf(n)].length = recvd[n].len
    /\ pc = "clear" => (plen >= PKT_MIN_LEN <=> Full(handled + 1))

(* What the kernel has found out about the packet it is at.                 *)
JudgeInv ==
    /\ pc \in {"load", "parse", "decide"} => Full(handled + 1)
    /\ pc \in {"parse", "decide"} =>
           recvd[handled + 1].pkt.payload_len = ITCH_PAYLOAD_LEN
    /\ pc = "decide" => /\ recvd[handled + 1].pkt.msg_type = "A"
                        /\ recvd[handled + 1].pkt.stock_locate = AAPL_LOCATE

RxInv == PlaceInv /\ RingInv /\ LengthInv /\ JudgeInv

(* Paced traffic that waits for the boot.                                   *)
AfterBoot == Paced /\ ~EarlyTraffic

(***************************************************************************)
(* Slots.                                                                   *)
(***************************************************************************)

(* Quotient and remainder are unique.                                       *)
LEMMA ModUnique ==
    ASSUME NEW N \in Nat \ {0}, NEW q \in Nat, NEW r \in 0 .. N - 1
    PROVE  (N * q + r) % N = r
  BY Z3

LEMMA ModIs ==
    ASSUME NEW N \in Nat \ {0}, NEW q \in Nat, NEW r \in 0 .. N - 1,
           NEW x \in Nat, x = N * q + r
    PROVE  x % N = r
  BY ModUnique

(* Every number is a quotient times N and a remainder.                      *)
LEMMA QuotRem ==
    ASSUME NEW N \in Nat \ {0}, NEW a \in Nat
    PROVE  \E q \in Nat, r \in 0 .. N - 1 :
              /\ a = N * q + r /\ a % N = r
              /\ N * q \in Nat /\ N * (q + 1) = N * q + N
<1>. DEFINE q == a \div N
            r == a % N
<1>1. r \in 0 .. N - 1
  BY ModIn
<1>2. q \in Nat /\ a = N * q + r
  BY DivMod
<1>. HIDE DEF q, r
<1>3. N * q \in Nat /\ N * (q + 1) = N * q + N
  BY <1>2
<1>4. a % N = r
  BY DEF r
<1>. QED
  BY <1>1, <1>2, <1>3, <1>4

(* Some steps further in a ring than a, of any size.                        *)
LEMMA ModShift ==
    ASSUME NEW N \in Nat \ {0}, NEW a \in Nat, NEW j \in 0 .. N - 1
    PROVE  (a + j) % N = IF (a % N) + j < N THEN (a % N) + j ELSE (a % N) + j - N
<1>1. PICK q \in Nat, r \in 0 .. N - 1 :
             /\ a = N * q + r /\ a % N = r
             /\ N * q \in Nat /\ N * (q + 1) = N * q + N
  BY QuotRem
<1>. DEFINE b == a + j
<1>2. CASE r + j < N
  <2>. DEFINE s == r + j
  <2>1. s \in 0 .. N - 1 /\ b \in Nat /\ b = N * q + s
    BY <1>1, <1>2
  <2>. HIDE DEF b, s
  <2>2. b % N = s
    BY <2>1, ModIs
  <2>. QED
    BY <1>1, <1>2, <2>2 DEF b, s
<1>3. CASE ~(r + j < N)
  <2>. DEFINE s == r + j - N
              p == q + 1
  <2>1. s \in 0 .. N - 1 /\ p \in Nat /\ b \in Nat /\ b = N * p + s
    BY <1>1, <1>3
  <2>. HIDE DEF b, s, p
  <2>2. b % N = s
    BY <2>1, ModIs
  <2>. QED
    BY <1>1, <1>3, <2>2 DEF b, s
<1>. QED
  BY <1>2, <1>3

(* A lap of the ring ends where it began.                                   *)
LEMMA ModLap ==
    ASSUME NEW N \in Nat \ {0}, NEW a \in Nat
    PROVE  (a + N) % N = a % N
<1>1. PICK q \in Nat, r \in 0 .. N - 1 :
             /\ a = N * q + r /\ a % N = r
             /\ N * q \in Nat /\ N * (q + 1) = N * q + N
  BY QuotRem
<1>. DEFINE b == a + N
            p == q + 1
<1>2. p \in Nat /\ b \in Nat /\ b = N * p + r
  BY <1>1
<1>. HIDE DEF b, p
<1>3. b % N = r
  BY <1>2, ModIs
<1>. QED
  BY <1>1, <1>3 DEF b

LEMMA LapSlot ==
    ASSUME NEW a \in Nat, NEW b \in Nat, b = a + RX_RING_SIZE
    PROVE  b % RX_RING_SIZE = a % RX_RING_SIZE
  BY ModLap, RingAssumption

LEMMA SlotType ==
    ASSUME NEW n \in Nat \ {0}
    PROVE  SlotOf(n) \in RxSlots
<1>1. n - 1 \in Nat /\ RX_RING_SIZE \in Nat \ {0}
  BY RingAssumption
<1>. QED
  BY <1>1, ModIn DEF SlotOf, RxSlots

(* The slot behind that of datagram n.                                      *)
LEMMA SlotNext ==
    ASSUME NEW n \in Nat \ {0}
    PROVE  (SlotOf(n) + 1) % RX_RING_SIZE = n % RX_RING_SIZE
<1>. DEFINE N == RX_RING_SIZE
            r == SlotOf(n)
<1>1. N \in Nat \ {0} /\ n - 1 \in Nat
  BY RingAssumption
<1>2. r \in 0 .. N - 1 /\ r = (n - 1) % N
  BY SlotType DEF SlotOf, RxSlots
<1>3. CASE N = 1
  BY <1>2, <1>3
<1>4. CASE N # 1
  <2>. HIDE DEF N, r
  <2>1. 1 \in 0 .. N - 1 /\ 1 \in 0 .. N /\ (n - 1) + 1 = n
    BY <1>1, <1>4
  <2>2. n % N = IF r + 1 < N THEN r + 1 ELSE r + 1 - N
    BY <1>1, <1>2, <2>1, ModShift
  <2>3. (r + 1) % N = IF r + 1 < N THEN r + 1 ELSE r + 1 - N
    BY <1>1, <1>2, <2>1, ModSum, Zenon
  <2>. QED
    BY <2>2, <2>3 DEF N, r
<1>. QED
  BY <1>3, <1>4

(* Of RX_RING_SIZE datagrams in a row no two go into the same slot.         *)
LEMMA SlotInj ==
    ASSUME NEW a \in Nat,
           NEW n \in a + 1 .. a + RX_RING_SIZE,
           NEW m \in a + 1 .. a + RX_RING_SIZE,
           SlotOf(n) = SlotOf(m)
    PROVE  n = m
<1>. DEFINE N == RX_RING_SIZE
            Pos(x) == IF (a % N) + x < N THEN (a % N) + x ELSE (a % N) + x - N
<1>1. N \in Nat \ {0} /\ a % N \in 0 .. N - 1
  BY RingAssumption, ModIn
<1>2. n - 1 - a \in 0 .. N - 1 /\ m - 1 - a \in 0 .. N - 1
  BY <1>1
<1>3. SlotOf(n) = Pos(n - 1 - a)
  <2>1. (a + (n - 1 - a)) % N = Pos(n - 1 - a)
    BY <1>1, <1>2, ModShift
  <2>2. a + (n - 1 - a) = n - 1
    BY <1>1
  <2>. QED
    BY <2>1, <2>2 DEF SlotOf
<1>4. SlotOf(m) = Pos(m - 1 - a)
  <2>1. (a + (m - 1 - a)) % N = Pos(m - 1 - a)
    BY <1>1, <1>2, ModShift
  <2>2. a + (m - 1 - a) = m - 1
    BY <1>1
  <2>. QED
    BY <2>1, <2>2 DEF SlotOf
<1>5. Pos(n - 1 - a) = Pos(m - 1 - a)
  BY <1>3, <1>4
<1>6. n \in Int /\ m \in Int
  BY <1>1
<1>7. \A h \in 0 .. N - 1 : \A x, y \in 0 .. N - 1 :
        (IF h + x < N THEN h + x ELSE h + x - N)
          = (IF h + y < N THEN h + y ELSE h + y - N) => x = y
  BY <1>1
<1>8. n - 1 - a = m - 1 - a
  BY <1>1, <1>2, <1>5, <1>7
<1>. QED
  BY <1>6, <1>8

(***************************************************************************)
(* The receive ring's invariant.                                            *)
(***************************************************************************)

(* Copying a whole message over another leaves nothing of the other.        *)
LEMMA OverlayWhole ==
    ASSUME NEW b \in Packet, NEW p \in Packet, NEW n \in Nat, n >= PKT_MIN_LEN
    PROVE  Overlay(b, p, n) = p
  BY DEF Overlay, Packet, PKT_MIN_LEN

LEMMA RxTypes ==
    TypeOK => /\ Len(recvd) \in Nat /\ handled \in Nat
              /\ Filled \in Int /\ Written \in Int /\ Sized \in Int /\ Taken \in Nat
              /\ Filled <= Written /\ Written <= Sized /\ Sized <= Len(recvd)
              /\ RX_RING_SIZE \in Nat \ {0}
              /\ \A n \in 1 .. Len(recvd) : /\ recvd[n].len \in 1 .. PKT_BUF_SIZE
                                            /\ recvd[n].pkt \in Packet
<1> SUFFICES ASSUME TypeOK
    PROVE  /\ Len(recvd) \in Nat /\ handled \in Nat
           /\ Filled \in Int /\ Written \in Int /\ Sized \in Int /\ Taken \in Nat
           /\ Filled <= Written /\ Written <= Sized /\ Sized <= Len(recvd)
           /\ RX_RING_SIZE \in Nat \ {0}
           /\ \A n \in 1 .. Len(recvd) : /\ recvd[n].len \in 1 .. PKT_BUF_SIZE
                                         /\ recvd[n].pkt \in Packet
  OBVIOUS
<1>1. /\ recvd \in Seq([len : 1 .. PKT_BUF_SIZE, pkt : Packet])
      /\ handled \in Nat
      /\ nic_pc \in {"recv", "length", "front", "back", "dd", "tail"}
  BY DEF TypeOK, NicTypeOK, KernelTypeOK
<1>2. Len(recvd) \in Nat
  BY <1>1
<1>3. ASSUME NEW n \in 1 .. Len(recvd)
      PROVE  recvd[n].len \in 1 .. PKT_BUF_SIZE /\ recvd[n].pkt \in Packet
  <2>1. recvd[n] \in [len : 1 .. PKT_BUF_SIZE, pkt : Packet]
    BY <1>1, ElementOfSeq
  <2>. QED
    BY <2>1
<1>4. /\ Filled \in Int /\ Written \in Int /\ Sized \in Int /\ Taken \in Nat
      /\ Filled <= Written /\ Written <= Sized /\ Sized <= Len(recvd)
  BY <1>1, <1>2 DEF Filled, Written, Sized, Taken
<1>. QED
  BY <1>1, <1>2, <1>3, <1>4, RingAssumption

(* The datagram the kernel is at was received whole and lies in rx_head.    *)
LEMMA AtPacket ==
    ASSUME TypeOK, RxInv, pc \in {"length", "clear"} \/ Reading
    PROVE  /\ handled + 1 \in 1 .. Filled /\ handled + 1 \in 1 .. Len(recvd)
           /\ SlotOf(handled + 1) = rx_head
           /\ Full(handled + 1) => rxPkt[rx_head] = recvd[handled + 1].pkt
<1>1. handled < Filled
  <2>1. CASE pc \in {"length", "clear"}
    <3>1. rx_head \in RxSlots /\ rxDesc[rx_head].status = 1
      BY <2>1 DEF TypeOK, KernelTypeOK, RxInv, RingInv
    <3>2. PICK n \in Taken + 1 .. Filled : rx_head = SlotOf(n)
      BY <3>1 DEF RxInv, RingInv
    <3>. QED
      BY <3>2, RxTypes DEF Taken
  <2>2. CASE Reading
    BY <2>2 DEF RxInv, RingInv
  <2>. QED
    BY <2>1, <2>2
<1>2. handled + 1 \in 1 .. Filled /\ handled + 1 \in 1 .. Len(recvd)
  BY <1>1, RxTypes
<1>3. SlotOf(handled + 1) = rx_head
  <2>1. (handled + 1) - 1 = handled
    BY RxTypes
  <2>. QED
    BY <2>1 DEF SlotOf, RxInv, PlaceInv
<1>4. handled + 1 \in handled + 1 .. Written
  BY <1>2, RxTypes
<1>. QED
  BY <1>2, <1>3, <1>4 DEF RxInv, RingInv

LEMMA InitRx == Init => RxInv
<1> SUFFICES ASSUME Init PROVE RxInv
  OBVIOUS
<1>1. /\ recvd = <<>> /\ Len(recvd) = 0 /\ handled = 0 /\ nic_pc = "recv"
      /\ pc = "rx_clear" /\ rx_head = 0 /\ rx_tail = 0
      /\ \A i \in RxSlots : rxDesc[i].status = 0
  BY DEF Init, MemInit, NicInit, KernelInit
<1>2. RX_RING_SIZE \in Nat \ {0} /\ 0 % RX_RING_SIZE = 0
  <2>1. RX_RING_SIZE \in Nat \ {0} /\ 0 = RX_RING_SIZE * 0 + 0 /\ 0 \in 0 .. RX_RING_SIZE - 1
    BY RingAssumption
  <2>. QED
    BY <2>1, ModIs
<1>3. Filled = 0 /\ Written = 0 /\ Sized = 0 /\ ~Reading /\ Taken = 0
  BY <1>1 DEF Filled, Written, Sized, Reading, InHand, Taken
<1>4. PlaceInv
  BY <1>1, <1>2, <1>3 DEF PlaceInv, SlotOf
<1>5. RingInv /\ LengthInv /\ JudgeInv
  BY <1>1, <1>3 DEF RingInv, LengthInv, JudgeInv
<1>. QED
  BY <1>4, <1>5 DEF RxInv

(* A datagram arrives only where the ring has room for it.                  *)
LEMMA ArriveRx == ASSUME TypeOK, RxInv, AfterBoot, Arrive
                  PROVE  RxInv'
<1>1. PICK d \in Datagrams : Recv(d)
  BY DEF Arrive
<1>. DEFINE L == Len(recvd)
<1>2. /\ nic_pc = "recv" /\ nic_pc' = "length"
      /\ packet_buffer' = Truncate(d) /\ recvd' = Append(recvd, Truncate(d))
      /\ UNCHANGED <<rx_tail, rxDesc, rxPkt, pc, k, rx_head, plen, handled>>
  BY <1>1 DEF Arrive, Recv, memVars, kernelVars
<1>3. /\ L \in Nat /\ Len(recvd') = L + 1 /\ recvd'[L + 1] = Truncate(d)
      /\ \A n \in 1 .. L : recvd'[n] = recvd[n]
  BY <1>2 DEF TypeOK, NicTypeOK
<1>. HIDE DEF L
<1>4. /\ Filled = L /\ Filled' = L /\ Written = L /\ Written' = L
      /\ Sized = L /\ Sized' = L
      /\ Reading' = Reading /\ Taken' = Taken
  BY <1>2, <1>3 DEF L, Filled, Written, Sized, Reading, Taken, InHand
<1>5. handled \in Nat /\ handled <= L
  BY <1>4 DEF TypeOK, KernelTypeOK, RxInv, PlaceInv
<1>6. L < handled + RX_RING_SIZE /\ pc \in LoopPCs /\ pc \notin InitPCs
  <2>1. ~Occupied(rx_tail) /\ pc \in LoopPCs
    BY DEF Arrive, MayArrive, AfterBoot
  <2>2. pc # "rx_clear" /\ pc \notin InitPCs
    BY <2>1 DEF LoopPCs, InitPCs
  <2>3. L <= handled + RX_RING_SIZE /\ rx_head = handled % RX_RING_SIZE
        /\ rx_tail = L % RX_RING_SIZE
    BY <1>2 DEF RxInv, PlaceInv, L
  <2>4. ASSUME L = handled + RX_RING_SIZE PROVE FALSE
    <3>1. rx_tail = rx_head
      BY <1>3, <1>5, <2>3, <2>4, LapSlot
    <3>2. ~Reading
      BY <2>1, <3>1 DEF Occupied, Unread, Reading
    <3>3. handled + 1 \in Taken + 1 .. Filled
      BY <1>4, <1>5, <2>4, <3>2, RingAssumption DEF Taken
    <3>4. SlotOf(handled + 1) = rx_head
      <4>1. (handled + 1) - 1 = handled
        BY <1>5
      <4>. QED
        BY <2>3, <4>1 DEF SlotOf
    <3>5. rxDesc[rx_tail].status = 1
      BY <3>1, <3>3, <3>4 DEF RxInv, RingInv
    <3>. QED
      BY <2>1, <2>2, <3>5 DEF Occupied, Unread
  <2>. QED
    BY <1>3, <1>5, <2>1, <2>2, <2>3, <2>4, RingAssumption
<1>7. PlaceInv'
  <2>1. rx_tail' = SlotOf(L + 1)
    BY <1>2, <1>3 DEF RxInv, PlaceInv, SlotOf, L
  <2>. QED
    BY <1>2, <1>3, <1>4, <1>5, <1>6, <2>1, RingAssumption DEF RxInv, PlaceInv, SlotOf
<1>8. RingInv'
  BY <1>2, <1>3, <1>4, <1>5 DEF RxInv, RingInv, SlotOf, Full, L
<1>9. pc = "clear" \/ Reading => handled + 1 \in 1 .. L /\ recvd'[handled + 1] = recvd[handled + 1]
  BY <1>3, <1>4, AtPacket
<1>10. LengthInv'
  <2>1. \A n \in handled' + 1 .. Sized' : rxDesc'[SlotOf(n)].length = recvd'[n].len
    BY <1>2, <1>3, <1>4, <1>5 DEF RxInv, LengthInv
  <2>2. pc' = "clear" => (plen' >= PKT_MIN_LEN <=> recvd'[handled' + 1].len >= PKT_MIN_LEN)
    BY <1>2, <1>9 DEF RxInv, LengthInv, Full
  <2>. QED
    BY <1>2, <1>3, <2>1, <2>2 DEF RxInv, LengthInv, Full, SlotOf
<1>11. JudgeInv'
  BY <1>2, <1>9 DEF RxInv, JudgeInv, Full, Reading
<1>. QED
  BY <1>7, <1>8, <1>10, <1>11 DEF RxInv

(* While a datagram is on its way into the ring it is the last one, and no  *)
(* other that is not stepped over lies in its slot.                         *)
LEMMA Filling ==
    ASSUME TypeOK, RxInv, nic_pc \in {"length", "front", "back", "dd"}
    PROVE  /\ Len(recvd) \in Nat \ {0} /\ handled \in Nat
           /\ Filled = Len(recvd) - 1
           /\ Len(recvd) \in handled + 1 .. handled + RX_RING_SIZE
           /\ rx_tail \in RxSlots /\ rx_tail = SlotOf(Len(recvd))
           /\ packet_buffer = recvd[Len(recvd)]
           /\ packet_buffer.len \in Nat /\ packet_buffer.pkt \in Packet
           /\ \A n \in handled + 1 .. Len(recvd) - 1 : SlotOf(n) # rx_tail
<1>. DEFINE L == Len(recvd)
<1>1. Filled = L - 1
  BY DEF Filled
<1>2. /\ L \in Nat \ {0} /\ handled \in Nat /\ RX_RING_SIZE \in Nat
      /\ handled <= L - 1 /\ L <= handled + RX_RING_SIZE
  BY <1>1, RxTypes DEF RxInv, PlaceInv
<1>3. rx_tail = SlotOf(L) /\ packet_buffer = recvd[L] /\ rx_tail \in RxSlots
  BY DEF RxInv, PlaceInv, TypeOK, NicTypeOK
<1>4. packet_buffer.len \in Nat /\ packet_buffer.pkt \in Packet
  <2>1. packet_buffer \in [len : 1 .. PKT_BUF_SIZE, pkt : Packet]
    BY DEF TypeOK, NicTypeOK
  <2>2. packet_buffer.len \in 1 .. PKT_BUF_SIZE /\ packet_buffer.pkt \in Packet
    BY <2>1
  <2>. QED
    BY <2>2 DEF PKT_BUF_SIZE
<1>5. ASSUME NEW n \in handled + 1 .. L - 1, SlotOf(n) = rx_tail
      PROVE  FALSE
  <2>1. /\ n \in handled + 1 .. handled + RX_RING_SIZE
        /\ L \in handled + 1 .. handled + RX_RING_SIZE
        /\ SlotOf(n) = SlotOf(L)
    BY <1>2, <1>3, <1>5
  <2>2. n = L
    BY <1>2, <2>1, SlotInj
  <2>. QED
    BY <1>2, <2>2
<1>. QED
  BY <1>1, <1>2, <1>3, <1>4, <1>5

(* Datagrams that are not taken lie in slots of the ring.                   *)
LEMMA TakenSlots ==
    ASSUME TypeOK
    PROVE  \A n \in Taken + 1 .. Len(recvd) : n \in Nat \ {0} /\ SlotOf(n) \in RxSlots
<1>1. \A n \in Taken + 1 .. Len(recvd) : n \in Nat \ {0}
  BY RxTypes
<1>. QED
  BY <1>1, SlotType

LEMMA NicRx == ASSUME TypeOK, RxInv, Nic
               PROVE  RxInv'
<1>. DEFINE L == Len(recvd)
<1>1. UNCHANGED <<pc, k, rx_head, plen, handled, recvd, packet_buffer>>
  BY DEF Nic, NicStep, DmaLength, DmaFront, DmaBack, SetDD, BumpTail, kernelVars
<1>2. Reading' = Reading /\ Taken' = Taken /\ L' = L
  BY <1>1 DEF Reading, InHand, Taken
<1>3. JudgeInv'
  BY <1>1 DEF RxInv, JudgeInv, Full
<1>4. /\ L \in Nat /\ handled \in Nat
      /\ rxDesc \in [RxSlots -> [length : 0 .. PKT_BUF_SIZE, status : {0, 1}]]
      /\ rxPkt \in [RxSlots -> Packet]
  BY RxTypes DEF TypeOK, MemTypeOK
<1>5. CASE DmaLength
  <2>1. /\ nic_pc = "length" /\ nic_pc' = "front"
        /\ rxDesc' = [rxDesc EXCEPT ![rx_tail].length = packet_buffer.len]
        /\ UNCHANGED <<rx_tail, rxPkt>>
    BY <1>5 DEF DmaLength
  <2>2. /\ Filled' = L - 1 /\ Filled = L - 1 /\ Written' = L - 1 /\ Written = L - 1
        /\ Sized' = L /\ Sized = L - 1
    BY <1>2, <1>4, <2>1 DEF Filled, Written, Sized
  <2>3. /\ \A i \in RxSlots : rxDesc'[i].status = rxDesc[i].status
        /\ \A i \in RxSlots : rxDesc'[i].length =
              IF i = rx_tail THEN packet_buffer.len ELSE rxDesc[i].length
    BY <1>4, <2>1
  <2>4. PlaceInv'
    BY <1>1, <2>1, <2>2 DEF RxInv, PlaceInv, SlotOf
  <2>5. RingInv'
    <3>1. rx_head \in RxSlots
      BY DEF TypeOK, KernelTypeOK
    <3>2. \A n \in Taken + 1 .. L - 1 : rxDesc'[SlotOf(n)].status = rxDesc[SlotOf(n)].status
      BY <2>2, <2>3, TakenSlots
    <3>. QED
      BY <1>1, <1>2, <2>1, <2>2, <2>3, <3>1, <3>2 DEF RxInv, RingInv, SlotOf, Full
  <2>6. LengthInv'
    <3>1. ASSUME NEW n \in handled + 1 .. L
          PROVE  rxDesc'[SlotOf(n)].length = recvd[n].len
      <4>1. n \in Nat \ {0} /\ SlotOf(n) \in RxSlots
        BY <1>4, SlotType
      <4>2. CASE n = L
        BY <2>1, <2>3, <4>1, <4>2, Filling
      <4>3. CASE n # L
        <5>1. n \in handled + 1 .. L - 1
          BY <1>4, <4>3
        <5>. QED
          BY <2>1, <2>2, <2>3, <4>1, <5>1, Filling DEF RxInv, LengthInv
      <4>. QED
        BY <4>2, <4>3
    <3>. QED
      BY <1>1, <2>1, <2>2, <2>3, <3>1 DEF RxInv, LengthInv, Full, SlotOf
  <2>. QED
    BY <1>3, <2>4, <2>5, <2>6 DEF RxInv
<1>6. ASSUME NEW n, DmaFront(n) PROVE RxInv'
  <2>1. /\ nic_pc = "front" /\ nic_pc' = "back"
        /\ UNCHANGED <<rx_tail, rxDesc>>
        /\ \A i \in RxSlots : i # rx_tail => rxPkt'[i] = rxPkt[i]
    BY <1>4, <1>6 DEF DmaFront, CopyBytes
  <2>2. /\ Filled' = L - 1 /\ Filled = L - 1 /\ Written' = L - 1 /\ Written = L - 1
        /\ Sized' = L /\ Sized = L
    BY <1>2, <1>4, <2>1 DEF Filled, Written, Sized
  <2>3. PlaceInv'
    BY <1>1, <2>1, <2>2 DEF RxInv, PlaceInv, SlotOf
  <2>4. \A m \in handled + 1 .. L - 1 : SlotOf(m) \in RxSlots /\ SlotOf(m) # rx_tail
    <3>1. \A m \in handled + 1 .. L - 1 : m \in Nat \ {0}
      BY <1>4
    <3>. QED
      BY <2>1, <3>1, SlotType, Filling
  <2>5. RingInv'
    BY <1>1, <1>2, <2>1, <2>2, <2>4 DEF RxInv, RingInv, SlotOf, Full
  <2>6. LengthInv'
    BY <1>1, <2>1, <2>2 DEF RxInv, LengthInv, Full, SlotOf
  <2>. QED
    BY <1>3, <2>3, <2>5, <2>6 DEF RxInv
<1>7. CASE DmaBack
  <2>1. /\ nic_pc = "back" /\ nic_pc' = "dd"
        /\ UNCHANGED <<rx_tail, rxDesc>>
        /\ rxPkt' = [rxPkt EXCEPT ![rx_tail] =
                       Overlay(@, packet_buffer.pkt, packet_buffer.len)]
    BY <1>7 DEF DmaBack, CopyBytes
  <2>2. /\ Filled' = L - 1 /\ Filled = L - 1 /\ Written' = L /\ Written = L - 1
        /\ Sized' = L /\ Sized = L
    BY <1>2, <1>4, <2>1 DEF Filled, Written, Sized
  <2>3. PlaceInv'
    BY <1>1, <2>1, <2>2 DEF RxInv, PlaceInv, SlotOf
  <2>4. ASSUME NEW n \in handled + 1 .. L, Full(n)
        PROVE  rxPkt'[SlotOf(n)] = recvd[n].pkt
    <3>1. n \in Nat \ {0} /\ SlotOf(n) \in RxSlots
      BY <1>4, SlotType
    <3>2. CASE n = L
      <4>1. rxPkt'[rx_tail] = Overlay(rxPkt[rx_tail], packet_buffer.pkt, packet_buffer.len)
        BY <1>4, <2>1, Filling
      <4>2. rxPkt[rx_tail] \in Packet
        BY <1>4, <2>1, Filling
      <4>3. packet_buffer.len >= PKT_MIN_LEN
        BY <2>1, <2>4, <3>2, Filling DEF Full
      <4>. QED
        BY <2>1, <3>2, <4>1, <4>2, <4>3, Filling, OverlayWhole
    <3>3. CASE n # L
      <4>1. n \in handled + 1 .. L - 1
        BY <1>4, <3>3
      <4>. QED
        BY <1>4, <2>1, <2>2, <2>4, <3>1, <4>1, Filling DEF RxInv, RingInv
    <3>. QED
      BY <3>2, <3>3
  <2>5. RingInv'
    BY <1>1, <1>2, <2>1, <2>2, <2>4 DEF RxInv, RingInv, SlotOf, Full
  <2>6. LengthInv'
    BY <1>1, <2>1, <2>2 DEF RxInv, LengthInv, Full, SlotOf
  <2>. QED
    BY <1>3, <2>3, <2>5, <2>6 DEF RxInv
<1>8. CASE SetDD
  <2>1. /\ nic_pc = "dd" /\ nic_pc' = "tail"
        /\ UNCHANGED <<rx_tail, rxPkt>>
        /\ rxDesc' = [rxDesc EXCEPT ![rx_tail].status = 1]
    BY <1>8 DEF SetDD
  <2>2. /\ Filled' = L /\ Filled = L - 1 /\ Written' = L /\ Written = L
        /\ Sized' = L /\ Sized = L
    BY <1>2, <1>4, <2>1 DEF Filled, Written, Sized
  <2>3. /\ \A i \in RxSlots : rxDesc'[i].length = rxDesc[i].length
        /\ \A i \in RxSlots : rxDesc'[i].status =
              IF i = rx_tail THEN 1 ELSE rxDesc[i].status
    BY <1>4, <2>1
  <2>4. handled <= L - 1 /\ Taken \in Nat /\ Taken <= L - 1
    BY <1>4, <2>2, RxTypes DEF RxInv, PlaceInv, RingInv, Taken
  <2>5. PlaceInv'
    BY <1>1, <1>4, <2>1, <2>2, <2>4 DEF RxInv, PlaceInv, SlotOf
  <2>6. RingInv'
    <3>1. ASSUME NEW i \in RxSlots, rxDesc'[i].status = 1
          PROVE  \E n \in Taken + 1 .. L : i = SlotOf(n)
      <4>1. CASE i = rx_tail
        <5>1. L \in Taken + 1 .. L
          BY <1>4, <2>4
        <5>. QED
          BY <2>1, <4>1, <5>1, Filling
      <4>2. CASE i # rx_tail
        <5>1. PICK n \in Taken + 1 .. L - 1 : i = SlotOf(n)
          BY <2>2, <2>3, <3>1, <4>2 DEF RxInv, RingInv
        <5>2. n \in Taken + 1 .. L
          BY <1>4, <2>4, <5>1
        <5>. QED
          BY <5>1, <5>2
      <4>. QED
        BY <4>1, <4>2
    <3>2. rx_head \in RxSlots
      BY DEF TypeOK, KernelTypeOK
    <3>3. Reading => handled < L
      BY <1>4, <2>4
    <3>4. ASSUME NEW n \in Taken + 1 .. L
          PROVE  rxDesc'[SlotOf(n)].status = 1
      <4>1. n = L \/ n \in Taken + 1 .. L - 1
        BY <1>4, <2>4
      <4>. QED
        BY <2>1, <2>2, <2>3, <4>1, TakenSlots, Filling DEF RxInv, RingInv
    <3>. QED
      BY <1>1, <1>2, <2>1, <2>2, <2>3, <3>1, <3>2, <3>3, <3>4 DEF RxInv, RingInv, SlotOf, Full
  <2>7. LengthInv'
    <3>1. \A n \in handled + 1 .. L : SlotOf(n) \in RxSlots
      <4>1. \A n \in handled + 1 .. L : n \in Nat \ {0}
        BY <1>4
      <4>. QED
        BY <4>1, SlotType
    <3>. QED
      BY <1>1, <2>1, <2>2, <2>3, <3>1 DEF RxInv, LengthInv, Full, SlotOf
  <2>. QED
    BY <1>3, <2>5, <2>6, <2>7 DEF RxInv
<1>9. CASE BumpTail
  <2>1. /\ nic_pc = "tail" /\ nic_pc' = "recv"
        /\ rx_tail' = (rx_tail + 1) % RX_RING_SIZE
        /\ UNCHANGED <<rxDesc, rxPkt>>
    BY <1>9 DEF BumpTail
  <2>2. /\ Filled' = L /\ Filled = L /\ Written' = L /\ Written = L
        /\ Sized' = L /\ Sized = L
    BY <1>2, <1>4, <2>1 DEF Filled, Written, Sized
  <2>3. rx_tail' = L % RX_RING_SIZE
    <3>1. L \in Nat \ {0} /\ rx_tail = SlotOf(L)
      BY <1>4, <2>1 DEF RxInv, PlaceInv
    <3>. QED
      BY <2>1, <3>1, SlotNext
  <2>4. PlaceInv'
    BY <1>1, <2>1, <2>2, <2>3 DEF RxInv, PlaceInv
  <2>5. RingInv' /\ LengthInv'
    BY <1>1, <1>2, <2>1, <2>2 DEF RxInv, RingInv, LengthInv, SlotOf, Full
  <2>. QED
    BY <1>3, <2>4, <2>5 DEF RxInv
<1>. QED
  BY <1>5, <1>6, <1>7, <1>8, <1>9 DEF Nic, NicStep

(* The kernel clears a DD bit as it takes the packet, and steps over the    *)
(* slot when it is done with it.                                            *)
LEMMA CpuRx == ASSUME TypeOK, RxInv, Cpu
               PROVE  RxInv'
<1>1. UNCHANGED <<nic_pc, rx_tail, packet_buffer, recvd>>
  BY DEF Cpu, nicVars
<1>2. /\ Filled' = Filled /\ Written' = Written /\ Sized' = Sized
      /\ Len(recvd') = Len(recvd)
      /\ \A n : Full(n)' <=> Full(n)
  BY <1>1 DEF Filled, Written, Sized, Full
<1>3. /\ rxDesc \in [RxSlots -> [length : 0 .. PKT_BUF_SIZE, status : {0, 1}]]
      /\ k \in RxSlots /\ rx_head \in RxSlots
      /\ handled \in Nat /\ Filled \in Int /\ Len(recvd) \in Nat
      /\ RX_RING_SIZE \in Nat \ {0} /\ RxSlots = 0 .. RX_RING_SIZE - 1
  BY RxTypes DEF TypeOK, MemTypeOK, KernelTypeOK, RxSlots
<1>. USE DEF memVars, rxVars, rxLocals
<1>4. CASE RxClear \/ RxFill
  <2>1. /\ pc \in {"rx_clear", "rx_fill"} /\ pc' \in {"rx_clear", "rx_fill", "rx_regs"}
        /\ UNCHANGED <<rxPkt, rx_head, plen, handled>>
    BY <1>4 DEF RxClear, RxFill, NextSlot
  <2>2. \A i \in RxSlots : rxDesc'[i].status = 1 => rxDesc[i].status = 1
    BY <1>3, <1>4 DEF RxClear, RxFill
  <2>3. ~Reading /\ ~Reading' /\ Taken' = Taken
    BY <2>1 DEF Reading, InHand, Taken
  <2>4. PlaceInv' /\ JudgeInv'
    BY <1>1, <1>2, <2>1 DEF RxInv, PlaceInv, JudgeInv, InitPCs, SlotOf
  <2>5. Filled <= 0 /\ Sized <= 0 /\ Taken \in Nat
    BY <1>3, <2>1, RxTypes DEF RxInv, PlaceInv, InitPCs
  <2>6. /\ \A n \in Taken + 1 .. Filled : FALSE
        /\ \A n \in handled + 1 .. Sized : FALSE
    BY <1>3, <2>5, RxTypes
  <2>7. RingInv'
    BY <1>1, <1>2, <2>1, <2>2, <2>3, <2>6 DEF RxInv, RingInv, SlotOf
  <2>8. LengthInv'
    BY <1>1, <1>2, <2>1, <2>6 DEF RxInv, LengthInv
  <2>. QED
    BY <2>4, <2>7, <2>8 DEF RxInv
<1>6. CASE RxRegs \/ TxInit \/ ReclaimTx \/ CheckDD
  <2>1. /\ pc \in {"rx_regs", "tx_init", "poll", "check"}
        /\ pc' \in {"tx_init", "poll", "check", "length"}
        /\ pc' \in InitPCs => pc \in InitPCs
        /\ pc' = "length" => rxDesc[rx_head].status = 1
        /\ UNCHANGED <<rxDesc, rxPkt, rx_head, plen, handled>>
    BY <1>6 DEF RxRegs, TxInit, ReclaimTx, CheckDD, InitPCs
  <2>2. ~Reading /\ ~Reading' /\ Taken' = Taken
    BY <2>1 DEF Reading, InHand, Taken
  <2>3. PlaceInv' /\ RingInv' /\ JudgeInv'
    BY <1>1, <1>2, <2>1, <2>2 DEF RxInv, PlaceInv, RingInv, JudgeInv, SlotOf
  <2>4. LengthInv'
    BY <1>1, <1>2, <2>1 DEF RxInv, LengthInv, SlotOf
  <2>. QED
    BY <2>3, <2>4 DEF RxInv
<1>7. CASE ReadLength
  <2>1. /\ pc = "length" /\ pc' = "clear"
        /\ plen' = rxDesc[rx_head].length
        /\ UNCHANGED <<rxDesc, rxPkt, rx_head, handled>>
    BY <1>7 DEF ReadLength
  <2>2. ~Reading /\ ~Reading' /\ Taken' = Taken
    BY <2>1 DEF Reading, InHand, Taken
  <2>3. PlaceInv' /\ RingInv' /\ JudgeInv'
    BY <1>1, <1>2, <2>1, <2>2 DEF RxInv, PlaceInv, RingInv, JudgeInv, SlotOf, InitPCs
  <2>4. plen' >= PKT_MIN_LEN <=> Full(handled + 1)
    <3>1. handled + 1 \in handled + 1 .. Sized
      BY <1>3, <2>1, AtPacket, RxTypes
    <3>. QED
      BY <2>1, <3>1, AtPacket DEF RxInv, LengthInv, Full
  <2>5. LengthInv'
    BY <1>1, <1>2, <2>1, <2>4 DEF RxInv, LengthInv, SlotOf
  <2>. QED
    BY <2>3, <2>5 DEF RxInv
<1>8. CASE ClearDD
  <2>1. /\ pc = "clear" /\ pc' \in {"load", "advance"}
        /\ pc' = "load" => plen >= PKT_MIN_LEN
        /\ rxDesc' = [rxDesc EXCEPT ![rx_head].status = 0]
        /\ UNCHANGED <<rxPkt, rx_head, plen, handled>>
    BY <1>8 DEF ClearDD, PKT_MIN_LEN, PKT_BUF_SIZE
  <2>2. /\ \A i \in RxSlots : rxDesc'[i].length = rxDesc[i].length
        /\ \A i \in RxSlots : rxDesc'[i].status =
              IF i = rx_head THEN 0 ELSE rxDesc[i].status
    BY <1>3, <2>1
  <2>3. Reading' /\ Taken = handled /\ Taken' = handled + 1
    BY <1>3, <2>1 DEF Reading, InHand, Taken
  <2>4. PlaceInv' /\ JudgeInv'
    BY <1>1, <1>2, <2>1 DEF RxInv, PlaceInv, LengthInv, JudgeInv, InitPCs, SlotOf
  <2>5. RingInv'
    <3>1. ASSUME NEW i \in RxSlots, rxDesc'[i].status = 1
          PROVE  \E n \in handled + 2 .. Filled : i = SlotOf(n)
      <4>1. i # rx_head /\ rxDesc[i].status = 1
        BY <2>2, <3>1
      <4>2. PICK n \in handled + 1 .. Filled : i = SlotOf(n)
        BY <2>3, <4>1 DEF RxInv, RingInv
      <4>3. n # handled + 1
        BY <2>1, <4>1, <4>2, AtPacket
      <4>4. n \in handled + 2 .. Filled
        BY <1>3, <4>2, <4>3
      <4>. QED
        BY <4>2, <4>4
    <3>2. handled + 1 + 1 = handled + 2 /\ handled < Filled
      <4>1. handled + 1 \in 1 .. Filled
        BY <2>1, AtPacket
      <4>. QED
        BY <1>3, <4>1
    <3>3. ASSUME NEW n \in handled + 2 .. Filled
          PROVE  rxDesc'[SlotOf(n)].status = 1
      <4>1. /\ n \in handled + 1 .. handled + RX_RING_SIZE
            /\ handled + 1 \in handled + 1 .. handled + RX_RING_SIZE
            /\ n \in Taken + 1 .. Filled /\ n \in Taken + 1 .. Len(recvd)
            /\ n # handled + 1
        BY <1>3, <2>3, RxTypes DEF RxInv, PlaceInv
      <4>2. SlotOf(n) # rx_head
        BY <1>3, <2>1, <4>1, AtPacket, SlotInj
      <4>. QED
        BY <2>2, <4>1, <4>2, TakenSlots DEF RxInv, RingInv
    <3>. QED
      BY <1>1, <1>2, <2>1, <2>3, <3>1, <3>2, <3>3 DEF RxInv, RingInv, SlotOf
  <2>6. LengthInv'
    <3>1. \A n \in handled + 1 .. Sized : SlotOf(n) \in RxSlots
      <4>1. \A n \in handled + 1 .. Sized : n \in Nat \ {0}
        BY <1>3, RxTypes
      <4>. QED
        BY <4>1, SlotType
    <3>. QED
      BY <1>1, <1>2, <2>1, <2>2, <3>1 DEF RxInv, LengthInv, SlotOf
  <2>. QED
    BY <2>4, <2>5, <2>6 DEF RxInv
<1>9. CASE LoadPayloadLen \/ Filter \/ Decide \/ SpinTx \/ TxSlotFree \/ BuildOrder
           \/ RingDoorbell
  <2>1. /\ pc \in {"load", "parse", "decide", "spin", "build", "doorbell"}
        /\ pc' \in {"parse", "decide", "advance", "spin", "build", "doorbell"}
        /\ pc' = "parse" => pc = "load" /\ rxPkt[rx_head].payload_len = ITCH_PAYLOAD_LEN
        /\ pc' = "decide" => /\ pc = "parse"
                             /\ rxPkt[rx_head].msg_type = "A"
                             /\ rxPkt[rx_head].stock_locate = AAPL_LOCATE
        /\ UNCHANGED <<rxDesc, rxPkt, rx_head, plen, handled>>
    BY <1>9 DEF LoadPayloadLen, Filter, Decide, SpinTx, TxSlotFree, BuildOrder,
                RingDoorbell
  <2>2. Reading /\ Reading' /\ Taken' = Taken
    BY <2>1 DEF Reading, InHand, Taken
  <2>3. PlaceInv' /\ RingInv' /\ LengthInv'
    BY <1>1, <1>2, <2>1, <2>2 DEF RxInv, PlaceInv, RingInv, LengthInv, SlotOf, InitPCs
  <2>4. JudgeInv'
    BY <1>1, <1>2, <2>1, <2>2, AtPacket DEF RxInv, JudgeInv
  <2>. QED
    BY <2>3, <2>4 DEF RxInv
<1>10. CASE AdvanceRx
  <2>1. /\ pc = "advance" /\ pc' = "poll"
        /\ rx_head' = (rx_head + 1) % RX_RING_SIZE
        /\ handled' = handled + 1
        /\ UNCHANGED <<rxDesc, rxPkt, plen>>
    BY <1>10 DEF AdvanceRx
  <2>2. Reading /\ ~Reading' /\ Taken = handled + 1 /\ Taken' = handled + 1
    BY <1>3, <2>1 DEF Reading, InHand, Taken
  <2>3. handled + 1 \in 1 .. Filled /\ rx_head = SlotOf(handled + 1)
    BY <2>2, AtPacket
  <2>4. rx_head' = (handled + 1) % RX_RING_SIZE
    <3>1. handled + 1 \in Nat \ {0}
      BY <1>3
    <3>. QED
      BY <2>1, <2>3, <3>1, SlotNext
  <2>5. PlaceInv'
    <3>1. handled + 1 <= Filled /\ Len(recvd) <= handled + 1 + RX_RING_SIZE
      BY <1>3, <2>3 DEF RxInv, PlaceInv
    <3>. QED
      BY <1>1, <1>2, <2>1, <2>4, <3>1 DEF RxInv, PlaceInv, SlotOf, InitPCs
  <2>6. /\ \A n \in handled + 1 + 1 .. Written : n \in handled + 1 .. Written
        /\ \A n \in handled + 1 + 1 .. Sized : n \in handled + 1 .. Sized
    BY <1>3, RxTypes
  <2>7. RingInv'
    BY <1>1, <1>2, <2>1, <2>2, <2>6 DEF RxInv, RingInv, SlotOf
  <2>8. LengthInv' /\ JudgeInv'
    BY <1>1, <1>2, <2>1, <2>6 DEF RxInv, LengthInv, JudgeInv, SlotOf
  <2>. QED
    BY <2>5, <2>7, <2>8 DEF RxInv
<1>. QED
  BY <1>4, <1>6, <1>7, <1>8, <1>9, <1>10 DEF Cpu, KernelStep

LEMMA NextRx == ASSUME TypeOK, RxInv, AfterBoot, [Next]_vars
                PROVE  RxInv'
<1>1. CASE Engine \/ UNCHANGED vars
  <2>1. UNCHANGED <<rxDesc, rxPkt, nic_pc, rx_tail, packet_buffer, recvd, pc, k,
                    rx_head, plen, handled>>
    BY <1>1 DEF Engine, TxSend, vars, kernelVars, nicVars, rxVars
  <2>2. /\ Filled' = Filled /\ Written' = Written /\ Sized' = Sized
        /\ Reading' = Reading /\ Taken' = Taken
    BY <2>1 DEF Filled, Written, Sized, Reading, InHand, Taken
  <2>. QED
    BY <2>1, <2>2 DEF RxInv, PlaceInv, RingInv, LengthInv, JudgeInv, SlotOf, Full
<1>. QED
  BY <1>1, ArriveRx, NicRx, CpuRx DEF Next

(* With paced traffic that waits for the boot, kernel and plugin stay in    *)
(* step: what lies in a slot with its DD bit set is the next datagram,      *)
(* whole.                                                                   *)
THEOREM RxRingOrdered == ASSUME AfterBoot
                         PROVE  Spec => []RxInv
<1>1. TypeOK /\ RxInv /\ [Next]_vars => RxInv'
  BY NextRx
<1>. QED
  BY TypeCorrect, InitRx, <1>1, PTL DEF Spec

(***************************************************************************)
(* Every order is a quote.                                                  *)
(***************************************************************************)

(* Nothing that was received is forgotten.                                  *)
LEMMA RecvdGrows ==
    ASSUME TypeOK, [Next]_vars
    PROVE  /\ Len(recvd) \in Nat /\ Len(recvd') \in Nat /\ Len(recvd) <= Len(recvd')
           /\ \A n \in 1 .. Len(recvd) : recvd'[n] = recvd[n]
<1>1. recvd \in Seq([len : 1 .. PKT_BUF_SIZE, pkt : Packet])
  BY DEF TypeOK, NicTypeOK
<1>2. recvd' = recvd \/ \E e : recvd' = Append(recvd, e)
  BY DEF Next, vars, Arrive, Recv, Nic, NicStep, DmaLength, DmaFront, DmaBack, SetDD,
         BumpTail, Cpu, Engine, nicVars
<1>. QED
  BY <1>1, <1>2

(* Only Decide changes the book, and only for a better price.               *)
LEMMA StepBook ==
    ASSUME TypeOK, [Next]_vars
    PROVE  \/ UNCHANGED <<best_bid_price, best_bid_shares>>
           \/ Decide /\ Improves(rxPkt[rx_head])
<1>1. CASE Cpu
  BY <1>1 DEF Cpu, KernelStep, RxClear, RxFill, RxRegs, TxInit, ReclaimTx, CheckDD,
              ReadLength, ClearDD, LoadPayloadLen, Filter, Decide, SpinTx, TxSlotFree,
              BuildOrder, RingDoorbell, AdvanceRx, book
<1>. QED
  BY <1>1 DEF Next, vars, Arrive, Nic, Engine, kernelVars

(* The packet the kernel looks at is the quote of a datagram that arrived   *)
(* whole.                                                                   *)
QuoteRead == \E m \in 1 .. Len(recvd) : /\ recvd[m].len >= PKT_MIN_LEN
                                         /\ recvd[m].pkt = rxPkt[rx_head]
                                         /\ recvd[m].pkt.msg_type = "A"
                                         /\ recvd[m].pkt.stock_locate = AAPL_LOCATE

LEMMA NextQuotes ==
    ASSUME TypeOK, TxInv, pc = "decide" => QuoteRead, OrdersAreQuotes, [Next]_vars
    PROVE  OrdersAreQuotes'
<1>1. ASSUME NEW n \in 1 .. OrderCount, OrderAt(n)' = OrderAt(n)
      PROVE  \E m \in 1 .. Len(recvd') :
                /\ recvd'[m].len >= PKT_MIN_LEN
                /\ recvd'[m].pkt.msg_type = "A"
                /\ recvd'[m].pkt.stock_locate = AAPL_LOCATE
                /\ recvd'[m].pkt.price = OrderAt(n)'.price
                /\ recvd'[m].pkt.shares = OrderAt(n)'.shares
  <2>1. PICK m \in 1 .. Len(recvd) : /\ recvd[m].len >= PKT_MIN_LEN
                                     /\ recvd[m].pkt.msg_type = "A"
                                     /\ recvd[m].pkt.stock_locate = AAPL_LOCATE
                                     /\ recvd[m].pkt.price = OrderAt(n).price
                                     /\ recvd[m].pkt.shares = OrderAt(n).shares
    BY DEF OrdersAreQuotes
  <2>2. m \in 1 .. Len(recvd') /\ recvd'[m] = recvd[m]
    BY RecvdGrows
  <2>. QED
    BY <1>1, <2>1, <2>2
<1>2. CASE SameOrders
  BY <1>1, <1>2 DEF SameOrders, OrdersAreQuotes
<1>3. CASE NewOrder
  <2>1. /\ OrderCount \in Nat /\ OrderCount' = OrderCount + 1
        /\ \A n \in 1 .. OrderCount : OrderAt(n)' = OrderAt(n)
        /\ OrderAt(OrderCount)' = OrderInHand'
        /\ best_bid_price' > best_bid_price
    BY <1>3, Window DEF NewOrder
  <2>2. best_bid_price \in Nat
    BY RingAssumption DEF TypeOK, KernelTypeOK, Word
  <2>3. Decide /\ Improves(rxPkt[rx_head])
    BY <2>1, <2>2, StepBook
  <2>4. /\ pc = "decide"
        /\ best_bid_price' = rxPkt[rx_head].price
        /\ best_bid_shares' = rxPkt[rx_head].shares
    BY <2>3 DEF Decide
  <2>5. /\ OrderAt(OrderCount)'.price = rxPkt[rx_head].price
        /\ OrderAt(OrderCount)'.shares = rxPkt[rx_head].shares
    BY <2>1, <2>4 DEF OrderInHand
  <2>6. PICK q \in 1 .. Len(recvd) : /\ recvd[q].len >= PKT_MIN_LEN
                                    /\ recvd[q].pkt = rxPkt[rx_head]
                                    /\ recvd[q].pkt.msg_type = "A"
                                    /\ recvd[q].pkt.stock_locate = AAPL_LOCATE
    BY <2>4 DEF QuoteRead
  <2>9. q \in 1 .. Len(recvd') /\ recvd'[q] = recvd[q]
    BY RecvdGrows
  <2>7. ASSUME NEW n \in 1 .. OrderCount'
        PROVE  n \in 1 .. OrderCount \/ OrderAt(n)' = OrderAt(OrderCount)'
    <3>1. n = OrderCount + 1 \/ n \in 1 .. OrderCount
      BY <2>1
    <3>2. CASE n = OrderCount + 1
      BY <2>1, <3>2 DEF OrderAt, SlotAt
    <3>. QED
      BY <3>1, <3>2
  <2>8. ASSUME NEW n \in 1 .. OrderCount'
        PROVE  \E m \in 1 .. Len(recvd') :
                  /\ recvd'[m].len >= PKT_MIN_LEN
                  /\ recvd'[m].pkt.msg_type = "A"
                  /\ recvd'[m].pkt.stock_locate = AAPL_LOCATE
                  /\ recvd'[m].pkt.price = OrderAt(n)'.price
                  /\ recvd'[m].pkt.shares = OrderAt(n)'.shares
    <3>1. CASE n \in 1 .. OrderCount
      BY <1>1, <2>1, <3>1
    <3>2. CASE OrderAt(n)' = OrderAt(OrderCount)'
      BY <2>5, <2>6, <2>9, <3>2
    <3>. QED
      BY <2>7, <3>1, <3>2
  <2>. QED
    BY <2>8 DEF OrdersAreQuotes
<1>. QED
  BY <1>2, <1>3, StepOrders

(***************************************************************************)
(* The refinement of BestBid.                                               *)
(***************************************************************************)
Inbox == SubSeq(recvd, Judged + 1, Len(recvd))

(* The packet that Decide looks at is the quote of a whole datagram.        *)
LEMMA AtQuote ==
    ASSUME TypeOK, RxInv, pc = "decide"
    PROVE  /\ handled + 1 \in 1 .. Len(recvd)
           /\ recvd[handled + 1].len >= PKT_MIN_LEN
           /\ recvd[handled + 1].pkt = rxPkt[rx_head]
           /\ recvd[handled + 1].pkt.payload_len = ITCH_PAYLOAD_LEN
           /\ recvd[handled + 1].pkt.msg_type = "A"
           /\ recvd[handled + 1].pkt.stock_locate = AAPL_LOCATE
  BY AtPacket DEF RxInv, JudgeInv, Full, Reading

(* The kernel has never judged more than was received.                      *)
LEMMA JudgedBound ==
    ASSUME TypeOK, RxInv
    PROVE  /\ recvd \in Seq([len : 1 .. PKT_BUF_SIZE, pkt : Packet])
           /\ Len(recvd) \in Nat /\ handled \in Nat
           /\ Judged \in Nat /\ Judged <= Len(recvd)
           /\ ~(InHand \/ pc = "advance") => Judged = handled
<1>1. recvd \in Seq([len : 1 .. PKT_BUF_SIZE, pkt : Packet])
  BY DEF TypeOK, NicTypeOK
<1>2. Len(recvd) \in Nat /\ handled \in Nat /\ Judged \in Nat
  BY RxTypes DEF Judged
<1>3. Judged <= Len(recvd)
  <2>1. CASE InHand \/ pc = "advance"
    BY <1>2, <2>1, AtPacket DEF Judged, Reading
  <2>2. CASE ~(InHand \/ pc = "advance")
    BY <1>2, <2>2, RxTypes DEF Judged, RxInv, PlaceInv
  <2>. QED
    BY <2>1, <2>2
<1>. QED
  BY <1>1, <1>2, <1>3 DEF Judged

(* Orders is a sequence that a step leaves alone or appends to.             *)
LEMMA OrdersSeq ==
    ASSUME TypeOK
    PROVE  /\ Orders \in Seq(Order) /\ Len(Orders) = OrderCount
           /\ SameOrders => Orders' = Orders
           /\ NewOrder => Orders' = Append(Orders, OrderInHand')
<1>1. OrderCount \in Nat
  BY Window
<1>2. Orders \in Seq(Order) /\ Len(Orders) = OrderCount
  BY <1>1, OrderTypes DEF Orders
<1>3. ASSUME SameOrders PROVE Orders' = Orders
  BY <1>3 DEF SameOrders, Orders
<1>4. ASSUME NewOrder PROVE Orders' = Append(Orders, OrderInHand')
  <2>1. /\ OrderCount' = OrderCount + 1
        /\ \A n \in 1 .. OrderCount : OrderAt(n)' = OrderAt(n)
        /\ OrderAt(OrderCount)' = OrderInHand'
    BY <1>4 DEF NewOrder
  <2>2. ASSUME NEW n \in 1 .. OrderCount + 1
        PROVE  OrderAt(n)' = IF n = OrderCount + 1 THEN OrderInHand' ELSE OrderAt(n)
    <3>1. CASE n = OrderCount + 1
      BY <2>1, <3>1 DEF OrderAt, SlotAt
    <3>2. CASE n # OrderCount + 1
      BY <1>1, <2>1, <3>2
    <3>. QED
      BY <3>1, <3>2
  <2>3. Append(Orders, OrderInHand') =
          [n \in 1 .. OrderCount + 1 |->
             IF n = OrderCount + 1 THEN OrderInHand' ELSE OrderAt(n)]
    BY <1>1, <1>2 DEF Orders
  <2>4. Orders' = [n \in 1 .. OrderCount + 1 |-> OrderAt(n)']
    BY <2>1 DEF Orders
  <2>. QED
    BY <2>2, <2>3, <2>4
<1>. QED
  BY <1>2, <1>3, <1>4

(* What is left of a sequence behind its first j elements.                  *)
LEMMA Remainder ==
    ASSUME NEW S, NEW s \in Seq(S), NEW j \in 0 .. Len(s)
    PROVE  /\ SubSeq(s, j + 1, Len(s)) \in Seq(S)
           /\ Len(SubSeq(s, j + 1, Len(s))) = Len(s) - j
           /\ \A i \in 1 .. Len(s) - j : SubSeq(s, j + 1, Len(s))[i] = s[j + i]
<1>. DEFINE L == Len(s)
            u == SubSeq(s, j + 1, L)
<1>1. L \in Nat /\ j \in Nat /\ j <= L
  OBVIOUS
<1>2. ASSUME NEW i \in j + 1 .. L
      PROVE  s[i] \in S
  <2>1. i \in 1 .. Len(s)
    BY <1>1
  <2>. QED
    BY <2>1, ElementOfSeq
<1>. HIDE DEF L
<1>3. /\ u \in Seq(S)
      /\ Len(u) = IF j + 1 <= L THEN L - (j + 1) + 1 ELSE 0
      /\ \A i \in 1 .. L - (j + 1) + 1 : u[i] = s[(j + 1) + i - 1]
  BY <1>1, <1>2, SubSeqProperties
<1>. HIDE DEF u
<1>4. Len(u) = L - j
  BY <1>1, <1>3
<1>5. ASSUME NEW i \in 1 .. L - j
      PROVE  u[i] = s[j + i]
  <2>1. i \in 1 .. L - (j + 1) + 1 /\ (j + 1) + i - 1 = j + i
    BY <1>1
  <2>. QED
    BY <1>3, <2>1
<1>. QED
  BY <1>3, <1>4, <1>5 DEF u, L

(* A datagram that arrives goes to the end of the inbox.                    *)
LEMMA InboxArrive ==
    ASSUME NEW S, NEW s \in Seq(S), NEW e \in S, NEW j \in 0 .. Len(s)
    PROVE  SubSeq(Append(s, e), j + 1, Len(Append(s, e)))
             = Append(SubSeq(s, j + 1, Len(s)), e)
<1>. DEFINE t == Append(s, e)
            L == Len(s)
            u == SubSeq(s, j + 1, L)
            v == SubSeq(t, j + 1, Len(t))
            w == Append(u, e)
<1>1. /\ t \in Seq(S) /\ Len(t) = L + 1 /\ t[L + 1] = e
      /\ \A i \in 1 .. L : t[i] = s[i]
  BY AppendProperties
<1>2. L \in Nat /\ j \in Nat /\ j <= L
  OBVIOUS
<1>3. /\ u \in Seq(S) /\ Len(u) = L - j
      /\ \A i \in 1 .. L - j : u[i] = s[j + i]
  BY Remainder
<1>. HIDE DEF t
<1>4. j \in 0 .. Len(t)
  BY <1>1, <1>2
<1>5. /\ v \in Seq(S) /\ Len(v) = Len(t) - j
      /\ \A i \in 1 .. Len(t) - j : v[i] = t[j + i]
  BY <1>1, <1>4, Remainder
<1>. HIDE DEF L, u, v
<1>6. /\ w \in Seq(S) /\ Len(w) = Len(u) + 1 /\ w[Len(u) + 1] = e
      /\ \A i \in 1 .. Len(u) : w[i] = u[i]
  BY <1>3, AppendProperties
<1>. HIDE DEF w
<1>7. ASSUME NEW i \in 1 .. L + 1 - j
      PROVE  v[i] = w[i]
  <2>1. v[i] = t[j + i]
    <3>1. Len(t) = L + 1
      BY <1>1
    <3>2. i \in 1 .. Len(t) - j
      BY <1>2, <3>1
    <3>. QED
      BY <1>5, <3>2
  <2>2. CASE i = L - j + 1
    <3>1. j + i = L + 1 /\ i = Len(u) + 1
      BY <1>2, <1>3, <2>2
    <3>. QED
      BY <1>1, <1>6, <2>1, <3>1
  <2>3. CASE i # L - j + 1
    <3>1. i \in 1 .. L - j /\ j + i \in 1 .. L
      BY <1>2, <2>3
    <3>. QED
      BY <1>1, <1>3, <1>6, <2>1, <3>1
  <2>. QED
    BY <2>2, <2>3
<1>8. Len(v) = L + 1 - j /\ Len(w) = L + 1 - j
  BY <1>1, <1>2, <1>3, <1>5, <1>6
<1>9. v = w
  BY <1>5, <1>6, <1>7, <1>8, SeqEqual
<1>. QED
  BY <1>9 DEF t, L, u, v, w

(* The datagram judged next is the first of the inbox.                      *)
LEMMA InboxJudge ==
    ASSUME NEW S, NEW s \in Seq(S), NEW j \in 0 .. Len(s) - 1
    PROVE  /\ SubSeq(s, j + 1, Len(s)) # <<>>
           /\ Head(SubSeq(s, j + 1, Len(s))) = s[j + 1]
           /\ Tail(SubSeq(s, j + 1, Len(s))) = SubSeq(s, j + 2, Len(s))
<1>1. /\ j + 1 \in 1 .. Len(s) /\ Len(s) \in j + 1 .. Len(s) /\ (j + 1) + 1 = j + 2
      /\ Len(s) \in Nat /\ j \in Nat /\ j + 1 <= Len(s)
  OBVIOUS
<1>2. SubSeq(s, j + 1, Len(s)) # <<>>
  <2>. DEFINE u == SubSeq(s, j + 1, Len(s))
  <2>1. Len(u) = Len(s) - j
    BY <1>1, Remainder
  <2>. HIDE DEF u
  <2>2. Len(u) # 0
    BY <1>1, <2>1
  <2>3. u # <<>>
    BY <2>2, EmptySeq
  <2>. QED
    BY <2>3 DEF u
<1>. QED
  BY <1>1, <1>2, HeadTailOfSubSeq

(* A step that judges nothing is invisible.                                 *)
LEMMA QuietPromise ==
    ASSUME TypeOK, TxInv, [Next]_vars,
           UNCHANGED <<recvd, best_bid_price>>, Judged' = Judged
    PROVE  UNCHANGED Promise!vars
<1>1. best_bid_price \in Nat
  BY RingAssumption DEF TypeOK, KernelTypeOK, Word
<1>2. SameOrders
  BY <1>1, StepOrders DEF NewOrder
<1>3. Orders' = Orders
  BY <1>2, OrdersSeq
<1>. QED
  BY <1>3 DEF Promise!vars

(* A step that leaves the book alone is what Bid makes of a datagram that   *)
(* is no better quote.                                                      *)
LEMMA NoBid ==
    ASSUME TypeOK, TxInv, [Next]_vars, UNCHANGED best_bid_price, NEW d,
           ~(Promise!IsQuote(d) /\ d.pkt.price > best_bid_price)
    PROVE  Promise!Bid(d) /\ Orders' = Orders
<1>1. best_bid_price \in Nat
  BY RingAssumption DEF TypeOK, KernelTypeOK, Word
<1>2. Orders' = Orders
  BY <1>1, StepOrders, OrdersSeq DEF NewOrder
<1>. QED
  BY <1>2 DEF Promise!Bid

(* Decide makes of the quote it reads what Bid makes of it.                 *)
LEMMA DecideBid ==
    ASSUME TypeOK, TxInv, OrdersInv', [Next]_vars, Decide,
           NEW d, d.pkt = rxPkt[rx_head], Promise!IsQuote(d)
    PROVE  Promise!Bid(d)
<1>1. CASE ~Improves(rxPkt[rx_head])
  <2>1. UNCHANGED best_bid_price
    BY <1>1 DEF Decide, book
  <2>. QED
    BY <1>1, <2>1, NoBid DEF Improves
<1>2. CASE Improves(rxPkt[rx_head])
  <2>1. /\ best_bid_price' = d.pkt.price /\ best_bid_shares' = d.pkt.shares
        /\ d.pkt.price > best_bid_price
    BY <1>2 DEF Decide, Improves
  <2>2. best_bid_price \in Nat /\ best_bid_price' # best_bid_price
    BY <2>1, RingAssumption DEF TypeOK, KernelTypeOK, Word
  <2>3. NewOrder
    BY <2>2, StepOrders
  <2>4. Orders' = Append(Orders, OrderInHand')
    BY <2>3, OrdersSeq
  <2>5. order_id' = Len(Orders) + 1
    <3>1. /\ OrderAt(OrderCount)' = OrderInHand' /\ OrderCount' = OrderCount + 1
          /\ OrderCount \in Nat /\ Len(Orders) = OrderCount
      BY <2>3, Window, OrdersSeq DEF NewOrder
    <3>2. OrderCount' \in 1 .. OrderCount'
      BY <3>1
    <3>3. OrderAt(OrderCount)'.order_id = OrderCount'
      BY <3>2 DEF OrdersInv
    <3>. QED
      BY <3>1, <3>3 DEF OrderInHand
  <2>6. OrderInHand' = Promise!NewOrder(d)
    BY <2>1, <2>5 DEF OrderInHand, Promise!NewOrder
  <2>. QED
    BY <2>1, <2>4, <2>6 DEF Promise!Bid
<1>. QED
  BY <1>1, <1>2

(* A step that judges the first datagram of the inbox.                      *)
LEMMA JudgePromise ==
    ASSUME TypeOK, RxInv, UNCHANGED recvd, Judged' = Judged + 1, Judged < Len(recvd),
           Promise!Bid(recvd[Judged + 1])
    PROVE  Promise!Judge
<1>1. Judged \in 0 .. Len(recvd) - 1 /\ Judged + 1 + 1 = Judged + 2
  BY JudgedBound
<1>2. /\ Inbox # <<>> /\ Head(Inbox) = recvd[Judged + 1]
      /\ Tail(Inbox) = SubSeq(recvd, Judged + 2, Len(recvd))
  BY <1>1, JudgedBound, InboxJudge DEF Inbox
<1>3. Inbox' = Tail(Inbox)
  BY <1>1, <1>2 DEF Inbox
<1>. QED
  BY <1>2, <1>3 DEF Promise!Judge, Inbox

(* Decide takes the datagram it is at, and bids if that is better.          *)
LEMMA DecidePromise ==
    ASSUME TypeOK, TxInv, RxInv, OrdersInv', Cpu, Decide
    PROVE  Promise!Judge
<1>. DEFINE d == recvd[handled + 1]
<1>1. /\ pc = "decide" /\ UNCHANGED <<recvd, handled>>
      /\ Judged = handled /\ Judged' = handled + 1
  BY JudgedBound DEF Cpu, Decide, nicVars, rxLocals, Judged, InHand
<1>2. /\ handled + 1 \in 1 .. Len(recvd) /\ d.pkt = rxPkt[rx_head]
      /\ Promise!IsQuote(d)
  BY <1>1, AtQuote DEF Promise!IsQuote
<1>3. handled < Len(recvd) /\ [Next]_vars
  BY <1>2, JudgedBound DEF Next
<1>4. Promise!Bid(d)
  BY <1>2, <1>3, DecideBid
<1>. QED
  BY <1>1, <1>3, <1>4, JudgePromise

LEMMA CpuPromise ==
    ASSUME TypeOK, TypeOK', TxInv, RxInv, OrdersInv', Cpu
    PROVE  Promise!Judge \/ UNCHANGED Promise!vars
<1>. DEFINE d == recvd[handled + 1]
<1>1. [Next]_vars /\ UNCHANGED recvd
  BY DEF Next, Cpu, nicVars
<1>. USE DEF memVars, rxVars, rxLocals, book
<1>2. CASE RxClear \/ RxFill \/ RxRegs \/ TxInit \/ ReclaimTx \/ CheckDD \/ ReadLength
           \/ SpinTx \/ TxSlotFree \/ BuildOrder \/ RingDoorbell
  <2>1. UNCHANGED <<best_bid_price, handled>>
    BY <1>2 DEF RxClear, RxFill, RxRegs, TxInit, ReclaimTx, CheckDD, ReadLength,
                SpinTx, TxSlotFree, BuildOrder, RingDoorbell
  <2>2. Judged' = Judged
    BY <1>2, <2>1 DEF RxClear, RxFill, RxRegs, TxInit, ReclaimTx, CheckDD, ReadLength,
                SpinTx, TxSlotFree, BuildOrder, RingDoorbell, NextSlot, Judged, InHand
  <2>. QED
    BY <1>1, <2>1, <2>2, QuietPromise
<1>3. CASE ClearDD \/ LoadPayloadLen \/ Filter
  <2>1. /\ pc \in {"clear", "load", "parse"}
        /\ pc' \in {"load", "parse", "decide", "advance"}
        /\ UNCHANGED <<handled, best_bid_price>>
        /\ Judged = handled
    BY <1>3, JudgedBound DEF ClearDD, LoadPayloadLen, Filter, Judged, InHand
  <2>2. CASE pc' # "advance"
    <3>1. Judged' = Judged
      BY <2>1, <2>2 DEF Judged, InHand
    <3>. QED
      BY <1>1, <2>1, <3>1, QuietPromise
  <2>3. CASE pc' = "advance"
    <3>1. Judged' = Judged + 1
      BY <2>1, <2>3 DEF Judged, InHand
    <3>2. Judged < Len(recvd)
      <4>1. handled + 1 \in 1 .. Len(recvd)
        BY <2>1, AtPacket DEF Reading
      <4>. QED
        BY <2>1, <4>1, JudgedBound
    <3>3. ~Promise!IsQuote(d)
      <4>1. CASE ClearDD
        <5>1. ~(plen >= PKT_MIN_LEN)
          BY <2>3, <4>1 DEF ClearDD, TypeOK, KernelTypeOK, PKT_MIN_LEN, PKT_BUF_SIZE
        <5>2. ~Full(handled + 1)
          BY <4>1, <5>1 DEF ClearDD, RxInv, LengthInv
        <5>. QED
          BY <5>2 DEF Full, Promise!IsQuote
      <4>2. CASE LoadPayloadLen
        BY <2>3, <4>2, AtPacket DEF LoadPayloadLen, RxInv, JudgeInv, Reading, Promise!IsQuote
      <4>3. CASE Filter
        BY <2>3, <4>3, AtPacket DEF Filter, RxInv, JudgeInv, Reading, Promise!IsQuote
      <4>. QED
        BY <1>3, <4>1, <4>2, <4>3
    <3>. QED
      BY <1>1, <2>1, <3>1, <3>2, <3>3, NoBid, JudgePromise
  <2>. QED
    BY <2>2, <2>3
<1>4. CASE AdvanceRx
  <2>1. UNCHANGED best_bid_price /\ Judged' = Judged
    BY <1>4, JudgedBound DEF AdvanceRx, Judged, InHand
  <2>. QED
    BY <1>1, <2>1, QuietPromise
<1>. QED
  BY <1>2, <1>3, <1>4, DecidePromise DEF Cpu, KernelStep

LEMMA ArrivePromise ==
    ASSUME TypeOK, TxInv, RxInv, Arrive
    PROVE  Promise!Arrive
<1>1. PICK d \in Datagrams : Recv(d)
  BY DEF Arrive
<1>2. /\ recvd' = Append(recvd, Truncate(d))
      /\ UNCHANGED <<best_bid_price, pc, handled>> /\ [Next]_vars
  BY <1>1 DEF Arrive, Recv, kernelVars, Next
<1>3. Judged' = Judged
  BY <1>2 DEF Judged, InHand
<1>4. Orders' = Orders
  <2>1. best_bid_price \in Nat
    BY RingAssumption DEF TypeOK, KernelTypeOK, Word
  <2>. QED
    BY <1>2, <2>1, StepOrders, OrdersSeq DEF NewOrder
<1>5. Inbox' = Append(Inbox, Truncate(d))
  <2>1. Judged \in 0 .. Len(recvd)
    BY JudgedBound
  <2>. QED
    BY <1>2, <1>3, <2>1, JudgedBound, TruncateFits, InboxArrive DEF Inbox
<1>. QED
  BY <1>2, <1>4, <1>5 DEF Promise!Arrive, Inbox

(* The program does what BestBid says, no more and no less: every datagram  *)
(* is judged once, in order and whole, by the code that reads it out of a   *)
(* ring another thread fills.                                               *)
THEOREM PromiseKept == ASSUME AfterBoot
                       PROVE  Spec => KeepsPromise
<1>1. Init => Promise!Init
  <2> SUFFICES ASSUME Init PROVE Promise!Init
    OBVIOUS
  <2>1. /\ recvd = <<>> /\ best_bid_price = 0
        /\ Judged = 0 /\ OrderCount = 0
    BY DEF Init, MemInit, NicInit, EngineInit, KernelInit, Judged, OrderCount, Rung,
           Dist, InHand
  <2>2. Orders = <<>>
    BY <2>1 DEF Orders
  <2>3. SubSeq(recvd, Judged + 1, Len(recvd)) = <<>>
    BY <2>1
  <2>. QED
    BY <2>1, <2>2, <2>3 DEF Promise!Init
<1>2. TypeOK /\ TypeOK' /\ TxInv /\ RxInv /\ OrdersInv' /\ [Next]_vars
        => [Promise!Next]_(Promise!vars)
  <2> SUFFICES ASSUME TypeOK, TypeOK', TxInv, RxInv, OrdersInv', [Next]_vars
      PROVE  Promise!Next \/ UNCHANGED Promise!vars
    OBVIOUS
  <2>1. CASE Nic \/ Engine \/ UNCHANGED vars
    <3>1. UNCHANGED <<recvd, best_bid_price, pc, handled>>
      BY <2>1 DEF Nic, NicStep, DmaLength, DmaFront, DmaBack, SetDD, BumpTail, Engine,
                  vars, kernelVars, nicVars
    <3>2. Judged' = Judged
      BY <3>1 DEF Judged, InHand
    <3>. QED
      BY <3>1, <3>2, QuietPromise
  <2>. QED
    BY <2>1, ArrivePromise, CpuPromise DEF Next, Promise!Next
<1>. QED
  BY TypeCorrect, TxRingOrdered, OrdersCorrect, RxRingOrdered, <1>1, <1>2, PTL
  DEF Spec, KeepsPromise, Promise!Safety

(***************************************************************************)
(* Traffic that does not wait for the boot, of datagrams that carry whole   *)
(* messages.  Kernel and plugin may be at different slots for good; what    *)
(* holds of every slot is that the plugin does not write it while it is     *)
(* occupied, and that the packet of an unread slot is that of the last      *)
(* datagram that was put there.                                             *)
(***************************************************************************)
FullLength == \A d \in Datagrams : d.len >= PKT_MIN_LEN

Late == Paced /\ FullLength

(* No later datagram has been put into the slot of datagram n.              *)
Newest(n) == Filled < n + RX_RING_SIZE

(* Where the plugin is, and that it is not where the kernel has still work. *)
LatePlace ==
    /\ rx_tail = IF nic_pc = "recv" THEN Len(recvd) % RX_RING_SIZE
                 ELSE SlotOf(Len(recvd))
    /\ nic_pc # "recv" => Len(recvd) > 0 /\ packet_buffer = recvd[Len(recvd)]
    /\ nic_pc \in {"length", "front", "back", "dd"} => ~Occupied(rx_tail)

(* What lies in the slots.                                                  *)
LateRing ==
    /\ \A i \in RxSlots : Unread(i) => \E n \in 1 .. Filled : Newest(n) /\ SlotOf(n) = i
    /\ \A n \in 1 .. Filled : Newest(n) /\ Unread(SlotOf(n))
                                 => rxPkt[SlotOf(n)] = recvd[n].pkt
    /\ nic_pc = "dd" => rxPkt[rx_tail] = packet_buffer.pkt

(* Every length in the ring is that of a whole message, the kernel's own    *)
(* included.                                                                *)
LateLength ==
    /\ \A n \in 1 .. Len(recvd) : Full(n)
    /\ pc = "rx_fill" => \A i \in 0 .. k - 1 : rxDesc[i].length >= PKT_MIN_LEN
    /\ pc \notin {"rx_clear", "rx_fill"} =>
           \A i \in RxSlots : rxDesc[i].length >= PKT_MIN_LEN
    /\ pc = "clear" => plen >= PKT_MIN_LEN

(* The slot the kernel is at, and what it has found out about it.           *)
LateHead ==
    /\ pc \in {"length", "clear"} => rxDesc[rx_head].status = 1
    /\ Reading => rxDesc[rx_head].status = 0
    /\ pc \in {"parse", "decide"} => rxPkt[rx_head].payload_len = ITCH_PAYLOAD_LEN
    /\ pc = "decide" => /\ rxPkt[rx_head].msg_type = "A"
                        /\ rxPkt[rx_head].stock_locate = AAPL_LOCATE

LateInv == LatePlace /\ LateRing /\ LateLength /\ LateHead

LEMMA LateTypes ==
    TypeOK => /\ Len(recvd) \in Nat /\ Filled \in Int /\ Filled <= Len(recvd)
              /\ RX_RING_SIZE \in Nat \ {0}
              /\ rx_head \in RxSlots /\ rx_tail \in RxSlots /\ k \in RxSlots
              /\ rxDesc \in [RxSlots -> [length : 0 .. PKT_BUF_SIZE, status : {0, 1}]]
              /\ rxPkt \in [RxSlots -> Packet]
              /\ \A n \in 1 .. Len(recvd) : n \in Nat \ {0} /\ SlotOf(n) \in RxSlots
              /\ \A n \in 1 .. Filled : n \in 1 .. Len(recvd)
<1> SUFFICES ASSUME TypeOK
    PROVE  /\ Len(recvd) \in Nat /\ Filled \in Int /\ Filled <= Len(recvd)
           /\ RX_RING_SIZE \in Nat \ {0}
           /\ rx_head \in RxSlots /\ rx_tail \in RxSlots /\ k \in RxSlots
           /\ rxDesc \in [RxSlots -> [length : 0 .. PKT_BUF_SIZE, status : {0, 1}]]
           /\ rxPkt \in [RxSlots -> Packet]
           /\ \A n \in 1 .. Len(recvd) : n \in Nat \ {0} /\ SlotOf(n) \in RxSlots
           /\ \A n \in 1 .. Filled : n \in 1 .. Len(recvd)
  OBVIOUS
<1>1. Len(recvd) \in Nat /\ Filled \in Int /\ Filled <= Len(recvd)
  BY RxTypes
<1>2. \A n \in 1 .. Len(recvd) : n \in Nat \ {0}
  BY <1>1
<1>3. \A n \in 1 .. Len(recvd) : SlotOf(n) \in RxSlots
  BY <1>2, SlotType
<1>4. \A n \in 1 .. Filled : n \in 1 .. Len(recvd)
  BY <1>1
<1>. QED
  BY <1>1, <1>2, <1>3, <1>4, RingAssumption
  DEF TypeOK, MemTypeOK, NicTypeOK, KernelTypeOK

LEMMA InitLate == ASSUME FullLength, Init
                  PROVE  LateInv
<1>1. /\ recvd = <<>> /\ Len(recvd) = 0 /\ nic_pc = "recv"
      /\ pc = "rx_clear" /\ rx_head = 0 /\ rx_tail = 0
      /\ \A i \in RxSlots : rxDesc[i].status = 0
  BY DEF Init, MemInit, NicInit, KernelInit
<1>2. 0 % RX_RING_SIZE = 0
  <2>1. RX_RING_SIZE \in Nat \ {0} /\ 0 = RX_RING_SIZE * 0 + 0 /\ 0 \in 0 .. RX_RING_SIZE - 1
    BY RingAssumption
  <2>. QED
    BY <2>1, ModIs
<1>3. Filled = 0 /\ ~Reading /\ \A i \in RxSlots : ~Unread(i)
  BY <1>1 DEF Filled, Reading, InHand, Unread
<1>4. LatePlace
  BY <1>1, <1>2 DEF LatePlace
<1>5. LateRing /\ LateLength /\ LateHead
  BY <1>1, <1>3 DEF LateRing, LateLength, LateHead
<1>. QED
  BY <1>4, <1>5 DEF LateInv

(* Two datagrams that are the newest of one slot are one.                   *)
LEMMA NewestOne ==
    ASSUME TypeOK, NEW m \in 1 .. Filled, NEW n \in 1 .. Filled,
           Newest(m), Newest(n), SlotOf(m) = SlotOf(n)
    PROVE  m = n
<1>. DEFINE a == IF Filled >= RX_RING_SIZE THEN Filled - RX_RING_SIZE ELSE 0
<1>1. a \in Nat /\ m \in a + 1 .. a + RX_RING_SIZE /\ n \in a + 1 .. a + RX_RING_SIZE
  BY LateTypes DEF Newest
<1>. QED
  BY <1>1, SlotInj

(* The datagram on its way into the ring is put where the one a ring ago    *)
(* was, and where no other is.                                              *)
LEMMA LateFilling ==
    ASSUME TypeOK, LatePlace, nic_pc \in {"length", "front", "back", "dd"}
    PROVE  /\ Len(recvd) \in Nat \ {0} /\ Filled = Len(recvd) - 1
           /\ rx_tail \in RxSlots /\ rx_tail = SlotOf(Len(recvd))
           /\ packet_buffer = recvd[Len(recvd)]
           /\ packet_buffer.len \in Nat /\ packet_buffer.pkt \in Packet
           /\ \A n \in 1 .. Filled : Newest(n) /\ n + RX_RING_SIZE # Len(recvd)
                                        => SlotOf(n) # rx_tail
           /\ \A n \in 1 .. Filled : n + RX_RING_SIZE = Len(recvd) => SlotOf(n) = rx_tail
           /\ ~Occupied(rx_tail) /\ ~Unread(rx_tail)
           /\ Reading => rx_head # rx_tail
<1>. DEFINE L == Len(recvd)
            N == RX_RING_SIZE
<1>1. L \in Nat \ {0} /\ Filled = L - 1 /\ N \in Nat \ {0}
  BY LateTypes DEF Filled, LatePlace
<1>2. rx_tail \in RxSlots /\ rx_tail = SlotOf(L) /\ packet_buffer = recvd[L]
  BY LateTypes DEF LatePlace
<1>3. packet_buffer.len \in Nat /\ packet_buffer.pkt \in Packet
  <2>1. L \in 1 .. L
    BY <1>1
  <2>. QED
    BY <1>2, <2>1, RxTypes
<1>4. ASSUME NEW n \in 1 .. Filled, Newest(n), n + N # L, SlotOf(n) = rx_tail
      PROVE  FALSE
  <2>. DEFINE a == IF L > N THEN L - N ELSE 0
  <2>1. a \in Nat /\ n \in a + 1 .. a + N /\ L \in a + 1 .. a + N /\ n # L
    BY <1>1, <1>4 DEF Newest
  <2>. HIDE DEF a
  <2>. QED
    BY <1>2, <1>4, <2>1, SlotInj
<1>5. ASSUME NEW n \in 1 .. Filled, n + N = L
      PROVE  SlotOf(n) = rx_tail
  <2>1. n - 1 \in Nat /\ L - 1 \in Nat /\ L - 1 = (n - 1) + RX_RING_SIZE
    BY <1>1, <1>5
  <2>. QED
    BY <1>2, <2>1, LapSlot DEF SlotOf
<1>6. ~Occupied(rx_tail)
  BY DEF LatePlace
<1>7. ~Unread(rx_tail) /\ (Reading => rx_head # rx_tail)
  BY <1>6 DEF Occupied, Unread, Reading
<1>. QED
  BY <1>1, <1>2, <1>3, <1>4, <1>5, <1>6, <1>7

LEMMA ArriveLate == ASSUME TypeOK, LateInv, Late, Arrive
                    PROVE  LateInv'
<1>1. PICK d \in Datagrams : Recv(d)
  BY DEF Arrive
<1>. DEFINE L == Len(recvd)
<1>2. /\ nic_pc = "recv" /\ nic_pc' = "length"
      /\ packet_buffer' = Truncate(d) /\ recvd' = Append(recvd, Truncate(d))
      /\ UNCHANGED <<rx_tail, rxDesc, rxPkt, pc, k, rx_head, plen>>
  BY <1>1 DEF Arrive, Recv, memVars, kernelVars
<1>3. /\ L \in Nat /\ Len(recvd') = L + 1 /\ recvd'[L + 1] = Truncate(d)
      /\ \A n \in 1 .. L : recvd'[n] = recvd[n]
  BY <1>2 DEF TypeOK, NicTypeOK
<1>. HIDE DEF L
<1>4. /\ Filled = L /\ Filled' = L /\ Reading' = Reading
      /\ \A i : Unread(i)' <=> Unread(i)
      /\ \A i : Occupied(i)' <=> Occupied(i)
      /\ \A n : Newest(n)' <=> Newest(n)
  BY <1>2, <1>3 DEF L, Filled, Reading, InHand, Unread, Occupied, Newest
<1>5. LatePlace'
  <2>1. rx_tail' = SlotOf(L + 1)
    BY <1>2, <1>3 DEF LateInv, LatePlace, SlotOf, L
  <2>2. ~Occupied(rx_tail)'
    BY <1>2 DEF Arrive, MayArrive, Late, Occupied, Unread, InHand
  <2>. QED
    BY <1>2, <1>3, <2>1, <2>2 DEF LatePlace, SlotOf
<1>6. LateRing'
  BY <1>2, <1>3, <1>4 DEF LateInv, LateRing, SlotOf
<1>7. LateLength'
  <2>1. Truncate(d).len >= PKT_MIN_LEN
    BY DatagramAssumption DEF Late, FullLength, Truncate, PKT_MIN_LEN, PKT_BUF_SIZE
  <2>2. \A n \in 1 .. L + 1 : recvd'[n].len >= PKT_MIN_LEN
    BY <1>3, <2>1 DEF LateInv, LateLength, Full, L
  <2>. QED
    BY <1>2, <1>3, <2>2 DEF LateInv, LateLength, Full
<1>8. LateHead'
  BY <1>2, <1>4 DEF LateInv, LateHead
<1>. QED
  BY <1>5, <1>6, <1>7, <1>8 DEF LateInv

(* A step that only takes from what is unread and occupied.                 *)
LEMMA LateKept ==
    ASSUME TypeOK, LateInv, UNCHANGED <<nic_pc, rx_tail, packet_buffer, recvd, rxPkt>>,
           \A i \in RxSlots : Unread(i)' => Unread(i),
           \A i \in RxSlots : Occupied(i)' => Occupied(i)
    PROVE  LatePlace' /\ LateRing'
<1>1. Filled' = Filled /\ (\A n : Newest(n)' <=> Newest(n))
  BY DEF Filled, Newest
<1>2. LatePlace'
  <2>1. Occupied(rx_tail)' => Occupied(rx_tail)
    <3>1. rx_tail \in RxSlots /\ rx_tail' = rx_tail
      BY LateTypes
    <3>2. Occupied(rx_tail)' <=> \E i \in RxSlots : i = rx_tail /\ Occupied(i)'
      BY <3>1 DEF Occupied, Unread
    <3>. QED
      BY <3>1, <3>2
  <2>. QED
    BY <2>1 DEF LateInv, LatePlace, SlotOf
<1>3. \A n \in 1 .. Filled : Unread(SlotOf(n))' => Unread(SlotOf(n))
  <2>1. \A n \in 1 .. Filled : SlotOf(n) \in RxSlots
    BY LateTypes
  <2>2. \A n : Unread(SlotOf(n))' <=> \E i : i = SlotOf(n) /\ Unread(i)'
    BY DEF Unread, SlotOf
  <2>. QED
    BY <2>1, <2>2
<1>4. LateRing'
  BY <1>1, <1>3 DEF LateInv, LateRing, SlotOf
<1>. QED
  BY <1>2, <1>4

LEMMA NicLate == ASSUME TypeOK, LateInv, Nic
                 PROVE  LateInv'
<1>. DEFINE L == Len(recvd)
<1>1. UNCHANGED <<pc, k, rx_head, plen, recvd, packet_buffer>>
  BY DEF Nic, NicStep, DmaLength, DmaFront, DmaBack, SetDD, BumpTail, kernelVars
<1>2. /\ Reading' = Reading /\ L' = L
      /\ \A n : Full(n)' <=> Full(n)
  BY <1>1 DEF Reading, InHand, Full
<1>3. CASE DmaLength
  <2>1. /\ nic_pc = "length" /\ nic_pc' = "front"
        /\ rxDesc' = [rxDesc EXCEPT ![rx_tail].length = packet_buffer.len]
        /\ UNCHANGED <<rx_tail, rxPkt>>
    BY <1>3 DEF DmaLength
  <2>2. /\ \A i \in RxSlots : rxDesc'[i].status = rxDesc[i].status
        /\ \A i \in RxSlots : rxDesc'[i].length =
              IF i = rx_tail THEN packet_buffer.len ELSE rxDesc[i].length
    BY <2>1, LateTypes
  <2>3. Filled' = Filled /\ (\A n : Newest(n)' <=> Newest(n))
    BY <1>1, <2>1 DEF Filled, Newest
  <2>4. \A i \in RxSlots : /\ Unread(i)' <=> Unread(i)
                           /\ Occupied(i)' <=> Occupied(i)
    BY <1>1, <2>2 DEF Unread, Occupied, InHand
  <2>5. LatePlace'
    BY <1>1, <1>2, <2>1, <2>4, LateTypes DEF LateInv, LatePlace, SlotOf, Occupied, Unread, InHand
  <2>6. LateRing'
    BY <1>1, <2>1, <2>3, <2>4, LateTypes DEF LateInv, LateRing, SlotOf
  <2>7. LateLength'
    <3>1. packet_buffer.len >= PKT_MIN_LEN
      <4>1. L \in 1 .. L /\ packet_buffer = recvd[L]
        BY <2>1, LateFilling DEF LateInv
      <4>. QED
        BY <4>1 DEF LateInv, LateLength, Full
    <3>2. \A i \in 0 .. k - 1 : i \in RxSlots
      BY LateTypes DEF RxSlots
    <3>. QED
      BY <1>1, <1>2, <2>2, <3>1, <3>2 DEF LateInv, LateLength
  <2>8. LateHead'
    BY <1>1, <1>2, <2>1, <2>2, LateTypes DEF LateInv, LateHead
  <2>. QED
    BY <2>5, <2>6, <2>7, <2>8 DEF LateInv
<1>4. ASSUME NEW n, DmaFront(n) PROVE LateInv'
  <2>1. /\ nic_pc = "front" /\ nic_pc' = "back"
        /\ UNCHANGED <<rx_tail, rxDesc>>
        /\ \A i \in RxSlots : i # rx_tail => rxPkt'[i] = rxPkt[i]
    BY <1>4, LateTypes DEF DmaFront, CopyBytes
  <2>2. Filled' = Filled /\ (\A m : Newest(m)' <=> Newest(m))
    BY <1>1, <2>1 DEF Filled, Newest
  <2>3. \A i : /\ Unread(i)' <=> Unread(i)
               /\ Occupied(i)' <=> Occupied(i)
    BY <1>1, <2>1 DEF Unread, Occupied, InHand
  <2>4. LatePlace'
    BY <1>1, <1>2, <2>1, <2>3 DEF LateInv, LatePlace, SlotOf, Occupied, Unread, InHand
  <2>5. LateRing'
    <3>1. ~Unread(rx_tail)
      BY <2>1, LateFilling DEF LateInv
    <3>2. ASSUME NEW m \in 1 .. Filled, Newest(m), Unread(SlotOf(m))
          PROVE  rxPkt'[SlotOf(m)] = recvd[m].pkt
      <4>1. SlotOf(m) \in RxSlots /\ SlotOf(m) # rx_tail
        BY <3>1, <3>2, LateTypes
      <4>. QED
        BY <2>1, <3>2, <4>1 DEF LateInv, LateRing
    <3>. QED
      BY <1>1, <2>1, <2>2, <2>3, <3>2 DEF LateInv, LateRing, SlotOf
  <2>6. LateLength'
    BY <1>1, <1>2, <2>1 DEF LateInv, LateLength
  <2>7. LateHead'
    <3>1. Reading => rxPkt'[rx_head] = rxPkt[rx_head]
      BY <2>1, LateFilling, LateTypes DEF LateInv
    <3>. QED
      BY <1>1, <1>2, <2>1, <3>1 DEF LateInv, LateHead, Reading
  <2>. QED
    BY <2>4, <2>5, <2>6, <2>7 DEF LateInv
<1>5. CASE DmaBack
  <2>1. /\ nic_pc = "back" /\ nic_pc' = "dd"
        /\ UNCHANGED <<rx_tail, rxDesc>>
        /\ rxPkt' = [rxPkt EXCEPT ![rx_tail] =
                       Overlay(@, packet_buffer.pkt, packet_buffer.len)]
    BY <1>5 DEF DmaBack, CopyBytes
  <2>2. Filled' = Filled /\ (\A m : Newest(m)' <=> Newest(m))
    BY <1>1, <2>1 DEF Filled, Newest
  <2>3. \A i : /\ Unread(i)' <=> Unread(i)
               /\ Occupied(i)' <=> Occupied(i)
    BY <1>1, <2>1 DEF Unread, Occupied, InHand
  <2>4. LatePlace'
    BY <1>1, <1>2, <2>1, <2>3 DEF LateInv, LatePlace, SlotOf, Occupied, Unread, InHand
  <2>8. \A i \in RxSlots : i # rx_tail => rxPkt'[i] = rxPkt[i]
    BY <2>1, LateTypes
  <2>9. rxPkt'[rx_tail] = packet_buffer.pkt
    <3>1. L \in 1 .. L /\ packet_buffer = recvd[L]
      BY <2>1, LateFilling DEF LateInv
    <3>2. packet_buffer.len >= PKT_MIN_LEN
      BY <3>1 DEF LateInv, LateLength, Full
    <3>3. rxPkt'[rx_tail] = Overlay(rxPkt[rx_tail], packet_buffer.pkt, packet_buffer.len)
          /\ rxPkt[rx_tail] \in Packet
      BY <2>1, LateTypes
    <3>. QED
      BY <2>1, <3>2, <3>3, LateFilling, OverlayWhole DEF LateInv
  <2>5. LateRing'
    <3>1. ~Unread(rx_tail)
      BY <2>1, LateFilling DEF LateInv
    <3>2. ASSUME NEW m \in 1 .. Filled, Newest(m), Unread(SlotOf(m))
          PROVE  rxPkt'[SlotOf(m)] = recvd[m].pkt
      <4>1. SlotOf(m) \in RxSlots /\ SlotOf(m) # rx_tail
        BY <3>1, <3>2, LateTypes
      <4>. QED
        BY <2>8, <3>2, <4>1 DEF LateInv, LateRing
    <3>. QED
      BY <1>1, <2>1, <2>2, <2>3, <2>9, <3>2 DEF LateInv, LateRing, SlotOf
  <2>6. LateLength'
    BY <1>1, <1>2, <2>1 DEF LateInv, LateLength
  <2>7. LateHead'
    <3>1. Reading => rxPkt'[rx_head] = rxPkt[rx_head]
      BY <2>1, <2>8, LateFilling, LateTypes DEF LateInv
    <3>. QED
      BY <1>1, <1>2, <2>1, <3>1 DEF LateInv, LateHead, Reading
  <2>. QED
    BY <2>4, <2>5, <2>6, <2>7 DEF LateInv
<1>6. CASE SetDD
  <2>1. /\ nic_pc = "dd" /\ nic_pc' = "tail"
        /\ UNCHANGED <<rx_tail, rxPkt>>
        /\ rxDesc' = [rxDesc EXCEPT ![rx_tail].status = 1]
    BY <1>6 DEF SetDD
  <2>2. /\ \A i \in RxSlots : rxDesc'[i].length = rxDesc[i].length
        /\ \A i \in RxSlots : rxDesc'[i].status =
              IF i = rx_tail THEN 1 ELSE rxDesc[i].status
    BY <2>1, LateTypes
  <2>3. /\ L \in Nat \ {0} /\ Filled = L - 1 /\ Filled' = L
        /\ rx_tail = SlotOf(L) /\ rx_tail \in RxSlots
        /\ packet_buffer = recvd[L] /\ RX_RING_SIZE \in Nat \ {0}
    BY <1>1, <2>1, LateFilling, LateTypes DEF LateInv, Filled
  <2>4. /\ \A i \in RxSlots : i # rx_tail => (Unread(i)' <=> Unread(i))
        /\ \A m \in 1 .. Filled : Newest(m)' <=> Newest(m) /\ m + RX_RING_SIZE # L
        /\ \A m : m = L => Newest(m)'
    BY <1>1, <2>2, <2>3 DEF Unread, Newest
  <2>5. LatePlace'
    BY <1>1, <1>2, <2>1 DEF LateInv, LatePlace, SlotOf
  <2>6. LateRing'
    <3>1. ASSUME NEW i \in RxSlots, Unread(i)'
          PROVE  \E n \in 1 .. L : Newest(n)' /\ SlotOf(n) = i
      <4>1. CASE i = rx_tail
        <5>1. L \in 1 .. L
          BY <2>3
        <5>. QED
          BY <2>3, <2>4, <4>1, <5>1
      <4>2. CASE i # rx_tail
        <5>1. PICK n \in 1 .. Filled : Newest(n) /\ SlotOf(n) = i
          BY <2>4, <3>1, <4>2 DEF LateInv, LateRing
        <5>2. n + RX_RING_SIZE # L
          BY <2>1, <2>3, <4>2, <5>1, LateFilling DEF LateInv
        <5>3. n \in 1 .. L
          BY <2>3
        <5>. QED
          BY <2>4, <5>1, <5>2, <5>3
      <4>. QED
        BY <4>1, <4>2
    <3>2. ASSUME NEW n \in 1 .. L, Newest(n)', Unread(SlotOf(n))'
          PROVE  rxPkt'[SlotOf(n)] = recvd[n].pkt
      <4>1. CASE n = L
        BY <2>1, <2>3, <4>1 DEF LateInv, LateRing
      <4>2. CASE n # L
        <5>1. n \in 1 .. Filled
          BY <2>3, <4>2
        <5>2. Newest(n) /\ n + RX_RING_SIZE # L
          BY <2>4, <3>2, <5>1
        <5>3. SlotOf(n) \in RxSlots /\ SlotOf(n) # rx_tail
          BY <2>1, <2>3, <5>1, <5>2, LateFilling, LateTypes DEF LateInv
        <5>4. Unread(SlotOf(n))
          BY <2>4, <3>2, <5>3 DEF Unread, SlotOf
        <5>. QED
          BY <2>1, <5>1, <5>2, <5>4 DEF LateInv, LateRing
      <4>. QED
        BY <4>1, <4>2
    <3>3. \A n : SlotOf(n)' = SlotOf(n)
      BY DEF SlotOf
    <3>. QED
      BY <1>1, <2>1, <2>3, <3>1, <3>2, <3>3 DEF LateRing, SlotOf
  <2>7. LateLength'
    <3>1. \A i \in 0 .. k - 1 : i \in RxSlots
      BY LateTypes DEF RxSlots
    <3>. QED
      BY <1>1, <1>2, <2>2, <3>1 DEF LateInv, LateLength
  <2>8. LateHead'
    BY <1>1, <1>2, <2>1, <2>2, LateFilling, LateTypes DEF LateInv, LateHead
  <2>. QED
    BY <2>5, <2>6, <2>7, <2>8 DEF LateInv
<1>7. CASE BumpTail
  <2>1. /\ nic_pc = "tail" /\ nic_pc' = "recv"
        /\ rx_tail' = (rx_tail + 1) % RX_RING_SIZE
        /\ UNCHANGED <<rxDesc, rxPkt>>
    BY <1>7 DEF BumpTail
  <2>2. Filled' = Filled /\ (\A m : Newest(m)' <=> Newest(m))
    BY <1>1, <2>1 DEF Filled, Newest
  <2>3. \A i : Unread(i)' <=> Unread(i)
    BY <1>1, <2>1 DEF Unread
  <2>4. LatePlace'
    <3>1. L \in Nat \ {0} /\ rx_tail = SlotOf(L)
      BY <2>1, LateTypes DEF LateInv, LatePlace
    <3>2. rx_tail' = L % RX_RING_SIZE
      BY <2>1, <3>1, SlotNext
    <3>. QED
      BY <1>1, <1>2, <2>1, <3>2 DEF LatePlace
  <2>5. LateRing'
    BY <1>1, <2>1, <2>2, <2>3 DEF LateInv, LateRing, SlotOf
  <2>6. LateLength' /\ LateHead'
    BY <1>1, <1>2, <2>1 DEF LateInv, LateLength, LateHead
  <2>. QED
    BY <2>4, <2>5, <2>6 DEF LateInv
<1>. QED
  BY <1>3, <1>4, <1>5, <1>6, <1>7 DEF Nic, NicStep

(* Which slots are unread and occupied, as the kernel goes on.              *)
LEMMA CpuUnread ==
    ASSUME TypeOK, LateInv, Cpu
    PROVE  /\ \A i \in RxSlots : Unread(i)' => Unread(i)
           /\ \A i \in RxSlots : Occupied(i)' => Occupied(i)
           /\ \/ \A i \in RxSlots : Unread(i)' <=> Unread(i)
              \/ /\ LoadPayloadLen \/ Filter \/ Decide
                 /\ pc' \in {"advance", "spin"}
                 /\ \A i \in RxSlots : Unread(i)' <=> Unread(i) /\ i # rx_head
<1>1. /\ rxDesc \in [RxSlots -> [length : 0 .. PKT_BUF_SIZE, status : {0, 1}]]
      /\ k \in RxSlots /\ rx_head \in RxSlots
      /\ RX_RING_SIZE \in Nat \ {0} /\ RxSlots = 0 .. RX_RING_SIZE - 1
  BY LateTypes DEF RxSlots
<1>. USE DEF memVars, rxVars, rxLocals
<1>2. CASE RxClear
  <2>1. \A i \in RxSlots : rxDesc'[i].status = IF i = k THEN 0 ELSE rxDesc[i].status
    BY <1>1, <1>2 DEF RxClear
  <2>2. /\ pc = "rx_clear" /\ UNCHANGED rx_head
        /\ \/ pc' = "rx_clear" /\ k' = k + 1
           \/ pc' = "rx_fill" /\ k + 1 = RX_RING_SIZE
    BY <1>2 DEF RxClear, NextSlot
  <2>3. \A i \in RxSlots : Unread(i)' <=> Unread(i)
    BY <1>1, <2>1, <2>2 DEF Unread
  <2>. QED
    BY <2>2, <2>3 DEF Occupied, InHand
<1>3. CASE RxFill
  <2>1. \A i \in RxSlots : rxDesc'[i].status = rxDesc[i].status
    BY <1>1, <1>3 DEF RxFill
  <2>2. pc = "rx_fill" /\ pc' \in {"rx_fill", "rx_regs"} /\ UNCHANGED rx_head
    BY <1>3 DEF RxFill, NextSlot
  <2>3. \A i \in RxSlots : Unread(i)' <=> Unread(i)
    BY <2>1, <2>2 DEF Unread
  <2>. QED
    BY <2>2, <2>3 DEF Occupied, InHand
<1>4. CASE RxRegs \/ TxInit \/ ReclaimTx \/ CheckDD \/ ReadLength \/ SpinTx \/ TxSlotFree
           \/ BuildOrder \/ RingDoorbell
  <2>1. UNCHANGED <<rxDesc, rx_head, k>>
    BY <1>4 DEF RxRegs, TxInit, ReclaimTx, CheckDD, ReadLength, SpinTx, TxSlotFree,
                BuildOrder, RingDoorbell
  <2>2. \/ /\ pc \notin {"rx_clear", "load", "parse", "decide", "advance"} /\ ~InHand
           /\ pc' \notin {"rx_clear", "load", "parse", "decide", "advance"} /\ ~InHand'
        \/ /\ InHand /\ (InHand' \/ pc' = "advance")
    BY <1>4 DEF RxRegs, TxInit, ReclaimTx, CheckDD, ReadLength, SpinTx, TxSlotFree,
                BuildOrder, RingDoorbell, InHand
  <2>3. \A i \in RxSlots : Unread(i)' <=> Unread(i)
    BY <2>1, <2>2 DEF Unread, InHand
  <2>. QED
    BY <2>1, <2>2, <2>3 DEF Occupied
<1>5. CASE ClearDD
  <2>1. /\ pc = "clear" /\ pc' = "load" /\ UNCHANGED rx_head
        /\ rxDesc[rx_head].status = 1
    <3>1. pc = "clear" /\ plen >= PKT_MIN_LEN /\ rxDesc[rx_head].status = 1
      BY <1>5 DEF ClearDD, LateInv, LateLength, LateHead
    <3>2. plen \in PKT_MIN_LEN .. PKT_BUF_SIZE
      BY <3>1 DEF TypeOK, KernelTypeOK, PKT_MIN_LEN, PKT_BUF_SIZE
    <3>. QED
      BY <1>5, <3>1, <3>2 DEF ClearDD
  <2>2. \A i \in RxSlots : rxDesc'[i].status = IF i = rx_head THEN 0 ELSE rxDesc[i].status
    BY <1>1, <1>5 DEF ClearDD
  <2>3. \A i \in RxSlots : Unread(i)' <=> Unread(i)
    BY <2>1, <2>2 DEF Unread
  <2>. QED
    BY <2>1, <2>3 DEF Occupied, InHand
<1>6. CASE LoadPayloadLen \/ Filter \/ Decide
  <2>1. /\ pc \in {"load", "parse", "decide"}
        /\ pc' \in {"parse", "decide", "advance", "spin"}
        /\ UNCHANGED <<rxDesc, rx_head, k>>
    BY <1>6 DEF LoadPayloadLen, Filter, Decide
  <2>2. rxDesc[rx_head].status = 0
    BY <2>1 DEF LateInv, LateHead, Reading
  <2>3. \A i \in RxSlots : Occupied(i)' => Occupied(i)
    BY <2>1 DEF Occupied, Unread, InHand
  <2>4. CASE pc' \in {"parse", "decide"}
    <3>1. \A i \in RxSlots : Unread(i)' <=> Unread(i)
      BY <2>1, <2>4 DEF Unread
    <3>. QED
      BY <2>3, <3>1
  <2>5. CASE pc' \in {"advance", "spin"}
    <3>1. \A i \in RxSlots : Unread(i)' <=> Unread(i) /\ i # rx_head
      BY <2>1, <2>2, <2>5 DEF Unread
    <3>. QED
      BY <1>6, <2>3, <2>5, <3>1
  <2>. QED
    BY <2>1, <2>4, <2>5
<1>7. CASE AdvanceRx
  <2>1. pc = "advance" /\ pc' = "poll" /\ UNCHANGED rxDesc
    BY <1>7 DEF AdvanceRx
  <2>2. \A i \in RxSlots : Unread(i)' <=> Unread(i)
    BY <2>1 DEF Unread
  <2>. QED
    BY <2>1, <2>2 DEF Occupied, InHand
<1>. QED
  BY <1>2, <1>3, <1>4, <1>5, <1>6, <1>7 DEF Cpu, KernelStep

LEMMA CpuLate == ASSUME TypeOK, LateInv, Cpu
                 PROVE  LateInv'
<1>1. UNCHANGED <<nic_pc, rx_tail, packet_buffer, recvd>>
  BY DEF Cpu, nicVars
<1>2. /\ rxDesc \in [RxSlots -> [length : 0 .. PKT_BUF_SIZE, status : {0, 1}]]
      /\ k \in RxSlots /\ rx_head \in RxSlots
      /\ RX_RING_SIZE \in Nat \ {0} /\ RxSlots = 0 .. RX_RING_SIZE - 1
  BY LateTypes DEF RxSlots
<1>3. \A n : Full(n)' <=> Full(n)
  BY <1>1 DEF Full
<1>. USE DEF memVars, rxVars, rxLocals
<1>4. UNCHANGED rxPkt
  BY DEF Cpu, KernelStep, RxClear, RxFill, RxRegs, TxInit, ReclaimTx, CheckDD,
         ReadLength, ClearDD, LoadPayloadLen, Filter, Decide, SpinTx, TxSlotFree,
         BuildOrder, RingDoorbell, AdvanceRx
<1>5. LatePlace' /\ LateRing'
  BY <1>1, <1>4, CpuUnread, LateKept
<1>6. CASE RxClear
  <2>1. /\ pc = "rx_clear" /\ pc' \in {"rx_clear", "rx_fill"}
        /\ pc' = "rx_fill" => k' = 0
    BY <1>6 DEF RxClear, NextSlot
  <2>2. pc' = "rx_fill" => \A i \in 0 .. k' - 1 : FALSE
    BY <2>1
  <2>3. LateLength' /\ LateHead'
    BY <1>1, <1>3, <2>1, <2>2 DEF LateInv, LateLength, LateHead, Reading, InHand
  <2>. QED
    BY <1>5, <2>3 DEF LateInv
<1>7. CASE RxFill
  <2>1. /\ pc = "rx_fill" /\ pc' \in {"rx_fill", "rx_regs"}
        /\ pc' = "rx_fill" => k' = k + 1
        /\ pc' = "rx_regs" => k + 1 = RX_RING_SIZE
    BY <1>7 DEF RxFill, NextSlot
  <2>2. \A i \in RxSlots : rxDesc'[i].length =
              IF i = k THEN PKT_BUF_SIZE ELSE rxDesc[i].length
    BY <1>2, <1>7 DEF RxFill
  <2>3. \A i \in 0 .. k : rxDesc'[i].length >= PKT_MIN_LEN
    <3>1. \A i \in 0 .. k : i \in RxSlots /\ (i = k \/ i \in 0 .. k - 1)
      BY <1>2
    <3>2. PKT_BUF_SIZE >= PKT_MIN_LEN
      BY DEF PKT_BUF_SIZE, PKT_MIN_LEN
    <3>. QED
      BY <2>1, <2>2, <3>1, <3>2 DEF LateInv, LateLength
  <2>4. /\ pc' = "rx_fill" => \A i \in 0 .. k' - 1 : i \in 0 .. k
        /\ pc' = "rx_regs" => \A i \in RxSlots : i \in 0 .. k
    BY <1>2, <2>1
  <2>5. LateLength' /\ LateHead'
    BY <1>1, <1>3, <2>1, <2>3, <2>4 DEF LateInv, LateLength, LateHead, Reading, InHand
  <2>. QED
    BY <1>5, <2>5 DEF LateInv
<1>8. CASE RxRegs \/ TxInit \/ ReclaimTx \/ CheckDD \/ ReadLength
  <2>1. /\ pc \in {"rx_regs", "tx_init", "poll", "check", "length"}
        /\ pc' \in {"tx_init", "poll", "check", "length", "clear"}
        /\ pc' = "length" => rxDesc[rx_head].status = 1
        /\ pc' = "clear" => pc = "length" /\ plen' = rxDesc[rx_head].length
        /\ UNCHANGED <<rxDesc, rx_head>>
    BY <1>8 DEF RxRegs, TxInit, ReclaimTx, CheckDD, ReadLength
  <2>2. LateLength' /\ LateHead'
    BY <1>1, <1>2, <1>3, <1>4, <2>1 DEF LateInv, LateLength, LateHead, Reading, InHand
  <2>. QED
    BY <1>5, <2>2 DEF LateInv
<1>9. CASE ClearDD
  <2>1. /\ pc = "clear" /\ pc' \in {"load", "advance"} /\ UNCHANGED rx_head
        /\ rxDesc' = [rxDesc EXCEPT ![rx_head].status = 0]
    BY <1>9 DEF ClearDD
  <2>2. /\ \A i \in RxSlots : rxDesc'[i].length = rxDesc[i].length
        /\ rxDesc'[rx_head].status = 0
    BY <1>2, <2>1
  <2>3. LateLength' /\ LateHead'
    BY <1>1, <1>2, <1>3, <2>1, <2>2 DEF LateInv, LateLength, LateHead
  <2>. QED
    BY <1>5, <2>3 DEF LateInv
<1>10. CASE LoadPayloadLen \/ Filter \/ Decide \/ SpinTx \/ TxSlotFree \/ BuildOrder
            \/ RingDoorbell
  <2>1. /\ pc \in {"load", "parse", "decide", "spin", "build", "doorbell"}
        /\ pc' \in {"parse", "decide", "advance", "spin", "build", "doorbell"}
        /\ pc' = "parse" => rxPkt[rx_head].payload_len = ITCH_PAYLOAD_LEN
        /\ pc' = "decide" => /\ pc = "parse"
                             /\ rxPkt[rx_head].msg_type = "A"
                             /\ rxPkt[rx_head].stock_locate = AAPL_LOCATE
        /\ UNCHANGED <<rxDesc, rx_head>>
    BY <1>10 DEF LoadPayloadLen, Filter, Decide, SpinTx, TxSlotFree, BuildOrder,
                 RingDoorbell
  <2>2. Reading
    BY <2>1 DEF Reading, InHand
  <2>3. LateLength' /\ LateHead'
    BY <1>1, <1>3, <1>4, <2>1, <2>2 DEF LateInv, LateLength, LateHead
  <2>. QED
    BY <1>5, <2>3 DEF LateInv
<1>11. CASE AdvanceRx
  <2>1. pc = "advance" /\ pc' = "poll" /\ UNCHANGED rxDesc
    BY <1>11 DEF AdvanceRx
  <2>2. LateLength' /\ LateHead'
    BY <1>1, <1>3, <2>1 DEF LateInv, LateLength, LateHead, Reading, InHand
  <2>. QED
    BY <1>5, <2>2 DEF LateInv
<1>. QED
  BY <1>6, <1>7, <1>8, <1>9, <1>10, <1>11 DEF Cpu, KernelStep

LEMMA NextLate == ASSUME TypeOK, LateInv, Late, [Next]_vars
                  PROVE  LateInv'
<1>1. CASE Engine \/ UNCHANGED vars
  <2>1. UNCHANGED <<rxDesc, rxPkt, nic_pc, rx_tail, packet_buffer, recvd, pc, k,
                    rx_head, plen>>
    BY <1>1 DEF Engine, TxSend, vars, kernelVars, nicVars, rxVars
  <2>2. /\ \A i : Unread(i)' <=> Unread(i)
        /\ \A i : Occupied(i)' <=> Occupied(i)
    BY <2>1 DEF Unread, Occupied, InHand
  <2>3. LatePlace' /\ LateRing'
    BY <2>1, <2>2, LateKept
  <2>4. LateLength' /\ LateHead'
    BY <2>1 DEF LateInv, LateLength, LateHead, Full, Reading, InHand
  <2>. QED
    BY <2>3, <2>4 DEF LateInv
<1>. QED
  BY <1>1, ArriveLate, NicLate, CpuLate DEF Next

(* With paced traffic of whole messages, from whenever it starts: a slot is *)
(* never written while the kernel has work with it, and the packet of an    *)
(* unread slot is the last datagram's that was put there.                   *)
THEOREM SlotsKept == ASSUME Late
                     PROVE  Spec => []LateInv
<1>1. Init => LateInv
  BY InitLate DEF Late
<1>2. TypeOK /\ LateInv /\ [Next]_vars => LateInv'
  BY NextLate
<1>. QED
  BY TypeCorrect, <1>1, <1>2, PTL DEF Spec

(***************************************************************************)
(* The refinement of LateBid.                                               *)
(***************************************************************************)

(* The packet at the kernel's slot is a datagram's of the inbox, and no     *)
(* other of the inbox lies there.                                           *)
LEMMA AtLate ==
    ASSUME TypeOK, LateInv, pc \in {"load", "parse", "decide"}
    PROVE  \E m \in LateInbox :
              /\ m \in 1 .. Filled /\ Newest(m) /\ SlotOf(m) = rx_head
              /\ recvd[m].pkt = rxPkt[rx_head] /\ recvd[m].len >= PKT_MIN_LEN
<1>1. Unread(rx_head) /\ rx_head \in RxSlots
  BY LateTypes DEF Unread
<1>2. PICK m \in 1 .. Filled : Newest(m) /\ SlotOf(m) = rx_head
  BY <1>1 DEF LateInv, LateRing
<1>3. rxPkt[rx_head] = recvd[m].pkt
  BY <1>1, <1>2 DEF LateInv, LateRing
<1>4. m \in 1 .. Len(recvd) /\ m \in Nat \ {0} /\ m + RX_RING_SIZE > Filled
  BY <1>2, LateTypes DEF Newest
<1>5. m \in LateInbox
  BY <1>1, <1>2, <1>4 DEF LateInbox
<1>6. recvd[m].len >= PKT_MIN_LEN
  BY <1>4 DEF LateInv, LateLength, Full
<1>. QED
  BY <1>2, <1>3, <1>5, <1>6

(* Steps that leave what is unread as it is leave the inbox as it is.       *)
LEMMA LateInboxStays ==
    ASSUME TypeOK, UNCHANGED recvd, Filled' = Filled,
           \A i \in RxSlots : Unread(i)' <=> Unread(i)
    PROVE  LateInbox' = LateInbox
<1>1. \A n \in 1 .. Len(recvd) : Unread(SlotOf(n))' <=> Unread(SlotOf(n))
  <2>1. \A n \in 1 .. Len(recvd) : SlotOf(n) \in RxSlots
    BY LateTypes
  <2>2. \A n : Unread(SlotOf(n))' <=> \E i : i = SlotOf(n) /\ Unread(i)'
    BY DEF Unread, SlotOf
  <2>. QED
    BY <2>1, <2>2
<1>. QED
  BY <1>1 DEF LateInbox

(* A step that judges nothing and does not end the boot is invisible.       *)
LEMMA LateQuiet ==
    ASSUME TypeOK, TxInv, [Next]_vars, UNCHANGED <<recvd, best_bid_price>>,
           Filled' = Filled, \A i \in RxSlots : Unread(i)' <=> Unread(i),
           pc' \in LoopPCs <=> pc \in LoopPCs
    PROVE  UNCHANGED LatePromise!vars
<1>1. best_bid_price \in Nat
  BY RingAssumption DEF TypeOK, KernelTypeOK, Word
<1>2. Orders' = Orders
  BY <1>1, StepOrders, OrdersSeq DEF NewOrder
<1>3. LateInbox' = LateInbox
  BY LateInboxStays
<1>4. (pc \in LoopPCs)' = (pc \in LoopPCs)
  OBVIOUS
<1>. QED
  BY <1>2, <1>3, <1>4 DEF LatePromise!vars

(* The two specifications make the same of a datagram.                      *)
LEMMA SameBid == ASSUME NEW d
                 PROVE  /\ Promise!Bid(d) <=> LatePromise!Bid(d)
                        /\ Promise!IsQuote(d) <=> LatePromise!IsQuote(d)
  BY DEF Promise!Bid, LatePromise!Bid, Promise!IsQuote, LatePromise!IsQuote,
         Promise!NewOrder, LatePromise!NewOrder

LEMMA ArriveLatePromise ==
    ASSUME TypeOK, TxInv, Arrive
    PROVE  LatePromise!Arrive
<1>1. PICK d \in Datagrams : Recv(d)
  BY DEF Arrive
<1>. DEFINE L == Len(recvd)
<1>2. /\ nic_pc = "recv" /\ nic_pc' = "length" /\ recvd' = Append(recvd, Truncate(d))
      /\ UNCHANGED <<best_bid_price, rxDesc, pc, k, rx_head>> /\ [Next]_vars
  BY <1>1 DEF Arrive, Recv, memVars, kernelVars, Next
<1>3. L \in Nat /\ Len(recvd') = L + 1 /\ Filled = L /\ Filled' = L
  BY <1>2 DEF TypeOK, NicTypeOK, Filled
<1>4. Orders' = Orders
  <2>1. best_bid_price \in Nat
    BY RingAssumption DEF TypeOK, KernelTypeOK, Word
  <2>. QED
    BY <1>2, <2>1, StepOrders, OrdersSeq DEF NewOrder
<1>5. LateInbox' = LateInbox \cup {L + 1}
  <2>1. \A n : Unread(SlotOf(n))' <=> Unread(SlotOf(n))
    BY <1>2 DEF Unread, SlotOf
  <2>2. \A n : n \in 1 .. L + 1 <=> n \in 1 .. L \/ n = L + 1
    BY <1>3
  <2>. DEFINE U(n) == Unread(SlotOf(n))
  <2>3. LateInbox' = {n \in 1 .. L + 1 : n > L \/ (n + RX_RING_SIZE > L /\ U(n))}
    BY <1>3, <2>1 DEF LateInbox
  <2>4. LateInbox = {n \in 1 .. L : n > L \/ (n + RX_RING_SIZE > L /\ U(n))}
    BY <1>3 DEF LateInbox
  <2>. HIDE DEF U, L
  <2>. QED
    BY <1>3, <2>2, <2>3, <2>4
<1>6. (pc \in LoopPCs)' = (pc \in LoopPCs)
  BY <1>2
<1>. QED
  BY <1>2, <1>4, <1>5, <1>6 DEF LatePromise!Arrive

(* The kernel takes a datagram out of its slot.                             *)
LEMMA TakeLate ==
    ASSUME TypeOK, LateInv, UNCHANGED <<recvd, nic_pc>>,
           \A i \in RxSlots : Unread(i)' <=> Unread(i) /\ i # rx_head,
           NEW m \in 1 .. Filled, Newest(m), SlotOf(m) = rx_head
    PROVE  LateInbox' = LateInbox \ {m}
<1>1. Filled' = Filled /\ Len(recvd') = Len(recvd)
  BY DEF Filled
<1>2. /\ Len(recvd) \in Nat /\ Filled \in Int /\ Filled <= Len(recvd)
      /\ RX_RING_SIZE \in Nat \ {0}
      /\ \A n \in 1 .. Len(recvd) : SlotOf(n) \in RxSlots
  BY LateTypes
<1>3. \A n \in 1 .. Len(recvd) : Unread(SlotOf(n))' <=> Unread(SlotOf(n)) /\ SlotOf(n) # rx_head
  <2>1. \A n : Unread(SlotOf(n))' <=> \E i : i = SlotOf(n) /\ Unread(i)'
    BY DEF Unread, SlotOf
  <2>. QED
    BY <1>2, <2>1
<1>4. ASSUME NEW n \in 1 .. Len(recvd)
      PROVE  n \in LateInbox' <=> n \in LateInbox /\ n # m
  <2>1. CASE n > Filled
    BY <1>1, <1>2, <2>1 DEF LateInbox
  <2>2. CASE ~(n > Filled) /\ ~(n + RX_RING_SIZE > Filled)
    BY <1>1, <1>2, <2>2 DEF LateInbox
  <2>3. CASE ~(n > Filled) /\ n + RX_RING_SIZE > Filled
    <3>1. n \in 1 .. Filled /\ Newest(n)
      BY <1>2, <2>3 DEF Newest
    <3>2. SlotOf(n) = rx_head <=> n = m
      BY <3>1, NewestOne
    <3>3. n \in LateInbox <=> Unread(SlotOf(n))
      BY <2>3 DEF LateInbox
    <3>4. n \in LateInbox' <=> Unread(SlotOf(n))'
      BY <1>1, <2>3 DEF LateInbox
    <3>. QED
      BY <1>3, <3>2, <3>3, <3>4
  <2>. QED
    BY <2>1, <2>2, <2>3
<1>5. LateInbox \subseteq 1 .. Len(recvd) /\ LateInbox' \subseteq 1 .. Len(recvd)
  BY <1>1 DEF LateInbox
<1>. QED
  BY <1>4, <1>5

(* The DD bit brings the datagram into its slot, or, where the boot wipes   *)
(* that, loses it.                                                          *)
LEMMA NicLatePromise ==
    ASSUME TypeOK, TxInv, LateInv, Nic
    PROVE  LatePromise!Lose \/ UNCHANGED LatePromise!vars
<1>. DEFINE L == Len(recvd)
<1>1. UNCHANGED <<pc, k, rx_head, recvd, best_bid_price>> /\ [Next]_vars
  BY DEF Nic, NicStep, DmaLength, DmaFront, DmaBack, SetDD, BumpTail, kernelVars, Next
<1>2. CASE ~SetDD
  <2>1. Filled' = Filled
    BY <1>1, <1>2 DEF Nic, NicStep, DmaLength, DmaFront, DmaBack, BumpTail, Filled
  <2>2. \A i \in RxSlots : rxDesc'[i].status = rxDesc[i].status
    BY <1>2, LateTypes DEF Nic, NicStep, DmaLength, DmaFront, DmaBack, BumpTail
  <2>3. \A i \in RxSlots : Unread(i)' <=> Unread(i)
    BY <1>1, <2>2 DEF Unread
  <2>. QED
    BY <1>1, <2>1, <2>3, LateQuiet
<1>3. CASE SetDD
  <2>1. /\ nic_pc = "dd" /\ nic_pc' = "tail"
        /\ \A i \in RxSlots : rxDesc'[i].status =
              IF i = rx_tail THEN 1 ELSE rxDesc[i].status
    BY <1>3, LateTypes DEF SetDD
  <2>2. /\ L \in Nat \ {0} /\ Filled = L - 1 /\ Filled' = L
        /\ rx_tail = SlotOf(L) /\ rx_tail \in RxSlots /\ ~Unread(rx_tail)
        /\ RX_RING_SIZE \in Nat \ {0}
    BY <1>1, <2>1, LateFilling, LateTypes DEF LateInv, Filled
  <2>3. \A i \in RxSlots : i # rx_tail => (Unread(i)' <=> Unread(i))
    BY <1>1, <2>1 DEF Unread
  <2>4. \A n \in 1 .. L : /\ Unread(SlotOf(n))' <=> \E i \in RxSlots : i = SlotOf(n) /\ Unread(i)'
                          /\ Unread(SlotOf(n)) <=> \E i \in RxSlots : i = SlotOf(n) /\ Unread(i)
    <3>1. \A n \in 1 .. L : SlotOf(n) \in RxSlots
      BY LateTypes
    <3>. QED
      BY <3>1 DEF Unread, SlotOf
  <2>5. ASSUME NEW n \in 1 .. L - 1
        PROVE  n \in LateInbox' <=> n \in LateInbox
    <3>1. n \in 1 .. L /\ n \in 1 .. Filled /\ n \in Nat
      BY <2>2
    <3>2. CASE n + RX_RING_SIZE > L
      <4>1. SlotOf(n) # rx_tail
        BY <2>1, <2>2, <3>1, <3>2, LateFilling DEF LateInv, Newest
      <4>2. Unread(SlotOf(n))' <=> Unread(SlotOf(n))
        BY <2>3, <2>4, <3>1, <4>1
      <4>. QED
        BY <1>1, <2>2, <3>1, <3>2, <4>2 DEF LateInbox
    <3>3. CASE n + RX_RING_SIZE = L
      <4>1. SlotOf(n) = rx_tail
        BY <2>1, <3>1, <3>3, LateFilling DEF LateInv
      <4>. QED
        BY <1>1, <2>2, <3>1, <3>3, <4>1 DEF LateInbox
    <3>4. CASE n + RX_RING_SIZE < L
      BY <1>1, <2>2, <3>1, <3>4 DEF LateInbox
    <3>. QED
      BY <2>2, <3>1, <3>2, <3>3, <3>4
  <2>6. L \in LateInbox
    BY <2>2 DEF LateInbox
  <2>7. L \in LateInbox' <=> Unread(rx_tail)'
    <3>1. L \in 1 .. L
      BY <2>2
    <3>2. Unread(SlotOf(L))' <=> Unread(rx_tail)'
      BY <1>3, <2>2 DEF SetDD, Unread, SlotOf
    <3>. QED
      BY <1>1, <2>2, <3>1, <3>2 DEF LateInbox
  <2>8. LateInbox \subseteq 1 .. L /\ LateInbox' \subseteq 1 .. L
    BY <1>1 DEF LateInbox
  <2>9. \A n \in 1 .. L : n \in 1 .. L - 1 \/ n = L
    BY <2>2
  <2>10. L \notin 1 .. L - 1
    BY <2>2
  <2>11. Orders' = Orders /\ (pc \in LoopPCs)' = (pc \in LoopPCs)
    <3>1. best_bid_price \in Nat
      BY RingAssumption DEF TypeOK, KernelTypeOK, Word
    <3>. QED
      BY <1>1, <3>1, StepOrders, OrdersSeq DEF NewOrder
  <2>. HIDE DEF L
  <2>12. CASE Unread(rx_tail)'
    <3>1. L \in LateInbox /\ L \in LateInbox'
      BY <2>6, <2>7, <2>12
    <3>2. \A n \in 1 .. L : n \in LateInbox' <=> n \in LateInbox
      BY <2>5, <2>9, <3>1
    <3>3. LateInbox' = LateInbox
      BY <2>8, <3>2
    <3>. QED
      BY <1>1, <2>11, <3>3 DEF LatePromise!vars
  <2>13. CASE ~Unread(rx_tail)'
    <3>1. LateInbox' = LateInbox \ {L}
      BY <2>5, <2>7, <2>8, <2>9, <2>10, <2>13
    <3>2. pc = "rx_clear"
      BY <1>1, <1>3, <2>1, <2>2, <2>13 DEF Unread, SetDD
    <3>3. ~(pc \in LoopPCs)
      BY <3>2 DEF LoopPCs
    <3>. QED
      BY <1>1, <2>6, <2>11, <3>1, <3>3 DEF LatePromise!Lose
  <2>. QED
    BY <2>12, <2>13
<1>. QED
  BY <1>2, <1>3

LEMMA CpuLatePromise ==
    ASSUME TypeOK, TxInv, LateInv, OrdersInv', Cpu
    PROVE  LatePromise!Judge \/ LatePromise!Boot \/ UNCHANGED LatePromise!vars
<1>1. [Next]_vars /\ UNCHANGED <<recvd, nic_pc>> /\ Filled' = Filled
  BY DEF Next, Cpu, nicVars, Filled
<1>2. best_bid_price \in Nat
  BY RingAssumption DEF TypeOK, KernelTypeOK, Word
<1>. USE DEF memVars, rxVars, rxLocals, book
<1>3. CASE /\ LoadPayloadLen \/ Filter \/ Decide
           /\ pc' \in {"advance", "spin"}
           /\ \A i \in RxSlots : Unread(i)' <=> Unread(i) /\ i # rx_head
  <2>1. pc \in {"load", "parse", "decide"}
    BY <1>3 DEF LoadPayloadLen, Filter, Decide
  <2>2. PICK m \in LateInbox :
             /\ m \in 1 .. Filled /\ Newest(m) /\ SlotOf(m) = rx_head
             /\ recvd[m].pkt = rxPkt[rx_head] /\ recvd[m].len >= PKT_MIN_LEN
    BY <2>1, AtLate
  <2>3. LateInbox' = LateInbox \ {m}
    BY <1>1, <1>3, <2>2, TakeLate
  <2>4. (pc \in LoopPCs)' = (pc \in LoopPCs)
    BY <1>3, <2>1 DEF LoopPCs
  <2>. DEFINE d == recvd[m]
  <2>5. Promise!Bid(d)
    <3>1. CASE LoadPayloadLen \/ Filter
      <4>1. UNCHANGED best_bid_price
        BY <3>1 DEF LoadPayloadLen, Filter
      <4>2. ~Promise!IsQuote(d)
        BY <1>3, <2>2, <3>1 DEF LoadPayloadLen, Filter, Promise!IsQuote
      <4>. QED
        BY <1>1, <4>1, <4>2, NoBid
    <3>2. CASE Decide
      <4>1. Promise!IsQuote(d)
        BY <2>2, <3>2 DEF Decide, LateInv, LateHead, Promise!IsQuote
      <4>. QED
        BY <1>1, <2>2, <3>2, <4>1, DecideBid
    <3>. QED
      BY <1>3, <3>1, <3>2
  <2>6. LatePromise!Bid(d)
    BY <2>5, SameBid
  <2>. QED
    BY <1>1, <2>2, <2>3, <2>4, <2>6 DEF LatePromise!Judge
<1>4. CASE \A i \in RxSlots : Unread(i)' <=> Unread(i)
  <2>1. UNCHANGED best_bid_price
    <3>1. CASE ~Decide
      BY <1>1, <3>1, StepBook
    <3>2. CASE Decide
      <4>1. rxDesc[rx_head].status = 0 /\ rx_head \in RxSlots /\ Unread(rx_head)
        BY <3>2, LateTypes DEF Decide, LateInv, LateHead, Reading, Unread
      <4>2. ~Unread(rx_head)'
        BY <3>2, <4>1 DEF Decide, Unread
      <4>3. Unread(rx_head)' <=> \E i \in RxSlots : i = rx_head /\ Unread(i)'
        BY <3>2, <4>1 DEF Decide, Unread
      <4>. QED
        BY <1>4, <4>1, <4>2, <4>3
    <3>. QED
      BY <3>1, <3>2
  <2>2. CASE TxInit
    <3>1. ~(pc \in LoopPCs) /\ (pc \in LoopPCs)'
      BY <2>2 DEF TxInit, LoopPCs
    <3>2. (pc \in LoopPCs)' = TRUE
      BY <3>1
    <3>3. LateInbox' = LateInbox
      BY <1>1, <1>4, LateInboxStays
    <3>4. Orders' = Orders
      BY <1>1, <1>2, <2>1, StepOrders, OrdersSeq DEF NewOrder
    <3>. QED
      BY <1>1, <2>1, <3>1, <3>2, <3>3, <3>4 DEF LatePromise!Boot
  <2>3. CASE ~TxInit
    <3>1. pc' \in LoopPCs <=> pc \in LoopPCs
      BY <2>3 DEF Cpu, KernelStep, RxClear, RxFill, RxRegs, ReclaimTx, CheckDD,
                  ReadLength, ClearDD, LoadPayloadLen, Filter, Decide, SpinTx, TxSlotFree,
                  BuildOrder, RingDoorbell, AdvanceRx, NextSlot, LoopPCs
    <3>. QED
      BY <1>1, <1>4, <2>1, <3>1, LateQuiet
  <2>. QED
    BY <2>2, <2>3
<1>. QED
  BY <1>3, <1>4, CpuUnread

(* Whenever paced traffic of whole messages starts, every step of kernel,   *)
(* plugin and engine is one of LateBid: of the datagrams the boot does not  *)
(* wipe each is judged at most once, by its own bytes, and none of them is  *)
(* lost once the kernel has booted.                                         *)
THEOREM LatePromiseKept == ASSUME Late
                           PROVE  Spec => KeepsLatePromise
<1>1. Init => LatePromise!Init
  <2> SUFFICES ASSUME Init PROVE LatePromise!Init
    OBVIOUS
  <2>1. /\ recvd = <<>> /\ best_bid_price = 0 /\ OrderCount = 0 /\ pc = "rx_clear"
    BY DEF Init, MemInit, NicInit, EngineInit, KernelInit, OrderCount, Rung, Dist, InHand
  <2>2. Orders = <<>>
    BY <2>1 DEF Orders
  <2>3. LateInbox = {}
    BY <2>1 DEF LateInbox
  <2>4. (pc \in LoopPCs) = FALSE
    BY <2>1 DEF LoopPCs
  <2>. QED
    BY <2>1, <2>2, <2>3, <2>4 DEF LatePromise!Init
<1>2. TypeOK /\ TxInv /\ LateInv /\ OrdersInv' /\ [Next]_vars
        => [LatePromise!Next]_(LatePromise!vars)
  <2> SUFFICES ASSUME TypeOK, TxInv, LateInv, OrdersInv', [Next]_vars
      PROVE  LatePromise!Next \/ UNCHANGED LatePromise!vars
    OBVIOUS
  <2>1. CASE Engine \/ UNCHANGED vars
    <3>1. UNCHANGED <<recvd, nic_pc, best_bid_price, rxDesc, pc, k, rx_head>>
      BY <2>1 DEF Engine, TxSend, vars, kernelVars, nicVars, rxVars
    <3>2. Filled' = Filled /\ \A i \in RxSlots : Unread(i)' <=> Unread(i)
      BY <3>1 DEF Filled, Unread
    <3>. QED
      BY <3>1, <3>2, LateQuiet
  <2>. QED
    BY <2>1, ArriveLatePromise, NicLatePromise, CpuLatePromise DEF Next, LatePromise!Next
<1>. QED
  BY TypeCorrect, TxRingOrdered, OrdersCorrect, SlotsKept, <1>1, <1>2, PTL
  DEF Spec, KeepsLatePromise, LatePromise!Safety

(***************************************************************************)
(* Quotes.                                                                  *)
(***************************************************************************)
Orderly == AfterBoot \/ Late

LEMMA InitQuotes == Init => OrdersAreQuotes
  BY DEF Init, MemInit, EngineInit, KernelInit, OrderCount, Rung, Dist, InHand,
         OrdersAreQuotes

(* What the kernel decides on, in either kind of traffic.                   *)
LEMMA RxQuote == TypeOK /\ RxInv /\ pc = "decide" => QuoteRead
  BY AtQuote DEF QuoteRead

LEMMA LateQuote == TypeOK /\ LateInv /\ pc = "decide" => QuoteRead
<1> SUFFICES ASSUME TypeOK, LateInv, pc = "decide"
    PROVE  QuoteRead
  OBVIOUS
<1>1. PICK m \in LateInbox : /\ m \in 1 .. Filled
                             /\ recvd[m].pkt = rxPkt[rx_head]
                             /\ recvd[m].len >= PKT_MIN_LEN
  BY AtLate
<1>2. m \in 1 .. Len(recvd)
  BY <1>1 DEF LateInbox
<1>. QED
  BY <1>1, <1>2 DEF LateInv, LateHead, QuoteRead

(* With paced traffic, that starts after the boot or is of full length, an  *)
(* order has the price and the shares of one datagram that arrived whole.   *)
THEOREM OrdersWereQuoted == ASSUME Orderly
                            PROVE  Spec => []OrdersAreQuotes
<1>1. TypeOK /\ TxInv /\ (pc = "decide" => QuoteRead) /\ OrdersAreQuotes /\ [Next]_vars
        => OrdersAreQuotes'
  BY NextQuotes
<1>2. CASE AfterBoot
  BY <1>2, TypeCorrect, TxRingOrdered, RxRingOrdered, InitQuotes, RxQuote, <1>1, PTL
  DEF Spec
<1>3. CASE Late
  BY <1>3, TypeCorrect, TxRingOrdered, SlotsKept, InitQuotes, LateQuote, <1>1, PTL
  DEF Spec
<1>. QED
  BY <1>2, <1>3 DEF Orderly

(***************************************************************************)
(* Room.  Going round the ring from the slot the plugin fills next: if a    *)
(* slot before the kernel's is unread, then so is every slot from the       *)
(* kernel's on.  A packet that the kernel has not come to, and the plugin   *)
(* is about to come to, thus has a full ring ahead of it.                   *)
(***************************************************************************)
Onward(i) == IF i + 1 = RX_RING_SIZE THEN 0 ELSE i + 1

From(a, i) == IF i >= a THEN i - a ELSE i - a + RX_RING_SIZE

NextFill == IF nic_pc = "tail" THEN Onward(rx_tail) ELSE rx_tail

NextPoll == IF InHand \/ pc = "advance" THEN Onward(rx_head) ELSE rx_head

Before(i) == From(NextFill, i) < From(NextFill, NextPoll)

RoomInv ==
    /\ pc = "rx_clear" => rx_head = 0
    /\ \A i, l \in RxSlots : Unread(i) /\ Before(i) /\ ~Before(l) => Unread(l)

LEMMA OnwardIs == ASSUME NEW i \in RxSlots
                  PROVE  /\ (i + 1) % RX_RING_SIZE = Onward(i)
                         /\ Onward(i) \in RxSlots
<1>1. RX_RING_SIZE \in Nat \ {0} /\ RxSlots = 0 .. RX_RING_SIZE - 1
  BY RingAssumption DEF RxSlots
<1>2. CASE i + 1 = RX_RING_SIZE
  <2>1. RX_RING_SIZE % RX_RING_SIZE = 0
    BY <1>1
  <2>. QED
    BY <1>1, <1>2, <2>1 DEF Onward
<1>3. CASE i + 1 # RX_RING_SIZE
  <2>1. i + 1 \in 0 .. RX_RING_SIZE - 1
    BY <1>1, <1>3
  <2>2. (i + 1) % RX_RING_SIZE = i + 1
    BY <1>1, <2>1
  <2>. QED
    BY <1>1, <1>3, <2>1, <2>2 DEF Onward
<1>. QED
  BY <1>2, <1>3

LEMMA RoomTypes == ASSUME TypeOK
                   PROVE  /\ RX_RING_SIZE \in Nat \ {0} /\ RxSlots = 0 .. RX_RING_SIZE - 1
                          /\ NextFill \in RxSlots /\ NextPoll \in RxSlots
                          /\ rx_head \in RxSlots /\ rx_tail \in RxSlots
  BY LateTypes, OnwardIs DEF RxSlots, NextFill, NextPoll

(* What changes neither what is unread nor where the two are.               *)
LEMMA RoomKept ==
    ASSUME TypeOK, RoomInv, NextFill' = NextFill, NextPoll' = NextPoll,
           pc' = "rx_clear" => pc = "rx_clear" /\ rx_head' = rx_head,
           \A i \in RxSlots : Unread(i)' <=> Unread(i)
    PROVE  RoomInv'
<1>1. \A i \in RxSlots : Before(i)' <=> Before(i)
  BY DEF Before, From
<1>2. ASSUME NEW i \in RxSlots, NEW l \in RxSlots, Unread(i)', Before(i)', ~Before(l)'
      PROVE  Unread(l)'
  BY <1>1, <1>2 DEF RoomInv
<1>3. (pc = "rx_clear" => rx_head = 0)'
  BY DEF RoomInv
<1>. QED
  BY <1>2, <1>3 DEF RoomInv

(* The plugin fills its slot and goes on to the next.                       *)
LEMMA RoomOnFill ==
    ASSUME TypeOK, RoomInv, SetDD, UNCHANGED <<pc, k, rx_head>>
    PROVE  RoomInv'
<1>. DEFINE t == rx_tail
            e == NextPoll
            N == RX_RING_SIZE
<1>1. /\ N \in Nat \ {0} /\ RxSlots = 0 .. N - 1 /\ t \in RxSlots /\ e \in RxSlots
      /\ k \in RxSlots /\ NextFill = t
  BY RoomTypes, LateTypes DEF SetDD, NextFill
<1>2. NextFill' = Onward(t) /\ NextPoll' = e
  BY DEF SetDD, NextFill, NextPoll, InHand
<1>3. \A i \in RxSlots : rxDesc'[i].status = IF i = t THEN 1 ELSE rxDesc[i].status
  BY LateTypes DEF SetDD
<1>4. \A i \in RxSlots : i # t => (Unread(i)' <=> Unread(i))
  BY <1>3 DEF Unread
<1>5. \A i \in RxSlots : i = t => Unread(i)' \/ (pc = "rx_clear" /\ k <= t)
  BY <1>1, <1>3 DEF Unread
<1>6. pc = "rx_clear" => e = 0 /\ \A i \in RxSlots : k <= i => ~Unread(i)
  BY DEF RoomInv, NextPoll, InHand, Unread
<1>7. \A i, l \in RxSlots : /\ Unread(i)
                            /\ From(t, i) < From(t, e) /\ ~(From(t, l) < From(t, e))
                            => Unread(l)
  BY <1>1 DEF RoomInv, Before
<1>8. ASSUME NEW i \in RxSlots, NEW l \in RxSlots, Unread(i)',
             From(Onward(t), i) < From(Onward(t), e),
             ~(From(Onward(t), l) < From(Onward(t), e))
      PROVE  Unread(l)'
  <2>. HIDE DEF t, e, N
  <2>1. i # t
    BY <1>1, <1>8 DEF From, Onward, N
  <2>2. Unread(i)
    BY <1>4, <1>8, <2>1
  <2>3. CASE l = t
    <3>1. CASE pc = "rx_clear" /\ k <= t
      <4>1. e = 0 /\ i < k
        BY <1>1, <1>6, <2>2, <3>1 DEF N
      <4>2. FALSE
        BY <1>1, <1>8, <2>3, <3>1, <4>1 DEF From, Onward, N
      <4>. QED
        BY <4>2
    <3>. QED
      BY <1>5, <2>3, <3>1
  <2>4. CASE l # t
    <3>1. From(t, i) < From(t, e) /\ ~(From(t, l) < From(t, e))
      BY <1>1, <1>8, <2>1, <2>4 DEF From, Onward, N
    <3>2. Unread(l)
      BY <1>7, <2>2, <3>1
    <3>. QED
      BY <1>4, <2>4, <3>2
  <2>. QED
    BY <2>3, <2>4
<1>9. \A i \in RxSlots : Before(i)' <=> From(Onward(t), i) < From(Onward(t), e)
  BY <1>2 DEF Before, From
<1>10. (pc = "rx_clear" => rx_head = 0)'
  BY DEF RoomInv
<1>. HIDE DEF t, e, N
<1>11. \A i, l \in RxSlots : Unread(i)' /\ Before(i)' /\ ~Before(l)' => Unread(l)'
  BY <1>8, <1>9
<1>. QED
  BY <1>10, <1>11 DEF RoomInv

(* The kernel takes the packet at its slot and is as good as past it.       *)
LEMMA RoomOnTake ==
    ASSUME TypeOK, RoomInv, UNCHANGED <<nic_pc, rx_tail, rx_head>>,
           pc \in {"load", "parse", "decide"}, pc' \in {"advance", "spin"},
           \A i \in RxSlots : Unread(i)' <=> Unread(i) /\ i # rx_head
    PROVE  RoomInv'
<1>. DEFINE t == NextFill
            h == rx_head
            N == RX_RING_SIZE
<1>1. /\ N \in Nat \ {0} /\ RxSlots = 0 .. N - 1 /\ t \in RxSlots /\ h \in RxSlots
  BY RoomTypes
<1>2. NextFill' = t /\ NextPoll = h /\ NextPoll' = Onward(h)
  BY DEF NextFill, NextPoll, InHand
<1>3. \A i, l \in RxSlots : /\ Unread(i)
                            /\ From(t, i) < From(t, h) /\ ~(From(t, l) < From(t, h))
                            => Unread(l)
  BY <1>2 DEF RoomInv, Before
<1>4. ASSUME NEW i \in RxSlots, NEW l \in RxSlots, Unread(i)',
             From(t, i) < From(t, Onward(h)), ~(From(t, l) < From(t, Onward(h)))
      PROVE  Unread(l)'
  <2>1. Unread(i) /\ i # h
    BY <1>4
  <2>. HIDE DEF t, h, N
  <2>2. From(t, i) < From(t, h) /\ ~(From(t, l) < From(t, h)) /\ l # h
    BY <1>1, <1>4, <2>1 DEF From, Onward, N
  <2>3. Unread(l)
    BY <1>3, <2>1, <2>2
  <2>. QED
    BY <2>2, <2>3 DEF h
<1>5. \A i \in RxSlots : Before(i)' <=> From(t, i) < From(t, Onward(h))
  BY <1>2 DEF Before, From
<1>6. (pc = "rx_clear" => rx_head = 0)'
  OBVIOUS
<1>. HIDE DEF t, h, N
<1>7. \A i, l \in RxSlots : Unread(i)' /\ Before(i)' /\ ~Before(l)' => Unread(l)'
  BY <1>4, <1>5
<1>. QED
  BY <1>6, <1>7 DEF RoomInv

LEMMA NicRoom == ASSUME TypeOK, RoomInv, Nic
                 PROVE  RoomInv'
<1>1. UNCHANGED <<pc, k, rx_head>>
  BY DEF Nic, kernelVars
<1>2. CASE SetDD
  BY <1>1, <1>2, RoomOnFill
<1>3. CASE ~SetDD
  <2>1. \A i \in RxSlots : rxDesc'[i].status = rxDesc[i].status
    BY <1>3, LateTypes DEF Nic, NicStep, DmaLength, DmaFront, DmaBack, BumpTail
  <2>2. \A i \in RxSlots : Unread(i)' <=> Unread(i)
    BY <1>1, <2>1 DEF Unread
  <2>3. NextPoll' = NextPoll
    BY <1>1 DEF NextPoll, InHand
  <2>4. NextFill' = NextFill
    <3>1. CASE BumpTail
      BY <3>1, LateTypes, OnwardIs DEF BumpTail, NextFill
    <3>2. CASE ~BumpTail
      BY <1>3, <3>2 DEF Nic, NicStep, DmaLength, DmaFront, DmaBack, NextFill
    <3>. QED
      BY <3>1, <3>2
  <2>. QED
    BY <1>1, <2>2, <2>3, <2>4, RoomKept
<1>. QED
  BY <1>2, <1>3

LEMMA CpuRoom == ASSUME TypeOK, LateInv, RoomInv, Cpu
                 PROVE  RoomInv'
<1>. USE DEF memVars, rxVars, rxLocals
<1>1. UNCHANGED <<nic_pc, rx_tail>> /\ NextFill' = NextFill
  BY DEF Cpu, nicVars, NextFill
<1>2. CASE /\ LoadPayloadLen \/ Filter \/ Decide
           /\ pc' \in {"advance", "spin"}
           /\ \A i \in RxSlots : Unread(i)' <=> Unread(i) /\ i # rx_head
  <2>1. pc \in {"load", "parse", "decide"} /\ rx_head' = rx_head
    BY <1>2 DEF LoadPayloadLen, Filter, Decide
  <2>. QED
    BY <1>1, <1>2, <2>1, RoomOnTake
<1>3. CASE \A i \in RxSlots : Unread(i)' <=> Unread(i)
  <2>1. pc' = "rx_clear" => pc = "rx_clear" /\ rx_head' = rx_head
    BY DEF Cpu, KernelStep, RxClear, RxFill, RxRegs, TxInit, ReclaimTx, CheckDD,
           ReadLength, ClearDD, LoadPayloadLen, Filter, Decide, SpinTx, TxSlotFree,
           BuildOrder, RingDoorbell, AdvanceRx, NextSlot
  <2>2. NextPoll' = NextPoll
    <3>1. CASE LoadPayloadLen \/ Filter \/ Decide
      <4>1. /\ rxDesc[rx_head].status = 0 /\ rx_head \in RxSlots
            /\ Unread(rx_head) /\ rx_head' = rx_head /\ rxDesc' = rxDesc
            /\ pc \in {"load", "parse", "decide"}
        BY <3>1, LateTypes
        DEF LoadPayloadLen, Filter, Decide, LateInv, LateHead, Reading, Unread
      <4>2. pc' \in {"parse", "decide", "advance", "spin"}
        BY <3>1 DEF LoadPayloadLen, Filter, Decide
      <4>3. \A i \in RxSlots : i = rx_head /\ pc' \in {"advance", "spin"} => ~Unread(i)'
        BY <4>1 DEF Unread
      <4>4. \A i \in RxSlots : i = rx_head => Unread(i)
        BY <4>1
      <4>5. pc' \in {"parse", "decide"}
        BY <1>3, <4>1, <4>2, <4>3, <4>4
      <4>. QED
        BY <4>1, <4>5 DEF NextPoll, InHand
    <3>2. CASE ClearDD
      <4>1. plen \in PKT_MIN_LEN .. PKT_BUF_SIZE
        <5>1. pc = "clear"
          BY <3>2 DEF ClearDD
        <5>2. plen >= PKT_MIN_LEN
          BY <5>1, Zenon DEF LateInv, LateLength
        <5>3. plen \in 0 .. PKT_BUF_SIZE
          BY Zenon DEF TypeOK, KernelTypeOK
        <5>. QED
          BY <5>2, <5>3 DEF PKT_MIN_LEN, PKT_BUF_SIZE
      <4>. QED
        BY <3>2, <4>1 DEF ClearDD, NextPoll, InHand
    <3>3. CASE AdvanceRx
      BY <3>3, LateTypes, OnwardIs DEF AdvanceRx, NextPoll, InHand
    <3>4. CASE RxClear \/ RxFill \/ RxRegs \/ TxInit \/ ReclaimTx \/ CheckDD \/ ReadLength
      BY <3>4 DEF RxClear, RxFill, RxRegs, TxInit, ReclaimTx, CheckDD, ReadLength,
                  NextSlot, NextPoll, InHand
    <3>5. CASE SpinTx \/ TxSlotFree \/ BuildOrder \/ RingDoorbell
      BY <3>5 DEF SpinTx, TxSlotFree, BuildOrder, RingDoorbell, NextPoll, InHand
    <3>. QED
      BY <3>1, <3>2, <3>3, <3>4, <3>5 DEF Cpu, KernelStep
  <2>. QED
    BY <1>1, <1>3, <2>1, <2>2, RoomKept
<1>. QED
  BY <1>2, <1>3, CpuUnread

LEMMA NextRoom == TypeOK /\ LateInv /\ RoomInv /\ [Next]_vars => RoomInv'
<1> SUFFICES ASSUME TypeOK, LateInv, RoomInv, [Next]_vars
    PROVE  RoomInv'
  OBVIOUS
<1>1. CASE Arrive \/ Engine \/ UNCHANGED vars
  <2>1. /\ UNCHANGED <<rxDesc, rx_tail, pc, k, rx_head>>
        /\ nic_pc' = "tail" <=> nic_pc = "tail"
    BY <1>1 DEF Arrive, Recv, Engine, TxSend, vars, kernelVars, nicVars, rxVars, memVars
  <2>2. /\ NextFill' = NextFill /\ NextPoll' = NextPoll
        /\ \A i \in RxSlots : Unread(i)' <=> Unread(i)
    BY <2>1 DEF NextFill, NextPoll, InHand, Unread
  <2>. QED
    BY <2>1, <2>2, RoomKept
<1>. QED
  BY <1>1, NicRoom, CpuRoom DEF Next

LEMMA InitRoom == Init => RoomInv
<1> SUFFICES ASSUME Init PROVE RoomInv
  OBVIOUS
<1>1. pc = "rx_clear" /\ rx_head = 0 /\ k = 0
  BY DEF Init, KernelInit
<1>2. \A i \in RxSlots : ~Unread(i)
  BY <1>1, RingAssumption DEF Unread, RxSlots
<1>. QED
  BY <1>1, <1>2 DEF RoomInv

(* Whenever paced traffic of whole messages starts: if the kernel finds     *)
(* nothing at its slot, the slot the plugin fills next holds no packet that *)
(* waits, even where the boot has set the two apart for good.  Traffic that *)
(* comes only then never overwrites a packet.                               *)
THEOREM RoomWhenKernelIsIdle == ASSUME Late
                                PROVE  Spec => []RoomWhenIdle
<1>1. TypeOK /\ RoomInv => RoomWhenIdle
  <2> SUFFICES ASSUME TypeOK, RoomInv, nic_pc = "recv", pc \in {"poll", "check"},
                      rxDesc[rx_head].status = 0
      PROVE  ~Unread(rx_tail)
    BY DEF RoomWhenIdle
  <2>1. /\ NextFill = rx_tail /\ NextPoll = rx_head
        /\ rx_head \in RxSlots /\ rx_tail \in RxSlots
        /\ RX_RING_SIZE \in Nat \ {0} /\ RxSlots = 0 .. RX_RING_SIZE - 1
    BY RoomTypes DEF NextFill, NextPoll, InHand
  <2>2. ~Unread(rx_head)
    BY DEF Unread
  <2>3. ~Before(rx_head) /\ (rx_tail # rx_head => Before(rx_tail))
    BY <2>1 DEF Before, From
  <2>. QED
    BY <2>1, <2>2, <2>3 DEF RoomInv
<1>. QED
  BY TypeCorrect, SlotsKept, InitRoom, NextRoom, <1>1, PTL DEF Spec
=============================================================================
