-------------------------------- MODULE HftOs --------------------------------
(***************************************************************************)
(* The running system: the kernel on the virtual CPU, the NIC plugin on     *)
(* QEMU's main-loop thread, the device's transmit half, and the generator   *)
(* that sends the datagrams, over the memory of MemMap.                     *)
(***************************************************************************)
EXTENDS HwNicSim, Kernel, FiniteSets

CONSTANTS
    Paced,          \* the generator leaves the system time to drain its ring
    EarlyTraffic    \* datagrams may arrive before the kernel has booted

ASSUME TrafficAssumption == Paced \in BOOLEAN /\ EarlyTraffic \in BOOLEAN

vars == <<rxDesc, rxPkt, rxHeadReg, rxTailReg, txPkt, txHeadReg, txTailReg,
          ctrl, nic_pc, rx_tail, packet_buffer, recvd, txLimit, wire, pc, k,
          rx_head, plen, tx_idx, tx_head, next_order_id, best_bid_price,
          best_bid_shares, order_id, handled>>

TypeOK == MemTypeOK /\ NicTypeOK /\ EngineTypeOK /\ KernelTypeOK

Init == MemInit /\ NicInit /\ EngineInit /\ KernelInit

(* The kernel wipes every DD bit as it boots, so a slot it has yet to come  *)
(* to holds nothing it will ever read.                                      *)
Unread(i) == \/ rxDesc[i].status = 1 /\ ~(pc = "rx_clear" /\ k <= i)
             \/ rx_head = i /\ pc \in {"load", "parse", "decide"}

(* Orders, and the datagrams they are for: send_ouch is at work.            *)
InHand == pc \in {"spin", "build", "doorbell"}

(***************************************************************************)
(* The generator.  Its warm-up leaves a "100ms gap for system to process    *)
(* each packet fully"; Paced is a weaker form of that: no datagram comes    *)
(* while the slot it goes to holds a packet the kernel has not stepped      *)
(* over.  A packet that the boot has wiped holds nothing up.  The           *)
(* generator's timed phase has no such gap.                                 *)
(***************************************************************************)
Occupied(i) == Unread(i) \/ (rx_head = i /\ (InHand \/ pc = "advance"))

MayArrive == /\ Paced => ~Occupied(rx_tail)
             /\ EarlyTraffic \/ pc \in LoopPCs

Arrive == /\ MayArrive
          /\ \E d \in Datagrams : Recv(d)
          /\ UNCHANGED <<kernelVars, engineVars>>

Nic    == NicStep /\ UNCHANGED <<kernelVars, engineVars>>
Cpu    == KernelStep /\ UNCHANGED nicVars
Engine == TxSend /\ UNCHANGED <<kernelVars, nicVars>>

Next == Arrive \/ Nic \/ Cpu \/ Engine

(* Both threads run for ever and a present engine does not stop; nothing    *)
(* makes the generator send.                                                *)
Fairness == WF_vars(Nic) /\ WF_vars(Cpu) /\ WF_vars(Engine)

Spec == Init /\ [][Next]_vars /\ Fairness

(***************************************************************************)
(* Orders, wherever they are: on the wire, in the TX ring between HEAD and  *)
(* tx_idx, or in send_ouch's hands.                                         *)
(***************************************************************************)

(* Steps forward from slot a to slot b of the TX ring.                      *)
Dist(a, b) == IF b >= a THEN b - a ELSE b - a + TX_RING_SIZE

Rung == Len(wire) + Dist(txHeadReg, tx_idx)

OrderCount == Rung + (IF InHand THEN 1 ELSE 0)

(* The order send_ouch was called with.                                     *)
OrderInHand == [order_id |-> order_id, price |-> best_bid_price,
                shares |-> best_bid_shares]

(* The slot j steps after HEAD.                                             *)
SlotAt(j) == (txHeadReg + j) % TX_RING_SIZE

OrderAt(n) == IF n <= Len(wire) THEN wire[n]
              ELSE IF n <= Rung THEN txPkt[SlotAt(n - Len(wire) - 1)]
              ELSE OrderInHand

Orders == [n \in 1 .. OrderCount |-> OrderAt(n)]

(***************************************************************************)
(* Datagrams the kernel has judged: those it has taken off the ring, and    *)
(* the one it has decided on but not yet stepped over.                      *)
(***************************************************************************)
Judged == handled + (IF InHand \/ pc = "advance" THEN 1 ELSE 0)

Promise == INSTANCE BestBid WITH
    Arrivals   <- {Truncate(d) : d \in Datagrams},
    MinLen     <- PKT_MIN_LEN,
    PayloadLen <- ITCH_PAYLOAD_LEN,
    Symbol     <- AAPL_LOCATE,
    inbox      <- SubSeq(recvd, Judged + 1, Len(recvd)),
    best       <- best_bid_price,
    orders     <- Orders

(* With paced traffic after the boot, the rings, the two threads and the    *)
(* packet copies are invisible: the system takes every datagram once, whole *)
(* and in order, without leaving one out, and places exactly the orders     *)
(* BestBid places.                                                          *)
KeepsPromise == Promise!Safety

(* With paced traffic that starts after boot, every datagram is judged in   *)
(* the end: kernel and plugin never wait for each other at different slots. *)
JudgesAll == Promise!Fairness

(***************************************************************************)
(* Traffic that does not wait for the boot.  Datagram n, counted from one,  *)
(* goes into slot n - 1 of the ring, modulo its size, and Filled of them    *)
(* have had their DD bit set.  A datagram is in the inbox while it is on    *)
(* its way into the ring, and then while its slot, which no later one has   *)
(* been put into, is unread.                                                *)
(***************************************************************************)
SlotOf(n) == (n - 1) % RX_RING_SIZE

Filled == Len(recvd) - (IF nic_pc \in {"length", "front", "back", "dd"} THEN 1 ELSE 0)

LateInbox == {n \in 1 .. Len(recvd) :
                 n > Filled \/ (n + RX_RING_SIZE > Filled /\ Unread(SlotOf(n)))}

LatePromise == INSTANCE LateBid WITH
    Arrivals   <- {Truncate(d) : d \in Datagrams},
    MinLen     <- PKT_MIN_LEN,
    PayloadLen <- ITCH_PAYLOAD_LEN,
    Symbol     <- AAPL_LOCATE,
    arrived    <- recvd,
    inbox      <- LateInbox,
    booted     <- pc \in LoopPCs,
    best       <- best_bid_price,
    orders     <- Orders

(* With paced traffic of full length that may start before the boot, and    *)
(* goes on whatever the boot wipes: no datagram is judged twice, none is    *)
(* judged by the bytes of another, and none is lost after the boot, though  *)
(* kernel and plugin may be at different slots for good and the order of    *)
(* the datagrams is lost.                                                   *)
KeepsLatePromise == LatePromise!Safety

(* In the same traffic: when the kernel finds nothing at its slot, the slot *)
(* the plugin fills next holds no packet that waits.  Traffic that only     *)
(* comes when the kernel is done never overwrites a packet, even where a    *)
(* datagram lost in the boot has set the two apart.                         *)
RoomWhenIdle ==
    /\ nic_pc = "recv"
    /\ pc \in {"poll", "check"} /\ rxDesc[rx_head].status = 0
    => ~Unread(rx_tail)

-----------------------------------------------------------------------------
(* The properties below hold for any traffic, even when packets are         *)
(* overwritten before, or while, the kernel reads them.                     *)

(* Orders leave in the order they were made, each exactly once: a TX slot   *)
(* is never sent twice, skipped, or refilled before it is sent, however     *)
(* late reclaim_tx looks at HEAD.                                           *)
WireInOrder == \A n \in 1 .. Len(wire) : wire[n].order_id = n

(* An order id never exceeds its price: prices are uint32_t and rise with   *)
(* every order, so next_order_id++ cannot wrap into an id already used.     *)
OrderIdBelowPrice == \A n \in 1 .. OrderCount :
                        OrderAt(n).order_id \in 1 .. OrderAt(n).price

(* Every order, from the oldest on the wire to the one being built, bids    *)
(* more than all before it, and the last bids the best price the kernel     *)
(* remembers: the book and what was sent cannot drift apart.                *)
PricesRise ==
    /\ \A m, n \in 1 .. OrderCount : m < n => OrderAt(m).price < OrderAt(n).price
    /\ best_bid_price = IF OrderCount = 0 THEN 0 ELSE OrderAt(OrderCount).price

(* Every order is a quote that some datagram carried whole: its price and   *)
(* shares are never those of two datagrams, half of one, or what an earlier *)
(* packet left in the buffer.  This holds for paced datagrams of full       *)
(* length, before the boot too: one that arrives while the ring is being    *)
(* initialised may be lost or delayed, its descriptor half the kernel's and *)
(* half the plugin's, but is not misread, and neither is any that follows.  *)
OrdersAreQuotes == \A n \in 1 .. OrderCount :
    \E m \in 1 .. Len(recvd) :
        /\ recvd[m].len >= PKT_MIN_LEN
        /\ recvd[m].pkt.msg_type = "A"
        /\ recvd[m].pkt.stock_locate = AAPL_LOCATE
        /\ recvd[m].pkt.price = OrderAt(n).price
        /\ recvd[m].pkt.shares = OrderAt(n).shares

(* Orders are only ever added, one at a time and at the end: no step, of    *)
(* the kernel or of a device, changes or drops an order already made,       *)
(* wherever it is on its way to the wire.                                   *)
OrdersOnlyGrow ==
    [][/\ OrderCount' \in {OrderCount, OrderCount + 1}
       /\ \A n \in 1 .. OrderCount : OrderAt(n)' = OrderAt(n)]_vars

-----------------------------------------------------------------------------
(* Liveness, for paced traffic after boot and an engine whose doorbell      *)
(* includes the slot it names.                                              *)

(* Every order made reaches the wire.  kernel.c:355 puts it as "decision:   *)
(* send immediately"; with an e1000's reading of TAIL, the first descriptor *)
(* that is not ready, it is false: a doorbell rung with the slot just       *)
(* filled leaves that order unsent until another one follows.               *)
OrdersSent == \A n \in 1 .. MaxDatagrams : OrderCount >= n ~> Len(wire) >= n

-----------------------------------------------------------------------------
(* What comments and documents say of the program, each checked by a run    *)
(* of its own and found false.                                              *)

(* README.md:52: "When a packet arrives, it is parsed and handed to the     *)
(* trading decision logic".  A datagram that arrives before the ring is     *)
(* initialised, and after it a burst that laps the ring, leave the plugin's *)
(* tail and rx_head at different slots, and later packets unread between.   *)
ArrivedPacketTaken ==
    \A i \in RxSlots : (pc = "poll" /\ rxDesc[i].status = 1)
                          ~> rxDesc[i].status = 0

(* README.md:56: "Completed TX descriptors are reclaimed asynchronously."   *)
(* With the NIC the repository ships nothing completes a TX descriptor, and *)
(* the spin for a free slot never ends.                                     *)
SpinEnds == pc = "spin" ~> pc # "spin"
=============================================================================
