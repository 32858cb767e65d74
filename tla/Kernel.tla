------------------------------- MODULE Kernel -------------------------------
(***************************************************************************)
(* The bare-metal kernel (src/src/kernel.c): the two ring initialisations   *)
(* and the poll loop with everything it calls.  It is one thread that never *)
(* yields, so its state is a program counter and the file's static          *)
(* variables; a step ends wherever the NIC can tell: at each access to a    *)
(* descriptor, a packet buffer or a register.  The NIC's registers are at   *)
(* the address the plugin uses, the pci_enumerate fallback.                 *)
(***************************************************************************)
EXTENDS TxEngine

VARIABLES
    pc,                \* the next statement of the kernel
    k,                 \* loop index of init_rx_ring
    rx_head,           \* the slot poll_rx_loop looks at
    plen,              \* length read from the descriptor
    tx_idx,            \* the next TX slot to fill
    tx_head,           \* the first TX slot not known to be sent
    next_order_id,
    best_bid_price,
    best_bid_shares,
    order_id,          \* argument of the send_ouch call in progress
    handled            \* history: packets taken off the RX ring

rxLocals  == <<rx_head, plen, handled>>
book      == <<next_order_id, best_bid_price, best_bid_shares, order_id>>
txLocals  == <<tx_idx, tx_head>>
kernelVars == <<pc, k, rx_head, plen, tx_idx, tx_head, next_order_id,
                best_bid_price, best_bid_shares, order_id, handled>>

InitPCs == {"rx_clear", "rx_fill", "rx_regs", "tx_init"}
LoopPCs == {"poll", "check", "length", "clear", "load", "parse", "decide",
            "spin", "build", "doorbell", "advance"}

KernelTypeOK ==
    /\ pc \in InitPCs \cup LoopPCs
    /\ k \in RxSlots
    /\ rx_head \in RxSlots
    /\ plen \in 0 .. PKT_BUF_SIZE
    /\ tx_idx \in TxSlots
    /\ tx_head \in TxSlots
    /\ next_order_id \in Word
    /\ best_bid_price \in Word
    /\ best_bid_shares \in Word
    /\ order_id \in Word
    /\ handled \in Nat

KernelInit ==
    /\ pc = "rx_clear"
    /\ k = 0
    /\ rx_head = 0 /\ plen = 0
    /\ tx_idx = 0 /\ tx_head = 0
    /\ next_order_id = 1 /\ order_id = 0
    /\ best_bid_price = 0 /\ best_bid_shares = 0
    /\ handled = 0

(***************************************************************************)
(* init_rx_ring and init_tx_ring.  The loops over the RX ring are a step    *)
(* per descriptor, because the plugin may already be at work on the ring.   *)
(***************************************************************************)
NextSlot(done) == IF k + 1 = RX_RING_SIZE
                    THEN k' = 0 /\ pc' = done
                    ELSE k' = k + 1 /\ UNCHANGED pc

RxClear ==
    /\ pc = "rx_clear"
    /\ rxDesc' = [rxDesc EXCEPT ![k] = [length |-> 0, status |-> 0]]
    /\ NextSlot("rx_fill")
    /\ UNCHANGED <<rxPkt, rxHeadReg, rxTailReg, txVars, ctrl, engineVars,
                   rxLocals, txLocals, book>>

RxFill ==
    /\ pc = "rx_fill"
    /\ rxDesc' = [rxDesc EXCEPT ![k].length = PKT_BUF_SIZE]
    /\ NextSlot("rx_regs")
    /\ UNCHANGED <<rxPkt, rxHeadReg, rxTailReg, txVars, ctrl, engineVars,
                   rxLocals, txLocals, book>>

RxRegs ==
    /\ pc = "rx_regs"
    /\ rxHeadReg' = 0
    /\ rxTailReg' = 0
    /\ ctrl' = ctrl \cup {"RX_EN"}
    /\ pc' = "tx_init"
    /\ UNCHANGED <<k, rxDesc, rxPkt, txVars, engineVars, rxLocals, txLocals,
                   book>>

(* Mutant: the enable bit is not set.                                       *)
TxInitDisabled ==
    /\ pc = "tx_init"
    /\ txHeadReg' = 0 /\ txTailReg' = 0
    /\ OnDoorbell(0)
    /\ pc' = "poll"
    /\ UNCHANGED <<k, rxVars, txPkt, ctrl, wire, rxLocals, txLocals, book>>

TxInit ==
    /\ pc = "tx_init"
    /\ txHeadReg' = 0
    /\ txTailReg' = 0
    /\ OnDoorbell(0)
    /\ ctrl' = ctrl \cup {"TX_EN"}
    /\ pc' = "poll"
    /\ UNCHANGED <<k, rxVars, txPkt, wire, rxLocals, txLocals, book>>

(***************************************************************************)
(* poll_rx_loop.                                                            *)
(***************************************************************************)

(* reclaim_tx walks tx_head forward, modulo the ring, until it meets HEAD.  *)
Reclaim == tx_head' = txHeadReg

ReclaimTx ==
    /\ pc = "poll"
    /\ Reclaim
    /\ pc' = "check"
    /\ UNCHANGED <<k, memVars, engineVars, rxLocals, tx_idx, book>>

CheckDD ==
    /\ pc = "check"
    /\ pc' = IF rxDesc[rx_head].status = 1 THEN "length" ELSE "poll"
    /\ UNCHANGED <<k, memVars, engineVars, rxLocals, txLocals, book>>

ReadLength ==
    /\ pc = "length"
    /\ plen' = rxDesc[rx_head].length
    /\ pc' = "clear"
    /\ UNCHANGED <<k, memVars, engineVars, rx_head, handled, txLocals, book>>

(* Mutant: the DD bit is left set.                                          *)
KeepDD ==
    /\ pc = "clear"
    /\ pc' = IF plen \in PKT_MIN_LEN .. PKT_BUF_SIZE THEN "load" ELSE "advance"
    /\ UNCHANGED <<k, memVars, engineVars, rxLocals, txLocals, book>>

(* DD is cleared before the packet is read; then the two length checks.     *)
ClearDD ==
    /\ pc = "clear"
    /\ rxDesc' = [rxDesc EXCEPT ![rx_head].status = 0]
    /\ pc' = IF plen \in PKT_MIN_LEN .. PKT_BUF_SIZE THEN "load" ELSE "advance"
    /\ UNCHANGED <<k, rxPkt, rxHeadReg, rxTailReg, txVars, ctrl, engineVars,
                   rxLocals, txLocals, book>>

LoadPayloadLen ==
    /\ pc = "load"
    /\ pc' = IF rxPkt[rx_head].payload_len = ITCH_PAYLOAD_LEN
               THEN "parse" ELSE "advance"
    /\ UNCHANGED <<k, memVars, engineVars, rxLocals, txLocals, book>>

(* The fields of the message are read one after the other; the filter's     *)
(* two are a step and the order's two are another.                          *)
Filter ==
    /\ pc = "parse"
    /\ pc' = IF /\ rxPkt[rx_head].msg_type = "A"
               /\ rxPkt[rx_head].stock_locate = AAPL_LOCATE
               THEN "decide" ELSE "advance"
    /\ UNCHANGED <<k, memVars, engineVars, rxLocals, txLocals, book>>

(* Mutant: a price equal to the best bid counts as an improvement.          *)
ImprovesOrEquals(p) == p.price >= best_bid_price

Improves(p) == p.price > best_bid_price

Decide ==
    /\ pc = "decide"
    /\ IF Improves(rxPkt[rx_head])
         THEN /\ best_bid_price' = rxPkt[rx_head].price
              /\ best_bid_shares' = rxPkt[rx_head].shares
              /\ order_id' = next_order_id
              /\ next_order_id' = (next_order_id + 1) % U32
              /\ pc' = "spin"
         ELSE pc' = "advance" /\ UNCHANGED book
    /\ UNCHANGED <<k, memVars, engineVars, rxLocals, txLocals>>

(***************************************************************************)
(* send_ouch.                                                               *)
(***************************************************************************)
NextTx == (tx_idx + 1) % TX_RING_SIZE

(* Mutant: the spin does not look at HEAD again.                            *)
SpinBlindly ==
    /\ pc = "spin"
    /\ NextTx = tx_head
    /\ UNCHANGED <<pc, k, memVars, engineVars, rxLocals, txLocals, book>>

SpinTx ==
    /\ pc = "spin"
    /\ NextTx = tx_head
    /\ Reclaim
    /\ UNCHANGED <<pc, k, memVars, engineVars, rxLocals, tx_idx, book>>

(* Mutant: send_ouch does not wait for a free slot.                         *)
TakeAnySlot ==
    /\ pc = "spin"
    /\ pc' = "build"
    /\ UNCHANGED <<k, memVars, engineVars, rxLocals, txLocals, book>>

TxSlotFree ==
    /\ pc = "spin"
    /\ NextTx # tx_head
    /\ pc' = "build"
    /\ UNCHANGED <<k, memVars, engineVars, rxLocals, txLocals, book>>

(* Mutant: price and shares are swapped in the order.                       *)
BuildSwapped ==
    /\ pc = "build"
    /\ txPkt' = [txPkt EXCEPT ![tx_idx] =
                   [order_id |-> order_id, price |-> best_bid_shares,
                    shares |-> best_bid_price]]
    /\ pc' = "doorbell"
    /\ UNCHANGED <<k, rxVars, txHeadReg, txTailReg, ctrl, engineVars, rxLocals,
                   txLocals, book>>

BuildOrder ==
    /\ pc = "build"
    /\ txPkt' = [txPkt EXCEPT ![tx_idx] =
                   [order_id |-> order_id, price |-> best_bid_price,
                    shares |-> best_bid_shares]]
    /\ pc' = "doorbell"
    /\ UNCHANGED <<k, rxVars, txHeadReg, txTailReg, ctrl, engineVars, rxLocals,
                   txLocals, book>>

(* The doorbell carries the slot just filled; tx_idx moves on after it.     *)
RingDoorbell ==
    /\ pc = "doorbell"
    /\ txTailReg' = tx_idx
    /\ OnDoorbell(tx_idx)
    /\ tx_idx' = NextTx
    /\ pc' = "advance"
    /\ UNCHANGED <<k, rxVars, txPkt, txHeadReg, ctrl, wire, rxLocals, tx_head,
                   book>>

(* Mutant: rx_head does not wrap.                                           *)
AdvanceUnwrapped ==
    /\ pc = "advance"
    /\ rx_head' = rx_head + 1
    /\ handled' = handled + 1
    /\ pc' = "poll"
    /\ UNCHANGED <<k, memVars, engineVars, plen, txLocals, book>>

(* Mutant: rx_head stays on the slot.                                       *)
AdvanceNothing ==
    /\ pc = "advance"
    /\ handled' = handled + 1
    /\ pc' = "poll"
    /\ UNCHANGED <<rx_head, k, memVars, engineVars, plen, txLocals, book>>

AdvanceRx ==
    /\ pc = "advance"
    /\ rx_head' = (rx_head + 1) % RX_RING_SIZE
    /\ handled' = handled + 1
    /\ pc' = "poll"
    /\ UNCHANGED <<k, memVars, engineVars, plen, txLocals, book>>

KernelStep ==
    \/ RxClear \/ RxFill \/ RxRegs \/ TxInit
    \/ ReclaimTx \/ CheckDD \/ ReadLength \/ ClearDD
    \/ LoadPayloadLen \/ Filter \/ Decide
    \/ SpinTx \/ TxSlotFree \/ BuildOrder \/ RingDoorbell
    \/ AdvanceRx
=============================================================================
