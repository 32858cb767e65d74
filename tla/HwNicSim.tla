------------------------------ MODULE HwNicSim ------------------------------
(***************************************************************************)
(* The QEMU plugin that plays the NIC (src/qemu-plugin/hw_nic_sim.c).  Its  *)
(* bottom half runs on QEMU's main-loop thread, beside the virtual CPU that *)
(* runs the kernel, from the moment the device is realised: before the      *)
(* guest has booted.  Every address_space_write is a step of its own, and   *)
(* the one that copies the packet is two, so that the kernel can see a      *)
(* packet that is only partly written.                                      *)
(***************************************************************************)
EXTENDS MemMap

CONSTANT MaxDatagrams   \* bound on the datagrams of one behaviour

ASSUME MaxAssumption == MaxDatagrams \in Nat

VARIABLES
    nic_pc,          \* where nic_sim_rx_bh is
    rx_tail,         \* the slot it fills next
    packet_buffer,   \* the datagram it holds, len already cut to the buffer
    recvd            \* history: every datagram recv returned, in order

nicVars == <<nic_pc, rx_tail, packet_buffer, recvd>>

NicTypeOK ==
    /\ nic_pc \in {"recv", "length", "front", "back", "dd", "tail"}
    /\ rx_tail \in RxSlots
    /\ packet_buffer \in [len : 1 .. PKT_BUF_SIZE, pkt : Packet]
    /\ recvd \in Seq([len : 1 .. PKT_BUF_SIZE, pkt : Packet])

NicInit ==
    /\ nic_pc = "recv"
    /\ rx_tail = 0
    /\ packet_buffer = [len |-> 1, pkt |-> ZeroPacket]
    /\ recvd = <<>>

(* recv(fd, buf, sizeof(buf), MSG_DONTWAIT) keeps PKT_BUF_SIZE bytes.       *)
Truncate(d) == [len |-> IF d.len > PKT_BUF_SIZE THEN PKT_BUF_SIZE ELSE d.len,
                pkt |-> d.pkt]

(* The buffer b once the first n bytes of packet p are copied over it.      *)
Overlay(b, p, n) ==
    [payload_len  |-> IF n >= 12 THEN p.payload_len  ELSE b.payload_len,
     msg_type     |-> IF n >= 13 THEN p.msg_type     ELSE b.msg_type,
     stock_locate |-> IF n >= 15 THEN p.stock_locate ELSE b.stock_locate,
     price        |-> IF n >= 19 THEN p.price
                     ELSE IF n >= 16 THEN TornPrice(p.price, b.price)
                     ELSE b.price,
     shares       |-> IF n >= 23 THEN p.shares       ELSE b.shares]

Recv(d) ==
    /\ nic_pc = "recv"
    /\ Len(recvd) < MaxDatagrams
    /\ packet_buffer' = Truncate(d)
    /\ recvd' = Append(recvd, Truncate(d))
    /\ nic_pc' = "length"
    /\ UNCHANGED <<rx_tail, memVars>>

(* Mutant: the descriptor is marked done before the packet is copied.       *)
DmaLengthAndDD ==
    /\ nic_pc = "length"
    /\ rxDesc' = [rxDesc EXCEPT ![rx_tail] = [length |-> packet_buffer.len,
                                               status |-> 1]]
    /\ nic_pc' = "front"
    /\ UNCHANGED <<rx_tail, packet_buffer, recvd, rxPkt, rxHeadReg, rxTailReg,
                   txVars, ctrl>>

DmaLength ==
    /\ nic_pc = "length"
    /\ rxDesc' = [rxDesc EXCEPT ![rx_tail].length = packet_buffer.len]
    /\ nic_pc' = "front"
    /\ UNCHANGED <<rx_tail, packet_buffer, recvd, rxPkt, rxHeadReg, rxTailReg,
                   txVars, ctrl>>

CopyBytes(n) ==
    rxPkt' = [rxPkt EXCEPT ![rx_tail] = Overlay(@, packet_buffer.pkt, n)]

DmaFront(n) ==
    /\ nic_pc = "front"
    /\ n < packet_buffer.len
    /\ CopyBytes(n)
    /\ nic_pc' = "back"
    /\ UNCHANGED <<rx_tail, packet_buffer, recvd, rxDesc, rxHeadReg, rxTailReg,
                   txVars, ctrl>>

DmaBack ==
    /\ nic_pc = "back"
    /\ CopyBytes(packet_buffer.len)
    /\ nic_pc' = "dd"
    /\ UNCHANGED <<rx_tail, packet_buffer, recvd, rxDesc, rxHeadReg, rxTailReg,
                   txVars, ctrl>>

(* The slot's old DD bit is not looked at: a slot the kernel has not read   *)
(* yet is overwritten.                                                      *)
SetDD ==
    /\ nic_pc = "dd"
    /\ rxDesc' = [rxDesc EXCEPT ![rx_tail].status = 1]
    /\ nic_pc' = "tail"
    /\ UNCHANGED <<rx_tail, packet_buffer, recvd, rxPkt, rxHeadReg, rxTailReg,
                   txVars, ctrl>>

BumpTail ==
    /\ nic_pc = "tail"
    /\ rxTailReg' = rx_tail
    /\ rx_tail' = (rx_tail + 1) % RX_RING_SIZE
    /\ nic_pc' = "recv"
    /\ UNCHANGED <<packet_buffer, recvd, rxDesc, rxPkt, rxHeadReg, txVars, ctrl>>

(* A datagram once received is always carried through to the tail bump.     *)
NicStep == \/ DmaLength
           \/ \E n \in Cuts \cup {0} : DmaFront(n)
           \/ DmaBack
           \/ SetDD
           \/ BumpTail
=============================================================================
