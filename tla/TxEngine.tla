------------------------------ MODULE TxEngine ------------------------------
(***************************************************************************)
(* The transmit half of a NIC.  The repository does not ship one: the       *)
(* plugin's register region has no read or write callback                   *)
(* (hw_nic_sim.c:100-104), so the TX registers are plain memory.  This      *)
(* module is what the kernel's reclaim_tx and send_ouch expect of the       *)
(* device: it sends descriptors from HEAD up to the limit that the last     *)
(* doorbell set, and HEAD follows what was sent.                            *)
(***************************************************************************)
EXTENDS MemMap

CONSTANTS
    TxPresent,          \* FALSE: the NIC as shipped, nothing is ever sent
    DoorbellInclusive   \* the descriptor TAIL names is ready to send (TRUE),
                        \* or is the first that is not, as on e1000 (FALSE)

ASSUME EngineAssumption == /\ TxPresent \in BOOLEAN
                           /\ DoorbellInclusive \in BOOLEAN

VARIABLES
    txLimit,   \* the first descriptor the engine may not send yet
    wire       \* the orders sent so far

engineVars == <<txLimit, wire>>

EngineTypeOK == /\ txLimit \in TxSlots
                /\ wire \in Seq(Order)

EngineInit == txLimit = 0 /\ wire = <<>>

(* What the write of v to TAIL does in the device.                          *)
OnDoorbell(v) ==
    txLimit' = IF ~TxPresent \/ "TX_EN" \notin ctrl THEN txLimit
               ELSE IF DoorbellInclusive THEN (v + 1) % TX_RING_SIZE
               ELSE v

TxSend ==
    /\ TxPresent
    /\ "TX_EN" \in ctrl
    /\ txHeadReg # txLimit
    /\ wire' = Append(wire, txPkt[txHeadReg])
    /\ txHeadReg' = (txHeadReg + 1) % TX_RING_SIZE
    /\ UNCHANGED <<txLimit, rxVars, txPkt, txTailReg, ctrl>>
=============================================================================
