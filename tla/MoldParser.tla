----------------------------- MODULE MoldParser -----------------------------
(***************************************************************************)
(* moldudp64parser.v: finds the three beats of a MoldUDP64 header, counts   *)
(* the packet's messages down and numbers them, and leaves their bytes to   *)
(* dispatch.v.  It is driven as the testbench drives it (hft_tb.v,          *)
(* vpi_task): a packet without a pause, then GAP cycles without valid, with *)
(* last still up.  One step is one clock edge.                              *)
(***************************************************************************)
EXTENDS Dispatch, FiniteSets

CONSTANTS
    Packets,      \* packets: lists of messages, a message is its bytes
    MaxPackets,   \* bound on the packets sent
    GAP,          \* cycles between packets (hft_tb.v: three)
    Pads,         \* what the bus carries behind the last byte of a packet
    SEQ_LO,       \* values of the sequence number's low part (2^16)
    SEQ_HI        \* values of its high part (2^48)

(* Every packet has a message (tv.c:83), and none is shorter than 9 bytes:  *)
(* those of ITCH have 12 and more, and dispatch.v:152 asks for 7.  The      *)
(* parts of the sequence number have two and six bytes.                     *)
ASSUME ParserAssumption ==
    /\ \A p \in Packets :
           /\ p \in Seq(Seq(0 .. 255)) /\ Len(p) \in 1 .. LEN_MOD - 1
           /\ \A m \in 1 .. Len(p) : Len(p[m]) \in 9 .. LEN_MOD - 1
    /\ MaxPackets \in Nat /\ GAP \in Nat
    /\ Pads \subseteq 0 .. 255
    /\ SEQ_LO \in 1 .. LEN_MOD /\ SEQ_HI \in Nat \ {0}
    /\ ((SEQ_HI - 1) \div LEN_MOD) \div LEN_MOD < LEN_MOD

VARIABLES
    fsm_invalid_q, tlast_q, fsm_h1_q, fsm_msg_q,  \* h2 is init_v
    msg_cnt_q,        \* messages of the packet that are still to end
    seq_hi_q, seq_lo_q,
    pkt, seq,         \* sender: the packet on the bus, its first number
    beat, gap,        \* sender: the beat on the bus, idle cycles left
    pad,              \* sender: what follows the packet
    sent,             \* sender: packets begun
    stream, ids,      \* consumer: this packet's messages and their numbers
    finished          \* history: the last packet and what came of it, if any

parserVars == <<fsm_invalid_q, tlast_q, fsm_h1_q, init_v, fsm_msg_q,
                msg_cnt_q, seq_hi_q, seq_lo_q>>
senderVars == <<bus, pkt, seq, beat, gap, pad, sent>>
vars == <<parserVars, dispatchVars, senderVars, stream, ids, finished>>

-----------------------------------------------------------------------------
(* The packet's bytes: the session id, the number in two parts, the count,  *)
(* and the messages behind their lengths.                                   *)
Two(n) == <<n \div 256, n % 256>>

Six(n) == Two((n \div LEN_MOD) \div LEN_MOD) \o Two((n \div LEN_MOD) % LEN_MOD)
              \o Two(n % LEN_MOD)

Header(p, s) == [b \in 1 .. 10 |-> 0] \o Six((s \div SEQ_LO) % SEQ_HI)
                    \o Two(s % SEQ_LO) \o Two(Len(p))

PacketBytes(p, s) ==
    LET bytes[m \in 0 .. Len(p)] ==
            IF m = 0 THEN Header(p, s) ELSE bytes[m - 1] \o Two(Len(p[m])) \o p[m]
    IN  bytes[Len(p)]

Beats(p) == (Len(PacketBytes(p, 0)) + 7) \div 8

Eight(bytes, n, fill) ==
    [b \in 1 .. 8 |-> IF 8 * (n - 1) + b <= Len(bytes)
                      THEN bytes[8 * (n - 1) + b] ELSE fill]

(* Mutant: last is raised only when nothing is left.                        *)
BeatLastLate(p, s, n, fill) ==
    [valid |-> TRUE, last |-> n > Beats(p),
     data |-> Eight(PacketBytes(p, s), n, fill)]

Beat(p, s, n, fill) ==
    [valid |-> TRUE, last |-> n = Beats(p),
     data |-> Eight(PacketBytes(p, s), n, fill)]

Idle == [bus EXCEPT !.valid = FALSE]

-----------------------------------------------------------------------------
h0_v == bus.valid /\ (fsm_invalid_q \/ tlast_q)

cnt_end == msg_cnt_q = 0

msg_cnt_next == IF init_v THEN Word(2)
                ELSE IF msg_end_v /\ ~cnt_end THEN msg_cnt_q - 1
                ELSE msg_cnt_q

(* The high part, as the header's second beat brings it (seq_p1_o).         *)
High == (Word(2) * LEN_MOD + Word(4)) * LEN_MOD + Word(6)

(* seq_q + 1, in two parts.                                                 *)
seq_add_lo == (seq_lo_q + 1) % SEQ_LO
seq_add_hi == (seq_hi_q + (seq_lo_q + 1) \div SEQ_LO) % SEQ_HI

(* Mutant: the parts are counted up each on its own.                        *)
SeqClockNoCarry ==
    /\ seq_lo_q' = IF init_v THEN Word(0)
                   ELSE IF msg_end_v THEN seq_add_lo ELSE seq_lo_q
    /\ seq_hi_q' = IF fsm_h1_q THEN High ELSE seq_hi_q

SeqClock ==
    /\ seq_lo_q' = IF init_v THEN Word(0)
                   ELSE IF msg_end_v THEN seq_add_lo ELSE seq_lo_q
    /\ seq_hi_q' = IF fsm_h1_q THEN High
                   ELSE IF msg_end_v THEN seq_add_hi ELSE seq_hi_q

seq_o == seq_hi_q * SEQ_LO + (IF init_v THEN Word(0) ELSE seq_lo_q)

FsmClock ==
    /\ fsm_invalid_q' =
           \/ /\ bus.valid
              /\ bus.last \/ (cnt_end /\ ~(h0_v \/ fsm_h1_q \/ init_v))
           \/ fsm_invalid_q /\ ~bus.valid
    /\ fsm_h1_q' = h0_v
    /\ init_v' = (fsm_h1_q /\ bus.valid)
    /\ fsm_msg_q' = (init_v \/ (fsm_msg_q /\ ~(cnt_end \/ bus.last)))
    /\ tlast_q' = bus.last

ParserClock == FsmClock /\ SeqClock /\ msg_cnt_q' = msg_cnt_next

-----------------------------------------------------------------------------
(* The consumer: a message starts with start_o, or on the overlap pipe.     *)
FirstBeat == bus.valid /\ beat = 1
LastBeat  == bus.valid /\ beat = Beats(pkt)

Extend(s, bytes) == IF s = <<>> \/ sel_data_start
                    THEN Append(s, bytes)
                    ELSE [s EXCEPT ![Len(s)] = @ \o bytes]

StreamNext ==
    LET old  == IF FirstBeat THEN <<>> ELSE stream
        main == IF sel_valid THEN Extend(old, data_o) ELSE old
    IN  IF ov_valid THEN Append(main, ov_data_o) ELSE main

IdsNext ==
    LET old == IF FirstBeat THEN <<>> ELSE ids
    IN  IF msg_end_v /\ ~d_invalid_q THEN Append(old, seq_o) ELSE old

Consume ==
    /\ stream' = StreamNext
    /\ ids' = IdsNext
    /\ finished' = IF LastBeat
                   THEN {[pkt |-> pkt, seq |-> seq, stream |-> StreamNext,
                          ids |-> IdsNext]}
                   ELSE finished

(* The sender.                                                              *)
NextBeat ==
    /\ bus.valid /\ ~bus.last
    /\ beat' = beat + 1
    /\ bus' = Beat(pkt, seq, beat + 1, pad)
    /\ UNCHANGED <<pkt, seq, gap, pad, sent>>

Pause ==
    /\ bus.valid /\ bus.last
    /\ GAP > 0 \/ sent = MaxPackets
    /\ bus' = Idle
    /\ gap' = GAP
    /\ UNCHANGED <<pkt, seq, beat, pad, sent>>

Wait ==
    /\ ~bus.valid
    /\ gap > 1
    /\ gap' = gap - 1
    /\ UNCHANGED <<bus, pkt, seq, beat, pad, sent>>

NextPacket ==
    /\ IF bus.valid THEN bus.last /\ GAP = 0 ELSE gap <= 1
    /\ sent < MaxPackets
    /\ sent' = sent + 1
    /\ seq' = (seq + Len(pkt)) % (SEQ_LO * SEQ_HI)
    /\ beat' = 1 /\ gap' = 0
    /\ \E p \in Packets : \E fill \in Pads :
           pkt' = p /\ pad' = fill /\ bus' = Beat(p, seq', 1, fill)

-----------------------------------------------------------------------------
Init ==
    /\ DispatchInit
    /\ fsm_invalid_q = TRUE /\ tlast_q = FALSE
    /\ fsm_h1_q = FALSE /\ init_v = FALSE /\ fsm_msg_q = FALSE
    /\ msg_cnt_q = 0 /\ seq_hi_q = 0 /\ seq_lo_q = 0
    /\ bus = [valid |-> FALSE, last |-> FALSE, data |-> [b \in 1 .. 8 |-> 0]]
    /\ pkt = <<>> /\ seq = 0 /\ beat = 0 /\ gap = 0 /\ pad = 0 /\ sent = 0
    /\ stream = <<>> /\ ids = <<>> /\ finished = {}

Next == /\ ParserClock /\ DispatchClock /\ Consume
        /\ NextBeat \/ Pause \/ Wait \/ NextPacket

Spec == Init /\ [][Next]_vars

-----------------------------------------------------------------------------
TypeOK ==
    /\ {d_invalid_q, d_msg_q, d_align_q, d_split_q, align_end_q, init_v,
        fsm_invalid_q, tlast_q, fsm_h1_q, fsm_msg_q} \subseteq BOOLEAN
    /\ sel_msg_len_q \in 0 .. LEN_MOD - 1 /\ shifted_q \in 0 .. LEN_MOD - 1
    /\ half_q \in 0 .. 255 /\ msg_cnt_q \in 0 .. LEN_MOD - 1
    /\ seq_lo_q \in 0 .. SEQ_LO - 1 /\ seq_hi_q \in 0 .. SEQ_HI - 1
    /\ bus.data \in [1 .. 8 -> 0 .. 255]
    /\ gap \in 0 .. GAP /\ sent \in 0 .. MaxPackets
    /\ beat \in 0 .. Beats(pkt)

(* Wherever the two bytes of a length fall in a beat, each message of a     *)
(* packet comes out once, in order, with its own bytes and no others.       *)
MessagesWhole ==
    \A f \in finished : f.stream = f.pkt

(* Every message carries the number the sender gave it when it ends: the    *)
(* number is counted once per message, with its carry, over beats that only *)
(* complete a length and over headers cut in two.                           *)
NumberedInOrder ==
    \A f \in finished :
        f.ids = [m \in 1 .. Len(f.pkt) |-> (f.seq + m - 1) % (SEQ_LO * SEQ_HI)]

(* While a packet's messages pass, the count is of those whose last byte is *)
(* still to come: a beat that only completes a length, and one that ends a  *)
(* message and begins the next, count once.                                 *)
EndOf(p) ==
    LET end[m \in 0 .. Len(p)] ==
            IF m = 0 THEN 20 ELSE end[m - 1] + 2 + Len(p[m])
    IN  end

CountIsWhatRemains ==
    fsm_msg_q =>
        msg_cnt_q = Cardinality({m \in 1 .. Len(pkt) : EndOf(pkt)[m] > 8 * (beat - 1)})

(* dispatch.v:250: "sva_fsm_onehot : assert( $onehot(f_fsm))".  False: a    *)
(* last message that ends seven or eight bytes into the last beat still     *)
(* asks for the length of its successor.                                    *)
DispatchOneHot ==
    \/ d_invalid_q /\ ~d_msg_q /\ ~d_align_q /\ ~d_split_q
    \/ ~d_invalid_q /\ d_msg_q /\ ~d_align_q /\ ~d_split_q
    \/ ~d_invalid_q /\ ~d_msg_q /\ d_align_q /\ ~d_split_q
    \/ ~d_invalid_q /\ ~d_msg_q /\ ~d_align_q /\ d_split_q
=============================================================================
