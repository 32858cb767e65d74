-------------------------------- MODULE TbFeed --------------------------------
(***************************************************************************)
(* The testbench of the FPGA parser (Nasdaq-HFT-FPGA-master/tb): it reads   *)
(* ITCH messages from an exchange log, packs them into MoldUDP64 packets,   *)
(* feeds these to the design in beats of eight bytes over AXI-stream, and   *)
(* checks every message the design decodes against the list it keeps of     *)
(* those it packed (ItchFifo).                                              *)
(*                                                                         *)
(* A byte on the wire is a record: byte number `b`, 0 the least significant *)
(* or the first, of value `v` of field `f`.  The design is not part of the  *)
(* repository's sources as a whole; it stands here as what the bench checks *)
(* it against, a decoder that announces a message a few cycles late.        *)
(***************************************************************************)
EXTENDS ItchFifo, Integers, FiniteSets

CONSTANTS
    Logs,            \* the logs to read: sequences of message lengths
    MSG_CNT_MAX,     \* MOLDUDP64_MSG_CNT_MAX, 100 in the code
    SIZE_MOD,        \* the modulus of size_t, 2^64 in the code
    Latencies        \* cycles the design takes to announce a message

GAP   == 3           \* cycles without a beat after a packet
LLOCK == 20          \* TB_LLOCK_CNT_START
SID   == "MOLD_INIT_SID"
ItchLen == 12 .. 50  \* lengths of ITCH messages

(* A packet's size is no more than a size_t holds and a packet has room for *)
(* a message; malloc finds a node for every message, and Item has them all. *)
ASSUME FeedAssumption ==
    /\ Logs \subseteq Seq(ItchLen)
    /\ MSG_CNT_MAX \in Nat /\ MSG_CNT_MAX > 1
    /\ SIZE_MOD \in Nat /\ 20 + MSG_CNT_MAX * 52 < SIZE_MOD
    /\ Latencies \subseteq Nat
    /\ IsFiniteSet(Node)
    /\ \A l \in Logs : /\ Len(l) <= Cardinality(Node)
                       /\ \A n \in 1 .. Len(l) :
                              [msg |-> n, id |-> <<SID, n - 1>>] \in Item

VARIABLES
    log, zeroEnd,    \* the log; does it close with a record of length zero?
    latency, stalls, \* the design: its latency; may it refuse a beat?
    pos, eof,        \* the log file: messages read, end-of-file mark
    seq, msgs,       \* moldudp64_s: next sequence number, messages held
    flat, flat_l, flat_idx,  \* the packet as bytes (<<>> for a null pointer)
    pc, left, caller,        \* where the bench is; messages still to read
    axi,             \* the AXI-stream wires
    gap,             \* cycles to go before the next beat
    ready,           \* tready at the last call
    rx, rxLast,      \* the design: bytes of the packet so far; was tlast set?
    start, num,      \* the design: bytes and messages of the packet decoded
    pending,         \* the design: messages decoded and not announced yet
    got,             \* the message announced last
    quiet            \* cycles since then (livelock_countdown)

cfgVars   == <<log, zeroEnd, latency, stalls>>
moldVars  == <<seq, msgs>>
flatVars  == <<flat, flat_l, flat_idx>>
wireVars  == <<axi, gap, ready>>
dutVars   == <<rx, rxLast, start, num, pending, got, quiet>>
vars == <<cfgVars, pos, eof, moldVars, flatVars, pc, left, caller, wireVars,
          dutVars, fifoVars>>

Byte(f, v, b) == [f |-> f, v |-> v, b |-> b]
BigEndian(f, v, n) == [i \in 1 .. n |-> Byte(f, v, n - i)]
NoBeat == [tvalid |-> FALSE, tdata |-> <<>>, tkeep |-> {}, tlast |-> FALSE]

-----------------------------------------------------------------------------
(* moldudp64.c                                                              *)

(* Mutant: the count of the messages in the packet is left out.             *)
DebugIdOfPacket(n, msg_cnt) == <<SID, n>>

DebugId(n, msg_cnt) == <<SID, n + msg_cnt>>

AddMsg(m) == msgs' = Append(msgs, m) /\ UNCHANGED seq

(* Mutant: the next packet starts one message too far.                      *)
ClearOneMore == seq' = seq + Len(msgs) + 1 /\ msgs' = <<>>

Clear == seq' = seq + Len(msgs) /\ msgs' = <<>>

(* Mutant: the length fields are not counted.                               *)
BareSizeTo[n \in 0 .. Len(msgs)] ==
    IF n = 0 THEN 20 ELSE BareSizeTo[n - 1] + log[msgs[n]]
BareSize == BareSizeTo[Len(msgs)]

(* The size of the packet up to message n, and its bytes.                   *)
SizeTo[n \in 0 .. Len(msgs)] ==
    IF n = 0 THEN 20 ELSE SizeTo[n - 1] + 2 + log[msgs[n]]
PacketSize == SizeTo[Len(msgs)]

Header == BigEndian("sid", SID, 10) \o BigEndian("seq", seq, 8)
                                    \o BigEndian("cnt", Len(msgs), 2)
Message(m) == BigEndian("len", log[m], 2)
                  \o [i \in 1 .. log[m] |-> Byte("msg", m, i - 1)]

BytesTo[n \in 0 .. Len(msgs)] ==
    IF n = 0 THEN Header ELSE BytesTo[n - 1] \o Message(msgs[n])
Flatten == BytesTo[Len(msgs)]

-----------------------------------------------------------------------------
(* axis.c, axis.h; the lengths are a size_t and a packet of none has        *)
(* len - 1 = SIZE_MOD - 1                                                   *)

MaxIdx == (flat_l - 1) % SIZE_MOD

AxisFinished == flat_idx > MaxIdx

(* Mutant: a packet that ends with a full beat has no last beat.            *)
AxisLastButFull == MaxIdx - flat_idx < 7

AxisLast == MaxIdx - flat_idx < 8

(* Mutant: the last beat keeps one byte too few.                            *)
AxisKeepShort == IF MaxIdx < flat_idx + 8 THEN MaxIdx - flat_idx ELSE 8

AxisKeep == IF MaxIdx < flat_idx + 8 THEN MaxIdx + 1 - flat_idx ELSE 8

AxisNext64b ==
    [tvalid |-> TRUE, tlast |-> AxisLast, tkeep |-> 1 .. AxisKeep,
     tdata |-> [i \in 1 .. AxisKeep |-> flat[flat_idx + i]]]

-----------------------------------------------------------------------------
(* tv.c                                                                     *)

(* Mutant: a count of 0 is not made 1.                                      *)
RandAnyCnt == 0 .. MSG_CNT_MAX - 1

RandMsgCnt == {IF r = 0 THEN 1 ELSE r : r \in 0 .. MSG_CNT_MAX - 1}

HasData == ~((eof /\ AxisFinished) \/ flat = <<>>)

(* Which free node malloc returns makes no difference.                      *)
Malloc == CHOOSE a \in Node \ mem : TRUE

(* tv_create_packet, one round of its loop: the message goes into the       *)
(* packet and, with its debug id, into the list.                            *)
ReadMsg ==
    /\ pc = "read" /\ left > 0 /\ pos < Len(log)
    /\ pos' = pos + 1 /\ left' = left - 1
    /\ AddMsg(pos + 1)
    /\ FifoPush(Malloc, [msg |-> pos + 1, id |-> DebugId(seq, Len(msgs))])
    /\ UNCHANGED <<cfgVars, eof, flatVars, pc, caller, wireVars, dutVars>>

(* "No new message to read": the file ends, or a record of length zero.     *)
NoMsg ==
    /\ pc = "read" /\ left > 0 /\ pos = Len(log)
    /\ eof' = ~zeroEnd /\ left' = 0
    /\ UNCHANGED <<cfgVars, pos, moldVars, flatVars, pc, caller, wireVars,
                   dutVars, fifoVars>>

(* The rest of tv_create_packet.                                            *)
FinishPacket ==
    /\ pc = "read" /\ left = 0
    /\ flat' = IF msgs # <<>> THEN Flatten ELSE <<>>
    /\ flat_l' = IF msgs # <<>> THEN PacketSize ELSE 0
    /\ flat_idx' = 0
    /\ Clear
    /\ pc' = IF caller = "tb_init" THEN "idle" ELSE "beat"
    /\ UNCHANGED <<cfgVars, pos, eof, left, caller, wireVars, dutVars, fifoVars>>

-----------------------------------------------------------------------------
(* tb.c: $tb, called at the falling edge, in parts                          *)

(* The design does not take a beat; sva_backpressure_max_1_cycle of         *)
(* moldudp64parser.v lets it refuse one at a time.                          *)
TbNotReady ==
    /\ pc = "idle" /\ stalls /\ ready
    /\ ready' = FALSE /\ axi' = NoBeat
    /\ pc' = "clock"
    /\ UNCHANGED <<cfgVars, pos, eof, moldVars, flatVars, left, caller, gap,
                   dutVars, fifoVars>>

TbNoData ==
    /\ pc = "idle" /\ ~HasData
    /\ ready' = TRUE /\ axi' = NoBeat
    /\ pc' = "end"
    /\ UNCHANGED <<cfgVars, pos, eof, moldVars, flatVars, left, caller, gap,
                   dutVars, fifoVars>>

TbNewPacket ==
    /\ pc = "idle" /\ HasData /\ AxisFinished
    /\ ready' = TRUE /\ caller' = "tb" /\ left' \in RandMsgCnt
    /\ pc' = "read"
    /\ UNCHANGED <<cfgVars, pos, eof, moldVars, flatVars, axi, gap, dutVars,
                   fifoVars>>

TbSamePacket ==
    /\ pc = "idle" /\ HasData /\ ~AxisFinished
    /\ ready' = TRUE
    /\ pc' = "beat"
    /\ UNCHANGED <<cfgVars, pos, eof, moldVars, flatVars, left, caller, axi,
                   gap, dutVars, fifoVars>>

(* tv_axis_get_next_64b with a packet; the bench then keeps tvalid low for  *)
(* some cycles after the last beat ("back to back bug").                    *)
Beat ==
    /\ pc = "beat" /\ flat # <<>>
    /\ axi' = AxisNext64b
    /\ flat_idx' = flat_idx + 8
    /\ gap' = IF AxisLast THEN GAP ELSE 0
    /\ pc' = "clock"
    /\ UNCHANGED <<cfgVars, pos, eof, moldVars, flat, flat_l, left, caller,
                   ready, dutVars, fifoVars>>

(* The same without one: a valid beat of no bytes, and the bench ends in    *)
(* the same instant, before the design can see it.                          *)
BeatOfNothing ==
    /\ pc = "beat" /\ flat = <<>>
    /\ axi' = [tvalid |-> TRUE, tdata |-> <<>>, tkeep |-> {}, tlast |-> AxisLast]
    /\ pc' = "end"
    /\ UNCHANGED <<cfgVars, pos, eof, moldVars, flatVars, left, caller, gap,
                   ready, dutVars, fifoVars>>

-----------------------------------------------------------------------------
(* The design under test: a reader of MoldUDP64                             *)

(* The value of the n-byte field f at offset o, 0 if it is not there whole. *)
Field(bytes, f, o, n) ==
    IF /\ o + n <= Len(bytes)
       /\ \A i \in 1 .. n : bytes[o + i] = Byte(f, bytes[o + 1].v, n - i)
      THEN bytes[o + 1].v ELSE 0

(* The message whose n bytes begin at offset o, NULL if they are mixed up.  *)
Body(bytes, o, n) ==
    IF \A i \in 1 .. n : bytes[o + i] = Byte("msg", bytes[o + 1].v, i - 1)
      THEN bytes[o + 1].v ELSE NULL

(* The packet with the beat on the wires, and where decoding goes on: at    *)
(* most one message can end in a beat.                                      *)
Sampled == IF axi.tvalid THEN (IF rxLast THEN <<>> ELSE rx) \o axi.tdata ELSE rx
From    == IF axi.tvalid /\ rxLast THEN 20 ELSE start
Before  == IF axi.tvalid /\ rxLast THEN 0 ELSE num
MsgLen  == Field(Sampled, "len", From, 2)
MsgEnds == axi.tvalid /\ MsgLen > 0 /\ From + 2 + MsgLen <= Len(Sampled)

Decode ==
    /\ rx' = Sampled
    /\ rxLast' = IF axi.tvalid THEN axi.tlast ELSE rxLast
    /\ start' = IF MsgEnds THEN From + 2 + MsgLen ELSE From
    /\ num' = IF MsgEnds THEN Before + 1 ELSE Before

Fresh ==
    IF MsgEnds
      THEN <<[item |-> [msg |-> Body(Sampled, From + 2, MsgLen),
                        id |-> <<SID, Field(Sampled, "seq", 10, 8) + Before>>],
              age |-> 0]>>
      ELSE <<>>

Queued == [i \in 1 .. Len(pending) |-> [pending[i] EXCEPT !.age = @ + 1]] \o Fresh

(* The rising edge.  When the design announces a message the bench pops the *)
(* one it expects ($tb_itch).                                               *)
Posedge ==
    /\ pc = "clock"
    /\ Decode
    /\ LET queued == Queued IN
       \/ /\ queued # <<>>
          /\ got' = Head(queued).item /\ pending' = Tail(queued)
          /\ FifoPop
          /\ quiet' = 0
       \/ /\ queued # <<>> => Head(queued).age < latency
          /\ pending' = queued
          /\ quiet' = IF quiet < LLOCK THEN quiet + 1 ELSE LLOCK
          /\ UNCHANGED <<got, fifoVars>>
    /\ axi' = [axi EXCEPT !.tvalid = @ /\ gap = 0]
    /\ gap' = IF gap > 0 THEN gap - 1 ELSE 0
    /\ pc' = IF gap > 0 THEN "clock" ELSE "idle"
    /\ UNCHANGED <<cfgVars, pos, eof, moldVars, flatVars, left, caller, ready>>

(* $tb_end: tv_free, the list node by node.                                 *)
FreeNode ==
    /\ pc = "end"
    /\ FifoDrop
    /\ UNCHANGED <<cfgVars, pos, eof, moldVars, flatVars, pc, left, caller,
                   wireVars, dutVars>>

FreeRest ==
    /\ pc = "end" /\ read = NULL
    /\ flat' = <<>>
    /\ pc' = "over"
    /\ UNCHANGED <<cfgVars, pos, eof, moldVars, flat_l, flat_idx, left, caller,
                   wireVars, dutVars, fifoVars>>

Over == pc = "over" /\ UNCHANGED vars

(* $tb_init: tv_alloc, then tv_create_packet of one message.                *)
Init ==
    /\ log \in Logs /\ zeroEnd \in BOOLEAN
    /\ latency \in Latencies /\ stalls \in BOOLEAN
    /\ pos = 0 /\ eof = FALSE
    /\ seq = 0 /\ msgs = <<>>
    /\ flat = <<>> /\ flat_l = 0 /\ flat_idx = 0
    /\ pc = "read" /\ left = 1 /\ caller = "tb_init"
    /\ axi = NoBeat /\ gap = 0 /\ ready = TRUE
    /\ rx = <<>> /\ rxLast = TRUE /\ start = 20 /\ num = 0
    /\ pending = <<>> /\ got = NULL
    /\ quiet = 4              \* edges of the clock before the first call
    /\ FifoInit

Next == \/ ReadMsg \/ NoMsg \/ FinishPacket
        \/ TbNotReady \/ TbNoData \/ TbNewPacket \/ TbSamePacket
        \/ Beat \/ BeatOfNothing
        \/ Posedge
        \/ FreeNode \/ FreeRest \/ Over

(* The simulator runs the bench until it ends.                              *)
Spec == Init /\ [][Next]_vars /\ WF_vars(Next)

-----------------------------------------------------------------------------
TypeOK ==
    /\ FifoTypeOK
    /\ pos \in 0 .. Len(log) /\ eof \in BOOLEAN
    /\ seq \in 0 .. Len(log) /\ msgs \in Seq(1 .. Len(log))
    /\ Len(msgs) < MSG_CNT_MAX     \* the assertion of moldudp64_add_msg
    /\ flat_l = Len(flat) \/ pc = "over"
    /\ pc \in {"idle", "read", "beat", "clock", "end", "over"}
    /\ left \in 0 .. MSG_CNT_MAX - 1 /\ caller \in {"tb_init", "tb"}
    /\ axi.tkeep \subseteq 1 .. 8 /\ gap \in 0 .. GAP
    /\ quiet \in 0 .. LLOCK

(* Whatever lengths the messages have and wherever beats cut them, the      *)
(* bytes from the first beat of a packet to its last are a packet: as many  *)
(* whole messages as its count says, and nothing after them.                *)
PacketsWhole ==
    rxLast /\ rx # <<>> =>
        num > 0 /\ num = Field(rx, "cnt", 18, 2) /\ start = Len(rx)

(* The assertions after $tb_itch (hft_tb.v:608-): there is an expected      *)
(* message for each one announced, and it is the same, with the same id.    *)
ComparedEqual == popped = got

(* Ids count the messages of the log from 0, across packets of any size.    *)
IdsCount == \A i \in 1 .. Len(order) :
                Contents[i].id = <<SID, Contents[i].msg - 1>>

(* When the bench ends, every message of the log has been compared, if the  *)
(* design takes no longer than the gap after a packet; a slower one leaves  *)
(* the last unchecked, and the bench ends without a word.                   *)
AllCompared ==
    pc = "end" /\ latency <= GAP =>
        read = NULL /\ (log # <<>> => got # NULL /\ got.msg = Len(log))

(* The bench's own watchdog does not go off: a design that takes every beat *)
(* announces a message in every LLOCK cycles.                               *)
NoLivelock == ~stalls => quiet < LLOCK

(* The bench ends, and has freed every node by then.                        *)
Ends == <>(pc = "over" /\ mem = {})
=============================================================================
