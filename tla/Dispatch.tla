------------------------------ MODULE Dispatch ------------------------------
(***************************************************************************)
(* dispatch.v: cuts the payload of a MoldUDP64 packet, eight bytes a cycle, *)
(* into messages.  The registers are variables, a combinational signal is   *)
(* an operator over them and over the beat on the bus.  The names are the   *)
(* source's; d_ marks the state machine's registers, which the parser has   *)
(* under the same names.                                                    *)
(***************************************************************************)
EXTENDS Integers, Sequences

VARIABLES
    bus,           \* the beat on the AXI stream: valid, last, data (8 bytes)
    init_v,        \* this beat is the third of a header (the parser's h2)
    d_invalid_q, d_msg_q, d_align_q, d_split_q,   \* state machine, one-hot
    sel_msg_len_q, \* bytes of the message that are still to come
    half_q,        \* the last byte of the beat before
    align_end_q,   \* the last message's successor starts with this beat
    shifted_q      \* len_shifted is a latch: its value when not assigned

dispatchVars == <<d_invalid_q, d_msg_q, d_align_q, d_split_q, sel_msg_len_q,
                  half_q, align_end_q, shifted_q>>

LEN_MOD == 65536       \* LEN_W = 16
KEEP_MOD == 16         \* KEEP_LW = 4
AXI_KEEP_W == 8
HEADER_DATA_OFF == 6

Masked(cond, value) == IF cond THEN value ELSE 0

(* a | b, bit by bit where there are bits of both.                          *)
Both(a, b) ==
    LET or[n \in 0 .. 16] ==
            IF n = 0 THEN 0
            ELSE or[n - 1] + 2^(n - 1) *
                     (IF {a \div 2^(n - 1) % 2, b \div 2^(n - 1) % 2} = {0} THEN 0 ELSE 1)
    IN  or[16]

a | b == IF a = 0 THEN b ELSE IF b = 0 THEN a ELSE Both(a, b)

(* {data_i[first byte], data_i[next byte]}                                  *)
Word(n) == 256 * bus.data[n + 1] + bus.data[n + 2]

DispatchInit ==
    /\ d_invalid_q = TRUE
    /\ d_msg_q = FALSE /\ d_align_q = FALSE /\ d_split_q = FALSE
    /\ sel_msg_len_q = 0
    /\ half_q = 0 /\ align_end_q = FALSE /\ shifted_q = 0

-----------------------------------------------------------------------------
len_low == sel_msg_len_q % KEEP_MOD

sel_msg_end == /\ sel_msg_len_q \div KEEP_MOD = 0
               /\ len_low <= AXI_KEEP_W
               /\ ~init_v

sel_len_inc2    == (len_low + 2) % KEEP_MOD
msg_overlap_len == (AXI_KEEP_W - sel_len_inc2) % KEEP_MOD

(* Where the next length lies when the message ends in this beat: one byte  *)
(* in this beat, none, both as its last two bytes, or further in front.     *)
msg_len_split     == sel_msg_len_q = 7
msg_len_align     == sel_msg_len_q = 8
msg_len_align_end == AXI_KEEP_W = sel_len_inc2 /\ len_low + 2 < KEEP_MOD
msg_len_inner     == AXI_KEEP_W > len_low /\ ~msg_len_align_end

pload_overlap_v == /\ bus.valid /\ msg_len_inner /\ sel_msg_end
                   /\ ~d_align_q /\ ~(msg_len_split \/ d_split_q)

len_shifted == IF len_low \in 1 .. AXI_KEEP_W - 2 THEN Word(len_low)
                                                  ELSE shifted_q

init_overlap_len ==
    (len_shifted - Masked(pload_overlap_v, msg_overlap_len)) % LEN_MOD

init_len_v == bus.valid /\ (sel_msg_end \/ init_v \/ d_split_q)

(* Mutant: the length behind a split is taken for the bytes still to come.  *)
InitLenSplitWhole ==
    Masked(init_v, (Word(4) - 2) % LEN_MOD)
    | Masked(d_msg_q /\ msg_len_align_end, Word(6))
    | Masked(d_msg_q /\ pload_overlap_v, init_overlap_len)
    | Masked(d_align_q, (Word(0) - 6) % LEN_MOD)
    | Masked(d_split_q, 256 * half_q + bus.data[1])

init_len ==
    Masked(init_v, (Word(4) - 2) % LEN_MOD)
    | Masked(d_msg_q /\ msg_len_align_end, Word(6))
    | Masked(d_msg_q /\ pload_overlap_v, init_overlap_len)
    | Masked(d_align_q, (Word(0) - 6) % LEN_MOD)
    | Masked(d_split_q, (256 * half_q + bus.data[1] - 7) % LEN_MOD)

sel_msg_len_next == IF init_len_v THEN init_len
                    ELSE IF sel_msg_end THEN 0
                    ELSE (sel_msg_len_q - 8) % LEN_MOD

-----------------------------------------------------------------------------
(* The two output pipes: the message under way, and one that starts behind  *)
(* its end.                                                                 *)
sel_data_len == IF d_msg_q /\ sel_msg_end
                THEN len_low
                ELSE Masked(d_split_q, 7) | Masked(d_align_q, 6)
                     | Masked(d_msg_q, AXI_KEEP_W)
                     | Masked(bus.valid /\ init_v, 2)

sel_data_shift == Masked(d_split_q, 1) | Masked(d_align_q, 2)
                  | Masked(bus.valid /\ init_v, HEADER_DATA_OFF)

sel_valid == bus.valid /\ (~d_invalid_q \/ init_v)

ov_valid == ~d_invalid_q /\ pload_overlap_v /\ bus.valid /\ ~bus.last

sel_data_start == (d_split_q \/ d_align_q \/ align_end_q \/ init_v) /\ ~bus.last

(* n bytes of the beat from byte off on; beyond the beat they are unknown.  *)
X == -1
Shifted(off, n) == [b \in 1 .. n |-> IF off + b <= AXI_KEEP_W
                                     THEN bus.data[off + b] ELSE X]

data_o    == Shifted(sel_data_shift, sel_data_len)
ov_data_o == Shifted(sel_len_inc2, msg_overlap_len)

(* Mutant: the beat that only completes a length counts as an end, too.     *)
MsgEndAnyBeat == sel_msg_end /\ bus.valid

msg_end_v == sel_msg_end /\ ~(d_split_q \/ d_align_q) /\ bus.valid

-----------------------------------------------------------------------------
align_next == d_msg_q /\ sel_msg_end /\ msg_len_align
split_next == d_msg_q /\ sel_msg_end /\ msg_len_split

(* always @(posedge clk).                                                   *)
DispatchClock ==
    /\ d_invalid_q' = \/ d_invalid_q /\ ~(bus.valid /\ init_v)
                      \/ bus.valid /\ bus.last
    /\ d_msg_q' = /\ \/ bus.valid /\ init_v
                     \/ d_align_q \/ d_split_q
                     \/ d_msg_q /\ ~(split_next \/ align_next \/ bus.last)
                  /\ ~(bus.valid /\ bus.last)
    /\ d_align_q' = align_next
    /\ d_split_q' = split_next
    /\ sel_msg_len_q' = sel_msg_len_next
    /\ half_q' = bus.data[AXI_KEEP_W]
    /\ align_end_q' = (msg_len_align_end /\ sel_msg_end /\ d_msg_q)
    /\ shifted_q' = len_shifted
=============================================================================
