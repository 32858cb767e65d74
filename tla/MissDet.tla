------------------------------- MODULE MissDet -------------------------------
(***************************************************************************)
(* The missing-message detector (src/nic/verilog/miss_msg.v): two registers *)
(* that change on the clock edge at which the parser presents a MoldUDP64   *)
(* header (v_i), and the reports that are combinational in that cycle.      *)
(* A header is a record [sid, seq, cnt, eos].                               *)
(***************************************************************************)
EXTENDS Integers

CONSTANTS
    SEQ_MOD,      \* 2^SEQ_NUM_W, 2^64 in the code
    SID_MOD,      \* 2^SID_W, 2^80 in the code
    SID_GAP_MAX   \* 2^SID_GAP_MAX_IDX, 2^63 in the code

ASSUME WidthAssumption == /\ SEQ_MOD \in Nat \ {0} /\ SID_MOD \in Nat \ {0}
                          /\ SID_GAP_MAX \in 1 .. SID_MOD

VARIABLES
    sid_q,   \* the session the detector is in
    seq_q    \* the sequence number it expects next

detVars == <<sid_q, seq_q>>

DetInit == sid_q = 0 /\ seq_q = 0

(* A later session, unless it is so much later that it must be an earlier   *)
(* one seen across a wrap of the session id.                                *)
SidLt(h) == (h.sid - sid_q) % SID_MOD < SID_GAP_MAX /\ sid_q < h.sid

SeqLt(h) == seq_q < h.seq

(* Mutant: the end of a session steps back.                                 *)
SidNextBack(h) == IF h.eos THEN sid_q - 1 ELSE IF SidLt(h) THEN h.sid ELSE sid_q

SidNext(h) == IF h.eos THEN (sid_q + 1) % SID_MOD
              ELSE IF SidLt(h) THEN h.sid
              ELSE sid_q

(* Mutant: after a gap the old count goes on instead of the header's.       *)
SeqNextNoJump(h) == IF h.eos THEN 0 ELSE (seq_q + h.cnt + 1) % SEQ_MOD

(* Mutant: the end of a session does not reset the sequence number.         *)
SeqNextNoReset(h) == (IF SeqLt(h) THEN h.seq + h.cnt + 1
                      ELSE seq_q + h.cnt + 1) % SEQ_MOD

(* The code adds one to the count of every packet.                          *)
SeqNext(h) == IF h.eos THEN 0
              ELSE (IF SeqLt(h) THEN h.seq + h.cnt + 1
                    ELSE seq_q + h.cnt + 1) % SEQ_MOD

Clock(h) == sid_q' = SidNext(h) /\ seq_q' = SeqNext(h)

(* The reports of a cycle; each names the messages from one session and     *)
(* sequence number up to, and without, another.                             *)
MissSeq(h) == IF SeqLt(h) /\ sid_q = h.sid
                THEN {[sid |-> sid_q, seq |-> seq_q,
                       endSid |-> sid_q, endSeq |-> h.seq]}
                ELSE {}

MissSid(h) == IF SidLt(h)
                THEN {[sid |-> sid_q, seq |-> seq_q,
                       endSid |-> h.sid, endSeq |-> h.seq]}
                ELSE {}

Reports(h) == MissSeq(h) \cup MissSid(h)
=============================================================================
