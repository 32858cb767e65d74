------------------------------ MODULE MoldLink ------------------------------
(***************************************************************************)
(* A MoldUDP64 feed, a UDP link and the detector.  The sender numbers its   *)
(* messages as the testbench's does (tb/vpi/moldudp64.c: moldudp64_clear),  *)
(* and closes a session before its numbers run out; the link loses packets  *)
(* and repeats them but keeps their order, which is what the detector       *)
(* assumes.                                                                 *)
(***************************************************************************)
EXTENDS MissDet, FiniteSets

CONSTANTS
    MaxSeq,       \* bound on the sequence numbers of a session
    MaxCnt,       \* bound on the messages of a packet
    MaxPackets,   \* bound on the data packets delivered per session
    LastSid,      \* bound: the last session that is opened
    FirstSid      \* the first session (tv.h:16)

(* A feed too short for the detector's number to wrap; its last session may *)
(* be the last id there is, all ones, and the sender opens none after it.   *)
ASSUME BoundAssumption ==
    /\ MaxSeq \in Nat /\ MaxCnt \in Nat \ {0} /\ MaxPackets \in Nat
    /\ MaxSeq + (LastSid + 1 - FirstSid) * MaxPackets * (MaxCnt + 1) < SEQ_MOD
    /\ FirstSid \in Nat /\ LastSid \in FirstSid .. SID_MOD - 1

VARIABLES
    sid, seq,   \* the sender's session and next sequence number
    last,       \* a set: the packet the link delivered last, if any
    got,        \* history: the messages delivered, as <<sid, seq>>
    count,      \* history: data packets delivered per session
    again,      \* history: messages delivered a second time, per session
    eosLost,    \* history: an end-of-session packet was lost
    reports     \* history: every report of the detector

vars == <<sid_q, seq_q, sid, seq, last, got, count, again, eosLost, reports>>

(* The sender is at LastSid + 1 when it has closed its last session.        *)
Sessions == FirstSid .. LastSid + 1
Numbers  == 0 .. MaxSeq
Report   == [sid : 0 .. SID_MOD - 1, seq : 0 .. SEQ_MOD - 1,
             endSid : Sessions, endSeq : Numbers]
Header   == [sid : Sessions, seq : Numbers, cnt : Nat, eos : BOOLEAN]

TypeOK ==
    /\ sid_q \in 0 .. SID_MOD - 1 /\ seq_q \in 0 .. SEQ_MOD - 1
    /\ sid \in Sessions /\ seq \in Numbers
    /\ last \subseteq Header /\ \A h, l \in last : h = l
    /\ got \subseteq Sessions \X Numbers
    /\ count \in [Sessions -> Nat] /\ again \in [Sessions -> Nat]
    /\ eosLost \in BOOLEAN
    /\ reports \subseteq Report

Init ==
    /\ DetInit
    /\ sid = FirstSid /\ seq = 0
    /\ last = {} /\ got = {} /\ reports = {}
    /\ count = [s \in Sessions |-> 0] /\ again = count
    /\ eosLost = FALSE

Receive(h) ==
    /\ h.eos \/ count[h.sid] < MaxPackets
    /\ Clock(h)
    /\ reports' = reports \cup Reports(h)
    /\ got' = got \cup {<<h.sid, n>> : n \in h.seq .. h.seq + h.cnt - 1}
    /\ count' = IF h.eos THEN count ELSE [count EXCEPT ![h.sid] = @ + 1]
    /\ last' = {h}

Lose == UNCHANGED <<detVars, reports, got, count, last>>

(* moldudp64_clear: the next packet starts where this one ends; a packet    *)
(* without messages is a heartbeat.                                         *)
SendPacket(n) ==
    /\ sid <= LastSid
    /\ seq + n <= MaxSeq
    /\ seq' = seq + n
    /\ UNCHANGED <<sid, again, eosLost>>
    /\ \/ Receive([sid |-> sid, seq |-> seq, cnt |-> n, eos |-> FALSE])
       \/ Lose

(* "should have sent an end of session, updated sid and reset seq to 0"     *)
EndSession ==
    /\ sid <= LastSid
    /\ sid' = sid + 1
    /\ seq' = 0
    /\ UNCHANGED again
    /\ \/ Receive([sid |-> sid, seq |-> seq, cnt |-> 0, eos |-> TRUE])
          /\ UNCHANGED eosLost
       \/ Lose /\ eosLost' = TRUE

(* The link delivers a data packet a second time.                           *)
Duplicate ==
    \E h \in last : /\ ~h.eos
                    /\ Receive(h)
                    /\ again' = [again EXCEPT ![h.sid] = @ + h.cnt]
                    /\ UNCHANGED <<sid, seq, eosLost>>

Next == (\E n \in 0 .. MaxCnt : SendPacket(n)) \/ EndSession \/ Duplicate

Spec == Init /\ [][Next]_vars

-----------------------------------------------------------------------------
Before(s, n, t, m) == s < t \/ (s = t /\ n < m)

Covers(r, s, n) == /\ ~Before(s, n, r.sid, r.seq)
                   /\ Before(s, n, r.endSid, r.endSeq)

(* The detector never asks for a message that was delivered: whatever is    *)
(* lost, repeated, or cut off with the end of its session, a report covers  *)
(* only messages that did not and do not arrive.                            *)
ReportsAreMissing == \A r \in reports : \A m \in got : ~Covers(r, m[1], m[2])

(* The numbers of session s that were sent before some that arrived, did    *)
(* not arrive themselves and are in no report.                              *)
Hidden(s) == {n \in Numbers : /\ <<s, n>> \notin got
                              /\ \E m \in Numbers : n < m /\ <<s, m>> \in got
                              /\ \A r \in reports : ~Covers(r, s, n)}

(* What the extra one per packet costs when no end of session is lost: each *)
(* data packet that arrives can hide one lost message of its session, and   *)
(* each message that arrives a second time one more.                        *)
HiddenBounded ==
    eosLost \/ \A s \in Sessions : Cardinality(Hidden(s)) <= count[s] + again[s]

(* miss_msg.v:4: "Compare gotten sequence number to next expected sequence  *)
(* number and detect if there are missing packets."  False: the number it   *)
(* expects runs ahead by one per packet, so small gaps are not seen.        *)
EveryGapReported == eosLost \/ \A s \in Sessions : Hidden(s) = {}
=============================================================================
