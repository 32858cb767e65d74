---------------------------- MODULE MoldLink_proofs ----------------------------
(***************************************************************************)
(* Proofs about MoldLink for every register width, every session window and *)
(* every feed that is too short for the detector's number to wrap.          *)
(***************************************************************************)
EXTENDS MoldLink, FiniteSetTheorems, TLAPS

(* The packets the link may deliver, and where they end.                    *)
End(h) == h.seq + h.cnt

(* The sender is never behind what was delivered or reported: the packet    *)
(* delivered last ends the messages that arrived, and no report reaches     *)
(* into it or beyond it.                                                    *)
LinkInv ==
    /\ sid_q <= sid
    /\ \A h \in last : /\ h.sid <= LastSid /\ End(h) <= MaxSeq /\ h.cnt <= MaxCnt
                       /\ ~Before(sid, seq, h.sid, End(h))
                       /\ h.eos => h.sid < sid /\ h.cnt = 0
                       /\ ~h.eos => sid_q <= h.sid
    /\ \A m \in got : \E h \in last : Before(m[1], m[2], h.sid, End(h))
    /\ \A r \in reports :
          /\ ~Before(sid, seq, r.endSid, r.endSeq)
          /\ \A h \in last : ~h.eos => ~Before(h.sid, h.seq, r.endSid, r.endSeq)

(* The most the detector's number can be after c packets of session s.      *)
Budget(s, c) == MaxSeq + ((s - FirstSid) * MaxPackets + c) * (MaxCnt + 1)

(* The detector's number does not wrap.                                     *)
NoWrap ==
    /\ \A s \in Sessions : count[s] <= MaxPackets
    /\ last = {} => seq_q = 0 /\ \A s \in Sessions : count[s] = 0
    /\ \A h \in last : /\ \A s \in Sessions : h.sid < s => count[s] = 0
                       /\ seq_q <= Budget(h.sid, count[h.sid])

(* The detector has lost the feed for good: every packet that still comes   *)
(* is of a session beyond its window.                                       *)
Astray ==
    /\ sid - sid_q >= SID_GAP_MAX
    /\ \A h \in last : ~h.eos => h.sid - sid_q >= SID_GAP_MAX

(* The detector expects only what lies behind all that has arrived.         *)
Ahead ==
    /\ \A m \in got : Before(m[1], m[2], sid_q, seq_q)
    /\ \A h \in last : ~h.eos => h.sid = sid_q /\ End(h) <= seq_q

(* The session of the last id is closed and its end has arrived: no packet  *)
(* follows, and the detector's session id has wrapped.                      *)
Over == sid = SID_MOD /\ \A h \in last : h.eos

MoldInv == /\ TypeOK /\ LinkInv /\ NoWrap
           /\ Astray \/ Ahead \/ Over
           /\ ReportsAreMissing

(* The numbers below e of session s that neither arrived nor were reported. *)
Gone(s, e, arrived, reported) ==
    {n \in 0 .. e - 1 : /\ <<s, n>> \notin arrived
                        /\ \A r \in reported : ~Covers(r, s, n)}

Overlooked(e) == Gone(sid, e, got, reports)

(* While no end of session is lost, the detector is in the sender's session *)
(* as soon as that has a packet, and what it overlooked of it and how far   *)
(* it runs ahead of it are together no more than the packets and the        *)
(* repeated messages that made it.                                          *)
SyncInv ==
    /\ sid # SID_MOD => sid - sid_q <= FirstSid
    /\ \A h \in last : ~h.eos =>
          /\ h.sid = sid /\ sid_q = sid /\ End(h) <= seq_q
          /\ Cardinality(Overlooked(End(h))) + (seq_q - End(h)) <= count[sid] + again[sid]
    /\ (\A h \in last : h.eos) => seq_q = 0 /\ \A m \in got : m[1] < sid
    /\ \A s \in Sessions : Cardinality(Hidden(s)) <= count[s] + again[s]

HiddenInv == eosLost \/ SyncInv

(***************************************************************************)
(* Arithmetic.                                                              *)
(***************************************************************************)
LEMMA Bounds ==
    /\ SEQ_MOD \in Nat \ {0} /\ SID_MOD \in Nat \ {0} /\ SID_GAP_MAX \in Nat \ {0}
    /\ MaxSeq \in Nat /\ MaxCnt \in Nat /\ MaxPackets \in Nat
    /\ FirstSid \in Nat /\ LastSid \in Nat /\ FirstSid <= LastSid
    /\ LastSid < SID_MOD
  BY WidthAssumption, BoundAssumption

LEMMA ModSmall == ASSUME NEW N \in Nat \ {0}, NEW i \in 0 .. N - 1
                  PROVE  i % N = i
  BY SMT

LEMMA ModNext == ASSUME NEW N \in Nat \ {0}, NEW i \in 1 .. N
                 PROVE  i % N = IF i = N THEN 0 ELSE i
  BY SMT

LEMMA ModIn == ASSUME NEW N \in Nat \ {0}, NEW i \in Nat
               PROVE  i % N \in 0 .. N - 1
  BY SMT

LEMMA GapGrows == ASSUME NEW a \in Nat, NEW b \in Nat, NEW c \in Nat, NEW g \in Nat,
                         a - c >= g, a <= b
                  PROVE  b - c >= g
  BY SMT

LEMMA TimesMono == ASSUME NEW a \in Nat, NEW b \in Nat, NEW c \in Nat, a <= b
                   PROVE  a * c \in Nat /\ b * c \in Nat /\ a * c <= b * c
<1>1. PICK d \in Nat : b = a + d
  <2>1. b - a \in Nat /\ b = a + (b - a)
    OBVIOUS
  <2>. QED
    BY <2>1
<1>2. b * c = a * c + d * c
  BY <1>1
<1>3. a * c \in Nat /\ d * c \in Nat
  BY <1>1
<1>. QED
  BY <1>1, <1>2, <1>3

(* The budget grows with every packet, and lasts.                           *)
LEMMA BudgetGrows ==
    ASSUME NEW s \in FirstSid .. LastSid, NEW c \in 0 .. MaxPackets
    PROVE  /\ Budget(s, c) \in Nat /\ Budget(s, c) < SEQ_MOD
           /\ MaxSeq <= Budget(s, c)
           /\ Budget(s, c + 1) = Budget(s, c) + MaxCnt + 1
           /\ \A t \in FirstSid .. LastSid : s < t => Budget(s, c) <= Budget(t, 0)
<1>. DEFINE M == MaxPackets
            K == MaxCnt + 1
            All == LastSid + 1 - FirstSid
            X(t) == (t - FirstSid) * M
<1>1. /\ M \in Nat /\ K \in Nat /\ All \in Nat /\ s - FirstSid \in Nat /\ c \in Nat
      /\ c <= M
  BY Bounds
<1>2. ASSUME NEW t \in FirstSid .. LastSid + 1
      PROVE  X(t) \in Nat
  <2>1. t - FirstSid \in Nat
    BY Bounds
  <2>. QED
    BY <1>1, <2>1, TimesMono
<1>3. ASSUME NEW t \in FirstSid .. LastSid + 1, s < t
      PROVE  X(s) + c <= X(t)
  <2>1. s + 1 - FirstSid \in Nat /\ t - FirstSid \in Nat
        /\ s + 1 - FirstSid <= t - FirstSid
    BY <1>3, Bounds
  <2>2. (s + 1 - FirstSid) * M <= X(t)
    BY <1>1, <2>1, TimesMono
  <2>3. (s + 1 - FirstSid) * M = X(s) + M
    <3>1. s + 1 - FirstSid = (s - FirstSid) + 1
      BY Bounds
    <3>2. ((s - FirstSid) + 1) * M = X(s) + M
      BY <1>1
    <3>. QED
      BY <3>1, <3>2
  <2>. QED
    BY <1>1, <1>2, <2>2, <2>3
<1>4. X(LastSid + 1) = All * M
  <2>1. (LastSid + 1) - FirstSid = All
    BY Bounds
  <2>. HIDE DEF All
  <2>. QED
    BY <2>1
<1>. HIDE DEF X, K, M
<1>5. X(s) + c \in Nat /\ X(s) + c <= All * M /\ All * M \in Nat
  BY <1>1, <1>2, <1>3, <1>4, Bounds
<1>6. (X(s) + c) * K \in Nat /\ (X(s) + c) * K <= (All * M) * K
  BY <1>1, <1>5, TimesMono
<1>7. MaxSeq + (All * M) * K < SEQ_MOD
  BY BoundAssumption DEF M, K
<1>8. (X(s) + (c + 1)) * K = (X(s) + c) * K + K
  <2>1. X(s) + (c + 1) = (X(s) + c) + 1
    BY <1>1, <1>2, Bounds
  <2>2. ((X(s) + c) + 1) * K = (X(s) + c) * K + K
    BY <1>1, <1>5
  <2>. QED
    BY <2>1, <2>2
<1>9. ASSUME NEW t \in FirstSid .. LastSid, s < t
      PROVE  (X(s) + c) * K <= (X(t) + 0) * K
  <2>1. X(s) + c <= X(t) + 0 /\ X(t) + 0 \in Nat
    BY <1>2, <1>3, <1>9, Bounds
  <2>. QED
    BY <1>1, <1>5, <2>1, TimesMono
<1>10. \A t, e : Budget(t, e) = MaxSeq + (X(t) + e) * K
  BY DEF Budget, X, K, M
<1>. QED
  <2>1. /\ Budget(s, c) \in Nat /\ Budget(s, c) < SEQ_MOD /\ MaxSeq <= Budget(s, c)
    BY <1>6, <1>7, <1>10, <1>1, <1>5, Bounds
  <2>2. Budget(s, c + 1) = Budget(s, c) + MaxCnt + 1
    BY <1>6, <1>8, <1>10, Bounds DEF K
  <2>3. \A t \in FirstSid .. LastSid : s < t => Budget(s, c) <= Budget(t, 0)
    <3> TAKE t \in FirstSid .. LastSid
    <3> HAVE s < t
    <3>1. X(t) + 0 \in Nat
      BY <1>2, Bounds
    <3>2. (X(t) + 0) * K \in Nat
      BY <1>1, <3>1, TimesMono
    <3>. QED
      BY <1>6, <1>9, <1>10, <3>2, Bounds
  <2>. QED
    BY <2>1, <2>2, <2>3

(***************************************************************************)
(* What the detector does with a packet.                                    *)
(***************************************************************************)
LEMMA Types ==
    ASSUME TypeOK
    PROVE  /\ sid_q \in Nat /\ sid_q < SID_MOD /\ seq_q \in Nat /\ seq_q < SEQ_MOD
           /\ sid \in Nat /\ FirstSid <= sid /\ sid <= LastSid + 1
           /\ seq \in Nat /\ seq <= MaxSeq
           /\ \A s \in Sessions : s \in Nat /\ FirstSid <= s /\ s <= LastSid + 1
           /\ \A s \in Sessions : count[s] \in Nat /\ again[s] \in Nat
  BY Bounds DEF TypeOK, Sessions, Numbers

LEMMA HeaderTypes ==
    ASSUME NEW h \in Header
    PROVE  /\ h.sid \in Nat /\ FirstSid <= h.sid /\ h.sid \in Sessions
           /\ h.seq \in Nat /\ h.seq <= MaxSeq /\ h.cnt \in Nat
           /\ End(h) \in Nat /\ h.seq <= End(h) /\ h.eos \in BOOLEAN
  BY Bounds DEF Header, Sessions, Numbers, End

LEMMA LastTypes ==
    ASSUME TypeOK, NEW h \in last
    PROVE  /\ h \in Header
           /\ h.sid \in Nat /\ FirstSid <= h.sid /\ h.sid \in Sessions
           /\ h.seq \in Nat /\ h.seq <= MaxSeq /\ h.cnt \in Nat
           /\ End(h) \in Nat /\ h.seq <= End(h) /\ h.eos \in BOOLEAN
<1>1. h \in Header
  BY DEF TypeOK
<1>. QED
  BY <1>1, HeaderTypes

(* The detector compares sessions by their distance; its id wraps only with *)
(* the end of the last session there is.                                    *)
LEMMA SidStep ==
    ASSUME TypeOK, NEW h \in Header, h.sid <= LastSid, sid_q <= h.sid
    PROVE  /\ SidLt(h) <=> sid_q < h.sid /\ h.sid - sid_q < SID_GAP_MAX
           /\ h.eos => SidNext(h) = IF sid_q + 1 = SID_MOD THEN 0 ELSE sid_q + 1
           /\ ~h.eos => SidNext(h) = IF SidLt(h) THEN h.sid ELSE sid_q
<1>1. /\ h.sid - sid_q \in 0 .. SID_MOD - 1 /\ sid_q + 1 \in 1 .. SID_MOD
      /\ SID_MOD \in Nat \ {0}
  BY Bounds, Types, HeaderTypes
<1>2. (h.sid - sid_q) % SID_MOD = h.sid - sid_q
  BY <1>1, ModSmall
<1>3. (sid_q + 1) % SID_MOD = IF sid_q + 1 = SID_MOD THEN 0 ELSE sid_q + 1
  BY <1>1, ModNext
<1>. QED
  BY <1>2, <1>3 DEF SidLt, SidNext

(* A data packet that is no earlier than the last.                          *)
DataPacket(h) ==
    /\ h \in Header /\ ~h.eos /\ h.sid <= LastSid
    /\ h.cnt <= MaxCnt /\ End(h) <= MaxSeq
    /\ count[h.sid] < MaxPackets
    /\ \A l \in last : l.sid <= h.sid

LEMMA DataSeq ==
    ASSUME TypeOK, NoWrap, NEW h, DataPacket(h)
    PROVE  /\ SeqNext(h) = IF seq_q < h.seq THEN End(h) + 1 ELSE seq_q + h.cnt + 1
           /\ SeqNext(h) <= Budget(h.sid, count[h.sid] + 1)
<1>. DEFINE c == count[h.sid]
            s == h.sid
            v == IF seq_q < h.seq THEN End(h) + 1 ELSE seq_q + h.cnt + 1
<1>1. /\ s \in FirstSid .. LastSid /\ s \in Sessions /\ h.seq \in Nat /\ h.cnt \in Nat
      /\ End(h) \in Nat /\ h.cnt <= MaxCnt /\ End(h) <= MaxSeq /\ ~h.eos
  BY Bounds, HeaderTypes DEF DataPacket
<1>2. c \in 0 .. MaxPackets /\ c + 1 \in 0 .. MaxPackets
  BY <1>1, Types, Bounds DEF DataPacket
<1>3. /\ Budget(s, c) \in Nat /\ MaxSeq <= Budget(s, c)
      /\ Budget(s, c + 1) = Budget(s, c) + MaxCnt + 1
      /\ Budget(s, c + 1) < SEQ_MOD
  BY <1>1, <1>2, BudgetGrows
<1>4. seq_q <= Budget(s, c)
  <2>1. CASE last = {}
    BY <1>3, <2>1, Types, Bounds DEF NoWrap
  <2>2. ASSUME NEW l \in last PROVE seq_q <= Budget(s, c)
    <3>1. seq_q <= Budget(l.sid, count[l.sid]) /\ l.sid <= s
      BY DEF NoWrap, DataPacket
    <3>2. CASE l.sid = s
      BY <3>1, <3>2
    <3>3. CASE l.sid # s
      <4>1. /\ l.sid \in FirstSid .. LastSid /\ l.sid < s
            /\ count[l.sid] \in 0 .. MaxPackets
        BY <1>1, <3>1, <3>3, LastTypes, Types, Bounds DEF NoWrap
      <4>2. c = 0
        BY <1>1, <4>1 DEF NoWrap
      <4>3. /\ Budget(l.sid, count[l.sid]) \in Nat
            /\ Budget(l.sid, count[l.sid]) <= Budget(s, 0)
        BY <1>1, <4>1, BudgetGrows
      <4>. QED
        BY <1>3, <3>1, <4>2, <4>3, Types
    <3>. QED
      BY <3>2, <3>3
  <2>. QED
    BY <2>1, <2>2
<1>5. v \in 0 .. SEQ_MOD - 1 /\ v <= Budget(s, c + 1)
  BY <1>1, <1>3, <1>4, Types, Bounds
<1>6. v % SEQ_MOD = v
  BY <1>5, Bounds, ModSmall
<1>7. SeqNext(h) = v % SEQ_MOD
  BY <1>1 DEF SeqNext, SeqLt, End
<1>. QED
  BY <1>5, <1>6, <1>7

LEMMA DataWrap ==
    ASSUME TypeOK, NoWrap, NEW h, DataPacket(h), Receive(h)
    PROVE  NoWrap'
<1>. DEFINE c == count[h.sid]
<1>1. /\ h.sid \in Sessions /\ h.sid \in Nat /\ c \in Nat /\ c + 1 <= MaxPackets
      /\ count \in [Sessions -> Nat]
  BY HeaderTypes, Types, Bounds DEF DataPacket, TypeOK
<1>2. /\ last' = {h} /\ seq_q' = SeqNext(h)
      /\ \A s \in Sessions : count'[s] = IF s = h.sid THEN c + 1 ELSE count[s]
  BY <1>1 DEF Receive, Clock, DataPacket
<1>3. \A s \in Sessions : h.sid < s => count[s] = 0
  <2>1. ASSUME NEW s \in Sessions, h.sid < s, NEW l \in last
        PROVE  count[s] = 0
    <3>1. l.sid < s
      BY <1>1, <2>1, LastTypes, Types DEF DataPacket
    <3>. QED
      BY <3>1 DEF NoWrap
  <2>. QED
    BY <2>1 DEF NoWrap
<1>4. \A s \in Sessions : count'[s] <= MaxPackets
  BY <1>1, <1>2 DEF NoWrap
<1>5. \A s \in Sessions : h.sid < s => count'[s] = 0
  BY <1>1, <1>2, <1>3, Types
<1>6. seq_q' <= Budget(h.sid, count'[h.sid])
  BY <1>1, <1>2, DataSeq
<1>. QED
  BY <1>2, <1>4, <1>5, <1>6 DEF NoWrap, Budget

LEMMA EosWrap ==
    ASSUME TypeOK, NoWrap, NEW h \in Header, h.eos, h.sid <= LastSid,
           \A l \in last : l.sid <= h.sid, Receive(h)
    PROVE  NoWrap'
<1>1. /\ last' = {h} /\ seq_q' = 0 /\ count' = count
  BY DEF Receive, Clock, SeqNext
<1>2. \A s \in Sessions : h.sid < s => count[s] = 0
  <2>1. ASSUME NEW s \in Sessions, h.sid < s, NEW l \in last
        PROVE  count[s] = 0
    <3>1. l.sid < s
      BY <2>1, LastTypes, HeaderTypes, Types
    <3>. QED
      BY <3>1 DEF NoWrap
  <2>. QED
    BY <2>1 DEF NoWrap
<1>3. 0 <= Budget(h.sid, count[h.sid])
  <2>1. h.sid \in FirstSid .. LastSid /\ count[h.sid] \in 0 .. MaxPackets
    BY HeaderTypes, Types, Bounds DEF NoWrap
  <2>2. Budget(h.sid, count[h.sid]) \in Nat
    BY <2>1, BudgetGrows
  <2>. QED
    BY <2>2
<1>. QED
  BY <1>1, <1>2, <1>3 DEF NoWrap, Budget

(***************************************************************************)
(* Packets arrive in order.                                                 *)
(***************************************************************************)

(* A packet that may arrive: not before the last one nor inside a report,   *)
(* and beyond the window if the feed is lost.                               *)
Arrives(h) ==
    /\ h \in Header /\ h.sid <= LastSid /\ sid_q <= h.sid
    /\ h.cnt <= MaxCnt /\ End(h) <= MaxSeq
    /\ h.eos => h.cnt = 0
    /\ \A l \in last : l.sid <= h.sid
    /\ \A m \in got : Before(m[1], m[2], h.sid, End(h))
    /\ \A r \in reports : ~Before(h.sid, h.seq, r.endSid, r.endSeq)
    /\ Astray => h.sid - sid_q >= SID_GAP_MAX

LEMMA GotTypes ==
    ASSUME TypeOK, NEW m \in got
    PROVE  m[1] \in Nat /\ m[2] \in Nat /\ m = <<m[1], m[2]>>
  BY Bounds DEF TypeOK, Sessions, Numbers

LEMMA ReportTypes ==
    ASSUME TypeOK, NEW r \in reports
    PROVE  r.sid \in Nat /\ r.seq \in Nat /\ r.endSid \in Nat /\ r.endSeq \in Nat
  BY Bounds DEF TypeOK, Report, Sessions, Numbers

(* The order of messages, sessions first.                                   *)
LEMMA BeforeOrder ==
    ASSUME NEW a \in Nat, NEW b \in Nat, NEW c \in Nat, NEW d \in Nat,
           NEW e \in Nat, NEW f \in Nat
    PROVE  /\ Before(a, b, c, d) /\ ~Before(e, f, c, d) => Before(a, b, e, f)
           /\ ~Before(a, b, c, d) /\ ~Before(e, f, a, b) => ~Before(e, f, c, d)
           /\ ~Before(a, b, c, d) => c <= a
  BY DEF Before

LEMMA FreshArrives ==
    ASSUME MoldInv, NEW h \in Header, h.sid = sid, h.seq = seq, sid <= LastSid,
           h.cnt <= MaxCnt, End(h) <= MaxSeq, h.eos => h.cnt = 0
    PROVE  Arrives(h)
<1>. USE DEF MoldInv
<1>1. /\ h.sid \in Nat /\ h.seq \in Nat /\ End(h) \in Nat /\ h.seq <= End(h)
      /\ sid \in Nat /\ seq \in Nat /\ sid_q <= sid
  BY HeaderTypes, Types DEF LinkInv
<1>2. ASSUME NEW l \in last
      PROVE  l.sid <= h.sid
  BY <1>1, LastTypes, BeforeOrder DEF LinkInv
<1>3. ASSUME NEW m \in got
      PROVE  Before(m[1], m[2], h.sid, End(h))
  <2>1. PICK l \in last : Before(m[1], m[2], l.sid, End(l))
    BY DEF LinkInv
  <2>2. ~Before(sid, seq, l.sid, End(l))
    BY DEF LinkInv
  <2>3. /\ m[1] \in Nat /\ m[2] \in Nat
        /\ l.sid \in Nat /\ End(l) \in Nat
    BY LastTypes, GotTypes
  <2>4. Before(m[1], m[2], sid, seq)
    BY <1>1, <2>1, <2>2, <2>3 DEF Before
  <2>. QED
    BY <1>1, <2>3, <2>4 DEF Before
<1>4. \A r \in reports : ~Before(h.sid, h.seq, r.endSid, r.endSeq)
  BY DEF LinkInv
<1>5. Astray => h.sid - sid_q >= SID_GAP_MAX
  BY DEF Astray
<1>. QED
  BY <1>1, <1>2, <1>3, <1>4, <1>5 DEF Arrives

LEMMA AgainArrives ==
    ASSUME MoldInv, NEW h \in last, ~h.eos
    PROVE  Arrives(h)
<1>. USE DEF MoldInv
<1>1. last = {h}
  BY DEF TypeOK
<1>2. /\ h \in Header /\ h.sid <= LastSid /\ sid_q <= h.sid
      /\ h.cnt <= MaxCnt /\ End(h) <= MaxSeq
  BY LastTypes DEF LinkInv
<1>3. /\ \A l \in last : l.sid <= h.sid
      /\ \A m \in got : Before(m[1], m[2], h.sid, End(h))
      /\ \A r \in reports : ~Before(h.sid, h.seq, r.endSid, r.endSeq)
  BY <1>1, LastTypes DEF LinkInv
<1>. QED
  BY <1>2, <1>3 DEF Arrives, Astray

(***************************************************************************)
(* What a packet that arrives does to each part of the invariant.           *)
(***************************************************************************)

(* A report of this cycle ends where the packet starts.                     *)
LEMMA NewReports ==
    ASSUME TypeOK, NEW h, Arrives(h), NEW r \in Reports(h)
    PROVE  /\ r = [sid |-> sid_q, seq |-> seq_q, endSid |-> h.sid, endSeq |-> h.seq]
           /\ h.sid - sid_q < SID_GAP_MAX
           /\ r \in Report
<1>1. /\ h \in Header /\ h.sid <= LastSid /\ sid_q <= h.sid /\ h.sid \in Nat
      /\ h.sid \in Sessions /\ h.seq \in Numbers
  BY HeaderTypes DEF Arrives, Header
<1>2. CASE r \in MissSeq(h)
  BY <1>1, <1>2, Bounds, Types DEF MissSeq, Report, TypeOK
<1>3. CASE r \in MissSid(h)
  <2>1. SidLt(h) /\ r = [sid |-> sid_q, seq |-> seq_q, endSid |-> h.sid, endSeq |-> h.seq]
    BY <1>3 DEF MissSid
  <2>2. h.sid - sid_q < SID_GAP_MAX
    BY <1>1, <2>1, SidStep
  <2>. QED
    BY <1>1, <2>1, <2>2 DEF Report, TypeOK
<1>. QED
  BY <1>2, <1>3 DEF Reports

LEMMA ReceiveTypes ==
    ASSUME TypeOK, NEW h, Arrives(h), Receive(h),
           sid' \in Sessions, seq' \in Numbers,
           again' \in [Sessions -> Nat], eosLost' \in BOOLEAN
    PROVE  TypeOK'
<1>1. h \in Header /\ h.sid \in Sessions /\ h.seq \in Nat /\ End(h) <= MaxSeq /\ h.cnt \in Nat
  BY HeaderTypes DEF Arrives
<1>2. sid_q' \in 0 .. SID_MOD - 1
  <2>1. sid_q + 1 \in Nat /\ SID_MOD \in Nat \ {0}
    BY Types, Bounds
  <2>2. (sid_q + 1) % SID_MOD \in 0 .. SID_MOD - 1
    BY <2>1, ModIn
  <2>3. h.sid \in 0 .. SID_MOD - 1
    BY <1>1, Types, Bounds DEF Arrives
  <2>4. sid_q \in 0 .. SID_MOD - 1
    BY DEF TypeOK
  <2>. QED
    BY <2>2, <2>3, <2>4 DEF Receive, Clock, SidNext
<1>3. seq_q' \in 0 .. SEQ_MOD - 1
  <2>. DEFINE v == IF SeqLt(h) THEN h.seq + h.cnt + 1 ELSE seq_q + h.cnt + 1
  <2>1. v \in Nat /\ 0 \in 0 .. SEQ_MOD - 1
    BY <1>1, Types, Bounds
  <2>2. v % SEQ_MOD \in 0 .. SEQ_MOD - 1
    BY <2>1, Bounds, ModIn
  <2>. QED
    BY <2>1, <2>2 DEF Receive, Clock, SeqNext
<1>4. last' \subseteq Header /\ \A g, l \in last' : g = l
  BY <1>1 DEF Receive
<1>5. got' \subseteq Sessions \X Numbers
  <2>1. \A n \in h.seq .. h.seq + h.cnt - 1 : n \in Numbers
    BY <1>1, Bounds DEF End, Numbers
  <2>. QED
    BY <1>1, <2>1 DEF Receive, TypeOK
<1>6. count' \in [Sessions -> Nat]
  BY <1>1 DEF Receive, TypeOK
<1>7. reports' \subseteq Report
  BY NewReports DEF Receive, TypeOK
<1>. QED
  BY <1>2, <1>3, <1>4, <1>5, <1>6, <1>7 DEF TypeOK

LEMMA ReceiveMissing ==
    ASSUME TypeOK, ReportsAreMissing, Astray \/ Ahead, NEW h, Arrives(h), Receive(h)
    PROVE  ReportsAreMissing'
<1> SUFFICES ASSUME NEW r \in reports', NEW m \in got'
    PROVE  ~Covers(r, m[1], m[2])
  BY DEF ReportsAreMissing, Covers, Before
<1>1. /\ h.sid \in Nat /\ h.seq \in Nat /\ h.cnt \in Nat
  BY HeaderTypes DEF Arrives
<1>2. \/ m \in got
      \/ m[1] = h.sid /\ m[2] \in Nat /\ h.seq <= m[2]
  <2>1. CASE m \in {<<h.sid, n>> : n \in h.seq .. h.seq + h.cnt - 1}
    BY <1>1, <2>1
  <2>. QED
    BY <2>1 DEF Receive
<1>3. r \in reports \/ r \in Reports(h)
  BY DEF Receive
<1>4. CASE r \in reports /\ m \in got
  BY <1>4 DEF ReportsAreMissing
<1>5. CASE r \in reports /\ m[1] = h.sid /\ m[2] \in Nat /\ h.seq <= m[2]
  <2>1. ~Before(h.sid, h.seq, r.endSid, r.endSeq)
    BY <1>5 DEF Arrives
  <2>. QED
    BY <1>1, <1>5, <2>1, ReportTypes DEF Before, Covers
<1>6. CASE r \in Reports(h) /\ m \in got
  <2>1. Before(m[1], m[2], r.sid, r.seq)
    BY <1>6, NewReports, Types, HeaderTypes, Bounds DEF Arrives, Ahead
  <2>. QED
    BY <2>1 DEF Covers
<1>7. CASE r \in Reports(h) /\ m[1] = h.sid /\ m[2] \in Nat /\ h.seq <= m[2]
  <2>1. r.endSid = h.sid /\ r.endSeq = h.seq
    BY <1>7, NewReports
  <2>. QED
    BY <1>1, <1>7, <2>1 DEF Covers, Before
<1>. QED
  BY <1>2, <1>3, <1>4, <1>5, <1>6, <1>7

(* A data packet in the window is followed; beyond it the feed is lost.     *)
LEMMA DataFollow ==
    ASSUME TypeOK, NoWrap, Astray \/ Ahead, NEW h, Arrives(h), DataPacket(h),
           Receive(h), sid' \in Nat, h.sid <= sid'
    PROVE  (Astray \/ Ahead)'
<1>1. /\ h \in Header /\ ~h.eos /\ h.sid <= LastSid /\ sid_q <= h.sid
      /\ h.sid \in Nat /\ h.seq \in Nat /\ h.cnt \in Nat /\ End(h) \in Nat
      /\ sid_q \in Nat /\ seq_q \in Nat /\ End(h) = h.seq + h.cnt
      /\ SID_GAP_MAX \in Nat
  BY HeaderTypes, Types, Bounds DEF Arrives, DataPacket, End
<1>2. last' = {h} /\ sid_q' = SidNext(h) /\ seq_q' = SeqNext(h)
  BY DEF Receive, Clock
<1>3. SeqNext(h) = IF seq_q < h.seq THEN End(h) + 1 ELSE seq_q + h.cnt + 1
  BY DataSeq
<1>4. CASE h.sid - sid_q >= SID_GAP_MAX
  <2>1. sid_q' = sid_q
    BY <1>1, <1>2, <1>4, SidStep
  <2>2. sid' - sid_q' >= SID_GAP_MAX
    <3>1. /\ sid' \in Nat /\ h.sid \in Nat /\ sid_q \in Nat /\ SID_GAP_MAX \in Nat
          /\ h.sid <= sid' /\ h.sid - sid_q >= SID_GAP_MAX
      BY <1>1, <1>4
    <3>2. sid' - sid_q >= SID_GAP_MAX
      BY <3>1, GapGrows
    <3>. QED
      BY <2>1, <3>2
  <2>. QED
    BY <1>2, <1>4, <2>1, <2>2 DEF Astray
<1>5. CASE ~(h.sid - sid_q >= SID_GAP_MAX)
  <2>1. Ahead
    BY <1>5 DEF Arrives
  <2>2. sid_q' = h.sid
    BY <1>1, <1>2, <1>5, SidStep
  <2>3. End(h) < seq_q' /\ seq_q < seq_q' /\ seq_q' \in Nat
    BY <1>1, <1>2, <1>3
  <2>4. ASSUME NEW m \in got'
        PROVE  Before(m[1], m[2], sid_q', seq_q')
    <3>1. CASE m \in got
      <4>1. /\ Before(m[1], m[2], sid_q, seq_q)
            /\ m[1] \in Nat /\ m[2] \in Nat
        BY <2>1, <3>1, GotTypes DEF Ahead
      <4>. QED
        BY <1>1, <2>2, <2>3, <4>1 DEF Before
    <3>2. CASE m \in {<<h.sid, n>> : n \in h.seq .. h.seq + h.cnt - 1}
      <4>1. m[1] = h.sid /\ m[2] \in Nat /\ m[2] < End(h)
        BY <1>1, <3>2
      <4>. QED
        BY <1>1, <2>2, <2>3, <4>1 DEF Before
    <3>. QED
      BY <3>1, <3>2 DEF Receive
  <2>5. \A l \in last' : l.sid = sid_q' /\ End(l) <= seq_q'
    BY <1>1, <1>2, <2>2, <2>3
  <2>. QED
    BY <2>4, <2>5 DEF Ahead, Before, End
<1>. QED
  BY <1>4, <1>5

(* The end of a session leaves the distance to the sender as it was, or     *)
(* there is no session after it.                                            *)
LEMMA EosFollow ==
    ASSUME TypeOK, Astray \/ Ahead, NEW h, Arrives(h), h.eos, h.sid = sid,
           Receive(h), sid' = sid + 1
    PROVE  (Astray \/ Ahead \/ Over)'
<1>1. /\ h \in Header /\ h.sid <= LastSid /\ sid_q <= h.sid
      /\ sid \in Nat /\ sid_q \in Nat /\ seq_q \in Nat /\ h.cnt = 0 /\ h.seq \in Nat
      /\ SID_GAP_MAX \in Nat
  BY HeaderTypes, Types, Bounds DEF Arrives
<1>2. /\ last' = {h} /\ seq_q' = 0
      /\ sid_q' = IF sid_q + 1 = SID_MOD THEN 0 ELSE sid_q + 1
  BY <1>1, SidStep DEF Receive, Clock, SeqNext
<1>3. got' = got
  <2>1. {<<h.sid, n>> : n \in h.seq .. h.seq + h.cnt - 1} = {}
    BY <1>1
  <2>. QED
    BY <2>1 DEF Receive
<1>6. CASE sid_q + 1 = SID_MOD
  <2>1. sid' = SID_MOD
    BY <1>1, <1>6, Bounds
  <2>. QED
    BY <1>2, <2>1 DEF Over
<1>4. CASE Astray /\ sid_q + 1 # SID_MOD
  BY <1>1, <1>2, <1>4 DEF Astray
<1>5. CASE Ahead /\ sid_q + 1 # SID_MOD
  <2>1. ASSUME NEW m \in got
        PROVE  Before(m[1], m[2], sid_q', seq_q')
    <3>1. /\ Before(m[1], m[2], sid_q, seq_q)
          /\ m[1] \in Nat /\ m[2] \in Nat
      BY <1>5, GotTypes DEF Ahead
    <3>. QED
      BY <1>1, <1>2, <1>5, <3>1 DEF Before
  <2>. QED
    BY <1>2, <1>3, <2>1 DEF Ahead, Before, End
<1>. QED
  BY <1>4, <1>5, <1>6

LEMMA ReceiveLink ==
    ASSUME TypeOK, LinkInv, NEW h, Arrives(h), Receive(h),
           sid' \in Nat, seq' \in Nat, ~Before(sid', seq', h.sid, End(h)),
           h.eos => h.sid < sid' /\ sid_q' <= sid',
           ~h.eos => sid_q' <= h.sid
    PROVE  LinkInv'
<1>1. /\ h \in Header /\ h.sid <= LastSid /\ End(h) <= MaxSeq /\ h.cnt <= MaxCnt
      /\ h.eos => h.cnt = 0
      /\ h.sid \in Nat /\ h.seq \in Nat /\ h.cnt \in Nat /\ End(h) \in Nat
      /\ h.seq <= End(h) /\ h.eos \in BOOLEAN /\ sid_q \in Nat
  BY HeaderTypes, Types DEF Arrives
<1>2. h.sid <= sid' /\ last' = {h} /\ sid_q' <= sid'
  <2>1. h.sid <= sid'
    BY <1>1 DEF Before
  <2>2. sid_q' \in Int
    <3>1. sid_q' = h.sid \/ sid_q' = sid_q \/ sid_q' = (sid_q + 1) % SID_MOD
      BY DEF Receive, Clock, SidNext
    <3>2. (sid_q + 1) % SID_MOD \in 0 .. SID_MOD - 1
      BY <1>1, Bounds, ModIn
    <3>. QED
      BY <1>1, <3>1, <3>2
  <2>. QED
    BY <1>1, <2>1, <2>2 DEF Receive
<1>3. ASSUME NEW m \in got'
      PROVE  Before(m[1], m[2], h.sid, End(h))
  <2>1. CASE m \in got
    BY <2>1 DEF Arrives
  <2>2. CASE m \in {<<h.sid, n>> : n \in h.seq .. h.seq + h.cnt - 1}
    <3>1. m[1] = h.sid /\ m[2] < End(h)
      BY <1>1, <2>2 DEF End
    <3>. QED
      BY <3>1 DEF Before
  <2>. QED
    BY <2>1, <2>2 DEF Receive
<1>4. ASSUME NEW r \in reports'
      PROVE  /\ ~Before(h.sid, h.seq, r.endSid, r.endSeq)
             /\ r.endSid \in Nat /\ r.endSeq \in Nat
  <2>1. CASE r \in reports
    BY <2>1, ReportTypes DEF Arrives
  <2>2. CASE r \in Reports(h)
    <3>1. r.endSid = h.sid /\ r.endSeq = h.seq
      BY <2>2, NewReports
    <3>. QED
      BY <1>1, <3>1 DEF Before
  <2>. QED
    BY <2>1, <2>2 DEF Receive
<1>5. ASSUME NEW r \in reports'
      PROVE  ~Before(sid', seq', r.endSid, r.endSeq)
  <2>1. ~Before(sid', seq', h.sid, h.seq)
    BY <1>1 DEF Before
  <2>2. /\ ~Before(h.sid, h.seq, r.endSid, r.endSeq)
        /\ r.endSid \in Nat /\ r.endSeq \in Nat
    BY <1>4
  <2>. QED
    BY <1>1, <2>1, <2>2 DEF Before
<1>. QED
  BY <1>1, <1>2, <1>3, <1>4, <1>5 DEF LinkInv, Before, End

(***************************************************************************)
(* The actions.                                                             *)
(***************************************************************************)
LEMMA DataStep ==
    ASSUME MoldInv, Astray \/ Ahead, NEW h, Arrives(h), DataPacket(h), Receive(h),
           sid' \in Sessions, seq' \in Numbers,
           again' \in [Sessions -> Nat], eosLost' \in BOOLEAN,
           ~Before(sid', seq', h.sid, End(h))
    PROVE  MoldInv'
<1>. USE DEF MoldInv
<1>1. /\ sid' \in Nat /\ seq' \in Nat /\ h.sid \in Nat /\ End(h) \in Nat /\ ~h.eos
      /\ h \in Header /\ h.sid <= LastSid /\ sid_q <= h.sid
  BY Bounds, HeaderTypes DEF Arrives, DataPacket, Sessions, Numbers
<1>2. h.sid <= sid'
  BY <1>1 DEF Before
<1>3. sid_q' <= h.sid
  BY <1>1, SidStep DEF Receive, Clock
<1>4. TypeOK'
  BY ReceiveTypes
<1>5. LinkInv'
  BY <1>1, <1>3, ReceiveLink
<1>6. NoWrap'
  BY DataWrap
<1>7. (Astray \/ Ahead)'
  BY <1>1, <1>2, DataFollow
<1>8. ReportsAreMissing'
  BY ReceiveMissing
<1>. QED
  BY <1>4, <1>5, <1>6, <1>7, <1>8

(* A lost packet moves only the sender.                                     *)
LEMMA LoseStep ==
    ASSUME MoldInv, Astray \/ Ahead, Lose, UNCHANGED again, eosLost' \in BOOLEAN,
           sid' \in Sessions, seq' \in Numbers, sid <= sid',
           ~Before(sid', seq', sid, seq)
    PROVE  MoldInv'
<1>. USE DEF MoldInv
<1>1. /\ sid_q' = sid_q /\ seq_q' = seq_q /\ reports' = reports /\ got' = got
      /\ count' = count /\ last' = last /\ again' = again
  BY DEF Lose, detVars
<1>2. /\ sid' \in Nat /\ seq' \in Nat /\ sid \in Nat /\ seq \in Nat /\ sid_q \in Nat
      /\ SID_GAP_MAX \in Nat
  BY Bounds, Types DEF Sessions, Numbers
<1>3. TypeOK'
  BY <1>1 DEF TypeOK
<1>4. LinkInv'
  <2>1. sid_q' <= sid'
    BY <1>1, <1>2 DEF LinkInv
  <2>2. ASSUME NEW h \in last
        PROVE  /\ ~Before(sid', seq', h.sid, End(h))
               /\ h.eos => h.sid < sid'
    BY <1>2, LastTypes DEF LinkInv, Before
  <2>3. ASSUME NEW r \in reports
        PROVE  ~Before(sid', seq', r.endSid, r.endSeq)
    BY <1>2, ReportTypes DEF LinkInv, Before
  <2>. QED
    BY <1>1, <2>1, <2>2, <2>3 DEF LinkInv, Before, End
<1>5. NoWrap'
  BY <1>1 DEF NoWrap, Budget
<1>6. (Astray \/ Ahead)'
  <2>1. CASE Astray
    <3>1. sid - sid_q >= SID_GAP_MAX
      BY <2>1 DEF Astray
    <3>2. sid' - sid_q >= SID_GAP_MAX
      BY <1>2, <3>1, GapGrows
    <3>. QED
      BY <1>1, <2>1, <3>2 DEF Astray
  <2>2. CASE Ahead
    BY <1>1, <2>2 DEF Ahead, Before, End
  <2>. QED
    BY <2>1, <2>2
<1>7. ReportsAreMissing'
  BY <1>1 DEF ReportsAreMissing, Covers, Before
<1>. QED
  BY <1>3, <1>4, <1>5, <1>6, <1>7

LEMMA InitMold == Init => MoldInv
<1> SUFFICES ASSUME Init PROVE MoldInv
  OBVIOUS
<1>1. TypeOK
  <2>1. FirstSid \in Sessions /\ 0 \in Numbers
    BY Bounds DEF Sessions, Numbers
  <2>2. 0 \in 0 .. SID_MOD - 1 /\ 0 \in 0 .. SEQ_MOD - 1
    BY Bounds
  <2>3. count \in [Sessions -> Nat] /\ again \in [Sessions -> Nat]
    BY DEF Init
  <2>. QED
    BY <2>1, <2>2, <2>3 DEF Init, DetInit, TypeOK
<1>2. LinkInv
  BY Bounds DEF Init, DetInit, LinkInv
<1>3. NoWrap
  BY Bounds DEF Init, DetInit, NoWrap
<1>4. Ahead
  BY DEF Init, Ahead
<1>5. ReportsAreMissing
  BY DEF Init, ReportsAreMissing
<1>. QED
  BY <1>1, <1>2, <1>3, <1>4, <1>5 DEF MoldInv

LEMMA SendMold ==
    ASSUME MoldInv, NEW n \in 0 .. MaxCnt, SendPacket(n)
    PROVE  MoldInv'
<1>. DEFINE h == [sid |-> sid, seq |-> seq, cnt |-> n, eos |-> FALSE]
<1>1. /\ sid \in Nat /\ seq \in Nat /\ sid \in Sessions /\ n \in Nat
      /\ seq \in Numbers /\ sid <= LastSid
      /\ again \in [Sessions -> Nat] /\ eosLost \in BOOLEAN
  BY Bounds, Types DEF MoldInv, TypeOK, SendPacket
<1>2. /\ sid' = sid /\ seq' = seq + n /\ seq' <= MaxSeq /\ again' = again
      /\ eosLost' = eosLost
  BY DEF SendPacket
<1>3. seq' \in Numbers /\ sid' \in Sessions
  BY <1>1, <1>2, Bounds DEF Numbers
<1>6. Astray \/ Ahead
  BY <1>1, Bounds DEF MoldInv, Over
<1>4. CASE Lose
  BY <1>1, <1>2, <1>3, <1>4, <1>6, LoseStep DEF Before
<1>5. CASE Receive(h)
  <2>1. /\ h \in Header /\ h.sid = sid /\ h.seq = seq /\ h.cnt = n /\ ~h.eos
        /\ h.eos = FALSE /\ End(h) = seq + n
    BY <1>1 DEF Header, End
  <2>. HIDE DEF h
  <2>2. Arrives(h)
    BY <1>1, <1>2, <2>1, FreshArrives
  <2>3. DataPacket(h)
    BY <1>1, <1>5, <2>1, <2>2 DEF DataPacket, Arrives, Receive
  <2>4. ~Before(sid', seq', h.sid, End(h))
    BY <1>1, <1>2, <2>1 DEF Before
  <2>. QED
    BY <1>1, <1>2, <1>3, <1>5, <1>6, <2>2, <2>3, <2>4, DataStep
<1>. QED
  BY <1>4, <1>5 DEF SendPacket

LEMMA EndMold ==
    ASSUME MoldInv, EndSession
    PROVE  MoldInv'
<1>. DEFINE h == [sid |-> sid, seq |-> seq, cnt |-> 0, eos |-> TRUE]
<1>1. /\ sid \in Nat /\ seq \in Nat /\ sid \in Sessions /\ sid <= LastSid
      /\ seq \in Numbers /\ seq <= MaxSeq /\ sid_q \in Nat
      /\ again \in [Sessions -> Nat] /\ eosLost \in BOOLEAN
  BY Bounds, Types DEF MoldInv, TypeOK, EndSession
<1>2. sid' = sid + 1 /\ seq' = 0 /\ again' = again
  BY DEF EndSession
<1>3. seq' \in Numbers /\ sid' \in Sessions /\ sid' \in Nat /\ seq' \in Nat
  BY <1>1, <1>2, Bounds DEF Numbers, Sessions
<1>6. Astray \/ Ahead
  BY <1>1, Bounds DEF MoldInv, Over
<1>4. CASE Lose /\ eosLost' = TRUE
  <2>1. ~Before(sid', seq', sid, seq) /\ sid <= sid'
    BY <1>1, <1>2 DEF Before
  <2>. QED
    BY <1>2, <1>3, <1>4, <1>6, <2>1, LoseStep
<1>5. CASE Receive(h) /\ UNCHANGED eosLost
  <2>1. /\ h \in Header /\ h.sid = sid /\ h.seq = seq /\ h.cnt = 0 /\ h.eos
        /\ End(h) = seq
    BY <1>1 DEF Header, End
  <2>. HIDE DEF h
  <2>2. Arrives(h) /\ sid_q <= h.sid
    <3>1. Arrives(h)
      BY <1>1, <2>1, Bounds, FreshArrives
    <3>. QED
      BY <3>1 DEF Arrives
  <2>3. sid_q' = IF sid_q + 1 = SID_MOD THEN 0 ELSE sid_q + 1
    BY <1>1, <1>5, <2>1, <2>2, SidStep DEF MoldInv, Receive, Clock
  <2>4. /\ ~Before(sid', seq', h.sid, End(h)) /\ h.sid < sid' /\ sid_q' <= sid'
    BY <1>1, <1>2, <2>1, <2>2, <2>3 DEF Before
  <2>5. TypeOK'
    BY <1>1, <1>2, <1>3, <1>5, <2>2, ReceiveTypes DEF MoldInv
  <2>6. LinkInv'
    BY <1>3, <1>5, <2>1, <2>2, <2>4, ReceiveLink DEF MoldInv
  <2>7. NoWrap'
    BY <1>5, <2>1, <2>2, EosWrap DEF MoldInv, Arrives
  <2>8. (Astray \/ Ahead \/ Over)'
    BY <1>2, <1>5, <1>6, <2>1, <2>2, EosFollow DEF MoldInv
  <2>9. ReportsAreMissing'
    BY <1>5, <1>6, <2>2, ReceiveMissing DEF MoldInv
  <2>. QED
    BY <2>5, <2>6, <2>7, <2>8, <2>9 DEF MoldInv
<1>. QED
  BY <1>4, <1>5 DEF EndSession

LEMMA DuplicateMold ==
    ASSUME MoldInv, Duplicate
    PROVE  MoldInv'
<1>1. PICK h \in last : /\ ~h.eos /\ Receive(h)
                        /\ again' = [again EXCEPT ![h.sid] = @ + h.cnt]
                        /\ UNCHANGED <<sid, seq, eosLost>>
  BY DEF Duplicate
<1>2. TypeOK
  BY DEF MoldInv
<1>3. /\ h \in Header /\ h.sid \in Sessions /\ h.cnt \in Nat
  BY <1>2, LastTypes
<1>4. again' \in [Sessions -> Nat]
  BY <1>1, <1>2, <1>3 DEF TypeOK
<1>5. /\ sid' \in Sessions /\ seq' \in Numbers /\ eosLost' \in BOOLEAN
      /\ sid' = sid /\ seq' = seq
  BY <1>1, <1>2 DEF TypeOK
<1>6. Arrives(h)
  BY <1>1, AgainArrives
<1>7. DataPacket(h)
  BY <1>1, <1>3, <1>6 DEF DataPacket, Arrives, Receive
<1>8. ~Before(sid, seq, h.sid, End(h))
  BY DEF MoldInv, LinkInv
<1>9. ~Before(sid', seq', h.sid, End(h))
  BY <1>5, <1>8
<1>10. Astray \/ Ahead
  BY <1>1 DEF MoldInv, Over
<1>. QED
  BY <1>1, <1>4, <1>5, <1>6, <1>7, <1>9, <1>10, DataStep

LEMMA NextMold == MoldInv /\ [Next]_vars => MoldInv'
<1> SUFFICES ASSUME MoldInv, [Next]_vars PROVE MoldInv'
  OBVIOUS
<1>1. CASE Next
  BY <1>1, SendMold, EndMold, DuplicateMold DEF Next
<1>2. CASE UNCHANGED vars
  BY <1>2 DEF vars, MoldInv, TypeOK, LinkInv, NoWrap, Budget, Astray, Ahead, Over,
              ReportsAreMissing, Covers, Before, End
<1>. QED
  BY <1>1, <1>2

(* The detector and the link, for every feed and every width: the types hold, *)
(* the detector's number does not wrap, and it is ahead of all that arrived   *)
(* unless the sessions ran out of its window.                                 *)
THEOREM FeedFollowed == Spec => []MoldInv
<1>1. Init => MoldInv
  BY InitMold
<1>2. MoldInv /\ [Next]_vars => MoldInv'
  BY NextMold
<1>. QED
  BY <1>1, <1>2, PTL DEF Spec

(* The type invariant.                                                      *)
THEOREM TypesHold == Spec => []TypeOK
<1>1. MoldInv => TypeOK
  BY DEF MoldInv
<1>. QED
  BY <1>1, FeedFollowed, PTL

(* No report of the detector (miss_msg.v) asks for a message that arrived,  *)
(* before the report or after it.                                           *)
THEOREM OnlyMissingReported == Spec => []ReportsAreMissing
<1>1. MoldInv => ReportsAreMissing
  BY DEF MoldInv
<1>. QED
  BY <1>1, FeedFollowed, PTL

(***************************************************************************)
(* How much the detector overlooks.                                         *)
(***************************************************************************)
LEMMA CardGrows ==
    ASSUME NEW S, IsFiniteSet(S), NEW a \in Nat, NEW b \in Nat, a <= b,
           NEW T, T \subseteq S \cup (a .. b - 1)
    PROVE  /\ IsFiniteSet(T) /\ Cardinality(T) \in Nat /\ Cardinality(S) \in Nat
           /\ Cardinality(T) <= Cardinality(S) + (b - a)
<1>. DEFINE I == a .. b - 1
<1>1. IsFiniteSet(I) /\ Cardinality(I) = b - a
  <2>1. b - 1 \in Int /\ a \in Int
    OBVIOUS
  <2>2. IsFiniteSet(I) /\ Cardinality(I) = IF a > b - 1 THEN 0 ELSE (b - 1) - a + 1
    BY <2>1, FS_Interval
  <2>. QED
    BY <2>1, <2>2
<1>2. T \subseteq S \cup I
  OBVIOUS
<1>. HIDE DEF I
<1>3. /\ IsFiniteSet(S \cup I)
      /\ Cardinality(S \cup I) = Cardinality(S) + Cardinality(I) - Cardinality(S \cap I)
  BY <1>1, FS_Union
<1>4. IsFiniteSet(S \cap I)
  BY <1>1, FS_Intersection
<1>5. IsFiniteSet(T) /\ Cardinality(T) <= Cardinality(S \cup I)
  BY <1>2, <1>3, FS_Subset
<1>6. /\ Cardinality(S) \in Nat /\ Cardinality(I) \in Nat /\ Cardinality(T) \in Nat
      /\ Cardinality(S \cap I) \in Nat /\ Cardinality(S \cup I) \in Nat
  BY <1>1, <1>3, <1>4, <1>5, FS_CardinalityType
<1>. QED
  BY <1>1, <1>3, <1>5, <1>6

LEMMA GoneFinite ==
    ASSUME NEW s, NEW e \in Nat, NEW g, NEW rs
    PROVE  IsFiniteSet(Gone(s, e, g, rs))
<1>1. Gone(s, e, g, rs) \subseteq {} \cup (0 .. e - 1)
  BY DEF Gone
<1>. QED
  BY <1>1, FS_EmptySet, CardGrows

(* A session that gets no message hides no more.                            *)
LEMMA HiddenShrinks ==
    ASSUME TypeOK, NEW s \in Sessions, reports \subseteq reports',
           \A n \in Numbers : <<s, n>> \in got' <=> <<s, n>> \in got
    PROVE  /\ IsFiniteSet(Hidden(s)) /\ Hidden(s)' \subseteq Hidden(s)
           /\ Cardinality(Hidden(s)') <= Cardinality(Hidden(s))
<1>1. Hidden(s)' \subseteq Hidden(s)
  BY DEF Hidden, Covers, Before, Numbers
<1>2. Hidden(s) \subseteq {} \cup (0 .. (MaxSeq + 1) - 1) /\ MaxSeq + 1 \in Nat
  BY Bounds DEF Hidden, Numbers
<1>3. IsFiniteSet(Hidden(s))
  BY <1>2, FS_EmptySet, CardGrows
<1>. QED
  BY <1>1, <1>3, FS_Subset

(* A session that the link has just served hides only what the detector     *)
(* overlooked up to the end of the packet.                                  *)
LEMMA HiddenServed ==
    ASSUME NEW e \in Nat, NEW s \in Nat,
           \A m \in got' : Before(m[1], m[2], s, e)
    PROVE  /\ Hidden(s)' \subseteq Gone(s, e, got', reports')
           /\ Cardinality(Hidden(s)') <= Cardinality(Gone(s, e, got', reports'))
<1>1. ASSUME NEW n \in Hidden(s)'
      PROVE  n \in Gone(s, e, got', reports')
  <2>1. /\ n \in Numbers /\ <<s, n>> \notin got'
        /\ \A r \in reports' : ~Covers(r, s, n)
    BY DEF Hidden, Numbers, Covers, Before
  <2>2. PICK m \in Numbers : n < m /\ <<s, m>> \in got'
    BY DEF Hidden, Numbers
  <2>3. m < e
    BY <2>2 DEF Before
  <2>. QED
    BY <2>1, <2>2, <2>3, Bounds DEF Gone, Numbers
<1>. QED
  BY <1>1, GoneFinite, FS_Subset

(* A data packet of the sender's session that keeps the balance.            *)
LEMMA SyncServed ==
    ASSUME MoldInv, MoldInv', SyncInv, NEW h \in Header, ~h.eos, h.sid = sid,
           sid' = sid, Receive(h), sid_q' = sid, End(h) <= seq_q',
           \A s \in Sessions : s # sid => again'[s] = again[s],
           Cardinality(Gone(sid, End(h), got', reports')) + (seq_q' - End(h))
              <= count[sid] + 1 + again'[sid]
    PROVE  SyncInv'
<1>. DEFINE G == Gone(sid, End(h), got', reports')
<1>1. TypeOK /\ TypeOK' /\ LinkInv'
  BY DEF MoldInv
<1>2. /\ sid \in Nat /\ sid \in Sessions /\ End(h) \in Nat /\ seq_q' \in Nat
      /\ again'[sid] \in Nat /\ FirstSid \in Nat
      /\ h.seq \in Nat /\ h.cnt \in Nat
  BY <1>1, Types, HeaderTypes, Bounds DEF TypeOK
<1>3. /\ last' = {h} /\ reports \subseteq reports'
      /\ got' = got \cup {<<sid, n>> : n \in h.seq .. h.seq + h.cnt - 1}
      /\ \A s \in Sessions : count'[s] = IF s = sid THEN count[sid] + 1 ELSE count[s]
  BY <1>1, <1>2 DEF Receive, TypeOK
<1>4. IsFiniteSet(G) /\ Cardinality(G) \in Nat
  BY <1>2, GoneFinite, FS_CardinalityType
<1>5. Cardinality(G) + (seq_q' - End(h)) <= count'[sid] + again'[sid]
  BY <1>2, <1>3
<1>6. ASSUME NEW s \in Sessions
      PROVE  Cardinality(Hidden(s)') <= count'[s] + again'[s]
  <2>1. CASE s = sid
    <3>1. s \in Nat /\ \A m \in got' : Before(m[1], m[2], s, End(h))
      BY <1>1, <1>2, <1>3, <2>1 DEF LinkInv, Before, End
    <3>2. /\ Hidden(s)' \subseteq Gone(s, End(h), got', reports')
          /\ Cardinality(Hidden(s)') <= Cardinality(Gone(s, End(h), got', reports'))
      BY <1>2, <3>1, HiddenServed
    <3>3. Gone(s, End(h), got', reports') = G
      BY <2>1
    <3>. HIDE DEF G
    <3>4. Cardinality(Hidden(s)') \in Nat
      BY <1>4, <3>2, <3>3, FS_Subset, FS_CardinalityType
    <3>5. count'[s] \in Nat /\ again'[s] \in Nat
      BY <1>1 DEF TypeOK, Sessions
    <3>6. Cardinality(G) <= count'[s] + again'[s]
      <4>1. Cardinality(G) + (seq_q' - End(h)) <= count'[s] + again'[s]
        BY <1>5, <2>1
      <4>2. seq_q' - End(h) \in Nat
        BY <1>2
      <4>. QED
        BY <1>4, <3>5, <4>1, <4>2
    <3>7. Cardinality(Hidden(s)') <= Cardinality(G)
      BY <3>2, <3>3
    <3>. QED
      BY <1>4, <3>4, <3>5, <3>6, <3>7
  <2>2. CASE s # sid
    <3>1. \A n \in Numbers : <<s, n>> \in got' <=> <<s, n>> \in got
      BY <1>3, <2>2
    <3>2. /\ IsFiniteSet(Hidden(s)) /\ Hidden(s)' \subseteq Hidden(s)
          /\ Cardinality(Hidden(s)') <= Cardinality(Hidden(s))
      BY <1>1, <1>3, <3>1, HiddenShrinks
    <3>3. /\ Cardinality(Hidden(s)) \in Nat /\ Cardinality(Hidden(s)') \in Nat
      BY <3>2, FS_Subset, FS_CardinalityType
    <3>4. count'[s] = count[s] /\ again'[s] = again[s]
      BY <1>3, <2>2
    <3>5. Cardinality(Hidden(s)) <= count[s] + again[s]
      BY DEF SyncInv
    <3>. QED
      BY <1>1, <3>2, <3>3, <3>4, <3>5, Types
  <2>. QED
    BY <2>1, <2>2
<1>. QED
  <2>1. sid' - sid_q' <= FirstSid
    BY <1>2
  <2>. QED
    BY <1>2, <1>3, <1>5, <1>6, <2>1
    DEF SyncInv, Overlooked, Gone, End, Covers, Before

(* A fresh data packet, when the detector is in a session of the sender's   *)
(* reach.                                                                   *)
LEMMA SendSync ==
    ASSUME MoldInv, MoldInv', SyncInv, FirstSid < SID_GAP_MAX,
           NEW h \in Header, ~h.eos, h.sid = sid, h.seq = seq, sid <= LastSid,
           Receive(h), DataPacket(h), sid' = sid, again' = again
    PROVE  SyncInv'
<1>. DEFINE e == End(h)
            G == Gone(sid, e, got', reports')
<1>1. TypeOK /\ LinkInv /\ NoWrap
  BY DEF MoldInv
<1>2. /\ sid \in Nat /\ sid \in Sessions /\ sid_q \in Nat /\ sid_q <= sid
      /\ h.seq \in Nat /\ h.cnt \in Nat /\ e \in Nat /\ e = h.seq + h.cnt
      /\ count[sid] \in Nat /\ again[sid] \in Nat /\ FirstSid \in Nat
      /\ SID_GAP_MAX \in Nat /\ seq_q \in Nat
  BY <1>1, Types, HeaderTypes, Bounds DEF TypeOK, LinkInv, End
<1>3. SidLt(h) <=> sid_q < sid
  <2>1. sid # SID_MOD
    BY <1>2, Bounds
  <2>2. sid - sid_q < SID_GAP_MAX
    BY <1>2, <2>1 DEF SyncInv
  <2>. QED
    BY <1>1, <1>2, <2>2, SidStep
<1>4. sid_q' = sid
  BY <1>1, <1>2, <1>3, SidStep DEF Receive, Clock
<1>5. seq_q' = IF seq_q < h.seq THEN e + 1 ELSE seq_q + h.cnt + 1
  BY <1>1, DataSeq DEF Receive, Clock
<1>6. e <= seq_q' /\ seq_q' \in Nat
  BY <1>2, <1>5
<1>7. ASSUME NEW n \in G
      PROVE  /\ n \in Nat /\ n < h.seq /\ <<sid, n>> \notin got
             /\ \A r \in reports \cup Reports(h) : ~Covers(r, sid, n)
  <2>1. /\ n \in Nat /\ n < e /\ <<sid, n>> \notin got'
        /\ \A r \in reports' : ~Covers(r, sid, n)
    BY <1>2 DEF Gone
  <2>2. n < h.seq
    <3>1. CASE h.seq <= n
      <4>1. n \in h.seq .. h.seq + h.cnt - 1
        BY <1>2, <2>1, <3>1
      <4>. QED
        BY <2>1, <4>1 DEF Receive
    <3>. QED
      BY <1>2, <2>1, <3>1
  <2>. QED
    BY <2>1, <2>2 DEF Receive
<1>. HIDE DEF G, e
<1>8. Cardinality(G) + (seq_q' - e) <= count[sid] + 1 + again[sid]
  <2>1. CASE \A l \in last : l.eos
    <3>1. seq_q = 0
      BY <2>1 DEF SyncInv
    <3>2. G \subseteq {}
      <4> SUFFICES ASSUME NEW n \in G PROVE FALSE
        OBVIOUS
      <4>1. /\ n \in Nat /\ n < h.seq
            /\ \A r \in reports \cup Reports(h) : ~Covers(r, sid, n)
        BY <1>7
      <4>. DEFINE r == [sid |-> sid_q, seq |-> seq_q, endSid |-> sid, endSeq |-> h.seq]
      <4>2. r \in Reports(h)
        <5>1. CASE sid_q < sid
          BY <1>3, <5>1 DEF Reports, MissSid
        <5>2. CASE sid_q = sid
          BY <1>2, <3>1, <4>1, <5>2 DEF Reports, MissSeq, SeqLt
        <5>. QED
          BY <1>2, <5>1, <5>2
      <4>3. Covers(r, sid, n)
        BY <1>2, <3>1, <4>1 DEF Covers, Before
      <4>. QED
        BY <4>1, <4>2, <4>3
    <3>3. Cardinality(G) = 0
      BY <3>2, FS_EmptySet
    <3>4. seq_q' - e = 1
      BY <1>2, <1>5, <3>1 DEF e
    <3>. QED
      BY <1>2, <3>3, <3>4
  <2>2. ASSUME NEW l \in last, ~l.eos
        PROVE  Cardinality(G) + (seq_q' - e) <= count[sid] + 1 + again[sid]
    <3>. DEFINE p == End(l)
                F == Gone(sid, p, got, reports)
    <3>1. /\ l.sid = sid /\ sid_q = sid /\ p <= seq_q
          /\ Cardinality(F) + (seq_q - p) <= count[sid] + again[sid]
      BY <2>2 DEF SyncInv, Overlooked
    <3>2. p \in Nat /\ p <= h.seq
      <4>1. p \in Nat
        BY <1>1, LastTypes
      <4>2. ~Before(sid, h.seq, l.sid, p)
        BY <1>1 DEF LinkInv
      <4>. QED
        BY <1>2, <3>1, <4>1, <4>2 DEF Before
    <3>3. IsFiniteSet(F)
      BY <3>2, GoneFinite
    <3>4. ASSUME NEW n \in G
          PROVE  n \in F \/ p <= n
      BY <1>7, <3>2 DEF F, Gone
    <3>. HIDE DEF F, p
    <3>5. CASE seq_q < h.seq
      <4>1. G \subseteq F \cup (p .. seq_q - 1)
        <5> SUFFICES ASSUME NEW n \in G, p <= n PROVE n \in p .. seq_q - 1
          BY <3>4
        <5>1. /\ n \in Nat /\ n < h.seq
              /\ \A r \in reports \cup Reports(h) : ~Covers(r, sid, n)
          BY <1>7
        <5>. DEFINE r == [sid |-> sid_q, seq |-> seq_q, endSid |-> sid_q, endSeq |-> h.seq]
        <5>2. r \in Reports(h)
          BY <3>1, <3>5 DEF Reports, MissSeq, SeqLt
        <5>3. ~Covers(r, sid, n)
          BY <5>1, <5>2
        <5>4. n < seq_q
          BY <1>2, <3>1, <5>1, <5>3 DEF Covers, Before
        <5>. QED
          BY <1>2, <3>2, <5>1, <5>4
      <4>2. /\ Cardinality(G) \in Nat /\ Cardinality(F) \in Nat
            /\ Cardinality(G) <= Cardinality(F) + (seq_q - p)
        BY <1>2, <3>1, <3>2, <3>3, <4>1, CardGrows
      <4>3. seq_q' - e = 1
        BY <1>2, <1>5, <3>5 DEF e
      <4>. QED
        BY <1>2, <3>1, <3>2, <4>2, <4>3
    <3>6. CASE h.seq <= seq_q
      <4>1. G \subseteq F \cup (p .. h.seq - 1)
        <5> SUFFICES ASSUME NEW n \in G, p <= n PROVE n \in p .. h.seq - 1
          BY <3>4
        <5>1. n \in Nat /\ n < h.seq
          BY <1>7
        <5>. QED
          BY <1>2, <3>2, <5>1
      <4>2. /\ Cardinality(G) \in Nat /\ Cardinality(F) \in Nat
            /\ Cardinality(G) <= Cardinality(F) + (h.seq - p)
        BY <1>2, <3>2, <3>3, <4>1, CardGrows
      <4>3. seq_q' - e = (seq_q - h.seq) + 1
        BY <1>2, <1>5, <3>6 DEF e
      <4>. QED
        BY <1>2, <3>1, <3>2, <3>6, <4>2, <4>3
    <3>. QED
      BY <1>2, <3>5, <3>6
  <2>. QED
    BY <2>1, <2>2
<1>. QED
  BY <1>2, <1>4, <1>6, <1>8, SyncServed DEF e, G

(* A data packet delivered again.                                           *)
LEMMA AgainSync ==
    ASSUME MoldInv, MoldInv', SyncInv, NEW h \in last, ~h.eos, Receive(h),
           DataPacket(h), again' = [again EXCEPT ![h.sid] = @ + h.cnt], sid' = sid
    PROVE  SyncInv'
<1>. DEFINE e == End(h)
            G == Gone(sid, e, got', reports')
            F == Gone(sid, e, got, reports)
<1>1. TypeOK /\ LinkInv /\ NoWrap
  BY DEF MoldInv
<1>2. /\ h.sid = sid /\ sid_q = sid /\ e <= seq_q
      /\ Cardinality(F) + (seq_q - e) <= count[sid] + again[sid]
  BY DEF SyncInv, Overlooked
<1>3. /\ sid \in Nat /\ sid \in Sessions /\ h \in Header /\ sid <= LastSid
      /\ h.seq \in Nat /\ h.cnt \in Nat /\ e \in Nat /\ e = h.seq + h.cnt
      /\ count[sid] \in Nat /\ again[sid] \in Nat /\ seq_q \in Nat
  BY <1>1, <1>2, Types, LastTypes DEF TypeOK, LinkInv, End
<1>4. sid_q' = sid
  BY <1>1, <1>2, <1>3, SidStep DEF Receive, Clock
<1>5. seq_q' = seq_q + h.cnt + 1
  <2>1. ~(seq_q < h.seq)
    BY <1>2, <1>3
  <2>. QED
    BY <1>1, <2>1, DataSeq DEF Receive, Clock
<1>6. /\ again'[sid] = again[sid] + h.cnt
      /\ \A s \in Sessions : s # sid => again'[s] = again[s]
  BY <1>1, <1>2, <1>3 DEF TypeOK
<1>7. G \subseteq F
  BY DEF Gone, Receive
<1>8. /\ Cardinality(G) \in Nat /\ Cardinality(F) \in Nat
      /\ Cardinality(G) <= Cardinality(F)
  <2>1. IsFiniteSet(F)
    BY <1>3, GoneFinite
  <2>. HIDE DEF F, G
  <2>. QED
    BY <1>7, <2>1, FS_Subset, FS_CardinalityType
<1>9. e <= seq_q' /\ Cardinality(G) + (seq_q' - e) <= count[sid] + 1 + again'[sid]
  <2>. HIDE DEF F, G
  <2>. QED
    BY <1>2, <1>3, <1>5, <1>6, <1>8
<1>. QED
  BY <1>2, <1>3, <1>4, <1>6, <1>9, SyncServed

(* The end of a session that arrives: nothing of the next one has yet.      *)
LEMMA EosSync ==
    ASSUME MoldInv, SyncInv, NEW h \in Header, h.eos, h.sid = sid, h.cnt = 0,
           sid <= LastSid, Receive(h), sid' = sid + 1, again' = again
    PROVE  SyncInv'
<1>1. TypeOK /\ LinkInv
  BY DEF MoldInv
<1>2. /\ sid \in Nat /\ sid_q \in Nat /\ sid_q <= sid /\ FirstSid \in Nat
      /\ sid - sid_q <= FirstSid /\ h.seq \in Nat /\ sid < SID_MOD
  BY <1>1, Types, HeaderTypes, Bounds DEF LinkInv, SyncInv
<1>3. /\ last' = {h} /\ seq_q' = 0 /\ count' = count
      /\ sid_q' = IF sid_q + 1 = SID_MOD THEN 0 ELSE sid_q + 1
      /\ reports \subseteq reports'
  BY <1>1, <1>2, SidStep DEF Receive, Clock, SeqNext
<1>4. got' = got
  <2>1. {<<h.sid, n>> : n \in h.seq .. h.seq + h.cnt - 1} = {}
    BY <1>2
  <2>. QED
    BY <2>1 DEF Receive
<1>5. ASSUME NEW m \in got
      PROVE  m[1] < sid + 1
  <2>1. PICK l \in last : Before(m[1], m[2], l.sid, End(l))
    BY <1>1 DEF LinkInv
  <2>2. ~Before(sid, seq, l.sid, End(l))
    BY <1>1 DEF LinkInv
  <2>3. /\ m[1] \in Nat /\ l.sid \in Nat
    BY <1>1, LastTypes, GotTypes
  <2>. QED
    BY <1>2, <2>1, <2>2, <2>3 DEF Before
<1>6. ASSUME NEW s \in Sessions
      PROVE  Cardinality(Hidden(s)') <= count'[s] + again'[s]
  <2>1. /\ IsFiniteSet(Hidden(s)) /\ Hidden(s)' \subseteq Hidden(s)
        /\ Cardinality(Hidden(s)') <= Cardinality(Hidden(s))
    BY <1>1, <1>3, <1>4, HiddenShrinks
  <2>2. /\ Cardinality(Hidden(s)) \in Nat /\ Cardinality(Hidden(s)') \in Nat
    BY <2>1, FS_Subset, FS_CardinalityType
  <2>3. Cardinality(Hidden(s)) <= count[s] + again[s]
    BY DEF SyncInv
  <2>4. count[s] \in Nat /\ again[s] \in Nat
    BY <1>1, Types
  <2>. QED
    BY <1>3, <2>1, <2>2, <2>3, <2>4
<1>7. sid' # SID_MOD => sid' - sid_q' <= FirstSid
  BY <1>2, <1>3
<1>. QED
  BY <1>3, <1>4, <1>5, <1>6, <1>7 DEF SyncInv, Overlooked, Gone, End, Covers, Before

LEMMA InitHidden == Init => HiddenInv
<1> SUFFICES ASSUME Init PROVE SyncInv
  BY DEF HiddenInv
<1>1. /\ sid = FirstSid /\ sid_q = 0 /\ seq_q = 0 /\ last = {} /\ got = {}
      /\ \A s \in Sessions : count[s] = 0 /\ again[s] = 0
  BY DEF Init, DetInit
<1>2. sid - sid_q <= FirstSid
  BY <1>1, Bounds
<1>3. ASSUME NEW s \in Sessions
      PROVE  Cardinality(Hidden(s)) <= count[s] + again[s]
  <2>1. Hidden(s) = {}
    BY <1>1 DEF Hidden
  <2>2. Cardinality(Hidden(s)) = 0
    BY <2>1, FS_EmptySet
  <2>. QED
    BY <1>1, <2>2
<1>. QED
  BY <1>1, <1>2, <1>3 DEF SyncInv

(* A step that the detector does not see leaves the balance.                *)
LEMMA StillSync ==
    ASSUME SyncInv,
           UNCHANGED <<sid_q, seq_q, sid, last, got, count, again, reports>>
    PROVE  SyncInv'
  BY DEF SyncInv, Overlooked, Gone, Hidden, Numbers, Sessions, End, Covers, Before

LEMMA NextHidden ==
    ASSUME FirstSid < SID_GAP_MAX, MoldInv, MoldInv', HiddenInv, [Next]_vars
    PROVE  HiddenInv'
<1>1. CASE eosLost'
  BY <1>1 DEF HiddenInv
<1>2. CASE ~eosLost' /\ UNCHANGED eosLost
  <2>1. SyncInv
    BY <1>2 DEF HiddenInv
  <2> SUFFICES SyncInv'
    BY DEF HiddenInv
  <2>2. ASSUME NEW n \in 0 .. MaxCnt, SendPacket(n)
        PROVE  SyncInv'
    <3>. DEFINE h == [sid |-> sid, seq |-> seq, cnt |-> n, eos |-> FALSE]
    <3>1. /\ sid \in Nat /\ seq \in Nat /\ sid \in Sessions /\ n \in Nat
          /\ seq \in Numbers /\ sid <= LastSid
      BY <2>2, Bounds, Types DEF MoldInv, TypeOK, SendPacket
    <3>2. sid' = sid /\ seq' = seq + n /\ seq' <= MaxSeq /\ again' = again
      BY <2>2 DEF SendPacket
    <3>3. CASE Lose
      BY <2>1, <3>2, <3>3, StillSync DEF Lose, detVars
    <3>4. CASE Receive(h)
      <4>1. /\ h \in Header /\ h.sid = sid /\ h.seq = seq /\ h.cnt = n /\ ~h.eos
            /\ h.eos = FALSE /\ End(h) = seq + n
        BY <3>1 DEF Header, End
      <4>. HIDE DEF h
      <4>2. Arrives(h)
        BY <3>1, <3>2, <4>1, FreshArrives
      <4>3. DataPacket(h)
        BY <3>1, <3>4, <4>1, <4>2 DEF DataPacket, Arrives, Receive
      <4>. QED
        BY <2>1, <3>1, <3>2, <3>4, <4>1, <4>3, SendSync
    <3>. QED
      BY <2>2, <3>3, <3>4 DEF SendPacket
  <2>3. CASE EndSession
    <3>. DEFINE h == [sid |-> sid, seq |-> seq, cnt |-> 0, eos |-> TRUE]
    <3>1. /\ sid \in Sessions /\ seq \in Numbers /\ sid <= LastSid
      BY <2>3 DEF MoldInv, TypeOK, EndSession
    <3>2. sid' = sid + 1 /\ again' = again /\ Receive(h)
      BY <1>2, <2>3 DEF EndSession
    <3>3. h \in Header /\ h.sid = sid /\ h.cnt = 0 /\ h.eos
      BY <3>1 DEF Header
    <3>. HIDE DEF h
    <3>. QED
      BY <2>1, <3>1, <3>2, <3>3, EosSync
  <2>4. CASE Duplicate
    <3>1. PICK h \in last : /\ ~h.eos /\ Receive(h)
                            /\ again' = [again EXCEPT ![h.sid] = @ + h.cnt]
                            /\ UNCHANGED <<sid, seq, eosLost>>
      BY <2>4 DEF Duplicate
    <3>2. h \in Header /\ TypeOK
      BY LastTypes DEF MoldInv
    <3>3. Arrives(h)
      BY <3>1, AgainArrives
    <3>4. DataPacket(h)
      BY <3>1, <3>2, <3>3 DEF DataPacket, Arrives, Receive
    <3>. QED
      BY <2>1, <3>1, <3>4, AgainSync
  <2>5. CASE UNCHANGED vars
    BY <2>1, <2>5, StillSync DEF vars
  <2>. QED
    BY <2>2, <2>3, <2>4, <2>5 DEF Next
<1>3. eosLost' \/ UNCHANGED eosLost
  BY DEF Next, SendPacket, EndSession, Duplicate, vars
<1>4. eosLost \in BOOLEAN /\ eosLost' \in BOOLEAN
  BY DEF MoldInv, TypeOK
<1>. QED
  BY <1>1, <1>2, <1>3, <1>4

(* While no end of session is lost, the messages of a session that the      *)
(* detector misses and does not report are no more than the packets and the *)
(* repeated messages that arrived of it: what the extra one that miss_msg.v *)
(* adds to every count costs.  The first session must lie in the window the *)
(* detector looks ahead in, which that of tv.h:16 does not.                 *)
THEOREM HiddenAreFew ==
    ASSUME FirstSid < SID_GAP_MAX
    PROVE  Spec => []HiddenBounded
<1>1. Init => HiddenInv
  BY InitHidden
<1>2. MoldInv /\ MoldInv' /\ HiddenInv /\ [Next]_vars => HiddenInv'
  BY NextHidden
<1>3. HiddenInv => HiddenBounded
  BY DEF HiddenInv, SyncInv, HiddenBounded
<1>. QED
  BY <1>1, <1>2, <1>3, FeedFollowed, PTL DEF Spec

(***************************************************************************)
(* A feed that starts beyond the window.                                    *)
(***************************************************************************)
Deaf == Astray /\ reports = {}

LEMMA DeafReceive ==
    ASSUME MoldInv, Deaf, NEW h, Arrives(h), Receive(h)
    PROVE  /\ reports' = {} /\ last' = {h} /\ h.sid - sid_q >= SID_GAP_MAX
           /\ sid_q' = IF h.eos THEN sid_q + 1 ELSE sid_q
<1>1. TypeOK
  BY DEF MoldInv
<1>2. h.sid - sid_q >= SID_GAP_MAX
  BY DEF Deaf, Arrives
<1>3. /\ h \in Header /\ h.sid <= LastSid /\ sid_q <= h.sid /\ h.sid \in Nat
      /\ sid_q \in Nat /\ SID_GAP_MAX \in Nat /\ h.eos \in BOOLEAN
  BY <1>1, HeaderTypes, Types, Bounds DEF Arrives
<1>4. Reports(h) = {}
  <2> SUFFICES ASSUME NEW r \in Reports(h) PROVE FALSE
    OBVIOUS
  <2>1. h.sid - sid_q < SID_GAP_MAX
    BY <1>1, NewReports
  <2>. QED
    BY <1>2, <1>3, <2>1
<1>5. ~SidLt(h)
  BY <1>1, <1>2, <1>3, SidStep
<1>6. sid_q' = IF h.eos THEN sid_q + 1 ELSE sid_q
  <2>1. sid_q + 1 # SID_MOD
    BY <1>2, <1>3, Bounds
  <2>. QED
    BY <1>1, <1>3, <1>5, <2>1, SidStep DEF Receive, Clock
<1>. QED
  BY <1>2, <1>4, <1>6 DEF Receive, Deaf

LEMMA NextDeaf ==
    ASSUME MoldInv, Deaf, [Next]_vars
    PROVE  Deaf'
<1>1. /\ sid \in Nat /\ seq \in Nat /\ sid_q \in Nat /\ SID_GAP_MAX \in Nat
      /\ sid - sid_q >= SID_GAP_MAX
  BY Types, Bounds DEF MoldInv, Deaf, Astray
<1>2. ASSUME Lose, sid' = sid \/ sid' = sid + 1
      PROVE  Deaf'
  <2>1. sid' \in Nat /\ sid <= sid'
    BY <1>1, <1>2
  <2>2. sid' - sid_q >= SID_GAP_MAX
    BY <1>1, <2>1, GapGrows
  <2>. QED
    BY <1>2, <2>2 DEF Lose, detVars, Deaf, Astray
<1>3. ASSUME NEW n \in 0 .. MaxCnt, SendPacket(n)
      PROVE  Deaf'
  <2>. DEFINE h == [sid |-> sid, seq |-> seq, cnt |-> n, eos |-> FALSE]
  <2>1. /\ sid \in Sessions /\ n \in Nat /\ seq \in Numbers /\ sid <= LastSid
        /\ sid' = sid /\ seq' = seq + n /\ seq' <= MaxSeq
    BY <1>3, Bounds DEF MoldInv, TypeOK, SendPacket
  <2>2. CASE Receive(h)
    <3>1. /\ h \in Header /\ h.sid = sid /\ h.seq = seq /\ h.cnt = n /\ ~h.eos
          /\ End(h) = seq + n
      BY <2>1 DEF Header, End
    <3>. HIDE DEF h
    <3>2. Arrives(h)
      BY <1>1, <2>1, <3>1, FreshArrives
    <3>3. /\ reports' = {} /\ last' = {h} /\ sid_q' = sid_q
      BY <2>2, <3>1, <3>2, DeafReceive
    <3>. QED
      BY <1>1, <2>1, <3>1, <3>3 DEF Deaf, Astray
  <2>. QED
    BY <1>2, <1>3, <2>1, <2>2 DEF SendPacket
<1>4. CASE EndSession
  <2>. DEFINE h == [sid |-> sid, seq |-> seq, cnt |-> 0, eos |-> TRUE]
  <2>1. /\ sid \in Sessions /\ seq \in Numbers /\ seq <= MaxSeq /\ sid <= LastSid
        /\ sid' = sid + 1
    BY <1>4, Types DEF MoldInv, TypeOK, EndSession
  <2>2. CASE Receive(h)
    <3>1. /\ h \in Header /\ h.sid = sid /\ h.seq = seq /\ h.cnt = 0 /\ h.eos
          /\ End(h) = seq
      BY <1>1, <2>1 DEF Header, End
    <3>. HIDE DEF h
    <3>2. Arrives(h)
      BY <1>1, <2>1, <3>1, Bounds, FreshArrives
    <3>3. /\ reports' = {} /\ last' = {h} /\ sid_q' = sid_q + 1
      BY <2>2, <3>1, <3>2, DeafReceive
    <3>. QED
      BY <1>1, <2>1, <3>1, <3>3 DEF Deaf, Astray
  <2>. QED
    BY <1>2, <1>4, <2>1, <2>2 DEF EndSession
<1>5. CASE Duplicate
  <2>1. PICK h \in last : ~h.eos /\ Receive(h) /\ UNCHANGED sid
    BY <1>5 DEF Duplicate
  <2>2. Arrives(h)
    BY <2>1, AgainArrives
  <2>3. /\ reports' = {} /\ last' = {h} /\ sid_q' = sid_q
        /\ h.sid - sid_q >= SID_GAP_MAX
    BY <2>1, <2>2, DeafReceive
  <2>. QED
    BY <1>1, <2>1, <2>3 DEF Deaf, Astray
<1>6. CASE UNCHANGED vars
  BY <1>6 DEF vars, Deaf, Astray
<1>. QED
  BY <1>3, <1>4, <1>5, <1>6 DEF Next

(* A detector fresh from reset reports nothing, ever, of a feed whose first *)
(* session lies beyond its window (miss_msg.v's distance check, with a      *)
(* first session like that of tv.h:16).                                     *)
THEOREM DeafBeyondWindow ==
    ASSUME FirstSid >= SID_GAP_MAX
    PROVE  Spec => [](reports = {})
<1>1. Init => Deaf
  BY Bounds DEF Init, DetInit, Deaf, Astray
<1>2. MoldInv /\ Deaf /\ [Next]_vars => Deaf'
  BY NextDeaf
<1>3. Deaf => reports = {}
  BY DEF Deaf
<1>. QED
  BY <1>1, <1>2, <1>3, FeedFollowed, PTL DEF Spec
=============================================================================
