----------------------------- MODULE TbFeed_proofs -----------------------------
(***************************************************************************)
(* The testbench at work, for logs of any number of messages of any length, *)
(* a design of any latency, and any stalls: every packet on the wire is     *)
(* whole, every message compared is the one expected, and, where the design *)
(* is no slower than the gap, every message of the log is compared.  One    *)
(* that is a little slower still does not trip the watchdog.                *)
(***************************************************************************)
EXTENDS TbFeed, Recursions, ItchFifo_proofs

-----------------------------------------------------------------------------
(***************************************************************************)
(* The packets of the testbench: where in a packet each message lies, that  *)
(* Flatten puts it there, and that the decoder finds it there, for messages *)
(* of any number and length.                                                *)
(***************************************************************************)
(* The bytes of the first n messages of log l, with their lengths, and the  *)
(* offset at which the first k messages of a packet end that begins after   *)
(* the first q of the log.                                                  *)
Sums(l) == LET sum[n \in 0 .. Len(l)] ==
                   IF n = 0 THEN 0 ELSE sum[n - 1] + 2 + l[n]
           IN  sum

Off(l, q, k) == 20 + Sums(l)[q + k] - Sums(l)[q]

LEMMA Lengths == ASSUME NEW l \in Seq(ItchLen)
                 PROVE  /\ Len(l) \in Nat
                        /\ \A n \in 1 .. Len(l) : l[n] \in 12 .. 50 /\ l[n] \in Nat
<1>1. Len(l) \in Nat /\ \A n \in 1 .. Len(l) : l[n] \in ItchLen
  OBVIOUS
<1>2. \A x \in ItchLen : x \in 12 .. 50 /\ x \in Nat
  BY DEF ItchLen
<1>. QED
  BY <1>1, <1>2

LEMMA SumsAre ==
    ASSUME NEW l \in Seq(ItchLen)
    PROVE  /\ Sums(l) \in [0 .. Len(l) -> Nat] /\ Sums(l)[0] = 0
           /\ \A n \in 1 .. Len(l) : Sums(l)[n] = Sums(l)[n - 1] + 2 + l[n]
<1>. DEFINE N == Len(l)
            Step(f) == [n \in 0 .. N |-> IF n = 0 THEN 0 ELSE f[n - 1] + 2 + l[n]]
            g == [n \in 1 .. N |-> [x \in Nat |-> x + 2 + l[n]]]
            sum == CHOOSE f : f = Step(f)
<1>1. N \in Nat /\ \A n \in 1 .. N : l[n] \in Nat
  BY Lengths
<1>2. g \in [1 .. N -> [Nat -> Nat]]
  BY <1>1
<1>3. \A n \in 1 .. N, x \in Nat : g[n][x] = x + 2 + l[n]
  OBVIOUS
<1>4. PICK f : Results(f, Nat, 0, N, g)
  <2>1. 0 \in Nat
    OBVIOUS
  <2>2. N \in Nat
    BY <1>1
  <2>. HIDE DEF g, N
  <2>. QED
    BY <1>2, <2>1, <2>2, Recursion, Zenon
<1>. HIDE DEF g
<1>b. /\ f \in [0 .. N -> Nat]
      /\ f[0] = 0 /\ \A n \in 1 .. N : f[n] = g[n][f[n - 1]]
  BY <1>4 DEF Results
<1>5. ASSUME NEW n \in 0 .. N
      PROVE  f[n] = IF n = 0 THEN 0 ELSE f[n - 1] + 2 + l[n]
  <2>1. CASE n = 0
    BY <2>1, <1>b
  <2>2. CASE n # 0
    <3>1. n \in 1 .. N /\ n - 1 \in 0 .. N
      BY <2>2
    <3>2. f[n - 1] \in Nat
      BY <1>b, <3>1
    <3>. QED
      BY <1>3, <1>b, <3>1, <3>2, <2>2
  <2>. QED
    BY <2>1, <2>2
<1>6. f = Step(f)
  BY <1>b, <1>5
<1>7. sum = Step(sum)
  <2>. HIDE DEF Step, sum
  <2>. QED
    BY <1>6, Zenon DEF sum
<1>8. Sums(l) = sum
  BY Zenon DEF Sums
<1>. HIDE DEF sum
<1>9. \A n \in 0 .. N : sum[n] = IF n = 0 THEN 0 ELSE sum[n - 1] + 2 + l[n]
  BY <1>7
<1>10. \A n \in 0 .. N : sum[n] \in Nat
  <2>. DEFINE T == {n \in 0 .. N : sum[n] \in Nat}
  <2>1. 0 \in T
    BY <1>1, <1>9
  <2>2. ASSUME NEW n \in Nat, n < N, n \in T PROVE n + 1 \in T
    <3>1. n + 1 \in 1 .. N /\ n + 1 \in 0 .. N /\ (n + 1) - 1 = n /\ n + 1 # 0
      BY <1>1, <2>2
    <3>2. sum[n + 1] = sum[n] + 2 + l[n + 1] /\ sum[n] \in Nat /\ l[n + 1] \in Nat
      BY <1>1, <1>9, <2>2, <3>1
    <3>. QED
      BY <3>1, <3>2
  <2>3. \A n \in 0 .. N : n \in T
    <3>. HIDE DEF T, N
    <3>. QED
      BY <1>1, <2>1, <2>2, Induct
  <2>. QED
    BY <2>3
<1>11. sum \in [0 .. N -> Nat]
  <2>1. DOMAIN sum = 0 .. N /\ sum = [n \in 0 .. N |-> sum[n]]
    BY <1>7
  <2>. QED
    BY <1>10, <2>1
<1>12. \A n \in 1 .. N : sum[n] = sum[n - 1] + 2 + l[n]
  BY <1>9
<1>. QED
  BY <1>1, <1>8, <1>9, <1>11, <1>12

(* A message takes 14 to 52 bytes of a packet.                              *)
LEMMA SumsStep ==
    ASSUME NEW l \in Seq(ItchLen), NEW n \in 1 .. Len(l)
    PROVE  /\ Sums(l)[n] \in Nat /\ Sums(l)[n - 1] \in Nat /\ l[n] \in 12 .. 50
           /\ Sums(l)[n] = Sums(l)[n - 1] + 2 + l[n]
<1>1. Len(l) \in Nat /\ n \in 0 .. Len(l) /\ n - 1 \in 0 .. Len(l) /\ l[n] \in 12 .. 50
  BY Lengths
<1>. QED
  BY <1>1, SumsAre

LEMMA OneMore ==
    ASSUME NEW a \in Nat, NEW b \in Nat, NEW c \in Nat, NEW w \in 12 .. 50, NEW i \in Nat,
           c = b + 2 + w, a + 14 * i <= b, b <= a + 52 * i
    PROVE  a + 14 * (i + 1) <= c /\ c <= a + 52 * (i + 1)
  OBVIOUS

LEMMA SumsGrow ==
    ASSUME NEW l \in Seq(ItchLen), NEW q \in Nat, NEW k \in Nat, q + k <= Len(l)
    PROVE  /\ Sums(l)[q] \in Nat
           /\ Sums(l)[q] + 14 * k <= Sums(l)[q + k]
           /\ Sums(l)[q + k] <= Sums(l)[q] + 52 * k
<1>. DEFINE s == Sums(l)
            Good(i) == /\ s[q + i] \in Nat
                       /\ s[q] + 14 * i <= s[q + i] /\ s[q + i] <= s[q] + 52 * i
            T == {i \in 0 .. k : Good(i)}
<1>0. Len(l) \in Nat
  OBVIOUS
<1>1. s[q] \in Nat
  <2>1. q \in 0 .. Len(l)
    BY <1>0
  <2>. QED
    BY <2>1, SumsAre
<1>2. 0 \in T
  BY <1>1
<1>3. ASSUME NEW i \in Nat, i < k, i \in T PROVE i + 1 \in T
  <2>1. q + (i + 1) \in 1 .. Len(l) /\ (q + (i + 1)) - 1 = q + i
    BY <1>0, <1>3
  <2>2. /\ s[q + (i + 1)] \in Nat /\ l[q + (i + 1)] \in 12 .. 50
        /\ s[q + (i + 1)] = s[q + i] + 2 + l[q + (i + 1)]
    BY <2>1, SumsStep
  <2>3. Good(i)
    BY <1>3
  <2>4. Good(i + 1)
    <3>1. s[q] + 14 * (i + 1) <= s[q + (i + 1)] /\ s[q + (i + 1)] <= s[q] + 52 * (i + 1)
      <4>. HIDE DEF s
      <4>. QED
        BY <1>1, <2>2, <2>3, OneMore, Zenon
    <3>. QED
      BY <2>2, <3>1, Zenon
  <2>. QED
    BY <1>3, <2>4
<1>4. k \in T
  <2>. HIDE DEF T
  <2>1. k \in 0 .. k
    OBVIOUS
  <2>. QED
    BY <1>2, <1>3, <2>1, Induct
<1>. QED
  BY <1>1, <1>4

LEMMA Spread ==
    ASSUME NEW a \in Nat, NEW b \in Int, NEW k \in Nat, NEW o, o = 20 + b - a,
           a + 14 * k <= b, b <= a + 52 * k
    PROVE  /\ o \in Nat /\ o >= 20
           /\ 20 + 14 * k <= o /\ o <= 20 + 52 * k
  OBVIOUS

(* Where the packet's messages end: one behind the other, the first behind  *)
(* the header.                                                              *)
LEMMA Offsets ==
    ASSUME NEW l \in Seq(ItchLen), NEW q \in Nat, NEW k \in Nat, q + k <= Len(l)
    PROVE  /\ Off(l, q, 0) = 20
           /\ Off(l, q, k) \in Nat /\ Off(l, q, k) >= 20
           /\ 20 + 14 * k <= Off(l, q, k) /\ Off(l, q, k) <= 20 + 52 * k
<1>1. Sums(l)[q] \in Nat /\ q + 0 = q
  BY SumsGrow
<1>2. Sums(l)[q + k] \in Int
  <2>1. q + k \in 0 .. Len(l)
    OBVIOUS
  <2>. QED
    BY <2>1, SumsAre
<1>3. Off(l, q, 0) = 20
  BY <1>1 DEF Off
<1>4. /\ Off(l, q, k) \in Nat /\ Off(l, q, k) >= 20
      /\ 20 + 14 * k <= Off(l, q, k) /\ Off(l, q, k) <= 20 + 52 * k
  <2>1. Sums(l)[q] + 14 * k <= Sums(l)[q + k] /\ Sums(l)[q + k] <= Sums(l)[q] + 52 * k
    BY SumsGrow
  <2>2. Off(l, q, k) = 20 + Sums(l)[q + k] - Sums(l)[q]
    BY Zenon DEF Off
  <2>. QED
    BY <1>1, <1>2, <2>1, <2>2, Spread, Zenon
<1>. QED
  BY <1>3, <1>4, Zenon

LEMMA NextOff ==
    ASSUME NEW l \in Seq(ItchLen), NEW q \in Nat, NEW k \in Nat, q + k + 1 <= Len(l)
    PROVE  /\ Off(l, q, k) \in Nat /\ Off(l, q, k) >= 20
           /\ l[q + k + 1] \in 12 .. 50 /\ l[q + k + 1] \in Nat
           /\ Off(l, q, k + 1) = Off(l, q, k) + 2 + l[q + k + 1]
<1>. DEFINE a == Sums(l)[q]
            b == Sums(l)[q + k]
            d == Sums(l)[q + k + 1]
            w == l[q + k + 1]
<1>1. /\ q + k + 1 \in 1 .. Len(l) /\ (q + k + 1) - 1 = q + k
      /\ q + (k + 1) = q + k + 1 /\ q + k <= Len(l)
  BY Lengths
<1>2. d \in Nat /\ b \in Nat /\ w \in 12 .. 50 /\ w \in Nat /\ d = b + 2 + w
  BY <1>1, SumsStep, Lengths
<1>3. Off(l, q, k) \in Nat /\ Off(l, q, k) >= 20
  BY <1>1, Offsets, Zenon
<1>4. a \in Nat
  BY <1>1, SumsGrow
<1>5. Off(l, q, k) = 20 + b - a
  BY DEF Off
<1>6. Off(l, q, k + 1) = 20 + d - a
  BY <1>1, Zenon DEF Off
<1>. HIDE DEF a, b, d, w
<1>7. Off(l, q, k + 1) = Off(l, q, k) + 2 + w
  BY <1>2, <1>4, <1>5, <1>6
<1>. QED
  BY <1>2, <1>3, <1>7 DEF w

(* More messages take more room.                                            *)
LEMMA OffGrows ==
    ASSUME NEW l \in Seq(ItchLen), NEW q \in Nat, NEW k \in Nat, NEW i \in 0 .. k,
           q + k <= Len(l)
    PROVE  Off(l, q, i) <= Off(l, q, k)
<1>1. /\ q + i \in Nat /\ k - i \in Nat /\ (q + i) + (k - i) = q + k
      /\ (q + i) + (k - i) <= Len(l) /\ q + i <= Len(l)
  OBVIOUS
<1>2. Sums(l)[q + i] + 14 * (k - i) <= Sums(l)[q + k] /\ Sums(l)[q + i] \in Nat
  BY <1>1, SumsGrow
<1>3. Sums(l)[q] \in Nat /\ Sums(l)[q + k] \in Nat
  <2>1. q \in 0 .. Len(l) /\ q + k \in 0 .. Len(l)
    OBVIOUS
  <2>. QED
    BY <2>1, SumsAre
<1>. QED
  BY <1>2, <1>3 DEF Off

-----------------------------------------------------------------------------
(* The bytes there are, and what it means that a packet holds the first k   *)
(* messages of log l behind its first q, under a header that counts c.      *)
Names == {"sid", "seq", "cnt", "len", "msg"}
Octet == [f : Names, v : Nat \cup {SID}, b : Nat]

IsBytes(s, n) == s \in Seq(Octet) /\ Len(s) = n

HoldsMsg(l, bytes, o, m) ==
    /\ \A i \in 1 .. 2 : bytes[o + i] = Byte("len", l[m], 2 - i)
    /\ \A i \in 1 .. l[m] : bytes[o + 2 + i] = Byte("msg", m, i - 1)

Headed(bytes, q, c) ==
    /\ \A i \in 1 .. 8 : bytes[10 + i] = Byte("seq", q, 8 - i)
    /\ \A i \in 1 .. 2 : bytes[18 + i] = Byte("cnt", c, 2 - i)

Packed(l, bytes, q, c, k) ==
    /\ IsBytes(bytes, Off(l, q, k))
    /\ Headed(bytes, q, c)
    /\ \A j \in 0 .. k - 1 : HoldsMsg(l, bytes, Off(l, q, j), q + j + 1)

Joint(r, s, m, t, n) == /\ IsBytes(r, m + n)
                        /\ \A i \in 1 .. m : r[i] = s[i]
                        /\ \A i \in 1 .. n : r[m + i] = t[i]

Spells(s, f, v, n) == IsBytes(s, n) /\ \A i \in 1 .. n : s[i] = Byte(f, v, n - i)

LEMMA Joined ==
    ASSUME NEW m \in Nat, NEW n \in Nat, NEW s, NEW t, IsBytes(s, m), IsBytes(t, n)
    PROVE  Joint(s \o t, s, m, t, n)
  BY DEF Joint, IsBytes

LEMMA OctetIs == ASSUME NEW f \in Names, NEW v \in Nat \cup {SID}, NEW b \in Nat
                 PROVE  Byte(f, v, b) \in Octet
  BY DEF Byte, Octet

LEMMA BigEndianIs ==
    ASSUME NEW f \in Names, NEW v \in Nat \cup {SID}, NEW n \in Nat
    PROVE  Spells(BigEndian(f, v, n), f, v, n)
<1>1. ASSUME NEW i \in 1 .. n PROVE Byte(f, v, n - i) \in Octet
  <2>1. n - i \in Nat
    OBVIOUS
  <2>. QED
    BY <2>1, OctetIs
<1>2. BigEndian(f, v, n) = [i \in 1 .. n |-> Byte(f, v, n - i)]
  BY Zenon DEF BigEndian
<1>3. BigEndian(f, v, n) \in [1 .. n -> Octet]
  BY <1>1, <1>2, Zenon
<1>4. \A i \in 1 .. n : BigEndian(f, v, n)[i] = Byte(f, v, n - i)
  BY <1>2, Zenon
<1>5. IsBytes(BigEndian(f, v, n), n)
  BY <1>3 DEF IsBytes
<1>. QED
  BY <1>4, <1>5, Zenon DEF Spells

(* What flatten writes for a message: its length and its bytes.             *)
LEMMA MessageIs ==
    ASSUME log \in Seq(ItchLen), NEW m \in 1 .. Len(log)
    PROVE  IsBytes(Message(m), 2 + log[m]) /\ HoldsMsg(log, Message(m), 0, m)
<1>. DEFINE head == BigEndian("len", log[m], 2)
            body == [i \in 1 .. log[m] |-> Byte("msg", m, i - 1)]
<1>1. /\ log[m] \in Nat /\ m \in Nat /\ 2 \in Nat
      /\ log[m] \in Nat \cup {SID} /\ m \in Nat \cup {SID}
      /\ "len" \in Names /\ "msg" \in Names
  BY Lengths DEF Names
<1>2. Spells(head, "len", log[m], 2)
  BY <1>1, BigEndianIs, Zenon
<1>3. ASSUME NEW i \in 1 .. log[m] PROVE Byte("msg", m, i - 1) \in Octet
  <2>1. i - 1 \in Nat
    BY <1>1
  <2>. QED
    BY <1>1, <2>1, OctetIs, Zenon
<1>4. /\ body \in [1 .. log[m] -> Octet]
      /\ \A i \in 1 .. log[m] : body[i] = Byte("msg", m, i - 1)
  BY <1>3, Zenon
<1>. HIDE DEF head, body
<1>5. IsBytes(body, log[m])
  BY <1>1, <1>4 DEF IsBytes
<1>6. Message(m) = head \o body
  BY Zenon DEF Message, head, body
<1>7. Joint(Message(m), head, 2, body, log[m])
  <2>. DEFINE w == log[m]
  <2>1. w \in Nat /\ 2 \in Nat /\ IsBytes(head, 2) /\ IsBytes(body, w)
    BY <1>1, <1>2, <1>5, Zenon DEF Spells
  <2>. HIDE DEF w
  <2>2. Joint(head \o body, head, 2, body, w)
    BY <2>1, Joined, Zenon
  <2>. QED
    BY <1>6, <2>2, Zenon DEF w
<1>8. \A i \in 1 .. 2 : Message(m)[0 + i] = Byte("len", log[m], 2 - i)
  <2>1. \A i \in 1 .. 2 : 0 + i = i
    OBVIOUS
  <2>. QED
    BY <1>2, <1>7, <2>1, Zenon DEF Joint, Spells
<1>9. \A i \in 1 .. log[m] : Message(m)[0 + 2 + i] = Byte("msg", m, i - 1)
  <2>1. 0 + 2 = 2
    OBVIOUS
  <2>. QED
    BY <1>4, <1>7, <2>1, Zenon DEF Joint
<1>. QED
  BY <1>7, <1>8, <1>9, Zenon DEF HoldsMsg, Joint

(* The header.                                                              *)
LEMMA HeaderIs ==
    ASSUME seq \in Nat, Len(msgs) \in Nat
    PROVE  IsBytes(Header, 20) /\ Headed(Header, seq, Len(msgs))
<1>. DEFINE a == BigEndian("sid", SID, 10)
            b == BigEndian("seq", seq, 8)
            c == BigEndian("cnt", Len(msgs), 2)
            ab == a \o b
<1>1. /\ "sid" \in Names /\ "seq" \in Names /\ "cnt" \in Names
      /\ SID \in Nat \cup {SID} /\ seq \in Nat \cup {SID}
      /\ Len(msgs) \in Nat \cup {SID}
      /\ 10 \in Nat /\ 8 \in Nat /\ 2 \in Nat /\ 18 \in Nat
      /\ 10 + 8 = 18 /\ 18 + 2 = 20
  BY DEF Names
<1>2. /\ Spells(a, "sid", SID, 10) /\ Spells(b, "seq", seq, 8)
      /\ Spells(c, "cnt", Len(msgs), 2)
  BY <1>1, BigEndianIs, Zenon
<1>3. Header = ab \o c
  BY Zenon DEF Header
<1>. HIDE DEF a, b, c
<1>4. Joint(ab, a, 10, b, 8)
  BY <1>1, <1>2, Joined, Zenon DEF Spells
<1>. HIDE DEF ab
<1>5. IsBytes(ab, 18)
  BY <1>1, <1>4 DEF Joint
<1>6. Joint(Header, ab, 18, c, 2)
  BY <1>1, <1>2, <1>3, <1>5, Joined, Zenon DEF Spells
<1>7. \A i \in 1 .. 8 : Header[10 + i] = Byte("seq", seq, 8 - i)
  <2>1. \A i \in 1 .. 8 : 10 + i \in 1 .. 18
    OBVIOUS
  <2>2. \A i \in 1 .. 8 : Header[10 + i] = ab[10 + i]
    BY <1>6, <2>1, Zenon DEF Joint
  <2>. QED
    BY <1>2, <1>4, <2>2, Zenon DEF Joint, Spells
<1>8. \A i \in 1 .. 2 : Header[18 + i] = Byte("cnt", Len(msgs), 2 - i)
  BY <1>2, <1>6, Zenon DEF Joint, Spells
<1>9. IsBytes(Header, 20)
  BY <1>1, <1>6 DEF Joint
<1>. QED
  BY <1>7, <1>8, <1>9, Zenon DEF Headed

(* The next message, put behind a packet, is the packet's next message.     *)
LEMMA PackedNext ==
    ASSUME NEW l \in Seq(ItchLen), NEW bytes, NEW q \in Nat, NEW c, NEW k \in Nat,
           q + k + 1 <= Len(l), Packed(l, bytes, q, c, k),
           NEW t, IsBytes(t, 2 + l[q + k + 1]), HoldsMsg(l, t, 0, q + k + 1)
    PROVE  Packed(l, bytes \o t, q, c, k + 1)
<1>. DEFINE both == bytes \o t
            n == Off(l, q, k)
            w == l[q + k + 1]
<1>1. IsBytes(bytes, n) /\ Headed(bytes, q, c)
  BY Zenon DEF Packed
<1>2. n \in Nat /\ n >= 20 /\ w \in Nat /\ Off(l, q, k + 1) = n + 2 + w
  BY NextOff
<1>3. Joint(both, bytes, n, t, 2 + w)
  <2>1. 2 + w \in Nat
    BY <1>2
  <2>2. IsBytes(t, 2 + w)
    OBVIOUS
  <2>. HIDE DEF n, w
  <2>. QED
    BY <1>1, <1>2, <2>1, <2>2, Joined, Zenon
<1>4. IsBytes(both, Off(l, q, k + 1))
  <2>. HIDE DEF both, n, w
  <2>1. n + (2 + w) = n + 2 + w
    BY <1>2
  <2>. QED
    BY <1>2, <1>3, <2>1, Zenon DEF Joint
<1>. HIDE DEF both
<1>5. Headed(both, q, c)
  <2>. HIDE DEF n
  <2>1. /\ \A i \in 1 .. 8 : 10 + i \in 1 .. n
        /\ \A i \in 1 .. 2 : 18 + i \in 1 .. n
    BY <1>2
  <2>2. /\ \A i \in 1 .. 8 : both[10 + i] = bytes[10 + i]
        /\ \A i \in 1 .. 2 : both[18 + i] = bytes[18 + i]
    BY <1>3, <2>1, Zenon DEF Joint
  <2>. QED
    BY <1>1, <2>2, Zenon DEF Headed
<1>6. ASSUME NEW j \in Nat, j < k
      PROVE  HoldsMsg(l, both, Off(l, q, j), q + j + 1)
  <2>1. /\ j + 1 \in 0 .. k /\ j \in 0 .. k - 1
        /\ q + j + 1 <= Len(l) /\ q + k <= Len(l)
    BY <1>6, Lengths
  <2>2. HoldsMsg(l, bytes, Off(l, q, j), q + j + 1)
    BY <2>1 DEF Packed
  <2>3. Off(l, q, j + 1) <= n
    BY <2>1, OffGrows
  <2>. DEFINE o == Off(l, q, j)
              v == l[q + j + 1]
  <2>4. o \in Nat /\ v \in Nat /\ Off(l, q, j + 1) = o + 2 + v
    BY <2>1, NextOff
  <2>. HIDE DEF o, v, n
  <2>5. /\ \A i \in 1 .. 2 : o + i \in 1 .. n
        /\ \A i \in 1 .. v : o + 2 + i \in 1 .. n
    BY <1>2, <2>3, <2>4
  <2>6. /\ \A i \in 1 .. 2 : both[o + i] = bytes[o + i]
        /\ \A i \in 1 .. v : both[o + 2 + i] = bytes[o + 2 + i]
    BY <1>3, <2>5, Zenon DEF Joint
  <2>. QED
    BY <2>2, <2>6, Zenon DEF HoldsMsg, o, v
<1>7. HoldsMsg(l, both, n, q + k + 1)
  <2>. HIDE DEF n, w
  <2>2. /\ \A i \in 1 .. 2 : i \in 1 .. 2 + w /\ 0 + i = i
        /\ \A i \in 1 .. w : 2 + i \in 1 .. 2 + w /\ 0 + 2 + i = 2 + i
                             /\ n + 2 + i = n + (2 + i)
    BY <1>2
  <2>3. /\ \A i \in 1 .. 2 : t[i] = Byte("len", w, 2 - i)
        /\ \A i \in 1 .. w : t[2 + i] = Byte("msg", q + k + 1, i - 1)
    BY <2>2, Zenon DEF HoldsMsg, w
  <2>4. \A i \in 1 .. 2 : both[n + i] = t[i]
    BY <1>3, <2>2, Zenon DEF Joint
  <2>5. \A i \in 1 .. w : both[n + (2 + i)] = t[2 + i]
    BY <1>3, <2>2, Zenon DEF Joint
  <2>6. \A i \in 1 .. w : both[n + 2 + i] = t[2 + i]
    BY <2>2, <2>5, Zenon
  <2>. QED
    BY <2>3, <2>4, <2>6, Zenon DEF HoldsMsg, w
<1>8. ASSUME NEW j \in 0 .. (k + 1) - 1
      PROVE  HoldsMsg(l, both, Off(l, q, j), q + j + 1)
  <2>1. j \in Nat /\ (j < k \/ j = k)
    OBVIOUS
  <2>2. CASE j < k
    BY <1>6, <2>1, <2>2
  <2>3. CASE j = k
    BY <1>7, <2>3
  <2>. QED
    BY <2>1, <2>2, <2>3
<1>. QED
  <2>. HIDE DEF n, w
  <2>. QED
    BY <1>4, <1>5, <1>8, Zenon DEF Packed, both

-----------------------------------------------------------------------------
(* The messages held are the next of the log.                               *)
Consecutive == /\ log \in Seq(ItchLen) /\ seq \in Nat /\ Len(msgs) \in Nat
               /\ seq + Len(msgs) <= Len(log)
               /\ \A n \in 1 .. Len(msgs) : msgs[n] = seq + n

(* The size of the packet is where its last message ends.                   *)
LEMMA SizeIs == ASSUME Consecutive
                PROVE  PacketSize = Off(log, seq, Len(msgs))
<1>. DEFINE N == Len(msgs)
            Step(f) == [n \in 0 .. N |-> IF n = 0 THEN 20 ELSE f[n - 1] + 2 + log[msgs[n]]]
            f == [n \in 0 .. N |-> Off(log, seq, n)]
            size == CHOOSE s : s = Step(s)
<1>1. N \in Nat /\ seq \in Nat
  BY DEF Consecutive
<1>2. ASSUME NEW n \in 1 .. N
      PROVE  Off(log, seq, n) = Off(log, seq, n - 1) + 2 + log[msgs[n]]
  <2>1. PICK k \in Nat : n = k + 1 /\ k = n - 1
    <3>1. n - 1 \in Nat /\ n = (n - 1) + 1
      OBVIOUS
    <3>. QED
      BY <3>1
  <2>2. log \in Seq(ItchLen) /\ seq + k + 1 <= Len(log) /\ msgs[n] = seq + k + 1
    <3>1. log \in Seq(ItchLen) /\ seq + N <= Len(log) /\ msgs[n] = seq + n
      BY DEF Consecutive
    <3>2. Len(log) \in Nat
      BY <3>1, Lengths
    <3>3. n <= N
      OBVIOUS
    <3>. HIDE DEF N
    <3>. QED
      BY <1>1, <2>1, <3>1, <3>2, <3>3
  <2>3. Off(log, seq, k + 1) = Off(log, seq, k) + 2 + log[seq + k + 1]
    BY <1>1, <2>2, NextOff
  <2>. QED
    BY <2>1, <2>2, <2>3, Zenon
<1>3. Off(log, seq, 0) = 20
  <2>1. log \in Seq(ItchLen) /\ seq + 0 <= Len(log) /\ 0 \in Nat
    BY Lengths DEF Consecutive
  <2>. QED
    BY <1>1, <2>1, Offsets, Zenon
<1>4. f = Step(f)
  <2>1. ASSUME NEW n \in 0 .. N
        PROVE  f[n] = IF n = 0 THEN 20 ELSE f[n - 1] + 2 + log[msgs[n]]
    <3>1. CASE n = 0
      BY <1>3, <3>1
    <3>2. CASE n # 0
      <4>1. n \in 1 .. N /\ n - 1 \in 0 .. N
        BY <3>2
      <4>2. f[n] = Off(log, seq, n) /\ f[n - 1] = Off(log, seq, n - 1)
        BY <4>1, Zenon
      <4>. HIDE DEF f
      <4>. QED
        BY <1>2, <3>2, <4>1, <4>2, Zenon
    <3>. QED
      BY <3>1, <3>2
  <2>. QED
    BY <2>1, Zenon
<1>5. size = Step(size)
  <2>. HIDE DEF Step, size, f
  <2>. QED
    BY <1>4, Zenon DEF size
<1>6. SizeTo = size
  BY Zenon DEF SizeTo
<1>. HIDE DEF size
<1>7. \A n \in 0 .. N : size[n] = IF n = 0 THEN 20 ELSE size[n - 1] + 2 + log[msgs[n]]
  BY <1>5, Zenon
<1>8. N \in {n \in Nat : n \in 0 .. N => size[n] = Off(log, seq, n)}
  <2>. DEFINE T == {n \in Nat : n \in 0 .. N => size[n] = Off(log, seq, n)}
  <2>1. 0 \in T
    BY <1>1, <1>3, <1>7
  <2>2. ASSUME NEW n \in Nat, n < N, n \in T PROVE n + 1 \in T
    <3>1. n \in 0 .. N /\ n + 1 \in 0 .. N /\ n + 1 \in 1 .. N /\ n + 1 # 0 /\ (n + 1) - 1 = n
      BY <1>1, <2>2
    <3>2. size[n] = Off(log, seq, n)
      BY <2>2, <3>1
    <3>3. size[n + 1] = size[n] + 2 + log[msgs[n + 1]]
      BY <1>7, <3>1, Zenon
    <3>4. Off(log, seq, n + 1) = Off(log, seq, n) + 2 + log[msgs[n + 1]]
      BY <1>2, <3>1, Zenon
    <3>. QED
      BY <3>2, <3>3, <3>4
  <2>. HIDE DEF T, N
  <2>3. \A n \in 0 .. N : n \in T
    BY <1>1, <2>1, <2>2, Induct
  <2>. QED
    BY <1>1, <2>3 DEF T
<1>9. size[N] = Off(log, seq, N)
  BY <1>1, <1>8
<1>. QED
  BY <1>6, <1>9, Zenon DEF PacketSize

(* What flatten makes of the messages held is a packet of them.             *)
LEMMA FlattenIs == ASSUME Consecutive
                   PROVE  Packed(log, Flatten, seq, Len(msgs), Len(msgs))
<1>. DEFINE N == Len(msgs)
            Step(f) == [n \in 0 .. N |-> IF n = 0 THEN Header ELSE f[n - 1] \o Message(msgs[n])]
            S == Seq(Octet)
            g == [n \in 1 .. N |-> [x \in S |-> x \o Message(msgs[n])]]
            bytes == CHOOSE s : s = Step(s)
<1>1. N \in Nat /\ seq \in Nat /\ log \in Seq(ItchLen)
  BY DEF Consecutive
<1>2. Header \in S
  BY <1>1, HeaderIs DEF IsBytes
<1>3. ASSUME NEW n \in 1 .. N
      PROVE  /\ msgs[n] = seq + n /\ msgs[n] \in 1 .. Len(log)
             /\ Message(msgs[n]) \in Seq(Octet)
             /\ IsBytes(Message(msgs[n]), 2 + log[seq + n])
             /\ HoldsMsg(log, Message(msgs[n]), 0, seq + n)
  <2>1. msgs[n] = seq + n /\ seq + N <= Len(log) /\ Len(log) \in Nat
    BY <1>1, Lengths DEF Consecutive
  <2>2. seq + n \in 1 .. Len(log)
    <3>. HIDE DEF N
    <3>. QED
      BY <1>1, <2>1
  <2>3. /\ IsBytes(Message(seq + n), 2 + log[seq + n])
        /\ HoldsMsg(log, Message(seq + n), 0, seq + n)
    BY <1>1, <2>2, MessageIs, Zenon
  <2>. QED
    BY <2>1, <2>2, <2>3, Zenon DEF IsBytes
<1>4. ASSUME NEW n \in 1 .. N, NEW x \in S PROVE x \o Message(msgs[n]) \in S
  BY <1>3
<1>5. g \in [1 .. N -> [S -> S]]
  BY <1>4, Zenon
<1>6. \A n \in 1 .. N, x \in S : g[n][x] = x \o Message(msgs[n])
  BY Zenon
<1>. HIDE DEF g, S
<1>7. PICK f : Results(f, S, Header, N, g)
  <2>. HIDE DEF N
  <2>. QED
    BY <1>1, <1>2, <1>5, Recursion, Zenon
<1>8. /\ f \in [0 .. N -> S] /\ f[0] = Header
      /\ \A n \in 1 .. N : f[n] = g[n][f[n - 1]]
  BY <1>7, Zenon DEF Results
<1>9. f = Step(f)
  <2>1. ASSUME NEW n \in 0 .. N
        PROVE  f[n] = IF n = 0 THEN Header ELSE f[n - 1] \o Message(msgs[n])
    <3>1. CASE n = 0
      BY <1>8, <3>1
    <3>2. CASE n # 0
      <4>1. n \in 1 .. N /\ n - 1 \in 0 .. N
        BY <3>2
      <4>2. f[n - 1] \in S
        BY <1>8, <4>1
      <4>. QED
        BY <1>6, <1>8, <3>2, <4>1, <4>2, Zenon
    <3>. QED
      BY <3>1, <3>2
  <2>2. f = [n \in 0 .. N |-> f[n]]
    BY <1>8, Zenon
  <2>. QED
    BY <2>1, <2>2, Zenon
<1>10. bytes = Step(bytes)
  <2>. HIDE DEF Step, bytes
  <2>. QED
    BY <1>9, Zenon DEF bytes
<1>11. BytesTo = bytes
  BY Zenon DEF BytesTo
<1>. HIDE DEF bytes
<1>12. \A n \in 0 .. N : bytes[n] = IF n = 0 THEN Header ELSE bytes[n - 1] \o Message(msgs[n])
  BY <1>10, Zenon
<1>13. N \in {n \in Nat : n \in 0 .. N => Packed(log, bytes[n], seq, N, n)}
  <2>. DEFINE T == {n \in Nat : n \in 0 .. N => Packed(log, bytes[n], seq, N, n)}
  <2>1. 0 \in T
    <3>1. 0 \in 0 .. N /\ bytes[0] = Header
      BY <1>1, <1>12
    <3>2. Off(log, seq, 0) = 20
      <4>1. seq + 0 <= Len(log) /\ 0 \in Nat
        BY Lengths DEF Consecutive
      <4>. QED
        BY <1>1, <4>1, Offsets, Zenon
    <3>3. IsBytes(Header, 20) /\ Headed(Header, seq, N)
      BY <1>1, HeaderIs
    <3>4. \A j \in 0 .. 0 - 1 : FALSE
      OBVIOUS
    <3>5. Packed(log, Header, seq, N, 0)
      BY <3>2, <3>3, <3>4, Zenon DEF Packed
    <3>. QED
      BY <3>1, <3>5
  <2>2. ASSUME NEW n \in Nat, n < N, n \in T PROVE n + 1 \in T
    <3>1. n \in 0 .. N /\ n + 1 \in 0 .. N /\ n + 1 \in 1 .. N /\ n + 1 # 0 /\ (n + 1) - 1 = n
      BY <1>1, <2>2
    <3>2. Packed(log, bytes[n], seq, N, n)
      BY <2>2, <3>1
    <3>3. bytes[n + 1] = bytes[n] \o Message(msgs[n + 1])
      BY <1>12, <3>1, Zenon
    <3>4. seq + n + 1 <= Len(log) /\ seq + (n + 1) = seq + n + 1
      <4>1. seq + N <= Len(log) /\ Len(log) \in Nat
        BY <1>1, Lengths DEF Consecutive
      <4>. HIDE DEF N
      <4>. QED
        BY <1>1, <2>2, <4>1
    <3>5. /\ IsBytes(Message(msgs[n + 1]), 2 + log[seq + n + 1])
          /\ HoldsMsg(log, Message(msgs[n + 1]), 0, seq + n + 1)
      BY <1>3, <3>1, <3>4, Zenon
    <3>6. Packed(log, bytes[n + 1], seq, N, n + 1)
      BY <1>1, <3>2, <3>3, <3>4, <3>5, PackedNext, Zenon
    <3>. QED
      BY <3>6
  <2>. HIDE DEF T, N
  <2>3. \A n \in 0 .. N : n \in T
    BY <1>1, <2>1, <2>2, Induct
  <2>. QED
    BY <1>1, <2>3 DEF T
<1>14. Packed(log, bytes[N], seq, N, N)
  <2>. HIDE DEF N
  <2>. QED
    BY <1>1, <1>13
<1>. QED
  BY <1>11, <1>14, Zenon DEF Flatten

-----------------------------------------------------------------------------
(* The decoder: what it reads in the first n bytes of a packet.             *)
Prefix(s, bytes, n) == /\ IsBytes(s, n) /\ n \in Nat /\ n <= Len(bytes)
                       /\ \A i \in 1 .. n : s[i] = bytes[i]

FieldAt(s, f, v, o, n) == /\ o + n <= Len(s)
                          /\ \A i \in 1 .. n : s[o + i] = Byte(f, v, n - i)
BodyAt(s, m, o, n) == \A i \in 1 .. n : s[o + i] = Byte("msg", m, i - 1)

LEMMA FieldFound ==
    ASSUME NEW s, NEW f, NEW v, NEW o \in Nat, NEW n \in Nat, n > 0, FieldAt(s, f, v, o, n)
    PROVE  Field(s, f, o, n) = v
<1>1. s[o + 1] = Byte(f, v, n - 1)
  BY SMT DEF FieldAt
<1>2. s[o + 1].v = v
  BY <1>1 DEF Byte
<1>. QED
  BY <1>2, Zenon DEF Field, FieldAt

LEMMA FieldMissing ==
    ASSUME NEW s, NEW f, NEW o, NEW n, ~(o + n <= Len(s))
    PROVE  Field(s, f, o, n) = 0
  BY Zenon DEF Field

LEMMA BodyFound ==
    ASSUME NEW s, NEW m, NEW o \in Nat, NEW n \in Nat, n > 0, BodyAt(s, m, o, n)
    PROVE  Body(s, o, n) = m
<1>1. s[o + 1] = Byte("msg", m, 1 - 1)
  BY SMT DEF BodyAt
<1>2. s[o + 1].v = m
  BY <1>1 DEF Byte
<1>. QED
  BY <1>2, Zenon DEF Body, BodyAt

LEMMA ReadsHeader ==
    ASSUME NEW bytes, NEW s, NEW n \in Nat, NEW q, NEW c,
           Headed(bytes, q, c), Prefix(s, bytes, n)
    PROVE  /\ n >= 18 => Field(s, "seq", 10, 8) = q
           /\ n >= 20 => Field(s, "cnt", 18, 2) = c
<1>1. Len(s) = n /\ \A i \in 1 .. n : s[i] = bytes[i]
  BY Zenon DEF Prefix, IsBytes
<1>2. ASSUME n >= 18 PROVE Field(s, "seq", 10, 8) = q
  <2>1. \A i \in 1 .. 8 : 10 + i \in 1 .. n
    BY <1>2
  <2>2. \A i \in 1 .. 8 : s[10 + i] = Byte("seq", q, 8 - i)
    BY <1>1, <2>1, Zenon DEF Headed
  <2>3. 10 \in Nat /\ 8 \in Nat /\ 8 > 0 /\ 10 + 8 <= Len(s)
    BY <1>1, <1>2
  <2>4. FieldAt(s, "seq", q, 10, 8)
    BY <2>2, <2>3, Zenon DEF FieldAt
  <2>. QED
    BY <2>3, <2>4, FieldFound, Zenon
<1>3. ASSUME n >= 20 PROVE Field(s, "cnt", 18, 2) = c
  <2>1. \A i \in 1 .. 2 : 18 + i \in 1 .. n
    BY <1>3
  <2>2. \A i \in 1 .. 2 : s[18 + i] = Byte("cnt", c, 2 - i)
    BY <1>1, <2>1, Zenon DEF Headed
  <2>3. 18 \in Nat /\ 2 \in Nat /\ 2 > 0 /\ 18 + 2 <= Len(s)
    BY <1>1, <1>3
  <2>4. FieldAt(s, "cnt", c, 18, 2)
    BY <2>2, <2>3, Zenon DEF FieldAt
  <2>. QED
    BY <2>3, <2>4, FieldFound, Zenon
<1>. QED
  BY <1>2, <1>3

(* Message j of the packet, once it is there whole.                         *)
MsgReadAt(l, s, q, j) ==
    /\ Field(s, "len", Off(l, q, j), 2) = l[q + j + 1]
    /\ l[q + j + 1] > 0
    /\ Off(l, q, j) + 2 + l[q + j + 1] = Off(l, q, j + 1)
    /\ Body(s, Off(l, q, j) + 2, l[q + j + 1]) = q + j + 1

LEMMA ReadsWhole ==
    ASSUME NEW l \in Seq(ItchLen), NEW bytes, NEW s, NEW n \in Nat, NEW q \in Nat, NEW c,
           NEW k \in Nat, NEW j \in Nat, j < k, q + k <= Len(l),
           Packed(l, bytes, q, c, k), Prefix(s, bytes, n), Off(l, q, j + 1) <= n
    PROVE  MsgReadAt(l, s, q, j)
<1>. DEFINE o == Off(l, q, j)
            w == l[q + j + 1]
<1>1. Len(s) = n /\ \A i \in 1 .. n : s[i] = bytes[i]
  BY Zenon DEF Prefix, IsBytes
<1>2. j \in 0 .. k - 1 /\ q + j + 1 <= Len(l)
  BY Lengths
<1>3. HoldsMsg(l, bytes, o, q + j + 1)
  BY <1>2, Zenon DEF Packed
<1>4. o \in Nat /\ w \in Nat /\ w \in 12 .. 50 /\ Off(l, q, j + 1) = o + 2 + w
  BY <1>2, NextOff, Zenon
<1>5. /\ \A i \in 1 .. 2 : bytes[o + i] = Byte("len", w, 2 - i)
      /\ \A i \in 1 .. w : bytes[o + 2 + i] = Byte("msg", q + j + 1, i - 1)
  BY <1>3, Zenon DEF HoldsMsg
<1>. HIDE DEF o, w
<1>6. /\ \A i \in 1 .. 2 : o + i \in 1 .. n
      /\ \A i \in 1 .. w : o + 2 + i \in 1 .. n
  BY <1>4
<1>7. /\ \A i \in 1 .. 2 : s[o + i] = Byte("len", w, 2 - i)
      /\ \A i \in 1 .. w : s[o + 2 + i] = Byte("msg", q + j + 1, i - 1)
  BY <1>1, <1>5, <1>6, Zenon
<1>8. o + 2 \in Nat /\ w > 0 /\ o + 2 <= Len(s) /\ 2 \in Nat /\ 2 > 0
  BY <1>1, <1>4
<1>9. Field(s, "len", o, 2) = w
  <2>1. FieldAt(s, "len", w, o, 2)
    BY <1>7, <1>8, Zenon DEF FieldAt
  <2>. QED
    BY <1>4, <1>8, <2>1, FieldFound, Zenon
<1>10. Body(s, o + 2, w) = q + j + 1
  <2>1. BodyAt(s, q + j + 1, o + 2, w)
    BY <1>7, Zenon DEF BodyAt
  <2>. QED
    BY <1>4, <1>8, <2>1, BodyFound, Zenon
<1>. QED
  BY <1>4, <1>8, <1>9, <1>10, Zenon DEF MsgReadAt, o, w

(* Until then, no message is seen to end.                                   *)
LEMMA ReadsPart ==
    ASSUME NEW l \in Seq(ItchLen), NEW bytes, NEW s, NEW n \in Nat, NEW q \in Nat, NEW c,
           NEW k \in Nat, NEW j \in Nat, j < k, q + k <= Len(l),
           Packed(l, bytes, q, c, k), Prefix(s, bytes, n), Off(l, q, j + 1) > n
    PROVE  LET len == Field(s, "len", Off(l, q, j), 2)
           IN  ~(len > 0 /\ Off(l, q, j) + 2 + len <= Len(s))
<1>. DEFINE o == Off(l, q, j)
            w == l[q + j + 1]
<1>1. Len(s) = n /\ \A i \in 1 .. n : s[i] = bytes[i]
  BY Zenon DEF Prefix, IsBytes
<1>2. j \in 0 .. k - 1 /\ q + j + 1 <= Len(l)
  BY Lengths
<1>3. HoldsMsg(l, bytes, o, q + j + 1)
  BY <1>2, Zenon DEF Packed
<1>4. o \in Nat /\ w \in Nat /\ Off(l, q, j + 1) = o + 2 + w
  BY <1>2, NextOff, Zenon
<1>5. \A i \in 1 .. 2 : bytes[o + i] = Byte("len", w, 2 - i)
  BY <1>3, Zenon DEF HoldsMsg
<1>. HIDE DEF o, w
<1>6. CASE o + 2 <= n
  <2>1. \A i \in 1 .. 2 : o + i \in 1 .. n
    BY <1>4, <1>6
  <2>2. \A i \in 1 .. 2 : s[o + i] = Byte("len", w, 2 - i)
    BY <1>1, <1>5, <2>1, Zenon
  <2>3. 2 \in Nat /\ 2 > 0 /\ o + 2 <= Len(s)
    BY <1>1, <1>6
  <2>4. Field(s, "len", o, 2) = w
    <3>1. FieldAt(s, "len", w, o, 2)
      BY <2>2, <2>3, Zenon DEF FieldAt
    <3>. QED
      BY <1>4, <2>3, <3>1, FieldFound, Zenon
  <2>5. ~(o + 2 + w <= Len(s))
    BY <1>1, <1>4
  <2>. QED
    BY <2>4, <2>5, Zenon DEF o
<1>7. CASE ~(o + 2 <= n)
  <2>1. Field(s, "len", o, 2) = 0
    <3>1. ~(o + 2 <= Len(s))
      BY <1>1, <1>7
    <3>. QED
      BY <3>1, FieldMissing, Zenon
  <2>2. ~(0 > 0)
    OBVIOUS
  <2>. QED
    BY <2>1, <2>2, Zenon DEF o
<1>. QED
  BY <1>6, <1>7

(* Behind the last message there is none.                                   *)
LEMMA ReadsNoMore ==
    ASSUME NEW l \in Seq(ItchLen), NEW bytes, NEW s, NEW n \in Nat, NEW q \in Nat, NEW c,
           NEW k \in Nat, q + k <= Len(l), Packed(l, bytes, q, c, k), Prefix(s, bytes, n)
    PROVE  ~(Field(s, "len", Off(l, q, k), 2) > 0)
<1>1. Len(s) = n /\ n <= Len(bytes) /\ Len(bytes) = Off(l, q, k)
  BY Zenon DEF Prefix, Packed, IsBytes
<1>2. Off(l, q, k) \in Nat
  BY Offsets
<1>3. ~(Off(l, q, k) + 2 <= Len(s))
  BY <1>1, <1>2
<1>4. Field(s, "len", Off(l, q, k), 2) = 0
  BY <1>3, FieldMissing, Zenon
<1>. QED
  BY <1>4

-----------------------------------------------------------------------------
(***************************************************************************)
(* The testbench that sends them.                                           *)
(***************************************************************************)
(* Message n of the log, as the list and the decoder should have it.        *)
Expected(n) == [msg |-> n, id |-> <<SID, n - 1>>]

(* The packet on the wire holds Held messages, behind the first First.      *)
Held    == IF flat = <<>> THEN 0 ELSE flat[19].v
First   == seq - Held
Waiting == pc = "clock" /\ axi.tvalid       \* a beat the design has not seen
Sent    == IF flat_idx < Len(flat) THEN flat_idx ELSE Len(flat)
Running == pc \notin {"end", "over"}
Popped  == pos - Len(order)

ConfigInv ==
    /\ log \in Logs /\ latency \in Latencies
    /\ zeroEnd \in BOOLEAN /\ stalls \in BOOLEAN /\ ready \in BOOLEAN
    /\ pos \in 0 .. Len(log) /\ eof \in BOOLEAN
    /\ pc \in {"idle", "read", "beat", "clock", "end", "over"}
    /\ left \in 0 .. MSG_CNT_MAX - 1 /\ caller \in {"tb_init", "tb"}
    /\ gap \in 0 .. GAP /\ quiet \in 0 .. LLOCK
    /\ axi.tvalid \in BOOLEAN /\ axi.tlast \in BOOLEAN /\ axi.tkeep \subseteq 1 .. 8
    /\ axi = [tvalid |-> axi.tvalid, tdata |-> axi.tdata,
              tkeep |-> axi.tkeep, tlast |-> axi.tlast]
    /\ rxLast \in BOOLEAN

(* The messages held are the last ones read.                                *)
HeldInv ==
    /\ seq \in Nat /\ msgs \in Seq(1 .. Len(log))
    /\ seq + Len(msgs) = pos
    /\ \A n \in 1 .. Len(msgs) : msgs[n] = seq + n
    /\ pc # "read" => msgs = <<>>
    /\ pc = "read" => left + Len(msgs) < MSG_CNT_MAX

(* The list expects the messages read and not yet popped.                   *)
ListInv ==
    /\ FifoInv
    /\ Len(order) <= pos
    /\ \A n \in 1 .. Len(order) : elem[order[n]] = Expected(Popped + n)

(* What is to be sent is a packet of the messages before those held.        *)
PacketInv ==
    flat # <<>> => /\ Held \in 1 .. MSG_CNT_MAX - 1 /\ First \in Nat
                   /\ flat_l = Len(flat)
                   /\ Packed(log, flat, First, Held, Held)

PlaceInv ==
    /\ flat_idx \in Nat
    /\ flat = <<>> /\ pc # "over" => flat_l = 0 /\ flat_idx = 0
    /\ pc = "read" /\ caller = "tb_init" => flat = <<>>
    /\ pc = "read" /\ caller = "tb" => flat # <<>> /\ flat_idx >= Len(flat)
    /\ pc = "beat" => flat_idx = 0 \/ flat_idx < Len(flat)

(* The decoder has n bytes of the packet and found every message in them.   *)
Decoded(n) ==
    /\ Prefix(rx, flat, n)
    /\ num \in 0 .. Held /\ start = Off(log, First, num)
    /\ num < Held => Off(log, First, num + 1) > n

BeatInv ==
    Waiting => /\ flat # <<>> /\ flat_idx >= 8 /\ flat_idx - 8 < Len(flat)
               /\ IsBytes(axi.tdata, Sent - (flat_idx - 8))
               /\ \A i \in 1 .. Sent - (flat_idx - 8) :
                     axi.tdata[i] = flat[flat_idx - 8 + i]
               /\ axi.tlast <=> flat_idx >= Len(flat)
               /\ rxLast <=> flat_idx = 8
               /\ ~rxLast => Decoded(flat_idx - 8)

DutInv ==
    /\ rx \in Seq(Octet) /\ num \in Nat /\ start \in Nat
    /\ flat_idx = 0 => ~Waiting /\ (pc # "over" => rxLast)
    /\ flat # <<>> /\ flat_idx > 0 /\ ~Waiting =>
          Decoded(Sent) /\ (rxLast <=> flat_idx >= Len(flat))

(* The messages decoded; those between them and the popped ones wait, the   *)
(* older ones longer, for the design to announce them.                      *)
Ended == First + (IF flat_idx = 0 \/ (Waiting /\ rxLast) THEN 0 ELSE num)

PendInv ==
    /\ pending \in Seq([item : Item, age : Nat])
    /\ Running =>
          /\ Len(pending) = Ended - Popped
          /\ \A i \in 1 .. Len(pending) : pending[i].item = Expected(Popped + i)
    /\ \A i \in 1 .. Len(pending) : pending[i].age < latency
    /\ \A i, j \in 1 .. Len(pending) : i < j => pending[j].age < pending[i].age

GotInv ==
    /\ popped = got
    /\ Running => got = IF Popped = 0 THEN NULL ELSE Expected(Popped)

(* After a packet's last beat, what waits has been waiting since.           *)
Older(n) == \A i \in 1 .. Len(pending) : pending[i].age >= n

AgeInv ==
    /\ Waiting /\ flat_idx >= Len(flat) => gap = GAP
    /\ pc = "read" /\ caller = "tb_init" => pending = <<>>
    /\ pc \in {"idle", "clock"} /\ flat = <<>> => pending = <<>>
    /\ flat # <<>> /\ flat_idx >= Len(flat) =>
          /\ pc \in {"idle", "read"} => Older(GAP)
          /\ pc = "clock" /\ ~axi.tvalid => Older(GAP - 1 - gap)
    /\ pc = "beat" /\ flat = <<>> => Older(GAP)

EndInv ==
    /\ eof => pos = Len(log)
    /\ pc = "read" /\ left = 0 /\ msgs = <<>> => pos = Len(log)
    /\ pc \in {"idle", "beat", "clock"} /\ flat = <<>> => pos = Len(log)

FeedInv ==
    /\ ConfigInv /\ HeldInv /\ ListInv /\ PacketInv /\ PlaceInv
    /\ BeatInv /\ DutInv /\ PendInv /\ GotInv /\ AgeInv /\ EndInv
    /\ PacketsWhole /\ AllCompared

-----------------------------------------------------------------------------
(* What the invariant says of the log, and of the packet on the wire.       *)
LEMMA LogIs ==
    ASSUME ConfigInv
    PROVE  /\ log \in Seq(ItchLen) /\ Len(log) \in Nat
           /\ pos \in Nat /\ pos <= Len(log) /\ latency \in Nat
<1>1. log \in Seq(ItchLen) /\ latency \in Nat /\ pos \in 0 .. Len(log)
  BY FeedAssumption, Zenon DEF ConfigInv
<1>2. Len(log) \in Nat
  BY <1>1, Lengths, Zenon
<1>. QED
  BY <1>1, <1>2

LEMMA ItemIs ==
    ASSUME ConfigInv, NEW n \in 1 .. Len(log)
    PROVE  Expected(n) \in Item
  BY FeedAssumption, Zenon DEF ConfigInv, Expected

LEMMA PacketIs ==
    ASSUME ConfigInv, HeldInv, PacketInv, flat # <<>>
    PROVE  /\ Held \in Nat /\ First \in Nat /\ Held >= 1 /\ Held < MSG_CNT_MAX
           /\ First + Held = seq /\ First + Held <= Len(log)
           /\ Packed(log, flat, First, Held, Held) /\ IsBytes(flat, Len(flat))
           /\ Len(flat) = Off(log, First, Held) /\ Len(flat) \in Nat
           /\ Len(flat) >= 34 /\ MaxIdx = Len(flat) - 1
<1>1. /\ Held \in 1 .. MSG_CNT_MAX - 1 /\ First \in Nat /\ flat_l = Len(flat)
      /\ Packed(log, flat, First, Held, Held)
  BY DEF PacketInv
<1>2. /\ log \in Seq(ItchLen) /\ Len(log) \in Nat /\ pos <= Len(log) /\ pos \in Nat
      /\ seq \in Nat /\ seq + Len(msgs) = pos /\ Len(msgs) \in Nat
  BY LogIs DEF HeldInv
<1>3. MSG_CNT_MAX \in Nat /\ SIZE_MOD \in Nat /\ 20 + MSG_CNT_MAX * 52 < SIZE_MOD
  BY FeedAssumption
<1>4. Held \in Nat /\ Held >= 1 /\ Held < MSG_CNT_MAX
  <2>. HIDE DEF Held
  <2>. QED
    BY <1>1, <1>3
<1>5. First + Held = seq /\ First + Held <= Len(log)
  <2>1. First = seq - Held
    BY Zenon DEF First
  <2>. HIDE DEF First, Held
  <2>. QED
    BY <1>1, <1>2, <1>4, <2>1
<1>6. IsBytes(flat, Len(flat)) /\ Len(flat) = Off(log, First, Held)
  BY <1>1, Zenon DEF Packed, IsBytes
<1>7. /\ Off(log, First, Held) \in Nat /\ 20 + 14 * Held <= Off(log, First, Held)
      /\ Off(log, First, Held) <= 20 + 52 * Held
  BY <1>1, <1>2, <1>4, <1>5, Offsets, Zenon
<1>8. Len(flat) \in Nat /\ Len(flat) >= 34 /\ Len(flat) < SIZE_MOD
  <2>. HIDE DEF First, Held
  <2>. QED
    BY <1>3, <1>4, <1>6, <1>7
<1>9. MaxIdx = Len(flat) - 1
  <2>1. MaxIdx = (Len(flat) - 1) % SIZE_MOD
    BY <1>1, Zenon DEF MaxIdx
  <2>. QED
    BY <1>3, <1>8, <2>1
<1>. QED
  BY <1>1, <1>4, <1>5, <1>6, <1>8, <1>9

(* malloc finds a node: the list never holds more than the messages read.   *)
LEMMA MallocIs ==
    ASSUME ConfigInv, ListInv, pos < Len(log)
    PROVE  Malloc \in Node \ mem
<1>1. order \in Seq(Node) /\ Len(order) \in Nat /\ Len(order) <= pos
  BY DEF ListInv, FifoInv, FifoTypeOK
<1>2. pos \in Nat /\ Len(log) \in Nat /\ Len(log) <= Cardinality(Node)
  BY LogIs, FeedAssumption, Zenon DEF ConfigInv
<1>3. mem = {order[i] : i \in 1 .. Len(order)} /\ mem \subseteq Node
  BY Zenon DEF ListInv, FifoInv, FifoTypeOK, Owned
<1>4. Cardinality(mem) <= Len(order)
  <2>. DEFINE n == Len(order)
  <2>1. order \in [1 .. n -> mem] /\ \A a \in mem : \E i \in 1 .. n : order[i] = a
    BY <1>1, <1>3
  <2>2. ExistsSurjection(1 .. n, mem)
    BY <2>1, Zenon DEF ExistsSurjection, Surjection
  <2>. QED
    BY <1>1, <2>2, FS_SurjCardinalityBound, Zenon
<1>5. Cardinality(mem) \in Nat /\ Cardinality(Node) \in Nat
  BY <1>3, FeedAssumption, FS_Subset, FS_CardinalityType
<1>6. mem # Node
  BY <1>1, <1>2, <1>4, <1>5
<1>7. \E a \in Node \ mem : TRUE
  BY <1>3, <1>6, Zenon
<1>. QED
  BY <1>7, Zenon DEF Malloc

(* Everything sent, everything is decoded.                                  *)
LEMMA AllDecoded ==
    ASSUME ConfigInv, HeldInv, PacketInv, flat # <<>>, NEW k \in Nat, k <= Held,
           k < Held => Off(log, First, k + 1) > Len(flat)
    PROVE  k = Held
<1>1. /\ Held \in Nat /\ First \in Nat /\ First + Held <= Len(log)
      /\ Len(flat) = Off(log, First, Held) /\ log \in Seq(ItchLen)
  BY PacketIs, LogIs
<1>. HIDE DEF Held, First
<1>2. CASE k < Held
  <2>1. k + 1 \in 0 .. Held
    BY <1>1, <1>2
  <2>2. Off(log, First, k + 1) <= Off(log, First, Held)
    BY <1>1, <2>1, OffGrows, Zenon
  <2>3. k + 1 \in Nat /\ First + (k + 1) <= Len(log) /\ Len(log) \in Nat
    BY <1>1, <1>2, Lengths
  <2>4. Off(log, First, k + 1) \in Nat /\ Off(log, First, Held) \in Nat
    BY <1>1, <2>3, Offsets, Zenon
  <2>. QED
    BY <1>1, <1>2, <2>2, <2>4
<1>. QED
  BY <1>1, <1>2

-----------------------------------------------------------------------------
(* The parts of the invariant that a step leaves alone, by what they see.   *)
LEMMA KeepPacket == ASSUME PacketInv, UNCHANGED <<log, seq, flat, flat_l>>
                    PROVE  PacketInv' /\ Held' = Held /\ First' = First
  BY Zenon DEF PacketInv, Held, First

LEMMA KeepDecoded ==
    ASSUME NEW n, Decoded(n), UNCHANGED <<log, seq, flat, rx, start, num>>
    PROVE  Decoded(n)'
  BY Zenon DEF Decoded, Held, First

(* The list and what was popped from it.                                    *)
LEMMA KeepList ==
    ASSUME ListInv, GotInv, UNCHANGED <<pos, got, fifoVars>>,
           Running' => Running
    PROVE  ListInv' /\ GotInv' /\ Popped' = Popped
<1>1. UNCHANGED <<read, write, next, elem, mem, popped, order, pos, got>>
  BY Zenon DEF fifoVars
<1>2. FifoInv'
  BY <1>1 DEF ListInv, FifoInv, FifoTypeOK, Linked, Owned
<1>. QED
  BY <1>1, <1>2, Zenon DEF ListInv, GotInv, Popped, Expected

(* The design, in a step of the bench that leaves the packet alone.         *)
LEMMA KeepDut ==
    ASSUME FeedInv, UNCHANGED <<log, latency, dutVars, seq, flat, flat_idx>>,
           ~Waiting, ~Waiting', Popped' = Popped, Running' => Running,
           pc # "over"
    PROVE  BeatInv' /\ DutInv' /\ PendInv' /\ PacketsWhole'
<1>1. UNCHANGED <<log, latency, seq, flat, flat_idx, rx, rxLast, start, num, pending, got, quiet>>
  BY Zenon DEF dutVars
<1>2. BeatInv'
  BY Zenon DEF BeatInv
<1>3. DutInv'
  <2>1. DutInv /\ (flat_idx = 0 => rxLast)
    BY Zenon DEF FeedInv, DutInv
  <2>2. (flat # <<>> /\ flat_idx > 0 => Decoded(Sent) /\ (rxLast <=> flat_idx >= Len(flat)))
    BY <2>1, Zenon DEF DutInv
  <2>3. ASSUME Decoded(Sent) PROVE Decoded(Sent)'
    BY <1>1, <2>3, Zenon DEF Decoded, Held, First, Sent
  <2>. QED
    BY <1>1, <2>1, <2>2, <2>3, Zenon DEF DutInv
<1>4. PendInv'
  <2>1. Ended' = Ended
    BY <1>1, Zenon DEF Ended, First, Held
  <2>. QED
    BY <1>1, <2>1, Zenon DEF FeedInv, PendInv, Expected
<1>5. PacketsWhole'
  BY <1>1, Zenon DEF FeedInv, PacketsWhole
<1>. QED
  BY <1>2, <1>3, <1>4, <1>5

-----------------------------------------------------------------------------
(* The steps of tv_create_packet.                                           *)
LEMMA ReadMsgInv ==
    ASSUME FeedInv, ReadMsg
    PROVE  FeedInv'
<1>. DEFINE x == [msg |-> pos + 1, id |-> DebugId(seq, Len(msgs))]
<1>1. /\ pc = "read" /\ left > 0 /\ pos < Len(log)
      /\ pos' = pos + 1 /\ left' = left - 1
      /\ msgs' = Append(msgs, pos + 1) /\ FifoPush(Malloc, x)
      /\ UNCHANGED <<log, zeroEnd, latency, stalls, eof, seq, flat, flat_l, flat_idx,
                     pc, caller, axi, gap, ready, rx, rxLast, start, num, pending,
                     got, quiet>>
  BY Zenon DEF ReadMsg, AddMsg, cfgVars, flatVars, wireVars, dutVars
<1>2. /\ ConfigInv /\ HeldInv /\ ListInv /\ PacketInv /\ PlaceInv /\ GotInv /\ AgeInv /\ EndInv
  BY Zenon DEF FeedInv
<1>3. /\ pos \in Nat /\ Len(log) \in Nat /\ seq \in Nat /\ msgs \in Seq(1 .. Len(log))
      /\ Len(msgs) \in Nat /\ seq + Len(msgs) = pos /\ left \in 0 .. MSG_CNT_MAX - 1
      /\ left + Len(msgs) < MSG_CNT_MAX /\ MSG_CNT_MAX \in Nat
  <2>1. pos \in Nat /\ Len(log) \in Nat /\ left \in 0 .. MSG_CNT_MAX - 1 /\ MSG_CNT_MAX \in Nat
    BY <1>2, LogIs, FeedAssumption, Zenon DEF ConfigInv
  <2>2. /\ seq \in Nat /\ msgs \in Seq(1 .. Len(log)) /\ seq + Len(msgs) = pos
        /\ left + Len(msgs) < MSG_CNT_MAX
    BY <1>1, <1>2, Zenon DEF HeldInv
  <2>3. Len(msgs) \in Nat
    BY <2>2
  <2>. QED
    BY <2>1, <2>2, <2>3, Zenon
<1>4. pos' \in 0 .. Len(log) /\ left' \in 0 .. MSG_CNT_MAX - 1 /\ pos + 1 \in 1 .. Len(log)
  BY <1>1, <1>3
<1>5. ConfigInv'
  BY <1>1, <1>2, <1>4, Zenon DEF ConfigInv
<1>6. HeldInv'
  <2>1. /\ msgs' \in Seq(1 .. Len(log)) /\ Len(msgs') = Len(msgs) + 1
        /\ \A n \in 1 .. Len(msgs) : msgs'[n] = msgs[n]
        /\ msgs'[Len(msgs) + 1] = pos + 1
    BY <1>1, <1>3, <1>4
  <2>2. \A n \in 1 .. Len(msgs) : msgs[n] = seq + n
    BY <1>2, Zenon DEF HeldInv
  <2>3. ASSUME NEW n \in 1 .. Len(msgs') PROVE msgs'[n] = seq + n
    <3>1. n \in 1 .. Len(msgs) \/ n = Len(msgs) + 1
      BY <1>3, <2>1
    <3>2. seq + (Len(msgs) + 1) = pos + 1
      BY <1>3
    <3>. QED
      BY <2>1, <2>2, <3>1, <3>2, Zenon
  <2>4. seq + Len(msgs') = pos' /\ left' + Len(msgs') < MSG_CNT_MAX
    BY <1>1, <1>3, <2>1
  <2>. QED
    BY <1>1, <1>3, <2>1, <2>3, <2>4 DEF HeldInv
<1>7. x = Expected(pos + 1)
  <2>1. seq + Len(msgs) = (pos + 1) - 1
    BY <1>3
  <2>. QED
    BY <2>1, Zenon DEF Expected, DebugId
<1>8. Malloc \in Node \ mem /\ x \in Item
  BY <1>1, <1>2, <1>4, <1>7, MallocIs, ItemIs, Zenon
<1>. HIDE DEF x
<1>9. ListInv' /\ Popped' = Popped /\ Len(order') = Len(order) + 1 /\ popped' = popped
  <2>1. FifoInv'
    BY <1>1, <1>2, <1>8, PushInv, Zenon DEF ListInv
  <2>2. /\ order \in Seq(Node) /\ Len(order) \in Nat /\ Len(order) <= pos
        /\ elem \in [Node -> Item \cup {NULL}]
        /\ order' = Append(order, Malloc) /\ elem' = [elem EXCEPT ![Malloc] = x]
        /\ popped' = popped
    BY <1>1, <1>2 DEF ListInv, FifoInv, FifoTypeOK, FifoPush
  <2>3. /\ Len(order') = Len(order) + 1 /\ order'[Len(order) + 1] = Malloc
        /\ \A n \in 1 .. Len(order) : order'[n] = order[n] /\ order[n] \in Node
    BY <1>8, <2>2
  <2>4. Len(order') <= pos' /\ Popped' = Popped
    BY <1>1, <1>3, <2>2, <2>3 DEF Popped
  <2>5. \A n \in 1 .. Len(order) : order[n] # Malloc
    BY <1>2, <1>8, Zenon DEF ListInv, FifoInv, Owned
  <2>6. \A n \in 1 .. Len(order) : elem'[order'[n]] = Expected(Popped + n)
    <3>1. \A n \in 1 .. Len(order) : elem'[order'[n]] = elem[order[n]]
      BY <2>2, <2>3, <2>5
    <3>. QED
      BY <1>2, <3>1, Zenon DEF ListInv
  <2>7. elem'[order'[Len(order) + 1]] = Expected(Popped + (Len(order) + 1))
    <3>1. elem'[Malloc] = x
      BY <1>8, <2>2
    <3>2. Popped + (Len(order) + 1) = pos + 1
      BY <1>3, <2>2 DEF Popped
    <3>. QED
      BY <1>7, <2>3, <3>1, <3>2, Zenon
  <2>8. ASSUME NEW n \in 1 .. Len(order') PROVE elem'[order'[n]] = Expected(Popped + n)
    <3>1. n \in 1 .. Len(order) \/ n = Len(order) + 1
      BY <2>2, <2>3
    <3>. QED
      BY <2>6, <2>7, <3>1, Zenon
  <2>9. \A n \in 1 .. Len(order') : (elem[order[n]] = Expected(Popped + n))'
    BY <2>4, <2>8, Zenon DEF Expected
  <2>. QED
    BY <2>1, <2>2, <2>3, <2>4, <2>9, Zenon DEF ListInv
<1>10. GotInv'
  BY <1>1, <1>2, <1>9, Zenon DEF GotInv, Running, Expected
<1>11. PacketInv' /\ PlaceInv'
  BY <1>1, <1>2, KeepPacket, Zenon DEF PlaceInv
<1>12. BeatInv' /\ DutInv' /\ PendInv' /\ PacketsWhole'
  <2>1. ~Waiting /\ ~Waiting' /\ pc # "over" /\ (Running' => Running)
    BY <1>1 DEF Waiting, Running
  <2>2. UNCHANGED dutVars
    BY <1>1, Zenon DEF dutVars
  <2>. QED
    BY <1>1, <1>9, <2>1, <2>2, KeepDut, Zenon
<1>13. AgeInv'
  BY <1>1, <1>2, Zenon DEF AgeInv, Waiting, Older
<1>14. EndInv'
  <2>1. ~eof' /\ msgs' # <<>>
    BY <1>1, <1>2, <1>3 DEF EndInv
  <2>2. pc' \notin {"idle", "beat", "clock"}
    BY <1>1
  <2>. QED
    BY <2>1, <2>2, Zenon DEF EndInv
<1>15. AllCompared'
  BY <1>1 DEF AllCompared
<1>. QED
  BY <1>5, <1>6, <1>9, <1>10, <1>11, <1>12, <1>13, <1>14, <1>15, Zenon DEF FeedInv

LEMMA NoMsgInv ==
    ASSUME FeedInv, NoMsg
    PROVE  FeedInv'
<1>1. /\ pc = "read" /\ left > 0 /\ pos = Len(log) /\ eof' = ~zeroEnd /\ left' = 0
      /\ UNCHANGED <<log, zeroEnd, latency, stalls, pos, seq, msgs, flat, flat_l, flat_idx,
                     pc, caller, axi, gap, ready, rx, rxLast, start, num, pending,
                     got, quiet>>
      /\ UNCHANGED fifoVars /\ UNCHANGED dutVars
  BY Zenon DEF NoMsg, moldVars, cfgVars, flatVars, wireVars, dutVars
<1>2. /\ ConfigInv /\ HeldInv /\ ListInv /\ PacketInv /\ PlaceInv /\ GotInv /\ AgeInv /\ EndInv
  BY Zenon DEF FeedInv
<1>3. ConfigInv'
  <2>1. eof' \in BOOLEAN
    BY <1>1, <1>2, Zenon DEF ConfigInv
  <2>2. left' \in 0 .. MSG_CNT_MAX - 1
    BY <1>1, FeedAssumption
  <2>. QED
    BY <1>1, <1>2, <2>1, <2>2, Zenon DEF ConfigInv
<1>4. HeldInv'
  <2>1. left' + Len(msgs') < MSG_CNT_MAX
    BY <1>1, <1>2, FeedAssumption DEF HeldInv, ConfigInv
  <2>. QED
    BY <1>1, <1>2, <2>1, Zenon DEF HeldInv
<1>5. Running' => Running
  BY <1>1, Zenon DEF Running
<1>6. ListInv' /\ GotInv' /\ Popped' = Popped
  BY <1>1, <1>2, <1>5, KeepList, Zenon
<1>7. PacketInv' /\ PlaceInv'
  BY <1>1, <1>2, KeepPacket, Zenon DEF PlaceInv
<1>8. ~Waiting /\ ~Waiting' /\ pc # "over"
  BY <1>1 DEF Waiting
<1>9. BeatInv' /\ DutInv' /\ PendInv' /\ PacketsWhole'
  BY <1>1, <1>5, <1>6, <1>8, KeepDut, Zenon
<1>10. AgeInv'
  BY <1>1, <1>2, Zenon DEF AgeInv, Waiting, Older
<1>11. EndInv'
  BY <1>1, Zenon DEF EndInv
<1>12. AllCompared'
  BY <1>1 DEF AllCompared
<1>. QED
  BY <1>3, <1>4, <1>6, <1>7, <1>9, <1>10, <1>11, <1>12, Zenon DEF FeedInv

(* With no more to send and no beat on the way, all packed is decoded.      *)
LEMMA AllSent ==
    ASSUME FeedInv, ~Waiting, pc # "over", flat = <<>> \/ flat_idx >= Len(flat)
    PROVE  Ended = seq /\ rxLast
<1>0. ConfigInv /\ HeldInv /\ PacketInv /\ PlaceInv /\ DutInv
  BY Zenon DEF FeedInv
<1>1. CASE flat = <<>>
  <2>1. flat_idx = 0 /\ rxLast
    BY <1>0, <1>1, Zenon DEF PlaceInv, DutInv
  <2>2. seq \in Nat /\ Ended = seq - 0 + 0
    BY <1>0, <1>1, <2>1, Zenon DEF Ended, First, Held, HeldInv
  <2>. QED
    BY <2>1, <2>2
<1>2. CASE flat # <<>>
  <2>1. /\ Held \in Nat /\ First \in Nat /\ First + Held = seq
        /\ Len(flat) \in Nat /\ Len(flat) >= 34
    BY <1>0, <1>2, PacketIs
  <2>2. flat_idx \in Nat /\ flat_idx >= Len(flat)
    BY <1>0, <1>2, Zenon DEF PlaceInv
  <2>3. flat_idx > 0 /\ flat_idx # 0 /\ ~(flat_idx < Len(flat))
    BY <2>1, <2>2
  <2>4. Decoded(Sent) /\ rxLast /\ Sent = Len(flat)
    BY <1>0, <1>2, <2>2, <2>3, Zenon DEF DutInv, Sent
  <2>5. num = Held
    <3>1. num \in 0 .. Held /\ (num < Held => Off(log, First, num + 1) > Len(flat))
      BY <2>4, Zenon DEF Decoded
    <3>2. num \in Nat /\ num <= Held
      BY <2>1, <3>1
    <3>. QED
      BY <1>0, <1>2, <3>1, <3>2, AllDecoded, Zenon
  <2>6. Ended = First + num
    BY <2>3, Zenon DEF Ended
  <2>. QED
    BY <2>1, <2>4, <2>5, <2>6
<1>. QED
  BY <1>1, <1>2

LEMMA FinishPacketInv ==
    ASSUME FeedInv, FinishPacket
    PROVE  FeedInv'
<1>1. /\ pc = "read" /\ left = 0
      /\ flat' = (IF msgs # <<>> THEN Flatten ELSE <<>>)
      /\ flat_l' = (IF msgs # <<>> THEN PacketSize ELSE 0)
      /\ flat_idx' = 0
      /\ seq' = seq + Len(msgs) /\ msgs' = <<>>
      /\ pc' = (IF caller = "tb_init" THEN "idle" ELSE "beat")
      /\ UNCHANGED <<log, zeroEnd, latency, stalls, pos, eof, left, caller, axi, gap, ready,
                     rx, rxLast, start, num, pending, got, quiet>>
      /\ UNCHANGED fifoVars
  BY Zenon DEF FinishPacket, Clear, cfgVars, wireVars, dutVars
<1>2. /\ ConfigInv /\ HeldInv /\ ListInv /\ PacketInv /\ PlaceInv /\ DutInv /\ PendInv
      /\ GotInv /\ AgeInv /\ EndInv
  BY Zenon DEF FeedInv
<1>3. /\ log \in Seq(ItchLen) /\ Len(log) \in Nat /\ pos \in Nat /\ pos <= Len(log)
      /\ seq \in Nat /\ msgs \in Seq(1 .. Len(log)) /\ seq + Len(msgs) = pos
      /\ left \in 0 .. MSG_CNT_MAX - 1
      /\ left + Len(msgs) < MSG_CNT_MAX /\ MSG_CNT_MAX \in Nat
      /\ \A n \in 1 .. Len(msgs) : msgs[n] = seq + n
  <2>1. /\ log \in Seq(ItchLen) /\ Len(log) \in Nat /\ pos \in Nat /\ pos <= Len(log)
        /\ left \in 0 .. MSG_CNT_MAX - 1 /\ MSG_CNT_MAX \in Nat
    BY <1>2, LogIs, FeedAssumption, Zenon DEF ConfigInv
  <2>. QED
    BY <1>1, <1>2, <2>1, Zenon DEF HeldInv
<1>4. Len(msgs) \in Nat
  BY <1>3
<1>5. pc' \in {"idle", "beat"} /\ (caller = "tb_init" \/ caller = "tb")
  BY <1>1, <1>2 DEF ConfigInv
<1>6. /\ ~Waiting /\ ~Waiting' /\ pc # "over" /\ pc' # "over" /\ pc' # "read"
      /\ pc' # "end" /\ Running /\ Running'
  BY <1>1, <1>5 DEF Waiting, Running
<1>7. Ended = seq /\ rxLast
  <2>1. flat = <<>> \/ flat_idx >= Len(flat)
    BY <1>1, <1>2, <1>5, Zenon DEF PlaceInv
  <2>. QED
    BY <1>6, <2>1, AllSent, Zenon
<1>8. /\ msgs # <<>> => /\ flat' # <<>> /\ Held' = Len(msgs) /\ First' = seq
                        /\ Held' \in 1 .. MSG_CNT_MAX - 1 /\ flat_l' = Len(flat')
                        /\ Packed(log, flat', seq, Held', Held')
                        /\ ~(0 >= Len(flat'))
      /\ msgs = <<>> => flat' = <<>> /\ First' = seq
  <2>1. CASE msgs # <<>>
    <3>1. Consecutive
      BY <1>3, <1>4, Zenon DEF Consecutive
    <3>2. flat_l' = Off(log, seq, Len(msgs)) /\ flat' = Flatten
      BY <1>1, <2>1, <3>1, SizeIs, Zenon
    <3>3. Packed(log, flat', seq, Len(msgs), Len(msgs))
      BY <3>1, <3>2, FlattenIs, Zenon
    <3>4. Len(msgs) >= 1 /\ Len(msgs) < MSG_CNT_MAX
      BY <1>3, <1>4, <2>1
    <3>5. Len(flat') = Off(log, seq, Len(msgs)) /\ flat' \in Seq(Octet)
      BY <3>3, Zenon DEF Packed, IsBytes
    <3>6. Off(log, seq, Len(msgs)) >= 20
      BY <1>3, <1>4, Offsets, Zenon
    <3>7. flat' # <<>> /\ ~(0 >= Len(flat'))
      <4>1. Off(log, seq, Len(msgs)) \in Nat
        BY <1>3, <1>4, Offsets, Zenon
      <4>. QED
        BY <3>5, <3>6, <4>1
    <3>8. Held' = Len(msgs)
      <4>1. flat'[18 + 1] = Byte("cnt", Len(msgs), 2 - 1)
        <5>1. 1 \in 1 .. 2
          OBVIOUS
        <5>. QED
          BY <3>3, <5>1, Zenon DEF Packed, Headed
      <4>2. flat'[19].v = Len(msgs)
        BY <4>1 DEF Byte
      <4>. QED
        BY <3>7, <4>2, Zenon DEF Held
    <3>9. First' = seq
      <4>1. First' = (seq + Len(msgs)) - Len(msgs)
        BY <1>1, <3>8, Zenon DEF First
      <4>. QED
        BY <1>3, <1>4, <4>1
    <3>10. Held' \in 1 .. MSG_CNT_MAX - 1
      BY <1>3, <1>4, <3>4, <3>8
    <3>. QED
      BY <2>1, <3>2, <3>3, <3>5, <3>7, <3>8, <3>9, <3>10, Zenon
  <2>2. CASE msgs = <<>>
    <3>1. flat' = <<>> /\ Len(msgs) = 0
      BY <1>1, <2>2
    <3>2. First' = seq + 0 - 0
      BY <1>1, <3>1 DEF First, Held
    <3>. QED
      BY <1>3, <2>2, <3>1, <3>2
  <2>. QED
    BY <2>1, <2>2
<1>9. ConfigInv'
  <2>1. pc' \in {"idle", "read", "beat", "clock", "end", "over"}
    BY <1>5
  <2>. QED
    BY <1>1, <1>2, <2>1, Zenon DEF ConfigInv
<1>10. HeldInv'
  <2>1. seq' \in Nat /\ seq' + Len(msgs') = pos' /\ msgs' \in Seq(1 .. Len(log'))
        /\ \A n \in 1 .. Len(msgs') : msgs'[n] = seq' + n
    BY <1>1, <1>3, <1>4
  <2>. QED
    BY <1>1, <1>6, <2>1, Zenon DEF HeldInv
<1>11. ListInv' /\ GotInv' /\ Popped' = Popped
  BY <1>1, <1>2, <1>6, KeepList, Zenon
<1>12. PacketInv'
  BY <1>1, <1>3, <1>8, Zenon DEF PacketInv
<1>13. PlaceInv'
  <2>1. flat_idx' \in Nat
    BY <1>1
  <2>2. flat' = <<>> => flat_l' = 0
    BY <1>1, <1>8, Zenon
  <2>. QED
    BY <1>1, <1>6, <2>1, <2>2, Zenon DEF PlaceInv
<1>14. BeatInv'
  BY <1>6, Zenon DEF BeatInv
<1>15. DutInv'
  <2>1. ~(flat_idx' > 0)
    BY <1>1
  <2>. QED
    BY <1>1, <1>2, <1>6, <1>7, <2>1, Zenon DEF DutInv
<1>16. Ended' = seq
  <2>1. Ended' = seq + 0
    BY <1>1, <1>8, Zenon DEF Ended
  <2>. QED
    BY <1>3, <2>1
<1>17. PendInv'
  BY <1>1, <1>2, <1>6, <1>7, <1>11, <1>16, Zenon DEF PendInv, Expected
<1>18. AgeInv'
  <2>1. flat' # <<>> => ~(flat_idx' >= Len(flat'))
    BY <1>1, <1>8, Zenon
  <2>2. pc' \in {"idle", "clock"} => pending' = <<>>
    <3>1. pc' = "idle" \/ pc' = "beat"
      BY <1>5
    <3>2. pc' = "idle" => caller = "tb_init"
      BY <1>1
    <3>3. pc' = "beat" => pc' \notin {"idle", "clock"}
      OBVIOUS
    <3>. QED
      BY <1>1, <1>2, <3>1, <3>2, <3>3, Zenon DEF AgeInv
  <2>3. pc' = "beat" => Older(GAP)'
    <3>1. pc' = "beat" => caller = "tb"
      BY <1>1, <1>5
    <3>2. caller = "tb" => flat # <<>> /\ flat_idx >= Len(flat) /\ pc \in {"idle", "read"}
      BY <1>1, <1>2 DEF PlaceInv
    <3>3. caller = "tb" => Older(GAP)
      BY <1>2, <3>2, Zenon DEF AgeInv
    <3>. QED
      BY <1>1, <3>1, <3>3, Zenon DEF Older
  <2>. QED
    BY <1>6, <2>1, <2>2, <2>3, Zenon DEF AgeInv
<1>19. EndInv'
  BY <1>1, <1>2, <1>6, <1>8, Zenon DEF EndInv
<1>20. PacketsWhole'
  BY <1>1, Zenon DEF FeedInv, PacketsWhole
<1>21. AllCompared'
  BY <1>6, Zenon DEF AllCompared
<1>. QED
  BY <1>9, <1>10, <1>11, <1>12, <1>13, <1>14, <1>15, <1>17, <1>18, <1>19, <1>20, <1>21, Zenon
     DEF FeedInv

-----------------------------------------------------------------------------
(* The steps of $tb that end without a beat, or lead to one.                *)
LEMMA BeatTypes ==
    /\ NoBeat.tvalid = FALSE /\ NoBeat.tlast = FALSE /\ NoBeat.tkeep = {}
    /\ NoBeat = [tvalid |-> NoBeat.tvalid, tdata |-> NoBeat.tdata,
                 tkeep |-> NoBeat.tkeep, tlast |-> NoBeat.tlast]
  BY DEF NoBeat

LEMMA Ages == ASSUME PendInv, NEW i \in 1 .. Len(pending)
              PROVE  pending[i].age \in Nat /\ pending[i].age < latency
<1>1. pending \in Seq([item : Item, age : Nat]) /\ pending[i].age < latency
  BY Zenon DEF PendInv
<1>2. pending[i] \in [item : Item, age : Nat]
  BY <1>1, ElementOfSeq, Zenon
<1>. QED
  BY <1>1, <1>2

LEMMA OlderToo ==
    ASSUME PendInv, NEW n \in Int, NEW m \in Int, Older(n), m <= n
    PROVE  Older(m)
<1>1. \A i \in 1 .. Len(pending) : pending[i].age \in Nat /\ pending[i].age >= n
  BY Ages, Zenon DEF Older
<1>. QED
  BY <1>1 DEF Older

(* Once the last packet has been quiet for as long as the design takes,     *)
(* there is nothing left to compare.                                        *)
LEMMA Drained ==
    ASSUME FeedInv, Running, ~Waiting, pc # "read", latency <= GAP, pos = Len(log),
           flat = <<>> \/ flat_idx >= Len(flat), pending = <<>> \/ Older(GAP)
    PROVE  read = NULL /\ (log # <<>> => got # NULL /\ got.msg = Len(log))
<1>0. ConfigInv /\ HeldInv /\ ListInv /\ PendInv /\ GotInv
  BY Zenon DEF FeedInv
<1>1. pending \in Seq([item : Item, age : Nat]) /\ latency \in Nat
  BY <1>0, LogIs DEF PendInv
<1>2. Len(pending) = 0
  <2>1. CASE pending = <<>>
    BY <2>1
  <2>2. CASE Older(GAP)
    <3>1. \A i \in 1 .. Len(pending) : FALSE
      <4>. SUFFICES ASSUME NEW i \in 1 .. Len(pending) PROVE FALSE
        OBVIOUS
      <4>1. pending[i].age \in Nat /\ pending[i].age < latency /\ pending[i].age >= GAP
        BY <1>0, <2>2, Ages, Zenon DEF Older
      <4>. QED
        BY <1>1, <4>1 DEF GAP
    <3>2. Len(pending) \in Nat
      BY <1>1
    <3>. QED
      BY <3>1, <3>2
  <2>. QED
    BY <2>1, <2>2
<1>3. pos \in Nat /\ seq = pos /\ seq \in Nat
  <2>1. msgs = <<>> /\ seq + Len(msgs) = pos /\ seq \in Nat
    BY <1>0, Zenon DEF HeldInv
  <2>. QED
    BY <2>1
<1>4. Ended = seq
  BY AllSent, Zenon DEF Running
<1>5. Len(order) \in Nat /\ order \in Seq(Node)
  BY <1>0 DEF ListInv, FifoInv, FifoTypeOK
<1>6. Popped = pos /\ Len(order) = 0
  <2>1. 0 = Ended - Popped
    BY <1>0, <1>2, Zenon DEF PendInv
  <2>2. Popped = pos - Len(order)
    BY Zenon DEF Popped
  <2>. HIDE DEF Popped
  <2>. QED
    BY <1>3, <1>4, <1>5, <2>1, <2>2
<1>7. read = NULL
  <2>1. order = <<>>
    BY <1>5, <1>6
  <2>. QED
    BY <1>0, <2>1, ReadNull, Zenon DEF ListInv
<1>8. ASSUME log # <<>> PROVE got # NULL /\ got.msg = Len(log)
  <2>1. Len(log) \in 1 .. Len(log) /\ pos # 0
    <3>1. log \in Seq(ItchLen)
      BY <1>0, LogIs
    <3>. QED
      BY <1>8, <3>1
  <2>2. got = Expected(Len(log)) /\ got \in Item
    BY <1>0, <1>6, <2>1, ItemIs, Zenon DEF GotInv
  <2>3. got.msg = Len(log)
    BY <2>2 DEF Expected
  <2>. QED
    BY <2>2, <2>3, NodeAssumption
<1>. QED
  BY <1>7, <1>8

LEMMA TbNotReadyInv ==
    ASSUME FeedInv, TbNotReady
    PROVE  FeedInv'
<1>1. /\ pc = "idle" /\ ready' = FALSE /\ axi' = NoBeat /\ pc' = "clock"
      /\ UNCHANGED <<log, zeroEnd, latency, stalls, pos, eof, seq, msgs, flat, flat_l,
                     flat_idx, left, caller, gap, rx, rxLast, start, num, pending, got, quiet>>
      /\ UNCHANGED fifoVars /\ UNCHANGED dutVars
  BY Zenon DEF TbNotReady, moldVars, cfgVars, flatVars, wireVars, dutVars
<1>2. /\ ConfigInv /\ HeldInv /\ ListInv /\ PacketInv /\ PlaceInv /\ GotInv /\ AgeInv /\ EndInv
      /\ PendInv
  BY Zenon DEF FeedInv
<1>3. /\ ~Waiting /\ ~Waiting' /\ Running /\ Running' /\ pc # "over" /\ pc' # "over"
      /\ pc # "read" /\ pc' # "read" /\ pc' # "end" /\ pc' # "beat" /\ ~axi'.tvalid
  BY <1>1, BeatTypes DEF Waiting, Running
<1>4. ConfigInv'
  <2>1. /\ pc' \in {"idle", "read", "beat", "clock", "end", "over"} /\ ready' \in BOOLEAN
        /\ axi'.tvalid \in BOOLEAN /\ axi'.tlast \in BOOLEAN /\ axi'.tkeep \subseteq 1 .. 8
        /\ axi' = [tvalid |-> axi'.tvalid, tdata |-> axi'.tdata,
                   tkeep |-> axi'.tkeep, tlast |-> axi'.tlast]
    BY <1>1, BeatTypes
  <2>. QED
    BY <1>1, <1>2, <2>1, Zenon DEF ConfigInv
<1>5. HeldInv'
  BY <1>1, <1>2, <1>3, Zenon DEF HeldInv
<1>6. ListInv' /\ GotInv' /\ Popped' = Popped
  BY <1>1, <1>2, <1>3, KeepList, Zenon
<1>7. PacketInv' /\ PlaceInv'
  BY <1>1, <1>2, <1>3, KeepPacket, Zenon DEF PlaceInv
<1>8. BeatInv' /\ DutInv' /\ PendInv' /\ PacketsWhole'
  BY <1>1, <1>3, <1>6, KeepDut, Zenon
<1>9. AgeInv'
  <2>1. gap \in 0 .. GAP /\ GAP = 3
    BY <1>2 DEF ConfigInv, GAP
  <2>2. GAP \in Int /\ GAP - 1 - gap \in Int /\ GAP - 1 - gap <= GAP
    BY <2>1
  <2>3. flat # <<>> /\ flat_idx >= Len(flat) => Older(GAP - 1 - gap)
    BY <1>1, <1>2, <2>2, OlderToo, Zenon DEF AgeInv
  <2>4. flat = <<>> => pending = <<>>
    BY <1>1, <1>2 DEF AgeInv
  <2>5. pc' \notin {"idle", "read"}
    BY <1>1
  <2>. QED
    BY <1>1, <1>3, <2>3, <2>4, <2>5, Zenon DEF AgeInv, Older
<1>10. EndInv'
  <2>1. pc \in {"idle", "beat", "clock"}
    BY <1>1
  <2>. QED
    BY <1>1, <1>2, <1>3, <2>1, Zenon DEF EndInv
<1>11. AllCompared'
  BY <1>3, Zenon DEF AllCompared
<1>. QED
  BY <1>4, <1>5, <1>6, <1>7, <1>8, <1>9, <1>10, <1>11, Zenon DEF FeedInv

LEMMA TbNoDataInv ==
    ASSUME FeedInv, TbNoData
    PROVE  FeedInv'
<1>1. /\ pc = "idle" /\ ~HasData /\ ready' = TRUE /\ axi' = NoBeat /\ pc' = "end"
      /\ UNCHANGED <<log, zeroEnd, latency, stalls, pos, eof, seq, msgs, flat, flat_l,
                     flat_idx, left, caller, gap, rx, rxLast, start, num, pending, got, quiet>>
      /\ UNCHANGED fifoVars /\ UNCHANGED dutVars
  BY Zenon DEF TbNoData, moldVars, cfgVars, flatVars, wireVars, dutVars
<1>2. /\ ConfigInv /\ HeldInv /\ ListInv /\ PacketInv /\ PlaceInv /\ GotInv /\ AgeInv /\ EndInv
      /\ PendInv
  BY Zenon DEF FeedInv
<1>3. /\ ~Waiting /\ ~Waiting' /\ Running /\ ~Running' /\ pc # "over" /\ pc' # "over"
      /\ pc # "read" /\ pc' # "read" /\ pc' # "beat" /\ pc' # "idle" /\ pc' # "clock"
      /\ pc \in {"idle", "beat", "clock"} /\ pc \in {"idle", "clock"} /\ pc \in {"idle", "read"}
      /\ pc' \notin {"idle", "beat", "clock"} /\ pc' \notin {"idle", "read"}
      /\ pc' \notin {"idle", "clock"}
  BY <1>1 DEF Waiting, Running
<1>4. ConfigInv'
  <2>1. /\ pc' \in {"idle", "read", "beat", "clock", "end", "over"} /\ ready' \in BOOLEAN
        /\ axi'.tvalid \in BOOLEAN /\ axi'.tlast \in BOOLEAN /\ axi'.tkeep \subseteq 1 .. 8
        /\ axi' = [tvalid |-> axi'.tvalid, tdata |-> axi'.tdata,
                   tkeep |-> axi'.tkeep, tlast |-> axi'.tlast]
    BY <1>1, BeatTypes
  <2>. QED
    BY <1>1, <1>2, <2>1, Zenon DEF ConfigInv
<1>5. HeldInv'
  BY <1>1, <1>2, <1>3, Zenon DEF HeldInv
<1>6. ListInv' /\ GotInv' /\ Popped' = Popped
  BY <1>1, <1>2, <1>3, KeepList, Zenon
<1>7. PacketInv' /\ PlaceInv'
  BY <1>1, <1>2, <1>3, KeepPacket, Zenon DEF PlaceInv
<1>8. BeatInv' /\ DutInv' /\ PendInv' /\ PacketsWhole'
  BY <1>1, <1>3, <1>6, KeepDut, Zenon
<1>9. AgeInv'
  BY <1>3, Zenon DEF AgeInv, Waiting
<1>10. EndInv'
  BY <1>1, <1>2, <1>3, Zenon DEF EndInv
<1>11. AllCompared'
  <2>1. CASE flat = <<>>
    <3>1. pos = Len(log) /\ pending = <<>>
      BY <1>2, <1>3, <2>1, Zenon DEF AgeInv, EndInv
    <3>2. latency <= GAP => read = NULL /\ (log # <<>> => got # NULL /\ got.msg = Len(log))
      BY <1>3, <2>1, <3>1, Drained, Zenon
    <3>. QED
      BY <1>1, <3>2, Zenon DEF AllCompared, fifoVars
  <2>2. CASE flat # <<>>
    <3>1. eof /\ flat_idx > MaxIdx
      BY <1>1, <2>2, Zenon DEF HasData, AxisFinished
    <3>2. Len(flat) \in Nat /\ MaxIdx = Len(flat) - 1 /\ flat_idx \in Nat
      BY <1>2, <2>2, PacketIs, Zenon DEF PlaceInv
    <3>3. flat_idx >= Len(flat)
      BY <3>1, <3>2
    <3>4. pos = Len(log) /\ Older(GAP)
      BY <1>2, <1>3, <2>2, <3>1, <3>3, Zenon DEF AgeInv, EndInv
    <3>5. latency <= GAP => read = NULL /\ (log # <<>> => got # NULL /\ got.msg = Len(log))
      BY <1>3, <3>3, <3>4, Drained, Zenon
    <3>. QED
      BY <1>1, <3>5, Zenon DEF AllCompared, fifoVars
  <2>. QED
    BY <2>1, <2>2
<1>. QED
  BY <1>4, <1>5, <1>6, <1>7, <1>8, <1>9, <1>10, <1>11, Zenon DEF FeedInv

LEMMA TbNewPacketInv ==
    ASSUME FeedInv, TbNewPacket
    PROVE  FeedInv'
<1>1. /\ pc = "idle" /\ HasData /\ AxisFinished /\ ready' = TRUE /\ caller' = "tb"
      /\ left' \in RandMsgCnt /\ pc' = "read"
      /\ UNCHANGED <<log, zeroEnd, latency, stalls, pos, eof, seq, msgs, flat, flat_l,
                     flat_idx, axi, gap, rx, rxLast, start, num, pending, got, quiet>>
      /\ UNCHANGED fifoVars /\ UNCHANGED dutVars
  BY Zenon DEF TbNewPacket, moldVars, cfgVars, flatVars, wireVars, dutVars
<1>2. /\ ConfigInv /\ HeldInv /\ ListInv /\ PacketInv /\ PlaceInv /\ GotInv /\ AgeInv /\ EndInv
      /\ PendInv
  BY Zenon DEF FeedInv
<1>3. /\ ~Waiting /\ ~Waiting' /\ Running /\ Running' /\ pc # "over" /\ pc' # "over"
      /\ pc # "read" /\ pc' # "end" /\ pc' # "beat" /\ pc' # "idle" /\ pc' # "clock"
      /\ pc \in {"idle", "read"} /\ caller' # "tb_init"
      /\ pc' \notin {"idle", "beat", "clock"} /\ pc' \notin {"idle", "clock"}
  BY <1>1 DEF Waiting, Running
<1>4. left' \in 0 .. MSG_CNT_MAX - 1 /\ left' # 0 /\ left' < MSG_CNT_MAX /\ left' \in Nat
  BY <1>1, FeedAssumption DEF RandMsgCnt
<1>5. ConfigInv'
  <2>1. /\ pc' \in {"idle", "read", "beat", "clock", "end", "over"} /\ ready' \in BOOLEAN
        /\ caller' \in {"tb_init", "tb"}
    BY <1>1
  <2>. QED
    BY <1>1, <1>2, <1>4, <2>1, Zenon DEF ConfigInv
<1>6. HeldInv'
  <2>1. msgs = <<>>
    BY <1>2, <1>3, Zenon DEF HeldInv
  <2>2. left' + Len(msgs') < MSG_CNT_MAX
    BY <1>1, <1>4, <2>1
  <2>. QED
    BY <1>1, <1>2, <2>1, <2>2, Zenon DEF HeldInv
<1>7. ListInv' /\ GotInv' /\ Popped' = Popped
  BY <1>1, <1>2, <1>3, KeepList, Zenon
<1>8. flat # <<>> /\ flat_idx >= Len(flat)
  <2>1. flat # <<>> /\ flat_idx > MaxIdx
    BY <1>1, Zenon DEF HasData, AxisFinished
  <2>2. Len(flat) \in Nat /\ MaxIdx = Len(flat) - 1 /\ flat_idx \in Nat
    BY <1>2, <2>1, PacketIs, Zenon DEF PlaceInv
  <2>. QED
    BY <2>1, <2>2
<1>9. PacketInv' /\ PlaceInv'
  BY <1>1, <1>2, <1>3, <1>8, KeepPacket, Zenon DEF PlaceInv
<1>10. BeatInv' /\ DutInv' /\ PendInv' /\ PacketsWhole'
  BY <1>1, <1>3, <1>7, KeepDut, Zenon
<1>11. AgeInv'
  BY <1>1, <1>2, <1>3, <1>8, Zenon DEF AgeInv, Older
<1>12. EndInv'
  BY <1>1, <1>2, <1>3, <1>4, Zenon DEF EndInv
<1>13. AllCompared'
  BY <1>3, Zenon DEF AllCompared
<1>. QED
  BY <1>5, <1>6, <1>7, <1>9, <1>10, <1>11, <1>12, <1>13, Zenon DEF FeedInv

LEMMA TbSamePacketInv ==
    ASSUME FeedInv, TbSamePacket
    PROVE  FeedInv'
<1>1. /\ pc = "idle" /\ HasData /\ ~AxisFinished /\ ready' = TRUE /\ pc' = "beat"
      /\ UNCHANGED <<log, zeroEnd, latency, stalls, pos, eof, seq, msgs, flat, flat_l, left,
                     caller, flat_idx, axi, gap, rx, rxLast, start, num, pending, got, quiet>>
      /\ UNCHANGED fifoVars /\ UNCHANGED dutVars
  BY Zenon DEF TbSamePacket, moldVars, cfgVars, flatVars, wireVars, dutVars
<1>2. /\ ConfigInv /\ HeldInv /\ ListInv /\ PacketInv /\ PlaceInv /\ GotInv /\ AgeInv /\ EndInv
      /\ PendInv
  BY Zenon DEF FeedInv
<1>3. /\ ~Waiting /\ ~Waiting' /\ Running /\ Running' /\ pc # "over" /\ pc' # "over"
      /\ pc # "read" /\ pc' # "end" /\ pc' # "read" /\ pc' # "idle" /\ pc' # "clock"
      /\ pc \in {"idle", "beat", "clock"}
      /\ pc' \notin {"idle", "read"} /\ pc' \notin {"idle", "clock"}
  BY <1>1 DEF Waiting, Running
<1>4. ConfigInv'
  <2>1. pc' \in {"idle", "read", "beat", "clock", "end", "over"} /\ ready' \in BOOLEAN
    BY <1>1
  <2>. QED
    BY <1>1, <1>2, <2>1, Zenon DEF ConfigInv
<1>5. HeldInv'
  BY <1>1, <1>2, <1>3, Zenon DEF HeldInv
<1>6. ListInv' /\ GotInv' /\ Popped' = Popped
  BY <1>1, <1>2, <1>3, KeepList, Zenon
<1>7. flat # <<>> /\ flat_idx < Len(flat)
  <2>1. flat # <<>> /\ ~(flat_idx > MaxIdx)
    BY <1>1, Zenon DEF HasData, AxisFinished
  <2>2. Len(flat) \in Nat /\ MaxIdx = Len(flat) - 1 /\ flat_idx \in Nat
    BY <1>2, <2>1, PacketIs, Zenon DEF PlaceInv
  <2>. QED
    BY <2>1, <2>2
<1>8. PacketInv' /\ PlaceInv'
  BY <1>1, <1>2, <1>3, <1>7, KeepPacket, Zenon DEF PlaceInv
<1>9. BeatInv' /\ DutInv' /\ PendInv' /\ PacketsWhole'
  BY <1>1, <1>3, <1>6, KeepDut, Zenon
<1>10. AgeInv'
  BY <1>1, <1>3, <1>7, Zenon DEF AgeInv, Waiting
<1>11. EndInv'
  BY <1>1, <1>2, <1>3, Zenon DEF EndInv
<1>12. AllCompared'
  BY <1>3, Zenon DEF AllCompared
<1>. QED
  BY <1>4, <1>5, <1>6, <1>8, <1>9, <1>10, <1>11, <1>12, Zenon DEF FeedInv

LEMMA BeatOfNothingInv ==
    ASSUME FeedInv, BeatOfNothing
    PROVE  FeedInv'
<1>1. /\ pc = "beat" /\ flat = <<>> /\ pc' = "end"
      /\ axi' = [tvalid |-> TRUE, tdata |-> <<>>, tkeep |-> {}, tlast |-> AxisLast]
      /\ UNCHANGED <<log, zeroEnd, latency, stalls, pos, eof, seq, msgs, flat, flat_l, left,
                     caller, flat_idx, gap, ready, rx, rxLast, start, num, pending, got, quiet>>
      /\ UNCHANGED fifoVars /\ UNCHANGED dutVars
  BY Zenon DEF BeatOfNothing, moldVars, cfgVars, flatVars, wireVars, dutVars
<1>2. /\ ConfigInv /\ HeldInv /\ ListInv /\ PacketInv /\ PlaceInv /\ GotInv /\ AgeInv /\ EndInv
      /\ PendInv
  BY Zenon DEF FeedInv
<1>3. /\ ~Waiting /\ ~Waiting' /\ Running /\ ~Running' /\ pc # "over" /\ pc' # "over"
      /\ pc # "read" /\ pc' # "read" /\ pc' # "beat" /\ pc' # "idle" /\ pc' # "clock"
      /\ pc \in {"idle", "beat", "clock"}
      /\ pc' \notin {"idle", "beat", "clock"} /\ pc' \notin {"idle", "read"}
      /\ pc' \notin {"idle", "clock"}
  BY <1>1 DEF Waiting, Running
<1>4. ConfigInv'
  <2>1. AxisLast \in BOOLEAN
    BY DEF AxisLast
  <2>2. pc' \in {"idle", "read", "beat", "clock", "end", "over"}
    BY <1>1
  <2>3. axi'.tvalid = TRUE /\ axi'.tdata = <<>> /\ axi'.tkeep = {} /\ axi'.tlast = AxisLast
    BY <1>1
  <2>4. /\ axi'.tvalid \in BOOLEAN /\ axi'.tlast \in BOOLEAN /\ axi'.tkeep \subseteq 1 .. 8
        /\ axi' = [tvalid |-> axi'.tvalid, tdata |-> axi'.tdata,
                   tkeep |-> axi'.tkeep, tlast |-> axi'.tlast]
    BY <1>1, <2>1, <2>3, Zenon
  <2>. QED
    BY <1>1, <1>2, <2>2, <2>4, Zenon DEF ConfigInv
<1>5. HeldInv'
  BY <1>1, <1>2, <1>3, Zenon DEF HeldInv
<1>6. ListInv' /\ GotInv' /\ Popped' = Popped
  BY <1>1, <1>2, <1>3, KeepList, Zenon
<1>7. PacketInv' /\ PlaceInv'
  BY <1>1, <1>2, <1>3, KeepPacket, Zenon DEF PlaceInv
<1>8. BeatInv' /\ DutInv' /\ PendInv' /\ PacketsWhole'
  BY <1>1, <1>3, <1>6, KeepDut, Zenon
<1>9. AgeInv'
  BY <1>1, <1>3, Zenon DEF AgeInv, Waiting
<1>10. EndInv'
  BY <1>1, <1>2, <1>3, Zenon DEF EndInv
<1>11. AllCompared'
  <2>1. pos = Len(log) /\ Older(GAP)
    BY <1>1, <1>2, <1>3, Zenon DEF AgeInv, EndInv
  <2>2. latency <= GAP => read = NULL /\ (log # <<>> => got # NULL /\ got.msg = Len(log))
    BY <1>1, <1>3, <2>1, Drained, Zenon
  <2>. QED
    BY <1>1, <2>2, Zenon DEF AllCompared, fifoVars
<1>. QED
  BY <1>4, <1>5, <1>6, <1>7, <1>8, <1>9, <1>10, <1>11, Zenon DEF FeedInv

(* The list shrinks, its oldest element first.                              *)
LEMMA Pulled ==
    ASSUME ListInv, PullAndFree, pos' = pos, pos \in Nat
    PROVE  /\ Popped' = Popped + 1 /\ Popped \in Nat /\ Popped + 1 <= pos
           /\ Len(order') <= pos'
           /\ \A n \in 1 .. Len(order') : (elem[order[n]] = Expected(Popped + n))'
           /\ elem[read] = Expected(Popped + 1)
<1>1. /\ FifoInv /\ read # NULL /\ order' = Tail(order) /\ elem' = elem
      /\ Len(order) <= pos
  BY Zenon DEF ListInv, PullAndFree
<1>2. /\ order # <<>> /\ read = order[1] /\ Len(order) \in Nat \ {0} /\ order \in Seq(Node)
  BY <1>1, ReadNull DEF FifoInv, FifoTypeOK
<1>3. /\ Len(order') = Len(order) - 1
      /\ \A n \in 1 .. Len(order) - 1 : order'[n] = order[n + 1]
  BY <1>1, <1>2
<1>4. Popped' = Popped + 1 /\ Popped \in Nat /\ Len(order') <= pos' /\ Popped + 1 <= pos
  BY <1>1, <1>2, <1>3 DEF Popped
<1>5. ASSUME NEW n \in 1 .. Len(order') PROVE elem'[order'[n]] = Expected(Popped' + n)
  <2>1. n \in 1 .. Len(order) - 1 /\ n + 1 \in 1 .. Len(order)
    BY <1>2, <1>3
  <2>2. Popped' + n = Popped + (n + 1)
    BY <1>4
  <2>3. elem[order[n + 1]] = Expected(Popped + (n + 1))
    BY <2>1, Zenon DEF ListInv
  <2>. QED
    BY <1>1, <1>3, <2>1, <2>2, <2>3, Zenon
<1>6. elem[read] = Expected(Popped + 1)
  <2>1. 1 \in 1 .. Len(order)
    BY <1>2
  <2>. QED
    BY <1>2, <2>1, Zenon DEF ListInv
<1>. QED
  BY <1>4, <1>5, <1>6, Zenon DEF Expected

-----------------------------------------------------------------------------
(* The steps of $tb_end.                                                    *)
LEMMA FreeNodeInv ==
    ASSUME FeedInv, FreeNode
    PROVE  FeedInv'
<1>1. /\ pc = "end" /\ PullAndFree /\ popped' = popped
      /\ UNCHANGED <<log, zeroEnd, latency, stalls, pos, eof, seq, msgs, flat, flat_l, pc, left,
                     caller, axi, ready,
                     flat_idx, gap, rx, rxLast, start, num, pending, got, quiet>>
  BY Zenon DEF FreeNode, FifoDrop, moldVars, cfgVars, flatVars, wireVars, dutVars
<1>2. /\ ConfigInv /\ HeldInv /\ ListInv /\ PacketInv /\ PlaceInv /\ GotInv /\ AgeInv /\ EndInv
      /\ BeatInv /\ DutInv /\ PendInv /\ PacketsWhole /\ AllCompared
  BY Zenon DEF FeedInv
<1>3. ~Waiting /\ ~Waiting' /\ ~Running' /\ pc # "over"
  BY <1>1 DEF Waiting, Running
<1>4. ConfigInv' /\ HeldInv' /\ PlaceInv' /\ AgeInv' /\ EndInv'
  <2>1. ConfigInv'
    BY <1>1, <1>2, Zenon DEF ConfigInv
  <2>2. HeldInv' /\ PlaceInv' /\ EndInv'
    BY <1>1, <1>2, Zenon DEF HeldInv, PlaceInv, EndInv
  <2>3. AgeInv'
    BY <1>1, <1>2, Zenon DEF AgeInv, Waiting, Older
  <2>. QED
    BY <2>1, <2>2, <2>3
<1>5. PacketInv' /\ Held' = Held /\ First' = First
  BY <1>1, <1>2, KeepPacket, Zenon
<1>6. ListInv'
  <2>1. popped \in Item \cup {NULL}
    BY <1>2, Zenon DEF ListInv, FifoInv, FifoTypeOK
  <2>2. FifoInv'
    BY <1>1, <1>2, <2>1, PullInv, Zenon DEF ListInv
  <2>3. pos \in Nat /\ pos' = pos
    BY <1>1, <1>2, LogIs, Zenon
  <2>4. /\ Len(order') <= pos'
        /\ \A n \in 1 .. Len(order') : (elem[order[n]] = Expected(Popped + n))'
    BY <1>1, <1>2, <2>3, Pulled, Zenon
  <2>. QED
    BY <2>2, <2>4, Zenon DEF ListInv
<1>7. GotInv'
  BY <1>1, <1>2, <1>3, Zenon DEF GotInv
<1>8. BeatInv'
  BY <1>3, Zenon DEF BeatInv
<1>9. DutInv'
  <2>1. ASSUME Decoded(Sent) PROVE Decoded(Sent)'
    BY <1>1, <2>1, Zenon DEF Decoded, Held, First, Sent
  <2>. QED
    BY <1>1, <1>2, <1>3, <2>1, Zenon DEF DutInv
<1>10. PendInv'
  BY <1>1, <1>2, <1>3, Zenon DEF PendInv
<1>11. PacketsWhole'
  BY <1>1, <1>2, Zenon DEF PacketsWhole
<1>12. AllCompared'
  <2>1. read # NULL
    BY <1>1, Zenon DEF PullAndFree
  <2>. QED
    BY <1>1, <1>2, <2>1, Zenon DEF AllCompared
<1>. QED
  BY <1>4, <1>5, <1>6, <1>7, <1>8, <1>9, <1>10, <1>11, <1>12, Zenon DEF FeedInv

LEMMA FreeRestInv ==
    ASSUME FeedInv, FreeRest
    PROVE  FeedInv'
<1>1. /\ pc = "end" /\ pc' = "over" /\ flat' = <<>>
      /\ UNCHANGED <<log, zeroEnd, latency, stalls, pos, eof, seq, msgs, flat_l, left,
                     caller, axi, ready,
                     flat_idx, gap, rx, rxLast, start, num, pending, got, quiet>>
      /\ UNCHANGED fifoVars
  BY Zenon DEF FreeRest, moldVars, cfgVars, wireVars, dutVars
<1>2. /\ ConfigInv /\ HeldInv /\ ListInv /\ PacketInv /\ PlaceInv /\ GotInv /\ AgeInv /\ EndInv
      /\ BeatInv /\ DutInv /\ PendInv /\ PacketsWhole /\ AllCompared
  BY Zenon DEF FeedInv
<1>3. /\ ~Waiting /\ ~Waiting' /\ ~Running' /\ pc # "read" /\ pc' # "read" /\ pc' # "beat"
      /\ pc' # "end" /\ pc' \notin {"idle", "beat", "clock"} /\ pc' \notin {"idle", "clock"}
  BY <1>1 DEF Waiting, Running
<1>4. ConfigInv'
  <2>1. pc' \in {"idle", "read", "beat", "clock", "end", "over"}
    BY <1>1
  <2>. QED
    BY <1>1, <1>2, <2>1, Zenon DEF ConfigInv
<1>5. HeldInv' /\ PlaceInv' /\ EndInv' /\ PacketInv' /\ BeatInv' /\ AllCompared'
  BY <1>1, <1>2, <1>3, Zenon DEF HeldInv, PlaceInv, EndInv, PacketInv, BeatInv, AllCompared
<1>6. AgeInv' /\ DutInv'
  BY <1>1, <1>2, <1>3, Zenon DEF AgeInv, DutInv
<1>7. ListInv' /\ GotInv'
  BY <1>1, <1>2, <1>3, KeepList, Zenon
<1>8. PendInv' /\ PacketsWhole'
  BY <1>1, <1>2, <1>3, Zenon DEF PendInv, PacketsWhole
<1>. QED
  BY <1>4, <1>5, <1>6, <1>7, <1>8, Zenon DEF FeedInv

LEMMA StutterInv ==
    ASSUME FeedInv, UNCHANGED vars
    PROVE  FeedInv'
<1>1. /\ UNCHANGED <<log, zeroEnd, latency, stalls, pos, eof, seq, msgs, flat, flat_l, pc, left,
                     caller, axi, ready,
                     flat_idx, gap, rx, rxLast, start, num, pending, got, quiet>>
      /\ UNCHANGED fifoVars /\ UNCHANGED read
  BY Zenon DEF vars, moldVars, cfgVars, flatVars, wireVars, dutVars, fifoVars
<1>2. /\ ConfigInv /\ HeldInv /\ ListInv /\ PacketInv /\ PlaceInv /\ GotInv /\ AgeInv /\ EndInv
      /\ BeatInv /\ DutInv /\ PendInv /\ PacketsWhole /\ AllCompared
  BY Zenon DEF FeedInv
<1>3. /\ Waiting' = Waiting /\ Running' = Running /\ Held' = Held /\ First' = First
      /\ Ended' = Ended /\ Sent' = Sent
  BY <1>1 DEF Waiting, Running, Held, First, Ended, Sent
<1>4. ListInv' /\ GotInv' /\ Popped' = Popped
  BY <1>1, <1>2, <1>3, KeepList, Zenon
<1>5. ConfigInv'
  BY <1>1, <1>2, Zenon DEF ConfigInv
<1>6. HeldInv' /\ PlaceInv' /\ EndInv' /\ PacketInv' /\ AllCompared' /\ PacketsWhole'
  BY <1>1, <1>2, <1>3, Zenon
     DEF HeldInv, PlaceInv, EndInv, PacketInv, AllCompared, PacketsWhole
<1>7. AgeInv'
  BY <1>1, <1>2, <1>3, Zenon DEF AgeInv, Older
<1>8. /\ Decoded(Sent) => Decoded(Sent)'
      /\ Decoded(flat_idx - 8) => Decoded(flat_idx - 8)'
  BY <1>1, <1>3, Zenon DEF Decoded
<1>9. DutInv' /\ BeatInv'
  <2>1. DutInv'
    BY <1>1, <1>2, <1>3, <1>8, Zenon DEF DutInv
  <2>2. BeatInv'
    BY <1>1, <1>2, <1>3, <1>8, Zenon DEF BeatInv
  <2>. QED
    BY <2>1, <2>2
<1>10. PendInv'
  BY <1>1, <1>2, <1>3, <1>4, Zenon DEF PendInv, Expected
<1>. QED
  BY <1>4, <1>5, <1>6, <1>7, <1>9, <1>10, Zenon DEF FeedInv

-----------------------------------------------------------------------------
(* A beat: the next bytes of the packet, eight or what is left.             *)
Slice(bytes, o, k) == [i \in 1 .. k |-> bytes[o + i]]

LEMMA SliceIs ==
    ASSUME NEW bytes, NEW m \in Nat, NEW o \in Nat, NEW k \in Nat, IsBytes(bytes, m), o + k <= m
    PROVE  IsBytes(Slice(bytes, o, k), k)
<1>1. bytes \in Seq(Octet) /\ Len(bytes) = m
  BY Zenon DEF IsBytes
<1>2. ASSUME NEW i \in 1 .. k PROVE bytes[o + i] \in Octet
  <2>1. o + i \in 1 .. Len(bytes)
    BY <1>1
  <2>. QED
    BY <1>1, <2>1, ElementOfSeq, Zenon
<1>3. Slice(bytes, o, k) \in [1 .. k -> Octet]
  BY <1>2, Zenon DEF Slice
<1>. QED
  BY <1>3 DEF IsBytes

LEMMA KeepIs ==
    ASSUME NEW o \in Nat, o < Len(flat), Len(flat) \in Nat, MaxIdx = Len(flat) - 1, flat_idx = o
    PROVE  /\ AxisKeep \in 1 .. 8 /\ o + AxisKeep <= Len(flat)
           /\ AxisKeep = (IF o + 8 < Len(flat) THEN o + 8 ELSE Len(flat)) - o
           /\ (AxisLast <=> o + 8 >= Len(flat))
  BY DEF AxisKeep, AxisLast

LEMMA BeatMoves ==
    ASSUME FeedInv, Beat
    PROVE  FeedInv'
<1>1. /\ pc = "beat" /\ flat # <<>> /\ axi' = AxisNext64b /\ flat_idx' = flat_idx + 8
      /\ gap' = (IF AxisLast THEN GAP ELSE 0) /\ pc' = "clock"
      /\ UNCHANGED <<log, zeroEnd, latency, stalls, pos, eof, seq, msgs, flat, flat_l, left,
                     caller, ready, rx, rxLast, start, num, pending, got, quiet>>
      /\ UNCHANGED fifoVars
  BY Zenon DEF Beat, moldVars, cfgVars, dutVars
<1>2. /\ ConfigInv /\ HeldInv /\ ListInv /\ PacketInv /\ PlaceInv /\ GotInv /\ AgeInv /\ EndInv
      /\ BeatInv /\ DutInv /\ PendInv /\ PacketsWhole /\ AllCompared
  BY Zenon DEF FeedInv
<1>3. /\ ~Waiting /\ Running /\ Running' /\ pc # "over" /\ pc' # "over" /\ pc # "read"
      /\ pc' # "read" /\ pc' # "beat" /\ pc' # "end" /\ pc' \notin {"idle", "read"}
      /\ pc \in {"idle", "beat", "clock"}
  BY <1>1 DEF Waiting, Running
<1>4. /\ Len(flat) \in Nat /\ Len(flat) >= 34 /\ MaxIdx = Len(flat) - 1
      /\ IsBytes(flat, Len(flat)) /\ flat_idx \in Nat
  BY <1>1, <1>2, PacketIs, Zenon DEF PlaceInv
<1>5. flat_idx < Len(flat)
  BY <1>1, <1>2, <1>4 DEF PlaceInv
<1>6. /\ AxisKeep \in 1 .. 8 /\ AxisKeep \in Nat /\ flat_idx + AxisKeep <= Len(flat)
      /\ AxisKeep = (IF flat_idx + 8 < Len(flat) THEN flat_idx + 8 ELSE Len(flat)) - flat_idx
      /\ (AxisLast <=> flat_idx + 8 >= Len(flat)) /\ 1 .. AxisKeep \subseteq 1 .. 8
  <2>1. /\ AxisKeep \in 1 .. 8 /\ flat_idx + AxisKeep <= Len(flat)
        /\ AxisKeep = (IF flat_idx + 8 < Len(flat) THEN flat_idx + 8 ELSE Len(flat)) - flat_idx
        /\ (AxisLast <=> flat_idx + 8 >= Len(flat))
    BY <1>4, <1>5, KeepIs, Zenon
  <2>2. AxisKeep \in Nat /\ 1 .. AxisKeep \subseteq 1 .. 8
    BY <2>1
  <2>. QED
    BY <2>1, <2>2
<1>7. /\ axi'.tvalid = TRUE /\ axi'.tlast = AxisLast /\ axi'.tkeep = 1 .. AxisKeep
      /\ axi'.tdata = [i \in 1 .. AxisKeep |-> flat[flat_idx + i]]
      /\ axi' = [tvalid |-> axi'.tvalid, tdata |-> axi'.tdata,
                 tkeep |-> axi'.tkeep, tlast |-> axi'.tlast]
  <2>1. axi' = [tvalid |-> TRUE, tlast |-> AxisLast, tkeep |-> 1 .. AxisKeep,
                tdata |-> [i \in 1 .. AxisKeep |-> flat[flat_idx + i]]]
    BY <1>1, Zenon DEF AxisNext64b
  <2>. QED
    BY <2>1, Zenon
<1>8. flat_idx' - 8 = flat_idx /\ flat_idx' \in Nat /\ flat_idx' >= 8 /\ ~(flat_idx' = 0)
  BY <1>1, <1>4
<1>9. Sent' - (flat_idx' - 8) = AxisKeep
  <2>1. Sent' = IF flat_idx + 8 < Len(flat) THEN flat_idx + 8 ELSE Len(flat)
    BY <1>1, Zenon DEF Sent
  <2>. QED
    BY <1>6, <1>8, <2>1
<1>10. (rxLast <=> flat_idx = 0) /\ (~rxLast => Decoded(flat_idx))
  <2>1. CASE flat_idx = 0
    BY <1>2, <1>3, <2>1, Zenon DEF DutInv
  <2>2. CASE flat_idx # 0
    <3>1. flat_idx > 0 /\ ~(flat_idx >= Len(flat))
      BY <1>4, <1>5, <2>2
    <3>2. Sent = flat_idx
      BY <1>5, Zenon DEF Sent
    <3>3. Decoded(flat_idx) /\ ~rxLast
      BY <1>1, <1>2, <1>3, <3>1, <3>2, Zenon DEF DutInv
    <3>. QED
      BY <2>2, <3>3, Zenon
  <2>. QED
    BY <2>1, <2>2
<1>11. Waiting' /\ Held' = Held /\ First' = First
  BY <1>1, <1>7, Zenon DEF Waiting, Held, First
<1>12. ConfigInv'
  <2>1. pc' \in {"idle", "read", "beat", "clock", "end", "over"} /\ gap' \in 0 .. GAP
    BY <1>1 DEF GAP
  <2>2. AxisLast \in BOOLEAN
    BY DEF AxisLast
  <2>3. axi'.tvalid \in BOOLEAN /\ axi'.tlast \in BOOLEAN /\ axi'.tkeep \subseteq 1 .. 8
    BY <1>6, <1>7, <2>2, Zenon
  <2>. QED
    BY <1>1, <1>2, <1>7, <2>1, <2>3, Zenon DEF ConfigInv
<1>13. HeldInv'
  BY <1>1, <1>2, <1>3, Zenon DEF HeldInv
<1>14. ListInv' /\ GotInv' /\ Popped' = Popped
  BY <1>1, <1>2, <1>3, KeepList, Zenon
<1>15. PacketInv' /\ PlaceInv'
  BY <1>1, <1>2, <1>3, <1>8, KeepPacket, Zenon DEF PlaceInv
<1>16. BeatInv'
  <2>1. flat' # <<>> /\ flat_idx' >= 8 /\ flat_idx' - 8 < Len(flat')
    BY <1>1, <1>5, <1>8
  <2>2. IsBytes(axi'.tdata, Sent' - (flat_idx' - 8))
    <3>1. IsBytes(Slice(flat, flat_idx, AxisKeep), AxisKeep)
      BY <1>4, <1>6, SliceIs, Zenon
    <3>. QED
      BY <1>7, <1>9, <3>1, Zenon DEF Slice
  <2>3. ASSUME NEW i \in 1 .. Sent' - (flat_idx' - 8)
        PROVE  axi'.tdata[i] = flat'[flat_idx' - 8 + i]
    <3>1. i \in 1 .. AxisKeep
      BY <1>9, Zenon
    <3>2. axi'.tdata[i] = flat[flat_idx + i]
      BY <1>7, <3>1, Zenon
    <3>. QED
      BY <1>1, <1>8, <3>2, Zenon
  <2>4. axi'.tlast <=> flat_idx' >= Len(flat')
    BY <1>1, <1>6, <1>7, Zenon
  <2>5. rxLast' <=> flat_idx' = 8
    <3>1. (flat_idx' = 8) <=> (flat_idx = 0)
      BY <1>1, <1>4
    <3>. QED
      BY <1>1, <1>10, <3>1, Zenon
  <2>6. ~rxLast' => Decoded(flat_idx - 8)'
    <3>1. ASSUME Decoded(flat_idx) PROVE Decoded(flat_idx - 8)'
      <4>1. UNCHANGED <<rx, flat, num, start, log>>
        BY <1>1, Zenon
      <4>2. Prefix(rx', flat', flat_idx' - 8)
        BY <1>8, <3>1, <4>1, Zenon DEF Decoded
      <4>. QED
        BY <1>8, <1>11, <3>1, <4>1, <4>2, Zenon DEF Decoded
    <3>. QED
      BY <1>1, <1>10, <3>1, Zenon
  <2>. QED
    BY <2>1, <2>2, <2>3, <2>4, <2>5, <2>6, Zenon DEF BeatInv
<1>17. DutInv'
  BY <1>1, <1>2, <1>8, <1>11, Zenon DEF DutInv
<1>18. PendInv'
  <2>1. Ended' = Ended
    BY <1>1, <1>3, <1>8, <1>10, <1>11, Zenon DEF Ended
  <2>. QED
    BY <1>1, <1>2, <1>3, <1>14, <2>1, Zenon DEF PendInv, Expected
<1>19. AgeInv'
  <2>1. flat_idx' >= Len(flat') => gap' = GAP
    BY <1>1, <1>6, Zenon
  <2>. QED
    BY <1>1, <1>3, <1>7, <2>1, Zenon DEF AgeInv
<1>20. EndInv'
  BY <1>1, <1>2, <1>3, Zenon DEF EndInv
<1>21. PacketsWhole' /\ AllCompared'
  BY <1>1, <1>2, <1>3, Zenon DEF PacketsWhole, AllCompared
<1>. QED
  BY <1>12, <1>13, <1>14, <1>15, <1>16, <1>17, <1>18, <1>19, <1>20, <1>21, Zenon DEF FeedInv

-----------------------------------------------------------------------------
(* The rising edge: what the decoder makes of a beat.                       *)
LEMMA PrefixGrows ==
    ASSUME NEW bytes, NEW s, NEW t, NEW p \in Nat, NEW n \in Nat, p <= n, n <= Len(bytes),
           Prefix(s, bytes, p), IsBytes(t, n - p), \A i \in 1 .. n - p : t[i] = bytes[p + i]
    PROVE  Prefix(s \o t, bytes, n)
<1>. DEFINE d == n - p
<1>1. d \in Nat /\ p + d = n
  OBVIOUS
<1>2. IsBytes(s, p) /\ \A i \in 1 .. p : s[i] = bytes[i]
  BY Zenon DEF Prefix
<1>. HIDE DEF d
<1>3. Joint(s \o t, s, p, t, d)
  BY <1>1, <1>2, Joined, Zenon DEF d
<1>4. /\ IsBytes(s \o t, n) /\ \A i \in 1 .. p : (s \o t)[i] = s[i]
      /\ \A i \in 1 .. d : (s \o t)[p + i] = t[i]
  BY <1>1, <1>3, Zenon DEF Joint
<1>5. ASSUME NEW i \in 1 .. n PROVE (s \o t)[i] = bytes[i]
  <2>1. CASE i <= p
    <3>1. i \in 1 .. p
      BY <2>1
    <3>. QED
      BY <1>2, <1>4, <3>1, Zenon
  <2>2. CASE ~(i <= p)
    <3>1. i - p \in 1 .. d /\ p + (i - p) = i
      BY <1>1, <2>2
    <3>. QED
      BY <1>4, <3>1, Zenon DEF d
  <2>. QED
    BY <2>1, <2>2
<1>. QED
  BY <1>4, <1>5, Zenon DEF Prefix

LEMMA PrefixOfNone == ASSUME NEW bytes, Len(bytes) \in Nat PROVE Prefix(<<>>, bytes, 0)
<1>1. IsBytes(<<>>, 0) /\ 0 <= Len(bytes) /\ 0 \in Nat /\ \A i \in 1 .. 0 : FALSE
  BY DEF IsBytes
<1>. QED
  BY <1>1, Zenon DEF Prefix

LEMMA StepsOver ==
    ASSUME NEW a \in Nat, NEW w \in 12 .. 50, NEW b, NEW n \in Nat, NEW x \in Nat,
           b = a + 2 + w, a > x - 8, n <= x
    PROVE  b > n
  OBVIOUS

(* What the decoder has, and expects, when a beat comes.                    *)
LEMMA BeatComes ==
    ASSUME ConfigInv, HeldInv, PacketInv, PlaceInv, BeatInv, Waiting
    PROVE  /\ flat # <<>> /\ flat_idx \in Nat /\ flat_idx - 8 \in Nat /\ flat_idx >= 8
           /\ Sent \in Nat /\ flat_idx - 8 <= Sent /\ Sent <= flat_idx /\ Sent <= Len(flat)
           /\ Sent = Len(flat) <=> flat_idx >= Len(flat)
           /\ Prefix(Sampled, flat, Sent)
           /\ Before \in Nat /\ Before <= Held /\ From = Off(log, First, Before)
           /\ Before < Held => Off(log, First, Before + 1) > flat_idx - 8
           /\ Ended = First + Before
<1>1. /\ flat # <<>> /\ flat_idx >= 8 /\ flat_idx - 8 < Len(flat) /\ flat_idx \in Nat
      /\ IsBytes(axi.tdata, Sent - (flat_idx - 8))
      /\ \A i \in 1 .. Sent - (flat_idx - 8) : axi.tdata[i] = flat[flat_idx - 8 + i]
      /\ rxLast <=> flat_idx = 8
      /\ ~rxLast => Decoded(flat_idx - 8)
      /\ axi.tvalid
  BY Zenon DEF BeatInv, PlaceInv, Waiting
<1>2. /\ Held \in Nat /\ Held >= 1 /\ First \in Nat /\ First + Held <= Len(log)
      /\ Len(flat) \in Nat /\ log \in Seq(ItchLen) /\ Len(log) \in Nat
  BY <1>1, PacketIs, LogIs
<1>3. /\ flat_idx - 8 \in Nat /\ flat_idx # 0
      /\ flat_idx = 8 => flat_idx - 8 = 0
  BY <1>1
<1>4. /\ Sent \in Nat /\ flat_idx - 8 <= Sent /\ Sent <= flat_idx /\ Sent <= Len(flat)
      /\ Sent = Len(flat) <=> flat_idx >= Len(flat)
  BY <1>1, <1>2 DEF Sent
<1>5. Prefix(IF rxLast THEN <<>> ELSE rx, flat, flat_idx - 8)
  <2>1. CASE rxLast
    <3>1. Prefix(<<>>, flat, 0)
      BY <1>2, PrefixOfNone, Zenon
    <3>. QED
      BY <1>1, <1>3, <2>1, <3>1, Zenon
  <2>2. CASE ~rxLast
    BY <1>1, <2>2, Zenon DEF Decoded
  <2>. QED
    BY <2>1, <2>2
<1>6. Prefix(Sampled, flat, Sent)
  <2>1. Sampled = (IF rxLast THEN <<>> ELSE rx) \o axi.tdata
    BY <1>1, Zenon DEF Sampled
  <2>. QED
    BY <1>1, <1>3, <1>4, <1>5, <2>1, PrefixGrows, Zenon
<1>7. /\ Before \in Nat /\ Before <= Held /\ From = Off(log, First, Before)
      /\ Before < Held => Off(log, First, Before + 1) > flat_idx - 8
  <2>1. CASE rxLast
    <3>1. Before = 0 /\ From = 20
      BY <1>1, <2>1, Zenon DEF Before, From
    <3>2. First + 0 <= Len(log) /\ First + 1 <= Len(log) /\ 0 \in Nat /\ 1 \in Nat /\ 0 + 1 = 1
      BY <1>2
    <3>3. Off(log, First, 0) = 20 /\ Off(log, First, 1) >= 20 /\ Off(log, First, 1) \in Nat
      BY <1>2, <3>2, Offsets, Zenon
    <3>4. Off(log, First, 1) > 0
      BY <3>3
    <3>5. 0 <= Held
      BY <1>2
    <3>. QED
      BY <1>1, <1>3, <2>1, <3>1, <3>2, <3>3, <3>4, <3>5, Zenon
  <2>2. CASE ~rxLast
    <3>1. Before = num /\ From = start /\ Decoded(flat_idx - 8)
      BY <1>1, <2>2, Zenon DEF Before, From
    <3>2. num \in 0 .. Held => num \in Nat /\ num <= Held
      BY <1>2
    <3>. QED
      BY <3>1, <3>2, Zenon DEF Decoded
  <2>. QED
    BY <2>1, <2>2
<1>8. Ended = First + Before
  BY <1>1, <1>3, Zenon DEF Ended, Before
<1>. QED
  BY <1>1, <1>3, <1>4, <1>6, <1>7, <1>8, Zenon

(* It goes on from there: in one beat at most one message ends.             *)
LEMMA BeatDecoded ==
    ASSUME FeedInv, Waiting, Decode
    PROVE  /\ Prefix(rx', flat, Sent)
           /\ num' \in Nat /\ num' <= Held /\ start' = Off(log, First, num')
           /\ num' < Held => Off(log, First, num' + 1) > Sent
           /\ rxLast' <=> flat_idx >= Len(flat)
           /\ \/ Fresh = <<>> /\ First + num' = Ended
              \/ /\ Fresh = <<[item |-> Expected(First + num'), age |-> 0]>>
                 /\ First + num' = Ended + 1
<1>0. ConfigInv /\ HeldInv /\ PacketInv /\ PlaceInv /\ BeatInv
  BY Zenon DEF FeedInv
<1>1. /\ flat # <<>> /\ flat_idx \in Nat /\ flat_idx - 8 \in Nat
      /\ Sent \in Nat /\ flat_idx - 8 <= Sent /\ Sent <= flat_idx
      /\ Prefix(Sampled, flat, Sent)
      /\ Before \in Nat /\ Before <= Held /\ From = Off(log, First, Before)
      /\ Before < Held => Off(log, First, Before + 1) > flat_idx - 8
      /\ Ended = First + Before
  BY <1>0, BeatComes, Zenon
<1>2. /\ Held \in Nat /\ First \in Nat /\ First + Held <= Len(log)
      /\ Packed(log, flat, First, Held, Held) /\ log \in Seq(ItchLen) /\ Len(log) \in Nat
  BY <1>0, <1>1, PacketIs, LogIs, Zenon
<1>3. axi.tvalid /\ (axi.tlast <=> flat_idx >= Len(flat)) /\ Len(Sampled) = Sent
  BY <1>0, <1>1, Zenon DEF Waiting, BeatInv, Prefix, IsBytes
<1>4. /\ rx' = Sampled /\ (rxLast' <=> flat_idx >= Len(flat))
      /\ start' = IF MsgEnds THEN From + 2 + MsgLen ELSE From
      /\ num' = IF MsgEnds THEN Before + 1 ELSE Before
  BY <1>3, Zenon DEF Decode
<1>5. CASE Before < Held /\ Off(log, First, Before + 1) <= Sent
  <2>1. /\ MsgLen = log[First + Before + 1] /\ MsgLen > 0
        /\ From + 2 + MsgLen = Off(log, First, Before + 1)
        /\ Body(Sampled, From + 2, MsgLen) = First + Before + 1
    <3>1. MsgReadAt(log, Sampled, First, Before)
      BY <1>1, <1>2, <1>5, ReadsWhole, Zenon
    <3>. QED
      BY <1>1, <3>1, Zenon DEF MsgLen, MsgReadAt
  <2>2. MsgEnds
    BY <1>3, <1>5, <2>1, Zenon DEF MsgEnds
  <2>3. num' = Before + 1 /\ start' = Off(log, First, num')
    BY <1>4, <2>1, <2>2, Zenon
  <2>4. num' \in Nat /\ num' <= Held /\ First + (Before + 1) <= Len(log)
    BY <1>1, <1>2, <1>5, <2>3
  <2>5. Off(log, First, num') \in Nat /\ Off(log, First, num') >= 34
    <3>1. 20 + 14 * num' <= Off(log, First, num') /\ Off(log, First, num') \in Nat
      BY <1>2, <2>3, <2>4, Offsets, Zenon
    <3>2. num' >= 1
      BY <1>1, <2>3
    <3>. QED
      BY <2>4, <3>1, <3>2
  <2>6. ASSUME num' < Held PROVE Off(log, First, num' + 1) > Sent
    <3>1. First + num' + 1 <= Len(log)
      BY <1>2, <2>4, <2>6
    <3>2. /\ log[First + num' + 1] \in 12 .. 50
          /\ Off(log, First, num' + 1) = Off(log, First, num') + 2 + log[First + num' + 1]
      BY <1>2, <2>4, <3>1, NextOff, Zenon
    <3>3. Off(log, First, num') > flat_idx - 8
      BY <1>1, <1>5, <2>3, Zenon
    <3>. QED
      BY <1>1, <2>5, <3>2, <3>3, StepsOver, Zenon
  <2>7. Field(Sampled, "seq", 10, 8) = First
    <3>1. Sent >= 18
      BY <1>1, <1>5, <2>3, <2>5
    <3>2. Headed(flat, First, Held)
      BY <1>2, Zenon DEF Packed
    <3>. QED
      BY <1>1, <3>1, <3>2, ReadsHeader, Zenon
  <2>8. /\ First + num' = Ended + 1 /\ First + Before + 1 = First + num'
        /\ First + Before = (First + num') - 1
    <3>. HIDE DEF First, Ended
    <3>. QED
      BY <1>1, <1>2, <2>3
  <2>9. Fresh = <<[item |-> Expected(First + num'), age |-> 0]>>
    BY <2>1, <2>2, <2>7, <2>8, Zenon DEF Fresh, Expected
  <2>. QED
    BY <1>1, <1>4, <2>3, <2>4, <2>6, <2>8, <2>9, Zenon
<1>6. ASSUME ~(Before < Held /\ Off(log, First, Before + 1) <= Sent)
      PROVE  ~MsgEnds /\ (Before < Held => Off(log, First, Before + 1) > Sent)
  <2>1. CASE Before < Held
    <3>1. First + (Before + 1) <= Len(log) /\ Before + 1 \in Nat
      BY <1>1, <1>2, <2>1
    <3>2. Off(log, First, Before + 1) \in Nat
      BY <1>2, <3>1, Offsets, Zenon
    <3>3. Off(log, First, Before + 1) > Sent
      BY <1>1, <1>6, <2>1, <3>2
    <3>4. ~(/\ Field(Sampled, "len", Off(log, First, Before), 2) > 0
            /\ Off(log, First, Before) + 2 + Field(Sampled, "len", Off(log, First, Before), 2)
                  <= Len(Sampled))
      BY <1>1, <1>2, <2>1, <3>3, ReadsPart, Zenon
    <3>. QED
      BY <1>1, <3>3, <3>4, Zenon DEF MsgEnds, MsgLen
  <2>2. CASE Before = Held
    <3>1. ~(Field(Sampled, "len", Off(log, First, Held), 2) > 0)
      BY <1>1, <1>2, ReadsNoMore, Zenon
    <3>2. ~(Before < Held)
      BY <1>2, <2>2
    <3>. QED
      BY <1>1, <2>2, <3>1, <3>2, Zenon DEF MsgEnds, MsgLen
  <2>. QED
    BY <1>1, <1>2, <2>1, <2>2
<1>7. CASE ~(Before < Held /\ Off(log, First, Before + 1) <= Sent)
  <2>1. ~MsgEnds /\ (Before < Held => Off(log, First, Before + 1) > Sent)
    BY <1>6, <1>7, Zenon
  <2>2. num' = Before /\ start' = From /\ Fresh = <<>>
    BY <1>4, <2>1, Zenon DEF Fresh
  <2>. QED
    BY <1>1, <1>4, <2>1, <2>2, Zenon
<1>. QED
  BY <1>5, <1>7

-----------------------------------------------------------------------------
(* A line of messages that wait: those behind the first a, up to e, the     *)
(* oldest first.                                                            *)
Waiter == [item : Item, age : Nat]

Line(s, a, e) ==
    /\ s \in Seq(Waiter) /\ a \in Nat /\ e \in Nat /\ Len(s) = e - a
    /\ \A i \in 1 .. Len(s) : s[i].item = Expected(a + i)
    /\ \A i, j \in 1 .. Len(s) : i < j => s[j].age < s[i].age

LEMMA LineIs ==
    ASSUME NEW s, NEW a, NEW e, Line(s, a, e)
    PROVE  /\ Len(s) \in Nat /\ a \in Nat /\ e \in Nat /\ Len(s) = e - a
           /\ \A i \in 1 .. Len(s) : s[i] \in Waiter /\ s[i].age \in Nat
<1>1. s \in Seq(Waiter) /\ a \in Nat /\ e \in Nat /\ Len(s) = e - a
  BY Zenon DEF Line
<1>2. Len(s) \in Nat
  BY <1>1
<1>3. \A i \in 1 .. Len(s) : s[i] \in Waiter
  BY <1>1, ElementOfSeq, Zenon
<1>4. \A x \in Waiter : x.age \in Nat
  BY DEF Waiter
<1>. QED
  BY <1>1, <1>2, <1>3, <1>4, Zenon

(* All of them a cycle older.                                               *)
Aged(s) == [i \in 1 .. Len(s) |-> [s[i] EXCEPT !.age = @ + 1]]

LEMMA AgedIs ==
    ASSUME NEW s, NEW a, NEW e, Line(s, a, e)
    PROVE  /\ Line(Aged(s), a, e) /\ Len(Aged(s)) = Len(s)
           /\ \A i \in 1 .. Len(s) : Aged(s)[i].age = s[i].age + 1
<1>1. /\ Len(s) \in Nat /\ a \in Nat /\ e \in Nat /\ Len(s) = e - a
      /\ \A i \in 1 .. Len(s) : s[i] \in Waiter /\ s[i].age \in Nat
  BY LineIs, Zenon
<1>2. \A x \in Waiter : /\ [x EXCEPT !.age = @ + 1] \in Waiter
                        /\ [x EXCEPT !.age = @ + 1].age = x.age + 1
                        /\ [x EXCEPT !.age = @ + 1].item = x.item
  BY DEF Waiter
<1>3. \A i \in 1 .. Len(s) : /\ Aged(s)[i] \in Waiter
                             /\ Aged(s)[i].age = s[i].age + 1 /\ Aged(s)[i].item = s[i].item
  BY <1>1, <1>2, Zenon DEF Aged
<1>4. Aged(s) \in [1 .. Len(s) -> Waiter]
  BY <1>3, Zenon DEF Aged
<1>5. Aged(s) \in Seq(Waiter) /\ Len(Aged(s)) = Len(s)
  BY <1>1, <1>4
<1>6. \A i \in 1 .. Len(s) : Aged(s)[i].item = Expected(a + i)
  BY <1>3, Zenon DEF Line
<1>7. ASSUME NEW i \in 1 .. Len(s), NEW j \in 1 .. Len(s), i < j
      PROVE  Aged(s)[j].age < Aged(s)[i].age
  <2>1. s[j].age < s[i].age
    BY <1>7, Zenon DEF Line
  <2>. QED
    BY <1>1, <1>3, <2>1
<1>. QED
  BY <1>1, <1>3, <1>5, <1>6, <1>7, Zenon DEF Line

(* One more at the end.                                                     *)
Newest(e) == [item |-> Expected(e + 1), age |-> 0]

Grown(t, s, x) == /\ Len(t) = Len(s) + 1 /\ t[Len(s) + 1] = x
                  /\ \A i \in 1 .. Len(s) : t[i] = s[i]

LEMMA LineGrows ==
    ASSUME NEW s, NEW a, NEW e, Line(s, a, e), a <= e, Expected(e + 1) \in Item,
           \A i \in 1 .. Len(s) : s[i].age > 0
    PROVE  Line(s \o <<Newest(e)>>, a, e + 1) /\ Grown(s \o <<Newest(e)>>, s, Newest(e))
<1>. DEFINE new == Newest(e)
            t == s \o <<new>>
<1>1. /\ Len(s) \in Nat /\ a \in Nat /\ e \in Nat /\ Len(s) = e - a /\ s \in Seq(Waiter)
      /\ \A i \in 1 .. Len(s) : s[i] \in Waiter /\ s[i].age \in Nat
  BY LineIs, Zenon DEF Line
<1>2. new \in Waiter /\ new.age = 0 /\ new.item = Expected(e + 1)
  BY DEF Waiter, Newest
<1>. HIDE DEF new
<1>3. /\ t \in Seq(Waiter) /\ Len(t) = Len(s) + 1 /\ t[Len(s) + 1] = new
      /\ \A i \in 1 .. Len(s) : t[i] = s[i]
  BY <1>1, <1>2
<1>. HIDE DEF t
<1>4. \A i \in 1 .. Len(t) : i \in 1 .. Len(s) \/ i = Len(s) + 1
  BY <1>1, <1>3
<1>5. e + 1 \in Nat /\ Len(t) = (e + 1) - a /\ a + (Len(s) + 1) = e + 1
  BY <1>1, <1>3
<1>6. ASSUME NEW i \in 1 .. Len(t) PROVE t[i].item = Expected(a + i)
  BY <1>2, <1>3, <1>4, <1>5, Zenon DEF Line
<1>7. ASSUME NEW i \in 1 .. Len(t), NEW j \in 1 .. Len(t), i < j
      PROVE  t[j].age < t[i].age
  <2>1. i \in 1 .. Len(s)
    BY <1>1, <1>3, <1>7
  <2>2. CASE j \in 1 .. Len(s)
    BY <1>3, <1>7, <2>1, <2>2, Zenon DEF Line
  <2>3. CASE j = Len(s) + 1
    <3>1. t[j].age = 0 /\ t[i].age = s[i].age /\ s[i].age > 0
      BY <1>2, <1>3, <2>1, <2>3, Zenon
    <3>. QED
      BY <3>1
  <2>. QED
    BY <1>4, <2>2, <2>3
<1>8. Line(t, a, e + 1)
  BY <1>1, <1>3, <1>5, <1>6, <1>7, Zenon DEF Line
<1>. QED
  BY <1>3, <1>8, Zenon DEF new, t, Grown

(* The oldest leaves.                                                       *)
LEMMA LineShrinks ==
    ASSUME NEW s, NEW a, NEW e, Line(s, a, e), s # <<>>
    PROVE  /\ Line(Tail(s), a + 1, e) /\ Len(Tail(s)) = Len(s) - 1 /\ Len(s) >= 1
           /\ \A i \in 1 .. Len(Tail(s)) : i + 1 \in 1 .. Len(s) /\ Tail(s)[i] = s[i + 1]
           /\ Head(s) = s[1] /\ 1 \in 1 .. Len(s)
<1>1. /\ Len(s) \in Nat /\ a \in Nat /\ e \in Nat /\ Len(s) = e - a /\ s \in Seq(Waiter)
  BY LineIs, Zenon DEF Line
<1>2. Len(s) >= 1 /\ Head(s) = s[1] /\ 1 \in 1 .. Len(s)
  BY <1>1
<1>3. /\ Tail(s) \in Seq(Waiter) /\ Len(Tail(s)) = Len(s) - 1
      /\ \A i \in 1 .. Len(Tail(s)) : Tail(s)[i] = s[i + 1]
  BY <1>1
<1>4. \A i \in 1 .. Len(Tail(s)) : i + 1 \in 1 .. Len(s) /\ a + (i + 1) = (a + 1) + i
  BY <1>1, <1>3
<1>5. a + 1 \in Nat /\ Len(Tail(s)) = e - (a + 1)
  BY <1>1, <1>3
<1>6. \A i \in 1 .. Len(Tail(s)) : Tail(s)[i].item = Expected((a + 1) + i)
  BY <1>3, <1>4, Zenon DEF Line
<1>7. ASSUME NEW i \in 1 .. Len(Tail(s)), NEW j \in 1 .. Len(Tail(s)), i < j
      PROVE  Tail(s)[j].age < Tail(s)[i].age
  <2>1. i + 1 < j + 1
    BY <1>7
  <2>. QED
    BY <1>3, <1>4, <2>1, Zenon DEF Line
<1>8. Line(Tail(s), a + 1, e)
  BY <1>1, <1>3, <1>5, <1>6, <1>7, Zenon DEF Line
<1>. QED
  BY <1>2, <1>3, <1>4, <1>8, Zenon

-----------------------------------------------------------------------------
LEMMA UpTo ==
    ASSUME NEW a \in Nat, NEW b \in Nat, NEW c \in Nat, b <= c
    PROVE  b \in 0 .. c /\ a + b \in Nat /\ a + b <= a + c
  OBVIOUS

(* A rising edge, for the decoder ...                                       *)
LEMMA EdgeWithBeat ==
    ASSUME FeedInv, Waiting, Decode, UNCHANGED <<log, seq, flat, flat_idx>>, ~Waiting'
    PROVE  /\ DutInv' /\ PacketsWhole' /\ rxLast' \in BOOLEAN
           /\ Ended \in Nat /\ Ended' \in Nat /\ Ended' <= seq
           /\ \/ Fresh = <<>> /\ Ended' = Ended
              \/ Fresh = <<Newest(Ended)>> /\ Ended' = Ended + 1
<1>0. ConfigInv /\ HeldInv /\ PacketInv /\ PlaceInv /\ BeatInv
  BY Zenon DEF FeedInv
<1>1. /\ flat # <<>> /\ flat_idx \in Nat /\ flat_idx >= 8 /\ Sent \in Nat
      /\ Sent = Len(flat) <=> flat_idx >= Len(flat)
      /\ Before \in Nat /\ Ended = First + Before
  BY <1>0, BeatComes, Zenon
<1>2. /\ Held \in Nat /\ First \in Nat /\ Held >= 1 /\ First + Held <= Len(log)
      /\ First + Held = seq
      /\ Packed(log, flat, First, Held, Held) /\ log \in Seq(ItchLen) /\ Len(log) \in Nat
      /\ Len(flat) = Off(log, First, Held) /\ Len(flat) >= 34
  BY <1>0, <1>1, PacketIs, LogIs, Zenon
<1>3. /\ Prefix(rx', flat, Sent)
      /\ num' \in Nat /\ num' <= Held /\ start' = Off(log, First, num')
      /\ num' < Held => Off(log, First, num' + 1) > Sent
      /\ rxLast' <=> flat_idx >= Len(flat)
      /\ \/ Fresh = <<>> /\ First + num' = Ended
         \/ /\ Fresh = <<[item |-> Expected(First + num'), age |-> 0]>>
            /\ First + num' = Ended + 1
  BY BeatDecoded
<1>4. Held' = Held /\ First' = First /\ Sent' = Sent
  BY Zenon DEF Held, First, Sent
<1>5. flat_idx # 0 /\ num' \in 0 .. Held /\ First + num' \in Nat /\ First + num' <= seq
  <2>1. flat_idx # 0
    BY <1>1
  <2>. QED
    BY <1>2, <1>3, <2>1, UpTo, Zenon
<1>6. Ended' = First + num'
  BY <1>4, <1>5, Zenon DEF Ended
<1>7. Ended \in Nat
  <2>. HIDE DEF First, Ended
  <2>. QED
    BY <1>1, <1>2
<1>8. rx' \in Seq(Octet) /\ Len(rx') = Sent /\ start' \in Nat
  <2>1. First + num' <= Len(log)
    <3>. HIDE DEF First, Held
    <3>. QED
      BY <1>2, <1>3
  <2>2. Off(log, First, num') \in Nat
    BY <1>2, <1>3, <2>1, Offsets, Zenon
  <2>. QED
    BY <1>3, <2>2, Zenon DEF Prefix, IsBytes
<1>9. rxLast' \in BOOLEAN
  <2>1. axi.tvalid /\ rxLast' = axi.tlast
    BY Zenon DEF Waiting, Decode
  <2>. QED
    BY <1>0, <2>1, Zenon DEF ConfigInv
<1>10. Decoded(Sent)'
  BY <1>3, <1>4, <1>5, Zenon DEF Decoded
<1>11. DutInv'
  BY <1>1, <1>3, <1>5, <1>8, <1>10, Zenon DEF DutInv
<1>12. PacketsWhole'
  <2>. SUFFICES ASSUME rxLast'
                PROVE  num' > 0 /\ num' = Field(rx', "cnt", 18, 2) /\ start' = Len(rx')
    BY Zenon DEF PacketsWhole
  <2>1. Sent = Len(flat)
    BY <1>1, <1>3, Zenon
  <2>2. num' = Held
    BY <1>0, <1>1, <1>3, <2>1, AllDecoded, Zenon
  <2>3. Sent >= 20 /\ num' > 0
    BY <1>2, <2>1, <2>2
  <2>4. Headed(flat, First, Held)
    BY <1>2, Zenon DEF Packed
  <2>5. Field(rx', "cnt", 18, 2) = Held
    BY <1>1, <1>3, <2>3, <2>4, ReadsHeader, Zenon
  <2>. QED
    BY <1>2, <1>3, <1>8, <2>1, <2>2, <2>3, <2>5, Zenon
<1>. QED
  BY <1>3, <1>5, <1>6, <1>7, <1>9, <1>11, <1>12, Zenon DEF Newest

LEMMA EdgeWithout ==
    ASSUME FeedInv, pc = "clock", ~Waiting, Decode, UNCHANGED <<log, seq, flat, flat_idx>>,
           ~Waiting'
    PROVE  /\ DutInv' /\ PacketsWhole' /\ rxLast' \in BOOLEAN
           /\ Ended \in Nat /\ Ended' \in Nat /\ Ended' <= seq
           /\ Fresh = <<>> /\ Ended' = Ended
<1>0. ConfigInv /\ HeldInv /\ PacketInv /\ PlaceInv /\ DutInv /\ PacketsWhole
  BY Zenon DEF FeedInv
<1>1. ~axi.tvalid
  BY Zenon DEF Waiting
<1>2. ~MsgEnds /\ Fresh = <<>>
  BY <1>1, Zenon DEF MsgEnds, Fresh
<1>3. rx' = rx /\ rxLast' = rxLast /\ start' = start /\ num' = num
  BY <1>1, <1>2, Zenon DEF Decode, Sampled, From, Before
<1>4. Held' = Held /\ First' = First /\ Sent' = Sent
  BY Zenon DEF Held, First, Sent
<1>5. DutInv'
  <2>1. ASSUME Decoded(Sent) PROVE Decoded(Sent)'
    BY <1>3, <1>4, <2>1, Zenon DEF Decoded
  <2>2. pc # "over"
    OBVIOUS
  <2>. QED
    BY <1>0, <1>3, <1>4, <2>1, <2>2, Zenon DEF DutInv
<1>6. PacketsWhole'
  BY <1>0, <1>3, Zenon DEF PacketsWhole
<1>7. rxLast' \in BOOLEAN
  BY <1>0, <1>3, Zenon DEF ConfigInv
<1>8. Ended' = Ended
  BY <1>3, <1>4, Zenon DEF Ended
<1>9. Ended \in Nat /\ Ended <= seq
  <2>1. CASE flat = <<>>
    <3>1. flat_idx = 0
      BY <1>0, <2>1, Zenon DEF PlaceInv
    <3>2. seq \in Nat /\ Ended = seq - 0 + 0
      BY <1>0, <2>1, <3>1, Zenon DEF Ended, First, Held, HeldInv
    <3>. QED
      BY <3>2
  <2>2. CASE flat # <<>>
    <3>1. Held \in Nat /\ First \in Nat /\ First + Held = seq /\ flat_idx \in Nat
      BY <1>0, <2>2, PacketIs, Zenon DEF PlaceInv
    <3>2. CASE flat_idx = 0
      <4>1. Ended = First + 0
        BY <3>2, Zenon DEF Ended
      <4>. HIDE DEF First, Held, Ended
      <4>. QED
        BY <3>1, <4>1
    <3>3. CASE flat_idx # 0
      <4>1. flat_idx > 0
        BY <3>1, <3>3
      <4>2. num \in 0 .. Held /\ Ended = First + num
        BY <1>0, <2>2, <3>3, <4>1, Zenon DEF DutInv, Decoded, Ended
      <4>. HIDE DEF First, Held, Ended
      <4>. QED
        BY <3>1, <4>2
    <3>. QED
      BY <3>2, <3>3
  <2>. QED
    BY <2>1, <2>2
<1>. QED
  BY <1>2, <1>5, <1>6, <1>7, <1>8, <1>9, Zenon

(* ... for those that wait to be announced ...                              *)
LEMMA QueuedIs ==
    ASSUME FeedInv, pc = "clock", Ended \in Nat, NEW e \in Nat, e <= seq,
           \/ Fresh = <<>> /\ e = Ended
           \/ Fresh = <<Newest(Ended)>> /\ e = Ended + 1
    PROVE  /\ Line(Queued, Popped, e) /\ Popped \in Nat /\ e <= pos
           /\ \A i \in 1 .. Len(Queued) : Queued[i].age <= latency
           /\ Fresh = <<>> => /\ Len(Queued) = Len(pending)
                              /\ \A i \in 1 .. Len(Queued) : Queued[i].age = pending[i].age + 1
<1>0. ConfigInv /\ HeldInv /\ PendInv /\ ListInv
  BY Zenon DEF FeedInv
<1>1. pos \in Nat /\ Len(log) \in Nat /\ pos <= Len(log) /\ latency \in Nat /\ seq = pos
  <2>1. pos \in Nat /\ Len(log) \in Nat /\ pos <= Len(log) /\ latency \in Nat
    BY <1>0, LogIs
  <2>2. msgs = <<>> /\ seq + Len(msgs) = pos /\ seq \in Nat
    <3>1. pc # "read"
      OBVIOUS
    <3>. QED
      BY <1>0, <3>1, Zenon DEF HeldInv
  <2>. QED
    BY <2>1, <2>2
<1>2. Popped \in Nat
  <2>1. Len(order) \in Nat /\ Len(order) <= pos
    BY <1>0 DEF ListInv, FifoInv, FifoTypeOK
  <2>. QED
    BY <1>1, <2>1 DEF Popped
<1>3. Line(pending, Popped, Ended)
  <2>1. Running
    BY DEF Running
  <2>. QED
    BY <1>0, <1>2, <2>1, Zenon DEF PendInv, Line, Waiter
<1>4. /\ Line(Aged(pending), Popped, Ended) /\ Len(Aged(pending)) = Len(pending)
      /\ \A i \in 1 .. Len(pending) : Aged(pending)[i].age = pending[i].age + 1
  BY <1>3, AgedIs, Zenon
<1>5. Queued = Aged(pending) \o Fresh
  BY Zenon DEF Queued, Aged
<1>6. \A i \in 1 .. Len(pending) : /\ Aged(pending)[i].age <= latency
                                   /\ Aged(pending)[i].age > 0
  <2>1. \A i \in 1 .. Len(pending) : pending[i].age \in Nat /\ pending[i].age < latency
    BY <1>0, Ages, Zenon
  <2>. SUFFICES ASSUME NEW i \in 1 .. Len(pending)
                PROVE  Aged(pending)[i].age <= latency /\ Aged(pending)[i].age > 0
    OBVIOUS
  <2>2. /\ pending[i].age \in Nat /\ pending[i].age < latency
        /\ Aged(pending)[i].age = pending[i].age + 1
    BY <1>4, <2>1, Zenon
  <2>. QED
    BY <1>1, <2>2
<1>7. Len(pending) \in Nat /\ Len(pending) = Ended - Popped
  BY <1>3, LineIs, Zenon
<1>8. CASE Fresh = <<>> /\ e = Ended
  <2>1. Aged(pending) \in Seq(Waiter)
    BY <1>4, Zenon DEF Line
  <2>2. Aged(pending) \o <<>> = Aged(pending)
    BY <2>1
  <2>3. Queued = Aged(pending)
    BY <1>5, <1>8, <2>2, Zenon
  <2>. QED
    BY <1>1, <1>2, <1>4, <1>6, <1>8, <2>3, Zenon
<1>9. CASE Fresh = <<Newest(Ended)>> /\ e = Ended + 1
  <2>1. Expected(Ended + 1) \in Item
    <3>1. Ended + 1 \in 1 .. Len(log)
      <4>. HIDE DEF Ended
      <4>. QED
        BY <1>1, <1>9
    <3>. QED
      BY <1>0, <3>1, ItemIs, Zenon
  <2>2. Popped <= Ended
    <3>. HIDE DEF Popped, Ended
    <3>. QED
      BY <1>2, <1>7
  <2>3. /\ Line(Queued, Popped, e) /\ Len(Queued) = Len(pending) + 1
        /\ \A i \in 1 .. Len(pending) : Queued[i] = Aged(pending)[i]
        /\ Queued[Len(pending) + 1] = Newest(Ended)
    <3>1. \A i \in 1 .. Len(Aged(pending)) : Aged(pending)[i].age > 0
      BY <1>4, <1>6, Zenon
    <3>2. /\ Line(Aged(pending) \o <<Newest(Ended)>>, Popped, Ended + 1)
          /\ Grown(Aged(pending) \o <<Newest(Ended)>>, Aged(pending), Newest(Ended))
      BY <1>2, <1>4, <2>1, <2>2, <3>1, LineGrows, Zenon
    <3>. QED
      BY <1>4, <1>5, <1>9, <3>2, Zenon DEF Grown
  <2>4. \A i \in 1 .. Len(Queued) : Queued[i].age <= latency
    <3>. SUFFICES ASSUME NEW i \in 1 .. Len(Queued) PROVE Queued[i].age <= latency
      OBVIOUS
    <3>1. i \in 1 .. Len(pending) \/ i = Len(pending) + 1
      BY <1>7, <2>3
    <3>2. Newest(Ended).age = 0 /\ 0 <= latency
      BY <1>1 DEF Newest
    <3>. QED
      BY <1>6, <2>3, <3>1, <3>2, Zenon
  <2>5. Fresh # <<>>
    BY <1>9
  <2>. QED
    BY <1>1, <1>2, <1>9, <2>3, <2>4, <2>5, Zenon
<1>. QED
  BY <1>8, <1>9

(* ... and for the bench, which pops the message that is announced.         *)
LEMMA Lowered ==
    ASSUME NEW w, NEW b, w = [tvalid |-> w.tvalid, tdata |-> w.tdata,
                              tkeep |-> w.tkeep, tlast |-> w.tlast]
    PROVE  [w EXCEPT !.tvalid = b] = [tvalid |-> b, tdata |-> w.tdata,
                                      tkeep |-> w.tkeep, tlast |-> w.tlast]
<1>. DEFINE u == [tvalid |-> w.tvalid, tdata |-> w.tdata, tkeep |-> w.tkeep, tlast |-> w.tlast]
<1>1. [u EXCEPT !.tvalid = b] = [tvalid |-> b, tdata |-> w.tdata,
                                 tkeep |-> w.tkeep, tlast |-> w.tlast]
  OBVIOUS
<1>. QED
  BY <1>1, Zenon

LEMMA GapLeft == ASSUME NEW m \in Nat, NEW g \in Nat, NEW h, h = g - 1
                PROVE  m - 1 - h = m - g
  OBVIOUS

(* The message announced is the one popped; otherwise nothing moves.        *)
LEMMA EdgePops ==
    ASSUME FeedInv, pc = "clock", NEW e \in Nat, e <= pos, Line(Queued, Popped, e),
           \A i \in 1 .. Len(Queued) : Queued[i].age <= latency,
           \/ /\ Queued # <<>> /\ got' = Head(Queued).item /\ pending' = Tail(Queued) /\ FifoPop
           \/ /\ Queued # <<>> => Head(Queued).age < latency
              /\ pending' = Queued
              /\ UNCHANGED <<got, fifoVars>>,
           pos' = pos, latency' = latency
    PROVE  /\ ListInv' /\ GotInv' /\ Line(pending', Popped', e)
           /\ \A i \in 1 .. Len(pending') : pending'[i].age < latency
           /\ \A i \in 1 .. Len(pending') : \E j \in 1 .. Len(Queued) : pending'[i] = Queued[j]
<1>0. ConfigInv /\ ListInv /\ GotInv /\ Running
  BY DEF FeedInv, Running
<1>1. pos \in Nat /\ latency \in Nat
  BY <1>0, LogIs
<1>2. /\ Len(Queued) \in Nat /\ Popped \in Nat /\ Len(Queued) = e - Popped /\ Queued \in Seq(Waiter)
      /\ \A i \in 1 .. Len(Queued) : Queued[i] \in Waiter /\ Queued[i].age \in Nat
  BY LineIs, Zenon DEF Line
<1>3. CASE Queued # <<>> /\ got' = Head(Queued).item /\ pending' = Tail(Queued) /\ FifoPop
  <2>1. /\ Line(Tail(Queued), Popped + 1, e) /\ Len(Queued) >= 1
        /\ \A i \in 1 .. Len(Tail(Queued)) : /\ i + 1 \in 1 .. Len(Queued)
                                             /\ Tail(Queued)[i] = Queued[i + 1]
        /\ Head(Queued) = Queued[1] /\ 1 \in 1 .. Len(Queued)
    BY <1>3, LineShrinks, Zenon
  <2>2. read # NULL
    <3>1. Popped < pos
      <4>. HIDE DEF Popped
      <4>. QED
        BY <1>1, <1>2, <2>1
    <3>2. Len(order) \in Nat /\ order \in Seq(Node)
      BY <1>0 DEF ListInv, FifoInv, FifoTypeOK
    <3>3. order # <<>>
      BY <1>1, <3>1, <3>2 DEF Popped
    <3>. QED
      BY <1>0, <3>3, ReadNull, Zenon DEF ListInv
  <2>3. PullAndFree /\ popped' = elem[read]
    BY <1>3, <2>2, Zenon DEF FifoPop
  <2>4. /\ Popped' = Popped + 1 /\ Len(order') <= pos'
        /\ \A n \in 1 .. Len(order') : (elem[order[n]] = Expected(Popped + n))'
        /\ elem[read] = Expected(Popped + 1)
    BY <1>0, <1>1, <2>3, Pulled, Zenon
  <2>5. FifoInv'
    BY <1>0, <1>3, PopInv, Zenon DEF ListInv
  <2>6. ListInv'
    BY <2>4, <2>5, Zenon DEF ListInv
  <2>7. got' = Expected(Popped + 1) /\ popped' = got'
    BY <1>3, <2>1, <2>3, <2>4, Zenon DEF Line
  <2>8. GotInv'
    <3>1. Popped' # 0
      <4>. HIDE DEF Popped
      <4>. QED
        BY <1>2, <2>4
    <3>. QED
      BY <2>4, <2>7, <3>1, Zenon DEF GotInv, Expected
  <2>9. ASSUME NEW i \in 1 .. Len(pending') PROVE pending'[i].age < latency
    <3>1. i + 1 \in 1 .. Len(Queued) /\ pending'[i] = Queued[i + 1]
      BY <1>3, <2>1, Zenon
    <3>2. 1 < i + 1
      OBVIOUS
    <3>3. Queued[i + 1].age < Queued[1].age /\ Queued[1].age <= latency
      BY <2>1, <3>1, <3>2, Zenon DEF Line
    <3>4. Queued[i + 1].age \in Nat /\ Queued[1].age \in Nat
      BY <1>2, <2>1, <3>1, Zenon
    <3>. QED
      BY <1>1, <3>1, <3>3, <3>4
  <2>. QED
    BY <1>3, <2>1, <2>4, <2>6, <2>8, <2>9, Zenon
<1>4. CASE /\ Queued # <<>> => Head(Queued).age < latency
           /\ pending' = Queued
           /\ UNCHANGED <<got, fifoVars>>
  <2>1. ListInv' /\ GotInv' /\ Popped' = Popped
    BY <1>0, <1>4, KeepList, Zenon
  <2>2. ASSUME NEW i \in 1 .. Len(Queued) PROVE Queued[i].age < latency
    <3>1. Queued # <<>> /\ 1 \in 1 .. Len(Queued) /\ Head(Queued) = Queued[1] /\ (i = 1 \/ 1 < i)
      BY <1>2
    <3>2. Queued[1].age < latency /\ (i = 1 \/ Queued[i].age < Queued[1].age)
      BY <1>4, <3>1, Zenon DEF Line
    <3>3. Queued[i].age \in Nat /\ Queued[1].age \in Nat
      BY <1>2, <3>1, Zenon
    <3>. QED
      BY <1>1, <3>2, <3>3
  <2>. QED
    BY <1>4, <2>1, <2>2, Zenon
<1>. QED
  BY <1>3, <1>4

LEMMA PosedgeInv ==
    ASSUME FeedInv, Posedge
    PROVE  FeedInv'
<1>1. /\ pc = "clock" /\ Decode
      /\ axi' = [axi EXCEPT !.tvalid = axi.tvalid /\ gap = 0]
      /\ gap' = (IF gap > 0 THEN gap - 1 ELSE 0)
      /\ pc' = (IF gap > 0 THEN "clock" ELSE "idle")
      /\ UNCHANGED <<log, zeroEnd, latency, stalls, pos, eof, seq, msgs, flat, flat_l, flat_idx,
                     left, caller, ready>>
  BY Zenon DEF Posedge, cfgVars, moldVars, flatVars
<1>2. \/ /\ Queued # <<>> /\ got' = Head(Queued).item /\ pending' = Tail(Queued) /\ FifoPop
         /\ quiet' = 0
      \/ /\ Queued # <<>> => Head(Queued).age < latency
         /\ pending' = Queued
         /\ quiet' = (IF quiet < LLOCK THEN quiet + 1 ELSE LLOCK)
         /\ UNCHANGED <<got, fifoVars>>
  BY Zenon DEF Posedge
<1>3. /\ ConfigInv /\ HeldInv /\ ListInv /\ PacketInv /\ PlaceInv /\ GotInv /\ AgeInv /\ EndInv
      /\ BeatInv /\ DutInv /\ PendInv
  BY Zenon DEF FeedInv
<1>4. gap \in 0 .. GAP /\ quiet \in 0 .. LLOCK /\ GAP = 3 /\ LLOCK = 20
  BY <1>3 DEF ConfigInv, GAP, LLOCK
<1>5. /\ axi' = [tvalid |-> axi.tvalid /\ gap = 0, tdata |-> axi.tdata,
                 tkeep |-> axi.tkeep, tlast |-> axi.tlast]
  BY <1>1, <1>3, Lowered, Zenon DEF ConfigInv
<1>6. /\ axi'.tvalid <=> axi.tvalid /\ gap = 0
      /\ axi'.tvalid \in BOOLEAN
      /\ axi'.tdata = axi.tdata /\ axi'.tkeep = axi.tkeep /\ axi'.tlast = axi.tlast
  <2>1. /\ axi'.tvalid = (axi.tvalid /\ gap = 0)
        /\ axi'.tdata = axi.tdata /\ axi'.tkeep = axi.tkeep /\ axi'.tlast = axi.tlast
    BY <1>5, Zenon
  <2>2. (axi.tvalid /\ gap = 0) \in BOOLEAN
    OBVIOUS
  <2>. QED
    BY <2>1, <2>2, Zenon
<1>7. /\ pc' = "idle" => gap = 0
      /\ pc' = "clock" => gap > 0 /\ gap' = gap - 1 /\ gap # 0
      /\ pc' = "idle" \/ pc' = "clock"
      /\ gap' \in 0 .. GAP
  BY <1>1, <1>4
<1>8. ~Waiting'
  BY <1>6, <1>7, Zenon DEF Waiting
<1>9. /\ pc # "read" /\ pc # "over" /\ pc' # "read" /\ pc' # "over" /\ pc' # "beat" /\ pc' # "end"
      /\ Running /\ Running' /\ pc \in {"idle", "clock"} /\ pc \in {"idle", "beat", "clock"}
      /\ pc' \in {"idle", "read", "beat", "clock", "end", "over"}
  BY <1>1, <1>7 DEF Running
<1>10. /\ DutInv' /\ PacketsWhole' /\ rxLast' \in BOOLEAN
       /\ Ended \in Nat /\ Ended' \in Nat /\ Ended' <= seq
       /\ \/ Fresh = <<>> /\ Ended' = Ended
          \/ Fresh = <<Newest(Ended)>> /\ Ended' = Ended + 1
       /\ ~Waiting => Fresh = <<>>
  <2>1. UNCHANGED <<log, seq, flat, flat_idx>>
    BY <1>1, Zenon
  <2>2. CASE Waiting
    BY <1>1, <1>8, <2>1, <2>2, EdgeWithBeat, Zenon
  <2>3. CASE ~Waiting
    BY <1>1, <1>8, <2>1, <2>3, EdgeWithout, Zenon
  <2>. QED
    BY <2>2, <2>3
<1>11. PICK e : e = Ended'
  OBVIOUS
<1>12. /\ Line(Queued, Popped, e) /\ Popped \in Nat /\ e <= pos /\ e \in Nat
       /\ \A i \in 1 .. Len(Queued) : Queued[i].age <= latency
       /\ Fresh = <<>> => /\ Len(Queued) = Len(pending)
                          /\ \A i \in 1 .. Len(Queued) : Queued[i].age = pending[i].age + 1
  BY <1>1, <1>10, <1>11, QueuedIs, Zenon
<1>13. /\ ListInv' /\ GotInv' /\ Line(pending', Popped', e)
       /\ \A i \in 1 .. Len(pending') : pending'[i].age < latency
       /\ \A i \in 1 .. Len(pending') : \E j \in 1 .. Len(Queued) : pending'[i] = Queued[j]
  <2>1. \/ /\ Queued # <<>> /\ got' = Head(Queued).item /\ pending' = Tail(Queued) /\ FifoPop
        \/ /\ Queued # <<>> => Head(Queued).age < latency
           /\ pending' = Queued
           /\ UNCHANGED <<got, fifoVars>>
    BY <1>2, Zenon
  <2>2. pos' = pos /\ latency' = latency
    BY <1>1, Zenon
  <2>. QED
    BY <1>1, <1>12, <2>1, <2>2, EdgePops, Zenon
<1>14. ConfigInv'
  <2>1. quiet' \in 0 .. LLOCK
    BY <1>2, <1>4
  <2>2. axi' = [tvalid |-> axi'.tvalid, tdata |-> axi'.tdata,
                tkeep |-> axi'.tkeep, tlast |-> axi'.tlast]
    BY <1>5, Zenon
  <2>3. axi'.tlast \in BOOLEAN /\ axi'.tkeep \subseteq 1 .. 8
    BY <1>3, <1>6, Zenon DEF ConfigInv
  <2>. QED
    BY <1>1, <1>3, <1>6, <1>7, <1>9, <1>10, <2>1, <2>2, <2>3, Zenon DEF ConfigInv
<1>15. HeldInv' /\ PlaceInv' /\ EndInv' /\ AllCompared'
  BY <1>1, <1>3, <1>9, Zenon DEF HeldInv, PlaceInv, EndInv, AllCompared
<1>16. PacketInv'
  BY <1>1, <1>3, KeepPacket, Zenon
<1>17. BeatInv'
  BY <1>8, Zenon DEF BeatInv
<1>18. PendInv'
  BY <1>1, <1>9, <1>11, <1>13, Zenon DEF PendInv, Line, Waiter, Expected
<1>19. AgeInv'
  <2>1. flat = <<>> => pending' = <<>>
    <3>1. ASSUME flat = <<>> PROVE Len(Queued) = 0
      <4>1. ~Waiting /\ pending = <<>>
        BY <1>3, <1>9, <3>1, Zenon DEF BeatInv, AgeInv
      <4>2. Len(Queued) = Len(pending)
        BY <1>10, <1>12, <4>1, Zenon
      <4>. QED
        BY <4>1, <4>2
    <3>2. pending' \in Seq(Waiter)
      BY <1>13, Zenon DEF Line
    <3>3. ASSUME flat = <<>> PROVE \A i \in 1 .. Len(pending') : FALSE
      <4>1. \A j \in 1 .. Len(Queued) : FALSE
        BY <3>1, <3>3
      <4>. QED
        BY <1>13, <4>1, Zenon
    <3>. QED
      BY <3>2, <3>3
  <2>2. ASSUME flat # <<>>, flat_idx >= Len(flat), NEW j \in 1 .. Len(Queued)
        PROVE  Queued[j].age >= GAP - gap
    <3>1. CASE Waiting
      <4>1. gap = GAP
        BY <1>3, <2>2, <3>1, Zenon DEF AgeInv
      <4>2. Queued[j].age \in Nat
        BY <1>12, LineIs, Zenon
      <4>. QED
        BY <1>4, <4>1, <4>2
    <3>2. CASE ~Waiting
      <4>1. ~axi.tvalid
        BY <1>1, <3>2, Zenon DEF Waiting
      <4>2. Older(GAP - 1 - gap)
        BY <1>1, <1>3, <2>2, <4>1, Zenon DEF AgeInv
      <4>3. Len(Queued) = Len(pending) /\ Queued[j].age = pending[j].age + 1
        BY <1>10, <1>12, <3>2, Zenon
      <4>4. pending[j].age \in Nat /\ pending[j].age >= GAP - 1 - gap
        BY <1>3, <4>2, <4>3, Ages, Zenon DEF Older
      <4>. QED
        BY <1>4, <4>3, <4>4
    <3>. QED
      BY <3>1, <3>2
  <2>3. flat # <<>> /\ flat_idx >= Len(flat) =>
           \A i \in 1 .. Len(pending') : pending'[i].age >= GAP - gap
    BY <1>13, <2>2, Zenon
  <2>4. /\ pc' = "idle" => GAP - gap = GAP
        /\ pc' = "clock" => GAP - 1 - gap' = GAP - gap
        /\ pc' \in {"idle", "read"} => pc' = "idle"
    <3>1. pc' = "idle" => GAP - gap = GAP
      BY <1>4, <1>7
    <3>2. ASSUME pc' = "clock" PROVE GAP - 1 - gap' = GAP - gap
      <4>1. gap' = gap - 1 /\ gap \in Nat /\ GAP \in Nat
        BY <1>4, <1>7, <3>2
      <4>. QED
        BY <4>1, GapLeft, Zenon
    <3>3. pc' \in {"idle", "read"} => pc' = "idle"
      BY <1>9
    <3>. QED
      BY <3>1, <3>2, <3>3, Zenon
  <2>5. flat # <<>> /\ flat_idx >= Len(flat) =>
           /\ pc' \in {"idle", "read"} => Older(GAP)'
           /\ pc' = "clock" => Older(GAP - 1 - gap)'
    BY <2>3, <2>4, Zenon DEF Older
  <2>. QED
    BY <1>1, <1>8, <1>9, <2>1, <2>5, Zenon DEF AgeInv
<1>. QED
  BY <1>10, <1>13, <1>14, <1>15, <1>16, <1>17, <1>18, <1>19, Zenon DEF FeedInv

-----------------------------------------------------------------------------
(* The bench starts in order: nothing read, sent or expected.               *)
LEMMA InitFeed == Init => FeedInv
<1>. SUFFICES ASSUME Init PROVE FeedInv
  OBVIOUS
<1>1. /\ log \in Logs /\ zeroEnd \in BOOLEAN /\ latency \in Latencies /\ stalls \in BOOLEAN
      /\ pos = 0 /\ eof = FALSE /\ seq = 0 /\ msgs = <<>>
      /\ flat = <<>> /\ flat_l = 0 /\ flat_idx = 0
      /\ pc = "read" /\ left = 1 /\ caller = "tb_init"
      /\ axi = NoBeat /\ gap = 0 /\ ready = TRUE
      /\ rx = <<>> /\ rxLast = TRUE /\ start = 20 /\ num = 0
      /\ pending = <<>> /\ got = NULL /\ quiet = 4 /\ FifoInit
  BY Zenon DEF Init
<1>2. Len(log) \in Nat /\ MSG_CNT_MAX \in Nat /\ MSG_CNT_MAX > 1 /\ log \in Seq(ItchLen)
  BY <1>1, FeedAssumption
<1>3. ConfigInv
  <2>1. /\ pos \in 0 .. Len(log) /\ left \in 0 .. MSG_CNT_MAX - 1
        /\ gap \in 0 .. GAP /\ quiet \in 0 .. LLOCK
    BY <1>1, <1>2 DEF GAP, LLOCK
  <2>2. /\ pc \in {"idle", "read", "beat", "clock", "end", "over"} /\ caller \in {"tb_init", "tb"}
        /\ eof \in BOOLEAN /\ ready \in BOOLEAN /\ rxLast \in BOOLEAN
        /\ axi.tvalid \in BOOLEAN /\ axi.tlast \in BOOLEAN /\ axi.tkeep \subseteq 1 .. 8
    BY <1>1, BeatTypes
  <2>3. axi = [tvalid |-> axi.tvalid, tdata |-> axi.tdata,
               tkeep |-> axi.tkeep, tlast |-> axi.tlast]
    BY <1>1, BeatTypes, Zenon
  <2>. QED
    BY <1>1, <2>1, <2>2, <2>3, Zenon DEF ConfigInv
<1>4. /\ ~Waiting /\ Running /\ Held = 0 /\ First = 0 /\ Ended = 0
  BY <1>1 DEF Waiting, Running, Held, First, Ended
<1>5. HeldInv
  BY <1>1, <1>2 DEF HeldInv
<1>6. order = <<>> /\ Len(order) = 0 /\ popped = NULL /\ FifoInv
  BY <1>1, InitInv DEF FifoInit
<1>7. Popped = 0
  <2>1. 0 - 0 = 0
    OBVIOUS
  <2>. QED
    BY <1>1, <1>6, <2>1, Zenon DEF Popped
<1>8. ListInv
  BY <1>1, <1>6 DEF ListInv
<1>9. PacketInv /\ PlaceInv /\ BeatInv /\ DutInv /\ EndInv /\ AgeInv
  BY <1>1, <1>4 DEF PacketInv, PlaceInv, BeatInv, DutInv, EndInv, AgeInv, Waiting
<1>10. PendInv
  BY <1>1, <1>4, <1>7 DEF PendInv
<1>11. GotInv
  BY <1>1, <1>6, <1>7 DEF GotInv
<1>12. PacketsWhole /\ AllCompared
  BY <1>1 DEF PacketsWhole, AllCompared
<1>. QED
  BY <1>3, <1>5, <1>8, <1>9, <1>10, <1>11, <1>12, Zenon DEF FeedInv

(* Every step of the bench and of the design keeps it.                      *)
LEMMA FeedStep == FeedInv /\ [Next]_vars => FeedInv'
<1>. SUFFICES ASSUME FeedInv, [Next]_vars PROVE FeedInv'
  OBVIOUS
<1>1. CASE ReadMsg
  BY <1>1, ReadMsgInv, Zenon
<1>2. CASE NoMsg
  BY <1>2, NoMsgInv, Zenon
<1>3. CASE FinishPacket
  BY <1>3, FinishPacketInv, Zenon
<1>4. CASE TbNotReady
  BY <1>4, TbNotReadyInv, Zenon
<1>5. CASE TbNoData
  BY <1>5, TbNoDataInv, Zenon
<1>6. CASE TbNewPacket
  BY <1>6, TbNewPacketInv, Zenon
<1>7. CASE TbSamePacket
  BY <1>7, TbSamePacketInv, Zenon
<1>8. CASE Beat
  BY <1>8, BeatMoves, Zenon
<1>9. CASE BeatOfNothing
  BY <1>9, BeatOfNothingInv, Zenon
<1>10. CASE Posedge
  BY <1>10, PosedgeInv, Zenon
<1>11. CASE FreeNode
  BY <1>11, FreeNodeInv, Zenon
<1>12. CASE FreeRest
  BY <1>12, FreeRestInv, Zenon
<1>13. CASE UNCHANGED vars
  BY <1>13, StutterInv, Zenon
<1>. QED
  BY <1>1, <1>2, <1>3, <1>4, <1>5, <1>6, <1>7, <1>8, <1>9, <1>10, <1>11, <1>12, <1>13, Zenon
     DEF Next, Over

(* The order the bench keeps between the log, the packet, the wires, the    *)
(* decoder and the list, through every call of $tb, $tb_itch and $tb_end.   *)
THEOREM FeedInOrder == Spec => []FeedInv
<1>. QED
  BY InitFeed, FeedStep, PTL DEF Spec

-----------------------------------------------------------------------------
(* The indices, counts and states of the bench stay in their ranges; above  *)
(* all moldudp64_add_msg never meets a full packet.                         *)
THEOREM TypesHold == Spec => []TypeOK
<1>1. FeedInv => TypeOK
  <2>. SUFFICES ASSUME FeedInv PROVE TypeOK
    OBVIOUS
  <2>1. ConfigInv /\ HeldInv /\ ListInv /\ PacketInv /\ PlaceInv
    BY Zenon DEF FeedInv
  <2>2. FifoTypeOK
    BY <2>1, Zenon DEF ListInv, FifoInv
  <2>3. /\ seq \in Nat /\ Len(msgs) \in Nat /\ seq + Len(msgs) = pos
        /\ pos \in 0 .. Len(log) /\ left \in 0 .. MSG_CNT_MAX - 1
        /\ pc = "read" => left + Len(msgs) < MSG_CNT_MAX
        /\ pc # "read" => Len(msgs) = 0
        /\ Len(log) \in Nat /\ MSG_CNT_MAX \in Nat /\ MSG_CNT_MAX > 1
    <3>1. /\ seq \in Nat /\ seq + Len(msgs) = pos /\ msgs \in Seq(1 .. Len(log))
          /\ pos \in 0 .. Len(log) /\ left \in 0 .. MSG_CNT_MAX - 1
          /\ pc = "read" => left + Len(msgs) < MSG_CNT_MAX
          /\ pc # "read" => msgs = <<>>
          /\ Len(log) \in Nat /\ MSG_CNT_MAX \in Nat /\ MSG_CNT_MAX > 1
      BY <2>1, LogIs, FeedAssumption, Zenon DEF ConfigInv, HeldInv
    <3>. QED
      BY <3>1
  <2>4. seq \in 0 .. Len(log) /\ Len(msgs) < MSG_CNT_MAX
    BY <2>3
  <2>5. flat_l = Len(flat) \/ pc = "over"
    BY <2>1 DEF PacketInv, PlaceInv
  <2>. QED
    BY <2>1, <2>2, <2>4, <2>5, Zenon DEF TypeOK, ConfigInv, HeldInv
<1>. QED
  BY <1>1, FeedInOrder, PTL

(* moldudp64_flatten and axis_next_64b together: from a packet's first beat *)
(* to its last, the design is given as many whole messages as the packet's  *)
(* count says, and not a byte more.                                         *)
THEOREM PacketsAreWhole == Spec => []PacketsWhole
<1>1. FeedInv => PacketsWhole
  BY Zenon DEF FeedInv
<1>. QED
  BY <1>1, FeedInOrder, PTL

(* What $tb_itch pops is the message the design announced.                  *)
THEOREM EveryCompareIsEqual == Spec => []ComparedEqual
<1>1. FeedInv => ComparedEqual
  BY Zenon DEF FeedInv, GotInv, ComparedEqual
<1>. QED
  BY <1>1, FeedInOrder, PTL

(* tv_create_packet numbers the messages of the log from 0, over packets of *)
(* any size.                                                                *)
THEOREM IdsCountTheLog == Spec => []IdsCount
<1>1. FeedInv => IdsCount
  <2>. SUFFICES ASSUME FeedInv, NEW i \in 1 .. Len(order)
                PROVE  Contents[i].id = <<SID, Contents[i].msg - 1>>
    BY DEF IdsCount
  <2>1. elem[order[i]] = Expected(Popped + i)
    BY Zenon DEF FeedInv, ListInv
  <2>2. Contents[i] = Expected(Popped + i)
    BY <2>1, Zenon DEF Contents
  <2>. QED
    BY <2>2 DEF Expected
<1>. QED
  BY <1>1, FeedInOrder, PTL

(* With a design no slower than the bench's gap after a packet, $tb_end     *)
(* finds the list empty: every message of the log has been compared.        *)
THEOREM EveryMessageIsCompared == Spec => []AllCompared
<1>1. FeedInv => AllCompared
  BY Zenon DEF FeedInv
<1>. QED
  BY <1>1, FeedInOrder, PTL

-----------------------------------------------------------------------------
(* What the bench does to its list is a push of a free node, a pop, a drop, *)
(* or nothing.                                                              *)
LEMMA BenchUsesFifo == FeedInv /\ [Next]_vars => [FifoNext]_fifoVars
<1>. SUFFICES ASSUME FeedInv, [Next]_vars PROVE FifoNext \/ UNCHANGED fifoVars
  OBVIOUS
<1>1. CASE ReadMsg
  <2>1. /\ pc = "read" /\ pos < Len(log)
        /\ FifoPush(Malloc, [msg |-> pos + 1, id |-> DebugId(seq, Len(msgs))])
    BY <1>1, Zenon DEF ReadMsg
  <2>2. ConfigInv /\ HeldInv /\ ListInv
    BY Zenon DEF FeedInv
  <2>3. Malloc \in Node \ mem
    BY <2>1, <2>2, MallocIs, Zenon
  <2>4. pos \in Nat /\ pos + 1 \in 1 .. Len(log) /\ seq + Len(msgs) = pos
    <3>1. pos \in 0 .. Len(log) /\ seq + Len(msgs) = pos /\ Len(log) \in Nat
      BY <2>2, LogIs, Zenon DEF ConfigInv, HeldInv
    <3>. QED
      BY <2>1, <3>1
  <2>5. [msg |-> pos + 1, id |-> DebugId(seq, Len(msgs))] = Expected(pos + 1)
    <3>1. (pos + 1) - 1 = seq + Len(msgs)
      BY <2>4
    <3>. QED
      BY <3>1, Zenon DEF DebugId, Expected
  <2>6. Expected(pos + 1) \in Item
    BY <2>2, <2>4, ItemIs, Zenon
  <2>. QED
    BY <2>1, <2>3, <2>5, <2>6, Zenon DEF FifoNext
<1>2. CASE Posedge
  BY <1>2, Zenon DEF Posedge, FifoNext
<1>3. CASE FreeNode
  BY <1>3, Zenon DEF FreeNode, FifoNext
<1>4. CASE NoMsg \/ FinishPacket \/ TbNotReady \/ TbNoData \/ TbNewPacket \/ TbSamePacket
  BY <1>4, Zenon DEF NoMsg, FinishPacket, TbNotReady, TbNoData, TbNewPacket, TbSamePacket
<1>5. CASE Beat \/ BeatOfNothing \/ FreeRest \/ UNCHANGED vars
  BY <1>5, Zenon DEF Beat, BeatOfNothing, FreeRest, vars
<1>. QED
  BY <1>1, <1>2, <1>3, <1>4, <1>5, Zenon DEF Next, Over

(* The bench uses its list as a queue, whatever else it does: messages come *)
(* out in the order in which they went in, once each.                       *)
THEOREM BenchListIsQueue == Spec => IsQueue
<1>1. Init => Queue!Init
  <2>. SUFFICES ASSUME Init PROVE Queue!Init
    OBVIOUS
  <2>1. FifoInit
    BY Zenon DEF Init
  <2>. QED
    BY <2>1 DEF FifoInit, Queue!Init, Contents
<1>2. FeedInv => FifoInv
  BY Zenon DEF FeedInv, ListInv
<1>3. FeedInv /\ [Next]_vars => [Queue!Next]_<<Contents, popped>>
  BY <1>2, BenchUsesFifo, StepSimulates, Zenon
<1>. QED
  BY <1>1, <1>3, FeedInOrder, PTL DEF Spec, IsQueue, Queue!Spec
-----------------------------------------------------------------------------
(***************************************************************************)
(* The watchdog.  From one decoded message to the next there are at most    *)
(* twelve cycles: the gap, then nine beats, of a header and of the longest  *)
(* message.  From reset there are thirteen: four without a beat, then nine. *)
(***************************************************************************)
Reached == IF Waiting THEN flat_idx - 8 ELSE flat_idx   \* bytes the design has had
Through == flat # <<>> /\ flat_idx >= Len(flat) /\ ~Waiting
NoneYet == flat_idx = 0 \/ (Waiting /\ rxLast) \/ num = 0

QuietInv ==
    ~stalls /\ Running =>
        /\ Waiting /\ gap > 0 => flat_idx >= Len(flat)
        /\ pc = "clock" /\ ~Waiting => Through
        /\ ~NoneYet => start <= Reached
        /\ pending # <<>> => quiet <= 13 + pending[1].age
        /\ pending = <<>> /\ Through => quiet <= IF pc = "clock" THEN 2 - gap ELSE 3
        /\ pending = <<>> /\ ~Through /\ NoneYet => 8 * quiet <= 32 + Reached
        /\ pending = <<>> /\ ~Through /\ ~NoneYet => 8 * quiet <= Reached - start + 7

(* The messages of the packet that are decoded; the next one has begun, so  *)
(* that the design has had less than all of it.                             *)
Found == IF NoneYet THEN 0 ELSE num

LEMMA FoundIs ==
    ASSUME ConfigInv, HeldInv, PacketInv, PlaceInv, BeatInv, DutInv, flat # <<>>, ~Through
    PROVE  /\ Reached \in Nat /\ Reached < Len(flat)
           /\ Found \in Nat /\ Found <= Held
           /\ Found < Held => Off(log, First, Found + 1) > Reached
           /\ ~NoneYet => Found = num /\ start = Off(log, First, Found) /\ Found > 0
           /\ Waiting => Before = Found /\ (~NoneYet => From = start)
<1>1. /\ Held \in Nat /\ First \in Nat /\ Held >= 1 /\ First + Held <= Len(log)
      /\ Len(flat) \in Nat /\ flat_idx \in Nat /\ log \in Seq(ItchLen)
  BY PacketIs, LogIs, Zenon DEF PlaceInv
<1>2. CASE Waiting
  <2>1. /\ flat_idx >= 8 /\ flat_idx - 8 < Len(flat) /\ (rxLast <=> flat_idx = 8) /\ axi.tvalid
    BY <1>2, Zenon DEF BeatInv, Waiting
  <2>2. Reached = flat_idx - 8
    BY <1>2, Zenon DEF Reached
  <2>3. /\ Before \in Nat /\ Before <= Held
        /\ From = Off(log, First, Before)
        /\ Before < Held => Off(log, First, Before + 1) > flat_idx - 8
    BY <1>2, BeatComes, Zenon
  <2>4. Before = Found /\ (~NoneYet => From = start /\ Before = num /\ Before # 0)
    <3>1. flat_idx # 0
      BY <1>1, <2>1
    <3>2. CASE rxLast
      BY <1>2, <2>1, <3>2, Zenon DEF Before, Found, NoneYet
    <3>3. CASE ~rxLast
      BY <1>2, <2>1, <3>1, <3>3, Zenon DEF Before, From, Found, NoneYet
    <3>. QED
      BY <3>2, <3>3
  <2>5. flat_idx - 8 \in Nat
    BY <1>1, <2>1
  <2>6. Before # 0 => Before > 0
    BY <2>3
  <2>. QED
    BY <2>1, <2>2, <2>3, <2>4, <2>5, <2>6, Zenon
<1>3. CASE ~Waiting
  <2>1. Reached = flat_idx /\ ~(flat_idx >= Len(flat))
    BY <1>3, Zenon DEF Reached, Through
  <2>2. flat_idx < Len(flat) /\ Sent = flat_idx
    BY <1>1, <2>1 DEF Sent
  <2>3. CASE flat_idx = 0
    <3>1. NoneYet /\ Found = 0 /\ Reached = 0
      BY <2>1, <2>3, Zenon DEF NoneYet, Found
    <3>2. First + 1 <= Len(log)
      <4>. HIDE DEF First, Held
      <4>. QED
        BY <1>1
    <3>3. Off(log, First, 0 + 1) > 0 /\ 0 <= Held
      <4>1. Off(log, First, 1) \in Nat /\ Off(log, First, 1) >= 20
        BY <1>1, <3>2, Offsets, SMT
      <4>. HIDE DEF Held, First
      <4>. QED
        BY <1>1, <4>1
    <3>4. 0 \in Nat
      OBVIOUS
    <3>. QED
      BY <1>3, <2>2, <2>3, <3>1, <3>3, <3>4, Zenon
  <2>4. CASE flat_idx # 0
    <3>1. flat_idx > 0
      BY <1>1, <2>4
    <3>2. Decoded(flat_idx)
      BY <1>3, <2>2, <3>1, Zenon DEF DutInv
    <3>3. /\ num \in 0 .. Held /\ start = Off(log, First, num)
          /\ num < Held => Off(log, First, num + 1) > flat_idx
      BY <3>2, Zenon DEF Decoded
    <3>4. Found = num /\ (~NoneYet => num # 0)
      BY <1>3, <2>4, Zenon DEF Found, NoneYet
    <3>5. num \in Nat /\ num <= Held /\ (num # 0 => num > 0)
      <4>. HIDE DEF Held
      <4>. QED
        BY <1>1, <3>3
    <3>. QED
      BY <1>1, <1>3, <2>1, <2>2, <3>3, <3>4, <3>5, Zenon
  <2>. QED
    BY <2>3, <2>4
<1>. QED
  BY <1>2, <1>3

LEMMA NotFar ==
    ASSUME ConfigInv, HeldInv, PacketInv, PlaceInv, BeatInv, DutInv, flat # <<>>, ~Through,
           ~NoneYet => start <= Reached
    PROVE  /\ Found < Held
           /\ NoneYet => Reached < 72
           /\ ~NoneYet => Reached < start + 52 /\ start \in Nat
<1>1. /\ Held \in Nat /\ First \in Nat /\ Held >= 1 /\ First + Held <= Len(log)
      /\ Len(flat) = Off(log, First, Held) /\ Len(flat) \in Nat
      /\ log \in Seq(ItchLen) /\ Len(log) \in Nat
  BY PacketIs, LogIs, Zenon
<1>2. /\ Reached \in Nat /\ Reached < Len(flat)
      /\ Found \in Nat /\ Found <= Held
      /\ Found < Held => Off(log, First, Found + 1) > Reached
      /\ ~NoneYet => Found = num /\ start = Off(log, First, Found) /\ Found > 0
  BY FoundIs, Zenon
<1>3. Found < Held
  <2>1. ASSUME Found = Held PROVE FALSE
    <3>1. NoneYet => Found = 0
      BY Zenon DEF Found
    <3>2. ~NoneYet
      <4>. HIDE DEF Held, Found, NoneYet
      <4>. QED
        BY <1>1, <2>1, <3>1
    <3>3. start = Len(flat) /\ start <= Reached
      BY <1>1, <1>2, <2>1, <3>2, Zenon
    <3>. QED
      BY <1>1, <1>2, <3>3
  <2>. HIDE DEF Held, Found
  <2>. QED
    BY <1>1, <1>2, <2>1
<1>4. First + Found + 1 <= Len(log)
  <2>. HIDE DEF First, Held, Found
  <2>. QED
    BY <1>1, <1>2, <1>3
<1>5. /\ Off(log, First, Found) \in Nat /\ log[First + Found + 1] \in 12 .. 50
      /\ Off(log, First, Found + 1) = Off(log, First, Found) + 2 + log[First + Found + 1]
  BY <1>1, <1>2, <1>4, NextOff, Zenon
<1>6. Reached < Off(log, First, Found) + 52
  <2>. DEFINE o == Off(log, First, Found)
              p == Off(log, First, Found + 1)
              w == log[First + Found + 1]
  <2>1. o \in Nat /\ w \in 12 .. 50 /\ p = o + 2 + w /\ p > Reached
    BY <1>2, <1>3, <1>5, Zenon
  <2>. HIDE DEF o, p, w
  <2>2. Reached < o + 52
    BY <1>2, <2>1
  <2>. QED
    BY <2>2, Zenon DEF o
<1>7. ASSUME NoneYet PROVE Reached < 72
  <2>1. Found = 0
    BY <1>7, Zenon DEF Found
  <2>2. Off(log, First, 0) = 20
    <3>1. First + 0 <= Len(log) /\ 0 \in Nat
      <4>. HIDE DEF First, Held
      <4>. QED
        BY <1>1
    <3>. QED
      BY <1>1, <3>1, Offsets, Zenon
  <2>. QED
    BY <1>2, <1>6, <2>1, <2>2
<1>. QED
  BY <1>2, <1>3, <1>5, <1>6, <1>7, Zenon

(* Within twelve cycles of the last message, thirteen of reset.             *)
LEMMA NotQuietLong ==
    ASSUME FeedInv, QuietInv, Running, ~stalls, pending = <<>>
    PROVE  quiet <= 12
<1>0. ConfigInv /\ HeldInv /\ PacketInv /\ PlaceInv /\ BeatInv /\ DutInv
  BY Zenon DEF FeedInv
<1>1. quiet \in Nat /\ gap \in Nat
  BY <1>0 DEF ConfigInv, LLOCK, GAP
<1>2. /\ ~NoneYet => start <= Reached
      /\ Through => quiet <= IF pc = "clock" THEN 2 - gap ELSE 3
      /\ ~Through /\ NoneYet => 8 * quiet <= 32 + Reached
      /\ ~Through /\ ~NoneYet => 8 * quiet <= Reached - start + 7
  BY Zenon DEF QuietInv
<1>3. CASE Through
  <2>1. quiet <= IF pc = "clock" THEN 2 - gap ELSE 3
    BY <1>2, <1>3, Zenon
  <2>. QED
    BY <1>1, <2>1
<1>4. CASE ~Through /\ flat = <<>>
  <2>1. flat_idx = 0
    BY <1>0, <1>4 DEF PlaceInv, Running
  <2>2. ~Waiting
    BY <1>0, <1>4, Zenon DEF BeatInv
  <2>3. NoneYet /\ Reached = 0
    BY <2>1, <2>2, Zenon DEF NoneYet, Reached
  <2>4. 8 * quiet <= 32 + 0
    BY <1>2, <1>4, <2>3, Zenon
  <2>. QED
    BY <1>1, <2>4
<1>5. CASE ~Through /\ flat # <<>>
  <2>1. Reached \in Nat
    BY <1>0, <1>5, FoundIs, Zenon
  <2>2. /\ NoneYet => Reached < 72
        /\ ~NoneYet => Reached < start + 52 /\ start \in Nat
    BY <1>0, <1>2, <1>5, NotFar, Zenon
  <2>3. CASE NoneYet
    <3>1. Reached < 72 /\ 8 * quiet <= 32 + Reached
      BY <1>2, <1>5, <2>2, <2>3, Zenon
    <3>. HIDE DEF Reached
    <3>. QED
      BY <1>1, <2>1, <3>1
  <2>4. CASE ~NoneYet
    <3>1. Reached < start + 52 /\ start \in Nat /\ 8 * quiet <= Reached - start + 7
      BY <1>2, <1>5, <2>2, <2>4, Zenon
    <3>. HIDE DEF Reached
    <3>. QED
      BY <1>1, <2>1, <3>1
  <2>. QED
    BY <2>3, <2>4
<1>. QED
  BY <1>3, <1>4, <1>5

(* A call of the bench that touches neither packet nor design.              *)
LEMMA KeepQuiet ==
    ASSUME QuietInv, ~Waiting, ~Waiting', pc # "clock", pc' # "clock", Running' => Running,
           UNCHANGED <<stalls, flat, flat_idx, rxLast, start, num, pending, quiet>>
    PROVE  QuietInv'
<1>1. /\ Through' = Through /\ NoneYet' = NoneYet /\ Reached' = Reached
  BY Zenon DEF Through, NoneYet, Reached
<1>2. CASE ~stalls /\ Running
  <2>1. /\ ~NoneYet => start <= Reached
        /\ pending # <<>> => quiet <= 13 + pending[1].age
        /\ pending = <<>> /\ Through => quiet <= 3
        /\ pending = <<>> /\ ~Through /\ NoneYet => 8 * quiet <= 32 + Reached
        /\ pending = <<>> /\ ~Through /\ ~NoneYet => 8 * quiet <= Reached - start + 7
    BY <1>2, Zenon DEF QuietInv
  <2>2. UNCHANGED <<stalls, flat, flat_idx, rxLast, start, num, pending, quiet>>
    OBVIOUS
  <2>3. /\ ~NoneYet' => start' <= Reached'
        /\ pending' # <<>> => quiet' <= 13 + pending'[1].age
        /\ pending' = <<>> /\ Through' => quiet' <= 3
        /\ pending' = <<>> /\ ~Through' /\ NoneYet' => 8 * quiet' <= 32 + Reached'
        /\ pending' = <<>> /\ ~Through' /\ ~NoneYet' => 8 * quiet' <= Reached' - start' + 7
    BY <1>1, <2>1, <2>2, Zenon
  <2>. QED
    BY <2>3, Zenon DEF QuietInv
<1>3. CASE stalls \/ ~Running
  BY <1>3, Zenon DEF QuietInv
<1>. QED
  BY <1>2, <1>3

NotEmpty == flat # <<>> => ~(0 >= Len(flat))

LEMMA HasLength == FeedInv => NotEmpty
<1>. SUFFICES ASSUME FeedInv, flat # <<>> PROVE ~(0 >= Len(flat))
  BY Zenon DEF NotEmpty
<1>1. ConfigInv /\ HeldInv /\ PacketInv
  BY Zenon DEF FeedInv
<1>2. Len(flat) \in Nat /\ Len(flat) >= 34
  BY <1>1, PacketIs, Zenon
<1>. QED
  BY <1>2

(* A packet is over, and the next one is made.                              *)
LEMMA FinishQuiet ==
    ASSUME FeedInv, QuietInv, FinishPacket
    PROVE  QuietInv'
<1>0. ConfigInv /\ PlaceInv /\ AgeInv /\ BeatInv
  BY Zenon DEF FeedInv
<1>1. /\ pc = "read" /\ flat_idx' = 0 /\ pc' \in {"idle", "beat"} /\ caller \in {"tb_init", "tb"}
      /\ UNCHANGED <<stalls, pending, quiet>>
  BY <1>0 DEF FinishPacket, cfgVars, dutVars, ConfigInv
<1>2. /\ Running /\ ~Waiting /\ ~Waiting' /\ pc # "clock" /\ pc' # "clock"
  BY <1>1 DEF Running, Waiting
<1>3. NoneYet' /\ Reached' = 0
  BY <1>1, <1>2, Zenon DEF NoneYet, Reached
<1>4. ~Through'
  <2>1. FeedInv'
    BY FinishPacketInv, Zenon
  <2>2. NotEmpty'
    BY <2>1, HasLength, PTL
  <2>. QED
    BY <1>1, <2>2, Zenon DEF Through, NotEmpty
<1>5. SUFFICES ASSUME ~stalls, Running'
               PROVE  /\ pending # <<>> => quiet <= 13 + pending[1].age
                      /\ pending = <<>> => 8 * quiet <= 32 + 0
  BY <1>1, <1>2, <1>3, <1>4, Zenon DEF QuietInv
<1>6. pending # <<>> => quiet <= 13 + pending[1].age
  BY <1>2, <1>5, Zenon DEF QuietInv
<1>7. ASSUME pending = <<>> PROVE 8 * quiet <= 32 + 0
  <2>1. quiet \in Nat
    BY <1>0 DEF ConfigInv, LLOCK
  <2>2. CASE caller = "tb_init"
    <3>1. flat = <<>>
      BY <1>0, <1>1, <2>2, Zenon DEF PlaceInv
    <3>2. flat_idx = 0
      BY <1>0, <1>1, <3>1 DEF PlaceInv
    <3>3. NoneYet /\ ~Through /\ Reached = 0
      BY <1>2, <3>1, <3>2, Zenon DEF NoneYet, Through, Reached
    <3>. QED
      BY <1>2, <1>5, <1>7, <3>3, Zenon DEF QuietInv
  <2>3. CASE caller = "tb"
    <3>1. Through
      BY <1>0, <1>1, <1>2, <2>3, Zenon DEF PlaceInv, Through
    <3>2. quiet <= 3
      BY <1>2, <1>5, <1>7, <3>1, Zenon DEF QuietInv
    <3>. QED
      BY <2>1, <3>2
  <2>. QED
    BY <1>1, <2>2, <2>3
<1>. QED
  BY <1>6, <1>7

(* A beat is on its way.                                                    *)
LEMMA BeatQuiet ==
    ASSUME FeedInv, QuietInv, Beat
    PROVE  QuietInv'
<1>0. ConfigInv /\ HeldInv /\ PacketInv /\ PlaceInv /\ BeatInv /\ DutInv
  BY Zenon DEF FeedInv
<1>1. /\ pc = "beat" /\ flat # <<>> /\ flat_idx' = flat_idx + 8 /\ pc' = "clock"
      /\ axi' = AxisNext64b /\ gap' = (IF AxisLast THEN GAP ELSE 0)
      /\ UNCHANGED <<stalls, flat, rxLast, start, num, pending, quiet>>
  BY Zenon DEF Beat, cfgVars, dutVars
<1>2. axi'.tvalid = TRUE /\ axi'.tlast = AxisLast
  BY <1>1 DEF AxisNext64b
<1>3. /\ Running /\ Running' /\ ~Waiting /\ pc # "clock"
      /\ flat_idx = 0 \/ flat_idx < Len(flat)
  BY <1>0, <1>1 DEF Running, Waiting, PlaceInv
<1>4. Waiting'
  BY <1>1, <1>2, Zenon DEF Waiting
<1>5. flat_idx \in Nat /\ Len(flat) \in Nat /\ Len(flat) >= 34
  BY <1>0, <1>1, PacketIs, Zenon DEF PlaceInv
<1>6. ~Through /\ ~Through'
  <2>1. ~(flat_idx >= Len(flat))
    BY <1>3, <1>5
  <2>. QED
    BY <1>4, <2>1, Zenon DEF Through
<1>7. Reached' = Reached
  <2>1. Reached = flat_idx /\ Reached' = flat_idx' - 8
    BY <1>3, <1>4, Zenon DEF Reached
  <2>. QED
    BY <1>1, <1>5, <2>1
<1>8. NoneYet' <=> NoneYet
  <2>1. flat_idx' # 0 /\ (flat_idx # 0 => flat_idx > 0)
    BY <1>1, <1>5
  <2>2. CASE flat_idx = 0
    <3>1. rxLast
      BY <1>0, <1>1, <2>2 DEF DutInv
    <3>. QED
      BY <1>1, <1>4, <2>2, <3>1, Zenon DEF NoneYet
  <2>3. CASE flat_idx # 0
    <3>1. ~rxLast
      <4>1. ~(flat_idx >= Len(flat))
        BY <1>3, <1>5, <2>3
      <4>. QED
        BY <1>0, <1>1, <1>3, <2>1, <2>3, <4>1, Zenon DEF DutInv
    <3>. QED
      BY <1>1, <1>3, <2>1, <2>3, <3>1, Zenon DEF NoneYet
  <2>. QED
    BY <2>2, <2>3
<1>9. gap' > 0 => flat_idx' >= Len(flat')
  <2>1. FeedInv'
    BY BeatMoves, Zenon
  <2>2. BeatInv'
    BY <2>1, Zenon DEF FeedInv
  <2>3. axi'.tlast <=> flat_idx' >= Len(flat')
    BY <1>4, <2>2, Zenon DEF BeatInv
  <2>4. gap' > 0 => AxisLast
    BY <1>1
  <2>. QED
    BY <1>2, <2>3, <2>4, Zenon
<1>. QED
  BY <1>1, <1>3, <1>4, <1>6, <1>7, <1>8, <1>9, Zenon DEF QuietInv

(* The oldest message that waits, after an edge without an announcement.    *)
LEMMA OldestIs ==
    ASSUME PendInv, NEW n, Fresh = <<>> \/ (Fresh = <<Newest(n)>> /\ Newest(n) \in Waiter)
    PROVE  /\ pending = <<>> => Queued = Fresh
           /\ pending # <<>> => /\ pending[1].age \in Nat
                                /\ Queued # <<>> /\ Queued[1].age = pending[1].age + 1
<1>. DEFINE s == Aged(pending)
            k == Len(pending)
<1>1. pending \in Seq(Waiter)
  BY Zenon DEF PendInv, Waiter
<1>2. k \in Nat /\ \A i \in 1 .. k : pending[i] \in Waiter
  BY <1>1, ElementOfSeq
<1>3. \A x \in Waiter : /\ [x EXCEPT !.age = @ + 1] \in Waiter
                        /\ [x EXCEPT !.age = @ + 1].age = x.age + 1 /\ x.age \in Nat
  BY DEF Waiter
<1>4. s \in [1 .. k -> Waiter]
  BY <1>2, <1>3, Zenon DEF Aged
<1>5. s \in Seq(Waiter) /\ Len(s) = k /\ Fresh \in Seq(Waiter)
  <2>1. <<>> \in Seq(Waiter) /\ \A x \in Waiter : <<x>> \in Seq(Waiter)
    OBVIOUS
  <2>2. Fresh \in Seq(Waiter)
    BY <2>1, Zenon
  <2>. HIDE DEF s
  <2>. QED
    BY <1>2, <1>4, <2>2
<1>6. Queued = s \o Fresh
  BY Zenon DEF Queued, Aged
<1>7. ASSUME pending # <<>>
      PROVE  pending[1].age \in Nat /\ Queued # <<>> /\ Queued[1].age = pending[1].age + 1
  <2>1. k >= 1 /\ 1 \in 1 .. k
    BY <1>1, <1>7
  <2>2. s[1].age = pending[1].age + 1 /\ pending[1].age \in Nat
    BY <1>2, <1>3, <2>1, Zenon DEF Aged
  <2>. HIDE DEF s
  <2>3. (s \o Fresh)[1] = s[1] /\ s \o Fresh # <<>>
    BY <1>5, <2>1
  <2>. QED
    BY <1>6, <2>2, <2>3, Zenon
<1>8. ASSUME pending = <<>> PROVE Queued = Fresh
  <2>1. s = <<>>
    <3>1. Len(s) = 0
      BY <1>5, <1>8
    <3>. HIDE DEF s
    <3>. QED
      BY <1>5, <3>1
  <2>. HIDE DEF s
  <2>. QED
    BY <1>5, <1>6, <2>1
<1>. QED
  BY <1>7, <1>8

AgesNat == pending # <<>> => pending[1].age \in Nat

LEMMA HasAges == FeedInv => AgesNat
<1>. SUFFICES ASSUME FeedInv, pending # <<>> PROVE pending[1].age \in Nat
  BY Zenon DEF AgesNat
<1>1. PendInv
  BY Zenon DEF FeedInv
<1>2. 1 \in 1 .. Len(pending)
  <2>1. pending \in Seq([item : Item, age : Nat])
    BY <1>1, Zenon DEF PendInv
  <2>. QED
    BY <2>1
<1>. QED
  BY <1>1, <1>2, Ages, Zenon

LEMMA Waits == ASSUME FeedInv, Posedge PROVE ~Waiting' /\ Running /\ Running'
<1>1. /\ axi' = [axi EXCEPT !.tvalid = axi.tvalid /\ gap = 0]
      /\ pc' = (IF gap > 0 THEN "clock" ELSE "idle") /\ pc = "clock"
  BY Zenon DEF Posedge
<1>2. ConfigInv
  BY Zenon DEF FeedInv
<1>3. axi = [tvalid |-> axi.tvalid, tdata |-> axi.tdata,
             tkeep |-> axi.tkeep, tlast |-> axi.tlast]
  BY <1>2, Zenon DEF ConfigInv
<1>4. axi' = [tvalid |-> axi.tvalid /\ gap = 0, tdata |-> axi.tdata,
              tkeep |-> axi.tkeep, tlast |-> axi.tlast]
  BY <1>1, <1>3, Lowered, Zenon
<1>5. axi'.tvalid = (axi.tvalid /\ gap = 0)
  BY <1>4, Zenon
<1>6. gap \in Nat
  BY <1>2 DEF ConfigInv, GAP
<1>7. (pc' = "clock" => gap # 0) /\ pc' \in {"clock", "idle"}
  BY <1>1, <1>6
<1>8. ~Waiting'
  BY <1>5, <1>7, Zenon DEF Waiting
<1>. QED
  BY <1>1, <1>7, <1>8 DEF Running

(* What the decoder has after an edge.                                      *)
LEMMA EdgeFinds ==
    ASSUME FeedInv, Posedge, Waiting, QuietInv, ~stalls
    PROVE  /\ flat # <<>> /\ ~Through /\ flat_idx \in Nat /\ flat_idx >= 8
           /\ Reached = flat_idx - 8 /\ Before \in Nat
           /\ NoneYet => Before = 0
           /\ ~NoneYet => From = start /\ Before # 0
           /\ Before < Held
           /\ \/ Fresh = <<>> /\ num' = Before /\ start' = From
              \/ /\ Fresh = <<Newest(Ended)>> /\ Newest(Ended) \in Waiter
                 /\ num' = Before + 1 /\ start' <= flat_idx /\ start' \in Nat
           /\ flat_idx >= Len(flat) => Fresh # <<>>
<1>0. ConfigInv /\ HeldInv /\ PacketInv /\ PlaceInv /\ BeatInv /\ DutInv
  BY Zenon DEF FeedInv
<1>1. Decode /\ UNCHANGED <<log, seq, flat, flat_idx>> /\ pc = "clock" /\ axi.tvalid
  BY Zenon DEF Posedge, cfgVars, moldVars, flatVars, Waiting
<1>2. /\ flat # <<>> /\ flat_idx \in Nat /\ flat_idx >= 8 /\ Sent \in Nat /\ Sent <= flat_idx
      /\ (Sent = Len(flat) <=> flat_idx >= Len(flat))
      /\ Before \in Nat /\ Before <= Held /\ Ended = First + Before
      /\ Prefix(Sampled, flat, Sent)
      /\ Before < Held => Off(log, First, Before + 1) > flat_idx - 8
  BY <1>0, BeatComes, Zenon
<1>3. ~Through /\ Reached = flat_idx - 8 /\ Running
  BY <1>1 DEF Through, Reached, Running
<1>4. /\ Found \in Nat /\ Before = Found
      /\ ~NoneYet => Found = num /\ Found > 0 /\ From = start
  BY <1>0, <1>2, <1>3, FoundIs, Zenon
<1>5. ~NoneYet => start <= Reached
  BY <1>3, Zenon DEF QuietInv
<1>6. Before < Held
  BY <1>0, <1>2, <1>3, <1>4, <1>5, NotFar, Zenon
<1>7. NoneYet => Before = 0
  BY <1>4, Zenon DEF Found
<1>8. ~NoneYet => From = start /\ Before # 0
  BY <1>4
<1>9. /\ num' <= Held /\ num' \in Nat /\ start' = Off(log, First, num')
      /\ num' < Held => Off(log, First, num' + 1) > Sent
  BY <1>1, BeatDecoded, Zenon
<1>10. /\ \/ Fresh = <<>> /\ num' = Before /\ start' = From
          \/ /\ Fresh = <<Newest(Ended)>>
             /\ num' = Before + 1 /\ start' <= flat_idx
  <2>1. /\ start' = IF MsgEnds THEN From + 2 + MsgLen ELSE From
        /\ num' = IF MsgEnds THEN Before + 1 ELSE Before
    BY <1>1, Zenon DEF Decode
  <2>2. CASE MsgEnds
    <3>1. num' = Before + 1 /\ start' = From + 2 + MsgLen
      BY <2>1, <2>2, Zenon
    <3>2. From + 2 + MsgLen <= Sent
      BY <1>2, <2>2, Zenon DEF MsgEnds, Prefix, IsBytes
    <3>3. start' <= flat_idx
      <4>1. start' \in Nat
        <5>1. First + num' <= Len(log) /\ First \in Nat /\ log \in Seq(ItchLen)
          <6>1. Held \in Nat /\ First \in Nat /\ First + Held <= Len(log) /\ log \in Seq(ItchLen)
                /\ Len(log) \in Nat
            BY <1>0, <1>2, PacketIs, LogIs, Zenon
          <6>. HIDE DEF Held, First
          <6>. QED
            BY <1>9, <6>1
        <5>. QED
          BY <1>9, <5>1, Offsets, Zenon
      <4>2. start' <= Sent
        BY <3>1, <3>2, Zenon
      <4>. QED
        BY <1>2, <4>1, <4>2
    <3>4. Fresh # <<>>
      BY <2>2 DEF Fresh
    <3>5. Fresh = <<Newest(Ended)>>
      <4>1. ~Waiting'
        BY Waits, Zenon
      <4>. QED
        BY <1>1, <3>4, <4>1, EdgeWithBeat, Zenon
    <3>. QED
      BY <3>1, <3>3, <3>5
  <2>3. CASE ~MsgEnds
    BY <2>1, <2>3, Zenon DEF Fresh
  <2>. QED
    BY <2>2, <2>3
<1>11. start' \in Nat
  <2>1. FeedInv'
    BY PosedgeInv, Zenon
  <2>. QED
    BY <2>1, Zenon DEF FeedInv, DutInv
<1>12. Newest(Ended) \in Waiter \/ Fresh = <<>>
  <2>1. CASE Fresh = <<>>
    BY <2>1
  <2>2. CASE Fresh # <<>>
    <3>1. num' = Before + 1
      BY <1>10, <2>2
    <3>2. Ended + 1 \in 1 .. Len(log)
      <4>1. Held \in Nat /\ First \in Nat /\ First + Held <= Len(log) /\ Len(log) \in Nat
        BY <1>0, <1>2, PacketIs, LogIs, Zenon
      <4>. HIDE DEF Held, First, Ended, Before
      <4>. QED
        BY <1>2, <1>6, <4>1
    <3>3. Expected(Ended + 1) \in Item
      BY <1>0, <3>2, ItemIs, Zenon
    <3>. HIDE DEF Ended
    <3>. QED
      BY <3>3 DEF Newest, Waiter
  <2>. QED
    BY <2>1, <2>2
<1>13. ASSUME flat_idx >= Len(flat), Fresh = <<>> PROVE FALSE
  <2>1. Sent = Len(flat) /\ num' = Before
    BY <1>2, <1>10, <1>13
  <2>2. num' = Held
    BY <1>0, <1>2, <1>9, <2>1, AllDecoded, Zenon
  <2>. HIDE DEF Held, Before
  <2>3. Held \in Nat
    BY <1>9, <2>2
  <2>. QED
    BY <1>2, <1>6, <2>1, <2>2, <2>3
<1>14. Fresh # <<>> => Newest(Ended) \in Waiter
  BY <1>12, Zenon
<1>15. <<Newest(Ended)>> # <<>>
  OBVIOUS
<1>. QED
  BY <1>2, <1>3, <1>6, <1>7, <1>8, <1>10, <1>11, <1>13, <1>14, <1>15, Zenon

LEMMA OneMoreCycle ==
    ASSUME NEW q \in Nat, NEW r \in Nat, r <= q + 1, NEW a \in Nat, q <= 13 + a
    PROVE  r <= 13 + (a + 1)
  OBVIOUS

LEMMA CycleFits ==
    ASSUME NEW q \in Nat, NEW r \in Nat, r <= q + 1, NEW n \in Nat, NEW x \in Int,
           8 * q <= x + (n - 8)
    PROVE  8 * r <= x + n
  OBVIOUS

LEMMA CycleFitsToo ==
    ASSUME NEW q \in Nat, NEW r \in Nat, r <= q + 1, NEW n \in Nat, NEW s \in Nat,
           8 * q <= (n - 8) - s + 7
    PROVE  8 * r <= n - s + 7
  OBVIOUS

(* An edge announces the oldest message, or adds a cycle.                   *)
LEMMA EdgeQuiet ==
    ASSUME FeedInv, QuietInv, Posedge, ~stalls
    PROVE  QuietInv'
<1>0. /\ FeedInv' /\ ~Waiting' /\ Running /\ Running'
  BY PosedgeInv, Waits, Zenon
<1>1. /\ pc = "clock"
      /\ gap' = (IF gap > 0 THEN gap - 1 ELSE 0)
      /\ pc' = (IF gap > 0 THEN "clock" ELSE "idle")
      /\ UNCHANGED <<stalls, flat, flat_idx>>
      /\ \/ pending' = Tail(Queued) /\ quiet' = 0
         \/ pending' = Queued /\ quiet' = IF quiet < LLOCK THEN quiet + 1 ELSE LLOCK
  BY Zenon DEF Posedge, cfgVars, flatVars
<1>2. ConfigInv /\ PendInv /\ AgeInv /\ DutInv /\ GAP = 3 /\ LLOCK = 20
  BY Zenon DEF FeedInv, GAP, LLOCK
<1>3. /\ quiet \in 0 .. 20 /\ gap \in 0 .. 3 /\ quiet \in Nat /\ gap \in Nat
      /\ quiet' \in Nat /\ quiet' <= 20
  <2>1. quiet \in 0 .. LLOCK /\ gap \in 0 .. GAP
    BY <1>2, Zenon DEF ConfigInv
  <2>. QED
    BY <1>1, <1>2, <2>1
<1>4. AgesNat'
  BY <1>0, HasAges, PTL
<1>5. Waiting /\ gap > 0 => flat_idx >= Len(flat)
  BY <1>0, Zenon DEF QuietInv
<1>6. quiet' = 0 \/ (pending' = Queued /\ quiet' <= quiet + 1)
  BY <1>1, <1>2, <1>3
<1>7. Reached' = flat_idx /\ (NoneYet' <=> flat_idx = 0 \/ num' = 0)
      /\ (Through' <=> flat # <<>> /\ flat_idx >= Len(flat))
  BY <1>0, <1>1, Zenon DEF Reached, NoneYet, Through
<1>8. CASE Waiting
  <2>1. /\ flat # <<>> /\ ~Through /\ flat_idx \in Nat /\ flat_idx >= 8
        /\ Reached = flat_idx - 8 /\ Before \in Nat
        /\ NoneYet => Before = 0
        /\ ~NoneYet => From = start /\ Before # 0
        /\ \/ Fresh = <<>> /\ num' = Before /\ start' = From
           \/ /\ Fresh = <<Newest(Ended)>> /\ Newest(Ended) \in Waiter
              /\ num' = Before + 1 /\ start' <= flat_idx /\ start' \in Nat
        /\ flat_idx >= Len(flat) => Fresh # <<>>
    BY <1>8, EdgeFinds, Zenon
  <2>2. /\ ~NoneYet => start <= Reached
        /\ pending # <<>> => quiet <= 13 + pending[1].age
        /\ pending = <<>> /\ NoneYet => 8 * quiet <= 32 + Reached
        /\ pending = <<>> /\ ~NoneYet => 8 * quiet <= Reached - start + 7
    BY <1>0, <2>1, Zenon DEF QuietInv
  <2>3. flat_idx # 0 /\ start \in Nat
    BY <1>2, <2>1 DEF DutInv
  <2>4. ~NoneYet' => start' <= flat_idx /\ start' \in Nat
    <3>1. CASE Fresh = <<>>
      <4>1. num' = Before /\ start' = From
        BY <2>1, <3>1
      <4>2. ASSUME ~NoneYet' PROVE From = start /\ start <= flat_idx - 8
        BY <1>7, <2>1, <2>2, <4>1, <4>2, Zenon
      <4>. QED
        BY <2>1, <2>3, <4>1, <4>2
    <3>2. CASE Fresh # <<>>
      BY <2>1, <3>2, Zenon
    <3>. QED
      BY <3>1, <3>2
  <2>5. pc' = "clock" => flat_idx >= Len(flat) /\ gap = 3
    <3>1. pc' = "clock" => gap > 0
      BY <1>1, <1>3
    <3>. QED
      BY <1>2, <1>5, <1>8, <3>1, Zenon DEF AgeInv
  <2>6. CASE quiet' = 0
    <3>1. pending' # <<>> => 0 <= 13 + pending'[1].age
      <4>1. ASSUME pending' # <<>> PROVE pending'[1].age \in Nat
        BY <1>4, <4>1, Zenon DEF AgesNat
      <4>2. \A a \in Nat : 0 <= 13 + a
        OBVIOUS
      <4>. QED
        BY <4>1, <4>2, Zenon
    <3>2. 0 <= (IF pc' = "clock" THEN 2 - gap' ELSE 3)
      BY <1>1, <1>3, <2>5
    <3>3. 8 * 0 <= 32 + flat_idx /\ (~NoneYet' => 8 * 0 <= flat_idx - start' + 7)
      BY <2>1, <2>4
    <3>. QED
      BY <1>0, <1>1, <1>7, <2>1, <2>4, <2>5, <2>6, <3>1, <3>2, <3>3, Zenon DEF QuietInv
  <2>7. CASE pending' = Queued /\ quiet' <= quiet + 1
    <3>1. /\ pending = <<>> => Queued = Fresh
          /\ pending # <<>> => /\ pending[1].age \in Nat
                               /\ Queued # <<>> /\ Queued[1].age = pending[1].age + 1
      <4>1. Fresh = <<>> \/ (Fresh = <<Newest(Ended)>> /\ Newest(Ended) \in Waiter)
        BY <2>1, Zenon
      <4>. QED
        BY <1>2, <4>1, OldestIs, Zenon
    <3>2. CASE pending # <<>>
      <4>1. quiet' <= 13 + pending'[1].age /\ pending' # <<>>
        <5>1. /\ quiet <= 13 + pending[1].age /\ pending[1].age \in Nat
              /\ pending'[1].age = pending[1].age + 1 /\ pending' # <<>>
          BY <2>2, <2>7, <3>1, <3>2, Zenon
        <5>2. quiet' <= quiet + 1
          BY <2>7
        <5>3. quiet' <= 13 + (pending[1].age + 1)
          BY <1>3, <5>1, <5>2, OneMoreCycle, Zenon
        <5>. QED
          BY <5>1, <5>3, Zenon
      <4>. QED
        BY <1>0, <1>1, <1>7, <2>1, <2>4, <2>5, <4>1, Zenon DEF QuietInv
    <3>3. CASE pending = <<>> /\ Fresh # <<>>
      <4>1. pending' = <<Newest(Ended)>>
        BY <2>1, <2>7, <3>1, <3>3, Zenon
      <4>2. pending' # <<>> /\ pending'[1].age = 0
        BY <4>1 DEF Newest
      <4>3. quiet <= 12
        BY <1>0, <3>3, NotQuietLong, Zenon
      <4>4. quiet' <= 13 + pending'[1].age
        BY <1>3, <2>7, <4>2, <4>3
      <4>. QED
        BY <1>0, <1>1, <1>7, <2>1, <2>4, <2>5, <4>2, <4>4, Zenon DEF QuietInv
    <3>4. CASE pending = <<>> /\ Fresh = <<>>
      <4>1. pending' = <<>> /\ ~Through' /\ num' = Before /\ start' = From
        <5>1. num' = Before /\ start' = From
          BY <2>1, <3>4
        <5>. QED
          BY <1>7, <2>1, <2>7, <3>1, <3>4, <5>1, Zenon
      <4>2. NoneYet' <=> NoneYet
        BY <1>7, <2>1, <2>3, <4>1, Zenon
      <4>3. ASSUME NoneYet' PROVE 8 * quiet' <= 32 + flat_idx
        <5>1. 8 * quiet <= 32 + (flat_idx - 8)
          BY <2>1, <2>2, <3>4, <4>2, <4>3, Zenon
        <5>2. quiet' <= quiet + 1 /\ 32 \in Int
          BY <2>7
        <5>. QED
          BY <1>3, <2>1, <5>1, <5>2, CycleFits, Zenon
      <4>4. ASSUME ~NoneYet' PROVE 8 * quiet' <= flat_idx - start' + 7
        <5>1. 8 * quiet <= (flat_idx - 8) - start + 7 /\ start' = start
          BY <2>1, <2>2, <3>4, <4>1, <4>2, <4>4, Zenon
        <5>2. flat_idx \in Nat /\ quiet' <= quiet + 1
          BY <2>1, <2>7, Zenon
        <5>3. 8 * quiet' <= flat_idx - start + 7
          BY <1>3, <2>3, <5>1, <5>2, CycleFitsToo, Zenon
        <5>. QED
          BY <5>1, <5>3, Zenon
      <4>. QED
        BY <1>0, <1>1, <1>7, <2>1, <2>4, <2>5, <4>1, <4>3, <4>4, Zenon DEF QuietInv
    <3>. QED
      BY <3>2, <3>3, <3>4
  <2>. QED
    BY <1>6, <2>6, <2>7
<1>9. CASE ~Waiting
  <2>1. /\ Through
        /\ ~NoneYet => start <= Reached
        /\ pending # <<>> => quiet <= 13 + pending[1].age
        /\ pending = <<>> => quiet <= IF pc = "clock" THEN 2 - gap ELSE 3
    BY <1>0, <1>1, <1>9, Zenon DEF QuietInv
  <2>2. Fresh = <<>> /\ start' = start /\ num' = num
    <3>1. Decode /\ ~axi.tvalid
      BY <1>1, <1>9, Zenon DEF Posedge, Waiting
    <3>2. ~MsgEnds
      BY <3>1, Zenon DEF MsgEnds
    <3>. QED
      BY <3>1, <3>2, Zenon DEF Decode, Fresh, From, Before
  <2>3. /\ Through' /\ (~NoneYet' => start' <= Reached')
        /\ flat # <<>> /\ flat_idx >= Len(flat)
    <3>1. flat # <<>> /\ flat_idx >= Len(flat) /\ Through'
      BY <1>7, <2>1, Zenon DEF Through
    <3>2. Reached = flat_idx /\ (NoneYet <=> flat_idx = 0 \/ num = 0)
      BY <1>9, Zenon DEF Reached, NoneYet
    <3>. QED
      BY <1>7, <2>1, <2>2, <3>1, <3>2, Zenon
  <2>4. /\ pending = <<>> => Queued = <<>>
        /\ pending # <<>> => /\ pending[1].age \in Nat
                             /\ Queued # <<>> /\ Queued[1].age = pending[1].age + 1
    BY <1>2, <2>2, OldestIs, Zenon
  <2>5. pending' # <<>> => quiet' <= 13 + pending'[1].age
    <3>1. ASSUME pending' # <<>> PROVE pending'[1].age \in Nat
      BY <1>4, <3>1, Zenon DEF AgesNat
    <3>2. CASE quiet' = 0
      BY <3>1, <3>2
    <3>3. CASE pending' = Queued /\ quiet' <= quiet + 1
      <4>. SUFFICES ASSUME pending' # <<>> PROVE quiet' <= 13 + pending'[1].age
        OBVIOUS
      <4>1. pending # <<>>
        BY <2>4, <3>3, Zenon
      <4>2. /\ quiet <= 13 + pending[1].age /\ pending[1].age \in Nat
            /\ pending'[1].age = pending[1].age + 1 /\ quiet' <= quiet + 1
        BY <2>1, <2>4, <3>3, <4>1, Zenon
      <4>3. quiet' <= 13 + (pending[1].age + 1)
        BY <1>3, <4>2, OneMoreCycle, Zenon
      <4>. QED
        BY <4>2, <4>3, Zenon
    <3>. QED
      BY <1>6, <3>2, <3>3
  <2>6. pending' = <<>> => quiet' <= IF pc' = "clock" THEN 2 - gap' ELSE 3
    <3>1. CASE quiet' = 0
      BY <1>1, <1>3, <3>1
    <3>2. CASE pending' = Queued /\ quiet' <= quiet + 1
      <4>1. ASSUME pending' = <<>> PROVE quiet <= 2 - gap
        <5>1. pending = <<>>
          BY <2>4, <3>2, <4>1, Zenon
        <5>. QED
          BY <1>1, <2>1, <5>1, Zenon
      <4>. QED
        BY <1>1, <1>3, <3>2, <4>1
    <3>. QED
      BY <1>6, <3>1, <3>2
  <2>. QED
    BY <1>0, <1>1, <2>3, <2>5, <2>6, Zenon DEF QuietInv
<1>. QED
  BY <1>8, <1>9

-----------------------------------------------------------------------------
LEMMA QuietInit == Init => QuietInv
<1>. SUFFICES ASSUME Init PROVE QuietInv
  OBVIOUS
<1>1. /\ flat = <<>> /\ flat_idx = 0 /\ pc = "read" /\ pending = <<>> /\ quiet = 4
  BY Zenon DEF Init
<1>2. /\ NoneYet /\ ~Waiting /\ ~Through /\ Reached = 0
  BY <1>1 DEF NoneYet, Waiting, Through, Reached
<1>3. 8 * quiet <= 32 + 0
  BY <1>1
<1>. QED
  BY <1>1, <1>2, <1>3, Zenon DEF QuietInv

LEMMA QuietStep == FeedInv /\ QuietInv /\ [Next]_vars => QuietInv'
<1>. SUFFICES ASSUME FeedInv, QuietInv, [Next]_vars PROVE QuietInv'
  OBVIOUS
<1>1. ASSUME UNCHANGED <<stalls, flat, flat_idx, rxLast, start, num, pending, quiet>>,
             pc \in {"read", "idle"}, pc' \in {"read", "idle", "beat"}
      PROVE  QuietInv'
  <2>1. /\ ~Waiting /\ ~Waiting' /\ pc # "clock" /\ pc' # "clock" /\ Running
    BY <1>1 DEF Waiting, Running
  <2>. QED
    BY <1>1, <2>1, KeepQuiet, Zenon
<1>2. CASE ReadMsg \/ NoMsg
  <2>1. /\ UNCHANGED <<stalls, flat, flat_idx, rxLast, start, num, pending, quiet>>
        /\ pc = "read" /\ pc' = pc
    BY <1>2, Zenon DEF ReadMsg, NoMsg, cfgVars, flatVars, dutVars
  <2>. QED
    BY <1>1, <2>1
<1>3. CASE TbNewPacket \/ TbSamePacket
  <2>1. /\ UNCHANGED <<stalls, flat, flat_idx, rxLast, start, num, pending, quiet>>
        /\ pc = "idle" /\ (pc' = "read" \/ pc' = "beat")
    BY <1>3, Zenon DEF TbNewPacket, TbSamePacket, cfgVars, flatVars, dutVars
  <2>. QED
    BY <1>1, <2>1
<1>4. CASE FinishPacket
  BY <1>4, FinishQuiet, Zenon
<1>5. CASE Beat
  BY <1>5, BeatQuiet, Zenon
<1>6. CASE TbNotReady
  <2>1. stalls /\ stalls' = stalls
    BY <1>6, Zenon DEF TbNotReady, cfgVars
  <2>. QED
    BY <2>1, Zenon DEF QuietInv
<1>7. CASE Posedge
  <2>1. stalls' = stalls
    BY <1>7, Zenon DEF Posedge, cfgVars
  <2>2. stalls \/ ~stalls
    OBVIOUS
  <2>. QED
    BY <1>7, <2>1, <2>2, EdgeQuiet, Zenon DEF QuietInv
<1>8. CASE TbNoData \/ BeatOfNothing \/ FreeNode \/ FreeRest \/ Over
  <2>1. pc' \in {"end", "over"}
    BY <1>8 DEF TbNoData, BeatOfNothing, FreeNode, FreeRest, Over, vars
  <2>. QED
    BY <2>1, Zenon DEF QuietInv, Running
<1>9. CASE UNCHANGED vars
  BY <1>9, Zenon DEF QuietInv, Running, Waiting, Through, Reached, NoneYet, vars, cfgVars,
     flatVars, wireVars, dutVars
<1>. QED
  BY <1>2, <1>3, <1>4, <1>5, <1>6, <1>7, <1>8, <1>9, Zenon DEF Next

(* The cycles are counted only while the bench runs.                        *)
LEMMA QuietStops == [Next]_vars /\ ~Running' => stalls' = stalls /\ quiet' = quiet
<1>. SUFFICES ASSUME [Next]_vars, ~Running' PROVE stalls' = stalls /\ quiet' = quiet
  OBVIOUS
<1>1. CASE Posedge
  <2>1. pc' = "clock" \/ pc' = "idle"
    BY <1>1, Zenon DEF Posedge
  <2>. QED
    BY <2>1 DEF Running
<1>2. CASE ReadMsg \/ NoMsg \/ FinishPacket \/ TbNotReady \/ TbNoData \/ TbNewPacket
           \/ TbSamePacket \/ Beat \/ BeatOfNothing
  BY <1>2, Zenon DEF ReadMsg, NoMsg, FinishPacket, TbNotReady, TbNoData, TbNewPacket,
     TbSamePacket, Beat, BeatOfNothing, cfgVars, dutVars
<1>3. CASE FreeNode \/ FreeRest \/ Over \/ UNCHANGED vars
  BY <1>3, Zenon DEF FreeNode, FreeRest, Over, vars, cfgVars, dutVars
<1>. QED
  BY <1>1, <1>2, <1>3, Zenon DEF Next

(* A design that takes every beat and announces a message within seven      *)
(* cycles never trips the watchdog of hft_tb.v (TB_LLOCK_CNT_START, twenty  *)
(* cycles), whatever the log: thirteen cycles at the most before a message  *)
(* is decoded, and fewer than seven for it to wait.  Seven is the most: with *)
(* eight the first message trips it if it has fifty bytes.                  *)
THEOREM WatchdogStaysQuiet ==
    ASSUME \A l \in Latencies : l <= 7
    PROVE  Spec => []NoLivelock
<1>1. FeedInv /\ QuietInv /\ Running => NoLivelock
  <2>. SUFFICES ASSUME FeedInv, QuietInv, Running, ~stalls PROVE quiet < LLOCK
    BY Zenon DEF NoLivelock
  <2>1. ConfigInv /\ PendInv
    BY Zenon DEF FeedInv
  <2>2. quiet \in Nat
    <3>1. quiet \in 0 .. LLOCK
      BY <2>1, Zenon DEF ConfigInv
    <3>. QED
      BY <3>1 DEF LLOCK
  <2>3. CASE pending = <<>>
    BY <2>2, <2>3, NotQuietLong DEF LLOCK
  <2>4. CASE pending # <<>>
    <3>1. quiet <= 13 + pending[1].age
      BY <2>4, Zenon DEF QuietInv
    <3>2. pending[1].age \in Nat
      BY <2>4, HasAges, Zenon DEF AgesNat
    <3>3. 1 \in 1 .. Len(pending)
      <4>1. pending \in Seq([item : Item, age : Nat])
        BY <2>1, Zenon DEF PendInv
      <4>. QED
        BY <2>4, <4>1
    <3>4. pending[1].age < latency
      BY <2>1, <3>3, Zenon DEF PendInv
    <3>5. latency \in Latencies /\ latency <= 7
      BY <2>1, Zenon DEF ConfigInv
    <3>6. latency \in Nat
      BY <3>5, FeedAssumption
    <3>. QED
      BY <2>2, <3>1, <3>2, <3>4, <3>5, <3>6 DEF LLOCK
  <2>. QED
    BY <2>3, <2>4
<1>2. Init => NoLivelock
  BY DEF Init, NoLivelock, LLOCK
<1>3. (FeedInv /\ QuietInv /\ Running => NoLivelock)'
  BY <1>1, PTL
<1>4. FeedInv /\ FeedInv' /\ QuietInv /\ NoLivelock /\ [Next]_vars => QuietInv' /\ NoLivelock'
  BY <1>3, QuietStep, QuietStops, Zenon DEF NoLivelock
<1>. QED
  BY <1>2, <1>4, QuietInit, FeedInOrder, PTL DEF Spec
=============================================================================
