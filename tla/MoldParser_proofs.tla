-------------------------- MODULE MoldParser_proofs --------------------------
(***************************************************************************)
(* The parser at work on packets of any number of messages of any length:   *)
(* each message comes out whole, once and in order, under its number.  It   *)
(* takes two idle cycles or more between packets (GAP).                      *)
(***************************************************************************)
EXTENDS MoldParser, Recursions, SequenceTheorems

LEMMA LenNat == LEN_MOD \in Nat \ {0} /\ LEN_MOD \in Nat /\ 0 \in 0 .. LEN_MOD - 1
<1>1. LEN_MOD \in Nat \ {0}
  BY DEF LEN_MOD
<1>. QED
  BY <1>1

Wide(w) == w = 65536

LEMMA LenMod == Wide(LEN_MOD)
  BY DEF Wide, LEN_MOD

LEMMA Below == ASSUME NEW m \in Nat, NEW n \in 0 .. m - 1 PROVE n \in Nat /\ n < m
  OBVIOUS

LEMMA Halves ==
    ASSUME NEW w, Wide(w), NEW n \in Nat, n < w
    PROVE  n \div 256 \in 0 .. 255 /\ n % 256 \in 0 .. 255 /\ 256 * (n \div 256) + (n % 256) = n
  BY DEF Wide

Bytes == 0 .. 255

(***************************************************************************)
(* Where the bytes of a packet are.                                         *)
(***************************************************************************)
LEMMA MessagesAre ==
    ASSUME NEW p \in Seq(Seq(Bytes))
    PROVE  Len(p) \in Nat /\ \A m \in 1 .. Len(p) : p[m] \in Seq(Bytes) /\ Len(p[m]) \in Nat
<1>1. Len(p) \in Nat /\ \A m \in 1 .. Len(p) : p[m] \in Seq(Bytes)
  OBVIOUS
<1>. QED
  BY <1>1

EndsOf(p, E) == /\ E \in [0 .. Len(p) -> Nat] /\ E[0] = 20
                /\ \A m \in 1 .. Len(p) : E[m] = E[m - 1] + 2 + Len(p[m])

LEMMA EndsAre == ASSUME NEW p \in Seq(Seq(Bytes)) PROVE EndsOf(p, EndOf(p))
<1>. DEFINE n == Len(p)
            Step(f) == [m \in 0 .. n |-> IF m = 0 THEN 20 ELSE f[m - 1] + 2 + Len(p[m])]
            g == [m \in 1 .. n |-> [x \in Nat |-> x + 2 + Len(p[m])]]
            end == CHOOSE f : f = Step(f)
<1>1. n \in Nat /\ \A m \in 1 .. n : Len(p[m]) \in Nat
  BY MessagesAre
<1>2. g \in [1 .. n -> [Nat -> Nat]]
  <2>1. ASSUME NEW m \in 1 .. n, NEW x \in Nat PROVE x + 2 + Len(p[m]) \in Nat
    <3>. DEFINE w == Len(p[m])
    <3>1. w \in Nat
      BY <1>1
    <3>. HIDE DEF w
    <3>2. x + 2 + w \in Nat
      BY <3>1
    <3>. QED
      BY <3>2 DEF w
  <2>. HIDE DEF n
  <2>. QED
    BY <2>1, Zenon
<1>2a. \A m \in 1 .. n, x \in Nat : g[m][x] = x + 2 + Len(p[m])
  OBVIOUS
<1>3. PICK f : Results(f, Nat, 20, n, g)
  <2>1. 20 \in Nat
    OBVIOUS
  <2>. HIDE DEF g, n
  <2>. QED
    BY <1>1, <1>2, <2>1, Recursion, Zenon
<1>. HIDE DEF g
<1>4. /\ f \in [0 .. n -> Nat]
      /\ f[0] = 20 /\ \A m \in 1 .. n : f[m] = g[m][f[m - 1]]
  BY <1>3 DEF Results
<1>5. ASSUME NEW m \in 0 .. n
      PROVE  f[m] = IF m = 0 THEN 20 ELSE f[m - 1] + 2 + Len(p[m])
  <2>1. CASE m = 0
    BY <2>1, <1>4
  <2>2. CASE m # 0
    <3>1. m \in 1 .. n /\ m - 1 \in 0 .. n
      BY <2>2
    <3>2. f[m - 1] \in Nat
      BY <1>4, <3>1
    <3>. QED
      BY <1>2a, <1>4, <3>1, <3>2, <2>2
  <2>. QED
    BY <2>1, <2>2
<1>6. f = Step(f)
  BY <1>4, <1>5
<1>7. end = Step(end)
  <2>. HIDE DEF Step, end
  <2>. QED
    BY <1>6, Zenon DEF end
<1>8. EndOf(p) = end
  BY Zenon DEF EndOf
<1>. HIDE DEF end
<1>9. /\ \A m \in 0 .. n : end[m] = IF m = 0 THEN 20 ELSE end[m - 1] + 2 + Len(p[m])
      /\ end = [m \in 0 .. n |-> end[m]]
  BY <1>7
<1>10. \A m \in 0 .. n : end[m] \in Nat
  <2>. DEFINE T == {m \in 0 .. n : end[m] \in Nat}
  <2>1. 0 \in T
    BY <1>1, <1>9
  <2>2. ASSUME NEW m \in Nat, m < n, m \in T PROVE m + 1 \in T
    <3>1. m + 1 \in 1 .. n /\ m + 1 \in 0 .. n /\ (m + 1) - 1 = m /\ m + 1 # 0
      BY <1>1, <2>2
    <3>2. end[m + 1] = end[m] + 2 + Len(p[m + 1]) /\ end[m] \in Nat /\ Len(p[m + 1]) \in Nat
      BY <1>1, <1>9, <2>2, <3>1
    <3>. QED
      BY <3>1, <3>2
  <2>3. \A m \in 0 .. n : m \in T
    <3>. HIDE DEF T, n
    <3>. QED
      BY <1>1, <2>1, <2>2, Induct
  <2>. QED
    BY <2>3
<1>11. end \in [0 .. n -> Nat]
  <2>. HIDE DEF n
  <2>. QED
    BY <1>9, <1>10, Zenon
<1>12. end[0] = 20 /\ \A m \in 1 .. n : end[m] = end[m - 1] + 2 + Len(p[m])
  <2>1. 0 \in 0 .. n /\ \A m \in 1 .. n : m \in 0 .. n /\ m # 0
    BY <1>1
  <2>. HIDE DEF n
  <2>. QED
    BY <1>9, <2>1, Zenon
<1>. QED
  BY <1>8, <1>11, <1>12, Zenon DEF EndsOf

(* Later messages end later: each takes eleven bytes or more.               *)
LEMMA EndsGrow ==
    ASSUME NEW p \in Packets, NEW k \in 0 .. Len(p), NEW m \in k .. Len(p)
    PROVE  /\ EndOf(p)[k] \in Nat /\ EndOf(p)[m] \in Nat
           /\ EndOf(p)[k] + 11 * (m - k) <= EndOf(p)[m]
<1>. DEFINE E == EndOf(p)
            T == {i \in 0 .. m - k : E[k] + 11 * i <= E[k + i]}
<1>1. /\ p \in Seq(Seq(Bytes)) /\ Len(p) \in Nat
      /\ \A i \in 1 .. Len(p) : Len(p[i]) \in 9 .. LEN_MOD - 1
  BY ParserAssumption, Zenon, MessagesAre DEF Bytes
<1>2. EndsOf(p, E)
  BY <1>1, EndsAre
<1>. HIDE DEF E
<1>3. /\ \A i \in 0 .. Len(p) : E[i] \in Nat
      /\ \A i \in 1 .. Len(p) : E[i] = E[i - 1] + 2 + Len(p[i])
  BY <1>2 DEF EndsOf
<1>4. 0 \in T /\ m - k \in Nat
  BY <1>1, <1>3
<1>5. ASSUME NEW i \in Nat, i < m - k, i \in T PROVE i + 1 \in T
  <2>1. /\ (k + i) + 1 \in 1 .. Len(p) /\ k + i \in 0 .. Len(p) /\ k \in 0 .. Len(p)
        /\ ((k + i) + 1) - 1 = k + i /\ k + (i + 1) = (k + i) + 1
    BY <1>1, <1>5
  <2>2. /\ E[k + (i + 1)] = E[k + i] + 2 + Len(p[k + (i + 1)])
        /\ E[k] \in Nat /\ E[k + i] \in Nat /\ Len(p[k + (i + 1)]) \in 9 .. LEN_MOD - 1
    BY <1>1, <1>3, <2>1, Zenon
  <2>3. E[k] + 11 * i <= E[k + i] /\ i + 1 \in 0 .. m - k
    BY <1>1, <1>5
  <2>4. E[k] + 11 * (i + 1) <= E[k + (i + 1)]
    <3>. DEFINE a == E[k]
                b == E[k + i]
                c == E[k + (i + 1)]
                w == Len(p[k + (i + 1)])
    <3>0. a \in Nat /\ b \in Nat /\ c = b + 2 + w /\ a + 11 * i <= b
      BY <2>2, <2>3, Zenon
    <3>1. w \in 9 .. LEN_MOD - 1
      BY <2>2, Zenon
    <3>. HIDE DEF a, b, c, w
    <3>2. a + 11 * (i + 1) <= c
      <4>1. LEN_MOD \in Nat
        BY LenNat
      <4>2. w \in Nat /\ w >= 9
        BY <3>1, <4>1
      <4>. QED
        BY <3>0, <4>2
    <3>. QED
      BY <3>2 DEF a, c
  <2>. QED
    BY <2>3, <2>4
<1>6. m - k \in T
  <2>1. m - k \in 0 .. m - k
    BY <1>4
  <2>. HIDE DEF T
  <2>. QED
    BY <1>4, <1>5, <2>1, Induct
<1>7. k + (m - k) = m /\ k \in 0 .. Len(p) /\ m \in 0 .. Len(p)
  BY <1>1
<1>. QED
  BY <1>3, <1>6, <1>7 DEF E

IsBytes(s, n) == s \in Seq(Bytes) /\ Len(s) = n

Join(r, s, a, t, b) == /\ IsBytes(r, a + b)
                       /\ \A i \in 1 .. a : r[i] = s[i]
                       /\ \A i \in 1 .. b : r[a + i] = t[i]

LEMMA Join2 ==
    ASSUME NEW a \in Nat, NEW b \in Nat, NEW s, NEW t, IsBytes(s, a), IsBytes(t, b)
    PROVE  Join(s \o t, s, a, t, b)
  BY DEF Join, IsBytes

Joint(r, s, a, t, q, w) == /\ IsBytes(r, a + 2 + w)
                           /\ \A i \in 1 .. a : r[i] = s[i]
                           /\ r[a + 1] = t[1] /\ r[a + 2] = t[2]
                           /\ \A i \in 1 .. w : r[a + 2 + i] = q[i]

LEMMA Joined ==
    ASSUME NEW a \in Nat, NEW w \in Nat, NEW s, NEW t, NEW q,
           IsBytes(s, a), IsBytes(t, 2), IsBytes(q, w)
    PROVE  Joint(s \o t \o q, s, a, t, q, w)
<1>. DEFINE st == s \o t
<1>1. 2 \in Nat /\ a + 2 \in Nat
  OBVIOUS
<1>2. Join(st, s, a, t, 2)
  BY <1>1, Join2, Zenon
<1>3. IsBytes(st, a + 2)
  BY <1>2, Zenon DEF Join
<1>. HIDE DEF st
<1>4. Join(st \o q, st, a + 2, q, w)
  BY <1>1, <1>3, Join2, Zenon
<1>5. a + 1 \in 1 .. a + 2 /\ a + 2 \in 1 .. a + 2 /\ \A i \in 1 .. a : i \in 1 .. a + 2
  OBVIOUS
<1>6. 1 \in 1 .. 2 /\ 2 \in 1 .. 2
  OBVIOUS
<1>7. \A i \in 1 .. a : (st \o q)[i] = s[i]
  BY <1>2, <1>4, <1>5, Zenon DEF Join
<1>8. (st \o q)[a + 1] = t[1] /\ (st \o q)[a + 2] = t[2]
  BY <1>2, <1>4, <1>5, <1>6, Zenon DEF Join
<1>. QED
  BY <1>4, <1>7, <1>8, Zenon DEF Join, Joint, st

LEMMA TwoIs ==
    ASSUME NEW n \in 0 .. LEN_MOD - 1
    PROVE  /\ IsBytes(Two(n), 2) /\ Two(n)[1] = n \div 256 /\ Two(n)[2] = n % 256
           /\ n \div 256 \in Bytes /\ n % 256 \in Bytes /\ 256 * (n \div 256) + (n % 256) = n
<1>0. n \in Nat /\ n < LEN_MOD
  BY LenNat, Below, Zenon
<1>1. n \div 256 \in 0 .. 255 /\ n % 256 \in 0 .. 255 /\ 256 * (n \div 256) + (n % 256) = n
  BY <1>0, LenMod, Halves, ZenonT(60)
<1>. QED
  BY <1>1 DEF Two, IsBytes, Bytes

(* The six bytes of the sequence number's high part.                        *)
HighPart(w, x, y) == (w * LEN_MOD + x) * LEN_MOD + y

LEMMA SixIs ==
    ASSUME NEW n \in Nat, (n \div LEN_MOD) \div LEN_MOD < LEN_MOD
    PROVE  /\ IsBytes(Six(n), 6)
           /\ HighPart(256 * Six(n)[1] + Six(n)[2], 256 * Six(n)[3] + Six(n)[4],
                       256 * Six(n)[5] + Six(n)[6]) = n
<1>. DEFINE v == n \div LEN_MOD
            w == v \div LEN_MOD
            x == v % LEN_MOD
            y == n % LEN_MOD
            q == Two(w) \o Two(x)
<1>0. v \in Nat /\ y \in 0 .. LEN_MOD - 1 /\ v * LEN_MOD + y = n
  BY DEF LEN_MOD
<1>1. w \in 0 .. LEN_MOD - 1 /\ x \in 0 .. LEN_MOD - 1 /\ y \in 0 .. LEN_MOD - 1
  <2>1. v \div LEN_MOD < LEN_MOD
    OBVIOUS
  <2>. HIDE DEF v, y
  <2>2. w \in Nat /\ x \in 0 .. LEN_MOD - 1
    BY <1>0, LenNat
  <2>3. w < LEN_MOD
    BY <2>1 DEF v
  <2>. HIDE DEF w, x
  <2>4. w \in 0 .. LEN_MOD - 1
    BY <2>2, <2>3, LenNat
  <2>. QED
    BY <1>0, <2>2, <2>4, Zenon
<1>2. HighPart(w, x, y) = n
  <2>1. w = v \div LEN_MOD /\ x = v % LEN_MOD
    OBVIOUS
  <2>. HIDE DEF v, y, w, x
  <2>2. w * LEN_MOD + x = v
    BY <1>0, <2>1 DEF LEN_MOD
  <2>. QED
    BY <1>0, <2>2 DEF HighPart
<1>. HIDE DEF w, x, y
<1>3. IsBytes(Two(w), 2) /\ IsBytes(Two(x), 2) /\ IsBytes(Two(y), 2)
  BY <1>1, TwoIs
<1>4. /\ 256 * Two(w)[1] + Two(w)[2] = w
      /\ 256 * Two(x)[1] + Two(x)[2] = x
      /\ 256 * Two(y)[1] + Two(y)[2] = y
  BY <1>1, TwoIs
<1>5. Join(q, Two(w), 2, Two(x), 2)
  BY <1>3, Join2
<1>6. IsBytes(q, 4)
  BY <1>5 DEF Join
<1>7. q[1] = Two(w)[1] /\ q[2] = Two(w)[2] /\ q[3] = Two(x)[1] /\ q[4] = Two(x)[2]
  <2>. HIDE DEF q
  <2>1. /\ \A i \in 1 .. 2 : q[i] = Two(w)[i]
        /\ \A i \in 1 .. 2 : q[2 + i] = Two(x)[i]
    BY <1>5 DEF Join
  <2>2. q[2 + 1] = Two(x)[1] /\ q[2 + 2] = Two(x)[2]
    BY <2>1
  <2>. QED
    BY <2>1, <2>2
<1>8. Six(n) = q \o Two(y)
  BY Zenon DEF Six, v, w, x, y, q
<1>. HIDE DEF q
<1>. DEFINE z == q \o Two(y)
<1>9. Join(z, q, 4, Two(y), 2)
  BY <1>3, <1>6, Join2
<1>. HIDE DEF z
<1>10. IsBytes(z, 6)
  BY <1>9 DEF Join
<1>11. /\ z[1] = q[1] /\ z[2] = q[2] /\ z[3] = q[3] /\ z[4] = q[4]
       /\ z[5] = Two(y)[1] /\ z[6] = Two(y)[2]
  <2>1. /\ \A i \in 1 .. 4 : z[i] = q[i]
        /\ \A i \in 1 .. 2 : z[4 + i] = Two(y)[i]
    BY <1>9 DEF Join
  <2>2. z[4 + 1] = Two(y)[1] /\ z[4 + 2] = Two(y)[2]
    BY <2>1
  <2>. QED
    BY <2>1, <2>2
<1>12. /\ 256 * z[1] + z[2] = w /\ 256 * z[3] + z[4] = x /\ 256 * z[5] + z[6] = y
  BY <1>4, <1>7, <1>11
<1>13. Six(n) = z
  BY <1>8 DEF z
<1>. QED
  BY <1>2, <1>10, <1>12, <1>13

(* What is assumed of the constants, in one place for each.                 *)
LEMMA Sizes == /\ SEQ_LO \in Nat \ {0} /\ SEQ_LO <= LEN_MOD
               /\ SEQ_HI \in Nat \ {0}
               /\ LEN_MOD \in Nat /\ GAP \in Nat /\ MaxPackets \in Nat
<1>1. /\ SEQ_LO \in 1 .. LEN_MOD /\ SEQ_HI \in Nat \ {0}
      /\ GAP \in Nat /\ MaxPackets \in Nat
  BY ParserAssumption, Zenon
<1>2. LEN_MOD \in Nat
  BY LenNat, Zenon
<1>. QED
  BY <1>1, <1>2

LEMMA Width == ASSUME NEW a \in Nat, NEW x \in a .. LEN_MOD - 1
               PROVE  x \in 0 .. LEN_MOD - 1 /\ x \in Nat /\ x >= a
<1>1. LEN_MOD \in Nat
  BY LenNat, Zenon
<1>. QED
  BY <1>1

LEMMA PacketIs ==
    ASSUME NEW p \in Packets
    PROVE  /\ p \in Seq(Seq(Bytes)) /\ Len(p) \in 0 .. LEN_MOD - 1 /\ Len(p) \in Nat /\ Len(p) >= 1
           /\ \A m \in 1 .. Len(p) : /\ p[m] \in Seq(Bytes) /\ Len(p[m]) \in 0 .. LEN_MOD - 1
                                    /\ Len(p[m]) \in Nat /\ Len(p[m]) >= 9
<1>1. /\ p \in Seq(Seq(Bytes)) /\ Len(p) \in 1 .. LEN_MOD - 1
      /\ \A m \in 1 .. Len(p) : Len(p[m]) \in 9 .. LEN_MOD - 1
  BY ParserAssumption, Zenon DEF Bytes
<1>2. 9 \in Nat /\ 1 \in Nat
  OBVIOUS
<1>. QED
  BY <1>1, <1>2, Width, MessagesAre, Zenon

(* The header of a packet p whose first message is number s.                *)
Headed(p, s, B) == /\ \A i \in 1 .. 6 : B[10 + i] = Six((s \div SEQ_LO) % SEQ_HI)[i]
                   /\ B[17] = (s % SEQ_LO) \div 256 /\ B[18] = (s % SEQ_LO) % 256
                   /\ B[19] = Len(p) \div 256 /\ B[20] = Len(p) % 256

(* The high part of any number fits its six bytes.                          *)
LEMMA HighFits ==
    ASSUME NEW s \in Nat
    PROVE  /\ (s \div SEQ_LO) % SEQ_HI \in Nat
           /\ (((s \div SEQ_LO) % SEQ_HI) \div LEN_MOD) \div LEN_MOD < LEN_MOD
<1>. DEFINE d == s \div SEQ_LO
            hi == d % SEQ_HI
<1>1. SEQ_LO \in Nat \ {0} /\ SEQ_HI \in Nat \ {0}
  BY Sizes
<1>2. d \in Nat
  BY <1>1
<1>. HIDE DEF d
<1>3. hi \in 0 .. SEQ_HI - 1
  BY <1>1, <1>2
<1>4. ((SEQ_HI - 1) \div LEN_MOD) \div LEN_MOD < LEN_MOD
  BY ParserAssumption, Zenon
<1>. HIDE DEF hi
<1>5. hi \in Nat /\ (hi \div LEN_MOD) \div LEN_MOD < LEN_MOD
  BY <1>1, <1>3, <1>4 DEF LEN_MOD
<1>. QED
  BY <1>5 DEF hi, d

LEMMA HeaderIs ==
    ASSUME NEW p \in Packets, NEW s \in Nat
    PROVE  IsBytes(Header(p, s), 20) /\ Headed(p, s, Header(p, s))
<1>. DEFINE hi == (s \div SEQ_LO) % SEQ_HI
            lo == s % SEQ_LO
            zero == [b \in 1 .. 10 |-> 0]
            y == Six(hi)
<1>1. /\ SEQ_LO \in Nat \ {0} /\ SEQ_LO <= LEN_MOD /\ SEQ_HI \in Nat \ {0}
      /\ Len(p) \in 0 .. LEN_MOD - 1 /\ LEN_MOD \in Nat
  BY Sizes, PacketIs, Zenon
<1>2. lo \in 0 .. LEN_MOD - 1
  <2>1. lo \in 0 .. SEQ_LO - 1
    BY <1>1
  <2>. QED
    BY <1>1, <2>1
<1>3. hi \in Nat /\ (hi \div LEN_MOD) \div LEN_MOD < LEN_MOD
  BY HighFits, Zenon
<1>4. zero \in Seq(Bytes) /\ Len(zero) = 10
  BY DEF Bytes
<1>5. Header(p, s) = zero \o y \o Two(lo) \o Two(Len(p))
  BY Zenon DEF Header
<1>. DEFINE n == Len(p)
            z == zero \o y
            h == z \o Two(lo) \o Two(n)
<1>6. IsBytes(Two(lo), 2) /\ IsBytes(Two(n), 2)
  BY <1>1, <1>2, TwoIs
<1>7. Two(lo)[1] = lo \div 256 /\ Two(lo)[2] = lo % 256 /\ Two(n)[1] = n \div 256 /\ Two(n)[2] = n % 256
  BY <1>1, <1>2, TwoIs
<1>6a. IsBytes(y, 6)
  BY <1>3, SixIs
<1>. HIDE DEF hi, lo, zero, n, y
<1>8. IsBytes(z, 16) /\ \A i \in 1 .. 6 : z[10 + i] = y[i]
  <2>1. IsBytes(zero, 10) /\ 10 \in Nat /\ 6 \in Nat
    BY <1>4 DEF IsBytes
  <2>2. Join(z, zero, 10, y, 6)
    BY <1>6a, <2>1, Join2, Zenon
  <2>3. 10 + 6 = 16
    OBVIOUS
  <2>. QED
    BY <2>2, <2>3, Zenon DEF Join
<1>. HIDE DEF z
<1>9. Joint(h, z, 16, Two(lo), Two(n), 2)
  <2>1. 16 \in Nat /\ 2 \in Nat
    OBVIOUS
  <2>. QED
    BY <1>6, <1>8, <2>1, Joined, Zenon
<1>10. IsBytes(h, 20)
  BY <1>9 DEF Joint
<1>11. (\A i \in 1 .. 6 : h[10 + i] = z[10 + i]) /\ h[17] = Two(lo)[1] /\ h[18] = Two(lo)[2] /\ h[19] = Two(n)[1] /\ h[20] = Two(n)[2]
  <2>. HIDE DEF h
  <2>1. /\ \A i \in 1 .. 16 : h[i] = z[i]
        /\ h[16 + 1] = Two(lo)[1] /\ h[16 + 2] = Two(lo)[2]
        /\ \A i \in 1 .. 2 : h[16 + 2 + i] = Two(n)[i]
    BY <1>9, Zenon DEF Joint
  <2>2. h[16 + 2 + 1] = Two(n)[1] /\ h[16 + 2 + 2] = Two(n)[2]
    BY <2>1
  <2>3. \A i \in 1 .. 6 : h[10 + i] = z[10 + i]
    BY <2>1
  <2>. QED
    BY <2>1, <2>2, <2>3
<1>12. Header(p, s) = h
  BY <1>5, Zenon DEF z, n
<1>13. \A i \in 1 .. 6 : h[10 + i] = y[i]
  BY <1>8, <1>11, Zenon
<1>. QED
  BY <1>7, <1>10, <1>11, <1>12, <1>13, ZenonT(60) DEF Headed, hi, lo, n, y

(* What f collects, message by message.                                     *)
BytesOf(p, s, f) ==
    /\ f \in [0 .. Len(p) -> Seq(Bytes)] /\ f[0] = Header(p, s)
    /\ \A m \in 1 .. Len(p) : f[m] = f[m - 1] \o Two(Len(p[m])) \o p[m]

LEMMA BytesAre ==
    ASSUME NEW p \in Packets, NEW s \in Nat
    PROVE  \E f : BytesOf(p, s, f) /\ PacketBytes(p, s) = f[Len(p)]
<1>. DEFINE n == Len(p)
            H == Header(p, s)
            t == [m \in 1 .. n |-> Two(Len(p[m])) ]
            Step(f) == [m \in 0 .. n |-> IF m = 0 THEN Header(p, s)
                                         ELSE f[m - 1] \o Two(Len(p[m])) \o p[m]]
            g == [m \in 1 .. n |-> [x \in Seq(Bytes) |-> x \o Two(Len(p[m])) \o p[m]]]
            bytes == CHOOSE f : f = Step(f)
<1>1. n \in Nat /\ \A m \in 1 .. n : p[m] \in Seq(Bytes) /\ Len(p[m]) \in 0 .. LEN_MOD - 1
  BY PacketIs, Zenon
<1>2. H \in Seq(Bytes)
  BY HeaderIs, Zenon DEF IsBytes
<1>3. ASSUME NEW m \in 1 .. n, NEW x \in Seq(Bytes)
      PROVE  x \o Two(Len(p[m])) \o p[m] \in Seq(Bytes)
  <2>1. Two(Len(p[m])) \in Seq(Bytes) /\ p[m] \in Seq(Bytes)
    BY <1>1, TwoIs, ZenonT(60) DEF IsBytes
  <2>. DEFINE a == Two(Len(p[m]))
              b == p[m]
  <2>. HIDE DEF a, b
  <2>2. a \in Seq(Bytes) /\ b \in Seq(Bytes)
    BY <2>1, Zenon DEF a, b
  <2>3. x \o a \o b \in Seq(Bytes)
    BY <2>2
  <2>. QED
    BY <2>3 DEF a, b
<1>4. g \in [1 .. n -> [Seq(Bytes) -> Seq(Bytes)]]
  <2>. HIDE DEF n
  <2>. QED
    BY <1>3, Zenon
<1>5. \A m \in 1 .. n, x \in Seq(Bytes) : g[m][x] = x \o Two(Len(p[m])) \o p[m]
  <2>. HIDE DEF n
  <2>. QED
    BY Zenon
<1>6. PICK f : Results(f, Seq(Bytes), H, n, g)
  <2>. HIDE DEF g, n, H
  <2>. QED
    BY <1>1, <1>2, <1>4, Recursion, Zenon
<1>. HIDE DEF g
<1>7. /\ f \in [0 .. n -> Seq(Bytes)]
      /\ f[0] = H /\ \A m \in 1 .. n : f[m] = g[m][f[m - 1]]
  BY <1>6, Zenon DEF Results
<1>8. /\ 0 \in 0 .. n
      /\ \A m \in 1 .. n : m \in 0 .. n /\ m # 0 /\ m - 1 \in 0 .. n
      /\ \A m \in 0 .. n : m = 0 \/ m \in 1 .. n
  BY <1>1
<1>. HIDE DEF n
<1>9. ASSUME NEW m \in 0 .. n
      PROVE  f[m] = IF m = 0 THEN Header(p, s) ELSE f[m - 1] \o Two(Len(p[m])) \o p[m]
  <2>1. CASE m = 0
    BY <2>1, <1>7, Zenon
  <2>2. CASE m # 0
    <3>1. m \in 1 .. n /\ m - 1 \in 0 .. n
      BY <1>8, <2>2, Zenon
    <3>2. f[m - 1] \in Seq(Bytes)
      BY <1>7, <3>1, Zenon
    <3>. QED
      BY <1>5, <1>7, <3>1, <3>2, <2>2, Zenon
  <2>. QED
    BY <2>1, <2>2, Zenon
<1>10. f = Step(f)
  <2>1. f = [m \in 0 .. n |-> f[m]]
    BY <1>7, Zenon
  <2>. QED
    BY <1>9, <2>1, Zenon
<1>11. bytes = Step(bytes)
  <2>. HIDE DEF Step, bytes
  <2>. QED
    BY <1>10, Zenon DEF bytes
<1>12. PacketBytes(p, s) = bytes[n]
  BY Zenon DEF PacketBytes, n
<1>. HIDE DEF bytes
<1>13. /\ \A m \in 0 .. n : bytes[m] = IF m = 0 THEN Header(p, s)
                                      ELSE bytes[m - 1] \o Two(Len(p[m])) \o p[m]
       /\ bytes = [m \in 0 .. n |-> bytes[m]]
  BY <1>11, Zenon
<1>14. \A m \in 0 .. n : bytes[m] \in Seq(Bytes)
  <2>. DEFINE T == {m \in 0 .. n : bytes[m] \in Seq(Bytes)}
  <2>1. 0 \in T
    BY <1>2, <1>8, <1>13, Zenon
  <2>2. ASSUME NEW m \in Nat, m < n, m \in T PROVE m + 1 \in T
    <3>1. m + 1 \in 1 .. n /\ m + 1 \in 0 .. n /\ (m + 1) - 1 = m /\ m + 1 # 0
      BY <1>1, <2>2
    <3>2. bytes[m + 1] = bytes[m] \o Two(Len(p[m + 1])) \o p[m + 1] /\ bytes[m] \in Seq(Bytes)
      BY <1>13, <2>2, <3>1, Zenon
    <3>. QED
      BY <1>3, <3>1, <3>2, Zenon
  <2>3. \A m \in 0 .. n : m \in T
    <3>. HIDE DEF T
    <3>. QED
      BY <1>1, <2>1, <2>2, Induct, Zenon
  <2>. QED
    BY <2>3, Zenon
<1>15. bytes \in [0 .. n -> Seq(Bytes)]
  BY <1>13, <1>14, Zenon
<1>16. bytes[0] = Header(p, s) /\ \A m \in 1 .. n : bytes[m] = bytes[m - 1] \o Two(Len(p[m])) \o p[m]
  BY <1>8, <1>13, Zenon
<1>17. BytesOf(p, s, bytes)
  BY <1>15, <1>16, Zenon DEF BytesOf, n
<1>. QED
  BY <1>12, <1>17, Zenon DEF n

(* A packet's bytes: the header, and each message behind its length.        *)
Holds(p, B, m) ==
    /\ B[EndOf(p)[m - 1] + 1] = Len(p[m]) \div 256
    /\ B[EndOf(p)[m - 1] + 2] = Len(p[m]) % 256
    /\ \A b \in 1 .. Len(p[m]) : B[EndOf(p)[m - 1] + 2 + b] = p[m][b]

Laid(p, s, B, k) == /\ IsBytes(B, EndOf(p)[k]) /\ Headed(p, s, B)
                    /\ \A m \in 1 .. k : Holds(p, B, m)

LEMMA Layout ==
    ASSUME NEW p \in Packets, NEW s \in Nat
    PROVE  Laid(p, s, PacketBytes(p, s), Len(p))
<1>. DEFINE n == Len(p)
            E == EndOf(p)
            T(f) == {k \in 0 .. n : Laid(p, s, f[k], k)}
<1>1. PICK f : BytesOf(p, s, f) /\ PacketBytes(p, s) = f[n]
  BY BytesAre, Zenon
<1>2. /\ f[0] = Header(p, s)
      /\ \A m \in 1 .. n : f[m] = f[m - 1] \o Two(Len(p[m])) \o p[m]
  BY <1>1, Zenon DEF BytesOf
<1>3. /\ n \in Nat /\ n >= 1 /\ p \in Seq(Seq(Bytes))
      /\ \A m \in 1 .. n : /\ p[m] \in Seq(Bytes) /\ Len(p[m]) \in 0 .. LEN_MOD - 1
                           /\ Len(p[m]) \in Nat
  BY PacketIs, Zenon
<1>4. /\ E[0] = 20 /\ \A m \in 1 .. n : E[m] = E[m - 1] + 2 + Len(p[m])
  BY <1>3, EndsAre, Zenon DEF EndsOf
<1>5. \A k \in 0 .. n : \A m \in k .. n : E[k] \in Nat /\ E[m] \in Nat /\ E[k] + 11 * (m - k) <= E[m]
  BY EndsGrow, Zenon
<1>. HIDE DEF n, E
<1>6. Laid(p, s, f[0], 0)
  <2>1. \A m \in 1 .. 0 : FALSE
    OBVIOUS
  <2>. QED
    BY <1>2, <1>4, <2>1, HeaderIs, Zenon DEF Laid, E
<1>7. ASSUME NEW k \in Nat, k < n, k \in T(f) PROVE k + 1 \in T(f)
  <2>. DEFINE a == E[k]
              w == Len(p[k + 1])
              t == Two(Len(p[k + 1]))
              B == f[k]
              C == f[k + 1]
  <2>1. k + 1 \in 1 .. n /\ k + 1 \in 0 .. n /\ (k + 1) - 1 = k /\ k \in 0 .. n /\ 0 \in 0 .. n /\ k \in 0 .. n
    BY <1>3, <1>7
  <2>2. Laid(p, s, B, k)
    BY <1>7, Zenon
  <2>3. IsBytes(B, a) /\ Headed(p, s, B) /\ \A m \in 1 .. k : Holds(p, B, m)
    BY <2>2, Zenon DEF Laid, E
  <2>4. IsBytes(t, 2) /\ t[1] = w \div 256 /\ t[2] = w % 256
    BY <1>3, <2>1, TwoIs, ZenonT(60)
  <2>5. IsBytes(p[k + 1], w)
    BY <1>3, <2>1, Zenon DEF IsBytes
  <2>6. C = B \o t \o p[k + 1]
    BY <1>2, <2>1, Zenon
  <2>7. a \in Nat /\ w \in Nat /\ E[k + 1] = a + 2 + w
    <3>1. k \in k .. n
      BY <1>3, <1>7
    <3>. QED
      BY <1>3, <1>4, <1>5, <2>1, <3>1, Zenon
  <2>. HIDE DEF a, w, t, B, C
  <2>8. Joint(C, B, a, t, p[k + 1], w)
    BY <2>3, <2>4, <2>5, <2>6, <2>7, Joined, ZenonT(60)
  <2>9. IsBytes(C, EndOf(p)[k + 1])
    BY <2>7, <2>8, Zenon DEF Joint, E
  <2>10. \A i \in 1 .. a : C[i] = B[i]
    BY <2>8, Zenon DEF Joint
  <2>11. a >= 20
    <3>1. E[0] + 11 * (k - 0) <= E[k]
      <4>1. k \in 0 .. n /\ 0 \in 0 .. n
        BY <2>1
      <4>. QED
        BY <1>5, <4>1, Zenon
    <3>2. 20 + 11 * (k - 0) <= a
      BY <1>4, <3>1, Zenon DEF a
    <3>. HIDE DEF a
    <3>. QED
      BY <2>7, <3>2
  <2>12. Headed(p, s, C)
    <3>1. /\ \A i \in 1 .. 6 : 10 + i \in 1 .. a
          /\ 17 \in 1 .. a /\ 18 \in 1 .. a /\ 19 \in 1 .. a /\ 20 \in 1 .. a
      BY <2>7, <2>11
    <3>2. /\ \A i \in 1 .. 6 : C[10 + i] = B[10 + i]
          /\ C[17] = B[17] /\ C[18] = B[18] /\ C[19] = B[19] /\ C[20] = B[20]
      BY <2>10, <3>1, Zenon
    <3>. QED
      BY <2>3, <3>2, ZenonT(60) DEF Headed
  <2>13. ASSUME NEW m \in 1 .. k PROVE Holds(p, C, m)
    <3>. DEFINE e == E[m - 1]
                v == Len(p[m])
    <3>1. m \in 1 .. n /\ m \in 0 .. n /\ k \in m .. n /\ m - 1 \in 0 .. n /\ m \in 0 .. n /\ m - 1 \in (m - 1) .. n
      BY <1>3, <1>7
    <3>2. e \in Nat /\ v \in Nat /\ E[m] = e + 2 + v
      BY <1>3, <1>4, <1>5, <3>1, Zenon
    <3>3. e + 2 + v + 11 * (k - m) <= a
      BY <1>5, <3>1, <3>2, Zenon DEF a
    <3>. HIDE DEF e, v
    <3>4. /\ e + 1 \in 1 .. a /\ e + 2 \in 1 .. a
          /\ \A b \in 1 .. v : e + 2 + b \in 1 .. a
      BY <2>7, <3>2, <3>3
    <3>5. /\ B[e + 1] = v \div 256 /\ B[e + 2] = v % 256
          /\ \A b \in 1 .. v : B[e + 2 + b] = p[m][b]
      BY <2>3, ZenonT(60) DEF Holds, e, v, E
    <3>6. /\ C[e + 1] = v \div 256 /\ C[e + 2] = v % 256
          /\ \A b \in 1 .. v : C[e + 2 + b] = p[m][b]
      BY <2>10, <3>4, <3>5, ZenonT(60)
    <3>. QED
      BY <3>6, Zenon DEF Holds, e, v, E
  <2>14. Holds(p, C, k + 1)
    <3>1. /\ C[a + 1] = w \div 256 /\ C[a + 2] = w % 256
          /\ \A b \in 1 .. w : C[a + 2 + b] = p[k + 1][b]
      BY <2>4, <2>8, Zenon DEF Joint
    <3>2. (k + 1) - 1 = k
      OBVIOUS
    <3>. QED
      BY <3>1, <3>2, Zenon DEF Holds, a, w, E
  <2>15. \A m \in 1 .. k + 1 : m \in 1 .. k \/ m = k + 1
    OBVIOUS
  <2>16. \A m \in 1 .. k + 1 : Holds(p, C, m)
    BY <2>13, <2>14, <2>15, Zenon
  <2>17. Laid(p, s, C, k + 1)
    BY <2>9, <2>12, <2>16, Zenon DEF Laid
  <2>. QED
    BY <2>1, <2>17, Zenon DEF C
<1>8. n \in 0 .. n /\ 0 \in 0 .. n
  BY <1>3
<1>9. \A k \in 0 .. n : k \in T(f)
  <2>1. 0 \in T(f)
    BY <1>6, <1>8, Zenon
  <2>. HIDE DEF T
  <2>. QED
    BY <1>3, <1>7, <2>1, Induct, Zenon
<1>. QED
  BY <1>1, <1>8, <1>9, Zenon DEF n

-----------------------------------------------------------------------------
(***************************************************************************)
(* Where a message lies.  First(p, k) is what the consumer holds when the   *)
(* first k messages of p are whole, Part(p, k, b) when b bytes of the next   *)
(* one have come as well.                                                   *)
(***************************************************************************)
First(p, k) == [m \in 1 .. k |-> p[m]]
Part(p, k, b) == [m \in 1 .. k + 1 |->
                      IF m = k + 1 THEN [i \in 1 .. b |-> p[m][i]] ELSE p[m]]

N == SEQ_LO * SEQ_HI
Numbers(s, k) == [m \in 1 .. k |-> (s + m - 1) % N]

(* The two parts of the number x.                                           *)
IsNumber(hi, lo, x) == /\ hi \in 0 .. SEQ_HI - 1 /\ lo \in 0 .. SEQ_LO - 1
                       /\ hi * SEQ_LO + lo = x % N

(***************************************************************************)
(* The inductive invariant.  The state machine is found clean by a header    *)
(* only because two idle cycles have passed: the beat behind a message that *)
(* ends seven or eight bytes into the last beat sets d_align_q or d_split_q, *)
(* the first idle cycle turns that into d_msg_q, the second clears it.       *)
(***************************************************************************)
SenderOK ==
    /\ bus \in [valid : BOOLEAN, last : BOOLEAN, data : [1 .. 8 -> 0 .. 255]]
    /\ pkt \in Packets \cup {<<>>} /\ seq \in 0 .. N - 1 /\ pad \in 0 .. 255
    /\ bus.valid => /\ pkt \in Packets /\ beat \in 1 .. Beats(pkt)
                    /\ bus = Beat(pkt, seq, beat, pad)

Clean == d_invalid_q /\ ~d_msg_q /\ ~d_align_q /\ ~d_split_q /\ ~align_end_q

BetweenPackets ==
    /\ d_invalid_q /\ fsm_invalid_q /\ ~fsm_h1_q /\ ~init_v /\ ~fsm_msg_q
    /\ d_align_q \/ d_split_q \/ align_end_q => gap = GAP
    /\ d_msg_q => gap = GAP - 1
    /\ d_align_q \/ d_split_q \/ d_msg_q => sel_msg_len_q = 0 /\ bus.last

Header1 == /\ Clean
           /\ fsm_invalid_q /\ ~fsm_h1_q /\ ~init_v /\ ~fsm_msg_q

Header2 == /\ Clean
           /\ ~fsm_invalid_q /\ ~tlast_q /\ fsm_h1_q /\ ~init_v /\ ~fsm_msg_q
           /\ stream = <<>> /\ ids = <<>>

Header3 == /\ Clean
           /\ ~fsm_invalid_q /\ ~tlast_q /\ ~fsm_h1_q /\ init_v /\ ~fsm_msg_q
           /\ stream = <<>> /\ ids = <<>>
           /\ seq_hi_q = (seq \div SEQ_LO) % SEQ_HI

(* k messages are whole, and r bytes of the next one and its length are in   *)
(* earlier beats.                                                           *)
Aligned(k) == /\ d_align_q /\ ~d_msg_q /\ ~d_split_q /\ ~align_end_q
              /\ sel_msg_len_q = 0 /\ stream = First(pkt, k)

Split(k) == /\ d_split_q /\ ~d_msg_q /\ ~d_align_q /\ ~align_end_q
            /\ sel_msg_len_q = 0 /\ stream = First(pkt, k)
            /\ half_q = Len(pkt[k + 1]) \div 256

Within(k, r) == /\ d_msg_q /\ ~d_align_q /\ ~d_split_q
                /\ align_end_q <=> r = 2
                /\ sel_msg_len_q = 2 + Len(pkt[k + 1]) - r
                /\ stream = IF r = 2 THEN First(pkt, k) ELSE Part(pkt, k, r - 2)

Passing(k, r) ==
    /\ ~d_invalid_q /\ ~fsm_invalid_q /\ ~tlast_q /\ ~fsm_h1_q /\ ~init_v /\ fsm_msg_q
    /\ 8 * (beat - 1) = EndOf(pkt)[k] + r
    /\ r < 2 + Len(pkt[k + 1])
    /\ msg_cnt_q = Len(pkt) - k
    /\ ids = Numbers(seq, k) /\ IsNumber(seq_hi_q, seq_lo_q, seq + k)
    /\ r = 0 => Aligned(k)
    /\ r = 1 => Split(k)
    /\ r > 1 => Within(k, r)

Phases ==
    /\ ~bus.valid => BetweenPackets
    /\ bus.valid /\ beat = 1 => Header1
    /\ bus.valid /\ beat = 2 => Header2
    /\ bus.valid /\ beat = 3 => Header3
    /\ bus.valid /\ beat > 3 => \E k \in 0 .. Len(pkt) - 1, r \in Nat : Passing(k, r)

Inv == TypeOK /\ SenderOK /\ Phases /\ MessagesWhole /\ NumberedInOrder

-----------------------------------------------------------------------------
(***************************************************************************)
(* What is on the bus.                                                      *)
(***************************************************************************)
LEMMA Starts ==
    ASSUME NEW p \in Packets
    PROVE  /\ EndOf(p)[0] = 20
           /\ \A k \in 0 .. Len(p) : EndOf(p)[k] \in Nat /\ EndOf(p)[k] >= 20
           /\ \A m \in 1 .. Len(p) : EndOf(p)[m] = EndOf(p)[m - 1] + 2 + Len(p[m])
<1>1. EndsOf(p, EndOf(p)) /\ Len(p) \in Nat
  BY PacketIs, EndsAre, Zenon
<1>2. /\ EndOf(p)[0] = 20
      /\ \A m \in 1 .. Len(p) : EndOf(p)[m] = EndOf(p)[m - 1] + 2 + Len(p[m])
  BY <1>1, Zenon DEF EndsOf
<1>3. ASSUME NEW k \in 0 .. Len(p) PROVE EndOf(p)[k] \in Nat /\ EndOf(p)[k] >= 20
  <2>1. 0 \in 0 .. Len(p) /\ k \in 0 .. Len(p) /\ k \in Nat
    BY <1>1
  <2>2. EndOf(p)[0] + 11 * (k - 0) <= EndOf(p)[k] /\ EndOf(p)[k] \in Nat
    BY <2>1, EndsGrow, Zenon
  <2>. DEFINE e == EndOf(p)[k]
  <2>3. 20 + 11 * (k - 0) <= e /\ e \in Nat
    BY <1>2, <2>2, Zenon
  <2>. HIDE DEF e
  <2>4. e >= 20
    BY <2>1, <2>3
  <2>. QED
    BY <2>3, <2>4, Zenon DEF e
<1>. QED
  BY <1>2, <1>3, Zenon

(* A message, and all the later ones, end within the packet.                *)
LEMMA Ahead ==
    ASSUME NEW p \in Packets, NEW m \in 1 .. Len(p)
    PROVE  /\ EndOf(p)[m - 1] \in Nat /\ EndOf(p)[m - 1] >= 20 /\ EndOf(p)[m] \in Nat
           /\ EndOf(p)[Len(p)] \in Nat
           /\ EndOf(p)[m] = EndOf(p)[m - 1] + 2 + Len(p[m])
           /\ EndOf(p)[m - 1] + 2 + Len(p[m]) <= EndOf(p)[Len(p)]
           /\ m < Len(p) => EndOf(p)[m] + 11 <= EndOf(p)[Len(p)]
<1>. DEFINE n == Len(p)
            e == EndOf(p)[m]
            z == EndOf(p)[n]
<1>1. n \in Nat /\ m \in 0 .. n /\ m - 1 \in 0 .. n /\ n \in m .. n /\ n \in 0 .. n
  BY PacketIs
<1>2. e \in Nat /\ z \in Nat /\ e + 11 * (n - m) <= z
  BY <1>1, EndsGrow, Zenon
<1>3. e = EndOf(p)[m - 1] + 2 + Len(p[m]) /\ EndOf(p)[m - 1] \in Nat /\ EndOf(p)[m - 1] >= 20
  BY <1>1, Starts, Zenon
<1>. HIDE DEF n, e, z
<1>4. e <= z /\ (m < n => e + 11 <= z)
  BY <1>1, <1>2
<1>. QED
  BY <1>2, <1>3, <1>4, Zenon DEF n, e, z

(* A packet has four beats or more, and its last is that with its end.      *)
LEMMA BeatsAre ==
    ASSUME NEW p \in Packets
    PROVE  /\ Beats(p) \in Nat /\ Beats(p) > 3
           /\ EndOf(p)[Len(p)] \in Nat
           /\ \A n \in 1 .. Beats(p) : /\ 8 * (n - 1) < EndOf(p)[Len(p)]
                                       /\ n = Beats(p) <=> EndOf(p)[Len(p)] <= 8 * (n - 1) + 8
<1>. DEFINE e == EndOf(p)[Len(p)]
<1>1. Len(p) \in Nat /\ Len(p) >= 1 /\ 0 \in Nat
  BY PacketIs
<1>2. IsBytes(PacketBytes(p, 0), e)
  BY <1>1, Layout, Zenon DEF Laid
<1>3. Beats(p) = (e + 7) \div 8
  BY <1>2, Zenon DEF Beats, IsBytes
<1>4. e \in Nat /\ e >= 31
  <2>1. 0 \in 0 .. Len(p) /\ Len(p) \in 0 .. Len(p)
    BY <1>1
  <2>2. EndOf(p)[0] + 11 * (Len(p) - 0) <= e /\ e \in Nat
    BY <2>1, EndsGrow, Zenon
  <2>3. EndOf(p)[0] = 20
    BY Starts, Zenon
  <2>. DEFINE w == Len(p)
  <2>4. 20 + 11 * (w - 0) <= e /\ e \in Nat /\ w \in Nat /\ w >= 1
    BY <1>1, <2>2, <2>3, Zenon
  <2>. HIDE DEF e, w
  <2>. QED
    BY <2>4
<1>. HIDE DEF e
<1>5. ASSUME NEW n \in 1 .. Beats(p)
      PROVE  8 * (n - 1) < e /\ (n = Beats(p) <=> e <= 8 * (n - 1) + 8)
  BY <1>3, <1>4
<1>6. Beats(p) \in Nat /\ Beats(p) > 3
  BY <1>3, <1>4
<1>. QED
  BY <1>4, <1>5, <1>6, Zenon DEF e

LEMMA NIs == N \in Nat \ {0}
<1>1. \A x, y \in Nat \ {0} : x * y \in Nat \ {0}
  OBVIOUS
<1>. QED
  BY <1>1, Sizes, Zenon DEF N

OnBus == SenderOK /\ bus.valid

(* The beat is eight bytes of its packet.                                   *)
LEMMA OnTheBus ==
    ASSUME OnBus
    PROVE  /\ pkt \in Packets /\ beat \in Nat /\ beat \in 1 .. Beats(pkt)
           /\ bus.data \in [1 .. 8 -> Bytes] /\ seq \in Nat
           /\ bus.valid \in BOOLEAN /\ bus.last \in BOOLEAN
           /\ bus.last <=> EndOf(pkt)[Len(pkt)] <= 8 * (beat - 1) + 8
           /\ bus.last <=> beat = Beats(pkt)
           /\ \A b \in 1 .. 8 : 8 * (beat - 1) + b <= EndOf(pkt)[Len(pkt)] =>
                  bus.data[b] = PacketBytes(pkt, seq)[8 * (beat - 1) + b]
<1>1. /\ pkt \in Packets /\ beat \in 1 .. Beats(pkt) /\ bus = Beat(pkt, seq, beat, pad)
      /\ bus \in [valid : BOOLEAN, last : BOOLEAN, data : [1 .. 8 -> 0 .. 255]]
      /\ seq \in 0 .. N - 1
  BY Zenon DEF OnBus, SenderOK
<1>2. bus.data \in [1 .. 8 -> Bytes] /\ bus.valid \in BOOLEAN /\ bus.last \in BOOLEAN
  <2>. HIDE DEF Bytes
  <2>1. bus \in [valid : BOOLEAN, last : BOOLEAN, data : [1 .. 8 -> Bytes]]
    BY <1>1, Zenon DEF Bytes
  <2>. QED
    BY <2>1
<1>3. seq \in Nat /\ beat \in Nat
  <2>1. seq \in Nat
    BY <1>1, NIs
  <2>2. beat \in Nat
    BY <1>1, BeatsAre
  <2>. QED
    BY <2>1, <2>2
<1>4. /\ bus.last <=> beat = Beats(pkt)
      /\ bus.data = Eight(PacketBytes(pkt, seq), beat, pad)
  BY <1>1, Zenon DEF Beat
<1>5. bus.last <=> EndOf(pkt)[Len(pkt)] <= 8 * (beat - 1) + 8
  BY <1>1, <1>4, BeatsAre, Zenon
<1>6. Len(PacketBytes(pkt, seq)) = EndOf(pkt)[Len(pkt)]
  BY <1>1, <1>3, Layout, Zenon DEF Laid, IsBytes
<1>7. \A b \in 1 .. 8 : 8 * (beat - 1) + b <= EndOf(pkt)[Len(pkt)] =>
          bus.data[b] = PacketBytes(pkt, seq)[8 * (beat - 1) + b]
  BY <1>4, <1>6, Zenon DEF Eight
<1>. QED
  BY <1>1, <1>2, <1>3, <1>4, <1>5, <1>7, Zenon

(* The bytes of a message that this beat brings.                            *)
LEMMA MessageOnBus ==
    ASSUME OnBus, NEW m \in 1 .. Len(pkt), NEW b \in 1 .. 8
    PROVE  /\ 8 * (beat - 1) + b = EndOf(pkt)[m - 1] + 1 => bus.data[b] = Len(pkt[m]) \div 256
           /\ 8 * (beat - 1) + b = EndOf(pkt)[m - 1] + 2 => bus.data[b] = Len(pkt[m]) % 256
           /\ \A j \in 1 .. Len(pkt[m]) :
                  8 * (beat - 1) + b = EndOf(pkt)[m - 1] + 2 + j => bus.data[b] = pkt[m][j]
<1>. DEFINE c == 8 * (beat - 1)
            e == EndOf(pkt)[m - 1]
            w == Len(pkt[m])
            z == EndOf(pkt)[Len(pkt)]
            B == PacketBytes(pkt, seq)
<1>1. /\ pkt \in Packets /\ seq \in Nat
      /\ c + b <= z => bus.data[b] = B[c + b]
  BY OnTheBus, Zenon
<1>2. Holds(pkt, B, m)
  <2>1. Laid(pkt, seq, B, Len(pkt))
    BY <1>1, Layout, Zenon
  <2>. QED
    BY <2>1, Zenon DEF Laid
<1>3. /\ B[e + 1] = w \div 256 /\ B[e + 2] = w % 256
      /\ \A j \in 1 .. w : B[e + 2 + j] = pkt[m][j]
  BY <1>2, Zenon DEF Holds
<1>4. w \in 0 .. LEN_MOD - 1 /\ w \in Nat
  BY <1>1, PacketIs, Zenon
<1>5. e \in Nat /\ z \in Nat /\ e + 2 + w <= z
  BY <1>1, Ahead, Zenon
<1>. HIDE DEF c, e, w, z, B
<1>6. e + 1 <= z /\ e + 2 <= z /\ \A j \in 1 .. w : e + 2 + j <= z
  BY <1>4, <1>5
<1>. QED
  BY <1>1, <1>3, <1>6, ZenonT(60) DEF c, e, w

(* Its length, where the beat holds it all.                                 *)
LEMMA LengthOnBus ==
    ASSUME OnBus, NEW m \in 1 .. Len(pkt), NEW i \in 0 .. 6,
           8 * (beat - 1) + i = EndOf(pkt)[m - 1]
    PROVE  Word(i) = Len(pkt[m])
<1>. DEFINE c == 8 * (beat - 1)
            e == EndOf(pkt)[m - 1]
            w == Len(pkt[m])
<1>1. /\ i + 1 \in 1 .. 8 /\ i + 2 \in 1 .. 8 /\ c + (i + 1) = e + 1 /\ c + (i + 2) = e + 2
  <2>1. c \in Int /\ c + i = e
    <3>1. beat \in Nat
      BY OnTheBus, Zenon
    <3>. QED
      BY <3>1
  <2>. HIDE DEF c, e
  <2>. QED
    BY <2>1
<1>2. bus.data[i + 1] = w \div 256 /\ bus.data[i + 2] = w % 256
  BY <1>1, MessageOnBus, ZenonT(60)
<1>3. 256 * (w \div 256) + (w % 256) = w
  <2>1. pkt \in Packets
    BY OnTheBus, Zenon
  <2>2. w \in 0 .. LEN_MOD - 1
    BY <2>1, PacketIs, Zenon
  <2>. HIDE DEF w
  <2>. QED
    BY <2>2, TwoIs, ZenonT(60)
<1>. QED
  BY <1>2, <1>3, ZenonT(60) DEF Word

(* A part of the message, where the beat holds it.                          *)
InBeat(m, off, w, a) ==
    /\ off \in Nat /\ w \in Nat /\ a \in Nat /\ off + w <= 8 /\ a + w <= Len(pkt[m])
    /\ 8 * (beat - 1) + off = EndOf(pkt)[m - 1] + 2 + a

Brings(off, w, q, a) == Shifted(off, w) = [i \in 1 .. w |-> q[a + i]]

LEMMA PartOnBus ==
    ASSUME OnBus, NEW m \in 1 .. Len(pkt), NEW off, NEW w, NEW a, InBeat(m, off, w, a)
    PROVE  Brings(off, w, pkt[m], a)
<1>. USE DEF InBeat
<1>. DEFINE c == 8 * (beat - 1)
            e == EndOf(pkt)[m - 1]
            v == Len(pkt[m])
<1>1. /\ pkt \in Packets /\ beat \in Nat
  BY OnTheBus, Zenon
<1>2. c \in Int /\ e \in Nat /\ v \in Nat
  <2>1. e \in Nat /\ v \in Nat
    BY <1>1, Ahead, PacketIs, Zenon
  <2>. QED
    BY <1>1, <2>1
<1>3. ASSUME NEW i \in 1 .. w
      PROVE  off + i <= 8 /\ bus.data[off + i] = pkt[m][a + i]
  <2>1. c + off = e + 2 + a /\ a + w <= v
    OBVIOUS
  <2>. HIDE DEF c, e, v
  <2>2. off + i \in 1 .. 8 /\ a + i \in 1 .. v /\ c + (off + i) = e + 2 + (a + i)
    BY <1>2, <2>1
  <2>3. off + i <= 8
    BY <2>2
  <2>. QED
    BY <2>2, <2>3, MessageOnBus, Zenon DEF c, e, v
<1>4. Shifted(off, w) = [i \in 1 .. w |-> IF off + i <= 8 THEN bus.data[off + i] ELSE X]
  BY Zenon DEF Shifted, AXI_KEEP_W
<1>. QED
  BY <1>3, <1>4, Zenon DEF Brings

(* The beats of the header.                                                 *)
LEMMA HeaderOnBus ==
    ASSUME OnBus
    PROVE  /\ beat = 2 => High = (seq \div SEQ_LO) % SEQ_HI
           /\ beat = 3 => Word(0) = seq % SEQ_LO /\ Word(2) = Len(pkt)
           /\ beat \in 1 .. 3 => ~bus.last
<1>. DEFINE B == PacketBytes(pkt, seq)
            n == Len(pkt)
            lo == seq % SEQ_LO
            hi == (seq \div SEQ_LO) % SEQ_HI
            z == EndOf(pkt)[Len(pkt)]
<1>1. /\ pkt \in Packets /\ seq \in Nat /\ beat \in Nat /\ (bus.last <=> beat = Beats(pkt))
      /\ \A b \in 1 .. 8 : 8 * (beat - 1) + b <= z => bus.data[b] = B[8 * (beat - 1) + b]
  BY OnTheBus, Zenon
<1>2. Beats(pkt) \in Nat /\ Beats(pkt) > 3 /\ z \in Nat
  BY <1>1, BeatsAre, Zenon
<1>3. ~(z <= 24)
  <2>1. 3 \in 1 .. Beats(pkt) /\ 3 # Beats(pkt)
    BY <1>2
  <2>2. ~(z <= 8 * (3 - 1) + 8)
    BY <1>1, <2>1, BeatsAre, Zenon
  <2>. HIDE DEF z
  <2>. QED
    BY <2>2
<1>4. Headed(pkt, seq, B)
  BY <1>1, Layout, Zenon DEF Laid
<1>5. /\ \A i \in 1 .. 6 : B[10 + i] = Six(hi)[i]
      /\ B[17] = lo \div 256 /\ B[18] = lo % 256
      /\ B[19] = n \div 256 /\ B[20] = n % 256
  BY <1>4, Zenon DEF Headed
<1>6. n \in 0 .. LEN_MOD - 1 /\ lo \in 0 .. LEN_MOD - 1
  <2>1. lo \in 0 .. SEQ_LO - 1
    BY <1>1, Sizes
  <2>2. n \in 0 .. LEN_MOD - 1
    BY <1>1, PacketIs, Zenon
  <2>. HIDE DEF lo, n
  <2>. QED
    BY <2>1, <2>2, Sizes
<1>6a. hi \in Nat /\ (hi \div LEN_MOD) \div LEN_MOD < LEN_MOD
  BY <1>1, HighFits, Zenon
<1>. HIDE DEF B, n, lo, hi, z
<1>7. /\ 256 * (n \div 256) + (n % 256) = n
      /\ 256 * (lo \div 256) + (lo % 256) = lo
  BY <1>6, TwoIs, ZenonT(60)
<1>8. CASE beat = 2
  <2>1. \A i \in 1 .. 6 : /\ 8 * (beat - 1) + (2 + i) = 10 + i /\ 10 + i <= z
                           /\ 2 + i \in 1 .. 8
    BY <1>2, <1>3, <1>8
  <2>2. \A i \in 1 .. 6 : bus.data[2 + i] = Six(hi)[i]
    BY <1>1, <1>5, <2>1, Zenon
  <2>3. beat # 3 /\ ~bus.last
    BY <1>1, <1>2, <1>8
  <2>. DEFINE d == bus.data
              x == Six(hi)
  <2>4. High = HighPart(256 * d[3] + d[4], 256 * d[5] + d[6], 256 * d[7] + d[8])
    BY DEF High, HighPart, Word
  <2>5. HighPart(256 * x[1] + x[2], 256 * x[3] + x[4], 256 * x[5] + x[6]) = hi
    BY <1>6a, SixIs
  <2>. HIDE DEF d, x
  <2>6. d[3] = x[1] /\ d[4] = x[2] /\ d[5] = x[3] /\ d[6] = x[4] /\ d[7] = x[5] /\ d[8] = x[6]
    <3>1. \A i \in 1 .. 6 : d[2 + i] = x[i]
      BY <2>2, Zenon DEF d, x
    <3>. QED
      BY <3>1
  <2>7. High = hi
    BY <2>4, <2>5, <2>6
  <2>. QED
    BY <2>3, <2>7, Zenon DEF hi
<1>9. CASE beat = 3
  <2>1. /\ 8 * (beat - 1) + 1 = 17 /\ 8 * (beat - 1) + 2 = 18
        /\ 8 * (beat - 1) + 3 = 19 /\ 8 * (beat - 1) + 4 = 20
        /\ 17 <= z /\ 18 <= z /\ 19 <= z /\ 20 <= z
        /\ 1 \in 1 .. 8 /\ 2 \in 1 .. 8 /\ 3 \in 1 .. 8 /\ 4 \in 1 .. 8
    BY <1>2, <1>3, <1>9
  <2>2. bus.data[1] = B[17] /\ bus.data[2] = B[18] /\ bus.data[3] = B[19] /\ bus.data[4] = B[20]
    BY <1>1, <2>1, ZenonT(60)
  <2>3. /\ Word(0) = 256 * bus.data[1] + bus.data[2]
        /\ Word(2) = 256 * bus.data[3] + bus.data[4]
    BY DEF Word
  <2>4. /\ bus.data[1] = lo \div 256 /\ bus.data[2] = lo % 256
        /\ bus.data[3] = n \div 256 /\ bus.data[4] = n % 256
    BY <1>5, <2>2, ZenonT(60)
  <2>5. Word(0) = lo
    BY <1>7, <2>3, <2>4
  <2>6. Word(2) = n
    BY <1>7, <2>3, <2>4
  <2>7. beat # 2 /\ ~bus.last
    BY <1>1, <1>2, <1>9
  <2>. QED
    BY <2>5, <2>6, <2>7, Zenon DEF lo, n
<1>10. beat = 1 => ~bus.last
  BY <1>1, <1>2
<1>11. beat \in 1 .. 3 => beat = 1 \/ beat = 2 \/ beat = 3
  OBVIOUS
<1>. QED
  BY <1>8, <1>9, <1>10, <1>11, Zenon

-----------------------------------------------------------------------------
(***************************************************************************)
(* The signals, in each state of the machine.                               *)
(***************************************************************************)
LEMMA OrZero == \A x : (x | 0) = x /\ (0 | x) = x
<1>1. ASSUME NEW x PROVE (x | 0) = x /\ (0 | x) = x
  BY Zenon DEF |
<1>. QED
  BY <1>1, Zenon

LEMMA Mask == \A x : Masked(TRUE, x) = x /\ Masked(FALSE, x) = 0
  BY DEF Masked

(* How the message at hand ends: q bytes of it are still to come.           *)
Ending(q) == /\ sel_msg_end /\ len_low = q /\ sel_len_inc2 = q + 2
             /\ msg_len_split <=> q = 7
             /\ msg_len_align <=> q = 8
             /\ msg_len_align_end <=> q = 6
             /\ msg_len_inner <=> q < 8 /\ q # 6
             /\ q <= 6 => msg_overlap_len = 6 - q

LEMMA EndOfMessage ==
    ASSUME sel_msg_len_q \in 0 .. 8, ~init_v
    PROVE  Ending(sel_msg_len_q)
<1>. DEFINE q == sel_msg_len_q
<1>1. q \div 16 = 0 /\ q % 16 = q /\ (q + 2) % 16 = q + 2 /\ (q <= 6 => (8 - (q + 2)) % 16 = 6 - q)
  OBVIOUS
<1>2. q \in 0 .. 8
  OBVIOUS
<1>3. len_low = q
  BY <1>1, Zenon DEF len_low, KEEP_MOD
<1>4. sel_len_inc2 = q + 2
  BY <1>1, <1>3, Zenon DEF sel_len_inc2, KEEP_MOD
<1>5. sel_msg_end
  BY <1>1, <1>2, <1>3 DEF sel_msg_end, AXI_KEEP_W, KEEP_MOD
<1>6. q <= 6 => msg_overlap_len = 6 - q
  BY <1>1, <1>4, Zenon DEF msg_overlap_len, AXI_KEEP_W, KEEP_MOD
<1>7. msg_len_align_end <=> q = 6
  BY <1>2, <1>3, <1>4 DEF msg_len_align_end, AXI_KEEP_W, KEEP_MOD
<1>8. msg_len_inner <=> q < 8 /\ q # 6
  BY <1>2, <1>3, <1>7 DEF msg_len_inner, AXI_KEEP_W
<1>9. (msg_len_split <=> q = 7) /\ (msg_len_align <=> q = 8)
  BY Zenon DEF msg_len_split, msg_len_align
<1>. QED
  BY <1>3, <1>4, <1>5, <1>6, <1>7, <1>8, <1>9, Zenon DEF Ending

LEMMA NotYet ==
    ASSUME sel_msg_len_q \in Nat, sel_msg_len_q > 8
    PROVE  ~sel_msg_end
<1>. DEFINE q == sel_msg_len_q
<1>1. q \in Nat /\ q > 8
  OBVIOUS
<1>. HIDE DEF q
<1>2. ~(q \div 16 = 0 /\ q % 16 <= 8)
  BY <1>1
<1>. QED
  BY <1>2, Zenon DEF sel_msg_end, len_low, KEEP_MOD, AXI_KEEP_W, q

LEMMA OnlyOne ==
    \A x : /\ (x | 0 | 0 | 0 | 0) = x /\ (0 | x | 0 | 0 | 0) = x
           /\ (0 | 0 | x | 0 | 0) = x /\ (0 | 0 | 0 | x | 0) = x
           /\ (0 | 0 | 0 | 0 | x) = x
           /\ (x | 0 | 0 | 0) = x /\ (0 | x | 0 | 0) = x
           /\ (0 | 0 | x | 0) = x /\ (0 | 0 | 0 | x) = x
           /\ (x | 0 | 0) = x /\ (0 | x | 0) = x /\ (0 | 0 | x) = x
  BY OrZero, Zenon

(* The length that comes next, in the one state that asks for it.           *)
InitLenIs(inHeader, inEnd, inMsg, inAlign, inSplit) ==
    init_len = (inHeader | inEnd | inMsg | inAlign | inSplit)

LEMMA InitLenSum ==
    InitLenIs(Masked(init_v, (Word(4) - 2) % LEN_MOD),
              Masked(d_msg_q /\ msg_len_align_end, Word(6)),
              Masked(d_msg_q /\ pload_overlap_v, init_overlap_len),
              Masked(d_align_q, (Word(0) - 6) % LEN_MOD),
              Masked(d_split_q, (256 * half_q + bus.data[1] - 7) % LEN_MOD))
  BY Zenon DEF InitLenIs, init_len

LEMMA NoLength ==
    ASSUME ~init_v, ~d_align_q, ~d_split_q,
           d_msg_q => ~msg_len_align_end /\ ~pload_overlap_v
    PROVE  init_len = 0
<1>1. /\ Masked(init_v, (Word(4) - 2) % LEN_MOD) = 0
      /\ Masked(d_align_q, (Word(0) - 6) % LEN_MOD) = 0
      /\ Masked(d_split_q, (256 * half_q + bus.data[1] - 7) % LEN_MOD) = 0
      /\ Masked(d_msg_q /\ msg_len_align_end, Word(6)) = 0
      /\ Masked(d_msg_q /\ pload_overlap_v, init_overlap_len) = 0
  BY Zenon DEF Masked
<1>2. InitLenIs(0, 0, 0, 0, 0)
  BY <1>1, InitLenSum, ZenonT(60)
<1>. QED
  BY <1>2, OnlyOne, Zenon DEF InitLenIs

LEMMA HeaderLength ==
    ASSUME init_v, ~d_msg_q, ~d_align_q, ~d_split_q
    PROVE  init_len = (Word(4) - 2) % LEN_MOD
<1>1. /\ Masked(init_v, (Word(4) - 2) % LEN_MOD) = (Word(4) - 2) % LEN_MOD
      /\ Masked(d_align_q, (Word(0) - 6) % LEN_MOD) = 0
      /\ Masked(d_split_q, (256 * half_q + bus.data[1] - 7) % LEN_MOD) = 0
      /\ Masked(d_msg_q /\ msg_len_align_end, Word(6)) = 0
      /\ Masked(d_msg_q /\ pload_overlap_v, init_overlap_len) = 0
  BY Zenon DEF Masked
<1>2. InitLenIs((Word(4) - 2) % LEN_MOD, 0, 0, 0, 0)
  BY <1>1, InitLenSum, ZenonT(60)
<1>. QED
  BY <1>2, OnlyOne, Zenon DEF InitLenIs

LEMMA AlignLength ==
    ASSUME ~init_v, ~d_msg_q, d_align_q, ~d_split_q
    PROVE  init_len = (Word(0) - 6) % LEN_MOD
<1>1. /\ Masked(init_v, (Word(4) - 2) % LEN_MOD) = 0
      /\ Masked(d_align_q, (Word(0) - 6) % LEN_MOD) = (Word(0) - 6) % LEN_MOD
      /\ Masked(d_split_q, (256 * half_q + bus.data[1] - 7) % LEN_MOD) = 0
      /\ Masked(d_msg_q /\ msg_len_align_end, Word(6)) = 0
      /\ Masked(d_msg_q /\ pload_overlap_v, init_overlap_len) = 0
  BY Zenon DEF Masked
<1>2. InitLenIs(0, 0, 0, (Word(0) - 6) % LEN_MOD, 0)
  BY <1>1, InitLenSum, ZenonT(60)
<1>. QED
  BY <1>2, OnlyOne, Zenon DEF InitLenIs

LEMMA SplitLength ==
    ASSUME ~init_v, ~d_msg_q, ~d_align_q, d_split_q
    PROVE  init_len = (256 * half_q + bus.data[1] - 7) % LEN_MOD
<1>1. /\ Masked(init_v, (Word(4) - 2) % LEN_MOD) = 0
      /\ Masked(d_align_q, (Word(0) - 6) % LEN_MOD) = 0
      /\ Masked(d_split_q, (256 * half_q + bus.data[1] - 7) % LEN_MOD)
             = (256 * half_q + bus.data[1] - 7) % LEN_MOD
      /\ Masked(d_msg_q /\ msg_len_align_end, Word(6)) = 0
      /\ Masked(d_msg_q /\ pload_overlap_v, init_overlap_len) = 0
  BY Zenon DEF Masked
<1>. DEFINE w == (256 * half_q + bus.data[1] - 7) % LEN_MOD
<1>2. InitLenIs(0, 0, 0, 0, w)
  BY <1>1, InitLenSum, ZenonT(60)
<1>. HIDE DEF w
<1>3. init_len = w
  BY <1>2, OnlyOne, Zenon DEF InitLenIs
<1>. QED
  BY <1>3, Zenon DEF w

LEMMA EndLength ==
    ASSUME ~init_v, d_msg_q, ~d_align_q, ~d_split_q, msg_len_align_end, ~pload_overlap_v
    PROVE  init_len = Word(6)
<1>1. /\ Masked(init_v, (Word(4) - 2) % LEN_MOD) = 0
      /\ Masked(d_align_q, (Word(0) - 6) % LEN_MOD) = 0
      /\ Masked(d_split_q, (256 * half_q + bus.data[1] - 7) % LEN_MOD) = 0
      /\ Masked(d_msg_q /\ msg_len_align_end, Word(6)) = Word(6)
      /\ Masked(d_msg_q /\ pload_overlap_v, init_overlap_len) = 0
  BY Zenon DEF Masked
<1>2. InitLenIs(0, Word(6), 0, 0, 0)
  BY <1>1, InitLenSum, ZenonT(60)
<1>. QED
  BY <1>2, OnlyOne, Zenon DEF InitLenIs

LEMMA OverlapLength ==
    ASSUME ~init_v, d_msg_q, ~d_align_q, ~d_split_q, ~msg_len_align_end, pload_overlap_v
    PROVE  init_len = init_overlap_len
<1>1. /\ Masked(init_v, (Word(4) - 2) % LEN_MOD) = 0
      /\ Masked(d_align_q, (Word(0) - 6) % LEN_MOD) = 0
      /\ Masked(d_split_q, (256 * half_q + bus.data[1] - 7) % LEN_MOD) = 0
      /\ Masked(d_msg_q /\ msg_len_align_end, Word(6)) = 0
      /\ Masked(d_msg_q /\ pload_overlap_v, init_overlap_len) = init_overlap_len
  BY Zenon DEF Masked
<1>2. InitLenIs(0, 0, init_overlap_len, 0, 0)
  BY <1>1, InitLenSum, Zenon
<1>. QED
  BY <1>2, OnlyOne, Zenon DEF InitLenIs

(* What the main pipe gives out, in the same states.                        *)
DataLenIs(split, align, msg, header) == sel_data_len = (split | align | msg | header)
ShiftIs(split, align, header) == sel_data_shift = (split | align | header)

LEMMA DataSums ==
    /\ ~(d_msg_q /\ sel_msg_end) =>
           DataLenIs(Masked(d_split_q, 7), Masked(d_align_q, 6),
                     Masked(d_msg_q, 8), Masked(bus.valid /\ init_v, 2))
    /\ d_msg_q /\ sel_msg_end => sel_data_len = len_low
    /\ ShiftIs(Masked(d_split_q, 1), Masked(d_align_q, 2), Masked(bus.valid /\ init_v, 6))
  BY Zenon DEF DataLenIs, ShiftIs, sel_data_len, sel_data_shift, AXI_KEEP_W, HEADER_DATA_OFF

LEMMA HeaderData ==
    ASSUME bus.valid, init_v, ~d_msg_q, ~d_align_q, ~d_split_q
    PROVE  data_o = Shifted(6, 2)
<1>1. /\ Masked(d_split_q, 7) = 0 /\ Masked(d_align_q, 6) = 0 /\ Masked(d_msg_q, 8) = 0
      /\ Masked(bus.valid /\ init_v, 2) = 2
      /\ Masked(d_split_q, 1) = 0 /\ Masked(d_align_q, 2) = 0
      /\ Masked(bus.valid /\ init_v, 6) = 6
  BY Zenon DEF Masked
<1>2. DataLenIs(0, 0, 0, 2) /\ ShiftIs(0, 0, 6)
  BY <1>1, DataSums, Zenon
<1>3. sel_data_len = 2 /\ sel_data_shift = 6
  BY <1>2, OnlyOne, Zenon DEF DataLenIs, ShiftIs
<1>. QED
  BY <1>3, Zenon DEF data_o

LEMMA AlignData ==
    ASSUME ~init_v, ~d_msg_q, d_align_q, ~d_split_q
    PROVE  data_o = Shifted(2, 6)
<1>1. /\ Masked(d_split_q, 7) = 0 /\ Masked(d_align_q, 6) = 6 /\ Masked(d_msg_q, 8) = 0
      /\ Masked(bus.valid /\ init_v, 2) = 0
      /\ Masked(d_split_q, 1) = 0 /\ Masked(d_align_q, 2) = 2
      /\ Masked(bus.valid /\ init_v, 6) = 0
  BY Zenon DEF Masked
<1>2. DataLenIs(0, 6, 0, 0) /\ ShiftIs(0, 2, 0)
  BY <1>1, DataSums, Zenon
<1>3. sel_data_len = 6 /\ sel_data_shift = 2
  BY <1>2, OnlyOne, Zenon DEF DataLenIs, ShiftIs
<1>. QED
  BY <1>3, Zenon DEF data_o

LEMMA SplitData ==
    ASSUME ~init_v, ~d_msg_q, ~d_align_q, d_split_q
    PROVE  data_o = Shifted(1, 7)
<1>1. /\ Masked(d_split_q, 7) = 7 /\ Masked(d_align_q, 6) = 0 /\ Masked(d_msg_q, 8) = 0
      /\ Masked(bus.valid /\ init_v, 2) = 0
      /\ Masked(d_split_q, 1) = 1 /\ Masked(d_align_q, 2) = 0
      /\ Masked(bus.valid /\ init_v, 6) = 0
  BY Zenon DEF Masked
<1>2. DataLenIs(7, 0, 0, 0) /\ ShiftIs(1, 0, 0)
  BY <1>1, DataSums, Zenon
<1>3. sel_data_len = 7 /\ sel_data_shift = 1
  BY <1>2, OnlyOne, Zenon DEF DataLenIs, ShiftIs
<1>. QED
  BY <1>3, Zenon DEF data_o

LEMMA MessageData ==
    ASSUME ~init_v, d_msg_q, ~d_align_q, ~d_split_q
    PROVE  data_o = Shifted(0, IF sel_msg_end THEN len_low ELSE 8)
<1>1. /\ Masked(d_split_q, 7) = 0 /\ Masked(d_align_q, 6) = 0 /\ Masked(d_msg_q, 8) = 8
      /\ Masked(bus.valid /\ init_v, 2) = 0
      /\ Masked(d_split_q, 1) = 0 /\ Masked(d_align_q, 2) = 0
      /\ Masked(bus.valid /\ init_v, 6) = 0
  BY Zenon DEF Masked
<1>2. ShiftIs(0, 0, 0) /\ (~sel_msg_end => DataLenIs(0, 0, 8, 0))
      /\ (sel_msg_end => sel_data_len = len_low)
  BY <1>1, DataSums, Zenon
<1>3. sel_data_shift = 0 /\ sel_data_len = IF sel_msg_end THEN len_low ELSE 8
  BY <1>2, OnlyOne, Zenon DEF DataLenIs, ShiftIs
<1>. QED
  BY <1>3, Zenon DEF data_o

-----------------------------------------------------------------------------
(***************************************************************************)
(* The sequence number in two parts.                                        *)
(***************************************************************************)
LEMMA DivMod == ASSUME NEW n \in Nat \ {0}, NEW x \in Nat
                PROVE  /\ x \div n \in Nat /\ x % n \in 0 .. n - 1
                       /\ x = n * (x \div n) + (x % n)
  BY SMT

LEMMA ModIs == ASSUME NEW n \in Nat \ {0}, NEW q \in Nat, NEW r \in 0 .. n - 1
               PROVE  (n * q + r) % n = r
<1>. DEFINE x == n * q + r
            d == x \div n
            m == x % n
<1>1. n * q \in Nat /\ x \in Nat
  BY SMT
<1>2. d \in Nat /\ m \in 0 .. n - 1 /\ x = n * d + m
  BY <1>1, DivMod
<1>3. n * q + r = n * d + m
  BY <1>2
<1>. HIDE DEF x, d, m
<1>4. ASSUME NEW u \in Nat, NEW v \in Nat, NEW s \in 0 .. n - 1, NEW t \in 0 .. n - 1,
             n * u + s = n * v + t
      PROVE  ~(u < v)
  <2>1. SUFFICES ASSUME u < v PROVE FALSE
    OBVIOUS
  <2>2. PICK e \in Nat : v = u + 1 + e
    <3>1. v - u - 1 \in Nat /\ v = u + 1 + (v - u - 1)
      BY <2>1
    <3>. QED
      BY <3>1
  <2>3. n * v = n * u + n + n * e /\ n * e \in Nat /\ n * u \in Nat
    BY <2>2
  <2>. QED
    BY <1>4, <2>3
<1>5. q = d
  <2>1. ~(q < d) /\ ~(d < q)
    BY <1>2, <1>3, <1>4
  <2>. QED
    BY <1>2, <2>1
<1>6. m = r
  <2>1. n * d \in Nat
    BY <1>2
  <2>. QED
    BY <1>2, <1>3, <1>5, <2>1
<1>. QED
  BY <1>6 DEF m, x

LEMMA ModNext == ASSUME NEW n \in Nat \ {0}, NEW x \in Nat
                 PROVE  (x + 1) % n = IF (x % n) + 1 = n THEN 0 ELSE (x % n) + 1
<1>. DEFINE q == x \div n
            r == x % n
<1>1. q \in Nat /\ r \in 0 .. n - 1 /\ x = n * q + r
  BY DivMod
<1>. HIDE DEF q, r
<1>2. CASE r + 1 < n
  <2>1. x + 1 = n * q + (r + 1) /\ r + 1 \in 0 .. n - 1
    BY <1>1, <1>2
  <2>2. (x + 1) % n = r + 1
    BY <1>1, <2>1, ModIs, Zenon
  <2>3. r + 1 # n
    BY <1>1, <1>2
  <2>. QED
    BY <2>2, <2>3, Zenon DEF r
<1>3. CASE r + 1 = n
  <2>1. x + 1 = n * (q + 1) + 0 /\ 0 \in 0 .. n - 1 /\ q + 1 \in Nat
    BY <1>1, <1>3
  <2>2. (x + 1) % n = 0
    BY <2>1, ModIs, Zenon
  <2>. QED
    BY <1>3, <2>2, Zenon DEF r
<1>4. r + 1 < n \/ r + 1 = n
  BY <1>1
<1>. QED
  BY <1>2, <1>3, <1>4, Zenon

LEMMA DivSmall == ASSUME NEW n \in Nat \ {0}, NEW x \in 0 .. n - 1
                  PROVE  x % n = x /\ x \div n = 0 /\ n % n = 0 /\ n \div n = 1
  BY SMT

LEMMA Times == ASSUME NEW a \in Nat \ {0}, NEW b \in Nat \ {0}, NEW h \in 0 .. b - 1
               PROVE  /\ h * a \in Nat /\ (h + 1) * a = h * a + a /\ b * a = a * b
                      /\ h + 1 < b => h * a + a < a * b
                      /\ h + 1 = b => h * a + a = a * b
<1>1. h * a \in Nat /\ (h + 1) * a = h * a + a /\ b * a = a * b
  BY SMT
<1>2. h + 1 = b => h * a + a = a * b
  BY <1>1
<1>3. ASSUME h + 1 < b PROVE h * a + a < a * b
  <2>1. PICK d \in Nat : b = h + 1 + d + 1
    <3>1. b - (h + 1) - 1 \in Nat /\ b = h + 1 + ((b - (h + 1)) - 1) + 1
      BY <1>3
    <3>. QED
      BY <3>1
  <2>2. a * b = a * h + a + a * d + a /\ a * h = h * a /\ a * d \in Nat
    BY <2>1
  <2>. QED
    BY <1>1, <2>2
<1>. QED
  BY <1>1, <1>2, <1>3

(* A number is made of its two parts.                                       *)
LEMMA NumberParts ==
    ASSUME NEW s \in 0 .. N - 1
    PROVE  IsNumber((s \div SEQ_LO) % SEQ_HI, s % SEQ_LO, s)
<1>. DEFINE a == SEQ_LO
            b == SEQ_HI
            d == s \div a
            m == s % a
<1>1. a \in Nat \ {0} /\ b \in Nat \ {0} /\ N \in Nat \ {0} /\ N = a * b
  BY Sizes, NIs, Zenon DEF N
<1>. HIDE DEF a, b
<1>2. s \in Nat /\ s < N
  BY <1>1
<1>3. d \in Nat /\ m \in 0 .. a - 1 /\ s = a * d + m
  BY <1>1, <1>2, DivMod, Zenon
<1>. HIDE DEF d, m
<1>4. d \in 0 .. b - 1
  <2>1. ASSUME d >= b PROVE FALSE
    <3>1. PICK e \in Nat : d = b + e
      <4>1. d - b \in Nat /\ d = b + (d - b)
        BY <1>1, <1>3, <2>1
      <4>. QED
        BY <4>1
    <3>2. a * d = a * b + a * e /\ a * e \in Nat /\ a * b \in Nat
      BY <1>1, <3>1
    <3>. QED
      BY <1>1, <1>2, <1>3, <3>2
  <2>. QED
    BY <1>1, <1>3, <2>1
<1>5. d % b = d /\ s % N = s
  <2>1. s \in 0 .. N - 1
    OBVIOUS
  <2>. QED
    BY <1>1, <1>4, <2>1, DivSmall, Zenon
<1>6. d * a + m = s
  <2>1. d * a = a * d
    BY <1>1, <1>3
  <2>. QED
    BY <1>3, <2>1
<1>7. (s \div SEQ_LO) % SEQ_HI = d /\ s % SEQ_LO = m
  BY <1>5, Zenon DEF d, m, a, b
<1>8. d \in 0 .. SEQ_HI - 1 /\ m \in 0 .. SEQ_LO - 1 /\ d * SEQ_LO + m = s % N
  BY <1>3, <1>4, <1>5, <1>6, Zenon DEF a, b
<1>. QED
  BY <1>7, <1>8, Zenon DEF IsNumber

(* Adding one to the low part, and its carry to the high part, adds one.    *)
LEMMA NumberNext ==
    ASSUME NEW x \in Nat, NEW hi, NEW lo, IsNumber(hi, lo, x)
    PROVE  IsNumber((hi + (lo + 1) \div SEQ_LO) % SEQ_HI, (lo + 1) % SEQ_LO, x + 1)
<1>. DEFINE a == SEQ_LO
            b == SEQ_HI
            y == x % N
            h2 == (hi + (lo + 1) \div a) % b
            l2 == (lo + 1) % a
<1>1. a \in Nat \ {0} /\ b \in Nat \ {0} /\ N \in Nat \ {0} /\ N = a * b
  BY Sizes, NIs, Zenon DEF N
<1>2. hi \in 0 .. b - 1 /\ lo \in 0 .. a - 1 /\ hi * a + lo = y
  BY Zenon DEF IsNumber
<1>3. (x + 1) % N = IF y + 1 = N THEN 0 ELSE y + 1
  BY <1>1, ModNext, Zenon
<1>. HIDE DEF a, b, y
<1>4. /\ hi * a \in Nat /\ (hi + 1) * a = hi * a + a /\ b * a = a * b
      /\ hi + 1 < b => hi * a + a < a * b
      /\ hi + 1 = b => hi * a + a = a * b
  BY <1>1, <1>2, Times, Zenon
<1>5. CASE lo + 1 < a
  <2>1. lo + 1 \in 0 .. a - 1 /\ hi + 0 = hi
    BY <1>1, <1>2, <1>5
  <2>2. (lo + 1) % a = lo + 1 /\ (lo + 1) \div a = 0 /\ hi % b = hi
    BY <1>1, <1>2, <2>1, DivSmall, Zenon
  <2>3. h2 = hi /\ l2 = lo + 1
    BY <2>1, <2>2, Zenon
  <2>4. y + 1 # N /\ hi * a + (lo + 1) = y + 1
    BY <1>1, <1>2, <1>4, <1>5
  <2>. QED
    BY <1>2, <1>3, <2>1, <2>3, <2>4, Zenon DEF IsNumber, a, b
<1>6. CASE lo + 1 = a
  <2>1. (lo + 1) % a = 0 /\ (lo + 1) \div a = 1
    <3>1. 0 \in 0 .. a - 1
      BY <1>1
    <3>. QED
      BY <1>1, <1>6, <3>1, DivSmall, Zenon
  <2>2. CASE hi + 1 < b
    <3>1. hi + 1 \in 0 .. b - 1 /\ 0 \in 0 .. a - 1
      BY <1>1, <1>2, <2>2
    <3>2. h2 = hi + 1 /\ l2 = 0
      BY <1>1, <2>1, <3>1, DivSmall, Zenon
    <3>3. y + 1 # N /\ (hi + 1) * a + 0 = y + 1
      BY <1>1, <1>2, <1>4, <1>6, <2>2
    <3>. QED
      BY <1>3, <3>1, <3>2, <3>3, Zenon DEF IsNumber, a, b
  <2>3. CASE hi + 1 = b
    <3>1. 0 \in 0 .. b - 1 /\ 0 \in 0 .. a - 1
      BY <1>1
    <3>2. h2 = 0 /\ l2 = 0
      BY <1>1, <2>1, <2>3, <3>1, DivSmall, Zenon
    <3>3. y + 1 = N /\ 0 * a + 0 = 0
      BY <1>1, <1>2, <1>4, <1>6, <2>3
    <3>. QED
      BY <1>3, <3>1, <3>2, <3>3, Zenon DEF IsNumber, a, b
  <2>4. hi + 1 < b \/ hi + 1 = b
    BY <1>1, <1>2
  <2>. QED
    BY <2>2, <2>3, <2>4, Zenon
<1>7. lo + 1 < a \/ lo + 1 = a
  BY <1>1, <1>2
<1>. QED
  BY <1>5, <1>6, <1>7, Zenon

-----------------------------------------------------------------------------
(***************************************************************************)
(* What the consumer holds.                                                 *)
(***************************************************************************)
IsList(s, k) == s = [m \in 1 .. k |-> s[m]]

Begins(t, s, k) == \A m \in 1 .. k : t[m] = s[m]

LEMMA AppendIs ==
    ASSUME NEW k \in Nat, NEW s, NEW t, IsList(s, k), IsList(t, k + 1), Begins(t, s, k)
    PROVE  Append(s, t[k + 1]) = t
<1>. USE DEF IsList, Begins
<1>. DEFINE V == {s[m] : m \in 1 .. k} \cup {t[k + 1]}
            x == t[k + 1]
            u == Append(s, x)
<1>1. s \in Seq(V) /\ Len(s) = k /\ x \in V
  OBVIOUS
<1>. HIDE DEF V, x
<1>2. /\ u \in Seq(V) /\ Len(u) = k + 1
      /\ \A i \in 1 .. k : u[i] = s[i]
      /\ u[k + 1] = x
  BY <1>1, AppendProperties
<1>. HIDE DEF u
<1>3. u = [m \in 1 .. k + 1 |-> u[m]]
  BY <1>2
<1>4. \A m \in 1 .. k + 1 : u[m] = t[m]
  <2>1. \A m \in 1 .. k + 1 : m \in 1 .. k \/ m = k + 1
    OBVIOUS
  <2>. QED
    BY <1>2, <2>1, Zenon DEF x
<1>5. u = t
  BY <1>3, <1>4, Zenon
<1>. QED
  BY <1>5 DEF u, x

LEMMA AppendPart ==
    ASSUME NEW p, NEW k \in Nat, NEW b
    PROVE  Append(First(p, k), [i \in 1 .. b |-> p[k + 1][i]]) = Part(p, k, b)
<1>. DEFINE s == First(p, k)
            t == Part(p, k, b)
<1>1. \A m \in 1 .. k : m \in 1 .. k + 1 /\ m # k + 1
  OBVIOUS
<1>2. k + 1 \in 1 .. k + 1
  OBVIOUS
<1>3. s = [m \in 1 .. k |-> s[m]] /\ \A m \in 1 .. k : s[m] = p[m]
  BY Zenon DEF First
<1>4. IsList(t, k + 1)
  BY Zenon DEF Part, IsList
<1>5. /\ \A m \in 1 .. k : t[m] = p[m]
      /\ t[k + 1] = [i \in 1 .. b |-> p[k + 1][i]]
  BY <1>1, <1>2, Zenon DEF Part
<1>. HIDE DEF s, t
<1>6. Begins(t, s, k)
  BY <1>3, <1>5, Zenon DEF Begins
<1>7. IsList(s, k)
  BY <1>3, Zenon DEF IsList
<1>8. Append(s, t[k + 1]) = t
  BY <1>4, <1>6, <1>7, AppendIs, Zenon
<1>. QED
  BY <1>5, <1>8, Zenon DEF s, t

(* The first b bytes of the next message.                                   *)
LEMMA StartPart ==
    ASSUME NEW p, NEW k \in Nat, NEW off, NEW b, Brings(off, b, p[k + 1], 0)
    PROVE  Append(First(p, k), Shifted(off, b)) = Part(p, k, b)
<1>1. \A i \in 1 .. b : 0 + i = i
  OBVIOUS
<1>2. [i \in 1 .. b |-> p[k + 1][0 + i]] = [i \in 1 .. b |-> p[k + 1][i]]
  BY <1>1
<1>3. Shifted(off, b) = [i \in 1 .. b |-> p[k + 1][0 + i]]
  BY Zenon DEF Brings
<1>4. Shifted(off, b) = [i \in 1 .. b |-> p[k + 1][i]]
  BY <1>2, <1>3, Zenon
<1>. QED
  BY <1>4, AppendPart, Zenon

LEMMA AppendNumber ==
    ASSUME NEW s, NEW k \in Nat, s \in Nat
    PROVE  Append(Numbers(s, k), (s + k) % N) = Numbers(s, k + 1)
<1>. DEFINE t == Numbers(s, k)
            u == Numbers(s, k + 1)
<1>1. \A m \in 1 .. k : m \in 1 .. k + 1
  OBVIOUS
<1>2. k + 1 \in 1 .. k + 1 /\ s + (k + 1) - 1 = s + k
  OBVIOUS
<1>3. /\ t = [m \in 1 .. k |-> t[m]] /\ \A m \in 1 .. k : t[m] = (s + m - 1) % N
      /\ u = [m \in 1 .. k + 1 |-> u[m]] /\ \A m \in 1 .. k + 1 : u[m] = (s + m - 1) % N
  BY Zenon DEF Numbers
<1>. HIDE DEF t, u
<1>4. Append(t, u[k + 1]) = u
  <2>1. Begins(u, t, k)
    BY <1>1, <1>3, Zenon DEF Begins
  <2>2. IsList(t, k) /\ IsList(u, k + 1)
    BY <1>3, Zenon DEF IsList
  <2>. QED
    BY <2>1, <2>2, AppendIs, Zenon
<1>5. u[k + 1] = (s + k) % N
  BY <1>2, <1>3, Zenon
<1>. QED
  BY <1>4, <1>5, Zenon DEF t, u

Leads(s, q, a)    == s = [i \in 1 .. a |-> q[i]]
Trails(t, q, a, w) == t = [i \in 1 .. w |-> q[a + i]]

LEMMA ConcatIs ==
    ASSUME NEW a \in Nat, NEW w \in Nat, NEW q, NEW s0, NEW t0, Leads(s0, q, a), Trails(t0, q, a, w)
    PROVE  Leads(s0 \o t0, q, a + w)
<1>. DEFINE V == {q[i] : i \in 1 .. a + w}
            s == [i \in 1 .. a |-> q[i]]
            t == [i \in 1 .. w |-> q[a + i]]
            u == s \o t
<1>1. \A i \in 1 .. a + w : q[i] \in V
  OBVIOUS
<1>. HIDE DEF V
<1>2. s \in Seq(V) /\ Len(s) = a /\ \A i \in 1 .. a : s[i] = q[i]
  <2>1. \A i \in 1 .. a : i \in 1 .. a + w
    OBVIOUS
  <2>. QED
    BY <1>1, <2>1
<1>3. t \in Seq(V) /\ Len(t) = w /\ \A i \in 1 .. w : t[i] = q[a + i]
  <2>1. \A i \in 1 .. w : a + i \in 1 .. a + w
    OBVIOUS
  <2>. QED
    BY <1>1, <2>1
<1>. HIDE DEF s, t
<1>4. /\ u \in Seq(V) /\ Len(u) = a + w
      /\ \A i \in 1 .. a + w : u[i] = IF i <= a THEN s[i] ELSE t[i - a]
  <2>1. s \in Seq(V) /\ t \in Seq(V) /\ Len(s) = a /\ Len(t) = w
    BY <1>2, <1>3, Zenon
  <2>. HIDE DEF u
  <2>2. /\ s \o t \in Seq(V) /\ Len(s \o t) = Len(s) + Len(t)
        /\ \A i \in 1 .. Len(s) + Len(t) :
               (s \o t)[i] = IF i <= Len(s) THEN s[i] ELSE t[i - Len(s)]
    BY <2>1, ConcatProperties, Zenon
  <2>. QED
    BY <2>1, <2>2, Zenon DEF u
<1>. HIDE DEF u
<1>5. ASSUME NEW i \in 1 .. a + w PROVE u[i] = q[i]
  <2>1. CASE i <= a
    <3>1. i \in 1 .. a
      BY <2>1
    <3>. QED
      BY <1>2, <1>4, <2>1, <3>1
  <2>2. CASE ~(i <= a)
    <3>1. i - a \in 1 .. w /\ a + (i - a) = i
      BY <2>2
    <3>. QED
      BY <1>3, <1>4, <2>2, <3>1
  <2>. QED
    BY <2>1, <2>2
<1>6. u = [i \in 1 .. a + w |-> u[i]]
  BY <1>4
<1>7. u = [i \in 1 .. a + w |-> q[i]]
  BY <1>5, <1>6, Zenon
<1>8. s0 = s /\ t0 = t
  BY Zenon DEF Leads, Trails, s, t
<1>. QED
  BY <1>7, <1>8, Zenon DEF Leads, u

LEMMA LenIs == ASSUME NEW k \in Nat, NEW s, IsList(s, k)
               PROVE  Len(s) = k /\ (k > 0 => s # <<>>)
<1>1. Len(s) = k
  BY DEF IsList
<1>2. Len(<<>>) = 0
  OBVIOUS
<1>. QED
  BY <1>1, <1>2

LEMMA PartLen == ASSUME NEW p, NEW k \in Nat, NEW b
                 PROVE  Len(Part(p, k, b)) = k + 1 /\ Part(p, k, b) # <<>>
<1>1. IsList(Part(p, k, b), k + 1)
  BY Zenon DEF IsList, Part
<1>2. k + 1 \in Nat /\ k + 1 > 0
  OBVIOUS
<1>. QED
  BY <1>1, <1>2, LenIs, Zenon

(* Another w bytes of the message.                                          *)
Grows(p, k, a, off, w) == Extend(Part(p, k, a), Shifted(off, w)) = Part(p, k, a + w)

LEMMA GrowPart ==
    ASSUME NEW p, NEW k \in Nat, NEW a \in Nat, NEW w \in Nat, ~sel_data_start,
           NEW off, Brings(off, w, p[k + 1], a)
    PROVE  Grows(p, k, a, off, w)
<1>. DEFINE s == Part(p, k, a)
            t == [i \in 1 .. w |-> p[k + 1][a + i]]
<1>0. Shifted(off, w) = t
  BY Zenon DEF Brings
<1>1. k + 1 \in 1 .. k + 1 /\ Len(s) = k + 1 /\ s # <<>>
  BY PartLen
<1>2. s[k + 1] = [i \in 1 .. a |-> p[k + 1][i]]
  BY <1>1, Zenon DEF Part
<1>3. s[k + 1] \o t = [i \in 1 .. a + w |-> p[k + 1][i]]
  <2>. DEFINE q == p[k + 1]
  <2>1. Leads(s[k + 1], q, a) /\ Trails(t, q, a, w)
    BY <1>2, Zenon DEF Leads, Trails
  <2>. HIDE DEF q, s, t
  <2>2. Leads(s[k + 1] \o t, q, a + w)
    BY <2>1, ConcatIs, Zenon
  <2>. QED
    BY <2>2, Zenon DEF q, Leads
<1>4. Extend(s, t) = [s EXCEPT ![k + 1] = s[k + 1] \o t]
  BY <1>1, Zenon DEF Extend
<1>5. s = [m \in 1 .. k + 1 |-> s[m]]
  BY Zenon DEF Part
<1>6. [s EXCEPT ![k + 1] = s[k + 1] \o t]
          = [m \in 1 .. k + 1 |-> IF m = k + 1 THEN s[k + 1] \o t ELSE s[m]]
  <2>. HIDE DEF s, t
  <2>. QED
    BY <1>1, <1>5, Zenon
<1>7. \A m \in 1 .. k + 1 : m # k + 1 => s[m] = p[m]
  BY Zenon DEF Part
<1>8. [m \in 1 .. k + 1 |-> IF m = k + 1 THEN s[k + 1] \o t ELSE s[m]] = Part(p, k, a + w)
  <2>. DEFINE x == s[k + 1] \o t
              y == [i \in 1 .. a + w |-> p[k + 1][i]]
  <2>1. \A m \in 1 .. k + 1 : (IF m = k + 1 THEN x ELSE s[m]) =
            (IF m = k + 1 THEN [i \in 1 .. a + w |-> p[m][i]] ELSE p[m])
    <3>1. x = y
      BY <1>3
    <3>. HIDE DEF x, s
    <3>. QED
      BY <1>7, <3>1, Zenon
  <2>. HIDE DEF x, s
  <2>2. [m \in 1 .. k + 1 |-> IF m = k + 1 THEN x ELSE s[m]] = Part(p, k, a + w)
    BY <2>1, Zenon DEF Part
  <2>. QED
    BY <2>2, Zenon DEF x
<1>. QED
  BY <1>0, <1>4, <1>6, <1>8, Zenon DEF Grows

(* A message all of whose bytes have come is whole.                         *)
LEMMA WholePart ==
    ASSUME NEW p \in Packets, NEW k \in 0 .. Len(p) - 1
    PROVE  Part(p, k, Len(p[k + 1])) = First(p, k + 1)
<1>1. k + 1 \in 1 .. Len(p)
  BY PacketIs
<1>2. p[k + 1] \in Seq(Bytes)
  BY <1>1, PacketIs, Zenon
<1>3. p[k + 1] = [i \in 1 .. Len(p[k + 1]) |-> p[k + 1][i]]
  <2>. DEFINE q == p[k + 1]
  <2>1. q \in Seq(Bytes)
    BY <1>2
  <2>. HIDE DEF q
  <2>2. q = [i \in 1 .. Len(q) |-> q[i]]
    BY <2>1
  <2>. QED
    BY <2>2 DEF q
<1>4. \A m \in 1 .. k + 1 :
         (IF m = k + 1 THEN [i \in 1 .. Len(p[k + 1]) |-> p[m][i]] ELSE p[m]) = p[m]
  BY <1>3, Zenon
<1>. QED
  BY <1>4, Zenon DEF Part, First

LEMMA WholePacket == ASSUME NEW p \in Packets PROVE First(p, Len(p)) = p
<1>1. p \in Seq(Seq(Bytes))
  BY PacketIs, Zenon
<1>2. p = [m \in 1 .. Len(p) |-> p[m]]
  BY <1>1
<1>. QED
  BY <1>2, Zenon DEF First

LEMMA FirstNone == ASSUME NEW p PROVE First(p, 0) = <<>> /\ Numbers(p, 0) = <<>>
<1>1. 1 .. 0 = {}
  OBVIOUS
<1>. QED
  BY <1>1 DEF First, Numbers

-----------------------------------------------------------------------------
(***************************************************************************)
(* One edge of the clock, in each phase of a packet.                        *)
(***************************************************************************)
Clock == ParserClock /\ DispatchClock /\ Consume

Keep == pkt' = pkt /\ seq' = seq

LEMMA Step1 ==
    ASSUME OnBus, beat = 1, Header1, Clock
    PROVE  Header2'
<1>1. bus.valid /\ ~bus.last
  <2>1. beat \in 1 .. 3
    OBVIOUS
  <2>. QED
    BY <2>1, HeaderOnBus, Zenon DEF OnBus
<1>2. Clean /\ fsm_invalid_q /\ ~fsm_h1_q /\ ~init_v /\ ~fsm_msg_q
  BY Zenon DEF Header1
<1>3. d_invalid_q /\ ~d_msg_q /\ ~d_align_q /\ ~d_split_q /\ ~align_end_q
  BY <1>2, Zenon DEF Clean
<1>4. h0_v
  BY <1>1, <1>2, Zenon DEF h0_v
<1>5. ~fsm_invalid_q' /\ ~tlast_q' /\ fsm_h1_q' /\ ~init_v' /\ ~fsm_msg_q'
  BY <1>1, <1>2, <1>4, Zenon DEF Clock, ParserClock, FsmClock
<1>6. Clean'
  BY <1>1, <1>2, <1>3, Zenon DEF Clean, Clock, DispatchClock, align_next, split_next
<1>7. FirstBeat /\ ~sel_valid /\ ~ov_valid
  BY <1>1, <1>2, <1>3, Zenon DEF FirstBeat, sel_valid, ov_valid
<1>8. stream' = <<>> /\ ids' = <<>>
  BY <1>3, <1>7, Zenon DEF Clock, Consume, StreamNext, IdsNext
<1>. QED
  BY <1>5, <1>6, <1>8, Zenon DEF Header2

LEMMA Step2 ==
    ASSUME OnBus, beat = 2, Header2, Clock, Keep
    PROVE  Header3'
<1>1. bus.valid /\ ~bus.last /\ High = (seq \div SEQ_LO) % SEQ_HI
  <2>1. beat \in 1 .. 3
    OBVIOUS
  <2>. QED
    BY <2>1, HeaderOnBus, Zenon DEF OnBus
<1>2. /\ Clean /\ ~fsm_invalid_q /\ ~tlast_q /\ fsm_h1_q /\ ~init_v /\ ~fsm_msg_q
      /\ stream = <<>> /\ ids = <<>>
  BY Zenon DEF Header2
<1>3. d_invalid_q /\ ~d_msg_q /\ ~d_align_q /\ ~d_split_q /\ ~align_end_q
  BY <1>2, Zenon DEF Clean
<1>4. ~h0_v
  BY <1>2, Zenon DEF h0_v
<1>5. ~fsm_invalid_q' /\ ~tlast_q' /\ ~fsm_h1_q' /\ init_v' /\ ~fsm_msg_q'
  BY <1>1, <1>2, <1>4, Zenon DEF Clock, ParserClock, FsmClock
<1>6. Clean'
  BY <1>1, <1>2, <1>3, Zenon DEF Clean, Clock, DispatchClock, align_next, split_next
<1>7. ~FirstBeat /\ ~sel_valid /\ ~ov_valid
  <2>1. beat # 1
    OBVIOUS
  <2>. QED
    BY <2>1, <1>1, <1>2, <1>3, Zenon DEF FirstBeat, sel_valid, ov_valid
<1>8. stream' = <<>> /\ ids' = <<>>
  BY <1>2, <1>3, <1>7, Zenon DEF Clock, Consume, StreamNext, IdsNext
<1>9. seq_hi_q' = (seq' \div SEQ_LO) % SEQ_HI
  BY <1>1, <1>2, Zenon DEF Clock, ParserClock, SeqClock, Keep
<1>. QED
  BY <1>5, <1>6, <1>8, <1>9, Zenon DEF Header3

Follow == Keep /\ beat' = beat + 1

(* What is left of a length is a length.                                    *)
LEMMA Rest == ASSUME NEW w \in 0 .. LEN_MOD - 1, NEW d \in Nat, d <= w
              PROVE  (w - d) % LEN_MOD = w - d /\ w - d \in 0 .. LEN_MOD - 1
<1>1. LEN_MOD \in Nat \ {0}
  BY LenNat, Zenon
<1>2. w - d \in 0 .. LEN_MOD - 1
  BY <1>1
<1>. QED
  BY <1>1, <1>2, DivSmall, Zenon

LEMMA Step3 ==
    ASSUME OnBus, beat = 3, Header3, Clock, Follow
    PROVE  Passing(0, 4)'
<1>. DEFINE L == Len(pkt[0 + 1])
<1>1. bus.valid /\ ~bus.last /\ Word(0) = seq % SEQ_LO /\ Word(2) = Len(pkt)
  <2>1. beat \in 1 .. 3
    OBVIOUS
  <2>. QED
    BY <2>1, HeaderOnBus, Zenon DEF OnBus
<1>2. /\ Clean /\ ~fsm_invalid_q /\ ~tlast_q /\ ~fsm_h1_q /\ init_v /\ ~fsm_msg_q
      /\ stream = <<>> /\ ids = <<>>
      /\ seq_hi_q = (seq \div SEQ_LO) % SEQ_HI
  BY Zenon DEF Header3
<1>3. d_invalid_q /\ ~d_msg_q /\ ~d_align_q /\ ~d_split_q /\ ~align_end_q
  BY <1>2, Zenon DEF Clean
<1>4. ~h0_v
  BY <1>2, Zenon DEF h0_v
<1>5. ~fsm_invalid_q' /\ ~tlast_q' /\ ~fsm_h1_q' /\ ~init_v' /\ fsm_msg_q'
  BY <1>1, <1>2, <1>4, Zenon DEF Clock, ParserClock, FsmClock
<1>6. ~d_invalid_q' /\ d_msg_q' /\ ~d_align_q' /\ ~d_split_q' /\ ~align_end_q'
  BY <1>1, <1>2, <1>3, Zenon DEF Clock, DispatchClock, align_next, split_next
<1>7. /\ ~FirstBeat /\ sel_valid /\ ~ov_valid /\ ~sel_msg_end /\ ~msg_end_v
  <2>1. beat # 1
    OBVIOUS
  <2>. QED
    BY <2>1, <1>1, <1>2, <1>3, Zenon DEF FirstBeat, sel_valid, ov_valid, sel_msg_end, msg_end_v
<1>8. pkt \in Packets /\ seq \in 0 .. N - 1 /\ seq \in Nat
  BY OnTheBus, Zenon DEF OnBus, SenderOK
<1>9. /\ L \in 0 .. LEN_MOD - 1 /\ L \in Nat /\ L >= 9
      /\ 0 + 1 \in 1 .. Len(pkt) /\ (0 + 1) - 1 = 0
      /\ EndOf(pkt)[(0 + 1) - 1] = 20 /\ EndOf(pkt)[0] = 20
  <2>1. 0 + 1 \in 1 .. Len(pkt) /\ (0 + 1) - 1 = 0
    BY <1>8, PacketIs
  <2>. QED
    BY <1>8, <2>1, PacketIs, Starts
<1>10. Word(4) = L
  <2>1. 8 * (beat - 1) + 4 = EndOf(pkt)[(0 + 1) - 1] /\ 4 \in 0 .. 6
    BY <1>9
  <2>. QED
    BY <1>9, <2>1, LengthOnBus, Zenon
<1>11. sel_msg_len_q' = L - 2
  <2>1. init_len = (L - 2) % LEN_MOD
    BY <1>2, <1>3, <1>10, HeaderLength, Zenon
  <2>2. (L - 2) % LEN_MOD = L - 2
    <3>. HIDE DEF L
    <3>1. 2 \in Nat /\ 2 <= L
      BY <1>9
    <3>. QED
      BY <1>9, <3>1, Rest, Zenon
  <2>3. init_len_v
    BY <1>1, <1>2, Zenon DEF init_len_v
  <2>. QED
    BY <2>1, <2>2, <2>3, Zenon DEF Clock, DispatchClock, sel_msg_len_next
<1>12. stream' = Part(pkt, 0, 2)
  <2>1. data_o = Shifted(6, 2)
    BY <1>1, <1>2, <1>3, HeaderData, Zenon
  <2>2. Brings(6, 2, pkt[0 + 1], 0)
    <3>1. /\ 6 \in Nat /\ 2 \in Nat /\ 0 \in Nat /\ 6 + 2 <= 8 /\ 0 + 2 <= L
          /\ 8 * (beat - 1) + 6 = 20 + 2 + 0
      <4>. HIDE DEF L
      <4>. QED
        BY <1>9
    <3>2. InBeat(0 + 1, 6, 2, 0)
      BY <1>9, <3>1, Zenon DEF InBeat
    <3>. QED
      BY <1>9, <3>2, PartOnBus, Zenon
  <2>3. stream' = Append(<<>>, data_o)
    BY <1>2, <1>7, Zenon DEF Clock, Consume, StreamNext, Extend
  <2>4. First(pkt, 0) = <<>> /\ 0 \in Nat
    BY FirstNone, Zenon
  <2>. QED
    BY <2>1, <2>2, <2>3, <2>4, StartPart, Zenon
<1>13. ids' = Numbers(seq, 0)
  BY <1>2, <1>3, <1>7, FirstNone, Zenon DEF Clock, Consume, IdsNext
<1>14. msg_cnt_q' = Len(pkt)
  BY <1>1, <1>2, Zenon DEF Clock, ParserClock, msg_cnt_next
<1>15. IsNumber(seq_hi_q', seq_lo_q', seq + 0)
  <2>1. seq_lo_q' = seq % SEQ_LO /\ seq_hi_q' = (seq \div SEQ_LO) % SEQ_HI
    BY <1>1, <1>2, <1>7, Zenon DEF Clock, ParserClock, SeqClock
  <2>2. seq + 0 = seq
    BY <1>8
  <2>. QED
    BY <1>8, <2>1, <2>2, NumberParts, Zenon
<1>16. pkt' = pkt /\ seq' = seq /\ beat' = beat + 1
  BY Zenon DEF Follow, Keep
<1>17. Within(0, 4)'
  <2>1. sel_msg_len_q' = 2 + L - 4
    <3>. HIDE DEF L
    <3>. QED
      BY <1>9, <1>11
  <2>2. 4 - 2 = 2 /\ 4 # 2
    OBVIOUS
  <2>. QED
    BY <1>6, <1>12, <1>16, <2>1, <2>2, Zenon DEF Within
<1>18. 8 * (beat' - 1) = EndOf(pkt')[0] + 4 /\ 4 < 2 + Len(pkt'[0 + 1]) /\ msg_cnt_q' = Len(pkt') - 0
  <2>1. 8 * (beat' - 1) = 20 + 4
    BY <1>16
  <2>2. 4 < 2 + L
    <3>. HIDE DEF L
    <3>. QED
      BY <1>9
  <2>3. msg_cnt_q' = Len(pkt) - 0
    BY <1>8, <1>14, PacketIs
  <2>. QED
    BY <1>9, <1>16, <2>1, <2>2, <2>3, Zenon
<1>19. 4 # 0 /\ 4 # 1
  OBVIOUS
<1>. QED
  BY <1>5, <1>6, <1>13, <1>15, <1>16, <1>17, <1>18, <1>19, Zenon DEF Passing

(* k messages are whole, and r bytes of the next and its length are in.     *)
Amid(k, r) == /\ OnBus /\ k \in 0 .. Len(pkt) - 1 /\ r \in Nat
              /\ Passing(k, r)

LEMMA AmidIs ==
    ASSUME NEW k, NEW r, Amid(k, r)
    PROVE  /\ pkt \in Packets /\ seq \in Nat /\ beat \in Nat
           /\ k \in Nat /\ r \in Nat /\ k + 1 \in 1 .. Len(pkt) /\ (k + 1) - 1 = k
           /\ Len(pkt) \in Nat /\ Len(pkt) > k
           /\ Len(pkt[k + 1]) \in 0 .. LEN_MOD - 1 /\ Len(pkt[k + 1]) \in Nat
           /\ Len(pkt[k + 1]) >= 9
           /\ EndOf(pkt)[k] \in Nat /\ EndOf(pkt)[(k + 1) - 1] = EndOf(pkt)[k]
           /\ EndOf(pkt)[k + 1] = EndOf(pkt)[k] + 2 + Len(pkt[k + 1])
           /\ 8 * (beat - 1) = EndOf(pkt)[k] + r
           /\ r < 2 + Len(pkt[k + 1])
           /\ ~FirstBeat /\ bus.valid
           /\ bus.last <=> k + 1 = Len(pkt) /\ 2 + Len(pkt[k + 1]) - r <= 8
<1>. DEFINE n == Len(pkt)
            L == Len(pkt[k + 1])
            e == EndOf(pkt)[k]
            z == EndOf(pkt)[n]
<1>1. /\ OnBus /\ k \in 0 .. n - 1 /\ r \in Nat /\ 8 * (beat - 1) = e + r /\ r < 2 + L
  BY Zenon DEF Amid, Passing
<1>2. /\ pkt \in Packets /\ seq \in Nat /\ beat \in Nat
      /\ bus.last <=> z <= 8 * (beat - 1) + 8
  BY <1>1, OnTheBus, Zenon
<1>3. n \in Nat /\ n >= 1
  BY <1>2, PacketIs, Zenon
<1>4. k \in Nat /\ k + 1 \in 1 .. n /\ (k + 1) - 1 = k /\ n > k
  BY <1>1, <1>3
<1>5. L \in 0 .. LEN_MOD - 1 /\ L \in Nat /\ L >= 9
  BY <1>2, <1>4, PacketIs, Zenon
<1>6. /\ e \in Nat /\ e >= 20 /\ z \in Nat /\ EndOf(pkt)[k + 1] \in Nat
      /\ EndOf(pkt)[k + 1] = e + 2 + L /\ e + 2 + L <= z
      /\ k + 1 < n => EndOf(pkt)[k + 1] + 11 <= z
  BY <1>2, <1>4, Ahead
<1>7. k + 1 = n => z = e + 2 + L
  BY <1>6
<1>8. 8 * (beat - 1) = e + r
  BY <1>1
<1>. HIDE DEF n, L, e, z
<1>9. bus.last <=> k + 1 = n /\ 2 + L - r <= 8
  <2>1. z <= (e + r) + 8 <=> k + 1 = n /\ 2 + L - r <= 8
    <3>1. CASE k + 1 = n
      <4>1. z = e + 2 + L
        BY <1>7, <3>1
      <4>. QED
        BY <1>1, <1>5, <1>6, <3>1, <4>1
    <3>2. CASE k + 1 # n
      <4>0. k + 1 < n
        BY <1>3, <1>4, <3>2
      <4>1. e + 2 + L + 11 <= z
        BY <1>6, <4>0, Zenon
      <4>2. ~(z <= (e + r) + 8)
        BY <1>1, <1>5, <1>6, <4>1
      <4>. QED
        BY <3>2, <4>2, Zenon
    <3>. QED
      BY <3>1, <3>2, Zenon
  <2>. QED
    BY <1>2, <1>8, <2>1, Zenon
<1>10. beat # 1
  BY <1>1, <1>2, <1>6, <1>8
<1>11. ~FirstBeat /\ bus.valid
  BY <1>1, <1>10, Zenon DEF FirstBeat, OnBus
<1>. QED
  BY <1>1, <1>2, <1>3, <1>4, <1>5, <1>6, <1>8, <1>9, <1>11, Zenon DEF n, L, e

(* What a beat in the middle of a packet leaves alone.                      *)
LEMMA GoOn ==
    ASSUME NEW k, NEW r, Amid(k, r), Clock, ~bus.last
    PROVE  /\ ~d_invalid_q' /\ ~fsm_invalid_q' /\ ~tlast_q' /\ ~fsm_h1_q' /\ ~init_v'
           /\ fsm_msg_q'
           /\ ~msg_end_v => /\ msg_cnt_q' = msg_cnt_q /\ ids' = ids
                            /\ seq_hi_q' = seq_hi_q /\ seq_lo_q' = seq_lo_q
<1>1. /\ bus.valid /\ ~FirstBeat /\ Len(pkt) \in Nat /\ k \in Nat /\ Len(pkt) > k
  BY AmidIs, Zenon
<1>2. /\ ~d_invalid_q /\ ~fsm_invalid_q /\ ~tlast_q /\ ~fsm_h1_q /\ ~init_v /\ fsm_msg_q
      /\ msg_cnt_q = Len(pkt) - k
  BY Zenon DEF Amid, Passing
<1>3. ~cnt_end
  BY <1>1, <1>2 DEF cnt_end
<1>4. ~h0_v
  BY <1>2, Zenon DEF h0_v
<1>5. ~fsm_invalid_q' /\ ~tlast_q' /\ ~fsm_h1_q' /\ ~init_v' /\ fsm_msg_q'
  BY <1>1, <1>2, <1>3, <1>4, Zenon DEF Clock, ParserClock, FsmClock
<1>6. ~d_invalid_q'
  BY <1>1, <1>2, Zenon DEF Clock, DispatchClock
<1>7. ~msg_end_v => /\ msg_cnt_q' = msg_cnt_q /\ ids' = ids
                    /\ seq_hi_q' = seq_hi_q /\ seq_lo_q' = seq_lo_q
  BY <1>1, <1>2, Zenon DEF Clock, ParserClock, msg_cnt_next, SeqClock, Consume, IdsNext
<1>. QED
  BY <1>5, <1>6, <1>7, Zenon

(* What this beat brings of the message at hand, and of the one behind it.  *)
PartIs(off, w, a, v) == off \in Nat /\ w \in Nat /\ a \in Nat /\ off + w <= 8 /\ a + w <= v

LEMMA PartHere ==
    ASSUME NEW k, NEW r, Amid(k, r), NEW off, NEW w, NEW a,
           PartIs(off, w, a, Len(pkt[k + 1])), r + off = 2 + a
    PROVE  Brings(off, w, pkt[k + 1], a)
<1>. DEFINE e == EndOf(pkt)[k]
<1>1. /\ OnBus /\ k + 1 \in 1 .. Len(pkt) /\ e \in Nat /\ EndOf(pkt)[(k + 1) - 1] = e
      /\ 8 * (beat - 1) = e + r /\ r \in Nat
  BY AmidIs, Zenon DEF Amid
<1>2. /\ off \in Nat /\ w \in Nat /\ a \in Nat /\ off + w <= 8 /\ a + w <= Len(pkt[k + 1])
  BY Zenon DEF PartIs
<1>3. 8 * (beat - 1) + off = e + 2 + a
  <2>. DEFINE c == 8 * (beat - 1)
  <2>1. c = e + r /\ r + off = 2 + a /\ e \in Nat /\ r \in Nat /\ off \in Nat /\ a \in Nat
    BY <1>1, <1>2, Zenon
  <2>. HIDE DEF e, c
  <2>2. c + off = e + 2 + a
    BY <2>1
  <2>. QED
    BY <2>2, Zenon DEF c
<1>4. InBeat(k + 1, off, w, a)
  BY <1>1, <1>2, <1>3, Zenon DEF InBeat
<1>. QED
  BY <1>1, <1>4, PartOnBus, Zenon

LEMMA PartNext ==
    ASSUME NEW k, NEW r, Amid(k, r), NEW off, NEW w, NEW a,
           k + 1 < Len(pkt), PartIs(off, w, a, Len(pkt[(k + 1) + 1])),
           r + off = 2 + Len(pkt[k + 1]) + 2 + a
    PROVE  Brings(off, w, pkt[(k + 1) + 1], a)
<1>. DEFINE e == EndOf(pkt)[k]
            L == Len(pkt[k + 1])
<1>1. /\ OnBus /\ e \in Nat /\ EndOf(pkt)[k + 1] = e + 2 + L /\ L \in Nat
      /\ 8 * (beat - 1) = e + r /\ r \in Nat /\ Len(pkt) \in Nat /\ k \in Nat
  BY AmidIs, Zenon DEF Amid
<1>2. (k + 1) + 1 \in 1 .. Len(pkt) /\ ((k + 1) + 1) - 1 = k + 1
  BY <1>1
<1>3. /\ off \in Nat /\ w \in Nat /\ a \in Nat /\ off + w <= 8 /\ a + w <= Len(pkt[(k + 1) + 1])
  BY Zenon DEF PartIs
<1>4. 8 * (beat - 1) + off = e + 2 + L + 2 + a
  <2>. DEFINE c == 8 * (beat - 1)
  <2>1. /\ c = e + r /\ r + off = 2 + L + 2 + a
        /\ e \in Nat /\ r \in Nat /\ off \in Nat /\ a \in Nat /\ L \in Nat
    BY <1>1, <1>3, Zenon
  <2>. HIDE DEF e, c, L
  <2>2. c + off = e + 2 + L + 2 + a
    BY <2>1
  <2>. QED
    BY <2>2, Zenon DEF c
<1>5. 8 * (beat - 1) + off = EndOf(pkt)[((k + 1) + 1) - 1] + 2 + a
  BY <1>1, <1>2, <1>4, Zenon
<1>6. InBeat((k + 1) + 1, off, w, a)
  BY <1>3, <1>5, Zenon DEF InBeat
<1>. QED
  BY <1>1, <1>2, <1>6, PartOnBus, Zenon

(* The message starts with this beat: d_align_q, both bytes of its length   *)
(* in the beat; d_split_q, one in the beat before.                          *)
LEMMA StepAligned ==
    ASSUME NEW k, Amid(k, 0), Clock, Follow
    PROVE  Passing(k, 8)'
<1>. DEFINE L == Len(pkt[k + 1])
            e == EndOf(pkt)[k]
<1>1. /\ pkt \in Packets /\ seq \in Nat /\ beat \in Nat
      /\ k \in Nat /\ k + 1 \in 1 .. Len(pkt) /\ (k + 1) - 1 = k
      /\ L \in 0 .. LEN_MOD - 1 /\ L \in Nat /\ L >= 9
      /\ e \in Nat /\ EndOf(pkt)[(k + 1) - 1] = e
      /\ 8 * (beat - 1) = e + 0
      /\ ~FirstBeat /\ bus.valid
      /\ bus.last <=> k + 1 = Len(pkt) /\ 2 + L - 0 <= 8
  BY AmidIs, Zenon
<1>2. ~bus.last
  <2>. HIDE DEF L, e
  <2>1. ~(2 + L - 0 <= 8)
    BY <1>1
  <2>. QED
    BY <1>1, <2>1, Zenon
<1>3. /\ ~d_invalid_q /\ ~init_v /\ OnBus
      /\ msg_cnt_q = Len(pkt) - k /\ ids = Numbers(seq, k) /\ IsNumber(seq_hi_q, seq_lo_q, seq + k)
      /\ Aligned(k)
  BY Zenon DEF Amid, Passing
<1>4. /\ d_align_q /\ ~d_msg_q /\ ~d_split_q /\ ~align_end_q
      /\ sel_msg_len_q = 0 /\ stream = First(pkt, k)
  BY <1>3, Zenon DEF Aligned
<1>5. sel_msg_end
  <2>1. Ending(0)
    <3>1. sel_msg_len_q \in 0 .. 8
      BY <1>4
    <3>2. Ending(sel_msg_len_q)
      BY <1>3, <3>1, EndOfMessage, Zenon
    <3>. QED
      BY <1>4, <3>2, Zenon
  <2>. QED
    BY <2>1, Zenon DEF Ending
<1>6. ~msg_end_v /\ init_len_v /\ sel_valid /\ ~ov_valid /\ sel_data_start
  BY <1>1, <1>2, <1>3, <1>4, <1>5, Zenon
     DEF msg_end_v, init_len_v, sel_valid, ov_valid, pload_overlap_v, sel_data_start
<1>7. /\ ~d_invalid_q' /\ ~fsm_invalid_q' /\ ~tlast_q' /\ ~fsm_h1_q' /\ ~init_v' /\ fsm_msg_q'
      /\ msg_cnt_q' = msg_cnt_q /\ ids' = ids
      /\ seq_hi_q' = seq_hi_q /\ seq_lo_q' = seq_lo_q
  BY <1>2, <1>6, GoOn, Zenon
<1>8. d_msg_q' /\ ~d_align_q' /\ ~d_split_q' /\ ~align_end_q'
  BY <1>1, <1>2, <1>3, <1>4, Zenon DEF Clock, DispatchClock, align_next, split_next
<1>9. sel_msg_len_q' = L - 6
  <2>1. Word(0) = L
    <3>1. 0 \in 0 .. 6 /\ 8 * (beat - 1) + 0 = 8 * (beat - 1) /\ e + 0 = e
      <4>. HIDE DEF e
      <4>. QED
        BY <1>1
    <3>2. 8 * (beat - 1) + 0 = EndOf(pkt)[(k + 1) - 1]
      BY <1>1, <3>1, Zenon
    <3>. QED
      BY <1>1, <1>3, <3>1, <3>2, LengthOnBus, Zenon
  <2>2. init_len = (L - 6) % LEN_MOD
    BY <1>3, <1>4, <2>1, AlignLength, Zenon
  <2>3. (L - 6) % LEN_MOD = L - 6
    <3>. HIDE DEF L
    <3>1. 6 \in Nat /\ 6 <= L
      BY <1>1
    <3>. QED
      BY <1>1, <3>1, Rest, Zenon
  <2>. QED
    BY <1>6, <2>2, <2>3, Zenon DEF Clock, DispatchClock, sel_msg_len_next
<1>10. stream' = Part(pkt, k, 6)
  <2>1. data_o = Shifted(2, 6)
    BY <1>3, <1>4, AlignData, Zenon
  <2>2. Brings(2, 6, pkt[k + 1], 0)
    <3>1. PartIs(2, 6, 0, L) /\ 0 + 2 = 2 + 0
      <4>. HIDE DEF L
      <4>. QED
        BY <1>1 DEF PartIs
    <3>. QED
      BY <3>1, PartHere, Zenon
  <2>3. stream' = Append(stream, data_o)
    BY <1>1, <1>6, Zenon DEF Clock, Consume, StreamNext, Extend
  <2>4. Append(First(pkt, k), Shifted(2, 6)) = Part(pkt, k, 6)
    <3>1. k \in Nat
      BY <1>1, Zenon
    <3>. QED
      BY <2>2, <3>1, StartPart, Zenon
  <2>. QED
    BY <1>4, <2>1, <2>3, <2>4, Zenon
<1>11. pkt' = pkt /\ seq' = seq /\ beat' = beat + 1
  BY Zenon DEF Follow, Keep
<1>12. /\ 2 + L - 8 = L - 6 /\ 8 - 2 = 6 /\ 8 # 2 /\ 8 # 0 /\ 8 # 1 /\ 8 < 2 + L
       /\ 8 * (beat' - 1) = e + 8
  <2>. HIDE DEF L, e
  <2>. QED
    BY <1>1, <1>11
<1>13. Within(k, 8)'
  BY <1>8, <1>9, <1>10, <1>11, <1>12, Zenon DEF Within
<1>. QED
  BY <1>3, <1>7, <1>11, <1>12, <1>13, Zenon DEF Passing

LEMMA StepSplit ==
    ASSUME NEW k, Amid(k, 1), Clock, Follow
    PROVE  Passing(k, 9)'
<1>. DEFINE L == Len(pkt[k + 1])
            e == EndOf(pkt)[k]
<1>1. /\ pkt \in Packets /\ seq \in Nat /\ beat \in Nat
      /\ k \in Nat /\ k + 1 \in 1 .. Len(pkt) /\ (k + 1) - 1 = k
      /\ L \in 0 .. LEN_MOD - 1 /\ L \in Nat /\ L >= 9
      /\ e \in Nat /\ EndOf(pkt)[(k + 1) - 1] = e
      /\ 8 * (beat - 1) = e + 1
      /\ ~FirstBeat /\ bus.valid
      /\ bus.last <=> k + 1 = Len(pkt) /\ 2 + L - 1 <= 8
  BY AmidIs, Zenon
<1>2. ~bus.last
  <2>. HIDE DEF L, e
  <2>1. ~(2 + L - 1 <= 8)
    BY <1>1
  <2>. QED
    BY <1>1, <2>1, Zenon
<1>3. /\ ~d_invalid_q /\ ~init_v /\ OnBus
      /\ msg_cnt_q = Len(pkt) - k /\ ids = Numbers(seq, k) /\ IsNumber(seq_hi_q, seq_lo_q, seq + k)
  BY Zenon DEF Amid, Passing
<1>4. /\ d_split_q /\ ~d_msg_q /\ ~d_align_q /\ ~align_end_q
      /\ sel_msg_len_q = 0 /\ stream = First(pkt, k) /\ half_q = L \div 256
  <2>1. 1 = 1
    OBVIOUS
  <2>2. Split(k)
    BY <2>1, Zenon DEF Amid, Passing
  <2>. QED
    BY <2>2, Zenon DEF Split
<1>5. sel_msg_end
  <2>1. sel_msg_len_q \in 0 .. 8
    BY <1>4
  <2>2. Ending(sel_msg_len_q)
    BY <1>3, <2>1, EndOfMessage, Zenon
  <2>. QED
    BY <2>2, Zenon DEF Ending
<1>6. ~msg_end_v /\ init_len_v /\ sel_valid /\ ~ov_valid /\ sel_data_start
  BY <1>1, <1>2, <1>3, <1>4, <1>5, Zenon
     DEF msg_end_v, init_len_v, sel_valid, ov_valid, pload_overlap_v, sel_data_start
<1>7. /\ ~d_invalid_q' /\ ~fsm_invalid_q' /\ ~tlast_q' /\ ~fsm_h1_q' /\ ~init_v' /\ fsm_msg_q'
      /\ msg_cnt_q' = msg_cnt_q /\ ids' = ids
      /\ seq_hi_q' = seq_hi_q /\ seq_lo_q' = seq_lo_q
  BY <1>2, <1>6, GoOn, Zenon
<1>8. d_msg_q' /\ ~d_align_q' /\ ~d_split_q' /\ ~align_end_q'
  BY <1>1, <1>2, <1>3, <1>4, Zenon DEF Clock, DispatchClock, align_next, split_next
<1>9. sel_msg_len_q' = L - 7
  <2>1. bus.data[1] = L % 256
    <3>1. 1 \in 1 .. 8 /\ 8 * (beat - 1) + 1 = EndOf(pkt)[(k + 1) - 1] + 2
      <4>. DEFINE c == 8 * (beat - 1)
      <4>1. c = e + 1 /\ e \in Nat
        BY <1>1, Zenon
      <4>. HIDE DEF e, c
      <4>2. c + 1 = e + 2 /\ 1 \in 1 .. 8
        BY <4>1
      <4>. QED
        BY <1>1, <4>2, Zenon DEF c
    <3>. QED
      BY <1>1, <1>3, <3>1, MessageOnBus, ZenonT(60)
  <2>2. 256 * (L \div 256) + (L % 256) = L
    <3>1. L \in 0 .. LEN_MOD - 1
      BY <1>1, Zenon
    <3>. HIDE DEF L
    <3>. QED
      BY <3>1, TwoIs, ZenonT(60)
  <2>3. init_len = (256 * half_q + bus.data[1] - 7) % LEN_MOD
    BY <1>3, <1>4, SplitLength, Zenon
  <2>4. 256 * half_q + bus.data[1] = L
    BY <1>4, <2>1, <2>2, Zenon
  <2>5. 256 * half_q + bus.data[1] - 7 = L - 7
    <3>1. half_q \in Nat /\ bus.data[1] \in Nat
      <4>1. L \div 256 \in Nat /\ L % 256 \in Nat
        <5>1. L \in Nat
          BY <1>1, Zenon
        <5>. HIDE DEF L
        <5>. QED
          BY <5>1
      <4>. QED
        BY <1>4, <2>1, <4>1, Zenon
    <3>. DEFINE h == half_q
                x == bus.data[1]
    <3>2. h \in Nat /\ x \in Nat /\ 256 * h + x = L
      BY <2>4, <3>1, Zenon
    <3>. HIDE DEF L, h, x
    <3>3. 256 * h + x - 7 = L - 7
      BY <3>2
    <3>. QED
      BY <3>3, Zenon DEF h, x
  <2>6. (L - 7) % LEN_MOD = L - 7
    <3>. HIDE DEF L
    <3>1. 7 \in Nat /\ 7 <= L
      BY <1>1
    <3>. QED
      BY <1>1, <3>1, Rest, Zenon
  <2>7. init_len = L - 7
    BY <2>3, <2>5, <2>6, Zenon
  <2>. QED
    BY <1>6, <2>7, Zenon DEF Clock, DispatchClock, sel_msg_len_next
<1>10. stream' = Part(pkt, k, 7)
  <2>1. data_o = Shifted(1, 7)
    BY <1>3, <1>4, SplitData, Zenon
  <2>2. Brings(1, 7, pkt[k + 1], 0)
    <3>1. PartIs(1, 7, 0, L) /\ 1 + 1 = 2 + 0
      <4>. HIDE DEF L
      <4>. QED
        BY <1>1 DEF PartIs
    <3>. QED
      BY <3>1, PartHere, Zenon
  <2>3. stream' = Append(stream, data_o)
    BY <1>1, <1>6, Zenon DEF Clock, Consume, StreamNext, Extend
  <2>4. Append(First(pkt, k), Shifted(1, 7)) = Part(pkt, k, 7)
    <3>1. k \in Nat
      BY <1>1, Zenon
    <3>. QED
      BY <2>2, <3>1, StartPart, Zenon
  <2>. QED
    BY <1>4, <2>1, <2>3, <2>4, Zenon
<1>11. pkt' = pkt /\ seq' = seq /\ beat' = beat + 1
  BY Zenon DEF Follow, Keep
<1>12. /\ 2 + L - 9 = L - 7 /\ 9 - 2 = 7 /\ 9 # 2 /\ 9 # 0 /\ 9 # 1 /\ 9 < 2 + L
       /\ 8 * (beat' - 1) = e + 9
  <2>. HIDE DEF L, e
  <2>. QED
    BY <1>1, <1>11
<1>13. Within(k, 9)'
  BY <1>8, <1>9, <1>10, <1>11, <1>12, Zenon DEF Within
<1>. QED
  BY <1>3, <1>7, <1>11, <1>12, <1>13, Zenon DEF Passing

(* In the middle of the message: eight bytes of it, and more to come.       *)
LEMMA StepWithin ==
    ASSUME NEW k, NEW r, Amid(k, r), r > 1, 2 + Len(pkt[k + 1]) - r > 8, Clock, Follow
    PROVE  Passing(k, r + 8)'
<1>. DEFINE L == Len(pkt[k + 1])
            e == EndOf(pkt)[k]
            q == 2 + L - r
<1>1. /\ pkt \in Packets /\ seq \in Nat /\ beat \in Nat
      /\ k \in Nat /\ k + 1 \in 1 .. Len(pkt) /\ (k + 1) - 1 = k /\ r \in Nat
      /\ L \in 0 .. LEN_MOD - 1 /\ L \in Nat /\ L >= 9
      /\ e \in Nat /\ EndOf(pkt)[(k + 1) - 1] = e
      /\ 8 * (beat - 1) = e + r
      /\ ~FirstBeat /\ bus.valid
      /\ bus.last <=> k + 1 = Len(pkt) /\ q <= 8
  BY AmidIs, Zenon
<1>2. /\ r > 1 /\ q > 8 /\ q \in Nat /\ q \in 0 .. LEN_MOD - 1 /\ 8 <= q /\ ~(q <= 8)
      /\ r # 0 /\ r # 1
  <2>1. r > 1 /\ q > 8
    OBVIOUS
  <2>2. LEN_MOD \in Nat
    BY Sizes, Zenon
  <2>. HIDE DEF L, e
  <2>. QED
    BY <1>1, <2>1, <2>2
<1>3. ~bus.last
  BY <1>1, <1>2, Zenon
<1>4. /\ ~d_invalid_q /\ ~init_v /\ OnBus
      /\ msg_cnt_q = Len(pkt) - k /\ ids = Numbers(seq, k) /\ IsNumber(seq_hi_q, seq_lo_q, seq + k)
      /\ Within(k, r)
  BY Zenon DEF Amid, Passing
<1>5. /\ d_msg_q /\ ~d_align_q /\ ~d_split_q /\ (align_end_q <=> r = 2) /\ sel_msg_len_q = q
      /\ stream = IF r = 2 THEN First(pkt, k) ELSE Part(pkt, k, r - 2)
  BY <1>4, Zenon DEF Within
<1>6. ~sel_msg_end
  <2>. HIDE DEF q
  <2>1. sel_msg_len_q \in Nat /\ sel_msg_len_q > 8
    BY <1>2, <1>5, Zenon
  <2>. QED
    BY <2>1, NotYet, Zenon
<1>7. ~msg_end_v /\ ~init_len_v /\ sel_valid /\ ~ov_valid /\ (sel_data_start <=> r = 2)
  BY <1>1, <1>3, <1>4, <1>5, <1>6, Zenon
     DEF msg_end_v, init_len_v, sel_valid, ov_valid, pload_overlap_v, sel_data_start
<1>8. /\ ~d_invalid_q' /\ ~fsm_invalid_q' /\ ~tlast_q' /\ ~fsm_h1_q' /\ ~init_v' /\ fsm_msg_q'
      /\ msg_cnt_q' = msg_cnt_q /\ ids' = ids
      /\ seq_hi_q' = seq_hi_q /\ seq_lo_q' = seq_lo_q
  BY <1>3, <1>7, GoOn, Zenon
<1>9. d_msg_q' /\ ~d_align_q' /\ ~d_split_q' /\ ~align_end_q'
  BY <1>1, <1>3, <1>4, <1>5, <1>6, Zenon DEF Clock, DispatchClock, align_next, split_next
<1>10. sel_msg_len_q' = q - 8
  <2>1. sel_msg_len_q' = (q - 8) % LEN_MOD
    BY <1>5, <1>6, <1>7, Zenon DEF Clock, DispatchClock, sel_msg_len_next
  <2>2. (q - 8) % LEN_MOD = q - 8
    <3>. HIDE DEF q
    <3>1. 8 \in Nat
      OBVIOUS
    <3>. QED
      BY <1>2, <3>1, Rest, Zenon
  <2>. QED
    BY <2>1, <2>2, Zenon
<1>11. stream' = Part(pkt, k, r + 6)
  <2>1. data_o = Shifted(0, 8)
    BY <1>4, <1>5, <1>6, MessageData, Zenon
  <2>2. Brings(0, 8, pkt[k + 1], r - 2)
    <3>1. PartIs(0, 8, r - 2, L) /\ r + 0 = 2 + (r - 2)
      <4>. HIDE DEF L
      <4>. QED
        BY <1>1, <1>2 DEF PartIs
    <3>. QED
      BY <3>1, PartHere, Zenon
  <2>3. stream' = Extend(stream, Shifted(0, 8))
    BY <1>1, <1>7, <2>1, Zenon DEF Clock, Consume, StreamNext
  <2>4. CASE r = 2
    <3>1. r - 2 = 0 /\ r + 6 = 8 /\ 8 = 8
      BY <2>4
    <3>2. Brings(0, 8, pkt[k + 1], 0)
      BY <2>2, <3>1, Zenon
    <3>3. Append(First(pkt, k), Shifted(0, 8)) = Part(pkt, k, 8)
      <4>1. k \in Nat
        BY <1>1, Zenon
      <4>. QED
        BY <3>2, <4>1, StartPart, Zenon
    <3>4. stream' = Append(stream, Shifted(0, 8))
      BY <1>7, <2>3, <2>4, Zenon DEF Extend
    <3>. QED
      BY <1>5, <2>4, <3>1, <3>3, <3>4, Zenon
  <2>5. CASE r # 2
    <3>1. r - 2 \in Nat /\ (r - 2) + 8 = r + 6
      BY <1>1, <1>2
    <3>2. stream = Part(pkt, k, r - 2) /\ ~sel_data_start
      BY <1>5, <1>7, <2>5, Zenon
    <3>3. Extend(Part(pkt, k, r - 2), Shifted(0, 8)) = Part(pkt, k, (r - 2) + 8)
      <4>. DEFINE a == r - 2
      <4>1. k \in Nat /\ 8 \in Nat /\ a \in Nat
        BY <1>1, <3>1
      <4>2. Brings(0, 8, pkt[k + 1], a) /\ ~sel_data_start
        BY <2>2, <3>2, Zenon
      <4>. HIDE DEF a, L, e, q
      <4>3. Grows(pkt, k, a, 0, 8)
        BY <4>1, <4>2, GrowPart, Zenon
      <4>. QED
        BY <4>3, Zenon DEF Grows, a
    <3>. QED
      BY <2>3, <3>1, <3>2, <3>3, Zenon
  <2>. QED
    BY <2>4, <2>5, Zenon
<1>12. pkt' = pkt /\ seq' = seq /\ beat' = beat + 1
  BY Zenon DEF Follow, Keep
<1>13. /\ 2 + L - (r + 8) = q - 8 /\ (r + 8) - 2 = r + 6
       /\ r + 8 # 2 /\ r + 8 # 0 /\ r + 8 # 1 /\ r + 8 < 2 + L
       /\ 8 * (beat' - 1) = e + (r + 8)
  <2>. HIDE DEF L, e
  <2>. QED
    BY <1>1, <1>2, <1>12
<1>14. Within(k, r + 8)'
  BY <1>9, <1>10, <1>11, <1>12, <1>13, Zenon DEF Within
<1>. QED
  BY <1>4, <1>8, <1>12, <1>13, <1>14, Zenon DEF Passing

(* The message ends in this beat, and q bytes of the beat are its.          *)
EndIn(k, r, q) == /\ Amid(k, r) /\ r > 1
                  /\ q = 2 + Len(pkt[k + 1]) - r /\ q <= 8

(* What the consumer has when the message is whole, before what the overlap  *)
(* pipe adds.                                                               *)
Taken(k) == stream' = IF ov_valid THEN Append(First(pkt, k + 1), ov_data_o) ELSE First(pkt, k + 1)

LEMMA EndHere ==
    ASSUME NEW k, NEW r, NEW q, EndIn(k, r, q), Clock
    PROVE  /\ q \in 1 .. 8 /\ Ending(q) /\ OnBus /\ bus.valid /\ ~init_v /\ ~d_invalid_q
           /\ d_msg_q /\ ~d_align_q /\ ~d_split_q
           /\ d_align_q' <=> q = 8
           /\ d_split_q' <=> q = 7
           /\ align_end_q' <=> q = 6
           /\ Taken(k) /\ ids' = Numbers(seq, k + 1)
           /\ IsNumber(seq_hi_q', seq_lo_q', seq + (k + 1))
           /\ msg_cnt_q' = Len(pkt) - (k + 1) /\ sel_msg_len_q' = init_len
<1>. DEFINE L == Len(pkt[k + 1])
<1>0. /\ Amid(k, r) /\ r > 1 /\ q = 2 + L - r /\ q <= 8
  BY Zenon DEF EndIn
<1>1. /\ pkt \in Packets /\ seq \in Nat
      /\ k \in Nat /\ k + 1 \in 1 .. Len(pkt) /\ r \in Nat
      /\ L \in Nat /\ L >= 9 /\ r < 2 + L /\ Len(pkt) \in Nat /\ Len(pkt) > k
      /\ ~FirstBeat /\ bus.valid
  BY <1>0, AmidIs, Zenon
<1>2. /\ q \in 1 .. 8 /\ q \in 0 .. 8 /\ q \in Nat /\ r > 2 /\ r - 2 \in Nat /\ r # 0 /\ r # 1 /\ r # 2
      /\ (r - 2) + q = L
  <2>. HIDE DEF L
  <2>. QED
    BY <1>0, <1>1
<1>3. /\ ~d_invalid_q /\ ~init_v /\ OnBus /\ ~fsm_h1_q
      /\ msg_cnt_q = Len(pkt) - k /\ ids = Numbers(seq, k) /\ IsNumber(seq_hi_q, seq_lo_q, seq + k)
      /\ Within(k, r)
  BY <1>0, Zenon DEF Amid, Passing
<1>4. /\ d_msg_q /\ ~d_align_q /\ ~d_split_q /\ ~align_end_q /\ sel_msg_len_q = q
      /\ stream = Part(pkt, k, r - 2)
  BY <1>0, <1>2, <1>3, Zenon DEF Within
<1>5. Ending(q)
  <2>. HIDE DEF L
  <2>1. sel_msg_len_q \in 0 .. 8
    BY <1>2, <1>4, Zenon
  <2>2. Ending(sel_msg_len_q)
    BY <1>3, <2>1, EndOfMessage, Zenon
  <2>. QED
    BY <1>4, <2>2, Zenon
<1>6. /\ sel_msg_end /\ len_low = q
      /\ msg_len_split <=> q = 7
      /\ msg_len_align <=> q = 8
      /\ msg_len_align_end <=> q = 6
  BY <1>5, Zenon DEF Ending
<1>7. msg_end_v /\ init_len_v /\ sel_valid /\ ~sel_data_start
  BY <1>1, <1>3, <1>4, <1>6, Zenon DEF msg_end_v, init_len_v, sel_valid, sel_data_start
<1>8. (d_align_q' <=> q = 8) /\ (d_split_q' <=> q = 7) /\ (align_end_q' <=> q = 6)
  BY <1>4, <1>6, Zenon DEF Clock, DispatchClock, align_next, split_next
<1>9. sel_msg_len_q' = init_len
  BY <1>7, Zenon DEF Clock, DispatchClock, sel_msg_len_next
<1>10. Taken(k)
  <2>1. data_o = Shifted(0, q)
    BY <1>3, <1>4, <1>6, MessageData, Zenon
  <2>2. Brings(0, q, pkt[k + 1], r - 2)
    <3>1. PartIs(0, q, r - 2, L) /\ r + 0 = 2 + (r - 2)
      <4>. HIDE DEF L
      <4>. QED
        BY <1>1, <1>2 DEF PartIs
    <3>. QED
      BY <1>0, <3>1, PartHere, Zenon
  <2>3. Extend(stream, data_o) = First(pkt, k + 1)
    <3>. DEFINE a == r - 2
    <3>1. k \in Nat /\ q \in Nat /\ a \in Nat /\ a + q = L
      BY <1>1, <1>2, Zenon
    <3>2. Brings(0, q, pkt[k + 1], a)
      BY <2>2, Zenon
    <3>3. Extend(stream, data_o) = Extend(Part(pkt, k, a), Shifted(0, q))
      BY <1>4, <2>1, Zenon
    <3>4. k \in 0 .. Len(pkt) - 1
      BY <1>0, Zenon DEF Amid
    <3>5. Part(pkt, k, L) = First(pkt, k + 1)
      BY <1>1, <3>4, WholePart, Zenon
    <3>. HIDE DEF a, L
    <3>6. Grows(pkt, k, a, 0, q)
      BY <1>7, <3>1, <3>2, GrowPart, Zenon
    <3>. QED
      BY <3>1, <3>3, <3>5, <3>6, Zenon DEF Grows
  <2>. QED
    BY <1>1, <1>7, <2>3, Zenon DEF Clock, Consume, StreamNext, Taken
<1>11. ids' = Numbers(seq, k + 1)
  <2>1. seq_o = (seq + k) % N
    BY <1>3, Zenon DEF seq_o, IsNumber
  <2>2. ids' = Append(Numbers(seq, k), (seq + k) % N)
    BY <1>1, <1>3, <1>7, <2>1, Zenon DEF Clock, Consume, IdsNext
  <2>. QED
    BY <1>1, <2>2, AppendNumber, Zenon
<1>12. IsNumber(seq_hi_q', seq_lo_q', seq + (k + 1))
  <2>1. /\ seq_lo_q' = (seq_lo_q + 1) % SEQ_LO
        /\ seq_hi_q' = (seq_hi_q + (seq_lo_q + 1) \div SEQ_LO) % SEQ_HI
    BY <1>3, <1>7, Zenon DEF Clock, ParserClock, SeqClock, seq_add_lo, seq_add_hi
  <2>2. seq + k \in Nat /\ (seq + k) + 1 = seq + (k + 1)
    BY <1>1
  <2>3. IsNumber((seq_hi_q + (seq_lo_q + 1) \div SEQ_LO) % SEQ_HI, (seq_lo_q + 1) % SEQ_LO, (seq + k) + 1)
    BY <1>3, <2>2, NumberNext, Zenon
  <2>. QED
    BY <2>1, <2>2, <2>3, Zenon
<1>13. msg_cnt_q' = Len(pkt) - (k + 1)
  <2>1. ~cnt_end /\ (Len(pkt) - k) - 1 = Len(pkt) - (k + 1)
    <3>. DEFINE n == Len(pkt)
    <3>1. n \in Nat /\ n > k /\ k \in Nat /\ msg_cnt_q = n - k
      BY <1>1, <1>3, Zenon
    <3>. HIDE DEF n
    <3>2. msg_cnt_q # 0 /\ (n - k) - 1 = n - (k + 1)
      BY <3>1
    <3>. QED
      BY <3>2, Zenon DEF n, cnt_end
  <2>2. msg_cnt_q' = msg_cnt_q - 1
    BY <1>3, <1>7, <2>1, Zenon DEF Clock, ParserClock, msg_cnt_next
  <2>. QED
    BY <1>3, <2>1, <2>2, Zenon
<1>. QED
  BY <1>1, <1>2, <1>3, <1>4, <1>5, <1>8, <1>9, <1>10, <1>11, <1>12, <1>13, Zenon

(* The next message, which begins in this beat or right behind it.          *)
LEMMA NextIs ==
    ASSUME NEW k, NEW r, NEW q, EndIn(k, r, q), ~bus.last
    PROVE  /\ k + 1 \in Nat /\ k + 1 < Len(pkt) /\ (k + 1) + 1 \in 1 .. Len(pkt)
           /\ ((k + 1) + 1) - 1 = k + 1
           /\ Len(pkt[(k + 1) + 1]) \in 0 .. LEN_MOD - 1
           /\ Len(pkt[(k + 1) + 1]) \in Nat /\ Len(pkt[(k + 1) + 1]) >= 9
           /\ EndOf(pkt)[k + 1] \in Nat /\ beat \in Nat
           /\ 8 * (beat - 1) + q = EndOf(pkt)[k + 1]
<1>. DEFINE L == Len(pkt[k + 1])
            e == EndOf(pkt)[k]
            c == 8 * (beat - 1)
            n == Len(pkt)
<1>1. Amid(k, r) /\ r > 1 /\ q = 2 + L - r /\ q <= 8
  BY Zenon DEF EndIn
<1>2. /\ pkt \in Packets /\ k \in Nat /\ n \in Nat /\ n > k /\ L \in Nat /\ r \in Nat
      /\ e \in Nat /\ EndOf(pkt)[k + 1] = e + 2 + L /\ c = e + r /\ r < 2 + L /\ beat \in Nat
      /\ bus.last <=> k + 1 = n /\ 2 + L - r <= 8
  BY <1>1, AmidIs, Zenon
<1>3. k + 1 # n
  BY <1>1, <1>2, Zenon
<1>. HIDE DEF n, e, c, L
<1>4. k + 1 \in Nat /\ k + 1 < n /\ (k + 1) + 1 \in 1 .. n /\ ((k + 1) + 1) - 1 = k + 1
  BY <1>2, <1>3
<1>5. e + 2 + L \in Nat /\ c + q = e + 2 + L
  BY <1>1, <1>2
<1>6. /\ Len(pkt[(k + 1) + 1]) \in 0 .. LEN_MOD - 1
      /\ Len(pkt[(k + 1) + 1]) \in Nat /\ Len(pkt[(k + 1) + 1]) >= 9
  BY <1>2, <1>4, PacketIs, Zenon DEF n
<1>. QED
  BY <1>2, <1>4, <1>5, <1>6, Zenon DEF n, c

(* What the next beat finds of the next message: none, one byte of its      *)
(* length, the length, or the length and up to five bytes.                  *)
LEMMA StepEnd ==
    ASSUME NEW k, NEW r, NEW q, EndIn(k, r, q), ~bus.last, Clock, Follow
    PROVE  Passing(k + 1, 8 - q)' /\ k + 1 \in 0 .. Len(pkt) - 1 /\ 8 - q \in Nat
<1>. DEFINE v == Len(pkt[(k + 1) + 1])
            e == EndOf(pkt)[k + 1]
            c == 8 * (beat - 1)
<1>1. /\ q \in 1 .. 8 /\ Ending(q) /\ OnBus /\ bus.valid /\ ~init_v /\ ~d_invalid_q
      /\ d_msg_q /\ ~d_align_q /\ ~d_split_q
      /\ d_align_q' <=> q = 8
      /\ d_split_q' <=> q = 7
      /\ align_end_q' <=> q = 6
      /\ Taken(k) /\ ids' = Numbers(seq, k + 1)
      /\ IsNumber(seq_hi_q', seq_lo_q', seq + (k + 1))
      /\ msg_cnt_q' = Len(pkt) - (k + 1) /\ sel_msg_len_q' = init_len
  BY EndHere, Zenon
<1>2. /\ k + 1 \in Nat /\ k + 1 < Len(pkt) /\ (k + 1) + 1 \in 1 .. Len(pkt)
      /\ ((k + 1) + 1) - 1 = k + 1
      /\ v \in 0 .. LEN_MOD - 1 /\ v \in Nat /\ v >= 9 /\ e \in Nat /\ beat \in Nat
      /\ c + q = e
  BY NextIs, Zenon
<1>3. /\ ~d_invalid_q' /\ ~fsm_invalid_q' /\ ~tlast_q' /\ ~fsm_h1_q' /\ ~init_v' /\ fsm_msg_q'
  BY GoOn, Zenon DEF EndIn
<1>4. /\ sel_msg_end /\ len_low = q /\ sel_len_inc2 = q + 2
      /\ msg_len_split <=> q = 7
      /\ msg_len_align <=> q = 8
      /\ msg_len_align_end <=> q = 6
      /\ msg_len_inner <=> q < 8 /\ q # 6
      /\ q <= 6 => msg_overlap_len = 6 - q
  BY <1>1, Zenon DEF Ending
<1>5. d_msg_q' <=> q # 7 /\ q # 8
  BY <1>1, <1>4, Zenon DEF Clock, DispatchClock, align_next, split_next
<1>6. pkt' = pkt /\ seq' = seq /\ beat' = beat + 1
  BY Zenon DEF Follow, Keep
<1>7. 8 * (beat' - 1) = e + (8 - q) /\ 8 - q < 2 + v /\ 8 - q \in Nat
  <2>1. 8 * (beat' - 1) = c + 8
    BY <1>2, <1>6
  <2>2. c + q = e /\ e \in Nat /\ v \in Nat /\ v >= 9 /\ q \in 1 .. 8 /\ c \in Int
    BY <1>1, <1>2
  <2>. HIDE DEF v, e, c
  <2>3. c + 8 = e + (8 - q) /\ 8 - q < 2 + v /\ 8 - q \in Nat
    BY <2>2
  <2>. QED
    BY <2>1, <2>3, Zenon
<1>13. k + 1 \in 0 .. Len(pkt) - 1
  <2>1. Len(pkt) \in Nat
    BY AmidIs, Zenon DEF EndIn
  <2>. QED
    BY <1>2, <2>1
<1>8. CASE q = 8
  <2>1. ~msg_len_inner /\ 8 # 7 /\ 8 # 6 /\ 8 - 8 = 0
    BY <1>4, <1>8
  <2>2. ~pload_overlap_v /\ ~ov_valid
    BY <2>1, Zenon DEF pload_overlap_v, ov_valid
  <2>3. sel_msg_len_q' = 0
    BY <1>1, <1>4, <1>8, <2>1, <2>2, NoLength, Zenon
  <2>4. stream' = First(pkt, k + 1)
    BY <1>1, <2>2, Zenon DEF Taken
  <2>5. Aligned(k + 1)'
    BY <1>1, <1>5, <1>6, <1>8, <2>1, <2>3, <2>4, Zenon DEF Aligned
  <2>6. Passing(k + 1, 0)'
    <3>1. 0 # 1 /\ ~(0 > 1)
      OBVIOUS
    <3>. QED
      BY <1>1, <1>3, <1>6, <1>7, <1>8, <2>1, <2>5, <3>1, Zenon DEF Passing
  <2>. QED
    BY <1>8, <2>1, <2>6, <1>7, <1>13, Zenon
<1>9. CASE q = 7
  <2>1. 7 # 8 /\ 7 # 6 /\ 8 - 7 = 1
    OBVIOUS
  <2>2. ~pload_overlap_v /\ ~ov_valid
    BY <1>4, <1>9, Zenon DEF pload_overlap_v, ov_valid
  <2>3. sel_msg_len_q' = 0
    BY <1>1, <1>4, <1>9, <2>1, <2>2, NoLength, Zenon
  <2>4. stream' = First(pkt, k + 1)
    BY <1>1, <2>2, Zenon DEF Taken
  <2>5. half_q' = v \div 256
    <3>1. bus.data[8] = v \div 256
      <4>1. 8 \in 1 .. 8 /\ c + 8 = e + 1
        <5>. HIDE DEF e
        <5>1. c + 8 = (c + 7) + 1
          BY <1>2
        <5>. QED
          BY <1>2, <1>9, <5>1
      <4>2. c + 8 = EndOf(pkt)[((k + 1) + 1) - 1] + 1
        BY <1>2, <4>1, Zenon
      <4>. QED
        BY <1>1, <1>2, <4>1, <4>2, MessageOnBus, ZenonT(60)
    <3>. QED
      BY <3>1, Zenon DEF Clock, DispatchClock, AXI_KEEP_W
  <2>6. Split(k + 1)'
    BY <1>1, <1>5, <1>6, <1>9, <2>1, <2>3, <2>4, <2>5, Zenon DEF Split
  <2>7. Passing(k + 1, 1)'
    <3>1. 1 # 0 /\ ~(1 > 1)
      OBVIOUS
    <3>. QED
      BY <1>1, <1>3, <1>6, <1>7, <1>9, <2>1, <2>6, <3>1, Zenon DEF Passing
  <2>. QED
    BY <1>9, <2>1, <2>7, <1>7, <1>13, Zenon
<1>10. ASSUME q <= 6 PROVE Word(q) = v
  <2>1. q \in 0 .. 6
    BY <1>1, <1>10
  <2>2. c + q = EndOf(pkt)[((k + 1) + 1) - 1]
    BY <1>2, Zenon
  <2>. QED
    BY <1>1, <1>2, <2>1, <2>2, LengthOnBus, Zenon
<1>11. CASE q = 6
  <2>1. 6 # 8 /\ 6 # 7 /\ 8 - 6 = 2 /\ 6 <= 6 /\ 2 # 0 /\ 2 # 1 /\ 2 + v - 2 = v
    <3>. HIDE DEF v
    <3>. QED
      BY <1>2
  <2>2. ~pload_overlap_v /\ ~ov_valid
    BY <1>4, <1>11, Zenon DEF pload_overlap_v, ov_valid
  <2>3. sel_msg_len_q' = v
    <3>1. init_len = Word(6)
      BY <1>1, <1>4, <1>11, <2>2, EndLength, Zenon
    <3>. QED
      BY <1>1, <1>10, <1>11, <2>1, <3>1, Zenon
  <2>4. stream' = First(pkt, k + 1)
    BY <1>1, <2>2, Zenon DEF Taken
  <2>5. Within(k + 1, 2)'
    BY <1>1, <1>5, <1>6, <1>11, <2>1, <2>3, <2>4, Zenon DEF Within
  <2>6. Passing(k + 1, 2)'
    BY <1>1, <1>3, <1>6, <1>7, <1>11, <2>1, <2>5, Zenon DEF Passing
  <2>. QED
    BY <1>11, <2>1, <2>6, <1>7, <1>13, Zenon
<1>12. CASE q \in 1 .. 5
  <2>. DEFINE s == 8 - q
              d == 6 - q
  <2>1. /\ q # 8 /\ q # 7 /\ q # 6 /\ q < 8 /\ q <= 6 /\ q \in 1 .. 8 - 2
        /\ s # 0 /\ s # 1 /\ s # 2 /\ s - 2 = d /\ d \in Nat /\ d <= v /\ v - d = 2 + v - s
        /\ q + 2 \in Nat /\ (q + 2) + d = 8
    <3>. HIDE DEF v
    <3>. QED
      BY <1>2, <1>12
  <2>2. pload_overlap_v /\ ov_valid
    BY <1>1, <1>4, <2>1, Zenon DEF pload_overlap_v, ov_valid
  <2>3. init_overlap_len = v - d
    <3>1. len_shifted = v
      BY <1>4, <1>10, <2>1, Zenon DEF len_shifted, AXI_KEEP_W
    <3>2. Masked(pload_overlap_v, msg_overlap_len) = d
      BY <1>4, <2>1, <2>2, Zenon DEF Masked
    <3>3. (v - d) % LEN_MOD = v - d
      <4>. HIDE DEF v, d
      <4>. QED
        BY <1>2, <2>1, Rest, Zenon
    <3>. QED
      BY <3>1, <3>2, <3>3, Zenon DEF init_overlap_len
  <2>4. sel_msg_len_q' = 2 + v - s
    BY <1>1, <1>4, <2>1, <2>2, <2>3, OverlapLength, Zenon
  <2>5. stream' = Part(pkt, k + 1, s - 2)
    <3>1. ov_data_o = Shifted(q + 2, d)
      BY <1>4, <2>1, Zenon DEF ov_data_o
    <3>2. Brings(q + 2, d, pkt[(k + 1) + 1], 0)
      <4>. DEFINE L == Len(pkt[k + 1])
      <4>1. Amid(k, r) /\ q = 2 + L - r
        BY Zenon DEF EndIn
      <4>2. L \in Nat /\ r \in Nat
        BY <4>1, AmidIs, Zenon
      <4>3. PartIs(q + 2, d, 0, v)
        <5>. HIDE DEF v
        <5>. QED
          BY <1>2, <1>12 DEF PartIs
      <4>4. r + (q + 2) = 2 + L + 2 + 0
        <5>. HIDE DEF L
        <5>. QED
          BY <4>1, <4>2
      <4>. HIDE DEF d
      <4>. QED
        BY <1>2, <4>1, <4>3, <4>4, PartNext, Zenon
    <3>3. Append(First(pkt, k + 1), Shifted(q + 2, d)) = Part(pkt, k + 1, d)
      <4>1. k + 1 \in Nat
        BY <1>2, Zenon
      <4>. HIDE DEF d
      <4>. QED
        BY <3>2, <4>1, StartPart, Zenon
    <3>. QED
      BY <1>1, <2>1, <2>2, <3>1, <3>3, Zenon DEF Taken
  <2>6. Within(k + 1, s)'
    BY <1>1, <1>5, <1>6, <2>1, <2>4, <2>5, Zenon DEF Within
  <2>. QED
    BY <1>1, <1>3, <1>6, <1>7, <1>13, <2>1, <2>6, Zenon DEF Passing
<1>14. q = 8 \/ q = 7 \/ q = 6 \/ q \in 1 .. 5
  BY <1>1
<1>. QED
  BY <1>7, <1>8, <1>9, <1>11, <1>12, <1>13, <1>14, Zenon


(* The last beat ends the last message, and the packet is recorded as it    *)
(* came out.                                                                *)
Outcome == finished' = {[pkt |-> pkt, seq |-> seq, stream |-> pkt, ids |-> Numbers(seq, Len(pkt))]}

LEMMA StepLast ==
    ASSUME NEW k, NEW r, Amid(k, r), bus.last, Clock, Pause
    PROVE  BetweenPackets' /\ Outcome
<1>. DEFINE L == Len(pkt[k + 1])
            q == 2 + L - r
<1>1. /\ pkt \in Packets /\ r \in Nat /\ k \in Nat /\ k + 1 \in 1 .. Len(pkt)
      /\ L \in Nat /\ L >= 9 /\ r < 2 + L
      /\ ~FirstBeat /\ bus.valid
      /\ k + 1 = Len(pkt) /\ q <= 8
  BY AmidIs, Zenon
<1>2. r > 1
  <2>1. 2 + L - r <= 8
    BY <1>1, Zenon
  <2>. HIDE DEF L, q
  <2>. QED
    BY <1>1, <2>1
<1>3. EndIn(k, r, q)
  BY <1>1, <1>2, Zenon DEF EndIn
<1>. HIDE DEF q
<1>4. /\ q \in 1 .. 8 /\ Ending(q) /\ OnBus /\ ~init_v /\ ~d_invalid_q
      /\ d_msg_q /\ ~d_align_q /\ ~d_split_q
      /\ d_align_q' <=> q = 8
      /\ d_split_q' <=> q = 7
      /\ align_end_q' <=> q = 6
      /\ Taken(k) /\ ids' = Numbers(seq, k + 1) /\ sel_msg_len_q' = init_len
  BY <1>3, EndHere, Zenon
<1>5. ~fsm_invalid_q /\ ~tlast_q /\ ~fsm_h1_q /\ fsm_msg_q
  BY Zenon DEF Amid, Passing
<1>6. ~ov_valid
  BY Zenon DEF ov_valid
<1>7. stream' = pkt /\ ids' = Numbers(seq, Len(pkt))
  <2>1. stream' = First(pkt, Len(pkt))
    BY <1>1, <1>4, <1>6, Zenon DEF Taken
  <2>. QED
    BY <1>1, <1>4, <2>1, WholePacket, Zenon
<1>8. Outcome
  <2>1. LastBeat
    BY <1>1, <1>4, OnTheBus, Zenon DEF LastBeat
  <2>2. stream' = StreamNext /\ ids' = IdsNext
        /\ finished' = {[pkt |-> pkt, seq |-> seq, stream |-> StreamNext, ids |-> IdsNext]}
    BY <2>1, Zenon DEF Clock, Consume
  <2>3. StreamNext = pkt /\ IdsNext = Numbers(seq, Len(pkt))
    BY <1>7, <2>2, Zenon
  <2>. QED
    BY <2>2, <2>3, Zenon DEF Outcome
<1>9. /\ fsm_invalid_q' /\ ~fsm_h1_q' /\ ~init_v' /\ ~fsm_msg_q'
  <2>1. ~h0_v
    BY <1>5, Zenon DEF h0_v
  <2>. QED
    BY <1>1, <1>4, <1>5, <2>1, Zenon DEF Clock, ParserClock, FsmClock
<1>10. d_invalid_q' /\ ~d_msg_q'
  BY <1>1, Zenon DEF Clock, DispatchClock
<1>11. d_align_q' \/ d_split_q' => sel_msg_len_q' = 0
  <2>1. ASSUME q = 8 \/ q = 7 PROVE init_len = 0
    <3>1. q # 6 /\ ~(q < 8 /\ q # 7)
      BY <2>1
    <3>2. ~msg_len_align_end
      BY <1>4, <3>1, Zenon DEF Ending
    <3>3. ~pload_overlap_v
      BY <1>4, <3>1, Zenon DEF Ending, pload_overlap_v
    <3>. QED
      BY <1>4, <3>2, <3>3, NoLength, Zenon
  <2>. QED
    BY <1>4, <2>1, Zenon
<1>12. gap' = GAP /\ bus' = [bus EXCEPT !.valid = FALSE]
  BY Zenon DEF Pause, Idle
<1>13. bus'.last
  BY <1>4, <1>12, Zenon DEF OnBus, SenderOK
<1>. QED
  BY <1>8, <1>9, <1>10, <1>11, <1>12, <1>13, Zenon DEF BetweenPackets

(* Between packets nothing moves but what a last beat has left to settle.   *)
IdleNow == ~bus.valid /\ BetweenPackets

LEMMA StepIdle ==
    ASSUME IdleNow, Clock
    PROVE  /\ d_invalid_q' /\ fsm_invalid_q' /\ ~fsm_h1_q' /\ ~init_v' /\ ~fsm_msg_q'
           /\ ~d_align_q' /\ ~d_split_q' /\ ~align_end_q'
           /\ d_msg_q' => (d_align_q \/ d_split_q) /\ sel_msg_len_q' = 0
           /\ finished' = finished
<1>1. /\ d_invalid_q /\ fsm_invalid_q /\ ~fsm_h1_q /\ ~init_v /\ ~fsm_msg_q /\ ~bus.valid
      /\ d_align_q \/ d_split_q \/ d_msg_q => sel_msg_len_q = 0 /\ bus.last
  BY Zenon DEF IdleNow, BetweenPackets
<1>2. sel_msg_len_q = 0 => /\ sel_msg_end /\ ~msg_len_align_end /\ ~msg_len_align /\ ~msg_len_split
  <2>1. ASSUME sel_msg_len_q = 0 PROVE Ending(0)
    <3>1. sel_msg_len_q \in 0 .. 8
      BY <2>1
    <3>2. Ending(sel_msg_len_q)
      BY <1>1, <3>1, EndOfMessage, Zenon
    <3>. QED
      BY <2>1, <3>2, Zenon
  <2>2. 0 # 6 /\ 0 # 7 /\ 0 # 8
    OBVIOUS
  <2>. QED
    BY <2>1, <2>2, Zenon DEF Ending
<1>3. d_invalid_q' /\ fsm_invalid_q' /\ ~fsm_h1_q' /\ ~init_v' /\ ~fsm_msg_q'
  BY <1>1, Zenon DEF Clock, DispatchClock, ParserClock, FsmClock, h0_v
<1>4. ~align_next /\ ~split_next /\ ~d_align_q' /\ ~d_split_q' /\ ~align_end_q'
  BY <1>1, <1>2, Zenon DEF Clock, DispatchClock, align_next, split_next
<1>5. d_msg_q' => (d_align_q \/ d_split_q)
  BY <1>1, Zenon DEF Clock, DispatchClock
<1>6. d_align_q \/ d_split_q => sel_msg_len_q' = 0
  BY <1>1, <1>2, Zenon DEF Clock, DispatchClock, sel_msg_len_next, init_len_v
<1>7. finished' = finished
  BY <1>1, Zenon DEF Clock, Consume, LastBeat
<1>. QED
  BY <1>3, <1>4, <1>5, <1>6, <1>7, Zenon

LEMMA StepWait ==
    ASSUME IdleNow, Clock, Wait, gap \in 0 .. GAP
    PROVE  BetweenPackets'
<1>1. /\ d_invalid_q' /\ fsm_invalid_q' /\ ~fsm_h1_q' /\ ~init_v' /\ ~fsm_msg_q'
      /\ ~d_align_q' /\ ~d_split_q' /\ ~align_end_q'
      /\ d_msg_q' => (d_align_q \/ d_split_q) /\ sel_msg_len_q' = 0
  BY StepIdle, Zenon
<1>2. d_align_q \/ d_split_q => gap = GAP /\ bus.last
  BY Zenon DEF IdleNow, BetweenPackets
<1>3. gap' = gap - 1 /\ bus' = bus
  BY Zenon DEF Wait
<1>. QED
  BY <1>1, <1>2, <1>3, Zenon DEF BetweenPackets

LEMMA StepStart ==
    ASSUME IdleNow, Clock, GAP >= 2, gap <= 1
    PROVE  Header1'
<1>1. /\ d_invalid_q' /\ fsm_invalid_q' /\ ~fsm_h1_q' /\ ~init_v' /\ ~fsm_msg_q'
      /\ ~d_align_q' /\ ~d_split_q' /\ ~align_end_q'
      /\ d_msg_q' => d_align_q \/ d_split_q
  BY StepIdle, Zenon
<1>2. d_align_q \/ d_split_q => gap = GAP
  BY Zenon DEF IdleNow, BetweenPackets
<1>3. gap # GAP
  BY Sizes
<1>. QED
  BY <1>1, <1>2, <1>3, Zenon DEF Header1, Clean

-----------------------------------------------------------------------------
(***************************************************************************)
(* The registers keep their widths.                                         *)
(***************************************************************************)
Widths ==
    /\ {d_invalid_q, d_msg_q, d_align_q, d_split_q, align_end_q, init_v,
        fsm_invalid_q, tlast_q, fsm_h1_q, fsm_msg_q} \subseteq BOOLEAN
    /\ sel_msg_len_q \in 0 .. LEN_MOD - 1 /\ shifted_q \in 0 .. LEN_MOD - 1
    /\ half_q \in 0 .. 255 /\ msg_cnt_q \in 0 .. LEN_MOD - 1
    /\ seq_lo_q \in 0 .. SEQ_LO - 1 /\ seq_hi_q \in 0 .. SEQ_HI - 1

LEMMA WordIs ==
    ASSUME bus.data \in [1 .. 8 -> Bytes], NEW i \in 0 .. 6
    PROVE  Word(i) \in 0 .. LEN_MOD - 1
<1>. DEFINE a == bus.data[i + 1]
            b == bus.data[i + 2]
<1>1. i + 1 \in 1 .. 8 /\ i + 2 \in 1 .. 8
  OBVIOUS
<1>2. a \in 0 .. 255 /\ b \in 0 .. 255
  BY <1>1, ZenonT(60) DEF Bytes
<1>. HIDE DEF a, b
<1>3. a \in Nat /\ b \in Nat /\ a <= 255 /\ b <= 255
  BY <1>2
<1>. DEFINE w == 256 * a + b
<1>4. w \in Nat /\ w <= LEN_MOD - 1 /\ LEN_MOD \in Nat
  BY <1>3, LenNat, LenMod DEF Wide
<1>. HIDE DEF w
<1>5. w \in 0 .. LEN_MOD - 1
  BY <1>4
<1>. QED
  BY <1>5, Zenon DEF Word, a, b, w

(* The states of the machine exclude each other.                            *)
OneState == /\ init_v => ~d_msg_q /\ ~d_align_q /\ ~d_split_q
            /\ d_msg_q => ~d_align_q /\ ~d_split_q
            /\ d_align_q => ~d_split_q

LEMMA LowIs ==
    ASSUME sel_msg_len_q \in Nat
    PROVE  len_low \in 0 .. 15 /\ msg_overlap_len \in Int
<1>1. len_low \in 0 .. 15
  BY DEF len_low, KEEP_MOD
<1>2. sel_len_inc2 \in 0 .. 15
  BY <1>1 DEF sel_len_inc2, KEEP_MOD
<1>3. msg_overlap_len \in Int
  BY <1>2 DEF msg_overlap_len, KEEP_MOD, AXI_KEEP_W
<1>. QED
  BY <1>1, <1>3

LEMMA ModLen == ASSUME NEW x \in Int PROVE x % LEN_MOD \in 0 .. LEN_MOD - 1
<1>1. LEN_MOD \in Nat \ {0}
  BY LenNat, Zenon
<1>. QED
  BY <1>1

LEMMA ShiftedIs ==
    ASSUME bus.data \in [1 .. 8 -> Bytes], shifted_q \in 0 .. LEN_MOD - 1
    PROVE  len_shifted \in 0 .. LEN_MOD - 1
<1>1. CASE len_low \in 1 .. 6
  <2>1. len_low \in 0 .. 6 /\ len_low \in 1 .. 8 - 2
    BY <1>1
  <2>2. Word(len_low) \in 0 .. LEN_MOD - 1
    BY <2>1, WordIs, Zenon
  <2>. QED
    BY <2>1, <2>2, Zenon DEF len_shifted, AXI_KEEP_W
<1>2. CASE ~(len_low \in 1 .. 6)
  <2>1. ~(len_low \in 1 .. 8 - 2)
    BY <1>2
  <2>. QED
    BY <2>1, Zenon DEF len_shifted, AXI_KEEP_W
<1>. QED
  BY <1>1, <1>2, Zenon

LEMMA LengthIs ==
    ASSUME bus.data \in [1 .. 8 -> Bytes], Widths, OneState
    PROVE  init_len \in 0 .. LEN_MOD - 1
<1>1. /\ sel_msg_len_q \in 0 .. LEN_MOD - 1 /\ shifted_q \in 0 .. LEN_MOD - 1 /\ half_q \in 0 .. 255
  BY Zenon DEF Widths
<1>2. LEN_MOD \in Nat /\ 0 \in 0 .. LEN_MOD - 1
  BY LenNat, Zenon
<1>3. Word(0) \in Int /\ Word(4) \in Int /\ Word(6) \in 0 .. LEN_MOD - 1 /\ bus.data[1] \in Int
  <2>1. 0 \in 0 .. 6 /\ 4 \in 0 .. 6 /\ 6 \in 0 .. 6 /\ 1 \in 1 .. 8
    OBVIOUS
  <2>2. /\ Word(0) \in 0 .. LEN_MOD - 1 /\ Word(4) \in 0 .. LEN_MOD - 1
        /\ Word(6) \in 0 .. LEN_MOD - 1
    BY <2>1, WordIs, Zenon
  <2>3. bus.data[1] \in 0 .. 255
    BY <2>1, ZenonT(60) DEF Bytes
  <2>4. \A x \in 0 .. LEN_MOD - 1 : x \in Int
    BY <1>2
  <2>5. \A x \in 0 .. 255 : x \in Int
    OBVIOUS
  <2>. QED
    BY <2>2, <2>3, <2>4, <2>5, Zenon
<1>4. CASE init_v
  <2>1. init_len = (Word(4) - 2) % LEN_MOD
    BY <1>4, HeaderLength, Zenon DEF OneState
  <2>. DEFINE x == Word(4)
  <2>2. x - 2 \in Int
    <3>1. x \in Int
      BY <1>3, Zenon
    <3>. HIDE DEF x
    <3>. QED
      BY <3>1
  <2>. QED
    BY <2>1, <2>2, ModLen, Zenon
<1>5. CASE ~init_v /\ d_align_q
  <2>1. init_len = (Word(0) - 6) % LEN_MOD
    BY <1>5, AlignLength, Zenon DEF OneState
  <2>. DEFINE x == Word(0)
  <2>2. x - 6 \in Int
    <3>1. x \in Int
      BY <1>3, Zenon
    <3>. HIDE DEF x
    <3>. QED
      BY <3>1
  <2>. QED
    BY <2>1, <2>2, ModLen, Zenon
<1>6. CASE ~init_v /\ d_split_q
  <2>1. init_len = (256 * half_q + bus.data[1] - 7) % LEN_MOD
    BY <1>6, SplitLength, Zenon DEF OneState
  <2>. DEFINE x == bus.data[1]
              h == half_q
  <2>2. 256 * h + x - 7 \in Int
    <3>1. x \in Int /\ h \in 0 .. 255
      BY <1>1, <1>3, Zenon
    <3>. HIDE DEF x, h
    <3>. QED
      BY <3>1
  <2>. QED
    BY <2>1, <2>2, ModLen, Zenon
<1>7. CASE ~init_v /\ d_msg_q /\ ~d_align_q /\ ~d_split_q
  <2>1. CASE msg_len_align_end
    <3>1. ~pload_overlap_v
      BY <2>1, Zenon DEF pload_overlap_v, msg_len_inner
    <3>. QED
      BY <1>3, <1>7, <2>1, <3>1, EndLength, Zenon
  <2>2. CASE ~msg_len_align_end /\ pload_overlap_v
    <3>1. init_len = init_overlap_len
      BY <1>7, <2>2, OverlapLength, Zenon
    <3>2. init_overlap_len = (len_shifted - msg_overlap_len) % LEN_MOD
      BY <2>2, Zenon DEF init_overlap_len, Masked
    <3>3. len_shifted \in 0 .. LEN_MOD - 1
      BY <1>1, ShiftedIs, Zenon
    <3>4. sel_msg_len_q \in Nat
      BY <1>1, <1>2
    <3>5. msg_overlap_len \in Int
      BY <3>4, LowIs, Zenon
    <3>. DEFINE x == len_shifted
                y == msg_overlap_len
    <3>6. x - y \in Int
      <4>1. x \in 0 .. LEN_MOD - 1 /\ y \in Int
        BY <3>3, <3>5, Zenon
      <4>. HIDE DEF x, y
      <4>. QED
        BY <1>2, <4>1
    <3>. QED
      BY <3>1, <3>2, <3>6, ModLen, Zenon
  <2>3. CASE ~msg_len_align_end /\ ~pload_overlap_v
    BY <1>2, <1>7, <2>3, NoLength, Zenon
  <2>. QED
    BY <2>1, <2>2, <2>3, Zenon
<1>8. CASE ~init_v /\ ~d_msg_q /\ ~d_align_q /\ ~d_split_q
  BY <1>2, <1>8, NoLength, Zenon
<1>. QED
  BY <1>4, <1>5, <1>6, <1>7, <1>8, Zenon DEF OneState

(* What the widths need of the phase the packet is in.                      *)
Fits == /\ bus \in [valid : BOOLEAN, last : BOOLEAN, data : [1 .. 8 -> Bytes]]
        /\ bus.valid => OneState
        /\ bus.valid /\ init_v => Word(0) \in 0 .. SEQ_LO - 1 /\ Word(2) \in 0 .. LEN_MOD - 1
        /\ ~bus.valid => ~init_v /\ ~fsm_h1_q
        /\ fsm_h1_q => High \in 0 .. SEQ_HI - 1

LEMMA WidthsNext ==
    ASSUME Widths, Fits, Clock
    PROVE  Widths'
<1>1. /\ {d_invalid_q, d_msg_q, d_align_q, d_split_q, align_end_q, init_v,
          fsm_invalid_q, tlast_q, fsm_h1_q, fsm_msg_q} \subseteq BOOLEAN
      /\ sel_msg_len_q \in 0 .. LEN_MOD - 1 /\ shifted_q \in 0 .. LEN_MOD - 1
      /\ half_q \in 0 .. 255 /\ msg_cnt_q \in 0 .. LEN_MOD - 1
      /\ seq_lo_q \in 0 .. SEQ_LO - 1 /\ seq_hi_q \in 0 .. SEQ_HI - 1
  BY Zenon DEF Widths
<1>2. /\ bus.data \in [1 .. 8 -> Bytes] /\ bus.valid \in BOOLEAN /\ bus.last \in BOOLEAN
  <2>. HIDE DEF Bytes
  <2>1. bus \in [valid : BOOLEAN, last : BOOLEAN, data : [1 .. 8 -> Bytes]]
    BY Zenon DEF Fits
  <2>. QED
    BY <2>1
<1>3. /\ d_invalid_q' \in BOOLEAN /\ d_msg_q' \in BOOLEAN /\ d_align_q' \in BOOLEAN
      /\ d_split_q' \in BOOLEAN /\ align_end_q' \in BOOLEAN
  <2>1. /\ d_invalid_q' = \/ d_invalid_q /\ ~(bus.valid /\ init_v)
                          \/ bus.valid /\ bus.last
        /\ d_msg_q' = /\ \/ bus.valid /\ init_v
                         \/ d_align_q \/ d_split_q
                         \/ d_msg_q /\ ~(split_next \/ align_next \/ bus.last)
                      /\ ~(bus.valid /\ bus.last)
        /\ d_align_q' = (d_msg_q /\ sel_msg_end /\ msg_len_align)
        /\ d_split_q' = (d_msg_q /\ sel_msg_end /\ msg_len_split)
        /\ align_end_q' = (msg_len_align_end /\ sel_msg_end /\ d_msg_q)
    BY Zenon DEF Clock, DispatchClock, align_next, split_next
  <2>. QED
    BY <2>1, Zenon
<1>4. /\ init_v' \in BOOLEAN /\ fsm_invalid_q' \in BOOLEAN /\ tlast_q' \in BOOLEAN
      /\ fsm_h1_q' \in BOOLEAN /\ fsm_msg_q' \in BOOLEAN
  <2>1. /\ fsm_invalid_q' =
               \/ /\ bus.valid
                  /\ bus.last \/ (cnt_end /\ ~(h0_v \/ fsm_h1_q \/ init_v))
               \/ fsm_invalid_q /\ ~bus.valid
        /\ fsm_h1_q' = (bus.valid /\ (fsm_invalid_q \/ tlast_q))
        /\ init_v' = (fsm_h1_q /\ bus.valid)
        /\ fsm_msg_q' = (init_v \/ (fsm_msg_q /\ ~(cnt_end \/ bus.last)))
        /\ tlast_q' = bus.last
    BY Zenon DEF Clock, ParserClock, FsmClock, h0_v
  <2>. QED
    BY <1>2, <2>1, Zenon
<1>5. sel_msg_len_q' \in 0 .. LEN_MOD - 1
  <2>1. init_len_v => init_len \in 0 .. LEN_MOD - 1
    BY <1>2, LengthIs, Zenon DEF Fits, init_len_v
  <2>2. 0 \in 0 .. LEN_MOD - 1 /\ LEN_MOD \in Nat
    BY LenNat, Zenon
  <2>3. (sel_msg_len_q - 8) % LEN_MOD \in 0 .. LEN_MOD - 1
    <3>1. sel_msg_len_q - 8 \in Int
      BY <1>1, <2>2
    <3>. QED
      BY <3>1, ModLen, Zenon
  <2>. QED
    BY <2>1, <2>2, <2>3, Zenon DEF Clock, DispatchClock, sel_msg_len_next
<1>6. shifted_q' \in 0 .. LEN_MOD - 1 /\ half_q' \in 0 .. 255
  <2>1. 8 \in 1 .. 8
    OBVIOUS
  <2>2. bus.data[8] \in 0 .. 255
    BY <1>2, <2>1, ZenonT(60) DEF Bytes
  <2>. QED
    BY <1>1, <1>2, <2>2, ShiftedIs, Zenon DEF Clock, DispatchClock, AXI_KEEP_W
<1>7. msg_cnt_q' \in 0 .. LEN_MOD - 1
  <2>1. ~cnt_end => msg_cnt_q - 1 \in 0 .. LEN_MOD - 1
    <3>1. LEN_MOD \in Nat
      BY LenNat, Zenon
    <3>. QED
      BY <1>1, <3>1 DEF cnt_end
  <2>. QED
    BY <1>1, <1>2, <2>1, Zenon DEF Clock, ParserClock, msg_cnt_next, Fits
<1>8. seq_lo_q' \in 0 .. SEQ_LO - 1
  <2>1. (seq_lo_q + 1) % SEQ_LO \in 0 .. SEQ_LO - 1
    BY <1>1, Sizes
  <2>. QED
    BY <1>1, <1>2, <2>1, Zenon DEF Clock, ParserClock, SeqClock, seq_add_lo, Fits
<1>9. seq_hi_q' \in 0 .. SEQ_HI - 1
  <2>. DEFINE d == (seq_lo_q + 1) \div SEQ_LO
  <2>1. d \in Nat
    BY <1>1, Sizes
  <2>. HIDE DEF d
  <2>2. (seq_hi_q + d) % SEQ_HI \in 0 .. SEQ_HI - 1
    BY <1>1, <2>1, Sizes
  <2>. QED
    BY <1>1, <1>2, <2>2, Zenon DEF Clock, ParserClock, SeqClock, seq_add_hi, Fits, d
<1>. QED
  BY <1>3, <1>4, <1>5, <1>6, <1>7, <1>8, <1>9 DEF Widths

-----------------------------------------------------------------------------
(***************************************************************************)
(* The invariant.                                                           *)
(***************************************************************************)
LEMMA PhaseIs ==
    ASSUME SenderOK, Phases, bus.valid
    PROVE  /\ OnBus /\ beat \in Nat
           /\ \/ beat = 1 /\ Header1
              \/ beat = 2 /\ Header2
              \/ beat = 3 /\ Header3
              \/ beat > 3 /\ \E k, r : Amid(k, r)
<1>1. OnBus
  BY Zenon DEF OnBus
<1>2. beat \in Nat /\ beat \in 1 .. Beats(pkt)
  BY <1>1, OnTheBus, Zenon
<1>3. beat = 1 \/ beat = 2 \/ beat = 3 \/ beat > 3
  <2>1. beat >= 1
    <3>1. Beats(pkt) \in Nat
      BY <1>1, OnTheBus, BeatsAre, Zenon
    <3>. QED
      BY <1>2, <3>1
  <2>. QED
    BY <1>2, <2>1
<1>. QED
  BY <1>1, <1>2, <1>3, Zenon DEF Phases, Amid

LEMMA FitsIs ==
    ASSUME SenderOK, Phases
    PROVE  Fits
<1>1. bus \in [valid : BOOLEAN, last : BOOLEAN, data : [1 .. 8 -> Bytes]]
  BY Zenon DEF SenderOK, Bytes
<1>2. CASE ~bus.valid
  <2>1. ~init_v /\ ~fsm_h1_q
    BY <1>2, Zenon DEF Phases, BetweenPackets
  <2>. QED
    BY <1>1, <1>2, <2>1, Zenon DEF Fits
<1>3. CASE bus.valid
  <2>0. OnBus
    BY <1>3, PhaseIs, Zenon
  <2>1. CASE beat = 1 /\ Header1
    BY <1>1, <1>3, <2>1, Zenon DEF Fits, OneState, Header1, Clean
  <2>2. CASE beat = 2 /\ Header2
    <3>1. High \in 0 .. SEQ_HI - 1
      <4>. DEFINE d == seq \div SEQ_LO
      <4>1. High = d % SEQ_HI
        BY <2>0, <2>2, HeaderOnBus, Zenon
      <4>2. d \in Nat /\ SEQ_HI \in Nat \ {0}
        <5>1. seq \in Nat
          BY <2>0, OnTheBus, Zenon
        <5>. QED
          BY <5>1, Sizes
      <4>. HIDE DEF d
      <4>3. d % SEQ_HI \in 0 .. SEQ_HI - 1
        BY <4>2, DivMod, Zenon
      <4>. QED
        BY <4>1, <4>3, Zenon
    <3>. QED
      BY <1>1, <1>3, <2>2, <3>1, Zenon DEF Fits, OneState, Header2, Clean
  <2>3. CASE beat = 3 /\ Header3
    <3>1. Word(0) \in 0 .. SEQ_LO - 1 /\ Word(2) \in 0 .. LEN_MOD - 1
      <4>1. Word(0) = seq % SEQ_LO /\ Word(2) = Len(pkt) /\ seq \in Nat /\ pkt \in Packets
        BY <2>0, <2>3, HeaderOnBus, OnTheBus, Zenon
      <4>2. seq % SEQ_LO \in 0 .. SEQ_LO - 1
        BY <4>1, Sizes, DivMod, Zenon
      <4>. QED
        BY <4>1, <4>2, PacketIs, Zenon
    <3>. QED
      BY <1>1, <1>3, <2>3, <3>1, Zenon DEF Fits, OneState, Header3, Clean
  <2>4. CASE \E k, r : Amid(k, r)
    <3>1. PICK k, r : Amid(k, r)
      BY <2>4, Zenon
    <3>2. r \in Nat /\ Passing(k, r)
      BY <3>1, Zenon DEF Amid
    <3>3. r = 0 \/ r = 1 \/ r > 1
      BY <3>2
    <3>4. OneState /\ ~init_v /\ ~fsm_h1_q
      BY <3>2, <3>3, Zenon DEF Passing, Aligned, Split, Within, OneState
    <3>. QED
      BY <1>1, <1>3, <3>4, Zenon DEF Fits
  <2>. QED
    BY <1>3, <2>1, <2>2, <2>3, <2>4, PhaseIs, Zenon
<1>. QED
  BY <1>2, <1>3, Zenon

(* The sender's variables.                                                  *)
Counters == gap \in 0 .. GAP /\ sent \in 0 .. MaxPackets /\ beat \in 0 .. Beats(pkt)

LEMMA BeatIs ==
    ASSUME NEW p \in Packets, NEW s \in Nat, NEW n \in Nat \ {0}, NEW fill \in Bytes
    PROVE  Beat(p, s, n, fill) \in [valid : BOOLEAN, last : BOOLEAN, data : [1 .. 8 -> 0 .. 255]]
<1>. DEFINE B == PacketBytes(p, s)
<1>1. B \in Seq(Bytes)
  BY Layout, Zenon DEF Laid, IsBytes
<1>2. Eight(B, n, fill) \in [1 .. 8 -> Bytes]
  <2>. HIDE DEF B
  <2>1. ASSUME NEW b \in 1 .. 8, 8 * (n - 1) + b <= Len(B) PROVE B[8 * (n - 1) + b] \in Bytes
    <3>1. 8 * (n - 1) + b \in Nat \ {0}
      OBVIOUS
    <3>. DEFINE i == 8 * (n - 1) + b
    <3>2. i \in Nat \ {0} /\ i <= Len(B)
      BY <2>1, <3>1, Zenon
    <3>. HIDE DEF i
    <3>3. B[i] \in Bytes
      BY <1>1, <3>2
    <3>. QED
      BY <3>3, Zenon DEF i
  <2>. HIDE DEF Bytes
  <2>. QED
    BY <2>1, Zenon DEF Eight
<1>3. (n = Beats(p)) \in BOOLEAN
  OBVIOUS
<1>. DEFINE d == Eight(B, n, fill)
            l == n = Beats(p)
<1>. HIDE DEF d, l, B
<1>4. [valid |-> TRUE, last |-> l, data |-> d] \in [valid : BOOLEAN, last : BOOLEAN, data : [1 .. 8 -> Bytes]]
  BY <1>2, <1>3 DEF d, l
<1>. QED
  BY <1>4, Zenon DEF Beat, Bytes, d, l, B

LEMMA StepBeat ==
    ASSUME SenderOK, Phases, Counters, Clock, NextBeat
    PROVE  SenderOK' /\ Phases' /\ Counters' /\ UNCHANGED finished
<1>1. /\ bus.valid /\ ~bus.last /\ beat' = beat + 1 /\ bus' = Beat(pkt, seq, beat + 1, pad)
      /\ pkt' = pkt /\ seq' = seq /\ gap' = gap /\ pad' = pad /\ sent' = sent
  BY Zenon DEF NextBeat
<1>2. OnBus /\ Follow
  BY <1>1, Zenon DEF OnBus, Follow, Keep
<1>3. /\ pkt \in Packets /\ beat \in Nat /\ beat \in 1 .. Beats(pkt) /\ seq \in Nat
      /\ bus.last <=> beat = Beats(pkt)
  BY <1>2, OnTheBus, Zenon
<1>4. beat + 1 \in 1 .. Beats(pkt) /\ beat + 1 \in 0 .. Beats(pkt) /\ beat + 1 \in Nat \ {0}
  <2>1. Beats(pkt) \in Nat
    BY <1>3, BeatsAre, Zenon
  <2>2. beat # Beats(pkt)
    BY <1>1, <1>3, Zenon
  <2>. QED
    BY <1>3, <2>1, <2>2
<1>5. bus'.valid
  BY <1>1 DEF Beat
<1>6. SenderOK'
  <2>1. seq \in 0 .. N - 1 /\ pad \in 0 .. 255 /\ pkt \in Packets \cup {<<>>}
    BY Zenon DEF SenderOK
  <2>2. pad \in Bytes
    BY <2>1, Zenon DEF Bytes
  <2>3. bus' \in [valid : BOOLEAN, last : BOOLEAN, data : [1 .. 8 -> 0 .. 255]]
    BY <1>1, <1>3, <1>4, <2>2, BeatIs, Zenon
  <2>. QED
    BY <1>1, <1>3, <1>4, <2>1, <2>3, Zenon DEF SenderOK
<1>7. Counters'
  BY <1>1, <1>4, Zenon DEF Counters
<1>8. Phases'
  <2>1. CASE beat = 1 /\ Header1
    <3>1. Header2'
      BY <1>2, <2>1, Step1, Zenon
    <3>2. beat' = 2 /\ 2 # 1 /\ 2 # 3 /\ ~(2 > 3)
      BY <1>1, <2>1
    <3>. QED
      BY <1>5, <3>1, <3>2, Zenon DEF Phases
  <2>2. CASE beat = 2 /\ Header2
    <3>1. Header3'
      BY <1>2, <2>2, Step2, Zenon DEF Follow
    <3>2. beat' = 3 /\ 3 # 1 /\ 3 # 2 /\ ~(3 > 3)
      BY <1>1, <2>2
    <3>. QED
      BY <1>5, <3>1, <3>2, Zenon DEF Phases
  <2>3. ASSUME beat + 1 > 3, NEW k \in 0 .. Len(pkt) - 1, NEW r \in Nat, Passing(k, r)'
        PROVE  Phases'
    <3>1. beat' # 1 /\ beat' # 2 /\ beat' # 3
      BY <1>1, <1>3, <2>3
    <3>2. k \in 0 .. Len(pkt') - 1
      BY <1>1, Zenon
    <3>. QED
      BY <1>5, <2>3, <3>1, <3>2, Zenon DEF Phases
  <2>4. CASE beat = 3 /\ Header3
    <3>1. Passing(0, 4)'
      BY <1>2, <2>4, Step3, Zenon
    <3>2. beat + 1 > 3 /\ 0 \in 0 .. Len(pkt) - 1 /\ 4 \in Nat
      BY <1>3, <2>4, PacketIs
    <3>. QED
      BY <2>3, <3>1, <3>2, Zenon
  <2>5. CASE beat > 3 /\ \E k, r : Amid(k, r)
    <3>1. PICK k, r : Amid(k, r)
      BY <2>5, Zenon
    <3>2. r \in Nat /\ k \in 0 .. Len(pkt) - 1 /\ Passing(k, r)
      BY <3>1, Zenon DEF Amid
    <3>3. beat + 1 > 3
      BY <1>3, <2>5
    <3>4. CASE r = 0
      <4>1. Passing(k, 8)'
        BY <1>2, <3>1, <3>4, StepAligned, Zenon
      <4>2. 8 \in Nat
        OBVIOUS
      <4>. QED
        BY <2>3, <3>2, <3>3, <4>1, <4>2, Zenon
    <3>5. CASE r = 1
      <4>1. Passing(k, 9)'
        BY <1>2, <3>1, <3>5, StepSplit, Zenon
      <4>2. 9 \in Nat
        OBVIOUS
      <4>. QED
        BY <2>3, <3>2, <3>3, <4>1, <4>2, Zenon
    <3>0. PICK q : q = 2 + Len(pkt[k + 1]) - r
      OBVIOUS
    <3>6. CASE r > 1 /\ q > 8
      <4>1. Passing(k, r + 8)'
        BY <1>2, <3>0, <3>1, <3>6, StepWithin, Zenon
      <4>2. r + 8 \in Nat
        BY <3>2
      <4>. QED
        BY <2>3, <3>2, <3>3, <4>1, <4>2, Zenon
    <3>7. CASE r > 1 /\ q <= 8
      <4>1. EndIn(k, r, q)
        BY <3>0, <3>1, <3>7, Zenon DEF EndIn
      <4>2. Passing(k + 1, 8 - q)' /\ k + 1 \in 0 .. Len(pkt) - 1 /\ 8 - q \in Nat
        BY <1>1, <1>2, <4>1, StepEnd, Zenon
      <4>. QED
        BY <2>3, <3>3, <4>2, Zenon
    <3>8. r = 0 \/ r = 1 \/ (r > 1 /\ q > 8) \/ (r > 1 /\ q <= 8)
      <4>1. Len(pkt[k + 1]) \in Nat
        BY <3>1, AmidIs, Zenon
      <4>. DEFINE w == Len(pkt[k + 1])
      <4>2. w \in Nat /\ q = 2 + w - r
        BY <3>0, <4>1, Zenon
      <4>. HIDE DEF w
      <4>. QED
        BY <3>2, <4>2
    <3>. QED
      BY <3>4, <3>5, <3>6, <3>7, <3>8, Zenon
  <2>. QED
    BY <1>1, <2>1, <2>2, <2>4, <2>5, PhaseIs, Zenon
<1>9. UNCHANGED finished
  <2>1. ~LastBeat
    BY <1>1, <1>3, Zenon DEF LastBeat
  <2>. QED
    BY <2>1, Zenon DEF Clock, Consume
<1>. QED
  BY <1>6, <1>7, <1>8, <1>9, Zenon

LEMMA StepPause ==
    ASSUME SenderOK, Phases, Counters, Clock, Pause
    PROVE  SenderOK' /\ Phases' /\ Counters' /\ Outcome /\ pkt \in Packets
<1>1. /\ bus.valid /\ bus.last /\ bus' = [bus EXCEPT !.valid = FALSE] /\ gap' = GAP
      /\ pkt' = pkt /\ seq' = seq /\ beat' = beat /\ pad' = pad /\ sent' = sent
  BY Zenon DEF Pause, Idle
<1>2. OnBus
  BY <1>1, Zenon DEF OnBus
<1>3. PICK k, r : Amid(k, r)
  <2>1. ~(beat \in 1 .. 3)
    BY <1>1, <1>2, HeaderOnBus, Zenon
  <2>2. beat # 1 /\ beat # 2 /\ beat # 3
    BY <2>1
  <2>. QED
    BY <1>1, <2>2, PhaseIs, Zenon
<1>4. BetweenPackets' /\ Outcome
  BY <1>1, <1>3, StepLast, Zenon
<1>5. /\ bus' \in [valid : BOOLEAN, last : BOOLEAN, data : [1 .. 8 -> 0 .. 255]]
      /\ ~bus'.valid
  <2>. DEFINE D == [1 .. 8 -> 0 .. 255]
  <2>1. bus \in [valid : BOOLEAN, last : BOOLEAN, data : D]
    BY Zenon DEF SenderOK
  <2>. HIDE DEF D
  <2>2. bus' \in [valid : BOOLEAN, last : BOOLEAN, data : D] /\ ~bus'.valid
    BY <1>1, <2>1
  <2>. QED
    BY <2>2, Zenon DEF D
<1>6. SenderOK'
  BY <1>1, <1>5, Zenon DEF SenderOK
<1>7. Phases'
  BY <1>4, <1>5, Zenon DEF Phases
<1>8. Counters'
  <2>1. GAP \in 0 .. GAP
    BY Sizes
  <2>. QED
    BY <1>1, <2>1, Zenon DEF Counters
<1>. QED
  BY <1>2, <1>4, <1>6, <1>7, <1>8, OnTheBus, Zenon

LEMMA StepGap ==
    ASSUME SenderOK, Phases, Counters, Clock, Wait
    PROVE  SenderOK' /\ Phases' /\ Counters' /\ UNCHANGED finished
<1>1. /\ ~bus.valid /\ gap > 1 /\ gap' = gap - 1 /\ bus' = bus
      /\ pkt' = pkt /\ seq' = seq /\ beat' = beat /\ pad' = pad /\ sent' = sent
  BY Zenon DEF Wait
<1>2. gap \in 0 .. GAP /\ IdleNow
  BY <1>1, Zenon DEF Counters, Phases, IdleNow
<1>3. BetweenPackets' /\ UNCHANGED finished
  BY <1>2, StepWait, StepIdle, Zenon
<1>4. SenderOK'
  BY <1>1, Zenon DEF SenderOK
<1>5. Phases'
  BY <1>1, <1>3, Zenon DEF Phases
<1>6. Counters'
  <2>1. gap - 1 \in 0 .. GAP
    BY <1>1, <1>2, Sizes
  <2>. QED
    BY <1>1, <2>1, Zenon DEF Counters
<1>. QED
  BY <1>3, <1>4, <1>5, <1>6, Zenon

LEMMA StepNext ==
    ASSUME SenderOK, Phases, Counters, Clock, NextPacket, GAP >= 2
    PROVE  SenderOK' /\ Phases' /\ Counters' /\ UNCHANGED finished
<1>1. /\ ~bus.valid /\ gap <= 1 /\ sent < MaxPackets /\ sent' = sent + 1
      /\ seq' = (seq + Len(pkt)) % N
      /\ beat' = 1 /\ gap' = 0
  <2>1. GAP # 0
    BY Sizes
  <2>. QED
    BY <2>1, Zenon DEF NextPacket, N
<1>2. PICK p \in Packets, fill \in Pads : pkt' = p /\ pad' = fill /\ bus' = Beat(p, seq', 1, fill)
  BY Zenon DEF NextPacket
<1>3. IdleNow
  BY <1>1, Zenon DEF Phases, IdleNow
<1>4. Header1' /\ UNCHANGED finished
  BY <1>1, <1>3, StepStart, StepIdle, Zenon
<1>5. seq' \in 0 .. N - 1 /\ seq' \in Nat
  <2>1. seq \in Nat /\ Len(pkt) \in Nat
    <3>1. seq \in 0 .. N - 1 /\ pkt \in Packets \cup {<<>>}
      BY Zenon DEF SenderOK
    <3>2. seq \in Nat
      BY <3>1, NIs
    <3>3. Len(<<>>) = 0
      OBVIOUS
    <3>4. Len(pkt) \in Nat
      BY <3>1, <3>3, PacketIs
    <3>. QED
      BY <3>2, <3>4
  <2>. DEFINE x == seq + Len(pkt)
  <2>2. x \in Nat
    BY <2>1
  <2>. HIDE DEF x
  <2>3. x % N \in 0 .. N - 1
    BY <2>2, NIs, DivMod, Zenon
  <2>4. \A y \in 0 .. N - 1 : y \in Nat
    BY NIs
  <2>. QED
    BY <1>1, <2>3, <2>4, Zenon DEF x
<1>6. fill \in Bytes /\ Pads \subseteq 0 .. 255
  BY ParserAssumption, Zenon DEF Bytes
<1>7. bus' \in [valid : BOOLEAN, last : BOOLEAN, data : [1 .. 8 -> 0 .. 255]] /\ bus'.valid
  <2>1. 1 \in Nat \ {0}
    OBVIOUS
  <2>2. bus' \in [valid : BOOLEAN, last : BOOLEAN, data : [1 .. 8 -> 0 .. 255]]
    BY <1>2, <1>5, <1>6, <2>1, BeatIs, Zenon
  <2>3. bus'.valid
    BY <1>2 DEF Beat
  <2>. QED
    BY <2>2, <2>3
<1>8. 1 \in 1 .. Beats(p) /\ 1 \in 0 .. Beats(p)
  BY BeatsAre
<1>9. SenderOK'
  BY <1>1, <1>2, <1>5, <1>6, <1>7, <1>8, Zenon DEF SenderOK, Bytes
<1>10. Phases'
  <2>1. 1 # 2 /\ 1 # 3 /\ ~(1 > 3)
    OBVIOUS
  <2>. QED
    BY <1>1, <1>4, <1>7, <2>1, Zenon DEF Phases
<1>11. Counters'
  <2>1. 0 \in 0 .. GAP /\ sent + 1 \in 0 .. MaxPackets
    <3>1. sent \in 0 .. MaxPackets
      BY Zenon DEF Counters
    <3>. QED
      BY <1>1, <3>1, Sizes
  <2>. QED
    BY <1>1, <1>2, <1>8, <2>1, Zenon DEF Counters
<1>. QED
  BY <1>4, <1>9, <1>10, <1>11, Zenon

LEMMA BytesAreInts == ASSUME NEW S, S \subseteq Int, NEW y \in Seq(S)
                      PROVE  y \in Seq(Int)
<1>1. y \in [1 .. Len(y) -> S] /\ Len(y) \in Nat
  BY LenProperties
<1>. DEFINE n == Len(y)
<1>. HIDE DEF n
<1>2. y \in [1 .. n -> Int]
  BY <1>1 DEF n
<1>. QED
  BY <1>1, <1>2 DEF n

(* Before the first packet there is none, and nothing is on the bus.        *)
LEMMA NoPacket == Beats(<<>>) \in Nat
<1>. DEFINE e == <<>>
            z == [b \in 1 .. 10 |-> 0]
            h == (0 \div SEQ_LO) % SEQ_HI
            lo == 0 % SEQ_LO
            H == Header(e, 0)
            Step(f) == [m \in 0 .. Len(e) |-> IF m = 0 THEN H
                                              ELSE f[m - 1] \o Two(Len(e[m])) \o e[m]]
            bytes == CHOOSE f : f = Step(f)
<1>1. Len(e) = 0
  OBVIOUS
<1>2. lo \div 256 \in Int /\ lo % 256 \in Int
  BY Sizes
<1>3. H \in Seq(Int)
  <2>1. H = z \o Six(h) \o Two(lo) \o Two(0)
    BY <1>1, Zenon DEF Header
  <2>2. Two(0) \in Seq(Int) /\ Two(lo) \in Seq(Int)
    <3>1. 0 \div 256 \in Int /\ 0 % 256 \in Int
      OBVIOUS
    <3>. HIDE DEF lo
    <3>. QED
      BY <1>2, <3>1 DEF Two
  <2>. DEFINE a == Two(lo)
              b == Two(0)
              y == Six(h)
  <2>3. z \in Seq(Int) /\ y \in Seq(Int) /\ a \in Seq(Int) /\ b \in Seq(Int)
    <3>1. z \in Seq(Int)
      OBVIOUS
    <3>2. y \in Seq(Int)
      <4>1. 0 \in Nat
        OBVIOUS
      <4>2. IsBytes(y, 6)
        BY <4>1, HighFits, SixIs
      <4>3. y \in Seq(Bytes)
        BY <4>2 DEF IsBytes
      <4>4. Bytes \subseteq Int
        BY DEF Bytes
      <4>. HIDE DEF y
      <4>. QED
        BY <4>3, <4>4, BytesAreInts
    <3>. HIDE DEF y, z
    <3>. QED
      BY <2>2, <3>1, <3>2, Zenon
  <2>. HIDE DEF z, y, a, b
  <2>4. z \o y \o a \o b \in Seq(Int)
    BY <2>3
  <2>. QED
    BY <2>1, <2>4, Zenon DEF y, a, b
<1>. HIDE DEF H, e
<1>4. 0 \in 0 .. Len(e) /\ \A m \in 0 .. Len(e) : m = 0
  BY <1>1
<1>5. bytes = Step(bytes)
  <2>1. [m \in 0 .. Len(e) |-> H] = Step([m \in 0 .. Len(e) |-> H])
    BY <1>4, Zenon
  <2>. HIDE DEF Step
  <2>. QED
    BY <2>1, Zenon
<1>6. PacketBytes(e, 0) = bytes[Len(e)]
  BY Zenon DEF PacketBytes, H
<1>. HIDE DEF bytes
<1>7. PacketBytes(e, 0) = H
  BY <1>1, <1>4, <1>5, <1>6, Zenon
<1>8. Len(H) \in Nat
  BY <1>3
<1>9. (Len(H) + 7) \div 8 \in Nat
  <2>. DEFINE w == Len(H)
  <2>. HIDE DEF w
  <2>1. w \in Nat
    BY <1>8, Zenon DEF w
  <2>2. (w + 7) \div 8 \in Nat
    BY <2>1
  <2>. QED
    BY <2>2, Zenon DEF w
<1>. QED
  BY <1>7, <1>9, Zenon DEF Beats, e

LEMMA Starting ==
    ASSUME Init
    PROVE  SenderOK /\ Phases /\ Counters /\ Widths /\ finished = {}
<1>1. /\ DispatchInit
      /\ fsm_invalid_q = TRUE /\ tlast_q = FALSE
      /\ fsm_h1_q = FALSE /\ init_v = FALSE /\ fsm_msg_q = FALSE
      /\ msg_cnt_q = 0 /\ seq_hi_q = 0 /\ seq_lo_q = 0
      /\ bus = [valid |-> FALSE, last |-> FALSE, data |-> [b \in 1 .. 8 |-> 0]]
      /\ pkt = <<>> /\ seq = 0 /\ beat = 0 /\ gap = 0 /\ pad = 0 /\ sent = 0
      /\ finished = {}
  BY Zenon DEF Init
<1>2. /\ d_invalid_q = TRUE /\ d_msg_q = FALSE /\ d_align_q = FALSE /\ d_split_q = FALSE
      /\ sel_msg_len_q = 0 /\ half_q = 0 /\ align_end_q = FALSE /\ shifted_q = 0
  BY <1>1, Zenon DEF DispatchInit
<1>3. SenderOK
  <2>1. bus \in [valid : BOOLEAN, last : BOOLEAN, data : [1 .. 8 -> 0 .. 255]] /\ ~bus.valid
    BY <1>1
  <2>2. 0 \in 0 .. N - 1 /\ 0 \in 0 .. 255
    BY NIs
  <2>. QED
    BY <1>1, <2>1, <2>2, Zenon DEF SenderOK
<1>4. Phases
  <2>1. ~bus.valid
    BY <1>1
  <2>. QED
    BY <1>1, <1>2, <2>1, Zenon DEF Phases, BetweenPackets
<1>5. Counters
  BY <1>1, NoPacket, Sizes DEF Counters
<1>6. Widths
  <2>1. 0 \in 0 .. LEN_MOD - 1
    BY LenNat, Zenon
  <2>2. 0 \in 0 .. SEQ_LO - 1 /\ 0 \in 0 .. SEQ_HI - 1 /\ 0 \in 0 .. 255
    BY Sizes
  <2>3. {d_invalid_q, d_msg_q, d_align_q, d_split_q, align_end_q, init_v,
         fsm_invalid_q, tlast_q, fsm_h1_q, fsm_msg_q} \subseteq BOOLEAN
    BY <1>1, <1>2
  <2>. QED
    BY <1>1, <1>2, <2>1, <2>2, <2>3, Zenon DEF Widths
<1>. QED
  BY <1>1, <1>3, <1>4, <1>5, <1>6, Zenon

LEMMA TypesAre == TypeOK <=> Widths /\ Counters /\ bus.data \in [1 .. 8 -> 0 .. 255]
  BY Zenon DEF TypeOK, Widths, Counters

LEMMA DataIs == ASSUME SenderOK PROVE bus.data \in [1 .. 8 -> 0 .. 255]
<1>. DEFINE D == [1 .. 8 -> 0 .. 255]
<1>1. bus \in [valid : BOOLEAN, last : BOOLEAN, data : D]
  BY Zenon DEF SenderOK
<1>. HIDE DEF D
<1>2. bus.data \in D
  BY <1>1
<1>. QED
  BY <1>2, Zenon DEF D

(* TypeOK is what the others say of widths and counters.                    *)
Core == SenderOK /\ Phases /\ Counters /\ Widths /\ MessagesWhole /\ NumberedInOrder

LEMMA CoreIs == Inv <=> Core
  BY TypesAre, DataIs, Zenon DEF Inv, Core

LEMMA Recorded ==
    ASSUME MessagesWhole, NumberedInOrder, UNCHANGED finished \/ Outcome
    PROVE  MessagesWhole' /\ NumberedInOrder'
<1>1. CASE UNCHANGED finished
  BY <1>1, Zenon DEF MessagesWhole, NumberedInOrder
<1>2. CASE Outcome
  <2>. DEFINE f == [pkt |-> pkt, seq |-> seq, stream |-> pkt, ids |-> Numbers(seq, Len(pkt))]
  <2>1. finished' = {f}
    BY <1>2, Zenon DEF Outcome
  <2>2. f.stream = f.pkt /\ f.ids = Numbers(f.seq, Len(f.pkt))
    OBVIOUS
  <2>. HIDE DEF f
  <2>3. \A g \in finished' : g.stream = g.pkt /\ g.ids = Numbers(g.seq, Len(g.pkt))
    BY <2>1, <2>2, Zenon
  <2>. QED
    BY <2>3, Zenon DEF MessagesWhole, NumberedInOrder, Numbers, N
<1>. QED
  BY <1>1, <1>2, Zenon

LEMMA CoreNext ==
    ASSUME Core, Next, GAP >= 2
    PROVE  Core'
<1>1. /\ SenderOK /\ Phases /\ Counters /\ Widths /\ MessagesWhole /\ NumberedInOrder /\ Clock
      /\ NextBeat \/ Pause \/ Wait \/ NextPacket
  BY Zenon DEF Core, Next, Clock
<1>2. /\ SenderOK' /\ Phases' /\ Counters'
      /\ UNCHANGED finished \/ Outcome
  <2>1. CASE NextBeat
    BY <1>1, <2>1, StepBeat, Zenon
  <2>2. CASE Pause
    BY <1>1, <2>2, StepPause, Zenon
  <2>3. CASE Wait
    BY <1>1, <2>3, StepGap, Zenon
  <2>4. CASE NextPacket
    BY <1>1, <2>4, StepNext, Zenon
  <2>. QED
    BY <1>1, <2>1, <2>2, <2>3, <2>4, Zenon
<1>3. Widths'
  BY <1>1, FitsIs, WidthsNext, Zenon
<1>4. MessagesWhole' /\ NumberedInOrder'
  BY <1>1, <1>2, Recorded, Zenon
<1>. QED
  BY <1>2, <1>3, <1>4, Zenon DEF Core

LEMMA CoreStutter ==
    ASSUME Core, UNCHANGED vars
    PROVE  Core'
<1>1. /\ UNCHANGED <<bus, pkt, seq, beat, gap, pad, sent, stream, ids, finished>>
      /\ UNCHANGED <<fsm_invalid_q, tlast_q, fsm_h1_q, init_v, fsm_msg_q,
                     msg_cnt_q, seq_hi_q, seq_lo_q>>
      /\ UNCHANGED <<d_invalid_q, d_msg_q, d_align_q, d_split_q, sel_msg_len_q,
                     half_q, align_end_q, shifted_q>>
  BY Zenon DEF vars, parserVars, dispatchVars, senderVars
<1>2. /\ SenderOK' /\ Counters' /\ Widths' /\ MessagesWhole' /\ NumberedInOrder'
  BY <1>1, Zenon DEF Core, SenderOK, Counters, Widths, MessagesWhole, NumberedInOrder
<1>3. ASSUME NEW k, NEW r, Passing(k, r) PROVE Passing(k, r)'
  BY <1>1, <1>3, Zenon DEF Passing, Aligned, Split, Within
<1>4. BetweenPackets => BetweenPackets'
  BY <1>1, Zenon DEF BetweenPackets
<1>5. (Header1 => Header1') /\ (Header2 => Header2') /\ (Header3 => Header3')
  BY <1>1, Zenon DEF Header1, Header2, Header3, Clean
<1>6. Phases'
  BY <1>1, <1>3, <1>4, <1>5, Zenon DEF Core, Phases
<1>. QED
  BY <1>2, <1>6, Zenon DEF Core

(* While packets are two idle cycles or more apart, the parser is in the     *)
(* phase of the beat on the bus, and what it has given out is the bytes of   *)
(* the packet that have come.                                               *)
THEOREM Invariant == ASSUME GAP >= 2 PROVE Spec => []Inv
<1>1. Init => Core
  <2>1. finished = {} => MessagesWhole /\ NumberedInOrder
    BY Zenon DEF MessagesWhole, NumberedInOrder
  <2>. QED
    BY <2>1, Starting, Zenon DEF Core
<1>2. Core /\ [Next]_vars => Core'
  BY CoreNext, CoreStutter, Zenon
<1>3. Core => Inv
  BY CoreIs, Zenon
<1>. QED
  BY <1>1, <1>2, <1>3, PTL DEF Spec

(* Every register keeps its width.                                          *)
THEOREM TypeCorrect == ASSUME GAP >= 2 PROVE Spec => []TypeOK
<1>1. Inv => TypeOK
  BY Zenon DEF Inv
<1>. QED
  BY <1>1, Invariant, PTL

(* Each message of each packet comes out once, in order, byte for byte,      *)
(* wherever the two bytes of its length lie in their beats.                  *)
THEOREM AllWhole == ASSUME GAP >= 2 PROVE Spec => []MessagesWhole
<1>1. Inv => MessagesWhole
  BY Zenon DEF Inv
<1>. QED
  BY <1>1, Invariant, PTL

(* Each is given its number, the carry between the two parts included.       *)
THEOREM AllNumbered == ASSUME GAP >= 2 PROVE Spec => []NumberedInOrder
<1>1. Inv => NumberedInOrder
  BY Zenon DEF Inv
<1>. QED
  BY <1>1, Invariant, PTL

(* The message count is of the messages whose last byte is still to come.    *)
THEOREM CountRight == ASSUME GAP >= 2 PROVE Spec => []CountIsWhatRemains
<1>1. ASSUME Inv, fsm_msg_q
      PROVE  msg_cnt_q = Cardinality({m \in 1 .. Len(pkt) : EndOf(pkt)[m] > 8 * (beat - 1)})
  <2>1. SenderOK /\ Phases
    BY <1>1, Zenon DEF Inv
  <2>2. bus.valid
    BY <1>1, <2>1, Zenon DEF Phases, BetweenPackets
  <2>3. PICK k, r : Amid(k, r)
    BY <1>1, <2>1, <2>2, PhaseIs, Zenon DEF Header1, Header2, Header3
  <2>. DEFINE n == Len(pkt)
              c == 8 * (beat - 1)
              E == EndOf(pkt)
              L == Len(pkt[k + 1])
  <2>4. /\ pkt \in Packets /\ k \in Nat /\ r \in Nat /\ n \in Nat /\ n > k /\ L \in Nat
        /\ E[k] \in Nat /\ E[k + 1] = E[k] + 2 + L /\ c = E[k] + r /\ r < 2 + L
    BY <2>3, AmidIs, Zenon
  <2>5. msg_cnt_q = n - k
    BY <2>3, Zenon DEF Amid, Passing
  <2>6. \A i \in 0 .. n : \A m \in i .. n : E[i] \in Nat /\ E[m] \in Nat /\ E[i] + 11 * (m - i) <= E[m]
    BY <2>4, EndsGrow, Zenon
  <2>. HIDE DEF n, c, E, L
  <2>7. ASSUME NEW m \in 1 .. n PROVE E[m] > c <=> m \in k + 1 .. n
    <3>1. CASE m > k
      <4>1. k + 1 \in 0 .. n /\ m \in (k + 1) .. n
        BY <2>4, <3>1
      <4>2. E[k + 1] \in Nat /\ E[m] \in Nat /\ E[k + 1] + 11 * (m - (k + 1)) <= E[m]
        BY <2>6, <4>1, Zenon
      <4>3. E[m] > c
        BY <2>4, <3>1, <4>2
      <4>. QED
        BY <4>1, <4>3, Zenon
    <3>2. CASE ~(m > k)
      <4>1. m \in 0 .. n /\ k \in m .. n /\ ~(m \in k + 1 .. n)
        BY <2>4, <3>2
      <4>2. E[m] \in Nat /\ E[m] + 11 * (k - m) <= E[k]
        BY <2>6, <4>1, Zenon
      <4>3. ~(E[m] > c)
        BY <2>4, <3>2, <4>2
      <4>. QED
        BY <4>1, <4>3, Zenon
    <3>. QED
      BY <3>1, <3>2, Zenon
  <2>8. {m \in 1 .. n : E[m] > c} = k + 1 .. n
    <3>1. k + 1 .. n \subseteq 1 .. n
      BY <2>4
    <3>. QED
      BY <2>7, <3>1
  <2>9. Cardinality(k + 1 .. n) = n - k
    BY <2>4, FS_Interval
  <2>. QED
    BY <2>5, <2>8, <2>9, Zenon DEF n, c, E
<1>2. Inv => CountIsWhatRemains
  BY <1>1, Zenon DEF CountIsWhatRemains
<1>. QED
  BY <1>2, Invariant, PTL
=============================================================================
