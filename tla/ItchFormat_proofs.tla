-------------------------- MODULE ItchFormat_proofs --------------------------
(***************************************************************************)
(* A message's way through the structure and the put calls, for any number  *)
(* of messages: every byte reaches its signal, and nothing else does.       *)
(***************************************************************************)
EXTENDS ItchFormat, Recursions, SequenceTheorems

(***************************************************************************)
(* Parts put side by side: where they end, and what lies there.             *)
(***************************************************************************)
EndsOf(ns, E) == /\ E \in [0 .. Len(ns) -> Nat] /\ E[0] = 0
                 /\ \A m \in 1 .. Len(ns) : E[m] = E[m - 1] + ns[m]

LEMMA EndsAre == ASSUME NEW ns \in Seq(Nat) PROVE EndsOf(ns, Ends(ns))
<1>. DEFINE n == Len(ns)
            Step(f) == [m \in 0 .. n |-> IF m = 0 THEN 0 ELSE f[m - 1] + ns[m]]
            g == [m \in 1 .. n |-> [x \in Nat |-> x + ns[m]]]
            end == CHOOSE f : f = Step(f)
<1>1. n \in Nat /\ \A m \in 1 .. n : ns[m] \in Nat
  OBVIOUS
<1>2. g \in [1 .. n -> [Nat -> Nat]]
  <2>1. ASSUME NEW m \in 1 .. n, NEW x \in Nat PROVE x + ns[m] \in Nat
    <3>. DEFINE w == ns[m]
    <3>1. w \in Nat
      BY <1>1
    <3>. HIDE DEF w
    <3>2. x + w \in Nat
      BY <3>1
    <3>. QED
      BY <3>2 DEF w
  <2>. HIDE DEF n
  <2>. QED
    BY <2>1, Zenon
<1>2a. \A m \in 1 .. n, x \in Nat : g[m][x] = x + ns[m]
  OBVIOUS
<1>3. PICK f : Results(f, Nat, 0, n, g)
  <2>1. 0 \in Nat
    OBVIOUS
  <2>. HIDE DEF g, n
  <2>. QED
    BY <1>1, <1>2, <2>1, Recursion, Zenon
<1>. HIDE DEF g
<1>4. /\ f \in [0 .. n -> Nat]
      /\ f[0] = 0 /\ \A m \in 1 .. n : f[m] = g[m][f[m - 1]]
  BY <1>3 DEF Results
<1>5. ASSUME NEW m \in 0 .. n
      PROVE  f[m] = IF m = 0 THEN 0 ELSE f[m - 1] + ns[m]
  <2>1. CASE m = 0
    BY <2>1, <1>4
  <2>2. CASE m # 0
    <3>1. m \in 1 .. n /\ m - 1 \in 0 .. n
      BY <2>2
    <3>2. f[m - 1] \in Nat
      BY <1>4, <3>1
    <3>. QED
      BY <1>2a, <1>4, <3>1, <3>2, <2>2
  <2>. QED
    BY <2>1, <2>2
<1>6. f = Step(f)
  BY <1>4, <1>5
<1>7. end = Step(end)
  <2>. HIDE DEF Step, end
  <2>. QED
    BY <1>6, Zenon DEF end
<1>8. Ends(ns) = end
  BY Zenon DEF Ends
<1>. HIDE DEF end
<1>9. /\ \A m \in 0 .. n : end[m] = IF m = 0 THEN 0 ELSE end[m - 1] + ns[m]
      /\ end = [m \in 0 .. n |-> end[m]]
  BY <1>7
<1>10. \A m \in 0 .. n : end[m] \in Nat
  <2>. DEFINE T == {m \in 0 .. n : end[m] \in Nat}
  <2>1. 0 \in T
    <3>1. 0 \in 0 .. n
      BY <1>1
    <3>. HIDE DEF n
    <3>2. end[0] = 0
      BY <1>9, <3>1, Zenon
    <3>. QED
      BY <3>1, <3>2
  <2>2. ASSUME NEW m \in Nat, m < n, m \in T PROVE m + 1 \in T
    <3>1. m + 1 \in 1 .. n /\ m + 1 \in 0 .. n /\ (m + 1) - 1 = m /\ m + 1 # 0
      BY <1>1, <2>2
    <3>2. end[m + 1] = end[m] + ns[m + 1] /\ end[m] \in Nat /\ ns[m + 1] \in Nat
      BY <1>1, <1>9, <2>2, <3>1
    <3>. QED
      BY <3>1, <3>2
  <2>3. \A m \in 0 .. n : m \in T
    <3>. HIDE DEF T, n
    <3>. QED
      BY <1>1, <2>1, <2>2, Induct
  <2>. QED
    BY <2>3
<1>11. end \in [0 .. n -> Nat]
  <2>. HIDE DEF n
  <2>. QED
    BY <1>9, <1>10, Zenon
<1>12. end[0] = 0 /\ \A m \in 1 .. n : end[m] = end[m - 1] + ns[m]
  <2>1. 0 \in 0 .. n /\ \A m \in 1 .. n : m \in 0 .. n /\ m # 0
    BY <1>1
  <2>. HIDE DEF n
  <2>. QED
    BY <1>9, <2>1, Zenon
<1>. QED
  BY <1>8, <1>11, <1>12, Zenon DEF EndsOf

(* FlattenSeq, part by part.                                                *)
Flattens(s, S, f) == /\ f \in [0 .. Len(s) -> Seq(S)] /\ f[0] = <<>>
                     /\ \A m \in 1 .. Len(s) : f[m] = f[m - 1] \o s[m]
                     /\ FlattenSeq(s) = f[Len(s)]

LEMMA FlattenIs ==
    ASSUME NEW S, NEW s \in Seq(Seq(S)), Len(s) > 0
    PROVE  \E f : Flattens(s, S, f)
<1>. DEFINE n == Len(s)
            Step(f) == [m \in 1 .. n |-> IF m = 1 THEN s[m] ELSE f[m - 1] \o s[m]]
            g == [m \in 1 .. n |-> [x \in Seq(S) |-> x \o s[m]]]
            flat == CHOOSE f : f = Step(f)
<1>1. n \in Nat /\ n > 0 /\ \A m \in 1 .. n : s[m] \in Seq(S)
  OBVIOUS
<1>2. g \in [1 .. n -> [Seq(S) -> Seq(S)]]
  <2>1. ASSUME NEW m \in 1 .. n, NEW x \in Seq(S) PROVE x \o s[m] \in Seq(S)
    <3>1. s[m] \in Seq(S)
      BY <1>1
    <3>. QED
      BY <3>1
  <2>. HIDE DEF n
  <2>. QED
    BY <2>1, Zenon
<1>2a. \A m \in 1 .. n, x \in Seq(S) : g[m][x] = x \o s[m]
  OBVIOUS
<1>3. PICK f : Results(f, Seq(S), <<>>, n, g)
  <2>1. <<>> \in Seq(S)
    OBVIOUS
  <2>. HIDE DEF g, n
  <2>. QED
    BY <1>1, <1>2, <2>1, Recursion, Zenon
<1>. HIDE DEF g
<1>4. /\ f \in [0 .. n -> Seq(S)]
      /\ f[0] = <<>> /\ \A m \in 1 .. n : f[m] = g[m][f[m - 1]]
  BY <1>3 DEF Results
<1>5. \A m \in 1 .. n : f[m] = f[m - 1] \o s[m]
  <2>1. ASSUME NEW m \in 1 .. n PROVE f[m - 1] \in Seq(S)
    <3>1. m - 1 \in 0 .. n
      OBVIOUS
    <3>. HIDE DEF n
    <3>. QED
      BY <1>4, <3>1, Zenon
  <2>. HIDE DEF n
  <2>. QED
    BY <1>2a, <1>4, <2>1, Zenon
<1>6. PICK h : h = [m \in 1 .. n |-> f[m]]
  OBVIOUS
<1>7. h = Step(h)
  <2>1. ASSUME NEW m \in 1 .. n PROVE h[m] = IF m = 1 THEN s[m] ELSE h[m - 1] \o s[m]
    <3>1. CASE m = 1
      <4>1. f[1] = <<>> \o s[1] /\ s[1] \in Seq(S)
        <5>1. 1 \in 1 .. n /\ 1 - 1 = 0
          BY <1>1
        <5>. HIDE DEF n
        <5>. QED
          BY <1>1, <1>4, <1>5, <5>1
      <4>2. <<>> \o s[1] = s[1]
        BY <4>1
      <4>. QED
        BY <1>6, <3>1, <4>1, <4>2
    <3>2. CASE m # 1
      <4>1. m - 1 \in 1 .. n
        BY <3>2
      <4>. HIDE DEF n
      <4>. QED
        BY <1>5, <1>6, <3>2, <4>1, Zenon
    <3>. QED
      BY <3>1, <3>2
  <2>. HIDE DEF n
  <2>. QED
    BY <1>6, <2>1, Zenon
<1>8. flat = Step(flat)
  <2>. HIDE DEF Step, flat
  <2>. QED
    BY <1>7, Zenon DEF flat
<1>9. FlattenSeq(s) = flat[n]
  <2>1. ~(Len(s) = 0)
    OBVIOUS
  <2>. QED
    BY <2>1, Zenon DEF FlattenSeq
<1>. HIDE DEF flat
<1>10. \A m \in 1 .. n : flat[m] = IF m = 1 THEN s[m] ELSE flat[m - 1] \o s[m]
  <2>. HIDE DEF n
  <2>. QED
    BY <1>8, Zenon
<1>11. \A m \in 1 .. n : flat[m] = f[m]
  <2>. DEFINE T == {m \in 0 .. n : m = 0 \/ flat[m] = f[m]}
  <2>1. 0 \in T
    BY <1>1
  <2>2. ASSUME NEW m \in Nat, m < n, m \in T PROVE m + 1 \in T
    <3>1. m + 1 \in 1 .. n /\ m + 1 \in 0 .. n /\ (m + 1) - 1 = m
      <4>. HIDE DEF T, n
      <4>. QED
        BY <1>1, <2>2
    <3>2. CASE m = 0
      <4>1. flat[1] = s[1] /\ f[1] = s[1]
        <5>1. 1 \in 1 .. n
          BY <1>1
        <5>. HIDE DEF n
        <5>. QED
          BY <1>6, <1>7, <1>10, <5>1, Zenon
      <4>. QED
        BY <3>1, <3>2, <4>1
    <3>3. CASE m # 0
      <4>1. m + 1 # 1 /\ flat[m] = f[m]
        BY <2>2, <3>3
      <4>2. flat[m + 1] = flat[m] \o s[m + 1] /\ f[m + 1] = f[m] \o s[m + 1]
        <5>. HIDE DEF n
        <5>. QED
          BY <1>5, <1>10, <3>1, <4>1, Zenon
      <4>. QED
        BY <3>1, <4>1, <4>2
    <3>. QED
      BY <3>2, <3>3
  <2>3. \A m \in 0 .. n : m \in T
    <3>. HIDE DEF T, n
    <3>. QED
      BY <1>1, <2>1, <2>2, Induct
  <2>. QED
    BY <2>3
<1>12. FlattenSeq(s) = f[n]
  <2>1. n \in 1 .. n
    BY <1>1
  <2>. QED
    BY <1>9, <1>11, <2>1
<1>. QED
  BY <1>4, <1>5, <1>12, Zenon DEF Flattens

Joined(a, b, c) == /\ Len(c) = Len(a) + Len(b)
                   /\ \A x \in 1 .. Len(a) : c[x] = a[x]
                   /\ \A x \in 1 .. Len(b) : c[Len(a) + x] = b[x]

LEMMA Concat ==
    ASSUME NEW S, NEW a \in Seq(S), NEW b \in Seq(S)
    PROVE  a \o b \in Seq(S) /\ Joined(a, b, a \o b)
<1>1. Len(a) \in Nat /\ Len(b) \in Nat /\ a \o b \in Seq(S) /\ Len(a \o b) = Len(a) + Len(b)
  OBVIOUS
<1>2. ASSUME NEW x \in 1 .. Len(a) PROVE (a \o b)[x] = a[x]
  OBVIOUS
<1>3. ASSUME NEW x \in 1 .. Len(b) PROVE (a \o b)[Len(a) + x] = b[x]
  <2>1. Len(a) + x \in 1 .. Len(a) + Len(b) /\ ~(Len(a) + x <= Len(a))
    BY <1>1
  <2>. QED
    BY <2>1
<1>. QED
  BY <1>1, <1>2, <1>3, Zenon DEF Joined

LEMMA InSum ==
    ASSUME NEW e \in Nat, NEW w \in Nat
    PROVE  /\ \A x \in 1 .. e : x \in 1 .. e + w
           /\ \A x \in 1 .. w : e + x \in 1 .. e + w
  OBVIOUS

Lens(s) == [m \in 1 .. Len(s) |-> Len(s[m])]

LEMMA LensAre ==
    ASSUME NEW S, NEW s \in Seq(Seq(S))
    PROVE  /\ Lens(s) \in Seq(Nat) /\ Len(Lens(s)) = Len(s)
           /\ \A m \in 1 .. Len(s) : Lens(s)[m] = Len(s[m])
<1>1. \A m \in 1 .. Len(s) : s[m] \in Seq(S) /\ Len(s[m]) \in Nat
  OBVIOUS
<1>. QED
  BY <1>1 DEF Lens

(* Part q lies behind the ends of the parts before it.                      *)
Lies(s, E, F, m) ==
    \A q \in 1 .. m : \A j \in 1 .. Len(s[q]) :
        E[q - 1] + j \in 1 .. E[m] /\ F[E[q - 1] + j] = s[q][j]

LEMMA Flattened ==
    ASSUME NEW S, NEW s \in Seq(Seq(S)), Len(s) > 0
    PROVE  /\ FlattenSeq(s) \in Seq(S)
           /\ Len(FlattenSeq(s)) = Ends(Lens(s))[Len(s)]
           /\ Lies(s, Ends(Lens(s)), FlattenSeq(s), Len(s))
<1>. DEFINE n == Len(s)
            E == Ends(Lens(s))
<1>1. n \in Nat /\ \A m \in 1 .. n : s[m] \in Seq(S) /\ Len(s[m]) \in Nat
  OBVIOUS
<1>2. /\ E \in [0 .. n -> Nat] /\ E[0] = 0
      /\ \A m \in 1 .. n : E[m] = E[m - 1] + Len(s[m])
  <2>1. Lens(s) \in Seq(Nat)
    BY LensAre, Zenon
  <2>2. EndsOf(Lens(s), E)
    BY <2>1, EndsAre, Zenon
  <2>. HIDE DEF E
  <2>. QED
    BY <2>2, LensAre, Zenon DEF EndsOf
<1>3. PICK f : Flattens(s, S, f)
  BY FlattenIs, Zenon
<1>4. /\ f \in [0 .. n -> Seq(S)] /\ f[0] = <<>>
      /\ \A m \in 1 .. n : f[m] = f[m - 1] \o s[m]
      /\ FlattenSeq(s) = f[n]
  BY <1>3, Zenon DEF Flattens
<1>. HIDE DEF E
<1>. DEFINE T == {m \in 0 .. n : Len(f[m]) = E[m] /\ Lies(s, E, f[m], m)}
<1>5. 0 \in T
  <2>1. 0 \in 0 .. n
    BY <1>1
  <2>2. Len(f[0]) = E[0]
    BY <1>2, <1>4
  <2>3. Lies(s, E, f[0], 0)
    BY DEF Lies
  <2>. HIDE DEF n
  <2>. QED
    BY <2>1, <2>2, <2>3
<1>6. ASSUME NEW m \in Nat, m < n, m \in T
      PROVE  m + 1 \in T
  <2>1. m + 1 \in 1 .. n /\ m + 1 \in 0 .. n /\ m \in 0 .. n /\ (m + 1) - 1 = m
    <3>. HIDE DEF T, n
    <3>. QED
      BY <1>1, <1>6
  <2>2. Len(f[m]) = E[m] /\ Lies(s, E, f[m], m)
    <3>. HIDE DEF n
    <3>. QED
      BY <1>6
  <2>3. /\ f[m + 1] = f[m] \o s[m + 1] /\ E[m + 1] = E[m] + Len(s[m + 1])
        /\ f[m] \in Seq(S) /\ s[m + 1] \in Seq(S) /\ Len(s[m + 1]) \in Nat /\ E[m] \in Nat
    <3>. HIDE DEF n, T
    <3>. QED
      BY <1>1, <1>2, <1>4, <2>1, Zenon
  <2>. DEFINE a == f[m]
              b == s[m + 1]
  <2>4. /\ Len(a \o b) = Len(a) + Len(b)
        /\ \A x \in 1 .. Len(a) : (a \o b)[x] = a[x]
        /\ \A x \in 1 .. Len(b) : (a \o b)[Len(a) + x] = b[x]
    <3>1. a \in Seq(S) /\ b \in Seq(S)
      BY <2>3, Zenon
    <3>. HIDE DEF a, b
    <3>2. Joined(a, b, a \o b)
      BY <3>1, Concat, Zenon
    <3>. QED
      BY <3>2, Zenon DEF Joined
  <2>5. Len(f[m + 1]) = E[m + 1]
    BY <2>2, <2>3, <2>4, Zenon
  <2>6. ASSUME NEW q \in 1 .. m + 1, NEW j \in 1 .. Len(s[q])
        PROVE  E[q - 1] + j \in 1 .. E[m + 1] /\ f[m + 1][E[q - 1] + j] = s[q][j]
    <3>1. CASE q = m + 1
      <4>1. q - 1 = m /\ j \in 1 .. Len(b)
        BY <2>1, <3>1
      <4>2. f[m + 1][E[m] + j] = b[j]
        BY <2>2, <2>3, <2>4, <4>1, Zenon
      <4>3. E[m] + j \in 1 .. E[m] + Len(b)
        <5>1. E[m] \in Nat /\ Len(b) \in Nat
          BY <2>3, Zenon
        <5>. HIDE DEF b
        <5>. QED
          BY <4>1, <5>1, InSum, Zenon
      <4>. QED
        BY <2>3, <3>1, <4>1, <4>2, <4>3, Zenon
    <3>2. CASE q # m + 1
      <4>1. q \in 1 .. m
        <5>. HIDE DEF T
        <5>. QED
          BY <1>6, <3>2
      <4>2. E[q - 1] + j \in 1 .. E[m] /\ f[m][E[q - 1] + j] = s[q][j]
        BY <2>2, <4>1, Zenon DEF Lies
      <4>3. f[m + 1][E[q - 1] + j] = f[m][E[q - 1] + j]
        BY <2>2, <2>3, <2>4, <4>2, Zenon
      <4>4. \A x \in 1 .. E[m] : x \in 1 .. E[m] + Len(b)
        <5>1. E[m] \in Nat /\ Len(b) \in Nat
          BY <2>3, Zenon
        <5>. HIDE DEF b
        <5>. QED
          BY <5>1, InSum, Zenon
      <4>. QED
        BY <2>3, <4>2, <4>3, <4>4, Zenon
    <3>. QED
      BY <3>1, <3>2
  <2>7. Lies(s, E, f[m + 1], m + 1)
    BY <2>6, Zenon DEF Lies
  <2>. HIDE DEF n
  <2>. QED
    BY <2>1, <2>5, <2>7
<1>7. n \in T
  <2>. HIDE DEF T
  <2>1. n \in 0 .. n
    BY <1>1
  <2>. HIDE DEF n
  <2>. QED
    BY <1>1, <1>5, <1>6, <2>1, Induct
<1>8. f[n] \in Seq(S) /\ Len(f[n]) = E[n] /\ Lies(s, E, f[n], n)
  <2>1. n \in 0 .. n
    BY <1>1
  <2>. HIDE DEF n
  <2>. QED
    BY <1>4, <1>7, <2>1, Zenon
<1>. QED
  BY <1>4, <1>8, Zenon DEF E

(* Each part is what R has at its place.                                    *)
Reads(s, R) ==
    \A m \in 1 .. Len(s) : \A j \in 1 .. Len(s[m]) : s[m][j] = R[Ends(Lens(s))[m - 1] + j]

(* Then all of them are R from its first to where the last one ends.        *)
LEMMA FlattenedIs ==
    ASSUME NEW S, NEW s \in Seq(Seq(S)), Len(s) > 0, NEW R, Reads(s, R)
    PROVE  FlattenSeq(s) = [x \in 1 .. Ends(Lens(s))[Len(s)] |-> R[x]]
<1>. DEFINE n == Len(s)
            E == Ends(Lens(s))
            To(m) == [x \in 1 .. E[m] |-> R[x]]
<1>1. n \in Nat /\ \A m \in 1 .. n : s[m] \in Seq(S) /\ Len(s[m]) \in Nat
  OBVIOUS
<1>2. /\ E \in [0 .. n -> Nat] /\ E[0] = 0
      /\ \A m \in 1 .. n : E[m] = E[m - 1] + Len(s[m])
  <2>1. Lens(s) \in Seq(Nat)
    BY LensAre, Zenon
  <2>2. EndsOf(Lens(s), E)
    BY <2>1, EndsAre, Zenon
  <2>. HIDE DEF E
  <2>. QED
    BY <2>2, LensAre, Zenon DEF EndsOf
<1>3. PICK f : Flattens(s, S, f)
  BY FlattenIs, Zenon
<1>4. /\ f \in [0 .. n -> Seq(S)] /\ f[0] = <<>>
      /\ \A m \in 1 .. n : f[m] = f[m - 1] \o s[m]
      /\ FlattenSeq(s) = f[n]
  BY <1>3, Zenon DEF Flattens
<1>5. \A m \in 1 .. n : \A j \in 1 .. Len(s[m]) : s[m][j] = R[E[m - 1] + j]
  BY Zenon DEF Reads
<1>. HIDE DEF E
<1>. DEFINE T == {m \in 0 .. n : f[m] = To(m)}
<1>6. 0 \in T
  <2>1. 0 \in 0 .. n
    BY <1>1
  <2>2. To(0) = <<>>
    BY <1>2
  <2>. HIDE DEF n, To
  <2>. QED
    BY <1>4, <2>1, <2>2
<1>7. ASSUME NEW m \in Nat, m < n, m \in T
      PROVE  m + 1 \in T
  <2>1. m + 1 \in 1 .. n /\ m + 1 \in 0 .. n /\ m \in 0 .. n /\ (m + 1) - 1 = m
    <3>. HIDE DEF T, n
    <3>. QED
      BY <1>1, <1>7
  <2>2. f[m] = To(m)
    <3>. HIDE DEF n, To
    <3>. QED
      BY <1>7
  <2>3. /\ f[m + 1] = f[m] \o s[m + 1] /\ E[m + 1] = E[m] + Len(s[m + 1])
        /\ f[m] \in Seq(S) /\ s[m + 1] \in Seq(S) /\ Len(s[m + 1]) \in Nat /\ E[m] \in Nat
        /\ f[m + 1] \in Seq(S)
        /\ \A j \in 1 .. Len(s[m + 1]) : s[m + 1][j] = R[E[m] + j]
    <3>. HIDE DEF n, T
    <3>. QED
      BY <1>1, <1>2, <1>4, <1>5, <2>1, Zenon
  <2>. DEFINE a == f[m]
              b == s[m + 1]
              c == f[m + 1]
              e == E[m]
  <2>4. /\ Len(c) = Len(a) + Len(b)
        /\ \A x \in 1 .. Len(a) : c[x] = a[x]
        /\ \A x \in 1 .. Len(b) : c[Len(a) + x] = b[x]
    <3>1. a \in Seq(S) /\ b \in Seq(S) /\ c = a \o b
      BY <2>3, Zenon
    <3>. HIDE DEF a, b, c
    <3>2. Joined(a, b, c)
      BY <3>1, Concat, Zenon
    <3>. QED
      BY <3>2, Zenon DEF Joined
  <2>5. Len(a) = e /\ \A x \in 1 .. e : a[x] = R[x]
    <3>1. a = [x \in 1 .. e |-> R[x]] /\ e \in Nat
      BY <2>2, <2>3, Zenon
    <3>. HIDE DEF a, e, T
    <3>. QED
      BY <3>1
  <2>6. c = [x \in 1 .. e + Len(b) |-> R[x]]
    <3>1. /\ c \in Seq(S) /\ Len(c) = e + Len(b) /\ e \in Nat /\ Len(b) \in Nat
          /\ \A x \in 1 .. e : c[x] = R[x]
          /\ \A x \in 1 .. Len(b) : c[e + x] = R[e + x]
      BY <2>3, <2>4, <2>5, Zenon
    <3>. HIDE DEF a, b, c, e, T
    <3>2. ASSUME NEW x \in 1 .. e + Len(b) PROVE c[x] = R[x]
      <4>1. CASE x <= e
        <5>1. x \in 1 .. e
          BY <3>1, <4>1
        <5>. QED
          BY <3>1, <5>1
      <4>2. CASE ~(x <= e)
        <5>1. x - e \in 1 .. Len(b) /\ e + (x - e) = x
          BY <3>1, <4>2
        <5>2. c[e + (x - e)] = R[e + (x - e)]
          BY <3>1, <5>1, Zenon
        <5>. QED
          BY <5>1, <5>2, Zenon
      <4>. QED
        BY <4>1, <4>2
    <3>3. c = [x \in 1 .. e + Len(b) |-> c[x]]
      BY <3>1
    <3>. QED
      BY <3>2, <3>3, Zenon
  <2>7. f[m + 1] = To(m + 1)
    BY <2>3, <2>6, Zenon
  <2>. HIDE DEF n, To
  <2>. QED
    BY <2>1, <2>7
<1>8. n \in T
  <2>. HIDE DEF T
  <2>1. n \in 0 .. n
    BY <1>1
  <2>. HIDE DEF n
  <2>. QED
    BY <1>1, <1>6, <1>7, <2>1, Induct
<1>9. f[n] = To(n)
  <2>. HIDE DEF n, To
  <2>. QED
    BY <1>8
<1>. QED
  BY <1>4, <1>9, Zenon DEF E

-----------------------------------------------------------------------------
(***************************************************************************)
(* The tables.  For each kind but G the signals are declared with the       *)
(* widths of the structure's fields, and these add up to the message.       *)
(***************************************************************************)
Agree(f, d, n) ==
    /\ Len(f) \in Nat /\ Len(f) > 0 /\ d \in Seq(Nat) /\ Len(d) = Len(f)
    /\ \A j \in 1 .. Len(f) : f[j] \in DOMAIN Width /\ d[j] = Width[f[j]]
    /\ \A E : E[0] = 0 /\ (\A j \in 1 .. Len(f) : E[j] = E[j - 1] + d[j]) => E[Len(f)] = n

LEMMA AdminAgree == \A k \in DOMAIN AdminFields :
                      Agree(AdminFields[k], Declared[k], ExpLen[k])
<1>1. Agree(AdminFields["S"], Declared["S"], ExpLen["S"])
  BY DEF Agree, AdminFields, Stamp, Declared, StampWidths, ExpLen, Width
<1>2. Agree(AdminFields["R"], Declared["R"], ExpLen["R"])
  BY DEF Agree, AdminFields, Stamp, Declared, StampWidths, ExpLen, Width
<1>3. Agree(AdminFields["H"], Declared["H"], ExpLen["H"])
  BY DEF Agree, AdminFields, Stamp, Declared, StampWidths, ExpLen, Width
<1>4. Agree(AdminFields["Y"], Declared["Y"], ExpLen["Y"])
  BY DEF Agree, AdminFields, Stamp, Declared, StampWidths, ExpLen, Width
<1>5. Agree(AdminFields["L"], Declared["L"], ExpLen["L"])
  BY DEF Agree, AdminFields, Stamp, Declared, StampWidths, ExpLen, Width
<1>6. Agree(AdminFields["V"], Declared["V"], ExpLen["V"])
  BY DEF Agree, AdminFields, Stamp, Declared, StampWidths, ExpLen, Width
<1>7. Agree(AdminFields["W"], Declared["W"], ExpLen["W"])
  BY DEF Agree, AdminFields, Stamp, Declared, StampWidths, ExpLen, Width
<1>8. Agree(AdminFields["K"], Declared["K"], ExpLen["K"])
  BY DEF Agree, AdminFields, Stamp, Declared, StampWidths, ExpLen, Width
<1>9. Agree(AdminFields["J"], Declared["J"], ExpLen["J"])
  BY DEF Agree, AdminFields, Stamp, Declared, StampWidths, ExpLen, Width
<1>10. Agree(AdminFields["h"], Declared["h"], ExpLen["h"])
  BY DEF Agree, AdminFields, Stamp, Declared, StampWidths, ExpLen, Width
<1>11. DOMAIN AdminFields = {"S", "R", "H", "Y", "L", "V", "W", "K", "J", "h"}
  BY Zenon DEF AdminFields
<1>. QED
  BY <1>1, <1>2, <1>3, <1>4, <1>5, <1>6, <1>7, <1>8, <1>9, <1>10, <1>11, Zenon

LEMMA OrderAgree == \A k \in DOMAIN OrderFields :
                      Agree(OrderFields[k], Declared[k], ExpLen[k])
<1>1. Agree(OrderFields["A"], Declared["A"], ExpLen["A"])
  BY DEF Agree, OrderFields, Stamp, Declared, StampWidths, ExpLen, Width
<1>2. Agree(OrderFields["F"], Declared["F"], ExpLen["F"])
  BY DEF Agree, OrderFields, Stamp, Declared, StampWidths, ExpLen, Width
<1>3. Agree(OrderFields["E"], Declared["E"], ExpLen["E"])
  BY DEF Agree, OrderFields, Stamp, Declared, StampWidths, ExpLen, Width
<1>4. Agree(OrderFields["C"], Declared["C"], ExpLen["C"])
  BY DEF Agree, OrderFields, Stamp, Declared, StampWidths, ExpLen, Width
<1>5. Agree(OrderFields["X"], Declared["X"], ExpLen["X"])
  BY DEF Agree, OrderFields, Stamp, Declared, StampWidths, ExpLen, Width
<1>6. Agree(OrderFields["D"], Declared["D"], ExpLen["D"])
  BY DEF Agree, OrderFields, Stamp, Declared, StampWidths, ExpLen, Width
<1>7. Agree(OrderFields["U"], Declared["U"], ExpLen["U"])
  BY DEF Agree, OrderFields, Stamp, Declared, StampWidths, ExpLen, Width
<1>8. DOMAIN OrderFields = {"A", "F", "E", "C", "X", "D", "U"}
  BY Zenon DEF OrderFields
<1>. QED
  BY <1>1, <1>2, <1>3, <1>4, <1>5, <1>6, <1>7, <1>8, Zenon

LEMMA TradeAgree == \A k \in DOMAIN TradeFields : k # "G" =>
                      Agree(TradeFields[k], Declared[k], ExpLen[k])
<1>1. Agree(TradeFields["P"], Declared["P"], ExpLen["P"])
  BY DEF Agree, TradeFields, Stamp, Declared, StampWidths, ExpLen, Width
<1>2. Agree(TradeFields["Q"], Declared["Q"], ExpLen["Q"])
  BY DEF Agree, TradeFields, Stamp, Declared, StampWidths, ExpLen, Width
<1>3. Agree(TradeFields["B"], Declared["B"], ExpLen["B"])
  BY DEF Agree, TradeFields, Stamp, Declared, StampWidths, ExpLen, Width
<1>4. Agree(TradeFields["I"], Declared["I"], ExpLen["I"])
  BY DEF Agree, TradeFields, Stamp, Declared, StampWidths, ExpLen, Width
<1>5. Agree(TradeFields["N"], Declared["N"], ExpLen["N"])
  BY DEF Agree, TradeFields, Stamp, Declared, StampWidths, ExpLen, Width
<1>6. DOMAIN TradeFields = {"P", "Q", "B", "I", "N", "G"}
  BY Zenon DEF TradeFields
<1>. QED
  BY <1>1, <1>2, <1>3, <1>4, <1>5, <1>6, Zenon


LEMMA EndsGrow ==
    ASSUME NEW ns \in Seq(Nat), NEW E, EndsOf(ns, E), NEW a \in 0 .. Len(ns), NEW b \in a .. Len(ns)
    PROVE  E[a] <= E[b]
<1>. DEFINE n == b - a
            T == {m \in 0 .. n : E[a] <= E[a + m]}
<1>1. /\ E \in [0 .. Len(ns) -> Nat]
      /\ \A m \in 1 .. Len(ns) : E[m] = E[m - 1] + ns[m] /\ ns[m] \in Nat
  BY DEF EndsOf
<1>2. n \in Nat /\ a \in Nat /\ a + n = b /\ Len(ns) \in Nat /\ b <= Len(ns)
  OBVIOUS
<1>3. 0 \in T
  <2>1. 0 \in 0 .. n /\ a + 0 = a /\ E[a] \in Nat
    <3>1. E[a] \in Nat
      BY <1>1
    <3>. HIDE DEF n
    <3>. QED
      BY <1>2, <3>1
  <2>2. E[a] <= E[a + 0]
    BY <2>1
  <2>. HIDE DEF n
  <2>. QED
    BY <2>1, <2>2
<1>4. ASSUME NEW m \in Nat, m < n, m \in T PROVE m + 1 \in T
  <2>1. /\ m + 1 \in 0 .. n /\ a + (m + 1) \in 1 .. Len(ns) /\ (a + (m + 1)) - 1 = a + m
        /\ a + m \in 0 .. Len(ns)
    <3>. HIDE DEF T
    <3>. QED
      BY <1>2, <1>4
  <2>2. E[a + (m + 1)] = E[a + m] + ns[a + (m + 1)] /\ ns[a + (m + 1)] \in Nat /\ E[a + m] \in Nat
    BY <1>1, <2>1
  <2>3. E[a] <= E[a + m] /\ E[a] \in Nat
    BY <1>1, <1>4
  <2>4. E[a] <= E[a + (m + 1)]
    <3>. DEFINE u == E[a + m]
                w == ns[a + (m + 1)]
                y == E[a]
    <3>1. u \in Nat /\ w \in Nat /\ y \in Nat /\ y <= u /\ E[a + (m + 1)] = u + w
      BY <2>2, <2>3
    <3>. HIDE DEF u, w, y, n, T
    <3>2. y <= u + w
      BY <3>1
    <3>. QED
      BY <3>1, <3>2 DEF y
  <2>. HIDE DEF n
  <2>. QED
    BY <2>1, <2>4
<1>5. n \in T
  <2>1. n \in 0 .. n
    BY <1>2
  <2>. HIDE DEF T, n
  <2>. QED
    BY <1>2, <1>3, <1>4, <2>1, Induct
<1>. QED
  BY <1>2, <1>5

LEMMA KindsAre ==
    /\ Len(Kinds) \in Nat /\ Len(Kinds) > 0
    /\ \A n \in 1 .. Len(Kinds) : Kinds[n] \in Kind
    /\ Kind = (DOMAIN AdminFields) \cup (DOMAIN OrderFields) \cup (DOMAIN TradeFields)
<1>1. Len(Kinds) = 23 /\ DOMAIN Kinds = 1 .. 23
  BY DEF Kinds
<1>2. \A n \in 1 .. Len(Kinds) : Kinds[n] \in Kind
  BY <1>1, Zenon DEF Kind, ToSet
<1>3. Kind = {"S", "R", "H", "Y", "L", "V", "W", "K", "J", "h", "A", "F", "E",
              "C", "X", "D", "U", "P", "Q", "B", "I", "N", "G"}
  BY DEF Kind, ToSet, Kinds
<1>4. DOMAIN AdminFields = {"S", "R", "H", "Y", "L", "V", "W", "K", "J", "h"}
  BY Zenon DEF AdminFields
<1>5. DOMAIN OrderFields = {"A", "F", "E", "C", "X", "D", "U"}
  BY Zenon DEF OrderFields
<1>6. DOMAIN TradeFields = {"P", "Q", "B", "I", "N", "G"}
  BY Zenon DEF TradeFields
<1>7. Kind = (DOMAIN AdminFields) \cup (DOMAIN OrderFields) \cup (DOMAIN TradeFields)
  BY <1>3, <1>4, <1>5, <1>6
<1>. QED
  BY <1>1, <1>2, <1>7

(* The put calls follow the structures.                                     *)
LEMMA PutsFit == Puts = Fields
<1>1. AdminPuts = AdminFields /\ OrderPuts = OrderFields /\ TradePuts = TradeFields
  BY Zenon DEF AdminPuts, AdminFields, OrderPuts, OrderFields, TradePuts, TradeFields
<1>. QED
  BY <1>1, Zenon DEF Puts, Fields

LEMMA FieldsAgree ==
    /\ \A k \in Kind : k # "G" => Agree(Fields[k], Declared[k], ExpLen[k])
    /\ Fields["G"] = <<"char_20">> /\ Declared["G"] = <<10>> /\ ExpLen["G"] = 20
<1>1. \A k \in Kind : Fields[k] = IF k \in DOMAIN AdminFields THEN AdminFields[k]
                                  ELSE IF k \in DOMAIN OrderFields THEN OrderFields[k]
                                  ELSE TradeFields[k]
  BY Zenon DEF Fields, Together
<1>2. \A k \in Kind : k # "G" => Agree(Fields[k], Declared[k], ExpLen[k])
  BY <1>1, KindsAre, AdminAgree, OrderAgree, TradeAgree, Zenon
<1>3. "G" \in Kind
  BY DEF Kind, ToSet, Kinds
<1>4. "G" \notin DOMAIN AdminFields /\ "G" \notin DOMAIN OrderFields
  BY DEF AdminFields, OrderFields
<1>5. Fields["G"] = TradeFields["G"]
  BY <1>1, <1>3, <1>4, Zenon
<1>6. TradeFields["G"] = <<"char_20">>
  BY DEF TradeFields
<1>7. Declared["G"] = <<10>> /\ ExpLen["G"] = 20
  BY DEF Declared, ExpLen
<1>. QED
  BY <1>2, <1>5, <1>6, <1>7

LEMMA WidthNat == \A t \in DOMAIN Width : Width[t] \in 1 .. 20
  BY DEF Width

LEMMA ExpLenNat == \A k \in Kind : ExpLen[k] \in 1 .. 50
<1>1. DOMAIN ExpLen = Kind
  BY DEF ExpLen, Kind, ToSet, Kinds
<1>2. \A k \in DOMAIN ExpLen : ExpLen[k] \in 1 .. 50
  BY DEF ExpLen
<1>. QED
  BY <1>1, <1>2

(***************************************************************************)
(* The structures: a field lies behind those before it and inside.          *)
(***************************************************************************)
Counted(k) == Len(Fields[k])

LEMMA KindFits ==
    ASSUME NEW k \in Kind
    PROVE  /\ Counted(k) \in Nat /\ Counted(k) > 0
           /\ Declared[k] \in Seq(Nat) /\ Len(Declared[k]) = Counted(k)
           /\ \A j \in 1 .. Counted(k) :
                  /\ Fields[k][j] \in DOMAIN Width /\ Width[Fields[k][j]] \in 1 .. 20
                  /\ Declared[k][j] <= Width[Fields[k][j]] /\ Declared[k][j] \in Nat
                  /\ k # "G" => Declared[k][j] = Width[Fields[k][j]]
<1>1. CASE k = "G"
  <2>1. /\ Counted(k) = 1 /\ Declared[k] = <<10>> /\ Fields[k][1] = "char_20"
    BY <1>1, FieldsAgree DEF Counted
  <2>2. "char_20" \in DOMAIN Width /\ Width["char_20"] = 20
    BY DEF Width
  <2>3. Declared[k] \in Seq(Nat) /\ Len(Declared[k]) = 1 /\ Declared[k][1] = 10
    BY <2>1
  <2>. QED
    BY <1>1, <2>1, <2>2, <2>3
<1>2. CASE k # "G"
  <2>1. Agree(Fields[k], Declared[k], ExpLen[k])
    BY <1>2, FieldsAgree, Zenon
  <2>2. /\ Counted(k) \in Nat /\ Counted(k) > 0
        /\ Declared[k] \in Seq(Nat) /\ Len(Declared[k]) = Counted(k)
        /\ \A j \in 1 .. Counted(k) : /\ Fields[k][j] \in DOMAIN Width
                                      /\ Declared[k][j] = Width[Fields[k][j]]
    BY <2>1, Zenon DEF Agree, Counted
  <2>3. ASSUME NEW j \in 1 .. Counted(k)
        PROVE  Width[Fields[k][j]] \in 1 .. 20 /\ Declared[k][j] \in Nat
                   /\ Declared[k][j] <= Width[Fields[k][j]]
    <3>. DEFINE w == Width[Fields[k][j]]
                d == Declared[k][j]
    <3>1. w \in 1 .. 20 /\ d = w
      BY <2>2, WidthNat, Zenon
    <3>. HIDE DEF w, d
    <3>2. w \in 1 .. 20 /\ d \in Nat /\ d <= w
      BY <3>1
    <3>. QED
      BY <3>2 DEF w, d
  <2>. QED
    BY <2>2, <2>3, Zenon
<1>. QED
  BY <1>1, <1>2

FieldEnd(k) == Ends(Widths(Fields[k]))

LEMMA WidthsAre ==
    ASSUME NEW k \in Kind
    PROVE  /\ Widths(Fields[k]) \in Seq(Nat) /\ Len(Widths(Fields[k])) = Counted(k)
           /\ \A j \in 1 .. Counted(k) : Widths(Fields[k])[j] = Width[Fields[k][j]]
<1>. DEFINE n == Counted(k)
            w == [j \in 1 .. n |-> Width[Fields[k][j]]]
<1>1. n \in Nat /\ \A j \in 1 .. n : Width[Fields[k][j]] \in Nat
  <2>1. \A x \in 1 .. 20 : x \in Nat
    OBVIOUS
  <2>. QED
    BY <2>1, KindFits, Zenon
<1>2. Widths(Fields[k]) = w
  BY Zenon DEF Widths, Counted
<1>. HIDE DEF n
<1>3. w \in Seq(Nat) /\ Len(w) = n /\ \A j \in 1 .. n : w[j] = Width[Fields[k][j]]
  BY <1>1
<1>. QED
  BY <1>2, <1>3, Zenon DEF n

LEMMA FieldEnds1 ==
    ASSUME NEW k \in Kind
    PROVE  /\ FieldEnd(k) \in [0 .. Counted(k) -> Nat] /\ FieldEnd(k)[0] = 0
           /\ \A j \in 1 .. Counted(k) :
                  /\ FieldEnd(k)[j] = FieldEnd(k)[j - 1] + Width[Fields[k][j]]
                  /\ FieldEnd(k)[j] <= SizeOf[k]
           /\ SizeOf[k] = FieldEnd(k)[Counted(k)] /\ SizeOf[k] = ExpLen[k]
<1>1. EndsOf(Widths(Fields[k]), FieldEnd(k))
  BY WidthsAre, EndsAre, Zenon DEF FieldEnd
<1>2. /\ FieldEnd(k) \in [0 .. Counted(k) -> Nat] /\ FieldEnd(k)[0] = 0
      /\ \A j \in 1 .. Counted(k) : FieldEnd(k)[j] = FieldEnd(k)[j - 1] + Width[Fields[k][j]]
  BY <1>1, WidthsAre, Zenon DEF EndsOf
<1>3. SizeOf[k] = FieldEnd(k)[Counted(k)]
  BY Zenon DEF SizeOf, FieldEnd, Counted
<1>4. \A j \in 1 .. Counted(k) : FieldEnd(k)[j] <= FieldEnd(k)[Counted(k)]
  <2>1. Counted(k) \in Nat
    BY KindFits
  <2>2. \A j \in 1 .. Counted(k) : j \in 0 .. Counted(k) /\ Counted(k) \in j .. Counted(k)
    BY <2>1
  <2>. QED
    BY <1>1, <2>2, WidthsAre, EndsGrow, Zenon
<1>5. FieldEnd(k)[Counted(k)] = ExpLen[k]
  <2>1. CASE k = "G"
    <3>1. Counted(k) = 1 /\ Width[Fields[k][1]] = 20 /\ ExpLen[k] = 20
      BY <2>1, FieldsAgree DEF Counted, Width
    <3>2. FieldEnd(k)[1] = FieldEnd(k)[1 - 1] + 20
      BY <1>2, <3>1
    <3>. QED
      BY <1>2, <3>1, <3>2
  <2>2. CASE k # "G"
    <3>1. Agree(Fields[k], Declared[k], ExpLen[k])
      BY <2>2, FieldsAgree, Zenon
    <3>2. \A j \in 1 .. Counted(k) : FieldEnd(k)[j] = FieldEnd(k)[j - 1] + Declared[k][j]
      BY <1>2, <2>2, KindFits, Zenon
    <3>. QED
      BY <1>2, <3>1, <3>2, Zenon DEF Agree, Counted
  <2>. QED
    BY <2>1, <2>2
<1>. QED
  BY <1>2, <1>3, <1>4, <1>5, Zenon

(* Byte b of field j is byte FieldEnd(k)[j - 1] + b of the structure.       *)
LEMMA MemberIs ==
    ASSUME NEW k \in Kind, NEW j \in 1 .. Counted(k)
    PROVE  /\ Offset[k][j] = FieldEnd(k)[j - 1]
           /\ \A b \in 1 .. Width[Fields[k][j]] : FieldEnd(k)[j - 1] + b \in 1 .. SizeOf[k]
<1>1. Offset[k][j] = FieldEnd(k)[j - 1]
  BY Zenon DEF Offset, FieldEnd, Counted
<1>2. ASSUME NEW b \in 1 .. Width[Fields[k][j]] PROVE FieldEnd(k)[j - 1] + b \in 1 .. SizeOf[k]
  <2>. DEFINE e == FieldEnd(k)[j - 1]
              w == Width[Fields[k][j]]
              z == SizeOf[k]
  <2>1. Counted(k) \in Nat
    BY KindFits
  <2>2. j - 1 \in 0 .. Counted(k) /\ Counted(k) \in 0 .. Counted(k)
    BY <2>1
  <2>3. e \in Nat /\ z \in Nat
    BY <2>2, FieldEnds1, Zenon
  <2>4. w \in 1 .. 20
    BY KindFits, Zenon
  <2>5. e + w <= z
    BY FieldEnds1, Zenon
  <2>6. b \in 1 .. w
    OBVIOUS
  <2>. HIDE DEF e, w, z
  <2>7. e + b \in 1 .. z
    BY <2>3, <2>4, <2>5, <2>6
  <2>. QED
    BY <2>7 DEF e, z
<1>. QED
  BY <1>1, <1>2

(***************************************************************************)
(* The arguments: the fields of the n-th kind lie behind FieldsFrom(n).     *)
(***************************************************************************)
FieldsFrom(n) == 2 + Len(Kinds) + FieldEnds[n - 1]

LEMMA FieldEndsAre ==
    /\ FieldEnds \in [0 .. Len(Kinds) -> Nat] /\ FieldEnds[0] = 0
    /\ \A n \in 1 .. Len(Kinds) :
           /\ FieldEnds[n] = FieldEnds[n - 1] + Counted(Kinds[n])
           /\ \A m \in n .. Len(Kinds) : FieldEnds[n] <= FieldEnds[m]
<1>. DEFINE ns == [n \in 1 .. Len(Kinds) |-> Len(Declared[Kinds[n]])]
<1>1. \A n \in 1 .. Len(Kinds) : /\ Len(Declared[Kinds[n]]) = Counted(Kinds[n])
                                 /\ Len(Declared[Kinds[n]]) \in Nat
  BY KindsAre, KindFits, Zenon
<1>2. ns \in Seq(Nat) /\ Len(ns) = Len(Kinds)
  BY <1>1, KindsAre
<1>3. EndsOf(ns, FieldEnds)
  <2>. HIDE DEF ns
  <2>1. EndsOf(ns, Ends(ns))
    BY <1>2, EndsAre, Zenon
  <2>. QED
    BY <2>1, Zenon DEF FieldEnds, ns
<1>4. \A n \in 1 .. Len(Kinds) : ns[n] = Counted(Kinds[n])
  BY <1>1, Zenon
<1>. HIDE DEF ns
<1>5. \A n \in 1 .. Len(Kinds) : n \in 0 .. Len(ns)
  BY <1>2, KindsAre
<1>6. \A n \in 1 .. Len(Kinds) : \A m \in n .. Len(Kinds) : FieldEnds[n] <= FieldEnds[m]
  BY <1>2, <1>3, <1>5, EndsGrow, Zenon
<1>. QED
  BY <1>2, <1>3, <1>4, <1>6, Zenon DEF EndsOf

(* The places of the n-th kind, all of them arguments.                      *)
LEMMA PlacesAre ==
    ASSUME NEW n \in 1 .. Len(Kinds)
    PROVE  /\ FieldsFrom(n) \in Nat /\ FieldsFrom(n) >= 2 + Len(Kinds)
           /\ FieldsFrom(n) + Counted(Kinds[n]) <= 2 + Len(Kinds) + FieldEnds[Len(Kinds)]
           /\ FieldsFrom(n + 1) = FieldsFrom(n) + Counted(Kinds[n])
           /\ Len(FieldPlaces(n)) = Counted(Kinds[n])
           /\ \A j \in 1 .. Counted(Kinds[n]) : FieldPlaces(n)[j] = FieldsFrom(n) + j
           /\ \A m \in n + 1 .. Len(Kinds) + 1 :
                  FieldsFrom(n) + Counted(Kinds[n]) <= FieldsFrom(m)
<1>. DEFINE k == Len(Kinds)
            e == FieldEnds[n - 1]
            f == FieldEnds[n]
            z == FieldEnds[Len(Kinds)]
            c == Counted(Kinds[n])
<1>1. k \in Nat /\ n \in Nat /\ n - 1 \in 0 .. k /\ n \in 0 .. k /\ k \in 0 .. k /\ (n + 1) - 1 = n
  BY KindsAre
<1>2. e \in Nat /\ z \in Nat /\ f = e + c /\ f <= z
  <2>1. k \in n .. k
    BY <1>1
  <2>. QED
    BY <1>1, <2>1, FieldEndsAre, Zenon
<1>3. c \in Nat /\ Len(Declared[Kinds[n]]) = c
  BY KindsAre, KindFits, Zenon
<1>4. FieldsFrom(n) = 2 + k + e /\ FieldsFrom(n + 1) = 2 + k + f
  BY <1>1, Zenon DEF FieldsFrom
<1>4a. ASSUME NEW m \in n + 1 .. k + 1
       PROVE  FieldsFrom(n) + c <= FieldsFrom(m)
  <2>. DEFINE y == FieldEnds[m - 1]
  <2>1. m - 1 \in n .. k /\ m - 1 \in 0 .. k
    BY <1>1
  <2>2. y \in Nat /\ f <= y
    BY <2>1, FieldEndsAre, Zenon
  <2>3. FieldsFrom(m) = 2 + k + y
    BY Zenon DEF FieldsFrom
  <2>. HIDE DEF e, f, z, c, k, y
  <2>. QED
    BY <1>1, <1>2, <1>3, <1>4, <2>2, <2>3
<1>5. FieldPlaces(n) = [j \in 1 .. c |-> 2 + k + e + j]
  BY <1>3, Zenon DEF FieldPlaces
<1>. HIDE DEF k, e, f, z, c
<1>6. 2 + k + e \in Nat /\ 2 + k + e >= 2 + k /\ (2 + k + e) + c <= 2 + k + z
      /\ 2 + k + f = (2 + k + e) + c
  BY <1>1, <1>2, <1>3
<1>7. Len(FieldPlaces(n)) = c
  BY <1>3, <1>5
<1>8. \A j \in 1 .. c : FieldPlaces(n)[j] = FieldsFrom(n) + j
  BY <1>4, <1>5, Zenon
<1>. QED
  BY <1>4, <1>4a, <1>6, <1>7, <1>8, Zenon DEF k, z, c

LEMMA ArgsAre ==
    /\ Args \in Seq(Nat) /\ Len(Args) = 2 + Len(Kinds) + FieldEnds[Len(Kinds)]
    /\ Args[1] = 1 /\ Args[2] = 18
    /\ \A n \in 1 .. Len(Kinds) :
           /\ Args[2 + n] = 1
           /\ \A j \in 1 .. Counted(Kinds[n]) :
                  Args[FieldsFrom(n) + j] = Declared[Kinds[n]][j]
<1>. DEFINE k == Len(Kinds)
            s == [n \in 1 .. Len(Kinds) |-> Declared[Kinds[n]]]
            z == FieldEnds[Len(Kinds)]
            first == <<1, 18>>
            head == first \o FlagArgs
<1>1. k \in Nat /\ k > 0
  BY KindsAre
<1>2. s \in Seq(Seq(Nat)) /\ Len(s) = k /\ \A n \in 1 .. k : s[n] = Declared[Kinds[n]]
  <2>1. \A n \in 1 .. k : Declared[Kinds[n]] \in Seq(Nat)
    BY KindsAre, KindFits, Zenon
  <2>. QED
    BY <1>1, <2>1
<1>3. FieldEnds = Ends(Lens(s))
  <2>1. Lens(s) = [n \in 1 .. k |-> Len(Declared[Kinds[n]])]
    BY <1>2, Zenon DEF Lens
  <2>. QED
    BY <2>1, Zenon DEF FieldEnds
<1>. HIDE DEF s
<1>4. FieldArgs \in Seq(Nat) /\ Len(FieldArgs) = z /\ Lies(s, FieldEnds, FieldArgs, k)
  <2>1. FieldArgs = FlattenSeq(s)
    BY Zenon DEF FieldArgs, s
  <2>2. Len(s) > 0
    BY <1>1, <1>2
  <2>3. /\ FlattenSeq(s) \in Seq(Nat) /\ Len(FlattenSeq(s)) = Ends(Lens(s))[Len(s)]
        /\ Lies(s, Ends(Lens(s)), FlattenSeq(s), Len(s))
    BY <1>2, <2>2, Flattened, Zenon
  <2>. QED
    BY <1>2, <1>3, <2>1, <2>3, Zenon
<1>5. FlagArgs \in Seq(Nat) /\ Len(FlagArgs) = k /\ \A n \in 1 .. k : FlagArgs[n] = 1
  BY <1>1 DEF FlagArgs
<1>6. first \in Seq(Nat) /\ Len(first) = 2 /\ first[1] = 1 /\ first[2] = 18
  OBVIOUS
<1>. HIDE DEF first
<1>7. head \in Seq(Nat) /\ Joined(first, FlagArgs, head)
  BY <1>5, <1>6, Concat, Zenon
<1>. HIDE DEF head
<1>8. Args = head \o FieldArgs
  <2>1. Args = <<1, 18>> \o FlagArgs \o FieldArgs
    BY Zenon DEF Args
  <2>. QED
    BY <2>1, Zenon DEF head, first
<1>9. Args \in Seq(Nat) /\ Joined(head, FieldArgs, Args)
  BY <1>4, <1>7, <1>8, Concat, Zenon
<1>10. /\ Len(head) = 2 + k /\ head[1] = 1 /\ head[2] = 18
       /\ \A n \in 1 .. k : head[2 + n] = 1
  <2>1. /\ Len(head) = 2 + k
        /\ \A x \in 1 .. 2 : head[x] = first[x]
        /\ \A x \in 1 .. k : head[2 + x] = FlagArgs[x]
    BY <1>5, <1>6, <1>7, Zenon DEF Joined
  <2>2. 1 \in 1 .. 2 /\ 2 \in 1 .. 2
    OBVIOUS
  <2>. QED
    BY <1>5, <1>6, <2>1, <2>2, Zenon
<1>11. /\ Len(Args) = (2 + k) + z
       /\ \A x \in 1 .. 2 + k : Args[x] = head[x]
       /\ \A x \in 1 .. z : Args[2 + k + x] = FieldArgs[x]
  BY <1>4, <1>9, <1>10, Zenon DEF Joined
<1>12. 1 \in 1 .. 2 + k /\ 2 \in 1 .. 2 + k /\ \A n \in 1 .. k : 2 + n \in 1 .. 2 + k
  BY <1>1
<1>13. ASSUME NEW n \in 1 .. k, NEW j \in 1 .. Counted(Kinds[n])
       PROVE  Args[FieldsFrom(n) + j] = Declared[Kinds[n]][j]
  <2>. DEFINE e == FieldEnds[n - 1]
  <2>1. j \in 1 .. Len(s[n])
    BY <1>2, KindsAre, KindFits, Zenon
  <2>2. e + j \in 1 .. z /\ FieldArgs[e + j] = Declared[Kinds[n]][j]
    BY <1>2, <1>4, <2>1, Zenon DEF Lies
  <2>3. e \in Nat /\ j \in Nat
    <3>1. n - 1 \in 0 .. k
      BY <1>1
    <3>2. \A m \in Nat : 1 .. m \subseteq Nat
      OBVIOUS
    <3>3. Counted(Kinds[n]) \in Nat
      BY KindsAre, KindFits, Zenon
    <3>4. j \in Nat
      BY <3>3
    <3>. HIDE DEF e
    <3>5. e \in Nat
      BY <3>1, FieldEndsAre, Zenon DEF e
    <3>. QED
      BY <3>4, <3>5
  <2>4. FieldsFrom(n) + j = 2 + k + (e + j)
    <3>1. FieldsFrom(n) = 2 + k + e
      BY Zenon DEF FieldsFrom
    <3>. HIDE DEF e, k
    <3>. QED
      BY <1>1, <2>3, <3>1
  <2>. QED
    BY <1>11, <2>2, <2>4, Zenon
<1>. QED
  BY <1>9, <1>10, <1>11, <1>12, <1>13, Zenon

-----------------------------------------------------------------------------
(***************************************************************************)
(* A value becomes a vector, and the vector a signal.                       *)
(***************************************************************************)
LEMMA ByteIs == X \in Byte /\ 0 \in Byte /\ 1 \in Byte
                /\ \A n \in 0 .. MaxMessages : \A b \in 0 .. 50 : 100 * n + b \in Byte
<1>1. MaxMessages \in Nat
  BY BoundAssumption
<1>2. ASSUME NEW n \in 0 .. MaxMessages, NEW b \in 0 .. 50
      PROVE  100 * n + b \in 0 .. 100 * MaxMessages + 99
  BY <1>1, <1>2
<1>3. 0 \in 0 .. 100 * MaxMessages + 99 /\ 1 \in 0 .. 100 * MaxMessages + 99
  BY <1>1
<1>. QED
  BY <1>2, <1>3, Zenon DEF Byte

LEMMA PaddingIs ==
    ASSUME NEW t, NEW n \in Nat
    PROVE  Padding(t, n) \in Seq(Byte)
<1>1. (4 - (n % 4)) % 4 \in Nat
  OBVIOUS
<1>2. (IF t = "u16" THEN 0 ELSE X) \in Byte
  BY ByteIs
<1>. DEFINE m == (4 - (n % 4)) % 4
            x == IF t = "u16" THEN 0 ELSE X
<1>. HIDE DEF m, x
<1>3. [b \in 1 .. m |-> x] \in Seq(Byte)
  BY <1>1, <1>2 DEF m, x
<1>. QED
  BY <1>3, Zenon DEF Padding, m, x

LEMMA VectorIs ==
    ASSUME NEW t, NEW bytes \in Seq(Byte)
    PROVE  /\ Vector(t, bytes) \in Seq(Byte)
           /\ Len(Vector(t, bytes)) >= Len(bytes) /\ Len(Vector(t, bytes)) \in Nat
           /\ \A b \in 1 .. Len(bytes) : Vector(t, bytes)[b] = bytes[b]
<1>. DEFINE p == Padding(t, Len(bytes))
            v == Vector(t, bytes)
<1>1. Len(bytes) \in Nat
  OBVIOUS
<1>2. p \in Seq(Byte)
  BY <1>1, PaddingIs, Zenon
<1>3. v = bytes \o p
  BY Zenon DEF Vector
<1>. HIDE DEF p, v
<1>4. v \in Seq(Byte) /\ Joined(bytes, p, v)
  BY <1>2, <1>3, Concat, Zenon
<1>5. Len(v) = Len(bytes) + Len(p) /\ Len(p) \in Nat
  BY <1>2, <1>4 DEF Joined
<1>6. Len(v) >= Len(bytes) /\ Len(v) \in Nat
  BY <1>1, <1>5
<1>. QED
  BY <1>4, <1>6, Zenon DEF v, Joined

LEMMA AssignTypes ==
    ASSUME NEW w \in Nat, NEW v \in Seq(Byte)
    PROVE  Assign(w, v) \in Seq(Byte) /\ Len(Assign(w, v)) = w
<1>. DEFINE f == [b \in 1 .. w |-> IF b <= Len(v) THEN v[b] ELSE X]
<1>1. ASSUME NEW b \in 1 .. w PROVE (IF b <= Len(v) THEN v[b] ELSE X) \in Byte
  <2>1. CASE b <= Len(v)
    <3>1. b \in 1 .. Len(v)
      BY <2>1
    <3>2. v[b] \in Byte
      BY <3>1
    <3>. QED
      BY <2>1, <3>2
  <2>2. CASE ~(b <= Len(v))
    BY <2>2, ByteIs
  <2>. QED
    BY <2>1, <2>2
<1>2. f \in [1 .. w -> Byte]
  BY <1>1, Zenon
<1>. HIDE DEF f
<1>3. f \in Seq(Byte) /\ Len(f) = w
  BY <1>2
<1>. QED
  BY <1>3, Zenon DEF Assign, f

(* A signal no wider than the value gets its first bytes, never the padding.*)
LEMMA AssignIs ==
    ASSUME NEW t, NEW bytes \in Seq(Byte), NEW w \in Nat, w <= Len(bytes)
    PROVE  Assign(w, Vector(t, bytes)) = [b \in 1 .. w |-> bytes[b]]
<1>. DEFINE v == Vector(t, bytes)
<1>1. Len(v) >= Len(bytes) /\ Len(v) \in Nat /\ Len(bytes) \in Nat
      /\ \A b \in 1 .. Len(bytes) : v[b] = bytes[b]
  BY VectorIs
<1>. HIDE DEF v
<1>2. ASSUME NEW b \in 1 .. w PROVE (IF b <= Len(v) THEN v[b] ELSE X) = bytes[b]
  <2>1. b <= Len(v) /\ b \in 1 .. Len(bytes)
    BY <1>1
  <2>. QED
    BY <1>1, <2>1
<1>3. Assign(w, v) = [b \in 1 .. w |-> IF b <= Len(v) THEN v[b] ELSE X]
  BY Zenon DEF Assign
<1>. QED
  BY <1>2, <1>3, Zenon DEF v

-----------------------------------------------------------------------------
(***************************************************************************)
(* The invariant.  A call puts, in the order of the arguments, the flags,   *)
(* then the fields kind by kind; kinds below i are done.                    *)
(***************************************************************************)
SigOK == /\ Len(sig) = Len(Args)
         /\ \A a \in 1 .. Len(Args) : sig[a] \in Seq(Byte) /\ Len(sig[a]) = Args[a]

DataFits(s) ==
    /\ s.v \in [Kind -> {0, 1}]
    /\ DOMAIN s.data = Kind
    /\ \A k \in Kind : /\ s.data[k] \in Seq(Byte) /\ Len(s.data[k]) = SizeOf[k]
                       /\ \A b \in 1 .. SizeOf[k] : s.data[k][b] # BEYOND

CountOK == count \in 0 .. MaxMessages /\ type \in Kind /\ i \in 1 .. Len(Kinds) + 1

Calling == pc \in {"call", "id", "flags", "fields", "compare"}

PlaceOK ==
    \/ pc \in {"idle", "create", "call"} /\ pos = 0 /\ i = 1
    \/ pc = "id" /\ pos = 1 /\ i = 1
    \/ pc = "flags" /\ pos = 2 /\ i = 1
    \/ pc = "fields" /\ pos = FieldsFrom(i)
    \/ pc = "compare" /\ pos = FieldsFrom(i) /\ i = Len(Kinds) + 1
    \/ pc = "finished" /\ pos = 1

(* What the signal of field j of the n-th kind should be.                   *)
Part(n, j) == [b \in 1 .. Declared[Kinds[n]][j] |->
                  itch_s.data[Kinds[n]][FieldEnd(Kinds[n])[j - 1] + b]]

PutSoFar ==
    pc \in {"fields", "compare"} =>
        \A n \in 1 .. Len(Kinds) :
            /\ sig[2 + n] = <<itch_s.v[Kinds[n]]>>
            /\ n < i => \A j \in 1 .. Counted(Kinds[n]) : sig[FieldsFrom(n) + j] = Part(n, j)

FormatInv == /\ SigOK /\ DataFits(itch_s) /\ CountOK /\ PlaceOK /\ PutSoFar
             /\ Calling => itch_s = Fill(Zeroed)

LEMMA PutIs ==
    ASSUME SigOK, pos \in Nat, NEW vs \in Seq(Seq(Byte)), NEW next,
           pos + Len(vs) <= Len(Args), Put(vs, next)
    PROVE  /\ pos' = pos + Len(vs) /\ pc' = next /\ SigOK'
           /\ \A v \in 1 .. Len(vs) : sig'[pos + v] = Assign(Args[pos + v], vs[v])
           /\ \A a \in 1 .. Len(Args) : ~(a \in pos + 1 .. pos + Len(vs)) => sig'[a] = sig[a]
<1>. DEFINE n == Len(vs)
            k == Len(Args)
            new == [a \in 1 .. k |-> IF a \in pos + 1 .. pos + n
                                     THEN Assign(Args[a], vs[a - pos]) ELSE sig[a]]
<1>1. pos' = pos + n /\ pc' = next /\ sig' = new
  BY Zenon DEF Put
<1>2. n \in Nat /\ k \in Nat /\ pos \in Nat /\ pos + n <= k /\ \A v \in 1 .. n : vs[v] \in Seq(Byte)
  <2>1. k \in Nat
    BY ArgsAre
  <2>. QED
    BY <2>1
<1>3. \A a \in 1 .. k : Args[a] \in Nat
  BY ArgsAre
<1>. HIDE DEF n, k
<1>4. ASSUME NEW v \in 1 .. n
      PROVE  /\ pos + v \in 1 .. k /\ pos + v \in pos + 1 .. pos + n /\ (pos + v) - pos = v
  BY <1>2
<1>5. \A v \in 1 .. n : sig'[pos + v] = Assign(Args[pos + v], vs[v])
  BY <1>1, <1>4, Zenon
<1>6. \A a \in 1 .. k : ~(a \in pos + 1 .. pos + n) => sig'[a] = sig[a]
  BY <1>1, Zenon
<1>7. ASSUME NEW a \in 1 .. k PROVE sig'[a] \in Seq(Byte) /\ Len(sig'[a]) = Args[a]
  <2>1. CASE a \in pos + 1 .. pos + n
    <3>1. a - pos \in 1 .. n /\ pos + (a - pos) = a
      BY <1>2, <2>1
    <3>2. sig'[a] = Assign(Args[a], vs[a - pos])
      BY <1>1, <2>1, Zenon
    <3>. DEFINE w == Args[a]
                v == vs[a - pos]
    <3>3. w \in Nat /\ v \in Seq(Byte) /\ sig'[a] = Assign(w, v)
      BY <1>2, <1>3, <3>1, <3>2, Zenon
    <3>. HIDE DEF w, v, new
    <3>4. Assign(w, v) \in Seq(Byte) /\ Len(Assign(w, v)) = w
      BY <3>3, AssignTypes, Zenon
    <3>. QED
      BY <3>3, <3>4, Zenon DEF w
  <2>2. CASE ~(a \in pos + 1 .. pos + n)
    BY <1>6, <2>2, Zenon DEF SigOK, k
  <2>. QED
    BY <2>1, <2>2
<1>8. Len(sig') = k
  <2>1. DOMAIN new = 1 .. k
    OBVIOUS
  <2>2. new \in Seq({new[a] : a \in 1 .. k})
    BY <1>2
  <2>. HIDE DEF new
  <2>3. Len(new) = k
    BY <1>2, <2>1, <2>2
  <2>. QED
    BY <1>1, <2>3
<1>9. SigOK'
  BY <1>7, <1>8, Zenon DEF SigOK, k
<1>. QED
  BY <1>1, <1>5, <1>6, <1>9, Zenon DEF n, k

LEMMA MemberData ==
    ASSUME DataFits(itch_s), NEW k \in Kind, NEW j \in 1 .. Counted(k)
    PROVE  /\ Member(k, j) \in Seq(Byte) /\ Len(Member(k, j)) = Width[Fields[k][j]]
           /\ \A b \in 1 .. Width[Fields[k][j]] :
                  Member(k, j)[b] = itch_s.data[k][FieldEnd(k)[j - 1] + b]
<1>. DEFINE w == Width[Fields[k][j]]
            d == itch_s.data[k]
            e == FieldEnd(k)[j - 1]
            f == [b \in 1 .. w |-> d[e + b]]
<1>1. Member(k, j) = f
  BY MemberIs, Zenon DEF Member
<1>2. \A b \in 1 .. w : e + b \in 1 .. SizeOf[k]
  BY MemberIs, Zenon
<1>3. d \in Seq(Byte) /\ Len(d) = SizeOf[k]
  BY Zenon DEF DataFits
<1>4. w \in Nat
  <2>1. w \in 1 .. 20
    BY KindFits, Zenon
  <2>. QED
    BY <2>1
<1>. HIDE DEF w, d, e
<1>5. \A b \in 1 .. w : d[e + b] \in Byte
  <2>1. \A x \in 1 .. SizeOf[k] : d[x] \in Byte
    BY <1>3
  <2>. QED
    BY <1>2, <2>1, Zenon
<1>6. f \in Seq(Byte) /\ Len(f) = w
  BY <1>4, <1>5
<1>. QED
  BY <1>1, <1>6, Zenon DEF w, d, e

(* The structure of a message: its bytes in its kind's, zeros elsewhere.    *)
LEMMA FillFits ==
    ASSUME CountOK
    PROVE  /\ DataFits(Zeroed) /\ DataFits(Fill(Zeroed))
           /\ \A k \in Kind : Fill(Zeroed).v[k] = IF k = type THEN 1 ELSE 0
           /\ \A k \in Kind : k # type => Fill(Zeroed).data[k] = Zeros(SizeOf[k])
           /\ \A b \in 1 .. SizeOf[type] : Fill(Zeroed).data[type][b] = 100 * count + b
<1>. DEFINE z == SizeOf[type]
            raw == [b \in 1 .. z |-> Memory(b)]
            v == [k \in Kind |-> 0]
            data == [k \in Kind |-> Zeros(SizeOf[k])]
<1>1. /\ \A k \in Kind : SizeOf[k] = ExpLen[k] /\ SizeOf[k] \in 1 .. 50
      /\ type \in Kind
  BY FieldEnds1, ExpLenNat, Zenon DEF CountOK
<1>2. Zeroed.v = v /\ Zeroed.data = data
  BY DEF Zeroed
<1>3. ASSUME NEW k \in Kind
      PROVE  /\ data[k] \in Seq(Byte) /\ Len(data[k]) = SizeOf[k]
             /\ \A b \in 1 .. SizeOf[k] : data[k][b] # BEYOND
  <2>. DEFINE m == SizeOf[k]
  <2>1. m \in 1 .. 50
    BY <1>1, Zenon
  <2>2. data[k] = [b \in 1 .. m |-> 0]
    BY Zenon DEF Zeros
  <2>. HIDE DEF m, data
  <2>3. data[k] \in Seq(Byte) /\ Len(data[k]) = m /\ \A b \in 1 .. m : data[k][b] = 0
    <3>1. 0 \in Byte /\ m \in Nat
      BY <2>1, ByteIs
    <3>. DEFINE f == [b \in 1 .. m |-> 0]
    <3>2. f \in Seq(Byte) /\ Len(f) = m /\ \A b \in 1 .. m : f[b] = 0
      BY <3>1
    <3>. HIDE DEF f
    <3>3. data[k] = f
      BY <2>2, Zenon DEF f
    <3>. QED
      BY <3>2, <3>3, Zenon
  <2>4. 0 # BEYOND
    BY DEF BEYOND
  <2>. QED
    BY <2>3, <2>4, Zenon DEF m
<1>4. v \in [Kind -> {0, 1}] /\ DOMAIN data = Kind
  OBVIOUS
<1>. HIDE DEF data, v
<1>5. DataFits(Zeroed)
  BY <1>2, <1>3, <1>4, Zenon DEF DataFits
<1>6. /\ Fill(Zeroed).v = [v EXCEPT ![type] = 1]
      /\ Fill(Zeroed).data = [data EXCEPT ![type] = raw]
  BY <1>2 DEF Fill
<1>7. ASSUME NEW b \in 1 .. z PROVE raw[b] = 100 * count + b /\ raw[b] \in Byte /\ raw[b] # BEYOND
  <2>1. z \in 1 .. 50 /\ ExpLen[type] = z
    BY <1>1, Zenon
  <2>. HIDE DEF z
  <2>2. b \in 0 .. 50 /\ b <= ExpLen[type] /\ b \in Nat
    BY <2>1
  <2>3. raw[b] = 100 * count + b
    BY <2>2, Zenon DEF Memory
  <2>4. count \in 0 .. MaxMessages
    BY Zenon DEF CountOK
  <2>5. 100 * count + b \in Byte
    BY <2>2, <2>4, ByteIs, Zenon
  <2>6. 100 * count + b # BEYOND
    <3>1. count \in Nat
      BY <2>4, BoundAssumption
    <3>. QED
      BY <2>2, <3>1 DEF BEYOND
  <2>. QED
    BY <2>3, <2>5, <2>6, Zenon
<1>8. raw \in Seq(Byte) /\ Len(raw) = z
  <2>1. z \in 1 .. 50
    BY <1>1, Zenon
  <2>2. raw \in [1 .. z -> Byte]
    BY <1>7, Zenon
  <2>. HIDE DEF raw, z
  <2>. QED
    BY <2>1, <2>2
<1>. HIDE DEF raw
<1>9. /\ Fill(Zeroed).data[type] = raw
      /\ \A k \in Kind : k # type => Fill(Zeroed).data[k] = data[k]
      /\ DOMAIN Fill(Zeroed).data = Kind
  BY <1>1, <1>4, <1>6, Zenon
<1>10. /\ Fill(Zeroed).v \in [Kind -> {0, 1}]
       /\ \A k \in Kind : Fill(Zeroed).v[k] = IF k = type THEN 1 ELSE 0
  <2>1. \A k \in Kind : v[k] = 0
    BY Zenon DEF v
  <2>. QED
    BY <1>1, <1>4, <1>6, <2>1
<1>11. ASSUME NEW k \in Kind
       PROVE  /\ Fill(Zeroed).data[k] \in Seq(Byte) /\ Len(Fill(Zeroed).data[k]) = SizeOf[k]
              /\ \A b \in 1 .. SizeOf[k] : Fill(Zeroed).data[k][b] # BEYOND
  <2>1. CASE k = type
    BY <1>7, <1>8, <1>9, <2>1, Zenon
  <2>2. CASE k # type
    BY <1>3, <1>9, <2>2, Zenon
  <2>. QED
    BY <2>1, <2>2
<1>12. DataFits(Fill(Zeroed))
  BY <1>9, <1>10, <1>11, Zenon DEF DataFits
<1>13. \A k \in Kind : k # type => Fill(Zeroed).data[k] = Zeros(SizeOf[k])
  BY <1>9, Zenon DEF data
<1>. QED
  BY <1>5, <1>7, <1>9, <1>10, <1>12, <1>13, Zenon

-----------------------------------------------------------------------------
(***************************************************************************)
(* The invariant holds.                                                     *)
(***************************************************************************)
LEMMA PlaceFacts ==
    /\ FieldsFrom(1) = 2 + Len(Kinds) /\ FieldsFrom(Len(Kinds) + 1) = Len(Args)
    /\ Len(Args) \in Nat /\ Len(Args) >= 2 + Len(Kinds)
<1>. DEFINE k == Len(Kinds)
            z == FieldEnds[Len(Kinds)]
<1>1. k \in Nat /\ 1 - 1 = 0 /\ (k + 1) - 1 = k /\ k \in 0 .. k
  BY KindsAre
<1>2. FieldsFrom(1) = 2 + k + 0
  BY <1>1, FieldEndsAre, Zenon DEF FieldsFrom
<1>3. FieldsFrom(k + 1) = 2 + k + z
  BY <1>1, Zenon DEF FieldsFrom
<1>4. z \in Nat /\ Len(Args) = 2 + k + z
  BY <1>1, ArgsAre, FieldEndsAre, Zenon
<1>. HIDE DEF k, z
<1>5. FieldsFrom(1) = 2 + k /\ FieldsFrom(k + 1) = Len(Args)
      /\ Len(Args) \in Nat /\ Len(Args) >= 2 + k
  BY <1>1, <1>2, <1>3, <1>4
<1>. QED
  BY <1>5 DEF k

LEMMA FirstFormat == Init => FormatInv
<1>. SUFFICES ASSUME Init PROVE FormatInv
  OBVIOUS
<1>1. SigOK
  <2>1. Len(Args) \in Nat /\ \A a \in 1 .. Len(Args) : Args[a] \in Nat
    BY ArgsAre
  <2>. DEFINE m == Len(Args)
              f == [a \in 1 .. m |-> [b \in 1 .. Args[a] |-> X]]
  <2>2. sig = f
    BY Zenon DEF Init
  <2>3. ASSUME NEW a \in 1 .. m PROVE f[a] \in Seq(Byte) /\ Len(f[a]) = Args[a]
    <3>. DEFINE w == Args[a]
                g == [b \in 1 .. w |-> X]
    <3>1. w \in Nat /\ f[a] = g
      BY <2>1
    <3>2. X \in Byte
      BY ByteIs
    <3>. HIDE DEF w, f
    <3>3. g \in Seq(Byte) /\ Len(g) = w
      BY <3>1, <3>2
    <3>. QED
      BY <3>1, <3>3, Zenon DEF w
  <2>4. f \in [1 .. m -> Seq(Byte)]
    <3>. DEFINE g(a) == [b \in 1 .. Args[a] |-> X]
    <3>1. \A a \in 1 .. m : g(a) \in Seq(Byte)
      BY <2>3, Zenon
    <3>. HIDE DEF g
    <3>2. [a \in 1 .. m |-> g(a)] \in [1 .. m -> Seq(Byte)]
      BY <3>1, Zenon
    <3>. QED
      BY <3>2, Zenon DEF g
  <2>. HIDE DEF f, m
  <2>5. Len(f) = m
    BY <2>1, <2>4 DEF m
  <2>. QED
    BY <2>2, <2>3, <2>5, Zenon DEF SigOK, m
<1>2. CountOK
  <2>1. 0 \in 0 .. MaxMessages /\ 1 \in 1 .. Len(Kinds) + 1
    BY BoundAssumption, KindsAre
  <2>2. "S" \in Kind
    BY DEF Kind, ToSet, Kinds
  <2>. QED
    BY <2>1, <2>2, Zenon DEF Init, CountOK
<1>3. DataFits(itch_s)
  BY <1>2, FillFits, Zenon DEF Init
<1>4. pc = "idle" /\ pos = 0 /\ i = 1
  BY DEF Init
<1>. QED
  BY <1>1, <1>2, <1>3, <1>4 DEF FormatInv, PlaceOK, PutSoFar, Calling

(* The structure made from a message stays while the message does.          *)
LEMMA SameStruct ==
    ASSUME UNCHANGED <<count, type, itch_s>>, CountOK, DataFits(itch_s),
           Calling => itch_s = Fill(Zeroed), Calling' => Calling,
           i' \in 1 .. Len(Kinds) + 1
    PROVE  CountOK' /\ DataFits(itch_s') /\ (Calling => itch_s = Fill(Zeroed))'
<1>1. CountOK'
  BY Zenon DEF CountOK
<1>2. DataFits(itch_s')
  <2>1. itch_s' = itch_s
    BY Zenon
  <2>. QED
    BY <2>1, Zenon DEF DataFits
<1>3. Fill(Zeroed)' = Fill(Zeroed)
  BY Zenon DEF Fill, Memory, Zeroed
<1>. QED
  BY <1>1, <1>2, <1>3, Zenon

LEMMA OneVector ==
    ASSUME NEW b \in Byte
    PROVE  <<<<b>>>> \in Seq(Seq(Byte)) /\ Len(<<<<b>>>>) = 1
<1>1. <<b>> \in Seq(Byte)
  OBVIOUS
<1>. QED
  BY <1>1

LEMMA ReadMessageKeeps ==
    ASSUME FormatInv, ReadMessage
    PROVE  FormatInv'
<1>1. pc = "idle" /\ pc' = "create" /\ UNCHANGED <<itch_s, i, pos, sig>>
  BY Zenon DEF ReadMessage
<1>2. CountOK'
  <2>1. count' = count + 1 /\ count < MaxMessages /\ type' \in Kind
    BY Zenon DEF ReadMessage
  <2>2. count \in 0 .. MaxMessages /\ i \in 1 .. Len(Kinds) + 1
    BY Zenon DEF FormatInv, CountOK
  <2>3. count' \in 0 .. MaxMessages
    BY <2>1, <2>2, BoundAssumption
  <2>. QED
    BY <1>1, <2>1, <2>2, <2>3, Zenon DEF CountOK
<1>3. SigOK'
  BY <1>1, Zenon DEF FormatInv, SigOK
<1>4. DataFits(itch_s')
  BY <1>1, Zenon DEF FormatInv
<1>5. pos' = 0 /\ i' = 1
  BY <1>1 DEF FormatInv, PlaceOK
<1>. QED
  BY <1>1, <1>2, <1>3, <1>4, <1>5 DEF FormatInv, PlaceOK, PutSoFar, Calling

LEMMA CreateStructKeeps ==
    ASSUME FormatInv, CreateStruct
    PROVE  FormatInv'
<1>1. pc = "create" /\ pc' = "call" /\ UNCHANGED <<count, type, i, pos, sig>>
  BY Zenon DEF CreateStruct
<1>2. CountOK /\ CountOK'
  BY <1>1, Zenon DEF FormatInv, CountOK
<1>3. SigOK'
  BY <1>1, Zenon DEF FormatInv, SigOK
<1>4. itch_s' = Fill(Zeroed)
  BY Zenon DEF CreateStruct, Calloc
<1>5. DataFits(itch_s')
  BY <1>2, <1>4, FillFits, Zenon
<1>6. itch_s' = Fill(Zeroed)'
  BY <1>1, <1>4, Zenon DEF Fill, Memory, Zeroed
<1>7. pos' = 0 /\ i' = 1
  BY <1>1 DEF FormatInv, PlaceOK
<1>. QED
  BY <1>1, <1>2, <1>3, <1>5, <1>6, <1>7 DEF FormatInv, PlaceOK, PutSoFar, Calling

LEMMA PutRunningKeeps ==
    ASSUME FormatInv, PutRunning
    PROVE  FormatInv'
<1>1. pc = "call" /\ UNCHANGED <<count, type, itch_s, i>> /\ Put(<<<<0>>>>, "id")
  BY Zenon DEF PutRunning
<1>2. pos = 0 /\ i = 1
  BY <1>1 DEF FormatInv, PlaceOK
<1>3. <<<<0>>>> \in Seq(Seq(Byte)) /\ Len(<<<<0>>>>) = 1 /\ pos + 1 <= Len(Args) /\ pos \in Nat
  BY <1>2, ByteIs, OneVector, PlaceFacts, KindsAre
<1>4. pos' = pos + 1 /\ pc' = "id" /\ SigOK'
  <2>. DEFINE vs == <<<<0>>>>
  <2>1. vs \in Seq(Seq(Byte)) /\ Len(vs) = 1 /\ pos + Len(vs) <= Len(Args) /\ Put(vs, "id")
    BY <1>1, <1>3
  <2>2. SigOK
    BY Zenon DEF FormatInv
  <2>. HIDE DEF vs
  <2>. QED
    BY <1>3, <2>1, <2>2, PutIs, Zenon
<1>5. CountOK' /\ DataFits(itch_s') /\ (Calling => itch_s = Fill(Zeroed))'
  <2>1. Calling
    BY <1>1 DEF Calling
  <2>2. i' \in 1 .. Len(Kinds) + 1
    BY <1>1, Zenon DEF FormatInv, CountOK
  <2>. QED
    BY <1>1, <2>1, <2>2, SameStruct, Zenon DEF FormatInv
<1>. QED
  BY <1>1, <1>2, <1>4, <1>5 DEF FormatInv, PlaceOK, PutSoFar

LEMMA PutDebugIdKeeps ==
    ASSUME FormatInv, PutDebugId
    PROVE  FormatInv'
<1>. DEFINE bytes == [b \in 1 .. 18 |-> 100 * count]
            vs == <<Vector("char_18", bytes)>>
<1>1. pc = "id" /\ UNCHANGED <<count, type, itch_s, i>> /\ Put(vs, "flags")
  BY Zenon DEF PutDebugId
<1>2. pos = 1 /\ i = 1
  BY <1>1 DEF FormatInv, PlaceOK
<1>3. bytes \in Seq(Byte)
  <2>1. 100 * count + 0 \in Byte /\ count \in Nat
    <3>1. count \in 0 .. MaxMessages /\ 0 \in 0 .. 50
      BY DEF FormatInv, CountOK
    <3>2. count \in Nat
      BY <3>1, BoundAssumption
    <3>. QED
      BY <3>1, <3>2, ByteIs, Zenon
  <2>2. 100 * count \in Byte
    BY <2>1
  <2>. QED
    BY <2>2
<1>4. vs \in Seq(Seq(Byte)) /\ Len(vs) = 1
  <2>. DEFINE v == Vector("char_18", bytes)
  <2>1. v \in Seq(Byte)
    BY <1>3, VectorIs, Zenon
  <2>. HIDE DEF v
  <2>2. <<v>> \in Seq(Seq(Byte)) /\ Len(<<v>>) = 1
    BY <2>1
  <2>. QED
    BY <2>2 DEF v
<1>5. pos + 1 <= Len(Args) /\ pos \in Nat
  BY <1>2, PlaceFacts, KindsAre
<1>. HIDE DEF vs
<1>6. pos' = pos + 1 /\ pc' = "flags" /\ SigOK'
  <2>1. SigOK
    BY Zenon DEF FormatInv
  <2>. QED
    BY <1>1, <1>4, <1>5, <2>1, PutIs, Zenon
<1>7. CountOK' /\ DataFits(itch_s') /\ (Calling => itch_s = Fill(Zeroed))'
  <2>1. Calling
    BY <1>1 DEF Calling
  <2>2. i' \in 1 .. Len(Kinds) + 1
    BY <1>1, Zenon DEF FormatInv, CountOK
  <2>. QED
    BY <1>1, <2>1, <2>2, SameStruct, Zenon DEF FormatInv
<1>. QED
  BY <1>1, <1>2, <1>6, <1>7 DEF FormatInv, PlaceOK, PutSoFar

LEMMA PutFlagsKeeps ==
    ASSUME FormatInv, PutFlags
    PROVE  FormatInv'
<1>. DEFINE k == Len(Kinds)
            flag(n) == <<itch_s.v[Kinds[n]]>>
            v(n) == Vector("u8", flag(n))
            vs == [n \in 1 .. k |-> v(n)]
<1>1. pc = "flags" /\ UNCHANGED <<count, type, itch_s, i>> /\ Put(vs, "fields")
  BY Zenon DEF PutFlags
<1>2. pos = 2 /\ i = 1
  BY <1>1 DEF FormatInv, PlaceOK
<1>3. k \in Nat /\ 2 + k <= Len(Args) /\ Len(Args) \in Nat /\ FieldsFrom(1) = 2 + k
  BY KindsAre, PlaceFacts
<1>4. ASSUME NEW n \in 1 .. k
      PROVE  flag(n) \in Seq(Byte) /\ Len(flag(n)) = 1 /\ v(n) \in Seq(Byte)
             /\ Assign(1, v(n)) = flag(n)
  <2>. DEFINE x == itch_s.v[Kinds[n]]
  <2>1. x \in Byte
    <3>1. x \in {0, 1}
      BY KindsAre, Zenon DEF FormatInv, DataFits
    <3>. HIDE DEF x
    <3>. QED
      BY <3>1, ByteIs
  <2>. HIDE DEF x
  <2>2. <<x>> \in Seq(Byte) /\ Len(<<x>>) = 1 /\ 1 \in Nat /\ 1 <= Len(<<x>>)
        /\ [b \in 1 .. 1 |-> <<x>>[b]] = <<x>>
    BY <2>1
  <2>3. Vector("u8", <<x>>) \in Seq(Byte)
    BY <2>2, VectorIs, Zenon
  <2>4. Assign(1, Vector("u8", <<x>>)) = <<x>>
    <3>. DEFINE s == <<x>>
    <3>1. s \in Seq(Byte) /\ 1 \in Nat /\ 1 <= Len(s) /\ [b \in 1 .. 1 |-> s[b]] = s
      BY <2>2
    <3>. HIDE DEF s
    <3>2. Assign(1, Vector("u8", s)) = [b \in 1 .. 1 |-> s[b]]
      BY <3>1, AssignIs, Zenon
    <3>3. Assign(1, Vector("u8", s)) = s
      BY <3>1, <3>2, Zenon
    <3>. QED
      BY <3>3 DEF s
  <2>. QED
    BY <2>2, <2>3, <2>4, Zenon DEF x
<1>. HIDE DEF k, flag, v
<1>5. vs \in Seq(Seq(Byte)) /\ Len(vs) = k /\ \A n \in 1 .. k : vs[n] = v(n)
  BY <1>3, <1>4
<1>. HIDE DEF vs
<1>6. /\ pos' = pos + k /\ pc' = "fields" /\ SigOK'
      /\ \A n \in 1 .. k : sig'[pos + n] = Assign(Args[pos + n], vs[n])
  <2>1. SigOK /\ pos \in Nat /\ pos + Len(vs) <= Len(Args)
    BY <1>2, <1>3, <1>5 DEF FormatInv
  <2>. QED
    BY <1>1, <1>5, <2>1, PutIs, Zenon
<1>7. CountOK' /\ DataFits(itch_s') /\ (Calling => itch_s = Fill(Zeroed))'
  <2>1. Calling
    BY <1>1 DEF Calling
  <2>2. i' \in 1 .. Len(Kinds) + 1
    BY <1>1, Zenon DEF FormatInv, CountOK
  <2>. QED
    BY <1>1, <2>1, <2>2, SameStruct, Zenon DEF FormatInv
<1>8. ASSUME NEW n \in 1 .. k PROVE sig'[2 + n] = <<itch_s'.v[Kinds[n]]>> /\ ~(n < i')
  <2>1. sig'[2 + n] = Assign(Args[2 + n], vs[n])
    BY <1>2, <1>6, Zenon
  <2>2. Args[2 + n] = 1
    BY ArgsAre, Zenon DEF k
  <2>3. sig'[2 + n] = flag(n)
    BY <1>4, <1>5, <2>1, <2>2, Zenon
  <2>4. ~(n < i')
    BY <1>1, <1>2
  <2>. QED
    BY <1>1, <2>3, <2>4, Zenon DEF flag
<1>9. PutSoFar'
  BY <1>8, Zenon DEF PutSoFar, k
<1>10. PlaceOK'
  <2>1. pos' = FieldsFrom(i')
    BY <1>1, <1>2, <1>3, <1>6
  <2>2. FieldsFrom(i)' = FieldsFrom(i')
    BY Zenon DEF FieldsFrom
  <2>. QED
    BY <1>6, <2>1, <2>2, Zenon DEF PlaceOK
<1>. QED
  BY <1>6, <1>7, <1>9, <1>10, Zenon DEF FormatInv

LEMMA PutFieldsKeeps ==
    ASSUME FormatInv, PutFields
    PROVE  FormatInv'
<1>. DEFINE k == Kinds[i]
            c == Counted(k)
            z == FieldsFrom(i)
            v(j) == Vector(Puts[k][j], Member(k, j))
            vs == [j \in 1 .. Len(Puts[k]) |-> v(j)]
<1>1. /\ pc = "fields" /\ UNCHANGED <<count, type, itch_s>> /\ i' = i + 1
      /\ Put(vs, "fields") /\ i <= Len(Kinds)
  BY Zenon DEF PutFields
<1>2. i \in 1 .. Len(Kinds) /\ i + 1 \in 1 .. Len(Kinds) + 1 /\ Len(Kinds) \in Nat
  <2>1. i \in 1 .. Len(Kinds) + 1
    BY Zenon DEF FormatInv, CountOK
  <2>. QED
    BY <1>1, <2>1, KindsAre
<1>3. pos = z
  BY <1>1 DEF FormatInv, PlaceOK
<1>4. k \in Kind
  BY <1>2, KindsAre, Zenon
<1>5. /\ z \in Nat /\ z >= 2 + Len(Kinds) /\ z + c <= Len(Args) /\ FieldsFrom(i + 1) = z + c
  <2>1. /\ z \in Nat /\ z >= 2 + Len(Kinds)
        /\ z + c <= 2 + Len(Kinds) + FieldEnds[Len(Kinds)] /\ FieldsFrom(i + 1) = z + c
    BY <1>2, PlacesAre, Zenon
  <2>. QED
    BY <2>1, ArgsAre, Zenon
<1>6. Len(Puts[k]) = c /\ c \in Nat
  BY <1>4, KindFits, PutsFit, Zenon DEF Counted
<1>7. DataFits(itch_s)
  BY Zenon DEF FormatInv
<1>8. ASSUME NEW j \in 1 .. c
      PROVE  v(j) \in Seq(Byte) /\ Assign(Args[z + j], v(j)) = Part(i, j)
  <2>. DEFINE m == Member(k, j)
              d == Declared[k][j]
              w == Width[Fields[k][j]]
  <2>1. m \in Seq(Byte) /\ Len(m) = w
        /\ \A b \in 1 .. w : m[b] = itch_s.data[k][FieldEnd(k)[j - 1] + b]
    BY <1>4, <1>7, MemberData, Zenon
  <2>2. d \in Nat /\ d <= w /\ w \in 1 .. 20
    BY <1>4, KindFits, Zenon
  <2>3. Args[z + j] = d
    BY <1>2, ArgsAre, Zenon
  <2>4. v(j) = Vector(Puts[k][j], m)
    BY Zenon
  <2>5. Part(i, j) = [b \in 1 .. d |-> itch_s.data[k][FieldEnd(k)[j - 1] + b]]
    BY Zenon DEF Part
  <2>. HIDE DEF m, d, w, v, z
  <2>6. v(j) \in Seq(Byte)
    BY <2>1, <2>4, VectorIs, Zenon
  <2>7. d <= Len(m)
    BY <2>1, <2>2
  <2>8. Assign(d, v(j)) = [b \in 1 .. d |-> m[b]]
    <3>. DEFINE t == Puts[k][j]
    <3>. HIDE DEF t
    <3>1. Assign(d, Vector(t, m)) = [b \in 1 .. d |-> m[b]]
      BY <2>1, <2>2, <2>7, AssignIs
    <3>. QED
      BY <2>4, <3>1, Zenon DEF t
  <2>9. \A b \in 1 .. d : b \in 1 .. w
    BY <2>2
  <2>10. Assign(d, v(j)) = Part(i, j)
    <3>. HIDE DEF k
    <3>1. \A b \in 1 .. d : m[b] = itch_s.data[k][FieldEnd(k)[j - 1] + b]
      BY <2>1, <2>9, Zenon
    <3>. QED
      BY <2>5, <2>8, <3>1, Zenon
  <2>. QED
    BY <2>3, <2>6, <2>10, Zenon
<1>. HIDE DEF v, c, z
<1>9. vs \in Seq(Seq(Byte)) /\ Len(vs) = c /\ \A j \in 1 .. c : vs[j] = v(j)
  <2>. DEFINE us == [j \in 1 .. c |-> v(j)]
  <2>1. us \in Seq(Seq(Byte)) /\ Len(us) = c /\ \A j \in 1 .. c : us[j] = v(j)
    BY <1>6, <1>8
  <2>2. vs = us
    BY <1>6, Zenon
  <2>. HIDE DEF us, vs
  <2>. QED
    BY <2>1, <2>2, Zenon
<1>. HIDE DEF vs
<1>10. /\ pos' = z + c /\ pc' = "fields" /\ SigOK'
       /\ \A j \in 1 .. c : sig'[z + j] = Assign(Args[z + j], vs[j])
       /\ \A a \in 1 .. Len(Args) : ~(a \in z + 1 .. z + c) => sig'[a] = sig[a]
  <2>1. SigOK /\ pos \in Nat /\ pos + Len(vs) <= Len(Args)
    <3>1. SigOK
      BY Zenon DEF FormatInv
    <3>. QED
      BY <1>3, <1>5, <1>9, <3>1, Zenon
  <2>. QED
    BY <1>1, <1>3, <1>9, <2>1, PutIs, Zenon
<1>11. CountOK' /\ DataFits(itch_s') /\ (Calling => itch_s = Fill(Zeroed))'
  <2>1. Calling
    BY <1>1 DEF Calling
  <2>2. i' \in 1 .. Len(Kinds) + 1
    BY <1>1, <1>2, Zenon
  <2>. QED
    BY <1>1, <2>1, <2>2, SameStruct, Zenon DEF FormatInv
<1>12. PlaceOK'
  <2>1. pos' = FieldsFrom(i')
    BY <1>1, <1>5, <1>10, Zenon
  <2>2. FieldsFrom(i)' = FieldsFrom(i')
    BY Zenon DEF FieldsFrom
  <2>. QED
    BY <1>10, <2>1, <2>2, Zenon DEF PlaceOK
<1>13. ASSUME NEW n \in 1 .. Len(Kinds)
       PROVE  sig'[2 + n] = <<itch_s'.v[Kinds[n]]>>
  <2>1. sig[2 + n] = <<itch_s.v[Kinds[n]]>>
    BY <1>1 DEF FormatInv, PutSoFar
  <2>2. 2 + n \in 1 .. Len(Args) /\ ~(2 + n \in z + 1 .. z + c)
    BY <1>2, <1>5, <1>6, PlaceFacts
  <2>. QED
    BY <1>1, <1>10, <2>1, <2>2, Zenon
<1>14. ASSUME NEW n \in 1 .. Len(Kinds), n < i', NEW j \in 1 .. Counted(Kinds[n])
       PROVE  sig'[FieldsFrom(n) + j] = Part(n, j)
  <2>1. CASE n = i
    <3>1. j \in 1 .. c /\ FieldsFrom(n) + j = z + j
      BY <2>1, Zenon DEF c, z, k
    <3>. QED
      BY <1>8, <1>9, <1>10, <2>1, <3>1, Zenon
  <2>2. CASE n # i
    <3>1. n < i /\ i \in n + 1 .. Len(Kinds) + 1
      BY <1>1, <1>2, <1>14, <2>2
    <3>2. sig[FieldsFrom(n) + j] = Part(n, j)
      BY <1>1, <3>1 DEF FormatInv, PutSoFar
    <3>. DEFINE y == FieldsFrom(n)
                d == Counted(Kinds[n])
    <3>3. y \in Nat /\ y + d <= z
      BY <3>1, PlacesAre, Zenon DEF z
    <3>4. d \in Nat
      BY KindsAre, KindFits, Zenon
    <3>5. j \in 1 .. d
      OBVIOUS
    <3>. HIDE DEF y, d
    <3>6. y + j \in 1 .. Len(Args) /\ ~(y + j \in z + 1 .. z + c)
      BY <1>5, <1>6, <3>3, <3>4, <3>5, PlaceFacts
    <3>. QED
      BY <1>10, <3>2, <3>6, Zenon DEF y
  <2>. QED
    BY <2>1, <2>2
<1>15. \A n, j : Part(n, j)' = Part(n, j)
  BY <1>1, Zenon DEF Part
<1>16. PutSoFar'
  <2>1. \A n : FieldsFrom(n)' = FieldsFrom(n)
    BY Zenon DEF FieldsFrom
  <2>. QED
    BY <1>13, <1>14, <1>15, <2>1, Zenon DEF PutSoFar
<1>. QED
  BY <1>10, <1>11, <1>12, <1>16, Zenon DEF FormatInv

LEMMA PutDoneKeeps ==
    ASSUME FormatInv, PutDone
    PROVE  FormatInv'
<1>1. /\ pc = "fields" /\ pc' = "compare" /\ UNCHANGED <<count, type, itch_s, i, pos, sig>>
      /\ i > Len(Kinds)
  BY Zenon DEF PutDone
<1>2. i \in 1 .. Len(Kinds) + 1 /\ i' \in 1 .. Len(Kinds) + 1
  BY <1>1, Zenon DEF FormatInv, CountOK
<1>3. i' = Len(Kinds) + 1
  BY <1>1, <1>2, KindsAre
<1>4. PlaceOK'
  <2>1. pos = FieldsFrom(i)
    BY <1>1 DEF FormatInv, PlaceOK
  <2>2. FieldsFrom(i)' = FieldsFrom(i)
    BY <1>1, Zenon DEF FieldsFrom
  <2>. QED
    BY <1>1, <1>3, <2>1, <2>2, Zenon DEF PlaceOK
<1>5. SigOK'
  BY <1>1, Zenon DEF FormatInv, SigOK
<1>6. CountOK' /\ DataFits(itch_s') /\ (Calling => itch_s = Fill(Zeroed))'
  <2>1. Calling
    BY <1>1 DEF Calling
  <2>. QED
    BY <1>1, <1>2, <2>1, SameStruct, Zenon DEF FormatInv
<1>7. PutSoFar'
  <2>1. \A n, j : Part(n, j)' = Part(n, j) /\ FieldsFrom(n)' = FieldsFrom(n)
    BY <1>1, Zenon DEF Part, FieldsFrom
  <2>2. PutSoFar
    BY Zenon DEF FormatInv
  <2>. QED
    BY <1>1, <2>1, <2>2, Zenon DEF PutSoFar
<1>. QED
  BY <1>4, <1>5, <1>6, <1>7, Zenon DEF FormatInv

LEMMA CompareKeeps ==
    ASSUME FormatInv, Compare
    PROVE  FormatInv'
<1>1. /\ pc = "compare" /\ pc' = "idle" /\ i' = 1 /\ pos' = 0
      /\ UNCHANGED <<count, type, itch_s, sig>>
  BY Zenon DEF Compare
<1>2. SigOK'
  BY <1>1, Zenon DEF FormatInv, SigOK
<1>3. CountOK'
  <2>1. 1 \in 1 .. Len(Kinds) + 1
    BY KindsAre
  <2>. QED
    BY <1>1, <2>1, Zenon DEF FormatInv, CountOK
<1>4. DataFits(itch_s')
  BY <1>1, Zenon DEF FormatInv
<1>. QED
  BY <1>1, <1>2, <1>3, <1>4 DEF FormatInv, PlaceOK, PutSoFar, Calling

LEMMA PutFinishedKeeps ==
    ASSUME FormatInv, PutFinished
    PROVE  FormatInv'
<1>. DEFINE vs == <<<<1>>>>
<1>1. /\ pc = "idle" /\ UNCHANGED <<count, type, i>> /\ Put(vs, "finished") /\ itch_s' = Zeroed
  BY Zenon DEF PutFinished
<1>2. pos = 0 /\ i = 1
  BY <1>1 DEF FormatInv, PlaceOK
<1>3. vs \in Seq(Seq(Byte)) /\ Len(vs) = 1 /\ pos + 1 <= Len(Args) /\ pos \in Nat
  BY <1>2, ByteIs, OneVector, PlaceFacts, KindsAre
<1>. HIDE DEF vs
<1>4. pos' = pos + 1 /\ pc' = "finished" /\ SigOK'
  <2>1. SigOK
    BY Zenon DEF FormatInv
  <2>. QED
    BY <1>1, <1>3, <2>1, PutIs, Zenon
<1>5. CountOK /\ CountOK'
  BY <1>1, Zenon DEF FormatInv, CountOK
<1>6. DataFits(itch_s')
  BY <1>1, <1>5, FillFits, Zenon
<1>. QED
  BY <1>2, <1>4, <1>5, <1>6 DEF FormatInv, PlaceOK, PutSoFar, Calling

LEMMA FormatStep == FormatInv /\ [Next]_vars => FormatInv'
<1>. SUFFICES ASSUME FormatInv, [Next]_vars PROVE FormatInv'
  OBVIOUS
<1>1. CASE Next
  BY <1>1, ReadMessageKeeps, CreateStructKeeps, PutRunningKeeps, PutDebugIdKeeps, PutFlagsKeeps,
     PutFieldsKeeps, PutDoneKeeps, CompareKeeps, PutFinishedKeeps, Zenon DEF Next
<1>2. CASE UNCHANGED vars
  <2>1. UNCHANGED <<pc, count, type, itch_s, i, pos, sig>>
    BY <1>2, Zenon DEF vars
  <2>2. SigOK' /\ CountOK' /\ DataFits(itch_s')
    BY <2>1, Zenon DEF FormatInv, SigOK, CountOK
  <2>3. \A n, j : Part(n, j)' = Part(n, j) /\ FieldsFrom(n)' = FieldsFrom(n)
    BY <2>1, Zenon DEF Part, FieldsFrom
  <2>4. PutSoFar'
    BY <2>1, <2>3, Zenon DEF FormatInv, PutSoFar
  <2>5. FieldsFrom(i)' = FieldsFrom(i)
    BY <2>1, Zenon DEF FieldsFrom
  <2>6. PlaceOK'
    <3>1. PlaceOK
      BY Zenon DEF FormatInv
    <3>. QED
      BY <2>1, <2>5, <3>1, Zenon DEF PlaceOK
  <2>7. (Calling => itch_s = Fill(Zeroed))'
    <3>1. Fill(Zeroed)' = Fill(Zeroed)
      BY <2>1, Zenon DEF Fill, Memory, Zeroed
    <3>. QED
      BY <2>1, <3>1, Zenon DEF FormatInv, Calling
  <2>. QED
    BY <2>2, <2>4, <2>6, <2>7, Zenon DEF FormatInv
<1>. QED
  BY <1>1, <1>2, Zenon

(* What holds at every step of the testbench (tb_itch_create_struct and     *)
(* tb_itch_put_struct): the structure is the message's own, and the         *)
(* arguments up to the place the scan has reached are what it says.         *)
THEOREM Invariant == Spec => []FormatInv
  BY FirstFormat, FormatStep, PTL DEF Spec

-----------------------------------------------------------------------------
(***************************************************************************)
(* What the invariant says of the run's properties.                         *)
(***************************************************************************)
LEMMA PlaceInArgs == FormatInv => pos \in 0 .. Len(Args)
<1>. SUFFICES ASSUME FormatInv PROVE pos \in 0 .. Len(Args)
  OBVIOUS
<1>1. Len(Kinds) \in Nat /\ Len(Args) \in Nat /\ Len(Args) >= 2 + Len(Kinds) /\ Len(Kinds) > 0
  BY KindsAre, PlaceFacts
<1>2. FieldsFrom(i) \in 0 .. Len(Args)
  <2>1. i \in 1 .. Len(Kinds) + 1
    BY Zenon DEF FormatInv, CountOK
  <2>2. CASE i = Len(Kinds) + 1
    BY <1>1, <2>2, PlaceFacts
  <2>3. CASE i # Len(Kinds) + 1
    <3>. DEFINE c == Counted(Kinds[i])
                z == FieldsFrom(i)
    <3>1. i \in 1 .. Len(Kinds)
      BY <1>1, <2>1, <2>3
    <3>2. z \in Nat /\ z + c <= Len(Args)
      BY <3>1, PlacesAre, ArgsAre, Zenon
    <3>3. c \in Nat
      BY <3>1, KindsAre, KindFits, Zenon
    <3>. HIDE DEF c, z
    <3>4. z \in 0 .. Len(Args)
      BY <1>1, <3>2, <3>3
    <3>. QED
      BY <3>4 DEF z
  <2>. QED
    BY <2>2, <2>3
<1>3. PlaceOK
  BY Zenon DEF FormatInv
<1>4. pos \in {0, 1, 2, FieldsFrom(i)}
  BY <1>3, Zenon DEF PlaceOK
<1>. HIDE DEF FormatInv
<1>. QED
  BY <1>1, <1>2, <1>4

(* The state keeps its types: the scan never leaves the argument list, and  *)
(* every argument keeps the bytes it was declared with (tb.c, hft_tb.v).    *)
THEOREM TypeCorrect == Spec => []TypeOK
<1>1. FormatInv => TypeOK
  <2>. SUFFICES ASSUME FormatInv PROVE TypeOK
    OBVIOUS
  <2>1. pc \in {"idle", "create", "call", "id", "flags", "fields", "compare",
                "finished", "abort"}
    BY Zenon DEF FormatInv, PlaceOK
  <2>2. pos \in 0 .. Len(Args)
    BY PlaceInArgs, Zenon
  <2>. QED
    BY <2>1, <2>2, Zenon DEF TypeOK, FormatInv, SigOK, DataFits, CountOK
<1>. QED
  BY <1>1, Invariant, PTL

(* The copy of gen/itch_msg_fill_case.h, as long as the structure, reads no *)
(* byte behind the message.                                                 *)
THEOREM NoReadBeyond == Spec => []ReadsWithinMessage
<1>1. FormatInv => ReadsWithinMessage
  BY Zenon DEF FormatInv, DataFits, ReadsWithinMessage
<1>. QED
  BY <1>1, Invariant, PTL

(* vpi_scan returns an argument to every put, and every argument is put     *)
(* before the comparison (tb.c, tb_itch_put_struct).                        *)
THEOREM AllArgumentsTaken == Spec => []EveryArgumentTaken
<1>1. FormatInv => EveryArgumentTaken
  <2>. SUFFICES ASSUME FormatInv PROVE EveryArgumentTaken
    OBVIOUS
  <2>1. PlaceOK
    BY Zenon DEF FormatInv
  <2>2. pc # "abort"
    BY <2>1 DEF PlaceOK
  <2>3. pc = "compare" => pos = Len(Args)
    <3>1. pc = "compare" => pos = FieldsFrom(i) /\ i = Len(Kinds) + 1
      BY <2>1 DEF PlaceOK
    <3>. QED
      BY <3>1, PlaceFacts, Zenon
  <2>. QED
    BY <2>2, <2>3, Zenon DEF EveryArgumentTaken
<1>. QED
  BY <1>1, Invariant, PTL

(* At the comparison every signal is its part of the message's structure.   *)
LEMMA ShownIs ==
    ASSUME FormatInv, pc = "compare", NEW n \in 1 .. Len(Kinds)
    PROVE  /\ Len(Shown(n)) = Counted(Kinds[n])
           /\ \A j \in 1 .. Counted(Kinds[n]) : Shown(n)[j] = Part(n, j)
           /\ itch_s = Fill(Zeroed)
           /\ sig[FlagPlace(n)] = <<itch_s.v[Kinds[n]]>>
<1>. DEFINE c == Counted(Kinds[n])
            p == FieldPlaces(n)
<1>1. Len(p) = c /\ \A j \in 1 .. c : p[j] = FieldsFrom(n) + j
  BY PlacesAre, Zenon
<1>2. c \in Nat
  BY KindsAre, KindFits, Zenon
<1>3. Shown(n) = [j \in 1 .. c |-> sig[p[j]]]
  BY <1>1, Zenon DEF Shown
<1>4. n < i
  <2>1. PlaceOK
    BY Zenon DEF FormatInv
  <2>2. i = Len(Kinds) + 1
    BY <2>1 DEF PlaceOK
  <2>. QED
    BY <2>2, KindsAre
<1>5. PutSoFar /\ pc \in {"fields", "compare"}
  BY Zenon DEF FormatInv
<1>6. /\ sig[2 + n] = <<itch_s.v[Kinds[n]]>>
      /\ \A j \in 1 .. c : sig[FieldsFrom(n) + j] = Part(n, j)
  BY <1>4, <1>5, Zenon DEF PutSoFar
<1>. HIDE DEF c, p
<1>7. Len(Shown(n)) = c
  BY <1>2, <1>3
<1>8. \A j \in 1 .. c : Shown(n)[j] = Part(n, j)
  BY <1>1, <1>3, <1>6, Zenon
<1>9. itch_s = Fill(Zeroed)
  BY Zenon DEF FormatInv, Calling
<1>. QED
  BY <1>6, <1>7, <1>8, <1>9, Zenon DEF c, FlagPlace

(* No signal of another kind shows anything of this message or of one       *)
(* before it, and one valid flag is up (the calloc of                       *)
(* tb_itch_create_struct, and the flags of tb_itch_msg_put.h).              *)
THEOREM NothingLeftOver == Spec => []OnlyItsKind
<1>1. FormatInv => OnlyItsKind
  <2>. SUFFICES ASSUME FormatInv, pc = "compare", NEW n \in 1 .. Len(Kinds)
                PROVE  /\ sig[FlagPlace(n)] = <<itch_s.v[Kinds[n]]>>
                       /\ itch_s.v[Kinds[n]] = 1 <=> Kinds[n] = type
                       /\ Kinds[n] # type =>
                              \A j \in 1 .. Len(Shown(n)) :
                                  Shown(n)[j] = Zeros(Len(Shown(n)[j]))
    BY Zenon DEF OnlyItsKind
  <2>. DEFINE k == Kinds[n]
  <2>1. k \in Kind
    BY KindsAre, Zenon
  <2>2. CountOK
    BY Zenon DEF FormatInv
  <2>3. itch_s = Fill(Zeroed)
    BY ShownIs, Zenon
  <2>4. itch_s.v[k] = IF k = type THEN 1 ELSE 0
    BY <2>1, <2>2, <2>3, FillFits, Zenon
  <2>5. itch_s.v[k] = 1 <=> k = type
    BY <2>4
  <2>6. ASSUME k # type, NEW j \in 1 .. Len(Shown(n))
        PROVE  Shown(n)[j] = Zeros(Len(Shown(n)[j]))
    <3>. DEFINE d == Declared[k][j]
                e == FieldEnd(k)[j - 1]
                z == SizeOf[k]
                w == Width[Fields[k][j]]
    <3>1. j \in 1 .. Counted(k) /\ Shown(n)[j] = Part(n, j)
      BY ShownIs, Zenon
    <3>2. d \in Nat /\ d <= w /\ w \in 1 .. 20
      BY <2>1, <3>1, KindFits, Zenon
    <3>3. \A b \in 1 .. w : e + b \in 1 .. z
      BY <2>1, <3>1, MemberIs, Zenon
    <3>4. itch_s.data[k] = Zeros(z)
      BY <2>1, <2>2, <2>3, <2>6, FillFits, Zenon
    <3>5. Part(n, j) = [b \in 1 .. d |-> itch_s.data[k][e + b]]
      BY Zenon DEF Part
    <3>. HIDE DEF d, e, z, w, k
    <3>6. \A b \in 1 .. d : e + b \in 1 .. z
      BY <3>2, <3>3
    <3>7. \A b \in 1 .. d : itch_s.data[k][e + b] = 0
      BY <3>4, <3>6, Zenon DEF Zeros
    <3>8. Part(n, j) = Zeros(d)
      BY <3>5, <3>7, Zenon DEF Zeros
    <3>9. Len(Zeros(d)) = d
      BY <3>2 DEF Zeros
    <3>. QED
      BY <3>1, <3>8, <3>9, Zenon
  <2>. QED
    BY <2>5, <2>6, ShownIs, Zenon
<1>. QED
  BY <1>1, Invariant, PTL

(* The signals of the message's kind, one after the other.                  *)
LEMMA ShownBytes ==
    ASSUME FormatInv, pc = "compare", NEW n \in 1 .. Len(Kinds), Kinds[n] = type
    PROVE  \E m \in 0 .. ExpLen[type] :
               /\ FlattenSeq(Shown(n)) = [x \in 1 .. m |-> Raw[x]]
               /\ type # "G" => m = ExpLen[type]
<1>. DEFINE k == Kinds[n]
            c == Counted(k)
            s == Shown(n)
            E == Ends(Lens(s))
            D(j) == Declared[k][j]
<1>1. k \in Kind /\ CountOK /\ DataFits(itch_s) /\ k = type
  BY KindsAre, Zenon DEF FormatInv
<1>2. c \in Nat /\ c > 0 /\ Len(s) = c
  BY <1>1, KindFits, ShownIs, Zenon
<1>3. ASSUME NEW j \in 1 .. c
      PROVE  /\ s[j] \in Seq(Byte) /\ Len(s[j]) = D(j)
             /\ D(j) \in Nat /\ D(j) <= Width[Fields[k][j]]
             /\ k # "G" => D(j) = Width[Fields[k][j]]
             /\ \A b \in 1 .. D(j) : s[j][b] = Raw[FieldEnd(k)[j - 1] + b]
  <2>. DEFINE d == Declared[k][j]
              w == Width[Fields[k][j]]
              e == FieldEnd(k)[j - 1]
              data == itch_s.data[k]
              f == [b \in 1 .. d |-> data[e + b]]
  <2>1. s[j] = f
    <3>1. s[j] = Part(n, j)
      BY ShownIs, Zenon
    <3>. QED
      BY <3>1, Zenon DEF Part
  <2>2. d \in Nat /\ d <= w /\ w \in 1 .. 20 /\ (k # "G" => d = w)
    BY <1>1, KindFits, Zenon
  <2>3. \A b \in 1 .. w : e + b \in 1 .. SizeOf[k]
    BY <1>1, MemberIs, Zenon
  <2>4. data \in Seq(Byte) /\ Len(data) = SizeOf[k]
    BY <1>1, Zenon DEF DataFits
  <2>5. \A x \in 1 .. SizeOf[k] : data[x] = Raw[x]
    <3>1. itch_s = Fill(Zeroed)
      BY ShownIs, Zenon
    <3>2. \A x \in 1 .. SizeOf[type] : itch_s.data[type][x] = 100 * count + x
      BY <1>1, <3>1, FillFits, Zenon
    <3>3. SizeOf[type] = ExpLen[type]
      BY <1>1, FieldEnds1, Zenon
    <3>. QED
      BY <1>1, <3>2, <3>3, Zenon DEF Raw
  <2>. HIDE DEF d, w, e, data, k
  <2>6. \A b \in 1 .. d : e + b \in 1 .. SizeOf[k]
    BY <2>2, <2>3
  <2>7. \A b \in 1 .. d : data[e + b] = Raw[e + b]
    BY <2>5, <2>6, Zenon
  <2>8. \A b \in 1 .. d : data[e + b] \in Byte
    <3>1. \A x \in 1 .. SizeOf[k] : data[x] \in Byte
      BY <2>4
    <3>. QED
      BY <2>6, <3>1, Zenon
  <2>9. f \in Seq(Byte) /\ Len(f) = d /\ \A b \in 1 .. d : f[b] = data[e + b]
    BY <2>2, <2>8
  <2>. HIDE DEF f
  <2>. QED
    BY <2>1, <2>2, <2>7, <2>9, Zenon DEF d, w, e
<1>4. s \in Seq(Seq(Byte))
  <2>. DEFINE p == FieldPlaces(n)
  <2>1. s = [j \in 1 .. Len(p) |-> sig[p[j]]] /\ Len(p) = c
    BY PlacesAre, Zenon DEF Shown
  <2>2. s = [j \in 1 .. c |-> s[j]]
    BY <2>1, Zenon
  <2>. HIDE DEF s, c
  <2>. QED
    BY <1>2, <1>3, <2>2
<1>5. /\ E \in [0 .. c -> Nat] /\ E[0] = 0
      /\ \A j \in 1 .. c : E[j] = E[j - 1] + D(j)
  <2>1. Lens(s) \in Seq(Nat) /\ Len(Lens(s)) = c /\ \A j \in 1 .. c : Lens(s)[j] = Len(s[j])
    BY <1>2, <1>4, LensAre, Zenon
  <2>2. EndsOf(Lens(s), E)
    BY <2>1, EndsAre, Zenon
  <2>. HIDE DEF E
  <2>. QED
    BY <1>3, <2>1, <2>2, Zenon DEF EndsOf
<1>6. /\ \A j \in 1 .. c : E[j - 1] = FieldEnd(k)[j - 1]
      /\ E[c] \in 0 .. ExpLen[k] /\ (k # "G" => E[c] = ExpLen[k])
  <2>1. CASE k # "G"
    <3>1. Lens(s) = Widths(Fields[k])
      <4>1. Lens(s) = [j \in 1 .. c |-> Len(s[j])]
        BY <1>2, Zenon DEF Lens
      <4>2. Widths(Fields[k]) = [j \in 1 .. c |-> Width[Fields[k][j]]]
        BY Zenon DEF Widths, Counted
      <4>3. \A j \in 1 .. c : Len(s[j]) = Width[Fields[k][j]]
        BY <1>3, <2>1, Zenon
      <4>. QED
        BY <4>1, <4>2, <4>3, Zenon
    <3>2. E = FieldEnd(k)
      BY <3>1, Zenon DEF FieldEnd
    <3>3. E[c] = ExpLen[k]
      BY <1>1, <3>2, FieldEnds1, Zenon
    <3>4. ExpLen[k] \in 0 .. ExpLen[k]
      <4>1. ExpLen[k] \in 1 .. 50
        BY <1>1, ExpLenNat, Zenon
      <4>. DEFINE z == ExpLen[k]
      <4>2. z \in 1 .. 50
        BY <4>1
      <4>. HIDE DEF z
      <4>3. z \in 0 .. z
        BY <4>2
      <4>. QED
        BY <4>3 DEF z
    <3>. QED
      BY <3>2, <3>3, <3>4, Zenon
  <2>2. CASE k = "G"
    <3>. HIDE DEF E
    <3>1. c = 1 /\ D(1) = 10 /\ ExpLen[k] = 20
      BY <2>2, FieldsAgree DEF Counted
    <3>2. FieldEnd(k)[0] = 0
      BY <1>1, FieldEnds1, Zenon
    <3>3. E[1] = E[1 - 1] + 10
      BY <1>5, <3>1
    <3>4. E[1] = 10
      BY <1>5, <3>3
    <3>5. \A j \in 1 .. c : E[j - 1] = FieldEnd(k)[j - 1]
      <4>1. \A j \in 1 .. 1 : j - 1 = 0
        OBVIOUS
      <4>. QED
        BY <1>5, <3>1, <3>2, <4>1, Zenon
    <3>6. 10 \in 0 .. 20
      OBVIOUS
    <3>. QED
      BY <2>2, <3>1, <3>4, <3>5, <3>6, Zenon
  <2>. QED
    BY <2>1, <2>2
<1>7. Reads(s, Raw)
  <2>. DEFINE R == Raw
  <2>. SUFFICES ASSUME NEW m \in 1 .. Len(s), NEW j \in 1 .. Len(s[m])
                PROVE  s[m][j] = R[E[m - 1] + j]
    BY Zenon DEF Reads
  <2>1. m \in 1 .. c
    BY <1>2, Zenon
  <2>2. j \in 1 .. D(m)
    BY <1>3, <2>1, Zenon
  <2>. HIDE DEF R, s, E, c, k, D
  <2>3. s[m][j] = R[FieldEnd(k)[m - 1] + j]
    BY <1>3, <2>1, <2>2, Zenon DEF R
  <2>. QED
    BY <1>6, <2>1, <2>3, Zenon
<1>8. FlattenSeq(s) = [x \in 1 .. Ends(Lens(s))[Len(s)] |-> Raw[x]]
  <2>1. Len(s) > 0
    BY <1>2
  <2>. HIDE DEF s
  <2>. QED
    BY <1>4, <1>7, <2>1, FlattenedIs, Zenon
<1>. HIDE DEF s, E
<1>9. E[c] \in 0 .. ExpLen[type] /\ (type # "G" => E[c] = ExpLen[type])
  BY <1>1, <1>6, Zenon
<1>10. FlattenSeq(s) = [x \in 1 .. E[c] |-> Raw[x]]
  BY <1>2, <1>8, Zenon DEF E
<1>. QED
  BY <1>9, <1>10, Zenon DEF s

(* The signals of the message's kind, put side by side, are its bytes, but  *)
(* for the second half of an end_of_snapshot: the structures, the put calls *)
(* and the declarations of hft_tb.v agree, field for field.                 *)
THEOREM AllBytesShown == Spec => []EveryByteShown
<1>1. FormatInv => EveryByteShown
  <2>. SUFFICES ASSUME FormatInv, pc = "compare", NEW n \in 1 .. Len(Kinds), Kinds[n] = type
                PROVE  /\ FlattenSeq(Shown(n)) = SubSeq(Raw, 1, Len(FlattenSeq(Shown(n))))
                       /\ type # "G" => Len(FlattenSeq(Shown(n))) = Len(Raw)
    BY Zenon DEF EveryByteShown
  <2>. DEFINE z == ExpLen[type]
              s == FlattenSeq(Shown(n))
  <2>1. PICK m \in 0 .. z : s = [x \in 1 .. m |-> Raw[x]] /\ (type # "G" => m = z)
    BY ShownBytes, Zenon
  <2>2. type \in Kind /\ count \in 0 .. MaxMessages
    BY Zenon DEF FormatInv, CountOK
  <2>3. z \in 1 .. 50 /\ count \in Nat
    BY <2>2, ExpLenNat, BoundAssumption
  <2>. DEFINE R == Raw
              f == [x \in 1 .. m |-> R[x]]
  <2>4. R \in Seq(Nat) /\ Len(R) = z
    <3>. HIDE DEF z
    <3>1. R = [b \in 1 .. z |-> 100 * count + b]
      BY Zenon DEF Raw, z
    <3>2. \A b \in 1 .. z : 100 * count + b \in Nat
      BY <2>3
    <3>. HIDE DEF R
    <3>. QED
      BY <2>3, <3>1, <3>2
  <2>5. s = f
    BY <2>1, Zenon
  <2>. HIDE DEF R, s, z
  <2>6. f \in Seq(Nat) /\ Len(f) = m /\ SubSeq(R, 1, m) = f
    <3>1. \A x \in 1 .. m : R[x] \in Nat
      BY <2>3, <2>4
    <3>2. f \in Seq(Nat) /\ Len(f) = m
      BY <2>3, <3>1
    <3>3. SubSeq(R, 1, m) = f
      BY <2>3, <2>4
    <3>. QED
      BY <3>2, <3>3
  <2>. HIDE DEF f
  <2>. QED
    BY <2>1, <2>4, <2>5, <2>6, Zenon DEF R, s
<1>. QED
  BY <1>1, Invariant, PTL
=============================================================================
