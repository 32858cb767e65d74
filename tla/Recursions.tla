----------------------------- MODULE Recursions -----------------------------
(***************************************************************************)
(* Induction over numbers, and what it shows of a recursion: that it has a  *)
(* result.  The proofs about packets rest on it, whose bytes and ends are    *)
(* defined by recursion over their messages.                                *)
(***************************************************************************)
EXTENDS FiniteSetTheorems, TLAPS

(* Every set of numbers that is not empty has a least element.              *)
LEMMA Least == ASSUME NEW T \in SUBSET Nat, T # {}
               PROVE  \E x \in T : \A y \in T : x <= y
<1>. DEFINE R == StrictSubsetOrdering(Nat)
            F == FiniteSubsetsOf(Nat)
            U == {0 .. n : n \in T}
<1>1. IsWellFoundedOn(R, F)
  BY FS_StrictSubsetOrderingWellFounded
<1>2. U \subseteq F /\ U # {}
  <2>1. \A n \in T : 0 .. n \in SUBSET Nat /\ IsFiniteSet(0 .. n)
    BY FS_Interval
  <2>. QED
    BY <2>1 DEF FiniteSubsetsOf
<1>. HIDE DEF U, R, F
<1>3. PICK u \in U : \A w \in U : ~(<<w, u>> \in R)
  BY <1>1, <1>2, WFMin
<1>4. PICK x \in T : u = 0 .. x
  BY <1>3 DEF U
<1>5. ASSUME NEW y \in T, y < x PROVE FALSE
  <2>1. 0 .. y \in U
    BY DEF U
  <2>2. 0 .. y \subseteq 0 .. x /\ 0 .. y # 0 .. x
    <3>1. x \in 0 .. x /\ x \notin 0 .. y
      BY <1>5
    <3>. QED
      BY <1>5, <3>1
  <2>3. <<0 .. y, u>> \in R
    BY <2>2, <1>4 DEF R, StrictSubsetOrdering
  <2>. QED
    BY <2>1, <2>3, <1>3
<1>. QED
  BY <1>5

(* Induction up to n, for the set of the numbers a statement is true of.    *)
LEMMA Induct == ASSUME NEW n \in Nat, NEW T, 0 \in T,
                       \A i \in Nat : i < n /\ i \in T => i + 1 \in T
                PROVE  \A i \in 0 .. n : i \in T
<1>. DEFINE Out == {i \in 0 .. n : i \notin T}
<1>. SUFFICES ASSUME Out # {} PROVE FALSE
  OBVIOUS
<1>1. Out \in SUBSET Nat
  OBVIOUS
<1>2. PICK x \in Out : \A y \in Out : x <= y
  <2>. HIDE DEF Out
  <2>. QED
    BY <1>1, Least
<1>3. x \in Nat /\ x # 0 /\ x <= n /\ x \notin T
  BY <1>2
<1>4. PICK y \in Nat : x = y + 1
  <2>1. x - 1 \in Nat /\ x = (x - 1) + 1
    BY <1>3
  <2>. QED
    BY <2>1
<1>5. y \in 0 .. n /\ ~(x <= y) /\ y < n
  BY <1>3, <1>4
<1>6. y \in T
  BY <1>2, <1>5
<1>. QED
  BY <1>3, <1>4, <1>5, <1>6

(* A recursion of n rounds has a result.                                    *)
Results(f, S, a, n, g) ==
    /\ f \in [0 .. n -> S]
    /\ f[0] = a /\ \A i \in 1 .. n : f[i] = g[i][f[i - 1]]

LEMMA Recursion ==
    ASSUME NEW S, NEW a \in S, NEW n \in Nat, NEW g \in [1 .. n -> [S -> S]]
    PROVE  \E f : Results(f, S, a, n, g)
<1>. DEFINE Upto(k) == \E f \in [0 .. k -> S] :
                           f[0] = a /\ \A i \in 1 .. k : f[i] = g[i][f[i - 1]]
            T == {k \in 0 .. n : Upto(k)}
<1>1. 0 \in T
  <2>. DEFINE f == [i \in 0 .. 0 |-> a]
  <2>1. f \in [0 .. 0 -> S] /\ f[0] = a /\ \A i \in 1 .. 0 : f[i] = g[i][f[i - 1]]
    OBVIOUS
  <2>. HIDE DEF f
  <2>2. Upto(0)
    BY <2>1
  <2>. QED
    BY <2>2
<1>2. ASSUME NEW k \in Nat, k < n, k \in T
      PROVE  k + 1 \in T
  <2>1. PICK f \in [0 .. k -> S] :
            f[0] = a /\ \A i \in 1 .. k : f[i] = g[i][f[i - 1]]
    BY <1>2
  <2>2. k \in 0 .. k /\ k + 1 \in 1 .. n
    BY <1>2
  <2>. DEFINE x == g[k + 1][f[k]]
              h == [i \in 0 .. k + 1 |-> IF i = k + 1 THEN x ELSE f[i]]
  <2>3. x \in S
    BY <2>2
  <2>. HIDE DEF x
  <2>4. h \in [0 .. k + 1 -> S]
    <3>1. ASSUME NEW i \in 0 .. k + 1, i # k + 1 PROVE f[i] \in S
      <4>1. i \in 0 .. k
        BY <3>1
      <4>. QED
        BY <4>1
    <3>. QED
      BY <2>3, <3>1
  <2>5. /\ h[k + 1] = x
        /\ \A i \in 0 .. k : h[i] = f[i]
    OBVIOUS
  <2>. HIDE DEF h
  <2>6. ASSUME NEW i \in 1 .. k + 1 PROVE h[i] = g[i][h[i - 1]]
    <3>1. CASE i = k + 1
      <4>1. i - 1 = k
        BY <3>1
      <4>2. h[i - 1] = f[k] /\ h[i] = g[i][f[k]]
        BY <2>2, <2>5, <3>1, <4>1 DEF x
      <4>. QED
        BY <4>2
    <3>2. CASE i # k + 1
      <4>1. i \in 1 .. k /\ i \in 0 .. k /\ i - 1 \in 0 .. k
        BY <3>2
      <4>. QED
        BY <2>1, <2>5, <4>1
    <3>. QED
      BY <3>1, <3>2
  <2>7. h[0] = a
    <3>1. 0 \in 0 .. k
      OBVIOUS
    <3>. QED
      BY <2>1, <2>5, <3>1
  <2>8. Upto(k + 1)
    BY <2>4, <2>6, <2>7
  <2>9. k + 1 \in 0 .. n
    BY <2>2
  <2>. QED
    BY <2>8, <2>9
<1>3. n \in T
  <2>. HIDE DEF T
  <2>1. n \in 0 .. n
    OBVIOUS
  <2>. QED
    BY <1>1, <1>2, <2>1, Induct
<1>. QED
  BY <1>3 DEF Results
=============================================================================
