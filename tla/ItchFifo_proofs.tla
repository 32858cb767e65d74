--------------------------- MODULE ItchFifo_proofs ---------------------------
(***************************************************************************)
(* The list of expected messages is a queue, for any set of nodes: the      *)
(* links spell the order in which messages were pushed (FifoInv), and under *)
(* that invariant every operation is one of ItchQueue or changes nothing.   *)
(***************************************************************************)
EXTENDS ItchFifo, SequenceTheorems, TLAPS

FifoInv == FifoTypeOK /\ Linked /\ Owned

(* read is NULL exactly when the list is empty.                             *)
LEMMA ReadNull ==
    ASSUME FifoInv
    PROVE  /\ read = NULL <=> order = <<>>
           /\ write = NULL <=> order = <<>>
           /\ order # <<>> => /\ Len(order) \in Nat \ {0}
                              /\ read = order[1] /\ read \in mem
                              /\ write = order[Len(order)] /\ write \in mem
  <1>1. order \in Seq(Node) /\ Len(order) \in Nat
    BY DEF FifoInv, FifoTypeOK
  <1>2. CASE order = <<>>
    BY <1>2 DEF FifoInv, Linked
  <1>3. CASE order # <<>>
    <2>1. Len(order) \in Nat \ {0}
      BY <1>1, <1>3
    <2>2. \A i \in 1 .. Len(order) : order[i] \in Node /\ order[i] \in mem
      BY <1>1 DEF FifoInv, Owned
    <2>3. read = order[1] /\ write = order[Len(order)]
      BY <1>3 DEF FifoInv, Linked
    <2>. QED  BY <1>3, <2>1, <2>2, <2>3, NodeAssumption
  <1>. QED  BY <1>2, <1>3

LEMMA InitInv == FifoInit => FifoInv
  BY DEF FifoInit, FifoInv, FifoTypeOK, Linked, Owned

(* A push keeps the links in order.                                         *)
LEMMA PushInv ==
    ASSUME FifoInv, NEW a \in Node \ mem, NEW x \in Item, FifoPush(a, x)
    PROVE  FifoInv'
  <1>. DEFINE n == Len(order)
  <1>1. order \in Seq(Node) /\ n \in Nat
    BY DEF FifoInv, FifoTypeOK
  <1>2. /\ order' \in Seq(Node) /\ Len(order') = n + 1
        /\ \A i \in 1 .. n : order'[i] = order[i]
        /\ order'[n + 1] = a /\ order' # <<>>
    BY <1>1 DEF FifoPush
  <1>3. \A i \in 1 .. n : order[i] \in mem /\ order[i] # a
    BY DEF FifoInv, Owned
  <1>4. FifoTypeOK'
    <2>1. next' \in [Node -> Node \cup {NULL}]
      BY DEF FifoInv, FifoTypeOK, FifoPush, LinkLast
    <2>. QED  BY <1>2, <2>1 DEF FifoInv, FifoTypeOK, FifoPush
  <1>5. Owned'
    <2>1. \A i, j \in 1 .. n + 1 : order'[i] = order'[j] => i = j
      <3>. SUFFICES ASSUME NEW i \in 1 .. n + 1, NEW j \in 1 .. n + 1,
                           order'[i] = order'[j]
                    PROVE  i = j
        OBVIOUS
      <3>1. CASE i \in 1 .. n /\ j \in 1 .. n
        BY <3>1, <1>2 DEF FifoInv, Owned
      <3>2. CASE i = n + 1 \/ j = n + 1
        BY <3>2, <1>1, <1>2, <1>3
      <3>. QED  BY <1>1, <3>1, <3>2
    <2>2. mem' = {order'[i] : i \in 1 .. n + 1}
      <3>1. {order'[i] : i \in 1 .. n + 1}
              = {order[i] : i \in 1 .. n} \cup {a}
        BY <1>1, <1>2
      <3>. QED  BY <3>1 DEF FifoInv, Owned, FifoPush
    <2>. QED  BY <1>2, <2>1, <2>2 DEF Owned
  <1>6. Linked'
    <2>1. read' = order'[1]
      BY <1>1, <1>2, ReadNull DEF FifoPush
    <2>2. write' = order'[n + 1] /\ next'[write'] = NULL
      BY <1>2 DEF FifoPush, LinkLast, FifoInv, FifoTypeOK
    <2>3. ASSUME NEW i \in 1 .. n
          PROVE  next'[order'[i]] = order'[i + 1]
      <3>0. order # <<>> /\ write # NULL /\ write = order[n] /\ write \in Node
            /\ write # a
        BY <1>1, <1>3, ReadNull DEF FifoInv, FifoTypeOK
      <3>1. /\ order[i] \in Node /\ order[i] # a /\ i + 1 \in 1 .. n + 1
            /\ order'[i] = order[i]
        BY <1>1, <1>2, <1>3
      <3>2. CASE i = n
        BY <3>0, <3>1, <3>2, <1>2 DEF FifoPush, LinkLast, FifoInv, FifoTypeOK
      <3>3. CASE i # n
        <4>1. i \in 1 .. n - 1 /\ i + 1 \in 1 .. n /\ n \in 1 .. n
          BY <1>1, <3>3
        <4>2. order[i] # write
          BY <3>0, <3>3, <4>1 DEF FifoInv, Owned
        <4>3. next[order[i]] = order[i + 1] /\ order'[i + 1] = order[i + 1]
          BY <1>2, <3>0, <4>1 DEF FifoInv, Linked
        <4>. QED  BY <3>0, <3>1, <4>2, <4>3
                  DEF FifoPush, LinkLast, FifoInv, FifoTypeOK
      <3>. QED  BY <3>2, <3>3
    <2>. QED  BY <1>1, <1>2, <2>1, <2>2, <2>3 DEF Linked
  <1>. QED  BY <1>4, <1>5, <1>6 DEF FifoInv

(* So does taking the oldest node out, whether it is handed on or dropped.  *)
LEMMA PullInv ==
    ASSUME FifoInv, PullAndFree, popped' \in Item \cup {NULL}
    PROVE  FifoInv'
  <1>. DEFINE n == Len(order)
  <1>0. read # NULL /\ order # <<>>
    BY ReadNull DEF PullAndFree
  <1>1. /\ order \in Seq(Node) /\ n \in Nat \ {0}
        /\ read = order[1] /\ read \in Node /\ write = order[n]
    BY <1>0, ReadNull DEF FifoInv, FifoTypeOK
  <1>2. /\ order' \in Seq(Node) /\ Len(order') = n - 1
        /\ \A i \in 1 .. n - 1 : order'[i] = order[i + 1]
    BY <1>0, <1>1 DEF PullAndFree
  <1>3. \A i \in 2 .. n : order[i] \in Node /\ order[i] # read
    <2>. SUFFICES ASSUME NEW i \in 2 .. n
                  PROVE  order[i] \in Node /\ order[i] # read
      OBVIOUS
    <2>1. i \in 1 .. n /\ 1 \in 1 .. n /\ i # 1
      BY <1>1
    <2>. QED  BY <1>1, <2>1 DEF FifoInv, Owned
  <1>4. next' = [next EXCEPT ![read] = NULL]
    BY DEF PullAndFree, Pull
  <1>5. CASE n = 1
    <2>1. order' = <<>> /\ next[read] = NULL
      BY <1>0, <1>1, <1>2, <1>5 DEF FifoInv, Linked
    <2>2. read' = NULL /\ write' = NULL
      BY <2>1 DEF PullAndFree, Pull
    <2>3. mem = {read}
      BY <1>1, <1>5 DEF FifoInv, Owned
    <2>4. mem' = {}
      BY <2>3 DEF PullAndFree
    <2>5. Owned'
      BY <2>1, <2>4 DEF Owned
    <2>. QED  BY <2>1, <2>2, <2>4, <2>5, <1>4
              DEF FifoInv, FifoTypeOK, Linked, PullAndFree
  <1>6. CASE n > 1
    <2>1. next[read] = order[2] /\ order[2] \in Node /\ order[2] # NULL
      <3>1. 1 \in 1 .. n - 1 /\ 2 \in 2 .. n
        BY <1>1, <1>6
      <3>. QED  BY <1>0, <1>1, <1>3, <3>1, NodeAssumption DEF FifoInv, Linked
    <2>2. read' = order[2] /\ write' = write
      BY <2>1 DEF PullAndFree, Pull
    <2>3. order' # <<>> /\ order'[1] = order[2] /\ order'[n - 1] = order[n]
      BY <1>1, <1>2, <1>6
    <2>4. FifoTypeOK'
      BY <1>1, <1>2, <1>4, <2>1, <2>2 DEF FifoInv, FifoTypeOK, PullAndFree
    <2>5. Linked'
      <3>1. next'[write'] = NULL
        BY <1>0, <1>1, <1>4, <2>2 DEF FifoInv, FifoTypeOK, Linked
      <3>2. ASSUME NEW i \in 1 .. n - 2
            PROVE  next'[order'[i]] = order'[i + 1]
        <4>1. i \in 1 .. n - 1 /\ i + 1 \in 1 .. n - 1 /\ i + 1 \in 2 .. n
              /\ i + 2 = (i + 1) + 1
          BY <1>1
        <4>2. next[order[i + 1]] = order[i + 2]
          BY <1>0, <4>1 DEF FifoInv, Linked
        <4>3. order'[i] = order[i + 1] /\ order'[i + 1] = order[i + 2]
          BY <1>2, <4>1
        <4>4. order[i + 1] \in Node /\ order[i + 1] # read
          BY <1>3, <4>1
        <4>. QED  BY <1>4, <4>2, <4>3, <4>4 DEF FifoInv, FifoTypeOK
      <3>3. Len(order') - 1 = n - 2
        BY <1>1, <1>2
      <3>. QED  BY <1>1, <1>2, <2>2, <2>3, <3>1, <3>2, <3>3 DEF Linked
    <2>6. Owned'
      <3>1. \A i, j \in 1 .. n - 1 : order'[i] = order'[j] => i = j
        <4>. SUFFICES ASSUME NEW i \in 1 .. n - 1, NEW j \in 1 .. n - 1,
                             order'[i] = order'[j]
                      PROVE  i = j
          OBVIOUS
        <4>1. i + 1 \in 1 .. n /\ j + 1 \in 1 .. n
          BY <1>1
        <4>2. order[i + 1] = order[j + 1]
          BY <1>2
        <4>. QED  BY <1>1, <4>1, <4>2 DEF FifoInv, Owned
      <3>2. mem' = {order'[i] : i \in 1 .. n - 1}
        <4>1. mem' = {order[i] : i \in 1 .. n} \ {read}
          BY DEF FifoInv, Owned, PullAndFree
        <4>2. {order[i] : i \in 1 .. n} \ {read} = {order[i] : i \in 2 .. n}
          BY <1>1, <1>3
        <4>3. {order[i] : i \in 2 .. n} = {order[i + 1] : i \in 1 .. n - 1}
          <5>1. \A i \in 2 .. n : i - 1 \in 1 .. n - 1 /\ order[i] = order[(i - 1) + 1]
            BY <1>1
          <5>2. \A i \in 1 .. n - 1 : i + 1 \in 2 .. n
            BY <1>1
          <5>. QED  BY <5>1, <5>2
        <4>4. {order'[i] : i \in 1 .. n - 1} = {order[i + 1] : i \in 1 .. n - 1}
          BY <1>2
        <4>. QED  BY <4>1, <4>2, <4>3, <4>4
      <3>. QED  BY <1>2, <3>1, <3>2 DEF Owned
    <2>. QED  BY <2>4, <2>5, <2>6 DEF FifoInv
  <1>7. n = 1 \/ n > 1
    <2>1. n \in Nat /\ n # 0
      BY <1>1
    <2>. HIDE DEF n
    <2>. QED  BY <2>1
  <1>. QED  BY <1>5, <1>6, <1>7

(* An answer to a pop is an element of the list, or nothing.                *)
LEMMA PopInv ==
    ASSUME FifoInv, FifoPop
    PROVE  FifoInv'
  <1>1. CASE PullAndFree /\ popped' = elem[read]
    <2>1. popped' \in Item \cup {NULL}
      BY <1>1 DEF FifoInv, FifoTypeOK, PullAndFree
    <2>. QED  BY <1>1, <2>1, PullInv
  <1>2. CASE popped' = NULL /\ UNCHANGED <<read, write, next, elem, mem, order>>
    BY <1>2 DEF FifoInv, FifoTypeOK, Linked, Owned
  <1>. QED  BY <1>1, <1>2 DEF FifoPop

LEMMA StepInv == FifoInv /\ [FifoNext]_fifoVars => FifoInv'
  <1>. SUFFICES ASSUME FifoInv, [FifoNext]_fifoVars
                PROVE  FifoInv'
    OBVIOUS
  <1>1. ASSUME NEW a \in Node \ mem, NEW x \in Item, FifoPush(a, x)
        PROVE  FifoInv'
    BY <1>1, PushInv
  <1>2. CASE FifoPop
    BY <1>2, PopInv
  <1>3. CASE FifoDrop
    <2>1. PullAndFree /\ popped' \in Item \cup {NULL}
      BY <1>3 DEF FifoDrop, FifoInv, FifoTypeOK
    <2>. QED  BY <2>1, PullInv
  <1>4. CASE UNCHANGED fifoVars
    BY <1>4 DEF fifoVars, FifoInv, FifoTypeOK, Linked, Owned
  <1>. QED  BY <1>1, <1>2, <1>3, <1>4 DEF FifoNext

(* The list is well formed in every state of every run: its links spell the *)
(* order of the pushes, both ends are null together (the assertion of       *)
(* slisth_push and slisth_pull), no node is in it twice, none is lost and   *)
(* none is used after it was freed.                                         *)
THEOREM FifoWellFormed == FifoSpec => []FifoInv
  <1>. QED  BY InitInv, StepInv, PTL DEF FifoSpec

-----------------------------------------------------------------------------
(* A push appends to what the list stands for.                              *)
LEMMA PushAppends ==
    ASSUME FifoInv, NEW a \in Node \ mem, NEW x \in Item, FifoPush(a, x)
    PROVE  Queue!Push
  <1>. DEFINE n == Len(order)
  <1>1. /\ order \in Seq(Node) /\ n \in Nat
        /\ \A i \in 1 .. n : order[i] \in Node /\ order[i] # a
    BY DEF FifoInv, FifoTypeOK, Owned
  <1>2. /\ Len(order') = n + 1 /\ order'[n + 1] = a
        /\ \A i \in 1 .. n : order'[i] = order[i]
    BY <1>1 DEF FifoPush
  <1>3. elem' = [elem EXCEPT ![a] = x] /\ elem \in [Node -> Item \cup {NULL}]
    BY DEF FifoPush, FifoInv, FifoTypeOK
  <1>4. \A i \in 1 .. n : elem'[order'[i]] = elem[order[i]]
    BY <1>1, <1>2, <1>3
  <1>5. elem'[order'[n + 1]] = x
    BY <1>2, <1>3
  <1>6. Contents \in Seq(Item \cup {NULL}) /\ Len(Contents) = n
    BY <1>1, <1>3 DEF Contents
  <1>7. Contents' = Append(Contents, x)
    BY <1>1, <1>2, <1>4, <1>5, <1>6 DEF Contents
  <1>. QED  BY <1>7 DEF Queue!Push, FifoPush

(* A pull takes the head.                                                   *)
LEMMA PullTakesHead ==
    ASSUME FifoInv, PullAndFree
    PROVE  /\ Contents # <<>>
           /\ elem[read] = Head(Contents)
           /\ Contents' = Tail(Contents)
  <1>. DEFINE n == Len(order)
  <1>1. /\ order \in Seq(Node) /\ n \in Nat \ {0} /\ order # <<>>
        /\ read = order[1]
    BY ReadNull DEF PullAndFree, FifoInv, FifoTypeOK
  <1>2. /\ Len(order') = n - 1
        /\ \A i \in 1 .. n - 1 : order'[i] = order[i + 1]
    BY <1>1 DEF PullAndFree
  <1>3. Contents \in Seq(Item \cup {NULL}) /\ Len(Contents) = n
        /\ \A i \in 1 .. n : Contents[i] = elem[order[i]]
    BY <1>1 DEF Contents, FifoInv, FifoTypeOK
  <1>4. Contents # <<>> /\ elem[read] = Head(Contents)
    BY <1>1, <1>3
  <1>5. Contents' = [i \in 1 .. n - 1 |-> elem[order[i + 1]]]
    BY <1>1, <1>2 DEF Contents, PullAndFree
  <1>6. Tail(Contents) = [i \in 1 .. n - 1 |-> elem[order[i + 1]]]
    <2>1. /\ Tail(Contents) \in Seq(Item \cup {NULL})
          /\ Len(Tail(Contents)) = n - 1
          /\ \A i \in 1 .. n - 1 : Tail(Contents)[i] = Contents[i + 1]
      BY <1>3, <1>4, HeadTailProperties
    <2>2. \A i \in 1 .. n - 1 : i + 1 \in 1 .. n
      BY <1>1
    <2>3. Tail(Contents) = [i \in 1 .. n - 1 |-> Contents[i + 1]]
      <3>. HIDE DEF n
      <3>1. /\ [i \in 1 .. n - 1 |-> Contents[i + 1]] \in Seq(Item \cup {NULL})
            /\ Len([i \in 1 .. n - 1 |-> Contents[i + 1]]) = n - 1
        BY <1>1, <1>3, <2>2, ElementOfSeq DEF n
      <3>. QED  BY <2>1, <3>1, SeqEqual
    <2>. QED  BY <1>3, <2>2, <2>3
  <1>. QED  BY <1>4, <1>5, <1>6

LEMMA StepSimulates == FifoInv /\ [FifoNext]_fifoVars
                         => [Queue!Next]_<<Contents, popped>>
  <1>. SUFFICES ASSUME FifoInv, [FifoNext]_fifoVars
                PROVE  Queue!Next \/ UNCHANGED <<Contents, popped>>
    OBVIOUS
  <1>1. ASSUME NEW a \in Node \ mem, NEW x \in Item, FifoPush(a, x)
        PROVE  Queue!Next
    BY <1>1, PushAppends DEF Queue!Next
  <1>2. CASE FifoPop
    <2>1. CASE PullAndFree /\ popped' = elem[read]
      BY <2>1, PullTakesHead DEF Queue!Next, Queue!Pop
    <2>2. CASE /\ read = NULL /\ popped' = NULL
               /\ UNCHANGED <<read, write, next, elem, mem, order>>
      <3>1. order = <<>> /\ order' = order /\ elem' = elem
        BY <2>2, ReadNull
      <3>2. Contents = <<>> /\ Contents' = Contents
        BY <3>1 DEF Contents
      <3>. QED  BY <2>2, <3>2 DEF Queue!Next, Queue!Pop
    <2>. QED  BY <1>2, <2>1, <2>2 DEF FifoPop
  <1>3. CASE FifoDrop
    BY <1>3, PullTakesHead DEF FifoDrop, Queue!Next, Queue!Drop
  <1>4. CASE UNCHANGED fifoVars
    BY <1>4 DEF fifoVars, Contents
  <1>. QED  BY <1>1, <1>2, <1>3, <1>4 DEF FifoNext

(* The list implements the queue: whatever the bench pushes comes out in    *)
(* the same order, once each, through any reuse of nodes.                   *)
THEOREM FifoImplementsQueue == FifoSpec => IsQueue
  <1>1. FifoInit => Queue!Init
    BY DEF FifoInit, Queue!Init, Contents
  <1>. QED  BY <1>1, StepSimulates, FifoWellFormed, PTL
            DEF FifoSpec, IsQueue, Queue!Spec
=============================================================================
