------------------------------- MODULE ItchFifo -------------------------------
(***************************************************************************)
(* The testbench's list of expected messages (tb/vpi/tb_itch.h, tb_itch.c): *)
(* a singly linked list with a read and a write end, threaded through nodes *)
(* that are allocated at a push and freed at a pop.  Pointers are nodes or  *)
(* NULL; `mem` is the set of nodes malloc has handed out, and `order` is a  *)
(* history variable, the nodes from the oldest to the newest.               *)
(***************************************************************************)
EXTENDS Sequences, Naturals

CONSTANTS
    Node,   \* the addresses malloc can return for an element
    NULL,
    Item    \* what an element carries: a message and its debug id

ASSUME NodeAssumption == NULL \notin Node /\ NULL \notin Item

VARIABLES
    read, write,   \* struct slisth
    next,          \* struct slist: the link of every node
    elem,          \* the rest of tv_itch5_fifo_elem_t
    mem,           \* nodes that are allocated
    popped,        \* what the last pop returned
    order          \* history: the nodes pushed and not pulled

fifoVars == <<read, write, next, elem, mem, popped, order>>

FifoInit ==
    /\ read = NULL /\ write = NULL          \* slisth_init
    /\ next \in [Node -> {NULL}] /\ elem \in [Node -> {NULL}]
    /\ mem = {} /\ popped = NULL /\ order = <<>>

(* Mutant: the newest node is not linked to the new one.                    *)
LinkNothing(a) == [next EXCEPT ![a] = NULL]

(* The links once a has followed the newest node.                           *)
LinkLast(a) == IF write = NULL THEN [next EXCEPT ![a] = NULL]
               ELSE [next EXCEPT ![write] = a, ![a] = NULL]

(* tb_itch_fifo_push with slisth_push: node a goes in at the write end.     *)
FifoPush(a, x) ==
    /\ mem' = mem \cup {a}
    /\ elem' = [elem EXCEPT ![a] = x]
    /\ next' = LinkLast(a)
    /\ write' = a
    /\ read' = IF read = NULL THEN a ELSE read
    /\ order' = Append(order, a)
    /\ UNCHANGED popped

(* slisth_pull of a list that is not empty.                                 *)
Pull ==
    /\ read' = next[read]
    /\ write' = IF next[read] = NULL THEN NULL ELSE write
    /\ next' = [next EXCEPT ![read] = NULL]

(* Mutant: the element is not freed.                                        *)
PullAndKeep ==
    /\ read # NULL
    /\ Pull
    /\ order' = Tail(order)
    /\ UNCHANGED <<elem, mem>>

(* The element that is pulled is freed.                                     *)
PullAndFree ==
    /\ read # NULL
    /\ Pull
    /\ mem' = mem \ {read}
    /\ order' = Tail(order)
    /\ UNCHANGED elem

FifoPop ==
    \/ /\ PullAndFree
       /\ popped' = elem[read]
    \/ /\ read = NULL
       /\ popped' = NULL
       /\ UNCHANGED <<read, write, next, elem, mem, order>>

(* One round of the loop of tb_itch_fifo_free.                              *)
FifoDrop == PullAndFree /\ UNCHANGED popped

FifoNext == \/ \E a \in Node \ mem, x \in Item : FifoPush(a, x)
            \/ FifoPop
            \/ FifoDrop

FifoSpec == FifoInit /\ [][FifoNext]_fifoVars

-----------------------------------------------------------------------------
FifoTypeOK ==
    /\ read \in Node \cup {NULL} /\ write \in Node \cup {NULL}
    /\ next \in [Node -> Node \cup {NULL}]
    /\ elem \in [Node -> Item \cup {NULL}]
    /\ mem \subseteq Node
    /\ popped \in Item \cup {NULL}
    /\ order \in Seq(Node)

(* The links spell the order: the ends are its ends and every node leads to *)
(* the next; both ends are NULL together, as slisth_push and slisth_pull    *)
(* assert.                                                                  *)
Linked ==
    IF order = <<>> THEN read = NULL /\ write = NULL
    ELSE /\ read = order[1] /\ write = order[Len(order)]
         /\ next[write] = NULL
         /\ \A i \in 1 .. Len(order) - 1 : next[order[i]] = order[i + 1]

(* A node is in the list at most once, an allocated node is in the list,    *)
(* and the list holds no freed node.                                        *)
Owned == /\ \A i, j \in 1 .. Len(order) : order[i] = order[j] => i = j
         /\ mem = {order[i] : i \in 1 .. Len(order)}

(* What the list stands for.                                                *)
Contents == [i \in 1 .. Len(order) |-> elem[order[i]]]

Queue == INSTANCE ItchQueue WITH Item <- Item, Nothing <- NULL,
                                 queue <- Contents, popped <- popped

(* The list is a queue.                                                     *)
IsQueue == Queue!Spec
=============================================================================
