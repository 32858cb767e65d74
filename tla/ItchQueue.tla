------------------------------ MODULE ItchQueue ------------------------------
(***************************************************************************)
(* What the testbench's list of expected messages promises (tb_itch.h): a   *)
(* queue.  Messages come out in the order they went in, each once, and an   *)
(* empty queue answers with nothing.                                        *)
(***************************************************************************)
EXTENDS Sequences

CONSTANTS Item, Nothing

VARIABLES
    queue,   \* the messages that are expected, oldest first
    popped   \* the answer to the last pop

Init == queue = <<>> /\ popped = Nothing

Push == \E x \in Item : queue' = Append(queue, x) /\ UNCHANGED popped

Pop == \/ /\ queue # <<>>
          /\ popped' = Head(queue) /\ queue' = Tail(queue)
       \/ /\ queue = <<>>
          /\ popped' = Nothing /\ UNCHANGED queue

(* The queue is given up: its messages are dropped one by one.              *)
Drop == queue # <<>> /\ queue' = Tail(queue) /\ UNCHANGED popped

Next == Push \/ Pop \/ Drop

Spec == Init /\ [][Next]_<<queue, popped>>
=============================================================================
