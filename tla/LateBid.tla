------------------------------ MODULE LateBid ------------------------------
(***************************************************************************)
(* What is left of the promise when datagrams arrive while the machine is   *)
(* still booting.  Such a datagram may be lost, and from then on those that *)
(* follow, before and after the boot, may be judged in another order; but   *)
(* each is judged at most once and whole, and none that is still there when *)
(* the machine has booted, or that arrives later, is ever dropped.          *)
(***************************************************************************)
EXTENDS Bids

VARIABLES arrived,   \* every datagram, in the order they arrived
          inbox,     \* the numbers of those neither judged nor lost
          booted

vars == <<arrived, inbox, booted, best, orders>>

Init == /\ arrived = <<>> /\ inbox = {} /\ booted = FALSE
        /\ best = 0 /\ orders = <<>>

Arrive == /\ \E d \in Arrivals : arrived' = Append(arrived, d)
          /\ inbox' = inbox \cup {Len(arrived) + 1}
          /\ UNCHANGED <<booted, best, orders>>

Judge == \E n \in inbox : /\ inbox' = inbox \ {n}
                          /\ Bid(arrived[n])
                          /\ UNCHANGED <<arrived, booted>>

Lose == /\ ~booted
        /\ \E n \in inbox : inbox' = inbox \ {n}
        /\ UNCHANGED <<arrived, booted, best, orders>>

Boot == /\ ~booted /\ booted' = TRUE
        /\ UNCHANGED <<arrived, inbox, best, orders>>

Next == Arrive \/ Judge \/ Lose \/ Boot

Safety == Init /\ [][Next]_vars
=============================================================================
