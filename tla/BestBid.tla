------------------------------ MODULE BestBid ------------------------------
(***************************************************************************)
(* What the program promises of traffic that waits for the boot: datagrams  *)
(* are taken one at a time, in the order they arrived and whole, none is    *)
(* left out, and each is judged as Bids says.                               *)
(***************************************************************************)
EXTENDS Bids

VARIABLE inbox    \* arrived and not yet judged, oldest first

vars == <<inbox, best, orders>>

Init == inbox = <<>> /\ best = 0 /\ orders = <<>>

Arrive == \E d \in Arrivals : /\ inbox' = Append(inbox, d)
                              /\ UNCHANGED <<best, orders>>

Judge == /\ inbox # <<>>
         /\ inbox' = Tail(inbox)
         /\ Bid(Head(inbox))

Next == Arrive \/ Judge

(* What never goes wrong, and that nothing waits for ever.                  *)
Safety == Init /\ [][Next]_vars

Fairness == WF_vars(Judge)

Spec == Safety /\ Fairness
=============================================================================
