-------------------------------- MODULE Bids --------------------------------
(***************************************************************************)
(* What the program makes of one datagram, without rings, registers or      *)
(* slots: an AAPL add-order with a price above every earlier one makes      *)
(* exactly one order, and the orders are numbered from one without a gap.   *)
(***************************************************************************)
EXTENDS Integers, Sequences

CONSTANTS Arrivals,    \* the datagrams that may arrive
          MinLen, PayloadLen, Symbol   \* what makes a datagram a quote

VARIABLES best,     \* the best bid price so far
          orders    \* every order made, oldest first

IsQuote(d) == /\ d.len >= MinLen
              /\ d.pkt.payload_len = PayloadLen
              /\ d.pkt.msg_type = "A"
              /\ d.pkt.stock_locate = Symbol

NewOrder(d) == [order_id |-> Len(orders) + 1,
                price    |-> d.pkt.price,
                shares   |-> d.pkt.shares]

Bid(d) == IF IsQuote(d) /\ d.pkt.price > best
            THEN best' = d.pkt.price /\ orders' = Append(orders, NewOrder(d))
            ELSE UNCHANGED <<best, orders>>
=============================================================================
