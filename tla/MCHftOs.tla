------------------------------- MODULE MCHftOs -------------------------------
(* Small instances of HftOs for TLC.  U32 is 4, 5 or 8 where the code has   *)
(* 2^32.                                                                    *)
EXTENDS HftOs

OtherLocate == AAPL_LOCATE + 1

Datagram(n, plen_field, type, locate, p) ==
    [len |-> n,
     pkt |-> [payload_len |-> plen_field, msg_type |-> type,
              stock_locate |-> locate, price |-> p, shares |-> U32 - 1 - p]]

Quote(p)  == Datagram(PKT_MIN_LEN, ITCH_PAYLOAD_LEN, "A", AAPL_LOCATE, p)
Noise(p)  == Datagram(PKT_MIN_LEN, ITCH_PAYLOAD_LEN, "A", OtherLocate, p)
Reset(p)  == Datagram(PKT_MIN_LEN, ITCH_PAYLOAD_LEN, "R", AAPL_LOCATE, p)
(* make_raw_packet(malformed=True): the length field says 65 bytes          *)
Malformed(p) == Datagram(PKT_MIN_LEN, 65, "A", AAPL_LOCATE, p)
(* longer than a packet buffer, cut short by recv                           *)
Oversize(p)  == Datagram(80, ITCH_PAYLOAD_LEN, "A", AAPL_LOCATE, p)
(* a datagram that ends before its price                                    *)
Short(p)     == Datagram(15, ITCH_PAYLOAD_LEN, "A", AAPL_LOCATE, p)

(* Every way a datagram can fail to be a quote, and quotes of three prices. *)
MixedTraffic == {Quote(1), Quote(2), Oversize(7), Noise(7), Reset(7),
                 Malformed(7), Short(7)}
(* The generator's datagrams, all of one length, for the boot run.          *)
BootTraffic == {Quote(1), Quote(2), Quote(6), Noise(7), Malformed(7)}
(* Packets nobody trades on, to watch the ring alone.                       *)
QuietTraffic == {Noise(7)}
(* "AAPL flood": enough rising quotes to wrap the TX ring and, with U32 = 5, *)
(* to bring both the price and the order counter to their limit.            *)
FloodTraffic == {Quote(1), Quote(2), Quote(3), Quote(4)}
(* The same flood for the smallest word, U32 = 4.                           *)
Flood3 == {Quote(1), Quote(2), Quote(3)}
=============================================================================
