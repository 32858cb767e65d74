----------------------------- MODULE ItchTables -----------------------------
(***************************************************************************)
(* The twenty-three kinds of ITCH message as the testbench describes them,  *)
(* three times over: the packed C structure a message is copied into        *)
(* (gen/itch_msg_struct_*.h), the calls that hand the structure's fields to *)
(* the simulator (gen/tb_itch_msg_put_*.h), and the signals that take them  *)
(* (hft_tb.v).  Nothing but their order ties the three together.  A kind is *)
(* named by its type letter, a field by its place.                          *)
(***************************************************************************)
EXTENDS Integers, Sequences, SequencesExt

(* The kinds, in the order of their valid flags.                            *)
Kinds == <<"S", "R", "H", "Y", "L", "V", "W", "K", "J", "h", "A", "F", "E",
           "C", "X", "D", "U", "P", "Q", "B", "I", "N", "G">>

Kind == ToSet(Kinds)

(* Parts put side by side: where each of them ends, if ns are their lengths. *)
Ends(ns) == LET end[n \in 0 .. Len(ns)] == IF n = 0 THEN 0 ELSE end[n - 1] + ns[n]
            IN  end

(* Mutant: the timestamp is a 64-bit integer.                               *)
WidthWithU64Time ==
    [u16 |-> 2, u32 |-> 4, u48 |-> 8, u64 |-> 8, price_4 |-> 4,
     price_8 |-> 8, char |-> 1, char_2 |-> 2, char_4 |-> 4,
     char_8 |-> 8, char_20 |-> 20]

(* Bytes of a field of each type, in a packed structure.                    *)
Width == [u16 |-> 2, u32 |-> 4, u48 |-> 6, u64 |-> 8, price_4 |-> 4,
          price_8 |-> 8, char |-> 1, char_2 |-> 2, char_4 |-> 4,
          char_8 |-> 8, char_20 |-> 20]

-----------------------------------------------------------------------------
(* gen/itch_msg_struct_inner.h.  All but the last kind begin with the       *)
(* stock_locate, the tracking_number and the timestamp.                     *)
Stamp == <<"u16", "u16", "u48">>

AdminFields ==
    [S |-> Stamp \o <<"char">>,
     R |-> Stamp \o <<"char_8", "char", "char", "u32", "char", "char",
                     "char_2", "char", "char", "char", "char", "char", "u32", "char">>,
     H |-> Stamp \o <<"char_8", "char", "char", "char_4">>,
     Y |-> Stamp \o <<"char_8", "char">>,
     L |-> Stamp \o <<"char_4", "char_8", "char", "char", "char">>,
     V |-> Stamp \o <<"price_8", "price_8", "price_8">>,
     W |-> Stamp \o <<"char">>,
     K |-> Stamp \o <<"char_8", "u32", "char", "price_4">>,
     J |-> Stamp \o <<"char_8", "price_4", "price_4", "price_4", "u32">>,
     h |-> Stamp \o <<"char_8", "char", "char">>]

OrderFields ==
    [A |-> Stamp \o <<"u64", "char", "u32", "char_8", "price_4">>,
     F |-> Stamp \o <<"u64", "char", "u32", "char_8", "price_4", "char_4">>,
     E |-> Stamp \o <<"u64", "u32", "u64">>,
     C |-> Stamp \o <<"u64", "u32", "u64", "char", "price_4">>,
     X |-> Stamp \o <<"u64", "u32">>,
     D |-> Stamp \o <<"u64">>,
     U |-> Stamp \o <<"u64", "u64", "u32", "price_4">>]

TradeFields ==
    [P |-> Stamp \o <<"u64", "char", "u32", "char_8", "price_4", "u64">>,
     Q |-> Stamp \o <<"u64", "char_8", "price_4", "u64", "char">>,
     B |-> Stamp \o <<"u64">>,
     I |-> Stamp \o <<"u64", "u64", "char", "char_8", "price_4",
                     "price_4", "price_4", "char", "char">>,
     N |-> Stamp \o <<"char_8", "char">>,
     G |-> <<"char_20">>]

(* One table of three.                                                      *)
Together(f, g, h) ==
    [k \in Kind |-> IF k \in DOMAIN f THEN f[k]
                    ELSE IF k \in DOMAIN g THEN g[k] ELSE h[k]]

Fields == Together(AdminFields, OrderFields, TradeFields)

(* gen/tb_itch_msg_put_inner.h: the put calls, kind by kind, by their type. *)
AdminPuts ==
    [S |-> Stamp \o <<"char">>,
     R |-> Stamp \o <<"char_8", "char", "char", "u32", "char", "char",
                     "char_2", "char", "char", "char", "char", "char", "u32", "char">>,
     H |-> Stamp \o <<"char_8", "char", "char", "char_4">>,
     Y |-> Stamp \o <<"char_8", "char">>,
     L |-> Stamp \o <<"char_4", "char_8", "char", "char", "char">>,
     V |-> Stamp \o <<"price_8", "price_8", "price_8">>,
     W |-> Stamp \o <<"char">>,
     K |-> Stamp \o <<"char_8", "u32", "char", "price_4">>,
     J |-> Stamp \o <<"char_8", "price_4", "price_4", "price_4", "u32">>,
     h |-> Stamp \o <<"char_8", "char", "char">>]

OrderPuts ==
    [A |-> Stamp \o <<"u64", "char", "u32", "char_8", "price_4">>,
     F |-> Stamp \o <<"u64", "char", "u32", "char_8", "price_4", "char_4">>,
     E |-> Stamp \o <<"u64", "u32", "u64">>,
     C |-> Stamp \o <<"u64", "u32", "u64", "char", "price_4">>,
     X |-> Stamp \o <<"u64", "u32">>,
     D |-> Stamp \o <<"u64">>,
     U |-> Stamp \o <<"u64", "u64", "u32", "price_4">>]

TradePuts ==
    [P |-> Stamp \o <<"u64", "char", "u32", "char_8", "price_4", "u64">>,
     Q |-> Stamp \o <<"u64", "char_8", "price_4", "u64", "char">>,
     B |-> Stamp \o <<"u64">>,
     I |-> Stamp \o <<"u64", "u64", "char", "char_8", "price_4",
                     "price_4", "price_4", "char", "char">>,
     N |-> Stamp \o <<"char_8", "char">>,
     G |-> <<"char_20">>]

(* Mutant: the match number of a broken trade is not put.                   *)
PutsWithoutMatch == [Together(AdminPuts, OrderPuts, TradePuts) EXCEPT !["B"] = Stamp]

Puts == Together(AdminPuts, OrderPuts, TradePuts)

(* hft_tb.v: the bytes of the signals declared for each kind.               *)
StampWidths == <<2, 2, 6>>

Declared ==
    [S |-> StampWidths \o <<1>>,
     R |-> StampWidths \o <<8, 1, 1, 4, 1, 1, 2, 1, 1, 1, 1, 1, 4, 1>>,
     H |-> StampWidths \o <<8, 1, 1, 4>>,
     Y |-> StampWidths \o <<8, 1>>,
     L |-> StampWidths \o <<4, 8, 1, 1, 1>>,
     V |-> StampWidths \o <<8, 8, 8>>,
     W |-> StampWidths \o <<1>>,
     K |-> StampWidths \o <<8, 4, 1, 4>>,
     J |-> StampWidths \o <<8, 4, 4, 4, 4>>,
     h |-> StampWidths \o <<8, 1, 1>>,
     A |-> StampWidths \o <<8, 1, 4, 8, 4>>,
     F |-> StampWidths \o <<8, 1, 4, 8, 4, 4>>,
     E |-> StampWidths \o <<8, 4, 8>>,
     C |-> StampWidths \o <<8, 4, 8, 1, 4>>,
     X |-> StampWidths \o <<8, 4>>,
     D |-> StampWidths \o <<8>>,
     U |-> StampWidths \o <<8, 8, 4, 4>>,
     P |-> StampWidths \o <<8, 1, 4, 8, 4, 8>>,
     Q |-> StampWidths \o <<8, 8, 4, 8, 1>>,
     B |-> StampWidths \o <<8>>,
     I |-> StampWidths \o <<8, 8, 1, 8, 4, 4, 4, 1, 1>>,
     N |-> StampWidths \o <<8, 1>>,
     G |-> <<10>>]

(* gen/itch_msg_fill_case.h: the length of each kind, less the type letter. *)
ExpLen ==
    [S |-> 11, R |-> 38, H |-> 24, Y |-> 19, L |-> 25, V |-> 34, W |-> 11,
     K |-> 27, J |-> 34, h |-> 20, A |-> 35, F |-> 39, E |-> 30, C |-> 35,
     X |-> 22, D |-> 18, U |-> 34, P |-> 43, Q |-> 39, B |-> 18, I |-> 49,
     N |-> 19, G |-> 20]

-----------------------------------------------------------------------------
(* The arguments of $tb_itch (gen/tb_itch_msg_put_args_*.h), each given by  *)
(* the bytes it takes; a flag takes one bit of its byte.                    *)
FlagArgs == [i \in 1 .. Len(Kinds) |-> 1]

FieldArgs == FlattenSeq([i \in 1 .. Len(Kinds) |-> Declared[Kinds[i]]])

Args == <<1, 18>> \o FlagArgs \o FieldArgs

(* Where the fields of the i-th kind end.                                   *)
FieldEnds == Ends([i \in 1 .. Len(Kinds) |-> Len(Declared[Kinds[i]])])

(* The places of the flag and of the fields of the i-th kind.               *)
FlagPlace(i) == 2 + i

FieldPlaces(i) ==
    [j \in 1 .. Len(Declared[Kinds[i]]) |-> 2 + Len(Kinds) + FieldEnds[i - 1] + j]
=============================================================================
