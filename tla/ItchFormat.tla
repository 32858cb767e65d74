----------------------------- MODULE ItchFormat -----------------------------
(***************************************************************************)
(* What becomes of a message's bytes between the log and the signals they   *)
(* are compared on: tb_itch_create_struct copies them into a packed         *)
(* structure, and $tb_itch (tb.c, tb_itch_put_struct) hands the structure   *)
(* to the simulator, field after field, to whatever argument vpi_scan       *)
(* returns next.  The signals keep their values from one call to the next.  *)
(***************************************************************************)
EXTENDS ItchTables

CONSTANT MaxMessages     \* bound on the messages of the log

ASSUME BoundAssumption == MaxMessages \in Nat

VARIABLES
    pc,       \* where the testbench is
    count,    \* the messages read so far; the last is in memory
    type,     \* its letter
    itch_s,   \* the structure: valid flags and data
    i,        \* the kind whose fields are put next
    pos,      \* vpi_scan: arguments taken
    sig       \* the values of the arguments

vars == <<pc, count, type, itch_s, i, pos, sig>>

(* Bytes: those of message n are 100n + 0 .. 100n + 50.  Two more values    *)
(* stand for a byte beyond the message and for a byte of unknown bits.      *)
BEYOND == -1
X == -2
Byte == {BEYOND, X} \cup 0 .. 100 * MaxMessages + 99

Zeros(n) == [b \in 1 .. n |-> 0]

TypeOK ==
    /\ pc \in {"idle", "create", "call", "id", "flags", "fields", "compare",
               "finished", "abort"}
    /\ count \in 0 .. MaxMessages
    /\ type \in Kind
    /\ itch_s.v \in [Kind -> {0, 1}]
    /\ DOMAIN itch_s.data = Kind
    /\ \A k \in Kind : itch_s.data[k] \in Seq(Byte)
    /\ i \in 1 .. Len(Kinds) + 1
    /\ pos \in 0 .. Len(Args)
    /\ Len(sig) = Len(Args)
    /\ \A a \in 1 .. Len(Args) : /\ sig[a] \in Seq(Byte)
                                 /\ Len(sig[a]) = Args[a]

-----------------------------------------------------------------------------
(* The layout of the structures.                                            *)
Widths(types) == [j \in 1 .. Len(types) |-> Width[types[j]]]

SizeOf == [k \in Kind |-> Ends(Widths(Fields[k]))[Len(Fields[k])]]

Offset == [k \in Kind |-> [j \in 1 .. Len(Fields[k]) |-> Ends(Widths(Fields[k]))[j - 1]]]

Member(k, j) ==
    [b \in 1 .. Width[Fields[k][j]] |-> itch_s.data[k][Offset[k][j] + b]]

(* tb_itch_create_struct.                                                   *)
Memory(b) == IF b <= ExpLen[type] THEN 100 * count + b ELSE BEYOND

Zeroed == [v |-> [k \in Kind |-> 0], data |-> [k \in Kind |-> Zeros(SizeOf[k])]]

(* Mutant: the structure is not cleared, and malloc returns the last one.   *)
Malloc == itch_s

Calloc == Zeroed

Fill(s) ==
    [v    |-> [s.v EXCEPT ![type] = 1],
     data |-> [s.data EXCEPT ![type] = [b \in 1 .. SizeOf[type] |-> Memory(b)]]]

ReadMessage ==
    /\ pc = "idle"
    /\ count < MaxMessages
    /\ count' = count + 1
    /\ type' \in Kind
    /\ pc' = "create"
    /\ UNCHANGED <<itch_s, i, pos, sig>>

CreateStruct ==
    /\ pc = "create"
    /\ itch_s' = Fill(Calloc)
    /\ pc' = "call"
    /\ UNCHANGED <<count, type, i, pos, sig>>

-----------------------------------------------------------------------------
(* tb_utils.c: a value becomes a vector of 32-bit words, and the argument   *)
(* takes as many of its bytes as it has.                                    *)
Padding(t, n) ==
    [b \in 1 .. (4 - (n % 4)) % 4 |-> IF t = "u16" THEN 0 ELSE X]

(* Mutant: the copy of a 48-bit value stops a byte early.                   *)
VectorOfFive(t, bytes) ==
    (IF t = "u48" THEN SubSeq(bytes, 1, 5) ELSE bytes) \o Padding(t, Len(bytes))

Vector(t, bytes) == bytes \o Padding(t, Len(bytes))

(* Mutant: the argument grows to the vector.                                *)
AssignWhole(w, vector) == vector

Assign(w, vector) ==
    [b \in 1 .. w |-> IF b <= Len(vector) THEN vector[b] ELSE X]

(* vpi_scan and vpi_put_value for each of a sequence of vectors; a scan     *)
(* past the last argument is an assertion failure.                          *)
Put(vectors, next) ==
    IF pos + Len(vectors) <= Len(Args)
    THEN /\ pos' = pos + Len(vectors)
         /\ sig' = [a \in 1 .. Len(Args) |->
                       IF a \in pos + 1 .. pos'
                       THEN Assign(Args[a], vectors[a - pos])
                       ELSE sig[a]]
         /\ pc' = next
    ELSE /\ pc' = "abort"
         /\ UNCHANGED <<pos, sig>>

(* $tb_itch for a message of the list.                                      *)
PutRunning ==
    /\ pc = "call"
    /\ Put(<<<<0>>>>, "id")
    /\ UNCHANGED <<count, type, itch_s, i>>

PutDebugId ==
    /\ pc = "id"
    /\ Put(<<Vector("char_18", [b \in 1 .. 18 |-> 100 * count])>>, "flags")
    /\ UNCHANGED <<count, type, itch_s, i>>

PutFlags ==
    /\ pc = "flags"
    /\ Put([n \in 1 .. Len(Kinds) |-> Vector("u8", <<itch_s.v[Kinds[n]]>>)],
           "fields")
    /\ UNCHANGED <<count, type, itch_s, i>>

PutFields ==
    /\ pc = "fields"
    /\ i <= Len(Kinds)
    /\ LET k == Kinds[i]
       IN  Put([j \in 1 .. Len(Puts[k]) |-> Vector(Puts[k][j], Member(k, j))],
               "fields")
    /\ i' = i + 1
    /\ UNCHANGED <<count, type, itch_s>>

PutDone ==
    /\ pc = "fields"
    /\ i > Len(Kinds)
    /\ pc' = "compare"
    /\ UNCHANGED <<count, type, itch_s, i, pos, sig>>

(* The comparisons of hft_tb.v, and the wait for the next message.          *)
Compare ==
    /\ pc = "compare"
    /\ pc' = "idle"
    /\ i' = 1
    /\ pos' = 0
    /\ UNCHANGED <<count, type, itch_s, sig>>

(* $tb_itch for a message the list does not have: only the first argument   *)
(* is put.                                                                  *)
PutFinished ==
    /\ pc = "idle"
    /\ Put(<<<<1>>>>, "finished")
    /\ itch_s' = Zeroed
    /\ UNCHANGED <<count, type, i>>

Init ==
    /\ pc = "idle" /\ count = 0 /\ type = "S" /\ i = 1 /\ pos = 0
    /\ itch_s = Zeroed
    /\ sig = [a \in 1 .. Len(Args) |-> [b \in 1 .. Args[a] |-> X]]

Next ==
    \/ ReadMessage \/ CreateStruct
    \/ PutRunning \/ PutDebugId \/ PutFlags \/ PutFields \/ PutDone
    \/ Compare \/ PutFinished

Spec == Init /\ [][Next]_vars

-----------------------------------------------------------------------------
Raw == [b \in 1 .. ExpLen[type] |-> 100 * count + b]

Shown(n) == LET places == FieldPlaces(n)
            IN  [j \in 1 .. Len(places) |-> sig[places[j]]]

(* A structure is no longer than a well-formed message of its kind, so that *)
(* the copy into it reads no byte behind such a message, whatever the fields*)
(* (gen/itch_msg_fill_case.h copies sizeof the structure and does not look  *)
(* at the length of the message; shorter records are not among these).      *)
ReadsWithinMessage ==
    \A k \in Kind : \A b \in 1 .. SizeOf[k] : itch_s.data[k][b] # BEYOND

(* The signals of the message's kind, put side by side, are the message:    *)
(* nothing is cut off, left out, doubled or moved between the structure,    *)
(* the put calls and the declarations.  Only hft_tb.v:278 declares half of  *)
(* the twenty bytes of end_of_snapshot, which it does not compare.          *)
EveryByteShown ==
    pc = "compare" =>
        \A n \in 1 .. Len(Kinds) :
            Kinds[n] = type =>
                LET shown == FlattenSeq(Shown(n))
                IN  /\ shown = SubSeq(Raw, 1, Len(shown))
                    /\ type # "G" => Len(shown) = Len(Raw)

(* Exactly the message's kind is flagged, and the signals of all others are *)
(* zero: nothing of an earlier message, and no unknown bit, is left in them.*)
OnlyItsKind ==
    pc = "compare" =>
        \A n \in 1 .. Len(Kinds) :
            /\ sig[FlagPlace(n)] = <<itch_s.v[Kinds[n]]>>
            /\ itch_s.v[Kinds[n]] = 1 <=> Kinds[n] = type
            /\ Kinds[n] # type =>
                   \A j \in 1 .. Len(Shown(n)) :
                       Shown(n)[j] = Zeros(Len(Shown(n)[j]))

(* vpi_scan runs out exactly when the put calls do: every signal is put for *)
(* every message, and no put finds no argument.                             *)
EveryArgumentTaken ==
    /\ pc # "abort"
    /\ pc = "compare" => pos = Len(Args)
=============================================================================
