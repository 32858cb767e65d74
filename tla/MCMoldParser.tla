---------------------------- MODULE MCMoldParser ----------------------------
(* Packets for MoldParser: every place a length can take in a beat.         *)
EXTENDS MoldParser

(* Eight consecutive lengths, so that a message can end behind any byte of  *)
(* a beat; twelve bytes is the shortest message of ITCH.                    *)
Lengths == 12 .. 19

Message(m, len) == [b \in 1 .. len |-> 40 * m + b]

OneOrTwo == {<<Message(1, a)>> : a \in Lengths}
                \cup {<<Message(1, a), Message(2, b)>> : a, b \in Lengths}
=============================================================================
