------------------------------- MODULE MCTbFeed -------------------------------
(* Logs of up to three messages for TLC, of lengths that ITCH has and that  *)
(* leave the end of a packet in different places of a beat; 50 is longest.  *)
EXTENDS TbFeed

Lens == {12, 19}
SomeLogs == UNION {[1 .. n -> Lens] : n \in 0 .. 2}
              \cup {<<12, 19, 19>>, <<19, 12, 12>>, <<12, 50>>, <<50, 12>>}
Items == [msg : 1 .. 3, id : {SID} \X (0 .. 8)]
=============================================================================
