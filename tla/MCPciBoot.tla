------------------------------ MODULE MCPciBoot ------------------------------
(* Machines of up to two functions for TLC, on two buses of two devices of  *)
(* two functions.                                                           *)
EXTENDS PciBoot, FiniteSets

(* e1000 with a memory BAR, prefetchable, and with an I/O BAR; a network    *)
(* controller that is not Ethernet; the plugin, whose class is 0.           *)
Kinds == {<<32902, 4110, 2, 0, 100663304>>, <<32902, 4110, 2, 0, 49153>>,
          <<6900, 4097, 2, 128, 104857600>>, <<4660, 4660, 0, 0, 0>>}

Plug(a, k) == Function(a[1], a[2], a[3], k[1], k[2], k[3], k[4], k[5])

SmallMachines ==
    {{}} \cup {{Plug(a, k)} : a \in Place, k \in Kinds}
         \cup {{Plug(p[1], k), Plug(p[2], l)} :
                 p \in {q \in Place \X Place : q[1] # q[2]}, k \in Kinds, l \in Kinds}
=============================================================================
