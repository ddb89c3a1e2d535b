---------------------------- MODULE MCServerQueue ----------------------------
EXTENDS ServerQueue

CONSTANTS c1, c2, c3, c4

(* Three or four clients on two slots: the ring wraps around, fills up, and
   clients wait for a slot. *)
MCThree == {c1, c2, c3}
MCFour == {c1, c2, c3, c4}

MCNoFault == {}
MCAllFaults == {"kill", "stop", "no_memory", "no_thread"}
=============================================================================
