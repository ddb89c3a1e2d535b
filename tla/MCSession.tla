------------------------------ MODULE MCSession ------------------------------
(* The instances of Session that TLC checks. *)
EXTENDS Session, TLC

CONSTANTS c1, c2

MCOne == {c1}

MCTwo == {c1, c2}

MCSymmetry == Permutations({c1, c2})

MCPids == 1 .. 2

MCNoFault == {}

MCAllFaults ==
  {"unserved", "kill", "interrupt", "server_exit", "no_fork", "no_pipe", "big_output",
   "program"}

MCInterrupt == {"interrupt"}
=============================================================================
