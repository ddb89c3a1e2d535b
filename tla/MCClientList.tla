----------------------------- MODULE MCClientList ----------------------------
(* The instance of ClientList that TLC checks. *)
EXTENDS ClientList

CONSTANTS c1, c2, c3

MCClients == {c1, c2, c3}

MCAllFaults == {"stop", "no_memory", "no_thread", "client_dies"}
=============================================================================
