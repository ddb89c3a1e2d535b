---------------------------- MODULE MCLifecycle -----------------------------
(* The instances of Lifecycle that TLC checks. *)
EXTENDS Lifecycle, TLC

CONSTANTS s1, s2, c1, c2

MCServers == {s1, s2}

MCClients == {c1, c2}

MCOneServer == {s1}

MCAllFaults == {"stop", "group", "kill", "no_memory", "no_thread"}

MCStop == {"stop", "group"}

MCSymmetry == Permutations({s1, s2}) \cup Permutations({c1, c2})
=============================================================================
