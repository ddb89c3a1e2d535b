--------------------------- MODULE ClientRegistry ----------------------------
(***************************************************************************)
(* What the list of clients promises: the clients are kept in the order in *)
(* which they were registered, each one until it unregisters, and all of   *)
(* them go at once when the registry is freed.                             *)
(***************************************************************************)
EXTENDS Integers, Sequences

CONSTANT Clients

VARIABLE entries   \* the registered clients, in order

Elements(s) == {s[k] : k \in DOMAIN s}

Init == entries = << >>

Register(c) == c \notin Elements(entries) /\ entries' = Append(entries, c)

Without(s, k) == [j \in 1 .. Len(s) - 1 |-> IF j < k THEN s[j] ELSE s[j + 1]]

Unregister(c) ==
  \E k \in DOMAIN entries : entries[k] = c /\ entries' = Without(entries, k)

Free == entries' = << >>

Next == Free \/ \E c \in Clients : Register(c) \/ Unregister(c)

Spec == Init /\ [][Next]_entries
=============================================================================
