--------------------------- MODULE ConnectionQueue ---------------------------
(***************************************************************************)
(* What the queue of connection requests promises to its users, whatever   *)
(* the semaphores and the ring buffer behind it: a bounded first-in        *)
(* first-out queue from which the server takes every request once, in the  *)
(* order the clients put them there.  ServerQueue implements it.           *)
(***************************************************************************)
EXTENDS Naturals, Sequences

CONSTANTS Clients,  \* the client processes; a process offers one request
          Slots     \* the capacity of the queue

VARIABLES queue,    \* the requests waiting, oldest first
          served,   \* the requests a thread was created for, in order
          phase     \* "up", "down" (the server takes no more), "freed"

cqVars == <<queue, served, phase>>

Elements(s) == {s[i] : i \in DOMAIN s}

Init ==
  /\ queue = << >>
  /\ served = << >>
  /\ phase = "up"

(* A client adds its request while there is room.  A queue whose server is
   down still takes requests, a queue that was freed does not. *)
Offer(c) ==
  /\ phase # "freed"
  /\ Len(queue) < Slots
  /\ c \notin Elements(queue) \cup Elements(served)
  /\ queue' = Append(queue, c)
  /\ UNCHANGED <<served, phase>>

(* The server takes the oldest request and gives it a thread. *)
Serve ==
  /\ phase = "up"
  /\ queue # << >>
  /\ queue' = Tail(queue)
  /\ served' = Append(served, Head(queue))
  /\ UNCHANGED phase

(* The server takes the oldest request, cannot serve it and goes down. *)
Drop ==
  /\ phase = "up"
  /\ queue # << >>
  /\ queue' = Tail(queue)
  /\ phase' = "down"
  /\ UNCHANGED served

Stop ==
  /\ phase = "up"
  /\ phase' = "down"
  /\ UNCHANGED <<queue, served>>

Free ==
  /\ phase = "down"
  /\ phase' = "freed"
  /\ UNCHANGED <<queue, served>>

Next == (\E c \in Clients : Offer(c)) \/ Serve \/ Drop \/ Stop \/ Free

Spec == Init /\ [][Next]_cqVars
=============================================================================
