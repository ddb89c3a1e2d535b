----------------------------- MODULE ServerQueue -----------------------------
(***************************************************************************)
(* The queue of connection requests in shared memory                       *)
(* (libs/connection/connection.c, struct server_queue): a ring buffer      *)
(* guarded by three process-shared semaphores.  The clients execute        *)
(* send_shm_request, each once; the main thread of the server executes     *)
(* fetch_shm_request in a loop (server.c, main) and, when a signal stops   *)
(* it, free_server_queue in the handler sig_free.                          *)
(*                                                                         *)
(* A step is one call on a semaphore, or the code between two of them.     *)
(* The deadline of sem_timedwait passes at any time a semaphore is 0.      *)
(***************************************************************************)
EXTENDS Integers, Sequences, FiniteSets

CONSTANTS
  Clients,    \* the client processes
  Slots,      \* nb_slots
  NoRequest,  \* what a slot holds before its first use
  Faults      \* the faults of the environment that may occur

ASSUME SlotsAssumption == Slots \in Nat \ {0}

ASSUME ClientsAssumption == IsFiniteSet(Clients) /\ NoRequest \notin Clients

ASSUME FaultsAssumption == Faults \subseteq {"kill", "stop", "no_memory", "no_thread"}

VARIABLES
  mutex, empty, full,   \* the values of the semaphores
  length, head, tail,   \* the counters of the ring
  buffer,               \* the slots of the ring
  client,               \* where each client is in send_shm_request
  killed,               \* the clients that died inside send_shm_request
  server,               \* where the main thread is in fetch_shm_request
  r,                    \* what apply returned
  handler,              \* the progress of sig_free: "none", "freeing", "stopped"
  served                \* the requests given a thread, in order (history)

semaphores == <<mutex, empty, full>>
ring == <<length, head, tail, buffer>>
main == <<server, r, handler, served>>
vars == <<semaphores, ring, client, killed, main>>

Slot == 0 .. Slots - 1

ClientPC == {"wait_empty", "wait_mutex", "enqueue", "post_mutex", "post_full",
             "sent", "full", "busy"}

ServerPC == {"wait_full", "wait_mutex", "apply", "advance", "post_mutex",
             "post_empty", "exited"}

\* Mutant of Succ: the ring does not wrap around.
SuccNoWrap(i) == i + 1

Succ(i) == (i + 1) % Slots

Init ==
  /\ mutex = 1 /\ empty = Slots /\ full = 0
  /\ length = 0 /\ head = 0 /\ tail = 0
  /\ buffer = [i \in Slot |-> NoRequest]
  /\ client = [c \in Clients |-> "wait_empty"]
  /\ killed = {}
  /\ server = "wait_full" /\ r = "ok" /\ handler = "none"
  /\ served = << >>

-----------------------------------------------------------------------------
(* send_shm_request, by client c *)

At(c, pc) == c \notin killed /\ client[c] = pc

Goto(c, pc) == client' = [client EXCEPT ![c] = pc]

\* Mutant of WaitEmpty: sees that a slot is free and does not reserve it.
WaitEmptyNoReserve(c) ==
  /\ At(c, "wait_empty")
  /\ empty > 0
  /\ Goto(c, "wait_mutex")
  /\ UNCHANGED <<semaphores, ring, killed, main>>

WaitEmpty(c) ==
  /\ At(c, "wait_empty")
  /\ empty > 0
  /\ empty' = empty - 1
  /\ Goto(c, "wait_mutex")
  /\ UNCHANGED <<mutex, full, ring, killed, main>>

(* ETIMEDOUT: send_shm_request returns 0. *)
TimeoutEmpty(c) ==
  /\ At(c, "wait_empty")
  /\ empty = 0
  /\ Goto(c, "full")
  /\ UNCHANGED <<semaphores, ring, killed, main>>

WaitMutex(c) ==
  /\ At(c, "wait_mutex")
  /\ mutex > 0
  /\ mutex' = mutex - 1
  /\ Goto(c, "enqueue")
  /\ UNCHANGED <<empty, full, ring, killed, main>>

\* Mutant of TimeoutMutex: sem_wait instead of sem_timedwait.
TimeoutMutexNever(c) == FALSE

(* ETIMEDOUT: send_shm_request returns 0 and keeps the unit of empty. *)
TimeoutMutex(c) ==
  /\ At(c, "wait_mutex")
  /\ mutex = 0
  /\ Goto(c, "busy")
  /\ UNCHANGED <<semaphores, ring, killed, main>>

Enqueue(c) ==
  /\ At(c, "enqueue")
  /\ buffer' = [buffer EXCEPT ![head] = c]
  /\ head' = Succ(head)
  /\ length' = length + 1
  /\ Goto(c, "post_mutex")
  /\ UNCHANGED <<semaphores, tail, killed, main>>

PostMutex(c) ==
  /\ At(c, "post_mutex")
  /\ mutex' = mutex + 1
  /\ Goto(c, "post_full")
  /\ UNCHANGED <<empty, full, ring, killed, main>>

PostFull(c) ==
  /\ At(c, "post_full")
  /\ full' = full + 1
  /\ Goto(c, "sent")
  /\ UNCHANGED <<mutex, empty, ring, killed, main>>

Send(c) ==
  \/ WaitEmpty(c) \/ TimeoutEmpty(c)
  \/ WaitMutex(c) \/ TimeoutMutex(c)
  \/ Enqueue(c) \/ PostMutex(c) \/ PostFull(c)

(* A signal ends the client: by default, or in sig_disconnect, which never
   returns to the code it interrupted.  No semaphore is given back. *)
Kill(c) ==
  /\ "kill" \in Faults
  /\ c \notin killed
  /\ client[c] \notin {"sent", "full", "busy"}
  /\ killed' = killed \cup {c}
  /\ UNCHANGED <<semaphores, ring, client, main>>

-----------------------------------------------------------------------------
(* fetch_shm_request, by the main thread of the server *)

Running(pc) == handler = "none" /\ server = pc

\* Mutant of ServerWaitFull: sees an announced request and does not consume
\* the announcement.
ServerWaitFullNoConsume ==
  /\ Running("wait_full")
  /\ full > 0
  /\ server' = "wait_mutex"
  /\ UNCHANGED <<semaphores, ring, client, killed, r, handler, served>>

ServerWaitFull ==
  /\ Running("wait_full")
  /\ full > 0
  /\ full' = full - 1
  /\ server' = "wait_mutex"
  /\ UNCHANGED <<mutex, empty, ring, client, killed, r, handler, served>>

ServerWaitMutex ==
  /\ Running("wait_mutex")
  /\ mutex > 0
  /\ mutex' = mutex - 1
  /\ server' = "apply"
  /\ UNCHANGED <<empty, full, ring, client, killed, r, handler, served>>

\* Mutant of Apply: takes the request at head - 1, the most recent one.
ApplyNewest ==
  /\ Running("apply")
  /\ r' \in {"ok"} \cup (Faults \cap {"no_memory", "no_thread"})
  /\ served' = IF r' = "ok"
                 THEN Append(served, buffer[(head + Slots - 1) % Slots])
                 ELSE served
  /\ server' = "advance"
  /\ UNCHANGED <<semaphores, ring, client, killed, handler>>

(* apply is allocate_request_ressources: it lists the client and creates its
   thread, or fails for want of memory or of a thread. *)
Apply ==
  /\ Running("apply")
  /\ r' \in {"ok"} \cup (Faults \cap {"no_memory", "no_thread"})
  /\ served' = IF r' = "ok" THEN Append(served, buffer[tail]) ELSE served
  /\ server' = "advance"
  /\ UNCHANGED <<semaphores, ring, client, killed, handler>>

\* Mutant of Advance: length is not decremented.
AdvanceKeepLength ==
  /\ Running("advance")
  /\ tail' = Succ(tail)
  /\ server' = "post_mutex"
  /\ UNCHANGED <<semaphores, length, head, buffer, client, killed, r, handler, served>>

Advance ==
  /\ Running("advance")
  /\ tail' = Succ(tail)
  /\ length' = length - 1
  /\ server' = "post_mutex"
  /\ UNCHANGED <<semaphores, head, buffer, client, killed, r, handler, served>>

\* Mutant of ServerPostMutex: the mutex is not given back.
ServerPostMutexForgotten ==
  /\ Running("post_mutex")
  /\ server' = "post_empty"
  /\ UNCHANGED <<semaphores, ring, client, killed, r, handler, served>>

ServerPostMutex ==
  /\ Running("post_mutex")
  /\ mutex' = mutex + 1
  /\ server' = "post_empty"
  /\ UNCHANGED <<empty, full, ring, client, killed, r, handler, served>>

(* The loop of main goes on, or ends the process when apply had failed: then
   nothing is freed. *)
ServerPostEmpty ==
  /\ Running("post_empty")
  /\ empty' = empty + 1
  /\ server' = IF r = "ok" THEN "wait_full" ELSE "exited"
  /\ UNCHANGED <<mutex, full, ring, client, killed, r, handler, served>>

Fetch ==
  \/ ServerWaitFull \/ ServerWaitMutex \/ Apply \/ Advance
  \/ ServerPostMutex \/ ServerPostEmpty

(* SIGINT, SIGQUIT or SIGTERM: sig_free runs on the main thread, wherever it
   is, and ends the process; the code it interrupted never resumes. *)
SigFree ==
  /\ "stop" \in Faults
  /\ handler = "none" /\ server # "exited"
  /\ handler' = "freeing"
  /\ UNCHANGED <<semaphores, ring, client, killed, server, r, served>>

(* free_server_queue: takes the mutex for good, unmaps and unlinks. *)
FreeServerQueue ==
  /\ handler = "freeing"
  /\ mutex > 0
  /\ mutex' = mutex - 1
  /\ handler' = "stopped"
  /\ UNCHANGED <<empty, full, ring, client, killed, server, r, served>>

-----------------------------------------------------------------------------
Next ==
  \/ \E c \in Clients : Send(c) \/ Kill(c)
  \/ Fetch
  \/ SigFree
  \/ FreeServerQueue

(* The scheduler runs every process that can take a step; a process waiting
   for a semaphore can, since its deadline passes.  No fault has to occur. *)
Fairness ==
  /\ \A c \in Clients : WF_vars(Send(c))
  /\ WF_vars(Fetch)
  /\ WF_vars(FreeServerQueue)

Spec == Init /\ [][Next]_vars

FairSpec == Spec /\ Fairness

-----------------------------------------------------------------------------
(* The state of the ring and of the semaphores, seen from the processes.
   A killed client, or a main thread under sig_free, stays where it was. *)

InSend(pcs) == {c \in Clients : client[c] \in pcs}

ServerIn(pcs) == IF server \in pcs THEN 1 ELSE 0

(* Took a unit of empty and has not turned it into a unit of full. *)
Reservations == InSend({"wait_mutex", "enqueue", "post_mutex", "post_full", "busy"})

(* Put a request in the ring and has not announced it. *)
Unannounced == InSend({"post_mutex", "post_full"})

InCriticalSection == InSend({"enqueue", "post_mutex"})

TypeOK ==
  /\ mutex \in Nat /\ empty \in Nat /\ full \in Nat
  /\ length \in Nat /\ head \in Slot /\ tail \in Slot
  /\ buffer \in [Slot -> Clients \cup {NoRequest}]
  /\ client \in [Clients -> ClientPC]
  /\ killed \subseteq Clients
  /\ server \in ServerPC
  /\ r \in {"ok", "no_memory", "no_thread"}
  /\ handler \in {"none", "freeing", "stopped"}
  /\ served \in Seq(Clients \cup {NoRequest})

(* Every slot is free (empty), announced (full), reserved by a client or in
   the hands of the server. *)
SlotsConserved ==
  empty + full + Cardinality(Reservations)
    + ServerIn({"wait_mutex", "apply", "advance", "post_mutex", "post_empty"})
  = Slots

(* length counts the requests announced, the ones still to be announced and
   the one the server is about to remove. *)
LengthCounts ==
  length = full + Cardinality(Unannounced)
             + ServerIn({"wait_mutex", "apply", "advance"})

(* The mutex is free, or one process has it (for good once the queue is
   freed). *)
MutexConserved ==
  mutex + Cardinality(InCriticalSection)
    + ServerIn({"apply", "advance", "post_mutex"})
    + (IF handler = "stopped" THEN 1 ELSE 0)
  = 1

(* Where the k-th oldest request of the ring is, from 0. *)
Position(k) == IF tail + k < Slots THEN tail + k ELSE tail + k - Slots

(* head is length slots after tail, and every slot in between was filled. *)
RingConsistent ==
  /\ length \in 0 .. Slots
  /\ head = IF length = Slots THEN tail ELSE Position(length)
  /\ \A k \in 0 .. length - 1 : buffer[Position(k)] \in Clients

(* The invariant that makes the ring safe, in the parts the proof uses. *)
QueueInv == SlotsConserved /\ LengthCounts /\ MutexConserved /\ RingConsistent

-----------------------------------------------------------------------------
(* Properties *)

(* A client that is about to write has a slot that holds no waiting request,
   and the server that is about to read has a request to read: the counting
   of the semaphores protects the ring (connection.c:213-216, 239-243). *)
NoOverrun ==
  /\ \A c \in Clients : client[c] = "enqueue" =>
       /\ length < Slots
       /\ \A k \in 0 .. length - 1 : Position(k) # head
  /\ server = "apply" => length > 0 /\ buffer[tail] \in Clients

(* No connection request gets two threads: the slots are never cleared, so a
   server that fetched once too often would serve an old request again
   (connection.c:232-252). *)
ServedOnce ==
  \A i, j \in DOMAIN served : served[i] = served[j] => i = j

(* The requests the server has not taken yet, oldest first.  The request it
   holds stops waiting when apply returns, one step before tail moves. *)
Waiting ==
  IF server = "advance"
    THEN [k \in 1 .. length - 1 |-> buffer[Position(k)]]
    ELSE [k \in 1 .. length |-> buffer[Position(k - 1)]]

Phase ==
  CASE handler = "stopped" -> "freed"
    [] handler = "freeing" -> "down"
    [] OTHER -> IF r = "ok" THEN "up" ELSE "down"

CQ == INSTANCE ConnectionQueue WITH queue <- Waiting, phase <- Phase

(* The ring with its semaphores is a bounded first-in first-out queue: no
   request is lost, duplicated, reordered or overwritten, and none enters
   once the queue is freed. *)
ImplementsConnectionQueue == CQ!Spec

(* send_shm_request returns: whatever the other clients and the server do,
   even when one of them died with the mutex, the deadline ends the two
   waits (connection.c:191-202). *)
EverySendReturns ==
  \A c \in Clients :
    c \notin killed ~> (client[c] \in {"sent", "full", "busy"} \/ c \in killed)

(* A request that send_shm_request reported as sent is served in the end,
   unless the server ends, or a client died between its wait for the mutex
   and its post of full: that client keeps the mutex, or leaves a request
   nobody announces, behind which the last one sent waits for ever
   (connection.c:197-223). *)
EverySentIsServed ==
  \A c \in Clients :
    client[c] = "sent" ~>
      \/ c \in CQ!Elements(served)
      \/ \E d \in killed : client[d] \in {"enqueue", "post_mutex", "post_full"}
      \/ r # "ok" \/ handler # "none"

(* A stop signal that finds the main thread out of the critical section frees
   the queue: the handler gets the mutex from the last of the clients that
   compete for it, unless one died with it.  In the critical section, main
   holds the mutex that its own handler waits for
   (connection.c:158-170, 197-218, 236-245). *)
StopGetsMutex ==
  handler = "freeing" /\ server \notin {"apply", "advance", "post_mutex"}
    ~> handler = "stopped" \/ \E d \in killed : client[d] \in {"enqueue", "post_mutex"}

(* "La file contiendra max_slot slots" (connection.h:45): when nobody is
   inside send_shm_request or fetch_shm_request, every slot is free or holds
   an announced request. *)
CapacityKept ==
  (/\ server = "wait_full"
   /\ \A c \in Clients : client[c] \in {"wait_empty", "sent", "full", "busy"})
  => empty + full = Slots

=============================================================================
