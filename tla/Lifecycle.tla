------------------------------ MODULE Lifecycle ------------------------------
(***************************************************************************)
(* Start, stop and restart of the server while clients connect (server.c,  *)
(* main and sig_free; connection.c, init_server_queue, connect,            *)
(* send_shm_request, fetch_shm_request and free_server_queue).             *)
(*                                                                         *)
(* The queue lives in a shared memory object.  The server that creates the *)
(* name fills the object step by step, and a client may open the name at   *)
(* any moment: before the object has a size, before its semaphores and its *)
(* counters are set.  The object outlives its name for those who mapped it.*)
(*                                                                         *)
(* A stop signal interrupts main anywhere after the handlers are           *)
(* installed; sig_free then waits for the mutex of the queue and removes   *)
(* the name.  A signal of the process group reaches the children of the    *)
(* server too: they inherited sig_free, and share the mutex.               *)
(*                                                                         *)
(* The semaphores inside the queue are the subject of ServerQueue: here a  *)
(* client writes and posts the mutex in one step, and so does the server.  *)
(***************************************************************************)
EXTENDS Integers, Sequences, FiniteSets

CONSTANTS
  Servers,    \* processes of the server, started and started again
  Clients,    \* processes of clients, each connects once
  Slots,      \* "slots" of conf/server.yml
  PageSlots,  \* the slots on the memory page of the header
  MaxObjects, \* how many queues are created (a bound)
  Faults      \* what may happen besides the timeouts

ASSUME SlotsAssumption == Slots \in Nat \ {0} /\ PageSlots \in Nat

ASSUME ClientsAssumption == IsFiniteSet(Clients)

ASSUME MaxObjectsAssumption == MaxObjects \in Nat

ASSUME FaultsAssumption == Faults \subseteq {"stop", "group", "kill", "no_memory", "no_thread"}

VARIABLES
  name,         \* the object that SHM_NAME designates, 0 when there is none
  object,       \* the shared memory objects created so far
  server,       \* where each server is: in main, or in sig_free
  own,          \* the object each server has created, 0 before
  interrupted,  \* where in main the signal found each server
  child,        \* the child that executes a command for each server
  client,       \* where each client is
  at,           \* the object each client has opened
  mapped,       \* the number of slots each client has mapped
  ready,        \* the objects whose initialisation has ended (history)
  early,        \* the clients that opened one before that (history)
  sent,         \* the requests written in each object, in order (history)
  served        \* the requests taken from each object, in order (history)

serverSide == <<server, own, interrupted, child>>
clientSide == <<client, at, mapped>>
history == <<ready, early, sent, served>>
vars == <<name, object, serverSide, clientSide, history>>

(* What init_server_queue does once the name exists, in order. *)
InitPC == <<"truncate", "mutex", "empty", "full", "slots", "counters">>

Initialising == {InitPC[i] : i \in DOMAIN InitPC}

(* main, with the handlers installed. *)
Armed == {"create", "serve", "lock", "fetch"} \cup Initialising

ServerPC == {"down", "died", "setup", "handling"} \cup Armed

ClientPC == {"idle", "opened", "mapped", "reserved", "locked", "written",
             "sent", "refused", "gave_up", "crashed"}

(* What mmap gives: a new object is filled with zeros. *)
Zero == [sized |-> FALSE, slots |-> 0, mutex |-> 0, empty |-> 0, full |-> 0,
         head |-> 0, tail |-> 0, ring |-> << >>]

Init ==
  /\ name = 0
  /\ object = << >>
  /\ server = [s \in Servers |-> "down"]
  /\ own = [s \in Servers |-> 0]
  /\ interrupted = [s \in Servers |-> "down"]
  /\ child = [s \in Servers |-> "none"]
  /\ client = [c \in Clients |-> "idle"]
  /\ at = [c \in Clients |-> 0]
  /\ mapped = [c \in Clients |-> 0]
  /\ ready = {} /\ early = {}
  /\ sent = << >> /\ served = << >>

ServerGoto(s, pc) == server' = [server EXCEPT ![s] = pc]

(* The process ends, by itself or without freeing what it has; a child goes
   on without it. *)
End(s) == ServerGoto(s, "down")

Die(s) == ServerGoto(s, "died")

-----------------------------------------------------------------------------
(* The server: main and init_server_queue *)

(* The list and the configuration are private to the process: until main has
   installed the handlers, a signal just ends it. *)
Start(s) ==
  /\ server[s] \in {"down", "died"} /\ child[s] = "none"
  /\ ServerGoto(s, "setup")
  /\ own' = [own EXCEPT ![s] = 0]
  /\ UNCHANGED <<name, object, interrupted, child, clientSide, history>>

Arm(s) ==
  /\ server[s] = "setup"
  /\ \/ ServerGoto(s, "create")
     \/ "stop" \in Faults /\ End(s)
  /\ UNCHANGED <<name, object, own, interrupted, child, clientSide, history>>

CreateObject(s) ==
  /\ server[s] = "create" /\ Len(object) < MaxObjects
  /\ object' = Append(object, Zero)
  /\ name' = Len(object')
  /\ own' = [own EXCEPT ![s] = name']
  /\ sent' = Append(sent, << >>) /\ served' = Append(served, << >>)
  /\ ServerGoto(s, InitPC[1])
  /\ UNCHANGED <<interrupted, child, clientSide, ready, early>>

\* Mutant of Create: without O_EXCL an object is created over a name in use.
CreateShared(s) == CreateObject(s)

(* shm_open with O_EXCL: main ends when the name exists. *)
Create(s) ==
  \/ name = 0 /\ CreateObject(s)
  \/ /\ server[s] = "create" /\ name # 0
     /\ End(s)
     /\ UNCHANGED <<name, object, own, interrupted, child, clientSide, history>>

(* What each step of init_server_queue stores in the object. *)
Stored(o, pc) ==
  CASE pc = "truncate" -> [o EXCEPT !.sized = TRUE]
    [] pc = "mutex"    -> [o EXCEPT !.mutex = 1]
    [] pc = "empty"    -> [o EXCEPT !.empty = Slots]
    [] pc = "full"     -> [o EXCEPT !.full = 0]
    [] pc = "slots"    -> [o EXCEPT !.slots = Slots]
    [] pc = "counters" -> [o EXCEPT !.head = 0, !.tail = 0]

InitStep(s) ==
  \E i \in DOMAIN InitPC :
    /\ server[s] = InitPC[i]
    /\ object' = [object EXCEPT ![own[s]] = Stored(@, InitPC[i])]
    /\ ServerGoto(s, IF i = Len(InitPC) THEN "serve" ELSE InitPC[i + 1])
    /\ ready' = IF i = Len(InitPC) THEN ready \cup {own[s]} ELSE ready
    /\ UNCHANGED <<name, own, interrupted, child, clientSide, early, sent, served>>

(* ftruncate or mmap fails: the name is removed. *)
InitFails(s) ==
  /\ "no_memory" \in Faults /\ server[s] \in {"truncate", "mutex"}
  /\ name' = 0
  /\ End(s)
  /\ UNCHANGED <<object, own, interrupted, child, clientSide, history>>

(* fetch_shm_request *)
WaitFull(s) ==
  /\ server[s] = "serve" /\ object[own[s]].full > 0
  /\ object' = [object EXCEPT ![own[s]].full = @ - 1]
  /\ ServerGoto(s, "lock")
  /\ UNCHANGED <<name, own, interrupted, child, clientSide, history>>

WaitMutex(s) ==
  /\ server[s] = "lock" /\ object[own[s]].mutex > 0
  /\ object' = [object EXCEPT ![own[s]].mutex = 0]
  /\ ServerGoto(s, "fetch")
  /\ UNCHANGED <<name, own, interrupted, child, clientSide, history>>

(* What the slot at tail holds: a request, or bytes nobody wrote. *)
Oldest(o) == IF o.tail + 1 \in DOMAIN o.ring THEN o.ring[o.tail + 1] ELSE "nobody"

TakeOldest(s, tail) ==
  LET o == object[own[s]] IN
  /\ server[s] = "fetch"
  /\ object' = [object EXCEPT ![own[s]] =
                  [o EXCEPT !.tail = tail, !.mutex = 1, !.empty = @ + 1]]
  /\ served' = [served EXCEPT ![own[s]] = Append(@, Oldest(o))]
  /\ UNCHANGED <<name, own, interrupted, clientSide, ready, early, sent>>

\* Mutant of Fetch: the tail does not wrap.
FetchNoWrap(s) ==
  /\ TakeOldest(s, object[own[s]].tail + 1)
  /\ ServerGoto(s, "serve")
  /\ UNCHANGED child

\* Mutant of Fetch: the tail stays where it is.
FetchKeepsTail(s) ==
  /\ TakeOldest(s, object[own[s]].tail)
  /\ ServerGoto(s, "serve")
  /\ UNCHANGED child

(* allocate_request_ressources, then the posts.  A thread of the client may
   have a child from then on.  When there is no memory for the thread, main
   returns and leaves the name behind. *)
Fetch(s) ==
  /\ TakeOldest(s, (object[own[s]].tail + 1) % object[own[s]].slots)
  /\ \/ ServerGoto(s, "serve") /\ child' = [child EXCEPT ![s] = "running"]
     \/ "no_thread" \in Faults /\ Die(s) /\ UNCHANGED child

ChildExit(s) ==
  /\ child[s] = "running"
  /\ child' = [child EXCEPT ![s] = "none"]
  /\ UNCHANGED <<name, object, server, own, interrupted, clientSide, history>>

-----------------------------------------------------------------------------
(* The signals *)

Handle(s) ==
  /\ server[s] \in Armed
  /\ interrupted' = [interrupted EXCEPT ![s] = server[s]]
  /\ ServerGoto(s, "handling")
  /\ UNCHANGED <<name, object, own, clientSide, history>>

(* A stop signal to the server, or to its process group. *)
Stop(s) ==
  \/ "stop" \in Faults /\ Handle(s) /\ UNCHANGED child
  \/ /\ "group" \in Faults /\ Handle(s)
     /\ child' = [child EXCEPT ![s] = IF @ = "running" THEN "handling" ELSE @]

Kill(s) ==
  /\ "kill" \in Faults /\ server[s] \notin {"down", "died"}
  /\ Die(s)
  /\ UNCHANGED <<name, object, own, interrupted, child, clientSide, history>>

(* main has not stored the address of the queue yet: sig_free passes NULL to
   free_server_queue, which dereferences it. *)
FreeNull(s) ==
  /\ server[s] = "handling" /\ interrupted[s] \in {"create"} \cup Initialising
  /\ Die(s)
  /\ UNCHANGED <<name, object, own, interrupted, child, clientSide, history>>

(* free_server_queue takes the mutex and never posts it. *)
FreeServerQueue(s) ==
  /\ object[own[s]].mutex > 0
  /\ object' = [object EXCEPT ![own[s]].mutex = 0]
  /\ name' = 0

SigFree(s) ==
  \/ FreeNull(s)
  \/ /\ server[s] = "handling" /\ interrupted[s] \in {"serve", "lock", "fetch"}
     /\ FreeServerQueue(s)
     /\ End(s)
     /\ UNCHANGED <<own, interrupted, child, clientSide, history>>

ChildSigFree(s) ==
  /\ child[s] = "handling"
  /\ FreeServerQueue(s)
  /\ child' = [child EXCEPT ![s] = "none"]
  /\ UNCHANGED <<server, own, interrupted, clientSide, history>>

-----------------------------------------------------------------------------
(* The clients: connect and send_shm_request *)

ClientGoto(c, pc) == client' = [client EXCEPT ![c] = pc]

Open(c) ==
  /\ client[c] = "idle"
  /\ IF name = 0
       THEN ClientGoto(c, "refused") /\ UNCHANGED <<at, early>>
       ELSE /\ ClientGoto(c, "opened")
            /\ at' = [at EXCEPT ![c] = name]
            /\ early' = IF name \in ready THEN early ELSE early \cup {c}
  /\ UNCHANGED <<name, object, serverSide, mapped, ready, sent, served>>

\* Mutant of MapQueue: only the header is mapped.
MapHeader(c) ==
  /\ client[c] = "opened"
  /\ ClientGoto(c, "mapped")
  /\ UNCHANGED <<name, object, serverSide, at, mapped, history>>

(* Reading the header of an object without a size is a bus error. *)
MapQueue(c) ==
  /\ client[c] = "opened"
  /\ IF object[at[c]].sized
       THEN ClientGoto(c, "mapped") /\ mapped' = [mapped EXCEPT ![c] = object[at[c]].slots]
       ELSE ClientGoto(c, "crashed") /\ UNCHANGED mapped
  /\ UNCHANGED <<name, object, serverSide, at, history>>

WaitEmpty(c) ==
  /\ client[c] = "mapped" /\ object[at[c]].empty > 0
  /\ object' = [object EXCEPT ![at[c]].empty = @ - 1]
  /\ ClientGoto(c, "reserved")
  /\ UNCHANGED <<name, serverSide, at, mapped, history>>

Lock(c) ==
  /\ client[c] = "reserved" /\ object[at[c]].mutex > 0
  /\ object' = [object EXCEPT ![at[c]].mutex = 0]
  /\ ClientGoto(c, "locked")
  /\ UNCHANGED <<name, serverSide, at, mapped, history>>

Timeout(c) ==
  /\ client[c] \in {"mapped", "reserved"}
  /\ ClientGoto(c, "gave_up")
  /\ UNCHANGED <<name, object, serverSide, at, mapped, history>>

(* Nothing is mapped there, or the counters are taken modulo 0: the client
   ends with the mutex. *)
Faulty(c) ==
  \/ object[at[c]].slots = 0
  \/ object[at[c]].head >= mapped[c] /\ object[at[c]].head >= PageSlots

WriteRequest(c) ==
  LET o == object[at[c]] IN
  /\ client[c] = "locked"
  /\ IF Faulty(c)
       THEN ClientGoto(c, "crashed") /\ UNCHANGED <<object, sent>>
       ELSE /\ ClientGoto(c, "written")
            /\ object' = [object EXCEPT ![at[c]] =
                 [@ EXCEPT !.head = (o.head + 1) % o.slots, !.mutex = 1,
                           !.ring = [i \in 1 .. Slots |->
                                       IF i = o.head + 1 THEN c
                                       ELSE IF i \in DOMAIN o.ring THEN o.ring[i] ELSE "nobody"]]]
            /\ sent' = [sent EXCEPT ![at[c]] = Append(@, c)]
  /\ UNCHANGED <<name, serverSide, at, mapped, ready, early, served>>

PostFull(c) ==
  /\ client[c] = "written"
  /\ object' = [object EXCEPT ![at[c]].full = @ + 1]
  /\ ClientGoto(c, "sent")
  /\ UNCHANGED <<name, serverSide, at, mapped, history>>

-----------------------------------------------------------------------------
ServerStep(s) ==
  \/ Arm(s) \/ Create(s) \/ InitStep(s) \/ WaitFull(s) \/ WaitMutex(s) \/ Fetch(s)
  \/ SigFree(s)

ChildStep(s) == ChildExit(s) \/ ChildSigFree(s)

Connect(c) ==
  \/ MapQueue(c) \/ WaitEmpty(c) \/ Lock(c) \/ Timeout(c) \/ WriteRequest(c) \/ PostFull(c)

Next ==
  \/ \E s \in Servers :
       Start(s) \/ InitFails(s) \/ Stop(s) \/ Kill(s) \/ ServerStep(s) \/ ChildStep(s)
  \/ \E c \in Clients : Open(c) \/ Connect(c)

(* Every process that can take a step is scheduled, and deadlines pass.
   Nobody has to start anything or to send signals. *)
Fairness ==
  /\ \A s \in Servers : WF_vars(ServerStep(s)) /\ WF_vars(ChildStep(s))
  /\ \A c \in Clients : WF_vars(Connect(c))

Spec == Init /\ [][Next]_vars

FairSpec == Spec /\ Fairness

-----------------------------------------------------------------------------
Object == [sized : BOOLEAN, slots : {0, Slots}, mutex : 0 .. 1, empty : 0 .. Slots,
           full : 0 .. Cardinality(Clients), head : 0 .. Slots - 1, tail : 0 .. Slots - 1,
           ring : {<< >>} \cup [1 .. Slots -> Clients \cup {"nobody"}]]

TypeOK ==
  /\ name \in 0 .. Len(object)
  /\ object \in Seq(Object) /\ Len(object) <= MaxObjects
  /\ server \in [Servers -> ServerPC]
  /\ own \in [Servers -> 0 .. Len(object)]
  /\ interrupted \in [Servers -> {"down"} \cup Armed]
  /\ child \in [Servers -> {"none", "running", "handling"}]
  /\ client \in [Clients -> ClientPC]
  /\ at \in [Clients -> 0 .. Len(object)]
  /\ mapped \in [Clients -> {0, Slots}]
  /\ ready \subseteq 1 .. Len(object)
  /\ early \subseteq Clients
  /\ sent \in Seq(Seq(Clients)) /\ served \in Seq(Seq(Clients \cup {"nobody"}))

Serving(s) == server[s] \in {"serve", "lock", "fetch"} \cup Initialising

(* One server at a time serves, and clients that connect find its queue,
   however servers are started, refused, stopped and killed
   (connection.c:56, 91-102, 154-174). *)
OneServer == \A s \in Servers : Serving(s) => name = own[s] /\ \A t \in Servers \ {s} : ~Serving(t)

(* A client that connects once the queue is initialised maps all of it: only
   one that came before may be ended by a fault (connection.c:106-142). *)
OnlyEarlyCrash == \A c \in Clients : client[c] = "crashed" => c \in early

Early(i) == \E c \in early : at[c] = i

(* The server takes the requests that were written in its own queue, in
   order, never those of a queue of an earlier server.  Only a client that
   writes before the counters are set to zero breaks it (connection.c:85-88,
   214, 240-242). *)
ServesSent == \A i \in DOMAIN object : ~Early(i) => \E n \in 0 .. Len(sent[i]) : served[i] = SubSeq(sent[i], 1, n)

(* "Libere les ressources du serveur en cas d'interruption par un signal"
   (server.c:62): the server ends and the name of its queue is free. *)
StopFrees == \A s \in Servers : server[s] = "handling" ~> (server[s] = "down" /\ name # own[s])

=============================================================================
