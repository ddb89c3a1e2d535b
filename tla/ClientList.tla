----------------------------- MODULE ClientList ------------------------------
(***************************************************************************)
(* The list of connected clients (libs/list/list.c), as the server uses it *)
(* (server.c): the main thread adds a client and creates its thread, that  *)
(* thread removes the client when its session is over, and sig_free, on    *)
(* the main thread, signals every client of the list and disposes of it.   *)
(*                                                                         *)
(* A client stands for its cell: the cells hold distinct pids, the keys    *)
(* by which list_remove compares.  Only sig_free reads freed cells, and    *)
(* it may find anything there: the freed cell it finds itself at stands    *)
(* for any memory that is not a cell of the list.                          *)
(*                                                                         *)
(* All that main does here it does in apply, called by fetch_shm_request,  *)
(* which holds the mutex of the connection queue around it                 *)
(* (connection.c:236-245).                                                 *)
(***************************************************************************)
EXTENDS Integers, Sequences, FiniteSets

CONSTANTS
  Clients,  \* the clients, hence the cells
  Null,     \* the null pointer
  Faults    \* the faults of the environment that may occur

ASSUME ClientsAssumption == IsFiniteSet(Clients) /\ Null \notin Clients

ASSUME FaultsAssumption ==
  Faults \subseteq {"stop", "no_memory", "no_thread", "client_dies"}

VARIABLES
  mutex, head, tail, size,  \* the list
  next,                     \* next of each cell
  allocated,                \* the cells that are allocated
  main,                     \* where the main thread is when no signal came
  adding,                   \* the client it adds
  thread,                   \* where the thread of each client is
  cell, prev, i,            \* the variables of list_remove under the mutex
  handler,                  \* where sig_free is
  walk,                     \* the cell that list_apply is at
  signalled,                \* the clients that were sent SIGUSR1
  strayed,                  \* list_apply has read a freed cell
  orphaned                  \* a client died with the mutex of the queue

list == <<mutex, head, tail, size, next, allocated>>
locals == <<cell, prev, i>>
signal == <<handler, walk, signalled, strayed, orphaned>>
vars == <<list, main, adding, thread, locals, signal>>

Pointer == Clients \cup {Null}

MainPC == {"fetch", "wait", "malloc", "link", "post", "create", "return",
           "failed", "leaving", "exited"}

(* fetch_shm_request holds the mutex of the connection queue. *)
QueueLocked == main \notin {"fetch", "leaving", "exited"}

ThreadPC == {"none", "serving", "wait", "scan", "free", "post", "done"}

HandlerPC == {"none", "signal", "advance", "wait", "disposed", "exited", "crashed"}

Init ==
  /\ mutex = 1 /\ head = Null /\ tail = Null /\ size = 0
  /\ next = [c \in Clients |-> Null]
  /\ allocated = {}
  /\ main = "fetch" /\ adding = Null
  /\ thread = [c \in Clients |-> "none"]
  /\ cell = Null /\ prev = Null /\ i = 0
  /\ handler = "none" /\ walk = Null /\ signalled = {}
  /\ strayed = FALSE /\ orphaned = FALSE

(* The end of the process is the end of all its threads. *)
Alive == main # "exited" /\ handler \notin {"exited", "crashed"}

-----------------------------------------------------------------------------
(* The main thread: allocate_request_ressources and list_add *)

Main(pc) == handler = "none" /\ main = pc

(* Once a request came, fetch_shm_request takes the mutex of the queue. *)
Fetch(c) ==
  /\ Main("fetch")
  /\ ~orphaned
  /\ thread[c] = "none"
  /\ adding' = c
  /\ main' = "wait"
  /\ UNCHANGED <<list, thread, locals, signal>>

AddWait ==
  /\ Main("wait")
  /\ mutex > 0
  /\ mutex' = mutex - 1
  /\ main' = "malloc"
  /\ UNCHANGED <<head, tail, size, next, allocated, adding, thread, locals, signal>>

AddMalloc ==
  /\ Main("malloc")
  /\ allocated' = allocated \cup {adding}
  /\ main' = "link"
  /\ UNCHANGED <<mutex, head, tail, size, next, adding, thread, locals, signal>>

(* list_add returns NULL and keeps the mutex of the list. *)
AddNoMemory ==
  /\ "no_memory" \in Faults
  /\ Main("malloc")
  /\ main' = "failed"
  /\ UNCHANGED <<list, adding, thread, locals, signal>>

\* Mutant of AddLink: every cell is put at the head.
AddLinkAtHead ==
  /\ Main("link")
  /\ head' = adding
  /\ next' = [next EXCEPT ![adding] = head]
  /\ tail' = IF size = 0 THEN adding ELSE tail
  /\ size' = size + 1
  /\ main' = "post"
  /\ UNCHANGED <<mutex, allocated, adding, thread, locals, signal>>

AddLink ==
  /\ Main("link")
  /\ IF size = 0
       THEN head' = adding /\ next' = [next EXCEPT ![adding] = Null]
       ELSE next' = [next EXCEPT ![adding] = Null, ![tail] = adding] /\ UNCHANGED head
  /\ tail' = adding
  /\ size' = size + 1
  /\ main' = "post"
  /\ UNCHANGED <<mutex, allocated, adding, thread, locals, signal>>

\* Mutant of AddPost: the mutex is not given back.
AddPostForgotten ==
  /\ Main("post")
  /\ main' = "create"
  /\ UNCHANGED <<list, adding, thread, locals, signal>>

AddPost ==
  /\ Main("post")
  /\ mutex' = mutex + 1
  /\ main' = "create"
  /\ UNCHANGED <<head, tail, size, next, allocated, adding, thread, locals, signal>>

(* pthread_create *)
Create ==
  /\ Main("create")
  /\ \/ thread' = [thread EXCEPT ![adding] = "serving"] /\ main' = "return"
     \/ "no_thread" \in Faults /\ main' = "failed" /\ UNCHANGED thread
  /\ UNCHANGED <<list, adding, locals, signal>>

(* The end of fetch_shm_request: the mutex of the queue is given back. *)
QueuePost ==
  /\ \/ Main("return") /\ main' = "fetch"
     \/ Main("failed") /\ main' = "leaving"
  /\ UNCHANGED <<list, adding, thread, locals, signal>>

(* main returns EXIT_FAILURE when apply failed. *)
MainExit ==
  /\ Main("leaving")
  /\ main' = "exited"
  /\ UNCHANGED <<list, adding, thread, locals, signal>>

Add ==
  \/ AddWait \/ AddMalloc \/ AddNoMemory \/ AddLink \/ AddPost \/ Create
  \/ QueuePost \/ MainExit

(* The clients take the mutex of the queue too, and give it back; one may die
   in between. *)
ClientDies ==
  /\ "client_dies" \in Faults
  /\ Alive /\ ~QueueLocked
  /\ orphaned' = TRUE
  /\ UNCHANGED <<list, main, adding, thread, locals, handler, walk, signalled, strayed>>

-----------------------------------------------------------------------------
(* The thread of client c: handle_request and list_remove *)

At(c, pc) == Alive /\ thread[c] = pc

ThreadGoto(c, pc) == thread' = [thread EXCEPT ![c] = pc]

(* The session of the client is over. *)
EndSession(c) ==
  /\ At(c, "serving")
  /\ ThreadGoto(c, "wait")
  /\ UNCHANGED <<list, main, adding, locals, signal>>

\* Mutant of RemoveWait: the mutex is seen free and not taken.
RemoveWaitNoLock(c) ==
  /\ At(c, "wait")
  /\ mutex > 0
  /\ cell' = head /\ prev' = Null /\ i' = 1
  /\ ThreadGoto(c, "scan")
  /\ UNCHANGED <<list, main, adding, signal>>

RemoveWait(c) ==
  /\ At(c, "wait")
  /\ mutex > 0
  /\ mutex' = mutex - 1
  /\ cell' = head /\ prev' = Null /\ i' = 1
  /\ ThreadGoto(c, "scan")
  /\ UNCHANGED <<head, tail, size, next, allocated, main, adding, signal>>

\* Mutant of RemoveNext: the loop ends one cell too early.
RemoveNextStopsEarly(c) ==
  /\ At(c, "scan")
  /\ cell # c
  /\ IF next[cell] = Null \/ next[next[cell]] = Null
       THEN ThreadGoto(c, "post") /\ UNCHANGED locals
       ELSE prev' = cell /\ cell' = next[cell] /\ i' = i + 1 /\ UNCHANGED thread
  /\ UNCHANGED <<list, main, adding, signal>>

RemoveNext(c) ==
  /\ At(c, "scan")
  /\ cell # c
  /\ IF cell = Null
       THEN ThreadGoto(c, "post") /\ UNCHANGED locals
       ELSE prev' = cell /\ cell' = next[cell] /\ i' = i + 1 /\ UNCHANGED thread
  /\ UNCHANGED <<list, main, adding, signal>>

\* Mutant of RemoveUnlink: tail is not moved when the last cell goes.
RemoveUnlinkKeepsTail(c) ==
  /\ At(c, "scan")
  /\ cell = c
  /\ IF prev = Null
       THEN head' = next[c] /\ UNCHANGED next
       ELSE next' = [next EXCEPT ![prev] = next[c]] /\ UNCHANGED head
  /\ ThreadGoto(c, "free")
  /\ UNCHANGED <<mutex, tail, size, allocated, main, adding, locals, signal>>

RemoveUnlink(c) ==
  /\ At(c, "scan")
  /\ cell = c
  /\ tail' = IF i = size THEN prev ELSE tail
  /\ IF prev = Null
       THEN head' = next[c] /\ UNCHANGED next
       ELSE next' = [next EXCEPT ![prev] = next[c]] /\ UNCHANGED head
  /\ ThreadGoto(c, "free")
  /\ UNCHANGED <<mutex, size, allocated, main, adding, locals, signal>>

\* Mutant of RemoveFree: the cell that follows is freed.
RemoveFreeNext(c) ==
  /\ At(c, "free")
  /\ allocated' = allocated \ {next[c]}
  /\ ThreadGoto(c, "post")
  /\ UNCHANGED <<mutex, head, tail, size, next, main, adding, locals, signal>>

RemoveFree(c) ==
  /\ At(c, "free")
  /\ allocated' = allocated \ {c}
  /\ ThreadGoto(c, "post")
  /\ UNCHANGED <<mutex, head, tail, size, next, main, adding, locals, signal>>

\* Mutant of RemovePost: the mutex is not given back.
RemovePostForgotten(c) ==
  /\ At(c, "post")
  /\ size' = IF cell = c THEN size - 1 ELSE size
  /\ ThreadGoto(c, "done")
  /\ UNCHANGED <<mutex, head, tail, next, allocated, main, adding, locals, signal>>

(* size counts the cell out when the loop found it. *)
RemovePost(c) ==
  /\ At(c, "post")
  /\ size' = IF cell = c THEN size - 1 ELSE size
  /\ mutex' = mutex + 1
  /\ ThreadGoto(c, "done")
  /\ UNCHANGED <<head, tail, next, allocated, main, adding, locals, signal>>

Remove(c) ==
  RemoveWait(c) \/ RemoveNext(c) \/ RemoveUnlink(c) \/ RemoveFree(c) \/ RemovePost(c)

-----------------------------------------------------------------------------
(* sig_free: list_apply with free_online_clients, list_dispose, exit *)

Handler(pc) == handler = pc /\ Alive

(* SIGINT, SIGQUIT or SIGTERM, wherever the main thread is; list_apply starts
   at the head, without the mutex. *)
SigFree ==
  /\ "stop" \in Faults
  /\ handler = "none" /\ main # "exited"
  /\ walk' = head
  /\ handler' = IF head = Null THEN "wait" ELSE "signal"
  /\ UNCHANGED <<list, main, adding, thread, locals, signalled, strayed, orphaned>>

(* free_online_clients sends SIGUSR1 to the pid in the cell. *)
ApplySignal ==
  /\ Handler("signal")
  /\ walk \in allocated
  /\ signalled' = signalled \cup {walk}
  /\ handler' = "advance"
  /\ UNCHANGED <<list, main, adding, thread, locals, walk, strayed, orphaned>>

\* Mutant of ApplyAdvance: stops at the second cell.
ApplyAdvanceOnce ==
  /\ Handler("advance")
  /\ walk \in allocated
  /\ walk' = next[walk]
  /\ handler' = "wait"
  /\ UNCHANGED <<list, main, adding, thread, locals, signalled, strayed, orphaned>>

ApplyAdvance ==
  /\ Handler("advance")
  /\ walk \in allocated
  /\ walk' = next[walk]
  /\ handler' = IF walk' = Null THEN "wait" ELSE "signal"
  /\ UNCHANGED <<list, main, adding, thread, locals, signalled, strayed, orphaned>>

(* The same two steps at a freed cell: the pid is any, the next pointer is the
   old one, Null, or any other, and reading through them may end the process. *)
ApplyStray ==
  /\ Handler("signal") \/ Handler("advance")
  /\ walk \notin allocated
  /\ strayed' = TRUE
  /\ \/ handler' = "crashed" /\ UNCHANGED <<walk, signalled>>
     \/ /\ handler = "signal" /\ handler' = "advance"
        /\ \E s \in SUBSET Clients :
             Cardinality(s) <= 1 /\ signalled' = signalled \cup s
        /\ UNCHANGED walk
     \/ /\ handler = "advance"
        /\ walk' \in Pointer
        /\ handler' = IF walk' = Null THEN "wait" ELSE "signal"
        /\ UNCHANGED signalled
  /\ UNCHANGED <<list, main, adding, thread, locals, orphaned>>

(* list_dispose takes the mutex for good and frees every cell and the list. *)
Dispose ==
  /\ Handler("wait")
  /\ mutex > 0
  /\ mutex' = mutex - 1
  /\ allocated' = {} /\ head' = Null
  /\ handler' = "disposed"
  /\ UNCHANGED <<tail, size, next, main, adding, thread, locals, walk, signalled,
                 strayed, orphaned>>

(* free_server_queue waits for the mutex of the queue, which the main thread
   under the handler may hold and a dead client may have kept; then exit. *)
HandlerExit ==
  /\ Handler("disposed")
  /\ ~QueueLocked /\ ~orphaned
  /\ handler' = "exited"
  /\ UNCHANGED <<list, main, adding, thread, locals, walk, signalled, strayed, orphaned>>

Stop == ApplySignal \/ ApplyAdvance \/ ApplyStray \/ Dispose \/ HandlerExit

-----------------------------------------------------------------------------
Next ==
  \/ Add
  \/ ClientDies
  \/ SigFree
  \/ Stop
  \/ \E c \in Clients : Fetch(c) \/ EndSession(c) \/ Remove(c)

(* The scheduler runs every thread that can take a step.  No client has to
   come, nor its session to end. *)
Fairness ==
  /\ WF_vars(Add)
  /\ WF_vars(Stop)
  /\ \A c \in Clients : WF_vars(Remove(c))

Spec == Init /\ [][Next]_vars

FairSpec == Spec /\ Fairness

-----------------------------------------------------------------------------
TypeOK ==
  /\ mutex \in {0, 1}
  /\ head \in Pointer /\ tail \in Pointer /\ size \in 0 .. Cardinality(Clients)
  /\ next \in [Clients -> Pointer]
  /\ allocated \subseteq Clients
  /\ main \in MainPC /\ adding \in Pointer
  /\ thread \in [Clients -> ThreadPC]
  /\ cell \in Pointer /\ prev \in Pointer /\ i \in Nat
  /\ handler \in HandlerPC
  /\ walk \in Pointer
  /\ signalled \subseteq Clients
  /\ strayed \in BOOLEAN /\ orphaned \in BOOLEAN

(* The k-th cell from head, or Null past the end. *)
Cell[k \in 1 .. Cardinality(Clients) + 1] ==
  IF k = 1 THEN head ELSE IF Cell[k - 1] = Null THEN Null ELSE next[Cell[k - 1]]

(* The cells of the list, in order; a cycle would show as a list longer than
   there are cells. *)
Entries ==
  LET length == Cardinality({k \in DOMAIN Cell : Cell[k] # Null})
  IN [k \in 1 .. length |-> Cell[k]]

CR == INSTANCE ClientRegistry WITH entries <- Entries

Listed == CR!Elements(Entries)

(* The cells, head, tail, size and the chain of next are those of an
   insertion-ordered registry, although additions, removals and the signal
   handler are cut into steps (list.c:50-122, 138-157). *)
ImplementsClientRegistry == CR!Spec

(* When nobody has the mutex, size and tail agree with the chain that starts
   at head, and exactly its cells are allocated: nothing leaks, nothing
   dangles (list.c:69-75, 99-115). *)
ListWellFormed ==
  mutex = 1 =>
    /\ size = Len(Entries)
    /\ size > 0 => tail = Entries[size]
    /\ allocated = Listed

(* The request a thread was given, a pointer into the list, is allocated as
   long as the thread uses it and the server is not stopping (server.c:205,
   221-331). *)
RequestLive ==
  \A c \in Clients :
    thread[c] \in {"serving", "wait", "scan"} /\ handler \notin {"disposed", "exited"}
      => c \in allocated

(* list_remove finds the client of the thread: the list never keeps the entry
   of a thread that is over (server.c:326-330). *)
RemoveFinds == \A c \in Clients : thread[c] \in {"post", "done"} => c \notin Listed

(* When list_apply is over and came across no freed cell, every client of the
   list was sent SIGUSR1, although threads took clients out meanwhile and
   nothing kept them from it (server.c:351, list.c:124-136). *)
EveryoneSignalled == handler = "wait" /\ ~strayed => Listed \subseteq signalled

(* A thread whose session is over leaves the list, unless the server stops
   (server.c:326). *)
RemoveCompletes ==
  \A c \in Clients :
    thread[c] = "wait" ~> (thread[c] = "done" \/ handler # "none" \/ ~Alive)

(* A stop that finds the main thread out of apply ends the process, unless it
   comes across a freed cell or a client died with the mutex of the queue:
   every thread gives the mutex of the list back (server.c:351-369).  In
   apply, the main thread holds the mutex that free_server_queue waits for. *)
StopOutsideEnds ==
  (handler # "none" /\ main = "fetch") ~> (~Alive \/ strayed \/ orphaned)

=============================================================================
