# Verification of local_server_c

A client–server pair on one machine. Clients ask for a connection through a
queue in shared memory; the server gives each connection a thread, which reads
commands from a named pipe, executes each one in a child process and sends the
output back on a second named pipe. This directory holds TLA+ models of that
program, the configurations that check them with TLC, and proofs checked by
TLAPS. Paths are relative to `src/`.

## 1. Inventory

| component | state | operations | what is hard |
|---|---|---|---|
| connection queue (`libs/connection/connection.c:42-253`) | semaphores `mutex`, `empty`, `full`; `length`, `head`, `tail`; the slots, all in shared memory | `init_server_queue`, `connect`, `disconnect`, `free_server_queue`, `send_shm_request`, `fetch_shm_request` | processes that die with a semaphore; a deadline between two waits; a signal handler that takes a mutex; a client that connects before the initialisation is over |
| request and response pipes (`connection.c:255-544`) | two fifos per client, a forked writer and an alarm per message | `init_*_fifo`, `send_request`, `listen_request`, `send_response`, `listen_response`, `close_*_fifo` | opens that block for ever, alarms that fire after the write, a response cut between its size and its message, `wait` for any child |
| list of clients (`libs/list/list.c`) | `mutex`, `head`, `tail`, `size`, the cells | `init_list`, `list_add`, `list_remove`, `list_apply`, `list_dispose` | threads that remove while the handler walks without the mutex; a `malloc` that fails under the mutex |
| server (`server.c`) | the queue, the list, the parser; per thread the last command and the pipe of its output; the children of the process | `main`, `allocate_request_ressources`, `handle_request`, `sig_free`, `free_online_clients`, `skeleton_dameon` | threads that share their children; a stop signal at any point of the main thread |
| client (`client.c`) | its place in the main loop, the last command, its fifos | `main`, `sig_disconnect` | SIGUSR1/SIGUSR2 from the server and SIGINT from the user at any point; a handler that sends a request with every signal blocked |
| yml parser (`libs/yml_parser/yml_parser.c`) | a hash map with collision lists, a mutex | `init_yml_parser`, `exec_parser`, `get`, `free_parser` | a mutex kept by error returns, duplicate keys, reads without the mutex, strings read into integers |
| commands (`libs/commands/commands.c`) | the files, shared with all other commands | `is_command_available`, `exec_cmd`, `help`, `info`, `lsl`, `ccp`, `uinfo` | files that other commands change meanwhile; offsets of `ccp`; a copy that feeds itself |
| daemon (`server.c:167-201`) | none | `skeleton_dameon` | – |

How they interact: the client calls `send_shm_request`; the main thread of the
server is in `fetch_shm_request`, which calls `allocate_request_ressources`
under the mutex of the queue, which calls `list_add` and `pthread_create`. The
thread runs `handle_request` on a pointer into the list, talks to its client
over the pipes, and ends in `list_remove`. A stop signal runs `sig_free` on the
main thread wherever it is: it walks the list (SIGUSR1 to every client),
disposes of it, of the parser, and of the queue. A response that is not read in
time makes the thread send SIGUSR2 to its client.

What makes each component correct:

- queue: requests are neither lost, duplicated, reordered nor overwritten; a
  call returns; what was sent is served; the capacity is kept; a stop frees it;
- list: the pointers are always those of a list in insertion order; nobody
  reads a freed cell; a thread's client leaves the list; a stop reaches every
  listed client and ends;
- pipes and threads: an answer belongs to the command the client waits for; a
  command is executed once while the client waits for it; the verdict of `send_response` is about its own
  response; every child is waited for; calls return; entries do not outlive
  their clients;
- start and stop: one server at a time, whose queue the clients find; a client
  is not ended by a fault; a queue serves what was written in it; a stop frees
  the name;
- parser: an option comes from an entry of its own key, whatever keys collide; the
  bindings stay until the parser is freed; freeing frees every cell once and ends;
- commands: `ccp` copies the range it was asked for, `lsl` does not leave a file
  out silently, a command ends.

`PROJECT.json` lists the hazards at their lines with the properties aimed at
them; those without a property say why.

## 2. Modules

| module | models | kind |
|---|---|---|
| `ConnectionQueue` | what the queue promises: a bounded FIFO that goes up, down, freed | abstract |
| `ServerQueue` | `send_shm_request`, `fetch_shm_request`, `free_server_queue` | detailed |
| `ClientRegistry` | what the list promises: clients in insertion order | abstract |
| `ClientList` | `list.c` as `server.c` uses it, on pointers | detailed |
| `RemoteCall` | what a connected client may rely on: submit, execute once, answer, give up | abstract |
| `Session` | the dialogue of connected clients with the server over the pipes | composes clients, their writers, the threads and the children of the server |
| `Lifecycle` | `main` and `sig_free` of the server, `init_server_queue`, `connect`, and the queue object, over several servers | composes servers, their children and clients through the shared memory |
| `Dictionary` | what the configuration promises: an insertion binds its key alone, and the bindings stay until their user closes it | abstract |
| `YmlParser` | `yml_parser.c` as `main` uses it | detailed |
| `Commands` | `exec_cmd`, `ccp` and `lsl` on files | detailed |
| `ServerQueueProofs`, `ServerQueueRefinement` | theorems about `ServerQueue`: its counts and its ring; the queue it implements | proofs |
| `ClientListProofs`, `SessionProofs`, `LifecycleProofs`, `YmlParserProofs`, `CommandsProofs` | theorems about the module of that name | proofs |
| `SessionAlone` | theorems about `Session` with a single client | proofs |
| `MC*` | the instances TLC checks | – |

### ServerQueue

A step is one call on a semaphore or the code between two calls: under the
mutex nothing else touches the counters, and between two waits a client touches
nothing. `client[c]` is the place of a client in `send_shm_request`, named for
the call it is about to make; `sent`, `full` and `busy` are its three returns
(success, deadline on `empty`, deadline on `mutex`). `server` is the place of the
main thread in `fetch_shm_request`, with the loop of `main` folded in: a failed
`apply` still finishes the fetch and then ends the process without freeing
anything. `handler` is the progress of `sig_free`, which runs on the main thread:
while it is not `none` the code it interrupted does not move. `sem_timedwait` is a
choice that is open only while the semaphore is 0. `served` is a history.

Faults, each switched on by the constant `Faults`: a client dies inside the call
(`kill`), a stop signal arrives (`stop`), `list_add` finds no memory
(`no_memory`), `pthread_create` fails (`no_thread`).

### ClientList

A client stands for its cell. `list_add` is cut at its wait, `malloc`, linking
and post; `list_remove` at its wait, at every step of its loop, at unlinking, at
`free` and at its post, since `list_apply` runs in the signal handler without
the mutex and may see any of these states. When it is at a freed cell
(`ApplyStray`), the pid it signals is any or none, the `next` it reads is any
pointer, NULL and the old one included, and the read may end the process
(`crashed`); `strayed` remembers that it has read one. The end of the process, from
the main thread or the handler, stops every thread (`Alive`).

All of `list_add` and of `pthread_create` happens in `apply`, with the mutex of the
connection queue held (`QueueLocked`), until `QueuePost`. `free_server_queue`, at the
end of the handler, waits for that mutex (`HandlerExit`): for ever when the
handler interrupted `apply`, and when a client died with it (`ClientDies`,
`orphaned`).

### Session

A client and its thread communicate over the two pipes; opening one blocks
until the other end is opened (`RequestPipeOpens`, the second disjunct of
`OpenResponse`). `writer[c]` is the process the client forked for its command;
`child` holds the children of the server, commands and response writers, that no
`wait()` has returned yet: `Wait` gives a thread any child that has ended, of
whatever thread. An alarm may end either kind of writer at any of its states,
after its write included. Commands are numbered; `Garbage` is what an
uninitialised request holds when the writer opened the pipe and died before its
write. `executed` and `written` are histories.

A command is a child that ends; with `big_output` it may fill the pipe of its
output first and then waits for the thread to read. With `program` it leaves the
program it started behind, which `exec_cmd` never waits for and which goes on
writing. Further faults: a connection that is never served (`unserved`), a client
killed by SIGKILL (`kill`), `fork` and `pipe` that fail in a thread (`no_fork`,
`no_pipe`), the end of the server with all its threads (`server_exit`).

With `interrupt` a signal of the user reaches a client anywhere in its main loop:
`sig_disconnect` sends `exit` through a second writer (`writer[c]["exit"]`, so that
both may be in the same pipe), may collect the first one with its `wait`, and
listens on the pipe its main loop had open or opens it. Its writer has inherited
a mask that blocks every signal, so no alarm ends it, and SIGUSR2 does not reach
the client any more.

`RemoteCall` has five states per client: a command is submitted, executed once or
refused, answered, or the client has gone.

### Lifecycle

A shared memory object is a record of `object`; `name` says which one SHM_NAME
designates. `init_server_queue` is cut at each store another process can see
(size, mutex, empty, full, slots, counters); a client may open and map the object
in between, and one that does is in `early`. An object outlives its name. `Stop`
interrupts `main` anywhere after the handlers are installed and remembers where:
before `server_q` is set, `sig_free` passes NULL; afterwards it needs the mutex,
which `main` may hold. A signal of the process group reaches the child that
executes a command too: it inherited `sig_free` and unlinks the name. The
semaphore protocol, which `ServerQueue` has call by call, is in fewer steps here.
`ready`, `early`, `sent` and `served` are histories.

### YmlParser

`file` is a sequence of entries; the regular expressions are the test of an
entry's type. `exec_parser` is its mutex, two passes (integers, strings) and one
`InsertKeysValues` per match, which appends a cell to the list of the bucket;
`atoi` cuts an integer to the width of an int (`Atoi`). A `get` is its start, a
step per cell and its end; it takes no mutex, so that the `get` of a client's
thread (`PerThread`: `response_limit`) goes on, and may even start, while the
handler frees. `free_hash_map` is its outer loop (`FreeSkips`, `FreeEnters`) and one
`FreeCell` per turn of the inner one.

`option` is the variable an option is read into: one that has no initial value in
the code (`nb_slots`) starts as `garbage`, and `get` copies as many bytes as the
value has, so that a string becomes the `bytes` of the integer (`Copy`). What the C
standard leaves undefined is in `undefined` and stops the model: a bucket of the
uncleared map that is not NULL (`dirty`), a string longer than the variable it is
copied into (`overflow`), a cell or a map read after it was freed (`late`), a cell
freed twice (`free`). Faults: a `malloc` that fails in an insertion either crashes
(the cell, whose test is about another pointer) or makes `exec_parser` return
with the mutex held; the file is missing; the map is not cleared.

### Commands

A file name stands for an index in `data`, as a directory entry for an inode. `ccp`
is cut at its options, at each open and at each byte; `lsl` at each `readdir` and
`lstat`. `rm` stands for the programs that take files away. A request says, of the
options of `ccp`, what they were and whether `-e` came before `-b`. `alone` and
`stayed` are histories: who was not disturbed, and which names were there all the
time. Faults: `open` and `opendir` fail, the disk is full, a user has no name
(`getpwuid` is not tested), `errno` is left set by what printed an entry.

## 3. Runs

Passing runs (all explored completely):

| run | instance | states | what it shows |
|---|---|---|---|
| `queue` | 4 clients, 2 slots, all faults | 117 794 | The semaphores conserve slots, announcements and the mutex and agree with the ring (`QueueInv`); nobody overruns the ring (`NoOverrun`); nothing is served twice (`ServedOnce`); the ring is a bounded FIFO (`ImplementsConnectionQueue`). `send_shm_request` returns (`EverySendReturns`); a sent request is served unless the server ends or a client died between its wait for the mutex and its post of `full` (`EverySentIsServed`). A stop signal outside the critical section of `main` frees the queue unless a client died in its own (`StopGetsMutex`). |
| `list` | 3 clients, all faults | 216 952 | `ListWellFormed`, `RequestLive`, `RemoveFinds`; the pointers implement `ClientRegistry`; a walk of the handler that reads no freed cell signals everyone still listed (`EveryoneSignalled`); a thread leaves the list (`RemoveCompletes`); a stop that finds `main` out of `apply` ends the process, unless the walk read a freed cell or a client died with the mutex of the queue (`StopOutsideEnds`). |
| `session_one` | 1 client, 2 commands and `exit`, all faults | 40 846 | A client reads the response to its last command (`AnswersCurrent`); while the client waits, its command is executed once, or refused and never executed, and not answered before (`ImplementsRemoteCall`); with one client the verdict of `send_response` is right (`SuccessIsDelivery`). The calls return (`SendReturns`, `CommandReturns`), an interrupted client leaves as long as its thread does (`InterruptReturns`), what was sent is executed (`SentIsExecuted`), a thread stays nowhere but in `open` (`ThreadsProgress`). Each child that nobody has waited for has one thread inside `wait` (`ChildrenAwaited`, proved for any number of clients, whose threads take each other's children). |
| `lifecycle` | 2 servers, 2 clients, 2 slots, 2 queues, all faults, symmetry | 3.5 million | One server serves at a time and under the name its clients use (`OneServer`); a fault ends only a client that came before the initialisation was over (`OnlyEarlyCrash`); a queue serves what was written in it, in order (`ServesSent`). |
| `parser` | 3 keys in 2 buckets, files of at most 3 entries, all faults | 368 133 | `OptionsAreBound`: an option that was read comes from an entry of its own key, and `get` finds nothing only for keys the file does not have; the lists implement `Dictionary`; `free_hash_map` frees every cell, once (`FreesAll`), and ends (`FreeReturns`). |
| `commands` | 2 children, 2 files of 2 bytes | 724 760 | `CopiedSlice`: an undisturbed copy leaves what it kept, then consecutive bytes of the source from `-b` on, all of them without `-e`, up to `-e` when it neither appends nor has a `-b`; `RefusedKeeps`, `ListingComplete`, `CommandEnds`. |

Runs that end in a counterexample; each property quotes a comment that the code
does not keep (`findings` in `PROJECT.json`):

| run | property | what happens |
|---|---|---|
| `lifecycle_stop` | `StopFrees` | a stop signal before `server_q` is set frees NULL and leaves the name; one inside the critical section waits for the mutex its own thread holds |
| `queue_capacity` | `CapacityKept` | a client that gives up on the mutex keeps the slot it reserved |
| `commands_range` | `RangeCopied` | `ccp -b 1 -e 1` copies the byte after the range: `-e` is compared with the position in the destination |
| `session_verdict` | `SuccessIsDelivery` | with two clients, `send_response` takes the exit status of a child of another thread for its own |
| `session_reexecutes` | `NoReexecution` | a thread that was given another's child is back in `open` before the writer of the last command has closed the pipe: it reads the end of it and executes that command again |
| `session_interrupt` | `InterruptEnds` | the writer that the handler of a client forks has SIGALRM blocked: the client waits for it for ever |

What the exceptions in the passing properties stand for, each met as a
counterexample of the property without it:

- a client that leaves while its thread is in `open(O_RDONLY)` leaves it there for
  ever, with its entry in the list (`ThreadsProgress` lets a thread stay in `open`);
- a response cut between its size and its message makes `listen_response` loop:
  SIGUSR2 ends the client unless the server has ended (`CommandReturns`), and
  never in the handler, where it is blocked (`InterruptReturns`);
- a command whose output fills its pipe never ends, nor does its thread
  (`ThreadsProgress`);
- a walk of the handler that reads a freed cell may go anywhere, end early or crash
  (`EveryoneSignalled`, `StopOutsideEnds`): the clients it misses get no SIGUSR1, while
  `free_online_clients` is to free them all (`server.c:66-73`);
- a stop that finds `main` in `apply` never ends: `free_server_queue` waits for the
  mutex of the queue that `main` holds (`StopOutsideEnds`, `StopGetsMutex`;
  `lifecycle_stop` shows it);
- a client that dies, or is ended by a fault, with the mutex of the queue keeps it
  from the handler too (`StopOutsideEnds`, `StopGetsMutex`);
- with two clients, `AnswersCurrent` and `ImplementsRemoteCall` fail as
  `NoReexecution` does: they are checked with one;
- a request written before the counters of the queue are set to zero is lost
  (`ServesSent` asks nothing of queues with an early client);
- after an `exec_parser` that failed, `free_parser` waits for ever (`FreeReturns`
  starts from a loaded parser); a `get` of a thread may read what the handler has
  freed, although `yml_parser.h:3` calls the parser thread safe; and a bucket of the map
  that malloc did not hand out as NULL, or a string that overflows its variable,
  leaves nothing to say (`undefined`);
- which of two entries of a key `get` finds is not part of `OptionsAreBound` and
  `Dictionary`: `yml_parser.c:104-113` says that a key inserted again is replaced,
  while `hashmap_insert` puts it behind its first cell, which `get` goes on finding;
- `-e` of `ccp` counts from `-b` and is ignored by an append to a file that is
  already longer: `CopiedSlice` leaves open what `-e` means then, and
  `commands_range` refutes what the help says. It is compared with the `-b` before it
  only; `-v` refuses a source that exists and creates one that does not; a missing
  source is created empty (`RefusedKeeps`);
- a copy that appends to what it reads does not end (`CommandEnds`); TLC sees it
  stand still at the bound `MaxLength`.

### Bounds

- `Slots` = 2 with four clients: the ring wraps, is full, is empty, a client
  waits for a slot and one times out on either semaphore. Each client sends one
  request, as a process of the program does; a request is the name of its
  client. The proofs lift both bounds for the invariants.
- Three cells: the head, a middle and the tail of the list can each be removed
  while another is added. The search loop of `list_remove` needs no more.
- `MaxCommands` = 2: a command may be confused with its predecessor, with
  `exit`, or repeated. The history `executed` counts up to 2, all that
  "once" needs.
- `Pids` = two children: a thread never has more than one child nobody has
  waited for (`ChildrenAwaited`), so one identifier for each of two clients is
  enough; a smaller pool would show as that invariant's failure or as a stuck
  thread.
- A response is its size and its message, each read in one step.
- `Lifecycle`: two servers are enough for one to start over, beside or after
  another, each any number of times up to `MaxObjects` = 2 queues; two clients for
  one to be early or to stay in an old queue while the other uses a new one.
  `PageSlots` = 1 of 2 slots are on the page of the header, so that a mapping that
  is too short can be overrun.
- `YmlParser`: three entries allow a key twice in one pass and once in the other,
  and a collision in front of and behind it. Of the two integers one does not fit
  an int, of the two strings one does not fit an integer variable.
- `Commands`: two bytes allow a slice that starts after the first and ends before
  the last; appended to, a file has four, which is where `MaxLength` stops a copy
  that feeds itself, and only such a copy. `-e` is 0, 1, beyond the destination
  (3), or absent.

### Deadlock

The configurations say `CHECK_DEADLOCK FALSE`: every client is finite in a
model, the server then waits in `fetch_shm_request` or in `open` as it should;
states in which somebody waits wrongly are what the liveness properties catch.

## 4. Fairness

Weak fairness, per process or thread: the scheduler of the system runs a
process or thread that can take a step. For a `sem_timedwait` the step may be the
deadline; for a writer it may be its alarm. A signal, a death or a failed call is
never fair. Neither is a user who types (`Type`), a client that comes (`Fetch` of
`ClientList`), a session that ends (`EndSession`) or a signal that stops a process
(`Stop` of `YmlParser`, where only the freeing is fair): the liveness properties do not
depend on them. The commands' faults (`Fail`) are not fair either: a copy that never ends is not ended
by a full disk. `sem_wait` on a semaphore is only weakly fair; where the
properties say that a process gets the mutex, it is because the others stop
competing for it (each client sends once, each thread removes once).

## 5. Proofs

Every theorem holds for every value of the constants that the named assumptions
allow: any set of processes (finite where they are counted), any number of slots,
any files, any combination of faults. `PROJECT.json` lists them; the property a
theorem states is the one a run checks.

| module | theorems |
|---|---|
| `ServerQueueProofs` | `TypeOK`, `QueueInv`, `NoOverrun` |
| `ServerQueueRefinement` | `ServedOnce`; `ServerQueue` implements `ConnectionQueue` |
| `ClientListProofs` | `TypeOK`, `ListWellFormed`, `RequestLive`, `RemoveFinds`, `EveryoneSignalled`; `ClientList` implements `ClientRegistry` |
| `SessionProofs` | `TypeOK`, `ChildrenAwaited` |
| `SessionAlone` | for one client: `AnswersCurrent`, `SuccessIsDelivery`, `NoReexecution`; `Session` implements `RemoteCall` |
| `LifecycleProofs` | `TypeOK`, `OneServer`, `OnlyEarlyCrash`, `ServesSent` |
| `YmlParserProofs` | `TypeOK`, `OptionsAreBound`, `FreesAll`; `YmlParser` implements `Dictionary` |
| `CommandsProofs` | `TypeOK`, `CopiedSlice`, `RefusedKeeps`, `ListingComplete` |

The proofs have one layout. The inductive invariant is a conjunction of named
parts; an effect lemma says what an action does to the data in terms a proof can
use; a step lemma per part has one case per action; the theorem combines them.
Each invariant was an invariant of the instance of its run before it was proved.

### ServerQueue

Assumptions: `Slots` is a positive natural number, `Clients` is finite and does
not contain `NoRequest`, `Faults` is a set of the four faults.

`NoOverrun`, that a writer has a free slot and a reader a request, is not
inductive: it says nothing of who has which semaphore. `TypeOK` is not either:
that no semaphore becomes negative or `length` falls below 0 depends on how many
processes are between two calls. The inductive invariant is
`IInv == TypeOK /\ QueueInv`, where `QueueInv` is three equations and the ring:

- `SlotsConserved`: `empty` + `full` + the clients that reserved a slot + the
  slot in the server's hands = `Slots`;
- `LengthCounts`: `length` = `full` + the requests not yet announced + the one the
  server is taking;
- `MutexConserved`: the mutex is free or has one owner, for ever `free_server_queue`
  once the queue is freed;
- `RingConsistent`: `head` is `length` slots after `tail` and the slots between
  hold requests.

A client that times out on the mutex, or dies, stays in the count of its place
for ever: this is what keeps the equations true under every fault, and what
`queue_capacity` shows to be a loss of capacity. The equations are sums of
cardinalities: `GotoCount` says how one client's move changes a count,
`MoveCounts` applies it to the three counts, `RingGrows` and `RingShrinks` treat
the ring, and one lemma per actor (`SendStep`, `KillStep`, `FetchStep`,
`StopStep`, `StutterStep`) has a step per action and below it a step per conjunct.
`NoOverrun` then follows: a writer's reservation and `LengthCounts` give
`length < Slots`, and `MutexConserved` excludes a second process in the critical
section.

`ServedOnce` needs to know where a request may be. `FifoInv` says that the
requests in the ring and those served are of clients that have written
(`RingWritten`, `ServedWritten`), that the ring has none twice (`RingOnce`), and
that it has none that was served (`ServedGone`), except at the tail between
`apply` and `Advance`. The refinement maps the waiting requests to the slots from
the tail on: `Enqueue` is the append, `Apply` the removal of the first, with a
thread or without, and the ways down are steps of the phase. What has
to be shown is that the sequence read off the ring after a write is the one
before with the request appended, across the wrap, and the same for the removal.

### ClientList

Assumptions: `Clients` is finite, `Null` is none of them, `Faults` is a set of
faults. The entries of the list, which all the properties speak about, are
defined by a recursive function along `next`. Lemma `ChainIsEntries` (by a
smallest counterexample: the natural numbers are well founded) says that any
sequence without repetition that the pointers chain from `head` is `Entries`;
`LinkEffect`, `UnlinkEffect` and `DisposeEffect` give that sequence after each
update, and nothing else unfolds the recursion. The parts of `ListInv`:

- `Linked`: the pointers chain the entries; `Locked`: one thread, or the main
  thread, or the end of the handler, holds the mutex;
- `Adding`, `Members`: a client is listed from the link of `list_add` until its
  unlinking, and nobody else is;
- `Memory`: a listed cell is allocated, and an allocated one is listed, or about to
  be, or unlinked and about to be freed; `Sizes`: `size` and `tail` agree with the
  entries, or lag by the one that is being removed;
- `Scanning`: `list_remove` is at the `i`-th entry and has not passed its client;
- `Walking`: the handler walks without the mutex over cells that may be unlinked
  under its feet. There is a sequence of cells, listed or not, that covers all the
  listed ones in the order of the pointers and skips none, and all the listed
  ones before the handler's place have been signalled. This is what
  `EveryoneSignalled` needs, and it is kept because a cell that is unlinked and not
  freed yet keeps its `next`; once the walk has read a freed one, nothing is said.

The refinement maps the registry to `Entries`: the link and the unlinking are its
operations, the disposal clears it.

### Session

Assumptions: `Clients` and `Pids` are finite, `MaxCommands` is a natural number,
`Faults` is a set of faults. Types are inductive once one knows that a client
that prompts has not sent `exit` (there is a next command). `ChildrenAwaited` is
inductive as it stands, together with the types: each step changes the number of
children that were not waited for and the number of threads in `wait` together,
whoever's child is taken.

What a client may rely on holds only when no other is connected: the runs
`session_reexecutes` and `session_verdict` show two clients whose threads take
each other's children. The theorems of `SessionAlone` therefore assume
`Alone == \A c, d \in Clients : c = d`, and nothing else: every fault is allowed,
and any number of commands. None of their properties is inductive: that a client
reads the right response depends on what its writer, its thread, the child of the
thread and the two pipes were doing since it typed the command. The invariant
`Dialogue` has four parts:

- `InTurn`: as long as the client is in its main loop, it is in one of nine phases,
  from `Idle` (the prompt) through `Calling`, `Connected` and `Asked` (the request
  is on its way) to `Working`, `Answering` and `Answered`, or in a dead end, `GivenUp`
  (the writer failed) or `Unanswered` (the response did, before the client listened).
  A phase says where all of them are together: no child writes any more when the
  next command is typed, so what is in the pipe later belongs to that command;
- `OneKid` and `KidOf`: the server has one child at most, the one its thread waits
  for, about the command in its buffer, and a response that has ended with success
  was written whole;
- `Counted`: later commands have not been executed, and the last one once or not at
  all, as its thread has passed the `fork` or not.

A client that was interrupted or is leaving is in no phase, and promises nothing.
There is one lemma per action and part. `AnswersCurrent` and `NoReexecution` follow
from `Dialogue`, `SuccessIsDelivery` from `KidOf` in the state before the step. For
the refinement, `CallStates` gives the state of the call, `Legal` the pairs of states
a step may join, `StepLegal` shows that every step joins one, and `LegalStep` that
each is a step of `RemoteCall`.

### Lifecycle

Assumptions: `Slots` is positive, `Clients` is finite. `LInv` follows a queue
object from its creation to the end of those who have mapped it: whose object each
process uses (`Owners`, `Openers`), what the initialisation has stored and that no
client has passed `empty` before it was set (`Prepared`), who has the mutex
(`Exclusive`), that only the queue the name designates still has one to take
(`Named`), and for the requests three inequalities (`Counts`) and the contents of
the ring (`Rings`). `OneServer` comes from `Named` and the last conjunct of
`Owners`; `ServesSent` is the part of `Rings` about what was served. `Rings`
speaks of positions modulo `Slots`, so the module first proves the uniqueness of
quotient and remainder.

### YmlParser

Assumptions: `Hash` gives each key a bucket, `NoKey` is no key, and the constants
have their types. What a `get` may find, and that it misses nothing, depends on
what the two passes have inserted when it starts and on where it is on its list;
what the loop has freed depends on the lists. `ParserInv` has, besides the types:

- `Held`: the cells on the lists are those of the entries the passes have gone over,
  each on the list of its bucket, and every such entry has one;
- `Loaded`: nobody reads before all entries are in, and the mutex of a parser that
  failed to load is not given back;
- `Walk`: the `get` in progress has passed no cell with its key;
- `Read`: what an option was copied from;
- `Looped`: the cells that were freed are those before the place of the loop, and no
  other, in the order of buckets and lists.

`OptionsAreBound` comes from `Held`, `Walk` and `Read`, `FreesAll` from `Looped`. The
refinement of `Dictionary` is one step of `Put` per insertion, which leaves the
lookup of every other key as it was, even in its own bucket; `Open` is the end of
the second pass, and `Close` the step in which `free_parser` gets the mutex, which
`Loaded` excludes after a load that failed.

### Commands

Assumptions: `Names` is finite, a file is a finite sequence of naturals, and a
request of `ccp` has a `-b` that is not negative and a `-e` that is not negative or
absent, as `exec_ccp` refuses the others while it reads its options
(`commands.c:515-530`). The invariant is about each process (`ProcessInv`): which
request it may have where (`RoleAt`), its descriptors (`OpenAt`), what it has seen
and printed (`ListAt`), that a copy which is alone has changed nothing before it
opens its destination (`KeepAt`), and how far it has come (`CopyAt`: the
destination is what it kept, then the slice of the source up to `pos`). Lemma
`Others` covers the steps of every other process at once: they leave the files
of a process as they are or end its being alone.

## 6. Only model-checked

- Every liveness property: liveness under fairness is beyond the prover in use.
- The properties of the runs that end in a counterexample: of these,
  `NoReexecution` and `SuccessIsDelivery` are proved for one client and fail for two.

## 7. Not modelled

- Composition of the four models of the server: a stop signal ends a `Session`
  only as `server_exit`, and SIGUSR1 of `ClientList` has no client that receives
  it. A second stop signal, which a client's thread would handle while the first
  handler runs.
- A signal that finds a client already leaving, or that the terminal also sends to
  the writers it forked; `mkfifo` that fails.
- `response_limit` other than -1, messages read in several parts, failures of
  `close`, `read` and `realloc` in the middle of `handle_request`, descriptors
  that a child inherits from another thread.
- `sem_init` that fails, which no build meets with these arguments.
- Reused pids: the cells of `ClientList` have distinct ones.
- What the program does after undefined behaviour in the parser (`undefined`), and
  what a freed cell's pid makes `sig_free` signal outside the clients.
- Of the commands, what only formats: `help`, `info` (which cuts a pid to the size
  of its buffer), `uinfo`, the columns of `lsl`. One remark: `strmode` stops
  before the last permission (`commands.c:430`), which keeps what the stack held.
  `ccp` without `-f` or `-d` opens an uninitialised name.
- `skeleton_dameon`, the makefile and the configuration values.

## 8. Plan

1. `Shutdown`: `sig_free` as one handler over the mutexes of the list, the parser
   and the queue, with SIGUSR1 as the clients of `Session` receive it.
2. Pid reuse in `ClientList`, with the stale entries of threads that stay in `open`.
