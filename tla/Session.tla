------------------------------- MODULE Session -------------------------------
(***************************************************************************)
(* The dialogue of connected clients with the server, over two named pipes *)
(* per client (server.c, handle_request; client.c, main; connection.c,     *)
(* send_request .. close_response_fifo).                                   *)
(*                                                                         *)
(* A client types commands; a process it forks writes each one on the      *)
(* request pipe, under an alarm.  The thread that the server runs for the  *)
(* client reads the command, forks a process that executes it, and forks   *)
(* another that writes the response on the response pipe, under an alarm.  *)
(* All the threads share the children of the server: wait() gives a thread *)
(* any child that has ended.                                               *)
(*                                                                         *)
(* Opening a pipe blocks until the other end is opened too.  A pipe that   *)
(* has no writer left reads as ended; one that has no reader left cannot   *)
(* be written; what it holds is lost when both ends are closed.            *)
(*                                                                         *)
(* A signal of the user interrupts a client anywhere: the handler sends    *)
(* "exit" in the same way, through a second writer, with all signals       *)
(* blocked, and the client never comes back to its main loop.              *)
(***************************************************************************)
EXTENDS Integers, Sequences, FiniteSets

CONSTANTS
  Clients,      \* the connected clients; each has its thread in the server
  MaxCommands,  \* how many commands a client types before "exit" (a bound)
  Pids,         \* identifiers of the children of the server (a bound)
  Faults        \* what may happen besides the timeouts

ASSUME ClientsAssumption == IsFiniteSet(Clients)

ASSUME MaxCommandsAssumption == MaxCommands \in Nat

ASSUME PidsAssumption == IsFiniteSet(Pids)

ASSUME FaultsAssumption == 
  Faults \subseteq {"unserved", "kill", "interrupt", "server_exit",
                    "no_fork", "no_pipe", "big_output", "program"}

VARIABLES
  client,     \* where each client is in its main loop
  current,    \* the last command each client typed
  signalled,  \* the clients to which SIGUSR2 was sent
  writer,     \* the processes a client forked to write a command
  request,    \* the commands in each request pipe
  response,   \* the parts of responses in each response pipe
  opened,     \* the response pipes that had a writer since they were opened
  handler,    \* where each thread is in handle_request
  buffer,     \* the command in req_buffer of each thread
  child,      \* the children of the server that wait() has not given yet
  program,    \* the threads whose command left a program writing its output
  executed,   \* how often each command was executed, up to 2 (history)
  written     \* the commands whose response was written whole (history)

clientSide == <<client, current, signalled, writer>>
pipes == <<request, response, opened>>
threads == <<handler, buffer>>
children == <<child, program>>
history == <<executed, written>>
vars == <<clientSide, pipes, threads, children, history>>

(* Commands are numbered in the order a client types them. *)
Garbage == 0                \* what an uninitialised request holds
Exit == MaxCommands + 1
Command == Garbage .. Exit

Part == {"size", "msg"}

(* Where the handler of a signal of the user is: it sends "exit", with the
   response pipe still open or not, then waits for the response. *)
InterruptedPC == {"exit_sending", "exit_listening", "exit_select", "exit_msg", "exit_spin"}

ClientPC == {"prompt", "sending", "select", "msg", "spin",
             "timed_out", "leaving", "left", "dead"} \cup InterruptedPC

(* The writer of the main loop and the one of the handler. *)
WriterId == {"cmd", "exit"}

WriterState == {"none", "open", "write", "close", "ok", "failed"}

HandlerPC == {"start", "listen", "open", "read", "dispatch", "exec", "output",
              "answer", "answer_error", "answer_last",
              "wait", "wait_error", "wait_last", "remove", "removed", "killed"}

(* A connection that the server never takes from its queue has no thread. *)
Unserved == IF "unserved" \in Faults THEN {"removed"} ELSE {}

NoChild == [kind |-> "none"]

CommandChild == [kind : {"command"}, of : Clients, cmd : Command,
                 at : {"running", "blocked", "ok"}]

ResponseChild == [kind : {"response"}, of : Clients, cmd : Command,
                  at : {"start", "open", "size", "msg", "close", "ok", "failed"}]

Init ==
  /\ client = [c \in Clients |-> "prompt"]
  /\ current = [c \in Clients |-> Garbage]
  /\ signalled = {}
  /\ writer = [c \in Clients |-> [w \in WriterId |-> "none"]]
  /\ request = [c \in Clients |-> << >>]
  /\ response = [c \in Clients |-> << >>]
  /\ opened = {}
  /\ handler \in [Clients -> {"start"} \cup Unserved]
  /\ buffer = [c \in Clients |-> Garbage]
  /\ child = [p \in Pids |-> NoChild] /\ program = {}
  /\ executed = [c \in Clients |-> [k \in Command |-> 0]]
  /\ written = {}

Gone(c) == client[c] \in {"left", "dead"}

(* A client unlinks its pipes as it leaves, and so does the writer of its
   handler when it fails: it returns from send_request in its own copy of
   the handler. *)
Linked(c) == client[c] # "left" /\ writer[c]["exit"] # "failed"

(* The client has the response pipe open. *)
Listens(c) ==
  client[c] \in {"select", "msg", "spin", "timed_out"} \cup (InterruptedPC \ {"exit_sending"})

(* The writers that have the request pipe open. *)
Holding(c) == {w \in WriterId : writer[c][w] \in {"write", "close"}}

Children(c, kind, states) ==
  {p \in Pids : child[p].kind = kind /\ child[p].of = c /\ child[p].at \in states}

ResponseWriters(c) == Children(c, "response", {"size", "msg", "close"})

(* Every process that opened the response pipe to write has closed it. *)
Ended(c) == response[c] = << >> /\ c \in opened /\ ResponseWriters(c) = {}

ClientGoto(c, pc) == client' = [client EXCEPT ![c] = pc]

WriterGoto(c, w, at) == writer' = [writer EXCEPT ![c][w] = at]

HandlerGoto(c, pc) == handler' = [handler EXCEPT ![c] = pc]

(* The last process that had the request pipe open closes it. *)
LoseRequest(c) == request' = [request EXCEPT ![c] = << >>]

-----------------------------------------------------------------------------
(* The client: main, send_request and listen_response *)

(* The user types a valid command, "exit", or ends the input, which sends
   "exit" too; send_request forks the writer. *)
Type(c) ==
  /\ client[c] = "prompt"
  /\ \E k \in {current[c] + 1, Exit} : current' = [current EXCEPT ![c] = k]
  /\ WriterGoto(c, "cmd", "open")
  /\ ClientGoto(c, "sending")
  /\ UNCHANGED <<signalled, pipes, threads, children, history>>

(* SIGINT, SIGQUIT or SIGTERM in the main loop: sig_disconnect calls
   send_request with "exit". *)
Interrupt(c) ==
  /\ "interrupt" \in Faults
  /\ client[c] \in {"prompt", "sending", "select", "msg", "spin"}
  /\ WriterGoto(c, "exit", "open")
  /\ ClientGoto(c, IF Listens(c) THEN "exit_listening" ELSE "exit_sending")
  /\ UNCHANGED <<current, signalled, pipes, threads, children, history>>

(* The thread opens the request pipe as soon as a writer has it open or waits
   for a reader, and with it all the writers that wait. *)
RequestPipeOpens(c) ==
  /\ handler[c] = "open"
  /\ \E w \in WriterId : writer[c][w] \in {"open", "write", "close"}
  /\ writer' = [writer EXCEPT ![c] =
                  [w \in WriterId |-> IF @[w] = "open" THEN "write" ELSE @[w]]]
  /\ HandlerGoto(c, "read")
  /\ UNCHANGED <<client, current, signalled, pipes, buffer, children, history>>

(* A writer finds the thread already there, or, not under fairness, finds
   that the pipe has been unlinked. *)
WriterOpens(c, w) ==
  /\ writer[c][w] = "open" /\ handler[c] = "read"
  /\ WriterGoto(c, w, "write")
  /\ UNCHANGED <<client, current, signalled, pipes, threads, children, history>>

WriterTooLate(c, w) ==
  /\ writer[c][w] = "open" /\ ~Linked(c)
  /\ WriterGoto(c, w, "failed")
  /\ UNCHANGED <<client, current, signalled, pipes, threads, children, history>>

(* The write fails when the thread has closed the pipe meanwhile. *)
WriteRequest(c, w) ==
  /\ writer[c][w] = "write"
  /\ IF handler[c] = "read"
       THEN /\ WriterGoto(c, w, "close")
            /\ request' = [request EXCEPT ![c] =
                             Append(@, IF w = "exit" THEN Exit ELSE current[c])]
       ELSE /\ WriterGoto(c, w, "failed")
            /\ IF Holding(c) = {w} THEN LoseRequest(c) ELSE UNCHANGED request
  /\ UNCHANGED <<client, current, signalled, response, opened, threads, children, history>>

WriterEnds(c, w, from, at) ==
  /\ writer[c][w] \in from
  /\ WriterGoto(c, w, at)
  /\ IF handler[c] # "read" /\ Holding(c) = {w} THEN LoseRequest(c) ELSE UNCHANGED request
  /\ UNCHANGED <<client, current, signalled, response, opened, threads, children, history>>

WriterExit(c, w) == WriterEnds(c, w, {"close"}, "ok")

\* Mutant of WriterAlarm: the handler of the alarm ends the process with 0.
WriterAlarmExitsZero(c) == WriterEnds(c, "cmd", {"open", "write", "close"}, "ok")

\* Mutant of WriterAlarm: the alarm is not set.
WriterAlarmNever(c) == FALSE

(* SIGALRM ends the writer wherever it is, even after its write.  The writer
   forked in the handler inherits a mask that blocks it. *)
WriterAlarm(c) == WriterEnds(c, "cmd", {"open", "write", "close"}, "failed")

(* send_request returns: 1 and the client opens the response pipe, or 0 and
   the client leaves.  In the handler, wait() may give the writer of the
   main loop. *)
RequestSent(c) ==
  /\ \E w \in WriterId :
       /\ \/ client[c] = "sending" /\ w = "cmd"
          \/ client[c] \in {"exit_sending", "exit_listening"}
       /\ \/ /\ writer[c][w] = "ok"
             /\ ClientGoto(c, IF client[c] = "sending" THEN "select" ELSE "exit_select")
             /\ opened' = IF ResponseWriters(c) = {} THEN opened \ {c} ELSE opened
          \/ /\ writer[c][w] = "failed"
             /\ ClientGoto(c, IF w = "exit" THEN "left"
                              ELSE IF client[c] = "exit_listening" THEN "timed_out" ELSE "leaving")
             /\ UNCHANGED opened
       /\ WriterGoto(c, w, "none")
  /\ UNCHANGED <<current, signalled, request, response, threads, children, history>>

ReadSize(c) ==
  /\ client[c] \in {"select", "exit_select"}
  /\ response[c] # << >>
  /\ response' = [response EXCEPT ![c] = Tail(@)]
  /\ ClientGoto(c, IF client[c] = "select" THEN "msg" ELSE "exit_msg")
  /\ UNCHANGED <<current, signalled, writer, request, opened, threads, children, history>>

ReadMsgThen(c, next) ==
  /\ response[c] # << >>
  /\ response' = [response EXCEPT ![c] = Tail(@)]
  /\ ClientGoto(c, next)
  /\ UNCHANGED <<current, signalled, writer, request, opened, threads, children, history>>

\* Mutant of ReadMsg: the client prompts again after "exit".
ReadMsgPromptsAgain(c) == client[c] = "msg" /\ ReadMsgThen(c, "prompt")

(* listen_response returns 1: the client closes the pipe and prompts, or
   leaves after "exit".  The pipe that the handler found open stays open. *)
ReadMsg(c) ==
  \/ client[c] = "msg" /\ ReadMsgThen(c, IF current[c] = Exit THEN "leaving" ELSE "prompt")
  \/ client[c] = "exit_msg" /\ \E pc \in {"leaving", "timed_out"} : ReadMsgThen(c, pc)

SelectTimeoutThen(c, next) ==
  /\ client[c] \in {"select", "msg", "exit_select", "exit_msg"}
  /\ response[c] = << >> /\ ~Ended(c)
  /\ ClientGoto(c, next)
  /\ UNCHANGED <<current, signalled, writer, pipes, threads, children, history>>

\* Mutant of SelectTimeout: the client prompts again instead of leaving.
SelectTimeoutRetry(c) == SelectTimeoutThen(c, "prompt")

(* select returns 0: listen_response returns 0 and leaves the pipe open. *)
SelectTimeout(c) == SelectTimeoutThen(c, "timed_out")

(* read returns 0 at the end of the pipe and total does not grow: the loop
   that reads the message goes on for ever.  When the size itself was not
   read it is uninitialised: no memory is found for it, or it is 0 and the
   response is empty, or the loop starts. *)
ReadEnded(c) ==
  /\ Ended(c)
  /\ \/ client[c] \in {"select", "msg"} /\ ClientGoto(c, "spin")
     \/ client[c] \in {"exit_select", "exit_msg"} /\ ClientGoto(c, "exit_spin")
     \/ client[c] \in {"select", "exit_select"} /\ ClientGoto(c, "timed_out")
     \/ client[c] = "select" /\ ClientGoto(c, IF current[c] = Exit THEN "leaving" ELSE "prompt")
  /\ UNCHANGED <<current, signalled, writer, pipes, threads, children, history>>

Leave(c) ==
  /\ client[c] \in {"leaving", "timed_out"}
  /\ ClientGoto(c, "left")
  /\ UNCHANGED <<current, signalled, writer, pipes, threads, children, history>>

(* SIGUSR2: sig_disconnect unlinks the pipes and exits.  It stays blocked in
   a client that handles a signal of the user. *)
SigDisconnect(c) ==
  /\ c \in signalled /\ client[c] \notin InterruptedPC /\ ~Gone(c)
  /\ ClientGoto(c, "left")
  /\ UNCHANGED <<current, signalled, writer, pipes, threads, children, history>>

(* SIGKILL: the client ends and its pipes stay. *)
Kill(c) ==
  /\ "kill" \in Faults /\ ~Gone(c)
  /\ ClientGoto(c, "dead")
  /\ UNCHANGED <<current, signalled, writer, pipes, threads, children, history>>

ClientStep(c) ==
  \/ RequestSent(c) \/ ReadSize(c) \/ ReadMsg(c) \/ SelectTimeout(c)
  \/ ReadEnded(c) \/ Leave(c) \/ SigDisconnect(c)

WriterStep(c, w) ==
  \/ RequestPipeOpens(c) \/ WriterOpens(c, w) \/ WriteRequest(c, w) \/ WriterExit(c, w)
  \/ w = "cmd" /\ WriterAlarm(c)

-----------------------------------------------------------------------------
(* The server: handle_request, listen_request and send_response *)

(* listen_request opens the request pipe, or fails when the client has
   unlinked it: the thread ends if it has no command yet, else it executes
   the command it has once more. *)
CallOpen(c) ==
  /\ \/ Linked(c) /\ handler[c] \in {"start", "listen"} /\ HandlerGoto(c, "open")
     \/ ~Linked(c) /\ handler[c] = "start" /\ HandlerGoto(c, "answer_last")
     \/ ~Linked(c) /\ handler[c] = "listen" /\ HandlerGoto(c, "answer_error")
  /\ UNCHANGED <<clientSide, pipes, buffer, children, history>>

TakeRequest(c) ==
  /\ handler[c] = "read"
  /\ request[c] # << >>
  /\ request' = [request EXCEPT ![c] = IF Holding(c) = {} THEN << >> ELSE Tail(@)]

\* Mutant of ReadRequest: the command is not copied to the buffer.
ReadRequestKeepsBuffer(c) ==
  /\ TakeRequest(c)
  /\ HandlerGoto(c, "dispatch")
  /\ UNCHANGED <<clientSide, response, opened, buffer, children, history>>

(* listen_request reads one command and closes the pipe. *)
ReadRequest(c) ==
  /\ TakeRequest(c)
  /\ buffer' = [buffer EXCEPT ![c] = Head(request[c])]
  /\ HandlerGoto(c, "dispatch")
  /\ UNCHANGED <<clientSide, response, opened, children, history>>

(* read returns 0 when the writer ended without writing: the command is what
   the stack holds, the previous one or anything. *)
ReadNothing(c) ==
  /\ handler[c] = "read"
  /\ request[c] = << >> /\ Holding(c) = {}
  /\ \E k \in {buffer[c], Garbage} : buffer' = [buffer EXCEPT ![c] = k]
  /\ HandlerGoto(c, "dispatch")
  /\ UNCHANGED <<clientSide, pipes, children, history>>

Fork(new) ==
  /\ \E p \in Pids : child[p] = NoChild
  /\ child' = [child EXCEPT ![CHOOSE p \in Pids : child[p] = NoChild] = new]

(* wait(): gives the thread any child that has ended. *)
Wait(states) ==
  \E p \in Pids :
    /\ child[p] # NoChild /\ child[p].at \in states
    /\ child' = [child EXCEPT ![p] = NoChild]

(* The loop of handle_request: "exit" ends it, any other command is executed
   by a child. *)
Dispatch(c) ==
  /\ handler[c] = "dispatch"
  /\ \/ /\ buffer[c] = Exit
        /\ HandlerGoto(c, "answer_last")
        /\ UNCHANGED <<child, executed>>
     \/ /\ buffer[c] # Exit
        /\ Fork([kind |-> "command", of |-> c, cmd |-> buffer[c], at |-> "running"])
        /\ HandlerGoto(c, "exec")
        /\ executed' = [executed EXCEPT ![c][buffer[c]] = IF @ < 2 THEN @ + 1 ELSE @]
     \/ /\ buffer[c] # Exit /\ "no_fork" \in Faults
        /\ HandlerGoto(c, "answer_last")
        /\ UNCHANGED <<child, executed>>
     \/ /\ buffer[c] # Exit /\ "no_pipe" \in Faults
        /\ HandlerGoto(c, "remove")
        /\ UNCHANGED <<child, executed>>
  /\ UNCHANGED <<clientSide, pipes, buffer, program, written>>

WaitCommand(c) ==
  /\ handler[c] = "exec"
  /\ Wait({"ok", "failed"})
  /\ HandlerGoto(c, "output")
  /\ UNCHANGED <<clientSide, pipes, buffer, program, history>>

(* The output ends when the command, and the program it left, have closed it. *)
ReadOutput(c) ==
  /\ handler[c] = "output"
  /\ Children(c, "command", {"running", "blocked"}) = {} /\ c \notin program
  /\ HandlerGoto(c, "answer")
  /\ UNCHANGED <<clientSide, pipes, buffer, children, history>>

(* send_response forks the process that writes; when it cannot, it returns
   PROC_ERROR. *)
SendResponse(c, from, to, failed) ==
  /\ handler[c] = from
  /\ \/ /\ Fork([kind |-> "response", of |-> c, cmd |-> buffer[c], at |-> "start"])
        /\ HandlerGoto(c, to)
     \/ /\ "no_fork" \in Faults
        /\ HandlerGoto(c, failed)
        /\ UNCHANGED child
  /\ UNCHANGED <<clientSide, pipes, buffer, program, history>>

Answer(c) ==
  \/ SendResponse(c, "answer", "wait", "remove")
  \/ SendResponse(c, "answer_error", "wait_error", "dispatch")
  \/ SendResponse(c, "answer_last", "wait_last", "remove")

(* send_response returns 1. *)
ResponseSent(c) ==
  /\ handler[c] = "wait"
  /\ Wait({"ok"})
  /\ HandlerGoto(c, "listen")
  /\ UNCHANGED <<clientSide, pipes, buffer, program, history>>

\* Mutant of ResponseTimedOut: SIGUSR2 is not sent.
ResponseTimedOutSilent(c) ==
  /\ handler[c] = "wait"
  /\ Wait({"failed"})
  /\ HandlerGoto(c, "remove")
  /\ UNCHANGED <<clientSide, pipes, buffer, program, history>>

(* send_response returns 0: the client is disconnected with SIGUSR2. *)
ResponseTimedOut(c) ==
  /\ handler[c] = "wait"
  /\ Wait({"failed"})
  /\ signalled' = signalled \cup {c}
  /\ HandlerGoto(c, "remove")
  /\ UNCHANGED <<client, current, writer, pipes, buffer, program, history>>

\* Mutant of ResponseIgnored: the child is not waited for either.
ResponseIgnoredNoWait(c) ==
  /\ \/ handler[c] = "wait_error" /\ HandlerGoto(c, "dispatch")
     \/ handler[c] = "wait_last" /\ HandlerGoto(c, "remove")
  /\ UNCHANGED <<clientSide, pipes, buffer, children, history>>

(* Where the return value of send_response is not looked at. *)
ResponseIgnored(c) ==
  /\ \/ handler[c] = "wait_error" /\ HandlerGoto(c, "dispatch")
     \/ handler[c] = "wait_last" /\ HandlerGoto(c, "remove")
  /\ Wait({"ok", "failed"})
  /\ UNCHANGED <<clientSide, pipes, buffer, program, history>>

Remove(c) ==
  /\ handler[c] = "remove"
  /\ HandlerGoto(c, "removed")
  /\ UNCHANGED <<clientSide, pipes, buffer, children, history>>

(* The server is killed, or main ends on an error: all the threads end, and
   the children go on.  What a request pipe holds is lost with its last end. *)
ServerExit ==
  /\ "server_exit" \in Faults
  /\ \E c \in Clients : handler[c] \notin {"removed", "killed"}
  /\ handler' = [c \in Clients |-> IF handler[c] = "removed" THEN "removed" ELSE "killed"]
  /\ request' = [c \in Clients |-> IF Holding(c) = {} THEN << >> ELSE request[c]]
  /\ UNCHANGED <<clientSide, response, opened, buffer, children, history>>

Handle(c) ==
  \/ CallOpen(c) \/ ReadRequest(c) \/ ReadNothing(c) \/ Dispatch(c)
  \/ WaitCommand(c) \/ ReadOutput(c) \/ Answer(c)
  \/ ResponseSent(c) \/ ResponseTimedOut(c) \/ ResponseIgnored(c) \/ Remove(c)

-----------------------------------------------------------------------------
(* The children of the server *)

ChildAt(p, kind, at) == child[p].kind = kind /\ child[p].at = at

ChildGoto(p, at) == child' = [child EXCEPT ![p].at = at]

(* A command ends, or fills the pipe of its output: the thread does not read
   it before the command has ended, unless the end of the server closes it.
   What is no command only prints an error.  exec_cmd never waits for the
   program it starts, which may go on writing after it ("program"). *)
RunCommand(p) ==
  LET c == child[p].of IN
  /\ \/ /\ ChildAt(p, "command", "running") /\ ChildGoto(p, "ok")
        /\ program' \in IF "program" \in Faults /\ child[p].cmd # Garbage
                         THEN {program, program \cup {c}} ELSE {program}
     \/ /\ "big_output" \in Faults
        /\ ChildAt(p, "command", "running") /\ child[p].cmd # Garbage
        /\ ChildGoto(p, "blocked")
        /\ UNCHANGED program
     \/ /\ ChildAt(p, "command", "blocked")
        /\ handler[c] = "killed"
        /\ ChildGoto(p, "ok")
        /\ UNCHANGED program
  /\ UNCHANGED <<clientSide, pipes, threads, history>>

(* The program ends: it never blocks for good, the thread reads by then. *)
ProgramEnds(c) ==
  /\ c \in program
  /\ program' = program \ {c}
  /\ UNCHANGED <<clientSide, pipes, threads, child, history>>

(* open fails when the client has unlinked the pipe, else it waits for the
   client to listen. *)
OpenResponse(p) ==
  /\ \/ /\ ChildAt(p, "response", "start")
        /\ ChildGoto(p, IF Linked(child[p].of) THEN "open" ELSE "failed")
        /\ UNCHANGED opened
     \/ /\ ChildAt(p, "response", "open")
        /\ Listens(child[p].of)
        /\ ChildGoto(p, "size")
        /\ opened' = opened \cup {child[p].of}
  /\ UNCHANGED <<clientSide, request, response, threads, program, history>>

(* The size, then the message.  A write fails when the client no longer
   listens: the handler of SIGPIPE, inherited from the server, returns. *)
WriteResponse(p) ==
  /\ \E at \in Part :
       /\ ChildAt(p, "response", at)
       /\ IF Listens(child[p].of)
            THEN /\ response' = [response EXCEPT ![child[p].of] =
                                   Append(@, [cmd |-> child[p].cmd, part |-> at])]
                 /\ ChildGoto(p, IF at = "size" THEN "msg" ELSE "close")
                 /\ written' = IF at = "msg" THEN written \cup {<<child[p].of, child[p].cmd>>}
                                             ELSE written
            ELSE ChildGoto(p, "failed") /\ UNCHANGED <<response, written>>
  /\ UNCHANGED <<clientSide, request, opened, threads, program, executed>>

ResponseExit(p) ==
  /\ ChildAt(p, "response", "close")
  /\ ChildGoto(p, "ok")
  /\ UNCHANGED <<clientSide, pipes, threads, program, history>>

\* Mutant of ResponseAlarm: the handler of the alarm ends the process with 0.
ResponseAlarmExitsZero(p) ==
  /\ \E at \in {"start", "open", "size", "msg", "close"} : ChildAt(p, "response", at)
  /\ ChildGoto(p, "ok")
  /\ UNCHANGED <<clientSide, pipes, threads, program, history>>

\* Mutant of ResponseAlarm: the alarm is not set.
ResponseAlarmNever(p) == FALSE

(* SIGALRM ends the process wherever it is, even after its last write. *)
ResponseAlarm(p) ==
  /\ \E at \in {"start", "open", "size", "msg", "close"} : ChildAt(p, "response", at)
  /\ ChildGoto(p, "failed")
  /\ UNCHANGED <<clientSide, pipes, threads, program, history>>

ChildStep(p) ==
  \/ RunCommand(p) \/ OpenResponse(p) \/ WriteResponse(p)
  \/ ResponseExit(p) \/ ResponseAlarm(p)

-----------------------------------------------------------------------------
Next ==
  \/ \E c \in Clients :
       \/ Type(c) \/ Interrupt(c) \/ Kill(c) \/ ClientStep(c) \/ Handle(c) \/ ProgramEnds(c)
       \/ \E w \in WriterId : WriterTooLate(c, w) \/ WriterStep(c, w)
  \/ \E p \in Pids : ChildStep(p)
  \/ ServerExit

(* The scheduler runs every process and every thread that can take a step.
   No user has to type or to interrupt, and no process has to be killed. *)
Fairness ==
  /\ \A c \in Clients : /\ WF_vars(ClientStep(c))
                        /\ \A w \in WriterId : WF_vars(WriterStep(c, w))
                        /\ WF_vars(Handle(c))
                        /\ WF_vars(ProgramEnds(c))
  /\ \A p \in Pids : WF_vars(ChildStep(p))

Spec == Init /\ [][Next]_vars

FairSpec == Spec /\ Fairness

-----------------------------------------------------------------------------
TypeOK ==
  /\ client \in [Clients -> ClientPC]
  /\ current \in [Clients -> Command]
  /\ signalled \subseteq Clients
  /\ writer \in [Clients -> [WriterId -> WriterState]]
  /\ request \in [Clients -> Seq(Command)]
  /\ response \in [Clients -> Seq([cmd : Command, part : Part])]
  /\ opened \subseteq Clients
  /\ handler \in [Clients -> HandlerPC]
  /\ buffer \in [Clients -> Command]
  /\ child \in [Pids -> {NoChild} \cup CommandChild \cup ResponseChild]
  /\ program \subseteq Clients
  /\ executed \in [Clients -> [Command -> 0 .. 2]]
  /\ written \subseteq Clients \X Command

(* The threads inside wait(). *)
Waiting == {c \in Clients : handler[c] \in {"exec", "wait", "wait_error", "wait_last"}}

(* Every child that nobody has waited for has one thread inside wait(): no
   wait() fails for want of a child, which handle_request and send_response
   would take for a success, and no child stays a zombie, although the
   threads take the children of one another (server.c:279,
   connection.c:459). *)
ChildrenAwaited ==
  (\A c \in Clients : handler[c] # "killed") =>
  Cardinality({p \in Pids : child[p] # NoChild}) = Cardinality(Waiting)

(* What a client reads while it waits is the response to the command it has
   just sent, the size before the message: no late response to an earlier
   command, nor one to a command executed again, reaches it
   (connection.c:494-521). *)
AnswersCurrent ==
  \A c \in Clients :
    client[c] \in {"select", "msg"} /\ response[c] # << >> =>
      Head(response[c]) = [cmd |-> current[c],
                           part |-> IF client[c] = "select" THEN "size" ELSE "msg"]

(* A thread that has come there reads no other command. *)
Refusing == {"answer_last", "wait_last", "remove", "removed", "killed"}

CallState(c) ==
  CASE client[c] \in {"leaving", "timed_out", "left", "dead"} \cup InterruptedPC -> "gone"
    [] client[c] = "prompt" -> "idle"
    [] OTHER ->
         LET n == IF current[c] = Exit THEN IF buffer[c] = Exit THEN 1 ELSE 0
                                       ELSE executed[c][current[c]]
         IN CASE n = 1 -> "executed"
              [] n = 2 -> "repeated"
              [] n = 0 /\ handler[c] \in Refusing -> "refused"
              [] OTHER -> "submitted"

RC == INSTANCE RemoteCall WITH call <- [c \in Clients |-> CallState(c)]

(* As long as the client waits, its command is executed once, and it is not
   answered before, or it is refused and never executed (server.c:235-320,
   client.c:124-182). *)
ImplementsRemoteCall == RC!Spec

(* "1 en cas de succes [...] 0 si le timeout a ete atteint"
   (connection.h:195-197): send_response returns 1 to the loop of a thread
   only when the response of that thread was written whole. *)
SuccessIsDelivery ==
  [][\A c \in Clients :
       handler[c] = "wait" /\ handler'[c] = "listen" => <<c, buffer[c]>> \in written]_vars

Awaits(c) == client[c] \in {"select", "msg", "spin"}

(* "Ecoute la requete envoyee par le client et stock la commande a executer
   dans buffer" (connection.h:151): while its client waits, a command sent
   once is not executed twice. *)
NoReexecution ==
  \A c \in Clients : Awaits(c) => executed[c][current[c]] < 2

(* send_request returns, whatever the server does: the alarm ends its writer
   (connection.c:281-332). *)
SendReturns == \A c \in Clients : client[c] = "sending" ~> client[c] # "sending"

(* A client that waits for the response to a command that was executed is
   answered, or gives up, or is told to leave: should it loop on a response
   that its writer left unfinished, SIGUSR2 ends it (server.c:306-311).  Only
   the end of the server leaves it looping. *)
CommandReturns ==
  \A c \in Clients :
    (Awaits(c) /\ executed[c][current[c]] > 0)
      ~> (~Awaits(c) \/ (client[c] = "spin" /\ handler[c] = "killed"))

(* "Libere les ressources du client et le deconnecte en cas d'interruption
   par un signal" (client.c:21): the handler comes back from the sending of
   "exit", which the alarm of its writer is there for. *)
InterruptEnds ==
  \A c \in Clients :
    client[c] \in {"exit_sending", "exit_listening"}
      ~> client[c] \notin {"exit_sending", "exit_listening"}

(* An interrupted client leaves as long as its thread does: what may hold it
   is the open of a request pipe whose thread has ended or cannot come back,
   or a response that its writer left unfinished, with SIGUSR2 blocked
   (client.c:64, 208-243). *)
InterruptReturns ==
  \A c \in Clients :
    client[c] \in InterruptedPC ~>
      \/ Gone(c)
      \/ client[c] = "exit_spin"
      \/ /\ writer[c]["exit"] = "open"
         /\ \/ handler[c] \in {"removed", "killed"}
            \/ Children(c, "command", {"blocked"}) # {}

(* A command reported as sent by send_request is executed, even when its
   client has left by then, unless its thread ends for want of a pipe or
   with the server
   (connection.c:281-357). *)
SentIsExecuted ==
  \A c \in Clients : \A k \in 1 .. MaxCommands :
    (client[c] = "select" /\ current[c] = k)
      ~> (executed[c][k] > 0 \/ handler[c] \in {"removed", "killed"})

(* A thread does not stay anywhere but in the open of the request pipe: it
   comes back there, or ends, or waits for a command whose output is too big
   (server.c:221-332). *)
ThreadsProgress ==
  \A c \in Clients :
    handler[c] # "open" ~>
      \/ handler[c] \in {"open", "removed", "killed"}
      \/ handler[c] = "exec" /\ Children(c, "command", {"blocked"}) # {}

=============================================================================
