---------------------------- MODULE SessionProofs ----------------------------
(***************************************************************************)
(* Proofs about Session, for every finite set of clients and of pids,      *)
(* number of commands and combination of faults.                           *)
(***************************************************************************)
EXTENDS Session, FiniteSetTheorems, SequenceTheorems, TLAPS

-----------------------------------------------------------------------------
(* Types *)

(* A client that prompts has not sent "exit": there is a next command. *)
PromptBeforeExit == \A c \in Clients : client[c] = "prompt" => current[c] # Exit

(* With that, the types are inductive. *)
Types == TypeOK /\ PromptBeforeExit

(* Exit is the command after the last one that a user types. *)
LEMMA Commands ==
  /\ Garbage \in Command /\ Exit \in Command /\ Garbage # Exit
  /\ \A k \in Command : k # Exit => k + 1 \in Command
  BY MaxCommandsAssumption DEF Command, Exit, Garbage

(* The sequences of the pipes keep their types. *)
LEMMA PipeTypes ==
  ASSUME TypeOK, NEW c \in Clients
  PROVE  /\ request[c] \in Seq(Command) /\ response[c] \in Seq([cmd : Command, part : Part])
         /\ request[c] # << >> => Head(request[c]) \in Command /\ Tail(request[c]) \in Seq(Command)
         /\ response[c] # << >> => Tail(response[c]) \in Seq([cmd : Command, part : Part])
<1>1. request[c] \in Seq(Command) /\ response[c] \in Seq([cmd : Command, part : Part])
  BY DEF TypeOK
<1>2. QED
  BY <1>1, HeadTailProperties

(* The steps of the main loop of a client and of its handlers. *)
LEMMA TypesClient ==
  ASSUME Types, NEW c \in Clients,
         Type(c) \/ Interrupt(c) \/ Kill(c) \/ ClientStep(c)
  PROVE  Types'
<1> USE DEF Types, TypeOK, clientSide, pipes, threads, children, history,
            ClientGoto, WriterGoto, ClientPC, InterruptedPC, WriterId, WriterState
<1>1. CASE Type(c)
  <2>1. current' \in [Clients -> Command]
    BY <1>1, Commands DEF Type, PromptBeforeExit
  <2>2. TypeOK'
    BY <1>1, <2>1 DEF Type
  <2>3. PromptBeforeExit'
    BY <1>1 DEF Type, PromptBeforeExit
  <2>4. QED
    BY <2>2, <2>3
<1>2. CASE Interrupt(c)
  BY <1>2 DEF Interrupt, PromptBeforeExit
<1>3. CASE Kill(c)
  BY <1>3 DEF Kill, PromptBeforeExit
<1>4. CASE RequestSent(c)
  <2>1. PICK w \in WriterId : writer' = [writer EXCEPT ![c][w] = "none"]
    BY <1>4 DEF RequestSent
  <2>2. \E pc \in {"select", "exit_select", "left", "timed_out", "leaving"} :
          client' = [client EXCEPT ![c] = pc]
    BY <1>4 DEF RequestSent
  <2>3. opened' \subseteq Clients
    BY <1>4 DEF RequestSent
  <2>4. TypeOK'
    BY <1>4, <2>1, <2>2, <2>3 DEF RequestSent
  <2>5. PromptBeforeExit'
    BY <1>4, <2>2 DEF RequestSent, PromptBeforeExit
  <2>6. QED
    BY <2>4, <2>5
<1>5. CASE ReadSize(c)
  BY <1>5, PipeTypes DEF ReadSize, PromptBeforeExit
<1>6. CASE ReadMsg(c)
  <2>1. \E pc \in {"leaving", "timed_out", "prompt"} :
          client' = [client EXCEPT ![c] = pc] /\ (pc = "prompt" => current[c] # Exit)
    BY <1>6 DEF ReadMsg, ReadMsgThen
  <2>2. /\ response' = [response EXCEPT ![c] = Tail(@)] /\ response[c] # << >>
        /\ UNCHANGED <<current, signalled, writer, request, opened, threads, children, history>>
    BY <1>6 DEF ReadMsg, ReadMsgThen
  <2>3. TypeOK'
    BY <2>1, <2>2, PipeTypes
  <2>4. PromptBeforeExit'
    BY <2>1, <2>2 DEF PromptBeforeExit
  <2>5. QED
    BY <2>3, <2>4
<1>7. CASE SelectTimeout(c)
  BY <1>7 DEF SelectTimeout, SelectTimeoutThen, PromptBeforeExit
<1>8. CASE ReadEnded(c)
  BY <1>8 DEF ReadEnded, PromptBeforeExit
<1>9. CASE Leave(c) \/ SigDisconnect(c)
  BY <1>9 DEF Leave, SigDisconnect, PromptBeforeExit
<1>10. QED
  BY <1>1, <1>2, <1>3, <1>4, <1>5, <1>6, <1>7, <1>8, <1>9 DEF ClientStep

(* A request pipe that loses what it holds, and a writer that goes on. *)
LEMMA WriterType ==
  ASSUME TypeOK, NEW c \in Clients, NEW w \in WriterId, NEW at \in WriterState,
         WriterGoto(c, w, at)
  PROVE  writer' \in [Clients -> [WriterId -> WriterState]]
<1>1. writer \in [Clients -> [WriterId -> WriterState]]
  BY DEF TypeOK
<1>2. writer[c] \in [WriterId -> WriterState]
  BY <1>1
<1>3. [writer[c] EXCEPT ![w] = at] \in [WriterId -> WriterState]
  BY <1>2
<1>4. QED
  BY <1>1, <1>3 DEF WriterGoto

(* A request that a client sends has the type of one. *)
LEMMA RequestType ==
  ASSUME TypeOK, NEW c \in Clients, LoseRequest(c) \/ UNCHANGED request
  PROVE  request' \in [Clients -> Seq(Command)]
<1>1. request \in [Clients -> Seq(Command)] /\ << >> \in Seq(Command)
  BY EmptySeq DEF TypeOK
<1>2. QED
  BY <1>1 DEF LoseRequest

(* The steps of the writers of a client. *)
LEMMA TypesWriter ==
  ASSUME Types, NEW c \in Clients, NEW w \in WriterId,
         WriterTooLate(c, w) \/ WriterStep(c, w)
  PROVE  Types'
<1>1. PromptBeforeExit'
  BY DEF Types, PromptBeforeExit, clientSide, WriterTooLate, WriterStep, RequestPipeOpens,
         WriterOpens, WriteRequest, WriterExit, WriterAlarm, WriterEnds
<1>2. \E v \in WriterId : \E at \in WriterState :
        \/ WriterGoto(c, v, at)
        \/ RequestPipeOpens(c)
  BY DEF WriterId, WriterState, WriterTooLate, WriterStep, WriterOpens, WriteRequest,
         WriterExit, WriterAlarm, WriterEnds
<1>3. writer' \in [Clients -> [WriterId -> WriterState]]
  <2>1. CASE RequestPipeOpens(c)
    BY <2>1 DEF RequestPipeOpens, Types, TypeOK, WriterState
  <2>2. QED
    BY <1>2, <2>1, WriterType DEF Types
<1>4. request' \in [Clients -> Seq(Command)]
  <2>1. CASE WriteRequest(c, w) /\ handler[c] = "read"
    <3>1. Append(request[c], IF w = "exit" THEN Exit ELSE current[c]) \in Seq(Command)
      BY PipeTypes, Commands, AppendProperties DEF Types, TypeOK
    <3>2. QED
      BY <2>1, <3>1 DEF WriteRequest, Types, TypeOK
  <2>2. CASE ~(WriteRequest(c, w) /\ handler[c] = "read")
    <3>1. LoseRequest(c) \/ UNCHANGED request
      BY <2>2 DEF WriterTooLate, WriterStep, RequestPipeOpens, WriterOpens, WriteRequest,
                  WriterExit, WriterAlarm, WriterEnds, pipes
    <3>2. QED
      BY <3>1, RequestType DEF Types
  <2>3. QED
    BY <2>1, <2>2
<1>5. handler' \in [Clients -> HandlerPC]
  BY DEF Types, TypeOK, HandlerPC, HandlerGoto, threads, WriterTooLate, WriterStep,
         RequestPipeOpens, WriterOpens, WriteRequest, WriterExit, WriterAlarm, WriterEnds
<1>6. UNCHANGED <<client, current, signalled, response, opened, buffer, children, history>>
  BY DEF threads, pipes, WriterTooLate, WriterStep, RequestPipeOpens, WriterOpens,
         WriteRequest, WriterExit, WriterAlarm, WriterEnds
<1>7. QED
  BY <1>1, <1>3, <1>4, <1>5, <1>6 DEF Types, TypeOK, children, history

(* wait() empties the place of a child that was there. *)
LEMMA WaitType ==
  ASSUME TypeOK, NEW states, Wait(states)
  PROVE  child' \in [Pids -> {NoChild} \cup CommandChild \cup ResponseChild]
  BY DEF TypeOK, Wait

(* fork fills an empty one. *)
LEMMA ForkType ==
  ASSUME TypeOK, NEW new \in CommandChild \cup ResponseChild, Fork(new)
  PROVE  child' \in [Pids -> {NoChild} \cup CommandChild \cup ResponseChild]
  BY DEF TypeOK, Fork

(* The steps of the thread of a client. *)
LEMMA TypesHandle ==
  ASSUME Types, NEW c \in Clients, Handle(c)
  PROVE  Types'
<1>1. UNCHANGED <<client, current, writer, response, opened, program>>
  BY DEF clientSide, pipes, children, Handle, CallOpen, ReadRequest, TakeRequest, ReadNothing,
         Dispatch, WaitCommand, ReadOutput, Answer, SendResponse, ResponseSent,
         ResponseTimedOut, ResponseIgnored, Remove
<1>2. PromptBeforeExit'
  BY <1>1 DEF Types, PromptBeforeExit
<1>3. \E pc \in HandlerPC : HandlerGoto(c, pc)
  BY DEF HandlerPC, Handle, CallOpen, ReadRequest, TakeRequest, ReadNothing,
         Dispatch, WaitCommand, ReadOutput, Answer, SendResponse, ResponseSent,
         ResponseTimedOut, ResponseIgnored, Remove
<1>4. handler' \in [Clients -> HandlerPC]
  BY <1>3 DEF HandlerGoto, Types, TypeOK
<1>5. request' \in [Clients -> Seq(Command)] /\ buffer' \in [Clients -> Command]
  <2>1. CASE ReadRequest(c)
    BY <2>1, PipeTypes, EmptySeq DEF ReadRequest, TakeRequest, Types, TypeOK
  <2>2. CASE ReadNothing(c)
    BY <2>2, Commands DEF ReadNothing, pipes, Types, TypeOK
  <2>3. CASE UNCHANGED <<request, buffer>>
    BY <2>3 DEF Types, TypeOK
  <2>4. QED
    BY <2>1, <2>2, <2>3
    DEF pipes, threads, Handle, CallOpen, Dispatch, WaitCommand, ReadOutput, Answer,
        SendResponse, ResponseSent, ResponseTimedOut, ResponseIgnored, Remove
<1>6. child' \in [Pids -> {NoChild} \cup CommandChild \cup ResponseChild]
  <2>1. /\ [kind |-> "command", of |-> c, cmd |-> buffer[c], at |-> "running"] \in CommandChild
        /\ [kind |-> "response", of |-> c, cmd |-> buffer[c], at |-> "start"] \in ResponseChild
    BY DEF Types, TypeOK, CommandChild, ResponseChild
  <2>2. CASE Dispatch(c)
    BY <2>1, <2>2, ForkType DEF Dispatch, Types, TypeOK
  <2>3. CASE Answer(c)
    BY <2>1, <2>3, ForkType DEF Answer, SendResponse, Types, TypeOK
  <2>4. CASE WaitCommand(c) \/ ResponseSent(c) \/ ResponseTimedOut(c) \/ ResponseIgnored(c)
    BY <2>4, WaitType DEF WaitCommand, ResponseSent, ResponseTimedOut, ResponseIgnored, Types
  <2>5. CASE UNCHANGED child
    BY <2>5 DEF Types, TypeOK
  <2>6. QED
    BY <2>2, <2>3, <2>4, <2>5
    DEF children, Handle, CallOpen, ReadRequest, ReadNothing, ReadOutput, Remove
<1>7. executed' \in [Clients -> [Command -> 0 .. 2]] /\ written' = written
  <2>1. CASE Dispatch(c)
    <3>1. /\ executed[c] \in [Command -> 0 .. 2] /\ buffer[c] \in Command
          /\ executed \in [Clients -> [Command -> 0 .. 2]]
      BY DEF Types, TypeOK
    <3>2. (IF executed[c][buffer[c]] < 2 THEN executed[c][buffer[c]] + 1
                                          ELSE executed[c][buffer[c]]) \in 0 .. 2
      BY <3>1
    <3>3. QED
      BY <2>1, <3>1, <3>2 DEF Dispatch
  <2>2. CASE UNCHANGED <<executed, written>>
    BY <2>2 DEF Types, TypeOK
  <2>3. QED
    BY <2>1, <2>2
    DEF history, Handle, CallOpen, ReadRequest, ReadNothing, WaitCommand, ReadOutput, Answer,
        SendResponse, ResponseSent, ResponseTimedOut, ResponseIgnored, Remove
<1>8. signalled' \subseteq Clients
  BY DEF clientSide, Types, TypeOK, Handle, CallOpen, ReadRequest, ReadNothing, Dispatch,
         WaitCommand, ReadOutput, Answer, SendResponse, ResponseSent, ResponseTimedOut,
         ResponseIgnored, Remove
<1>9. QED
  BY <1>1, <1>2, <1>4, <1>5, <1>6, <1>7, <1>8 DEF Types, TypeOK

(* The steps of the children, and the end of the server. *)
LEMMA TypesChild ==
  ASSUME Types, NEW p \in Pids, ChildStep(p)
  PROVE  Types'
<1>1. /\ UNCHANGED <<clientSide, request, threads, executed>>
      /\ PromptBeforeExit'
  BY DEF Types, PromptBeforeExit, clientSide, pipes, history, ChildStep, RunCommand,
         OpenResponse, WriteResponse, ResponseExit, ResponseAlarm
<1>2. child[p] \in CommandChild \cup ResponseChild /\ child[p].of \in Clients
  <2>1. child[p].kind \in {"command", "response"}
    BY DEF ChildStep, RunCommand, OpenResponse, WriteResponse, ResponseExit, ResponseAlarm, ChildAt
  <2>2. child[p] # NoChild
    BY <2>1 DEF NoChild
  <2>3. child[p] \in CommandChild \cup ResponseChild
    BY <2>2 DEF Types, TypeOK
  <2>4. QED
    BY <2>3 DEF CommandChild, ResponseChild
<1>3. child' \in [Pids -> {NoChild} \cup CommandChild \cup ResponseChild]
  <2>1. \E at : /\ ChildGoto(p, at)
                /\ [child[p] EXCEPT !.at = at] \in CommandChild \cup ResponseChild
    <3>1. CASE child[p] \in CommandChild
      BY <3>1
      DEF CommandChild, ChildStep, RunCommand, OpenResponse, WriteResponse, ResponseExit,
          ResponseAlarm, ChildAt
    <3>2. CASE child[p] \in ResponseChild
      BY <3>2
      DEF ResponseChild, ChildStep, RunCommand, OpenResponse, WriteResponse, ResponseExit,
          ResponseAlarm, ChildAt
    <3>3. QED
      BY <1>2, <3>1, <3>2
  <2>2. QED
    BY <2>1 DEF ChildGoto, Types, TypeOK
<1>4. program' \subseteq Clients /\ opened' \subseteq Clients
  BY <1>2 DEF Types, TypeOK, ChildStep, RunCommand, OpenResponse, WriteResponse,
              ResponseExit, ResponseAlarm, pipes
<1>5. response' \in [Clients -> Seq([cmd : Command, part : Part])]
  <2>1. ASSUME NEW at \in Part
        PROVE  Append(response[child[p].of], [cmd |-> child[p].cmd, part |-> at])
                 \in Seq([cmd : Command, part : Part])
    <3>1. child[p].cmd \in Command
      BY <1>2 DEF CommandChild, ResponseChild
    <3>2. QED
      BY <1>2, <3>1, PipeTypes, AppendProperties DEF Types
  <2>2. CASE WriteResponse(p)
    <3>1. \/ response' = response
          \/ \E at \in Part : response' = [response EXCEPT ![child[p].of] =
                Append(response[child[p].of], [cmd |-> child[p].cmd, part |-> at])]
      BY <2>2 DEF WriteResponse
    <3>2. response \in [Clients -> Seq([cmd : Command, part : Part])]
      BY DEF Types, TypeOK
    <3>3. QED
      BY <1>2, <2>1, <3>1, <3>2
  <2>3. CASE UNCHANGED response
    BY <2>3 DEF Types, TypeOK
  <2>4. QED
    BY <2>2, <2>3 DEF ChildStep, RunCommand, OpenResponse, ResponseExit, ResponseAlarm, pipes
<1>6. written' \subseteq Clients \X Command
  <2>1. child[p].cmd \in Command
    BY <1>2 DEF CommandChild, ResponseChild
  <2>2. written' = written \/ written' = written \cup {<<child[p].of, child[p].cmd>>}
    BY DEF ChildStep, RunCommand, OpenResponse, WriteResponse, ResponseExit, ResponseAlarm, history
  <2>3. QED
    BY <1>2, <2>1, <2>2 DEF Types, TypeOK
<1>7. QED
  BY <1>1, <1>3, <1>4, <1>5, <1>6 DEF Types, TypeOK, clientSide, threads

(* Types, for the steps that end a session. *)
LEMMA TypesEnd ==
  ASSUME Types, ServerExit \/ (\E c \in Clients : ProgramEnds(c)) \/ UNCHANGED vars
  PROVE  Types'
<1>1. CASE ServerExit
  <2>1. request' \in [Clients -> Seq(Command)]
    BY <1>1, EmptySeq DEF ServerExit, Types, TypeOK
  <2>2. handler' \in [Clients -> HandlerPC]
    BY <1>1 DEF ServerExit, HandlerPC
  <2>3. QED
    BY <1>1, <2>1, <2>2
    DEF ServerExit, Types, TypeOK, PromptBeforeExit, clientSide, children, history
<1>2. CASE \E c \in Clients : ProgramEnds(c)
  BY <1>2 DEF ProgramEnds, Types, TypeOK, PromptBeforeExit, clientSide, pipes, threads, history
<1>3. CASE UNCHANGED vars
  BY <1>3 DEF vars, Types, TypeOK, PromptBeforeExit, clientSide, pipes, threads, children, history
<1>4. QED
  BY <1>1, <1>2, <1>3

(* Types at the start. *)
LEMMA TypesInit == Init => Types
  BY EmptySeq, Commands DEF Init, Types, TypeOK, PromptBeforeExit, ClientPC, WriterId, WriterState, HandlerPC, Unserved

(* Every step keeps Types. *)
LEMMA TypesStep == Types /\ [Next]_vars => Types'
  BY TypesClient, TypesWriter, TypesHandle, TypesChild, TypesEnd DEF Next

(* Every variable keeps its type, whatever the faults: a client that prompts
   has a next command, and a child belongs to a connected client. *)
THEOREM TypeCorrect == Spec => []TypeOK
<1>1. Types => TypeOK
  BY DEF Types
<1>2. QED
  BY TypesInit, TypesStep, <1>1, PTL DEF Spec

-----------------------------------------------------------------------------
(* The children and the threads that wait *)

(* Where the thread of a client has to wait for a child. *)
Awaiting == {"exec", "wait", "wait_error", "wait_last"}

(* The children that have not been waited for. *)
Living == {p \in Pids : child[p] # NoChild}

(* There are finitely many of both. *)
LEMMA CountsType ==
  /\ IsFiniteSet(Living) /\ Cardinality(Living) \in Nat
  /\ IsFiniteSet(Waiting) /\ Cardinality(Waiting) \in Nat
<1>1. Living \in SUBSET Pids /\ Waiting \in SUBSET Clients
  BY DEF Living, Waiting
<1>2. IsFiniteSet(Living) /\ IsFiniteSet(Waiting)
  BY <1>1, PidsAssumption, ClientsAssumption, FS_Subset
<1>3. QED
  BY <1>2, FS_CardinalityType

(* A thread that moves is counted where it arrives, and no more where it
   was. *)
LEMMA WaitingCount ==
  ASSUME TypeOK, NEW c \in Clients, NEW pc, HandlerGoto(c, pc)
  PROVE  Cardinality(Waiting)' = Cardinality(Waiting)
           + (IF pc \in Awaiting THEN 1 ELSE 0) - (IF handler[c] \in Awaiting THEN 1 ELSE 0)
<1>1. \A d \in Clients : handler'[d] = IF d = c THEN pc ELSE handler[d]
  BY DEF HandlerGoto, TypeOK
<1>2. IsFiniteSet(Waiting) /\ Cardinality(Waiting) \in Nat
  BY CountsType
<1>3. c \in Waiting <=> handler[c] \in Awaiting
  BY DEF Waiting, Awaiting
<1>4. CASE pc \in Awaiting
  <2>1. Waiting' = Waiting \cup {c}
    BY <1>1, <1>4 DEF Waiting, Awaiting
  <2>2. QED
    BY <2>1, <1>2, <1>3, <1>4, FS_AddElement
<1>5. CASE pc \notin Awaiting
  <2>1. Waiting' = Waiting \ {c}
    BY <1>1, <1>5 DEF Waiting, Awaiting
  <2>2. Cardinality(Waiting \ {c}) =
          IF handler[c] \in Awaiting THEN Cardinality(Waiting) - 1 ELSE Cardinality(Waiting)
    BY <1>2, <1>3, FS_RemoveElement
  <2>3. QED
    BY <2>1, <2>2, <1>2, <1>5
<1>6. QED
  BY <1>4, <1>5

(* fork makes one child more, wait() one less. *)
LEMMA ForkCount ==
  ASSUME TypeOK, NEW new, new # NoChild, Fork(new)
  PROVE  Cardinality(Living)' = Cardinality(Living) + 1
<1>1. PICK p \in Pids : child[p] = NoChild /\ child' = [child EXCEPT ![p] = new]
  BY DEF Fork
<1>2. Living' = Living \cup {p} /\ p \notin Living
  BY <1>1 DEF Living, TypeOK
<1>3. QED
  BY <1>2, CountsType, FS_AddElement

(* A child that is waited for is one less. *)
LEMMA WaitCount ==
  ASSUME TypeOK, NEW states, Wait(states)
  PROVE  Cardinality(Living)' = Cardinality(Living) - 1
<1>1. PICK p \in Pids : child[p] # NoChild /\ child' = [child EXCEPT ![p] = NoChild]
  BY DEF Wait
<1>2. Living' = Living \ {p} /\ p \in Living
  BY <1>1 DEF Living, TypeOK
<1>3. QED
  BY <1>2, CountsType, FS_RemoveElement

(* A child that goes on is there as long as nobody waits for it. *)
LEMMA ChildStepCount ==
  ASSUME Types, NEW p \in Pids, ChildStep(p)
  PROVE  Living' = Living
<1>1. child[p].kind \in {"command", "response"} /\ \E at : ChildGoto(p, at)
  BY DEF ChildStep, RunCommand, OpenResponse, WriteResponse, ResponseExit, ResponseAlarm, ChildAt
<1>2. child[p] \in CommandChild \cup ResponseChild
  BY <1>1 DEF Types, TypeOK, NoChild
<1>3. \A at : [child[p] EXCEPT !.at = at].kind = child[p].kind
  BY <1>2 DEF CommandChild, ResponseChild
<1>4. \A q \in Pids : child'[q] # NoChild <=> child[q] # NoChild
  BY <1>1, <1>3 DEF ChildGoto, Types, TypeOK, NoChild
<1>5. QED
  BY <1>4 DEF Living

(* Every child has a thread in wait(), and every thread in wait() a child. *)
Balanced == Cardinality(Living) = Cardinality(Waiting)

(* As long as the server runs, the counts change together. *)
LEMMA HandleBalanced ==
  ASSUME Types, Balanced, NEW c \in Clients, Handle(c)
  PROVE  Balanced'
<1> USE DEF Types, Balanced, Awaiting
<1>1. CASE Dispatch(c)
  <2>1. CASE buffer[c] # Exit /\ HandlerGoto(c, "exec")
               /\ Fork([kind |-> "command", of |-> c, cmd |-> buffer[c], at |-> "running"])
    <3>1. Cardinality(Living)' = Cardinality(Living) + 1
      BY <2>1, ForkCount DEF NoChild
    <3>2. Cardinality(Waiting)' = Cardinality(Waiting) + 1
      BY <1>1, <2>1, WaitingCount, CountsType DEF Dispatch
    <3>3. QED
      BY <3>1, <3>2
  <2>2. ASSUME NEW pc \in {"answer_last", "remove"}, HandlerGoto(c, pc), UNCHANGED child
        PROVE  Balanced'
    <3>1. Cardinality(Waiting)' = Cardinality(Waiting)
      BY <1>1, <2>2, WaitingCount, CountsType DEF Dispatch
    <3>2. QED
      BY <2>2, <3>1 DEF Living
  <2>3. QED
    BY <1>1, <2>1, <2>2 DEF Dispatch
<1>2. CASE Answer(c)
  <2>1. ASSUME NEW pc \in {"wait", "wait_error", "wait_last"}, HandlerGoto(c, pc),
               Fork([kind |-> "response", of |-> c, cmd |-> buffer[c], at |-> "start"])
        PROVE  Balanced'
    <3>1. Cardinality(Living)' = Cardinality(Living) + 1
      BY <2>1, ForkCount DEF NoChild
    <3>2. Cardinality(Waiting)' = Cardinality(Waiting) + 1
      BY <1>2, <2>1, WaitingCount, CountsType DEF Answer, SendResponse
    <3>3. QED
      BY <3>1, <3>2
  <2>2. ASSUME NEW pc \in {"remove", "dispatch"}, HandlerGoto(c, pc), UNCHANGED child
        PROVE  Balanced'
    <3>1. Cardinality(Waiting)' = Cardinality(Waiting)
      BY <1>2, <2>2, WaitingCount, CountsType DEF Answer, SendResponse
    <3>2. QED
      BY <2>2, <3>1 DEF Living
  <2>3. QED
    BY <1>2, <2>1, <2>2 DEF Answer, SendResponse
<1>3. CASE WaitCommand(c) \/ ResponseSent(c) \/ ResponseTimedOut(c) \/ ResponseIgnored(c)
  <2>1. Cardinality(Living)' = Cardinality(Living) - 1
    BY <1>3, WaitCount DEF WaitCommand, ResponseSent, ResponseTimedOut, ResponseIgnored
  <2>2. \E pc \in {"output", "listen", "remove", "dispatch"} :
          HandlerGoto(c, pc) /\ handler[c] \in Awaiting
    BY <1>3 DEF WaitCommand, ResponseSent, ResponseTimedOut, ResponseIgnored
  <2>3. Cardinality(Waiting)' = Cardinality(Waiting) - 1
    BY <2>2, WaitingCount, CountsType
  <2>4. QED
    BY <2>1, <2>3
<1>4. CASE CallOpen(c) \/ ReadRequest(c) \/ ReadNothing(c) \/ ReadOutput(c) \/ Remove(c)
  <2>1. UNCHANGED child
    BY <1>4 DEF children, CallOpen, ReadRequest, ReadNothing, ReadOutput, Remove
  <2>2. \E pc \in HandlerPC \ Awaiting : HandlerGoto(c, pc) /\ handler[c] \notin Awaiting
    BY <1>4 DEF HandlerPC, CallOpen, ReadRequest, TakeRequest, ReadNothing, ReadOutput, Remove
  <2>3. Cardinality(Waiting)' = Cardinality(Waiting)
    BY <2>2, WaitingCount, CountsType
  <2>4. QED
    BY <2>1, <2>3 DEF Living
<1>5. QED
  BY <1>1, <1>2, <1>3, <1>4 DEF Handle

(* Once the server has ended it does not come back. *)
LEMMA KilledStays ==
  ASSUME Types, [Next]_vars, NEW c \in Clients, handler[c] = "killed"
  PROVE  handler'[c] = "killed"
<1>1. ASSUME NEW d \in Clients, NEW w \in WriterId, WriterTooLate(d, w) \/ WriterStep(d, w)
      PROVE  handler'[c] = "killed"
  BY <1>1 DEF Types, TypeOK, WriterTooLate, WriterStep, RequestPipeOpens, WriterOpens,
              WriteRequest, WriterExit, WriterAlarm, WriterEnds, HandlerGoto, threads
<1>2. ASSUME NEW d \in Clients, Handle(d)
      PROVE  handler'[c] = "killed"
  BY <1>2 DEF Types, TypeOK, Handle, CallOpen, ReadRequest, TakeRequest, ReadNothing,
              Dispatch, WaitCommand, ReadOutput, Answer, SendResponse, ResponseSent,
              ResponseTimedOut, ResponseIgnored, Remove, HandlerGoto
<1>3. CASE ServerExit
  BY <1>3 DEF ServerExit
<1>4. ASSUME NEW d \in Clients,
             Type(d) \/ Interrupt(d) \/ Kill(d) \/ ClientStep(d) \/ ProgramEnds(d)
      PROVE  handler'[c] = "killed"
  BY <1>4 DEF threads, Type, Interrupt, Kill, ClientStep, ProgramEnds, RequestSent, ReadSize,
              ReadMsg, ReadMsgThen, SelectTimeout, SelectTimeoutThen, ReadEnded, Leave,
              SigDisconnect
<1>5. ASSUME NEW p \in Pids, ChildStep(p)
      PROVE  handler'[c] = "killed"
  BY <1>5 DEF threads, ChildStep, RunCommand, OpenResponse, WriteResponse, ResponseExit,
              ResponseAlarm
<1>6. QED
  BY <1>1, <1>2, <1>3, <1>4, <1>5 DEF Next, vars, threads

(* Every step keeps what is known of the children. *)
LEMMA AwaitedStep ==
  ASSUME Types, ChildrenAwaited, [Next]_vars
  PROVE  ChildrenAwaited'
<1>1. CASE \E c \in Clients : handler[c] = "killed"
  BY <1>1, KilledStays DEF ChildrenAwaited
<1> SUFFICES ASSUME Balanced PROVE ChildrenAwaited'
  BY <1>1 DEF ChildrenAwaited, Balanced, Living
<1>2. Balanced' => ChildrenAwaited'
  BY DEF ChildrenAwaited, Balanced, Living
<1>3. ASSUME UNCHANGED <<handler, child>>
      PROVE  Balanced'
  BY <1>3 DEF Balanced, Living, Waiting
<1>4. ASSUME NEW c \in Clients, Handle(c)
      PROVE  Balanced'
  BY <1>4, HandleBalanced
<1>5. ASSUME NEW c \in Clients, NEW w \in WriterId, WriterTooLate(c, w) \/ WriterStep(c, w)
      PROVE  Balanced'
  <2>1. CASE RequestPipeOpens(c)
    <3>1. Cardinality(Waiting)' = Cardinality(Waiting)
      BY <2>1, WaitingCount, CountsType DEF RequestPipeOpens, Awaiting, Types
    <3>2. QED
      BY <2>1, <3>1 DEF RequestPipeOpens, children, Balanced, Living
  <2>2. CASE UNCHANGED <<threads, children>>
    BY <2>2, <1>3 DEF threads, children
  <2>3. QED
    BY <1>5, <2>1, <2>2 DEF WriterTooLate, WriterStep, WriterOpens, WriteRequest, WriterExit,
                            WriterAlarm, WriterEnds
<1>6. ASSUME NEW p \in Pids, ChildStep(p)
      PROVE  Balanced'
  <2>1. Living' = Living
    BY <1>6, ChildStepCount
  <2>2. UNCHANGED handler
    BY <1>6 DEF threads, ChildStep, RunCommand, OpenResponse, WriteResponse, ResponseExit,
                ResponseAlarm
  <2>3. QED
    BY <2>1, <2>2 DEF Balanced, Waiting
<1>7. CASE ServerExit
  BY <1>7 DEF ServerExit, ChildrenAwaited
<1>8. ASSUME NEW c \in Clients,
             Type(c) \/ Interrupt(c) \/ Kill(c) \/ ClientStep(c) \/ ProgramEnds(c)
      PROVE  Balanced'
  BY <1>3, <1>8
  DEF threads, children, Type, Interrupt, Kill, ClientStep, ProgramEnds, RequestSent, ReadSize,
      ReadMsg, ReadMsgThen, SelectTimeout, SelectTimeoutThen, ReadEnded, Leave, SigDisconnect
<1>9. CASE UNCHANGED vars
  <2>1. UNCHANGED <<handler, child>>
    BY <1>9 DEF vars, threads, children
  <2>2. QED
    BY <2>1, <1>2, <1>3
<1>10. QED
  BY <1>2, <1>4, <1>5, <1>6, <1>7, <1>8, <1>9 DEF Next

(* No wait() fails for want of a child, and no child stays a zombie, although
   the threads of all the clients take the children of one another. *)
THEOREM ChildrenAwaitedTheorem == Spec => []ChildrenAwaited
<1>1. Init => ChildrenAwaited
  <2> SUFFICES ASSUME Init PROVE ChildrenAwaited
    OBVIOUS
  <2>1. {p \in Pids : child[p] # NoChild} = {} /\ Waiting = {}
    BY DEF Init, Unserved, Waiting
  <2>2. QED
    BY <2>1 DEF ChildrenAwaited
<1>2. Types /\ ChildrenAwaited /\ [Next]_vars => ChildrenAwaited'
  BY AwaitedStep
<1>3. QED
  BY TypesInit, TypesStep, <1>1, <1>2, PTL DEF Spec
=============================================================================
