---------------------------- MODULE SessionAlone ----------------------------
(***************************************************************************)
(* Proofs about Session with a single client, for every set of pids,       *)
(* number of commands and combination of faults.  With two clients the     *)
(* threads take the children of one another, and the runs                  *)
(* session_reexecutes and session_verdict show what is lost then.          *)
(*                                                                         *)
(* The invariant is a walk through one command: where the client, its      *)
(* writer, its thread, the child of the thread and the two pipes can be    *)
(* together, as long as the client is in its main loop.                    *)
(***************************************************************************)
EXTENDS SessionProofs

(* No two clients are connected at once. *)
Alone == \A c, d \in Clients : c = d

(* The main loop of a client, no signal of the user having come. *)
MainLoop == {"prompt", "sending", "select", "msg", "spin"}

(* Where a thread has nothing more to answer. *)
Closing == {"wait", "wait_last", "remove", "removed", "killed"}

Idling == Closing \cup {"start", "listen", "open"}

(* Where a thread goes from the request it has read to its response. *)
Busy == {"dispatch", "exec", "output", "answer", "answer_last", "wait", "wait_last", "killed"}

(* What is known of the child of the server, if there is one. *)
Kid(kind, states) ==
  \A p \in Pids : child[p] # NoChild => child[p].kind = kind /\ child[p].at \in states

NoKid == \A p \in Pids : child[p] = NoChild

CommandKid == Kid("command", {"running", "blocked", "ok"})

(* The last response is written or lost. *)
Over == Kid("response", {"close", "ok", "failed"})

Size(c) == [cmd |-> current[c], part |-> "size"]

Msg(c) == [cmd |-> current[c], part |-> "msg"]

(* Where the main loop and its writer are, until the response pipe is read. *)
Sends(c, states) == client[c] = "sending" /\ writer[c]["cmd"] \in states

Sent(c) ==
  \/ Sends(c, {"close", "ok"})
  \/ client[c] = "select" /\ writer[c]["cmd"] = "none" /\ c \notin opened

(* The thread has not read the last command. *)
Unread(c) == buffer[c] < current[c] /\ response[c] = << >>

(* It has. *)
Taken(c) == buffer[c] = current[c] /\ current[c] # Garbage /\ request[c] = << >>

-----------------------------------------------------------------------------
(* The phases of a command *)

(* The user has typed nothing yet. *)
Idle(c) ==
  /\ client[c] = "prompt" /\ writer[c]["cmd"] = "none"
  /\ request[c] = << >> /\ response[c] = << >>
  /\ handler[c] \in Idling /\ Over

(* The writer waits for the thread to open the request pipe. *)
Calling(c) ==
  /\ Sends(c, {"open"})
  /\ Unread(c) /\ request[c] = << >>
  /\ handler[c] \in Idling /\ Over

(* Both have it open. *)
Connected(c) ==
  /\ Sends(c, {"write"})
  /\ Unread(c) /\ request[c] = << >>
  /\ handler[c] \in {"read", "killed"} /\ NoKid

(* The command is in the pipe. *)
Asked(c) ==
  /\ Sent(c)
  /\ Unread(c) /\ NoKid
  /\ \/ handler[c] = "read" /\ request[c] = <<current[c]>>
     \/ handler[c] = "killed" /\ request[c] \in {<< >>, <<current[c]>>}

(* The writer has failed: the client is about to leave. *)
GivenUp(c) ==
  /\ Sends(c, {"failed"})
  /\ Unread(c) /\ request[c] \in {<< >>, <<current[c]>>}
  /\ handler[c] \notin {"answer_error", "wait_error"}

(* The thread has the command, and no part of the response is written. *)
Working(c) ==
  /\ Sent(c) \/ Sends(c, {"failed"})
  /\ Taken(c) /\ response[c] = << >>
  /\ handler[c] \in Busy
  /\ CommandKid \/ Kid("response", {"start", "open"})

(* The response is being written. *)
Answering(c) ==
  /\ writer[c]["cmd"] = "none"
  /\ Taken(c)
  /\ handler[c] \in {"wait", "wait_last", "killed"} /\ ~NoKid
  /\ \/ client[c] = "select" /\ response[c] = << >> /\ Kid("response", {"size"})
     \/ client[c] = "select" /\ response[c] = <<Size(c)>> /\ Kid("response", {"msg"})
     \/ client[c] = "msg" /\ response[c] = << >> /\ Kid("response", {"msg"})

(* It failed before the client opened the response pipe. *)
Unanswered(c) ==
  /\ Sends(c, {"close", "ok", "failed"})
  /\ Taken(c) /\ response[c] = << >>
  /\ handler[c] \in Closing /\ Kid("response", {"failed"})

(* Nothing more will be written. *)
Answered(c) ==
  /\ writer[c]["cmd"] = "none"
  /\ Taken(c)
  /\ handler[c] \in Idling \ {"start"} /\ Over
  /\ \/ client[c] = "select" /\ response[c] \in {<< >>, <<Size(c)>>, <<Size(c), Msg(c)>>}
     \/ client[c] = "msg" /\ response[c] \in {<< >>, <<Msg(c)>>}
     \/ client[c] = "spin" /\ response[c] = << >>

Phase(c) ==
  \/ Idle(c) \/ Calling(c) \/ Connected(c) \/ Asked(c) \/ GivenUp(c)
  \/ Working(c) \/ Answering(c) \/ Unanswered(c) \/ Answered(c)

InTurn(c) == client[c] \in MainLoop => writer[c]["exit"] = "none" /\ Phase(c)

(* The child of the server is the one its thread waits for, and a response
   that was written whole is recorded. *)
KidOf(c) ==
  /\ handler[c] # "killed" => (~NoKid <=> handler[c] \in Awaiting)
  /\ handler[c] = "exec" => CommandKid
  /\ \A p \in Pids : child[p] # NoChild =>
       /\ child[p].cmd = buffer[c]
       /\ handler[c] \in Awaiting \ {"exec"} => child[p].kind = "response"
       /\ child[p].kind = "response" /\ child[p].at \in {"close", "ok"} => <<c, buffer[c]>> \in written

OneKid == \A p, q \in Pids : child[p] # NoChild /\ child[q] # NoChild => p = q

(* How often the last command was executed. *)
Counted(c) ==
  client[c] \in MainLoop =>
    /\ buffer[c] <= current[c]
    /\ \A k \in Command : k > current[c] => executed[c][k] = 0
    /\ client[c] # "prompt" =>
         /\ executed[c][current[c]] \in {0, 1}
         /\ buffer[c] # current[c] \/ handler[c] = "dispatch" => executed[c][current[c]] = 0
         /\ buffer[c] = current[c] /\ handler[c] \in {"exec", "output", "answer", "wait", "listen", "open"}
              => current[c] = Exit \/ executed[c][current[c]] = 1

Dialogue == OneKid /\ \A c \in Clients : InTurn(c) /\ KidOf(c) /\ Counted(c)

-----------------------------------------------------------------------------
(* The phases, step by step *)

(* What a step of the client leaves alone. *)
ServerStays == UNCHANGED <<handler, buffer, child, request>>

(* As long as they stay, so does what is known of them. *)
LEMMA KidStays ==
  ASSUME UNCHANGED child, NEW kind, NEW states
  PROVE  Kid(kind, states)' = Kid(kind, states) /\ NoKid' = NoKid
  BY DEF Kid, NoKid

(* The user types a command. *)
LEMMA TypeTurn ==
  ASSUME Types, NEW c \in Clients, InTurn(c), Counted(c), Type(c)
  PROVE  InTurn(c)'
<1>1. Idle(c) /\ writer[c]["exit"] = "none" /\ buffer[c] <= current[c]
  BY DEF InTurn, Counted, Phase, Type, MainLoop, Idle, Calling, Connected, Asked, GivenUp,
         Working,
         Answering, Unanswered, Answered, Sends, Sent
<1>2. /\ client'[c] = "sending" /\ writer'[c]["cmd"] = "open" /\ writer'[c]["exit"] = writer[c]["exit"]
      /\ UNCHANGED <<handler, buffer, child, request, response>>
  BY DEF Type, clientSide, pipes, threads, children, WriterGoto, ClientGoto, Types, TypeOK,
         WriterId
<1>3. current'[c] \in {current[c] + 1, Exit} /\ current[c] < current'[c]
  <2>1. current[c] \in 0 .. MaxCommands
    BY <1>1, MaxCommandsAssumption DEF Idle, Types, TypeOK, PromptBeforeExit, Command, Garbage,
                                       Exit
  <2>2. current'[c] \in {current[c] + 1, Exit}
    BY DEF Type, Types, TypeOK
  <2>3. QED
    BY <2>1, <2>2, MaxCommandsAssumption DEF Exit
<1>4. buffer'[c] < current'[c]
  BY <1>1, <1>2, <1>3, MaxCommandsAssumption DEF Types, TypeOK, Command, Exit, Garbage
<1>5. Calling(c)'
  BY <1>1, <1>2, <1>4 DEF Idle, Calling, Sends, Unread, Over, Kid
<1>6. QED
  BY <1>1, <1>2, <1>5 DEF InTurn, Phase

(* A client that leaves its main loop has no more turn. *)
LEMMA GoneTurn ==
  ASSUME Types, NEW c \in Clients, NEW pc \in ClientPC \ MainLoop, ClientGoto(c, pc)
  PROVE  InTurn(c)'
  BY DEF Types, TypeOK, ClientGoto, InTurn

(* The writer of the client has ended. *)
LEMMA RequestSentTurn ==
  ASSUME Types, NEW c \in Clients, InTurn(c), RequestSent(c)
  PROVE  InTurn(c)'
<1>1. CASE client[c] # "sending" \/ writer[c]["cmd"] # "ok"
  <2>1. \E pc \in ClientPC \ MainLoop : ClientGoto(c, pc)
    BY <1>1 DEF RequestSent, InTurn, MainLoop, ClientPC, InterruptedPC
  <2>2. QED
    BY <2>1, GoneTurn
<1>2. CASE client[c] = "sending" /\ writer[c]["cmd"] = "ok"
  <2>1. /\ client'[c] = "select" /\ writer'[c]["cmd"] = "none" /\ writer'[c]["exit"] = "none"
        /\ UNCHANGED <<handler, buffer, child, request, response, current>>
    BY <1>2 DEF RequestSent, clientSide, threads, children, WriterGoto, ClientGoto, Types,
                TypeOK, WriterId,
                InTurn, MainLoop
  <2>2. Asked(c) \/ Working(c) \/ Unanswered(c)
    BY <1>2 DEF InTurn, MainLoop, Phase, Idle, Calling, Connected, Asked, GivenUp, Working,
                Answering, Unanswered, Answered, Sends
  <2>3. CASE Unanswered(c)
    <3>1. Answered(c)'
      BY <2>1, <2>3 DEF Unanswered, Answered, Taken, Sends, Closing, Idling, Over, Kid
    <3>2. QED
      BY <2>1, <3>1 DEF InTurn, Phase
  <2>4. CASE Asked(c) \/ Working(c)
    <3>1. ResponseWriters(c) = {}
      BY <2>4 DEF ResponseWriters, Children, Asked, Working, CommandKid, Kid, NoKid, NoChild
    <3>2. c \notin opened'
      BY <1>2, <3>1 DEF RequestSent, InTurn, MainLoop
    <3>3. Asked(c) => Asked(c)'
      BY <2>1, <3>2 DEF Asked, Sent, Unread, NoKid
    <3>4. Working(c) => Working(c)'
      BY <2>1, <3>2 DEF Working, Sent, Taken, CommandKid, Kid
    <3>5. QED
      BY <2>1, <2>4, <3>3, <3>4 DEF InTurn, Phase
  <2>5. QED
    BY <2>2, <2>3, <2>4
<1>3. QED
  BY <1>1, <1>2

(* What a client that listens finds. *)
LEMMA ListensTo ==
  ASSUME Types, NEW c \in Clients, InTurn(c), client[c] \in {"select", "msg"}
  PROVE  /\ writer[c]["exit"] = "none" /\ writer[c]["cmd"] = "none"
         /\ response[c] = << >> => \/ Asked(c) \/ Working(c) \/ Answering(c) \/ Answered(c)
         /\ response[c] # << >> => Answering(c) \/ Answered(c)
         /\ client[c] = "select" /\ response[c] # << >> =>
              /\ response[c] \in {<<Size(c)>>, <<Size(c), Msg(c)>>}
              /\ response[c] = <<Size(c), Msg(c)>> => Answered(c)
         /\ client[c] = "msg" /\ response[c] # << >> => response[c] = <<Msg(c)>> /\ Answered(c)
<1>1. writer[c]["exit"] = "none" /\ (Asked(c) \/ Working(c) \/ Answering(c) \/ Answered(c))
  BY DEF InTurn, MainLoop, Phase, Idle, Calling, Connected, GivenUp, Unanswered, Sends
<1>2. writer[c]["cmd"] = "none"
  BY <1>1 DEF Asked, Sent, Sends, Working, Answering, Answered
<1>3. (Asked(c) \/ Working(c)) => client[c] = "select" /\ response[c] = << >>
  BY <1>1 DEF Asked, Sent, Sends, Unread, Working
<1>4. Answering(c) => (client[c] = "select" /\ response[c] = <<Size(c)>>) \/ response[c] = << >>
  BY DEF Answering
<1>5. Answered(c) /\ response[c] # << >> =>
        \/ client[c] = "select" /\ response[c] \in {<<Size(c)>>, <<Size(c), Msg(c)>>}
        \/ client[c] = "msg" /\ response[c] = <<Msg(c)>>
  BY DEF Answered
<1>6. <<Size(c)>> # <<Size(c), Msg(c)>>
  OBVIOUS
<1>7. QED
  BY <1>1, <1>2, <1>3, <1>4, <1>5, <1>6

(* The client reads the size of the response. *)
LEMMA ReadSizeTurn ==
  ASSUME Types, NEW c \in Clients, InTurn(c), ReadSize(c)
  PROVE  InTurn(c)'
<1>1. CASE client[c] = "exit_select"
  <2>1. ClientGoto(c, "exit_msg")
    BY <1>1 DEF ReadSize
  <2>2. QED
    BY <2>1, GoneTurn DEF MainLoop, ClientPC, InterruptedPC
<1>2. CASE client[c] = "select"
  <2>1. /\ client'[c] = "msg" /\ response'[c] = Tail(response[c])
        /\ UNCHANGED <<handler, buffer, child, request, writer, current>>
    BY <1>2 DEF ReadSize, threads, children, ClientGoto, Types, TypeOK
  <2>2. \/ response[c] = <<Size(c)>> /\ response'[c] = << >> /\ (Answering(c) \/ Answered(c))
        \/ response[c] = <<Size(c), Msg(c)>> /\ response'[c] = <<Msg(c)>> /\ Answered(c)
    <3>1. response[c] # << >> /\ client[c] \in {"select", "msg"}
      BY <1>2 DEF ReadSize
    <3>2. /\ response[c] \in {<<Size(c)>>, <<Size(c), Msg(c)>>} /\ (Answering(c) \/ Answered(c))
          /\ response[c] = <<Size(c), Msg(c)>> => Answered(c)
      BY <1>2, <3>1, ListensTo
    <3>3. Tail(<<Size(c)>>) = << >> /\ Tail(<<Size(c), Msg(c)>>) = <<Msg(c)>>
      OBVIOUS
    <3>4. QED
      BY <2>1, <3>2, <3>3
  <2>3. writer[c]["exit"] = "none" /\ writer[c]["cmd"] = "none"
    BY <1>2, ListensTo
  <2>4. Size(c)' = Size(c) /\ Msg(c)' = Msg(c)
    BY <2>1 DEF Size, Msg
  <2>5. Answered(c) => Answered(c)'
    BY <1>2, <2>1, <2>2, <2>4 DEF Answered, Taken, Over, Kid
  <2>6. Answering(c) => Answering(c)'
    <3>1. response[c] # << >>
      BY DEF ReadSize
    <3>2. Answering(c) => response[c] = <<Size(c)>> /\ Kid("response", {"msg"}) /\ response'[c] = << >>
      BY <1>2, <2>2, <3>1 DEF Answering, Answered, Kid
    <3>3. QED
      BY <2>1, <3>2, KidStays DEF Answering, Taken
  <2>7. QED
    BY <2>1, <2>2, <2>3, <2>5, <2>6 DEF InTurn, Phase
<1>3. QED
  BY <1>1, <1>2 DEF ReadSize

(* Once it has read the message it prompts again. *)
LEMMA ReadMsgTurn ==
  ASSUME Types, NEW c \in Clients, InTurn(c), ReadMsg(c)
  PROVE  InTurn(c)'
<1>1. CASE client[c] # "msg" \/ current[c] = Exit
  <2>1. \E pc \in {"leaving", "timed_out"} : ClientGoto(c, pc)
    BY <1>1 DEF ReadMsg, ReadMsgThen
  <2>2. QED
    BY <2>1, GoneTurn DEF MainLoop, ClientPC, InterruptedPC
<1>2. CASE client[c] = "msg" /\ current[c] # Exit
  <2>1. /\ client'[c] = "prompt" /\ response'[c] = Tail(response[c]) /\ response[c] # << >>
        /\ UNCHANGED <<handler, buffer, child, request, writer, current>>
    BY <1>2 DEF ReadMsg, ReadMsgThen, threads, children, ClientGoto, Types, TypeOK
  <2>2. /\ Answered(c) /\ response'[c] = << >>
        /\ writer[c]["exit"] = "none" /\ writer[c]["cmd"] = "none"
    <3>1. /\ Answered(c) /\ response[c] = <<Msg(c)>>
          /\ writer[c]["exit"] = "none" /\ writer[c]["cmd"] = "none"
      BY <1>2, <2>1, ListensTo
    <3>2. Tail(<<Msg(c)>>) = << >>
      OBVIOUS
    <3>3. QED
      BY <2>1, <3>1, <3>2
  <2>3. Idle(c)'
    BY <2>1, <2>2 DEF Answered, Idle, Taken, Over, Kid
  <2>4. QED
    BY <2>1, <2>2, <2>3 DEF InTurn, Phase
<1>3. QED
  BY <1>1, <1>2

(* The end of the response pipe comes only after the response. *)
LEMMA EndedTurn ==
  ASSUME Alone, Types, NEW c \in Clients, InTurn(c), Ended(c), client[c] \in {"select", "msg"}
  PROVE  Answered(c)
<1>1. c \in opened /\ response[c] = << >> /\ ResponseWriters(c) = {}
  BY DEF Ended
<1>2. ~Asked(c) /\ ~Working(c)
  BY <1>1 DEF Asked, Working, Sent, Sends
<1>3. ~Answering(c)
  <2> SUFFICES ASSUME Answering(c) PROVE FALSE
    OBVIOUS
  <2>1. PICK p \in Pids : child[p] # NoChild
    BY DEF Answering, NoKid
  <2>2. child[p].kind = "response" /\ child[p].at \in {"size", "msg"}
    BY <2>1 DEF Answering, Kid
  <2>3. child[p] \in CommandChild \cup ResponseChild
    BY <2>1 DEF Types, TypeOK
  <2>4. child[p].of = c
    BY <2>3 DEF CommandChild, ResponseChild, Alone
  <2>5. QED
    BY <1>1, <2>2, <2>4 DEF ResponseWriters, Children
<1>4. QED
  BY <1>1, <1>2, <1>3, ListensTo

LEMMA ReadEndedTurn ==
  ASSUME Alone, Types, NEW c \in Clients, InTurn(c), ReadEnded(c)
  PROVE  InTurn(c)'
<1>1. ASSUME NEW pc \in {"exit_spin", "timed_out", "leaving"}, ClientGoto(c, pc)
      PROVE  InTurn(c)'
  BY <1>1, GoneTurn DEF MainLoop, ClientPC, InterruptedPC
<1>2. ASSUME client[c] \in {"select", "msg"}, NEW pc \in {"spin", "prompt"}, ClientGoto(c, pc)
      PROVE  InTurn(c)'
  <2>1. /\ client'[c] = pc /\ response'[c] = << >>
        /\ UNCHANGED <<handler, buffer, child, request, writer, current>>
    BY <1>2 DEF ReadEnded, Ended, clientSide, pipes, threads, children, ClientGoto, Types,
                TypeOK
  <2>2. Answered(c) /\ writer[c]["exit"] = "none"
    BY <1>2, EndedTurn, ListensTo DEF ReadEnded
  <2>3. pc = "spin" => Answered(c)'
    BY <2>1, <2>2 DEF Answered, Taken, Over, Kid
  <2>4. pc = "prompt" => Idle(c)'
    BY <2>1, <2>2 DEF Answered, Idle, Taken, Over, Kid
  <2>5. QED
    BY <2>1, <2>2, <2>3, <2>4 DEF InTurn, Phase
<1>3. QED
  BY <1>1, <1>2 DEF ReadEnded

(* Every step of a client keeps its turn. *)
LEMMA ClientTurn ==
  ASSUME Alone, Types, NEW c \in Clients, InTurn(c), Counted(c),
         Type(c) \/ Interrupt(c) \/ Kill(c) \/ ClientStep(c)
  PROVE  InTurn(c)'
<1>1. CASE Interrupt(c) \/ Kill(c) \/ SelectTimeout(c) \/ Leave(c) \/ SigDisconnect(c)
  <2>1. \E pc \in ClientPC \ MainLoop : ClientGoto(c, pc)
    BY <1>1 DEF Interrupt, Kill, SelectTimeout, SelectTimeoutThen, Leave, SigDisconnect,
                ClientPC, MainLoop, InterruptedPC
  <2>2. QED
    BY <2>1, GoneTurn
<1>2. QED
  BY <1>1, TypeTurn, RequestSentTurn, ReadSizeTurn, ReadMsgTurn, ReadEndedTurn DEF ClientStep

-----------------------------------------------------------------------------
(* The writer of the client *)

(* The thread opens the request pipe for the writer that waits. *)
LEMMA RequestPipeOpensTurn ==
  ASSUME Types, NEW c \in Clients, InTurn(c), KidOf(c), RequestPipeOpens(c),
         client[c] \in MainLoop
  PROVE  InTurn(c)'
<1>1. handler[c] = "open" /\ writer[c]["cmd"] \in {"open", "write", "close"} /\ writer[c]["exit"] = "none"
  BY DEF RequestPipeOpens, InTurn, WriterId
<1>2. Calling(c)
  BY <1>1 DEF InTurn, Phase, Idle, Connected, Asked, Sent, Sends, GivenUp, Working, Busy,
              Answering, Unanswered, Closing, Answered
<1>3. /\ writer'[c]["cmd"] = "write" /\ writer'[c]["exit"] = "none" /\ handler'[c] = "read"
      /\ UNCHANGED <<client, current, opened, request, response, buffer, child>>
  BY <1>1, <1>2 DEF RequestPipeOpens, Calling, Sends, HandlerGoto, pipes, children, Types,
                    TypeOK, WriterId
<1>4. NoKid
  BY <1>1 DEF KidOf, Awaiting
<1>5. Connected(c)'
  BY <1>2, <1>3, <1>4 DEF Calling, Connected, Sends, Unread, NoKid
<1>6. QED
  BY <1>3, <1>5 DEF InTurn, Phase

(* It writes the command, unless the server has ended. *)
LEMMA WriteRequestTurn ==
  ASSUME Types, NEW c \in Clients, InTurn(c), WriteRequest(c, "cmd"), client[c] \in MainLoop
  PROVE  InTurn(c)'
<1>1. writer[c]["cmd"] = "write" /\ writer[c]["exit"] = "none"
  BY DEF WriteRequest, InTurn
<1>2. Connected(c)
  BY <1>1 DEF InTurn, Phase, Idle, Calling, Asked, Sent, Sends, GivenUp, Working, Busy,
              Answering, Unanswered, Closing, Answered
<1>3. /\ writer'[c]["exit"] = "none"
      /\ UNCHANGED <<client, current, opened, response, handler, buffer, child>>
  BY <1>1 DEF WriteRequest, WriterGoto, threads, children, Types, TypeOK, WriterId
<1>4. CASE handler[c] = "read"
  <2>1. writer'[c]["cmd"] = "close" /\ request'[c] = <<current[c]>>
    BY <1>2, <1>4 DEF WriteRequest, WriterGoto, Connected, Types, TypeOK, WriterId
  <2>2. Asked(c)'
    BY <1>2, <1>3, <1>4, <2>1 DEF Connected, Asked, Sent, Sends, Unread, NoKid
  <2>3. QED
    BY <1>3, <2>2 DEF InTurn, Phase
<1>5. CASE handler[c] # "read"
  <2>1. writer'[c]["cmd"] = "failed" /\ request'[c] = << >>
    BY <1>2, <1>5 DEF WriteRequest, WriterGoto, LoseRequest, Connected, Types, TypeOK, WriterId
  <2>2. GivenUp(c)'
    BY <1>2, <1>3, <2>1 DEF Connected, GivenUp, Sends, Unread
  <2>3. QED
    BY <1>3, <2>2 DEF InTurn, Phase
<1>6. QED
  BY <1>4, <1>5

(* It ends, by itself or by its alarm. *)
LEMMA WriterEndsTurn ==
  ASSUME Types, NEW c \in Clients, InTurn(c), client[c] \in MainLoop,
         WriterExit(c, "cmd") \/ WriterAlarm(c)
  PROVE  InTurn(c)'
<1>1. /\ writer[c]["cmd"] \in {"open", "write", "close"} /\ writer'[c]["cmd"] \in {"ok", "failed"}
      /\ writer'[c]["cmd"] = "ok" => writer[c]["cmd"] = "close"
      /\ writer'[c]["exit"] = writer[c]["exit"]
      /\ UNCHANGED <<client, current, opened, response, handler, buffer, child>>
      /\ request'[c] = request[c] \/ (request'[c] = << >> /\ handler[c] # "read")
  BY DEF WriterExit, WriterAlarm, WriterEnds, WriterGoto, LoseRequest, threads, children, Types,
         TypeOK, WriterId
<1>2. writer[c]["exit"] = "none" /\ client[c] = "sending" /\ client'[c] = "sending"
  BY <1>1 DEF InTurn, Phase, Idle, Calling, Connected, Asked, Sent, Sends, GivenUp, Working,
              Answering, Unanswered, Answered
<1>3. CASE Calling(c) \/ Connected(c)
  <2>1. GivenUp(c)'
    BY <1>1, <1>2, <1>3 DEF Calling, Connected, GivenUp, Sends, Unread, Idling, Closing
  <2>2. QED
    BY <1>1, <1>2, <2>1 DEF InTurn, Phase
<1>4. CASE Asked(c)
  <2>1. Asked(c)' \/ GivenUp(c)'
    <3>1. writer'[c]["cmd"] = "ok" => Asked(c)'
      BY <1>1, <1>2, <1>4 DEF Asked, Sent, Sends, Unread, NoKid
    <3>2. writer'[c]["cmd"] = "failed" => GivenUp(c)'
      BY <1>1, <1>2, <1>4 DEF Asked, GivenUp, Sends, Unread
    <3>3. QED
      BY <1>1, <3>1, <3>2
  <2>2. QED
    BY <1>1, <1>2, <2>1 DEF InTurn, Phase
<1>5. CASE Working(c)
  <2>1. request'[c] = << >>
    BY <1>1, <1>5 DEF Working, Taken
  <2>2. Working(c)'
    BY <1>1, <1>2, <1>5, <2>1 DEF Working, Sent, Sends, Taken, CommandKid, Kid
  <2>3. QED
    BY <1>1, <1>2, <2>2 DEF InTurn, Phase
<1>6. CASE Unanswered(c)
  <2>1. Unanswered(c)'
    BY <1>1, <1>2, <1>6 DEF Unanswered, Sends, Taken, Kid
  <2>2. QED
    BY <1>1, <1>2, <2>1 DEF InTurn, Phase
<1>7. QED
  BY <1>1, <1>2, <1>3, <1>4, <1>5, <1>6
  DEF InTurn, Phase, Idle, GivenUp, Answering, Answered, Sends

(* Every step of a writer keeps the turn of its client. *)
LEMMA WriterTurn ==
  ASSUME Types, NEW c \in Clients, InTurn(c), KidOf(c), NEW w \in WriterId,
         WriterTooLate(c, w) \/ WriterStep(c, w)
  PROVE  InTurn(c)'
<1>1. CASE client[c] \notin MainLoop
  <2>1. client' = client
    BY DEF WriterTooLate, WriterStep, RequestPipeOpens, WriterOpens, WriteRequest, WriterExit,
           WriterAlarm, WriterEnds
  <2>2. QED
    BY <1>1, <2>1 DEF InTurn
<1>2. CASE client[c] \in MainLoop
  <2>1. writer[c]["exit"] = "none" /\ Linked(c)
    BY <1>2 DEF InTurn, MainLoop, Linked
  <2>2. w = "cmd" \/ RequestPipeOpens(c)
    BY <2>1 DEF WriterId, WriterTooLate, WriterStep, WriterOpens, WriteRequest, WriterExit,
                WriterEnds
  <2>3. ~WriterTooLate(c, "cmd")
    BY <2>1 DEF WriterTooLate
  <2>4. ~WriterOpens(c, "cmd")
    BY <1>2 DEF WriterOpens, InTurn, Phase, Idle, Calling, Idling, Closing, Connected, Asked,
                Sent, Sends,
                GivenUp, Working, Answering, Unanswered, Answered
  <2>5. QED
    BY <1>2, <2>2, <2>3, <2>4, RequestPipeOpensTurn, WriteRequestTurn, WriterEndsTurn
    DEF WriterStep
<1>3. QED
  BY <1>1, <1>2

-----------------------------------------------------------------------------
(* The thread *)

(* wait() takes the child away: what was known of any child still holds. *)
LEMMA KidTaken ==
  ASSUME Types, NEW kind, NEW states, NEW ended, Wait(ended), Kid(kind, states)
  PROVE  Kid(kind, states)'
<1>1. PICK p \in Pids : child' = [child EXCEPT ![p] = NoChild]
  BY DEF Wait
<1>2. \A q \in Pids : child'[q] = child[q] \/ child'[q] = NoChild
  BY <1>1 DEF Types, TypeOK
<1>3. QED
  BY <1>2 DEF Kid

(* fork makes the only child. *)
LEMMA KidForked ==
  ASSUME Types, NoKid, NEW new, Fork(new), NEW kind, NEW states, new.kind = kind, new.at \in states
  PROVE  Kid(kind, states)'
<1>1. PICK p \in Pids : child' = [child EXCEPT ![p] = new]
  BY DEF Fork
<1>2. \A q \in Pids : child'[q] = new \/ child'[q] = NoChild
  BY <1>1 DEF NoKid, Types, TypeOK
<1>3. QED
  BY <1>2 DEF Kid

(* What the steps of a thread leave alone. *)
ClientStays(c) == UNCHANGED <<client[c], current[c], writer[c], response[c], opened>>

LEMMA HandleStays ==
  ASSUME NEW c \in Clients, Handle(c)
  PROVE  ClientStays(c)
  BY DEF ClientStays, Handle, CallOpen, ReadRequest, ReadNothing, Dispatch, WaitCommand,
         ReadOutput,
         Answer, SendResponse, ResponseSent, ResponseTimedOut, ResponseIgnored, Remove, clientSide, pipes

(* A client whose writer failed waits for no answer. *)
LEMMA GivenUpHandle ==
  ASSUME Types, NEW c \in Clients, GivenUp(c), Handle(c), InTurn(c), client[c] \in MainLoop
  PROVE  GivenUp(c)' \/ ReadRequest(c)
<1> SUFFICES ASSUME ~ReadRequest(c) PROVE GivenUp(c)'
  OBVIOUS
<1>1. Linked(c)
  BY DEF Linked, InTurn, MainLoop
<1>2. handler'[c] \notin {"answer_error", "wait_error"}
  BY <1>1 DEF GivenUp, Handle, CallOpen, ReadNothing, Dispatch, WaitCommand, ReadOutput, Answer,
              SendResponse, ResponseSent, ResponseTimedOut, ResponseIgnored, Remove, HandlerGoto,
              Types, TypeOK
<1>3. request'[c] = request[c]
  BY DEF Handle, CallOpen, ReadNothing, Dispatch, WaitCommand, ReadOutput, Answer, SendResponse,
         ResponseSent, ResponseTimedOut, ResponseIgnored, Remove, pipes
<1>4. buffer'[c] \in {buffer[c], Garbage}
  BY DEF Handle, CallOpen, ReadNothing, Dispatch, WaitCommand, ReadOutput, Answer, SendResponse,
         ResponseSent, ResponseTimedOut, ResponseIgnored, Remove, Types, TypeOK, threads
<1>5. ClientStays(c)
  BY HandleStays
<1>6. buffer'[c] < current'[c]
  BY <1>4, <1>5, MaxCommandsAssumption
  DEF ClientStays, GivenUp, Unread, Types, TypeOK, Command, Garbage, Exit
<1>7. QED
  BY <1>2, <1>3, <1>5, <1>6 DEF GivenUp, ClientStays, Sends, Unread

(* The thread opens the request pipe once more. *)
LEMMA CallOpenTurn ==
  ASSUME Types, NEW c \in Clients, InTurn(c), client[c] \in MainLoop, ~GivenUp(c), CallOpen(c)
  PROVE  Phase(c)'
<1>1. /\ handler[c] \in {"start", "listen"} /\ handler'[c] = "open"
      /\ UNCHANGED <<client, current, writer, response, request, opened, buffer, child>>
  BY DEF CallOpen, Linked, InTurn, MainLoop, clientSide, pipes, children, HandlerGoto, Types,
         TypeOK
<1>2. Idle(c) \/ Calling(c) \/ Answered(c)
  BY <1>1 DEF InTurn, Phase, Connected, Asked, Working, Busy, Answering, Unanswered, Closing
<1>3. Idle(c) => Idle(c)'
  BY <1>1 DEF Idle, Idling, Over, Kid
<1>4. Calling(c) => Calling(c)'
  BY <1>1 DEF Calling, Sends, Unread, Idling, Over, Kid
<1>5. Answered(c) => Answered(c)'
  <2>1. Size(c)' = Size(c) /\ Msg(c)' = Msg(c)
    BY <1>1 DEF Size, Msg
  <2>2. QED
    BY <1>1, <2>1 DEF Answered, Taken, Idling, Over, Kid
<1>6. QED
  BY <1>2, <1>3, <1>4, <1>5 DEF Phase

(* It reads the command that was sent. *)
LEMMA ReadRequestTurn ==
  ASSUME Types, NEW c \in Clients, InTurn(c), KidOf(c), client[c] \in MainLoop, ReadRequest(c)
  PROVE  Phase(c)'
<1>1. /\ handler[c] = "read" /\ handler'[c] = "dispatch" /\ request[c] # << >>
      /\ buffer'[c] = Head(request[c])
      /\ request'[c] \in {<< >>, Tail(request[c])}
      /\ UNCHANGED <<client, current, writer, response, opened, child>>
  BY DEF ReadRequest, TakeRequest, clientSide, children, HandlerGoto, Types, TypeOK
<1>2. (Asked(c) \/ GivenUp(c)) /\ request[c] = <<current[c]>>
  BY <1>1 DEF InTurn, Phase, Idle, Calling, Connected, Asked, GivenUp, Working, Answering,
              Unanswered,
              Answered, Taken, Idling, Closing
<1>3. buffer'[c] = current[c] /\ request'[c] = << >>
  BY <1>1, <1>2
<1>4. current[c] # Garbage
  BY <1>2, MaxCommandsAssumption DEF Asked, GivenUp, Unread, Types, TypeOK, Command, Garbage,
                                     Exit
<1>5. NoKid
  BY <1>1 DEF KidOf, Awaiting
<1>6. Working(c)'
  BY <1>1, <1>2, <1>3, <1>4, <1>5
  DEF Working, Asked, GivenUp, Sent, Sends, Unread, Taken, Busy, CommandKid, Kid, NoKid
<1>7. QED
  BY <1>6 DEF Phase

(* A thread that reads nothing has a client that gives up. *)
LEMMA ReadNothingTurn ==
  ASSUME Types, NEW c \in Clients, InTurn(c), client[c] \in MainLoop, ReadNothing(c)
  PROVE  GivenUp(c)
<1>1. handler[c] = "read" /\ request[c] = << >> /\ writer[c]["cmd"] # "write"
  BY DEF ReadNothing, Holding, WriterId
<1>2. QED
  BY <1>1 DEF InTurn, Phase, Idle, Calling, Connected, Asked, Sends, GivenUp, Working, Busy,
              Answering,
              Unanswered, Answered, Idling, Closing

(* From the command to its response. *)
LEMMA ExecuteTurn ==
  ASSUME Types, NEW c \in Clients, InTurn(c), KidOf(c), client[c] \in MainLoop, ~GivenUp(c),
         Dispatch(c) \/ WaitCommand(c) \/ ReadOutput(c) \/ Answer(c)
  PROVE  Phase(c)'
<1>1. handler[c] \in {"dispatch", "exec", "output", "answer", "answer_error", "answer_last"}
  BY DEF Dispatch, WaitCommand, ReadOutput, Answer, SendResponse
<1>2. Working(c)
  BY <1>1 DEF InTurn, Phase, Idle, Calling, Connected, Asked, Answering, Unanswered, Answered,
              Idling, Closing
<1>3. UNCHANGED <<client, current, writer, response, opened, request, buffer>>
  BY DEF Dispatch, WaitCommand, ReadOutput, Answer, SendResponse, clientSide, pipes, threads
<1>4. handler[c] # "exec" => NoKid
  BY <1>1 DEF KidOf, Awaiting
<1>5. ASSUME handler'[c] \in Busy, CommandKid' \/ Kid("response", {"start", "open"})'
      PROVE  Phase(c)'
  <2>1. Working(c)'
    BY <1>2, <1>3, <1>5 DEF Working, Sent, Sends, Taken
  <2>2. QED
    BY <2>1 DEF Phase
<1>6. ASSUME handler'[c] = "remove", UNCHANGED child, NoKid
      PROVE  Phase(c)'
  <2>1. Kid("response", {"failed"})' /\ Over'
    BY <1>6 DEF NoKid, Over, Kid
  <2>2. CASE client[c] = "sending"
    <3>1. Unanswered(c)'
      BY <1>2, <1>3, <1>6, <2>1, <2>2 DEF Working, Unanswered, Sent, Sends, Taken, Closing
    <3>2. QED
      BY <3>1 DEF Phase
  <2>3. CASE client[c] # "sending"
    <3>1. Answered(c)'
      BY <1>2, <1>3, <1>6, <2>1, <2>3 DEF Working, Answered, Sent, Sends, Taken, Closing, Idling
    <3>2. QED
      BY <3>1 DEF Phase
  <2>4. QED
    BY <2>2, <2>3
<1>7. CASE Dispatch(c)
  <2>1. NoKid /\ handler \in [Clients -> HandlerPC]
    BY <1>4, <1>7 DEF Dispatch, Types, TypeOK
  <2>2. CASE handler' = [handler EXCEPT ![c] = "remove"] /\ UNCHANGED child
    BY <1>6, <2>1, <2>2
  <2>3. CASE handler' = [handler EXCEPT ![c] = "answer_last"] /\ UNCHANGED child
    BY <1>5, <2>1, <2>3 DEF Busy, NoKid, CommandKid, Kid
  <2>4. CASE /\ handler' = [handler EXCEPT ![c] = "exec"]
             /\ Fork([kind |-> "command", of |-> c, cmd |-> buffer[c], at |-> "running"])
    <3>1. CommandKid'
      BY <2>1, <2>4, KidForked DEF CommandKid
    <3>2. QED
      BY <1>5, <2>1, <2>4, <3>1 DEF Busy
  <2>5. QED
    BY <1>7, <2>2, <2>3, <2>4 DEF Dispatch, HandlerGoto
<1>8. CASE Answer(c)
  <2>1. handler[c] \in {"answer", "answer_last"} /\ NoKid /\ handler \in [Clients -> HandlerPC]
    BY <1>2, <1>4, <1>8 DEF Answer, SendResponse, Working, Busy, Types, TypeOK
  <2>2. CASE handler' = [handler EXCEPT ![c] = "remove"] /\ UNCHANGED child
    BY <1>6, <2>1, <2>2
  <2>3. CASE /\ handler'[c] \in {"wait", "wait_last"}
             /\ Fork([kind |-> "response", of |-> c, cmd |-> buffer[c], at |-> "start"])
    <3>1. Kid("response", {"start", "open"})'
      BY <2>1, <2>3, KidForked
    <3>2. QED
      BY <1>5, <2>3, <3>1 DEF Busy
  <2>4. QED
    BY <1>8, <2>1, <2>2, <2>3 DEF Answer, SendResponse, HandlerGoto
<1>9. CASE WaitCommand(c)
  <2>1. CommandKid'
    BY <1>9, KidTaken DEF WaitCommand, KidOf, CommandKid
  <2>2. handler'[c] = "output"
    BY <1>9 DEF WaitCommand, HandlerGoto, Types, TypeOK
  <2>3. QED
    BY <1>5, <2>1, <2>2 DEF Busy
<1>10. CASE ReadOutput(c)
  <2>1. handler'[c] = "answer" /\ UNCHANGED child /\ NoKid
    BY <1>4, <1>10 DEF ReadOutput, HandlerGoto, Types, TypeOK, children
  <2>2. QED
    BY <1>5, <2>1 DEF Busy, NoKid, CommandKid, Kid
<1>11. QED
  BY <1>7, <1>8, <1>9, <1>10

(* The response was written, or not, and the thread goes on. *)
LEMMA AnsweredTurn ==
  ASSUME Types, NEW c \in Clients, InTurn(c), KidOf(c), client[c] \in MainLoop, ~GivenUp(c),
         ResponseSent(c) \/ ResponseTimedOut(c) \/ ResponseIgnored(c) \/ Remove(c)
  PROVE  Phase(c)'
<1>1. /\ handler[c] \in {"wait", "wait_error", "wait_last", "remove"}
      /\ UNCHANGED <<client, current, writer, response, opened, request, buffer>>
      /\ handler[c] = "remove" \/ Wait({"ok", "failed"})
  BY DEF ResponseSent, ResponseTimedOut, ResponseIgnored, Remove, Wait, clientSide, pipes
<1>2. ~Working(c) /\ ~Answering(c) /\ handler[c] # "wait_error"
  <2>1. handler[c] = "remove" => ~Working(c) /\ ~Answering(c)
    BY DEF Working, Busy, Answering
  <2>2. Wait({"ok", "failed"}) /\ handler[c] # "remove" => ~Working(c)
    <3> SUFFICES ASSUME Wait({"ok", "failed"}), handler[c] # "remove", Working(c) PROVE FALSE
      OBVIOUS
    <3>1. PICK p \in Pids : child[p] # NoChild /\ child[p].at \in {"ok", "failed"}
      BY DEF Wait
    <3>2. child[p].kind = "response"
      BY <1>1, <3>1 DEF KidOf, Awaiting
    <3>3. QED
      BY <3>1, <3>2 DEF Working, CommandKid, Kid
  <2>3. Wait({"ok", "failed"}) => ~Answering(c)
    BY DEF Wait, Answering, Kid
  <2>4. handler[c] # "wait_error"
    BY DEF InTurn, Phase, Idle, Calling, Connected, Asked, Working, Busy, Answering, Unanswered,
           Answered, Idling, Closing
  <2>5. QED
    BY <1>1, <2>1, <2>2, <2>3, <2>4
<1>3. Idle(c) \/ Calling(c) \/ Unanswered(c) \/ Answered(c)
  BY <1>1, <1>2 DEF InTurn, Phase, Connected, Asked
<1>4. /\ handler'[c] \in {"listen", "remove", "removed"}
      /\ handler'[c] = "listen" => ResponseSent(c)
  BY <1>2 DEF ResponseSent, ResponseTimedOut, ResponseIgnored, Remove, HandlerGoto, Types,
              TypeOK
<1>5. \A kind, states : Kid(kind, states) => Kid(kind, states)'
  <2>1. CASE Remove(c)
    BY <2>1 DEF Remove, children, Kid
  <2>2. CASE ~Remove(c)
    <3>1. \E ended : Wait(ended)
      BY <2>2 DEF ResponseSent, ResponseTimedOut, ResponseIgnored
    <3>2. QED
      BY <3>1, KidTaken
  <2>3. QED
    BY <2>1, <2>2
<1>6. Over => Over'
  BY <1>5 DEF Over
<1>7. Idle(c) => Idle(c)'
  BY <1>1, <1>4, <1>6 DEF Idle, Idling, Closing
<1>8. Calling(c) => Calling(c)'
  BY <1>1, <1>4, <1>6 DEF Calling, Sends, Unread, Idling, Closing
<1>9. Unanswered(c) => Unanswered(c)'
  <2>1. Unanswered(c) => ~ResponseSent(c)
    BY DEF Unanswered, Kid, ResponseSent, Wait
  <2>2. QED
    BY <1>1, <1>4, <1>5, <2>1 DEF Unanswered, Sends, Taken, Closing
<1>10. Answered(c) => Answered(c)'
  <2>1. Size(c)' = Size(c) /\ Msg(c)' = Msg(c)
    BY <1>1 DEF Size, Msg
  <2>2. QED
    BY <1>1, <1>4, <1>6, <2>1 DEF Answered, Taken, Idling, Closing
<1>11. QED
  BY <1>3, <1>7, <1>8, <1>9, <1>10 DEF Phase

(* Every step of the thread keeps the turn of its client. *)
LEMMA HandleTurn ==
  ASSUME Types, NEW c \in Clients, InTurn(c), KidOf(c), Handle(c)
  PROVE  InTurn(c)'
<1>1. ClientStays(c)
  BY HandleStays
<1>2. SUFFICES ASSUME client[c] \in MainLoop PROVE Phase(c)'
  BY <1>1 DEF InTurn, ClientStays
<1>3. CASE ReadRequest(c)
  BY <1>2, <1>3, ReadRequestTurn
<1>4. CASE GivenUp(c) /\ ~ReadRequest(c)
  BY <1>2, <1>4, GivenUpHandle DEF Phase
<1>5. CASE ~GivenUp(c) /\ ~ReadRequest(c)
  BY <1>2, <1>5, CallOpenTurn, ReadNothingTurn, ExecuteTurn, AnsweredTurn DEF Handle
<1>6. QED
  BY <1>3, <1>4, <1>5

-----------------------------------------------------------------------------
(* The children of the server, and its end *)

(* Where a child goes is where it is then. *)
LEMMA KidAt ==
  ASSUME Types, NEW p \in Pids, child[p].kind \in {"command", "response"}
  PROVE  \A at : ChildGoto(p, at) => child'[p].at = at
<1>1. child[p] \in {NoChild} \cup CommandChild \cup ResponseChild /\ DOMAIN child = Pids
  BY DEF Types, TypeOK
<1>2. child[p] \in CommandChild \/ child[p] \in ResponseChild
  BY <1>1 DEF NoChild
<1>3. \A at : [child[p] EXCEPT !.at = at].at = at
  BY <1>2 DEF CommandChild, ResponseChild
<1>4. QED
  BY <1>1, <1>3 DEF ChildGoto

(* The child that goes on is the only one. *)
LEMMA KidGoes ==
  ASSUME Alone, Types, OneKid, NEW c \in Clients, NEW p \in Pids, ChildStep(p)
  PROVE  \E at : /\ ChildGoto(p, at) /\ child'[p].at = at
                 /\ child[p].of = c /\ child[p].kind \in {"command", "response"}
                 /\ child'[p].kind = child[p].kind /\ child'[p].cmd = child[p].cmd
                 /\ \A kind, states : Kid(kind, states) <=> child[p].kind = kind /\ child[p].at \in states
                 /\ \A kind, states : Kid(kind, states)' <=> child[p].kind = kind /\ at \in states
                 /\ ~NoKid /\ ~NoKid'
<1>1. child[p].kind \in {"command", "response"} /\ \E at : ChildGoto(p, at)
  BY DEF ChildStep, RunCommand, OpenResponse, WriteResponse, ResponseExit, ResponseAlarm,
         ChildAt
<1>2. child[p] \in CommandChild \cup ResponseChild /\ child[p] # NoChild
  BY <1>1 DEF Types, TypeOK, NoChild
<1>3. child[p].of = c
  BY <1>2 DEF CommandChild, ResponseChild, Alone
<1>4. PICK at : ChildGoto(p, at)
  BY <1>1
<1>5. /\ child'[p] = [child[p] EXCEPT !.at = at]
      /\ \A q \in Pids : q # p => child'[q] = NoChild /\ child[q] = NoChild
  BY <1>2, <1>4 DEF ChildGoto, Types, TypeOK, OneKid
<1>6. child'[p].at = at /\ child'[p].kind = child[p].kind /\ child'[p].cmd = child[p].cmd
  BY <1>2, <1>5 DEF CommandChild, ResponseChild
<1>7. child'[p] # NoChild
  BY <1>1, <1>6 DEF NoChild
<1>8. \A kind, states : Kid(kind, states) <=> child[p].kind = kind /\ child[p].at \in states
  BY <1>2, <1>5 DEF Kid
<1>9. \A kind, states : Kid(kind, states)' <=> child[p].kind = kind /\ at \in states
  BY <1>5, <1>6, <1>7 DEF Kid
<1>10. QED
  BY <1>1, <1>2, <1>3, <1>4, <1>6, <1>7, <1>8, <1>9 DEF NoKid

(* Where a thread is while its child writes. *)
LEMMA WorkingResponse ==
  ASSUME NEW c \in Clients, KidOf(c), Working(c), ~NoKid, NEW states, Kid("response", states)
  PROVE  handler[c] \in {"wait", "wait_last", "killed"} /\ ~CommandKid
  BY DEF KidOf, Working, Busy, Awaiting, NoKid, CommandKid, Kid

(* A client that gives up reads nothing of what the child does. *)
LEMMA GivenUpChild ==
  ASSUME NEW c \in Clients, GivenUp(c), NEW p \in Pids, child[p].of = c, ChildStep(p)
  PROVE  GivenUp(c)'
<1>1. ~Listens(c)
  BY DEF Listens, GivenUp, Sends, InterruptedPC
<1>2. UNCHANGED <<client, current, writer, request, response, handler, buffer>>
  BY <1>1 DEF ChildStep, RunCommand, OpenResponse, WriteResponse, ResponseExit, ResponseAlarm,
              clientSide,
              pipes, threads
<1>3. QED
  BY <1>2 DEF GivenUp, Sends, Unread

(* The child that executes the command. *)
LEMMA RunCommandTurn ==
  ASSUME Alone, Types, OneKid, NEW c \in Clients, InTurn(c), client[c] \in MainLoop, ~GivenUp(c),
         NEW p \in Pids, RunCommand(p)
  PROVE  Phase(c)'
<1>1. PICK at : /\ child'[p].at = at /\ ChildGoto(p, at) /\ ~NoKid
                /\ \A kind, states : Kid(kind, states) <=> child[p].kind = kind /\ child[p].at \in states
                /\ \A kind, states : Kid(kind, states)' <=> child[p].kind = kind /\ at \in states
  BY KidGoes DEF ChildStep
<1>2. /\ child[p].kind = "command" /\ child'[p].at \in {"blocked", "ok"}
      /\ UNCHANGED <<client, current, writer, response, opened, request, handler, buffer>>
  <2>1. child[p].kind = "command" /\ (ChildGoto(p, "ok") \/ ChildGoto(p, "blocked"))
    BY DEF RunCommand, ChildAt
  <2>2. child'[p].at \in {"blocked", "ok"}
    BY <2>1, KidAt
  <2>3. QED
    BY <2>1, <2>2 DEF RunCommand, clientSide, pipes, threads
<1>3. Working(c)
  BY <1>1, <1>2 DEF InTurn, Phase, Idle, Calling, Connected, Asked, Answering, Unanswered,
                    Answered, Over
<1>4. CommandKid'
  BY <1>1, <1>2 DEF CommandKid
<1>5. Working(c)'
  BY <1>2, <1>3, <1>4 DEF Working, Sent, Sends, Taken
<1>6. QED
  BY <1>5 DEF Phase

(* The child that writes the response opens the pipe. *)
LEMMA OpenResponseTurn ==
  ASSUME Alone, Types, OneKid, NEW c \in Clients, InTurn(c), KidOf(c), client[c] \in MainLoop, ~GivenUp(c),
         NEW p \in Pids, OpenResponse(p)
  PROVE  Phase(c)'
<1>1. PICK at : /\ child'[p].at = at /\ ChildGoto(p, at) /\ child[p].of = c /\ ~NoKid /\ ~NoKid'
                /\ \A kind, states : Kid(kind, states) <=> child[p].kind = kind /\ child[p].at \in states
                /\ \A kind, states : Kid(kind, states)' <=> child[p].kind = kind /\ at \in states
  BY KidGoes DEF ChildStep
<1>2. /\ child[p].kind = "response" /\ child[p].at \in {"start", "open"}
      /\ UNCHANGED <<client, current, writer, response, request, handler, buffer>>
  BY DEF OpenResponse, ChildAt, clientSide, threads
<1>3. Working(c)
  BY <1>1, <1>2 DEF InTurn, Phase, Idle, Calling, Connected, Asked, Answering, Unanswered,
                    Answered, Over
<1>4. handler[c] \in {"wait", "wait_last", "killed"}
  BY <1>1, <1>2, <1>3, WorkingResponse
<1>5. \A new : ChildGoto(p, new) => child'[p].at = new
  BY <1>2, KidAt
<1>6. CASE child[p].at = "start"
  <2>1. Linked(c)
    BY DEF Linked, InTurn, MainLoop
  <2>2. ChildGoto(p, "open") /\ UNCHANGED opened
    BY <1>1, <1>6, <2>1 DEF OpenResponse, ChildAt
  <2>3. child'[p].at = "open"
    BY <1>5, <2>2
  <2>4. Kid("response", {"start", "open"})'
    BY <1>1, <1>2, <2>3
  <2>5. Working(c)'
    BY <1>2, <1>3, <2>2, <2>4 DEF Working, Sent, Sends, Taken
  <2>6. QED
    BY <2>5 DEF Phase
<1>7. CASE child[p].at = "open"
  <2>1. Listens(c) /\ ChildGoto(p, "size")
    BY <1>1, <1>7 DEF OpenResponse, ChildAt
  <2>2. child'[p].at = "size"
    BY <1>5, <2>1
  <2>3. Kid("response", {"size"})'
    BY <1>1, <1>2, <2>2
  <2>4. client[c] = "select" /\ writer[c]["cmd"] = "none"
    BY <1>3, <2>1 DEF Working, Sent, Sends, Listens, InterruptedPC
  <2>5. Answering(c)'
    BY <1>1, <1>2, <1>3, <1>4, <2>3, <2>4 DEF Working, Answering, Taken
  <2>6. QED
    BY <2>5 DEF Phase
<1>8. QED
  BY <1>2, <1>6, <1>7

(* Two parts in a pipe. *)
LEMMA AppendOne ==
  ASSUME NEW S, NEW a \in S, NEW b \in S
  PROVE  Append(<<a>>, b) = <<a, b>>
<1>1. <<a>> \in Seq(S) /\ Len(<<a>>) = 1 /\ <<a>>[1] = a
  OBVIOUS
<1>2. /\ Append(<<a>>, b) \in Seq(S) /\ Len(Append(<<a>>, b)) = 2
      /\ Append(<<a>>, b)[1] = a /\ Append(<<a>>, b)[2] = b
  BY <1>1, AppendProperties
<1>3. PICK s : s = Append(<<a>>, b)
  OBVIOUS
<1>4. <<a, b>> \in Seq(S)
  OBVIOUS
<1>5. PICK t : t = <<a, b>>
  OBVIOUS
<1>6. t \in Seq(S) /\ Len(t) = 2 /\ t[1] = a /\ t[2] = b
  BY <1>4, <1>5
<1>7. s \in Seq(S) /\ Len(s) = 2 /\ s[1] = a /\ s[2] = b
  BY <1>2, <1>3
<1>8. Len(s) = Len(t) /\ \A i \in 1 .. Len(s) : s[i] = t[i]
  BY <1>6, <1>7
<1>9. s = t
  BY <1>6, <1>7, <1>8, SeqEqual
<1>10. QED
  BY <1>3, <1>5, <1>9

(* It writes the size, then the message. *)
LEMMA WriteResponseTurn ==
  ASSUME Alone, Types, OneKid, NEW c \in Clients, InTurn(c), KidOf(c), client[c] \in MainLoop, ~GivenUp(c),
         NEW p \in Pids, WriteResponse(p)
  PROVE  Phase(c)'
<1>1. PICK at : /\ child'[p].at = at /\ ChildGoto(p, at) /\ child[p].of = c /\ ~NoKid /\ ~NoKid'
                /\ \A kind, states : Kid(kind, states) <=> child[p].kind = kind /\ child[p].at \in states
                /\ \A kind, states : Kid(kind, states)' <=> child[p].kind = kind /\ at \in states
  BY KidGoes DEF ChildStep
<1>2. /\ child[p].kind = "response" /\ child[p].at \in {"size", "msg"}
      /\ UNCHANGED <<client, current, writer, opened, request, handler, buffer>>
  BY DEF WriteResponse, ChildAt, Part, clientSide, threads
<1>3. Answering(c)
  BY <1>1, <1>2 DEF InTurn, Phase, Idle, Calling, Connected, Asked, Working, CommandKid,
                    Unanswered, Answered, Over
<1>4. child[p].cmd = current[c]
  BY <1>2, <1>3 DEF KidOf, Answering, Taken, NoChild
<1>5. Listens(c)
  BY <1>3 DEF Listens, Answering
<1>6. /\ \A new : ChildGoto(p, new) => child'[p].at = new
      /\ response \in [Clients -> Seq([cmd : Command, part : Part])]
  BY <1>2, KidAt DEF Types, TypeOK
<1>7. Size(c)' = Size(c) /\ Msg(c)' = Msg(c)
  BY <1>2 DEF Size, Msg
<1>8. CASE child[p].at = "size"
  <2>1. /\ ChildGoto(p, "msg")
        /\ response' = [response EXCEPT ![c] = Append(@, [cmd |-> child[p].cmd, part |-> "size"])]
    BY <1>1, <1>5, <1>8 DEF WriteResponse, ChildAt, Part
  <2>2. child'[p].at = "msg" /\ response'[c] = Append(response[c], Size(c))
    BY <1>4, <1>6, <2>1 DEF Size
  <2>3. Kid("response", {"msg"})'
    BY <1>1, <1>2, <2>2
  <2>4. client[c] = "select" /\ response[c] = << >>
    BY <1>1, <1>3, <1>8 DEF Answering
  <2>5. response'[c] = <<Size(c)>>
    BY <2>2, <2>4
  <2>6. Answering(c)'
    BY <1>1, <1>2, <1>3, <1>7, <2>3, <2>4, <2>5 DEF Answering, Taken
  <2>7. QED
    BY <2>6 DEF Phase
<1>9. CASE child[p].at = "msg"
  <2>1. /\ ChildGoto(p, "close")
        /\ response' = [response EXCEPT ![c] = Append(@, [cmd |-> child[p].cmd, part |-> "msg"])]
    BY <1>1, <1>5, <1>9 DEF WriteResponse, ChildAt, Part
  <2>2. child'[p].at = "close" /\ response'[c] = Append(response[c], Msg(c))
    BY <1>4, <1>6, <2>1 DEF Msg
  <2>3. Over'
    BY <1>1, <1>2, <2>2 DEF Over
  <2>4. \/ client[c] = "select" /\ response'[c] = <<Size(c), Msg(c)>>
        \/ client[c] = "msg" /\ response'[c] = <<Msg(c)>>
    <3>1. \/ client[c] = "select" /\ response[c] = <<Size(c)>>
          \/ client[c] = "msg" /\ response[c] = << >>
      BY <1>1, <1>3, <1>9 DEF Answering
    <3>2. Append(<<Size(c)>>, Msg(c)) = <<Size(c), Msg(c)>>
      <4>1. \E S : Size(c) \in S /\ Msg(c) \in S
        <5>1. Size(c) \in {Size(c), Msg(c)} /\ Msg(c) \in {Size(c), Msg(c)}
          OBVIOUS
        <5>2. QED
          BY <5>1
      <4>2. QED
        BY <4>1, AppendOne
    <3>3. response[c] = << >> => response'[c] = <<Msg(c)>>
      BY <2>2
    <3>4. QED
      BY <2>2, <3>1, <3>2, <3>3
  <2>5. Answered(c)'
    BY <1>2, <1>3, <1>7, <2>3, <2>4 DEF Answering, Answered, Taken, Idling, Closing
  <2>6. QED
    BY <2>5 DEF Phase
<1>10. QED
  BY <1>2, <1>8, <1>9

(* It ends, by itself or by its alarm. *)
LEMMA ResponseEndsTurn ==
  ASSUME Alone, Types, OneKid, NEW c \in Clients, InTurn(c), KidOf(c), client[c] \in MainLoop, ~GivenUp(c),
         NEW p \in Pids, ResponseExit(p) \/ ResponseAlarm(p)
  PROVE  Phase(c)'
<1>1. PICK at : /\ child'[p].at = at /\ ChildGoto(p, at) /\ ~NoKid
                /\ \A kind, states : Kid(kind, states) <=> child[p].kind = kind /\ child[p].at \in states
                /\ \A kind, states : Kid(kind, states)' <=> child[p].kind = kind /\ at \in states
  BY KidGoes DEF ChildStep
<1>2. /\ child[p].kind = "response" /\ child[p].at \in {"start", "open", "size", "msg", "close"}
      /\ UNCHANGED <<client, current, writer, response, opened, request, handler, buffer>>
  BY DEF ResponseExit, ResponseAlarm, ChildAt, clientSide, threads, pipes
<1>3. child'[p].at \in {"ok", "failed"} /\ (child[p].at # "close" => child'[p].at = "failed")
  <2>1. \E new \in {"ok", "failed"} : ChildGoto(p, new) /\ (child[p].at # "close" => new = "failed")
    BY DEF ResponseExit, ResponseAlarm, ChildAt
  <2>2. QED
    BY <1>2, <2>1, KidAt
<1>4. Over' /\ (child[p].at # "close" => Kid("response", {"failed"})')
  BY <1>1, <1>2, <1>3 DEF Over
<1>5. Size(c)' = Size(c) /\ Msg(c)' = Msg(c)
  BY <1>2 DEF Size, Msg
<1>6. CASE Working(c)
  <2>1. handler[c] \in {"wait", "wait_last", "killed"} /\ child[p].at # "close"
    BY <1>1, <1>2, <1>6, WorkingResponse DEF Working, CommandKid
  <2>2. client[c] = "sending" => Unanswered(c)'
    BY <1>2, <1>4, <1>6, <2>1 DEF Working, Sent, Sends, Unanswered, Taken, Closing
  <2>3. client[c] # "sending" => Answered(c)'
    BY <1>2, <1>4, <1>6, <2>1 DEF Working, Sent, Sends, Answered, Taken, Closing, Idling
  <2>4. QED
    BY <2>2, <2>3 DEF Phase
<1>7. CASE Answering(c)
  <2>1. Answered(c)'
    BY <1>2, <1>4, <1>5, <1>7 DEF Answering, Answered, Taken, Closing, Idling
  <2>2. QED
    BY <2>1 DEF Phase
<1>8. ~Connected(c) /\ ~Asked(c) /\ ~Unanswered(c)
  BY <1>1, <1>2 DEF Connected, Asked, Unanswered
<1>9. Idle(c) => Idle(c)'
  BY <1>2, <1>4 DEF Idle
<1>10. Calling(c) => Calling(c)'
  BY <1>2, <1>4 DEF Calling, Sends, Unread
<1>11. Answered(c) => Answered(c)'
  BY <1>2, <1>4, <1>5 DEF Answered, Taken
<1>12. QED
  BY <1>6, <1>7, <1>8, <1>9, <1>10, <1>11 DEF InTurn, Phase

(* Every step of the children keeps the turn of the client. *)
LEMMA ChildTurn ==
  ASSUME Alone, Types, OneKid, NEW c \in Clients, InTurn(c), KidOf(c), NEW p \in Pids, ChildStep(p)
  PROVE  InTurn(c)'
<1>1. UNCHANGED <<client, writer>>
  BY DEF ChildStep, RunCommand, OpenResponse, WriteResponse, ResponseExit, ResponseAlarm,
         clientSide
<1>2. SUFFICES ASSUME client[c] \in MainLoop PROVE Phase(c)'
  BY <1>1 DEF InTurn
<1>3. CASE GivenUp(c)
  <2>1. child[p].of = c
    BY KidGoes
  <2>2. QED
    BY <1>3, <2>1, GivenUpChild DEF Phase
<1>4. CASE ~GivenUp(c)
  BY <1>2, <1>4, RunCommandTurn, OpenResponseTurn, WriteResponseTurn, ResponseEndsTurn
  DEF ChildStep
<1>5. QED
  BY <1>3, <1>4

(* The server ends: the thread answers nothing more. *)
LEMMA ServerExitTurn ==
  ASSUME Types, NEW c \in Clients, InTurn(c), ServerExit
  PROVE  InTurn(c)'
<1>1. /\ handler'[c] = "killed" \/ (handler'[c] = "removed" /\ handler[c] = "removed")
      /\ request'[c] \in {<< >>, request[c]}
      /\ UNCHANGED <<client, current, writer, response, opened, buffer, child>>
  BY DEF ServerExit, clientSide, children
<1>2. Size(c)' = Size(c) /\ Msg(c)' = Msg(c)
  BY <1>1 DEF Size, Msg
<1>3. Idle(c) => Idle(c)'
  BY <1>1 DEF Idle, Idling, Closing, Over, Kid
<1>4. Calling(c) => Calling(c)'
  BY <1>1 DEF Calling, Sends, Unread, Idling, Closing, Over, Kid
<1>5. Connected(c) => Connected(c)'
  BY <1>1 DEF Connected, Sends, Unread, NoKid
<1>6. Asked(c) => Asked(c)'
  BY <1>1 DEF Asked, Sent, Sends, Unread, NoKid
<1>7. GivenUp(c) => GivenUp(c)'
  BY <1>1 DEF GivenUp, Sends, Unread
<1>8. Working(c) => Working(c)'
  BY <1>1 DEF Working, Sent, Sends, Taken, Busy, CommandKid, Kid
<1>9. Answering(c) => Answering(c)'
  BY <1>1, <1>2 DEF Answering, Taken, Kid, NoKid
<1>10. Unanswered(c) => Unanswered(c)'
  BY <1>1 DEF Unanswered, Sends, Taken, Closing, Kid
<1>11. Answered(c) => Answered(c)'
  BY <1>1, <1>2 DEF Answered, Taken, Idling, Closing, Over, Kid
<1>12. QED
  BY <1>1, <1>3, <1>4, <1>5, <1>6, <1>7, <1>8, <1>9, <1>10, <1>11 DEF InTurn, Phase

(* What a phase reads. *)
LEMMA StutterTurn ==
  ASSUME NEW c \in Clients, InTurn(c),
         UNCHANGED <<client, current, writer, request, response, opened, handler, buffer, child>>
  PROVE  InTurn(c)'
  BY DEF InTurn, Phase, Idle, Calling, Connected, Asked, GivenUp, Working, Answering,
         Unanswered, Answered,
         Sent, Sends, Unread, Taken, Over, CommandKid, Kid, NoKid, Size, Msg

-----------------------------------------------------------------------------
(* The child of the server, step by step *)

(* A thread that does not wait, without a child. *)
LEMMA NoKidOf ==
  ASSUME NEW c \in Clients, NoKid', handler'[c] \notin Awaiting
  PROVE  OneKid' /\ KidOf(c)'
  BY DEF OneKid, KidOf, NoKid, Awaiting, CommandKid, Kid

(* What is known of a child lasts as long as its thread and the child stay. *)
LEMMA StutterKid ==
  ASSUME OneKid, NEW c \in Clients, KidOf(c), UNCHANGED <<handler, buffer, child, written>>
  PROVE  OneKid' /\ KidOf(c)'
  BY DEF OneKid, KidOf, NoKid, Awaiting, CommandKid, Kid

(* fork makes a child for a thread that has none. *)
LEMMA ForkKid ==
  ASSUME Types, NEW c \in Clients, NoKid, NEW new, Fork(new), new.cmd = buffer[c],
         UNCHANGED buffer,
         \/ handler'[c] = "exec" /\ new.kind = "command" /\ new.at = "running"
         \/ handler'[c] \in Awaiting \ {"exec"} /\ new.kind = "response" /\ new.at = "start"
  PROVE  OneKid' /\ KidOf(c)'
<1>1. PICK p \in Pids : child' = [child EXCEPT ![p] = new]
  BY DEF Fork
<1>2. child'[p] = new /\ \A q \in Pids : q # p => child'[q] = NoChild
  BY <1>1 DEF NoKid, Types, TypeOK
<1>3. new # NoChild
  BY DEF NoChild
<1>4. OneKid' /\ ~NoKid'
  BY <1>2, <1>3 DEF OneKid, NoKid
<1>5. handler'[c] = "exec" => CommandKid'
  BY <1>2 DEF CommandKid, Kid
<1>6. \A q \in Pids : child'[q] # NoChild =>
        /\ child'[q].cmd = buffer'[c]
        /\ handler'[c] \in Awaiting \ {"exec"} => child'[q].kind = "response"
        /\ child'[q].kind = "response" => child'[q].at = "start"
  BY <1>2
<1>7. QED
  BY <1>4, <1>5, <1>6 DEF KidOf, Awaiting

(* wait() takes the only child. *)
LEMMA WaitKid ==
  ASSUME Types, OneKid, NEW ended, Wait(ended)
  PROVE  NoKid'
<1>1. PICK p \in Pids : child[p] # NoChild /\ child' = [child EXCEPT ![p] = NoChild]
  BY DEF Wait
<1>2. QED
  BY <1>1 DEF OneKid, NoKid, Types, TypeOK

(* Every step of a thread keeps what is known of its child. *)
LEMMA HandleKid ==
  ASSUME Types, OneKid, NEW c \in Clients, KidOf(c), Handle(c)
  PROVE  OneKid' /\ KidOf(c)'
<1>1. handler \in [Clients -> HandlerPC]
  BY DEF Types, TypeOK
<1>2. CASE handler[c] \notin Awaiting /\ UNCHANGED child
  <2>1. handler[c] # "killed"
    BY DEF Handle, CallOpen, ReadRequest, TakeRequest, ReadNothing, Dispatch, WaitCommand,
           ReadOutput, Answer,
           SendResponse, ResponseSent, ResponseTimedOut, ResponseIgnored, Remove
  <2>2. NoKid'
    BY <1>2, <2>1 DEF KidOf, NoKid
  <2>3. ASSUME NEW new, Fork(new), new.kind \in {"command", "response"}
        PROVE  FALSE
    <3>1. PICK p \in Pids : child' = [child EXCEPT ![p] = new]
      BY <2>3 DEF Fork
    <3>2. child'[p] # NoChild
      BY <2>3, <3>1 DEF NoChild, Types, TypeOK
    <3>3. QED
      BY <2>2, <3>2 DEF NoKid
  <2>4. handler'[c] \notin Awaiting
    BY <1>1, <1>2, <2>3
    DEF Handle, CallOpen, ReadRequest, TakeRequest, ReadNothing, Dispatch, WaitCommand,
        ReadOutput, Answer,
        SendResponse, ResponseSent, ResponseTimedOut, ResponseIgnored, Remove, HandlerGoto, Awaiting
  <2>5. QED
    BY <2>2, <2>4, NoKidOf
<1>3. CASE WaitCommand(c) \/ ResponseSent(c) \/ ResponseTimedOut(c) \/ ResponseIgnored(c)
  <2>1. handler'[c] \notin Awaiting
    BY <1>1, <1>3 DEF WaitCommand, ResponseSent, ResponseTimedOut, ResponseIgnored, HandlerGoto,
                      Awaiting
  <2>2. NoKid'
    BY <1>3, WaitKid DEF WaitCommand, ResponseSent, ResponseTimedOut, ResponseIgnored
  <2>3. QED
    BY <2>1, <2>2, NoKidOf
<1>4. CASE Dispatch(c) /\ ~UNCHANGED child
  <2>1. NoKid
    BY <1>4 DEF KidOf, Dispatch, Awaiting
  <2>2. handler'[c] = "exec" /\ Fork([kind |-> "command", of |-> c, cmd |-> buffer[c], at |-> "running"])
    BY <1>1, <1>4 DEF Dispatch, HandlerGoto
  <2>3. UNCHANGED buffer
    BY <1>4 DEF Dispatch
  <2>4. QED
    BY <2>1, <2>2, <2>3, ForkKid
<1>5. CASE Answer(c) /\ ~UNCHANGED child
  <2>1. NoKid
    BY <1>5 DEF KidOf, Answer, SendResponse, Awaiting
  <2>2. /\ handler'[c] \in Awaiting \ {"exec"}
        /\ Fork([kind |-> "response", of |-> c, cmd |-> buffer[c], at |-> "start"])
    BY <1>1, <1>5 DEF Answer, SendResponse, HandlerGoto, Awaiting
  <2>3. UNCHANGED buffer
    BY <1>5 DEF Answer, SendResponse
  <2>4. QED
    BY <2>1, <2>2, <2>3, ForkKid
<1>6. Handle(c) => \/ WaitCommand(c) \/ ResponseSent(c) \/ ResponseTimedOut(c) \/ ResponseIgnored(c)
                   \/ handler[c] \notin Awaiting /\ (UNCHANGED child \/ Dispatch(c) \/ Answer(c))
  BY DEF Handle, CallOpen, ReadRequest, TakeRequest, ReadNothing, ReadOutput, Dispatch, Answer,
         SendResponse,
         Remove, Awaiting, children
<1>7. QED
  BY <1>2, <1>3, <1>4, <1>5, <1>6

(* Every step of a child too: a response is recorded as its last part is
   written. *)
LEMMA ChildKid ==
  ASSUME Alone, Types, OneKid, NEW c \in Clients, KidOf(c), NEW p \in Pids, ChildStep(p)
  PROVE  OneKid' /\ KidOf(c)'
<1>1. PICK at : /\ ChildGoto(p, at) /\ child'[p].at = at
                /\ child[p].of = c /\ child[p].kind \in {"command", "response"}
                /\ child'[p].kind = child[p].kind /\ child'[p].cmd = child[p].cmd
                /\ \A kind, states : Kid(kind, states) <=> child[p].kind = kind /\ child[p].at \in states
                /\ \A kind, states : Kid(kind, states)' <=> child[p].kind = kind /\ at \in states
                /\ ~NoKid /\ ~NoKid'
  BY KidGoes
<1>2. child[p] # NoChild
  BY <1>1 DEF NoChild
<1>3. \A q \in Pids : q # p => child'[q] = NoChild
  BY <1>1, <1>2 DEF OneKid, ChildGoto, Types, TypeOK
<1>4. OneKid'
  BY <1>3 DEF OneKid
<1>5. UNCHANGED <<handler, buffer>>
  BY DEF ChildStep, RunCommand, OpenResponse, WriteResponse, ResponseExit, ResponseAlarm,
         threads
<1>6. CommandKid => CommandKid'
  <2>1. CommandKid => at \in {"blocked", "ok"}
    <3>1. CommandKid => child[p].kind = "command"
      BY <1>1 DEF CommandKid
    <3>2. child[p].kind = "command" => ChildGoto(p, "ok") \/ ChildGoto(p, "blocked")
      BY DEF ChildStep, RunCommand, OpenResponse, WriteResponse, ResponseExit, ResponseAlarm,
             ChildAt
    <3>3. QED
      BY <1>1, <3>1, <3>2, KidAt
  <2>2. QED
    BY <1>1, <2>1 DEF CommandKid
<1>7. /\ child[p].cmd = buffer[c]
      /\ handler[c] \in Awaiting \ {"exec"} => child[p].kind = "response"
      /\ child[p].kind = "response" /\ child[p].at \in {"close", "ok"} => <<c, buffer[c]>> \in written
  BY <1>2 DEF KidOf
<1>8. child[p].kind = "response" /\ at \in {"close", "ok"} => <<c, buffer[c]>> \in written'
  <2>1. CASE WriteResponse(p)
    <3>1. \/ ChildGoto(p, "msg") \/ ChildGoto(p, "failed")
          \/ ChildGoto(p, "close") /\ written' = written \cup {<<child[p].of, child[p].cmd>>}
      BY <2>1 DEF WriteResponse, Part
    <3>2. QED
      BY <1>1, <1>7, <3>1, KidAt
  <2>2. CASE ResponseExit(p)
    BY <1>7, <2>2 DEF ResponseExit, ChildAt, history
  <2>3. CASE ResponseAlarm(p)
    BY <1>1, <2>3, KidAt DEF ResponseAlarm
  <2>4. CASE OpenResponse(p)
    <3>1. ChildGoto(p, "open") \/ ChildGoto(p, "failed") \/ ChildGoto(p, "size")
      BY <2>4 DEF OpenResponse
    <3>2. QED
      BY <1>1, <3>1, KidAt
  <2>5. CASE RunCommand(p)
    BY <2>5 DEF RunCommand, ChildAt
  <2>6. QED
    BY <2>1, <2>2, <2>3, <2>4, <2>5 DEF ChildStep
<1>9. KidOf(c)'
  <2>1. \A q \in Pids : child'[q] # NoChild => q = p
    BY <1>3
  <2>2. handler'[c] # "killed" => (~NoKid' <=> handler'[c] \in Awaiting)
    BY <1>1, <1>5 DEF KidOf
  <2>3. handler'[c] = "exec" => CommandKid'
    BY <1>5, <1>6 DEF KidOf
  <2>4. QED
    BY <1>1, <1>5, <1>7, <1>8, <2>1, <2>2, <2>3 DEF KidOf, Awaiting
<1>10. QED
  BY <1>4, <1>9

(* So does the end of the server. *)
LEMMA ServerExitKid ==
  ASSUME Types, OneKid, NEW c \in Clients, KidOf(c), ServerExit
  PROVE  OneKid' /\ KidOf(c)'
<1>1. /\ handler'[c] = "killed" \/ (handler'[c] = "removed" /\ handler[c] = "removed")
      /\ UNCHANGED <<buffer, child, written>>
  BY DEF ServerExit, children, history
<1>2. QED
  BY <1>1 DEF OneKid, KidOf, NoKid, Awaiting, CommandKid, Kid

(* The thread opens the request pipe, with no child. *)
LEMMA WriterKid ==
  ASSUME Types, OneKid, NEW c \in Clients, KidOf(c), NEW w \in WriterId,
         WriterTooLate(c, w) \/ WriterStep(c, w)
  PROVE  OneKid' /\ KidOf(c)'
<1>1. UNCHANGED <<buffer, child, written>>
  BY DEF WriterTooLate, WriterStep, RequestPipeOpens, WriterOpens, WriteRequest, WriterExit,
         WriterAlarm, WriterEnds, threads, children, history
<1>2. handler' = handler \/ (handler[c] = "open" /\ handler'[c] = "read")
  BY DEF WriterTooLate, WriterStep, RequestPipeOpens, WriterOpens, WriteRequest, WriterExit,
         WriterAlarm, WriterEnds, threads, HandlerGoto, Types, TypeOK
<1>3. QED
  BY <1>1, <1>2, StutterKid DEF OneKid, KidOf, NoKid, Awaiting, CommandKid, Kid

-----------------------------------------------------------------------------
(* How often the command was executed, step by step *)

(* The numbers of the commands are integers. *)
LEMMA Numbers ==
  ASSUME Types, NEW c \in Clients
  PROVE  /\ buffer[c] \in Command /\ current[c] \in Command /\ Command \subseteq Nat
         /\ executed[c] \in [Command -> 0 .. 2] /\ Garbage = 0
  BY MaxCommandsAssumption DEF Types, TypeOK, Command, Garbage, Exit

(* What is counted stays as long as the client and its thread do. *)
LEMMA StutterCounted ==
  ASSUME NEW c \in Clients, Counted(c), UNCHANGED <<client, current, handler, buffer, executed>>
  PROVE  Counted(c)'
  BY DEF Counted

(* A new command has not been executed. *)
LEMMA TypeCounted ==
  ASSUME Types, NEW c \in Clients, Counted(c), Type(c)
  PROVE  Counted(c)'
<1>1. /\ current'[c] \in {current[c] + 1, Exit} /\ current[c] \in 0 .. MaxCommands
      /\ UNCHANGED <<handler, buffer, executed>>
      /\ client[c] = "prompt"
  <2>1. client[c] = "prompt" /\ current[c] \in Command /\ current[c] # Exit
    BY DEF Type, Types, TypeOK, PromptBeforeExit
  <2>2. current[c] \in 0 .. MaxCommands
    BY <2>1, MaxCommandsAssumption DEF Command, Garbage, Exit
  <2>3. QED
    BY <2>1, <2>2 DEF Type, threads, history, Types, TypeOK
<1>2. current[c] < current'[c] /\ current'[c] \in Command
  BY <1>1, MaxCommandsAssumption DEF Command, Garbage, Exit
<1>3. /\ buffer[c] <= current[c]
      /\ \A k \in Command : k > current[c] => executed[c][k] = 0
  BY <1>1 DEF Counted, MainLoop
<1>4. buffer[c] < current'[c] /\ \A k \in Command : k >= current'[c] => executed[c][k] = 0
  BY <1>2, <1>3, Numbers
<1>5. QED
  BY <1>1, <1>2, <1>4, Numbers DEF Counted

(* The other steps of a client count nothing. *)
LEMMA ClientCounted ==
  ASSUME Types, NEW c \in Clients, Counted(c), Interrupt(c) \/ Kill(c) \/ ClientStep(c)
  PROVE  Counted(c)'
<1>1. UNCHANGED <<current, handler, buffer, executed>>
  BY DEF Interrupt, Kill, ClientStep, RequestSent, ReadSize, ReadMsg, ReadMsgThen,
         SelectTimeout,
         SelectTimeoutThen, ReadEnded, Leave, SigDisconnect, threads, history
<1>2. client'[c] \in MainLoop => client[c] \in MainLoop \ {"prompt"}
  BY DEF Interrupt, Kill, ClientStep, RequestSent, ReadSize, ReadMsg, ReadMsgThen,
         SelectTimeout,
         SelectTimeoutThen, ReadEnded, Leave, SigDisconnect, ClientGoto, MainLoop, InterruptedPC,
         Types, TypeOK
<1>3. QED
  BY <1>1, <1>2 DEF Counted

(* The thread opens the request pipe, and the command it has stays. *)
LEMMA WriterCounted ==
  ASSUME Types, NEW c \in Clients, Counted(c), NEW w \in WriterId,
         WriterTooLate(c, w) \/ WriterStep(c, w)
  PROVE  Counted(c)'
<1>1. UNCHANGED <<client, current, buffer, executed>>
  BY DEF WriterTooLate, WriterStep, RequestPipeOpens, WriterOpens, WriteRequest, WriterExit,
         WriterAlarm, WriterEnds, threads, history
<1>2. handler' = handler \/ (handler[c] = "open" /\ handler'[c] = "read")
  BY DEF WriterTooLate, WriterStep, RequestPipeOpens, WriterOpens, WriteRequest, WriterExit,
         WriterAlarm, WriterEnds, threads, HandlerGoto, Types, TypeOK
<1>3. QED
  BY <1>1, <1>2 DEF Counted

(* The thread executes the command it has. *)
LEMMA DispatchCounted ==
  ASSUME Types, NEW c \in Clients, InTurn(c), Counted(c), client[c] \in MainLoop, Dispatch(c)
  PROVE  Counted(c)'
<1>1. UNCHANGED <<client, current, buffer>> /\ handler[c] = "dispatch" /\ buffer[c] <= current[c]
  BY DEF Dispatch, clientSide, Counted
<1>2. client[c] # "prompt"
  BY <1>1 DEF InTurn, Phase, Idle, Idling, Closing, Calling, Connected, Asked, Sent, Sends,
              GivenUp, Working,
              Answering, Unanswered, Answered
<1>3. executed[c][current[c]] = 0
  BY <1>1, <1>2 DEF Counted
<1>4. CASE UNCHANGED executed /\ handler'[c] \in {"answer_last", "remove"}
  BY <1>1, <1>2, <1>3, <1>4 DEF Counted
<1>5. CASE /\ buffer[c] # Exit /\ handler'[c] = "exec"
           /\ executed' = [executed EXCEPT ![c][buffer[c]] = IF @ < 2 THEN @ + 1 ELSE @]
  <2>1. \A k \in Command : k # buffer[c] => executed'[c][k] = executed[c][k]
    BY <1>5, Numbers DEF Types, TypeOK
  <2>2. buffer[c] = current[c] => executed'[c][current[c]] = 1
    BY <1>3, <1>5, Numbers DEF Types, TypeOK
  <2>3. \A k \in Command : k > current[c] => executed'[c][k] = 0
    BY <1>1, <2>1, Numbers DEF Counted
  <2>4. buffer[c] # current[c] => executed'[c][current[c]] = 0
    BY <1>3, <2>1, Numbers
  <2>5. QED
    BY <1>1, <1>2, <1>5, <2>2, <2>3, <2>4 DEF Counted
<1>6. QED
  BY <1>4, <1>5 DEF Dispatch, HandlerGoto, Types, TypeOK

(* It reads a command, the last one or an earlier one. *)
LEMMA ReadCounted ==
  ASSUME Types, NEW c \in Clients, InTurn(c), Counted(c), client[c] \in MainLoop,
         ReadRequest(c) \/ ReadNothing(c)
  PROVE  Counted(c)'
<1>1. UNCHANGED <<client, current, executed>> /\ handler[c] = "read" /\ handler'[c] = "dispatch"
  BY DEF ReadRequest, TakeRequest, ReadNothing, clientSide, history, HandlerGoto, Types, TypeOK
<1>2. client[c] # "prompt" /\ buffer[c] < current[c]
  BY <1>1 DEF InTurn, Phase, Idle, Idling, Closing, Calling, Connected, Asked, Sent, Sends,
              GivenUp, Unread,
              Working, Busy, Answering, Unanswered, Answered
<1>3. buffer'[c] \in {buffer[c], Garbage, current[c]}
  <2>1. CASE ReadNothing(c)
    BY <2>1 DEF ReadNothing, Types, TypeOK
  <2>2. CASE ReadRequest(c)
    <3>1. buffer'[c] = Head(request[c]) /\ request[c] # << >>
      BY <2>2 DEF ReadRequest, TakeRequest, Types, TypeOK
    <3>2. request[c] = <<current[c]>>
      BY <1>1, <3>1 DEF InTurn, Phase, Idle, Idling, Closing, Calling, Connected, Asked,
                        GivenUp,
                        Working, Busy, Answering, Unanswered, Answered
    <3>3. QED
      BY <3>1, <3>2
  <2>3. QED
    BY <2>1, <2>2
<1>4. buffer'[c] <= current[c]
  BY <1>2, <1>3, Numbers
<1>5. executed[c][current[c]] = 0
  BY <1>2, Numbers DEF Counted
<1>6. QED
  BY <1>1, <1>2, <1>4, <1>5 DEF Counted

(* The other steps of a thread. *)
LEMMA HandleCounted ==
  ASSUME Types, NEW c \in Clients, InTurn(c), Counted(c), Handle(c)
  PROVE  Counted(c)'
<1>1. UNCHANGED <<client, current>>
  BY DEF Handle, CallOpen, ReadRequest, ReadNothing, Dispatch, WaitCommand, ReadOutput, Answer,
         SendResponse,
         ResponseSent, ResponseTimedOut, ResponseIgnored, Remove, clientSide
<1>2. SUFFICES ASSUME client[c] \in MainLoop PROVE Counted(c)'
  BY <1>1 DEF Counted
<1>3. CASE Dispatch(c) \/ ReadRequest(c) \/ ReadNothing(c)
  BY <1>2, <1>3, DispatchCounted, ReadCounted
<1>4. CASE ~(Dispatch(c) \/ ReadRequest(c) \/ ReadNothing(c))
  <2>1. UNCHANGED <<buffer, executed>>
    BY <1>4 DEF Handle, CallOpen, WaitCommand, ReadOutput, Answer, SendResponse, ResponseSent,
                ResponseTimedOut, ResponseIgnored, Remove, threads, history
  <2>2. handler[c] \notin {"answer_error", "wait_error"} /\ Linked(c)
    BY <1>2 DEF InTurn, Phase, Idle, Idling, Closing, Calling, Connected, Asked, GivenUp,
                Working, Busy,
                Answering, Unanswered, Answered, Linked, MainLoop
  <2>3. handler[c] = "start" => client[c] = "prompt" \/ buffer[c] # current[c]
    BY <1>2, Numbers DEF InTurn, Phase, Idle, Calling, Connected, Asked, GivenUp, Unread,
                         Working, Busy,
                Answering, Unanswered, Closing, Answered, Idling
  <2>4. /\ handler'[c] # "dispatch"
        /\ handler'[c] \in {"exec", "output", "answer", "wait", "listen", "open"} =>
             handler[c] \in {"exec", "output", "answer", "wait", "listen", "open", "start"}
    BY <1>4, <2>2 DEF Handle, CallOpen, WaitCommand, ReadOutput, Answer, SendResponse,
                      ResponseSent,
                ResponseTimedOut, ResponseIgnored, Remove, HandlerGoto, Types, TypeOK
  <2>5. QED
    BY <1>1, <1>2, <2>1, <2>3, <2>4 DEF Counted
<1>5. QED
  BY <1>3, <1>4

(* The children, and the end of the server. *)
LEMMA ChildCounted ==
  ASSUME Types, NEW c \in Clients, Counted(c), (\E p \in Pids : ChildStep(p)) \/ ServerExit
  PROVE  Counted(c)'
<1>1. UNCHANGED <<client, current, buffer, executed>>
  BY DEF ChildStep, RunCommand, OpenResponse, WriteResponse, ResponseExit, ResponseAlarm,
         ServerExit,
         clientSide, threads, history
<1>2. handler' = handler \/ handler'[c] \in {"killed", "removed"}
  BY DEF ChildStep, RunCommand, OpenResponse, WriteResponse, ResponseExit, ResponseAlarm,
         ServerExit, threads
<1>3. QED
  BY <1>1, <1>2 DEF Counted

-----------------------------------------------------------------------------
(* The dialogue *)

(* It starts at the first prompt, with no child. *)
LEMMA DialogueInit == Init => Dialogue
<1> SUFFICES ASSUME Init PROVE Dialogue
  OBVIOUS
<1>1. NoKid /\ Over /\ OneKid
  BY DEF Init, NoKid, Over, Kid, OneKid
<1>2. ASSUME NEW c \in Clients
      PROVE  InTurn(c) /\ KidOf(c) /\ Counted(c)
  <2>1. Idle(c) /\ writer[c]["exit"] = "none"
    BY <1>1, <1>2 DEF Init, Idle, Idling, Closing, Unserved, WriterId
  <2>2. KidOf(c)
    BY <1>1, <1>2 DEF Init, KidOf, Awaiting, Unserved, NoKid, CommandKid, Kid
  <2>3. Counted(c)
    BY <1>2, Commands DEF Init, Counted, Garbage
  <2>4. QED
    BY <2>1, <2>2, <2>3 DEF InTurn, Phase
<1>3. QED
  BY <1>1, <1>2 DEF Dialogue

(* Every step keeps it. *)
LEMMA DialogueStep ==
  ASSUME Alone, Types, Dialogue, [Next]_vars
  PROVE  Dialogue'
<1>1. OneKid' /\ \A c \in Clients : InTurn(c)' /\ KidOf(c)' /\ Counted(c)'
  <2>1. ASSUME NEW c \in Clients, NEW w \in WriterId, WriterTooLate(c, w) \/ WriterStep(c, w)
        PROVE  OneKid' /\ InTurn(c)' /\ KidOf(c)' /\ Counted(c)'
    BY <2>1, WriterTurn, WriterKid, WriterCounted DEF Dialogue
  <2>2. ASSUME NEW c \in Clients, Type(c) \/ Interrupt(c) \/ Kill(c) \/ ClientStep(c)
        PROVE  OneKid' /\ InTurn(c)' /\ KidOf(c)' /\ Counted(c)'
    <3>1. UNCHANGED <<handler, buffer, child, written>>
      BY <2>2 DEF Type, Interrupt, Kill, ClientStep, RequestSent, ReadSize, ReadMsg,
                  ReadMsgThen, SelectTimeout,
         SelectTimeoutThen, ReadEnded, Leave, SigDisconnect, threads, children, history
    <3>2. QED
      BY <2>2, <3>1, ClientTurn, StutterKid, TypeCounted, ClientCounted DEF Dialogue
  <2>3. ASSUME NEW c \in Clients, Handle(c)
        PROVE  OneKid' /\ InTurn(c)' /\ KidOf(c)' /\ Counted(c)'
    BY <2>3, HandleTurn, HandleKid, HandleCounted DEF Dialogue
  <2>4. ASSUME NEW c \in Clients, ProgramEnds(c) \/ UNCHANGED vars
        PROVE  OneKid' /\ InTurn(c)' /\ KidOf(c)' /\ Counted(c)'
    <3>1. /\ UNCHANGED <<client, current, writer, request, response, opened, handler, buffer, child>>
          /\ UNCHANGED <<executed, written>>
      BY <2>4 DEF ProgramEnds, vars, clientSide, pipes, threads, children, history
    <3>2. QED
      BY <3>1, StutterTurn, StutterKid, StutterCounted DEF Dialogue
  <2>5. ASSUME NEW c \in Clients, NEW p \in Pids, ChildStep(p)
        PROVE  OneKid' /\ InTurn(c)' /\ KidOf(c)' /\ Counted(c)'
    BY <2>5, ChildTurn, ChildKid, ChildCounted DEF Dialogue
  <2>6. ASSUME NEW c \in Clients, ServerExit
        PROVE  OneKid' /\ InTurn(c)' /\ KidOf(c)' /\ Counted(c)'
    BY <2>6, ServerExitTurn, ServerExitKid, ChildCounted DEF Dialogue
  <2>7. ASSUME NEW c \in Clients
        PROVE  OneKid' /\ InTurn(c)' /\ KidOf(c)' /\ Counted(c)'
    BY <2>1, <2>2, <2>3, <2>4, <2>5, <2>6 DEF Next, Alone
  <2>8. CASE Clients = {}
    <3>1. OneKid'
      <4>1. \A p \in Pids : child[p] = NoChild
        BY <2>8 DEF Types, TypeOK, CommandChild, ResponseChild
      <4>2. \A p \in Pids : child'[p] = NoChild
        BY <2>8, <4>1, TypesStep DEF Types, TypeOK, CommandChild, ResponseChild
      <4>3. QED
        BY <4>2 DEF OneKid
    <3>2. QED
      BY <2>8, <3>1
  <2>9. QED
    BY <2>7, <2>8
<1>2. QED
  BY <1>1 DEF Dialogue

-----------------------------------------------------------------------------
(* What follows from it *)

(* A client connected alone reads the response to the command it has just
   sent, the size before the message: no late response to an earlier command
   reaches it (connection.c:494-521). *)
THEOREM AnswersCurrentAlone == ASSUME Alone PROVE Spec => []AnswersCurrent
<1>1. Init => Types /\ Dialogue
  BY TypesInit, DialogueInit
<1>2. Types /\ Dialogue /\ [Next]_vars => (Types /\ Dialogue)'
  BY TypesStep, DialogueStep
<1>3. Types /\ Dialogue => AnswersCurrent
  <2> SUFFICES ASSUME Types, Dialogue, NEW c \in Clients, client[c] \in {"select", "msg"}, response[c] # << >>
               PROVE  Head(response[c]) = [cmd |-> current[c],
                                           part |-> IF client[c] = "select" THEN "size" ELSE "msg"]
    BY DEF AnswersCurrent
  <2>1. \/ client[c] = "select" /\ response[c] \in {<<Size(c)>>, <<Size(c), Msg(c)>>}
        \/ client[c] = "msg" /\ response[c] = <<Msg(c)>>
    BY ListensTo DEF Dialogue
  <2>2. QED
    BY <2>1 DEF Size, Msg
<1>4. QED
  BY <1>1, <1>2, <1>3, PTL DEF Spec

(* With a single client, send_response returns 1 only when the response was
   written whole, as connection.h:195-197 says: the child that wait() gives
   is its own. *)
THEOREM SuccessIsDeliveryAlone == ASSUME Alone PROVE Spec => SuccessIsDelivery
<1> DEFINE A == \A c \in Clients :
       handler[c] = "wait" /\ handler'[c] = "listen" => <<c, buffer[c]>> \in written
<1>1. Init => Types /\ Dialogue
  BY TypesInit, DialogueInit
<1>2. Types /\ Dialogue /\ [Next]_vars => (Types /\ Dialogue)'
  BY TypesStep, DialogueStep
<1>3. Types /\ Dialogue /\ [Next]_vars => [A]_vars
  <2> SUFFICES ASSUME Types, Dialogue, Next, NEW c \in Clients,
                      handler[c] = "wait", handler'[c] = "listen"
               PROVE  <<c, buffer[c]>> \in written
    BY DEF A
  <2>1. Handle(c)
    <3>1. ASSUME NEW d \in Clients, Handle(d)
          PROVE  d = c
      BY <3>1 DEF Alone
    <3>2. ASSUME NEW d \in Clients, NEW w \in WriterId, WriterTooLate(d, w) \/ WriterStep(d, w)
          PROVE  FALSE
      BY <3>2 DEF WriterTooLate, WriterStep, RequestPipeOpens, WriterOpens, WriteRequest,
                  WriterExit,
                  WriterAlarm, WriterEnds, HandlerGoto, threads, Types, TypeOK
    <3>3. ASSUME NEW d \in Clients, Type(d) \/ Interrupt(d) \/ Kill(d) \/ ClientStep(d) \/ ProgramEnds(d)
          PROVE  FALSE
      BY <3>3 DEF threads, Type, Interrupt, Kill, ClientStep, ProgramEnds, RequestSent,
                  ReadSize,
              ReadMsg, ReadMsgThen, SelectTimeout, SelectTimeoutThen, ReadEnded, Leave, SigDisconnect
    <3>4. ASSUME NEW p \in Pids, ChildStep(p)
          PROVE  FALSE
      BY <3>4 DEF threads, ChildStep, RunCommand, OpenResponse, WriteResponse, ResponseExit,
                  ResponseAlarm
    <3>5. ~ServerExit
      BY DEF ServerExit
    <3>6. QED
      BY <3>1, <3>2, <3>3, <3>4, <3>5 DEF Next
  <2>2. ResponseSent(c)
    BY <2>1 DEF Handle, CallOpen, ReadRequest, TakeRequest, ReadNothing, Dispatch, WaitCommand,
                ReadOutput,
                Answer, SendResponse, ResponseTimedOut, ResponseIgnored, Remove, HandlerGoto, Types, TypeOK
  <2>3. PICK p \in Pids : child[p] # NoChild /\ child[p].at = "ok"
    BY <2>2 DEF ResponseSent, Wait
  <2>4. QED
    BY <2>3 DEF Dialogue, KidOf, Awaiting
<1>4. QED
  BY <1>1, <1>2, <1>3, PTL DEF Spec, SuccessIsDelivery

(* A client alone has its command executed once at most while it waits, which
   is what connection.h:151 leads one to expect: a thread reads each request
   once (connection.c:334-357). *)
THEOREM NoReexecutionAlone == ASSUME Alone PROVE Spec => []NoReexecution
<1>1. Init => Types /\ Dialogue
  BY TypesInit, DialogueInit
<1>2. Types /\ Dialogue /\ [Next]_vars => (Types /\ Dialogue)'
  BY TypesStep, DialogueStep
<1>3. Types /\ Dialogue => NoReexecution
  BY DEF Dialogue, Counted, MainLoop, NoReexecution, Awaits
<1>4. QED
  BY <1>1, <1>2, <1>3, PTL DEF Spec

-----------------------------------------------------------------------------
(* The remote call that a client alone sees *)

(* The variable of RemoteCall. *)
Call == [c \in Clients |-> CallState(c)]

(* Where the client has submitted its command and waits. *)
Submitted(c) == client[c] \in {"sending", "select", "msg", "spin"}

(* Its command was executed, or "exit" was read. *)
Done(c) == IF current[c] = Exit THEN buffer[c] = Exit ELSE executed[c][current[c]] = 1

(* The states of a call. *)
LEMMA CallStates ==
  ASSUME Types, Dialogue, NEW c \in Clients
  PROVE  /\ client[c] = "prompt" => CallState(c) = "idle"
         /\ client[c] \notin MainLoop => CallState(c) = "gone"
         /\ Submitted(c) => CallState(c) = IF Done(c) THEN "executed"
                                           ELSE IF handler[c] \in Refusing THEN "refused" ELSE "submitted"
         /\ client[c] \in MainLoop <=> (Submitted(c) \/ client[c] = "prompt")
<1>1. client[c] \in ClientPC
  BY DEF Types, TypeOK
<1>2. Submitted(c) /\ current[c] # Exit => executed[c][current[c]] \in {0, 1}
  BY DEF Dialogue, Counted, Submitted, MainLoop
<1>3. QED
  BY <1>1, <1>2 DEF CallState, Done, Submitted, MainLoop, ClientPC, InterruptedPC

(* And after a step. *)
LEMMA CallStatesNext ==
  ASSUME Types', Dialogue', NEW c \in Clients
  PROVE  /\ client'[c] = "prompt" => CallState(c)' = "idle"
         /\ client'[c] \notin MainLoop => CallState(c)' = "gone"
         /\ Submitted(c)' => CallState(c)' = IF Done(c)' THEN "executed"
                                             ELSE IF handler'[c] \in Refusing THEN "refused" ELSE "submitted"
         /\ client'[c] \in MainLoop <=> (Submitted(c)' \/ client'[c] = "prompt")
<1>1. client'[c] \in ClientPC
  BY DEF Types, TypeOK
<1>2. Submitted(c)' /\ current'[c] # Exit => executed'[c][current'[c]] \in {0, 1}
  BY DEF Dialogue, Counted, Submitted, MainLoop
<1>3. QED
  BY <1>1, <1>2 DEF CallState, Done, Submitted, MainLoop, ClientPC, InterruptedPC

(* What may become of a call. *)
Legal(a, b) ==
  \/ a = b
  \/ a = "idle" /\ b \in {"submitted", "refused"}
  \/ a = "submitted" /\ b \in {"executed", "refused"}
  \/ a \in {"executed", "refused"} /\ b = "idle"
  \/ a \in {"idle", "submitted", "executed", "refused"} /\ b = "gone"

(* A client that leaves its main loop gives up. *)
LEMMA GoneLegal ==
  ASSUME Types, Dialogue, Types', Dialogue', NEW c \in Clients, client'[c] \notin MainLoop
  PROVE  Legal(CallState(c), CallState(c)')
  BY CallStates, CallStatesNext DEF Legal

(* The steps of the client. *)
LEMMA ClientLegal ==
  ASSUME Alone, Types, Dialogue, Types', Dialogue', NEW c \in Clients,
         Type(c) \/ Interrupt(c) \/ Kill(c) \/ ClientStep(c)
  PROVE  Legal(CallState(c), CallState(c)')
<1>1. SUFFICES ASSUME client'[c] \in MainLoop PROVE Legal(CallState(c), CallState(c)')
  BY GoneLegal
<1>2. UNCHANGED <<handler, buffer, executed>> /\ client \in [Clients -> ClientPC]
      /\ current \in [Clients -> Command]
  BY DEF Type, Interrupt, Kill, ClientStep, RequestSent, ReadSize, ReadMsg, ReadMsgThen,
         SelectTimeout,
         SelectTimeoutThen, ReadEnded, Leave, SigDisconnect, threads, history, Types, TypeOK
<1>3. CASE Type(c)
  <2>1. client[c] = "prompt" /\ client'[c] = "sending" /\ current'[c] \in {current[c] + 1, Exit}
    BY <1>2, <1>3 DEF Type, ClientGoto
  <2>2. buffer[c] # Exit /\ executed[c][current'[c]] = 0
    <3>1. current[c] < current'[c] /\ current'[c] <= Exit /\ buffer[c] <= current[c]
          /\ \A k \in Command : k > current[c] => executed[c][k] = 0
      <4>1. current[c] # Exit
        BY <2>1 DEF Types, PromptBeforeExit
      <4>2. current[c] < Exit
        BY <1>2, <4>1, MaxCommandsAssumption DEF Command, Garbage, Exit
      <4>3. QED
        BY <1>2, <2>1, <4>2, Numbers, MaxCommandsAssumption
        DEF Dialogue, Counted, MainLoop, Exit
    <3>2. current'[c] \in Command
      BY DEF Types, TypeOK
    <3>3. QED
      BY <3>1, <3>2, Numbers, MaxCommandsAssumption DEF Exit
  <2>3. ~Done(c)'
    BY <1>2, <2>2 DEF Done
  <2>4. Submitted(c)'
    BY <2>1 DEF Submitted
  <2>5. QED
    BY <2>1, <2>3, <2>4, CallStates, CallStatesNext DEF Legal
<1>4. CASE ~Type(c)
  <2>1. /\ UNCHANGED current
        /\ client[c] \in {"sending", "select", "msg"}
        /\ client'[c] # "prompt" \/ ReadMsg(c) \/ ReadEnded(c)
    BY <1>1, <1>2, <1>4
    DEF Interrupt, Kill, ClientStep, RequestSent, ReadSize, ReadMsg, ReadMsgThen, SelectTimeout,
        SelectTimeoutThen, ReadEnded, Leave, SigDisconnect, ClientGoto, MainLoop, InterruptedPC
  <2>2. Submitted(c) /\ Done(c)' = Done(c)
    BY <1>2, <2>1 DEF Submitted, Done
  <2>3. CASE client'[c] # "prompt"
    <3>1. Submitted(c)'
      BY <1>1, <2>3 DEF Submitted, MainLoop
    <3>2. QED
      BY <1>2, <2>2, <3>1, CallStates, CallStatesNext DEF Legal
  <2>4. CASE client'[c] = "prompt"
    <3>1. Answered(c)
      <4>1. CASE ReadMsg(c)
        <5>1. client[c] = "msg" /\ response[c] # << >>
          BY <1>1, <4>1, <2>1 DEF ReadMsg, ReadMsgThen
        <5>2. QED
          BY <5>1, ListensTo DEF Dialogue
      <4>2. CASE ReadEnded(c)
        <5>1. client[c] \in {"select", "msg"} /\ Ended(c)
          BY <4>2, <2>1 DEF ReadEnded
        <5>2. QED
          BY <5>1, EndedTurn DEF Dialogue
      <4>3. QED
        BY <2>1, <2>4, <4>1, <4>2
    <3>2. handler[c] \notin Refusing => handler[c] \in {"wait", "listen", "open"}
      BY <3>1 DEF Answered, Idling, Closing, Refusing
    <3>3. handler[c] \notin Refusing => Done(c)
      BY <2>1, <3>1, <3>2 DEF Dialogue, Counted, MainLoop, Answered, Taken, Done
    <3>4. CallState(c) \in {"executed", "refused"}
      BY <2>2, <3>3, CallStates
    <3>5. CallState(c)' = "idle"
      BY <2>4, CallStatesNext
    <3>6. QED
      BY <3>4, <3>5 DEF Legal
  <2>5. QED
    BY <2>3, <2>4
<1>5. QED
  BY <1>3, <1>4

(* A command once executed remains so, and once refused too. *)
LEMMA ServerLegal ==
  ASSUME Types, Dialogue, Types', Dialogue', NEW c \in Clients, UNCHANGED <<client, current>>,
         Done(c) /\ client[c] # "prompt" /\ client[c] \in MainLoop => Done(c)',
         ~Done(c) /\ handler[c] \in Refusing => ~Done(c)' /\ handler'[c] \in Refusing
  PROVE  Legal(CallState(c), CallState(c)')
<1>1. CASE client[c] \notin MainLoop
  BY <1>1, CallStates, CallStatesNext DEF Legal
<1>2. CASE client[c] = "prompt"
  BY <1>2, CallStates, CallStatesNext DEF Legal
<1>3. CASE Submitted(c)
  <2>1. Submitted(c)' /\ client[c] # "prompt" /\ client[c] \in MainLoop
    BY <1>3 DEF Submitted, MainLoop
  <2>2. CASE Done(c)
    BY <1>3, <2>1, <2>2, CallStates, CallStatesNext DEF Legal
  <2>3. CASE ~Done(c)
    BY <1>3, <2>1, <2>3, CallStates, CallStatesNext DEF Legal
  <2>4. QED
    BY <2>2, <2>3
<1>4. QED
  BY <1>1, <1>2, <1>3, CallStates

(* The steps of the thread. *)
LEMMA HandleLegal ==
  ASSUME Types, Dialogue, Types', Dialogue', NEW c \in Clients, Handle(c)
  PROVE  Legal(CallState(c), CallState(c)')
<1>1. UNCHANGED <<client, current>>
  BY DEF Handle, CallOpen, ReadRequest, ReadNothing, Dispatch, WaitCommand, ReadOutput, Answer,
         SendResponse,
         ResponseSent, ResponseTimedOut, ResponseIgnored, Remove, clientSide
<1>2. handler[c] \in Refusing => handler'[c] \in Refusing /\ UNCHANGED <<buffer, executed>>
  BY DEF Handle, CallOpen, ReadRequest, TakeRequest, ReadNothing, Dispatch, WaitCommand,
         ReadOutput, Answer,
         SendResponse, ResponseSent, ResponseTimedOut, ResponseIgnored, Remove, threads, history, HandlerGoto,
         Refusing, Types, TypeOK
<1>3. ~Done(c) /\ handler[c] \in Refusing => ~Done(c)' /\ handler'[c] \in Refusing
  BY <1>1, <1>2 DEF Done
<1>4. ASSUME Done(c), client[c] # "prompt", client[c] \in MainLoop
      PROVE  Done(c)'
  <2>1. buffer'[c] = buffer[c] \/ handler[c] = "read"
    BY DEF Handle, CallOpen, ReadRequest, TakeRequest, ReadNothing, Dispatch, WaitCommand,
           ReadOutput, Answer,
           SendResponse, ResponseSent, ResponseTimedOut, ResponseIgnored, Remove, threads
  <2>2. handler[c] = "read" => buffer[c] # current[c]
    BY <1>4, Numbers DEF Dialogue, InTurn, Phase, Idle, Idling, Closing, Calling, Connected,
                         Asked, GivenUp, Unread,
                Working, Busy, Answering, Unanswered, Answered
  <2>3. CASE current[c] = Exit
    BY <1>1, <1>4, <2>1, <2>2, <2>3 DEF Done
  <2>4. CASE current[c] # Exit
    <3>1. executed[c][current[c]] = 1
      BY <1>4, <2>4 DEF Done
    <3>2. buffer[c] # current[c] \/ handler[c] # "dispatch"
      BY <1>4, <3>1 DEF Dialogue, Counted
    <3>3. executed'[c][current[c]] = executed[c][current[c]]
      BY <3>2, Numbers DEF Handle, CallOpen, ReadRequest, TakeRequest, ReadNothing, Dispatch,
                           WaitCommand, ReadOutput,
             Answer, SendResponse, ResponseSent, ResponseTimedOut, ResponseIgnored, Remove, history, Types, TypeOK
    <3>4. QED
      BY <1>1, <2>4, <3>1, <3>3 DEF Done
  <2>5. QED
    BY <2>3, <2>4
<1>5. QED
  BY <1>1, <1>3, <1>4, ServerLegal

(* The other steps: only a thread that opens its pipe, or ends, moves. *)
LEMMA OtherLegal ==
  ASSUME Types, Dialogue, Types', Dialogue', NEW c \in Clients,
         UNCHANGED <<client, current, buffer, executed>>,
         handler[c] \in Refusing => handler'[c] \in Refusing
  PROVE  Legal(CallState(c), CallState(c)')
<1>1. Done(c)' = Done(c)
  BY DEF Done
<1>2. QED
  BY <1>1, ServerLegal

(* Every step is legal for the client. *)
LEMMA StepLegal ==
  ASSUME Alone, Types, Dialogue, Types', Dialogue', [Next]_vars, NEW c \in Clients
  PROVE  Legal(CallState(c), CallState(c)')
<1>1. ASSUME NEW w \in WriterId, WriterTooLate(c, w) \/ WriterStep(c, w)
      PROVE  Legal(CallState(c), CallState(c)')
  <2>1. UNCHANGED <<client, current, buffer, executed>>
    BY <1>1 DEF WriterTooLate, WriterStep, RequestPipeOpens, WriterOpens, WriteRequest,
                WriterExit,
         WriterAlarm, WriterEnds, threads, history
  <2>2. handler' = handler \/ handler[c] = "open"
    BY <1>1 DEF WriterTooLate, WriterStep, RequestPipeOpens, WriterOpens, WriteRequest,
                WriterExit,
         WriterAlarm, WriterEnds, threads
  <2>3. QED
    BY <2>1, <2>2, OtherLegal DEF Refusing
<1>2. ASSUME NEW p \in Pids, ChildStep(p)
      PROVE  Legal(CallState(c), CallState(c)')
  BY <1>2, OtherLegal DEF ChildStep, RunCommand, OpenResponse, WriteResponse, ResponseExit,
                          ResponseAlarm,
         clientSide, threads, history
<1>3. CASE ServerExit
  BY <1>3, OtherLegal DEF ServerExit, clientSide, history, Refusing
<1>4. CASE ProgramEnds(c) \/ UNCHANGED vars
  BY <1>4, OtherLegal DEF ProgramEnds, vars, clientSide, threads, history
<1>5. QED
  BY <1>1, <1>2, <1>3, <1>4, ClientLegal, HandleLegal DEF Next, Alone

(* A legal step of the only client is a step of the remote call. *)
LEMMA LegalStep ==
  ASSUME Alone, NEW c \in Clients, Legal(CallState(c), CallState(c)')
  PROVE  [RC!Next]_Call
<1>1. Call[c] = CallState(c) /\ \A to : CallState(c)' = to => Call' = [Call EXCEPT ![c] = to]
  BY DEF Call, Alone
<1>2. ASSUME NEW from, NEW to, CallState(c) = from, CallState(c)' = to
      PROVE  RC!Move(c, from, to)
  BY <1>1, <1>2 DEF RC!Move, Call
<1>3. CASE CallState(c)' = CallState(c)
  <2>1. Call' = Call
    BY <1>3 DEF Call, Alone
  <2>2. QED
    BY <2>1
<1>4. CASE CallState(c) = "idle" /\ CallState(c)' \in {"submitted", "refused"}
  BY <1>2, <1>4 DEF RC!Next, RC!Submit
<1>5. CASE CallState(c) = "submitted" /\ CallState(c)' \in {"executed", "refused"}
  BY <1>2, <1>5 DEF RC!Next, RC!Execute, RC!Refuse
<1>6. CASE CallState(c) \in {"executed", "refused"} /\ CallState(c)' = "idle"
  BY <1>2, <1>6 DEF RC!Next, RC!Answer
<1>7. CASE CallState(c) \in {"idle", "submitted", "executed", "refused"} /\ CallState(c)' = "gone"
  BY <1>2, <1>7 DEF RC!Next, RC!GiveUp, RC!States
<1>8. QED
  BY <1>3, <1>4, <1>5, <1>6, <1>7 DEF Legal

(* A client connected alone sees the remote call that RemoteCall promises:
   as long as it waits, its command is executed once, and it is not answered
   before, or it is refused and never executed (server.c:235-320,
   client.c:124-182). *)
THEOREM RemoteCallAlone == ASSUME Alone PROVE Spec => ImplementsRemoteCall
<1>1. Init => Types /\ Dialogue
  BY TypesInit, DialogueInit
<1>2. Types /\ Dialogue /\ [Next]_vars => (Types /\ Dialogue)'
  BY TypesStep, DialogueStep
<1>3. Init => RC!Init
  BY DEF Init, RC!Init, CallState, InterruptedPC
<1>4. Types /\ Dialogue /\ (Types /\ Dialogue)' /\ [Next]_vars => [RC!Next]_Call
  <2> SUFFICES ASSUME Types, Dialogue, Types', Dialogue', [Next]_vars PROVE [RC!Next]_Call
    OBVIOUS
  <2>1. CASE Clients = {}
    <3>1. Call' = Call
      BY <2>1 DEF Call
    <3>2. QED
      BY <3>1
  <2>2. ASSUME NEW c \in Clients PROVE [RC!Next]_Call
    BY <2>2, StepLegal, LegalStep
  <2>3. QED
    BY <2>1, <2>2
<1>5. QED
  BY <1>1, <1>2, <1>3, <1>4, PTL DEF Spec, ImplementsRemoteCall, RC!Spec, Call
=============================================================================
