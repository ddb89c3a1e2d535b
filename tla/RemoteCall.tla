----------------------------- MODULE RemoteCall ------------------------------
(***************************************************************************)
(* What a client may rely on once it is connected: it submits one command  *)
(* at a time, and gets an answer only after the server has executed the    *)
(* command, once, or has refused it for good.  The client may give up at   *)
(* any time; the server does not learn of it.                              *)
(***************************************************************************)
CONSTANT Clients

VARIABLE call   \* the state of each client's current command

(* A refused command is never executed. *)
States == {"idle", "submitted", "executed", "refused", "gone"}

Init == call = [c \in Clients |-> "idle"]

Move(c, from, to) ==
  /\ call[c] = from
  /\ call' = [call EXCEPT ![c] = to]

Submit(c) == \E s \in {"submitted", "refused"} : Move(c, "idle", s)

Execute(c) == Move(c, "submitted", "executed")

Refuse(c) == Move(c, "submitted", "refused")

Answer(c) == \E s \in {"executed", "refused"} : Move(c, s, "idle")

GiveUp(c) == \E s \in States \ {"gone"} : Move(c, s, "gone")

(* All the commands that wait are refused when the server ends. *)
RefuseAll ==
  call' = [c \in Clients |-> IF call[c] = "submitted" THEN "refused" ELSE call[c]]

Next ==
  \/ \E c \in Clients : Submit(c) \/ Execute(c) \/ Refuse(c) \/ Answer(c) \/ GiveUp(c)
  \/ RefuseAll

Spec == Init /\ [][Next]_call
=============================================================================
