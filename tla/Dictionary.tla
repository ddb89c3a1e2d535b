----------------------------- MODULE Dictionary -----------------------------
(* What the users of the configuration rely on.  While it is loaded, a key  *)
(* is bound or bound again and no other changes; then the bindings stay     *)
(* until it is closed, by its user and never because the load failed.       *)
(* Which of two bindings of a key it keeps is not promised.                 *)
CONSTANTS Keys, Bindings, Unbound

VARIABLES
  phase,   \* "load", "use" or "closed"
  bound    \* what each key is bound to

Init == phase = "load" /\ bound = [k \in Keys |-> Unbound]

Put(k) ==
  /\ phase = "load"
  /\ \E b \in Bindings : bound' = [bound EXCEPT ![k] = b]
  /\ UNCHANGED phase

Open ==
  /\ phase = "load"
  /\ phase' = "use"
  /\ UNCHANGED bound

Close ==
  /\ phase = "use"
  /\ phase' = "closed"
  /\ bound' = [k \in Keys |-> Unbound]

Next == (\E k \in Keys : Put(k)) \/ Open \/ Close

Spec == Init /\ [][Next]_<<phase, bound>>
=============================================================================
