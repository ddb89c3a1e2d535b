------------------------ MODULE ServerQueueRefinement ------------------------
(***************************************************************************)
(* Proofs about what ServerQueue promises to its users, for every finite   *)
(* set of clients, number of slots and combination of faults: no request   *)
(* is served twice, and the ring with its semaphores implements            *)
(* ConnectionQueue.                                                        *)
(***************************************************************************)
EXTENDS ServerQueueProofs, SequenceTheorems

-----------------------------------------------------------------------------
(* The invariant *)

(* Where a client is once it has written its request. *)
Written == {"post_mutex", "post_full", "sent"}

(* The request at the tail does not wait any more when apply has returned. *)
Taken == IF server = "advance" THEN 1 ELSE 0

(* After a failure of apply the server takes no other request. *)
FailureLast == r # "ok" => server \in {"advance", "post_mutex", "post_empty", "exited"}

(* Every request was written by its client, and once. *)
RingWritten == \A k \in 0 .. length - 1 : client[buffer[Position(k)]] \in Written

(* What is in the ring is of clients that were not served, each once. *)
RingOnce ==
  \A j, k \in 0 .. length - 1 : buffer[Position(j)] = buffer[Position(k)] => j = k

(* So was every request that got a thread, and it does not wait any more. *)
ServedWritten ==
  \A i \in DOMAIN served : served[i] \in Clients /\ client[served[i]] \in Written

(* Nobody that was served is in the ring any more. *)
ServedGone ==
  \A i \in DOMAIN served : \A k \in Taken .. length - 1 : served[i] # buffer[Position(k)]

(* The inductive invariant. *)
FifoInv ==
  FailureLast /\ RingWritten /\ RingOnce /\ ServedWritten /\ ServedOnce /\ ServedGone

-----------------------------------------------------------------------------
(* What a step does to the requests *)

(* A client that has written its request stays where it has. *)
LEMMA WrittenStays ==
  ASSUME TypeOK, [Next]_vars, NEW c \in Clients, client[c] \in Written
  PROVE  client'[c] \in Written
<1>1. ASSUME NEW d \in Clients, Send(d)
      PROVE  client'[c] \in Written
  BY <1>1
  DEF TypeOK, Written, Send, WaitEmpty, TimeoutEmpty, WaitMutex, TimeoutMutex,
      Enqueue, PostMutex, PostFull, At, Goto
<1>2. CASE UNCHANGED client
  BY <1>2
<1>3. QED
  BY <1>1, <1>2
  DEF Next, vars, Kill, Fetch, ServerWaitFull, ServerWaitMutex, Apply, Advance,
      ServerPostMutex, ServerPostEmpty, SigFree, FreeServerQueue

(* A writer has the mutex: neither the server nor the handler has it. *)
LEMMA WriterAlone ==
  ASSUME IInv, NEW c \in Clients, client[c] \in {"enqueue", "post_mutex"}
  PROVE  server \notin {"apply", "advance", "post_mutex"} /\ handler # "stopped"
<1>1. IsFiniteSet(InCriticalSection) /\ Cardinality(InCriticalSection) \in Nat
  BY CountType DEF InCriticalSection
<1>2. c \in InCriticalSection
  BY DEF InCriticalSection, InSend
<1>3. Cardinality(InCriticalSection) # 0
  BY <1>1, <1>2, FS_EmptySet
<1>4. QED
  BY <1>1, <1>3 DEF IInv, TypeOK, QueueInv, MutexConserved, ServerIn

(* What an invariant state says of the ring. *)
LEMMA RingBounds ==
  ASSUME IInv
  PROVE  /\ Slots \in Nat /\ length \in Nat /\ length <= Slots
         /\ tail \in Slot /\ head \in Slot
         /\ \A k \in 0 .. length - 1 : Position(k) \in Slot /\ buffer[Position(k)] \in Clients
<1>1. /\ Slots \in Nat /\ length \in Nat /\ length <= Slots
      /\ tail \in Slot /\ head \in Slot
  BY SlotsAssumption DEF IInv, TypeOK, QueueInv, RingConsistent
<1>2. \A k \in 0 .. length - 1 : Position(k) \in Slot
  BY <1>1 DEF Position, Slot
<1>3. QED
  BY <1>1, <1>2 DEF IInv, QueueInv, RingConsistent

(* A request is written behind those that wait. *)
LEMMA RingEnqueue ==
  ASSUME IInv, NEW c \in Clients, Enqueue(c)
  PROVE  /\ length < Slots /\ server # "advance" /\ handler # "stopped"
         /\ \A k \in 0 .. length :
              buffer'[Position(k)'] = IF k = length THEN c ELSE buffer[Position(k)]
<1>1. server # "advance" /\ handler # "stopped"
  BY WriterAlone DEF Enqueue, At
<1>2. length < Slots
  <2>1. Cardinality(Unannounced) < Cardinality(Reservations)
    BY WriterReserves DEF Enqueue, At, IInv
  <2>2. QED
    BY <2>1, CountTypes, SlotsAssumption
    DEF IInv, TypeOK, QueueInv, SlotsConserved, LengthCounts, ServerIn
<1>3. head = Position(length)
  BY <1>2, RingBounds DEF IInv, QueueInv, RingConsistent
<1>4. \A k \in 0 .. length :
        /\ Position(k)' = Position(k) /\ Position(k) \in Slot
        /\ k # length => Position(k) # head
  BY <1>2, <1>3, RingBounds DEF Enqueue, Position, Slot
<1>5. buffer' = [buffer EXCEPT ![head] = c] /\ buffer \in [Slot -> Clients \cup {NoRequest}]
  BY DEF Enqueue, IInv, TypeOK
<1>6. QED
  BY <1>1, <1>2, <1>3, <1>4, <1>5

(* When tail moves, the next request becomes the oldest. *)
LEMMA RingAdvance ==
  ASSUME IInv, Advance
  PROVE  /\ length > 0
         /\ \A k \in 0 .. length - 2 : buffer'[Position(k)'] = buffer[Position(k + 1)]
<1>1. length > 0
  BY CountTypes DEF IInv, TypeOK, QueueInv, LengthCounts, ServerIn, Advance, Running
<1>2. /\ tail' = (IF tail + 1 = Slots THEN 0 ELSE tail + 1)
      /\ Slots \in Nat /\ tail \in 0 .. Slots - 1 /\ length \in 0 .. Slots
  BY RingBounds, SuccSlot DEF Advance, Slot
<1>3. ASSUME NEW k \in 0 .. length - 2
      PROVE  Position(k)' = Position(k + 1)
  BY <1>2 DEF Position
<1>4. QED
  BY <1>1, <1>3 DEF Advance

(* The server that calls apply has the oldest request at tail. *)
LEMMA RingApply ==
  ASSUME IInv, server = "apply"
  PROVE  length > 0 /\ buffer[tail] = buffer[Position(0)]
<1>1. length > 0
  BY CountTypes DEF IInv, TypeOK, QueueInv, LengthCounts, ServerIn
<1>2. QED
  BY <1>1, RingBounds DEF Position, Slot

(* What apply adds to the served requests. *)
LEMMA ServedApply ==
  ASSUME IInv, Apply, r' = "ok"
  PROVE  /\ Len(served) \in Nat /\ DOMAIN served = 1 .. Len(served)
         /\ DOMAIN served' = 1 .. Len(served) + 1
         /\ \A i \in 1 .. Len(served) : served'[i] = served[i]
         /\ served'[Len(served) + 1] = buffer[Position(0)]
<1>1. served \in Seq(Clients \cup {NoRequest}) /\ buffer[tail] \in Clients \cup {NoRequest}
  BY DEF IInv, TypeOK
<1>2. served' = Append(served, buffer[tail]) /\ buffer[tail] = buffer[Position(0)]
  BY RingApply DEF Apply, Running
<1>3. served' \in Seq(Clients \cup {NoRequest})
  BY <1>1, <1>2, AppendProperties
<1>4. QED
  BY <1>1, <1>2, <1>3, AppendProperties, LenProperties

-----------------------------------------------------------------------------
(* The invariant is preserved by every step *)

(* A step that leaves the ring and the served requests alone. *)
LEMMA FifoStays ==
  ASSUME IInv, FifoInv, [Next]_vars, UNCHANGED <<ring, served>>, FailureLast',
         Taken' >= Taken
  PROVE  FifoInv'
<1>1. \A k : Position(k)' = Position(k)
  BY DEF Position, ring
<1>2. /\ length' = length /\ buffer' = buffer /\ served' = served
      /\ Taken \in Nat /\ Taken' \in Nat /\ length \in Nat
  BY RingBounds DEF ring, Taken
<1>3. RingWritten' /\ RingOnce'
  BY <1>1, <1>2, RingBounds, WrittenStays DEF FifoInv, RingWritten, RingOnce, IInv
<1>4. ServedWritten' /\ ServedOnce'
  BY <1>2, WrittenStays DEF FifoInv, ServedWritten, ServedOnce, IInv
<1>5. ServedGone'
  <2>1. \A k \in Taken' .. length - 1 : k \in Taken .. length - 1
    BY <1>2
  <2>2. QED
    BY <1>1, <1>2, <2>1 DEF FifoInv, ServedGone
<1>6. QED
  BY <1>3, <1>4, <1>5 DEF FifoInv

(* A request that is written is a new one: its client was not counted
   before. *)
LEMMA FifoEnqueue ==
  ASSUME IInv, FifoInv, NEW c \in Clients, Enqueue(c)
  PROVE  FifoInv'
<1>1. [Next]_vars
  BY DEF Next, Send
<1>2. /\ length' = length + 1 /\ length \in Nat
      /\ server' = server /\ r' = r /\ served' = served
      /\ server # "advance" /\ Taken = 0 /\ Taken' = 0
  BY RingEnqueue, RingBounds DEF Enqueue, main, Taken
<1>3. client[c] \notin Written /\ client'[c] \in Written
  BY DEF Enqueue, At, Goto, Written, IInv, TypeOK
<1>4. \A k \in 0 .. length - 1 :
        /\ buffer'[Position(k)'] = buffer[Position(k)]
        /\ buffer[Position(k)] \in Clients
        /\ client[buffer[Position(k)]] \in Written
        /\ buffer[Position(k)] # c
  BY <1>2, <1>3, RingEnqueue, RingBounds DEF FifoInv, RingWritten
<1>5. \A k \in 0 .. length' - 1 :
        \/ k = length /\ buffer'[Position(k)'] = c
        \/ k \in 0 .. length - 1 /\ buffer'[Position(k)'] = buffer[Position(k)]
  BY <1>2, RingEnqueue
<1>6. FailureLast'
  BY <1>2 DEF FifoInv, FailureLast
<1>7. RingWritten'
  BY <1>1, <1>3, <1>4, <1>5, WrittenStays DEF RingWritten, IInv
<1>8. RingOnce'
  BY <1>4, <1>5 DEF FifoInv, RingOnce
<1>9. ServedWritten' /\ ServedOnce'
  BY <1>1, <1>2, WrittenStays DEF FifoInv, ServedWritten, ServedOnce, IInv
<1>10. ServedGone'
  <2>1. \A i \in DOMAIN served : served[i] # c
    BY <1>3 DEF FifoInv, ServedWritten
  <2>2. QED
    BY <1>2, <1>4, <1>5, <2>1 DEF FifoInv, ServedGone
<1>11. QED
  BY <1>6, <1>7, <1>8, <1>9, <1>10 DEF FifoInv

(* apply serves the oldest request, which was not served before, or none. *)
LEMMA FifoApply ==
  ASSUME IInv, FifoInv, Apply
  PROVE  FifoInv'
<1>1. [Next]_vars
  BY DEF Next, Fetch
<1>2. /\ UNCHANGED <<ring, client>> /\ server = "apply" /\ server' = "advance"
      /\ Taken = 0 /\ Taken' = 1
  BY DEF Apply, Running, Taken
<1>3. FailureLast'
  BY <1>2 DEF FailureLast
<1>4. CASE r' # "ok"
  BY <1>1, <1>2, <1>3, <1>4, FifoStays DEF Apply
<1>5. CASE r' = "ok"
  <2>1. \A k : Position(k)' = Position(k)
    BY <1>2 DEF Position, ring
  <2>2. length' = length /\ buffer' = buffer /\ client' = client /\ length \in Nat /\ length > 0
    BY <1>2, RingBounds, RingApply DEF ring
  <2>3. RingWritten' /\ RingOnce'
    BY <2>1, <2>2 DEF FifoInv, RingWritten, RingOnce
  <2>4. \A i \in DOMAIN served' :
          \/ i \in DOMAIN served /\ served'[i] = served[i]
          \/ i = Len(served) + 1 /\ served'[i] = buffer[Position(0)]
    BY <1>5, ServedApply
  <2>5. /\ buffer[Position(0)] \in Clients /\ client[buffer[Position(0)]] \in Written
        /\ \A i \in DOMAIN served : served[i] # buffer[Position(0)]
    BY <1>2, <2>2, RingBounds DEF FifoInv, RingWritten, ServedGone
  <2>6. ServedWritten'
    BY <2>2, <2>4, <2>5 DEF FifoInv, ServedWritten
  <2>7. ServedOnce'
    BY <2>4, <2>5 DEF FifoInv, ServedOnce
  <2>8. ServedGone'
    <3>1. \A k \in 1 .. length - 1 :
            /\ buffer[Position(k)] # buffer[Position(0)]
            /\ \A i \in DOMAIN served : served[i] # buffer[Position(k)]
      BY <1>2, <2>2 DEF FifoInv, RingOnce, ServedGone
    <3>2. QED
      BY <1>2, <2>1, <2>2, <2>4, <3>1 DEF ServedGone
  <2>9. QED
    BY <1>3, <2>3, <2>6, <2>7, <2>8 DEF FifoInv
<1>6. QED
  BY <1>4, <1>5

(* The request that apply was given leaves the ring. *)
LEMMA FifoAdvance ==
  ASSUME IInv, FifoInv, Advance
  PROVE  FifoInv'
<1>1. /\ length' = length - 1 /\ length \in Nat /\ length > 0
      /\ UNCHANGED <<client, r, served>>
      /\ server = "advance" /\ server' = "post_mutex" /\ Taken = 1 /\ Taken' = 0
  BY RingBounds, RingAdvance DEF Advance, Running, Taken
<1>2. \A k \in 0 .. length' - 1 :
        k + 1 \in 1 .. length - 1 /\ buffer'[Position(k)'] = buffer[Position(k + 1)]
  BY <1>1, RingAdvance
<1>3. FailureLast'
  BY <1>1 DEF FifoInv, FailureLast
<1>4. RingWritten'
  BY <1>1, <1>2 DEF FifoInv, RingWritten
<1>5. RingOnce'
  <2> SUFFICES ASSUME NEW j \in 0 .. length' - 1, NEW k \in 0 .. length' - 1,
                      buffer'[Position(j)'] = buffer'[Position(k)']
               PROVE  j = k
    BY DEF RingOnce
  <2>1. j + 1 \in 0 .. length - 1 /\ k + 1 \in 0 .. length - 1
    BY <1>1
  <2>2. buffer[Position(j + 1)] = buffer[Position(k + 1)]
    BY <1>2
  <2>3. j + 1 = k + 1
    BY <2>1, <2>2 DEF FifoInv, RingOnce
  <2>4. QED
    BY <2>3
<1>6. ServedWritten' /\ ServedOnce'
  BY <1>1 DEF FifoInv, ServedWritten, ServedOnce
<1>7. ServedGone'
  BY <1>1, <1>2 DEF FifoInv, ServedGone
<1>8. QED
  BY <1>3, <1>4, <1>5, <1>6, <1>7 DEF FifoInv

(* The initial states satisfy it. *)
LEMMA FifoInit == Init => FifoInv
  BY DEF Init, FifoInv, FailureLast, RingWritten, RingOnce, ServedWritten, ServedOnce, ServedGone

(* Every step keeps the invariant. *)
LEMMA FifoStep ==
  ASSUME IInv, FifoInv, [Next]_vars
  PROVE  FifoInv'
<1>1. ASSUME NEW c \in Clients, Send(c)
      PROVE  FifoInv'
  <2>1. CASE Enqueue(c)
    BY <2>1, FifoEnqueue
  <2>2. CASE ~Enqueue(c)
    <3>1. UNCHANGED <<ring, main>>
      BY <1>1, <2>2
      DEF Send, WaitEmpty, TimeoutEmpty, WaitMutex, TimeoutMutex, PostMutex, PostFull
    <3>2. FailureLast' /\ Taken' >= Taken
      BY <3>1 DEF main, FifoInv, FailureLast, Taken
    <3>3. QED
      BY <3>1, <3>2, FifoStays DEF main
  <2>3. QED
    BY <2>1, <2>2
<1>2. CASE Fetch
  <2>1. CASE Apply \/ Advance
    BY <2>1, FifoApply, FifoAdvance
  <2>2. CASE ~(Apply \/ Advance)
    <3>1. UNCHANGED <<ring, served, r>>
      BY <1>2, <2>2
      DEF Fetch, ServerWaitFull, ServerWaitMutex, ServerPostMutex, ServerPostEmpty
    <3>2. FailureLast' /\ Taken' >= Taken
      BY <1>2, <2>2
      DEF Fetch, ServerWaitFull, ServerWaitMutex, ServerPostMutex, ServerPostEmpty,
          Running, FifoInv, FailureLast, Taken
    <3>3. QED
      BY <3>1, <3>2, FifoStays
  <2>3. QED
    BY <2>1, <2>2
<1>3. ASSUME UNCHANGED <<ring, served, server, r>>
      PROVE  FifoInv'
  <2>1. FailureLast' /\ Taken' >= Taken
    BY <1>3 DEF FifoInv, FailureLast, Taken
  <2>2. QED
    BY <1>3, <2>1, FifoStays
<1>4. QED
  BY <1>1, <1>2, <1>3 DEF Next, vars, main, Kill, SigFree, FreeServerQueue

-----------------------------------------------------------------------------
(* No request is served twice *)

(* The invariant holds in every state. *)
LEMMA FifoInvariance == Spec => [](IInv /\ FifoInv)
<1>1. IInv /\ [Next]_vars => IInv'
  BY SendStep, KillStep, FetchStep, StopStep, StutterStep DEF Next
<1>2. IInv /\ FifoInv /\ [Next]_vars => FifoInv'
  BY FifoStep
<1>3. QED
  BY InitInv, FifoInit, <1>1, <1>2, PTL DEF Spec

(* No connection request gets two threads, although the slots of the ring are
   never cleared. *)
THEOREM ServedOnceTheorem == Spec => []ServedOnce
<1>1. IInv /\ FifoInv => ServedOnce
  BY DEF FifoInv
<1>2. QED
  BY FifoInvariance, <1>1, PTL

-----------------------------------------------------------------------------
(* The refinement *)

(* The requests that wait, read from the ring. *)
WaitingInRing ==
  /\ Waiting \in Seq(Clients)
  /\ Taken \in 0 .. 1 /\ length \in Nat /\ Taken <= length
  /\ Len(Waiting) = length - Taken
  /\ DOMAIN Waiting = 1 .. length - Taken
  /\ \A k \in 1 .. length - Taken : Waiting[k] = buffer[Position(k - 1 + Taken)]

(* They are those from tail to head, but for the one apply was given. *)
LEMMA WaitingSeq == IInv => WaitingInRing
<1> SUFFICES ASSUME IInv PROVE WaitingInRing
  OBVIOUS
<1>1. length \in Nat /\ \A k \in 0 .. length - 1 : buffer[Position(k)] \in Clients
  BY RingBounds
<1>2. server = "advance" => length > 0
  BY CountTypes DEF IInv, TypeOK, QueueInv, LengthCounts, ServerIn
<1>3. Taken \in 0 .. 1 /\ Taken <= length
  BY <1>1, <1>2 DEF Taken
<1>4. Waiting = [k \in 1 .. length - Taken |-> buffer[Position(k - 1 + Taken)]]
  <2>1. CASE server = "advance"
    BY <2>1, <1>1 DEF Waiting, Taken
  <2>2. CASE server # "advance"
    BY <2>2, <1>1 DEF Waiting, Taken
  <2>3. QED
    BY <2>1, <2>2
<1>5. length - Taken \in Nat
  BY <1>1, <1>3
<1>6. \A k \in 1 .. length - Taken : buffer[Position(k - 1 + Taken)] \in Clients
  BY <1>1, <1>3
<1>7. Waiting \in Seq(Clients) /\ Len(Waiting) = length - Taken
  BY <1>4, <1>5, <1>6
<1>8. QED
  BY <1>1, <1>3, <1>4, <1>7 DEF WaitingInRing

(* The same in the state after a step. *)
LEMMA WaitingSeqNext == IInv' => WaitingInRing'
  BY WaitingSeq, PTL

(* They stay the same as long as the ring does and apply is not called. *)
LEMMA WaitingStays ==
  ASSUME UNCHANGED ring, (server' = "advance") <=> (server = "advance")
  PROVE  Waiting' = Waiting
<1>1. /\ length' = length /\ buffer' = buffer
      /\ \A k : Position(k)' = Position(k)
  BY DEF ring, Position
<1>2. QED
  BY <1>1 DEF Waiting

(* A request that is written is offered. *)
LEMMA EnqueueOffers ==
  ASSUME IInv, FifoInv, IInv', NEW c \in Clients, Enqueue(c)
  PROVE  CQ!Offer(c)
<1>1. /\ length' = length + 1 /\ length < Slots /\ server # "advance" /\ handler # "stopped"
      /\ Taken = 0 /\ Taken' = 0 /\ UNCHANGED <<served, r, handler>>
  BY RingEnqueue DEF Enqueue, main, Taken
<1>2. /\ Waiting \in Seq(Clients) /\ Len(Waiting) = length
      /\ length \in Nat /\ DOMAIN Waiting = 1 .. length
      /\ \A k \in 1 .. length : Waiting[k] = buffer[Position(k - 1)]
  BY <1>1, WaitingSeq DEF WaitingInRing
<1>3. /\ Waiting' \in Seq(Clients) /\ Len(Waiting') = length + 1
      /\ \A k \in 1 .. length + 1 : Waiting'[k] = buffer'[Position(k - 1)']
  BY <1>1, WaitingSeqNext DEF WaitingInRing
<1>4. Phase # "freed" /\ Phase' = Phase
  BY <1>1 DEF Phase, IInv, TypeOK
<1>5. c \notin CQ!Elements(Waiting) \cup CQ!Elements(served)
  <2>1. client[c] \notin Written
    BY DEF Enqueue, At, Written
  <2>2. \A k \in 1 .. length : Waiting[k] # c
    BY <1>2, <2>1 DEF FifoInv, RingWritten
  <2>3. \A i \in DOMAIN served : served[i] # c
    BY <2>1 DEF FifoInv, ServedWritten
  <2>4. QED
    BY <1>2, <2>2, <2>3 DEF CQ!Elements
<1>6. Waiting' = Append(Waiting, c)
  <2>1. /\ Append(Waiting, c) \in Seq(Clients) /\ Len(Append(Waiting, c)) = length + 1
        /\ \A k \in 1 .. length : Append(Waiting, c)[k] = Waiting[k]
        /\ Append(Waiting, c)[length + 1] = c
    BY <1>2, AppendProperties
  <2>2. \A k \in 1 .. length + 1 :
          buffer'[Position(k - 1)'] = IF k = length + 1 THEN c ELSE buffer[Position(k - 1)]
    <3> SUFFICES ASSUME NEW k \in 1 .. length + 1
                 PROVE  buffer'[Position(k - 1)'] =
                          IF k = length + 1 THEN c ELSE buffer[Position(k - 1)]
      OBVIOUS
    <3>1. k - 1 \in 0 .. length /\ (k - 1 = length <=> k = length + 1)
      BY <1>2
    <3>2. QED
      BY <3>1, RingEnqueue
  <2>3. \A k \in 1 .. length + 1 : Waiting'[k] = Append(Waiting, c)[k]
    BY <1>2, <1>3, <2>1, <2>2
  <2>4. QED
    BY <1>3, <2>1, <2>3, SeqEqual
<1>7. QED
  BY <1>1, <1>2, <1>4, <1>5, <1>6 DEF CQ!Offer

(* apply serves the oldest request, or drops it and the server goes down. *)
LEMMA ApplyServes ==
  ASSUME IInv, FifoInv, IInv', Apply
  PROVE  CQ!Serve \/ CQ!Drop
<1>1. /\ UNCHANGED ring /\ server = "apply" /\ handler = "none" /\ handler' = "none"
      /\ Taken = 0 /\ Taken' = 1
      /\ served' = IF r' = "ok" THEN Append(served, buffer[tail]) ELSE served
  BY DEF Apply, Running, Taken
<1>2. length > 0 /\ buffer[tail] = buffer[Position(0)]
  BY <1>1, RingApply
<1>3. /\ Waiting \in Seq(Clients) /\ Len(Waiting) = length /\ length \in Nat
      /\ \A k \in 1 .. length : Waiting[k] = buffer[Position(k - 1)]
  BY <1>1, WaitingSeq DEF WaitingInRing
<1>4. /\ length' = length /\ buffer' = buffer /\ \A k : Position(k)' = Position(k)
  BY <1>1 DEF ring, Position
<1>5. /\ Waiting' \in Seq(Clients) /\ Len(Waiting') = length - 1
      /\ \A k \in 1 .. length - 1 : Waiting'[k] = buffer[Position(k)]
  BY <1>1, <1>3, <1>4, WaitingSeqNext DEF WaitingInRing, Position
<1>6. Waiting # << >> /\ Head(Waiting) = buffer[tail]
  BY <1>2, <1>3
<1>7. Waiting' = Tail(Waiting)
  <2>1. /\ Tail(Waiting) \in Seq(Clients) /\ Len(Tail(Waiting)) = length - 1
        /\ \A k \in 1 .. length - 1 : Tail(Waiting)[k] = Waiting[k + 1]
    BY <1>3, <1>6, HeadTailProperties
  <2>2. ASSUME NEW k \in 1 .. length - 1
        PROVE  Waiting'[k] = Tail(Waiting)[k]
    <3>1. k + 1 \in 1 .. length /\ (k + 1) - 1 = k
      BY <1>3
    <3>2. Waiting[k + 1] = buffer[Position(k)]
      BY <1>3, <3>1
    <3>3. QED
      BY <1>5, <2>1, <3>2
  <2>3. QED
    BY <1>5, <2>1, <2>2, SeqEqual
<1>8. Phase = "up" /\ Phase' = IF r' = "ok" THEN "up" ELSE "down"
  BY <1>1 DEF Phase, FifoInv, FailureLast
<1>9. QED
  BY <1>1, <1>6, <1>7, <1>8 DEF CQ!Serve, CQ!Drop

(* Moving tail changes nothing that a user of the queue sees. *)
LEMMA AdvanceStutters ==
  ASSUME IInv, FifoInv, IInv', Advance
  PROVE  UNCHANGED <<Waiting, served, Phase>>
<1>1. /\ length' = length - 1 /\ UNCHANGED <<served, r, handler>>
      /\ Taken = 1 /\ Taken' = 0 /\ length > 0
  BY RingAdvance DEF Advance, Running, Taken
<1>2. /\ Waiting \in Seq(Clients) /\ Len(Waiting) = length - 1 /\ length \in Nat
      /\ \A k \in 1 .. length - 1 : Waiting[k] = buffer[Position(k)]
  BY <1>1, WaitingSeq DEF WaitingInRing
<1>3. /\ Waiting' \in Seq(Clients) /\ Len(Waiting') = length - 1
      /\ \A k \in 1 .. length - 1 : Waiting'[k] = buffer'[Position(k - 1)']
  BY <1>1, WaitingSeqNext DEF WaitingInRing
<1>4. ASSUME NEW k \in 1 .. length - 1
      PROVE  Waiting'[k] = Waiting[k]
  <2>1. k - 1 \in 0 .. length - 2 /\ (k - 1) + 1 = k
    BY <1>2
  <2>2. buffer'[Position(k - 1)'] = buffer[Position(k)]
    BY <2>1, RingAdvance
  <2>3. QED
    BY <1>2, <1>3, <2>2
<1>5. Waiting' = Waiting
  BY <1>2, <1>3, <1>4, SeqEqual
<1>6. QED
  BY <1>1, <1>5 DEF Phase

(* Every step of the semaphores and of the ring is one step of the queue, or
   none. *)
LEMMA RefinementStep ==
  ASSUME IInv, FifoInv, IInv', [Next]_vars
  PROVE  [CQ!Next]_(CQ!cqVars)
<1> USE DEF CQ!cqVars
<1>1. ASSUME NEW c \in Clients, Send(c)
      PROVE  [CQ!Next]_(CQ!cqVars)
  <2>1. CASE Enqueue(c)
    BY <2>1, EnqueueOffers DEF CQ!Next
  <2>2. CASE ~Enqueue(c)
    <3>1. UNCHANGED <<ring, main>>
      BY <1>1, <2>2
      DEF Send, WaitEmpty, TimeoutEmpty, WaitMutex, TimeoutMutex, PostMutex, PostFull
    <3>2. QED
      BY <3>1, WaitingStays DEF main, Phase
  <2>3. QED
    BY <2>1, <2>2
<1>2. CASE Fetch
  <2>1. CASE Apply
    BY <2>1, ApplyServes DEF CQ!Next
  <2>2. CASE Advance
    BY <2>2, AdvanceStutters
  <2>3. CASE ~(Apply \/ Advance)
    <3>1. UNCHANGED <<ring, served, r, handler>> /\ server # "advance" /\ server' # "advance"
      BY <1>2, <2>3
      DEF Fetch, ServerWaitFull, ServerWaitMutex, ServerPostMutex, ServerPostEmpty, Running
    <3>2. QED
      BY <3>1, WaitingStays DEF Phase
  <2>4. QED
    BY <2>1, <2>2, <2>3
<1>3. CASE SigFree
  <2>1. Waiting' = Waiting /\ served' = served
    BY <1>3, WaitingStays DEF SigFree
  <2>2. Phase' = "down" /\ Phase \in {"up", "down"}
    BY <1>3 DEF SigFree, Phase
  <2>3. QED
    BY <2>1, <2>2 DEF CQ!Next, CQ!Stop
<1>4. CASE FreeServerQueue
  <2>1. Waiting' = Waiting /\ served' = served
    BY <1>4, WaitingStays DEF FreeServerQueue
  <2>2. Phase = "down" /\ Phase' = "freed"
    BY <1>4 DEF FreeServerQueue, Phase
  <2>3. QED
    BY <2>1, <2>2 DEF CQ!Next, CQ!Free
<1>5. ASSUME UNCHANGED <<ring, main>>
      PROVE  [CQ!Next]_(CQ!cqVars)
  BY <1>5, WaitingStays DEF main, Phase
<1>6. QED
  BY <1>1, <1>2, <1>3, <1>4, <1>5 DEF Next, vars, Kill

(* The ring with its semaphores is a bounded first-in first-out queue that
   gives each request one thread, and takes none once it is freed. *)
THEOREM QueueRefinement == Spec => ImplementsConnectionQueue
<1>1. Init => CQ!Init
  <2> SUFFICES ASSUME Init PROVE CQ!Init
    OBVIOUS
  <2>1. Waiting = << >>
    BY DEF Init, Waiting
  <2>2. QED
    BY <2>1 DEF Init, CQ!Init, Phase
<1>2. IInv /\ FifoInv /\ IInv' /\ [Next]_vars => [CQ!Next]_(CQ!cqVars)
  BY RefinementStep
<1>3. QED
  BY FifoInvariance, <1>1, <1>2, PTL DEF Spec, CQ!Spec, ImplementsConnectionQueue
=============================================================================
