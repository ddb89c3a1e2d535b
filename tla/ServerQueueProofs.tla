-------------------------- MODULE ServerQueueProofs --------------------------
(***************************************************************************)
(* Proofs about ServerQueue, for every finite set of clients, number of    *)
(* slots and combination of faults.                                        *)
(***************************************************************************)
EXTENDS ServerQueue, FiniteSetTheorems, TLAPS

-----------------------------------------------------------------------------
(* Lemmas about the helpers *)

(* The successor of a slot, without the modulo of the code. *)
LEMMA SuccSlot ==
  ASSUME NEW i \in Slot
  PROVE  /\ Succ(i) \in Slot
         /\ Succ(i) = IF i + 1 = Slots THEN 0 ELSE i + 1
  BY SlotsAssumption DEF Succ, Slot

(* The clients in a set of places are finitely many. *)
LEMMA CountType ==
  ASSUME NEW pcs
  PROVE  IsFiniteSet(InSend(pcs)) /\ Cardinality(InSend(pcs)) \in Nat
<1>1. InSend(pcs) \in SUBSET Clients
  BY DEF InSend
<1>2. IsFiniteSet(InSend(pcs))
  BY <1>1, ClientsAssumption, FS_Subset
<1>3. QED
  BY <1>2, FS_CardinalityType

(* A client that moves is counted where it arrives, and no more where it
   was. *)
LEMMA GotoCount ==
  ASSUME TypeOK, NEW c \in Clients, NEW pc, Goto(c, pc), NEW CONSTANT pcs
  PROVE  Cardinality(InSend(pcs))' =
           Cardinality(InSend(pcs))
             + (IF pc \in pcs THEN 1 ELSE 0)
             - (IF client[c] \in pcs THEN 1 ELSE 0)
<1>1. \A d \in Clients : client'[d] = IF d = c THEN pc ELSE client[d]
  BY DEF Goto, TypeOK
<1>2. IsFiniteSet(InSend(pcs)) /\ Cardinality(InSend(pcs)) \in Nat
  BY CountType
<1>3. c \in InSend(pcs) <=> client[c] \in pcs
  BY DEF InSend
<1>4. CASE pc \in pcs
  <2>1. InSend(pcs)' = InSend(pcs) \cup {c}
    BY <1>1, <1>4 DEF InSend
  <2>2. QED
    BY <2>1, <1>2, <1>3, <1>4, FS_AddElement
<1>5. CASE pc \notin pcs
  <2>1. InSend(pcs)' = InSend(pcs) \ {c}
    BY <1>1, <1>5 DEF InSend
  <2>2. Cardinality(InSend(pcs) \ {c}) =
          IF client[c] \in pcs THEN Cardinality(InSend(pcs)) - 1
                               ELSE Cardinality(InSend(pcs))
    BY <1>2, <1>3, FS_RemoveElement
  <2>3. QED
    BY <2>1, <2>2, <1>2, <1>5
<1>6. QED
  BY <1>4, <1>5

(* No client moves, no count changes. *)
LEMMA StayCount ==
  ASSUME UNCHANGED client, NEW CONSTANT pcs
  PROVE  Cardinality(InSend(pcs))' = Cardinality(InSend(pcs))
  BY DEF InSend

(* A client at the write has reserved a slot it has not filled. *)
LEMMA WriterReserves ==
  ASSUME TypeOK, NEW c \in Clients, client[c] = "enqueue"
  PROVE  Cardinality(Unannounced) < Cardinality(Reservations)
<1>1. /\ IsFiniteSet(Unannounced) /\ Cardinality(Unannounced) \in Nat
      /\ IsFiniteSet(Reservations) /\ Cardinality(Reservations) \in Nat
  BY CountType DEF Unannounced, Reservations
<1>2. c \notin Unannounced /\ Unannounced \cup {c} \in SUBSET Reservations
  BY DEF Unannounced, Reservations, InSend
<1>3. Cardinality(Unannounced \cup {c}) = Cardinality(Unannounced) + 1
  BY <1>1, <1>2, FS_AddElement
<1>4. QED
  BY <1>1, <1>2, <1>3, FS_Subset

(* How the three counts of the invariant change when a client moves. *)
LEMMA MoveCounts ==
  ASSUME TypeOK, NEW c \in Clients, NEW pc, Goto(c, pc)
  PROVE  /\ Cardinality(Reservations)' = Cardinality(Reservations)
              + (IF pc \in {"wait_mutex", "enqueue", "post_mutex", "post_full", "busy"}
                   THEN 1 ELSE 0)
              - (IF client[c] \in {"wait_mutex", "enqueue", "post_mutex", "post_full", "busy"}
                   THEN 1 ELSE 0)
         /\ Cardinality(Unannounced)' = Cardinality(Unannounced)
              + (IF pc \in {"post_mutex", "post_full"} THEN 1 ELSE 0)
              - (IF client[c] \in {"post_mutex", "post_full"} THEN 1 ELSE 0)
         /\ Cardinality(InCriticalSection)' = Cardinality(InCriticalSection)
              + (IF pc \in {"enqueue", "post_mutex"} THEN 1 ELSE 0)
              - (IF client[c] \in {"enqueue", "post_mutex"} THEN 1 ELSE 0)
  BY GotoCount DEF Reservations, Unannounced, InCriticalSection

(* They do not change when no client moves. *)
LEMMA StayCounts ==
  ASSUME UNCHANGED client
  PROVE  /\ Cardinality(Reservations)' = Cardinality(Reservations)
         /\ Cardinality(Unannounced)' = Cardinality(Unannounced)
         /\ Cardinality(InCriticalSection)' = Cardinality(InCriticalSection)
  BY StayCount DEF Reservations, Unannounced, InCriticalSection

(* The three counts are natural numbers. *)
LEMMA CountTypes ==
  /\ Cardinality(Reservations) \in Nat
  /\ Cardinality(Unannounced) \in Nat
  /\ Cardinality(InCriticalSection) \in Nat
  BY CountType DEF Reservations, Unannounced, InCriticalSection

-----------------------------------------------------------------------------
(* The ring *)

(* A step that leaves the ring alone keeps it consistent. *)
LEMMA RingStays ==
  ASSUME RingConsistent, UNCHANGED ring
  PROVE  RingConsistent'
  BY DEF RingConsistent, ring, Position

(* Writing at head, which is free, appends to the requests in the ring. *)
LEMMA RingGrows ==
  ASSUME TypeOK, RingConsistent, NEW c \in Clients, length < Slots,
         buffer' = [buffer EXCEPT ![head] = c],
         head' = Succ(head), length' = length + 1, tail' = tail
  PROVE  RingConsistent'
<1>1. /\ length \in Nat /\ tail \in Slot /\ head \in Slot
      /\ buffer \in [Slot -> Clients \cup {NoRequest}]
  BY DEF TypeOK
<1>2. head = Position(length)
  BY <1>1, SlotsAssumption DEF RingConsistent
<1>3. length' \in 0 .. Slots
  BY <1>1, SlotsAssumption
<1>4. head' = IF length' = Slots THEN tail' ELSE Position(length)'
  BY <1>1, <1>2, SuccSlot, SlotsAssumption DEF Position, Slot
<1>5. ASSUME NEW k \in 0 .. length' - 1
      PROVE  buffer'[Position(k)'] \in Clients
  <2>1. Position(k)' = Position(k) /\ Position(k) \in Slot
    BY <1>1, <1>5, SlotsAssumption DEF Position, Slot
  <2>2. CASE k = length
    BY <2>1, <2>2, <1>1, <1>2
  <2>3. CASE k # length
    <3>1. k \in 0 .. length - 1
      BY <1>1, <1>5, <2>3
    <3>2. Position(k) # head
      BY <1>1, <1>2, <3>1, SlotsAssumption DEF Position, Slot
    <3>3. QED
      BY <2>1, <3>1, <3>2, <1>1 DEF RingConsistent
  <2>4. QED
    BY <2>2, <2>3
<1>6. QED
  BY <1>3, <1>4, <1>5 DEF RingConsistent

(* Moving tail removes the oldest request of the ring. *)
LEMMA RingShrinks ==
  ASSUME TypeOK, RingConsistent, length > 0,
         tail' = Succ(tail), length' = length - 1,
         UNCHANGED <<head, buffer>>
  PROVE  RingConsistent'
<1>1. /\ length \in Nat /\ tail \in Slot /\ head \in Slot
      /\ length <= Slots
  BY SlotsAssumption DEF TypeOK, RingConsistent
<1>2. length' \in 0 .. Slots
  BY <1>1, SlotsAssumption DEF RingConsistent
<1>3. ASSUME NEW k \in 0 .. length - 1
      PROVE  Position(k)' = IF k + 1 = Slots THEN tail ELSE Position(k + 1)
  BY <1>1, <1>3, SuccSlot, SlotsAssumption DEF Position, Slot
<1>4. head' = IF length' = Slots THEN tail' ELSE Position(length)'
  <2>1. Position(length)' = IF length = Slots THEN tail ELSE Position(length)
    BY <1>1, SuccSlot, SlotsAssumption DEF Position, Slot
  <2>2. QED
    BY <1>1, <2>1, SlotsAssumption DEF RingConsistent
<1>5. ASSUME NEW k \in 0 .. length' - 1
      PROVE  buffer'[Position(k)'] \in Clients
  <2>1. k + 1 \in 0 .. length - 1 /\ k + 1 # Slots /\ k \in 0 .. length - 1
    BY <1>1, <1>5, SlotsAssumption DEF RingConsistent
  <2>2. QED
    BY <2>1, <1>3 DEF RingConsistent
<1>6. QED
  BY <1>2, <1>4, <1>5 DEF RingConsistent

-----------------------------------------------------------------------------
(* The invariant is preserved by every step *)

(* The inductive invariant. *)
IInv == TypeOK /\ QueueInv

(* A step of a client in send_shm_request. *)
LEMMA SendStep ==
  ASSUME IInv, NEW c \in Clients, Send(c)
  PROVE  IInv'
<1> USE DEF IInv
<1>1. CASE WaitEmpty(c)
  <2>1. RingConsistent'
    BY <1>1, RingStays DEF QueueInv, WaitEmpty
  <2>2. TypeOK'
    BY <1>1 DEF TypeOK, WaitEmpty, At, Goto, ClientPC, ring, main, semaphores
  <2>3. /\ Cardinality(Reservations)' = Cardinality(Reservations) + 1
        /\ Cardinality(Unannounced)' = Cardinality(Unannounced)
        /\ Cardinality(InCriticalSection)' = Cardinality(InCriticalSection)
    BY <1>1, MoveCounts, CountTypes DEF WaitEmpty, At
  <2>4. SlotsConserved' /\ LengthCounts' /\ MutexConserved'
    BY <1>1, <2>3, CountTypes
    DEF TypeOK, QueueInv, SlotsConserved, LengthCounts, MutexConserved,
        ServerIn, WaitEmpty, ring, main, semaphores
  <2>5. QED
    BY <2>1, <2>2, <2>4 DEF QueueInv

<1>2. CASE TimeoutEmpty(c)
  <2>1. RingConsistent'
    BY <1>2, RingStays DEF QueueInv, TimeoutEmpty
  <2>2. TypeOK'
    BY <1>2 DEF TypeOK, TimeoutEmpty, At, Goto, ClientPC, ring, main, semaphores
  <2>3. /\ Cardinality(Reservations)' = Cardinality(Reservations)
        /\ Cardinality(Unannounced)' = Cardinality(Unannounced)
        /\ Cardinality(InCriticalSection)' = Cardinality(InCriticalSection)
    BY <1>2, MoveCounts, CountTypes DEF TimeoutEmpty, At
  <2>4. SlotsConserved' /\ LengthCounts' /\ MutexConserved'
    BY <1>2, <2>3, CountTypes
    DEF TypeOK, QueueInv, SlotsConserved, LengthCounts, MutexConserved,
        ServerIn, TimeoutEmpty, ring, main, semaphores
  <2>5. QED
    BY <2>1, <2>2, <2>4 DEF QueueInv

<1>3. CASE WaitMutex(c)
  <2>1. RingConsistent'
    BY <1>3, RingStays DEF QueueInv, WaitMutex
  <2>2. TypeOK'
    BY <1>3 DEF TypeOK, WaitMutex, At, Goto, ClientPC, ring, main, semaphores
  <2>3. /\ Cardinality(Reservations)' = Cardinality(Reservations)
        /\ Cardinality(Unannounced)' = Cardinality(Unannounced)
        /\ Cardinality(InCriticalSection)' = Cardinality(InCriticalSection) + 1
    BY <1>3, MoveCounts, CountTypes DEF WaitMutex, At
  <2>4. SlotsConserved' /\ LengthCounts' /\ MutexConserved'
    BY <1>3, <2>3, CountTypes
    DEF TypeOK, QueueInv, SlotsConserved, LengthCounts, MutexConserved,
        ServerIn, WaitMutex, ring, main, semaphores
  <2>5. QED
    BY <2>1, <2>2, <2>4 DEF QueueInv

<1>4. CASE TimeoutMutex(c)
  <2>1. RingConsistent'
    BY <1>4, RingStays DEF QueueInv, TimeoutMutex
  <2>2. TypeOK'
    BY <1>4 DEF TypeOK, TimeoutMutex, At, Goto, ClientPC, ring, main, semaphores
  <2>3. /\ Cardinality(Reservations)' = Cardinality(Reservations)
        /\ Cardinality(Unannounced)' = Cardinality(Unannounced)
        /\ Cardinality(InCriticalSection)' = Cardinality(InCriticalSection)
    BY <1>4, MoveCounts, CountTypes DEF TimeoutMutex, At
  <2>4. SlotsConserved' /\ LengthCounts' /\ MutexConserved'
    BY <1>4, <2>3, CountTypes
    DEF TypeOK, QueueInv, SlotsConserved, LengthCounts, MutexConserved,
        ServerIn, TimeoutMutex, ring, main, semaphores
  <2>5. QED
    BY <2>1, <2>2, <2>4 DEF QueueInv

<1>5. CASE PostMutex(c)
  <2>1. RingConsistent'
    BY <1>5, RingStays DEF QueueInv, PostMutex
  <2>2. TypeOK'
    BY <1>5 DEF TypeOK, PostMutex, At, Goto, ClientPC, ring, main, semaphores
  <2>3. /\ Cardinality(Reservations)' = Cardinality(Reservations)
        /\ Cardinality(Unannounced)' = Cardinality(Unannounced)
        /\ Cardinality(InCriticalSection)' = Cardinality(InCriticalSection) - 1
    BY <1>5, MoveCounts, CountTypes DEF PostMutex, At
  <2>4. SlotsConserved' /\ LengthCounts' /\ MutexConserved'
    BY <1>5, <2>3, CountTypes
    DEF TypeOK, QueueInv, SlotsConserved, LengthCounts, MutexConserved,
        ServerIn, PostMutex, ring, main, semaphores
  <2>5. QED
    BY <2>1, <2>2, <2>4 DEF QueueInv

<1>6. CASE PostFull(c)
  <2>1. RingConsistent'
    BY <1>6, RingStays DEF QueueInv, PostFull
  <2>2. TypeOK'
    BY <1>6 DEF TypeOK, PostFull, At, Goto, ClientPC, ring, main, semaphores
  <2>3. /\ Cardinality(Reservations)' = Cardinality(Reservations) - 1
        /\ Cardinality(Unannounced)' = Cardinality(Unannounced) - 1
        /\ Cardinality(InCriticalSection)' = Cardinality(InCriticalSection)
    BY <1>6, MoveCounts, CountTypes DEF PostFull, At
  <2>4. SlotsConserved'
    BY <1>6, <2>3, CountTypes
    DEF TypeOK, QueueInv, SlotsConserved, ServerIn, PostFull, ring, main, semaphores
  <2>5. LengthCounts'
    BY <1>6, <2>3, CountTypes
    DEF TypeOK, QueueInv, LengthCounts, ServerIn, PostFull, ring, main, semaphores
  <2>6. MutexConserved'
    BY <1>6, <2>3, CountTypes
    DEF TypeOK, QueueInv, MutexConserved, ServerIn, PostFull, ring, main, semaphores
  <2>7. QED
    BY <2>1, <2>2, <2>4, <2>5, <2>6 DEF QueueInv

<1>7. CASE Enqueue(c)
  <2>1. length < Slots
    <3>1. Cardinality(Unannounced) < Cardinality(Reservations)
      BY <1>7, WriterReserves DEF Enqueue, At
    <3>2. QED
      BY <3>1, CountTypes, SlotsAssumption
      DEF TypeOK, QueueInv, SlotsConserved, LengthCounts, ServerIn
  <2>2. RingConsistent'
    BY <1>7, <2>1, RingGrows DEF QueueInv, Enqueue
  <2>3. TypeOK'
    BY <1>7, SuccSlot DEF TypeOK, Enqueue, At, Goto, ClientPC, main, semaphores
  <2>4. /\ Cardinality(Reservations)' = Cardinality(Reservations)
        /\ Cardinality(Unannounced)' = Cardinality(Unannounced) + 1
        /\ Cardinality(InCriticalSection)' = Cardinality(InCriticalSection)
    BY <1>7, MoveCounts, CountTypes DEF Enqueue, At
  <2>5. SlotsConserved'
    BY <1>7, <2>4, CountTypes
    DEF TypeOK, QueueInv, SlotsConserved, ServerIn, Enqueue, main, semaphores
  <2>6. LengthCounts'
    BY <1>7, <2>4, CountTypes
    DEF TypeOK, QueueInv, LengthCounts, ServerIn, Enqueue, main, semaphores
  <2>7. MutexConserved'
    BY <1>7, <2>4, CountTypes
    DEF TypeOK, QueueInv, MutexConserved, ServerIn, Enqueue, main, semaphores
  <2>8. QED
    BY <2>2, <2>3, <2>5, <2>6, <2>7 DEF QueueInv
<1>8. QED
  BY <1>1, <1>2, <1>3, <1>4, <1>5, <1>6, <1>7 DEF Send

(* The death of a client. *)
LEMMA KillStep ==
  ASSUME IInv, NEW c \in Clients, Kill(c)
  PROVE  IInv'
<1> USE DEF IInv
<1>1. RingConsistent'
  BY RingStays DEF QueueInv, Kill
<1>2. TypeOK'
  BY DEF TypeOK, Kill, ring, main, semaphores
<1>3. SlotsConserved' /\ LengthCounts' /\ MutexConserved'
  BY StayCounts, CountTypes
  DEF TypeOK, QueueInv, SlotsConserved, LengthCounts, MutexConserved,
      ServerIn, Kill, ring, main, semaphores
<1>4. QED
  BY <1>1, <1>2, <1>3 DEF QueueInv

(* A step of the main thread in fetch_shm_request. *)
LEMMA FetchStep ==
  ASSUME IInv, Fetch
  PROVE  IInv'
<1> USE DEF IInv
<1>1. CASE ServerWaitFull
  <2>1. RingConsistent'
    BY <1>1, RingStays DEF QueueInv, ServerWaitFull
  <2>2. TypeOK'
    BY <1>1 DEF TypeOK, ServerWaitFull, Running, ServerPC, ring
  <2>3. SlotsConserved' /\ LengthCounts' /\ MutexConserved'
    BY <1>1, StayCounts, CountTypes
    DEF TypeOK, QueueInv, SlotsConserved, LengthCounts, MutexConserved,
        ServerIn, ServerWaitFull, Running, ring
  <2>4. QED
    BY <2>1, <2>2, <2>3 DEF QueueInv

<1>2. CASE ServerWaitMutex
  <2>1. RingConsistent'
    BY <1>2, RingStays DEF QueueInv, ServerWaitMutex
  <2>2. TypeOK'
    BY <1>2 DEF TypeOK, ServerWaitMutex, Running, ServerPC, ring
  <2>3. SlotsConserved' /\ LengthCounts' /\ MutexConserved'
    BY <1>2, StayCounts, CountTypes
    DEF TypeOK, QueueInv, SlotsConserved, LengthCounts, MutexConserved,
        ServerIn, ServerWaitMutex, Running, ring
  <2>4. QED
    BY <2>1, <2>2, <2>3 DEF QueueInv

<1>3. CASE ServerPostMutex
  <2>1. RingConsistent'
    BY <1>3, RingStays DEF QueueInv, ServerPostMutex
  <2>2. TypeOK'
    BY <1>3 DEF TypeOK, ServerPostMutex, Running, ServerPC, ring
  <2>3. SlotsConserved' /\ LengthCounts' /\ MutexConserved'
    BY <1>3, StayCounts, CountTypes
    DEF TypeOK, QueueInv, SlotsConserved, LengthCounts, MutexConserved,
        ServerIn, ServerPostMutex, Running, ring
  <2>4. QED
    BY <2>1, <2>2, <2>3 DEF QueueInv

<1>4. CASE ServerPostEmpty
  <2>1. RingConsistent'
    BY <1>4, RingStays DEF QueueInv, ServerPostEmpty
  <2>2. TypeOK'
    BY <1>4 DEF TypeOK, ServerPostEmpty, Running, ServerPC, ring
  <2>3. SlotsConserved' /\ LengthCounts' /\ MutexConserved'
    BY <1>4, StayCounts, CountTypes
    DEF TypeOK, QueueInv, SlotsConserved, LengthCounts, MutexConserved,
        ServerIn, ServerPostEmpty, Running, ring
  <2>4. QED
    BY <2>1, <2>2, <2>3 DEF QueueInv

<1>5. CASE Apply
  <2>1. RingConsistent'
    BY <1>5, RingStays DEF QueueInv, Apply
  <2>2. r' \in {"ok", "no_memory", "no_thread"}
    BY <1>5, FaultsAssumption DEF Apply
  <2>3. served' \in Seq(Clients \cup {NoRequest})
    BY <1>5 DEF TypeOK, Apply
  <2>4. TypeOK'
    BY <1>5, <2>2, <2>3 DEF TypeOK, Apply, Running, ServerPC, ring, semaphores
  <2>5. SlotsConserved' /\ LengthCounts' /\ MutexConserved'
    BY <1>5, StayCounts, CountTypes
    DEF TypeOK, QueueInv, SlotsConserved, LengthCounts, MutexConserved,
        ServerIn, Apply, Running, ring, semaphores
  <2>6. QED
    BY <2>1, <2>4, <2>5 DEF QueueInv

<1>6. CASE Advance
  <2>1. length > 0
    BY <1>6, CountTypes
    DEF TypeOK, QueueInv, LengthCounts, ServerIn, Advance, Running
  <2>2. RingConsistent'
    BY <1>6, <2>1, RingShrinks DEF QueueInv, Advance
  <2>3. TypeOK'
    BY <1>6, <2>1, SuccSlot DEF TypeOK, Advance, Running, ServerPC, semaphores
  <2>4. SlotsConserved' /\ LengthCounts' /\ MutexConserved'
    BY <1>6, StayCounts, CountTypes
    DEF TypeOK, QueueInv, SlotsConserved, LengthCounts, MutexConserved,
        ServerIn, Advance, Running, semaphores
  <2>5. QED
    BY <2>2, <2>3, <2>4 DEF QueueInv

<1>7. QED
  BY <1>1, <1>2, <1>3, <1>4, <1>5, <1>6 DEF Fetch

(* The signal that stops the server, and the handler's wait for the mutex. *)
LEMMA StopStep ==
  ASSUME IInv, SigFree \/ FreeServerQueue
  PROVE  IInv'
<1> USE DEF IInv
<1>1. RingConsistent'
  BY RingStays DEF QueueInv, SigFree, FreeServerQueue
<1>2. TypeOK'
  BY DEF TypeOK, SigFree, FreeServerQueue, ring, semaphores
<1>3. SlotsConserved' /\ LengthCounts' /\ MutexConserved'
  BY StayCounts, CountTypes
  DEF TypeOK, QueueInv, SlotsConserved, LengthCounts, MutexConserved,
      ServerIn, SigFree, FreeServerQueue, ring, semaphores
<1>4. QED
  BY <1>1, <1>2, <1>3 DEF QueueInv

(* A step that changes none of the variables. *)
LEMMA StutterStep ==
  ASSUME IInv, UNCHANGED vars
  PROVE  IInv'
<1> USE DEF IInv
<1>1. RingConsistent'
  BY RingStays DEF QueueInv, vars
<1>2. TypeOK'
  BY DEF TypeOK, vars, ring, main, semaphores
<1>3. SlotsConserved' /\ LengthCounts' /\ MutexConserved'
  BY StayCounts
  DEF TypeOK, QueueInv, SlotsConserved, LengthCounts, MutexConserved,
      ServerIn, vars, ring, main, semaphores
<1>4. QED
  BY <1>1, <1>2, <1>3 DEF QueueInv

(* The initial states satisfy it. *)
LEMMA InitInv == Init => IInv
<1> SUFFICES ASSUME Init PROVE IInv
  OBVIOUS
<1>1. TypeOK
  BY SlotsAssumption DEF Init, TypeOK, Slot, ClientPC, ServerPC
<1>2. \A pcs : "wait_empty" \notin pcs => Cardinality(InSend(pcs)) = 0
  BY FS_EmptySet DEF Init, InSend
<1>3. /\ Cardinality(Reservations) = 0
      /\ Cardinality(Unannounced) = 0
      /\ Cardinality(InCriticalSection) = 0
  BY <1>2 DEF Reservations, Unannounced, InCriticalSection
<1>4. SlotsConserved /\ LengthCounts /\ MutexConserved
  BY <1>3, SlotsAssumption
  DEF Init, SlotsConserved, LengthCounts, MutexConserved, ServerIn
<1>5. RingConsistent
  BY SlotsAssumption DEF Init, RingConsistent, Position
<1>6. QED
  BY <1>1, <1>4, <1>5 DEF IInv, QueueInv

-----------------------------------------------------------------------------
(* The theorems *)

(* It holds in every state of every behaviour. *)
LEMMA Invariance == Spec => []IInv
<1>1. IInv /\ [Next]_vars => IInv'
  BY SendStep, KillStep, FetchStep, StopStep, StutterStep DEF Next
<1>2. QED
  BY InitInv, <1>1, PTL DEF Spec

(* Every variable keeps its type: no semaphore and no counter of the ring
   goes below zero, and head and tail stay inside the buffer. *)
THEOREM TypeCorrect == Spec => []TypeOK
<1>1. IInv => TypeOK
  BY DEF IInv
<1>2. QED
  BY Invariance, <1>1, PTL

(* Slots, announcements and the mutex are conserved, and the ring holds the
   length requests from tail to head, whoever dies or times out where. *)
THEOREM QueueInvariant == Spec => []QueueInv
<1>1. IInv => QueueInv
  BY DEF IInv
<1>2. QED
  BY Invariance, <1>1, PTL

(* No client overwrites a waiting request and the server never reads a slot
   without one. *)
THEOREM NoOverrunTheorem == Spec => []NoOverrun
<1>1. IInv => NoOverrun
  <2> SUFFICES ASSUME IInv PROVE NoOverrun
    OBVIOUS
  <2> USE DEF IInv, QueueInv
  <2>1. /\ length \in Nat /\ tail \in Slot /\ head \in Slot
        /\ length <= Slots
    BY SlotsAssumption DEF TypeOK, RingConsistent
  <2>2. ASSUME NEW c \in Clients, client[c] = "enqueue"
        PROVE  /\ length < Slots
               /\ \A k \in 0 .. length - 1 : Position(k) # head
    <3>1. Cardinality(Unannounced) < Cardinality(Reservations)
      BY <2>2, WriterReserves
    <3>2. length < Slots
      BY <3>1, CountTypes, SlotsAssumption
      DEF TypeOK, SlotsConserved, LengthCounts, ServerIn
    <3>3. head = Position(length)
      BY <3>2, <2>1, SlotsAssumption DEF RingConsistent
    <3>4. QED
      BY <2>1, <3>2, <3>3, SlotsAssumption DEF Position, Slot
  <2>3. ASSUME server = "apply"
        PROVE  length > 0 /\ buffer[tail] \in Clients
    <3>1. length > 0
      BY <2>3, CountTypes DEF TypeOK, LengthCounts, ServerIn
    <3>2. 0 \in 0 .. length - 1 /\ Position(0) = tail
      BY <2>1, <3>1, SlotsAssumption DEF Position, Slot
    <3>3. QED
      BY <3>1, <3>2 DEF RingConsistent
  <2>4. QED
    BY <2>2, <2>3 DEF NoOverrun
<1>2. QED
  BY Invariance, <1>1, PTL
=============================================================================
