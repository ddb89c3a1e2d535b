--------------------------- MODULE LifecycleProofs ---------------------------
(***************************************************************************)
(* Proofs about the start, stop and restart of the server, for any         *)
(* servers, clients and slots, and any faults.                             *)
(*                                                                         *)
(* The invariant follows the object from its creation to the end of those  *)
(* who mapped it.  Owners and Openers say whose object each process uses;  *)
(* Prepared, what init_server_queue has stored so far, and that no client  *)
(* has passed the wait on empty before that semaphore is set; Exclusive    *)
(* and Named, who has the mutex, and that only the queue the name          *)
(* designates still has one: sig_free takes it for good as it removes the  *)
(* name.                                                                   *)
(*                                                                         *)
(* Counts and Rings are about the requests: the three inequalities of      *)
(* Counts bound those in the ring, and Rings says that the ring holds,     *)
(* from tail to head, exactly those that were sent and not yet served.     *)
(***************************************************************************)
EXTENDS Lifecycle, TLAPS, FiniteSetTheorems, SequenceTheorems

(* The objects, before it is known that empty is at most Slots and full at
   most the number of clients. *)
WideObject == [sized : BOOLEAN, slots : {0, Slots}, mutex : 0 .. 1, empty : Nat,
               full : Nat, head : 0 .. Slots - 1, tail : 0 .. Slots - 1,
               ring : {<< >>} \cup [1 .. Slots -> Clients \cup {"nobody"}]]

(* The types of the variables, with those objects. *)
Types ==
  /\ name \in 0 .. Len(object)
  /\ object \in Seq(WideObject) /\ Len(object) <= MaxObjects
  /\ server \in [Servers -> ServerPC]
  /\ own \in [Servers -> 0 .. Len(object)]
  /\ interrupted \in [Servers -> {"down"} \cup Armed]
  /\ child \in [Servers -> {"none", "running", "handling"}]
  /\ client \in [Clients -> ClientPC]
  /\ at \in [Clients -> 0 .. Len(object)]
  /\ mapped \in [Clients -> {0, Slots}]
  /\ ready \subseteq 1 .. Len(object)
  /\ early \subseteq Clients
  /\ sent \in Seq(Seq(Clients)) /\ Len(sent) = Len(object)
  /\ served \in Seq(Seq(Clients \cup {"nobody"})) /\ Len(served) = Len(object)

(* The server s has the address of its queue. *)
Knows(s) ==
  \/ server[s] \in {"serve", "lock", "fetch"}
  \/ server[s] = "handling" /\ interrupted[s] \in {"serve", "lock", "fetch"}

(* A server that serves, or whose signal found it serving, has an object of
   its own, which is initialised when main has its address; so has the parent
   of a child. *)
Owners ==
  /\ \A s \in Servers :
       /\ Serving(s) \/ Knows(s) \/ child[s] # "none" => own[s] # 0
       /\ server[s] \in {"setup", "create"} => own[s] = 0
       /\ Knows(s) => own[s] \in ready
       /\ child[s] # "none" => own[s] \in ready
       /\ child[s] = "handling" => server[s] \in {"handling", "down", "died"}
       /\ server[s] \in Initialising => own[s] \notin ready
  /\ \A s, t \in Servers : own[s] = own[t] /\ own[s] # 0 => s = t

(* Where a client is that has opened an object. *)
PastOpen == ClientPC \ {"idle", "refused"}

(* Where a client is that has mapped it. *)
PastMap == PastOpen \ {"opened", "gave_up", "crashed"}

(* A client that did not come early has opened an object that is initialised,
   and has mapped all of it. *)
Openers ==
  /\ \A c \in Clients :
       /\ client[c] \in PastOpen <=> at[c] # 0
       /\ at[c] # 0 /\ c \notin early => at[c] \in ready
       /\ client[c] \in PastMap /\ c \notin early => mapped[c] = Slots

(* No client has passed the wait on empty. *)
Untouched(n) ==
  /\ object[n].empty = 0
  /\ \A c \in Clients : at[c] = n => client[c] \in {"opened", "mapped", "gave_up", "crashed"}

(* The fields that init_server_queue has set, by where the server that runs
   it is. *)
Prepared ==
  /\ \A n \in ready : object[n].sized /\ object[n].slots = Slots
  /\ \A s \in Servers :
       /\ server[s] \in Initialising \ {"truncate"} => object[own[s]].sized
       /\ server[s] = "counters" => object[own[s]].slots = Slots
       /\ server[s] \in {"truncate", "mutex"} => object[own[s]].mutex = 0
       /\ server[s] \in {"truncate", "mutex", "empty"} => Untouched(own[s])

(* The mutex is taken by one client, or by the server, at most. *)
Exclusive ==
  /\ \A c \in Clients : client[c] = "locked" => object[at[c]].mutex = 0
  /\ \A s \in Servers : server[s] = "fetch" => object[own[s]].mutex = 0
  /\ \A c, d \in Clients : client[c] = "locked" /\ client[d] = "locked" /\ at[c] = at[d] => c = d
  /\ \A c \in Clients, s \in Servers : client[c] = "locked" /\ server[s] = "fetch" => at[c] # own[s]

(* The object of a server that serves has the name; an object without the
   name has no free mutex: nobody can lock it any more. *)
Named ==
  /\ \A s \in Servers : Serving(s) => name = own[s]
  /\ \A n \in DOMAIN object : object[n].mutex > 0 => name = n
  /\ \A c \in Clients : client[c] = "locked" => name = at[c]

(* The clients that have passed the wait on empty of the object n and have
   not written. *)
Reserving(n) == {c \in Clients : at[c] = n /\ client[c] \in {"reserved", "locked"}}

(* Those that have written and have not posted full. *)
Posting(n) == {c \in Clients : at[c] = n /\ client[c] = "written"}

(* Those that have written. *)
Writers(n) == {c \in Clients : at[c] = n /\ client[c] \in {"written", "sent"}}

(* 1 when a server has passed the wait on full of the object n and has not
   fetched. *)
Taking(n) == IF \E s \in Servers : own[s] = n /\ server[s] \in {"lock", "fetch"} THEN 1 ELSE 0

(* The requests written in the object n. *)
Sent(n) == Len(sent[n])

(* The requests taken from it. *)
Served(n) == Len(served[n])

(* The requests in the ring. *)
Pending(n) == Sent(n) - Served(n)

(* The free slots, the requests in the ring and those about to be written are
   at most Slots, and full is at most what the server can still take. *)
CountsAt(n) ==
  /\ object[n].empty + Pending(n) + Cardinality(Reserving(n)) <= Slots
  /\ object[n].full + Cardinality(Posting(n)) + Taking(n) <= Pending(n)
  /\ Sent(n) <= Cardinality(Writers(n))

(* The counts of every object. *)
Counts == \A n \in DOMAIN object : CountsAt(n)

(* The slot of the k-th request. *)
PositionOf(k) == 1 + ((k - 1) % Slots)

(* The ring of the object n holds, from its tail to its head, what was sent
   and not served, in order. *)
RingAt(n) ==
  /\ object[n].head = Len(sent[n]) % Slots
  /\ object[n].tail = Len(served[n]) % Slots
  /\ \A k \in Len(served[n]) + 1 .. Len(sent[n]) :
       PositionOf(k) \in DOMAIN object[n].ring /\ object[n].ring[PositionOf(k)] = sent[n][k]
  /\ \A k \in 1 .. Len(served[n]) : served[n][k] = sent[n][k]

(* The rings of the objects that no client opened early. *)
Rings == \A n \in DOMAIN object : ~Early(n) => RingAt(n)

(* The inductive invariant. *)
LInv ==
  /\ Types /\ Owners /\ Openers /\ Prepared /\ Exclusive /\ Named /\ Counts /\ Rings
  /\ OnlyEarlyCrash

-----------------------------------------------------------------------------
(* A number is its quotient by Slots and its remainder. *)
LEMMA Division ==
  ASSUME NEW x \in Nat
  PROVE  x \div Slots \in Int /\ x % Slots \in 0 .. Slots - 1 /\ x = Slots * (x \div Slots) + (x % Slots)
BY SlotsAssumption

(* There is one remainder only. *)
LEMMA DivisionUnique ==
  ASSUME NEW q \in Int, NEW p \in Int, NEW r \in 0 .. Slots - 1, NEW t \in 0 .. Slots - 1,
         Slots * q + r = Slots * p + t
  PROVE  r = t
<1>1. CASE q = p
  BY <1>1, SlotsAssumption
<1>2. CASE q < p
  <2>1. Slots * p = Slots * q + Slots * (p - q)
    BY SlotsAssumption
  <2>2. Slots * (p - q) >= Slots
    BY <1>2, SlotsAssumption
  <2> QED BY <2>1, <2>2, SlotsAssumption
<1>3. CASE p < q
  <2>1. Slots * q = Slots * p + Slots * (q - p)
    BY SlotsAssumption
  <2>2. Slots * (q - p) >= Slots
    BY <1>3, SlotsAssumption
  <2> QED BY <2>1, <2>2, SlotsAssumption
<1> QED BY <1>1, <1>2, <1>3

(* A number written with a quotient and a remainder has that remainder. *)
LEMMA Remainder ==
  ASSUME NEW q \in Int, NEW r \in 0 .. Slots - 1, NEW x \in Nat, x = Slots * q + r
  PROVE  x % Slots = r
BY Division, DivisionUnique

(* Head and tail, which advance modulo Slots, are the counts modulo Slots. *)
LEMMA RemainderNext ==
  ASSUME NEW x \in Nat
  PROVE  ((x % Slots) + 1) % Slots = (x + 1) % Slots
<1> DEFINE r == x % Slots
           q == x \div Slots
<1>1. q \in Int /\ r \in 0 .. Slots - 1 /\ x = Slots * q + r
  BY Division
<1> HIDE DEF r, q
<1>2. CASE r + 1 < Slots
  <2>1. r + 1 \in 0 .. Slots - 1 /\ r + 1 = Slots * 0 + (r + 1) /\ x + 1 = Slots * q + (r + 1)
    BY <1>1, <1>2, SlotsAssumption
  <2>2. (r + 1) % Slots = r + 1
    BY <2>1, <1>1, Remainder
  <2>3. (x + 1) % Slots = r + 1
    BY <2>1, <1>1, Remainder
  <2> QED BY <2>2, <2>3 DEF r
<1>3. CASE r + 1 = Slots
  <2>1. r + 1 = Slots * 1 + 0 /\ x + 1 = Slots * (q + 1) + 0 /\ 0 \in 0 .. Slots - 1
    BY <1>1, <1>3, SlotsAssumption
  <2>2. (r + 1) % Slots = 0
    BY <2>1, <1>1, Remainder
  <2>3. (x + 1) % Slots = 0
    BY <2>1, <1>1, Remainder
  <2> QED BY <2>2, <2>3 DEF r
<1> QED BY <1>1, <1>2, <1>3, SlotsAssumption

(* Numbers less than Slots apart do not have the same remainder. *)
LEMMA RemaindersDiffer ==
  ASSUME NEW x \in Nat, NEW y \in Nat, x < y, y < x + Slots
  PROVE  x % Slots # y % Slots
<1> DEFINE r == x % Slots
           q == x \div Slots
           p == y \div Slots
<1>1. q \in Int /\ r \in 0 .. Slots - 1 /\ x = Slots * q + r
  BY Division
<1>2. p \in Int /\ y % Slots \in 0 .. Slots - 1 /\ y = Slots * p + (y % Slots)
  BY Division
<1> HIDE DEF r, q, p
<1>3. ASSUME y % Slots = r
      PROVE  FALSE
  <2>1. y - x \in 0 .. Slots - 1 /\ 0 \in 0 .. Slots - 1
    BY SlotsAssumption
  <2>2. Slots * p = Slots * q + Slots * (p - q)
    BY <1>1, <1>2, SlotsAssumption
  <2>3. Slots * 0 + (y - x) = Slots * (p - q) + 0
    BY <1>1, <1>2, <1>3, <2>2, SlotsAssumption
  <2>4. y - x = 0
    BY <1>1, <1>2, <2>1, <2>3, DivisionUnique
  <2> QED BY <2>4
<1> QED BY <1>3 DEF r

(* A slot that advances is a slot. *)
LEMMA NextSlot ==
  ASSUME NEW x \in 0 .. Slots - 1
  PROVE  (x + 1) % Slots \in 0 .. Slots - 1
<1>1. x + 1 \in Nat
  BY SlotsAssumption
<1> QED BY <1>1, Division

-----------------------------------------------------------------------------
(* The object n becomes o, the others stay. *)
Changed(n, o) ==
  /\ n \in DOMAIN object
  /\ object' \in Seq(WideObject)
  /\ Len(object') = Len(object) /\ DOMAIN object' = DOMAIN object
  /\ object'[n] = o
  /\ \A m \in DOMAIN object : m # n => object'[m] = object[m]

(* A field that is set changes one object. *)
LEMMA ObjectChanged ==
  ASSUME object \in Seq(WideObject), NEW n \in DOMAIN object, NEW o \in WideObject,
         object' = [object EXCEPT ![n] = o]
  PROVE  Changed(n, o)
BY DEF Changed

(* An index that is not 0 is that of an object. *)
LEMMA ObjectType ==
  ASSUME Types, NEW n \in 0 .. Len(object), n # 0
  PROVE  n \in DOMAIN object /\ object[n] \in WideObject
BY DEF Types

(* A client between shm_open and its answer has opened an object. *)
LEMMA OpenAt ==
  ASSUME Types, Openers, NEW c \in Clients,
         client[c] \in {"opened", "mapped", "reserved", "locked", "written", "sent"}
  PROVE  at[c] \in DOMAIN object /\ object[at[c]] \in WideObject
<1>1. at[c] \in 0 .. Len(object)
  BY DEF Types
<1>2. at[c] # 0
  BY DEF Openers, PastOpen, ClientPC
<1> QED BY <1>1, <1>2, ObjectType

(* What the wait of the server on full changes. *)
LEMMA WaitFullEffect ==
  ASSUME Types, Owners, NEW s \in Servers, WaitFull(s)
  PROVE  Changed(own[s], [object[own[s]] EXCEPT !.full = @ - 1])
<1> DEFINE n == own[s]
           o == [object[n] EXCEPT !.full = @ - 1]
<1>1. n \in DOMAIN object /\ object[n] \in WideObject
  BY ObjectType DEF Types, Owners, WaitFull, Knows
<1>2. o \in WideObject
  BY <1>1 DEF WaitFull, WideObject
<1> QED BY <1>1, <1>2, ObjectChanged DEF WaitFull, Types

(* What its wait on the mutex changes. *)
LEMMA WaitMutexEffect ==
  ASSUME Types, Owners, NEW s \in Servers, WaitMutex(s)
  PROVE  Changed(own[s], [object[own[s]] EXCEPT !.mutex = 0])
<1> DEFINE n == own[s]
           o == [object[n] EXCEPT !.mutex = 0]
<1>1. n \in DOMAIN object /\ object[n] \in WideObject
  BY ObjectType DEF Types, Owners, WaitMutex, Knows
<1>2. o \in WideObject
  BY <1>1 DEF WideObject
<1> QED BY <1>1, <1>2, ObjectChanged DEF WaitMutex, Types

(* What fetch_shm_request changes once it has the mutex; the queue is
   initialised. *)
LEMMA FetchEffect ==
  ASSUME Types, Owners, Prepared, NEW s \in Servers, Fetch(s)
  PROVE  /\ Changed(own[s], [object[own[s]] EXCEPT
                       !.tail = (object[own[s]].tail + 1) % Slots, !.mutex = 1, !.empty = @ + 1])
         /\ own[s] \in ready
<1> DEFINE n == own[s]
           tail == (object[n].tail + 1) % Slots
           o == [object[n] EXCEPT !.tail = tail, !.mutex = 1, !.empty = @ + 1]
<1>1. n \in DOMAIN object /\ object[n] \in WideObject /\ n \in ready /\ object[n].slots = Slots
  BY ObjectType DEF Types, Owners, Prepared, Fetch, TakeOldest, Knows
<1>2. tail \in 0 .. Slots - 1
  BY <1>1, NextSlot DEF WideObject
<1>3. TakeOldest(s, tail)
  BY <1>1 DEF Fetch
<1> HIDE DEF tail
<1>4. o \in WideObject
  <2>1. object[n].empty + 1 \in Nat /\ 1 \in 0 .. 1
    BY <1>1 DEF WideObject
  <2> QED BY <1>1, <1>2, <2>1 DEF WideObject
<1>5. object' = [object EXCEPT ![n] = o]
  BY <1>3 DEF TakeOldest
<1>6. Changed(n, o)
  BY <1>1, <1>4, <1>5, ObjectChanged DEF Types
<1> QED BY <1>1, <1>6 DEF tail

(* What free_server_queue changes: the mutex is taken and not given back. *)
LEMMA FreeEffect ==
  ASSUME Types, Owners, NEW s \in Servers, Knows(s) \/ child[s] # "none", FreeServerQueue(s)
  PROVE  Changed(own[s], [object[own[s]] EXCEPT !.mutex = 0]) /\ object[own[s]].mutex > 0
<1> DEFINE n == own[s]
           o == [object[n] EXCEPT !.mutex = 0]
<1>1. n \in DOMAIN object /\ object[n] \in WideObject
  BY ObjectType DEF Types, Owners
<1>2. o \in WideObject
  BY <1>1 DEF WideObject
<1> QED BY <1>1, <1>2, ObjectChanged DEF FreeServerQueue, Types

(* What the wait of a client on empty changes. *)
LEMMA WaitEmptyEffect ==
  ASSUME Types, Openers, NEW c \in Clients, WaitEmpty(c)
  PROVE  Changed(at[c], [object[at[c]] EXCEPT !.empty = @ - 1])
<1> DEFINE n == at[c]
           o == [object[n] EXCEPT !.empty = @ - 1]
<1>1. n \in DOMAIN object /\ object[n] \in WideObject
  BY ObjectType DEF Types, Openers, WaitEmpty, PastOpen, ClientPC
<1>2. o \in WideObject
  BY <1>1 DEF WaitEmpty, WideObject
<1> QED BY <1>1, <1>2, ObjectChanged DEF WaitEmpty, Types

(* What its wait on the mutex changes. *)
LEMMA LockEffect ==
  ASSUME Types, Openers, NEW c \in Clients, Lock(c)
  PROVE  Changed(at[c], [object[at[c]] EXCEPT !.mutex = 0])
<1> DEFINE n == at[c]
           o == [object[n] EXCEPT !.mutex = 0]
<1>1. n \in DOMAIN object /\ object[n] \in WideObject
  BY ObjectType DEF Types, Openers, Lock, PastOpen, ClientPC
<1>2. o \in WideObject
  BY <1>1 DEF WideObject
<1> QED BY <1>1, <1>2, ObjectChanged DEF Lock, Types

(* What its post on full changes. *)
LEMMA PostFullEffect ==
  ASSUME Types, Openers, NEW c \in Clients, PostFull(c)
  PROVE  Changed(at[c], [object[at[c]] EXCEPT !.full = @ + 1])
<1> DEFINE n == at[c]
           o == [object[n] EXCEPT !.full = @ + 1]
<1>1. n \in DOMAIN object /\ object[n] \in WideObject
  BY ObjectType DEF Types, Openers, PostFull, PastOpen, ClientPC
<1>2. o \in WideObject
  BY <1>1 DEF WideObject
<1> QED BY <1>1, <1>2, ObjectChanged DEF PostFull, Types

(* The ring with c in the slot at head. *)
Filled(o, c) ==
  [i \in 1 .. Slots |-> IF i = o.head + 1 THEN c
                        ELSE IF i \in DOMAIN o.ring THEN o.ring[i] ELSE "nobody"]

(* The object once the request of c is written and the mutex is posted. *)
Written(o, c) ==
  [o EXCEPT !.head = (o.head + 1) % Slots, !.mutex = 1, !.ring = Filled(o, c)]

(* A client that writes ends by a fault, or fills the slot at the head. *)
LEMMA WriteEffect ==
  ASSUME Types, Openers, NEW c \in Clients, WriteRequest(c)
  PROVE  \/ /\ Faulty(c) /\ client' = [client EXCEPT ![c] = "crashed"]
            /\ UNCHANGED <<object, sent>>
         \/ /\ ~Faulty(c) /\ client' = [client EXCEPT ![c] = "written"]
            /\ Changed(at[c], Written(object[at[c]], c))
            /\ sent' = [sent EXCEPT ![at[c]] = Append(@, c)]
<1> DEFINE n == at[c]
           o == object[n]
<1>1. n \in DOMAIN object /\ o \in WideObject
  BY ObjectType DEF Types, Openers, WriteRequest, PastOpen, ClientPC
<1>2. CASE Faulty(c)
  BY <1>2 DEF WriteRequest, ClientGoto
<1>3. CASE ~Faulty(c)
  <2>1. o.slots = Slots
    BY <1>1, <1>3 DEF Faulty, WideObject
  <2>2. Filled(o, c) \in [1 .. Slots -> Clients \cup {"nobody"}]
    BY <1>1 DEF Filled, WideObject
  <2>3. (o.head + 1) % Slots \in 0 .. Slots - 1
    BY <1>1, NextSlot DEF WideObject
  <2>4. Written(o, c) \in WideObject
    <3> DEFINE head == (o.head + 1) % Slots
               ring == Filled(o, c)
    <3>1. head \in 0 .. Slots - 1 /\ ring \in [1 .. Slots -> Clients \cup {"nobody"}]
      BY <2>2, <2>3
    <3> HIDE DEF head, ring
    <3> DEFINE rings == {<< >>} \cup [1 .. Slots -> Clients \cup {"nobody"}]
    <3>2. ring \in rings /\ 1 \in 0 .. 1
      BY <3>1
    <3>3. o \in [sized : BOOLEAN, slots : {0, Slots}, mutex : 0 .. 1, empty : Nat, full : Nat,
                 head : 0 .. Slots - 1, tail : 0 .. Slots - 1, ring : rings]
      BY <1>1 DEF WideObject
    <3> HIDE DEF rings
    <3>4. [o EXCEPT !.head = head, !.mutex = 1, !.ring = ring]
            \in [sized : BOOLEAN, slots : {0, Slots}, mutex : 0 .. 1, empty : Nat, full : Nat,
                head : 0 .. Slots - 1, tail : 0 .. Slots - 1, ring : rings]
      BY <3>1, <3>2, <3>3
    <3> QED BY <3>4 DEF Written, WideObject, head, ring, rings
  <2>5. object' = [object EXCEPT ![n] = Written(o, c)]
    BY <1>3, <2>1 DEF WriteRequest, Written, Filled
  <2>6. Changed(n, Written(o, c))
    BY <1>1, <2>4, <2>5, ObjectChanged DEF Types
  <2> QED BY <1>3, <2>6 DEF WriteRequest, ClientGoto
<1> QED BY <1>2, <1>3

(* The object that shm_open creates is the last one; the others stay. *)
LEMMA CreateEffect ==
  ASSUME Types, NEW s \in Servers, CreateObject(s)
  PROVE  LET n == Len(object) + 1 IN
         /\ Len(object') = n /\ DOMAIN object' = DOMAIN object \cup {n} /\ n \notin DOMAIN object
         /\ object' \in Seq(WideObject) /\ object'[n] = Zero
         /\ \A m \in DOMAIN object : object'[m] = object[m]
         /\ n <= MaxObjects /\ name' = n /\ own' = [own EXCEPT ![s] = n]
         /\ server' = [server EXCEPT ![s] = "truncate"]
         /\ sent' \in Seq(Seq(Clients)) /\ Len(sent') = n
         /\ \A m \in DOMAIN object : sent'[m] = sent[m]
         /\ served' \in Seq(Seq(Clients \cup {"nobody"})) /\ Len(served') = n
         /\ \A m \in DOMAIN object : served'[m] = served[m]
         /\ sent'[n] = << >> /\ served'[n] = << >>
<1> DEFINE n == Len(object) + 1
<1>1. Zero \in WideObject
  BY SlotsAssumption DEF Zero, WideObject
<1>2. object \in Seq(WideObject) /\ object' = Append(object, Zero) /\ Len(object) < MaxObjects
  BY DEF CreateObject, Types
<1>3. /\ Len(object') = n /\ DOMAIN object' = DOMAIN object \cup {n} /\ n \notin DOMAIN object
      /\ object' \in Seq(WideObject) /\ object'[n] = Zero
      /\ \A m \in DOMAIN object : object'[m] = object[m]
      /\ n <= MaxObjects
  BY <1>1, <1>2, MaxObjectsAssumption
<1>4. /\ sent \in Seq(Seq(Clients)) /\ sent' = Append(sent, << >>)
      /\ served \in Seq(Seq(Clients \cup {"nobody"})) /\ served' = Append(served, << >>)
      /\ Len(sent) = Len(object) /\ Len(served) = Len(object)
  BY DEF CreateObject, Types
<1>5. << >> \in Seq(Clients) /\ << >> \in Seq(Clients \cup {"nobody"})
  OBVIOUS
<1>6. DOMAIN object = 1 .. Len(object) /\ Len(object) \in Nat
  BY <1>2
<1>7. /\ sent' \in Seq(Seq(Clients)) /\ Len(sent') = n /\ sent'[n] = << >>
      /\ \A m \in DOMAIN object : sent'[m] = sent[m]
  BY <1>4, <1>5, <1>6
<1>8. /\ served' \in Seq(Seq(Clients \cup {"nobody"})) /\ Len(served') = n /\ served'[n] = << >>
      /\ \A m \in DOMAIN object : served'[m] = served[m]
  BY <1>4, <1>5, <1>6
<1>9. name' = n /\ own' = [own EXCEPT ![s] = n] /\ server' = [server EXCEPT ![s] = "truncate"]
  BY <1>3 DEF CreateObject, ServerGoto, InitPC
<1> QED BY <1>3, <1>7, <1>8, <1>9

(* Where a step of init_server_queue leads. *)
After(pc) ==
  CASE pc = "truncate" -> "mutex"
    [] pc = "mutex"    -> "empty"
    [] pc = "empty"    -> "full"
    [] pc = "full"     -> "slots"
    [] pc = "slots"    -> "counters"
    [] pc = "counters" -> "serve"

(* The steps of init_server_queue, by name. *)
LEMMA InitialisingPC ==
  /\ DOMAIN InitPC = 1 .. 6
  /\ Initialising = {"truncate", "mutex", "empty", "full", "slots", "counters"}
BY DEF InitPC, Initialising

(* What a step of init_server_queue stores leaves an object. *)
LEMMA StoredType ==
  ASSUME NEW o \in WideObject, NEW pc \in Initialising
  PROVE  Stored(o, pc) \in WideObject
<1>1. 0 \in 0 .. Slots - 1 /\ 0 \in Nat /\ Slots \in Nat /\ Slots \in {0, Slots}
  BY SlotsAssumption
<1>2. CASE pc = "truncate"
  BY <1>2, <1>1 DEF Stored, WideObject
<1>3. CASE pc = "mutex"
  BY <1>3, <1>1 DEF Stored, WideObject
<1>4. CASE pc = "empty"
  BY <1>4, <1>1 DEF Stored, WideObject
<1>5. CASE pc = "full"
  BY <1>5, <1>1 DEF Stored, WideObject
<1>6. CASE pc = "slots"
  BY <1>6, <1>1 DEF Stored, WideObject
<1>7. CASE pc = "counters"
  BY <1>7, <1>1 DEF Stored, WideObject
<1> QED BY <1>2, <1>3, <1>4, <1>5, <1>6, <1>7, InitialisingPC

(* A step of init_server_queue stores one field and goes to the next; the
   last one makes the object ready. *)
LEMMA InitStepEffect ==
  ASSUME Types, Owners, NEW s \in Servers, InitStep(s)
  PROVE  \E pc \in Initialising :
           /\ server[s] = pc /\ server' = [server EXCEPT ![s] = After(pc)]
           /\ Changed(own[s], Stored(object[own[s]], pc))
           /\ ready' = IF pc = "counters" THEN ready \cup {own[s]} ELSE ready
<1>1. PICK i \in DOMAIN InitPC :
        /\ server[s] = InitPC[i]
        /\ object' = [object EXCEPT ![own[s]] = Stored(@, InitPC[i])]
        /\ ServerGoto(s, IF i = Len(InitPC) THEN "serve" ELSE InitPC[i + 1])
        /\ ready' = IF i = Len(InitPC) THEN ready \cup {own[s]} ELSE ready
  BY DEF InitStep
<1> DEFINE pc == InitPC[i]
           n == own[s]
<1>2. i \in 1 .. 6 /\ pc \in Initialising /\ Len(InitPC) = 6
  BY InitialisingPC DEF Initialising, InitPC
<1>3. n \in DOMAIN object /\ object[n] \in WideObject
  BY <1>1, <1>2, ObjectType DEF Types, Owners, Serving
<1>4. Changed(n, Stored(object[n], pc))
  BY <1>1, <1>2, <1>3, StoredType, ObjectChanged DEF Types
<1>5. (i = 6 <=> pc = "counters") /\ (IF i = 6 THEN "serve" ELSE InitPC[i + 1]) = After(pc)
  <2>1. i = 1 \/ i = 2 \/ i = 3 \/ i = 4 \/ i = 5 \/ i = 6
    BY <1>2
  <2>2. CASE i = 1  BY <2>2 DEF InitPC, After
  <2>3. CASE i = 2  BY <2>3 DEF InitPC, After
  <2>4. CASE i = 3  BY <2>4 DEF InitPC, After
  <2>5. CASE i = 4  BY <2>5 DEF InitPC, After
  <2>6. CASE i = 5  BY <2>6 DEF InitPC, After
  <2>7. CASE i = 6  BY <2>7 DEF InitPC, After
  <2> QED BY <2>1, <2>2, <2>3, <2>4, <2>5, <2>6, <2>7
<1> QED BY <1>1, <1>2, <1>4, <1>5 DEF ServerGoto

-----------------------------------------------------------------------------
(* A server that goes to a place of its program is at a place of its program. *)
LEMMA ServerTypes ==
  ASSUME server \in [Servers -> ServerPC], NEW s \in Servers, NEW pc \in ServerPC
  PROVE  [server EXCEPT ![s] = pc] \in [Servers -> ServerPC]
OBVIOUS

(* Types, for the steps of the server outside of the queue. *)
LEMMA TypesServer ==
  ASSUME Types, Owners, Prepared, NEW s \in Servers,
         Start(s) \/ Arm(s) \/ Create(s) \/ InitFails(s) \/ Kill(s) \/ Stop(s) \/ ChildExit(s)
  PROVE  Types'
<1> USE InitialisingPC
<1>1. server' \in [Servers -> ServerPC]
  BY DEF Types, Start, Arm, Create, CreateObject, InitFails, Kill, Stop, Handle, ChildExit, ServerGoto,
         End, Die, ServerPC, Armed, InitPC
<1>2. interrupted' \in [Servers -> {"down"} \cup Armed]
  BY DEF Types, Start, Arm, Create, CreateObject, InitFails, Kill, Stop, Handle, ChildExit
<1>3. child' \in [Servers -> {"none", "running", "handling"}]
  BY DEF Types, Start, Arm, Create, CreateObject, InitFails, Kill, Stop, Handle, ChildExit
<1>4. UNCHANGED <<clientSide, ready, early>>
  BY DEF Types, Start, Arm, Create, CreateObject, InitFails, Kill, Stop, Handle, ChildExit, history
<1>5. CASE CreateObject(s)
  <2> DEFINE n == Len(object) + 1
  <2>1. /\ Len(object') = n /\ object' \in Seq(WideObject) /\ n <= MaxObjects /\ name' = n
        /\ own' = [own EXCEPT ![s] = n]
        /\ sent' \in Seq(Seq(Clients)) /\ Len(sent') = n
        /\ served' \in Seq(Seq(Clients \cup {"nobody"})) /\ Len(served') = n
    BY <1>5, CreateEffect
  <2>2. Len(object) \in Nat /\ 0 .. Len(object) \subseteq 0 .. n /\ n \in 0 .. n
        /\ 1 .. Len(object) \subseteq 1 .. n
    BY DEF Types
  <2> HIDE DEF n
  <2>3. own' \in [Servers -> 0 .. n]
    BY <2>1, <2>2 DEF Types
  <2>4. at' \in [Clients -> 0 .. n] /\ mapped' = mapped /\ client' = client /\ ready' \subseteq 1 .. n
    BY <1>4, <2>2 DEF Types, clientSide
  <2> QED BY <1>1, <1>2, <1>3, <1>4, <2>1, <2>2, <2>3, <2>4 DEF Types
<1>6. CASE ~CreateObject(s)
  <2>1. Len(object) \in Nat /\ 0 \in 0 .. Len(object)
    BY DEF Types
  <2>2. UNCHANGED <<object, sent, served>>
    BY <1>6 DEF Start, Arm, Create, InitFails, Kill, Stop, Handle, ChildExit, history
  <2>3. name' \in {name, 0} /\ (own' = own \/ own' = [own EXCEPT ![s] = 0])
    BY <1>6 DEF Start, Arm, Create, InitFails, Kill, Stop, Handle, ChildExit
  <2>4. name' \in 0 .. Len(object) /\ own' \in [Servers -> 0 .. Len(object)]
    BY <2>1, <2>3 DEF Types
  <2> QED BY <1>1, <1>2, <1>3, <1>4, <2>2, <2>4 DEF Types, clientSide
<1> QED
  BY <1>5, <1>6

(* The server takes a request, or bytes that nobody wrote. *)
LEMMA OldestType ==
  ASSUME NEW o \in WideObject
  PROVE  Oldest(o) \in Clients \cup {"nobody"}
<1> DEFINE ring == o.ring
           k == o.tail + 1
<1>1. ring \in {<< >>} \cup [1 .. Slots -> Clients \cup {"nobody"}]
  BY DEF WideObject
<1> HIDE DEF ring, k
<1>2. CASE ring = << >>
  <2>1. DOMAIN ring = {}
    BY <1>2
  <2> QED BY <2>1 DEF Oldest, ring, k
<1>3. CASE ring \in [1 .. Slots -> Clients \cup {"nobody"}]
  <2>1. k \in DOMAIN ring => ring[k] \in Clients \cup {"nobody"}
    BY <1>3
  <2> QED BY <2>1 DEF Oldest, ring, k
<1> QED BY <1>1, <1>2, <1>3

(* An object that is changed has the type of an object. *)
LEMMA QueueTypes ==
  ASSUME Types, NEW n, NEW o, Changed(n, o)
  PROVE  /\ object' \in Seq(WideObject) /\ Len(object') = Len(object)
         /\ object[n] \in WideObject /\ o \in WideObject
BY DEF Changed, Types

(* Types, for the steps of the server in the queue. *)
LEMMA TypesQueue ==
  ASSUME Types, Owners, Prepared, NEW s \in Servers,
         InitStep(s) \/ WaitFull(s) \/ WaitMutex(s) \/ Fetch(s) \/ SigFree(s) \/ ChildSigFree(s)
  PROVE  Types'
<1> USE InitialisingPC
<1>1. server' \in [Servers -> ServerPC]
  <2>1. server' = server \/ \E pc \in ServerPC : server' = [server EXCEPT ![s] = pc]
    <3>1. CASE InitStep(s)
      <4>1. PICK pc \in Initialising : server' = [server EXCEPT ![s] = After(pc)]
        BY <3>1, InitStepEffect
      <4>2. After(pc) \in ServerPC
        BY <4>1 DEF After, ServerPC, Armed
      <4> QED BY <4>1, <4>2
    <3>2. CASE ~InitStep(s)
      BY <3>2 DEF WaitFull, WaitMutex, Fetch, SigFree, FreeNull, ChildSigFree, ServerGoto,
             End, Die, ServerPC, Armed
    <3> QED BY <3>1, <3>2
  <2> QED BY <2>1 DEF Types
<1>2. child' \in [Servers -> {"none", "running", "handling"}]
  <2>1. child' = child \/ \E v \in {"none", "running", "handling"} : child' = [child EXCEPT ![s] = v]
    BY DEF InitStep, WaitFull, WaitMutex, Fetch, SigFree, FreeNull, ChildSigFree
  <2> QED BY <2>1 DEF Types
<1>3. UNCHANGED <<own, interrupted, clientSide, early, sent>>
  BY DEF InitStep, WaitFull, WaitMutex, Fetch, TakeOldest, SigFree, FreeNull, ChildSigFree, history
<1>4. object' \in Seq(WideObject) /\ Len(object') = Len(object)
  <2>1. CASE InitStep(s)
    BY <2>1, InitStepEffect, QueueTypes
  <2>2. CASE WaitFull(s)
    BY <2>2, WaitFullEffect, QueueTypes
  <2>3. CASE WaitMutex(s)
    BY <2>3, WaitMutexEffect, QueueTypes
  <2>4. CASE Fetch(s)
    BY <2>4, FetchEffect, QueueTypes
  <2>5. CASE SigFree(s)
    BY <2>5, FreeEffect, QueueTypes DEF SigFree, FreeNull, Knows, Types
  <2>6. CASE ChildSigFree(s)
    BY <2>6, FreeEffect, QueueTypes DEF ChildSigFree
  <2> QED BY <2>1, <2>2, <2>3, <2>4, <2>5, <2>6
<1>5. name' \in 0 .. Len(object)
  <2>1. name' \in {name, 0} /\ 0 \in 0 .. Len(object)
    BY DEF Types, InitStep, WaitFull, WaitMutex, Fetch, TakeOldest, SigFree, FreeNull, ChildSigFree,
           FreeServerQueue
  <2> QED BY <2>1 DEF Types
<1>6. ready' \subseteq 1 .. Len(object)
  <2>1. CASE InitStep(s)
    <3>1. own[s] \in 1 .. Len(object)
      BY <2>1, InitStepEffect DEF Changed, Types
    <3>2. ready' \subseteq ready \cup {own[s]}
      BY <2>1, InitStepEffect
    <3>3. ready \subseteq 1 .. Len(object)
      BY DEF Types
    <3> QED BY <3>1, <3>2, <3>3
  <2> QED
    BY <2>1 DEF Types, WaitFull, WaitMutex, Fetch, TakeOldest, SigFree, FreeNull, ChildSigFree, history
<1>7. served' \in Seq(Seq(Clients \cup {"nobody"})) /\ Len(served') = Len(object)
  <2>1. CASE Fetch(s)
    <3> DEFINE n == own[s]
               o == Oldest(object[n])
    <3>1. n \in DOMAIN object /\ object[n] \in WideObject
      BY <2>1, FetchEffect, QueueTypes DEF Changed
    <3>2. o \in Clients \cup {"nobody"}
      BY <3>1, OldestType
    <3>3. served' = [served EXCEPT ![n] = Append(@, o)]
      BY <2>1 DEF Fetch, TakeOldest
    <3>4. n \in DOMAIN served /\ served[n] \in Seq(Clients \cup {"nobody"})
      BY <3>1 DEF Types
    <3> HIDE DEF o
    <3>5. Append(served[n], o) \in Seq(Clients \cup {"nobody"})
      BY <3>2, <3>4
    <3> QED BY <3>3, <3>4, <3>5 DEF Types
  <2> QED
    BY <2>1 DEF Types, InitStep, WaitFull, WaitMutex, SigFree, FreeNull, ChildSigFree, history
<1> QED
  BY <1>1, <1>2, <1>3, <1>4, <1>5, <1>6, <1>7 DEF Types, clientSide

(* Types, for the steps of a client. *)
LEMMA TypesClient ==
  ASSUME Types, Openers, NEW c \in Clients, Open(c) \/ Connect(c)
  PROVE  Types'
<1>1. client' \in [Clients -> ClientPC]
  BY DEF Types, Open, Connect, MapQueue, WaitEmpty, Lock, Timeout, WriteRequest, PostFull, ClientGoto, ClientPC
<1>2. UNCHANGED <<name, serverSide, ready, served>>
  BY DEF Open, Connect, MapQueue, WaitEmpty, Lock, Timeout, WriteRequest, PostFull, history
<1>3. object' \in Seq(WideObject) /\ Len(object') = Len(object)
  <2>1. CASE WaitEmpty(c)
    BY <2>1, WaitEmptyEffect, QueueTypes
  <2>2. CASE Lock(c)
    BY <2>2, LockEffect, QueueTypes
  <2>3. CASE WriteRequest(c)
    BY <2>3, WriteEffect, QueueTypes DEF Types
  <2>4. CASE PostFull(c)
    BY <2>4, PostFullEffect, QueueTypes
  <2> QED
    BY <2>1, <2>2, <2>3, <2>4 DEF Types, Open, Connect, MapQueue, Timeout
<1>4. at' \in [Clients -> 0 .. Len(object)]
  BY DEF Types, Open, Connect, MapQueue, WaitEmpty, Lock, Timeout, WriteRequest, PostFull
<1>5. mapped' \in [Clients -> {0, Slots}]
  <2>1. CASE MapQueue(c)
    <3>1. object[at[c]].slots \in {0, Slots}
      BY <2>1, ObjectType DEF MapQueue, Openers, PastOpen, ClientPC, Types, WideObject
    <3> QED BY <2>1, <3>1 DEF Types, MapQueue
  <2> QED
    BY <2>1 DEF Types, Open, Connect, WaitEmpty, Lock, Timeout, WriteRequest, PostFull
<1>6. early' \subseteq Clients
  BY DEF Types, Open, Connect, MapQueue, WaitEmpty, Lock, Timeout, WriteRequest, PostFull, history
<1>7. sent' \in Seq(Seq(Clients)) /\ Len(sent') = Len(object)
  <2>1. CASE WriteRequest(c)
    <3>1. CASE UNCHANGED sent
      BY <3>1 DEF Types
    <3>2. CASE ~UNCHANGED sent
      <4> DEFINE n == at[c]
      <4>1. n \in DOMAIN object /\ sent' = [sent EXCEPT ![n] = Append(@, c)]
        BY <2>1, <3>2, WriteEffect DEF Changed
      <4>2. n \in DOMAIN sent /\ sent[n] \in Seq(Clients)
        BY <4>1 DEF Types
      <4>3. Append(sent[n], c) \in Seq(Clients)
        BY <4>2
      <4> QED BY <4>1, <4>2, <4>3 DEF Types
    <3> QED BY <3>1, <3>2
  <2> QED
    BY <2>1 DEF Types, Open, Connect, MapQueue, WaitEmpty, Lock, Timeout, PostFull, history
<1> QED
  BY <1>1, <1>2, <1>3, <1>4, <1>5, <1>6, <1>7 DEF Types, serverSide

-----------------------------------------------------------------------------
(* Every step keeps Owners: only the server that creates an object has it as
   its own. *)
LEMMA OwnersStep ==
  ASSUME Types, Owners, [Next]_vars
  PROVE  Owners'
<1> USE InitialisingPC
<1>1. ASSUME NEW s \in Servers, Start(s) \/ Arm(s) \/ InitFails(s) \/ Kill(s) \/ ChildExit(s)
      PROVE  Owners'
  <2>1. UNCHANGED <<interrupted, ready>>
    BY <1>1 DEF Start, Arm, InitFails, Kill, ChildExit, history
  <2>2. CASE Start(s)
    <3>1. /\ server' = [server EXCEPT ![s] = "setup"] /\ own' = [own EXCEPT ![s] = 0]
          /\ child[s] = "none" /\ UNCHANGED child
      BY <2>2 DEF Start, ServerGoto
    <3> QED BY <2>1, <3>1 DEF Owners, Types, Serving, Knows
  <2>3. CASE Arm(s) \/ InitFails(s) \/ Kill(s)
    <3>1. /\ \/ server' = [server EXCEPT ![s] = "create"] /\ server[s] = "setup"
             \/ server' = [server EXCEPT ![s] = "down"]
             \/ server' = [server EXCEPT ![s] = "died"]
          /\ UNCHANGED <<own, child>>
      BY <2>3 DEF Arm, InitFails, Kill, ServerGoto, End, Die
    <3> QED BY <2>1, <3>1 DEF Owners, Types, Serving, Knows
  <2>4. CASE ChildExit(s)
    <3>1. server' = server /\ own' = own /\ child' = [child EXCEPT ![s] = "none"]
      BY <2>4 DEF ChildExit
    <3> QED BY <2>1, <3>1 DEF Owners, Types, Serving, Knows
  <2> QED BY <1>1, <2>2, <2>3, <2>4
<1>2. ASSUME NEW s \in Servers, Create(s)
      PROVE  Owners'
  <2>1. CASE CreateObject(s)
    <3> DEFINE n == Len(object) + 1
    <3>1. own' = [own EXCEPT ![s] = n] /\ server' = [server EXCEPT ![s] = "truncate"]
          /\ UNCHANGED <<interrupted, child, ready>>
      BY <2>1, CreateEffect DEF CreateObject
    <3>2. n \in Nat /\ n # 0 /\ n \notin ready /\ \A t \in Servers : own[t] # n
      BY DEF Types
    <3>3. own[s] = 0 /\ server[s] = "create"
      BY <2>1 DEF CreateObject, Owners
    <3> HIDE DEF n
    <3> QED BY <3>1, <3>2, <3>3 DEF Owners, Types, Serving, Knows
  <2>2. CASE ~CreateObject(s)
    BY <1>2, <2>2 DEF Create, End, ServerGoto, Owners, Types, Serving, Knows, history
  <2> QED BY <2>1, <2>2
<1>3. ASSUME NEW s \in Servers, InitStep(s)
      PROVE  Owners'
  <2>1. PICK pc \in Initialising :
          /\ server[s] = pc /\ server' = [server EXCEPT ![s] = After(pc)]
          /\ ready' = IF pc = "counters" THEN ready \cup {own[s]} ELSE ready
    BY <1>3, InitStepEffect
  <2>2. UNCHANGED <<own, interrupted, child>>
    BY <1>3 DEF InitStep
  <2>3. \/ After(pc) \in Initialising /\ ready' = ready
        \/ After(pc) = "serve" /\ ready' = ready \cup {own[s]}
    BY <2>1 DEF After
  <2>4. CASE After(pc) \in Initialising /\ ready' = ready
    BY <2>1, <2>2, <2>4 DEF Owners, Types, Serving, Knows
  <2>5. CASE After(pc) = "serve" /\ ready' = ready \cup {own[s]}
    BY <2>1, <2>2, <2>5 DEF Owners, Types, Serving, Knows
  <2> QED BY <2>3, <2>4, <2>5
<1>4. ASSUME NEW s \in Servers, WaitFull(s) \/ WaitMutex(s)
      PROVE  Owners'
  <2>1. /\ \E pc \in {"lock", "fetch"} : server' = [server EXCEPT ![s] = pc]
        /\ server[s] \in {"serve", "lock"}
    BY <1>4 DEF WaitFull, WaitMutex, ServerGoto
  <2>2. UNCHANGED <<own, interrupted, child, ready>>
    BY <1>4 DEF WaitFull, WaitMutex, history
  <2> QED BY <2>1, <2>2 DEF Owners, Types, Serving, Knows
<1>5. ASSUME NEW s \in Servers, Fetch(s)
      PROVE  Owners'
  BY <1>5 DEF Fetch, TakeOldest, ServerGoto, Die, Owners, Types, Serving, Knows
<1>6. ASSUME NEW s \in Servers, Stop(s)
      PROVE  Owners'
  <2>1. /\ server' = [server EXCEPT ![s] = "handling"] /\ server[s] \in Armed
        /\ interrupted' = [interrupted EXCEPT ![s] = server[s]]
        /\ \/ child' = child
           \/ child[s] = "running" /\ child' = [child EXCEPT ![s] = "handling"]
    BY <1>6 DEF Stop, Handle, ServerGoto, Types
  <2>2. UNCHANGED <<own, ready>>
    BY <1>6 DEF Stop, Handle, history
  <2>3. child[s] = "handling" => server[s] \notin Armed
    BY DEF Owners, Armed
  <2> QED BY <2>1, <2>2, <2>3 DEF Owners, Types, Serving, Knows, Armed
<1>7. ASSUME NEW s \in Servers, SigFree(s) \/ ChildSigFree(s)
      PROVE  Owners'
  <2>1. \/ server' = [server EXCEPT ![s] = "down"] /\ UNCHANGED child
        \/ server' = [server EXCEPT ![s] = "died"] /\ UNCHANGED child
        \/ child' = [child EXCEPT ![s] = "none"] /\ UNCHANGED server
    BY <1>7 DEF SigFree, FreeNull, ChildSigFree, ServerGoto, End, Die
  <2>2. UNCHANGED <<own, interrupted, ready>>
    BY <1>7 DEF SigFree, FreeNull, ChildSigFree, history
  <2> QED BY <2>1, <2>2 DEF Owners, Types, Serving, Knows
<1>8. ASSUME UNCHANGED <<serverSide, ready>>
      PROVE  Owners'
  BY <1>8 DEF serverSide, Owners, Serving, Knows
<1>9. ASSUME NEW c \in Clients, Open(c) \/ Connect(c)
      PROVE  UNCHANGED <<serverSide, ready>>
  BY <1>9 DEF Open, Connect, MapQueue, WaitEmpty, Lock, Timeout, WriteRequest, PostFull, history
<1> QED
  BY <1>1, <1>2, <1>3, <1>4, <1>5, <1>6, <1>7, <1>8, <1>9
     DEF Next, ServerStep, ChildStep, vars, history

(* Every step keeps Openers: a client that opens the name early is recorded,
   and what is ready stays ready. *)
LEMMA OpenersStep ==
  ASSUME Types, Owners, Openers, Prepared, [Next]_vars
  PROVE  Openers'
<1>1. ASSUME UNCHANGED clientSide, early' = early, ready \subseteq ready'
      PROVE  Openers'
  BY <1>1 DEF clientSide, Openers
<1>2. ASSUME NEW s \in Servers,
             Start(s) \/ InitFails(s) \/ Stop(s) \/ Kill(s) \/ ServerStep(s) \/ ChildStep(s)
      PROVE  UNCHANGED clientSide /\ early' = early /\ ready \subseteq ready'
  BY <1>2 DEF Start, InitFails, Stop, Handle, Kill, ServerStep, ChildStep, Arm, Create, CreateObject,
       InitStep, WaitFull, WaitMutex, Fetch, TakeOldest, SigFree, FreeNull, ChildExit, ChildSigFree, history
<1>3. ASSUME NEW c \in Clients, Open(c)
      PROVE  Openers'
  <2>1. CASE name = 0
    BY <1>3, <2>1 DEF Open, ClientGoto, Openers, Types, PastOpen, PastMap, ClientPC
  <2>2. CASE name # 0
    <3>1. /\ client[c] = "idle" /\ client' = [client EXCEPT ![c] = "opened"]
          /\ at' = [at EXCEPT ![c] = name] /\ UNCHANGED <<mapped, ready>>
          /\ early' = IF name \in ready THEN early ELSE early \cup {c}
      BY <1>3, <2>2 DEF Open, ClientGoto
    <3> QED BY <2>2, <3>1 DEF Openers, Types, PastOpen, PastMap, ClientPC
  <2> QED BY <2>1, <2>2
<1>4. ASSUME NEW c \in Clients, MapQueue(c)
      PROVE  Openers'
  <2>1. /\ client[c] = "opened" /\ UNCHANGED <<at, ready, early>>
        /\ \/ client' = [client EXCEPT ![c] = "mapped"] /\ mapped' = [mapped EXCEPT ![c] = object[at[c]].slots]
           \/ client' = [client EXCEPT ![c] = "crashed"] /\ UNCHANGED mapped
    BY <1>4 DEF MapQueue, ClientGoto, history
  <2>2. at[c] \in ready => object[at[c]].slots = Slots
    BY DEF Prepared
  <2>3. \A d \in Clients \ {c} : client'[d] = client[d] /\ mapped'[d] = mapped[d]
    BY <2>1 DEF Types
  <2>4. \/ client'[c] = "mapped" /\ mapped'[c] = object[at[c]].slots
        \/ client'[c] = "crashed"
    BY <2>1 DEF Types
  <2>5. at[c] # 0 /\ (c \notin early => at[c] \in ready)
    BY <2>1 DEF Openers, PastOpen, ClientPC
  <2> QED BY <2>1, <2>2, <2>3, <2>4, <2>5 DEF Openers, PastOpen, PastMap, ClientPC
<1>5. ASSUME NEW c \in Clients, WaitEmpty(c) \/ Lock(c) \/ Timeout(c) \/ WriteRequest(c) \/ PostFull(c)
      PROVE  Openers'
  <2>1. /\ UNCHANGED <<at, mapped, ready, early>>
        /\ client[c] \in PastMap
        /\ \E pc \in PastMap \cup {"gave_up", "crashed"} : client' = [client EXCEPT ![c] = pc]
    BY <1>5 DEF WaitEmpty, Lock, Timeout, WriteRequest, PostFull, ClientGoto, history, PastMap, PastOpen, ClientPC
  <2> QED BY <2>1 DEF Openers, Types, PastOpen, PastMap, ClientPC
<1>6. CASE UNCHANGED vars
  BY <1>1, <1>6 DEF vars, history
<1> QED
  BY <1>1, <1>2, <1>3, <1>4, <1>5, <1>6 DEF Next, Connect

-----------------------------------------------------------------------------
(* The object that a server initialises is not the one that another serves. *)
LEMMA ReadyObjects ==
  ASSUME Types, Owners, NEW s \in Servers, NEW t \in Servers,
         Knows(s) \/ child[s] # "none", server[t] \in Initialising
  PROVE  own[t] \in DOMAIN object /\ own[t] # own[s]
BY DEF Types, Owners, Serving

(* Steps of processes that use a queue do not touch what its initialisation
   has stored. *)
LEMMA PreparedUse ==
  ASSUME Types, Owners, Prepared, NEW s \in Servers,
         WaitFull(s) \/ WaitMutex(s) \/ Fetch(s) \/ SigFree(s) \/ ChildSigFree(s)
  PROVE  Prepared'
<1> USE InitialisingPC
<1>1. CASE object' = object
  <2>1. /\ UNCHANGED <<object, own, clientSide, ready>>
        /\ \A t \in Servers : server'[t] \in Initialising => server'[t] = server[t]
    BY <1>1 DEF WaitFull, WaitMutex, Fetch, TakeOldest, SigFree, FreeNull, ChildSigFree, ServerGoto,
       End, Die, Types, history
  <2> QED BY <2>1 DEF Prepared, Untouched, clientSide
<1>2. CASE object' # object
  <2>1. Knows(s) \/ child[s] # "none"
    BY <1>2 DEF WaitFull, WaitMutex, Fetch, TakeOldest, SigFree, FreeNull, ChildSigFree, Knows
  <2>2. PICK o \in WideObject : /\ Changed(own[s], o)
                                /\ o.sized = object[own[s]].sized /\ o.slots = object[own[s]].slots
    <3> DEFINE x == object[own[s]]
    <3>1. x \in WideObject
      BY <2>1, ObjectType DEF Owners, Types
    <3>2. CASE WaitFull(s)
      <4> DEFINE o == [x EXCEPT !.full = @ - 1]
      <4>1. Changed(own[s], o)
        BY <3>2, WaitFullEffect
      <4>2. o \in WideObject
        BY <4>1, QueueTypes
      <4>3. o.sized = x.sized /\ o.slots = x.slots
        BY <3>1 DEF WideObject
      <4> QED BY <4>1, <4>2, <4>3
    <3>3. CASE WaitMutex(s)
      <4> DEFINE o == [x EXCEPT !.mutex = 0]
      <4>1. Changed(own[s], o)
        BY <3>3, WaitMutexEffect
      <4>2. o \in WideObject
        BY <4>1, QueueTypes
      <4>3. o.sized = x.sized /\ o.slots = x.slots
        BY <3>1 DEF WideObject
      <4> QED BY <4>1, <4>2, <4>3
    <3>4. CASE Fetch(s)
      <4> DEFINE o == [x EXCEPT !.tail = (x.tail + 1) % Slots, !.mutex = 1, !.empty = @ + 1]
      <4>1. Changed(own[s], o)
        BY <3>4, FetchEffect
      <4>2. o \in WideObject
        BY <4>1, QueueTypes
      <4>3. o.sized = x.sized /\ o.slots = x.slots
        BY <3>1 DEF WideObject
      <4> QED BY <4>1, <4>2, <4>3
    <3>5. CASE SigFree(s) \/ ChildSigFree(s)
      <4>1. FreeServerQueue(s)
        BY <1>2, <3>5 DEF SigFree, FreeNull, ChildSigFree
      <4> DEFINE o == [x EXCEPT !.mutex = 0]
      <4>2. Changed(own[s], o)
        BY <2>1, <4>1, FreeEffect
      <4>3. o \in WideObject
        BY <4>2, QueueTypes
      <4>4. o.sized = x.sized /\ o.slots = x.slots
        BY <3>1 DEF WideObject
      <4> QED BY <4>2, <4>3, <4>4
    <3> QED BY <3>2, <3>3, <3>4, <3>5
  <2>3. /\ UNCHANGED <<own, clientSide, ready>>
        /\ \A t \in Servers : server'[t] \in Initialising => server'[t] = server[t]
    BY DEF WaitFull, WaitMutex, Fetch, TakeOldest, SigFree, FreeNull, ChildSigFree, ServerGoto,
       End, Die, Types, history
  <2>4. \A t \in Servers : server[t] \in Initialising => object'[own[t]] = object[own[t]]
    BY <2>1, <2>2, ReadyObjects DEF Changed
  <2>5. \A n \in ready : object'[n].sized = object[n].sized /\ object'[n].slots = object[n].slots
    <3>1. ready \subseteq DOMAIN object
      BY DEF Types
    <3> QED BY <2>2, <3>1 DEF Changed
  <2> QED BY <2>3, <2>4, <2>5 DEF Prepared, Untouched, clientSide
<1> QED BY <1>1, <1>2

(* Prepared, for the creation of an object and the steps of
   init_server_queue. *)
LEMMA PreparedInit ==
  ASSUME Types, Owners, Openers, Prepared, NEW s \in Servers, Create(s) \/ InitStep(s)
  PROVE  Prepared'
<1> USE InitialisingPC
<1>1. CASE CreateObject(s)
  <2> DEFINE n == Len(object) + 1
  <2>1. /\ DOMAIN object' = DOMAIN object \cup {n} /\ n \notin DOMAIN object
        /\ object'[n] = Zero /\ \A m \in DOMAIN object : object'[m] = object[m]
        /\ own' = [own EXCEPT ![s] = n] /\ server' = [server EXCEPT ![s] = "truncate"]
    BY <1>1, CreateEffect
  <2>2. UNCHANGED <<clientSide, ready>>
    BY <1>1 DEF CreateObject
  <2>3. \A c \in Clients : at[c] # n
    BY DEF Types
  <2>4. \A t \in Servers : server[t] \in Initialising => own[t] \in DOMAIN object
    BY DEF Types, Owners, Serving
  <2>5. ready \subseteq DOMAIN object
    BY DEF Types
  <2> HIDE DEF n
  <2> QED BY <2>1, <2>2, <2>3, <2>4, <2>5 DEF Prepared, Untouched, clientSide, Types, Zero
<1>2. CASE InitStep(s)
  <2> DEFINE n == own[s]
             x == object[n]
  <2>1. PICK pc \in Initialising :
          /\ server[s] = pc /\ server' = [server EXCEPT ![s] = After(pc)]
          /\ Changed(n, Stored(x, pc))
          /\ ready' = IF pc = "counters" THEN ready \cup {n} ELSE ready
    BY <1>2, InitStepEffect
  <2>2. UNCHANGED <<own, clientSide>>
    BY <1>2 DEF InitStep
  <2>3. /\ n \notin ready /\ n \in DOMAIN object /\ x \in WideObject
        /\ \A t \in Servers \ {s} : server[t] \in Initialising => own[t] # n /\ own[t] \in DOMAIN object
    <3>1. n \in DOMAIN object /\ x \in WideObject
      BY <2>1, QueueTypes DEF Changed
    <3>2. n \notin ready
      BY <2>1 DEF Owners
    <3>3. ASSUME NEW t \in Servers \ {s}, server[t] \in Initialising
          PROVE  own[t] # n /\ own[t] \in DOMAIN object
      <4>1. Serving(s) /\ Serving(t)
        BY <2>1, <3>3 DEF Serving
      <4>2. n # 0 /\ own[t] # 0 /\ own[t] # n
        BY <4>1 DEF Owners
      <4>3. DOMAIN object = 1 .. Len(object) /\ own[t] \in 0 .. Len(object)
        BY DEF Types
      <4> QED BY <4>2, <4>3
    <3> QED BY <3>1, <3>2, <3>3
  <2>4. object'[n] = Stored(x, pc) /\ \A m \in DOMAIN object : m # n => object'[m] = object[m]
    BY <2>1 DEF Changed
  <2>5. /\ pc # "truncate" => x.sized
        /\ pc = "counters" => x.slots = Slots
        /\ pc \in {"truncate", "mutex"} => x.mutex = 0
        /\ pc \in {"truncate", "mutex", "empty"} => Untouched(n)
    BY <2>1 DEF Prepared
  <2>6. /\ object'[n].sized
        /\ After(pc) \in {"counters", "serve"} => object'[n].slots = Slots
        /\ After(pc) = "mutex" => object'[n].mutex = 0
        /\ After(pc) \in {"mutex", "empty"} => object'[n].empty = 0 /\ Untouched(n)
        /\ After(pc) # "truncate"
        /\ After(pc) = "serve" <=> pc = "counters"
    <3>1. CASE pc = "truncate"
      BY <3>1, <2>3, <2>4, <2>5 DEF Stored, After, WideObject, Untouched
    <3>2. CASE pc = "mutex"
      BY <3>2, <2>3, <2>4, <2>5 DEF Stored, After, WideObject, Untouched
    <3>3. CASE pc = "empty"
      BY <3>3, <2>3, <2>4, <2>5 DEF Stored, After, WideObject
    <3>4. CASE pc = "full"
      BY <3>4, <2>3, <2>4, <2>5 DEF Stored, After, WideObject
    <3>5. CASE pc = "slots"
      BY <3>5, <2>3, <2>4, <2>5 DEF Stored, After, WideObject
    <3>6. CASE pc = "counters"
      <4>1. object'[n] = [x EXCEPT !.head = 0, !.tail = 0] /\ After(pc) = "serve"
        BY <3>6, <2>4 DEF Stored, After
      <4>2. object'[n].sized = x.sized /\ object'[n].slots = x.slots
        BY <4>1, <2>3 DEF WideObject
      <4> QED BY <3>6, <4>1, <4>2, <2>5
    <3> QED BY <3>1, <3>2, <3>3, <3>4, <3>5, <3>6
  <2>7. \A m \in ready' : object'[m].sized /\ object'[m].slots = Slots
    <3>1. ready \subseteq DOMAIN object /\ ready' \subseteq ready \cup {n}
      BY <2>1 DEF Types
    <3>2. n \in ready' => After(pc) = "serve"
      BY <2>1, <2>3, <2>6
    <3>3. \A m \in ready : object'[m] = object[m]
      BY <2>3, <2>4, <3>1
    <3> QED BY <2>6, <3>1, <3>2, <3>3 DEF Prepared
  <2>8. ASSUME NEW t \in Servers
        PROVE  /\ server'[t] \in Initialising \ {"truncate"} => object'[own[t]].sized
               /\ server'[t] = "counters" => object'[own[t]].slots = Slots
               /\ server'[t] \in {"truncate", "mutex"} => object'[own[t]].mutex = 0
               /\ server'[t] \in {"truncate", "mutex", "empty"} => object'[own[t]].empty = 0 /\ Untouched(own[t])
    <3>1. CASE t = s
      <4>1. server'[t] = After(pc)
        BY <2>1, <3>1 DEF Types
      <4> QED BY <3>1, <4>1, <2>6
    <3>2. CASE t # s
      <4>1. server'[t] = server[t]
        BY <2>1, <3>2 DEF Types
      <4>2. server[t] \in Initialising => object'[own[t]] = object[own[t]]
        BY <2>3, <2>4, <3>2
      <4> QED BY <4>1, <4>2 DEF Prepared, Untouched
    <3> QED BY <3>1, <3>2
  <2> QED BY <2>2, <2>7, <2>8 DEF Prepared, Untouched, clientSide
<1>3. CASE Create(s) /\ ~CreateObject(s)
  <2>1. UNCHANGED <<object, own, clientSide, ready>> /\ server' = [server EXCEPT ![s] = "down"]
    BY <1>3 DEF Create, End, ServerGoto, history
  <2> QED BY <2>1 DEF Prepared, Untouched, clientSide, Types
<1> QED BY <1>1, <1>2, <1>3

(* Prepared, for the steps of a client: nothing can be waited for on empty
   before init_server_queue sets it. *)
LEMMA PreparedClient ==
  ASSUME Types, Owners, Openers, Prepared, NEW c \in Clients, Open(c) \/ Connect(c)
  PROVE  Prepared'
<1> USE InitialisingPC
<1>1. UNCHANGED <<serverSide, ready>>
  BY DEF Open, Connect, MapQueue, WaitEmpty, Lock, Timeout, WriteRequest, PostFull, history
<1>2. CASE Open(c) \/ MapQueue(c) \/ Timeout(c)
  <2>1. UNCHANGED object
    BY <1>2 DEF Open, MapQueue, Timeout
  <2>2. /\ \A d \in Clients \ {c} : client'[d] = client[d] /\ at'[d] = at[d]
        /\ client'[c] \in {"opened", "mapped", "gave_up", "crashed"} \/ at'[c] = 0
    BY <1>2 DEF Open, MapQueue, Timeout, ClientGoto, Types, Openers, PastOpen, ClientPC
  <2>3. \A t \in Servers : server[t] \in Initialising => own[t] # 0
    BY DEF Owners, Serving
  <2> QED BY <1>1, <2>1, <2>2, <2>3 DEF Prepared, Untouched, serverSide
<1>3. CASE WaitEmpty(c) \/ Lock(c) \/ WriteRequest(c) \/ PostFull(c)
  <2> DEFINE n == at[c]
             x == object[n]
  <2>1. n \in DOMAIN object /\ x \in WideObject
    BY <1>3, ObjectType DEF Types, Openers, WaitEmpty, Lock, WriteRequest, PostFull, PastOpen, ClientPC
  <2>2. /\ DOMAIN object' = DOMAIN object
        /\ object'[n].sized = x.sized /\ object'[n].slots = x.slots
        /\ \A m \in DOMAIN object : m # n => object'[m] = object[m]
    <3>1. CASE WaitEmpty(c)
      BY <2>1, <3>1, WaitEmptyEffect DEF Changed, WideObject
    <3>2. CASE Lock(c)
      BY <2>1, <3>2, LockEffect DEF Changed, WideObject
    <3>3. CASE WriteRequest(c)
      <4>1. CASE UNCHANGED object
        BY <4>1
      <4>2. CASE ~UNCHANGED object
        <5>1. Changed(n, Written(x, c))
          BY <3>3, <4>2, WriteEffect
        <5>2. Written(x, c).sized = x.sized /\ Written(x, c).slots = x.slots
          BY <2>1 DEF Written, WideObject
        <5> QED BY <5>1, <5>2 DEF Changed
      <4> QED BY <4>1, <4>2
    <3>4. CASE PostFull(c)
      BY <2>1, <3>4, PostFullEffect DEF Changed, WideObject
    <3> QED BY <1>3, <3>1, <3>2, <3>3, <3>4
  <2>3. \A t \in Servers :
          server[t] \in {"truncate", "mutex", "empty"} => own[t] # n /\ own[t] \in DOMAIN object
    <3> SUFFICES ASSUME NEW t \in Servers, server[t] \in {"truncate", "mutex", "empty"}
                 PROVE  own[t] # n /\ own[t] \in DOMAIN object
      OBVIOUS
    <3>1. Untouched(own[t])
      BY DEF Prepared
    <3>2. own[t] \in 0 .. Len(object) /\ own[t] # 0
      BY DEF Owners, Types, Serving
    <3>3. own[t] # n
      BY <1>3, <3>1 DEF Untouched, WaitEmpty, Lock, WriteRequest, PostFull
    <3> QED BY <3>2, <3>3, ObjectType
  <2>4. /\ \A d \in Clients \ {c} : client'[d] = client[d]
        /\ UNCHANGED at
    BY <1>3 DEF WaitEmpty, Lock, WriteRequest, PostFull, ClientGoto, Types
  <2>5. \A t \in Servers : server[t] \in Initialising => own[t] \in DOMAIN object
    BY DEF Owners, Types, Serving
  <2>6. ready \subseteq DOMAIN object
    BY DEF Types
  <2>7. \A m \in DOMAIN object : object'[m].sized = object[m].sized /\ object'[m].slots = object[m].slots
    BY <2>2
  <2>8. \A t \in Servers : server[t] \in {"truncate", "mutex", "empty"} => object'[own[t]] = object[own[t]]
    BY <2>2, <2>3
  <2> HIDE DEF n, x
  <2>9. \A t \in Servers : server[t] \in {"truncate", "mutex", "empty"} /\ Untouched(own[t]) => Untouched(own[t])'
    BY <1>1, <2>3, <2>4, <2>8 DEF Untouched, serverSide, n
  <2> QED BY <1>1, <2>5, <2>6, <2>7, <2>8, <2>9 DEF Prepared, serverSide
<1> QED BY <1>2, <1>3 DEF Connect

(* Every step keeps Prepared. *)
LEMMA PreparedStep ==
  ASSUME Types, Owners, Openers, Prepared, [Next]_vars
  PROVE  Prepared'
<1> USE InitialisingPC
<1>1. ASSUME NEW s \in Servers, Start(s) \/ Arm(s) \/ InitFails(s) \/ Stop(s) \/ Kill(s) \/ ChildExit(s)
      PROVE  Prepared'
  <2>1. /\ UNCHANGED <<object, clientSide, ready>>
        /\ \A t \in Servers : server'[t] \in Initialising => server'[t] = server[t] /\ own'[t] = own[t]
    BY <1>1 DEF Start, Arm, InitFails, Stop, Handle, Kill, ChildExit, ServerGoto, End, Die, Types, history
  <2> QED BY <2>1 DEF Prepared, Untouched, clientSide
<1>2. CASE UNCHANGED vars
  BY <1>2 DEF vars, serverSide, clientSide, history, Prepared, Untouched
<1> QED
  BY <1>1, <1>2, PreparedUse, PreparedInit, PreparedClient DEF Next, ServerStep, ChildStep

-----------------------------------------------------------------------------
(* sig_free in the server or in a child: it dies on NULL, or takes the mutex
   and removes the name. *)
LEMMA FreeUse ==
  ASSUME Types, Owners, NEW s \in Servers, SigFree(s) \/ ChildSigFree(s)
  PROVE  \/ /\ server' = [server EXCEPT ![s] = "died"]
            /\ UNCHANGED <<name, object, own, interrupted, child, clientSide, history>>
         \/ /\ FreeServerQueue(s) /\ Changed(own[s], [object[own[s]] EXCEPT !.mutex = 0])
            /\ object[own[s]].mutex > 0 /\ name' = 0 /\ own[s] # 0
            /\ \/ server' = [server EXCEPT ![s] = "down"] /\ server[s] = "handling"
               \/ server' = server
            /\ UNCHANGED <<own, clientSide, history>>
<1>1. CASE SigFree(s) /\ FreeNull(s)
  BY <1>1 DEF FreeNull, Die, ServerGoto
<1>2. CASE SigFree(s) /\ ~FreeNull(s)
  <2>1. FreeServerQueue(s) /\ Knows(s)
    BY <1>2 DEF SigFree, Knows
  <2> QED BY <1>2, <2>1, FreeEffect DEF SigFree, Owners, FreeServerQueue, End, ServerGoto
<1>3. CASE ChildSigFree(s)
  <2>1. FreeServerQueue(s) /\ child[s] # "none"
    BY <1>3 DEF ChildSigFree
  <2> QED BY <1>3, <2>1, FreeEffect DEF ChildSigFree, Owners, FreeServerQueue
<1> QED BY <1>1, <1>2, <1>3

(* Exclusive, for the steps of the server; init_server_queue sets the mutex
   while no client can be inside. *)
LEMMA ExclusiveServer ==
  ASSUME Types, Owners, Openers, Prepared, Exclusive, NEW s \in Servers,
         Start(s) \/ InitFails(s) \/ Stop(s) \/ Kill(s) \/ ServerStep(s) \/ ChildStep(s)
  PROVE  Exclusive'
<1> USE InitialisingPC
<1>1. UNCHANGED clientSide
  BY DEF Start, InitFails, Stop, Handle, Kill, ServerStep, ChildStep, Arm, Create, CreateObject,
     InitStep, WaitFull, WaitMutex, Fetch, TakeOldest, SigFree, FreeNull, ChildExit, ChildSigFree
<1>2. \A c \in Clients : client[c] = "locked" => at[c] \in DOMAIN object
  BY OpenAt
<1>3. \A t \in Servers : server[t] = "fetch" => own[t] \in DOMAIN object
  BY DEF Types, Owners, Knows
<1>4. CASE Start(s) \/ InitFails(s) \/ Stop(s) \/ Kill(s) \/ Arm(s) \/ ChildExit(s) \/ (Create(s) /\ ~CreateObject(s))
  <2>1. /\ UNCHANGED object
        /\ \A t \in Servers : server'[t] = "fetch" => server[t] = "fetch" /\ own'[t] = own[t]
    BY <1>4 DEF Start, InitFails, Stop, Handle, Kill, Arm, ChildExit, Create, ServerGoto, End, Die, Types
  <2> QED BY <1>1, <2>1 DEF Exclusive, clientSide
<1>5. CASE CreateObject(s)
  <2>1. \A m \in DOMAIN object : object'[m] = object[m]
    BY <1>5, CreateEffect
  <2>2. \A t \in Servers : server'[t] = "fetch" => server[t] = "fetch" /\ own'[t] = own[t]
    BY <1>5, CreateEffect DEF Types
  <2> QED BY <1>1, <1>2, <1>3, <2>1, <2>2 DEF Exclusive, clientSide
<1>6. CASE InitStep(s)
  <2> DEFINE n == own[s]
             x == object[n]
  <2>1. PICK pc \in Initialising :
          /\ server[s] = pc /\ server' = [server EXCEPT ![s] = After(pc)]
          /\ Changed(n, Stored(x, pc))
    BY <1>6, InitStepEffect
  <2>2. UNCHANGED own /\ x \in WideObject
    BY <1>6, <2>1, QueueTypes DEF InitStep
  <2>3. \A t \in Servers : server'[t] = "fetch" => t # s /\ server[t] = "fetch" /\ own[t] # n
    BY <2>1 DEF Types, Owners, Serving, After, Knows
  <2>4. \A c \in Clients : client[c] = "locked" /\ at[c] = n => object'[n].mutex = 0
    <3>1. CASE pc = "mutex"
      BY <2>1, <3>1 DEF Prepared, Untouched
    <3>2. CASE pc # "mutex"
      <4>1. Stored(x, pc).mutex = x.mutex
        BY <2>1, <2>2, <3>2 DEF Stored, WideObject
      <4> QED BY <2>1, <4>1 DEF Changed, Exclusive
    <3> QED BY <3>1, <3>2
  <2> QED BY <1>1, <1>2, <1>3, <2>1, <2>2, <2>3, <2>4 DEF Changed, Exclusive, clientSide
<1>7. CASE WaitFull(s)
  <2>1. Changed(own[s], [object[own[s]] EXCEPT !.full = @ - 1]) /\ object[own[s]] \in WideObject
    BY <1>7, WaitFullEffect, QueueTypes
  <2>2. \A m \in DOMAIN object : object'[m].mutex = object[m].mutex
    BY <2>1 DEF Changed, WideObject
  <2>3. UNCHANGED own /\ \A t \in Servers : server'[t] = "fetch" => server[t] = "fetch"
    BY <1>7 DEF WaitFull, ServerGoto, Types
  <2> QED BY <1>1, <1>2, <1>3, <2>2, <2>3 DEF Exclusive, clientSide
<1>8. CASE WaitMutex(s)
  <2>1. Changed(own[s], [object[own[s]] EXCEPT !.mutex = 0]) /\ object[own[s]] \in WideObject
    BY <1>8, WaitMutexEffect, QueueTypes
  <2>2. object'[own[s]].mutex = 0 /\ \A m \in DOMAIN object : m # own[s] => object'[m] = object[m]
    BY <2>1 DEF Changed, WideObject
  <2>3. /\ UNCHANGED own /\ object[own[s]].mutex > 0
        /\ \A t \in Servers : server'[t] = "fetch" => server[t] = "fetch" \/ t = s
    BY <1>8 DEF WaitMutex, ServerGoto, Types
  <2> QED BY <1>1, <1>2, <1>3, <2>2, <2>3 DEF Exclusive, clientSide
<1>9. CASE Fetch(s)
  <2>1. \A m \in DOMAIN object : m # own[s] => object'[m] = object[m]
    BY <1>9, FetchEffect DEF Changed
  <2>2. /\ UNCHANGED own /\ server[s] = "fetch" /\ own[s] # 0
        /\ \A t \in Servers : server'[t] = "fetch" => server[t] = "fetch" /\ t # s
    BY <1>9 DEF Fetch, TakeOldest, ServerGoto, Die, Types, Owners, Knows
  <2> QED BY <1>1, <1>2, <1>3, <2>1, <2>2 DEF Exclusive, clientSide, Owners
<1>10. CASE SigFree(s) \/ ChildSigFree(s)
  <2>1. UNCHANGED own /\ \A t \in Servers : server'[t] = "fetch" => server[t] = "fetch"
    BY <1>10, FreeUse DEF Types
  <2>2. \A m \in DOMAIN object : object[m].mutex = 0 => object'[m].mutex = 0
    <3>1. CASE UNCHANGED object
      BY <3>1
    <3>2. CASE Changed(own[s], [object[own[s]] EXCEPT !.mutex = 0])
      BY <3>2, QueueTypes DEF Changed, WideObject
    <3> QED BY <1>10, <3>1, <3>2, FreeUse
  <2> QED BY <1>1, <1>2, <1>3, <2>1, <2>2 DEF Exclusive, clientSide
<1> QED
  BY <1>4, <1>5, <1>6, <1>7, <1>8, <1>9, <1>10 DEF ServerStep, ChildStep

(* Exclusive, for the steps of a client. *)
LEMMA ExclusiveClient ==
  ASSUME Types, Owners, Openers, Exclusive, NEW c \in Clients, Open(c) \/ Connect(c)
  PROVE  Exclusive'
<1>1. UNCHANGED <<serverSide>>
  BY DEF Open, Connect, MapQueue, WaitEmpty, Lock, Timeout, WriteRequest, PostFull
<1>2. \A d \in Clients : client[d] = "locked" => at[d] \in DOMAIN object
  BY OpenAt
<1>3. \A t \in Servers : server[t] = "fetch" => own[t] \in DOMAIN object
  BY DEF Types, Owners, Knows
<1>4. CASE Open(c) \/ MapQueue(c) \/ Timeout(c)
  <2>1. /\ UNCHANGED object
        /\ \A d \in Clients : client'[d] = "locked" => client[d] = "locked" /\ at'[d] = at[d]
    BY <1>4 DEF Open, MapQueue, Timeout, ClientGoto, Types
  <2> QED BY <1>1, <2>1 DEF Exclusive, serverSide
<1>5. CASE WaitEmpty(c) \/ PostFull(c)
  <2>1. UNCHANGED at /\ \A d \in Clients : client'[d] = "locked" => client[d] = "locked"
    BY <1>5 DEF WaitEmpty, PostFull, ClientGoto, Types
  <2>2. \A m \in DOMAIN object : object'[m].mutex = object[m].mutex
    <3>1. CASE WaitEmpty(c)
      <4>1. Changed(at[c], [object[at[c]] EXCEPT !.empty = @ - 1]) /\ object[at[c]] \in WideObject
        BY <3>1, WaitEmptyEffect, QueueTypes
      <4> QED BY <4>1 DEF Changed, WideObject
    <3>2. CASE PostFull(c)
      <4>1. Changed(at[c], [object[at[c]] EXCEPT !.full = @ + 1]) /\ object[at[c]] \in WideObject
        BY <3>2, PostFullEffect, QueueTypes
      <4> QED BY <4>1 DEF Changed, WideObject
    <3> QED BY <1>5, <3>1, <3>2
  <2> QED BY <1>1, <1>2, <1>3, <2>1, <2>2 DEF Exclusive, serverSide
<1>6. CASE Lock(c)
  <2>1. /\ UNCHANGED at /\ object[at[c]].mutex > 0
        /\ \A d \in Clients : client'[d] = "locked" => client[d] = "locked" \/ d = c
    BY <1>6 DEF Lock, ClientGoto, Types
  <2>2. object'[at[c]].mutex = 0 /\ \A m \in DOMAIN object : m # at[c] => object'[m] = object[m]
    <3>1. Changed(at[c], [object[at[c]] EXCEPT !.mutex = 0]) /\ object[at[c]] \in WideObject
      BY <1>6, LockEffect, QueueTypes
    <3> QED BY <3>1 DEF Changed, WideObject
  <2> QED BY <1>1, <1>2, <1>3, <2>1, <2>2 DEF Exclusive, serverSide
<1>7. CASE WriteRequest(c)
  <2>1. /\ UNCHANGED at /\ client[c] = "locked"
        /\ \A d \in Clients : client'[d] = "locked" => client[d] = "locked" /\ d # c
    BY <1>7 DEF WriteRequest, ClientGoto, Types
  <2>2. \A m \in DOMAIN object : m # at[c] => object'[m] = object[m]
    BY <1>7, WriteEffect DEF Changed
  <2> QED BY <1>1, <1>2, <1>3, <2>1, <2>2 DEF Exclusive, serverSide
<1> QED BY <1>4, <1>5, <1>6, <1>7 DEF Connect

(* Every step keeps Exclusive. *)
LEMMA ExclusiveStep ==
  ASSUME Types, Owners, Openers, Prepared, Exclusive, [Next]_vars
  PROVE  Exclusive'
<1>1. CASE UNCHANGED vars
  BY <1>1 DEF vars, serverSide, clientSide, Exclusive
<1> QED BY <1>1, ExclusiveServer, ExclusiveClient DEF Next

-----------------------------------------------------------------------------
(* Named, for the steps of the server: sig_free takes the mutex before it
   removes the name, and Create needs that there is no name. *)
LEMMA NamedServer ==
  ASSUME Types, Owners, Openers, Prepared, Exclusive, Named, NEW s \in Servers,
         Start(s) \/ InitFails(s) \/ Stop(s) \/ Kill(s) \/ ServerStep(s) \/ ChildStep(s)
  PROVE  Named'
<1> USE InitialisingPC
<1>1. UNCHANGED clientSide
  BY DEF Start, InitFails, Stop, Handle, Kill, ServerStep, ChildStep, Arm, Create, CreateObject,
     InitStep, WaitFull, WaitMutex, Fetch, TakeOldest, SigFree, FreeNull, ChildExit, ChildSigFree
<1>2. \A c \in Clients : client[c] = "locked" => at[c] \in DOMAIN object
  BY OpenAt
<1>3. DOMAIN object = 1 .. Len(object) /\ Len(object) \in Nat /\ \A m \in DOMAIN object : object[m].mutex \in 0 .. 1
  <2>1. DOMAIN object = 1 .. Len(object) /\ Len(object) \in Nat /\ \A m \in DOMAIN object : object[m] \in WideObject
    BY DEF Types
  <2> QED BY <2>1 DEF WideObject
<1>4. CASE Start(s) \/ Stop(s) \/ Kill(s) \/ Arm(s) \/ ChildExit(s) \/ (Create(s) /\ ~CreateObject(s))
  <2>1. /\ UNCHANGED <<name, object>>
        /\ \A t \in Servers : Serving(t)' => Serving(t) /\ own'[t] = own[t]
    BY <1>4 DEF Start, Stop, Handle, Kill, Arm, ChildExit, Create, ServerGoto, End, Die, Types, Serving
  <2> QED BY <1>1, <2>1 DEF Named, clientSide
<1>5. CASE Create(s) /\ CreateObject(s)
  <2> DEFINE n == Len(object) + 1
  <2>1. /\ DOMAIN object' = DOMAIN object \cup {n} /\ object'[n].mutex = 0
        /\ \A m \in DOMAIN object : object'[m] = object[m]
        /\ own' = [own EXCEPT ![s] = n] /\ name' = n /\ server' = [server EXCEPT ![s] = "truncate"]
    <3>1. object'[n] = Zero
      BY <1>5, CreateEffect
    <3>2. object'[n].mutex = 0
      BY <3>1 DEF Zero
    <3> QED BY <1>5, <3>2, CreateEffect
  <2>2. name = 0
    BY <1>5 DEF Create, CreateObject
  <2>3. \A m \in DOMAIN object : object[m].mutex = 0
    BY <2>2, <1>3 DEF Named
  <2>4. \A c \in Clients : client[c] # "locked"
    BY <2>2, <1>2, <1>3 DEF Named
  <2>5. \A t \in Servers : ~Serving(t)
    BY <2>2 DEF Named, Owners
  <2>6. \A t \in Servers : Serving(t)' => t = s /\ own'[t] = n
    BY <2>1, <2>5 DEF Serving, Types
  <2> HIDE DEF n
  <2> QED BY <1>1, <2>1, <2>3, <2>4, <2>6 DEF Named, clientSide
<1>6. CASE InitStep(s)
  <2> DEFINE n == own[s]
             x == object[n]
  <2>1. PICK pc \in Initialising :
          /\ server[s] = pc /\ server' = [server EXCEPT ![s] = After(pc)]
          /\ Changed(n, Stored(x, pc))
    BY <1>6, InitStepEffect
  <2>2. UNCHANGED <<name, own>> /\ x \in WideObject
    BY <1>6, <2>1, QueueTypes DEF InitStep
  <2>3. name = n
    BY <2>1 DEF Named, Serving
  <2>4. \A t \in Servers : Serving(t)' => Serving(t)
    BY <2>1 DEF Serving, Types
  <2>5. \A m \in DOMAIN object : m # n => object'[m] = object[m]
    BY <2>1 DEF Changed
  <2>6. DOMAIN object' = DOMAIN object
    BY <2>1 DEF Changed
  <2> HIDE DEF n, x
  <2> QED BY <1>1, <2>2, <2>3, <2>4, <2>5, <2>6 DEF Named, clientSide
<1>7. CASE WaitFull(s) \/ WaitMutex(s)
  <2>1. UNCHANGED <<name, own>> /\ \A t \in Servers : Serving(t)' => Serving(t)
    BY <1>7 DEF WaitFull, WaitMutex, ServerGoto, Types, Serving
  <2>2. DOMAIN object' = DOMAIN object /\ \A m \in DOMAIN object : object'[m].mutex = object[m].mutex \/ object'[m].mutex = 0
    <3>1. CASE WaitFull(s)
      <4>1. Changed(own[s], [object[own[s]] EXCEPT !.full = @ - 1]) /\ object[own[s]] \in WideObject
        BY <3>1, WaitFullEffect, QueueTypes
      <4> QED BY <4>1 DEF Changed, WideObject
    <3>2. CASE WaitMutex(s)
      <4>1. Changed(own[s], [object[own[s]] EXCEPT !.mutex = 0]) /\ object[own[s]] \in WideObject
        BY <3>2, WaitMutexEffect, QueueTypes
      <4> QED BY <4>1 DEF Changed, WideObject
    <3> QED BY <1>7, <3>1, <3>2
  <2> QED BY <1>1, <2>1, <2>2 DEF Named, clientSide
<1>8. CASE Fetch(s)
  <2>1. UNCHANGED <<name, own>> /\ server[s] = "fetch" /\ \A t \in Servers : Serving(t)' => Serving(t)
    BY <1>8 DEF Fetch, TakeOldest, ServerGoto, Die, Types, Serving
  <2>2. DOMAIN object' = DOMAIN object /\ \A m \in DOMAIN object : m # own[s] => object'[m] = object[m]
    BY <1>8, FetchEffect DEF Changed
  <2>3. name = own[s]
    BY <2>1 DEF Named, Serving
  <2> QED BY <1>1, <2>1, <2>2, <2>3 DEF Named, clientSide
<1>9. CASE InitFails(s)
  <2>1. /\ name' = 0 /\ UNCHANGED <<object, own>> /\ server[s] \in {"truncate", "mutex"}
        /\ \A t \in Servers : Serving(t)' => Serving(t) /\ t # s
    BY <1>9 DEF InitFails, End, ServerGoto, Types, Serving
  <2>2. name = own[s] /\ own[s] # 0 /\ object[own[s]].mutex = 0 /\ Untouched(own[s])
    BY <2>1 DEF Named, Owners, Serving, Prepared
  <2>3. \A t \in Servers : ~Serving(t)'
    BY <2>1, <2>2 DEF Named, Owners
  <2>4. \A m \in DOMAIN object : object[m].mutex = 0
    BY <2>2, <1>3 DEF Named
  <2>5. \A c \in Clients : client[c] # "locked"
    BY <2>2 DEF Named, Untouched
  <2> QED BY <1>1, <2>1, <2>3, <2>4, <2>5 DEF Named, clientSide
<1>10. CASE SigFree(s) \/ ChildSigFree(s)
  <2>1. CASE UNCHANGED <<name, object, own>> /\ server' = [server EXCEPT ![s] = "died"]
    <3>1. \A t \in Servers : Serving(t)' => Serving(t)
      BY <2>1 DEF Serving, Types
    <3> QED BY <1>1, <2>1, <3>1 DEF Named, clientSide
  <2>2. CASE ~(UNCHANGED <<name, object, own>> /\ server' = [server EXCEPT ![s] = "died"])
    <3>1. /\ Changed(own[s], [object[own[s]] EXCEPT !.mutex = 0]) /\ object[own[s]].mutex > 0
          /\ name' = 0 /\ own[s] # 0 /\ UNCHANGED own
          /\ \/ server' = [server EXCEPT ![s] = "down"]
             \/ server' = server /\ child[s] = "handling"
      <4>1. ~FreeNull(s)
        BY <2>2 DEF FreeNull, Die, ServerGoto
      <4> QED
        BY <1>10, <2>2, <4>1, FreeUse DEF SigFree, ChildSigFree, End, ServerGoto
    <3>2. object[own[s]] \in WideObject
      BY <3>1, QueueTypes
    <3>3. /\ DOMAIN object' = DOMAIN object /\ own[s] \in DOMAIN object
          /\ object'[own[s]].mutex = 0
          /\ \A m \in DOMAIN object : m # own[s] => object'[m] = object[m]
      BY <3>1, <3>2 DEF Changed, WideObject
    <3>4. name = own[s]
      BY <3>1, <3>3 DEF Named
    <3>5. \A m \in DOMAIN object' : object'[m].mutex = 0
      BY <3>3, <3>4, <1>3 DEF Named
    <3>6. \A c \in Clients : client[c] # "locked"
      BY <3>1, <3>4, <1>2 DEF Named, Exclusive
    <3>7. \A t \in Servers : ~Serving(t)'
      <4> SUFFICES ASSUME NEW t \in Servers, Serving(t)'
                   PROVE  FALSE
        OBVIOUS
      <4>1. Serving(t) /\ (t = s => child[s] = "handling")
        BY <3>1 DEF Serving, Types
      <4>2. t = s
        BY <4>1, <3>1, <3>4 DEF Named, Owners
      <4>3. server[s] \in {"handling", "down", "died"}
        BY <4>1, <4>2 DEF Owners
      <4> QED BY <4>1, <4>2, <4>3 DEF Serving
    <3> QED BY <1>1, <3>5, <3>6, <3>7 DEF Named, clientSide
  <2> QED BY <2>1, <2>2
<1> QED
  BY <1>4, <1>5, <1>6, <1>7, <1>8, <1>9, <1>10 DEF ServerStep, ChildStep, Create

(* Named, for the steps of a client, which leave the name as it is and post
   the mutex only of the object that has it. *)
LEMMA NamedClient ==
  ASSUME Types, Openers, Named, NEW c \in Clients, Open(c) \/ Connect(c)
  PROVE  Named'
<1>1. UNCHANGED <<name, serverSide>>
  BY DEF Open, Connect, MapQueue, WaitEmpty, Lock, Timeout, WriteRequest, PostFull
<1>2. \A t \in Servers : Serving(t)' <=> Serving(t)
  BY <1>1 DEF Serving, serverSide
<1>3. CASE Open(c) \/ MapQueue(c) \/ Timeout(c)
  <2>1. /\ UNCHANGED object
        /\ \A d \in Clients : client'[d] = "locked" => client[d] = "locked" /\ at'[d] = at[d]
    BY <1>3 DEF Open, MapQueue, Timeout, ClientGoto, Types
  <2> QED BY <1>1, <1>2, <2>1 DEF Named, serverSide
<1>4. CASE WaitEmpty(c) \/ PostFull(c)
  <2>1. UNCHANGED at /\ \A d \in Clients : client'[d] = "locked" => client[d] = "locked"
    BY <1>4 DEF WaitEmpty, PostFull, ClientGoto, Types
  <2>2. DOMAIN object' = DOMAIN object /\ \A m \in DOMAIN object : object'[m].mutex = object[m].mutex
    <3>1. CASE WaitEmpty(c)
      <4>1. Changed(at[c], [object[at[c]] EXCEPT !.empty = @ - 1]) /\ object[at[c]] \in WideObject
        BY <3>1, WaitEmptyEffect, QueueTypes
      <4> QED BY <4>1 DEF Changed, WideObject
    <3>2. CASE PostFull(c)
      <4>1. Changed(at[c], [object[at[c]] EXCEPT !.full = @ + 1]) /\ object[at[c]] \in WideObject
        BY <3>2, PostFullEffect, QueueTypes
      <4> QED BY <4>1 DEF Changed, WideObject
    <3> QED BY <1>4, <3>1, <3>2
  <2> QED BY <1>1, <1>2, <2>1, <2>2 DEF Named, serverSide
<1>5. CASE Lock(c)
  <2>1. /\ UNCHANGED at /\ object[at[c]].mutex > 0 /\ client[c] = "reserved"
        /\ \A d \in Clients : client'[d] = "locked" => client[d] = "locked" \/ d = c
    BY <1>5 DEF Lock, ClientGoto, Types
  <2>2. name = at[c]
    BY <2>1, OpenAt DEF Named
  <2>3. DOMAIN object' = DOMAIN object /\ \A m \in DOMAIN object : m # at[c] => object'[m] = object[m]
    BY <1>5, LockEffect DEF Changed
  <2> QED BY <1>1, <1>2, <2>1, <2>2, <2>3 DEF Named, serverSide
<1>6. CASE WriteRequest(c)
  <2>1. /\ UNCHANGED at /\ client[c] = "locked"
        /\ \A d \in Clients : client'[d] = "locked" => client[d] = "locked"
    BY <1>6 DEF WriteRequest, ClientGoto, Types
  <2>2. name = at[c]
    BY <2>1 DEF Named
  <2>3. DOMAIN object' = DOMAIN object /\ \A m \in DOMAIN object : m # at[c] => object'[m] = object[m]
    BY <1>6, WriteEffect DEF Changed
  <2> QED BY <1>1, <1>2, <2>1, <2>2, <2>3 DEF Named, serverSide
<1> QED BY <1>3, <1>4, <1>5, <1>6 DEF Connect

(* Every step keeps Named. *)
LEMMA NamedStep ==
  ASSUME Types, Owners, Openers, Prepared, Exclusive, Named, [Next]_vars
  PROVE  Named'
<1>1. CASE UNCHANGED vars
  BY <1>1 DEF vars, serverSide, clientSide, Named, Serving
<1> QED BY <1>1, NamedServer, NamedClient DEF Next

-----------------------------------------------------------------------------
(* Every step keeps OnlyEarlyCrash: a queue that is ready has a size, its
   slots are all mapped, and its head is one of them. *)
LEMMA CrashStep ==
  ASSUME Types, Openers, Prepared, OnlyEarlyCrash, [Next]_vars
  PROVE  OnlyEarlyCrash'
<1>1. CASE UNCHANGED clientSide /\ early' = early
  BY <1>1 DEF clientSide, OnlyEarlyCrash
<1>2. ASSUME NEW s \in Servers,
             Start(s) \/ InitFails(s) \/ Stop(s) \/ Kill(s) \/ ServerStep(s) \/ ChildStep(s)
      PROVE  UNCHANGED clientSide /\ early' = early
  BY <1>2 DEF Start, InitFails, Stop, Handle, Kill, ServerStep, ChildStep, Arm, Create, CreateObject,
       InitStep, WaitFull, WaitMutex, Fetch, TakeOldest, SigFree, FreeNull, ChildExit, ChildSigFree, history
<1>3. ASSUME NEW c \in Clients, Open(c) \/ Connect(c)
      PROVE  OnlyEarlyCrash'
  <2>1. early \subseteq early' /\ \A d \in Clients \ {c} : client'[d] = client[d]
    BY <1>3 DEF Open, Connect, MapQueue, WaitEmpty, Lock, Timeout, WriteRequest, PostFull, ClientGoto, Types, history
  <2>2. client'[c] = "crashed" => client[c] = "crashed" \/ c \in early
    <3>1. CASE MapQueue(c)
      <4>1. at[c] # 0 /\ (c \notin early => object[at[c]].sized)
        BY <3>1 DEF MapQueue, Openers, Prepared, PastOpen, ClientPC
      <4> QED BY <3>1, <4>1 DEF MapQueue, ClientGoto, Types
    <3>2. CASE WriteRequest(c)
      <4>1. client[c] = "locked" /\ at[c] \in DOMAIN object /\ object[at[c]] \in WideObject
        BY <3>2, OpenAt DEF WriteRequest
      <4>2. object[at[c]].head < Slots /\ Slots # 0
        BY <4>1, SlotsAssumption DEF WideObject
      <4>3. c \notin early => object[at[c]].slots = Slots /\ mapped[c] = Slots
        BY <4>1 DEF Openers, Prepared, PastOpen, PastMap, ClientPC
      <4>4. c \notin early => ~Faulty(c)
        BY <4>1, <4>2, <4>3, SlotsAssumption DEF Faulty, WideObject
      <4> QED BY <3>2, <4>4 DEF WriteRequest, ClientGoto, Types
    <3> QED
      BY <1>3, <3>1, <3>2 DEF Open, Connect, WaitEmpty, Lock, Timeout, PostFull, ClientGoto, Types
  <2> QED BY <2>1, <2>2 DEF OnlyEarlyCrash
<1> QED
  BY <1>1, <1>2, <1>3 DEF Next, vars, history

-----------------------------------------------------------------------------
(* One more client. *)
LEMMA CountAdd ==
  ASSUME NEW S \in SUBSET Clients, NEW c \in Clients, c \notin S
  PROVE  Cardinality(S \cup {c}) = Cardinality(S) + 1
<1>1. IsFiniteSet(S)
  BY ClientsAssumption, FS_Subset
<1> QED BY <1>1, FS_AddElement

(* One client less. *)
LEMMA CountRemove ==
  ASSUME NEW S \in SUBSET Clients, NEW c \in S
  PROVE  Cardinality(S \ {c}) = Cardinality(S) - 1
<1>1. IsFiniteSet(S)
  BY ClientsAssumption, FS_Subset
<1> QED BY <1>1, FS_RemoveElement

(* All that Counts counts are numbers. *)
LEMMA CountTypes ==
  ASSUME Types, NEW n \in DOMAIN object
  PROVE  /\ object[n].empty \in Nat /\ object[n].full \in Nat
         /\ Sent(n) \in Nat /\ Served(n) \in Nat
         /\ Cardinality(Reserving(n)) \in Nat /\ Cardinality(Posting(n)) \in Nat
         /\ Cardinality(Writers(n)) \in Nat /\ Cardinality(Writers(n)) <= Cardinality(Clients)
         /\ Taking(n) \in {0, 1} /\ Slots \in Nat /\ Cardinality(Clients) \in Nat
<1>1. Reserving(n) \subseteq Clients /\ Posting(n) \subseteq Clients /\ Writers(n) \subseteq Clients
  BY DEF Reserving, Posting, Writers
<1>2. /\ IsFiniteSet(Reserving(n)) /\ IsFiniteSet(Posting(n)) /\ IsFiniteSet(Writers(n))
      /\ Cardinality(Writers(n)) <= Cardinality(Clients)
  BY <1>1, ClientsAssumption, FS_Subset
<1>3. object[n] \in WideObject
  BY DEF Types
<1>4. sent[n] \in Seq(Clients) /\ served[n] \in Seq(Clients \cup {"nobody"})
  BY DEF Types
<1>5. object[n].empty \in Nat /\ object[n].full \in Nat
  BY <1>3 DEF WideObject
<1>6. Sent(n) \in Nat /\ Served(n) \in Nat
  BY <1>4 DEF Sent, Served
<1> QED BY <1>2, <1>5, <1>6, ClientsAssumption, SlotsAssumption, FS_CardinalityType DEF Taking

(* A step after which no more servers take leaves Taking or lowers it. *)
LEMMA TakingLess ==
  ASSUME NEW n,
         \A t \in Servers : server'[t] \in {"lock", "fetch"} => server[t] \in {"lock", "fetch"} /\ own'[t] = own[t]
  PROVE  Taking(n)' \in {0, 1} /\ Taking(n)' <= Taking(n)
BY DEF Taking

(* A step of a server leaves the clients where they are. *)
LEMMA SameClients ==
  ASSUME UNCHANGED clientSide, NEW n
  PROVE  Reserving(n)' = Reserving(n) /\ Posting(n)' = Posting(n) /\ Writers(n)' = Writers(n)
BY DEF clientSide, Reserving, Posting, Writers

(* Counts of an object that a step of a server does not change. *)
LEMMA CountsKept ==
  ASSUME Types, NEW n \in DOMAIN object, CountsAt(n), UNCHANGED clientSide,
         object'[n].empty = object[n].empty, object'[n].full = object[n].full,
         sent'[n] = sent[n], served'[n] = served[n],
         \A t \in Servers : server'[t] \in {"lock", "fetch"} => server[t] \in {"lock", "fetch"} /\ own'[t] = own[t]
  PROVE  CountsAt(n)'
<1>1. Pending(n)' = Pending(n) /\ Sent(n)' = Sent(n)
  BY DEF Pending, Sent, Served
<1>2. Reserving(n)' = Reserving(n) /\ Posting(n)' = Posting(n) /\ Writers(n)' = Writers(n)
  BY SameClients
<1>3. Taking(n)' \in {0, 1} /\ Taking(n)' <= Taking(n)
  BY TakingLess
<1>4. /\ object[n].full \in Nat /\ Cardinality(Posting(n)) \in Nat /\ Taking(n) \in {0, 1}
      /\ Pending(n) \in Int
  BY CountTypes DEF Pending
<1> QED BY <1>1, <1>2, <1>3, <1>4 DEF CountsAt

(* Nothing was sent in an object that nobody has written. *)
LEMMA Unwritten ==
  ASSUME Types, NEW n \in DOMAIN object, CountsAt(n), Writers(n) = {}
  PROVE  Sent(n) = 0 /\ Served(n) = 0 /\ Pending(n) = 0
<1>1. /\ Sent(n) \in Nat /\ Served(n) \in Nat /\ object[n].full \in Nat
      /\ Cardinality(Posting(n)) \in Nat /\ Taking(n) \in {0, 1}
  BY CountTypes
<1>2. Sent(n) <= 0
  BY FS_EmptySet DEF CountsAt
<1>3. 0 <= Pending(n)
  <2>1. object[n].full + Cardinality(Posting(n)) + Taking(n) <= Pending(n)
    BY DEF CountsAt
  <2>2. Pending(n) \in Int
    BY <1>1 DEF Pending
  <2> QED BY <1>1, <2>1, <2>2
<1> QED BY <1>1, <1>2, <1>3 DEF Pending

(* Counts of a new object. *)
LEMMA CountsNew ==
  ASSUME NEW n, object'[n].empty = 0, object'[n].full = 0, Sent(n)' = 0, Served(n)' = 0,
         Reserving(n)' = {}, Posting(n)' = {}, Writers(n)' = {}, Taking(n)' = 0
  PROVE  CountsAt(n)'
<1>1. Cardinality({}) = 0
  BY FS_EmptySet
<1>2. Pending(n)' = 0
  BY DEF Pending
<1> QED BY <1>1, <1>2, SlotsAssumption DEF CountsAt

(* Counts when a request is taken: it leaves the ring as its slot becomes
   free. *)
LEMMA CountsFetched ==
  ASSUME Types, NEW n \in DOMAIN object, CountsAt(n), UNCHANGED clientSide,
         object'[n].empty = object[n].empty + 1, object'[n].full = object[n].full,
         Sent(n)' = Sent(n), Served(n)' = Served(n) + 1,
         Taking(n) = 1, Taking(n)' = 0
  PROVE  CountsAt(n)'
<1>1. /\ Sent(n) \in Nat /\ Served(n) \in Nat
      /\ object[n].empty \in Nat /\ object[n].full \in Nat
      /\ Cardinality(Posting(n)) \in Nat /\ Cardinality(Reserving(n)) \in Nat /\ Slots \in Nat
  BY CountTypes
<1>2. Pending(n) \in Int /\ Pending(n)' = Pending(n) - 1
  BY <1>1 DEF Pending
<1>3. Reserving(n)' = Reserving(n) /\ Posting(n)' = Posting(n) /\ Writers(n)' = Writers(n)
  BY SameClients
<1> QED BY <1>1, <1>2, <1>3 DEF CountsAt

(* Counts, for the steps of the server. *)
LEMMA CountsServer ==
  ASSUME Types, Owners, Openers, Prepared, Counts, NEW s \in Servers,
         Start(s) \/ InitFails(s) \/ Stop(s) \/ Kill(s) \/ ServerStep(s) \/ ChildStep(s)
  PROVE  Counts'
<1> USE InitialisingPC
<1>1. UNCHANGED clientSide
  BY DEF Start, InitFails, Stop, Handle, Kill, ServerStep, ChildStep, Arm, Create, CreateObject,
     InitStep, WaitFull, WaitMutex, Fetch, TakeOldest, SigFree, FreeNull, ChildExit, ChildSigFree
<1>2. CASE Start(s) \/ InitFails(s) \/ Stop(s) \/ Kill(s) \/ Arm(s) \/ ChildExit(s) \/ (Create(s) /\ ~CreateObject(s))
  <2>1. /\ UNCHANGED <<object, sent, served>>
        /\ \A t \in Servers : server'[t] \in {"lock", "fetch"} => server[t] \in {"lock", "fetch"} /\ own'[t] = own[t]
    BY <1>2 DEF Start, InitFails, Stop, Handle, Kill, Arm, ChildExit, Create, ServerGoto, End, Die, Types, history
  <2> QED BY <1>1, <2>1, CountsKept DEF Counts
<1>3. CASE CreateObject(s)
  <2> PICK n : n = Len(object) + 1
    OBVIOUS
  <2>1. /\ DOMAIN object' = DOMAIN object \cup {n} /\ object'[n] = Zero
        /\ \A m \in DOMAIN object : object'[m] = object[m] /\ sent'[m] = sent[m] /\ served'[m] = served[m]
        /\ sent'[n] = << >> /\ served'[n] = << >>
        /\ own' = [own EXCEPT ![s] = n] /\ server' = [server EXCEPT ![s] = "truncate"]
    BY <1>3, CreateEffect
  <2>2. \A t \in Servers : server'[t] \in {"lock", "fetch"} => server[t] \in {"lock", "fetch"} /\ own'[t] = own[t]
    BY <2>1 DEF Types
  <2>3. (\A c \in Clients : at[c] # n) /\ (\A t \in Servers : own[t] # n)
    BY DEF Types
  <2>4. \A m \in DOMAIN object : CountsAt(m)'
    BY <1>1, <2>1, <2>2, CountsKept DEF Counts
  <2>5. Reserving(n)' = {} /\ Posting(n)' = {} /\ Writers(n)' = {} /\ Taking(n)' = 0
    BY <1>1, <2>2, <2>3 DEF Reserving, Posting, Writers, Taking, clientSide
  <2>6. CountsAt(n)'
    <3>1. object'[n].empty = 0 /\ object'[n].full = 0
      BY <2>1 DEF Zero
    <3>2. Sent(n)' = 0 /\ Served(n)' = 0
      BY <2>1 DEF Sent, Served
    <3> QED BY <2>5, <3>1, <3>2, CountsNew
  <2> QED BY <2>1, <2>4, <2>6 DEF Counts
<1>4. CASE InitStep(s)
  <2> PICK n : n = own[s]
    OBVIOUS
  <2> DEFINE x == object[n]
  <2>1. PICK pc \in Initialising :
          /\ server[s] = pc /\ server' = [server EXCEPT ![s] = After(pc)]
          /\ Changed(n, Stored(x, pc))
    BY <1>4, InitStepEffect
  <2>2. UNCHANGED <<own, sent, served>> /\ x \in WideObject /\ n \in DOMAIN object
    BY <1>4, <2>1, QueueTypes DEF InitStep, Changed
  <2>3. \A t \in Servers : server'[t] \in {"lock", "fetch"} => server[t] \in {"lock", "fetch"} /\ own'[t] = own[t]
    BY <2>1, <2>2 DEF Types, After
  <2>4. /\ DOMAIN object' = DOMAIN object /\ object'[n] = Stored(x, pc)
        /\ \A m \in DOMAIN object : m # n => object'[m] = object[m]
    BY <2>1 DEF Changed
  <2>5. \A m \in DOMAIN object : m # n => CountsAt(m)'
    BY <1>1, <2>2, <2>3, <2>4, CountsKept DEF Counts
  <2>6. CountsAt(n) /\ Taking(n)' \in {0, 1} /\ Taking(n)' <= Taking(n)
    BY <2>2, <2>3, TakingLess DEF Counts
  <2>7. CountsAt(n)'
    <3>1. CASE pc = "empty"
      <4>1. object'[n].empty = Slots /\ object'[n].full = x.full
        BY <2>2, <2>4, <3>1 DEF Stored, WideObject
      <4>2. Reserving(n) = {} /\ Writers(n) = {}
        BY <2>1, <3>1 DEF Prepared, Untouched, Reserving, Writers
      <4>3. Cardinality(Reserving(n)) = 0 /\ Cardinality(Writers(n)) = 0
        BY <4>2, FS_EmptySet
      <4>4. Pending(n) = 0 /\ Pending(n)' = Pending(n)
        <5>1. Pending(n)' = Pending(n)
          BY <2>2 DEF Pending, Sent, Served
        <5> QED BY <2>2, <2>6, <4>2, <5>1, Unwritten
      <4>5. Reserving(n)' = Reserving(n) /\ Posting(n)' = Posting(n) /\ Writers(n)' = Writers(n)
        BY <1>1, SameClients
      <4>6. Slots \in Nat /\ Cardinality(Posting(n)) \in Nat /\ Taking(n) \in {0, 1} /\ object[n].full \in Nat
        BY <2>2, CountTypes
      <4>7. Sent(n)' = Sent(n)
        BY <2>2 DEF Sent
      <4> QED BY <2>6, <4>1, <4>3, <4>4, <4>5, <4>6, <4>7 DEF CountsAt
    <3>2. CASE pc = "full"
      <4>1. object'[n].empty = x.empty /\ object'[n].full = 0
        BY <2>2, <2>4, <3>2 DEF Stored, WideObject
      <4>2. Pending(n)' = Pending(n)
        BY <2>2 DEF Pending, Sent, Served
      <4>3. Reserving(n)' = Reserving(n) /\ Posting(n)' = Posting(n) /\ Writers(n)' = Writers(n)
        BY <1>1, SameClients
      <4>4. /\ object[n].full \in Nat /\ Cardinality(Posting(n)) \in Nat /\ Taking(n) \in {0, 1}
            /\ Pending(n) \in Int
        BY <2>2, CountTypes DEF Pending
      <4>5. Sent(n)' = Sent(n)
        BY <2>2 DEF Sent
      <4> QED BY <2>6, <4>1, <4>2, <4>3, <4>4, <4>5 DEF CountsAt
    <3>3. CASE pc \notin {"empty", "full"}
      <4>1. object'[n].empty = x.empty /\ object'[n].full = x.full
        BY <2>2, <2>4, <3>3 DEF Stored, WideObject
      <4> QED BY <1>1, <2>2, <2>3, <2>6, <4>1, CountsKept
    <3> QED BY <3>1, <3>2, <3>3
  <2> QED BY <2>4, <2>5, <2>7 DEF Counts
<1>5. CASE WaitFull(s)
  <2> PICK n : n = own[s]
    OBVIOUS
  <2> DEFINE x == object[n]
  <2>1. Changed(n, [x EXCEPT !.full = @ - 1]) /\ x \in WideObject
    BY <1>5, WaitFullEffect, QueueTypes
  <2>2. /\ DOMAIN object' = DOMAIN object /\ n \in DOMAIN object
        /\ object'[n].empty = x.empty /\ object'[n].full = x.full - 1
        /\ \A m \in DOMAIN object : m # n => object'[m] = object[m]
    BY <2>1 DEF Changed, WideObject
  <2>3. /\ UNCHANGED <<own, sent, served>> /\ server[s] = "serve"
        /\ \A t \in Servers : t # s => server'[t] = server[t]
    BY <1>5 DEF WaitFull, ServerGoto, Types, history
  <2>4. n # 0 /\ \A t \in Servers : own[t] = n => t = s
    BY <2>3 DEF Owners, Knows
  <2>5. Taking(n) = 0 /\ Taking(n)' \in {0, 1}
    BY <2>3, <2>4 DEF Taking
  <2>6. \A m \in DOMAIN object : m # n => Taking(m)' = Taking(m)
    BY <2>3 DEF Taking
  <2>7. CountsAt(n)'
    <3>1. Pending(n)' = Pending(n) /\ Sent(n)' = Sent(n)
      BY <2>3 DEF Pending, Sent, Served
    <3>2. Reserving(n)' = Reserving(n) /\ Posting(n)' = Posting(n) /\ Writers(n)' = Writers(n)
      BY <1>1, SameClients
    <3>3. object[n].full \in Nat /\ Cardinality(Posting(n)) \in Nat /\ Pending(n) \in Int
      BY <2>2, CountTypes DEF Pending
    <3>4. CountsAt(n)
      BY <2>2 DEF Counts
    <3> QED BY <2>2, <2>5, <3>1, <3>2, <3>3, <3>4 DEF CountsAt
  <2>8. \A m \in DOMAIN object : m # n => CountsAt(m)'
    BY <1>1, <2>2, <2>3, <2>6, SameClients DEF Counts, CountsAt, Pending, Sent, Served
  <2> QED BY <2>2, <2>7, <2>8 DEF Counts
<1>6. CASE WaitMutex(s) \/ SigFree(s) \/ ChildSigFree(s)
  <2>1. /\ UNCHANGED <<own, sent, served>>
        /\ \A t \in Servers : server'[t] \in {"lock", "fetch"} => server[t] \in {"lock", "fetch"} /\ own'[t] = own[t]
    BY <1>6 DEF WaitMutex, SigFree, FreeNull, ChildSigFree, ServerGoto, End, Die, Types, history
  <2>2. CASE UNCHANGED object
    BY <1>1, <2>1, <2>2, CountsKept DEF Counts
  <2>3. CASE ~UNCHANGED object
    <3>1. Changed(own[s], [object[own[s]] EXCEPT !.mutex = 0])
      BY <1>6, <2>3, WaitMutexEffect, FreeUse
    <3>2. object[own[s]] \in WideObject
      BY <3>1, QueueTypes
    <3>3. DOMAIN object' = DOMAIN object
          /\ \A m \in DOMAIN object : object'[m].empty = object[m].empty /\ object'[m].full = object[m].full
      BY <3>1, <3>2 DEF Changed, WideObject
    <3> QED BY <1>1, <2>1, <3>3, CountsKept DEF Counts
  <2> QED BY <2>2, <2>3
<1>7. CASE Fetch(s)
  <2> PICK n : n = own[s]
    OBVIOUS
  <2> DEFINE x == object[n]
  <2>1. Changed(n, [x EXCEPT !.tail = (x.tail + 1) % Slots, !.mutex = 1, !.empty = @ + 1]) /\ x \in WideObject
    BY <1>7, FetchEffect, QueueTypes
  <2>2. /\ DOMAIN object' = DOMAIN object /\ n \in DOMAIN object
        /\ object'[n].empty = x.empty + 1 /\ object'[n].full = x.full
        /\ \A m \in DOMAIN object : m # n => object'[m] = object[m]
    BY <2>1 DEF Changed, WideObject
  <2>3. /\ UNCHANGED <<own, sent>> /\ server[s] = "fetch"
        /\ server'[s] \notin {"lock", "fetch"}
        /\ \A t \in Servers : t # s => server'[t] = server[t]
        /\ served' = [served EXCEPT ![n] = Append(@, Oldest(x))]
    BY <1>7 DEF Fetch, TakeOldest, ServerGoto, Die, Types
  <2>4. n # 0 /\ \A t \in Servers : own[t] = n => t = s
    BY <2>3 DEF Owners, Knows
  <2>5. Taking(n) = 1 /\ Taking(n)' = 0
    BY <2>3, <2>4 DEF Taking
  <2>6. \A m \in DOMAIN object : m # n => Taking(m)' = Taking(m)
    BY <2>3 DEF Taking
  <2>7. Len(served'[n]) = Len(served[n]) + 1 /\ \A m \in DOMAIN object : m # n => served'[m] = served[m]
    <3>1. n \in DOMAIN served /\ served[n] \in Seq(Clients \cup {"nobody"})
      BY <2>2 DEF Types
    <3>2. Oldest(x) \in Clients \cup {"nobody"}
      BY <2>1, OldestType
    <3>3. Len(Append(served[n], Oldest(x))) = Len(served[n]) + 1
      BY <3>1, <3>2
    <3> QED BY <2>3, <3>1, <3>3 DEF Types
  <2>8. CountsAt(n)'
    BY <1>1, <2>2, <2>3, <2>5, <2>7, CountsFetched DEF Counts, Sent, Served
  <2>9. \A m \in DOMAIN object : m # n => CountsAt(m)'
    BY <1>1, <2>2, <2>3, <2>6, <2>7, SameClients DEF Counts, CountsAt, Pending, Sent, Served
  <2> QED BY <2>2, <2>8, <2>9 DEF Counts
<1> QED
  BY <1>2, <1>3, <1>4, <1>5, <1>6, <1>7 DEF ServerStep, ChildStep

(* Counts when a client moves: what one count loses, another gains. *)
LEMMA CountsArithmetic ==
  ASSUME Types, NEW n \in DOMAIN object, CountsAt(n), UNCHANGED <<serverSide, served>>,
         NEW e \in Nat, NEW f \in Nat, NEW r \in Nat, NEW p \in Nat, NEW w \in Nat, NEW d \in Nat,
         object'[n].empty = e, object'[n].full = f,
         Cardinality(Reserving(n)') = r, Cardinality(Posting(n)') = p, Cardinality(Writers(n)') = w,
         Sent(n)' = d,
         e + d + r <= object[n].empty + Sent(n) + Cardinality(Reserving(n)),
         f + p + Sent(n) <= object[n].full + Cardinality(Posting(n)) + d,
         d + Cardinality(Writers(n)) <= Sent(n) + w
  PROVE  CountsAt(n)'
<1>1. /\ Sent(n) \in Nat /\ Served(n) \in Nat
      /\ object[n].empty \in Nat /\ object[n].full \in Nat
      /\ Cardinality(Posting(n)) \in Nat /\ Cardinality(Reserving(n)) \in Nat
      /\ Cardinality(Writers(n)) \in Nat /\ Slots \in Nat /\ Taking(n) \in {0, 1}
  BY CountTypes
<1>2. Pending(n) = Sent(n) - Served(n) /\ Pending(n)' = d - Served(n)
  BY DEF Pending, Served
<1>3. Taking(n)' = Taking(n)
  BY DEF Taking, serverSide
<1>4. e + Pending(n)' + r <= Slots
  <2>1. object[n].empty + Pending(n) + Cardinality(Reserving(n)) <= Slots
    BY DEF CountsAt
  <2> QED BY <1>1, <1>2, <2>1
<1>5. f + p + Taking(n)' <= Pending(n)'
  <2>1. object[n].full + Cardinality(Posting(n)) + Taking(n) <= Pending(n)
    BY DEF CountsAt
  <2> QED BY <1>1, <1>2, <1>3, <2>1
<1>6. d <= w
  <2>1. Sent(n) <= Cardinality(Writers(n))
    BY DEF CountsAt
  <2> QED BY <1>1, <2>1
<1> QED BY <1>4, <1>5, <1>6 DEF CountsAt

(* The same, for counts that are not named. *)
LEMMA CountsChange ==
  ASSUME Types, NEW n \in DOMAIN object, CountsAt(n), UNCHANGED <<serverSide, served>>,
         object'[n].empty \in Nat, object'[n].full \in Nat, Sent(n)' \in Nat,
         Cardinality(Reserving(n)') \in Nat, Cardinality(Posting(n)') \in Nat, Cardinality(Writers(n)') \in Nat,
         object'[n].empty + Sent(n)' + Cardinality(Reserving(n)')
           <= object[n].empty + Sent(n) + Cardinality(Reserving(n)),
         object'[n].full + Cardinality(Posting(n)') + Sent(n)
           <= object[n].full + Cardinality(Posting(n)) + Sent(n)',
         Sent(n)' + Cardinality(Writers(n)) <= Sent(n) + Cardinality(Writers(n)')
  PROVE  CountsAt(n)'
BY CountsArithmetic

(* A client that moves from one program counter to another at the queue it
   has opened. *)
LEMMA MoveCounts ==
  ASSUME Types, NEW c \in Clients, NEW pc, client' = [client EXCEPT ![c] = pc], UNCHANGED at, NEW n
  PROVE  /\ at[c] # n =>
              Reserving(n)' = Reserving(n) /\ Posting(n)' = Posting(n) /\ Writers(n)' = Writers(n)
         /\ at[c] = n =>
              /\ Reserving(n)' = IF pc \in {"reserved", "locked"} THEN Reserving(n) \cup {c} ELSE Reserving(n) \ {c}
              /\ Posting(n)' = IF pc = "written" THEN Posting(n) \cup {c} ELSE Posting(n) \ {c}
              /\ Writers(n)' = IF pc \in {"written", "sent"} THEN Writers(n) \cup {c} ELSE Writers(n) \ {c}
<1>1. \A d \in Clients : client'[d] = IF d = c THEN pc ELSE client[d]
  BY DEF Types
<1> QED BY <1>1 DEF Reserving, Posting, Writers

(* Counts, for the steps of a client. *)
LEMMA CountsClient ==
  ASSUME Types, Openers, Counts, NEW c \in Clients, Open(c) \/ Connect(c)
  PROVE  Counts'
<1>1. UNCHANGED <<serverSide, served>>
  BY DEF Open, Connect, MapQueue, WaitEmpty, Lock, Timeout, WriteRequest, PostFull, history
<1>2. DOMAIN object' = DOMAIN object
  <2>1. CASE WaitEmpty(c)
    BY <2>1, WaitEmptyEffect DEF Changed
  <2>2. CASE Lock(c)
    BY <2>2, LockEffect DEF Changed
  <2>3. CASE WriteRequest(c)
    BY <2>3, WriteEffect DEF Changed
  <2>4. CASE PostFull(c)
    BY <2>4, PostFullEffect DEF Changed
  <2> QED BY <2>1, <2>2, <2>3, <2>4 DEF Open, Connect, MapQueue, Timeout
<1> SUFFICES ASSUME NEW n \in DOMAIN object
             PROVE  CountsAt(n)'
  BY <1>2 DEF Counts
<1>3. CountsAt(n) /\ Reserving(n) \in SUBSET Clients /\ Posting(n) \in SUBSET Clients /\ Writers(n) \in SUBSET Clients
  BY DEF Counts, Reserving, Posting, Writers
<1>4. /\ Cardinality(Reserving(n)) \in Nat /\ Cardinality(Posting(n)) \in Nat /\ Cardinality(Writers(n)) \in Nat
      /\ object[n].empty \in Nat /\ object[n].full \in Nat /\ Sent(n) \in Nat
  BY CountTypes
<1>5. ASSUME Reserving(n)' = Reserving(n), Posting(n)' = Posting(n), Writers(n)' = Writers(n),
             object'[n].empty = object[n].empty, object'[n].full = object[n].full, sent'[n] = sent[n]
      PROVE  CountsAt(n)'
  <2>1. Sent(n)' = Sent(n)
    BY <1>5 DEF Sent
  <2> QED BY <1>1, <1>3, <1>4, <1>5, <2>1, CountsChange
<1>6. CASE Open(c)
  <2>1. client[c] = "idle" /\ client'[c] \in {"opened", "refused"}
        /\ (\A d \in Clients \ {c} : client'[d] = client[d] /\ at'[d] = at[d])
        /\ UNCHANGED <<object, sent>>
    BY <1>6 DEF Open, ClientGoto, Types
  <2>2. Reserving(n)' = Reserving(n) /\ Posting(n)' = Posting(n) /\ Writers(n)' = Writers(n)
    BY <2>1 DEF Reserving, Posting, Writers
  <2> QED BY <1>5, <2>1, <2>2
<1>7. CASE MapQueue(c)
  <2>1. /\ client[c] = "opened" /\ UNCHANGED <<at, object, sent>>
        /\ \E pc \in {"mapped", "crashed"} : client' = [client EXCEPT ![c] = pc]
    BY <1>7 DEF MapQueue, ClientGoto, history
  <2>2. Reserving(n)' = Reserving(n) /\ Posting(n)' = Posting(n) /\ Writers(n)' = Writers(n)
    BY <2>1, MoveCounts DEF Reserving, Posting, Writers
  <2> QED BY <1>5, <2>1, <2>2
<1>8. CASE Timeout(c) \/ (WriteRequest(c) /\ Faulty(c))
  <2>1. /\ client[c] \in {"mapped", "reserved", "locked"} /\ UNCHANGED <<at, object, sent>>
        /\ \E pc \in {"gave_up", "crashed"} : client' = [client EXCEPT ![c] = pc]
    BY <1>8 DEF Timeout, WriteRequest, ClientGoto, history
  <2>2. Posting(n)' = Posting(n) /\ Writers(n)' = Writers(n)
    BY <2>1, MoveCounts DEF Posting, Writers
  <2>3. CASE c \notin Reserving(n)
    <3>1. Reserving(n)' = Reserving(n) \/ Reserving(n)' = Reserving(n) \ {c}
      BY <2>1, MoveCounts
    <3>2. Reserving(n) \ {c} = Reserving(n)
      BY <2>3
    <3> QED BY <1>5, <2>1, <2>2, <3>1, <3>2
  <2>4. CASE c \in Reserving(n)
    <3>1. at[c] = n
      BY <2>4 DEF Reserving
    <3>2. Reserving(n)' = Reserving(n) \ {c}
      BY <2>1, <3>1, MoveCounts
    <3>3. Cardinality(Reserving(n)') = Cardinality(Reserving(n)) - 1
      BY <2>4, <3>2, <1>3, CountRemove
    <3>4. Cardinality(Reserving(n)') \in Nat
      BY <3>2, <1>3, ClientsAssumption, FS_Subset, FS_CardinalityType
    <3>5. object'[n].empty = object[n].empty /\ object'[n].full = object[n].full /\ Sent(n)' = Sent(n)
      BY <2>1 DEF Sent
    <3> QED BY <1>1, <1>3, <1>4, <2>2, <3>3, <3>4, <3>5, CountsChange
  <2> QED BY <2>3, <2>4
<1>9. CASE WaitEmpty(c)
  <2>1. client[c] = "mapped" /\ client' = [client EXCEPT ![c] = "reserved"] /\ UNCHANGED <<at, sent>>
    BY <1>9 DEF WaitEmpty, ClientGoto, history
  <2>2. Changed(at[c], [object[at[c]] EXCEPT !.empty = @ - 1]) /\ object[at[c]] \in WideObject
    BY <1>9, WaitEmptyEffect, QueueTypes
  <2>3. Posting(n)' = Posting(n) /\ Writers(n)' = Writers(n) /\ Sent(n)' = Sent(n)
    BY <2>1, MoveCounts DEF Posting, Writers, Sent
  <2>4. CASE at[c] # n
    <3>1. object'[n] = object[n]
      BY <2>2, <2>4 DEF Changed
    <3> QED BY <1>5, <2>1, <2>3, <2>4, <3>1, MoveCounts
  <2>5. CASE at[c] = n
    <3>1. c \notin Reserving(n)
      BY <2>1 DEF Reserving
    <3>2. Reserving(n)' = Reserving(n) \cup {c}
      BY <2>1, <2>5, MoveCounts
    <3>3. Cardinality(Reserving(n)') = Cardinality(Reserving(n)) + 1
      BY <3>1, <3>2, <1>3, CountAdd
    <3>4. object'[n] = [object[n] EXCEPT !.empty = @ - 1] /\ object[n] \in WideObject
      BY <2>2, <2>5 DEF Changed
    <3>5. object'[n].empty = object[n].empty - 1 /\ object'[n].full = object[n].full
      BY <3>4 DEF WideObject
    <3>6. object[n].empty > 0
      BY <1>9, <2>5 DEF WaitEmpty
    <3> QED BY <1>1, <1>3, <1>4, <2>3, <3>3, <3>5, <3>6, CountsChange
  <2> QED BY <2>4, <2>5
<1>10. CASE Lock(c)
  <2>1. client[c] = "reserved" /\ client' = [client EXCEPT ![c] = "locked"] /\ UNCHANGED <<at, sent>>
    BY <1>10 DEF Lock, ClientGoto, history
  <2>2. Changed(at[c], [object[at[c]] EXCEPT !.mutex = 0]) /\ object[at[c]] \in WideObject
    BY <1>10, LockEffect, QueueTypes
  <2>3. Reserving(n)' = Reserving(n) /\ Posting(n)' = Posting(n) /\ Writers(n)' = Writers(n)
    BY <2>1, MoveCounts DEF Reserving, Posting, Writers
  <2>4. object'[n].empty = object[n].empty /\ object'[n].full = object[n].full
    BY <2>2 DEF Changed, WideObject
  <2>5. sent'[n] = sent[n]
    BY <2>1
  <2> QED BY <1>5, <2>3, <2>4, <2>5
<1>11. CASE WriteRequest(c) /\ ~Faulty(c)
  <2>1. /\ client[c] = "locked" /\ client' = [client EXCEPT ![c] = "written"] /\ UNCHANGED at
        /\ Changed(at[c], Written(object[at[c]], c)) /\ sent' = [sent EXCEPT ![at[c]] = Append(@, c)]
    <3>1. client[c] = "locked" /\ UNCHANGED at
      BY <1>11 DEF WriteRequest
    <3> QED BY <3>1, <1>11, WriteEffect
  <2>2. object[at[c]] \in WideObject
    BY <2>1, QueueTypes
  <2>3. CASE at[c] # n
    <3>1. object'[n] = object[n] /\ sent'[n] = sent[n]
      BY <2>1, <2>3 DEF Changed, Types
    <3> QED BY <1>5, <2>1, <2>3, <3>1, MoveCounts
  <2>4. CASE at[c] = n
    <3>1. c \in Reserving(n) /\ c \notin Posting(n) /\ c \notin Writers(n)
      BY <2>1, <2>4 DEF Reserving, Posting, Writers
    <3>2. /\ Reserving(n)' = Reserving(n) \ {c} /\ Posting(n)' = Posting(n) \cup {c}
          /\ Writers(n)' = Writers(n) \cup {c}
      BY <2>1, <2>4, MoveCounts
    <3>3. /\ Cardinality(Reserving(n)') = Cardinality(Reserving(n)) - 1
          /\ Cardinality(Posting(n)') = Cardinality(Posting(n)) + 1
          /\ Cardinality(Writers(n)') = Cardinality(Writers(n)) + 1
      BY <3>1, <3>2, <1>3, CountAdd, CountRemove
    <3>4. Cardinality(Reserving(n)') \in Nat
      BY <3>2, <1>3, ClientsAssumption, FS_Subset, FS_CardinalityType
    <3>5. object'[n] = Written(object[n], c) /\ object[n] \in WideObject
      BY <2>1, <2>2, <2>4 DEF Changed
    <3>6. object'[n].empty = object[n].empty /\ object'[n].full = object[n].full
      BY <3>5 DEF Written, WideObject
    <3>7. Sent(n)' = Sent(n) + 1
      <4>1. n \in DOMAIN sent /\ sent[n] \in Seq(Clients)
        BY DEF Types
      <4>2. Len(Append(sent[n], c)) = Len(sent[n]) + 1
        BY <4>1
      <4>3. sent'[n] = Append(sent[n], c)
        BY <2>1, <2>4, <4>1
      <4> QED BY <4>2, <4>3 DEF Sent
    <3> QED BY <1>1, <1>3, <1>4, <3>3, <3>4, <3>6, <3>7, CountsChange
  <2> QED BY <2>3, <2>4
<1>12. CASE PostFull(c)
  <2>1. client[c] = "written" /\ client' = [client EXCEPT ![c] = "sent"] /\ UNCHANGED <<at, sent>>
    BY <1>12 DEF PostFull, ClientGoto, history
  <2>2. Changed(at[c], [object[at[c]] EXCEPT !.full = @ + 1]) /\ object[at[c]] \in WideObject
    BY <1>12, PostFullEffect, QueueTypes
  <2>3. Reserving(n)' = Reserving(n) /\ Writers(n)' = Writers(n) /\ Sent(n)' = Sent(n)
    BY <2>1, MoveCounts DEF Reserving, Writers, Sent
  <2>4. CASE at[c] # n
    <3>1. object'[n] = object[n]
      BY <2>2, <2>4 DEF Changed
    <3> QED BY <1>5, <2>1, <2>3, <2>4, <3>1, MoveCounts
  <2>5. CASE at[c] = n
    <3>1. c \in Posting(n)
      BY <2>1, <2>5 DEF Posting
    <3>2. Posting(n)' = Posting(n) \ {c}
      <4>1. Posting(n)' = IF "sent" = "written" THEN Posting(n) \cup {c} ELSE Posting(n) \ {c}
        BY <2>1, <2>5, MoveCounts, Zenon
      <4> QED BY <4>1
    <3>3. Cardinality(Posting(n)') = Cardinality(Posting(n)) - 1
      BY <3>1, <3>2, <1>3, CountRemove
    <3>4. Cardinality(Posting(n)') \in Nat
      BY <3>2, <1>3, ClientsAssumption, FS_Subset, FS_CardinalityType
    <3>5. object'[n] = [object[n] EXCEPT !.full = @ + 1] /\ object[n] \in WideObject
      BY <2>2, <2>5 DEF Changed
    <3>6. object'[n].empty = object[n].empty /\ object'[n].full = object[n].full + 1
      BY <3>5 DEF WideObject
    <3> QED BY <1>1, <1>3, <1>4, <2>3, <3>3, <3>4, <3>6, CountsChange
  <2> QED BY <2>4, <2>5
<1> QED
  BY <1>6, <1>7, <1>8, <1>9, <1>10, <1>11, <1>12 DEF Connect

(* Every step keeps Counts. *)
LEMMA CountsStep ==
  ASSUME Types, Owners, Openers, Prepared, Counts, [Next]_vars
  PROVE  Counts'
<1>1. CASE UNCHANGED vars
  BY <1>1 DEF vars, serverSide, clientSide, history, Counts, CountsAt, Pending, Sent, Served, Reserving, Posting, Writers, Taking
<1> QED BY <1>1, CountsServer, CountsClient DEF Next

-----------------------------------------------------------------------------
(* The slot of a request is one of the ring. *)
LEMMA PositionType ==
  ASSUME NEW k \in Nat \ {0}
  PROVE  PositionOf(k) \in 1 .. Slots /\ PositionOf(k) = 1 + ((k - 1) % Slots)
<1>1. k - 1 \in Nat
  OBVIOUS
<1>2. (k - 1) % Slots \in 0 .. Slots - 1
  BY <1>1, Division
<1> HIDE DEF PositionOf
<1> QED BY <1>2, SlotsAssumption DEF PositionOf

(* Requests less than Slots apart are in different slots. *)
LEMMA PositionsDiffer ==
  ASSUME NEW j \in Nat \ {0}, NEW k \in Nat \ {0}, j < k, k < j + Slots
  PROVE  PositionOf(j) # PositionOf(k)
<1>1. j - 1 \in Nat /\ k - 1 \in Nat /\ j - 1 < k - 1 /\ k - 1 < (j - 1) + Slots
  BY SlotsAssumption
<1>2. (j - 1) % Slots # (k - 1) % Slots
  BY <1>1, RemaindersDiffer
<1>3. (j - 1) % Slots \in 0 .. Slots - 1 /\ (k - 1) % Slots \in 0 .. Slots - 1
  BY <1>1, Division
<1> QED BY <1>2, <1>3, SlotsAssumption DEF PositionOf

(* A ring of which neither the object nor the histories change. *)
LEMMA RingKept ==
  ASSUME NEW n, RingAt(n), sent'[n] = sent[n], served'[n] = served[n],
         object'[n].head = object[n].head, object'[n].tail = object[n].tail,
         object'[n].ring = object[n].ring
  PROVE  RingAt(n)'
BY DEF RingAt

(* The ring of a new object, and one whose counters were set to zero. *)
LEMMA RingEmpty ==
  ASSUME NEW n, object'[n].head = 0, object'[n].tail = 0, Len(sent'[n]) = 0, Len(served'[n]) = 0
  PROVE  RingAt(n)'
<1>1. 0 % Slots = 0
  <2>1. 0 \in 0 .. Slots - 1 /\ 0 = Slots * 0 + 0
    BY SlotsAssumption
  <2> QED BY <2>1, Remainder
<1> QED BY <1>1 DEF RingAt

(* The request at the tail is the oldest that was not served. *)
LEMMA RingFetched ==
  ASSUME Types, NEW n \in DOMAIN object, RingAt(n), Served(n) < Sent(n),
         object'[n].head = object[n].head, object'[n].ring = object[n].ring,
         object'[n].tail = (object[n].tail + 1) % Slots, sent'[n] = sent[n],
         served'[n] = Append(served[n], Oldest(object[n]))
  PROVE  RingAt(n)'
<1> DEFINE old == served[n]
           x == object[n]
           k == Len(old) + 1
<1>1. old \in Seq(Clients \cup {"nobody"}) /\ Len(old) \in Nat /\ Len(sent[n]) \in Nat /\ x \in WideObject
  <2>1. n \in DOMAIN served /\ n \in DOMAIN sent
    BY DEF Types
  <2>2. old \in Seq(Clients \cup {"nobody"}) /\ sent[n] \in Seq(Clients) /\ x \in WideObject
    BY <2>1 DEF Types
  <2> QED BY <2>2
<1>2. k \in Nat \ {0} /\ k - 1 = Len(old) /\ k \in Len(old) + 1 .. Len(sent[n])
  BY <1>1 DEF Sent, Served
<1>3. PositionOf(k) \in DOMAIN x.ring /\ x.ring[PositionOf(k)] = sent[n][k]
  BY <1>2 DEF RingAt
<1>4. PositionOf(k) = x.tail + 1
  <2>1. PositionOf(k) = 1 + (Len(old) % Slots)
    BY <1>2, PositionType
  <2>2. Len(old) % Slots \in 0 .. Slots - 1
    <3>1. PICK y \in Nat : y = Len(old)
      BY <1>1
    <3>2. y % Slots \in 0 .. Slots - 1
      BY Division
    <3> QED BY <3>1, <3>2
  <2>3. x.tail = Len(old) % Slots
    BY DEF RingAt
  <2>4. PICK d \in 0 .. Slots - 1 : d = Len(old) % Slots
    BY <2>2
  <2>5. PositionOf(k) = 1 + d /\ x.tail = d
    BY <2>1, <2>3, <2>4
  <2>6. 1 + d = d + 1
    BY SlotsAssumption
  <2> QED BY <2>5, <2>6
<1>5. Oldest(x) = sent[n][k] /\ Oldest(x) \in Clients \cup {"nobody"}
  BY <1>1, <1>3, <1>4, OldestType DEF Oldest
<1>6. served'[n] \in Seq(Clients \cup {"nobody"}) /\ Len(served'[n]) = k
      /\ served'[n][k] = sent[n][k] /\ \A j \in 1 .. Len(old) : served'[n][j] = old[j]
  BY <1>1, <1>5
<1>7. object'[n].tail = k % Slots
  BY <1>1, RemainderNext DEF RingAt
<1>8. \A j \in 1 .. Len(old) : old[j] = sent[n][j]
  BY DEF RingAt
<1>9. \A j \in Len(old) + 1 .. Len(sent[n]) :
        PositionOf(j) \in DOMAIN x.ring /\ x.ring[PositionOf(j)] = sent[n][j]
  BY DEF RingAt
<1>10. object[n].head = Len(sent[n]) % Slots
  BY DEF RingAt
<1>11. \A j \in k + 1 .. Len(sent[n]) :
        PositionOf(j) \in DOMAIN object'[n].ring /\ object'[n].ring[PositionOf(j)] = sent'[n][j]
  BY <1>1, <1>9
<1>12. \A j \in 1 .. k : served'[n][j] = sent'[n][j]
  BY <1>1, <1>6, <1>8
<1> HIDE DEF k
<1> QED BY <1>6, <1>7, <1>10, <1>11, <1>12 DEF RingAt

(* The slot at the head holds none of the requests that were not served, so
   nothing is overwritten. *)
LEMMA RingWritten ==
  ASSUME Types, NEW n \in DOMAIN object, NEW c \in Clients, RingAt(n),
         Served(n) <= Sent(n), Sent(n) < Served(n) + Slots,
         object'[n] = Written(object[n], c), sent'[n] = Append(sent[n], c), served'[n] = served[n]
  PROVE  RingAt(n)'
<1> DEFINE old == sent[n]
           x == object[n]
           k == Len(old) + 1
<1>1. old \in Seq(Clients) /\ Len(old) \in Nat /\ Len(served[n]) \in Nat /\ x \in WideObject
  BY DEF Types
<1>2. k \in Nat \ {0} /\ k - 1 = Len(old)
  BY <1>1
<1>3. /\ object'[n].head = (x.head + 1) % Slots /\ object'[n].tail = x.tail
      /\ object'[n].ring = Filled(x, c)
  BY <1>1 DEF Written, WideObject
<1>4. PositionOf(k) = x.head + 1
  <2>1. PositionOf(k) = 1 + (Len(old) % Slots)
    BY <1>2, PositionType
  <2>2. Len(old) % Slots \in 0 .. Slots - 1
    BY <1>1, Division
  <2> QED BY <2>1, <2>2, SlotsAssumption DEF RingAt
<1>5. Len(sent'[n]) = k /\ sent'[n][k] = c /\ \A j \in 1 .. Len(old) : sent'[n][j] = old[j]
  BY <1>1
<1>6. object'[n].head = k % Slots
  BY <1>1, <1>3, RemainderNext DEF RingAt
<1>7. ASSUME NEW j \in Len(served[n]) + 1 .. k
      PROVE  PositionOf(j) \in DOMAIN object'[n].ring /\ object'[n].ring[PositionOf(j)] = sent'[n][j]
  <2>0. j \in Nat \ {0}
    BY <1>1
  <2>1. j \in Nat \ {0} /\ PositionOf(j) \in 1 .. Slots
    BY <2>0, PositionType
  <2>2. CASE j = k
    BY <1>3, <1>4, <1>5, <2>1, <2>2 DEF Filled
  <2>3. CASE j # k
    <3>1. j \in Len(served[n]) + 1 .. Len(old) /\ j \in 1 .. Len(old) /\ j < k /\ k < j + Slots
      BY <1>1, <2>3, SlotsAssumption DEF Sent, Served
    <3>2. PositionOf(j) # x.head + 1
      BY <1>2, <1>4, <2>1, <3>1, PositionsDiffer
    <3>3. PositionOf(j) \in DOMAIN x.ring /\ x.ring[PositionOf(j)] = old[j]
      BY <3>1 DEF RingAt
    <3> QED BY <1>3, <1>5, <2>1, <3>1, <3>2, <3>3 DEF Filled
  <2> QED BY <2>2, <2>3
<1>8. \A j \in 1 .. Len(served[n]) : served'[n][j] = sent'[n][j]
  <2>1. \A j \in 1 .. Len(served[n]) : j \in 1 .. Len(old) /\ served[n][j] = old[j]
    BY <1>1 DEF RingAt, Sent, Served
  <2> QED BY <2>1, <1>5
<1>9. object'[n].tail = Len(served[n]) % Slots
  BY <1>3 DEF RingAt
<1> HIDE DEF k
<1> QED BY <1>5, <1>6, <1>7, <1>8, <1>9 DEF RingAt

(* Rings, for the steps of the server. *)
LEMMA RingsServer ==
  ASSUME Types, Owners, Openers, Prepared, Counts, Rings, NEW s \in Servers,
         Start(s) \/ InitFails(s) \/ Stop(s) \/ Kill(s) \/ ServerStep(s) \/ ChildStep(s)
  PROVE  Rings'
<1> USE InitialisingPC
<1>1. UNCHANGED clientSide /\ early' = early
  BY DEF Start, InitFails, Stop, Handle, Kill, ServerStep, ChildStep, Arm, Create, CreateObject,
     InitStep, WaitFull, WaitMutex, Fetch, TakeOldest, SigFree, FreeNull, ChildExit, ChildSigFree, history
<1>2. \A m : Early(m)' <=> Early(m)
  BY <1>1 DEF Early, clientSide
<1>3. CASE CreateObject(s)
  <2> PICK n : n = Len(object) + 1
    OBVIOUS
  <2>1. /\ DOMAIN object' = DOMAIN object \cup {n} /\ object'[n] = Zero
        /\ \A m \in DOMAIN object : object'[m] = object[m] /\ sent'[m] = sent[m] /\ served'[m] = served[m]
        /\ sent'[n] = << >> /\ served'[n] = << >>
    BY <1>3, CreateEffect
  <2>2. RingAt(n)'
    BY <2>1, RingEmpty DEF Zero
  <2>3. \A m \in DOMAIN object : ~Early(m) => RingAt(m)'
    BY <2>1, RingKept DEF Rings
  <2> QED BY <1>2, <2>1, <2>2, <2>3 DEF Rings
<1>4. CASE InitStep(s)
  <2> PICK n : n = own[s]
    OBVIOUS
  <2> DEFINE x == object[n]
  <2>1. PICK pc \in Initialising : server[s] = pc /\ Changed(n, Stored(x, pc))
    BY <1>4, InitStepEffect
  <2>2. UNCHANGED <<sent, served>> /\ x \in WideObject /\ n \in DOMAIN object /\ n \notin ready /\ n # 0
    BY <1>4, <2>1, QueueTypes DEF InitStep, Changed, Owners, Serving
  <2>3. /\ DOMAIN object' = DOMAIN object /\ object'[n] = Stored(x, pc)
        /\ \A m \in DOMAIN object : m # n => object'[m] = object[m]
    BY <2>1 DEF Changed
  <2>4. \A m \in DOMAIN object : m # n /\ ~Early(m) => RingAt(m)'
    BY <2>2, <2>3, RingKept DEF Rings
  <2>5. ASSUME ~Early(n)
        PROVE  RingAt(n)'
    <3>1. CASE pc = "counters"
      <4>1. Writers(n) = {}
        BY <2>2, <2>5 DEF Writers, Early, Openers
      <4>2. Len(sent[n]) = 0 /\ Len(served[n]) = 0
        BY <2>2, <4>1, Unwritten DEF Counts, Sent, Served
      <4>3. object'[n] = [x EXCEPT !.head = 0, !.tail = 0]
        BY <2>3, <3>1 DEF Stored
      <4>4. object'[n].head = 0 /\ object'[n].tail = 0
        BY <2>2, <4>3 DEF WideObject
      <4> QED BY <2>2, <4>2, <4>4, RingEmpty
    <3>2. CASE pc # "counters"
      <4>1. object'[n].head = x.head /\ object'[n].tail = x.tail /\ object'[n].ring = x.ring
        BY <2>2, <2>3, <3>2 DEF Stored, WideObject
      <4> QED BY <2>2, <2>5, <4>1, RingKept DEF Rings
    <3> QED BY <3>1, <3>2
  <2> QED BY <1>2, <2>3, <2>4, <2>5 DEF Rings
<1>5. CASE Fetch(s)
  <2> PICK n : n = own[s]
    OBVIOUS
  <2> DEFINE x == object[n]
  <2>1. Changed(n, [x EXCEPT !.tail = (x.tail + 1) % Slots, !.mutex = 1, !.empty = @ + 1]) /\ x \in WideObject
    BY <1>5, FetchEffect, QueueTypes
  <2>2. /\ DOMAIN object' = DOMAIN object /\ n \in DOMAIN object
        /\ object'[n].head = x.head /\ object'[n].ring = x.ring /\ object'[n].tail = (x.tail + 1) % Slots
        /\ \A m \in DOMAIN object : m # n => object'[m] = object[m]
    BY <2>1 DEF Changed, WideObject
  <2>3. UNCHANGED sent /\ server[s] = "fetch" /\ served' = [served EXCEPT ![n] = Append(@, Oldest(x))]
    BY <1>5 DEF Fetch, TakeOldest
  <2>4. n \in DOMAIN served /\ served \in Seq(Seq(Clients \cup {"nobody"}))
    BY <2>2 DEF Types
  <2>5. served'[n] = Append(served[n], Oldest(x)) /\ \A m \in DOMAIN object : m # n => served'[m] = served[m]
    BY <2>3, <2>4 DEF Types
  <2>6. Taking(n) = 1
    BY <2>3 DEF Taking
  <2>7. Served(n) < Sent(n)
    <3>1. object[n].full + Cardinality(Posting(n)) + Taking(n) <= Pending(n)
      BY <2>2 DEF Counts, CountsAt
    <3>2. object[n].full \in Nat /\ Cardinality(Posting(n)) \in Nat /\ Sent(n) \in Nat /\ Served(n) \in Nat
      BY <2>2, CountTypes
    <3> QED BY <2>6, <3>1, <3>2 DEF Pending
  <2>8. ~Early(n) => RingAt(n)'
    BY <2>2, <2>3, <2>5, <2>7, RingFetched DEF Rings
  <2>9. \A m \in DOMAIN object : m # n /\ ~Early(m) => RingAt(m)'
    BY <2>2, <2>3, <2>5, RingKept DEF Rings
  <2> QED BY <1>2, <2>2, <2>8, <2>9 DEF Rings
<1>6. CASE ~CreateObject(s) /\ ~InitStep(s) /\ ~Fetch(s)
  <2>1. UNCHANGED <<sent, served>>
    BY <1>6 DEF Start, InitFails, Stop, Handle, Kill, ServerStep, ChildStep, Arm, Create,
       WaitFull, WaitMutex, SigFree, FreeNull, ChildExit, ChildSigFree, history
  <2>2. /\ DOMAIN object' = DOMAIN object
        /\ \A m \in DOMAIN object : /\ object'[m].head = object[m].head /\ object'[m].tail = object[m].tail
                                    /\ object'[m].ring = object[m].ring
    <3>1. CASE WaitFull(s)
      <4>1. Changed(own[s], [object[own[s]] EXCEPT !.full = @ - 1]) /\ object[own[s]] \in WideObject
        BY <3>1, WaitFullEffect, QueueTypes
      <4> QED BY <4>1 DEF Changed, WideObject
    <3>2. CASE Changed(own[s], [object[own[s]] EXCEPT !.mutex = 0])
      <4>1. object[own[s]] \in WideObject
        BY <3>2, QueueTypes
      <4> QED BY <3>2, <4>1 DEF Changed, WideObject
    <3>3. CASE WaitMutex(s) \/ SigFree(s) \/ ChildSigFree(s)
      BY <3>2, <3>3, WaitMutexEffect, FreeUse
    <3> QED
      BY <1>6, <3>1, <3>3 DEF Start, InitFails, Stop, Handle, Kill, ServerStep, ChildStep, Arm, Create, ChildExit
  <2> QED BY <1>2, <2>1, <2>2, RingKept DEF Rings
<1> QED BY <1>3, <1>4, <1>5, <1>6

(* Rings, for the steps of a client. *)
LEMMA RingsClient ==
  ASSUME Types, Openers, Counts, Rings, NEW c \in Clients, Open(c) \/ Connect(c)
  PROVE  Rings'
<1>1. served' = served
  BY DEF Open, Connect, MapQueue, WaitEmpty, Lock, Timeout, WriteRequest, PostFull, history
<1>2. \A n \in DOMAIN object : Early(n) => Early(n)'
  <2>1. early \subseteq early' /\ \A d \in Clients : at[d] # 0 => at'[d] = at[d]
    <3>1. early \subseteq early'
      BY DEF Open, Connect, MapQueue, WaitEmpty, Lock, Timeout, WriteRequest, PostFull, history
    <3>2. at' = at \/ (client[c] = "idle" /\ \E n : at' = [at EXCEPT ![c] = n])
      <4>1. CASE Open(c)
        BY <4>1 DEF Open
      <4>2. CASE Connect(c)
        BY <4>2 DEF Connect, MapQueue, WaitEmpty, Lock, Timeout, WriteRequest, PostFull
      <4> QED BY <4>1, <4>2
    <3>3. client[c] = "idle" => at[c] = 0
      BY DEF Openers, PastOpen
    <3> QED BY <3>1, <3>2, <3>3 DEF Types
  <2>2. early \subseteq Clients /\ \A n \in DOMAIN object : n # 0
    BY DEF Types
  <2> QED BY <2>1, <2>2 DEF Early
<1>3. CASE WriteRequest(c) /\ ~Faulty(c)
  <2> PICK n : n = at[c]
    OBVIOUS
  <2>1. /\ client[c] = "locked"
        /\ Changed(n, Written(object[n], c)) /\ sent' = [sent EXCEPT ![n] = Append(@, c)]
    <3>1. client[c] = "locked"
      BY <1>3 DEF WriteRequest
    <3> QED BY <3>1, <1>3, WriteEffect
  <2>2. /\ DOMAIN object' = DOMAIN object /\ n \in DOMAIN object /\ object'[n] = Written(object[n], c)
        /\ \A m \in DOMAIN object : m # n => object'[m] = object[m]
    BY <2>1 DEF Changed
  <2>3. n \in DOMAIN sent
    BY <2>2 DEF Types
  <2>4. sent'[n] = Append(sent[n], c) /\ \A m \in DOMAIN object : m # n => sent'[m] = sent[m]
    BY <2>1, <2>3 DEF Types
  <2>5. Served(n) <= Sent(n) /\ Sent(n) < Served(n) + Slots
    <3>1. c \in Reserving(n) /\ Reserving(n) \subseteq Clients
      BY <2>1 DEF Reserving
    <3>2. Cardinality(Reserving(n) \ {c}) = Cardinality(Reserving(n)) - 1 /\ Cardinality(Reserving(n) \ {c}) \in Nat
      BY <3>1, CountRemove, ClientsAssumption, FS_Subset, FS_CardinalityType
    <3>3. /\ object[n].empty + Pending(n) + Cardinality(Reserving(n)) <= Slots
          /\ object[n].full + Cardinality(Posting(n)) + Taking(n) <= Pending(n)
      BY <2>2 DEF Counts, CountsAt
    <3>4. /\ object[n].full \in Nat /\ Cardinality(Posting(n)) \in Nat /\ Sent(n) \in Nat /\ Served(n) \in Nat
          /\ Taking(n) \in {0, 1} /\ object[n].empty \in Nat /\ Cardinality(Reserving(n)) \in Nat /\ Slots \in Nat
      BY <2>2, CountTypes
    <3>5. Pending(n) = Sent(n) - Served(n)
      BY DEF Pending
    <3>6. Cardinality(Reserving(n)) >= 1
      BY <3>2, <3>4
    <3> QED BY <3>3, <3>4, <3>5, <3>6
  <2>6. ~Early(n) => RingAt(n)'
    BY <1>1, <2>2, <2>4, <2>5, RingWritten DEF Rings
  <2>7. \A m \in DOMAIN object : m # n /\ ~Early(m) => RingAt(m)'
    BY <1>1, <2>2, <2>4, RingKept DEF Rings
  <2> QED BY <1>2, <2>2, <2>6, <2>7 DEF Rings
<1>4. CASE ~(WriteRequest(c) /\ ~Faulty(c))
  <2>1. UNCHANGED sent
    BY <1>4 DEF Open, Connect, MapQueue, WaitEmpty, Lock, Timeout, WriteRequest, PostFull, history
  <2>2. /\ DOMAIN object' = DOMAIN object
        /\ \A m \in DOMAIN object : /\ object'[m].head = object[m].head /\ object'[m].tail = object[m].tail
                                    /\ object'[m].ring = object[m].ring
    <3>1. CASE WaitEmpty(c)
      <4>1. Changed(at[c], [object[at[c]] EXCEPT !.empty = @ - 1]) /\ object[at[c]] \in WideObject
        BY <3>1, WaitEmptyEffect, QueueTypes
      <4> QED BY <4>1 DEF Changed, WideObject
    <3>2. CASE Lock(c)
      <4>1. Changed(at[c], [object[at[c]] EXCEPT !.mutex = 0]) /\ object[at[c]] \in WideObject
        BY <3>2, LockEffect, QueueTypes
      <4> QED BY <4>1 DEF Changed, WideObject
    <3>3. CASE PostFull(c)
      <4>1. Changed(at[c], [object[at[c]] EXCEPT !.full = @ + 1]) /\ object[at[c]] \in WideObject
        BY <3>3, PostFullEffect, QueueTypes
      <4> QED BY <4>1 DEF Changed, WideObject
    <3> QED
      BY <1>4, <3>1, <3>2, <3>3 DEF Open, Connect, MapQueue, Timeout, WriteRequest
  <2> QED BY <1>1, <1>2, <2>1, <2>2, RingKept DEF Rings
<1> QED BY <1>3, <1>4

(* Every step keeps Rings. *)
LEMMA RingsStep ==
  ASSUME Types, Owners, Openers, Prepared, Counts, Rings, [Next]_vars
  PROVE  Rings'
<1>1. CASE UNCHANGED vars
  BY <1>1 DEF vars, clientSide, history, Rings, RingAt, Early
<1> QED BY <1>1, RingsServer, RingsClient DEF Next

-----------------------------------------------------------------------------
(* Every step keeps Types. *)
LEMMA TypesStep ==
  ASSUME Types, Owners, Openers, Prepared, [Next]_vars
  PROVE  Types'
<1>1. CASE UNCHANGED vars
  BY <1>1 DEF vars, serverSide, clientSide, history, Types
<1> QED BY <1>1, TypesServer, TypesQueue, TypesClient DEF Next, ServerStep, ChildStep

(* The invariant holds at the start. *)
LEMMA LInvInit == Init => LInv
<1> SUFFICES ASSUME Init
             PROVE  LInv
  OBVIOUS
<1>1. object = << >> /\ DOMAIN object = {} /\ Len(object) = 0
  BY DEF Init
<1>2. Types
  BY <1>1, MaxObjectsAssumption DEF Init, Types, ServerPC, ClientPC
<1>3. Owners
  BY InitialisingPC DEF Init, Owners, Serving, Knows
<1>4. Openers
  BY DEF Init, Openers, PastOpen, PastMap, ClientPC
<1>5. Prepared
  BY InitialisingPC DEF Init, Prepared
<1>6. Exclusive
  BY DEF Init, Exclusive
<1>7. Named
  BY <1>1, InitialisingPC DEF Init, Named, Serving
<1>8. Counts /\ Rings
  BY <1>1 DEF Counts, Rings
<1>9. OnlyEarlyCrash
  BY DEF Init, OnlyEarlyCrash
<1> QED BY <1>2, <1>3, <1>4, <1>5, <1>6, <1>7, <1>8, <1>9 DEF LInv

(* Every step keeps the invariant. *)
LEMMA LInvStep == LInv /\ [Next]_vars => LInv'
<1> SUFFICES ASSUME LInv, [Next]_vars
             PROVE  LInv'
  OBVIOUS
<1>1. /\ Types /\ Owners /\ Openers /\ Prepared /\ Exclusive /\ Named /\ Counts /\ Rings
      /\ OnlyEarlyCrash
  BY DEF LInv
<1>2. Types' /\ Owners' /\ Openers' /\ Prepared'
  BY <1>1, TypesStep, OwnersStep, OpenersStep, PreparedStep
<1>3. Exclusive' /\ Named'
  BY <1>1, ExclusiveStep, NamedStep
<1>4. Counts' /\ Rings'
  BY <1>1, CountsStep, RingsStep
<1>5. OnlyEarlyCrash'
  BY <1>1, CrashStep
<1> QED BY <1>2, <1>3, <1>4, <1>5 DEF LInv

(* The invariant holds in every state. *)
THEOREM Invariance == Spec => []LInv
BY LInvInit, LInvStep, PTL DEF Spec

(* The variables have their types: empty is at most Slots, full at most the
   number of clients, and head and tail are slots, however the servers are
   stopped, killed and started again (connection.c:75-91, 214, 240-246). *)
THEOREM TypeCorrect == Spec => []TypeOK
<1>1. LInv => TypeOK
  <2> SUFFICES ASSUME LInv
               PROVE  TypeOK
    OBVIOUS
  <2>1. Types /\ Counts
    BY DEF LInv
  <2>2. ASSUME NEW n \in DOMAIN object
        PROVE  object[n] \in Object
    <3>1. CountsAt(n) /\ object[n] \in WideObject
      BY <2>1 DEF Counts, Types
    <3>2. /\ object[n].empty \in Nat /\ object[n].full \in Nat /\ Sent(n) \in Nat /\ Served(n) \in Nat
          /\ Cardinality(Reserving(n)) \in Nat /\ Cardinality(Posting(n)) \in Nat /\ Taking(n) \in {0, 1}
          /\ Cardinality(Writers(n)) <= Cardinality(Clients) /\ Cardinality(Writers(n)) \in Nat
          /\ Slots \in Nat /\ Cardinality(Clients) \in Nat
      BY <2>1, CountTypes
    <3>3. Pending(n) = Sent(n) - Served(n)
      BY DEF Pending
    <3>4. object[n].empty <= Slots /\ object[n].full <= Cardinality(Clients)
      BY <3>1, <3>2, <3>3 DEF CountsAt
    <3>5. object[n].empty \in 0 .. Slots /\ object[n].full \in 0 .. Cardinality(Clients)
      BY <3>2, <3>4
    <3> QED BY <3>1, <3>5 DEF WideObject, Object
  <2>3. object \in Seq(Object)
    <3>1. object \in Seq(WideObject)
      BY <2>1 DEF Types
    <3>2. Len(object) \in Nat /\ DOMAIN object = 1 .. Len(object) /\ object = [k \in 1 .. Len(object) |-> object[k]]
      BY <3>1
    <3>3. object \in [1 .. Len(object) -> Object]
      BY <2>2, <3>2
    <3> HIDE DEF Object
    <3> QED BY <3>2, <3>3
  <2> QED BY <2>1, <2>3 DEF Types, TypeOK
<1> QED BY <1>1, Invariance, PTL

(* One server at a time serves, and the name designates its queue
   (connection.c:56, 91-102, 154-174). *)
THEOREM OneServerTheorem == Spec => []OneServer
<1>1. LInv => OneServer
  BY DEF LInv, Owners, Named, OneServer
<1> QED BY <1>1, Invariance, PTL

(* Only a client that opened the queue before it was initialised may be ended
   by a fault (connection.c:106-142). *)
THEOREM OnlyEarlyCrashTheorem == Spec => []OnlyEarlyCrash
BY Invariance, PTL DEF LInv

(* The server takes the requests that were written in its own queue, in order
   (connection.c:85-88, 214, 240-242). *)
THEOREM ServesSentTheorem == Spec => []ServesSent
<1>1. LInv => ServesSent
  <2> SUFFICES ASSUME LInv, NEW i \in DOMAIN object, ~Early(i)
               PROVE  \E n \in 0 .. Len(sent[i]) : served[i] = SubSeq(sent[i], 1, n)
    BY DEF ServesSent
  <2>1. Types /\ RingAt(i) /\ CountsAt(i)
    BY DEF LInv, Rings, Counts
  <2>2. i \in DOMAIN sent /\ i \in DOMAIN served
    BY <2>1 DEF Types
  <2>3. sent[i] \in Seq(Clients) /\ served[i] \in Seq(Clients \cup {"nobody"})
    BY <2>1, <2>2 DEF Types
  <2>4. Served(i) <= Sent(i)
    <3>1. /\ object[i].full \in Nat /\ Cardinality(Posting(i)) \in Nat /\ Sent(i) \in Nat /\ Served(i) \in Nat
          /\ Taking(i) \in {0, 1}
      BY <2>1, CountTypes
    <3>2. object[i].full + Cardinality(Posting(i)) + Taking(i) <= Pending(i) /\ Pending(i) = Sent(i) - Served(i)
      BY <2>1 DEF CountsAt, Pending
    <3> QED BY <3>1, <3>2
  <2> DEFINE n == Len(served[i])
  <2>5. n \in 0 .. Len(sent[i])
    BY <2>3, <2>4 DEF Sent, Served
  <2>6. \A k \in 1 .. n : served[i][k] = sent[i][k]
    BY <2>1 DEF RingAt
  <2>7. served[i] = SubSeq(sent[i], 1, n)
    <3>1. /\ SubSeq(sent[i], 1, n) \in Seq(Clients) /\ Len(SubSeq(sent[i], 1, n)) = n
          /\ \A k \in 1 .. n : SubSeq(sent[i], 1, n)[k] = sent[i][k]
      BY <2>3, <2>5
    <3>2. served[i] = [k \in 1 .. n |-> served[i][k]]
      BY <2>3
    <3>3. SubSeq(sent[i], 1, n) = [k \in 1 .. n |-> sent[i][k]]
      BY <2>3, <2>5
    <3> QED BY <2>6, <3>2, <3>3
  <2> QED BY <2>5, <2>7
<1> QED BY <1>1, Invariance, PTL
=============================================================================
