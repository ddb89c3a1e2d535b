-------------------------- MODULE ClientListProofs ---------------------------
(***************************************************************************)
(* Proofs about the list of clients, for any set of clients and any faults.*)
(*                                                                         *)
(* The inductive invariant ListInv says where the pointers of the list,    *)
(* the variables of list_remove and the cell of list_apply are with        *)
(* respect to Entries, the cells from head on.  Entries is defined by a    *)
(* recursive function on the pointers; lemma ChainIsEntries, the only      *)
(* induction, shows that any sequence the pointers chain is Entries, and   *)
(* every step is then reasoned about on that sequence.                     *)
(***************************************************************************)
EXTENDS ClientList, TLAPS, FiniteSetTheorems, SequenceTheorems

-----------------------------------------------------------------------------
(* The inductive invariant *)

(* The k-th element of q, or Null. *)
Nth(q, k) == IF k \in 1 .. Len(q) THEN q[k] ELSE Null

(* No element is in the sequence twice. *)
Distinct(q) == \A j, k \in 1 .. Len(q) : q[j] = q[k] => j = k

(* The pointers chain the cells of q, in order, from head to Null. *)
Chain(q) ==
  /\ q \in Seq(Clients)
  /\ Distinct(q)
  /\ head = Nth(q, 1)
  /\ \A k \in 1 .. Len(q) : next[q[k]] = Nth(q, k + 1)

(* The types of the variables. *)
Types ==
  /\ mutex \in {0, 1}
  /\ tail \in Pointer
  /\ next \in [Clients -> Pointer]
  /\ allocated \subseteq Clients
  /\ main \in MainPC /\ adding \in Pointer
  /\ thread \in [Clients -> ThreadPC]
  /\ cell \in Pointer /\ prev \in Pointer /\ i \in Nat
  /\ handler \in HandlerPC
  /\ walk \in Pointer
  /\ signalled \subseteq Clients
  /\ strayed \in BOOLEAN /\ orphaned \in BOOLEAN

(* The chain of cells from the head is the list of entries. *)
Linked == Chain(Entries)

(* list_dispose has not run. *)
Kept == handler \notin {"disposed", "exited"}

(* main has the mutex of the list. *)
MainHolds == main \in {"malloc", "link", "post"}

(* The thread of c has it. *)
ThreadHolds(c) == thread[c] \in {"scan", "free", "post"}

(* One at a time holds the mutex, and it is taken while somebody holds it. *)
Locked ==
  /\ MainHolds => mutex = 0 /\ Kept
  /\ \A c \in Clients : ThreadHolds(c) => mutex = 0 /\ Kept /\ ~MainHolds
  /\ \A c, d \in Clients : ThreadHolds(c) /\ ThreadHolds(d) => c = d
  /\ ~Kept => mutex = 0

(* The client that main adds has no thread yet. *)
Adding ==
  main \notin {"fetch", "return"} => adding \in Clients /\ thread[adding] = "none"

(* The list has the clients whose session goes on, and the one that is being
   added, from list_add on. *)
Member(c) ==
  \/ thread[c] \in {"serving", "wait", "scan"}
  \/ c = adding /\ main \in {"post", "create"}

(* It has nobody else, but for a client whose thread main could not create. *)
Members ==
  /\ Kept => \A c \in Clients : Member(c) => c \in Listed
  /\ \A c \in Listed : Member(c) \/ (c = adding /\ main \in {"failed", "leaving", "exited"})

(* A cell is allocated before it is listed and freed after it was removed. *)
Memory ==
  Kept =>
    /\ Listed \subseteq allocated
    /\ main = "link" => adding \in allocated
    /\ \A c \in allocated :
         c \in Listed \/ thread[c] = "free" \/ (c = adding /\ main = "link")

(* size counts the cell that list_remove has unlinked until it is over. *)
Sizes ==
  /\ size \in 0 .. Cardinality(Clients)
  /\ Kept =>
       /\ Len(Entries) > 0 => tail = Entries[Len(Entries)]
       /\ (\A c \in Clients : thread[c] \notin {"free", "post"}) => size = Len(Entries)
       /\ \A c \in Clients :
            thread[c] \in {"free", "post"} => size = Len(Entries) + 1 /\ cell = c

(* list_remove is at the i-th cell, and has not passed the one it looks for. *)
Scanning ==
  \A c \in Clients : thread[c] = "scan" =>
    /\ i \in 1 .. Len(Entries) + 1
    /\ cell = Nth(Entries, i) /\ prev = Nth(Entries, i - 1)
    /\ \A k \in 1 .. i - 1 : Entries[k] # c

(* r has every listed cell, in the order of the pointers: from the j-th cell of
   r on, p is Null or a later cell, and what lies between is not listed. *)
Skips(r, j, p) ==
  \E k \in (j + 1) .. (Len(r) + 1) :
    p = Nth(r, k) /\ \A m \in (j + 1) .. (k - 1) : r[m] \notin Listed

(* r has every listed cell, and its pointers skip none of them. *)
Covers(r) ==
  /\ r \in Seq(Clients)
  /\ \A c \in Listed : \E k \in 1 .. Len(r) : r[k] = c
  /\ \A j \in 1 .. Len(r) : Skips(r, j, next[r[j]])

(* list_apply has signalled what is listed before the w-th cell of r. *)
Passed(r, w) ==
  /\ walk = r[w]
  /\ \A m \in 1 .. w - 1 : r[m] \in Listed => r[m] \in signalled
  /\ handler = "advance" /\ walk \in Listed => walk \in signalled

(* list_apply is at a cell.  As long as it read no freed one, it goes along such
   a sequence of cells, and has signalled all that are listed when it ends. *)
Walking ==
  /\ handler \in {"signal", "advance"} => walk \in Clients
  /\ handler \in {"signal", "advance"} /\ ~strayed =>
       \E r \in Seq(Clients) : Covers(r) /\ \E w \in 1 .. Len(r) : Passed(r, w)
  /\ handler = "wait" /\ ~strayed => Listed \subseteq signalled

(* The inductive invariant. *)
ListInv ==
  /\ Types /\ Linked /\ Locked /\ Adding /\ Members /\ Memory
  /\ Sizes /\ Scanning /\ Walking

-----------------------------------------------------------------------------
(* The cells of the list *)

(* A set of naturals that is not empty has a least element: what the
   inductions over positions rest on. *)
LEMMA Least ==
  ASSUME NEW T, T \subseteq Nat, T # {}
  PROVE  \E m \in T : \A n \in T : m <= n
<1> DEFINE Less == {p \in Nat \X Nat : p[1] < p[2]}
<1>1. IsWellFoundedOn(Less, Nat)
  BY NatLessThanWellFounded DEF OpToRel
<1>2. PICK m \in T : \A n \in T : ~ (<<n, m>> \in Less)
  <2> HIDE DEF Less
  <2> QED  BY <1>1, WFMin, Zenon
<1>3. ASSUME NEW n \in T  PROVE m <= n
  <2>1. ~ (<<n, m>> \in Less)  BY <1>2
  <2>2. n \in Nat /\ m \in Nat  OBVIOUS
  <2> QED  BY <2>1, <2>2
<1> QED  BY <1>3

(* A list of distinct clients is not longer than there are clients. *)
LEMMA DistinctBounded ==
  ASSUME NEW q \in Seq(Clients), Distinct(q)
  PROVE  Cardinality(Clients) \in Nat /\ Len(q) \in 0 .. Cardinality(Clients)
<1>1. Len(q) \in Nat /\ q \in [1 .. Len(q) -> Clients]
  OBVIOUS
<1>2. q \in Injection(1 .. Len(q), Clients)
  BY <1>1 DEF Distinct, Injection, IsInjective
<1>3. Cardinality(1 .. Len(q)) <= Cardinality(Clients)
  BY <1>2, FS_Injection, ClientsAssumption
<1>4. Cardinality(1 .. Len(q)) = Len(q)
  BY <1>1, FS_Interval
<1>5. Cardinality(Clients) \in Nat
  BY FS_CardinalityType, ClientsAssumption
<1> QED  BY <1>1, <1>3, <1>4, <1>5

(* The pointers chain one sequence of distinct cells only, and Entries is that
   sequence: the invariant may speak of Entries, the steps of the pointers. *)
LEMMA ChainIsEntries == \A q : Chain(q) => Entries = q
<1> SUFFICES ASSUME NEW q, Chain(q)  PROVE Entries = q
  OBVIOUS
<1> DEFINE N == Cardinality(Clients) + 1
           g == [k \in 1 .. N |-> Nth(q, k)]
<1>1. /\ q \in Seq(Clients) /\ Distinct(q) /\ Len(q) \in Nat
      /\ \A k \in 1 .. Len(q) : q[k] \in Clients /\ q[k] # Null
      /\ head = Nth(q, 1)
      /\ \A k \in 1 .. Len(q) : next[q[k]] = Nth(q, k + 1)
  BY ClientsAssumption DEF Chain
<1>2. N \in Nat /\ Len(q) + 1 <= N
  BY <1>1, DistinctBounded
<1>3. ASSUME NEW k \in 1 .. N, k # 1
      PROVE  Nth(q, k) = IF Nth(q, k - 1) = Null THEN Null ELSE next[Nth(q, k - 1)]
  <2>1. k \in Nat /\ k - 1 \in 1 .. N /\ (k - 1) + 1 = k
    BY <1>2, <1>3
  <2>2. CASE k - 1 \in 1 .. Len(q)
    <3>1. Nth(q, k - 1) = q[k - 1]
      BY <2>2 DEF Nth
    <3> QED  BY <3>1, <2>1, <2>2, <1>1
  <2>3. CASE k - 1 \notin 1 .. Len(q)
    <3>1. k \notin 1 .. Len(q)
      BY <2>1, <2>3, <1>1, <1>2
    <3> QED  BY <3>1, <2>3 DEF Nth
  <2> QED  BY <2>2, <2>3
<1>4. g = [k \in 1 .. N |->
             IF k = 1 THEN head ELSE IF g[k - 1] = Null THEN Null ELSE next[g[k - 1]]]
  <2>1. ASSUME NEW k \in 1 .. N, k # 1
        PROVE  g[k] = IF g[k - 1] = Null THEN Null ELSE next[g[k - 1]]
    <3>1. k - 1 \in 1 .. N
      BY <1>2, <2>1
    <3> QED  BY <3>1, <2>1, <1>3
  <2>2. g[1] = head
    BY <1>1, <1>2
  <2> QED  BY <2>1, <2>2
<1>5. Cell = [k \in 1 .. N |->
                IF k = 1 THEN head
                ELSE IF Cell[k - 1] = Null THEN Null ELSE next[Cell[k - 1]]]
  (* A function solves the recursive equation of Cell, hence Cell does. *)
  <2>1. PICK f : f = g
    OBVIOUS
  <2>2. f = [k \in 1 .. N |->
               IF k = 1 THEN head ELSE IF f[k - 1] = Null THEN Null ELSE next[f[k - 1]]]
    <3> HIDE DEF g
    <3> QED  BY <1>4, <2>1
  <2> HIDE DEF g
  <2> QED  BY <2>2, Zenon DEF Cell
<1>6. \A k \in 1 .. N : Cell[k] = Nth(q, k)
  <2> DEFINE T == {k \in 1 .. N : Cell[k] # Nth(q, k)}
  <2> SUFFICES ASSUME T # {}  PROVE FALSE
    OBVIOUS
  <2>1. PICK m \in T : \A n \in T : m <= n
    <3>1. T \subseteq Nat  BY <1>2
    <3> HIDE DEF T
    <3> QED  BY <3>1, Least
  <2>2. m \in 1 .. N /\ Cell[m] # Nth(q, m)
    OBVIOUS
  <2>3. CASE m = 1
    BY <2>2, <2>3, <1>5, <1>1
  <2>4. CASE m # 1
    <3>1. m - 1 \in 1 .. N /\ ~ (m <= m - 1)
      BY <2>2, <2>4, <1>2
    <3>2. Cell[m - 1] = Nth(q, m - 1)
      BY <3>1, <2>1
    <3>3. Cell[m] = IF Cell[m - 1] = Null THEN Null ELSE next[Cell[m - 1]]
      <4> HIDE DEF T
      <4> QED  BY <2>2, <2>4, <1>5
    <3>4. Nth(q, m) = IF Nth(q, m - 1) = Null THEN Null ELSE next[Nth(q, m - 1)]
      BY <2>2, <2>4, <1>3
    <3> QED  BY <3>2, <3>3, <3>4, <2>2
  <2> QED  BY <2>3, <2>4
<1>7. DOMAIN Cell = 1 .. N
  BY <1>5
<1>8. {k \in DOMAIN Cell : Cell[k] # Null} = 1 .. Len(q)
  <2>1. ASSUME NEW k \in 1 .. N  PROVE (Nth(q, k) # Null) <=> k \in 1 .. Len(q)
    BY <1>1 DEF Nth
  <2>2. 1 .. Len(q) \subseteq 1 .. N
    BY <1>1, <1>2
  <2> HIDE DEF N
  <2>3. \A k : k \in DOMAIN Cell /\ Cell[k] # Null <=> k \in 1 .. Len(q)
    <3>1. \A k \in 1 .. N : Cell[k] # Null <=> k \in 1 .. Len(q)
      BY <1>6, <2>1
    <3> QED  BY <3>1, <1>7, <2>2
  <2> QED  BY <2>3
<1>9. Cardinality({k \in DOMAIN Cell : Cell[k] # Null}) = Len(q)
  <2>1. Cardinality(1 .. Len(q)) = Len(q)
    <3>1. Len(q) \in Nat  BY <1>1
    <3>2. 1 \in Int /\ Len(q) \in Int /\ (IF 1 > Len(q) THEN 0 ELSE Len(q) - 1 + 1) = Len(q)
      BY <3>1
    <3> QED  BY <3>1, <3>2, FS_Interval
  <2> QED  BY <1>8, <2>1, Zenon
<1>10. Entries = [k \in 1 .. Len(q) |-> Cell[k]]
  BY <1>9 DEF Entries
<1>11. ASSUME NEW k \in 1 .. Len(q)  PROVE Cell[k] = q[k]
  <2>1. k \in 1 .. N  BY <1>1, <1>2
  <2>2. Cell[k] = Nth(q, k)  BY <2>1, <1>6
  <2> QED  BY <2>2 DEF Nth
<1>12. q = [k \in 1 .. Len(q) |-> q[k]]
  BY <1>1
<1> QED  BY <1>10, <1>11, <1>12

(* The same in the next state. *)
LEMMA NextChainIsEntries == \A q : Chain(q)' => Entries' = q
<1>1. (\A q : Chain(q) => Entries = q)'
  BY ChainIsEntries, PTL
<1> QED  BY <1>1

-----------------------------------------------------------------------------
(* What the steps do to the list *)

(* Listed, read on a sequence that is Entries. *)
LEMMA ListedOf == \A c : c \in Listed <=> \E k \in DOMAIN Entries : Entries[k] = c
  BY DEF Listed, CR!Elements

(* The same in the next state. *)
LEMMA NextListedOf == \A c : c \in Listed' <=> \E k \in DOMAIN Entries' : Entries'[k] = c
<1>1. (\A c : c \in Listed <=> \E k \in DOMAIN Entries : Entries[k] = c)'
  BY ListedOf, PTL
<1> QED  BY <1>1

(* The list only depends on head and next. *)
LEMMA SameEntries ==
  ASSUME Linked, head' = head, next' = next
  PROVE  Linked' /\ Entries' = Entries
<1>1. PICK q : q = Entries
  OBVIOUS
<1>2. Chain(q)
  BY <1>1 DEF Linked
<1>3. Chain(q)'
  BY <1>2 DEF Chain
<1>4. \A s : Chain(s)' => Entries' = s
  BY NextChainIsEntries
<1>5. Entries' = q
  BY <1>3, <1>4
<1>6. Linked'
  BY <1>3, <1>5 DEF Linked, Chain
<1> QED  BY <1>1, <1>5, <1>6

(* list_add puts the cell at the end. *)
LEMMA LinkEffect ==
  ASSUME Types, Linked, AddLink, adding \in Clients, adding \notin Listed,
         size = Len(Entries), Len(Entries) > 0 => tail = Entries[Len(Entries)]
  PROVE  Linked' /\ Entries' = Append(Entries, adding) /\ Listed' = Listed \cup {adding}
<1>1. PICK q : q = Entries
  OBVIOUS
<1>2. PICK c : c = adding
  OBVIOUS
<1>3. /\ Chain(q) /\ q \in Seq(Clients) /\ Distinct(q) /\ Len(q) \in Nat
      /\ \A k \in 1 .. Len(q) : q[k] \in Clients /\ q[k] # c
      /\ c \in Clients /\ c # Null
  <2>1. Chain(q) /\ c \in Clients /\ c # Null
    BY <1>1, <1>2, ClientsAssumption DEF Linked
  <2>2. q \in Seq(Clients) /\ Distinct(q) /\ Len(q) \in Nat
    BY <2>1 DEF Chain
  <2>3. \A k \in 1 .. Len(q) : q[k] \in Clients /\ q[k] # c
    BY <2>2, <1>1, <1>2, ListedOf
  <2> QED  BY <2>1, <2>2, <2>3
<1> DEFINE r == Append(q, c)
<1>4. /\ r \in Seq(Clients) /\ Len(r) = Len(q) + 1
      /\ r[Len(q) + 1] = c
      /\ \A k \in 1 .. Len(q) : r[k] = q[k]
  BY <1>3
<1>5. Distinct(r)
  <2> SUFFICES ASSUME NEW j \in 1 .. Len(r), NEW k \in 1 .. Len(r), r[j] = r[k]
               PROVE  j = k
    BY DEF Distinct
  <2> HIDE DEF r
  <2>1. CASE j \in 1 .. Len(q) /\ k \in 1 .. Len(q)
    BY <2>1, <1>3, <1>4 DEF Distinct
  <2>2. CASE j = Len(q) + 1 \/ k = Len(q) + 1
    BY <2>2, <1>3, <1>4
  <2> QED  BY <2>1, <2>2, <1>3, <1>4
<1>6. /\ size = Len(q) /\ (Len(q) > 0 => tail = q[Len(q)])
      /\ head = Nth(q, 1) /\ next \in [Clients -> Pointer]
      /\ \A k \in 1 .. Len(q) : next[q[k]] = Nth(q, k + 1)
  BY <1>1, <1>3 DEF Types, Chain
<1>7. head' = Nth(r, 1)
  <2>1. CASE Len(q) = 0
    BY <2>1, <1>2, <1>4, <1>6 DEF AddLink, Nth
  <2>2. CASE Len(q) > 0
    <3>1. 1 \in 1 .. Len(q) /\ 1 \in 1 .. Len(r)  BY <2>2, <1>3, <1>4
    <3>2. head' = head  BY <2>2, <1>6 DEF AddLink
    <3> QED  BY <3>1, <3>2, <1>4, <1>6 DEF Nth
  <2> QED  BY <2>1, <2>2, <1>3
<1>8. ASSUME NEW k \in 1 .. Len(r)  PROVE next'[r[k]] = Nth(r, k + 1)
  <2> HIDE DEF r
  <2>1. CASE k = Len(q) + 1
    <3>1. Nth(r, k + 1) = Null
      BY <2>1, <1>3, <1>4 DEF Nth
    <3>2. next'[c] = Null
      BY <1>2, <1>3, <1>6 DEF AddLink
    <3> QED  BY <3>1, <3>2, <2>1, <1>4
  <2>2. CASE k = Len(q) /\ k > 0
    <3>1. Nth(r, k + 1) = c
      BY <2>2, <1>3, <1>4 DEF Nth
    <3>2. r[k] = tail /\ tail \in Clients /\ size # 0
      BY <2>2, <1>3, <1>4, <1>6
    <3>3. next' = [next EXCEPT ![c] = Null, ![tail] = c]
      BY <3>2, <1>2 DEF AddLink
    <3> QED  BY <3>1, <3>2, <3>3, <1>6
  <2>3. CASE k \in 1 .. Len(q) - 1
    <3>1. k \in 1 .. Len(q) /\ k + 1 \in 1 .. Len(q) /\ Len(q) \in 1 .. Len(q) /\ size # 0
      BY <2>3, <1>3, <1>6
    <3>2. q[k] # tail /\ q[k] # c /\ q[k] \in Clients
      <4>1. tail = q[Len(q)] /\ Len(q) # k
        BY <3>1, <1>6, <2>3
      <4> QED  BY <3>1, <1>3, <4>1 DEF Distinct
    <3>3. next'[q[k]] = next[q[k]]
      BY <3>1, <3>2, <1>2, <1>6 DEF AddLink
    <3>4. Nth(r, k + 1) = q[k + 1] /\ Nth(q, k + 1) = q[k + 1]
      BY <3>1, <1>3, <1>4 DEF Nth
    <3> QED  BY <3>1, <3>3, <3>4, <1>4, <1>6
  <2> QED  BY <2>1, <2>2, <2>3, <1>3, <1>4
<1>9. Chain(r)'
  <2> HIDE DEF r
  <2> QED  BY <1>4, <1>5, <1>7, <1>8 DEF Chain
<1>10. \A s : Chain(s)' => Entries' = s
  BY NextChainIsEntries
<1>11. Entries' = r
  <2> HIDE DEF r
  <2> QED  BY <1>9, <1>10
<1>12. Linked'
  <2> HIDE DEF r
  <2> QED  BY <1>9, <1>11 DEF Linked, Chain
<1>13. Listed' = Listed \cup {adding}
  <2>1. \A d : d \in Listed' <=> \E k \in DOMAIN Entries' : Entries'[k] = d
    BY NextListedOf
  <2>2. \A d : d \in Listed' <=> \E k \in 1 .. Len(r) : r[k] = d
    <3> HIDE DEF r
    <3> QED  BY <2>1, <1>11, <1>4
  <2>3. \A d : d \in Listed <=> \E k \in 1 .. Len(q) : q[k] = d
    BY ListedOf, <1>1, <1>3
  <2>4. \A d : (\E k \in 1 .. Len(r) : r[k] = d) <=> (\E k \in 1 .. Len(q) : q[k] = d) \/ d = c
    <3> HIDE DEF r
    <3>1. 1 .. Len(r) = 1 .. Len(q) \cup {Len(q) + 1}  BY <1>3, <1>4
    <3> QED  BY <3>1, <1>4
  <2>5. \A d : d \in Listed' <=> d \in Listed \/ d = c
    <3> HIDE DEF r
    <3> QED  BY <2>2, <2>3, <2>4
  <2> QED  BY <2>5, <1>2
<1> QED  BY <1>1, <1>2, <1>11, <1>12, <1>13

(* list_remove takes the cell out and keeps the order of the others. *)
LEMMA UnlinkEffect ==
  ASSUME Types, Linked, NEW c \in Clients, RemoveUnlink(c),
         i \in 1 .. Len(Entries), cell = Entries[i], prev = Nth(Entries, i - 1)
  PROVE  /\ Linked' /\ Entries' = CR!Without(Entries, i)
         /\ Len(Entries') = Len(Entries) - 1 /\ Listed' = Listed \ {c}
<1>1. PICK q : q = Entries
  OBVIOUS
<1>2. PICK n : n = i
  OBVIOUS
<1>3. /\ Chain(q) /\ q \in Seq(Clients) /\ Distinct(q) /\ Len(q) \in Nat
      /\ n \in 1 .. Len(q) /\ q[n] = c
      /\ \A k \in 1 .. Len(q) : q[k] \in Clients /\ q[k] # Null
      /\ prev = Nth(q, n - 1)
      /\ head = Nth(q, 1) /\ next \in [Clients -> Pointer]
      /\ \A k \in 1 .. Len(q) : next[q[k]] = Nth(q, k + 1)
  <2>1. Chain(q) /\ n \in 1 .. Len(q) /\ q[n] = c /\ prev = Nth(q, n - 1)
    BY <1>1, <1>2 DEF Linked, RemoveUnlink
  <2>2. next \in [Clients -> Pointer]
    BY DEF Types
  <2> QED  BY <2>1, <2>2, ClientsAssumption DEF Chain
<1> DEFINE r == CR!Without(q, n)
<1>4. /\ r \in Seq(Clients) /\ Len(r) = Len(q) - 1
      /\ \A k \in 1 .. Len(q) - 1 : r[k] = IF k < n THEN q[k] ELSE q[k + 1]
  <2>1. r = [k \in 1 .. Len(q) - 1 |-> IF k < n THEN q[k] ELSE q[k + 1]]
    BY DEF CR!Without
  <2>2. Len(q) - 1 \in Nat
    BY <1>3
  <2>3. ASSUME NEW k \in 1 .. Len(q) - 1
        PROVE  (IF k < n THEN q[k] ELSE q[k + 1]) \in Clients
    BY <1>3
  <2>4. r \in [1 .. Len(q) - 1 -> Clients]
    BY <2>1, <2>3
  <2> HIDE DEF r
  <2> QED  BY <2>1, <2>2, <2>4
<1>5. Distinct(r)
  <2> SUFFICES ASSUME NEW j \in 1 .. Len(r), NEW k \in 1 .. Len(r), r[j] = r[k]
               PROVE  j = k
    BY DEF Distinct
  <2> HIDE DEF r
  <2>1. \A x \in 1 .. Len(q) - 1 :
          \E y \in 1 .. Len(q) : y = (IF x < n THEN x ELSE x + 1) /\ r[x] = q[y]
    <3> TAKE x \in 1 .. Len(q) - 1
    <3>1. x \in 1 .. Len(q) /\ x + 1 \in 1 .. Len(q)
      BY <1>3
    <3>2. r[x] = IF x < n THEN q[x] ELSE q[x + 1]
      BY <1>4
    <3> QED  BY <3>1, <3>2
  <2>2. j \in 1 .. Len(q) - 1 /\ k \in 1 .. Len(q) - 1
    BY <1>4
  <2>3. PICK y \in 1 .. Len(q) : y = (IF j < n THEN j ELSE j + 1) /\ r[j] = q[y]
    BY <2>1, <2>2
  <2>4. PICK z \in 1 .. Len(q) : z = (IF k < n THEN k ELSE k + 1) /\ r[k] = q[z]
    BY <2>1, <2>2
  <2>5. y = z
    BY <2>3, <2>4, <1>3 DEF Distinct
  <2>6. j \in Int /\ k \in Int /\ n \in Int
    BY <2>2, <1>3
  <2>7. (IF j < n THEN j ELSE j + 1) = (IF k < n THEN k ELSE k + 1)
    BY <2>3, <2>4, <2>5
  <2> QED  BY <2>6, <2>7
<1>6. head' = Nth(r, 1)
  <2>1. CASE n = 1
    <3>1. prev = Null
      BY <2>1, <1>3 DEF Nth
    <3>2. head' = Nth(q, 2)
      BY <3>1, <2>1, <1>3 DEF RemoveUnlink
    <3> HIDE DEF r
    <3> QED  BY <3>2, <2>1, <1>3, <1>4 DEF Nth
  <2>2. CASE n > 1
    <3>1. n - 1 \in 1 .. Len(q) /\ 1 \in 1 .. Len(q) - 1 /\ 1 \in 1 .. Len(q)
      BY <2>2, <1>3
    <3>2. prev # Null
      BY <3>1, <1>3 DEF Nth
    <3>3. head' = q[1]
      BY <3>1, <3>2, <1>3 DEF RemoveUnlink, Nth
    <3> HIDE DEF r
    <3> QED  BY <3>1, <3>3, <2>2, <1>3, <1>4 DEF Nth
  <2> QED  BY <2>1, <2>2, <1>3
<1>7. ASSUME NEW k \in 1 .. Len(r)  PROVE next'[r[k]] = Nth(r, k + 1)
  <2> HIDE DEF r
  <2>0. k \in 1 .. Len(q) - 1 /\ k \in 1 .. Len(q) /\ k + 1 \in 1 .. Len(q)
    BY <1>3, <1>4
  <2>1. CASE k = n - 1
    <3>1. prev = q[k] /\ prev \in Clients /\ prev # Null
      BY <2>0, <2>1, <1>3 DEF Nth
    <3>2. next'[q[k]] = next[c]
      BY <3>1, <1>3 DEF RemoveUnlink
    <3>3. next[c] = Nth(q, n + 1)
      BY <1>3
    <3>4. Nth(q, n + 1) = Nth(r, k + 1)
      BY <2>0, <2>1, <1>3, <1>4 DEF Nth
    <3>5. r[k] = q[k]
      BY <2>0, <2>1, <1>3, <1>4
    <3> QED  BY <3>2, <3>3, <3>4, <3>5
  <2>2. CASE k # n - 1
    <3>1. PICK x \in 1 .. Len(q) : r[k] = q[x] /\ x = IF k < n THEN k ELSE k + 1
      BY <2>0, <1>4
    <3>2. q[x] # prev
      <4>1. x # n - 1
        BY <3>1, <2>0, <2>2, <1>3
      <4>2. CASE n = 1
        BY <4>2, <1>3 DEF Nth
      <4>3. CASE n > 1
        <5>1. n - 1 \in 1 .. Len(q) /\ prev = q[n - 1]
          BY <4>3, <1>3 DEF Nth
        <5> QED  BY <5>1, <4>1, <1>3 DEF Distinct
      <4> QED  BY <4>2, <4>3, <1>3
    <3>3. next'[q[x]] = next[q[x]]
      BY <3>2, <1>3 DEF RemoveUnlink
    <3>4. next[q[x]] = Nth(q, x + 1)
      BY <1>3
    <3>5. Nth(q, x + 1) = Nth(r, k + 1)
      BY <3>1, <2>0, <2>2, <1>3, <1>4 DEF Nth
    <3> QED  BY <3>1, <3>3, <3>4, <3>5
  <2> QED  BY <2>1, <2>2
<1>8. Chain(r)'
  <2> HIDE DEF r
  <2> QED  BY <1>4, <1>5, <1>6, <1>7 DEF Chain
<1>9. \A s : Chain(s)' => Entries' = s
  BY NextChainIsEntries
<1>10. Entries' = r
  <2> HIDE DEF r
  <2> QED  BY <1>8, <1>9
<1>11. Linked'
  <2> HIDE DEF r
  <2> QED  BY <1>8, <1>10 DEF Linked, Chain
<1>12. Listed' = Listed \ {c}
  <2>1. \A d : d \in Listed' <=> \E k \in DOMAIN Entries' : Entries'[k] = d
    BY NextListedOf
  <2>2. \A d : d \in Listed' <=> \E k \in 1 .. Len(r) : r[k] = d
    <3> HIDE DEF r
    <3> QED  BY <2>1, <1>10, <1>4
  <2>3. \A d : d \in Listed <=> \E k \in 1 .. Len(q) : q[k] = d
    BY ListedOf, <1>1, <1>3
  <2>4. ASSUME NEW d, NEW k \in 1 .. Len(r), r[k] = d
        PROVE  d # c /\ \E x \in 1 .. Len(q) : q[x] = d
    <3> HIDE DEF r
    <3>1. PICK x \in 1 .. Len(q) : r[k] = q[x] /\ x # n
      BY <1>3, <1>4
    <3>2. q[x] # q[n]
      BY <3>1, <1>3 DEF Distinct
    <3> QED  BY <3>1, <3>2, <2>4, <1>3
  <2>5. ASSUME NEW d, d # c, NEW x \in 1 .. Len(q), q[x] = d
        PROVE  \E k \in 1 .. Len(r) : r[k] = d
    <3> HIDE DEF r
    <3>1. x # n
      BY <2>5, <1>3
    <3>2. CASE x < n
      <4>1. x \in 1 .. Len(q) - 1
        BY <3>2, <1>3
      <4> QED  BY <4>1, <3>2, <2>5, <1>4
    <3>3. CASE x > n
      <4>1. x - 1 \in 1 .. Len(q) - 1 /\ ~ (x - 1 < n) /\ (x - 1) + 1 = x
        BY <3>3, <1>3
      <4> QED  BY <4>1, <2>5, <1>4
    <3> QED  BY <3>1, <3>2, <3>3, <1>3
  <2>6. \A d : d \in Listed' <=> d \in Listed /\ d # c
    <3> HIDE DEF r
    <3> QED  BY <2>2, <2>3, <2>4, <2>5
  <2> QED  BY <2>6
<1> QED  BY <1>1, <1>2, <1>4, <1>10, <1>11, <1>12

(* list_dispose leaves nothing. *)
LEMMA DisposeEffect ==
  ASSUME head' = Null
  PROVE  Linked' /\ Entries' = << >> /\ Listed' = {}
<1>1. Chain(<< >>)'
  BY DEF Chain, Distinct, Nth
<1>2. \A s : Chain(s)' => Entries' = s
  BY NextChainIsEntries
<1>3. Entries' = << >>
  BY <1>1, <1>2
<1>4. Linked'
  BY <1>1, <1>3 DEF Linked, Chain
<1>5. \A d : d \in Listed' <=> \E k \in DOMAIN Entries' : Entries'[k] = d
  BY NextListedOf
<1>6. Listed' = {}
  BY <1>3, <1>5
<1> QED  BY <1>3, <1>4, <1>6

-----------------------------------------------------------------------------
(* Every step keeps the invariant *)

(* The cases of a step. *)
LEMMA Steps ==
  ASSUME [Next]_vars
  PROVE  \/ AddWait \/ AddMalloc \/ AddNoMemory \/ AddLink \/ AddPost \/ Create
         \/ QueuePost \/ MainExit \/ ClientDies
         \/ SigFree
         \/ ApplySignal \/ ApplyAdvance \/ ApplyStray \/ Dispose \/ HandlerExit
         \/ \E c \in Clients :
              \/ Fetch(c) \/ EndSession(c)
              \/ RemoveWait(c) \/ RemoveNext(c) \/ RemoveUnlink(c) \/ RemoveFree(c) \/ RemovePost(c)
         \/ UNCHANGED vars
  BY DEF Next, Add, Stop, Remove

(* Only clients are listed. *)
LEMMA ListedClients ==
  ASSUME Linked
  PROVE  Entries \in Seq(Clients) /\ Listed \subseteq Clients
<1>1. Entries \in Seq(Clients)
  BY DEF Linked, Chain
<1> QED  BY <1>1, ListedOf

(* What every step does to the list: nothing, or it adds at the end, takes one
   cell out, or disposes of all. *)
Untouched == Entries' = Entries /\ Listed' = Listed

(* One more cell is linked at the head. *)
Added ==
  /\ AddLink
  /\ adding \in Clients \ Listed
  /\ Entries' = Append(Entries, adding) /\ Listed' = Listed \cup {adding}

(* A cell is taken out. *)
Removed(c) ==
  /\ RemoveUnlink(c)
  /\ i \in 1 .. Len(Entries) /\ cell = Entries[i] /\ prev = Nth(Entries, i - 1)
  /\ Entries' = CR!Without(Entries, i) /\ Len(Entries') = Len(Entries) - 1
  /\ Listed' = Listed \ {c}

(* The list is freed from its head. *)
Emptied == Dispose /\ Entries' = << >> /\ Listed' = {}

(* The invariant is strong enough for list_add and list_remove to find the
   pointers as they expect them. *)
LEMMA Effects ==
  ASSUME ListInv, [Next]_vars
  PROVE  /\ Linked'
         /\ head' = head /\ next' = next => Untouched
         /\ AddLink => Added
         /\ \A c \in Clients : RemoveUnlink(c) => Removed(c)
         /\ Dispose => Emptied
<1>1. ASSUME head' = head, next' = next  PROVE Linked' /\ Untouched
  <2>1. Linked' /\ Entries' = Entries
    BY <1>1, SameEntries DEF ListInv
  <2>2. Listed' = Listed
    BY <2>1, ListedOf, NextListedOf
  <2> QED  BY <2>1, <2>2 DEF Untouched
<1>2. ASSUME AddLink  PROVE Linked' /\ Added
  <2>1. /\ main = "link" /\ adding \in Clients /\ thread[adding] = "none"
        /\ Kept
    BY <1>2 DEF AddLink, Main, ListInv, Adding, Kept
  <2>2. adding \notin Listed
    BY <2>1 DEF ListInv, Members, Member
  <2>3. \A c \in Clients : thread[c] \notin {"free", "post"}
    BY <2>1 DEF ListInv, Locked, MainHolds, ThreadHolds
  <2>4. size = Len(Entries) /\ (Len(Entries) > 0 => tail = Entries[Len(Entries)])
    BY <2>1, <2>3 DEF ListInv, Sizes
  <2>5. Linked' /\ Entries' = Append(Entries, adding) /\ Listed' = Listed \cup {adding}
    BY <1>2, <2>1, <2>2, <2>4, LinkEffect DEF ListInv
  <2> QED  BY <1>2, <2>1, <2>2, <2>5 DEF Added
<1>3. ASSUME NEW c \in Clients, RemoveUnlink(c)  PROVE Linked' /\ Removed(c)
  <2>1. thread[c] = "scan" /\ cell = c /\ c # Null
    BY <1>3, ClientsAssumption DEF RemoveUnlink, At
  <2>2. cell = Nth(Entries, i) /\ prev = Nth(Entries, i - 1)
    BY <2>1 DEF ListInv, Scanning
  <2>3. i \in 1 .. Len(Entries) /\ cell = Entries[i]
    BY <2>1, <2>2 DEF Nth
  <2>4. /\ Linked' /\ Entries' = CR!Without(Entries, i)
        /\ Len(Entries') = Len(Entries) - 1 /\ Listed' = Listed \ {c}
    BY <1>3, <2>2, <2>3, UnlinkEffect DEF ListInv
  <2> QED  BY <1>3, <2>2, <2>3, <2>4 DEF Removed
<1>4. ASSUME Dispose  PROVE Linked' /\ Emptied
  <2>1. head' = Null
    BY <1>4 DEF Dispose
  <2>2. Linked' /\ Entries' = << >> /\ Listed' = {}
    BY <2>1, DisposeEffect
  <2> QED  BY <1>4, <2>2 DEF Emptied
<1>5. ASSUME \/ AddWait \/ AddMalloc \/ AddNoMemory \/ AddPost \/ Create
             \/ QueuePost \/ MainExit \/ ClientDies
      PROVE  Linked'
  <2>1. head' = head /\ next' = next
    BY <1>5 DEF AddWait, AddMalloc, AddNoMemory, AddPost, Create, QueuePost, MainExit, ClientDies, list
  <2> QED  BY <2>1, <1>1
<1>6. ASSUME SigFree \/ ApplySignal \/ ApplyAdvance \/ ApplyStray \/ HandlerExit
      PROVE  Linked'
  <2>1. head' = head /\ next' = next
    BY <1>6 DEF SigFree, ApplySignal, ApplyAdvance, ApplyStray, HandlerExit, list
  <2> QED  BY <2>1, <1>1
<1>7. ASSUME NEW c \in Clients,
             \/ Fetch(c) \/ EndSession(c) \/ RemoveWait(c) \/ RemoveNext(c)
             \/ RemoveFree(c) \/ RemovePost(c)
      PROVE  Linked'
  <2>1. head' = head /\ next' = next
    BY <1>7 DEF Fetch, EndSession, RemoveWait, RemoveNext, RemoveFree, RemovePost, list
  <2> QED  BY <2>1, <1>1
<1>8. ASSUME UNCHANGED vars  PROVE Linked'
  <2>1. head' = head /\ next' = next
    BY <1>8 DEF vars, list
  <2> QED  BY <2>1, <1>1
<1> QED
  <2>1. Linked'
    BY <1>2, <1>3, <1>4, <1>5, <1>6, <1>7, <1>8, Steps
  <2> QED  BY <2>1, <1>1, <1>2, <1>3, <1>4

(* list_remove does not come to the end of the list. *)
LEMMA ScanningFinds ==
  ASSUME ListInv, NEW c \in Clients, thread[c] = "scan"
  PROVE  i \in 1 .. Len(Entries) /\ cell = Entries[i] /\ cell # Null
<1>1. /\ i \in 1 .. Len(Entries) + 1 /\ cell = Nth(Entries, i)
      /\ \A k \in 1 .. i - 1 : Entries[k] # c
  BY DEF ListInv, Scanning
<1>2. c \in Listed
  BY DEF ListInv, Members, Member, Locked, ThreadHolds
<1>3. Entries \in Seq(Clients)
  BY ListedClients DEF ListInv
<1>4. PICK k \in 1 .. Len(Entries) : Entries[k] = c
  BY <1>2, <1>3, ListedOf
<1>5. i \in 1 .. Len(Entries)
  BY <1>1, <1>3, <1>4
<1> QED  BY <1>1, <1>3, <1>5, ClientsAssumption DEF Nth

(* Whoever takes the mutex finds nobody in the list, and whoever gives it back
   had it. *)
LEMMA LockedStep ==
  ASSUME ListInv, [Next]_vars
  PROVE  Locked'
<1> USE DEF list, locals, signal
<1>0. Types /\ Locked
  BY DEF ListInv
<1>1. CASE AddWait
  BY <1>1, <1>0 DEF AddWait, Main, Locked, Kept, MainHolds, ThreadHolds, Types
<1>2. CASE AddMalloc
  BY <1>2, <1>0 DEF AddMalloc, Main, Locked, Kept, MainHolds, ThreadHolds, Types
<1>3. CASE AddNoMemory
  BY <1>3, <1>0 DEF AddNoMemory, Main, Locked, Kept, MainHolds, ThreadHolds, Types
<1>4. CASE AddLink
  BY <1>4, <1>0 DEF AddLink, Main, Locked, Kept, MainHolds, ThreadHolds, Types
<1>5. CASE AddPost
  BY <1>5, <1>0 DEF AddPost, Main, Locked, Kept, MainHolds, ThreadHolds, Types
<1>6. CASE Create
  BY <1>6, <1>0 DEF Create, Main, Locked, Kept, MainHolds, ThreadHolds, Types
<1>7. CASE MainExit
  BY <1>7, <1>0 DEF MainExit, Main, Locked, Kept, MainHolds, ThreadHolds, Types
<1>8. CASE SigFree
  BY <1>8, <1>0 DEF SigFree, Locked, Kept, MainHolds, ThreadHolds, Types
<1>9. CASE ApplySignal
  BY <1>9, <1>0 DEF ApplySignal, Handler, Locked, Kept, MainHolds, ThreadHolds, Types
<1>10. CASE ApplyAdvance
  BY <1>10, <1>0 DEF ApplyAdvance, Handler, Locked, Kept, MainHolds, ThreadHolds, Types
<1>11. CASE Dispose
  BY <1>11, <1>0 DEF Dispose, Handler, Locked, Kept, MainHolds, ThreadHolds, Types
<1>12. CASE HandlerExit
  BY <1>12, <1>0 DEF HandlerExit, Handler, Locked, Kept, MainHolds, ThreadHolds, Types
<1>13. ASSUME NEW c \in Clients, Fetch(c)  PROVE Locked'
  BY <1>13, <1>0 DEF Fetch, Main, Locked, Kept, MainHolds, ThreadHolds, Types
<1>14. ASSUME NEW c \in Clients, EndSession(c)  PROVE Locked'
  BY <1>14, <1>0 DEF EndSession, At, ThreadGoto, Locked, Kept, MainHolds, ThreadHolds, Types
<1>15. ASSUME NEW c \in Clients, RemoveWait(c)  PROVE Locked'
  BY <1>15, <1>0 DEF RemoveWait, At, ThreadGoto, Locked, Kept, MainHolds, ThreadHolds, Types
<1>16. ASSUME NEW c \in Clients, RemoveNext(c)  PROVE Locked'
  BY <1>16, <1>0 DEF RemoveNext, At, ThreadGoto, Locked, Kept, MainHolds, ThreadHolds, Types
<1>17. ASSUME NEW c \in Clients, RemoveUnlink(c)  PROVE Locked'
  BY <1>17, <1>0 DEF RemoveUnlink, At, ThreadGoto, Locked, Kept, MainHolds, ThreadHolds, Types
<1>18. ASSUME NEW c \in Clients, RemoveFree(c)  PROVE Locked'
  BY <1>18, <1>0 DEF RemoveFree, At, ThreadGoto, Locked, Kept, MainHolds, ThreadHolds, Types
<1>19. ASSUME NEW c \in Clients, RemovePost(c)  PROVE Locked'
  BY <1>19, <1>0 DEF RemovePost, At, ThreadGoto, Locked, Kept, MainHolds, ThreadHolds, Types
<1>20. CASE UNCHANGED vars
  BY <1>20, <1>0 DEF vars, Locked, Kept, MainHolds, ThreadHolds, Types
<1>21. CASE QueuePost
  BY <1>21, <1>0 DEF QueuePost, Main, Locked, Kept, MainHolds, ThreadHolds, Types
<1>22. CASE ApplyStray
  BY <1>22, <1>0 DEF ApplyStray, Handler, Locked, Kept, MainHolds, ThreadHolds, Types
<1>23. CASE ClientDies
  BY <1>23, <1>0 DEF ClientDies, Locked, Kept, MainHolds, ThreadHolds, Types
<1> QED
  BY <1>1, <1>2, <1>3, <1>4, <1>5, <1>6, <1>7, <1>8, <1>9, <1>10, <1>11, <1>12, <1>13, <1>14, <1>15, <1>16, <1>17, <1>18, <1>19, <1>20, <1>21, <1>22, <1>23, Steps
(* main gives its client no thread before create, and no other client is added
   meanwhile. *)
LEMMA AddingStep ==
  ASSUME ListInv, [Next]_vars
  PROVE  Adding'
<1> USE DEF list, locals, signal
<1>0. Types /\ Adding
  BY DEF ListInv
<1>1. CASE AddWait
  BY <1>1, <1>0 DEF AddWait, Main, Adding, Types
<1>2. CASE AddMalloc
  BY <1>2, <1>0 DEF AddMalloc, Main, Adding, Types
<1>3. CASE AddNoMemory
  BY <1>3, <1>0 DEF AddNoMemory, Main, Adding, Types
<1>4. CASE AddLink
  BY <1>4, <1>0 DEF AddLink, Main, Adding, Types
<1>5. CASE AddPost
  BY <1>5, <1>0 DEF AddPost, Main, Adding, Types
<1>6. CASE Create
  BY <1>6, <1>0 DEF Create, Main, Adding, Types
<1>7. CASE MainExit
  BY <1>7, <1>0 DEF MainExit, Main, Adding, Types
<1>8. CASE SigFree
  BY <1>8, <1>0 DEF SigFree, Adding, Types
<1>9. CASE ApplySignal
  BY <1>9, <1>0 DEF ApplySignal, Handler, Adding, Types
<1>10. CASE ApplyAdvance
  BY <1>10, <1>0 DEF ApplyAdvance, Handler, Adding, Types
<1>11. CASE Dispose
  BY <1>11, <1>0 DEF Dispose, Handler, Adding, Types
<1>12. CASE HandlerExit
  BY <1>12, <1>0 DEF HandlerExit, Handler, Adding, Types
<1>13. ASSUME NEW c \in Clients, Fetch(c)  PROVE Adding'
  BY <1>13, <1>0 DEF Fetch, Main, Adding, Types
<1>14. ASSUME NEW c \in Clients, EndSession(c)  PROVE Adding'
  BY <1>14, <1>0 DEF EndSession, At, ThreadGoto, Adding, Types
<1>15. ASSUME NEW c \in Clients, RemoveWait(c)  PROVE Adding'
  BY <1>15, <1>0 DEF RemoveWait, At, ThreadGoto, Adding, Types
<1>16. ASSUME NEW c \in Clients, RemoveNext(c)  PROVE Adding'
  BY <1>16, <1>0 DEF RemoveNext, At, ThreadGoto, Adding, Types
<1>17. ASSUME NEW c \in Clients, RemoveUnlink(c)  PROVE Adding'
  BY <1>17, <1>0 DEF RemoveUnlink, At, ThreadGoto, Adding, Types
<1>18. ASSUME NEW c \in Clients, RemoveFree(c)  PROVE Adding'
  BY <1>18, <1>0 DEF RemoveFree, At, ThreadGoto, Adding, Types
<1>19. ASSUME NEW c \in Clients, RemovePost(c)  PROVE Adding'
  BY <1>19, <1>0 DEF RemovePost, At, ThreadGoto, Adding, Types
<1>20. CASE UNCHANGED vars
  BY <1>20, <1>0 DEF vars, Adding, Types
<1>21. CASE QueuePost
  BY <1>21, <1>0 DEF QueuePost, Main, Adding, Types
<1>22. CASE ApplyStray
  BY <1>22, <1>0 DEF ApplyStray, Handler, Adding, Types
<1>23. CASE ClientDies
  BY <1>23, <1>0 DEF ClientDies, Adding, Types
<1> QED
  BY <1>1, <1>2, <1>3, <1>4, <1>5, <1>6, <1>7, <1>8, <1>9, <1>10, <1>11, <1>12, <1>13, <1>14, <1>15, <1>16, <1>17, <1>18, <1>19, <1>20, <1>21, <1>22, <1>23, Steps
(* The variables keep their types: list_apply is at a cell when it advances. *)
LEMMA TypesStep ==
  ASSUME ListInv, [Next]_vars
  PROVE  Types'
<1> USE DEF list, locals, signal
<1>0. Types /\ Adding /\ Locked
  BY DEF ListInv
<1>00. handler \in {"signal", "advance"} => walk \in Clients
  BY DEF ListInv, Walking
<1>000. head \in Pointer
  BY DEF ListInv, Linked, Chain, Nth, Pointer
<1>1. CASE AddWait
  BY <1>1, <1>0, <1>00, <1>000 DEF AddWait, Main, Adding, Types, Locked, ThreadHolds, MainHolds, Pointer, MainPC, ThreadPC, HandlerPC
<1>2. CASE AddMalloc
  BY <1>2, <1>0, <1>00, <1>000 DEF AddMalloc, Main, Adding, Types, Locked, ThreadHolds, MainHolds, Pointer, MainPC, ThreadPC, HandlerPC
<1>3. CASE AddNoMemory
  BY <1>3, <1>0, <1>00, <1>000 DEF AddNoMemory, Main, Adding, Types, Locked, ThreadHolds, MainHolds, Pointer, MainPC, ThreadPC, HandlerPC
<1>4. CASE AddLink
  BY <1>4, <1>0, <1>00, <1>000 DEF AddLink, Main, Adding, Types, Locked, ThreadHolds, MainHolds, Pointer, MainPC, ThreadPC, HandlerPC
<1>5. CASE AddPost
  BY <1>5, <1>0, <1>00, <1>000 DEF AddPost, Main, Adding, Types, Locked, ThreadHolds, MainHolds, Pointer, MainPC, ThreadPC, HandlerPC
<1>6. CASE Create
  BY <1>6, <1>0, <1>00, <1>000 DEF Create, Main, Adding, Types, Locked, ThreadHolds, MainHolds, Pointer, MainPC, ThreadPC, HandlerPC
<1>7. CASE MainExit
  BY <1>7, <1>0, <1>00, <1>000 DEF MainExit, Main, Adding, Types, Locked, ThreadHolds, MainHolds, Pointer, MainPC, ThreadPC, HandlerPC
<1>8. CASE SigFree
  BY <1>8, <1>0, <1>00, <1>000 DEF SigFree, Adding, Types, Locked, ThreadHolds, MainHolds, Pointer, MainPC, ThreadPC, HandlerPC
<1>9. CASE ApplySignal
  BY <1>9, <1>0, <1>00, <1>000 DEF ApplySignal, Handler, Adding, Types, Locked, ThreadHolds, MainHolds, Pointer, MainPC, ThreadPC, HandlerPC
<1>10. CASE ApplyAdvance
  BY <1>10, <1>0, <1>00, <1>000 DEF ApplyAdvance, Handler, Adding, Types, Locked, ThreadHolds, MainHolds, Pointer, MainPC, ThreadPC, HandlerPC
<1>11. CASE Dispose
  BY <1>11, <1>0, <1>00, <1>000 DEF Dispose, Handler, Adding, Types, Locked, ThreadHolds, MainHolds, Pointer, MainPC, ThreadPC, HandlerPC
<1>12. CASE HandlerExit
  BY <1>12, <1>0, <1>00, <1>000 DEF HandlerExit, Handler, Adding, Types, Locked, ThreadHolds, MainHolds, Pointer, MainPC, ThreadPC, HandlerPC
<1>13. ASSUME NEW c \in Clients, Fetch(c)  PROVE Types'
  BY <1>13, <1>0, <1>00, <1>000 DEF Fetch, Main, Adding, Types, Locked, ThreadHolds, MainHolds, Pointer, MainPC, ThreadPC, HandlerPC
<1>14. ASSUME NEW c \in Clients, EndSession(c)  PROVE Types'
  BY <1>14, <1>0, <1>00, <1>000 DEF EndSession, At, ThreadGoto, Adding, Types, Locked, ThreadHolds, MainHolds, Pointer, MainPC, ThreadPC, HandlerPC
<1>15. ASSUME NEW c \in Clients, RemoveWait(c)  PROVE Types'
  BY <1>15, <1>0, <1>00, <1>000 DEF RemoveWait, At, ThreadGoto, Adding, Types, Locked, ThreadHolds, MainHolds, Pointer, MainPC, ThreadPC, HandlerPC
<1>16. ASSUME NEW c \in Clients, RemoveNext(c)  PROVE Types'
  BY <1>16, <1>0, <1>00, <1>000 DEF RemoveNext, At, ThreadGoto, Adding, Types, Locked, ThreadHolds, MainHolds, Pointer, MainPC, ThreadPC, HandlerPC
<1>17. ASSUME NEW c \in Clients, RemoveUnlink(c)  PROVE Types'
  BY <1>17, <1>0, <1>00, <1>000 DEF RemoveUnlink, At, ThreadGoto, Adding, Types, Locked, ThreadHolds, MainHolds, Pointer, MainPC, ThreadPC, HandlerPC
<1>18. ASSUME NEW c \in Clients, RemoveFree(c)  PROVE Types'
  BY <1>18, <1>0, <1>00, <1>000 DEF RemoveFree, At, ThreadGoto, Adding, Types, Locked, ThreadHolds, MainHolds, Pointer, MainPC, ThreadPC, HandlerPC
<1>19. ASSUME NEW c \in Clients, RemovePost(c)  PROVE Types'
  BY <1>19, <1>0, <1>00, <1>000 DEF RemovePost, At, ThreadGoto, Adding, Types, Locked, ThreadHolds, MainHolds, Pointer, MainPC, ThreadPC, HandlerPC
<1>20. CASE UNCHANGED vars
  BY <1>20, <1>0, <1>00, <1>000 DEF vars, Adding, Types, Locked, ThreadHolds, MainHolds, Pointer, MainPC, ThreadPC, HandlerPC
<1>21. CASE QueuePost
  BY <1>21, <1>0, <1>00, <1>000 DEF QueuePost, Main, Adding, Types, Locked, ThreadHolds, MainHolds, Pointer, MainPC, ThreadPC, HandlerPC
<1>22. CASE ApplyStray
  BY <1>22, <1>0, <1>00, <1>000 DEF ApplyStray, Handler, Adding, Types, Locked, ThreadHolds, MainHolds, Pointer, MainPC, ThreadPC, HandlerPC
<1>23. CASE ClientDies
  BY <1>23, <1>0, <1>00, <1>000 DEF ClientDies, Adding, Types, Locked, ThreadHolds, MainHolds, Pointer, MainPC, ThreadPC, HandlerPC
<1> QED
  BY <1>1, <1>2, <1>3, <1>4, <1>5, <1>6, <1>7, <1>8, <1>9, <1>10, <1>11, <1>12, <1>13, <1>14, <1>15, <1>16, <1>17, <1>18, <1>19, <1>20, <1>21, <1>22, <1>23, Steps

(* A client is listed from list_add until its own list_remove. *)
LEMMA MembersStep ==
  ASSUME ListInv, [Next]_vars
  PROVE  Members'
<1> USE DEF list, locals, signal
<1>0. Types /\ Adding /\ Members /\ Locked
  BY DEF ListInv
<1>00. /\ head' = head /\ next' = next => Untouched
       /\ AddLink => Added
       /\ \A c \in Clients : RemoveUnlink(c) => Removed(c)
       /\ Dispose => Emptied
  BY Effects
<1>1. CASE AddWait
  <2>1. Listed' = Listed
    BY <1>1, <1>00 DEF AddWait, Main, Untouched
  <2> QED  BY <1>1, <2>1, <1>0 DEF AddWait, Main, Adding, Types, Members, Member, Kept, Locked, MainHolds, ThreadHolds
<1>2. CASE AddMalloc
  <2>1. Listed' = Listed
    BY <1>2, <1>00 DEF AddMalloc, Main, Untouched
  <2> QED  BY <1>2, <2>1, <1>0 DEF AddMalloc, Main, Adding, Types, Members, Member, Kept, Locked, MainHolds, ThreadHolds
<1>3. CASE AddNoMemory
  <2>1. Listed' = Listed
    BY <1>3, <1>00 DEF AddNoMemory, Main, Untouched
  <2> QED  BY <1>3, <2>1, <1>0 DEF AddNoMemory, Main, Adding, Types, Members, Member, Kept, Locked, MainHolds, ThreadHolds
<1>4. CASE AddLink
  BY <1>4, <1>0, <1>00 DEF AddLink, Main, Added, Adding, Types, Members, Member, Kept, Locked, MainHolds, ThreadHolds
<1>5. CASE AddPost
  <2>1. Listed' = Listed
    BY <1>5, <1>00 DEF AddPost, Main, Untouched
  <2> QED  BY <1>5, <2>1, <1>0 DEF AddPost, Main, Adding, Types, Members, Member, Kept, Locked, MainHolds, ThreadHolds
<1>6. CASE Create
  <2>1. Listed' = Listed
    BY <1>6, <1>00 DEF Create, Main, Untouched
  <2>2. /\ main = "create" /\ Kept' = Kept
        /\ thread[adding] = "none" /\ adding' = adding /\ adding \in Clients
        /\ \/ thread' = [thread EXCEPT ![adding] = "serving"] /\ main' = "return"
           \/ thread' = thread /\ main' = "failed"
    BY <1>6, <1>0 DEF Create, Main, Adding, Kept
  <2>3. ASSUME NEW d \in Clients, d # adding  PROVE Member(d)' <=> Member(d)
    BY <2>2, <2>3, <1>0 DEF Member, Types
  <2>4. Member(adding) /\ (Member(adding)' \/ main' = "failed")
    BY <2>2, <1>0 DEF Member, Types
  <2>5. Listed \subseteq Clients
    BY ListedClients DEF ListInv
  <2> QED  BY <2>1, <2>2, <2>3, <2>4, <2>5, <1>0 DEF Members
<1>7. CASE MainExit
  <2>1. Listed' = Listed
    BY <1>7, <1>00 DEF MainExit, Main, Untouched
  <2> QED  BY <1>7, <2>1, <1>0 DEF MainExit, Main, Adding, Types, Members, Member, Kept, Locked, MainHolds, ThreadHolds
<1>8. CASE SigFree
  <2>1. Listed' = Listed
    BY <1>8, <1>00 DEF SigFree, Untouched
  <2> QED  BY <1>8, <2>1, <1>0 DEF SigFree, Adding, Types, Members, Member, Kept, Locked, MainHolds, ThreadHolds
<1>9. CASE ApplySignal
  <2>1. Listed' = Listed
    BY <1>9, <1>00 DEF ApplySignal, Handler, Untouched
  <2> QED  BY <1>9, <2>1, <1>0 DEF ApplySignal, Handler, Adding, Types, Members, Member, Kept, Locked, MainHolds, ThreadHolds
<1>10. CASE ApplyAdvance
  <2>1. Listed' = Listed
    BY <1>10, <1>00 DEF ApplyAdvance, Handler, Untouched
  <2> QED  BY <1>10, <2>1, <1>0 DEF ApplyAdvance, Handler, Adding, Types, Members, Member, Kept, Locked, MainHolds, ThreadHolds
<1>11. CASE Dispose
  BY <1>11, <1>0, <1>00 DEF Dispose, Handler, Emptied, Adding, Types, Members, Member, Kept, Locked, MainHolds, ThreadHolds
<1>12. CASE HandlerExit
  <2>1. Listed' = Listed
    BY <1>12, <1>00 DEF HandlerExit, Handler, Untouched
  <2> QED  BY <1>12, <2>1, <1>0 DEF HandlerExit, Handler, Adding, Types, Members, Member, Kept, Locked, MainHolds, ThreadHolds
<1>13. ASSUME NEW c \in Clients, Fetch(c)  PROVE Members'
  <2>1. Listed' = Listed
    BY <1>13, <1>00 DEF Fetch, Main, Untouched
  <2> QED  BY <1>13, <2>1, <1>0 DEF Fetch, Main, Adding, Types, Members, Member, Kept, Locked, MainHolds, ThreadHolds
<1>14. ASSUME NEW c \in Clients, EndSession(c)  PROVE Members'
  <2>1. Listed' = Listed
    BY <1>14, <1>00 DEF EndSession, At, ThreadGoto, Untouched
  <2> QED  BY <1>14, <2>1, <1>0 DEF EndSession, At, ThreadGoto, Adding, Types, Members, Member, Kept, Locked, MainHolds, ThreadHolds
<1>15. ASSUME NEW c \in Clients, RemoveWait(c)  PROVE Members'
  <2>1. Listed' = Listed
    BY <1>15, <1>00 DEF RemoveWait, At, ThreadGoto, Untouched
  <2> QED  BY <1>15, <2>1, <1>0 DEF RemoveWait, At, ThreadGoto, Adding, Types, Members, Member, Kept, Locked, MainHolds, ThreadHolds
<1>16. ASSUME NEW c \in Clients, RemoveNext(c)  PROVE Members'
  <2>1. Listed' = Listed
    BY <1>16, <1>00 DEF RemoveNext, At, ThreadGoto, Untouched
  <2>2. /\ Kept' = Kept /\ main' = main /\ adding' = adding /\ thread[c] = "scan"
        /\ thread' \in {thread, [thread EXCEPT ![c] = "post"]}
    BY <1>16 DEF RemoveNext, At, ThreadGoto, Kept
  <2>3. cell # Null
    BY <1>16, ScanningFinds DEF RemoveNext, At
  <2>4. thread' = thread
    BY <1>16, <2>3 DEF RemoveNext
  <2> QED  BY <2>1, <2>2, <2>4, <1>0 DEF Members, Member
<1>17. ASSUME NEW c \in Clients, RemoveUnlink(c)  PROVE Members'
  <2>1. Listed' = Listed \ {c}
    BY <1>17, <1>00 DEF Removed
  <2>2. /\ Kept' = Kept /\ main' = main /\ adding' = adding
        /\ thread' = [thread EXCEPT ![c] = "free"]
    BY <1>17 DEF RemoveUnlink, ThreadGoto, Kept
  <2>3. ASSUME NEW d \in Clients, d # c  PROVE Member(d)' <=> Member(d)
    BY <2>2, <2>3, <1>0 DEF Member, Types
  <2>4. ~ Member(c)'
    <3>1. thread[c] = "scan" /\ thread'[c] = "free"
      BY <1>17, <2>2, <1>0 DEF RemoveUnlink, At, Types
    <3>2. c # adding \/ main \notin {"post", "create"}
      BY <3>1, <1>0 DEF Adding
    <3> QED  BY <2>2, <3>1, <3>2 DEF Member
  <2>5. Listed \subseteq Clients
    BY ListedClients DEF ListInv
  <2> QED  BY <2>1, <2>2, <2>3, <2>4, <2>5, <1>0 DEF Members
<1>18. ASSUME NEW c \in Clients, RemoveFree(c)  PROVE Members'
  <2>1. Listed' = Listed
    BY <1>18, <1>00 DEF RemoveFree, At, ThreadGoto, Untouched
  <2> QED  BY <1>18, <2>1, <1>0 DEF RemoveFree, At, ThreadGoto, Adding, Types, Members, Member, Kept, Locked, MainHolds, ThreadHolds
<1>19. ASSUME NEW c \in Clients, RemovePost(c)  PROVE Members'
  <2>1. Listed' = Listed
    BY <1>19, <1>00 DEF RemovePost, At, ThreadGoto, Untouched
  <2> QED  BY <1>19, <2>1, <1>0 DEF RemovePost, At, ThreadGoto, Adding, Types, Members, Member, Kept, Locked, MainHolds, ThreadHolds
<1>20. CASE UNCHANGED vars
  <2>1. Listed' = Listed
    BY <1>20, <1>00 DEF vars, Untouched
  <2> QED  BY <1>20, <2>1, <1>0 DEF vars, Adding, Types, Members, Member, Kept, Locked, MainHolds, ThreadHolds
<1>21. CASE QueuePost
  <2>1. Listed' = Listed
    BY <1>21, <1>00 DEF QueuePost, Main, Untouched
  <2> QED  BY <1>21, <2>1, <1>0 DEF QueuePost, Main, Adding, Types, Members, Member, Kept, Locked, MainHolds, ThreadHolds
<1>22. CASE ApplyStray
  <2>1. Listed' = Listed
    BY <1>22, <1>00 DEF ApplyStray, Handler, Untouched
  <2> QED  BY <1>22, <2>1, <1>0 DEF ApplyStray, Handler, Adding, Types, Members, Member, Kept, Locked, MainHolds, ThreadHolds
<1>23. CASE ClientDies
  <2>1. Listed' = Listed
    BY <1>23, <1>00 DEF ClientDies, Untouched
  <2> QED  BY <1>23, <2>1, <1>0 DEF ClientDies, Adding, Types, Members, Member, Kept, Locked, MainHolds, ThreadHolds
<1> QED
  BY <1>1, <1>2, <1>3, <1>4, <1>5, <1>6, <1>7, <1>8, <1>9, <1>10, <1>11, <1>12, <1>13, <1>14, <1>15, <1>16, <1>17, <1>18, <1>19, <1>20, <1>21, <1>22, <1>23, Steps
(* A cell is listed only while it is allocated. *)
(* list_add allocates before it links, list_remove frees after it unlinks. *)
LEMMA MemoryStep ==
  ASSUME ListInv, [Next]_vars
  PROVE  Memory'
<1> USE DEF list, locals, signal
<1>0. Types /\ Adding /\ Locked /\ Memory /\ Members
  BY DEF ListInv
<1>00. /\ head' = head /\ next' = next => Untouched
       /\ AddLink => Added
       /\ \A c \in Clients : RemoveUnlink(c) => Removed(c)
       /\ Dispose => Emptied
  BY Effects
<1>1. CASE AddWait
  <2>1. Entries' = Entries /\ Listed' = Listed
    BY <1>1, <1>00 DEF AddWait, Main, Untouched
  <2> QED  BY <1>1, <2>1, <1>0 DEF AddWait, Main, Adding, Types, Memory, Kept, Locked, MainHolds, ThreadHolds
<1>2. CASE AddMalloc
  <2>1. Entries' = Entries /\ Listed' = Listed
    BY <1>2, <1>00 DEF AddMalloc, Main, Untouched
  <2> QED  BY <1>2, <2>1, <1>0 DEF AddMalloc, Main, Adding, Types, Memory, Kept, Locked, MainHolds, ThreadHolds
<1>3. CASE AddNoMemory
  <2>1. Entries' = Entries /\ Listed' = Listed
    BY <1>3, <1>00 DEF AddNoMemory, Main, Untouched
  <2> QED  BY <1>3, <2>1, <1>0 DEF AddNoMemory, Main, Adding, Types, Memory, Kept, Locked, MainHolds, ThreadHolds
<1>4. CASE AddLink
  BY <1>4, <1>0, <1>00 DEF AddLink, Main, Added, Adding, Types, Memory, Kept, Locked, MainHolds, ThreadHolds
<1>5. CASE AddPost
  <2>1. Entries' = Entries /\ Listed' = Listed
    BY <1>5, <1>00 DEF AddPost, Main, Untouched
  <2> QED  BY <1>5, <2>1, <1>0 DEF AddPost, Main, Adding, Types, Memory, Kept, Locked, MainHolds, ThreadHolds
<1>6. CASE Create
  <2>1. Entries' = Entries /\ Listed' = Listed
    BY <1>6, <1>00 DEF Create, Main, Untouched
  <2> QED  BY <1>6, <2>1, <1>0 DEF Create, Main, Adding, Types, Memory, Kept, Locked, MainHolds, ThreadHolds
<1>7. CASE MainExit
  <2>1. Entries' = Entries /\ Listed' = Listed
    BY <1>7, <1>00 DEF MainExit, Main, Untouched
  <2> QED  BY <1>7, <2>1, <1>0 DEF MainExit, Main, Adding, Types, Memory, Kept, Locked, MainHolds, ThreadHolds
<1>8. CASE SigFree
  <2>1. Entries' = Entries /\ Listed' = Listed
    BY <1>8, <1>00 DEF SigFree, Untouched
  <2> QED  BY <1>8, <2>1, <1>0 DEF SigFree, Adding, Types, Memory, Kept, Locked, MainHolds, ThreadHolds
<1>9. CASE ApplySignal
  <2>1. Entries' = Entries /\ Listed' = Listed
    BY <1>9, <1>00 DEF ApplySignal, Handler, Untouched
  <2> QED  BY <1>9, <2>1, <1>0 DEF ApplySignal, Handler, Adding, Types, Memory, Kept, Locked, MainHolds, ThreadHolds
<1>10. CASE ApplyAdvance
  <2>1. Entries' = Entries /\ Listed' = Listed
    BY <1>10, <1>00 DEF ApplyAdvance, Handler, Untouched
  <2> QED  BY <1>10, <2>1, <1>0 DEF ApplyAdvance, Handler, Adding, Types, Memory, Kept, Locked, MainHolds, ThreadHolds
<1>11. CASE Dispose
  BY <1>11, <1>0, <1>00 DEF Dispose, Handler, Emptied, Adding, Types, Memory, Kept, Locked, MainHolds, ThreadHolds
<1>12. CASE HandlerExit
  <2>1. Entries' = Entries /\ Listed' = Listed
    BY <1>12, <1>00 DEF HandlerExit, Handler, Untouched
  <2> QED  BY <1>12, <2>1, <1>0 DEF HandlerExit, Handler, Adding, Types, Memory, Kept, Locked, MainHolds, ThreadHolds
<1>13. ASSUME NEW c \in Clients, Fetch(c)  PROVE Memory'
  <2>1. Entries' = Entries /\ Listed' = Listed
    BY <1>13, <1>00 DEF Fetch, Main, Untouched
  <2> QED  BY <1>13, <2>1, <1>0 DEF Fetch, Main, Adding, Types, Memory, Kept, Locked, MainHolds, ThreadHolds
<1>14. ASSUME NEW c \in Clients, EndSession(c)  PROVE Memory'
  <2>1. Entries' = Entries /\ Listed' = Listed
    BY <1>14, <1>00 DEF EndSession, At, ThreadGoto, Untouched
  <2> QED  BY <1>14, <2>1, <1>0 DEF EndSession, At, ThreadGoto, Adding, Types, Memory, Kept, Locked, MainHolds, ThreadHolds
<1>15. ASSUME NEW c \in Clients, RemoveWait(c)  PROVE Memory'
  <2>1. Entries' = Entries /\ Listed' = Listed
    BY <1>15, <1>00 DEF RemoveWait, At, ThreadGoto, Untouched
  <2> QED  BY <1>15, <2>1, <1>0 DEF RemoveWait, At, ThreadGoto, Adding, Types, Memory, Kept, Locked, MainHolds, ThreadHolds
<1>16. ASSUME NEW c \in Clients, RemoveNext(c)  PROVE Memory'
  <2>1. Entries' = Entries /\ Listed' = Listed
    BY <1>16, <1>00 DEF RemoveNext, At, ThreadGoto, Untouched
  <2> QED  BY <1>16, <2>1, <1>0 DEF RemoveNext, At, ThreadGoto, Adding, Types, Memory, Kept, Locked, MainHolds, ThreadHolds
<1>17. ASSUME NEW c \in Clients, RemoveUnlink(c)  PROVE Memory'
  BY <1>17, <1>0, <1>00 DEF RemoveUnlink, At, ThreadGoto, Removed, Adding, Types, Memory, Kept, Locked, MainHolds, ThreadHolds
<1>18. ASSUME NEW c \in Clients, RemoveFree(c)  PROVE Memory'
  <2>1. Listed' = Listed
    BY <1>18, <1>00 DEF RemoveFree, Untouched
  <2>2. thread[c] = "free" /\ allocated' = allocated \ {c} /\ main' = main /\ adding' = adding
        /\ thread' = [thread EXCEPT ![c] = "post"] /\ Kept' = Kept
    BY <1>18 DEF RemoveFree, At, ThreadGoto, Kept
  <2>3. c \notin Listed
    BY <2>2, <1>0 DEF Members, Member, Adding
  <2>4. c # adding \/ main \in {"fetch", "return"}
    BY <2>2, <1>0 DEF Adding
  <2> QED  BY <2>1, <2>2, <2>3, <2>4, <1>0 DEF Memory, Types
<1>19. ASSUME NEW c \in Clients, RemovePost(c)  PROVE Memory'
  <2>1. Entries' = Entries /\ Listed' = Listed
    BY <1>19, <1>00 DEF RemovePost, At, ThreadGoto, Untouched
  <2> QED  BY <1>19, <2>1, <1>0 DEF RemovePost, At, ThreadGoto, Adding, Types, Memory, Kept, Locked, MainHolds, ThreadHolds
<1>20. CASE UNCHANGED vars
  <2>1. Entries' = Entries /\ Listed' = Listed
    BY <1>20, <1>00 DEF vars, Untouched
  <2> QED  BY <1>20, <2>1, <1>0 DEF vars, Adding, Types, Memory, Kept, Locked, MainHolds, ThreadHolds
<1>21. CASE QueuePost
  <2>1. Entries' = Entries /\ Listed' = Listed
    BY <1>21, <1>00 DEF QueuePost, Main, Untouched
  <2> QED  BY <1>21, <2>1, <1>0 DEF QueuePost, Main, Adding, Types, Memory, Kept, Locked, MainHolds, ThreadHolds
<1>22. CASE ApplyStray
  <2>1. Entries' = Entries /\ Listed' = Listed
    BY <1>22, <1>00 DEF ApplyStray, Handler, Untouched
  <2> QED  BY <1>22, <2>1, <1>0 DEF ApplyStray, Handler, Adding, Types, Memory, Kept, Locked, MainHolds, ThreadHolds
<1>23. CASE ClientDies
  <2>1. Entries' = Entries /\ Listed' = Listed
    BY <1>23, <1>00 DEF ClientDies, Untouched
  <2> QED  BY <1>23, <2>1, <1>0 DEF ClientDies, Adding, Types, Memory, Kept, Locked, MainHolds, ThreadHolds
<1> QED
  BY <1>1, <1>2, <1>3, <1>4, <1>5, <1>6, <1>7, <1>8, <1>9, <1>10, <1>11, <1>12, <1>13, <1>14, <1>15, <1>16, <1>17, <1>18, <1>19, <1>20, <1>21, <1>22, <1>23, Steps

(* size and tail agree with the list, but for the cell that list_remove has
   unlinked and not yet counted out. *)
LEMMA SizesStep ==
  ASSUME ListInv, [Next]_vars
  PROVE  Sizes'
<1> USE DEF list, locals, signal
<1>0. Types /\ Adding /\ Locked /\ Sizes
  BY DEF ListInv
<1>1a. Entries \in Seq(Clients) /\ Len(Entries) \in Nat /\ Cardinality(Clients) \in Nat
  BY DistinctBounded, FS_CardinalityType, ClientsAssumption, ListedClients DEF ListInv
<1>1b. Len(Entries') \in 0 .. Cardinality(Clients)
  <2>1. Linked'
    BY Effects
  <2>2. PICK q : q = Entries'
    OBVIOUS
  <2>3. q \in Seq(Clients) /\ Distinct(q)
    BY <2>1, <2>2 DEF Linked, Chain, Distinct
  <2> QED  BY <2>2, <2>3, DistinctBounded
<1>00. /\ head' = head /\ next' = next => Untouched
       /\ AddLink => Added
       /\ \A c \in Clients : RemoveUnlink(c) => Removed(c)
       /\ Dispose => Emptied
  BY Effects
<1>1. CASE AddWait
  <2>1. Entries' = Entries /\ Listed' = Listed
    BY <1>1, <1>00 DEF AddWait, Main, Untouched
  <2> QED  BY <1>1, <2>1, <1>0 DEF AddWait, Main, Adding, Types, Sizes, Kept, Locked, MainHolds, ThreadHolds
<1>2. CASE AddMalloc
  <2>1. Entries' = Entries /\ Listed' = Listed
    BY <1>2, <1>00 DEF AddMalloc, Main, Untouched
  <2> QED  BY <1>2, <2>1, <1>0 DEF AddMalloc, Main, Adding, Types, Sizes, Kept, Locked, MainHolds, ThreadHolds
<1>3. CASE AddNoMemory
  <2>1. Entries' = Entries /\ Listed' = Listed
    BY <1>3, <1>00 DEF AddNoMemory, Main, Untouched
  <2> QED  BY <1>3, <2>1, <1>0 DEF AddNoMemory, Main, Adding, Types, Sizes, Kept, Locked, MainHolds, ThreadHolds
<1>4. CASE AddLink
  <2>1. main = "link" /\ size' = size + 1 /\ tail' = adding /\ thread' = thread
    BY <1>4 DEF AddLink, Main
  <2>2. Entries' = Append(Entries, adding) /\ adding \in Clients
    BY <1>4, <1>00 DEF Added
  <2>3. Len(Entries') = Len(Entries) + 1 /\ Entries'[Len(Entries')] = adding
    BY <2>2, <1>1a
  <2>4. (\A c \in Clients : thread[c] \notin {"free", "post"}) /\ Kept
    BY <2>1, <1>0 DEF Locked, MainHolds, ThreadHolds
  <2>5. size = Len(Entries)
    BY <2>4, <1>0 DEF Sizes
  <2>6. size' = Len(Entries')
    BY <2>1, <2>3, <2>5
  <2> QED  BY <2>1, <2>3, <2>4, <2>6, <1>1b DEF Sizes
<1>5. CASE AddPost
  <2>1. Entries' = Entries /\ Listed' = Listed
    BY <1>5, <1>00 DEF AddPost, Main, Untouched
  <2> QED  BY <1>5, <2>1, <1>0 DEF AddPost, Main, Adding, Types, Sizes, Kept, Locked, MainHolds, ThreadHolds
<1>6. CASE Create
  <2>1. Entries' = Entries /\ Listed' = Listed
    BY <1>6, <1>00 DEF Create, Main, Untouched
  <2> QED  BY <1>6, <2>1, <1>0 DEF Create, Main, Adding, Types, Sizes, Kept, Locked, MainHolds, ThreadHolds
<1>7. CASE MainExit
  <2>1. Entries' = Entries /\ Listed' = Listed
    BY <1>7, <1>00 DEF MainExit, Main, Untouched
  <2> QED  BY <1>7, <2>1, <1>0 DEF MainExit, Main, Adding, Types, Sizes, Kept, Locked, MainHolds, ThreadHolds
<1>8. CASE SigFree
  <2>1. Entries' = Entries /\ Listed' = Listed
    BY <1>8, <1>00 DEF SigFree, Untouched
  <2> QED  BY <1>8, <2>1, <1>0 DEF SigFree, Adding, Types, Sizes, Kept, Locked, MainHolds, ThreadHolds
<1>9. CASE ApplySignal
  <2>1. Entries' = Entries /\ Listed' = Listed
    BY <1>9, <1>00 DEF ApplySignal, Handler, Untouched
  <2> QED  BY <1>9, <2>1, <1>0 DEF ApplySignal, Handler, Adding, Types, Sizes, Kept, Locked, MainHolds, ThreadHolds
<1>10. CASE ApplyAdvance
  <2>1. Entries' = Entries /\ Listed' = Listed
    BY <1>10, <1>00 DEF ApplyAdvance, Handler, Untouched
  <2> QED  BY <1>10, <2>1, <1>0 DEF ApplyAdvance, Handler, Adding, Types, Sizes, Kept, Locked, MainHolds, ThreadHolds
<1>11. CASE Dispose
  <2>1. handler' = "disposed" /\ size' = size
    BY <1>11 DEF Dispose
  <2> QED  BY <2>1, <1>0 DEF Sizes, Kept
<1>12. CASE HandlerExit
  <2>1. Entries' = Entries /\ Listed' = Listed
    BY <1>12, <1>00 DEF HandlerExit, Handler, Untouched
  <2> QED  BY <1>12, <2>1, <1>0 DEF HandlerExit, Handler, Adding, Types, Sizes, Kept, Locked, MainHolds, ThreadHolds
<1>13. ASSUME NEW c \in Clients, Fetch(c)  PROVE Sizes'
  <2>1. Entries' = Entries /\ Listed' = Listed
    BY <1>13, <1>00 DEF Fetch, Main, Untouched
  <2> QED  BY <1>13, <2>1, <1>0 DEF Fetch, Main, Adding, Types, Sizes, Kept, Locked, MainHolds, ThreadHolds
<1>14. ASSUME NEW c \in Clients, EndSession(c)  PROVE Sizes'
  <2>1. Entries' = Entries /\ Listed' = Listed
    BY <1>14, <1>00 DEF EndSession, At, ThreadGoto, Untouched
  <2> QED  BY <1>14, <2>1, <1>0 DEF EndSession, At, ThreadGoto, Adding, Types, Sizes, Kept, Locked, MainHolds, ThreadHolds
<1>15. ASSUME NEW c \in Clients, RemoveWait(c)  PROVE Sizes'
  <2>1. Entries' = Entries /\ Listed' = Listed
    BY <1>15, <1>00 DEF RemoveWait, At, ThreadGoto, Untouched
  <2> QED  BY <1>15, <2>1, <1>0 DEF RemoveWait, At, ThreadGoto, Adding, Types, Sizes, Kept, Locked, MainHolds, ThreadHolds
<1>16. ASSUME NEW c \in Clients, RemoveNext(c)  PROVE Sizes'
  <2>1. Entries' = Entries
    BY <1>16, <1>00 DEF RemoveNext, Untouched
  <2>2. cell # Null
    BY <1>16, ScanningFinds DEF RemoveNext, At
  <2>3. thread' = thread /\ thread[c] = "scan" /\ tail' = tail /\ size' = size /\ Kept' = Kept
    BY <1>16, <2>2 DEF RemoveNext, At, Kept
  <2>4. \A d \in Clients : thread[d] \notin {"free", "post"}
    BY <2>3, <1>0 DEF Locked, ThreadHolds
  <2> QED  BY <2>1, <2>3, <2>4, <1>0 DEF Sizes
<1>17. ASSUME NEW c \in Clients, RemoveUnlink(c)  PROVE Sizes'
  <2>1. Removed(c) /\ thread[c] = "scan" /\ cell = c /\ cell' = cell /\ size' = size
    BY <1>17, <1>00 DEF RemoveUnlink, At
  <2>2. Kept /\ Kept' /\ \A d \in Clients : ThreadHolds(d) => d = c
    BY <1>17, <2>1, <1>0 DEF Locked, ThreadHolds, RemoveUnlink, Kept
  <2>3. \A d \in Clients : thread[d] \notin {"free", "post"}
    BY <2>1, <2>2 DEF ThreadHolds
  <2>4. size = Len(Entries) /\ (Len(Entries) > 0 => tail = Entries[Len(Entries)])
    BY <2>2, <2>3, <1>0 DEF Sizes
  <2>5. thread' = [thread EXCEPT ![c] = "free"]
    BY <1>17 DEF RemoveUnlink, ThreadGoto
  <2>6. \A d \in Clients : thread'[d] \in {"free", "post"} <=> d = c
    BY <2>3, <2>5, <1>0 DEF Types
  <2>7. PICK q \in Seq(Clients) : q = Entries
    BY <1>1a
  <2>8. PICK n \in 1 .. Len(q) : n = i
    BY <2>1, <2>7 DEF Removed
  <2>9. Entries' = [k \in 1 .. Len(q) - 1 |-> IF k < n THEN q[k] ELSE q[k + 1]]
    BY <2>1, <2>7, <2>8 DEF Removed, CR!Without
  <2>10. PICK l \in Nat : l = Len(q) - 1 /\ Len(Entries') = l /\ Len(Entries) = l + 1
    BY <2>1, <2>7, <2>8 DEF Removed
  <2>11. ASSUME l > 0  PROVE tail' = Entries'[l]
    <3>1. Entries'[l] = IF l < n THEN q[l] ELSE q[l + 1]
      BY <2>9, <2>10, <2>11
    <3>2. tail = q[l + 1]
      BY <2>4, <2>7, <2>10
    <3>3. CASE n = l + 1
      <4>1. tail' = prev
        BY <1>17, <3>3, <2>4, <2>8, <2>10 DEF RemoveUnlink
      <4>2. prev = q[l]
        BY <2>1, <3>3, <2>7, <2>8, <2>10, <2>11 DEF Removed, Nth
      <4> QED  BY <4>1, <4>2, <3>1, <3>3
    <3>4. CASE n # l + 1
      <4>1. tail' = tail /\ ~ (l < n)
        BY <1>17, <3>4, <2>4, <2>8, <2>10 DEF RemoveUnlink
      <4> QED  BY <4>1, <3>1, <3>2
    <3> QED  BY <3>3, <3>4
  <2>12. size' = Len(Entries') + 1
    BY <2>1, <2>4, <2>10
  <2> QED  BY <2>1, <2>2, <2>6, <2>10, <2>11, <2>12, <1>0 DEF Sizes
<1>18. ASSUME NEW c \in Clients, RemoveFree(c)  PROVE Sizes'
  <2>1. Entries' = Entries /\ Listed' = Listed
    BY <1>18, <1>00 DEF RemoveFree, At, ThreadGoto, Untouched
  <2> QED  BY <1>18, <2>1, <1>0 DEF RemoveFree, At, ThreadGoto, Adding, Types, Sizes, Kept, Locked, MainHolds, ThreadHolds
<1>19. ASSUME NEW c \in Clients, RemovePost(c)  PROVE Sizes'
  <2>1. Entries' = Entries
    BY <1>19, <1>00 DEF RemovePost, Untouched
  <2>2. thread[c] = "post" /\ tail' = tail /\ thread' = [thread EXCEPT ![c] = "done"]
    BY <1>19 DEF RemovePost, At, ThreadGoto
  <2>3. Kept /\ Kept' /\ \A d \in Clients : ThreadHolds(d) => d = c
    BY <1>19, <2>2, <1>0 DEF Locked, ThreadHolds, RemovePost, Kept
  <2>4. \A d \in Clients : thread'[d] \notin {"free", "post"}
    BY <2>2, <2>3, <1>0 DEF ThreadHolds, Types
  <2>5. size = Len(Entries) + 1 /\ cell = c
    BY <2>2, <2>3, <1>0 DEF Sizes
  <2>6. size' = Len(Entries')
    BY <1>19, <2>1, <2>5, <1>1a DEF RemovePost
  <2> QED  BY <2>1, <2>2, <2>3, <2>4, <2>6, <1>0, <1>1b DEF Sizes
<1>20. CASE UNCHANGED vars
  <2>1. Entries' = Entries /\ Listed' = Listed
    BY <1>20, <1>00 DEF vars, Untouched
  <2> QED  BY <1>20, <2>1, <1>0 DEF vars, Adding, Types, Sizes, Kept, Locked, MainHolds, ThreadHolds
<1>21. CASE QueuePost
  <2>1. Entries' = Entries /\ Listed' = Listed
    BY <1>21, <1>00 DEF QueuePost, Main, Untouched
  <2> QED  BY <1>21, <2>1, <1>0 DEF QueuePost, Main, Adding, Types, Sizes, Kept, Locked, MainHolds, ThreadHolds
<1>22. CASE ApplyStray
  <2>1. Entries' = Entries /\ Listed' = Listed
    BY <1>22, <1>00 DEF ApplyStray, Handler, Untouched
  <2> QED  BY <1>22, <2>1, <1>0 DEF ApplyStray, Handler, Adding, Types, Sizes, Kept, Locked, MainHolds, ThreadHolds
<1>23. CASE ClientDies
  <2>1. Entries' = Entries /\ Listed' = Listed
    BY <1>23, <1>00 DEF ClientDies, Untouched
  <2> QED  BY <1>23, <2>1, <1>0 DEF ClientDies, Adding, Types, Sizes, Kept, Locked, MainHolds, ThreadHolds
<1> QED
  BY <1>1, <1>2, <1>3, <1>4, <1>5, <1>6, <1>7, <1>8, <1>9, <1>10, <1>11, <1>12, <1>13, <1>14, <1>15, <1>16, <1>17, <1>18, <1>19, <1>20, <1>21, <1>22, <1>23, Steps

(* The variables of list_remove follow the list, which nobody else changes
   meanwhile. *)
LEMMA ScanningStep ==
  ASSUME ListInv, [Next]_vars
  PROVE  Scanning'
<1> USE DEF list, locals, signal
<1>0. Types /\ Adding /\ Locked /\ Scanning
  BY DEF ListInv
<1>1a. Entries \in Seq(Clients) /\ Len(Entries) \in Nat
  BY ListedClients DEF ListInv
<1>00. /\ head' = head /\ next' = next => Untouched
       /\ AddLink => Added
       /\ \A c \in Clients : RemoveUnlink(c) => Removed(c)
       /\ Dispose => Emptied
  BY Effects
<1>1. CASE AddWait
  <2>1. Entries' = Entries /\ Listed' = Listed
    BY <1>1, <1>00 DEF AddWait, Main, Untouched
  <2> QED  BY <1>1, <2>1, <1>0 DEF AddWait, Main, Adding, Types, Scanning, Locked, MainHolds, ThreadHolds, ThreadPC
<1>2. CASE AddMalloc
  <2>1. Entries' = Entries /\ Listed' = Listed
    BY <1>2, <1>00 DEF AddMalloc, Main, Untouched
  <2> QED  BY <1>2, <2>1, <1>0 DEF AddMalloc, Main, Adding, Types, Scanning, Locked, MainHolds, ThreadHolds, ThreadPC
<1>3. CASE AddNoMemory
  <2>1. Entries' = Entries /\ Listed' = Listed
    BY <1>3, <1>00 DEF AddNoMemory, Main, Untouched
  <2> QED  BY <1>3, <2>1, <1>0 DEF AddNoMemory, Main, Adding, Types, Scanning, Locked, MainHolds, ThreadHolds, ThreadPC
<1>4. CASE AddLink
  <2>1. main = "link" /\ thread' = thread
    BY <1>4 DEF AddLink, Main
  <2> QED  BY <2>1, <1>0 DEF Locked, MainHolds, ThreadHolds, Scanning
<1>5. CASE AddPost
  <2>1. Entries' = Entries /\ Listed' = Listed
    BY <1>5, <1>00 DEF AddPost, Main, Untouched
  <2> QED  BY <1>5, <2>1, <1>0 DEF AddPost, Main, Adding, Types, Scanning, Locked, MainHolds, ThreadHolds, ThreadPC
<1>6. CASE Create
  <2>1. Entries' = Entries /\ Listed' = Listed
    BY <1>6, <1>00 DEF Create, Main, Untouched
  <2> QED  BY <1>6, <2>1, <1>0 DEF Create, Main, Adding, Types, Scanning, Locked, MainHolds, ThreadHolds, ThreadPC
<1>7. CASE MainExit
  <2>1. Entries' = Entries /\ Listed' = Listed
    BY <1>7, <1>00 DEF MainExit, Main, Untouched
  <2> QED  BY <1>7, <2>1, <1>0 DEF MainExit, Main, Adding, Types, Scanning, Locked, MainHolds, ThreadHolds, ThreadPC
<1>8. CASE SigFree
  <2>1. Entries' = Entries /\ Listed' = Listed
    BY <1>8, <1>00 DEF SigFree, Untouched
  <2> QED  BY <1>8, <2>1, <1>0 DEF SigFree, Adding, Types, Scanning, Locked, MainHolds, ThreadHolds, ThreadPC
<1>9. CASE ApplySignal
  <2>1. Entries' = Entries /\ Listed' = Listed
    BY <1>9, <1>00 DEF ApplySignal, Handler, Untouched
  <2> QED  BY <1>9, <2>1, <1>0 DEF ApplySignal, Handler, Adding, Types, Scanning, Locked, MainHolds, ThreadHolds, ThreadPC
<1>10. CASE ApplyAdvance
  <2>1. Entries' = Entries /\ Listed' = Listed
    BY <1>10, <1>00 DEF ApplyAdvance, Handler, Untouched
  <2> QED  BY <1>10, <2>1, <1>0 DEF ApplyAdvance, Handler, Adding, Types, Scanning, Locked, MainHolds, ThreadHolds, ThreadPC
<1>11. CASE Dispose
  <2>1. mutex > 0 /\ thread' = thread
    BY <1>11 DEF Dispose
  <2> QED  BY <2>1, <1>0 DEF Locked, ThreadHolds, Scanning
<1>12. CASE HandlerExit
  <2>1. Entries' = Entries /\ Listed' = Listed
    BY <1>12, <1>00 DEF HandlerExit, Handler, Untouched
  <2> QED  BY <1>12, <2>1, <1>0 DEF HandlerExit, Handler, Adding, Types, Scanning, Locked, MainHolds, ThreadHolds, ThreadPC
<1>13. ASSUME NEW c \in Clients, Fetch(c)  PROVE Scanning'
  <2>1. Entries' = Entries /\ Listed' = Listed
    BY <1>13, <1>00 DEF Fetch, Main, Untouched
  <2> QED  BY <1>13, <2>1, <1>0 DEF Fetch, Main, Adding, Types, Scanning, Locked, MainHolds, ThreadHolds, ThreadPC
<1>14. ASSUME NEW c \in Clients, EndSession(c)  PROVE Scanning'
  <2>1. Entries' = Entries /\ Listed' = Listed
    BY <1>14, <1>00 DEF EndSession, At, ThreadGoto, Untouched
  <2> QED  BY <1>14, <2>1, <1>0 DEF EndSession, At, ThreadGoto, Adding, Types, Scanning, Locked, MainHolds, ThreadHolds, ThreadPC
<1>15. ASSUME NEW c \in Clients, RemoveWait(c)  PROVE Scanning'
  <2>1. Entries' = Entries
    BY <1>15, <1>00 DEF RemoveWait, Untouched
  <2>2. head = Nth(Entries, 1)
    BY DEF ListInv, Linked, Chain
  <2>3. thread' = [thread EXCEPT ![c] = "scan"] /\ cell' = head /\ prev' = Null /\ i' = 1
    BY <1>15 DEF RemoveWait, ThreadGoto
  <2>4. \A d \in Clients : thread[d] # "scan"
    BY <1>15, <1>0 DEF RemoveWait, Locked, ThreadHolds
  <2>5. \A d \in Clients : thread'[d] = "scan" => d = c
    BY <2>3, <2>4, <1>0 DEF Types
  <2>6. Null = Nth(Entries, 0)
    BY DEF Nth
  <2> QED  BY <2>1, <2>2, <2>3, <2>5, <2>6, <1>1a DEF Scanning, Nth
<1>16. ASSUME NEW c \in Clients, RemoveNext(c)  PROVE Scanning'
  <2>1. Entries' = Entries
    BY <1>16, <1>00 DEF RemoveNext, Untouched
  <2>2. thread[c] = "scan" /\ cell # c
    BY <1>16 DEF RemoveNext, At
  <2>3. i \in 1 .. Len(Entries) /\ cell = Entries[i] /\ cell # Null
    BY <2>2, ScanningFinds
  <2>4. thread' = thread /\ prev' = cell /\ cell' = next[cell] /\ i' = i + 1
    BY <1>16, <2>3 DEF RemoveNext
  <2>5. next[cell] = Nth(Entries, i + 1)
    BY <2>3 DEF ListInv, Linked, Chain
  <2>6. \A d \in Clients : thread[d] = "scan" => d = c
    BY <2>2, <1>0 DEF Locked, ThreadHolds
  <2>7. /\ i' \in 1 .. Len(Entries) + 1
        /\ cell' = Nth(Entries, i') /\ prev' = Nth(Entries, i' - 1)
    BY <2>3, <2>4, <2>5, <1>1a DEF Nth
  <2>8. \A k \in 1 .. i' - 1 : Entries[k] # c
    BY <2>2, <2>3, <2>4, <1>0, <1>1a DEF Scanning
  <2>9. ASSUME NEW d \in Clients, thread'[d] = "scan"
        PROVE  /\ i' \in 1 .. Len(Entries') + 1
               /\ cell' = Nth(Entries, i')
               /\ prev' = Nth(Entries, i' - 1)
               /\ \A k \in 1 .. i' - 1 : Entries[k] # d
    BY <2>1, <2>4, <2>6, <2>7, <2>8, <2>9
  <2> QED  BY <2>1, <2>9 DEF Scanning, Nth
<1>17. ASSUME NEW c \in Clients, RemoveUnlink(c)  PROVE Scanning'
  <2>1. thread[c] = "scan" /\ thread' = [thread EXCEPT ![c] = "free"]
    BY <1>17 DEF RemoveUnlink, At, ThreadGoto
  <2>2. \A d \in Clients : thread'[d] # "scan"
    BY <2>1, <1>0 DEF Locked, ThreadHolds, Types
  <2> QED  BY <2>2 DEF Scanning
<1>18. ASSUME NEW c \in Clients, RemoveFree(c)  PROVE Scanning'
  <2>1. Entries' = Entries /\ Listed' = Listed
    BY <1>18, <1>00 DEF RemoveFree, At, ThreadGoto, Untouched
  <2> QED  BY <1>18, <2>1, <1>0 DEF RemoveFree, At, ThreadGoto, Adding, Types, Scanning, Locked, MainHolds, ThreadHolds, ThreadPC
<1>19. ASSUME NEW c \in Clients, RemovePost(c)  PROVE Scanning'
  <2>1. Entries' = Entries /\ Listed' = Listed
    BY <1>19, <1>00 DEF RemovePost, At, ThreadGoto, Untouched
  <2> QED  BY <1>19, <2>1, <1>0 DEF RemovePost, At, ThreadGoto, Adding, Types, Scanning, Locked, MainHolds, ThreadHolds, ThreadPC
<1>20. CASE UNCHANGED vars
  <2>1. Entries' = Entries /\ Listed' = Listed
    BY <1>20, <1>00 DEF vars, Untouched
  <2> QED  BY <1>20, <2>1, <1>0 DEF vars, Adding, Types, Scanning, Locked, MainHolds, ThreadHolds, ThreadPC
<1>21. CASE QueuePost
  <2>1. Entries' = Entries /\ Listed' = Listed
    BY <1>21, <1>00 DEF QueuePost, Main, Untouched
  <2> QED  BY <1>21, <2>1, <1>0 DEF QueuePost, Main, Adding, Types, Scanning, Locked, MainHolds, ThreadHolds, ThreadPC
<1>22. CASE ApplyStray
  <2>1. Entries' = Entries /\ Listed' = Listed
    BY <1>22, <1>00 DEF ApplyStray, Handler, Untouched
  <2> QED  BY <1>22, <2>1, <1>0 DEF ApplyStray, Handler, Adding, Types, Scanning, Locked, MainHolds, ThreadHolds, ThreadPC
<1>23. CASE ClientDies
  <2>1. Entries' = Entries /\ Listed' = Listed
    BY <1>23, <1>00 DEF ClientDies, Untouched
  <2> QED  BY <1>23, <2>1, <1>0 DEF ClientDies, Adding, Types, Scanning, Locked, MainHolds, ThreadHolds, ThreadPC
<1> QED
  BY <1>1, <1>2, <1>3, <1>4, <1>5, <1>6, <1>7, <1>8, <1>9, <1>10, <1>11, <1>12, <1>13, <1>14, <1>15, <1>16, <1>17, <1>18, <1>19, <1>20, <1>21, <1>22, <1>23, Steps

(* Nothing but the stop signal starts list_apply. *)
LEMMA WalkingIdle ==
  ASSUME handler' \in {"none", "disposed", "exited", "crashed"}
  PROVE  Walking'
  BY DEF Walking

(* What list_apply has left to do does not change when the pointers do not. *)
LEMMA WalkingSame ==
  ASSUME Walking, Listed' = Listed, next' = next, walk' = walk, handler' = handler,
         signalled' = signalled, strayed' = strayed
  PROVE  Walking'
<1>1. ASSUME handler \in {"signal", "advance"}, ~strayed
      PROVE  \E r \in Seq(Clients) : Covers(r)' /\ \E w \in 1 .. Len(r) : Passed(r, w)'
  <2>1. PICK r \in Seq(Clients) : Covers(r) /\ \E w \in 1 .. Len(r) : Passed(r, w)
    BY <1>1 DEF Walking
  <2>2. PICK w \in 1 .. Len(r) : Passed(r, w)
    BY <2>1
  <2>3. Covers(r)'
    BY <2>1 DEF Covers, Skips, Nth
  <2>4. Passed(r, w)'
    BY <2>2 DEF Passed
  <2> QED  BY <2>3, <2>4
<1> QED  BY <1>1 DEF Walking

(* A cell that is taken out stays on the way to those that follow it. *)
LEMMA WalkingUnlink ==
  ASSUME ListInv, NEW c \in Clients, Removed(c)
  PROVE  Walking'
<1>1. /\ walk' = walk /\ handler' = handler /\ signalled' = signalled /\ strayed' = strayed
      /\ Listed' = Listed \ {c}
      /\ next' \in {next, [next EXCEPT ![prev] = next[c]]} /\ prev' = prev
      /\ cell = c
  BY DEF Removed, RemoveUnlink, signal, locals
<1>2. next \in [Clients -> Pointer] /\ c # Null
  BY ClientsAssumption DEF ListInv, Types
<1>3. prev = Null \/ (prev \in Clients /\ next[prev] = c)
  <2>1. i \in 1 .. Len(Entries) /\ prev = Nth(Entries, i - 1) /\ Entries[i] = c
    BY <1>1 DEF Removed
  <2>2. Entries \in Seq(Clients) /\ \A k \in 1 .. Len(Entries) : next[Entries[k]] = Nth(Entries, k + 1)
    BY DEF ListInv, Linked, Chain
  <2>3. CASE i = 1
    BY <2>1, <2>3 DEF Nth
  <2>4. CASE i # 1
    <3>1. i - 1 \in 1 .. Len(Entries) /\ (i - 1) + 1 = i
      BY <2>1, <2>2, <2>4
    <3>2. prev = Entries[i - 1] /\ Nth(Entries, i) = c
      BY <2>1, <3>1 DEF Nth
    <3>3. next[Entries[i - 1]] = Nth(Entries, i)
      BY <2>2, <3>1
    <3> QED  BY <2>2, <3>1, <3>2, <3>3
  <2> QED  BY <2>3, <2>4
<1>4. ASSUME handler \in {"signal", "advance"}, ~strayed
      PROVE  \E r \in Seq(Clients) : Covers(r)' /\ \E w \in 1 .. Len(r) : Passed(r, w)'
  <2>1. PICK r \in Seq(Clients) : Covers(r) /\ \E w \in 1 .. Len(r) : Passed(r, w)
    BY <1>4 DEF ListInv, Walking
  <2>2. PICK w \in 1 .. Len(r) : Passed(r, w)
    BY <2>1
  <2>3. Len(r) \in Nat /\ \A k \in 1 .. Len(r) : r[k] \in Clients
    BY <2>1
  <2>4. ASSUME NEW j \in 1 .. Len(r)  PROVE Skips(r, j, next[r[j]])'
    <3>1. PICK k \in (j + 1) .. (Len(r) + 1) :
            next[r[j]] = Nth(r, k) /\ \A m \in (j + 1) .. (k - 1) : r[m] \notin Listed
      BY <2>1 DEF Covers, Skips
    <3>2. CASE next'[r[j]] = next[r[j]]
      <4>1. next'[r[j]] = Nth(r, k) /\ \A m \in (j + 1) .. (k - 1) : r[m] \notin Listed'
        BY <3>1, <3>2, <1>1
      <4> QED  BY <4>1, <3>1 DEF Skips, Nth
    <3>3. CASE next'[r[j]] # next[r[j]]
      <4>1. r[j] = prev /\ next'[r[j]] = next[c] /\ next[prev] = c
        <5>1. r[j] \in Clients
          BY <2>3
        <5>2. next' = [next EXCEPT ![prev] = next[c]]
          BY <3>3, <1>1
        <5>3. r[j] = prev
          BY <5>1, <5>2, <3>3, <1>2
        <5>4. prev # Null
          BY <5>1, <5>3, ClientsAssumption
        <5> QED  BY <5>1, <5>2, <5>3, <5>4, <1>2, <1>3
      <4>2. k \in 1 .. Len(r) /\ r[k] = c
        BY <3>1, <4>1, <1>2 DEF Nth
      <4>3. PICK l \in (k + 1) .. (Len(r) + 1) :
              next[c] = Nth(r, l) /\ \A m \in (k + 1) .. (l - 1) : r[m] \notin Listed
        BY <4>2, <2>1 DEF Covers, Skips
      <4>4. \A m \in (j + 1) .. (l - 1) : r[m] \notin Listed'
        <5> TAKE m \in (j + 1) .. (l - 1)
        <5>1. CASE m < k
          BY <5>1, <3>1, <1>1, <2>3
        <5>2. CASE m = k
          BY <5>2, <4>2, <1>1
        <5>3. CASE m > k
          BY <5>3, <4>3, <1>1, <2>3
        <5> QED  BY <5>1, <5>2, <5>3, <2>3
      <4>5. l \in (j + 1) .. (Len(r) + 1) /\ next'[r[j]] = Nth(r, l)
        BY <3>1, <4>1, <4>3, <2>3
      <4> QED  BY <4>4, <4>5 DEF Skips, Nth
    <3> QED  BY <3>2, <3>3
  <2>5. Covers(r)'
    <3>1. \A d \in Listed' : \E k \in 1 .. Len(r) : r[k] = d
      BY <1>1, <2>1 DEF Covers
    <3> QED  BY <2>1, <2>4, <3>1 DEF Covers, Skips, Nth
  <2>6. Passed(r, w)'
    BY <1>1, <2>2 DEF Passed
  <2> QED  BY <2>5, <2>6
<1> QED  BY <1>1, <1>4 DEF ListInv, Walking

(* list_apply starts at the head of the list. *)
LEMMA WalkingStart ==
  ASSUME ListInv, SigFree, Listed' = Listed
  PROVE  Walking'
<1>1. /\ walk' = head /\ next' = next /\ signalled' = signalled /\ head \in Pointer
      /\ handler' = IF head = Null THEN "wait" ELSE "signal"
  BY DEF SigFree, list, ListInv, Linked, Chain, Nth, Pointer
<1>2. PICK q : q = Entries
  OBVIOUS
<1>3. /\ q \in Seq(Clients) /\ Len(q) \in Nat
      /\ \A k \in 1 .. Len(q) : q[k] \in Clients /\ q[k] # Null
      /\ head = Nth(q, 1)
      /\ \A k \in 1 .. Len(q) : next[q[k]] = Nth(q, k + 1)
  <2>1. Chain(q)
    BY <1>2 DEF ListInv, Linked
  <2> QED  BY <2>1, ClientsAssumption DEF Chain
<1>4. \A d : d \in Listed <=> \E k \in 1 .. Len(q) : q[k] = d
  BY <1>2, <1>3, ListedOf
<1>5. CASE head = Null
  <2>1. Listed' = {}
    BY <1>3, <1>4, <1>5 DEF Nth
  <2> QED  BY <2>1, <1>1, <1>5 DEF Walking
<1>6. CASE head # Null
  <2>1. 1 \in 1 .. Len(q) /\ head = q[1]
    BY <1>3, <1>6 DEF Nth
  <2>2. ASSUME NEW j \in 1 .. Len(q)  PROVE Skips(q, j, next[q[j]])'
    <3>1. next'[q[j]] = Nth(q, j + 1) /\ j + 1 \in (j + 1) .. (Len(q) + 1)
      BY <1>1, <1>3
    <3>2. \A m \in (j + 1) .. ((j + 1) - 1) : q[m] \notin Listed'
      BY <1>3
    <3> QED  BY <3>1, <3>2 DEF Skips, Nth
  <2>3. Covers(q)'
    BY <1>3, <1>4, <2>2 DEF Covers, Skips, Nth
  <2>4. Passed(q, 1)'
    BY <1>1, <1>6, <2>1 DEF Passed
  <2> QED  BY <1>1, <1>3, <1>6, <2>1, <2>3, <2>4 DEF Walking
<1> QED  BY <1>5, <1>6

(* The cell that list_apply is at is signalled before it goes on. *)
LEMMA WalkingSignal ==
  ASSUME ListInv, ApplySignal, Listed' = Listed
  PROVE  Walking'
<1>1. /\ handler = "signal" /\ next' = next /\ walk' = walk /\ walk \in Clients
      /\ handler' = "advance" /\ strayed' = strayed
      /\ signalled \subseteq signalled' /\ walk \in signalled'
  BY DEF ApplySignal, Handler, list, ListInv, Walking
<1>2. CASE strayed
  BY <1>1, <1>2 DEF Walking
<1>3. CASE ~strayed
  <2>1. PICK r \in Seq(Clients) : Covers(r) /\ \E w \in 1 .. Len(r) : Passed(r, w)
    BY <1>1, <1>3 DEF ListInv, Walking
  <2>2. PICK w \in 1 .. Len(r) : Passed(r, w)
    BY <2>1
  <2>3. Covers(r)'
    BY <1>1, <2>1 DEF Covers, Skips, Nth
  <2>4. Passed(r, w)'
    BY <1>1, <2>2 DEF Passed
  <2> QED  BY <1>1, <2>1, <2>3, <2>4 DEF Walking
<1> QED  BY <1>2, <1>3

(* Once list_apply has read a freed cell, all that is left is that it is at some
   cell, or at none and through. *)
LEMMA WalkingStray ==
  ASSUME ListInv, ApplyStray
  PROVE  Walking'
<1>1. strayed' = TRUE
  BY DEF ApplyStray
<1>2. walk \in Clients
  BY DEF ApplyStray, Handler, ListInv, Walking
<1>3. handler' \in {"signal", "advance"} => walk' \in Clients
  BY <1>2 DEF ApplyStray, Handler, Pointer
<1> QED  BY <1>1, <1>3 DEF Walking

(* next leads past cells that were taken out only, whether the cell itself is
   still on the list or not. *)
LEMMA WalkingAdvance ==
  ASSUME ListInv, ApplyAdvance, Listed' = Listed
  PROVE  Walking'
<1>1. /\ handler = "advance" /\ next' = next /\ walk' = next[walk] /\ signalled' = signalled
      /\ handler' = IF walk' = Null THEN "wait" ELSE "signal"
      /\ strayed' = strayed /\ walk' \in Pointer
  <2>1. /\ handler = "advance" /\ next' = next /\ walk' = next[walk] /\ signalled' = signalled
        /\ handler' = IF walk' = Null THEN "wait" ELSE "signal"
        /\ strayed' = strayed
    BY DEF ApplyAdvance, Handler, list
  <2>2. next \in [Clients -> Pointer] /\ walk \in Clients
    BY <2>1 DEF ListInv, Types, Walking
  <2> QED  BY <2>1, <2>2
<1>2. CASE strayed
  BY <1>1, <1>2 DEF Walking, Pointer
<1>3. CASE ~strayed
  <2>2. PICK r \in Seq(Clients) : Covers(r) /\ \E w \in 1 .. Len(r) : Passed(r, w)
    BY <1>1, <1>3 DEF ListInv, Walking
  <2>3. PICK w \in 1 .. Len(r) : Passed(r, w)
    BY <2>2
  <2>4. Len(r) \in Nat /\ \A k \in 1 .. Len(r) : r[k] \in Clients /\ r[k] # Null
    BY <2>2, ClientsAssumption
  <2>5. PICK k \in (w + 1) .. (Len(r) + 1) :
          walk' = Nth(r, k) /\ \A m \in (w + 1) .. (k - 1) : r[m] \notin Listed
    BY <1>1, <2>2, <2>3 DEF Covers, Skips, Passed
  <2>6. \A m \in 1 .. k - 1 : r[m] \in Listed' => r[m] \in signalled'
    <3> TAKE m \in 1 .. k - 1
    <3>1. CASE m < w
      BY <3>1, <1>1, <2>3, <2>4 DEF Passed
    <3>2. CASE m = w
      BY <3>2, <1>1, <2>3 DEF Passed
    <3>3. CASE m > w
      BY <3>3, <2>4, <2>5
    <3> QED  BY <3>1, <3>2, <3>3, <2>4
  <2>7. CASE k = Len(r) + 1
    <3>1. walk' = Null
      BY <2>4, <2>5, <2>7 DEF Nth
    <3>2. Listed' \subseteq signalled'
      BY <2>2, <2>4, <2>6, <2>7 DEF Covers
    <3> QED  BY <1>1, <3>1, <3>2 DEF Walking
  <2>8. CASE k # Len(r) + 1
    <3>1. k \in 1 .. Len(r) /\ walk' = r[k] /\ walk' # Null
      BY <2>4, <2>5, <2>8 DEF Nth
    <3>2. Covers(r)'
      BY <1>1, <2>2 DEF Covers, Skips, Nth
    <3>3. handler' \in {"signal", "crashed"}
      BY <1>1, <3>1
    <3>4. Passed(r, k)'
      BY <3>1, <3>3, <2>6 DEF Passed
    <3> QED  BY <2>2, <3>1, <3>2, <3>3, <3>4 DEF Walking
  <2> QED  BY <2>7, <2>8
<1> QED  BY <1>2, <1>3

(* list_apply misses no client that is still listed when it is over. *)
LEMMA WalkingStep ==
  ASSUME ListInv, [Next]_vars
  PROVE  Walking'
<1>1. /\ head' = head /\ next' = next => Untouched
      /\ \A c \in Clients : RemoveUnlink(c) => Removed(c)
  BY Effects
<1>2. Walking
  BY DEF ListInv
<1>3. CASE \/ AddWait \/ AddMalloc \/ AddNoMemory \/ AddLink \/ AddPost \/ Create
           \/ QueuePost \/ MainExit
  <2>1. handler' = "none"
    BY <1>3 DEF AddWait, AddMalloc, AddNoMemory, AddLink, AddPost, Create, QueuePost, MainExit, Main, signal
  <2> QED  BY <2>1, WalkingIdle
<1>4. CASE SigFree
  <2>1. Listed' = Listed
    BY <1>1, <1>4 DEF SigFree, Untouched, list
  <2> QED  BY <2>1, <1>4, WalkingStart
<1>5. CASE ApplySignal
  <2>1. Listed' = Listed
    BY <1>1, <1>5 DEF ApplySignal, Untouched, list
  <2> QED  BY <2>1, <1>5, WalkingSignal
<1>6. CASE ApplyAdvance
  <2>1. Listed' = Listed
    BY <1>1, <1>6 DEF ApplyAdvance, Untouched, list
  <2> QED  BY <2>1, <1>6, WalkingAdvance
<1>11. CASE ApplyStray
  BY <1>11, WalkingStray
<1>7. CASE Dispose \/ HandlerExit
  <2>1. handler' \in {"disposed", "exited"}
    BY <1>7 DEF Dispose, HandlerExit
  <2> QED  BY <2>1, WalkingIdle
<1>8. ASSUME NEW c \in Clients, RemoveUnlink(c)  PROVE Walking'
  BY <1>1, <1>8, WalkingUnlink
<1>9. ASSUME NEW c \in Clients,
             \/ Fetch(c) \/ EndSession(c) \/ RemoveWait(c) \/ RemoveNext(c)
             \/ RemoveFree(c) \/ RemovePost(c)
      PROVE  Walking'
  <2>1. /\ head' = head /\ next' = next /\ walk' = walk /\ handler' = handler
        /\ signalled' = signalled /\ strayed' = strayed
    BY <1>9 DEF Fetch, EndSession, RemoveWait, RemoveNext, RemoveFree, RemovePost, list, signal
  <2> QED  BY <2>1, <1>1, <1>2, WalkingSame DEF Untouched
<1>10. CASE UNCHANGED vars
  <2>1. /\ head' = head /\ next' = next /\ walk' = walk /\ handler' = handler
        /\ signalled' = signalled /\ strayed' = strayed
    BY <1>10 DEF vars, list, signal
  <2> QED  BY <2>1, <1>1, <1>2, WalkingSame DEF Untouched
<1>12. CASE ClientDies
  <2>1. /\ head' = head /\ next' = next /\ walk' = walk /\ handler' = handler
        /\ signalled' = signalled /\ strayed' = strayed
    BY <1>12 DEF ClientDies, list
  <2> QED  BY <2>1, <1>1, <1>2, WalkingSame DEF Untouched
<1> QED  BY <1>11, <1>12, <1>3, <1>4, <1>5, <1>6, <1>7, <1>8, <1>9, <1>10, Steps

-----------------------------------------------------------------------------
(* The theorems *)

(* The list is empty and nobody is at work on it when the server starts. *)
LEMMA ListInvInit ==
  ASSUME Init
  PROVE  ListInv
<1>1. Chain(<< >>)
  BY DEF Init, Chain, Distinct, Nth
<1>2. Entries = << >>
  BY <1>1, ChainIsEntries
<1>3. Listed = {}
  BY <1>2, ListedOf
<1>4. Cardinality(Clients) \in Nat
  BY FS_CardinalityType, ClientsAssumption
<1>5. Linked
  BY <1>1, <1>2 DEF Linked
<1>6. Types
  BY DEF Init, Types, Pointer, MainPC, ThreadPC, HandlerPC
<1>7. Locked /\ Adding
  BY DEF Init, Locked, Adding, MainHolds, ThreadHolds, Kept
<1>8. Members /\ Memory /\ Sizes
  BY <1>2, <1>3, <1>4 DEF Init, Members, Memory, Sizes, Member
<1>9. Scanning /\ Walking
  BY DEF Init, Scanning, Walking
<1> QED  BY <1>5, <1>6, <1>7, <1>8, <1>9 DEF ListInv

(* ListInv is an invariant of the list, whoever comes, goes or stops it. *)
THEOREM Invariance == Spec => []ListInv
<1>1. Init => ListInv
  BY ListInvInit
<1>2. ListInv /\ [Next]_vars => ListInv'
  <2> SUFFICES ASSUME ListInv, [Next]_vars  PROVE ListInv'
    OBVIOUS
  <2>1. Linked'
    BY Effects
  <2>2. Types' /\ Locked' /\ Adding'
    BY TypesStep, LockedStep, AddingStep
  <2>3. Members' /\ Memory' /\ Sizes'
    BY MembersStep, MemoryStep, SizesStep
  <2>4. Scanning' /\ Walking'
    BY ScanningStep, WalkingStep
  <2> QED  BY <2>1, <2>2, <2>3, <2>4 DEF ListInv
<1> QED  BY <1>1, <1>2, PTL DEF Spec

(* No pointer, counter or program counter leaves its range: size stays between
   0 and the number of clients (list.c:50-122). *)
THEOREM TypeCorrect == Spec => []TypeOK
<1>1. ListInv => TypeOK
  <2> SUFFICES ASSUME ListInv  PROVE TypeOK
    OBVIOUS
  <2>1. head \in Pointer
    BY DEF ListInv, Linked, Chain, Nth, Pointer
  <2> QED  BY <2>1 DEF ListInv, Types, Sizes, TypeOK
<1> QED  BY <1>1, Invariance, PTL

(* When nobody has the mutex, size and tail agree with the chain of next and
   exactly its cells are allocated (list.c:50-122). *)
THEOREM ListWellFormedTheorem == Spec => []ListWellFormed
<1>1. ListInv => ListWellFormed
  <2> SUFFICES ASSUME ListInv, mutex = 1
               PROVE  /\ size = Len(Entries)
                      /\ size > 0 => tail = Entries[size]
                      /\ allocated = Listed
    BY DEF ListWellFormed
  <2>1. Kept /\ ~ MainHolds /\ \A c \in Clients : ~ ThreadHolds(c)
    BY DEF ListInv, Locked
  <2>2. size = Len(Entries) /\ (Len(Entries) > 0 => tail = Entries[Len(Entries)])
    BY <2>1 DEF ListInv, Sizes, ThreadHolds
  <2>3. allocated = Listed
    BY <2>1 DEF ListInv, Memory, MainHolds, ThreadHolds, Types
  <2> QED  BY <2>2, <2>3
<1> QED  BY <1>1, Invariance, PTL

(* The request a thread uses is allocated until the handler disposes of the
   list: no other thread's removal frees it (server.c:205, 221-331). *)
THEOREM RequestLiveTheorem == Spec => []RequestLive
<1>1. ListInv => RequestLive
  BY DEF ListInv, Members, Member, Memory, Kept, RequestLive
<1> QED  BY <1>1, Invariance, PTL

(* A thread that is over has left the list (server.c:326-330). *)
THEOREM RemoveFindsTheorem == Spec => []RemoveFinds
<1>1. ListInv => RemoveFinds
  BY DEF ListInv, Members, Member, Adding, RemoveFinds
<1> QED  BY <1>1, Invariance, PTL

(* list_apply signals every client that is still listed when it ends, whatever
   is unlinked under it, unless it reads a cell after its thread freed it
   (server.c:351, list.c:124-136). *)
THEOREM EveryoneSignalledTheorem == Spec => []EveryoneSignalled
<1>1. ListInv => EveryoneSignalled
  BY DEF ListInv, Walking, EveryoneSignalled
<1> QED  BY <1>1, Invariance, PTL

(* The pointers implement the registry: each step on them adds at the end,
   takes one client out, frees everything, or changes nothing
   (list.c:50-122, 138-157). *)
THEOREM RegistryRefinement == Spec => ImplementsClientRegistry
<1>1. Init => CR!Init
  <2> SUFFICES ASSUME Init  PROVE Entries = << >>
    BY DEF CR!Init
  <2>1. Chain(<< >>)
    BY DEF Init, Chain, Distinct, Nth
  <2> QED  BY <2>1, ChainIsEntries
<1>2. ListInv /\ [Next]_vars => [CR!Next]_Entries
  <2> SUFFICES ASSUME ListInv, [Next]_vars  PROVE [CR!Next]_Entries
    OBVIOUS
  <2>0. /\ head' = head /\ next' = next => Untouched
        /\ AddLink => Added
        /\ \A c \in Clients : RemoveUnlink(c) => Removed(c)
        /\ Dispose => Emptied
    BY Effects
  <2>1. ASSUME AddLink  PROVE CR!Next
    <3>1. Added
      BY <2>0, <2>1
    <3>2. CR!Register(adding) /\ adding \in Clients
      BY <3>1 DEF Added, CR!Register, Listed
    <3> QED  BY <3>2 DEF CR!Next
  <2>2. ASSUME NEW c \in Clients, RemoveUnlink(c)  PROVE CR!Next
    <3>1. Removed(c) /\ cell = c
      BY <2>0, <2>2 DEF RemoveUnlink
    <3>2. i \in DOMAIN Entries
      <4>1. Entries \in Seq(Clients)
        BY ListedClients DEF ListInv
      <4> QED  BY <3>1, <4>1 DEF Removed
    <3>3. CR!Unregister(c)
      BY <3>1, <3>2 DEF Removed, CR!Unregister
    <3> QED  BY <3>3 DEF CR!Next
  <2>3. ASSUME Dispose  PROVE CR!Next
    BY <2>0, <2>3 DEF Emptied, CR!Next, CR!Free
  <2>4. ASSUME head' = head, next' = next  PROVE Entries' = Entries
    BY <2>0, <2>4 DEF Untouched
  <2>5. CASE \/ AddWait \/ AddMalloc \/ AddNoMemory \/ AddPost \/ Create
             \/ QueuePost \/ MainExit \/ ClientDies
    BY <2>4, <2>5 DEF AddWait, AddMalloc, AddNoMemory, AddPost, Create, QueuePost, MainExit, ClientDies, list
  <2>6. CASE SigFree \/ ApplySignal \/ ApplyAdvance \/ ApplyStray \/ HandlerExit
    BY <2>4, <2>6 DEF SigFree, ApplySignal, ApplyAdvance, ApplyStray, HandlerExit, list
  <2>7. ASSUME NEW c \in Clients,
               \/ Fetch(c) \/ EndSession(c) \/ RemoveWait(c) \/ RemoveNext(c)
               \/ RemoveFree(c) \/ RemovePost(c)
        PROVE  Entries' = Entries
    BY <2>4, <2>7 DEF Fetch, EndSession, RemoveWait, RemoveNext, RemoveFree, RemovePost, list
  <2>8. CASE UNCHANGED vars
    BY <2>4, <2>8 DEF vars, list
  <2> QED  BY <2>1, <2>2, <2>3, <2>5, <2>6, <2>7, <2>8, Steps
<1> QED  BY <1>1, <1>2, Invariance, PTL DEF Spec, ImplementsClientRegistry, CR!Spec

=============================================================================
