--------------------------- MODULE YmlParserProofs ---------------------------
(***************************************************************************)
(* Proofs about the configuration, for any options, buckets, hash function *)
(* and length of the file.                                                 *)
(*                                                                         *)
(* The inductive invariant ParserInv follows the two passes, which put on  *)
(* the lists exactly the cells of the entries they have come to; the walk  *)
(* of a get, which has seen no cell with its key; and the loop that frees, *)
(* which has freed exactly the cells before its own.                       *)
(***************************************************************************)
EXTENDS YmlParser, TLAPS, FiniteSetTheorems, SequenceTheorems

-----------------------------------------------------------------------------
(* The inductive invariant *)

(* The entries that were inserted. *)
Done ==
  {j \in DOMAIN file :
     \/ file[j].type = pass /\ j <= cursor
     \/ file[j].type = "int" /\ pass = "string"}

(* What may be in a cell. *)
Cells == [key : Keys, type : {"int"}, value : -IntBound .. IntBound - 1]
           \cup [key : Keys, type : {"string"}, value : Strings]

(* What the variable of an option may hold. *)
Contents == {Copy(c) : c \in Cells} \cup {Unset(k) : k \in Keys}

(* What get finds in the cell c. *)
BindingOf(c) == [type |-> c.type, value |-> c.value]

(* Where k is on the list of its bucket. *)
Found(k) == {j \in DOMAIN map[Hash[k]] : map[Hash[k]][j].key = k}

(* The places of the process where the file is loaded. *)
Later == {"loaded", "free", "freeing", "freed"}

(* The types of the variables. *)
Types ==
  /\ file \in Seq(Entry) /\ Len(file) <= MaxEntries
  /\ dirty \subseteq Buckets
  /\ pc \in {"init", "no_parser", "exec", "scan", "exec_failed", "crashed", "loaded",
             "free", "free_failed", "freeing", "freed"}
  /\ pass \in Type /\ cursor \in 0 .. Len(file)
  /\ map \in [Buckets -> Seq(Cells)]
  /\ mutex \in 0 .. 1
  /\ option \in [Keys -> Contents]
  /\ reading \in Keys \cup {NoKey} /\ at \in Nat
  /\ bucket \in 0 .. MapSize /\ elem \in Nat
  /\ undefined \in {"none", "bucket", "overflow", "late", "free"}

(* The cells are those of the entries that were inserted. *)
Held ==
  /\ \A b \in Buckets : \A j \in DOMAIN map[b] : \E i \in Done : map[b][j] = Cell(file[i])
  /\ \A i \in Done : \E j \in DOMAIN map[Hash[file[i].key]] :
       map[Hash[file[i].key]][j] = Cell(file[i])

(* Nobody reads before the file is loaded; then every entry is in.  The mutex
   of a parser that failed to load is not given back. *)
Loaded ==
  /\ pc \in Later => Done = DOMAIN file
  /\ pc \notin Later => reading = NoKey /\ at = 0 /\ \A k \in Keys : option[k] = Unset(k)
  /\ pc \in {"scan", "exec_failed", "free_failed"} => mutex = 0

(* The get in progress has passed no cell with its key. *)
Walk ==
  IF reading = NoKey THEN at = 0
  ELSE /\ at <= Len(map[Hash[reading]])
       /\ \A j \in DOMAIN map[Hash[reading]] :
            at = 0 \/ j < at => map[Hash[reading]][j].key # reading

(* What an option was read from. *)
Read ==
  \A k \in Keys : option[k] = Unset(k) \/ \E i \in EntriesOf(k) : option[k] = Copy(Cell(file[i]))

(* The loop has freed the cells before its own, and no other. *)
Looped ==
  /\ pc \notin {"freeing", "freed"} => bucket = 0 /\ elem = 0
  /\ elem # 0 => bucket \in Buckets /\ elem <= Len(map[bucket])
  /\ \A b \in Buckets, i \in Nat \ {0} :
       <<b, i>> \in freed <=> i <= Len(map[b]) /\ (b < bucket \/ (b = bucket /\ i < elem))
  /\ pc = "freed" => bucket = MapSize /\ elem = 0
  /\ undefined # "free"

(* The inductive invariant. *)
ParserInv == Types /\ Held /\ Loaded /\ Walk /\ Read /\ Looped

-----------------------------------------------------------------------------
(* Entries and cells *)

(* atoi gives an int, and the integer itself when it is one. *)
LEMMA AtoiIs ==
  ASSUME NEW n \in Int
  PROVE  /\ Atoi(n) \in -IntBound .. IntBound - 1
         /\ n \in -IntBound .. IntBound - 1 => Atoi(n) = n
<1>1. PICK w \in Nat \ {0} : w = 2 * IntBound
  BY ParserAssumption
<1>2. PICK m \in Int : m = n + IntBound
  BY ParserAssumption
<1>3. m % w \in 0 .. w - 1
  BY <1>1, <1>2
<1>4. m \in 0 .. w - 1 => m % w = m
  BY <1>1, <1>2
<1>5. PICK r \in 0 .. w - 1 : r = m % w
  BY <1>3
<1>6. Atoi(n) = r - IntBound
  BY <1>1, <1>2, <1>5 DEF Atoi
<1> QED  BY <1>1, <1>2, <1>4, <1>5, <1>6, ParserAssumption

(* The cell of an entry has its key and its type. *)
LEMMA CellType ==
  ASSUME NEW e \in Entry
  PROVE  Cell(e) \in Cells /\ Cell(e).key = e.key /\ Cell(e).type = e.type
<1>1. CASE e \in [key : Keys, type : {"int"}, value : Written]
  <2>1. e.value \in Int /\ e.type = "int" /\ e.key \in Keys
    BY <1>1, ParserAssumption
  <2>2. Atoi(e.value) \in -IntBound .. IntBound - 1
    BY <2>1, AtoiIs
  <2> QED  BY <2>1, <2>2 DEF Cell, Cells
<1>2. CASE e \in [key : Keys, type : {"string"}, value : Strings]
  BY <1>2 DEF Cell, Cells
<1> QED  BY <1>1, <1>2 DEF Entry

(* An entry has one of the keys, and the type of one of the passes. *)
LEMMA EntryKey ==
  ASSUME NEW e \in Entry
  PROVE  e.key \in Keys /\ Hash[e.key] \in Buckets /\ e.type \in Type
BY HashAssumption DEF Entry, Type

(* The entries of the file, by their places. *)
LEMMA EntryAt ==
  ASSUME Types
  PROVE  /\ DOMAIN file = 1 .. Len(file) /\ Len(file) \in Nat
         /\ \A j \in DOMAIN file : file[j] \in Entry
BY DEF Types

(* What a cell puts in an option is what its entry gives. *)
LEMMA CopyGives ==
  ASSUME NEW e \in Entry
  PROVE  Gives(e, Copy(Cell(e)))
<1>1. CASE e \in [key : Keys, type : {"int"}, value : Written]
  <2>1. e.value \in Int /\ e.type = "int"
    BY <1>1, ParserAssumption
  <2> QED  BY <2>1, AtoiIs DEF Gives, Copy, Cell
<1>2. CASE e \in [key : Keys, type : {"string"}, value : Strings]
  BY <1>2 DEF Gives, Copy, Cell
<1> QED  BY <1>1, <1>2 DEF Entry

-----------------------------------------------------------------------------
(* Lookups *)

(* A set of positions that is not empty has a least one, and Min is that. *)
LEMMA MinIsLeast ==
  ASSUME NEW S, S \subseteq Nat, S # {}
  PROVE  Min(S) \in S /\ \A y \in S : Min(S) <= y
<1> DEFINE Less == {p \in Nat \X Nat : p[1] < p[2]}
<1>1. IsWellFoundedOn(Less, Nat)
  BY NatLessThanWellFounded DEF OpToRel
<1>2. PICK m \in S : \A n \in S : ~ (<<n, m>> \in Less)
  <2> HIDE DEF Less
  <2> QED  BY <1>1, WFMin, Zenon
<1>3. ASSUME NEW n \in S  PROVE m <= n
  <2>1. ~ (<<n, m>> \in Less)  BY <1>2
  <2>2. n \in Nat /\ m \in Nat  OBVIOUS
  <2> QED  BY <2>1, <2>2
<1>4. \E x \in S : \A y \in S : x <= y
  BY <1>3
<1> QED  BY <1>4 DEF Min

(* It is the least element, whoever names it. *)
LEMMA MinUnique ==
  ASSUME NEW S, S \subseteq Nat, NEW m \in S, \A y \in S : m <= y
  PROVE  Min(S) = m
<1>1. Min(S) \in S /\ Min(S) <= m /\ m <= Min(S)
  BY MinIsLeast
<1>2. Min(S) \in Nat /\ m \in Nat
  BY <1>1
<1> QED  BY <1>1, <1>2

(* An element after all others is the least one only when it is alone. *)
LEMMA MinLast ==
  ASSUME NEW S, S \subseteq Nat, NEW n \in Nat, \A y \in S : y < n
  PROVE  Min(S \cup {n}) = IF S = {} THEN n ELSE Min(S)
<1>1. CASE S = {}
  <2>1. n \in S \cup {n} /\ \A y \in S \cup {n} : n <= y
    BY <1>1
  <2> QED  BY <2>1, <1>1, MinUnique
<1>2. CASE S # {}
  <2>1. Min(S) \in S /\ \A y \in S : Min(S) <= y
    BY <1>2, MinIsLeast
  <2>2. Min(S) \in S \cup {n} /\ \A y \in S \cup {n} : Min(S) <= y
    <3>1. Min(S) \in Nat /\ Min(S) < n
      BY <2>1
    <3> QED  BY <2>1, <3>1
  <2> QED  BY <2>2, <1>2, MinUnique
<1> QED  BY <1>1, <1>2

(* Lookup by the places of the key on the list. *)
LEMMA LookupIs ==
  ASSUME NEW k \in Keys
  PROVE  Lookup(k) = IF Found(k) = {} THEN Unbound
                     ELSE BindingOf(map[Hash[k]][Min(Found(k))])
  BY DEF Lookup, Found, BindingOf

(* A key that is found is bound to an int or a string. *)
LEMMA BoundIsBinding ==
  ASSUME Types, NEW k \in Keys
  PROVE  /\ Found(k) # {} => Lookup(k) \in Binding /\ Lookup(k) # Unbound
         /\ Lookup(k) = Unbound <=> Found(k) = {}
<1>1. Hash[k] \in Buckets /\ map[Hash[k]] \in Seq(Cells)
  BY HashAssumption DEF Types
<1>2. Found(k) \subseteq DOMAIN map[Hash[k]] /\ Found(k) \subseteq Nat
  BY <1>1 DEF Found
<1>3. ASSUME Found(k) # {}  PROVE Lookup(k) \in Binding /\ Lookup(k) # Unbound
  <2>1. PICK m \in Found(k) : m = Min(Found(k))
    BY <1>2, <1>3, MinIsLeast
  <2>2. PICK c \in Cells : c = map[Hash[k]][m]
    BY <1>1, <1>2, <2>1
  <2>3. Lookup(k) = BindingOf(c)
    BY <1>3, <2>1, <2>2, LookupIs
  <2>4. BindingOf(c) \in Binding /\ BindingOf(c).type # "none"
    BY <2>2 DEF Cells, Binding, BindingOf
  <2> QED  BY <2>3, <2>4 DEF Unbound
<1>4. Found(k) = {} => Lookup(k) = Unbound
  BY LookupIs
<1> QED  BY <1>3, <1>4

(* A lookup depends on the lists only. *)
LEMMA LookupSame ==
  ASSUME map' = map, NEW k \in Keys
  PROVE  Lookup(k)' = Lookup(k)
BY DEF Lookup, Unbound

-----------------------------------------------------------------------------
(* What inserting an entry does *)

(* The entry that insert_keys_values comes to. *)
Inserts(n) ==
  /\ pc = "scan"
  /\ n \in 1 .. Len(file) /\ file[n].type = pass /\ n > cursor
  /\ \A j \in 1 .. Len(file) : file[j].type = pass /\ j > cursor => n <= j
  /\ HashmapInsert(file[n])
  /\ cursor' = n
  /\ UNCHANGED <<file, dirty, pc, pass, mutex, get, free, undefined>>

(* An insertion inserts the next entry of its pass. *)
LEMMA InsertsNext ==
  ASSUME Types, InsertKeysValues
  PROVE  \E n \in 1 .. Len(file) : Inserts(n)
<1>1. Matches = {j \in 1 .. Len(file) : j > cursor /\ file[j].type = pass} /\ Matches # {}
  BY DEF Types, Matches, InsertKeysValues
<1>2. Matches \subseteq Nat
  BY <1>1
<1>3. PICK n \in Matches : n = Min(Matches) /\ \A j \in Matches : n <= j
  BY <1>1, <1>2, MinIsLeast
<1>4. Inserts(n)
  BY <1>1, <1>3 DEF InsertKeysValues, Inserts
<1> QED  BY <1>1, <1>3, <1>4

(* The entry is the last one inserted of its type, and no string is inserted
   before an integer. *)
LEMMA DoneInsert ==
  ASSUME Types, NEW n \in 1 .. Len(file), Inserts(n)
  PROVE  /\ Done \subseteq 1 .. Len(file) /\ n \notin Done
         /\ Done' = Done \cup {n}
         /\ \A j \in Done : file[j].type = pass => j < n
         /\ pass = "int" => \A j \in Done : file[j].type = "int"
<1>1. DOMAIN file = 1 .. Len(file) /\ Len(file) \in Nat /\ cursor \in 0 .. Len(file)
  BY DEF Types
<1>2. file' = file /\ pass' = pass /\ cursor' = n
  BY DEF Inserts
<1>3. ASSUME NEW j \in 1 .. Len(file)  PROVE j \in Done' <=> j \in Done \/ j = n
  BY <1>1, <1>2, <1>3 DEF Done, Inserts
<1>4. Done' \subseteq 1 .. Len(file) /\ Done \subseteq 1 .. Len(file)
  BY <1>1, <1>2 DEF Done
<1>5. Done' = Done \cup {n}
  BY <1>3, <1>4
<1>6. n \notin Done
  BY <1>1 DEF Done, Inserts, Types, Type
<1>7. \A j \in Done : file[j].type = pass => j < n
  BY <1>1 DEF Done, Inserts, Types, Type
<1>8. pass = "int" => \A j \in Done : file[j].type = "int"
  BY DEF Done
<1> QED  BY <1>4, <1>5, <1>6, <1>7, <1>8

(* The new cell counts only for its own key, when that was not bound. *)
LEMMA LookupInsert ==
  ASSUME Types, NEW n \in 1 .. Len(file), Inserts(n), NEW k \in Keys
  PROVE  Lookup(k)' = IF file[n].key = k /\ Found(k) = {} THEN BindingOf(Cell(file[n]))
                      ELSE Lookup(k)
<1>1. PICK e \in Entry : e = file[n]
  BY DEF Types
<1>2. PICK l \in Seq(Cells) : l = map[Hash[k]]
  BY HashAssumption DEF Types
<1>3. Hash[k] \in Buckets /\ Hash[e.key] \in Buckets /\ map \in [Buckets -> Seq(Cells)]
  BY <1>1, HashAssumption, EntryKey DEF Types
<1>4. map' = [map EXCEPT ![Hash[e.key]] = Append(map[Hash[e.key]], Cell(e))]
  BY <1>1 DEF Inserts, HashmapInsert
<1>5. Len(l) \in Nat /\ DOMAIN l = 1 .. Len(l)
  BY <1>2
<1>6. Found(k) = {j \in 1 .. Len(l) : l[j].key = k}
  BY <1>2, <1>5 DEF Found
<1>7. CASE Hash[e.key] # Hash[k]
  <2>1. map'[Hash[k]] = map[Hash[k]] /\ e.key # k
    BY <1>3, <1>4, <1>7
  <2>2. Lookup(k)' = Lookup(k)
    BY <2>1 DEF Lookup, Unbound
  <2> QED  BY <2>1, <2>2, <1>1
<1>8. CASE Hash[e.key] = Hash[k]
  <2>1. map'[Hash[k]] = Append(l, Cell(e)) /\ Cell(e) \in Cells
    BY <1>2, <1>3, <1>4, <1>8, CellType
  <2> DEFINE m == Append(l, Cell(e))
  <2>2. /\ DOMAIN m = 1 .. Len(l) + 1
        /\ m[Len(l) + 1] = Cell(e)
        /\ \A j \in 1 .. Len(l) : m[j] = l[j]
    BY <2>1, <1>5
  <2>3. Found(k)' = {j \in 1 .. Len(l) + 1 : m[j].key = k}
    BY <2>1, <2>2 DEF Found
  <2>4. Cell(e).key = e.key 
    BY DEF Cell
  <2>5. Found(k)' = IF e.key = k THEN Found(k) \cup {Len(l) + 1} ELSE Found(k)
    <3> HIDE DEF m
    <3>1. 1 .. Len(l) + 1 = 1 .. Len(l) \cup {Len(l) + 1}
      BY <1>5
    <3> QED  BY <2>2, <2>3, <2>4, <1>6, <3>1
  <2>6. Lookup(k)' = IF Found(k)' = {} THEN Unbound ELSE BindingOf(m[Min(Found(k)')])
    <3>1. Lookup(k)' = IF Found(k)' = {} THEN Unbound
                       ELSE BindingOf(map'[Hash[k]][Min(Found(k)')])
      BY DEF Lookup, Found, BindingOf, Unbound
    <3> QED  BY <3>1, <2>1
  <2>7. CASE e.key = k
    <3>1. Found(k) \subseteq Nat /\ \A j \in Found(k) : j < Len(l) + 1
      BY <1>5, <1>6
    <3>2. Min(Found(k) \cup {Len(l) + 1}) = IF Found(k) = {} THEN Len(l) + 1 ELSE Min(Found(k))
      <4>1. PICK x \in Nat : x = Len(l) + 1
        BY <1>5
      <4>2. \A j \in Found(k) : j < x
        BY <3>1, <4>1
      <4> QED  BY <3>1, <4>1, <4>2, MinLast
    <3>3. CASE Found(k) = {}
      <4> HIDE DEF m
      <4> QED  BY <3>2, <3>3, <2>2, <2>4, <2>5, <2>6, <2>7, <1>1
    <3>4. CASE Found(k) # {}
      <4>1. PICK j \in Found(k) : j = Min(Found(k))
        BY <3>1, <3>4, MinIsLeast
      <4>2. m[j] = l[j]
        <5> HIDE DEF m
        <5> QED  BY <1>6, <2>2
      <4>3. Lookup(k)' = BindingOf(l[j])
        <5> HIDE DEF m
        <5> QED  BY <3>2, <3>4, <2>5, <2>6, <2>7, <4>1, <4>2
      <4>4. Lookup(k) = BindingOf(l[j])
        BY <3>4, <4>1, <1>2, LookupIs
      <4> QED  BY <4>3, <4>4, <3>4
    <3> QED  BY <3>3, <3>4
  <2>8. CASE e.key # k
    <3>1. Found(k)' = Found(k) /\ Found(k) \subseteq Nat
      BY <2>5, <2>8, <1>6
    <3>2. CASE Found(k) = {}
      BY <3>1, <3>2, <2>6, <2>8, <1>1, LookupIs
    <3>3. CASE Found(k) # {}
      <4>1. PICK j \in Found(k) : j = Min(Found(k))
        BY <3>1, <3>3, MinIsLeast
      <4>2. m[j] = l[j]
        <5> HIDE DEF m
        <5> QED  BY <1>6, <2>2
      <4>3. Lookup(k)' = BindingOf(l[j])
        <5> HIDE DEF m
        <5> QED  BY <3>1, <3>3, <2>6, <4>1, <4>2
      <4>4. Lookup(k) = BindingOf(l[j])
        BY <3>3, <4>1, <1>2, LookupIs
      <4> QED  BY <4>3, <4>4, <2>8, <1>1
    <3> QED  BY <3>2, <3>3
  <2> QED  BY <2>7, <2>8
<1> QED  BY <1>7, <1>8

-----------------------------------------------------------------------------
(* The steps *)

(* Every step is one of the actions, before any undefined behaviour. *)
LEMMA Steps ==
  ASSUME [Next]_vars
  PROVE  \/ InitYmlParser \/ ExecParser \/ InsertKeysValues \/ InsertStrays \/ InsertFails
         \/ NextPass \/ ScanEnds \/ LoadFails
         \/ GetNext \/ GetFound \/ GetMissing \/ GetStrays
         \/ FreeParser \/ FreeSkips \/ FreeEnters \/ FreeStrays \/ FreeCell \/ Freed
         \/ Stop \/ (\E k \in Keys : GetStart(k)) \/ UNCHANGED vars
BY DEF Next, Step, Call

(* The actions that touch neither the options nor the loop that frees, and
   insert nothing. *)
Quiet ==
  \/ InitYmlParser \/ ExecParser \/ InsertStrays \/ InsertFails \/ NextPass
  \/ ScanEnds \/ LoadFails \/ GetStrays \/ FreeParser \/ FreeStrays \/ Freed

(* The actions of the loop. *)
Loop == FreeSkips \/ FreeEnters \/ FreeCell

(* The actions of get. *)
Getting == GetNext \/ GetFound \/ GetMissing \/ \E k \in Keys : GetStart(k)

(* What the actions that neither insert, read nor free leave alone. *)
LEMMA QuietIs ==
  ASSUME Quiet
  PROVE  /\ UNCHANGED <<file, dirty, map, option, reading, at, bucket, elem, freed>>
         /\ NextPass \/ UNCHANGED <<pass, cursor>>
         /\ undefined' \in {undefined, "bucket", "late"}
         /\ pc \in Later => pc' \in Later
         /\ pc' \in Later => pc \in Later \/ ScanEnds \/ (FreeParser /\ pc = "free_failed")
<1>1. CASE InitYmlParser \/ ExecParser \/ InsertFails \/ ScanEnds \/ LoadFails
  BY <1>1 DEF InitYmlParser, ExecParser, InsertFails, ScanEnds, LoadFails, Later, load, get, free
<1>2. CASE InsertStrays \/ NextPass \/ GetStrays \/ FreeStrays
  BY <1>2 DEF InsertStrays, NextPass, GetStrays, FreeStrays, Later, load, get, free
<1>3. CASE FreeParser \/ Freed
  BY <1>3 DEF FreeParser, Freed, Later, load, get, free
<1> QED  BY <1>1, <1>2, <1>3 DEF Quiet

(* The loop of free_hash_map changes its own variables and undefined only. *)
LEMMA LoopIs ==
  ASSUME Loop
  PROVE  /\ pc = "freeing"
         /\ UNCHANGED <<file, dirty, pass, cursor, pc, map, mutex, option, reading, at>>
BY DEF Loop, FreeSkips, FreeEnters, FreeCell, load, get

(* A get changes its own variables, the option and undefined only. *)
LEMMA GettingIs ==
  ASSUME Getting
  PROVE  /\ UNCHANGED <<file, dirty, pass, cursor, pc, map, mutex, bucket, elem, freed>>
         /\ undefined' \in {undefined, "bucket", "late", "overflow"}
         /\ (pc \in Later \/ reading # NoKey)
         /\ GetFound \/ UNCHANGED option
<1>1. CASE GetNext \/ GetFound \/ GetMissing
  BY <1>1 DEF GetNext, GetFound, GetMissing, load, free
<1>2. ASSUME NEW k \in Keys, GetStart(k)
      PROVE  /\ UNCHANGED <<file, dirty, pass, cursor, pc, map, mutex, bucket, elem, freed>>
             /\ undefined' \in {undefined, "bucket", "late", "overflow"}
             /\ pc \in Later /\ UNCHANGED option
  BY <1>2 DEF GetStart, MayGet, Later, load, free
<1> QED  BY <1>1, <1>2 DEF Getting

(* What was inserted does not change unless an entry is: the second pass
   starts when all integers are in. *)
LEMMA DoneSame ==
  ASSUME Types, [Next]_vars, ~ InsertKeysValues
  PROVE  Done' = Done /\ file' = file /\ map' = map
<1>1. CASE NextPass
  <2>1. /\ \A j \in DOMAIN file : file[j].type = "int" => j <= cursor
        /\ pass = "int" /\ pass' = "string" /\ cursor' = 0 /\ file' = file /\ map' = map
        /\ DOMAIN file = 1 .. Len(file) /\ cursor \in 0 .. Len(file) /\ Len(file) \in Nat
    BY <1>1 DEF NextPass, Matches, Types
  <2>2. ASSUME NEW j \in DOMAIN file  PROVE j \in Done' <=> j \in Done
    BY <2>1, <2>2 DEF Done
  <2>3. Done' \subseteq DOMAIN file /\ Done \subseteq DOMAIN file
    BY <2>1 DEF Done
  <2> QED  BY <2>1, <2>2, <2>3
<1>2. CASE file' = file /\ pass' = pass /\ cursor' = cursor /\ map' = map
  BY <1>2 DEF Done
<1>3. CASE Quiet
  BY <1>1, <1>2, <1>3, QuietIs
<1>4. CASE Loop
  BY <1>2, <1>4, LoopIs
<1>5. CASE Getting
  BY <1>2, <1>5, GettingIs
<1>6. CASE Stop \/ UNCHANGED vars
  BY <1>2, <1>6 DEF Stop, vars, load
<1> QED  BY <1>3, <1>4, <1>5, <1>6, Steps DEF Quiet, Loop, Getting

(* What follows a place is a place, or the end. *)
LEMMA FollowingIs ==
  ASSUME Types, NEW b \in Buckets, NEW i \in Nat
  PROVE  /\ Following(b, i) \in Nat /\ Len(map[b]) \in Nat
         /\ Following(b, i) <= Len(map[b])
         /\ Following(b, i) # 0 => Following(b, i) = i + 1
         /\ Following(b, i) = 0 => Len(map[b]) <= i
<1>1. PICK n \in Nat : n = Len(map[b])
  BY DEF Types
<1> QED  BY <1>1 DEF Following

(* Every step keeps the types. *)
LEMMA TypesStep ==
  ASSUME Types, Loaded, Walk, Looped, [Next]_vars
  PROVE  Types'
<1>1. CASE InsertKeysValues
  <2>1. PICK n \in 1 .. Len(file) : Inserts(n)
    BY <1>1, InsertsNext
  <2>2. file[n] \in Entry /\ file[n].key \in Keys
    BY EntryKey, EntryAt
  <2>3. map' \in [Buckets -> Seq(Cells)]
    <3>1. PICK h \in Buckets : h = Hash[file[n].key]
      BY <2>2, EntryKey
    <3>2. PICK c \in Cells : c = Cell(file[n])
      BY <2>2, CellType
    <3>3. map' = [map EXCEPT ![h] = Append(map[h], c)]
      BY <2>1, <3>1, <3>2 DEF Inserts, HashmapInsert
    <3>4. Append(map[h], c) \in Seq(Cells)
      BY DEF Types
    <3> QED  BY <3>3, <3>4 DEF Types
  <2>4. cursor' \in 0 .. Len(file)
    BY <2>1, EntryAt DEF Inserts
  <2> QED  BY <2>1, <2>3, <2>4 DEF Inserts, get, free, Types, Contents, Unset
<1>2. CASE Quiet
  <2>1. pass' \in Type /\ cursor' \in 0 .. Len(file)
    BY <1>2, QuietIs, EntryAt DEF NextPass, Types, Type
  <2>2. pc' \in {"init", "no_parser", "exec", "scan", "exec_failed", "crashed", "loaded",
                 "free", "free_failed", "freeing", "freed"} /\ mutex' \in 0 .. 1
    BY <1>2 DEF Quiet, InitYmlParser, ExecParser, InsertStrays, InsertFails, NextPass,
                ScanEnds, LoadFails, GetStrays, FreeParser, FreeStrays, Freed, Types
  <2> QED  BY <1>2, <2>1, <2>2, QuietIs DEF Types, Contents, Unset
<1>3. CASE Loop
  <2>1. bucket' \in 0 .. MapSize /\ elem' \in Nat
    <3>1. CASE FreeSkips \/ FreeEnters
      BY <3>1, HashAssumption DEF FreeSkips, FreeEnters, Types, Buckets
    <3>2. CASE FreeCell
      <4>1. bucket \in Buckets
        BY <3>2 DEF FreeCell, Looped
      <4>2. elem' = Following(bucket, elem) /\ bucket' \in {bucket, bucket + 1}
        BY <3>2 DEF FreeCell
      <4>3. elem' \in Nat
        BY <4>1, <4>2, FollowingIs DEF Types
      <4> QED  BY <4>1, <4>2, <4>3, HashAssumption DEF Buckets
    <3> QED  BY <1>3, <3>1, <3>2 DEF Loop
  <2>2. undefined' \in {undefined, "free"}
    BY <1>3 DEF Loop, FreeSkips, FreeEnters, FreeCell
  <2> QED  BY <1>3, <2>1, <2>2, LoopIs DEF Types, Contents, Unset
<1>4. CASE Getting
  <2>1. reading' \in Keys \cup {NoKey} /\ at' \in Nat
    <3>1. CASE GetNext
      <4>1. reading \in Keys /\ Hash[reading] \in Buckets
        BY <3>1, HashAssumption DEF GetNext, Types
      <4>2. at' = Following(Hash[reading], at) /\ reading' = reading
        BY <3>1 DEF GetNext
      <4> QED  BY <4>1, <4>2, FollowingIs DEF Types
    <3>2. CASE GetFound \/ GetMissing
      BY <3>2 DEF GetFound, GetMissing, Types
    <3>3. ASSUME NEW k \in Keys, GetStart(k)  PROVE reading' \in Keys \cup {NoKey} /\ at' \in Nat
      <4>1. Following(Hash[k], 0) \in Nat
        BY HashAssumption, FollowingIs
      <4> QED  BY <3>3, <4>1 DEF GetStart, Types
    <3> QED  BY <1>4, <3>1, <3>2, <3>3 DEF Getting
  <2>2. option' \in [Keys -> Contents]
    <3>1. CASE GetFound
      <4>1. reading \in Keys /\ Hash[reading] \in Buckets /\ at # 0
        BY <3>1, HashAssumption DEF GetFound, Types
      <4>2. at \in 1 .. Len(map[Hash[reading]]) /\ map[Hash[reading]] \in Seq(Cells)
        <5>1. at <= Len(map[Hash[reading]])
          BY <3>1 DEF GetFound, Walk
        <5> QED  BY <4>1, <5>1 DEF Types
      <4>3. PICK c \in Cells : c = map[Hash[reading]][at]
        BY <4>2
      <4>4. option' = [option EXCEPT ![reading] = Copy(c)]
        BY <3>1, <4>3 DEF GetFound
      <4>5. Copy(c) \in Contents
        BY DEF Contents
      <4> QED  BY <4>4, <4>5 DEF Types
    <3>2. CASE option' = option
      BY <3>2 DEF Types
    <3> QED  BY <1>4, <3>1, <3>2, GettingIs
  <2>3. Contents' = Contents
    BY DEF Contents, Unset
  <2> QED  BY <1>4, <2>1, <2>2, <2>3, GettingIs DEF Types
<1>5. CASE Stop \/ UNCHANGED vars
  BY <1>5 DEF Stop, vars, load, get, free, Types, Contents, Unset
<1> QED  BY <1>1, <1>2, <1>3, <1>4, <1>5, Steps DEF Quiet, Loop, Getting

(* The cells are those of the inserted entries. *)
LEMMA HeldStep ==
  ASSUME Types, Held, [Next]_vars
  PROVE  Held'
<1>1. CASE InsertKeysValues
  <2>1. PICK n \in 1 .. Len(file) : Inserts(n)
    BY <1>1, InsertsNext
  <2>2. Done' = Done \cup {n} /\ file' = file /\ Done \subseteq 1 .. Len(file)
    BY <2>1, DoneInsert DEF Inserts
  <2>3. file[n] \in Entry /\ \A j \in Done : file[j] \in Entry
    BY <2>2, EntryAt
  <2>4. PICK h \in Buckets : h = Hash[file[n].key]
    BY <2>3, EntryKey
  <2>5. PICK c \in Cells : c = Cell(file[n])
    BY <2>3, CellType
  <2>6. PICK s \in Seq(Cells) : s = map[h]
    BY DEF Types
  <2>7. map' = [map EXCEPT ![h] = Append(s, c)] /\ map \in [Buckets -> Seq(Cells)]
    BY <2>1, <2>4, <2>5, <2>6 DEF Inserts, HashmapInsert, Types
  <2>8. /\ map'[h] = Append(s, c) /\ \A b \in Buckets \ {h} : map'[b] = map[b]
        /\ DOMAIN s = 1 .. Len(s) /\ Len(s) \in Nat
        /\ DOMAIN Append(s, c) = 1 .. Len(s) + 1
        /\ \A j \in 1 .. Len(s) : Append(s, c)[j] = s[j]
        /\ Append(s, c)[Len(s) + 1] = c
    BY <2>7
  <2>9. ASSUME NEW b \in Buckets, NEW j \in DOMAIN map'[b]
        PROVE  \E i \in Done' : map'[b][j] = Cell(file[i])
    <3>1. CASE b = h /\ j = Len(s) + 1
      BY <3>1, <2>2, <2>5, <2>8
    <3>2. CASE ~ (b = h /\ j = Len(s) + 1)
      <4>1. j \in DOMAIN map[b] /\ map'[b][j] = map[b][j]
        BY <2>6, <2>8, <2>9, <3>2
      <4>2. \E i \in Done : map[b][j] = Cell(file[i])
        BY <4>1 DEF Held
      <4> QED  BY <4>1, <4>2, <2>2
    <3> QED  BY <3>1, <3>2
  <2>10. ASSUME NEW i \in Done'
         PROVE  \E j \in DOMAIN map'[Hash[file[i].key]] :
                  map'[Hash[file[i].key]][j] = Cell(file[i])
    <3>1. CASE i = n
      <4>1. Len(s) + 1 \in DOMAIN map'[h]
        BY <2>8
      <4> QED  BY <3>1, <4>1, <2>4, <2>5, <2>8
    <3>2. CASE i # n
      <4>1. PICK b \in Buckets : b = Hash[file[i].key]
        BY <3>2, <2>2, <2>3, EntryKey
      <4>2. PICK j \in DOMAIN map[b] : map[b][j] = Cell(file[i])
        BY <3>2, <4>1, <2>2 DEF Held
      <4>3. j \in DOMAIN map'[b] /\ map'[b][j] = map[b][j]
        <5>1. CASE b = h
          <6>1. j \in 1 .. Len(s) /\ j \in 1 .. Len(s) + 1
            BY <5>1, <4>2, <2>6, <2>8
          <6> QED  BY <5>1, <6>1, <2>6, <2>8
        <5>2. CASE b # h
          BY <5>2, <2>8
        <5> QED  BY <5>1, <5>2
      <4> QED  BY <4>1, <4>2, <4>3
    <3> QED  BY <3>1, <3>2
  <2> QED  BY <2>2, <2>9, <2>10 DEF Held, Cell, Atoi
<1>2. CASE ~ InsertKeysValues
  BY <1>2, DoneSame DEF Held, Cell, Atoi
<1> QED  BY <1>1, <1>2

(* All entries are in when the file is loaded. *)
LEMMA AllDone ==
  ASSUME Types, ScanEnds
  PROVE  Done = DOMAIN file
<1>1. Matches = {} /\ pass = "string"
  BY DEF ScanEnds
<1>2. \A j \in DOMAIN file : file[j].type \in {"int", "string"}
  BY EntryAt, EntryKey DEF Type
<1>3. \A j \in DOMAIN file : file[j].type = "string" => j <= cursor
  BY <1>1, EntryAt DEF Matches, Types
<1> QED  BY <1>1, <1>2, <1>3 DEF Done

(* Every step keeps Loaded: the end of the second pass has all the entries in. *)
LEMMA LoadedStep ==
  ASSUME Types, Loaded, Walk, [Next]_vars
  PROVE  Loaded'
<1>1. CASE InsertKeysValues
  <2>1. UNCHANGED <<pc, reading, at, option, mutex>> /\ pc \notin Later
    BY <1>1 DEF InsertKeysValues, get, Later
  <2> QED  BY <2>1 DEF Loaded, Unset, Later
<1>2. CASE Quiet
  <2>1. UNCHANGED <<reading, at, option, file>>
    BY <1>2, QuietIs
  <2>2. Done' = Done
    <3>1. CASE NextPass
      <4>1. ~ InsertKeysValues
        BY <3>1 DEF NextPass, InsertKeysValues
      <4> QED  BY <4>1, DoneSame
    <3>2. CASE UNCHANGED <<pass, cursor>>
      BY <1>2, <3>2, QuietIs DEF Done
    <3> QED  BY <1>2, <3>1, <3>2, QuietIs
  <2>3. ~ (FreeParser /\ pc = "free_failed")
    BY DEF FreeParser, Loaded
  <2>4. pc' \in Later => pc \in Later \/ ScanEnds
    BY <1>2, <2>3, QuietIs
  <2>5. ScanEnds => Done = DOMAIN file
    BY AllDone
  <2>6. pc' \in {"scan", "exec_failed", "free_failed"} => mutex' = 0
    BY <1>2 DEF Quiet, InitYmlParser, ExecParser, InsertStrays, InsertFails, NextPass,
                ScanEnds, LoadFails, GetStrays, FreeParser, FreeStrays, Freed, Loaded
  <2>7. pc \in Later => pc' \in Later
    BY <1>2, QuietIs
  <2> QED  BY <2>1, <2>2, <2>4, <2>5, <2>6, <2>7 DEF Loaded, Unset, Later
<1>3. CASE Loop
  <2>1. Done' = Done
    BY <1>3, LoopIs DEF Done
  <2> QED  BY <1>3, <2>1, LoopIs DEF Loaded, Unset, Later
<1>4. CASE Getting
  <2>1. Done' = Done
    BY <1>4, GettingIs DEF Done
  <2>2. pc \in Later
    BY <1>4, GettingIs DEF Loaded
  <2> QED  BY <1>4, <2>1, <2>2, GettingIs DEF Loaded, Unset, Later
<1>5. CASE Stop
  <2>1. Done' = Done
    BY <1>5 DEF Done, Stop, load
  <2> QED  BY <1>5, <2>1 DEF Stop, load, Loaded, Later
<1>6. CASE UNCHANGED vars
  <2>1. Done' = Done
    BY <1>6 DEF Done, vars, load
  <2> QED  BY <1>6, <2>1 DEF vars, load, get, Loaded, Unset, Later
<1> QED  BY <1>1, <1>2, <1>3, <1>4, <1>5, <1>6, Steps DEF Quiet, Loop, Getting

(* A walk depends on the lists and on the place of the get. *)
LEMMA WalkSame ==
  ASSUME Walk, UNCHANGED <<map, reading, at>>
  PROVE  Walk'
BY DEF Walk

(* Every step keeps Walk: a get goes on past cells of other keys only. *)
LEMMA WalkStep ==
  ASSUME Types, Loaded, Walk, [Next]_vars
  PROVE  Walk'
<1>1. CASE InsertKeysValues
  <2>1. reading' = NoKey /\ at' = 0
    BY <1>1 DEF InsertKeysValues, get, Loaded, Later
  <2> QED  BY <2>1 DEF Walk
<1>2. CASE Quiet
  BY <1>2, QuietIs, WalkSame
<1>3. CASE Loop
  BY <1>3, LoopIs, WalkSame
<1>4. CASE Stop
  <2>1. \/ UNCHANGED <<map, reading, at>>
        \/ reading' = NoKey /\ at' = 0
    BY <1>4 DEF Stop
  <2> QED  BY <2>1, WalkSame DEF Walk
<1>5. CASE UNCHANGED vars
  BY <1>5, WalkSame DEF vars, get
<1>6. CASE GetFound \/ GetMissing
  <2>1. reading' = NoKey /\ at' = 0
    BY <1>6 DEF GetFound, GetMissing
  <2> QED  BY <2>1 DEF Walk
<1>7. CASE GetNext
  <2>1. PICK b \in Buckets : b = Hash[reading]
    BY <1>7, HashAssumption DEF GetNext, Types
  <2>2. PICK n \in Nat : n = Len(map[b])
    BY DEF Types
  <2>3. DOMAIN map[b] = 1 .. n
    BY <2>2 DEF Types
  <2>4. at \in Nat /\ at # 0 /\ reading # NoKey /\ map[b][at].key # reading
    BY <1>7, <2>1 DEF GetNext, Types
  <2>5. PICK f \in Nat : f = Following(b, at) /\ f <= n /\ (f = 0 \/ f = at + 1)
                         /\ (f = 0 => n <= at)
    BY <2>2, <2>4, FollowingIs
  <2>6. UNCHANGED <<map, reading>> /\ at' = f
    BY <1>7, <2>1, <2>5 DEF GetNext
  <2>7. \A j \in 1 .. n : j < at => map[b][j].key # reading
    BY <2>1, <2>3, <2>4 DEF Walk
  <2>8. \A j \in 1 .. n : f = 0 \/ j < f => map[b][j].key # reading
    BY <2>4, <2>5, <2>7
  <2> QED  BY <2>1, <2>2, <2>3, <2>4, <2>5, <2>6, <2>8 DEF Walk
<1>8. ASSUME NEW k \in Keys, GetStart(k)  PROVE Walk'
  <2>1. CASE UNCHANGED <<reading, at>>
    BY <1>8, <2>1, WalkSame DEF GetStart
  <2>2. CASE reading' = k /\ at' = Following(Hash[k], 0)
    <3>1. PICK b \in Buckets : b = Hash[k]
      BY HashAssumption
    <3>2. PICK n \in Nat : n = Len(map[b])
      BY DEF Types
    <3>3. DOMAIN map[b] = 1 .. n
      BY <3>2 DEF Types
    <3>4. PICK f \in Nat : f = Following(b, 0) /\ f <= n /\ (f = 0 \/ f = 1) /\ (f = 0 => n <= 0)
      BY <3>2, FollowingIs
    <3>5. reading' = k /\ k # NoKey /\ at' = f /\ map' = map
      BY <1>8, <2>2, <3>1, <3>4, ParserAssumption DEF GetStart
    <3>6. \A j \in 1 .. n : ~ (f = 0 \/ j < f)
      BY <3>4
    <3> QED  BY <3>1, <3>2, <3>3, <3>4, <3>5, <3>6 DEF Walk
  <2> QED  BY <1>8, <2>1, <2>2 DEF GetStart
<1> QED  BY <1>1, <1>2, <1>3, <1>4, <1>5, <1>6, <1>7, <1>8, Steps DEF Quiet, Loop

(* What was read depends on the file and the options. *)
LEMMA ReadSame ==
  ASSUME Read, UNCHANGED <<file, option>>
  PROVE  Read'
BY DEF Read, Unset, EntriesOf, Cell, Copy, Atoi

(* Every step keeps Read: what get copies is the cell of an entry. *)
LEMMA ReadStep ==
  ASSUME Types, Held, Loaded, Walk, Read, [Next]_vars
  PROVE  Read'
<1>1. CASE InsertKeysValues
  BY <1>1, ReadSame DEF InsertKeysValues, get
<1>2. CASE Quiet
  BY <1>2, QuietIs, ReadSame
<1>3. CASE Loop
  BY <1>3, LoopIs, ReadSame
<1>4. CASE Stop \/ UNCHANGED vars
  BY <1>4, ReadSame DEF Stop, vars, load, get
<1>5. CASE Getting /\ ~ GetFound
  BY <1>5, GettingIs, ReadSame
<1>6. CASE GetFound
  <2>1. reading \in Keys /\ at # 0 /\ file' = file
    BY <1>6 DEF GetFound, load, Types
  <2>2. PICK b \in Buckets : b = Hash[reading]
    BY <2>1, HashAssumption
  <2>3. at \in DOMAIN map[b]
    <3>1. at <= Len(map[b])
      BY <1>6, <2>2 DEF GetFound, Walk
    <3> QED  BY <2>1, <3>1 DEF Types
  <2>4. PICK i \in Done : map[b][at] = Cell(file[i])
    BY <2>3 DEF Held
  <2>5. i \in DOMAIN file /\ file[i] \in Entry
    BY EntryAt DEF Done
  <2>6. Cell(file[i]).key = reading
    BY <1>6, <2>2, <2>4 DEF GetFound
  <2>7. i \in EntriesOf(reading)
    BY <2>5, <2>6, CellType DEF EntriesOf
  <2>8. option' = [option EXCEPT ![reading] = Copy(Cell(file[i]))]
    BY <1>6, <2>2, <2>4 DEF GetFound
  <2>9. ASSUME NEW k \in Keys
        PROVE  option'[k] = Unset(k) \/ \E j \in EntriesOf(k) : option'[k] = Copy(Cell(file[j]))
    BY <2>1, <2>7, <2>8 DEF Read, Types
  <2>10. \A k \in Keys : /\ Unset(k)' = Unset(k) /\ EntriesOf(k)' = EntriesOf(k)
                         /\ \A j \in EntriesOf(k) : Copy(Cell(file[j]))' = Copy(Cell(file[j]))
    BY <2>1 DEF Unset, EntriesOf, Cell, Copy, Atoi
  <2> QED  BY <2>9, <2>10 DEF Read
<1> QED  BY <1>1, <1>2, <1>3, <1>4, <1>5, <1>6, Steps DEF Quiet, Loop, Getting

(* Where the loop is depends on its variables and on the lists. *)
LEMMA LoopedSame ==
  ASSUME Looped, UNCHANGED <<map, bucket, elem, freed>>, undefined' # "free",
         pc \in {"freeing", "freed"} => pc' \in {"freeing", "freed"},
         pc' = "freed" => bucket = MapSize /\ elem = 0
  PROVE  Looped'
BY DEF Looped, Buckets

(* Every step keeps Looped: a turn of the loop frees the cell it is at. *)
LEMMA LoopedStep ==
  ASSUME Types, Looped, [Next]_vars
  PROVE  Looped'
<1>1. CASE InsertKeysValues
  <2>1. PICK n \in 1 .. Len(file) : Inserts(n)
    BY <1>1, InsertsNext
  <2>2. /\ pc = "scan" /\ pc' = "scan" /\ undefined' = undefined
        /\ UNCHANGED <<bucket, elem, freed>>
    BY <2>1 DEF Inserts, free
  <2>3. bucket = 0 /\ elem = 0
    BY <2>2 DEF Looped
  <2>4. \A b \in Buckets, i \in Nat \ {0} : ~ (b < bucket \/ (b = bucket /\ i < elem))
    BY <2>3, HashAssumption DEF Buckets
  <2>5. \A b \in Buckets, i \in Nat \ {0} : <<b, i>> \notin freed
    BY <2>4 DEF Looped
  <2> QED  BY <2>2, <2>3, <2>4, <2>5 DEF Looped, Buckets
<1>2. CASE Quiet
  <2>1. pc \in {"freeing", "freed"} => pc' \in {"freeing", "freed"}
    BY <1>2 DEF Quiet, InitYmlParser, ExecParser, InsertStrays, InsertFails, NextPass,
                ScanEnds, LoadFails, GetStrays, FreeParser, FreeStrays, Freed
  <2>2. pc' = "freed" => bucket = MapSize /\ elem = 0
    BY <1>2 DEF Quiet, InitYmlParser, ExecParser, InsertStrays, InsertFails, NextPass,
                ScanEnds, LoadFails, GetStrays, FreeParser, FreeStrays, Freed, Looped
  <2>3. undefined' # "free"
    BY <1>2, QuietIs DEF Looped
  <2> QED  BY <1>2, <2>1, <2>2, <2>3, QuietIs, LoopedSame
<1>3. CASE Getting
  <2>1. undefined' # "free"
    BY <1>3, GettingIs DEF Looped
  <2> QED  BY <1>3, <2>1, GettingIs, LoopedSame DEF Looped
<1>4. CASE Stop \/ UNCHANGED vars
  <2>1. UNCHANGED <<map, bucket, elem, freed, undefined>>
    BY <1>4 DEF Stop, vars, free
  <2>2. pc' = pc \/ (pc = "loaded" /\ pc' = "free")
    BY <1>4 DEF Stop, vars
  <2> QED  BY <2>1, <2>2, LoopedSame DEF Looped
<1>5. CASE FreeSkips \/ FreeEnters
  <2>1. /\ UNCHANGED <<pc, map, freed, undefined>> /\ pc = "freeing"
        /\ elem = 0 /\ bucket \in Buckets /\ bucket \in Nat
        /\ \/ bucket' = bucket + 1 /\ elem' = 0 /\ map[bucket] = << >>
           \/ bucket' = bucket /\ elem' = 1 /\ map[bucket] # << >>
    BY <1>5 DEF FreeSkips, FreeEnters, Buckets
  <2>2. PICK n \in Nat : n = Len(map[bucket]) /\ (map[bucket] = << >> <=> n = 0)
    BY <2>1 DEF Types
  <2>3. elem' # 0 => bucket' \in Buckets /\ elem' <= Len(map[bucket'])
    BY <2>1, <2>2
  <2>4. ASSUME NEW b \in Buckets, NEW i \in Nat \ {0}
        PROVE  <<b, i>> \in freed <=> i <= Len(map[b]) /\ (b < bucket' \/ (b = bucket' /\ i < elem'))
    <3>1. <<b, i>> \in freed <=> i <= Len(map[b]) /\ b < bucket
      BY <2>1 DEF Looped
    <3>2. CASE b = bucket
      BY <3>1, <3>2, <2>1, <2>2
    <3>3. CASE b # bucket
      BY <3>1, <3>3, <2>1 DEF Buckets
    <3> QED  BY <3>2, <3>3
  <2> QED  BY <2>1, <2>3, <2>4 DEF Looped, Buckets
<1>6. CASE FreeCell
  <2>1. /\ UNCHANGED <<pc, map>> /\ pc = "freeing" /\ elem # 0 /\ elem \in Nat
        /\ bucket \in Buckets /\ elem <= Len(map[bucket]) /\ bucket \in Nat
    BY <1>6 DEF FreeCell, Looped, Types, Buckets
  <2>2. PICK n \in Nat : n = Len(map[bucket])
    BY <2>1 DEF Types
  <2>3. PICK f \in Nat : f = Following(bucket, elem) /\ f <= n /\ (f # 0 => f = elem + 1)
                         /\ (f = 0 => n <= elem)
    BY <2>1, <2>2, FollowingIs
  <2>4. /\ elem' = f /\ bucket' = IF f = 0 THEN bucket + 1 ELSE bucket
        /\ freed' = freed \cup {<<bucket, elem>>}
        /\ undefined' = IF <<bucket, elem>> \in freed THEN "free" ELSE undefined
    BY <1>6, <2>3 DEF FreeCell
  <2>5. <<bucket, elem>> \notin freed
    BY <2>1 DEF Looped
  <2>6. ASSUME NEW b \in Buckets, NEW i \in Nat \ {0}
        PROVE  <<b, i>> \in freed' <=> i <= Len(map[b]) /\ (b < bucket' \/ (b = bucket' /\ i < elem'))
    <3>1. <<b, i>> \in freed <=> i <= Len(map[b]) /\ (b < bucket \/ (b = bucket /\ i < elem))
      BY DEF Looped
    <3>2. <<b, i>> \in freed' <=> <<b, i>> \in freed \/ (b = bucket /\ i = elem)
      BY <2>4
    <3>3. CASE b = bucket
      BY <3>1, <3>2, <3>3, <2>1, <2>2, <2>3, <2>4
    <3>4. CASE b # bucket
      BY <3>1, <3>2, <3>4, <2>1, <2>4 DEF Buckets
    <3> QED  BY <3>3, <3>4
  <2>7. elem' # 0 => bucket' \in Buckets /\ elem' <= Len(map[bucket'])
    BY <2>1, <2>2, <2>3, <2>4
  <2> QED  BY <2>1, <2>4, <2>5, <2>6, <2>7 DEF Looped, Buckets
<1> QED  BY <1>1, <1>2, <1>3, <1>4, <1>5, <1>6, Steps DEF Quiet, Getting

-----------------------------------------------------------------------------
(* The theorems *)

(* Nothing is inserted when the process starts. *)
LEMMA ParserInvInit ==
  ASSUME Init
  PROVE  ParserInv
<1>1. PICK n \in 0 .. MaxEntries : file \in [1 .. n -> Entry]
  BY DEF Init
<1>2. n \in Nat /\ n <= MaxEntries
  BY <1>1, ParserAssumption
<1>3. file \in Seq(Entry) /\ Len(file) = n /\ DOMAIN file = 1 .. n
  BY <1>1, <1>2
<1>4. dirty \subseteq Buckets
  BY DEF Init
<1>5. Types
  BY <1>2, <1>3, <1>4, HashAssumption DEF Init, Types, Type, Contents
<1>6. Done = {}
  BY <1>3, <1>2 DEF Init, Done
<1>7. Held
  BY <1>6 DEF Init, Held
<1>8. Loaded /\ Walk /\ Read
  BY DEF Init, Loaded, Walk, Read, Later
<1>9. Looped
  BY HashAssumption DEF Init, Looped, Buckets
<1> QED  BY <1>5, <1>7, <1>8, <1>9 DEF ParserInv

(* ParserInv is an invariant of the parser, whatever the file, the faults and
   the moment at which a thread reads or the process stops. *)
THEOREM Invariance == Spec => []ParserInv
<1>1. Init => ParserInv
  BY ParserInvInit
<1>2. ParserInv /\ [Next]_vars => ParserInv'
  BY TypesStep, HeldStep, LoadedStep, WalkStep, ReadStep, LoopedStep DEF ParserInv
<1> QED  BY <1>1, <1>2, PTL DEF Spec

(* The lists hold cells of the file and the options what the file or the
   program puts in them; no walk leaves its list (yml_parser.c:223-237,
   320-379). *)
THEOREM TypeCorrect == Spec => []TypeOK
<1>1. ParserInv => TypeOK
  <2> SUFFICES ASSUME ParserInv  PROVE TypeOK
    OBVIOUS
  <2>1. Types /\ Held /\ Walk /\ Read /\ Looped
    BY DEF ParserInv
  <2>2. Done \subseteq DOMAIN file
    BY DEF Done
  <2>3. \A b \in Buckets : \A i \in DOMAIN map[b] :
          map[b][i] \in {Cell(file[j]) : j \in DOMAIN file}
    BY <2>1, <2>2 DEF Held
  <2>4. \A k \in Keys : option[k] \in {Unset(k)} \cup {Copy(Cell(file[j])) : j \in DOMAIN file}
    BY <2>1 DEF Read, EntriesOf
  <2>5. at # 0 => reading # NoKey /\ at \in DOMAIN map[Hash[reading]]
    <3> SUFFICES ASSUME at # 0  PROVE reading # NoKey /\ at \in DOMAIN map[Hash[reading]]
      OBVIOUS
    <3>1. reading \in Keys /\ reading # NoKey /\ at <= Len(map[Hash[reading]])
      BY <2>1 DEF Walk, Types
    <3>2. Hash[reading] \in Buckets
      BY <3>1, HashAssumption
    <3> QED  BY <3>1, <3>2, <2>1 DEF Types
  <2>6. elem # 0 => bucket \in Buckets /\ elem \in DOMAIN map[bucket]
    BY <2>1 DEF Looped, Types
  <2> QED  BY <2>1, <2>3, <2>4, <2>5, <2>6 DEF Types, TypeOK
<1> QED  BY <1>1, Invariance, PTL

(* An option that was read is what an entry of its key gives, and get misses
   only the keys that the file does not have, for any hash function and any
   file (yml_parser.c:195-237, 286-361). *)
THEOREM OptionsAreBoundTheorem == Spec => []OptionsAreBound
<1>1. ParserInv => OptionsAreBound
  <2> SUFFICES ASSUME ParserInv
               PROVE  /\ \A k \in Keys : option[k] = Unset(k)
                                         \/ \E i \in EntriesOf(k) : Gives(file[i], option[k])
                      /\ reading # NoKey /\ at = 0 => EntriesOf(reading) = {}
    BY DEF OptionsAreBound
  <2>1. Types /\ Held /\ Loaded /\ Walk /\ Read
    BY DEF ParserInv
  <2>2. ASSUME NEW k \in Keys, option[k] # Unset(k)
        PROVE  \E i \in EntriesOf(k) : Gives(file[i], option[k])
    <3>1. PICK i \in EntriesOf(k) : option[k] = Copy(Cell(file[i]))
      BY <2>1, <2>2 DEF Read
    <3>2. file[i] \in Entry
      BY <2>1, EntryAt DEF EntriesOf
    <3> QED  BY <3>1, <3>2, CopyGives
  <2>3. ASSUME reading # NoKey, at = 0, NEW i \in EntriesOf(reading)  PROVE FALSE
    <3>1. i \in DOMAIN file /\ file[i].key = reading /\ file[i] \in Entry
      BY <2>1, EntryAt DEF EntriesOf
    <3>2. i \in Done
      BY <3>1, <2>1, <2>3 DEF Loaded
    <3>3. PICK j \in DOMAIN map[Hash[reading]] : map[Hash[reading]][j] = Cell(file[i])
      BY <3>1, <3>2, <2>1 DEF Held
    <3>4. map[Hash[reading]][j].key = reading
      BY <3>1, <3>3, CellType
    <3> QED  BY <3>3, <3>4, <2>1, <2>3 DEF Walk
  <2> QED  BY <2>2, <2>3
<1> QED  BY <1>1, Invariance, PTL

(* The loop that frees comes to every cell of every list, once, and reads none
   that it has freed, for any lengths of the lists (yml_parser.c:363-379). *)
THEOREM FreesAllTheorem == Spec => []FreesAll
<1>1. ParserInv => FreesAll
  <2> SUFFICES ASSUME ParserInv  PROVE FreesAll
    OBVIOUS
  <2>1. Types /\ Looped
    BY DEF ParserInv
  <2>2. ASSUME pc = "freed", NEW b \in Buckets, NEW i \in DOMAIN map[b]  PROVE <<b, i>> \in freed
    <3>1. i \in Nat \ {0} /\ i <= Len(map[b])
      BY <2>1 DEF Types
    <3>2. b < bucket
      BY <2>1, <2>2, HashAssumption DEF Looped, Buckets
    <3> QED  BY <3>1, <3>2, <2>1 DEF Looped
  <2> QED  BY <2>1, <2>2 DEF FreesAll, Looped
<1> QED  BY <1>1, Invariance, PTL

(* The lists implement a dictionary: an insertion binds its own key only, and
   what is bound stays until free_parser has the mutex (yml_parser.c:195-251,
   320-361). *)
THEOREM DictionaryRefinement == Spec => ImplementsDictionary
<1> DEFINE bound == [k \in Keys |-> IF Phase = "closed" THEN Unbound ELSE Lookup(k)]
<1>1. Init => D!Init
  <2> SUFFICES ASSUME Init  PROVE Phase = "load" /\ bound = [k \in Keys |-> Unbound]
    BY DEF D!Init
  <2>1. ASSUME NEW k \in Keys  PROVE Lookup(k) = Unbound
    <3>1. map[Hash[k]] = << >>
      BY HashAssumption DEF Init
    <3>2. Found(k) = {}
      BY <3>1 DEF Found
    <3> QED  BY <3>2, LookupIs
  <2>2. Phase = "load"
    BY DEF Init, Phase
  <2> QED  BY <2>1, <2>2
<1>2. ParserInv /\ [Next]_vars => [D!Next]_<<Phase, bound>>
  <2> SUFFICES ASSUME ParserInv, [Next]_vars  PROVE [D!Next]_<<Phase, bound>>
    OBVIOUS
  <2>1. CASE InsertKeysValues
    <3>1. PICK n \in 1 .. Len(file) : Inserts(n)
      BY <2>1, InsertsNext DEF ParserInv
    <3>2. PICK e \in Entry : e = file[n]
      BY EntryAt DEF ParserInv
    <3>3. Phase = "load" /\ Phase' = "load"
      BY <3>1 DEF Inserts, Phase
    <3>4. PICK c \in Cells : c = Cell(e)
      BY CellType
    <3>5. \A k \in Keys :
            /\ Lookup(k)' = IF e.key = k /\ Found(k) = {} THEN BindingOf(c) ELSE Lookup(k)
            /\ Lookup(k) = Unbound <=> Found(k) = {}
      BY <3>1, <3>2, <3>4, LookupInsert, BoundIsBinding DEF ParserInv
    <3>6. bound = [k \in Keys |-> Lookup(k)] /\ bound' = [k \in Keys |-> Lookup(k)']
      BY <3>3 DEF Unbound
    <3>7. CASE Found(e.key) = {}
      <4>1. e.key \in Keys /\ BindingOf(c) \in Binding
        BY <3>4, EntryKey DEF Cells, Binding, BindingOf
      <4>2. bound' = [bound EXCEPT ![e.key] = BindingOf(c)]
        BY <3>5, <3>6, <3>7, <4>1
      <4>3. D!Put(e.key)
        BY <3>3, <4>1, <4>2 DEF D!Put
      <4> QED  BY <4>1, <4>3 DEF D!Next
    <3>8. CASE Found(e.key) # {}
      <4>1. \A k \in Keys : Lookup(k)' = Lookup(k)
        BY <3>5, <3>8
      <4> QED  BY <3>3, <3>6, <4>1
    <3> QED  BY <3>7, <3>8
  <2>2. CASE ~ InsertKeysValues
    <3>1. map' = map /\ \A k \in Keys : Lookup(k)' = Lookup(k)
      BY <2>2, DoneSame, LookupSame DEF ParserInv
    <3>2. CASE Phase' = Phase
      <4>1. bound' = bound
        BY <3>1, <3>2 DEF Unbound
      <4> QED  BY <3>2, <4>1
    <3>3. CASE Phase = "load" /\ Phase' = "use"
      <4>1. bound' = bound
        BY <3>1, <3>3 DEF Unbound
      <4> QED  BY <3>3, <4>1 DEF D!Next, D!Open
    <3>4. CASE Phase = "use" /\ Phase' = "closed"
      <4>1. bound' = [k \in Keys |-> Unbound]
        BY <3>4 DEF Unbound
      <4> QED  BY <3>4, <4>1 DEF D!Next, D!Close
    <3>5. \/ Phase' = Phase
          \/ Phase = "load" /\ Phase' = "use"
          \/ Phase = "use" /\ Phase' = "closed"
      <4>1. CASE Quiet
        <5>1. ~ (FreeParser /\ pc = "free_failed")
          BY DEF FreeParser, ParserInv, Loaded
        <5> QED  BY <4>1, <5>1 DEF Quiet, InitYmlParser, ExecParser, InsertStrays, InsertFails,
                   NextPass, ScanEnds, LoadFails, GetStrays, FreeParser, FreeStrays, Freed, Phase
      <4>2. CASE Loop
        BY <4>2, LoopIs DEF Phase
      <4>3. CASE Getting
        BY <4>3, GettingIs DEF Phase
      <4>4. CASE Stop \/ UNCHANGED vars
        BY <4>4 DEF Stop, vars, Phase
      <4> QED  BY <2>2, <4>1, <4>2, <4>3, <4>4, Steps DEF Quiet, Loop, Getting
    <3> QED  BY <3>2, <3>3, <3>4, <3>5
  <2> QED  BY <2>1, <2>2
<1> QED  BY <1>1, <1>2, Invariance, PTL DEF Spec, ImplementsDictionary, D!Spec

=============================================================================
