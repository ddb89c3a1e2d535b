----------------------------- MODULE YmlParser ------------------------------
(***************************************************************************)
(* The configuration of the server and of the clients (yml_parser.c, and   *)
(* main of server.c and client.c, which load it, read their options and    *)
(* free it).                                                               *)
(*                                                                         *)
(* exec_parser goes over the file twice, for the integers and then for the *)
(* strings, and appends each binding it finds to the list of its bucket.   *)
(* get walks that list without the mutex, so that the thread of a client   *)
(* may be in get while the signal handler frees the lists.  The regular    *)
(* expressions tell integers from strings by the quotes: an entry matches  *)
(* one of them.                                                            *)
(*                                                                         *)
(* A cell is a bucket and a place on its list.  What the C standard leaves *)
(* undefined stops the model: undefined says what it was.                  *)
(***************************************************************************)
EXTENDS Integers, Sequences, FiniteSets, FiniteSetsExt

CONSTANTS
  Keys,        \* names of options
  Written,     \* the integers a file may have
  Strings,     \* the strings it may have
  Wide,        \* those that take more bytes than an int, with their zero
  MapSize,     \* MAP_SIZE lists
  Hash,        \* str_hashfun modulo MAP_SIZE
  IntBound,    \* an int is from -IntBound to IntBound - 1
  Defaulted,   \* options whose variable is initialised before get
  PerThread,   \* options that the thread of each client reads
  MaxEntries,  \* how many entries a file has (a bound)
  Faults       \* what may fail

Buckets == 0 .. MapSize - 1

NoKey == "none"

ASSUME HashAssumption == MapSize \in Nat /\ Hash \in [Keys -> Buckets]

ASSUME ParserAssumption ==
  /\ Written \subseteq Int /\ IntBound \in Nat \ {0}
  /\ Wide \subseteq Strings
  /\ Defaulted \subseteq Keys /\ PerThread \subseteq Keys /\ NoKey \notin Keys
  /\ MaxEntries \in Nat
  /\ Faults \subseteq {"no_memory", "no_file", "dirty_memory"}

VARIABLES
  file,       \* the entries of the file, in order
  dirty,      \* the buckets that malloc did not hand out as NULL
  pc,         \* where the process is
  pass,       \* the type of the entries exec_parser inserts
  cursor,     \* the entries it has passed
  map,        \* the list of cells of each bucket
  mutex,      \* the semaphore of the parser
  option,     \* the variable of each option
  reading,    \* the key of the get in progress
  at,         \* its cell, 0 for NULL
  bucket,     \* the index of the loop of free_hash_map
  elem,       \* its cell, 0 between two lists
  freed,      \* the cells that were freed
  undefined   \* what undefined behaviour was met

load == <<file, dirty, pass, cursor>>

get == <<option, reading, at>>

free == <<bucket, elem, freed>>

vars == <<load, pc, map, mutex, get, free, undefined>>

Type == {"int", "string"}

Entry == [key : Keys, type : {"int"}, value : Written]
           \cup [key : Keys, type : {"string"}, value : Strings]

(* What atoi makes of an integer: it is cut to the width of an int. *)
Atoi(n) == ((n + IntBound) % (2 * IntBound)) - IntBound

Cell(e) == [key |-> e.key, type |-> e.type,
            value |-> IF e.type = "int" THEN Atoi(e.value) ELSE e.value]

Binding == [type : {"int"}, value : -IntBound .. IntBound - 1]
             \cup [type : {"string"}, value : Strings]

(* What the variable of an option holds before get: an uninitialised integer
   holds anything. *)
Unset(k) == [type |-> IF k \in Defaulted THEN "default" ELSE "garbage"]

(* memcpy of the cell c into an integer: a string replaces the first bytes of
   the integer by its own. *)
Copy(c) == [type |-> IF c.type = "int" THEN "int" ELSE "bytes", value |-> c.value]

Unbound == [type |-> "none"]

(* The memory of the buckets is not cleared: it is zero as long as the process
   has freed nothing. *)
Init ==
  /\ file \in UNION {[1 .. n -> Entry] : n \in 0 .. MaxEntries}
  /\ dirty \in IF "dirty_memory" \in Faults THEN SUBSET Buckets ELSE {{}}
  /\ pc = "init" /\ pass = "int" /\ cursor = 0
  /\ map = [b \in Buckets |-> << >>]
  /\ mutex = 0
  /\ option = [k \in Keys |-> Unset(k)]
  /\ reading = NoKey /\ at = 0
  /\ bucket = 0 /\ elem = 0 /\ freed = {}
  /\ undefined = "none"

-----------------------------------------------------------------------------
(* Loading *)

InitYmlParser ==
  /\ pc = "init"
  /\ \/ pc' = "exec" /\ mutex' = 1
     \/ Faults \cap {"no_memory", "no_file"} # {} /\ pc' = "no_parser" /\ UNCHANGED mutex
  /\ UNCHANGED <<load, map, get, free, undefined>>

ExecParser ==
  /\ pc = "exec" /\ mutex > 0
  /\ mutex' = 0
  /\ pc' = "scan"
  /\ UNCHANGED <<load, map, get, free, undefined>>

(* The next entry of the type of this pass, if any. *)
Matches == {i \in DOMAIN file : i > cursor /\ file[i].type = pass}

\* Mutant of HashmapInsert: on a collision the list is replaced by the new cell.
HashmapInsertAlone(e) == map' = [map EXCEPT ![Hash[e.key]] = <<Cell(e)>>]

(* At the end of the list, even when the key is there. *)
HashmapInsert(e) == map' = [map EXCEPT ![Hash[e.key]] = Append(@, Cell(e))]

InsertKeysValues ==
  /\ pc = "scan" /\ Matches # {}
  /\ LET i == Min(Matches) IN
     /\ Hash[file[i].key] \notin dirty
     /\ HashmapInsert(file[i])
     /\ cursor' = i
  /\ UNCHANGED <<file, dirty, pc, pass, mutex, get, free, undefined>>

(* The head of the list is not a pointer to a cell. *)
InsertStrays ==
  /\ pc = "scan" /\ Matches # {}
  /\ Hash[file[Min(Matches)].key] \in dirty
  /\ undefined' = "bucket"
  /\ UNCHANGED <<load, pc, map, mutex, get, free>>

(* malloc fails: for the cell, whose address is not the one that is tested,
   a fault ends the process; else exec_parser fails and keeps the mutex. *)
InsertFails ==
  /\ "no_memory" \in Faults
  /\ pc = "scan" /\ Matches # {}
  /\ pc' \in {"crashed", "exec_failed"}
  /\ UNCHANGED <<load, map, mutex, get, free, undefined>>

\* Mutant of NextPass: the pass of the strings does not start again.
NextPassGoesOn ==
  /\ pc = "scan" /\ Matches = {} /\ pass = "int"
  /\ pass' = "string"
  /\ UNCHANGED <<file, dirty, pc, cursor, map, mutex, get, free, undefined>>

NextPass ==
  /\ pc = "scan" /\ Matches = {} /\ pass = "int"
  /\ pass' = "string" /\ cursor' = 0
  /\ UNCHANGED <<file, dirty, pc, map, mutex, get, free, undefined>>

\* Mutant of ScanEnds: the mutex is kept on success too.
ScanEndsLocked ==
  /\ pc = "scan" /\ Matches = {} /\ pass = "string"
  /\ pc' = "loaded"
  /\ UNCHANGED <<load, map, mutex, get, free, undefined>>

ScanEnds ==
  /\ pc = "scan" /\ Matches = {} /\ pass = "string"
  /\ mutex' = 1
  /\ pc' = "loaded"
  /\ UNCHANGED <<load, map, get, free, undefined>>

(* main ends when exec_parser fails: it frees the parser. *)
LoadFails ==
  /\ pc = "exec_failed"
  /\ pc' = "free_failed"
  /\ UNCHANGED <<load, map, mutex, get, free, undefined>>

-----------------------------------------------------------------------------
(* Reading *)

(* The cell after the place i on the list of b. *)
Following(b, i) == IF i < Len(map[b]) THEN i + 1 ELSE 0

(* A thread may call get until the process ends. *)
MayGet(k) == pc = "loaded" \/ (k \in PerThread /\ pc \in {"free", "freeing", "freed"})

GetStart(k) ==
  /\ reading = NoKey /\ MayGet(k)
  /\ IF pc = "freed" \/ Hash[k] \in dirty
       THEN /\ undefined' = IF pc = "freed" THEN "late" ELSE "bucket"
            /\ UNCHANGED <<reading, at>>
       ELSE /\ reading' = k
            /\ at' = Following(Hash[k], 0)
            /\ UNCHANGED undefined
  /\ UNCHANGED <<load, pc, map, mutex, option, free>>

(* The cell of the get in progress. *)
Here == <<Hash[reading], at>>

\* Mutant of GetNext: the end of the list is not tested.
GetNextPast ==
  /\ reading # NoKey /\ at # 0 /\ Here \notin freed
  /\ map[Hash[reading]][at].key # reading
  /\ at' = at + 1
  /\ UNCHANGED <<load, pc, map, mutex, option, reading, free, undefined>>

GetNext ==
  /\ reading # NoKey /\ at # 0 /\ Here \notin freed
  /\ map[Hash[reading]][at].key # reading
  /\ at' = Following(Hash[reading], at)
  /\ UNCHANGED <<load, pc, map, mutex, option, reading, free, undefined>>

(* A string longer than the variable overwrites what follows it. *)
GetFound ==
  /\ reading # NoKey /\ at # 0 /\ Here \notin freed
  /\ LET c == map[Hash[reading]][at] IN
     /\ c.key = reading
     /\ option' = [option EXCEPT ![reading] = Copy(c)]
     /\ undefined' = IF c.type = "string" /\ c.value \in Wide THEN "overflow" ELSE undefined
  /\ reading' = NoKey /\ at' = 0
  /\ UNCHANGED <<load, pc, map, mutex, free>>

(* The variable keeps its value. *)
GetMissing ==
  /\ reading # NoKey /\ at = 0
  /\ reading' = NoKey
  /\ UNCHANGED <<load, pc, map, mutex, option, at, free, undefined>>

(* The cell was freed since get came to it. *)
GetStrays ==
  /\ reading # NoKey /\ at # 0 /\ Here \in freed
  /\ undefined' = "late"
  /\ UNCHANGED <<load, pc, map, mutex, get, free>>

-----------------------------------------------------------------------------
(* Freeing *)

(* The end of the client, or the signal handler, which interrupts a get of
   main but not one of a thread. *)
Stop ==
  /\ pc = "loaded"
  /\ pc' = "free"
  /\ IF reading \in PerThread
       THEN UNCHANGED <<reading, at>>
       ELSE reading' = NoKey /\ at' = 0
  /\ UNCHANGED <<load, map, mutex, option, free, undefined>>

(* free_parser waits for the mutex and never posts it. *)
FreeParser ==
  /\ pc \in {"free", "free_failed"} /\ mutex > 0
  /\ mutex' = 0
  /\ pc' = "freeing"
  /\ UNCHANGED <<load, map, get, free, undefined>>

FreeSkips ==
  /\ pc = "freeing" /\ elem = 0 /\ bucket \in Buckets \ dirty
  /\ map[bucket] = << >>
  /\ bucket' = bucket + 1
  /\ UNCHANGED <<load, pc, map, mutex, get, elem, freed, undefined>>

FreeEnters ==
  /\ pc = "freeing" /\ elem = 0 /\ bucket \in Buckets \ dirty
  /\ map[bucket] # << >>
  /\ elem' = 1
  /\ UNCHANGED <<load, pc, map, mutex, get, bucket, freed, undefined>>

FreeStrays ==
  /\ pc = "freeing" /\ elem = 0 /\ bucket \in dirty
  /\ undefined' = "bucket"
  /\ UNCHANGED <<load, pc, map, mutex, get, free>>

\* Mutant of FreeCell: the loop stops at the cell that has none after it.
FreeCellKeepsLast ==
  /\ pc = "freeing" /\ elem # 0
  /\ elem' = Following(bucket, elem)
  /\ bucket' = IF elem' = 0 THEN bucket + 1 ELSE bucket
  /\ freed' = IF elem' = 0 THEN freed ELSE freed \cup {<<bucket, elem>>}
  /\ UNCHANGED <<load, pc, map, mutex, get, undefined>>

(* next is read before elem is freed; the loop ends when it is NULL. *)
FreeCell ==
  /\ pc = "freeing" /\ elem # 0
  /\ elem' = Following(bucket, elem)
  /\ bucket' = IF elem' = 0 THEN bucket + 1 ELSE bucket
  /\ freed' = freed \cup {<<bucket, elem>>}
  /\ undefined' = IF <<bucket, elem>> \in freed THEN "free" ELSE undefined
  /\ UNCHANGED <<load, pc, map, mutex, get>>

Freed ==
  /\ pc = "freeing" /\ elem = 0 /\ bucket = MapSize
  /\ pc' = "freed"
  /\ UNCHANGED <<load, map, mutex, get, free, undefined>>

Step ==
  /\ undefined = "none"
  /\ \/ InitYmlParser \/ ExecParser \/ InsertKeysValues \/ InsertStrays \/ InsertFails
     \/ NextPass \/ ScanEnds \/ LoadFails
     \/ GetNext \/ GetFound \/ GetMissing \/ GetStrays
     \/ FreeParser \/ FreeSkips \/ FreeEnters \/ FreeStrays \/ FreeCell \/ Freed

Call == undefined = "none" /\ (Stop \/ \E k \in Keys : GetStart(k))

Next == Step \/ Call

Spec == Init /\ [][Next]_vars

(* The thread that frees runs, whatever the others do; a signal need not come. *)
FairSpec ==
  /\ Spec
  /\ WF_vars(undefined = "none"
             /\ (FreeParser \/ FreeSkips \/ FreeEnters \/ FreeStrays \/ FreeCell \/ Freed))

-----------------------------------------------------------------------------
TypeOK ==
  /\ file \in Seq(Entry) /\ Len(file) <= MaxEntries
  /\ dirty \subseteq Buckets
  /\ pc \in {"init", "no_parser", "exec", "scan", "exec_failed", "crashed", "loaded",
             "free", "free_failed", "freeing", "freed"}
  /\ pass \in Type /\ cursor \in 0 .. Len(file)
  /\ \A b \in Buckets : \A i \in DOMAIN map[b] :
       map[b][i] \in {Cell(file[j]) : j \in DOMAIN file}
  /\ mutex \in 0 .. 1
  /\ \A k \in Keys : option[k] \in {Unset(k)} \cup {Copy(Cell(file[j])) : j \in DOMAIN file}
  /\ reading \in Keys \cup {NoKey}
  /\ at # 0 => reading # NoKey /\ at \in DOMAIN map[Hash[reading]]
  /\ bucket \in 0 .. MapSize
  /\ elem # 0 => bucket \in Buckets /\ elem \in DOMAIN map[bucket]
  /\ undefined \in {"none", "bucket", "overflow", "late", "free"}

(* The entries of the file for a key. *)
EntriesOf(k) == {i \in DOMAIN file : file[i].key = k}

(* What an entry puts in the variable of its option: the integer as it is
   written, when an int can hold it. *)
Gives(e, o) ==
  \/ e.type = "int" /\ o.type = "int"
       /\ (e.value \in -IntBound .. IntBound - 1 => o.value = e.value)
  \/ e.type = "string" /\ o = [type |-> "bytes", value |-> e.value]

(* An option that was read comes from an entry of its own key, or has the value
   from before get, and get finds nothing only for a key that the file does not
   have: whatever keys share a bucket, in whatever order integers and strings
   come, and while the handler frees the lists (yml_parser.c:195-237, 286-361). *)
OptionsAreBound ==
  undefined # "overflow" =>
    /\ \A k \in Keys : option[k] = Unset(k) \/ \E i \in EntriesOf(k) : Gives(file[i], option[k])
    /\ reading # NoKey /\ at = 0 => EntriesOf(reading) = {}

(* What strcmp finds first on the list of the bucket. *)
Lookup(k) ==
  LET list == map[Hash[k]]
      found == {i \in DOMAIN list : list[i].key = k}
  IN IF found = {} THEN Unbound
     ELSE [type |-> list[Min(found)].type, value |-> list[Min(found)].value]

(* What the users of the configuration may do. *)
Phase ==
  IF pc \in {"loaded", "free"} THEN "use"
  ELSE IF pc \in {"freeing", "freed"} THEN "closed" ELSE "load"

D == INSTANCE Dictionary WITH
       Bindings <- Binding, phase <- Phase,
       bound <- [k \in Keys |-> IF Phase = "closed" THEN Unbound ELSE Lookup(k)]

(* An insertion binds its key and changes no other, even one of its bucket;
   once loaded the bindings stay until free_parser has the mutex, which it
   never has after a load that failed (yml_parser.c:195-251, 320-361). *)
ImplementsDictionary == D!Spec

(* free_hash_map frees each cell, once, and reads none that it has freed: when
   it ends no cell is left (yml_parser.c:363-379). *)
FreesAll ==
  /\ pc = "freed" => \A b \in Buckets : \A i \in DOMAIN map[b] : <<b, i>> \in freed
  /\ undefined # "free"

(* A parser that was loaded can be freed: free_parser returns, unless the
   process has met a bucket that was not cleared or a get of a freed cell.
   After an exec_parser that failed it never does
   (yml_parser.c:196-218, 239-251, 363-379). *)
FreeReturns == pc = "free" ~> pc = "freed" \/ undefined \in {"bucket", "late", "overflow"}

=============================================================================
