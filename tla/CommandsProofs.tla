--------------------------- MODULE CommandsProofs ----------------------------
(***************************************************************************)
(* Proofs about the commands, for any processes, files, contents and       *)
(* requests, and any faults.                                               *)
(*                                                                         *)
(* Everything is said process by process.  What a copy that is alone has   *)
(* done so far (CopyAt) is stated on the files as they were when it        *)
(* started; the steps of the other processes either leave the files as     *)
(* they are or end its being alone (lemma Others).                         *)
(***************************************************************************)
EXTENDS Commands, TLAPS, FiniteSetTheorems, SequenceTheorems

-----------------------------------------------------------------------------
(* The inductive invariant *)

(* What a file may hold: the bytes of the first files, and 0 where write
   leaves a hole. *)
Bytes == {0} \cup UNION {Range(c) : c \in Contents}

(* What each process remembers of the start of its command. *)
BeforeOK ==
  /\ before \in [Procs -> Seq(Seq(Bytes)) \X [Names -> Nat]]
  /\ \A p \in Procs : before[p][2] \in [Names -> 0 .. Len(before[p][1])]

(* Two names do not stand for the same data. *)
Inodes == \A m, n \in Names : inode[m] = inode[n] /\ inode[m] # 0 => m = n

(* Where a process may be with its command. *)
RoleAt(p) ==
  /\ pc[p] \in {"options", "source", "dest", "copying"} => req[p] \in CopyRequest
  /\ pc[p] \in {"opendir", "readdir", "lstat"} => req[p] \in ListRequest
  /\ pc[p] = "remove" => req[p] \in RemoveRequest

(* ccp has the descriptors it uses. *)
OpenAt(p) ==
  /\ pc[p] \in {"idle", "options", "source", "dest"} => dst[p] = 0 /\ tell[p] = 0
  /\ pc[p] \in {"dest", "copying"} => src[p] # 0
  /\ pc[p] = "copying" => dst[p] # 0

(* lsl has printed all it has seen, but for the entry it is about to print. *)
ListAt(p) ==
  /\ pc[p] \notin {"lstat", "ok", "error"} => seen[p] = listed[p]
  /\ pc[p] = "lstat" => \E n \in Names : n \notin listed[p] /\ seen[p] = listed[p] \cup {n}
  /\ pc[p] = "ok" /\ req[p].cmd = "lsl" => stayed[p] \subseteq listed[p]

(* As long as it has not opened its destination, a copy that is alone has
   changed the contents of no file. *)
KeepAt(p) ==
  p \in alone /\ pc[p] # "idle" /\ req[p].cmd = "ccp" /\ dst[p] = 0 =>
    /\ Len(before[p][1]) <= Len(data)
    /\ \A i \in 1 .. Len(before[p][1]) : data[i] = before[p][1][i]

(* What ccp keeps of its destination, and what it copies from. *)
Prefix(p) == IF req[p].a THEN Old(p, req[p].dst) ELSE << >>

(* The contents of the source when the copy started. *)
Source(p) == Old(p, req[p].src)

(* The bytes copied so far, and where the loop stops. *)
Slice(p, to) == SubSeq(Source(p), req[p].b + 1, to)

(* The end offset stops the loop. *)
Bounded(p) == req[p].e # -1 /\ ~ (req[p].a /\ req[p].e > 0 /\ req[p].e <= Len(Prefix(p)))

(* How many bytes the loop copies from a source of that length: it compares
   the position in the destination, which starts at 0 and which the first
   append moves beyond what the destination had; it may pass over the end
   offset. *)
Count(r, old, source) ==
  CASE r.e = -1 -> source
    [] r.a /\ r.e > 0 /\ r.e <= old -> source
    [] r.a /\ r.e > old -> r.e - old
    [] OTHER -> r.e

(* Where in the source the copy ends, if the source is that long. *)
End(p) == req[p].b + Count(req[p], Len(Prefix(p)), Len(Source(p)))

(* What a copy that is alone has done so far, by where it is. *)
CopyAt(p) ==
  p \in alone =>
    /\ pc[p] \in {"options", "source"} => data = before[p][1] /\ inode = before[p][2]
    /\ pc[p] = "dest" /\ req[p].src # req[p].dst =>
         /\ src[p] = inode[req[p].src] /\ data[src[p]] = Source(p)
         /\ pos[p] = req[p].b
         /\ inode[req[p].dst] = before[p][2][req[p].dst]
    /\ pc[p] = "copying" /\ req[p].src # req[p].dst =>
         /\ src[p] # dst[p] /\ data[src[p]] = Source(p)
         /\ pos[p] >= req[p].b
         /\ pos[p] > req[p].b => pos[p] <= Len(Source(p))
         /\ Bounded(p) => pos[p] <= End(p)
         /\ data[dst[p]] = Prefix(p) \o Slice(p, pos[p])
         /\ tell[p] = IF pos[p] = req[p].b THEN 0 ELSE Len(Prefix(p)) + (pos[p] - req[p].b)
    /\ Copied(p) =>
         data[dst[p]] = Prefix(p) \o
           Slice(p, IF End(p) < Len(Source(p)) THEN End(p) ELSE Len(Source(p)))

(* What is known of a process. *)
ProcessInv(p) == RoleAt(p) /\ OpenAt(p) /\ ListAt(p) /\ KeepAt(p) /\ CopyAt(p)

(* The inductive invariant. *)
CommandsInv ==
  /\ TypeOK /\ BeforeOK /\ Inodes
  /\ \A p \in Procs : ProcessInv(p)

-----------------------------------------------------------------------------
(* Lemmas on contents *)

(* Writing at the end of the contents appends to them. *)
LEMMA WrittenAppends ==
  ASSUME NEW d \in Seq(Bytes), NEW byte \in Bytes
  PROVE  Written(d, Len(d), byte) = Append(d, byte)
<1>1. PICK l \in Nat : l = Len(d) /\ DOMAIN d = 1 .. l
  OBVIOUS
<1>2. Written(d, l, byte) =
        [i \in 1 .. l + 1 |-> IF i = l + 1 THEN byte ELSE IF i <= l THEN d[i] ELSE 0]
  BY <1>1 DEF Written
<1>3. /\ Append(d, byte) \in Seq(Bytes) /\ Len(Append(d, byte)) = l + 1
      /\ \A i \in 1 .. l : Append(d, byte)[i] = d[i]
      /\ Append(d, byte)[l + 1] = byte
  BY <1>1, AppendProperties
<1>4. PICK a \in Seq(Bytes) : a = Append(d, byte)
  BY <1>3
<1>5. a \in [1 .. l + 1 -> Bytes]
  <2>1. PICK m \in Nat : m = Len(a) /\ a \in [1 .. m -> Bytes]
    OBVIOUS
  <2> QED  BY <2>1, <1>3, <1>4
<1>6. \A i \in 1 .. l + 1 : a[i] = IF i = l + 1 THEN byte ELSE IF i <= l THEN d[i] ELSE 0
  BY <1>3, <1>4
<1>7. a = [i \in 1 .. l + 1 |-> IF i = l + 1 THEN byte ELSE IF i <= l THEN d[i] ELSE 0]
  BY <1>5, <1>6
<1> QED  BY <1>1, <1>2, <1>4, <1>7

(* Writing anywhere leaves contents. *)
LEMMA WrittenType ==
  ASSUME NEW d \in Seq(Bytes), NEW t \in Nat, NEW byte \in Bytes
  PROVE  Written(d, t, byte) \in Seq(Bytes)
<1>1. PICK l \in Nat : l = Len(d) /\ d \in [1 .. l -> Bytes]
  OBVIOUS
<1>2. PICK m \in Nat : m = IF t + 1 > l THEN t + 1 ELSE l
  <2>1. l \in Nat /\ t + 1 \in Nat
    OBVIOUS
  <2> QED  BY <2>1
<1>3. Written(d, t, byte) =
        [i \in 1 .. m |-> IF i = t + 1 THEN byte ELSE IF i <= l THEN d[i] ELSE 0]
  BY <1>1, <1>2 DEF Written
<1>4. \A i \in 1 .. m :
        (IF i = t + 1 THEN byte ELSE IF i <= l THEN d[i] ELSE 0) \in Bytes
  BY <1>1 DEF Bytes
<1>5. Written(d, t, byte) \in [1 .. m -> Bytes]
  BY <1>3, <1>4
<1> QED  BY <1>5

(* The slice that was copied has as many bytes as the loop has made turns. *)
LEMMA SliceLength ==
  ASSUME NEW s \in Seq(Bytes), NEW k \in Seq(Bytes), NEW b \in Nat, NEW to \in Nat,
         b <= to, to > b => to <= Len(s)
  PROVE  /\ SubSeq(s, b + 1, to) \in Seq(Bytes)
         /\ k \o SubSeq(s, b + 1, to) \in Seq(Bytes)
         /\ Len(k \o SubSeq(s, b + 1, to)) = Len(k) + (to - b)
<1>1. \A i \in (b + 1) .. to : s[i] \in Bytes
  <2> TAKE i \in (b + 1) .. to
  <2>1. PICK l \in Nat : l = Len(s)  OBVIOUS
  <2>2. i \in 1 .. l  BY <2>1
  <2> QED  BY <2>1, <2>2
<1>2. /\ SubSeq(s, b + 1, to) \in Seq(Bytes)
      /\ Len(SubSeq(s, b + 1, to)) = IF b + 1 <= to THEN to - (b + 1) + 1 ELSE 0
  BY <1>1, SubSeqProperties
<1>3. Len(SubSeq(s, b + 1, to)) = to - b
  BY <1>2
<1>4. PICK c \in Seq(Bytes) : c = SubSeq(s, b + 1, to)
  BY <1>2
<1>5. k \o c \in Seq(Bytes) /\ Len(k \o c) = Len(k) + Len(c)
  BY ConcatProperties
<1>6. Len(c) = to - b
  BY <1>3, <1>4
<1>7. Len(k \o c) = Len(k) + (to - b)
  BY <1>5, <1>6
<1> QED  BY <1>4, <1>5, <1>7

(* The kept bytes k, then those of s from b to to. *)
WithSlice(k, s, b, to) == k \o SubSeq(s, b + 1, to)

(* One more byte makes the slice one longer. *)
LEMMA SliceGrows ==
  ASSUME NEW s \in Seq(Bytes), NEW k \in Seq(Bytes), NEW b \in Nat, NEW to \in Nat,
         b <= to, to < Len(s)
  PROVE  Append(WithSlice(k, s, b, to), s[to + 1]) = WithSlice(k, s, b, to + 1)
<1>1. PICK l \in Nat : l = Len(s)
  OBVIOUS
<1>2. b + 1 \in 1 .. l /\ to + 1 \in (b + 1) .. l /\ to + 1 \in 1 .. l
  BY <1>1
<1>3. s[to + 1] \in Bytes
  BY <1>1, <1>2
<1>4. SubSeq(s, b + 1, to + 1) = SubSeq(s, b + 1, to) \o << s[to + 1] >>
  <2>1. SubSeq(s, b + 1, to + 1) = SubSeq(s, b + 1, (to + 1) - 1) \o << s[to + 1] >>
    BY <1>1, <1>2, SubSeqRecursiveSecond
  <2>2. (to + 1) - 1 = to
    OBVIOUS
  <2> QED  BY <2>1, <2>2
<1>5. SubSeq(s, b + 1, to) \in Seq(Bytes)
  BY SliceLength, <1>1
<1>6. (k \o SubSeq(s, b + 1, to)) \o << s[to + 1] >> = k \o SubSeq(s, b + 1, to + 1)
  <2>1. PICK x \in Seq(Bytes) : x = << s[to + 1] >>
    <3>1. << s[to + 1] >> \in Seq(Bytes)
      BY <1>3
    <3> QED  BY <3>1
  <2>2. PICK c \in Seq(Bytes) : c = SubSeq(s, b + 1, to)
    BY <1>5
  <2>3. (k \o c) \o x = k \o (c \o x)
    BY ConcatAssociative, SMTT(20)
  <2> QED  BY <2>1, <2>2, <2>3, <1>4
<1>7. k \o SubSeq(s, b + 1, to) \in Seq(Bytes)
  BY <1>5, ConcatProperties
<1>8. Append(k \o SubSeq(s, b + 1, to), s[to + 1]) = (k \o SubSeq(s, b + 1, to)) \o << s[to + 1] >>
  BY <1>3, <1>7, AppendIsConcat
<1> QED  BY <1>6, <1>8 DEF WithSlice

(* Two slices from the same start are the same when both are empty or end at
   the same place. *)
LEMMA SliceSame ==
  ASSUME NEW s, NEW b \in Nat, NEW to \in Int, NEW last \in Int,
         to = last \/ (to <= b /\ last <= b)
  PROVE  SubSeq(s, b + 1, to) = SubSeq(s, b + 1, last)
<1>1. CASE to = last
  BY <1>1
<1>2. CASE to <= b /\ last <= b
  <2>1. b + 1 \in Int /\ to < b + 1 /\ last < b + 1
    BY <1>2
  <2>2. SubSeq(s, b + 1, to) = << >> /\ SubSeq(s, b + 1, last) = << >>
    BY <2>1, SubSeqEmpty
  <2> QED  BY <2>2
<1> QED  BY <1>1, <1>2

-----------------------------------------------------------------------------
(* Types *)

(* The requests, by their command. *)
LEMMA RequestIs ==
  ASSUME NEW r \in Requests
  PROVE  /\ r.cmd \in {"ccp", "lsl", "rm"}
         /\ r.cmd = "ccp" <=> r \in CopyRequest
         /\ r.cmd = "lsl" <=> r \in ListRequest
         /\ r.cmd = "rm" <=> r \in RemoveRequest
<1>1. \/ r \in CopyRequest /\ r.cmd = "ccp"
      \/ r \in ListRequest /\ r.cmd = "lsl"
      \/ r \in RemoveRequest /\ r.cmd = "rm"
  BY RequestsAssumption DEF CopyRequest, ListRequest, RemoveRequest
<1>2. \A x \in CopyRequest : x.cmd = "ccp"
  BY DEF CopyRequest
<1>3. \A x \in ListRequest : x.cmd = "lsl"
  BY DEF ListRequest
<1>4. \A x \in RemoveRequest : x.cmd = "rm"
  BY DEF RemoveRequest
<1> QED  BY <1>1, <1>2, <1>3, <1>4

(* What opening a file does: it is there afterwards, and only a file that is
   cut loses its contents. *)
LEMMA OpenEffect ==
  ASSUME TypeOK, NEW p \in Procs, NEW n \in Names, NEW cut \in BOOLEAN, OpenFile(p, n, cut)
  PROVE  /\ data' \in Seq(Seq(Bytes)) /\ Len(data) \in Nat
         /\ Len(data') \in {Len(data), Len(data) + 1}
         /\ inode' \in [Names -> 0 .. Len(data')]
         /\ inode'[n] \in 1 .. Len(data')
         /\ \A m \in Names : m # n => inode'[m] = inode[m]
         /\ Exists(n) => inode' = inode /\ Len(data') = Len(data)
         /\ ~Exists(n) => inode'[n] = Len(data) + 1 /\ data'[inode'[n]] = << >>
         /\ \A i \in 1 .. Len(data) :
              data'[i] = IF cut /\ i = inode[n] THEN << >> ELSE data[i]
         /\ \/ alone' = {q \in alone : q = p \/ pc[q] = "idle"}
            \/ data' = data /\ inode' = inode /\ alone' = alone
<1>1. PICK d \in Seq(Seq(Bytes)) : d = data
  BY DEF TypeOK, Bytes
<1>2. PICK l \in Nat : l = Len(d) /\ DOMAIN d = 1 .. l
  OBVIOUS
<1>3. inode \in [Names -> 0 .. l] /\ inode[n] \in 0 .. l
  BY <1>1, <1>2 DEF TypeOK
<1>4. << >> \in Seq(Bytes)
  OBVIOUS
<1>5. CASE Exists(n)
  <2>1. inode[n] \in 1 .. l
    BY <1>3, <1>5 DEF Exists
  <2>2. inode' = inode
    BY <1>5 DEF OpenFile
  <2>3. CASE cut
    <3>1. data' = [d EXCEPT ![inode[n]] = << >>]
      BY <1>1, <1>5, <2>3 DEF OpenFile
    <3>2. /\ data' \in Seq(Seq(Bytes)) /\ Len(data') = l
          /\ \A i \in 1 .. l : data'[i] = IF i = inode[n] THEN << >> ELSE d[i]
      BY <3>1, <2>1, <1>2, <1>4, ExceptSeq
    <3>3. alone' = {q \in alone : q = p \/ pc[q] = "idle"}
      BY <1>5, <2>3 DEF OpenFile, Disturb
    <3> QED  BY <3>2, <3>3, <2>1, <2>2, <2>3, <1>1, <1>2, <1>3, <1>5
  <2>4. CASE ~cut
    <3>1. data' = data /\ alone' = alone
      BY <1>5, <2>4 DEF OpenFile
    <3> QED  BY <3>1, <2>1, <2>2, <2>4, <1>1, <1>2, <1>3, <1>5
  <2> QED  BY <2>3, <2>4
<1>6. CASE ~Exists(n)
  <2>1. inode[n] = 0
    BY <1>6 DEF Exists
  <2>2. data' = Append(d, << >>) /\ alone' = {q \in alone : q = p \/ pc[q] = "idle"}
    BY <1>1, <1>6 DEF OpenFile, Disturb
  <2>3. /\ data' \in Seq(Seq(Bytes)) /\ Len(data') = l + 1 /\ data'[l + 1] = << >>
        /\ \A i \in 1 .. l : data'[i] = d[i]
    BY <2>2, <1>2, <1>4
  <2>4. inode' = [inode EXCEPT ![n] = l + 1]
    BY <1>6, <2>3 DEF OpenFile
  <2>5. inode' \in [Names -> 0 .. l + 1] /\ inode'[n] = l + 1
    BY <2>4, <1>3
  <2>6. \A m \in Names : m # n => inode'[m] = inode[m]
    BY <2>4, <1>3
  <2> QED  BY <2>1, <2>2, <2>3, <2>5, <2>6, <1>1, <1>2, <1>6
<1> QED  BY <1>5, <1>6

(* The requests of a process that copies. *)
LEMMA CopyFields ==
  ASSUME NEW r \in CopyRequest
  PROVE  /\ r.cmd = "ccp" /\ r.src \in Names /\ r.dst \in Names
         /\ r.v \in BOOLEAN /\ r.a \in BOOLEAN
         /\ r.b \in Nat /\ (r.e \in Nat \/ r.e = -1)
  BY DEF CopyRequest

-----------------------------------------------------------------------------
(* Every step keeps the invariant *)

(* What a process may do. *)
Moves(p) ==
  \/ ExecCmd(p) \/ Rm(p) \/ Options(p) \/ OpenSource(p) \/ OpenDest(p) \/ CopyByte(p)
  \/ CopyEnd(p) \/ OpenDir(p) \/ ReadDir(p) \/ PrintFileInfo(p) \/ EndDir(p) \/ Fail(p)

(* The cases of a step. *)
LEMMA Steps ==
  ASSUME [Next]_vars
  PROVE  UNCHANGED vars \/ \E p \in Procs : Moves(p)
  BY DEF Next, Step, Moves

(* The steps that only move a process, and what it has seen and listed. *)
LEMMA QuietEffect ==
  ASSUME TypeOK, NEW p \in Procs,
         \/ Options(p) \/ CopyEnd(p) \/ OpenDir(p) \/ ReadDir(p) \/ PrintFileInfo(p)
         \/ EndDir(p) \/ Fail(p)
  PROVE  /\ UNCHANGED <<data, inode, req, src, dst, pos, tell, before, alone, stayed>>
         /\ pc' \in [Procs -> {"idle", "ok", "error"} \cup Running]
         /\ pc'[p] # "idle" /\ pc[p] # "idle"
         /\ \A q \in Procs : q # p => pc'[q] = pc[q] /\ seen'[q] = seen[q] /\ listed'[q] = listed[q]
         /\ seen' \in [Procs -> SUBSET Names] /\ listed' \in [Procs -> SUBSET Names]
<1>1. CASE Options(p)
  BY <1>1 DEF TypeOK, Options, Goto, Running, files, copy, list, history
<1>2. CASE CopyEnd(p)
  BY <1>2 DEF TypeOK, CopyEnd, Goto, Running, files, copy, list, history
<1>3. CASE OpenDir(p)
  BY <1>3 DEF TypeOK, OpenDir, Goto, Running, files, copy, list, history
<1>4. CASE ReadDir(p)
  BY <1>4 DEF TypeOK, ReadDir, Goto, Running, files, copy, list, history
<1>5. CASE PrintFileInfo(p)
  <2>1. PICK n \in Names :
          /\ pc[p] = "lstat"
          /\ \/ /\ listed' = [listed EXCEPT ![p] = listed[p] \cup {n}]
                /\ pc' = [pc EXCEPT ![p] = "readdir"]
             \/ listed' = listed /\ pc' = [pc EXCEPT ![p] = "error"]
          /\ UNCHANGED <<data, inode, req, src, dst, pos, tell, seen, before, alone, stayed>>
    BY <1>5 DEF TypeOK, PrintFileInfo, PrintInfo, Goto, files, copy, history
  <2>2. CASE listed' = listed /\ pc' = [pc EXCEPT ![p] = "error"]
    BY <2>1, <2>2 DEF TypeOK, Running
  <2>3. CASE /\ listed' = [listed EXCEPT ![p] = listed[p] \cup {n}]
             /\ pc' = [pc EXCEPT ![p] = "readdir"]
    <3>1. listed[p] \cup {n} \in SUBSET Names
      BY DEF TypeOK
    <3>2. listed' \in [Procs -> SUBSET Names]
      BY <2>3, <3>1 DEF TypeOK
    <3> QED  BY <2>1, <2>3, <3>2 DEF TypeOK, Running
  <2> QED  BY <2>1, <2>2, <2>3
<1>6. CASE EndDir(p)
  BY <1>6 DEF TypeOK, EndDir, Goto, Running, files, copy, list, history
<1>7. CASE Fail(p)
  BY <1>7 DEF TypeOK, Fail, Goto, Running, files, copy, list, history
<1> QED  BY <1>1, <1>2, <1>3, <1>4, <1>5, <1>6, <1>7

(* What a byte that is copied changes. *)
LEMMA CopyEffect ==
  ASSUME TypeOK, NEW p \in Procs, OpenAt(p), CopyByte(p)
  PROVE  /\ src[p] \in 1 .. Len(data) /\ dst[p] \in 1 .. Len(data)
         /\ data[src[p]] \in Seq(Bytes) /\ data[dst[p]] \in Seq(Bytes)
         /\ data' \in Seq(Seq(Bytes)) /\ Len(data') = Len(data)
         /\ data'[dst[p]] =
              Written(data[dst[p]], IF req[p].a THEN Len(data[dst[p]]) ELSE tell[p],
                      data[src[p]][pos[p] + 1])
         /\ \A i \in 1 .. Len(data) : i # dst[p] => data'[i] = data[i]
         /\ pos[p] < Len(data[src[p]]) /\ ~AtMax(p)
         /\ pos' = [pos EXCEPT ![p] = pos[p] + 1]
         /\ tell' = [tell EXCEPT ![p] =
                       (IF req[p].a THEN Len(data[dst[p]]) ELSE tell[p]) + 1]
         /\ alone' = {q \in alone : q = p \/ pc[q] = "idle"}
         /\ UNCHANGED <<inode, req, pc, src, dst, seen, listed, before, stayed>>
<1>1. PICK d \in Seq(Seq(Bytes)) : d = data
  BY DEF TypeOK, Bytes
<1>2. PICK l \in Nat : l = Len(d) /\ DOMAIN d = 1 .. l
  OBVIOUS
<1>3. /\ pc[p] = "copying" /\ ~AtMax(p) /\ pos[p] < Len(data[src[p]])
      /\ pos' = [pos EXCEPT ![p] = pos[p] + 1]
      /\ tell' = [tell EXCEPT ![p] = (IF req[p].a THEN Len(data[dst[p]]) ELSE tell[p]) + 1]
      /\ alone' = {q \in alone : q = p \/ pc[q] = "idle"}
      /\ UNCHANGED <<inode, req, pc, src, dst, seen, listed, before, stayed>>
  BY DEF CopyByte, Disturb, list
<1>4. src[p] \in 1 .. l /\ dst[p] \in 1 .. l
  <2>1. src[p] \in 0 .. l /\ dst[p] \in 0 .. l
    BY <1>1, <1>2 DEF TypeOK
  <2> QED  BY <2>1, <1>3 DEF OpenAt
<1>5. PICK s \in Seq(Bytes), c \in Seq(Bytes) : s = data[src[p]] /\ c = data[dst[p]]
  BY <1>1, <1>2, <1>4
<1>6. PICK t \in Nat : t = IF req[p].a THEN Len(c) ELSE tell[p]
  <2>1. Len(c) \in Nat /\ tell[p] \in Nat
    BY DEF TypeOK
  <2> QED  BY <2>1
<1>7. s[pos[p] + 1] \in Bytes
  <2>1. PICK m \in Nat : m = Len(s)
    OBVIOUS
  <2>2. pos[p] + 1 \in 1 .. m
    BY <1>3, <1>5, <2>1 DEF TypeOK
  <2> QED  BY <2>1, <2>2
<1>8. PICK w \in Seq(Bytes) : w = Written(c, t, s[pos[p] + 1])
  BY <1>7, WrittenType
<1>9. data' = [d EXCEPT ![dst[p]] = w]
  BY <1>1, <1>5, <1>6, <1>8 DEF CopyByte
<1>10. /\ data' \in Seq(Seq(Bytes)) /\ Len(data') = l
       /\ \A i \in 1 .. l : data'[i] = IF i = dst[p] THEN w ELSE d[i]
  BY <1>9, <1>2, <1>4, ExceptSeq
<1>11. w = Written(data[dst[p]], IF req[p].a THEN Len(data[dst[p]]) ELSE tell[p],
                   data[src[p]][pos[p] + 1])
  BY <1>5, <1>6, <1>8
<1> QED  BY <1>1, <1>2, <1>3, <1>4, <1>5, <1>10, <1>11

(* What the other commands change. *)
LEMMA ExecEffect ==
  ASSUME TypeOK, NEW p \in Procs, ExecCmd(p)
  PROVE  /\ UNCHANGED <<data, inode, src, dst, pos, tell, seen, listed, alone>>
         /\ pc[p] = "idle"
         /\ \E r \in Requests :
              /\ req' = [req EXCEPT ![p] = r]
              /\ \/ r.cmd = "ccp" /\ r \in CopyRequest /\ pc' = [pc EXCEPT ![p] = "options"]
                 \/ r.cmd = "lsl" /\ r \in ListRequest /\ pc' = [pc EXCEPT ![p] = "opendir"]
                 \/ r.cmd = "rm" /\ r \in RemoveRequest /\ pc' = [pc EXCEPT ![p] = "remove"]
         /\ before' = [before EXCEPT ![p] = <<data, inode>>]
         /\ stayed' = [stayed EXCEPT ![p] = {n \in Names : Exists(n)}]
<1>1. /\ UNCHANGED <<data, inode, src, dst, pos, tell, seen, listed, alone>>
      /\ pc[p] = "idle"
      /\ before' = [before EXCEPT ![p] = <<data, inode>>]
      /\ stayed' = [stayed EXCEPT ![p] = {n \in Names : Exists(n)}]
  BY DEF ExecCmd, files, copy, list
<1>2. PICK r \in Requests :
        /\ req' = [req EXCEPT ![p] = r]
        /\ pc' = [pc EXCEPT ![p] =
             CASE r.cmd = "ccp" -> "options" [] r.cmd = "lsl" -> "opendir" [] r.cmd = "rm" -> "remove"]
  BY DEF ExecCmd, Goto
<1>3. \/ r.cmd = "ccp" /\ r \in CopyRequest
      \/ r.cmd = "lsl" /\ r \in ListRequest
      \/ r.cmd = "rm" /\ r \in RemoveRequest
  BY RequestIs
<1> QED  BY <1>1, <1>2, <1>3

(* rm takes the name away and leaves the data. *)
LEMMA RmEffect ==
  ASSUME TypeOK, NEW p \in Procs, RoleAt(p), Rm(p)
  PROVE  /\ UNCHANGED <<data, req, src, dst, pos, tell, seen, listed, before>>
         /\ pc[p] = "remove" /\ req[p].cmd = "rm"
         /\ \/ \E n \in Names :
                  /\ inode' = [inode EXCEPT ![n] = 0]
                  /\ stayed' = [q \in Procs |-> stayed[q] \ {n}]
                  /\ alone' = {q \in alone : q = p \/ pc[q] = "idle"}
                  /\ pc' = [pc EXCEPT ![p] = "ok"]
            \/ UNCHANGED <<inode, stayed, alone>> /\ pc' = [pc EXCEPT ![p] = "error"]
<1>1. pc[p] = "remove" /\ req[p] \in RemoveRequest
  BY DEF Rm, RoleAt
<1>2. req[p].cmd = "rm" /\ req[p].name \in Names
  BY <1>1 DEF RemoveRequest
<1>3. UNCHANGED <<data, req, src, dst, pos, tell, seen, listed, before>>
  BY DEF Rm, copy, list
<1> QED  BY <1>1, <1>2, <1>3 DEF Rm, Goto, Disturb

(* The source is refused, or opened without being cut. *)
LEMMA SourceEffect ==
  ASSUME TypeOK, NEW p \in Procs, OpenSource(p)
  PROVE  /\ UNCHANGED <<req, dst, tell, seen, listed, before, stayed>>
         /\ pc[p] = "source"
         /\ \/ /\ UNCHANGED <<data, inode, src, pos, alone>>
               /\ pc' = [pc EXCEPT ![p] = "error"]
            \/ /\ OpenFile(p, req[p].src, FALSE)
               /\ src' = [src EXCEPT ![p] = inode'[req[p].src]]
               /\ pos' = [pos EXCEPT ![p] = req[p].b]
               /\ pc' = [pc EXCEPT ![p] = "dest"]
  BY DEF OpenSource, Goto, files, list

(* The destination is opened, and cut when nothing is appended to it. *)
LEMMA DestEffect ==
  ASSUME TypeOK, NEW p \in Procs, OpenDest(p)
  PROVE  /\ UNCHANGED <<req, src, pos, tell, seen, listed, before, stayed>>
         /\ pc[p] = "dest"
         /\ OpenFile(p, req[p].dst, ~req[p].a)
         /\ dst' = [dst EXCEPT ![p] = inode'[req[p].dst]]
         /\ pc' = [pc EXCEPT ![p] = "copying"]
  BY DEF OpenDest, Goto, list

(* The variables keep their types. *)
LEMMA TypesStep ==
  ASSUME TypeOK, \A p \in Procs : RoleAt(p) /\ OpenAt(p), [Next]_vars
  PROVE  TypeOK'
<1>0. Len(data) \in Nat
  BY DEF TypeOK
<1>1. CASE UNCHANGED vars
  BY <1>1 DEF TypeOK, vars, files, copy, list, history
<1>2. ASSUME NEW p \in Procs, ExecCmd(p)  PROVE TypeOK'
  <2>1. PICK r \in Requests : /\ req' = [req EXCEPT ![p] = r]
                              /\ \E x \in Running : pc' = [pc EXCEPT ![p] = x]
    BY <1>2, ExecEffect DEF Running
  <2>2. {n \in Names : Exists(n)} \in SUBSET Names
    OBVIOUS
  <2>3. /\ UNCHANGED <<data, inode, src, dst, pos, tell, seen, listed, alone>>
        /\ stayed' = [stayed EXCEPT ![p] = {n \in Names : Exists(n)}]
    BY <1>2, ExecEffect
  <2> QED  BY <2>1, <2>2, <2>3 DEF TypeOK
<1>3. ASSUME NEW p \in Procs, Rm(p)  PROVE TypeOK'
  <2>1. RoleAt(p)
    OBVIOUS
  <2>2. UNCHANGED <<data, req, src, dst, pos, tell, seen, listed, before>>
    BY <1>3, <2>1, RmEffect
  <2>3. CASE UNCHANGED <<inode, stayed, alone>> /\ pc' = [pc EXCEPT ![p] = "error"]
    BY <2>2, <2>3 DEF TypeOK
  <2>4. ASSUME NEW n \in Names,
               inode' = [inode EXCEPT ![n] = 0],
               stayed' = [q \in Procs |-> stayed[q] \ {n}],
               alone' = {q \in alone : q = p \/ pc[q] = "idle"},
               pc' = [pc EXCEPT ![p] = "ok"]
        PROVE  TypeOK'
    <3>1. inode' \in [Names -> 0 .. Len(data)]
      BY <1>0, <2>4 DEF TypeOK
    <3>2. \A q \in Procs : stayed[q] \ {n} \in SUBSET Names
      BY DEF TypeOK
    <3>3. stayed' \in [Procs -> SUBSET Names]
      BY <2>4, <3>2
    <3> QED  BY <2>2, <2>4, <3>1, <3>3 DEF TypeOK
  <2> QED  BY <1>3, <2>1, <2>3, <2>4, RmEffect
<1>4. ASSUME NEW p \in Procs,
             \/ Options(p) \/ CopyEnd(p) \/ OpenDir(p) \/ ReadDir(p) \/ PrintFileInfo(p)
             \/ EndDir(p) \/ Fail(p)
      PROVE  TypeOK'
  BY <1>4, QuietEffect DEF TypeOK
<1>5. ASSUME NEW p \in Procs, NEW n \in Names, NEW cut \in BOOLEAN, OpenFile(p, n, cut)
      PROVE  /\ data' \in Seq(Seq({0} \cup UNION {Range(c) : c \in Contents}))
             /\ inode' \in [Names -> 0 .. Len(data')] /\ inode'[n] \in 0 .. Len(data')
             /\ \A f \in [Procs -> 0 .. Len(data)] : f \in [Procs -> 0 .. Len(data')]
             /\ alone' \subseteq Procs
  <2>1. /\ data' \in Seq(Seq(Bytes)) /\ Len(data') \in {Len(data), Len(data) + 1}
        /\ inode' \in [Names -> 0 .. Len(data')] /\ inode'[n] \in 1 .. Len(data')
        /\ \/ alone' = {q \in alone : q = p \/ pc[q] = "idle"} \/ alone' = alone
    BY <1>5, OpenEffect
  <2>2. PICK l \in Nat, m \in Nat : l = Len(data) /\ m = Len(data') /\ l <= m
    BY <1>0, <2>1
  <2>3. inode'[n] \in 0 .. Len(data') /\ 0 .. l \subseteq 0 .. m
    BY <2>1, <2>2
  <2>4. alone' \subseteq Procs
    BY <2>1 DEF TypeOK
  <2> QED  BY <2>1, <2>2, <2>3, <2>4 DEF Bytes
<1>6. ASSUME NEW p \in Procs, OpenSource(p)  PROVE TypeOK'
  <2>1. req[p] \in CopyRequest
    BY <1>6 DEF OpenSource, RoleAt
  <2>2. req[p].src \in Names /\ req[p].b \in Nat
    BY <2>1, CopyFields
  <2>3. CASE /\ UNCHANGED <<data, inode, src, pos, alone>>
             /\ pc' = [pc EXCEPT ![p] = "error"]
    BY <1>6, <2>3, SourceEffect DEF TypeOK
  <2>4. CASE /\ OpenFile(p, req[p].src, FALSE)
             /\ src' = [src EXCEPT ![p] = inode'[req[p].src]]
             /\ pos' = [pos EXCEPT ![p] = req[p].b]
             /\ pc' = [pc EXCEPT ![p] = "dest"]
    <3>1. /\ data' \in Seq(Seq({0} \cup UNION {Range(c) : c \in Contents}))
          /\ inode' \in [Names -> 0 .. Len(data')] /\ inode'[req[p].src] \in 0 .. Len(data')
          /\ \A f \in [Procs -> 0 .. Len(data)] : f \in [Procs -> 0 .. Len(data')]
          /\ alone' \subseteq Procs
      BY <2>2, <2>4, <1>5
    <3>2. UNCHANGED <<req, dst, tell, seen, listed, before, stayed>>
      BY <1>6, SourceEffect
    <3>3. src' \in [Procs -> 0 .. Len(data')] /\ dst' \in [Procs -> 0 .. Len(data')]
      BY <3>1, <3>2, <2>4 DEF TypeOK
    <3>4. /\ pos' \in [Procs -> Nat]
          /\ pc' \in [Procs -> {"idle", "ok", "error"} \cup Running]
      BY <2>2, <2>4 DEF TypeOK, Running
    <3> QED  BY <3>1, <3>2, <3>3, <3>4 DEF TypeOK
  <2> QED  BY <1>6, <2>3, <2>4, SourceEffect
<1>7. ASSUME NEW p \in Procs, OpenDest(p)  PROVE TypeOK'
  <2>1. req[p] \in CopyRequest
    BY <1>7 DEF OpenDest, RoleAt
  <2>2. req[p].dst \in Names /\ (~req[p].a) \in BOOLEAN
    <3>1. (~req[p].a) \in BOOLEAN
      OBVIOUS
    <3> QED  BY <2>1, <3>1, CopyFields
  <2>3. /\ UNCHANGED <<req, src, pos, tell, seen, listed, before, stayed>>
        /\ OpenFile(p, req[p].dst, ~req[p].a)
        /\ dst' = [dst EXCEPT ![p] = inode'[req[p].dst]]
        /\ pc' = [pc EXCEPT ![p] = "copying"]
    BY <1>7, DestEffect
  <2>4. /\ data' \in Seq(Seq({0} \cup UNION {Range(c) : c \in Contents}))
        /\ inode' \in [Names -> 0 .. Len(data')] /\ inode'[req[p].dst] \in 0 .. Len(data')
        /\ \A f \in [Procs -> 0 .. Len(data)] : f \in [Procs -> 0 .. Len(data')]
        /\ alone' \subseteq Procs
    BY <2>2, <2>3, <1>5
  <2>5. src' \in [Procs -> 0 .. Len(data')] /\ dst' \in [Procs -> 0 .. Len(data')]
    BY <2>3, <2>4 DEF TypeOK
  <2>6. pc' \in [Procs -> {"idle", "ok", "error"} \cup Running]
    BY <2>3 DEF TypeOK, Running
  <2> QED  BY <2>3, <2>4, <2>5, <2>6 DEF TypeOK
<1>8. ASSUME NEW p \in Procs, CopyByte(p)  PROVE TypeOK'
  <2>1. OpenAt(p)
    OBVIOUS
  <2>2. /\ data' \in Seq(Seq(Bytes)) /\ Len(data') = Len(data)
        /\ pos' = [pos EXCEPT ![p] = pos[p] + 1]
        /\ tell' = [tell EXCEPT ![p] = (IF req[p].a THEN Len(data[dst[p]]) ELSE tell[p]) + 1]
        /\ alone' = {q \in alone : q = p \/ pc[q] = "idle"}
        /\ UNCHANGED <<inode, req, pc, src, dst, seen, listed, before, stayed>>
        /\ data[dst[p]] \in Seq(Bytes)
    BY <1>8, <2>1, CopyEffect
  <2>3. pos' \in [Procs -> Nat] /\ tell' \in [Procs -> Nat]
    <3>1. Len(data[dst[p]]) \in Nat
      BY <2>2
    <3> QED  BY <3>1, <2>2 DEF TypeOK
  <2> QED  BY <2>2, <2>3 DEF TypeOK, Bytes
<1> QED  BY <1>1, <1>2, <1>3, <1>4, <1>6, <1>7, <1>8, Steps DEF Moves

(* The steps of the others leave a process where it is with all it has; they
   leave the files as they are, or the process is not alone any more. *)
LEMMA Others ==
  ASSUME TypeOK, BeforeOK, NEW q \in Procs, RoleAt(q), OpenAt(q), Moves(q),
         NEW p \in Procs, p # q
  PROVE  /\ pc'[p] = pc[p] /\ req'[p] = req[p] /\ before'[p] = before[p]
         /\ src'[p] = src[p] /\ dst'[p] = dst[p] /\ pos'[p] = pos[p] /\ tell'[p] = tell[p]
         /\ seen'[p] = seen[p] /\ listed'[p] = listed[p]
         /\ stayed'[p] \subseteq stayed[p]
         /\ p \in alone' => p \in alone /\ (pc[p] = "idle" \/ (data' = data /\ inode' = inode))
<1>1. CASE ExecCmd(q)
  <2>1. PICK r \in Requests : /\ req' = [req EXCEPT ![q] = r]
                              /\ \E x \in Running : pc' = [pc EXCEPT ![q] = x]
    BY <1>1, ExecEffect DEF Running
  <2>2. /\ UNCHANGED <<data, inode, src, dst, pos, tell, seen, listed, alone>>
        /\ before' = [before EXCEPT ![q] = <<data, inode>>]
        /\ stayed' = [stayed EXCEPT ![q] = {n \in Names : Exists(n)}]
    BY <1>1, ExecEffect
  <2> QED  BY <2>1, <2>2 DEF TypeOK, BeforeOK
<1>2. CASE Rm(q)
  <2>1. UNCHANGED <<data, req, src, dst, pos, tell, seen, listed, before>>
    BY <1>2, RmEffect
  <2>2. pc'[p] = pc[p] /\ stayed'[p] \subseteq stayed[p]
    BY <1>2, RmEffect DEF TypeOK
  <2>3. p \in alone' => p \in alone /\ (pc[p] = "idle" \/ inode' = inode)
    BY <1>2, RmEffect
  <2> QED  BY <2>1, <2>2, <2>3
<1>3. CASE \/ Options(q) \/ CopyEnd(q) \/ OpenDir(q) \/ ReadDir(q) \/ PrintFileInfo(q)
           \/ EndDir(q) \/ Fail(q)
  BY <1>3, QuietEffect
<1>4. CASE OpenSource(q)
  <2>1. req[q] \in CopyRequest
    BY <1>4 DEF OpenSource, RoleAt
  <2>2. req[q].src \in Names
    BY <2>1, CopyFields
  <2>3. UNCHANGED <<req, dst, tell, seen, listed, before, stayed>>
    BY <1>4, SourceEffect
  <2>4. CASE /\ UNCHANGED <<data, inode, src, pos, alone>>
             /\ pc' = [pc EXCEPT ![q] = "error"]
    BY <2>3, <2>4 DEF TypeOK
  <2>5. CASE /\ OpenFile(q, req[q].src, FALSE)
             /\ src' = [src EXCEPT ![q] = inode'[req[q].src]]
             /\ pos' = [pos EXCEPT ![q] = req[q].b]
             /\ pc' = [pc EXCEPT ![q] = "dest"]
    <3>1. \/ alone' = {x \in alone : x = q \/ pc[x] = "idle"}
          \/ data' = data /\ inode' = inode /\ alone' = alone
      BY <2>2, <2>5, OpenEffect
    <3>2. p \in alone' => p \in alone /\ (pc[p] = "idle" \/ (data' = data /\ inode' = inode))
      BY <3>1
    <3> QED  BY <2>3, <2>5, <3>2 DEF TypeOK
  <2> QED  BY <1>4, <2>4, <2>5, SourceEffect
<1>5. CASE OpenDest(q)
  <2>1. req[q] \in CopyRequest
    BY <1>5 DEF OpenDest, RoleAt
  <2>2. req[q].dst \in Names /\ (~req[q].a) \in BOOLEAN
    <3>1. (~req[q].a) \in BOOLEAN
      OBVIOUS
    <3> QED  BY <2>1, <3>1, CopyFields
  <2>3. /\ UNCHANGED <<req, src, pos, tell, seen, listed, before, stayed>>
        /\ OpenFile(q, req[q].dst, ~req[q].a)
        /\ dst' = [dst EXCEPT ![q] = inode'[req[q].dst]]
        /\ pc' = [pc EXCEPT ![q] = "copying"]
    BY <1>5, DestEffect
  <2>4. \/ alone' = {x \in alone : x = q \/ pc[x] = "idle"}
        \/ data' = data /\ inode' = inode /\ alone' = alone
    BY <2>2, <2>3, OpenEffect
  <2>5. p \in alone' => p \in alone /\ (pc[p] = "idle" \/ (data' = data /\ inode' = inode))
    BY <2>4
  <2> QED  BY <2>3, <2>5 DEF TypeOK
<1>6. CASE CopyByte(q)
  <2>1. /\ pos' = [pos EXCEPT ![q] = pos[q] + 1]
        /\ tell' = [tell EXCEPT ![q] = (IF req[q].a THEN Len(data[dst[q]]) ELSE tell[q]) + 1]
        /\ alone' = {x \in alone : x = q \/ pc[x] = "idle"}
        /\ UNCHANGED <<inode, req, pc, src, dst, seen, listed, before, stayed>>
    BY <1>6, CopyEffect
  <2> QED  BY <2>1 DEF TypeOK
<1> QED  BY <1>1, <1>2, <1>3, <1>4, <1>5, <1>6 DEF Moves

(* What a process remembers of its start, and the names. *)
LEMMA BeforeStep ==
  ASSUME TypeOK, BeforeOK, Inodes, \A p \in Procs : RoleAt(p) /\ OpenAt(p), [Next]_vars
  PROVE  BeforeOK' /\ Inodes'
<1>1. CASE UNCHANGED vars
  BY <1>1 DEF vars, files, history, BeforeOK, Inodes
<1>2. ASSUME NEW p \in Procs, ExecCmd(p)  PROVE BeforeOK' /\ Inodes'
  <2>1. /\ UNCHANGED <<data, inode>>
        /\ before' = [before EXCEPT ![p] = <<data, inode>>]
    BY <1>2, ExecEffect
  <2>2. PICK l \in Nat : l = Len(data)
    BY DEF TypeOK
  <2>3. <<data, inode>> \in Seq(Seq(Bytes)) \X [Names -> Nat]
    <3>1. inode \in [Names -> 0 .. l] /\ 0 .. l \subseteq Nat
      BY <2>2 DEF TypeOK
    <3>2. inode \in [Names -> Nat]
      BY <3>1
    <3> QED  BY <3>2 DEF TypeOK, Bytes
  <2>4. inode \in [Names -> 0 .. Len(data)]
    BY DEF TypeOK
  <2>5. /\ before' \in [Procs -> Seq(Seq(Bytes)) \X [Names -> Nat]]
        /\ before'[p] = <<data, inode>>
        /\ \A q \in Procs : q # p => before'[q] = before[q]
    BY <2>1, <2>3 DEF BeforeOK
  <2>6. \A q \in Procs : before'[q][2] \in [Names -> 0 .. Len(before'[q][1])]
    <3>1. before'[p][1] = data /\ before'[p][2] = inode
      BY <2>5
    <3>2. before'[p][2] \in [Names -> 0 .. Len(before'[p][1])]
      BY <2>4, <3>1
    <3>3. ASSUME NEW q \in Procs, q # p
          PROVE  before'[q][2] \in [Names -> 0 .. Len(before'[q][1])]
      BY <2>5, <3>3 DEF BeforeOK
    <3> QED  BY <3>2, <3>3
  <2> QED  BY <2>1, <2>5, <2>6 DEF BeforeOK, Inodes
<1>3. ASSUME NEW p \in Procs, Rm(p)  PROVE BeforeOK' /\ Inodes'
  <2>1. RoleAt(p)
    OBVIOUS
  <2>2. before' = before
    BY <1>3, <2>1, RmEffect
  <2>3. CASE inode' = inode
    BY <2>2, <2>3 DEF BeforeOK, Inodes
  <2>4. ASSUME NEW n \in Names, inode' = [inode EXCEPT ![n] = 0]
        PROVE  Inodes'
    BY <2>4 DEF TypeOK, Inodes
  <2> QED  BY <1>3, <2>1, <2>2, <2>3, <2>4, RmEffect DEF BeforeOK
<1>4. ASSUME NEW p \in Procs,
             \/ Options(p) \/ CopyEnd(p) \/ OpenDir(p) \/ ReadDir(p) \/ PrintFileInfo(p)
             \/ EndDir(p) \/ Fail(p)
      PROVE  BeforeOK' /\ Inodes'
  <2>1. UNCHANGED <<inode, before>>
    BY <1>4, QuietEffect
  <2> QED  BY <2>1 DEF BeforeOK, Inodes
<1>5. ASSUME NEW p \in Procs, NEW n \in Names, NEW cut \in BOOLEAN, OpenFile(p, n, cut)
      PROVE  Inodes'
  <2>1. /\ inode' \in [Names -> 0 .. Len(data')]
        /\ \A m \in Names : m # n => inode'[m] = inode[m]
        /\ Exists(n) => inode' = inode
        /\ ~Exists(n) => inode'[n] = Len(data) + 1
        /\ Len(data) \in Nat
    BY <1>5, OpenEffect
  <2>2. \A m \in Names : inode[m] \in 0 .. Len(data)
    BY DEF TypeOK
  <2>3. PICK l \in Nat : l = Len(data)
    BY <2>1
  <2> QED  BY <2>1, <2>2, <2>3 DEF Inodes
<1>6. ASSUME NEW p \in Procs, OpenSource(p)  PROVE BeforeOK' /\ Inodes'
  <2>1. req[p] \in CopyRequest
    BY <1>6 DEF OpenSource, RoleAt
  <2>2. req[p].src \in Names
    BY <2>1, CopyFields
  <2>3. before' = before
    BY <1>6, SourceEffect
  <2>4. CASE inode' = inode
    BY <2>3, <2>4 DEF BeforeOK, Inodes
  <2>5. CASE OpenFile(p, req[p].src, FALSE)
    BY <2>2, <2>3, <2>5, <1>5 DEF BeforeOK
  <2> QED  BY <1>6, <2>4, <2>5, SourceEffect
<1>7. ASSUME NEW p \in Procs, OpenDest(p)  PROVE BeforeOK' /\ Inodes'
  <2>1. req[p] \in CopyRequest
    BY <1>7 DEF OpenDest, RoleAt
  <2>2. req[p].dst \in Names /\ (~req[p].a) \in BOOLEAN
    <3>1. (~req[p].a) \in BOOLEAN
      OBVIOUS
    <3> QED  BY <2>1, <3>1, CopyFields
  <2>3. before' = before /\ OpenFile(p, req[p].dst, ~req[p].a)
    BY <1>7, DestEffect
  <2> QED  BY <2>2, <2>3, <1>5 DEF BeforeOK
<1>8. ASSUME NEW p \in Procs, CopyByte(p)  PROVE BeforeOK' /\ Inodes'
  <2>1. UNCHANGED <<inode, before>>
    BY <1>8, CopyEffect
  <2> QED  BY <2>1 DEF BeforeOK, Inodes
<1> QED  BY <1>1, <1>2, <1>3, <1>4, <1>6, <1>7, <1>8, Steps DEF Moves

-----------------------------------------------------------------------------
(* What a process knows survives the steps of the others *)

(* What is known of a process is still true after a step of another. *)
LEMMA OthersKeep ==
  ASSUME TypeOK, BeforeOK, NEW q \in Procs, RoleAt(q), OpenAt(q), Moves(q),
         NEW p \in Procs, p # q, ProcessInv(p)
  PROVE  ProcessInv(p)'
<1>1. /\ pc'[p] = pc[p] /\ req'[p] = req[p] /\ before'[p] = before[p]
      /\ src'[p] = src[p] /\ dst'[p] = dst[p] /\ pos'[p] = pos[p] /\ tell'[p] = tell[p]
      /\ seen'[p] = seen[p] /\ listed'[p] = listed[p]
      /\ stayed'[p] \subseteq stayed[p]
      /\ p \in alone' => p \in alone /\ (pc[p] = "idle" \/ (data' = data /\ inode' = inode))
  BY Others
<1>2. RoleAt(p)'
  BY <1>1 DEF ProcessInv, RoleAt
<1>3. OpenAt(p)'
  BY <1>1 DEF ProcessInv, OpenAt
<1>4. ListAt(p)'
  BY <1>1 DEF ProcessInv, ListAt
<1>5. KeepAt(p)'
  BY <1>1 DEF ProcessInv, KeepAt
<1>6. CopyAt(p)'
  <2>1. CASE p \notin alone'
    BY <2>1 DEF CopyAt
  <2>2. CASE pc[p] = "idle"
    BY <1>1, <2>2 DEF CopyAt, Copied
  <2>3. CASE p \in alone' /\ p \in alone /\ data' = data /\ inode' = inode
    <3>1. CopyAt(p)
      BY DEF ProcessInv
    <3>2. Prefix(p)' = Prefix(p) /\ Source(p)' = Source(p)
      BY <1>1 DEF Prefix, Source, Old
    <3>3. End(p)' = End(p) /\ (Bounded(p)' <=> Bounded(p))
      BY <1>1, <3>2 DEF End, Bounded
    <3>4. \A to : Slice(p, to)' = Slice(p, to)
      BY <1>1, <3>2 DEF Slice
    <3>5. Copied(p)' <=> Copied(p)
      BY <1>1, <2>3 DEF Copied
    <3> QED  BY <1>1, <2>3, <3>1, <3>2, <3>3, <3>4, <3>5 DEF CopyAt
  <2> QED  BY <1>1, <2>1, <2>2, <2>3
<1> QED  BY <1>2, <1>3, <1>4, <1>5, <1>6 DEF ProcessInv

-----------------------------------------------------------------------------
(* A step of a process keeps what it knows *)

(* Its place and its command. *)
LEMMA RoleStep ==
  ASSUME TypeOK, NEW p \in Procs, RoleAt(p), OpenAt(p), Moves(p)
  PROVE  RoleAt(p)'
<1>1. CASE ExecCmd(p)
  BY <1>1, ExecEffect DEF TypeOK, RoleAt
<1>2. CASE Rm(p)
  BY <1>2, RmEffect DEF TypeOK, RoleAt
<1>3. CASE Options(p)
  BY <1>3 DEF Options, Goto, TypeOK, RoleAt
<1>4. CASE OpenSource(p)
  BY <1>4, SourceEffect DEF TypeOK, RoleAt
<1>5. CASE OpenDest(p)
  BY <1>5, DestEffect DEF TypeOK, RoleAt
<1>6. CASE CopyByte(p)
  <2>1. UNCHANGED <<pc, req>>
    BY <1>6, CopyEffect
  <2> QED  BY <2>1 DEF RoleAt
<1>7. CASE CopyEnd(p)
  BY <1>7 DEF CopyEnd, Goto, TypeOK, RoleAt
<1>8. CASE OpenDir(p)
  BY <1>8 DEF OpenDir, Goto, TypeOK, RoleAt
<1>9. CASE ReadDir(p)
  BY <1>9 DEF ReadDir, Goto, TypeOK, RoleAt
<1>10. CASE PrintFileInfo(p)
  BY <1>10 DEF PrintFileInfo, PrintInfo, Goto, TypeOK, RoleAt
<1>11. CASE EndDir(p)
  BY <1>11 DEF EndDir, Goto, TypeOK, RoleAt
<1>12. CASE Fail(p)
  BY <1>12 DEF Fail, Goto, TypeOK, RoleAt
<1> QED
  BY <1>1, <1>2, <1>3, <1>4, <1>5, <1>6, <1>7, <1>8, <1>9, <1>10, <1>11, <1>12 DEF Moves

(* Its descriptors. *)
LEMMA OpenStep ==
  ASSUME TypeOK, NEW p \in Procs, RoleAt(p), OpenAt(p), Moves(p)
  PROVE  OpenAt(p)'
<1>1. CASE ExecCmd(p)
  BY <1>1, ExecEffect DEF TypeOK, OpenAt
<1>2. CASE Rm(p)
  BY <1>2, RmEffect DEF TypeOK, OpenAt
<1>3. CASE Options(p)
  BY <1>3 DEF Options, Goto, TypeOK, OpenAt, copy
<1>4. CASE OpenSource(p)
  <2>1. UNCHANGED <<dst, tell>> /\ pc[p] = "source"
    BY <1>4, SourceEffect
  <2>2. CASE pc' = [pc EXCEPT ![p] = "error"]
    BY <2>1, <2>2 DEF TypeOK, OpenAt
  <2>3. CASE /\ OpenFile(p, req[p].src, FALSE)
             /\ src' = [src EXCEPT ![p] = inode'[req[p].src]]
             /\ pc' = [pc EXCEPT ![p] = "dest"]
    <3>1. req[p] \in CopyRequest
      BY <2>1 DEF RoleAt
    <3>2. req[p].src \in Names
      BY <3>1, CopyFields
    <3>3. inode'[req[p].src] \in 1 .. Len(data')
      BY <2>3, <3>2, OpenEffect
    <3>4. src'[p] # 0
      BY <2>3, <3>3 DEF TypeOK
    <3> QED  BY <2>1, <2>3, <3>4 DEF TypeOK, OpenAt
  <2> QED  BY <1>4, <2>2, <2>3, SourceEffect
<1>5. CASE OpenDest(p)
  <2>1. req[p] \in CopyRequest /\ pc[p] = "dest"
    BY <1>5 DEF OpenDest, RoleAt
  <2>2. req[p].dst \in Names /\ (~req[p].a) \in BOOLEAN
    <3>1. (~req[p].a) \in BOOLEAN
      OBVIOUS
    <3> QED  BY <2>1, <3>1, CopyFields
  <2>3. /\ UNCHANGED <<req, src, pos, tell, seen, listed, before, stayed>>
        /\ OpenFile(p, req[p].dst, ~req[p].a)
        /\ dst' = [dst EXCEPT ![p] = inode'[req[p].dst]]
        /\ pc' = [pc EXCEPT ![p] = "copying"]
    BY <1>5, DestEffect
  <2>4. inode'[req[p].dst] \in 1 .. Len(data')
    BY <2>2, <2>3, OpenEffect
  <2>5. dst'[p] # 0
    BY <2>3, <2>4 DEF TypeOK
  <2> QED  BY <2>1, <2>3, <2>5 DEF TypeOK, OpenAt
<1>6. CASE CopyByte(p)
  <2>1. UNCHANGED <<pc, src, dst>> /\ pc[p] = "copying"
    BY <1>6, CopyEffect DEF CopyByte
  <2> QED  BY <2>1 DEF OpenAt
<1>7. CASE CopyEnd(p) \/ OpenDir(p) \/ ReadDir(p) \/ PrintFileInfo(p) \/ EndDir(p) \/ Fail(p)
  <2>1. UNCHANGED <<src, dst, tell>>
    BY <1>7, QuietEffect
  <2>2. pc'[p] \notin {"idle", "options", "source", "dest", "copying"}
    BY <1>7 DEF CopyEnd, OpenDir, ReadDir, PrintFileInfo, PrintInfo, EndDir, Fail, Goto, TypeOK
  <2> QED  BY <2>1, <2>2 DEF OpenAt
<1> QED  BY <1>1, <1>2, <1>3, <1>4, <1>5, <1>6, <1>7 DEF Moves

(* What it has listed. *)
LEMMA ListStep ==
  ASSUME TypeOK, NEW p \in Procs, RoleAt(p), OpenAt(p), ListAt(p), Moves(p)
  PROVE  ListAt(p)'
<1>1. CASE ExecCmd(p)
  <2>1. UNCHANGED <<seen, listed>> /\ pc[p] = "idle"
    BY <1>1, ExecEffect
  <2>2. pc'[p] \in {"options", "opendir", "remove"}
    BY <1>1, ExecEffect DEF TypeOK
  <2> QED  BY <2>1, <2>2 DEF ListAt
<1>2. CASE Rm(p)
  <2>1. UNCHANGED <<seen, listed, req>> /\ pc[p] = "remove" /\ req[p].cmd = "rm"
    BY <1>2, RmEffect
  <2>2. pc'[p] \in {"ok", "error"}
    BY <1>2, RmEffect DEF TypeOK
  <2> QED  BY <2>1, <2>2 DEF ListAt
<1>3. CASE Options(p)
  BY <1>3 DEF Options, Goto, TypeOK, ListAt, list
<1>4. CASE OpenSource(p)
  BY <1>4, SourceEffect DEF TypeOK, ListAt
<1>5. CASE OpenDest(p)
  BY <1>5, DestEffect DEF TypeOK, ListAt
<1>6. CASE CopyByte(p)
  <2>1. UNCHANGED <<pc, req, seen, listed, stayed>>
    BY <1>6, CopyEffect
  <2> QED  BY <2>1 DEF ListAt
<1>7. CASE CopyEnd(p)
  <2>1. req[p].cmd = "ccp"
    BY <1>7, CopyFields DEF CopyEnd, RoleAt
  <2>2. UNCHANGED <<req, seen, listed>> /\ pc'[p] = "ok"
    BY <1>7 DEF CopyEnd, Goto, TypeOK, list
  <2> QED  BY <2>1, <2>2 DEF ListAt
<1>8. CASE OpenDir(p)
  BY <1>8 DEF OpenDir, Goto, TypeOK, ListAt, list
<1>9. CASE ReadDir(p)
  <2>1. PICK n \in Names \ seen[p] :
          seen' = [seen EXCEPT ![p] = seen[p] \cup {n}] /\ pc' = [pc EXCEPT ![p] = "lstat"]
    BY <1>9 DEF ReadDir, Goto
  <2>2. listed' = listed /\ pc[p] = "readdir"
    BY <1>9 DEF ReadDir
  <2>3. seen[p] = listed[p]
    BY <2>2 DEF ListAt
  <2> QED  BY <2>1, <2>2, <2>3 DEF ListAt, TypeOK
<1>10. CASE PrintFileInfo(p)
  <2>1. PICK n \in seen[p] \ listed[p] :
          /\ pc[p] = "lstat" /\ seen' = seen
          /\ \/ /\ listed' = [listed EXCEPT ![p] = listed[p] \cup {n}]
                /\ pc' = [pc EXCEPT ![p] = "readdir"]
             \/ listed' = listed /\ pc' = [pc EXCEPT ![p] = "error"]
    BY <1>10 DEF PrintFileInfo, PrintInfo, Goto
  <2>2. PICK m \in Names : m \notin listed[p] /\ seen[p] = listed[p] \cup {m}
    BY <2>1 DEF ListAt
  <2>3. listed[p] \cup {n} = seen[p]
    BY <2>1, <2>2
  <2> QED  BY <2>1, <2>3 DEF ListAt, TypeOK
<1>11. CASE EndDir(p)
  BY <1>11 DEF EndDir, Goto, TypeOK, ListAt, list, history
<1>12. CASE Fail(p)
  BY <1>12 DEF Fail, Goto, TypeOK, ListAt, list
<1> QED
  BY <1>1, <1>2, <1>3, <1>4, <1>5, <1>6, <1>7, <1>8, <1>9, <1>10, <1>11, <1>12 DEF Moves

(* The files it has not changed. *)
LEMMA KeepStep ==
  ASSUME TypeOK, BeforeOK, NEW p \in Procs, RoleAt(p), OpenAt(p), KeepAt(p), Moves(p)
  PROVE  KeepAt(p)'
<1>1. CASE ExecCmd(p)
  <2>1. data' = data /\ before'[p][1] = data
    BY <1>1, ExecEffect DEF BeforeOK
  <2>2. Len(data) \in Nat
    BY DEF TypeOK
  <2> QED  BY <2>1, <2>2 DEF KeepAt
<1>2. CASE Rm(p)
  <2>1. UNCHANGED req /\ req[p].cmd = "rm"
    BY <1>2, RmEffect
  <2> QED  BY <2>1 DEF KeepAt
<1>3. CASE \/ Options(p) \/ CopyEnd(p) \/ OpenDir(p) \/ ReadDir(p) \/ PrintFileInfo(p)
           \/ EndDir(p) \/ Fail(p)
  <2>1. UNCHANGED <<data, req, dst, before, alone>> /\ pc[p] # "idle"
    BY <1>3, QuietEffect
  <2> QED  BY <2>1 DEF KeepAt
<1>4. CASE OpenSource(p)
  <2>1. UNCHANGED <<req, dst, before>> /\ pc[p] = "source"
    BY <1>4, SourceEffect
  <2>2. CASE UNCHANGED <<data, alone>>
    BY <2>1, <2>2 DEF KeepAt
  <2>3. CASE OpenFile(p, req[p].src, FALSE)
    <3>1. req[p] \in CopyRequest
      BY <2>1 DEF RoleAt
    <3>2. req[p].src \in Names
      BY <3>1, CopyFields
    <3>3. /\ Len(data) \in Nat /\ Len(data') \in {Len(data), Len(data) + 1}
          /\ \A i \in 1 .. Len(data) : data'[i] = data[i]
          /\ \/ alone' = {q \in alone : q = p \/ pc[q] = "idle"} \/ alone' = alone
      BY <2>3, <3>2, OpenEffect
    <3>4. p \in alone' => p \in alone
      BY <3>3
    <3>5. PICK l \in Nat, m \in Nat, b \in Nat :
            l = Len(data) /\ m = Len(data') /\ b = Len(before[p][1]) /\ l <= m
      <4>1. Len(before[p][1]) \in Nat
        BY DEF BeforeOK
      <4> QED  BY <3>3, <4>1
    <3>6. ASSUME p \in alone', pc'[p] # "idle", req'[p].cmd = "ccp", dst'[p] = 0
          PROVE  b <= m /\ \A i \in 1 .. b : data'[i] = before[p][1][i]
      <4>1. b <= l /\ \A i \in 1 .. b : data[i] = before[p][1][i]
        BY <2>1, <3>4, <3>5, <3>6 DEF KeepAt
      <4>2. \A i \in 1 .. b : i \in 1 .. l
        BY <4>1
      <4> QED  BY <3>3, <3>5, <4>1, <4>2
    <3> QED  BY <2>1, <3>5, <3>6 DEF KeepAt
  <2> QED  BY <1>4, <2>2, <2>3, SourceEffect
<1>5. CASE OpenDest(p)
  <2>1. pc'[p] = "copying"
    BY <1>5, DestEffect DEF TypeOK
  <2>2. OpenAt(p)'
    BY <1>5, OpenStep DEF Moves
  <2> QED  BY <2>1, <2>2 DEF KeepAt, OpenAt
<1>6. CASE CopyByte(p)
  <2>1. dst' = dst /\ pc[p] = "copying"
    BY <1>6, CopyEffect DEF CopyByte
  <2> QED  BY <2>1 DEF KeepAt, OpenAt
<1> QED  BY <1>1, <1>2, <1>3, <1>4, <1>5, <1>6 DEF Moves

-----------------------------------------------------------------------------
(* What a copy that is alone has done *)

(* What CopyAt says once the destination is open. *)
Progress(p) ==
  /\ src[p] # dst[p] /\ data[src[p]] = Source(p)
  /\ pos[p] >= req[p].b
  /\ pos[p] > req[p].b => pos[p] <= Len(Source(p))
  /\ Bounded(p) => pos[p] <= End(p)
  /\ data[dst[p]] = Prefix(p) \o Slice(p, pos[p])
  /\ tell[p] = IF pos[p] = req[p].b THEN 0 ELSE Len(Prefix(p)) + (pos[p] - req[p].b)

(* What was there at the start. *)
LEMMA OldContents ==
  ASSUME BeforeOK, NEW p \in Procs, NEW n \in Names
  PROVE  Old(p, n) \in Seq(Bytes)
<1>1. /\ before[p][1] \in Seq(Seq(Bytes))
      /\ before[p][2][n] \in 0 .. Len(before[p][1])
  BY DEF BeforeOK
<1>2. PICK d \in Seq(Seq(Bytes)) : d = before[p][1]
  BY <1>1
<1>3. PICK l \in Nat : l = Len(d) /\ DOMAIN d = 1 .. l
  OBVIOUS
<1>4. PICK i \in 0 .. l : i = before[p][2][n]
  BY <1>1, <1>2, <1>3
<1>5. CASE i = 0
  <2>1. << >> \in Seq(Bytes)
    OBVIOUS
  <2> QED  BY <1>4, <1>5, <2>1 DEF Old
<1>6. CASE i # 0
  <2>1. d[i] \in Seq(Bytes)
    BY <1>3, <1>6
  <2> QED  BY <1>2, <1>4, <1>6, <2>1 DEF Old
<1> QED  BY <1>5, <1>6

(* What a copy keeps and what it copies are contents. *)
LEMMA PrefixSource ==
  ASSUME BeforeOK, NEW p \in Procs, req[p] \in CopyRequest
  PROVE  /\ Prefix(p) \in Seq(Bytes) /\ Source(p) \in Seq(Bytes)
         /\ ~req[p].a => Prefix(p) = << >>
<1>1. Old(p, req[p].dst) \in Seq(Bytes) /\ Old(p, req[p].src) \in Seq(Bytes)
  BY CopyFields, OldContents
<1>2. << >> \in Seq(Bytes)
  OBVIOUS
<1> QED  BY <1>1, <1>2 DEF Prefix, Source

(* Where the loop stops is not before where it starts. *)
LEMMA EndIs ==
  ASSUME BeforeOK, NEW p \in Procs, req[p] \in CopyRequest,
         NEW b, b = req[p].b, NEW e, e = req[p].e,
         NEW k, k = Len(Prefix(p)), NEW s, s = Len(Source(p))
  PROVE  /\ b \in Nat /\ (e \in Nat \/ e = -1) /\ k \in Nat /\ s \in Nat
         /\ ~req[p].a => k = 0
         /\ Bounded(p) <=> e # -1 /\ ~(req[p].a /\ e > 0 /\ e <= k)
         /\ ~Bounded(p) => End(p) = b + s
         /\ Bounded(p) /\ req[p].a /\ e > 0 => End(p) = b + (e - k)
         /\ Bounded(p) /\ ~(req[p].a /\ e > 0) => End(p) = b + e
<1>1. b \in Nat /\ (e \in Nat \/ e = -1)
  BY CopyFields
<1>2. k \in Nat /\ s \in Nat
  BY PrefixSource
<1>3. ~req[p].a => k = 0
  BY PrefixSource
<1>4. Bounded(p) <=> e # -1 /\ ~(req[p].a /\ e > 0 /\ e <= k)
  BY DEF Bounded
<1>5. End(p) = b + (CASE e = -1 -> s
                      [] req[p].a /\ e > 0 /\ e <= k -> s
                      [] req[p].a /\ e > k -> e - k
                      [] OTHER -> e)
  BY DEF End, Count
<1>6. req[p].a \in BOOLEAN
  BY CopyFields
<1>7. CASE e = -1
  BY <1>1, <1>2, <1>3, <1>4, <1>5, <1>7
<1>8. CASE e # -1 /\ req[p].a /\ e > 0 /\ e <= k
  BY <1>1, <1>2, <1>3, <1>4, <1>5, <1>8
<1>9. CASE e # -1 /\ req[p].a /\ e > k
  BY <1>1, <1>2, <1>3, <1>4, <1>5, <1>9
<1>10. CASE e # -1 /\ ~(req[p].a /\ e > 0 /\ e <= k) /\ ~(req[p].a /\ e > k)
  BY <1>1, <1>2, <1>3, <1>4, <1>5, <1>10
<1> QED  BY <1>1, <1>2, <1>6, <1>7, <1>8, <1>9, <1>10

(* Where the loop stops (n), as EndIs gives it, for the offsets of a copy. *)
Stops(a, bounded, b, e, k, s, n) ==
  /\ ~a => k = 0
  /\ bounded <=> e # -1 /\ ~(a /\ e > 0 /\ e <= k)
  /\ ~bounded => n = b + s
  /\ bounded /\ a /\ e > 0 => n = b + (e - k)
  /\ bounded /\ ~(a /\ e > 0) => n = b + e

(* The offsets of a copy. *)
LEMMA CopyStops ==
  ASSUME BeforeOK, NEW p \in Procs, req[p] \in CopyRequest
  PROVE  \E a \in BOOLEAN, bounded \in BOOLEAN, b \in Nat, e \in Int, k \in Nat, s \in Nat,
            n \in Int :
           /\ a = req[p].a /\ (bounded <=> Bounded(p)) /\ b = req[p].b /\ e = req[p].e
           /\ k = Len(Prefix(p)) /\ s = Len(Source(p)) /\ n = End(p)
           /\ e >= -1 /\ Stops(a, bounded, b, e, k, s, n)
<1>1. PICK b, e, k, s :
        b = req[p].b /\ e = req[p].e /\ k = Len(Prefix(p)) /\ s = Len(Source(p))
  OBVIOUS
<1>2. /\ b \in Nat /\ (e \in Nat \/ e = -1) /\ k \in Nat /\ s \in Nat
      /\ ~req[p].a => k = 0
      /\ Bounded(p) <=> e # -1 /\ ~(req[p].a /\ e > 0 /\ e <= k)
      /\ ~Bounded(p) => End(p) = b + s
      /\ Bounded(p) /\ req[p].a /\ e > 0 => End(p) = b + (e - k)
      /\ Bounded(p) /\ ~(req[p].a /\ e > 0) => End(p) = b + e
  BY <1>1, EndIs
<1>3. PICK a \in BOOLEAN : a = req[p].a
  BY CopyFields
<1>4. PICK bounded \in BOOLEAN : bounded <=> Bounded(p)
  <2>1. CASE Bounded(p)
    <3>1. TRUE <=> Bounded(p)
      BY <2>1
    <3> QED  BY <3>1
  <2>2. CASE ~Bounded(p)
    <3>1. FALSE <=> Bounded(p)
      BY <2>2
    <3> QED  BY <3>1
  <2> QED  BY <2>1, <2>2
<1>5. PICK n : n = End(p)
  OBVIOUS
<1>6. /\ ~a => k = 0
      /\ bounded <=> e # -1 /\ ~(a /\ e > 0 /\ e <= k)
      /\ ~bounded => n = b + s
      /\ bounded /\ a /\ e > 0 => n = b + (e - k)
      /\ bounded /\ ~(a /\ e > 0) => n = b + e
  BY <1>2, <1>3, <1>4, <1>5
<1>7. e \in Int /\ e >= -1
  BY <1>2
<1>8. n \in Int
  BY <1>2, <1>6, <1>7
<1>9. Stops(a, bounded, b, e, k, s, n)
  BY <1>6 DEF Stops
<1>10. e \in Nat \/ e = -1
  BY <1>2
<1> QED  BY <1>1, <1>2, <1>3, <1>4, <1>5, <1>7, <1>8, <1>9, <1>10

(* A byte more is copied. *)
LEMMA ProgressByte ==
  ASSUME TypeOK, BeforeOK, NEW p \in Procs, OpenAt(p), req[p] \in CopyRequest, Progress(p),
         CopyByte(p)
  PROVE  Progress(p)'
<1>1. PICK a \in BOOLEAN, bounded \in BOOLEAN, b \in Nat, e \in Int, k \in Nat, s \in Nat,
           n \in Int :
        /\ a = req[p].a /\ (bounded <=> Bounded(p)) /\ b = req[p].b /\ e = req[p].e
        /\ k = Len(Prefix(p)) /\ s = Len(Source(p)) /\ n = End(p)
        /\ e >= -1 /\ Stops(a, bounded, b, e, k, s, n)
  BY CopyStops
<1>2. ~a => k = 0
  BY <1>1 DEF Stops
<1>3. PICK o \in Nat, t \in Nat : o = pos[p] /\ t = tell[p]
  BY DEF TypeOK
<1>4. PICK pre \in Seq(Bytes), all \in Seq(Bytes) : pre = Prefix(p) /\ all = Source(p)
  BY PrefixSource
<1>5. /\ src[p] # dst[p] /\ data[src[p]] = all
      /\ o >= b /\ (bounded => o <= n)
      /\ data[dst[p]] = pre \o SubSeq(all, b + 1, o)
      /\ t = IF o = b THEN 0 ELSE k + (o - b)
  BY <1>1, <1>3, <1>4 DEF Progress, Slice
<1>6. /\ src[p] \in 1 .. Len(data) /\ dst[p] \in 1 .. Len(data)
      /\ data'[dst[p]] = Written(data[dst[p]], IF a THEN Len(data[dst[p]]) ELSE t, all[o + 1])
      /\ \A i \in 1 .. Len(data) : i # dst[p] => data'[i] = data[i]
      /\ o < s /\ ~AtMax(p)
      /\ pos' = [pos EXCEPT ![p] = o + 1]
      /\ tell' = [tell EXCEPT ![p] = (IF a THEN Len(data[dst[p]]) ELSE t) + 1]
      /\ UNCHANGED <<inode, req, pc, src, dst, seen, listed, before, stayed>>
  BY <1>1, <1>3, <1>4, <1>5, CopyEffect
<1>7. PICK c \in Seq(Bytes) : c = data[dst[p]] /\ Len(c) = k + (o - b)
  <2>1. b <= o /\ (o > b => o <= Len(all))
    <3>1. b <= o /\ o <= s
      BY <1>5, <1>6
    <3> QED  BY <3>1, <1>1, <1>4
  <2>2. /\ pre \o SubSeq(all, b + 1, o) \in Seq(Bytes)
        /\ Len(pre \o SubSeq(all, b + 1, o)) = Len(pre) + (o - b)
    BY <2>1, SliceLength
  <2>3. Len(pre) = k
    BY <1>1, <1>4
  <2>4. PICK c \in Seq(Bytes) : c = pre \o SubSeq(all, b + 1, o)
    BY <2>2
  <2>5. Len(c) = k + (o - b)
    BY <2>2, <2>3, <2>4
  <2> QED  BY <1>5, <2>4, <2>5
<1>8. (IF a THEN Len(c) ELSE t) = k + (o - b)
  <2>1. CASE a
    BY <2>1, <1>7
  <2>2. CASE ~a
    BY <2>2, <1>2, <1>5
  <2> QED  BY <2>1, <2>2
<1>9. all[o + 1] \in Bytes
  <2>1. PICK m \in Nat : m = Len(all) /\ all \in [1 .. m -> Bytes]
    OBVIOUS
  <2>2. m = s
    BY <1>1, <1>4, <2>1
  <2>3. o + 1 \in 1 .. m
    BY <1>6, <2>2
  <2> QED  BY <2>1, <2>3
<1>10. data'[dst[p]] = Append(c, all[o + 1])
  <2>1. Written(c, Len(c), all[o + 1]) = Append(c, all[o + 1])
    BY <1>9, WrittenAppends
  <2> QED  BY <1>6, <1>7, <1>8, <2>1
<1>11. data'[dst[p]] = pre \o SubSeq(all, b + 1, o + 1)
  <2>1. b <= o /\ o < Len(all)
    <3>1. b <= o
      BY <1>5
    <3> QED  BY <3>1, <1>1, <1>4, <1>6
  <2>2. Append(pre \o SubSeq(all, b + 1, o), all[o + 1]) = pre \o SubSeq(all, b + 1, o + 1)
    <3>1. Append(WithSlice(pre, all, b, o), all[o + 1]) = WithSlice(pre, all, b, o + 1)
      BY <2>1, SliceGrows
    <3> QED  BY <3>1 DEF WithSlice
  <2> QED  BY <1>5, <1>7, <1>10, <2>2
<1>12. pos'[p] = o + 1 /\ tell'[p] = k + ((o + 1) - b)
  <2>1. tell'[p] = (IF a THEN Len(c) ELSE t) + 1 /\ pos'[p] = o + 1
    BY <1>6, <1>7 DEF TypeOK
  <2>2. tell'[p] = (k + (o - b)) + 1
    BY <2>1, <1>8
  <2>3. (k + (o - b)) + 1 = k + ((o + 1) - b)
    OBVIOUS
  <2> QED  BY <2>1, <2>2, <2>3
<1>13. bounded => o + 1 <= n
  <2>1. e = -1 \/ t # e
    BY <1>1, <1>3, <1>6 DEF AtMax
  <2>2. Stops(a, bounded, b, e, k, s, n) /\ e >= -1
    BY <1>1
  <2>3. o >= b /\ (bounded => o <= n) /\ t = IF o = b THEN 0 ELSE k + (o - b)
    BY <1>5
  <2> QED  BY <2>1, <2>2, <2>3 DEF Stops
<1>14. data'[src[p]] = all
  BY <1>5, <1>6
<1>15. /\ Prefix(p)' = Prefix(p) /\ Source(p)' = Source(p)
       /\ End(p)' = End(p) /\ (Bounded(p)' <=> Bounded(p))
       /\ req'[p] = req[p] /\ src'[p] = src[p] /\ dst'[p] = dst[p]
  BY <1>6 DEF Prefix, Source, Bounded, End, Count, Old
<1>16. Progress(p)' <=>
         /\ src'[p] # dst'[p] /\ data'[src'[p]] = Source(p)'
         /\ pos'[p] >= req'[p].b
         /\ pos'[p] > req'[p].b => pos'[p] <= Len(Source(p)')
         /\ Bounded(p)' => pos'[p] <= End(p)'
         /\ data'[dst'[p]] = Prefix(p)' \o SubSeq(Source(p)', req'[p].b + 1, pos'[p])
         /\ tell'[p] = IF pos'[p] = req'[p].b THEN 0 ELSE Len(Prefix(p)') + (pos'[p] - req'[p].b)
  BY DEF Progress, Slice
<1>17. /\ o + 1 >= b /\ o + 1 # b /\ o + 1 <= s
  BY <1>5, <1>6
<1>18. pos'[p] <= Len(Source(p)') /\ pos'[p] >= req'[p].b /\ pos'[p] # req'[p].b
  BY <1>1, <1>12, <1>15, <1>17
<1>19. tell'[p] = Len(Prefix(p)') + (pos'[p] - req'[p].b)
  BY <1>1, <1>12, <1>15
<1>20. data'[dst'[p]] = Prefix(p)' \o SubSeq(Source(p)', req'[p].b + 1, pos'[p])
  BY <1>1, <1>4, <1>11, <1>12, <1>15
<1>21. Bounded(p)' => pos'[p] <= End(p)'
  BY <1>1, <1>12, <1>13, <1>15
<1>22. src'[p] # dst'[p] /\ data'[src'[p]] = Source(p)'
  BY <1>4, <1>5, <1>14, <1>15
<1> QED  BY <1>16, <1>18, <1>19, <1>20, <1>21, <1>22

(* The loop ends with the whole slice copied. *)
LEMMA ProgressEnds ==
  ASSUME TypeOK, BeforeOK, NEW p \in Procs, req[p] \in CopyRequest, Progress(p),
         AtMax(p) \/ pos[p] >= Len(data[src[p]])
  PROVE  data[dst[p]] = Prefix(p) \o
           Slice(p, IF End(p) < Len(Source(p)) THEN End(p) ELSE Len(Source(p)))
<1>1. PICK a \in BOOLEAN, bounded \in BOOLEAN, b \in Nat, e \in Int, k \in Nat, s \in Nat,
           n \in Int :
        /\ a = req[p].a /\ (bounded <=> Bounded(p)) /\ b = req[p].b /\ e = req[p].e
        /\ k = Len(Prefix(p)) /\ s = Len(Source(p)) /\ n = End(p)
        /\ e >= -1 /\ Stops(a, bounded, b, e, k, s, n)
  BY CopyStops
<1>2. ~a => k = 0
  BY <1>1 DEF Stops
<1>3. PICK o \in Nat, t \in Nat : o = pos[p] /\ t = tell[p]
  BY DEF TypeOK
<1>4. /\ o >= b /\ (o > b => o <= s) /\ (bounded => o <= n)
      /\ t = IF o = b THEN 0 ELSE k + (o - b)
      /\ data[dst[p]] = Prefix(p) \o SubSeq(Source(p), b + 1, o)
  BY <1>1, <1>3 DEF Progress, Slice
<1>5. (e # -1 /\ t = e) \/ o >= s
  BY <1>1, <1>3 DEF AtMax, Progress
<1>6. PICK last \in Int : last = IF n < s THEN n ELSE s
  <2>1. (IF n < s THEN n ELSE s) \in Int
    OBVIOUS
  <2> QED  BY <2>1
<1>7. o = last \/ (o <= b /\ last <= b)
  <2>1. Stops(a, bounded, b, e, k, s, n) /\ e >= -1
    BY <1>1
  <2>2. /\ o >= b /\ (o > b => o <= s) /\ (bounded => o <= n)
        /\ t = IF o = b THEN 0 ELSE k + (o - b)
    BY <1>4
  <2>3. CASE ~bounded
    BY <2>1, <2>2, <2>3, <1>5, <1>6 DEF Stops
  <2>4. CASE bounded /\ a /\ e > 0
    BY <2>1, <2>2, <2>4, <1>5, <1>6 DEF Stops
  <2>5. CASE bounded /\ ~(a /\ e > 0)
    BY <2>1, <2>2, <2>5, <1>5, <1>6 DEF Stops
  <2> QED  BY <2>3, <2>4, <2>5
<1>8. SubSeq(Source(p), b + 1, o) = SubSeq(Source(p), b + 1, last)
  <2>1. o \in Int
    OBVIOUS
  <2> QED  BY <2>1, <1>7, SliceSame
<1> QED  BY <1>1, <1>4, <1>6, <1>8 DEF Slice

(* Opening the destination starts the copy. *)
LEMMA ProgressStarts ==
  ASSUME TypeOK, BeforeOK, Inodes, NEW p \in Procs, OpenAt(p), req[p] \in CopyRequest,
         req[p].src # req[p].dst, p \in alone, CopyAt(p), KeepAt(p), OpenDest(p)
  PROVE  Progress(p)'
<1>1. PICK b, e, k, s :
        b = req[p].b /\ e = req[p].e /\ k = Len(Prefix(p)) /\ s = Len(Source(p))
  OBVIOUS
<1>2. /\ b \in Nat /\ (e \in Nat \/ e = -1) /\ k \in Nat /\ s \in Nat
      /\ Bounded(p) <=> e # -1 /\ ~(req[p].a /\ e > 0 /\ e <= k)
      /\ Bounded(p) /\ req[p].a /\ e > 0 => End(p) = b + (e - k)
      /\ Bounded(p) /\ ~(req[p].a /\ e > 0) => End(p) = b + e
  BY <1>1, EndIs
<1>3. PICK m, n : m = req[p].src /\ n = req[p].dst /\ m \in Names /\ n \in Names /\ m # n
  BY CopyFields
<1>4. PICK cut \in BOOLEAN : cut = ~req[p].a
  <2>1. (~req[p].a) \in BOOLEAN
    OBVIOUS
  <2> QED  BY <2>1
<1>5. /\ UNCHANGED <<req, src, pos, tell, seen, listed, before, stayed>>
      /\ pc[p] = "dest"
      /\ OpenFile(p, n, cut)
      /\ dst' = [dst EXCEPT ![p] = inode'[n]]
  BY <1>3, <1>4, DestEffect
<1>6. /\ src[p] = inode[m] /\ data[src[p]] = Source(p) /\ pos[p] = b
      /\ inode[n] = before[p][2][n] /\ src[p] # 0 /\ tell[p] = 0
  BY <1>1, <1>3, <1>5 DEF CopyAt, OpenAt
<1>7. /\ Len(data) \in Nat
      /\ inode'[n] \in 1 .. Len(data')
      /\ Exists(n) => inode' = inode
      /\ ~Exists(n) => inode'[n] = Len(data) + 1 /\ data'[inode'[n]] = << >>
      /\ \A i \in 1 .. Len(data) :
           data'[i] = IF cut /\ i = inode[n] THEN << >> ELSE data[i]
  BY <1>3, <1>5, OpenEffect
<1>8. PICK l \in Nat : l = Len(data) /\ inode[m] \in 1 .. l /\ inode[n] \in 0 .. l
  <2>1. inode[m] \in 0 .. Len(data) /\ inode[n] \in 0 .. Len(data)
    BY <1>3 DEF TypeOK
  <2> QED  BY <1>6, <1>7, <2>1
<1>9. inode[m] # inode[n]
  BY <1>3, <1>6 DEF Inodes
<1>10. dst'[p] = inode'[n]
  BY <1>5 DEF TypeOK
<1>11. src[p] # dst'[p] /\ data'[src[p]] = Source(p)
  BY <1>6, <1>7, <1>8, <1>9, <1>10 DEF Exists
<1>12. data'[dst'[p]] = Prefix(p)
  <2>1. CASE Exists(n)
    <3>1. inode[n] \in 1 .. l /\ dst'[p] = inode[n]
      BY <1>7, <1>8, <1>10, <2>1 DEF Exists
    <3>2. data'[dst'[p]] = IF cut THEN << >> ELSE data[inode[n]]
      BY <1>7, <1>8, <3>1
    <3>3. PICK i : i = inode[n] /\ i = before[p][2][n]
      BY <1>6
    <3>4. data[i] = Old(p, n)
      <4>1. req[p].cmd = "ccp" /\ dst[p] = 0
        BY <1>5, CopyFields DEF OpenAt
      <4>2. \A j \in 1 .. Len(before[p][1]) : data[j] = before[p][1][j]
        BY <1>5, <4>1 DEF KeepAt
      <4>3. i \in 0 .. Len(before[p][1]) /\ Len(before[p][1]) \in Nat /\ i # 0
        BY <1>3, <2>1, <3>3 DEF BeforeOK, Exists
      <4>4. i \in 1 .. Len(before[p][1])
        BY <4>3
      <4> QED  BY <4>2, <4>3, <4>4, <3>3 DEF Old
    <3> QED  BY <1>3, <1>4, <3>2, <3>3, <3>4 DEF Prefix
  <2>2. CASE ~Exists(n)
    <3>1. data'[dst'[p]] = << >> /\ before[p][2][n] = 0
      BY <1>6, <1>7, <1>10, <2>2 DEF Exists
    <3> QED  BY <1>3, <3>1 DEF Prefix, Old
  <2> QED  BY <2>1, <2>2
<1>13. Prefix(p) \o SubSeq(Source(p), b + 1, b) = Prefix(p)
  <2>1. SubSeq(Source(p), b + 1, b) = << >>
    <3>1. b + 1 \in Int /\ b < b + 1
      BY <1>2
    <3> QED  BY <3>1, <1>2, SubSeqEmpty
  <2> QED  BY <2>1, PrefixSource, ConcatEmptySeq
<1>14. Bounded(p) => b <= End(p)
  <2>1. req[p].a \in BOOLEAN
    BY CopyFields
  <2> QED  BY <2>1, <1>2
<1>15. /\ Prefix(p)' = Prefix(p) /\ Source(p)' = Source(p)
       /\ End(p)' = End(p) /\ (Bounded(p)' <=> Bounded(p))
       /\ req'[p] = req[p] /\ src'[p] = src[p]
       /\ pos'[p] = b /\ tell'[p] = 0
  BY <1>5, <1>6 DEF Prefix, Source, Bounded, End, Count, Old
<1>16. Progress(p)' <=>
         /\ src'[p] # dst'[p] /\ data'[src'[p]] = Source(p)'
         /\ pos'[p] >= req'[p].b
         /\ pos'[p] > req'[p].b => pos'[p] <= Len(Source(p)')
         /\ Bounded(p)' => pos'[p] <= End(p)'
         /\ data'[dst'[p]] = Prefix(p)' \o SubSeq(Source(p)', req'[p].b + 1, pos'[p])
         /\ tell'[p] = IF pos'[p] = req'[p].b THEN 0 ELSE Len(Prefix(p)') + (pos'[p] - req'[p].b)
  BY DEF Progress, Slice
<1>17. pos'[p] = req'[p].b /\ pos'[p] \in Nat
  BY <1>1, <1>2, <1>15
<1>18. data'[dst'[p]] = Prefix(p)' \o SubSeq(Source(p)', req'[p].b + 1, pos'[p])
  BY <1>1, <1>12, <1>13, <1>15
<1> QED  BY <1>11, <1>14, <1>15, <1>16, <1>17, <1>18

(* What a copy that is alone has done so far. *)
LEMMA CopyStep ==
  ASSUME TypeOK, BeforeOK, Inodes, NEW p \in Procs,
         RoleAt(p), OpenAt(p), KeepAt(p), CopyAt(p), Moves(p)
  PROVE  CopyAt(p)'
<1>1. CASE p \notin alone'
  BY <1>1 DEF CopyAt
<1>2. CASE p \in alone' /\ ExecCmd(p)
  <2>1. UNCHANGED <<data, inode>> /\ before'[p] = <<data, inode>>
    BY <1>2, ExecEffect DEF BeforeOK
  <2>2. pc'[p] \in {"options", "opendir", "remove"}
    BY <1>2, ExecEffect DEF TypeOK
  <2> QED  BY <2>1, <2>2 DEF CopyAt, Copied
<1>3. CASE p \in alone' /\ Rm(p)
  <2>1. req'[p].cmd = "rm"
    BY <1>3, RmEffect
  <2>2. pc'[p] \in {"ok", "error"}
    BY <1>3, RmEffect DEF TypeOK
  <2> QED  BY <2>1, <2>2 DEF CopyAt, Copied
<1>4. CASE p \in alone' /\ Options(p)
  <2>1. UNCHANGED <<data, inode, before, alone>> /\ pc[p] = "options"
    BY <1>4, QuietEffect DEF Options
  <2>2. pc'[p] \in {"source", "error"}
    BY <1>4 DEF Options, Goto, TypeOK
  <2> QED  BY <1>4, <2>1, <2>2 DEF CopyAt, Copied
<1>5. CASE p \in alone' /\ OpenSource(p)
  <2>1. UNCHANGED <<req, dst, tell, seen, listed, before, stayed>> /\ pc[p] = "source"
    BY <1>5, SourceEffect
  <2>2. CASE pc' = [pc EXCEPT ![p] = "error"]
    <3>1. pc'[p] = "error"
      BY <2>2 DEF TypeOK
    <3> QED  BY <3>1 DEF CopyAt, Copied
  <2>3. CASE /\ OpenFile(p, req[p].src, FALSE)
             /\ src' = [src EXCEPT ![p] = inode'[req[p].src]]
             /\ pos' = [pos EXCEPT ![p] = req[p].b]
             /\ pc' = [pc EXCEPT ![p] = "dest"]
    <3>1. req[p] \in CopyRequest
      BY <2>1 DEF RoleAt
    <3>2. PICK m, n : m = req[p].src /\ n = req[p].dst /\ m \in Names /\ n \in Names
      BY <3>1, CopyFields
    <3>3. /\ Len(data) \in Nat
          /\ \A x \in Names : x # m => inode'[x] = inode[x]
          /\ Exists(m) => inode' = inode
          /\ ~Exists(m) => data'[inode'[m]] = << >>
          /\ \A i \in 1 .. Len(data) : data'[i] = data[i]
          /\ \/ alone' = {q \in alone : q = p \/ pc[q] = "idle"} \/ alone' = alone
      <4>1. OpenFile(p, m, FALSE) /\ FALSE \in BOOLEAN
        BY <2>3, <3>2
      <4>2. /\ Len(data) \in Nat
            /\ \A x \in Names : x # m => inode'[x] = inode[x]
            /\ Exists(m) => inode' = inode
            /\ ~Exists(m) => data'[inode'[m]] = << >>
            /\ \A i \in 1 .. Len(data) :
                 data'[i] = IF FALSE /\ i = inode[m] THEN << >> ELSE data[i]
            /\ \/ alone' = {q \in alone : q = p \/ pc[q] = "idle"}
               \/ data' = data /\ inode' = inode /\ alone' = alone
        <5> DEFINE Effect(cut) ==
              /\ Len(data) \in Nat
              /\ \A x \in Names : x # m => inode'[x] = inode[x]
              /\ Exists(m) => inode' = inode /\ Len(data') = Len(data)
              /\ ~Exists(m) => inode'[m] = Len(data) + 1 /\ data'[inode'[m]] = << >>
              /\ \A i \in 1 .. Len(data) :
                   data'[i] = IF cut /\ i = inode[m] THEN << >> ELSE data[i]
              /\ \/ alone' = {q \in alone : q = p \/ pc[q] = "idle"}
                 \/ data' = data /\ inode' = inode /\ alone' = alone
        <5>1. PICK cut \in BOOLEAN : cut = FALSE
          OBVIOUS
        <5>2. OpenFile(p, m, cut)
          BY <4>1, <5>1
        <5>3. Effect(cut)
          BY <5>2, <3>2, OpenEffect
        <5> QED  BY <5>1, <5>3
      <4> QED  BY <4>2
    <3>4. p \in alone
      BY <1>5, <3>3
    <3>5. data = before[p][1] /\ inode = before[p][2]
      BY <2>1, <3>4 DEF CopyAt
    <3>6. data'[inode'[m]] = Old(p, m)
      <4>1. CASE Exists(m)
        <5>1. inode[m] \in 1 .. Len(data)
          BY <3>2, <3>3, <4>1 DEF TypeOK, Exists
        <5> QED  BY <3>3, <3>5, <4>1, <5>1 DEF Old, Exists
      <4>2. CASE ~Exists(m)
        BY <3>3, <3>5, <4>2 DEF Old, Exists
      <4> QED  BY <4>1, <4>2
    <3>7. pc'[p] = "dest" /\ src'[p] = inode'[m] /\ pos'[p] = req[p].b
      BY <2>3, <3>2 DEF TypeOK
    <3>8. m # n => inode'[n] = before[p][2][n]
      BY <3>2, <3>3, <3>5
    <3>9. Source(p)' = Source(p) /\ Source(p) = Old(p, m)
      BY <2>1, <3>2 DEF Source, Old
    <3> QED  BY <2>1, <3>2, <3>6, <3>7, <3>8, <3>9 DEF CopyAt, Copied
  <2> QED  BY <1>5, <2>2, <2>3, SourceEffect
<1>6. CASE p \in alone' /\ OpenDest(p)
  <2>1. /\ UNCHANGED <<req, src, pos, tell, seen, listed, before, stayed>>
        /\ pc[p] = "dest" /\ OpenFile(p, req[p].dst, ~req[p].a)
        /\ pc' = [pc EXCEPT ![p] = "copying"]
    BY <1>6, DestEffect
  <2>2. req[p] \in CopyRequest
    BY <2>1 DEF RoleAt
  <2>3. req[p].dst \in Names /\ (~req[p].a) \in BOOLEAN
    <3>1. (~req[p].a) \in BOOLEAN
      OBVIOUS
    <3> QED  BY <2>2, <3>1, CopyFields
  <2>4. \/ alone' = {q \in alone : q = p \/ pc[q] = "idle"} \/ alone' = alone
    BY <2>1, <2>3, OpenEffect
  <2>5. p \in alone
    BY <1>6, <2>4
  <2>6. req[p].src # req[p].dst => Progress(p)'
    BY <1>6, <2>2, <2>5, ProgressStarts
  <2>7. pc'[p] = "copying" /\ req'[p] = req[p]
    BY <2>1 DEF TypeOK
  <2> QED  BY <2>6, <2>7 DEF CopyAt, Copied, Progress
<1>7. CASE p \in alone' /\ CopyByte(p)
  <2>1. UNCHANGED <<pc, req>> /\ alone' = {q \in alone : q = p \/ pc[q] = "idle"}
    BY <1>7, CopyEffect
  <2>2. pc[p] = "copying" /\ p \in alone
    BY <1>7, <2>1 DEF CopyByte
  <2>3. req[p] \in CopyRequest
    BY <2>2 DEF RoleAt
  <2>4. req[p].src # req[p].dst => Progress(p)
    BY <2>2 DEF CopyAt, Progress
  <2>5. req[p].src # req[p].dst => Progress(p)'
    BY <1>7, <2>3, <2>4, ProgressByte
  <2> QED  BY <2>1, <2>2, <2>5 DEF CopyAt, Copied, Progress
<1>8. CASE p \in alone' /\ CopyEnd(p)
  <2>1. UNCHANGED <<data, inode, req, src, dst, pos, tell, before, alone, stayed>>
    BY <1>8, QuietEffect
  <2>2. /\ pc[p] = "copying" /\ pc'[p] = "ok"
        /\ AtMax(p) \/ pos[p] >= Len(data[src[p]])
    BY <1>8 DEF CopyEnd, Goto, TypeOK
  <2>3. req[p] \in CopyRequest
    BY <2>2 DEF RoleAt
  <2>4. req[p].src # req[p].dst => Progress(p)
    BY <1>8, <2>1, <2>2 DEF CopyAt, Progress
  <2>5. req[p].src # req[p].dst =>
          data[dst[p]] = Prefix(p) \o
            Slice(p, IF End(p) < Len(Source(p)) THEN End(p) ELSE Len(Source(p)))
    BY <2>2, <2>3, <2>4, ProgressEnds
  <2>6. CopyAt(p)' <=>
          (Copied(p)' =>
             data[dst[p]] = Prefix(p) \o
               Slice(p, IF End(p) < Len(Source(p)) THEN End(p) ELSE Len(Source(p))))
    <3>1. Prefix(p)' = Prefix(p) /\ Source(p)' = Source(p)
      BY <2>1 DEF Prefix, Source, Old
    <3>2. End(p)' = End(p)
      BY <2>1, <3>1 DEF End
    <3>3. \A to : Slice(p, to)' = Slice(p, to)
      BY <2>1, <3>1 DEF Slice
    <3> QED  BY <1>8, <2>1, <2>2, <3>1, <3>2, <3>3 DEF CopyAt
  <2> QED  BY <2>1, <2>5, <2>6 DEF Copied
<1>9. CASE \/ OpenDir(p) \/ ReadDir(p) \/ PrintFileInfo(p) \/ EndDir(p)
  <2>1. req' = req
    BY <1>9, QuietEffect
  <2>2. pc[p] \in {"opendir", "readdir", "lstat"}
    BY <1>9 DEF OpenDir, ReadDir, PrintFileInfo, PrintInfo, EndDir
  <2>3. req[p].cmd = "lsl"
    BY <2>2 DEF RoleAt, ListRequest
  <2>4. pc'[p] \in {"readdir", "lstat", "ok", "error"}
    BY <1>9 DEF OpenDir, ReadDir, PrintFileInfo, PrintInfo, EndDir, Goto, TypeOK
  <2> QED  BY <2>1, <2>3, <2>4 DEF CopyAt, Copied
<1>10. CASE Fail(p)
  <2>1. pc'[p] = "error"
    BY <1>10 DEF Fail, Goto, TypeOK
  <2> QED  BY <2>1 DEF CopyAt, Copied
<1> QED  BY <1>1, <1>2, <1>3, <1>4, <1>5, <1>6, <1>7, <1>8, <1>9, <1>10 DEF Moves

(* A step of a process keeps what all processes know. *)
LEMMA InvStep ==
  ASSUME CommandsInv, [Next]_vars
  PROVE  CommandsInv'
<1>1. /\ TypeOK /\ BeforeOK /\ Inodes
      /\ \A p \in Procs : RoleAt(p) /\ OpenAt(p) /\ ListAt(p) /\ KeepAt(p) /\ CopyAt(p)
      /\ \A p \in Procs : ProcessInv(p)
  BY DEF CommandsInv, ProcessInv
<1>2. TypeOK'
  BY <1>1, TypesStep
<1>3. BeforeOK' /\ Inodes'
  BY <1>1, BeforeStep
<1>4. CASE UNCHANGED vars
  <2>1. ASSUME NEW p \in Procs  PROVE ProcessInv(p)'
    <3>1. ProcessInv(p)
      BY <1>1
    <3>2. UNCHANGED <<data, inode, req, pc, src, dst, pos, tell, seen, listed, before, alone,
                      stayed>>
      BY <1>4 DEF vars, files, copy, list, history
    <3>3. RoleAt(p)' /\ OpenAt(p)'
      BY <3>1, <3>2 DEF ProcessInv, RoleAt, OpenAt
    <3>4. ListAt(p)' /\ KeepAt(p)'
      <4>1. ListAt(p) /\ KeepAt(p)
        BY <3>1 DEF ProcessInv
      <4>2. ListAt(p)'
        BY <3>2, <4>1 DEF ListAt
      <4>3. KeepAt(p)'
        BY <3>2, <4>1 DEF KeepAt
      <4> QED  BY <4>2, <4>3
    <3>5. CopyAt(p)
      BY <3>1 DEF ProcessInv
    <3>6. CopyAt(p)'
      <4>1. Prefix(p)' = Prefix(p) /\ Source(p)' = Source(p)
        BY <3>2 DEF Prefix, Source, Old
      <4>2. End(p)' = End(p) /\ (Bounded(p)' <=> Bounded(p))
        BY <3>2, <4>1 DEF End, Bounded
      <4>3. \A to : Slice(p, to)' = Slice(p, to)
        BY <3>2, <4>1 DEF Slice
      <4>4. Copied(p)' <=> Copied(p)
        BY <3>2 DEF Copied
      <4> QED  BY <3>2, <3>5, <4>1, <4>2, <4>3, <4>4 DEF CopyAt
    <3> QED
      BY <3>3, <3>4, <3>6 DEF ProcessInv
  <2> QED  BY <1>2, <1>3, <2>1 DEF CommandsInv
<1>5. ASSUME NEW q \in Procs, Moves(q)  PROVE CommandsInv'
  <2>1. ASSUME NEW p \in Procs  PROVE ProcessInv(p)'
    <3>1. CASE p = q
      BY <1>1, <1>5, <3>1, RoleStep, OpenStep, ListStep, KeepStep, CopyStep DEF ProcessInv
    <3>2. CASE p # q
      BY <1>1, <1>5, <3>2, OthersKeep
    <3> QED  BY <3>1, <3>2
  <2> QED  BY <1>2, <1>3, <2>1 DEF CommandsInv
<1> QED  BY <1>4, <1>5, Steps

-----------------------------------------------------------------------------
(* The start *)

(* The files of the directory, in some order. *)
LEMMA NamesInOrder ==
  /\ Cardinality(Names) \in Nat
  /\ SetToSeq(Names) \in [1 .. Cardinality(Names) -> Names]
  /\ \A n \in Names : \E i \in 1 .. Cardinality(Names) : SetToSeq(Names)[i] = n
<1>1. IsFiniteSet(Names)
  BY FilesAssumption
<1>2. PICK c \in Nat : c = Cardinality(Names) /\ ExistsBijection(1 .. c, Names)
  BY <1>1, FS_CardinalityType
<1>3. PICK f \in Bijection(1 .. c, Names) : TRUE
  BY <1>2 DEF ExistsBijection
<1>4. f \in [1 .. c -> Names] /\ \A i, j \in 1 .. c : f[i] = f[j] => i = j
  BY <1>3 DEF Bijection, Injection, IsInjective
<1>5. IsInjective(f)
  BY <1>4 DEF IsInjective
<1>6. PICK o : o = SetToSeq(Names)
  OBVIOUS
<1>7. o = CHOOSE g \in [1 .. c -> Names] : IsInjective(g)
  BY <1>2, <1>6 DEF SetToSeq
<1>8. o \in [1 .. c -> Names] /\ IsInjective(o)
  BY <1>4, <1>5, <1>7
<1>9. o \in Injection(1 .. c, Names)
  BY <1>8 DEF Injection, IsInjective
<1>10. IsFiniteSet(1 .. c) /\ Cardinality(1 .. c) = c
  BY FS_Interval
<1>11. o \in Surjection(1 .. c, Names)
  BY <1>1, <1>2, <1>9, <1>10, FS_Injection
<1>12. \A n \in Names : \E i \in 1 .. c : o[i] = n
  BY <1>11 DEF Surjection
<1> QED  BY <1>2, <1>6, <1>8, <1>12

(* The invariant holds at the start. *)
LEMMA InvInit ==
  ASSUME Init
  PROVE  CommandsInv
<1> DEFINE o == SetToSeq(Names)
<1>1. PICK S \in SUBSET Names :
        inode = [n \in Names |-> IF n \in S THEN CHOOSE i \in DOMAIN o : o[i] = n ELSE 0]
  <2>1. inode \in {[n \in Names |-> IF n \in S THEN CHOOSE i \in DOMAIN o : o[i] = n ELSE 0] :
                     S \in SUBSET Names}
    BY DEF Init
  <2> QED  BY <2>1
<1>2. PICK c \in Nat : /\ c = Cardinality(Names) /\ o \in [1 .. c -> Names]
                       /\ \A n \in Names : \E i \in 1 .. c : o[i] = n
  BY NamesInOrder
<1> HIDE DEF o
<1>3. PICK d : d = data /\ d \in [1 .. c -> Contents]
  BY <1>2 DEF Init
<1>4. \A x \in Contents : x \in Seq(Bytes)
  <2>1. ASSUME NEW x \in Contents  PROVE x \in Seq(Bytes)
    <3>1. x \in Seq(Nat)
      BY FilesAssumption
    <3>2. PICK l \in Nat : l = Len(x) /\ DOMAIN x = 1 .. l /\ x \in [1 .. l -> Nat]
      BY <3>1
    <3>3. \A i \in 1 .. l : x[i] \in Range(x)
      BY <3>2 DEF Range
    <3>4. \A i \in 1 .. l : x[i] \in Bytes
      BY <3>3 DEF Bytes
    <3>5. x \in [1 .. l -> Bytes]
      BY <3>2, <3>4
    <3> QED  BY <3>5
  <2> QED  BY <2>1
<1>5. d \in [1 .. c -> Seq(Bytes)]
  BY <1>3, <1>4
<1>6. d \in Seq(Seq(Bytes)) /\ Len(d) = c
  BY <1>2, <1>5
<1>7. \A n \in Names : \/ inode[n] = 0
                       \/ inode[n] \in 1 .. c /\ o[inode[n]] = n
  <2>1. ASSUME NEW n \in Names, n \in S
        PROVE  inode[n] \in 1 .. c /\ o[inode[n]] = n
    <3>1. PICK j \in DOMAIN o : o[j] = n
      BY <1>2
    <3>2. inode[n] = CHOOSE i \in DOMAIN o : o[i] = n
      BY <1>1, <2>1
    <3>3. inode[n] \in DOMAIN o /\ o[inode[n]] = n
      BY <3>1, <3>2
    <3> QED  BY <3>3, <1>2
  <2>2. ASSUME NEW n \in Names, n \notin S
        PROVE  inode[n] = 0
    BY <1>1, <2>2
  <2> QED  BY <2>1, <2>2
<1>8. inode \in [Names -> 0 .. c]
  BY <1>2, <1>1, <1>7
<1>9. Inodes
  BY <1>7 DEF Inodes
<1>10. /\ req = [p \in Procs |-> NoRequest]
       /\ pc = [p \in Procs |-> "idle"]
       /\ src = [p \in Procs |-> 0] /\ dst = [p \in Procs |-> 0]
       /\ pos = [p \in Procs |-> 0] /\ tell = [p \in Procs |-> 0]
       /\ seen = [p \in Procs |-> {}] /\ listed = [p \in Procs |-> {}]
       /\ before = [p \in Procs |-> <<data, inode>>]
       /\ alone = Procs
       /\ stayed = [p \in Procs |-> {}]
  BY DEF Init
<1>11. TypeOK
  <2>1. data \in Seq(Seq({0} \cup UNION {Range(x) : x \in Contents}))
    BY <1>3, <1>6 DEF Bytes
  <2>2. inode \in [Names -> 0 .. Len(data)] /\ 0 \in 0 .. Len(data)
    BY <1>2, <1>3, <1>6, <1>8
  <2> QED  BY <2>1, <2>2, <1>10 DEF TypeOK
<1>12. BeforeOK
  <2>1. inode \in [Names -> Nat]
    BY <1>2, <1>8
  <2>2. <<data, inode>> \in Seq(Seq(Bytes)) \X [Names -> Nat]
    BY <2>1, <1>3, <1>6
  <2>3. \A p \in Procs : before[p] = <<data, inode>>
    BY <1>10
  <2>4. \A p \in Procs : before[p][1] = data /\ before[p][2] = inode
    BY <2>3
  <2>5. \A p \in Procs : before[p][2] \in [Names -> 0 .. Len(before[p][1])]
    BY <2>4, <1>3, <1>6, <1>8
  <2>6. before \in [Procs -> Seq(Seq(Bytes)) \X [Names -> Nat]]
    BY <2>2, <1>10
  <2> QED  BY <2>5, <2>6 DEF BeforeOK
<1>13. ASSUME NEW p \in Procs  PROVE ProcessInv(p)
  BY <1>10 DEF ProcessInv, RoleAt, OpenAt, ListAt, KeepAt, CopyAt, Copied
<1> QED  BY <1>9, <1>11, <1>12, <1>13 DEF CommandsInv

-----------------------------------------------------------------------------
(* The theorems *)

(* What is known of the files and of every process holds in every state. *)
THEOREM Invariance == Spec => []CommandsInv
<1>1. Init => CommandsInv
  BY InvInit
<1>2. CommandsInv /\ [Next]_vars => CommandsInv'
  BY InvStep
<1> QED  BY <1>1, <1>2, PTL DEF Spec

(* The variables have their types: no descriptor is open on data there is not,
   whatever is removed and created meanwhile. *)
THEOREM TypeCorrect == Spec => []TypeOK
<1>1. CommandsInv => TypeOK
  BY DEF CommandsInv
<1> QED  BY <1>1, Invariance, PTL

(* A listing that reports no error holds every file that was there from its
   start to its end (commands.c:317-355). *)
THEOREM ListingCompleteTheorem == Spec => []ListingComplete
<1>1. CommandsInv => ListingComplete
  BY DEF CommandsInv, ProcessInv, ListAt, ListingComplete
<1> QED  BY <1>1, Invariance, PTL

(* A copy that is refused for its options or for its source changes the
   contents of no file (commands.c:506-561). *)
THEOREM RefusedKeepsTheorem == Spec => []RefusedKeeps
<1>1. CommandsInv => RefusedKeeps
  <2>1. ASSUME CommandsInv, NEW p \in Procs,
               pc[p] = "error", p \in alone, req[p].cmd = "ccp", dst[p] = 0
        PROVE  \A i \in DOMAIN before[p][1] : data[i] = before[p][1][i]
    <3>1. \A i \in 1 .. Len(before[p][1]) : data[i] = before[p][1][i]
      BY <2>1 DEF CommandsInv, ProcessInv, KeepAt
    <3>2. DOMAIN before[p][1] = 1 .. Len(before[p][1])
      BY <2>1 DEF CommandsInv, BeforeOK
    <3> QED  BY <3>1, <3>2
  <2> QED  BY <2>1 DEF RefusedKeeps
<1> QED  BY <1>1, Invariance, PTL

(* A copy that no other command disturbs leaves in the destination what it
   had, when it appends, and then consecutive bytes of the source from the
   start offset on; all of them without -e, and those before the end offset
   when it starts at 0 and does not append (commands.c:485-489, 548-599). *)
THEOREM CopiedSliceTheorem == Spec => []CopiedSlice
<1>1. CommandsInv => CopiedSlice
  <2>1. ASSUME CommandsInv, NEW p \in Procs, Copied(p)
        PROVE  \E to \in 0 .. Len(Source(p)) :
                 /\ data[dst[p]] = Prefix(p) \o Slice(p, to)
                 /\ req[p].e = -1 => to = Len(Source(p))
                 /\ req[p].e # -1 /\ ~req[p].a /\ req[p].b = 0 =>
                      to = Least(req[p].e, Len(Source(p)))
    <3>1. p \in alone /\ req[p] \in CopyRequest
      <4>1. req[p] \in {NoRequest} \cup Requests
        BY <2>1 DEF CommandsInv, TypeOK
      <4>2. req[p].cmd = "ccp" /\ p \in alone
        BY <2>1 DEF Copied
      <4>3. req[p] \in Requests
        BY <4>1, <4>2 DEF NoRequest
      <4> QED  BY <4>2, <4>3, RequestIs
    <3>2. data[dst[p]] = Prefix(p) \o
            Slice(p, IF End(p) < Len(Source(p)) THEN End(p) ELSE Len(Source(p)))
      BY <2>1, <3>1 DEF CommandsInv, ProcessInv, CopyAt
    <3>3. PICK a \in BOOLEAN, bounded \in BOOLEAN, b \in Nat, e \in Int, k \in Nat, s \in Nat,
               n \in Int :
            /\ a = req[p].a /\ (bounded <=> Bounded(p)) /\ b = req[p].b /\ e = req[p].e
            /\ k = Len(Prefix(p)) /\ s = Len(Source(p)) /\ n = End(p)
            /\ e >= -1 /\ Stops(a, bounded, b, e, k, s, n)
      BY <2>1, <3>1, CopyStops DEF CommandsInv
    <3>4. PICK to \in Int : to = IF n < s THEN n ELSE s
      OBVIOUS
    <3>5. /\ to \in 0 .. s
          /\ e = -1 => to = s
          /\ e # -1 /\ ~a /\ b = 0 => to = Least(e, s)
      <4>1. CASE ~bounded
        <5>1. n = b + s /\ to = s
          BY <3>3, <3>4, <4>1 DEF Stops
        <5>2. e # -1 => a
          BY <3>3, <4>1 DEF Stops
        <5> QED  BY <5>1, <5>2
      <4>2. CASE bounded
        <5>1. e # -1 /\ ~(a /\ e > 0 /\ e <= k)
          BY <3>3, <4>2 DEF Stops
        <5>2. CASE a /\ e > 0
          <6>1. n = b + (e - k) /\ e > k
            BY <3>3, <4>2, <5>1, <5>2 DEF Stops
          <6>2. n >= 0
            BY <3>3, <6>1
          <6> QED  BY <3>4, <5>2, <6>2, <5>1
        <5>3. CASE ~(a /\ e > 0)
          <6>1. n = b + e /\ n >= 0
            BY <3>3, <4>2, <5>1, <5>3 DEF Stops
          <6> QED  BY <3>4, <5>1, <6>1 DEF Least
        <5> QED  BY <5>2, <5>3
      <4> QED  BY <4>1, <4>2
    <3>6. data[dst[p]] = Prefix(p) \o Slice(p, to)
      BY <3>2, <3>3, <3>4
    <3> QED  BY <3>3, <3>5, <3>6
  <2> QED  BY <2>1 DEF CopiedSlice, Prefix, Source, Slice
<1> QED  BY <1>1, Invariance, PTL

=============================================================================
