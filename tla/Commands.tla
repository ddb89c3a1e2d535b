------------------------------ MODULE Commands ------------------------------
(***************************************************************************)
(* The commands that work on files, as children of the server execute them *)
(* for several clients at the same time (commands.c).                      *)
(*                                                                         *)
(* ccp copies a file into another, byte by byte; lsl lists a directory;    *)
(* rm stands for the programs that take files away meanwhile.  A file is a *)
(* name for some data: a process that has opened it keeps the data when    *)
(* the name is removed.                                                    *)
(***************************************************************************)
EXTENDS Integers, Sequences, FiniteSets, SequencesExt

CONSTANTS
  Procs,      \* the children that execute a command
  Names,      \* the files of the directory
  Contents,   \* what a file may hold at first
  MaxLength,  \* how long a file gets when it is copied into itself (a bound)
  Requests,   \* the commands that clients send
  Faults      \* what may fail

(* The options of ccp: a -b or a -e that is negative is refused as it is read,
   and e is -1 when there is no -e; efirst is a -e that comes before -b. *)
CopyRequest ==
  [cmd : {"ccp"}, src : Names, dst : Names, v : BOOLEAN, a : BOOLEAN,
   b : Nat, e : Nat \cup {-1}, efirst : BOOLEAN]

ListRequest == [cmd : {"lsl"}]

RemoveRequest == [cmd : {"rm"}, name : Names]

ASSUME LengthAssumption == MaxLength \in Nat

ASSUME FilesAssumption == IsFiniteSet(Names) /\ Contents \subseteq Seq(Nat)

ASSUME RequestsAssumption == Requests \subseteq CopyRequest \cup ListRequest \cup RemoveRequest

ASSUME FaultsAssumption == Faults \subseteq {"disk_full", "no_access", "no_user", "errno"}

VARIABLES
  data,     \* the contents of all the files there have been
  inode,    \* the index in data that each name stands for, 0 when it is absent
  req,      \* the command of each process
  pc,       \* where each process is
  src, dst, \* what the descriptors of ccp are open on
  pos,      \* the position in the source
  tell,     \* the position in the destination
  seen,     \* the names readdir gave
  listed,   \* the names lsl has printed
  before,   \* the files when each process started
  alone,    \* the processes since whose start no other changed a file (history)
  stayed    \* the names that are there since each process started (history)

files == <<data, inode>>
copy == <<src, dst, pos, tell>>
list == <<seen, listed>>
history == <<before, alone, stayed>>
vars == <<files, req, pc, copy, list, history>>

Running == {"options", "source", "dest", "copying", "opendir", "readdir", "lstat", "remove"}

NoRequest == [cmd |-> "none"]

Init ==
  /\ data \in [1 .. Cardinality(Names) -> Contents]
  /\ LET order == SetToSeq(Names)
     IN inode \in {[n \in Names |-> IF n \in S THEN CHOOSE i \in DOMAIN order : order[i] = n ELSE 0] :
                      S \in SUBSET Names}
  /\ req = [p \in Procs |-> NoRequest]
  /\ pc = [p \in Procs |-> "idle"]
  /\ src = [p \in Procs |-> 0] /\ dst = [p \in Procs |-> 0]
  /\ pos = [p \in Procs |-> 0] /\ tell = [p \in Procs |-> 0]
  /\ seen = [p \in Procs |-> {}] /\ listed = [p \in Procs |-> {}]
  /\ before = [p \in Procs |-> <<data, inode>>]
  /\ alone = Procs
  /\ stayed = [p \in Procs |-> {}]

Goto(p, at) == pc' = [pc EXCEPT ![p] = at]

Exists(n) == inode[n] # 0

(* p changes a file. *)
Disturb(p) == alone' = {q \in alone : q = p \/ pc[q] = "idle"}

-----------------------------------------------------------------------------
(* exec_cmd starts the function of the command. *)
ExecCmd(p) ==
  /\ pc[p] = "idle"
  /\ \E r \in Requests :
       /\ req' = [req EXCEPT ![p] = r]
       /\ Goto(p, CASE r.cmd = "ccp" -> "options" [] r.cmd = "lsl" -> "opendir"
                    [] r.cmd = "rm" -> "remove")
  /\ before' = [before EXCEPT ![p] = <<data, inode>>]
  /\ stayed' = [stayed EXCEPT ![p] = {n \in Names : Exists(n)}]
  /\ UNCHANGED <<files, copy, list, alone>>

(* A program of the system. *)
Rm(p) ==
  /\ pc[p] = "remove"
  /\ IF Exists(req[p].name)
       THEN /\ inode' = [inode EXCEPT ![req[p].name] = 0]
            /\ stayed' = [q \in Procs |-> stayed[q] \ {req[p].name}]
            /\ Disturb(p)
            /\ Goto(p, "ok")
       ELSE Goto(p, "error") /\ UNCHANGED <<inode, stayed, alone>>
  /\ UNCHANGED <<data, req, copy, list, before>>

-----------------------------------------------------------------------------
(* ccp *)

(* -e is compared with the -b that was read before it. *)
Refused(r) == r.e # -1 /\ ~r.efirst /\ r.e < r.b

Options(p) ==
  /\ pc[p] = "options"
  /\ Goto(p, IF Refused(req[p]) THEN "error" ELSE "source")
  /\ UNCHANGED <<files, req, copy, list, history>>

(* open with O_CREAT, then with O_TRUNC if cut. *)
OpenFile(p, n, cut) ==
  IF Exists(n)
    THEN /\ data' = IF cut THEN [data EXCEPT ![inode[n]] = << >>] ELSE data
         /\ UNCHANGED inode
         /\ IF cut THEN Disturb(p) ELSE UNCHANGED alone
    ELSE /\ data' = Append(data, << >>)
         /\ inode' = [inode EXCEPT ![n] = Len(data')]
         /\ Disturb(p)

\* Mutant of OpenSource: the destination is emptied first.
OpenSourceCuts(p) ==
  /\ pc[p] = "source"
  /\ OpenFile(p, req[p].dst, TRUE)
  /\ src' = [src EXCEPT ![p] = inode'[req[p].dst]]
  /\ Goto(p, IF req[p].v THEN "error" ELSE "dest")
  /\ UNCHANGED <<req, dst, pos, tell, list, before, stayed>>

\* Mutant of OpenSource: the source is used although it could not be opened.
OpenSourceUnchecked(p) ==
  /\ pc[p] = "source"
  /\ IF req[p].v /\ Exists(req[p].src)
       THEN src' = [src EXCEPT ![p] = -1] /\ UNCHANGED <<files, alone>>
       ELSE OpenFile(p, req[p].src, FALSE) /\ src' = [src EXCEPT ![p] = inode'[req[p].src]]
  /\ pos' = [pos EXCEPT ![p] = req[p].b]
  /\ Goto(p, "dest")
  /\ UNCHANGED <<req, dst, tell, list, before, stayed>>

(* -v refuses a source that exists; a source that does not is created. *)
OpenSource(p) ==
  /\ pc[p] = "source"
  /\ IF req[p].v /\ Exists(req[p].src)
       THEN Goto(p, "error") /\ UNCHANGED <<files, src, pos, alone>>
       ELSE /\ OpenFile(p, req[p].src, FALSE)
            /\ src' = [src EXCEPT ![p] = inode'[req[p].src]]
            /\ pos' = [pos EXCEPT ![p] = req[p].b]
            /\ Goto(p, "dest")
  /\ UNCHANGED <<req, dst, tell, list, before, stayed>>

OpenDest(p) ==
  /\ pc[p] = "dest"
  /\ OpenFile(p, req[p].dst, ~req[p].a)
  /\ dst' = [dst EXCEPT ![p] = inode'[req[p].dst]]
  /\ Goto(p, "copying")
  /\ UNCHANGED <<req, src, pos, tell, list, before, stayed>>

\* Mutant of AtMax: the loop stops one byte after the end offset.
AtMaxPast(p) == req[p].e # -1 /\ tell[p] > req[p].e

(* The loop of ccp stops where the position in the destination is the end
   offset: it may pass over it when the first append moves the position. *)
AtMax(p) == req[p].e # -1 /\ tell[p] = req[p].e

(* What write does to the contents c at position t. *)
Written(c, t, byte) == [i \in 1 .. (IF t + 1 > Len(c) THEN t + 1 ELSE Len(c)) |->
                          IF i = t + 1 THEN byte ELSE IF i <= Len(c) THEN c[i] ELSE 0]

(* p copies a file into itself, or into the one that another copy reads while
   that one writes what p reads, and one of them appends: the file grows as
   fast as it is read. *)
Grows(p) ==
  \E q \in Procs : /\ pc[p] = "copying" /\ pc[q] = "copying"
                   /\ dst[p] = src[q] /\ dst[q] = src[p]
                   /\ req[p].a \/ req[q].a

(* A byte is read and written in one step: of a copy that others disturb, only
   its end is asked. *)
CopyByte(p) ==
  LET s == data[src[p]]
      d == data[dst[p]]
      t == IF req[p].a THEN Len(d) ELSE tell[p]
  IN /\ pc[p] = "copying" /\ ~AtMax(p) /\ pos[p] < Len(s)
     /\ Grows(p) => t < MaxLength
     /\ data' = [data EXCEPT ![dst[p]] = Written(d, t, s[pos[p] + 1])]
     /\ pos' = [pos EXCEPT ![p] = @ + 1]
     /\ tell' = [tell EXCEPT ![p] = t + 1]
     /\ Disturb(p)
     /\ UNCHANGED <<inode, req, pc, src, dst, list, before, stayed>>

\* Mutant of CopyEnd: the end of the source is not looked at.
CopyEndOnlyAtMax(p) ==
  /\ pc[p] = "copying" /\ AtMax(p)
  /\ Goto(p, "ok")
  /\ UNCHANGED <<files, req, copy, list, history>>

CopyEnd(p) ==
  /\ pc[p] = "copying"
  /\ AtMax(p) \/ pos[p] >= Len(data[src[p]])
  /\ Goto(p, "ok")
  /\ UNCHANGED <<files, req, copy, list, history>>

-----------------------------------------------------------------------------
(* lsl *)

OpenDir(p) ==
  /\ pc[p] = "opendir"
  /\ Goto(p, "readdir")
  /\ UNCHANGED <<files, req, copy, list, history>>

(* readdir gives each entry once; one that comes or goes meanwhile, perhaps. *)
ReadDir(p) ==
  /\ pc[p] = "readdir"
  /\ \E n \in Names \ seen[p] :
       /\ Exists(n) \/ before[p][2][n] # 0
       /\ seen' = [seen EXCEPT ![p] = @ \cup {n}]
       /\ Goto(p, "lstat")
  /\ UNCHANGED <<files, req, copy, listed, history>>

PrintInfo(p, missing) ==
  \E n \in seen[p] \ listed[p] :
    /\ pc[p] = "lstat"
    /\ IF Exists(n) THEN listed' = [listed EXCEPT ![p] = @ \cup {n}] /\ Goto(p, "readdir")
                    ELSE Goto(p, missing) /\ UNCHANGED listed
    /\ UNCHANGED <<files, req, copy, seen, history>>

\* Mutant of PrintFileInfo: a file that has gone ends the listing, without error.
PrintFileInfoGone(p) == PrintInfo(p, "ok")

(* A file that has gone ends the listing. *)
PrintFileInfo(p) == PrintInfo(p, "error")

(* errno is read after the loop: the last readdir did not set it, but what
   printed the entries may have. *)
EndDir(p) ==
  /\ pc[p] = "readdir" /\ stayed[p] \subseteq seen[p]
  /\ \/ Goto(p, "ok")
     \/ "errno" \in Faults /\ listed[p] # {} /\ Goto(p, "error")
  /\ UNCHANGED <<files, req, copy, list, history>>

-----------------------------------------------------------------------------
(* What fails outside the program: open and opendir (also when the test of the
   length of the path reads a byte nobody wrote), write, and the name of a user
   that has none. *)
Fail(p) ==
  /\ \/ "no_access" \in Faults /\ pc[p] \in {"source", "dest", "opendir"}
     \/ "disk_full" \in Faults /\ pc[p] = "copying"
     \/ "no_user" \in Faults /\ pc[p] = "lstat"
  /\ Goto(p, "error")
  /\ UNCHANGED <<files, req, copy, list, history>>

Step(p) ==
  \/ Rm(p) \/ Options(p) \/ OpenSource(p) \/ OpenDest(p) \/ CopyByte(p) \/ CopyEnd(p)
  \/ OpenDir(p) \/ ReadDir(p) \/ PrintFileInfo(p) \/ EndDir(p)

Next == \E p \in Procs : ExecCmd(p) \/ Step(p) \/ Fail(p)

Spec == Init /\ [][Next]_vars

(* A child of the server is scheduled until it ends. *)
FairSpec == Spec /\ \A p \in Procs : WF_vars(Step(p))

-----------------------------------------------------------------------------
TypeOK ==
  /\ data \in Seq(Seq({0} \cup UNION {Range(c) : c \in Contents}))
  /\ inode \in [Names -> 0 .. Len(data)]
  /\ req \in [Procs -> {NoRequest} \cup Requests]
  /\ pc \in [Procs -> {"idle", "ok", "error"} \cup Running]
  /\ src \in [Procs -> 0 .. Len(data)] /\ dst \in [Procs -> 0 .. Len(data)]
  /\ pos \in [Procs -> Nat] /\ tell \in [Procs -> Nat]
  /\ seen \in [Procs -> SUBSET Names] /\ listed \in [Procs -> SUBSET Names]
  /\ alone \subseteq Procs
  /\ stayed \in [Procs -> SUBSET Names]

(* The contents that a name had when p started. *)
Old(p, n) == IF before[p][2][n] = 0 THEN << >> ELSE before[p][1][before[p][2][n]]

Copied(p) == pc[p] = "ok" /\ p \in alone /\ req[p].cmd = "ccp" /\ req[p].src # req[p].dst

Least(m, n) == IF m < n THEN m ELSE n

(* A copy that no other command disturbs leaves in the destination what it
   had, when it appends, and then consecutive bytes of the source from the
   start offset on: to the end of the source when there is no -e, and to the
   end offset when a copy that does not append starts at 0
   (commands.c:485-489, 548-599).  What -e means otherwise is left open: see
   RangeCopied. *)
CopiedSlice ==
  \A p \in Procs :
    Copied(p) =>
      LET r == req[p]
          kept == IF r.a THEN Old(p, r.dst) ELSE << >>
          all == Old(p, r.src)
      IN \E to \in 0 .. Len(all) :
           /\ data[dst[p]] = kept \o SubSeq(all, r.b + 1, to)
           /\ r.e = -1 => to = Len(all)
           /\ r.e # -1 /\ ~r.a /\ r.b = 0 => to = Least(r.e, Len(all))

(* -b and -e define an offset of start and of end, says the help
   (commands.c:92-95), and an end before the start is refused (531-533): an
   undisturbed copy that does not append writes what is between them. *)
RangeCopied ==
  \A p \in Procs :
    Copied(p) /\ ~req[p].a /\ req[p].e # -1 =>
      LET all == Old(p, req[p].src)
      IN data[dst[p]] = SubSeq(all, req[p].b + 1, Least(req[p].e, Len(all)))

(* A copy that is refused for its options or for its source changes the
   contents of no file (commands.c:506-561). *)
RefusedKeeps ==
  \A p \in Procs :
    pc[p] = "error" /\ p \in alone /\ req[p].cmd = "ccp" /\ dst[p] = 0 =>
      \A i \in DOMAIN before[p][1] : data[i] = before[p][1][i]

(* A command ends, whatever the others do to its files, unless some copy goes
   on appending to what it reads (commands.c:584-599). *)
CommandEnds == \A p \in Procs : pc[p] \in Running ~> (pc[p] \in {"ok", "error"} \/ \E q \in Procs : Grows(q))

(* A listing that reports no error holds every file that was there from its
   start to its end (commands.c:317-355). *)
ListingComplete ==
  \A p \in Procs : pc[p] = "ok" /\ req[p].cmd = "lsl" => stayed[p] \subseteq listed[p]

=============================================================================
