----------------------------- MODULE MCCommands -----------------------------
(* The instance of Commands that TLC checks: two children, two files. *)
EXTENDS Commands

CONSTANTS a, b

Copies == [cmd : {"ccp"}, src : {a, b}, dst : {a, b}, v : BOOLEAN, a : BOOLEAN,
           b : {0, 1}, e : {-1, 0, 1, 3}, efirst : BOOLEAN]

(* Plain copies of a slice, also an empty one; appends whose end offset is
   within or beyond the destination; -e before and after a greater -b; -v. *)
MCRequests ==
  {r \in Copies :
     \/ ~r.v /\ ~r.a /\ ~r.efirst /\ r.src # r.dst /\ r.e # 3
     \/ ~r.v /\ ~r.a /\ r.efirst /\ r.src # r.dst /\ r.b = 1 /\ r.e = 0
     \/ ~r.v /\ r.a /\ ~r.efirst /\ r.b = 0 /\ r.e # 0
     \/ r.v /\ ~r.a /\ ~r.efirst /\ r.b = 0 /\ r.e = -1 /\ r.src # r.dst}
    \cup [cmd : {"lsl"}] \cup [cmd : {"rm"}, name : {a, b}]

MCContents == {<<1, 2>>}

MCFaults == {"disk_full", "no_access", "no_user", "errno"}
=============================================================================
