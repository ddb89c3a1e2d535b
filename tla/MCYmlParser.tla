---------------------------- MODULE MCYmlParser -----------------------------
(* The instance of YmlParser that TLC checks: two of the three keys share a
   bucket, one integer is too large for an int and one string too long. *)
EXTENDS YmlParser, TLC

CONSTANTS slots, daemon, response_limit, abc, abcdef

MCKeys == {slots, daemon, response_limit}

MCStrings == {abc, abcdef}

MCWide == {abcdef}

MCHash == (slots :> 0) @@ (response_limit :> 0) @@ (daemon :> 1)

MCDefaulted == {daemon, response_limit}

MCPerThread == {response_limit}

MCFaults == {"no_memory", "no_file", "dirty_memory"}
=============================================================================
