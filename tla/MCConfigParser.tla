--------------------------- MODULE MCConfigParser ---------------------------
(***************************************************************************)
(* Instances of ConfigParser for TLC: all ways in which up to three        *)
(* include directives are written into the files, where at most one file   *)
(* is bad, does not assign the setting or empties it.                      *)
(***************************************************************************)
EXTENDS ConfigParser, SequencesExt

\* The files whose inclusion dirs, a sequence of pairs, writes into each file.
Lists(dirs) ==
  [f \in Files |->
     FoldLeft(LAMBDA acc, d : IF d[1] = f THEN Append(acc, d[2]) ELSE acc, <<>>, dirs)]

AllLists == {Lists(dirs) : dirs \in UNION {[1..n -> Files \X Files] : n \in 0..3}}

Disk(lists, odd, trouble, set) ==
  [f \in Files |-> [includes |-> lists[f],
                    trouble  |-> IF f = odd THEN trouble ELSE "none",
                    setting  |-> IF f = odd THEN set ELSE "set"]]

MCDisks ==
  {Disk(lists, f, t[1], t[2]) :
     lists \in AllLists, f \in Files,
     t \in ({"none"} \X {"kept", "cleared"}) \cup (Troubles \X {"set"})}
=============================================================================
