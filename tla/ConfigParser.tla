---------------------------- MODULE ConfigParser ----------------------------
(***************************************************************************)
(* ConfigParser::parse_file (supervisor-lib/src/config/config_parser.cpp): *)
(* the recursion over include files.  A call of parse_single_file_ that    *)
(* has not returned is a frame of the stack; its settings are read before  *)
(* its include files and its programs after them.                          *)
(*                                                                         *)
(* A file is reduced to what decides the outcome: the files its patterns   *)
(* expand to, in the order of expand_glob_; what is wrong with it, if      *)
(* anything; and what it does to a setting of [supervisord] or             *)
(* [unix_http_server] that validate_config_ looks at.  Each file has one   *)
(* program, which is called as the file.                                   *)
(***************************************************************************)
EXTENDS Naturals, Sequences, FiniteSets

CONSTANTS
  Files,     \* canonical paths of configuration files
  Main,      \* the file supervisord is started with
  MaxDepth,  \* MAX_DEPTH
  Disks      \* the contents the files may have

(***************************************************************************)
(* "insecure": missing, or refused by validate_config_file_security;       *)
(* "syntax": read_ini or a setting throws; "program": a program section    *)
(* does, or a path or command in it is refused.                            *)
(***************************************************************************)
Troubles == {"none", "insecure", "syntax", "program"}

Contents == [includes : Seq(Files),
             trouble  : Troubles,
             setting  : {"kept", "set", "cleared"}]

ASSUME FilesAssumption == Main \in Files /\ IsFiniteSet(Files)
ASSUME DepthAssumption == MaxDepth \in Nat
ASSUME DisksAssumption == Disks \subseteq [Files -> Contents]

VARIABLES
  disk,      \* the files
  bare,      \* the path given has no directory: "supervisord -c config.ini"
  stack,     \* the calls of parse_single_file_, with the files still to include
  included,  \* config.included
  setting,   \* the file that has set the setting, Default, or Empty
  programs,  \* config.programs
  result     \* "none" until parse_file returns ("ok") or throws ("error")

vars == <<disk, bare, stack, included, setting, programs, result>>

Default == "default"
Empty   == ""

ASSUME NamesAssumption == {Default, Empty} \cap Files = {}

Frames == [file : Files, left : Seq(Files)]

-----------------------------------------------------------------------------
Init ==
  /\ disk \in Disks
  /\ bare \in BOOLEAN
  /\ stack = <<>> /\ included = {}
  /\ setting = Default /\ programs = <<>>
  /\ result = "none"

\* An exception leaves all calls.
Throw ==
  /\ result' = "error" /\ stack' = <<>>
  /\ UNCHANGED <<disk, bare, setting, programs>>

\* Mutant: a file may be read again.
SeenNever(f) == FALSE

\* The insertion into config.included fails.
Seen(f) == f \in included

\* Mutant: one level too many.
TooDeepOffByOne(depth) == depth > MaxDepth

TooDeep(depth) == depth >= MaxDepth

\* What the file f is refused for: by validate_config_file_security; by read_ini or
\* pt_get; by the checks of its program.
Insecure(f)   == disk[f].trouble = "insecure"
Malformed(f)  == disk[f].trouble = "syntax"
BadProgram(f) == disk[f].trouble = "program"

\* The files that parse_stream_ includes: none when base_dir is empty, as is the
\* parent_path() of a name without a directory.  Included files have one.
Includes(f) == IF bare /\ f = Main THEN <<>> ELSE disk[f].includes

\* Mutant: the first file wins.
SettingAfterFirst(f) ==
  IF disk[f].setting = "kept" \/ setting # Default THEN setting
  ELSE IF disk[f].setting = "set" THEN f ELSE Empty

\* pt_get assigns when the key is there.
SettingAfter(f) ==
  CASE disk[f].setting = "kept"    -> setting
    [] disk[f].setting = "set"     -> f
    [] disk[f].setting = "cleared" -> Empty

\* parse_single_file_ and parse_stream_ up to the include files, called with the
\* stack of its callers, whose number is the depth.
Enter(f, callers) ==
  /\ included' = included \cup {f}
  /\ IF Seen(f) \/ Insecure(f) \/ TooDeep(Len(callers)) \/ Malformed(f)
     THEN Throw
     ELSE /\ setting' = SettingAfter(f)
          /\ stack' = Append(callers, [file |-> f, left |-> Includes(f)])
          /\ UNCHANGED <<disk, bare, programs, result>>

\* parse_file
ParseFile == result = "none" /\ included = {} /\ Enter(Main, <<>>)

Top == stack[Len(stack)]

\* parse_includes_ goes on to the next file.
Include ==
  /\ stack # <<>> /\ Top.left # <<>>
  /\ Enter(Head(Top.left), [stack EXCEPT ![Len(stack)].left = Tail(@)])

\* Mutant: the programs of a file go before those of its include files.
ProgramsAfterReversed(f) == <<f>> \o programs

\* The program sections of a file are appended.
ProgramsAfter(f) == Append(programs, f)

\* validate_config_
Validated(value) == value # Empty

\* The rest of parse_stream_; the outermost call returns to parse_file.
Leave ==
  /\ stack # <<>> /\ Top.left = <<>>
  /\ IF BadProgram(Top.file) THEN Throw
     ELSE /\ programs' = ProgramsAfter(Top.file)
          /\ stack' = SubSeq(stack, 1, Len(stack) - 1)
          /\ result' = IF Len(stack) > 1 THEN "none"
                       ELSE IF Validated(setting) THEN "ok" ELSE "error"
          /\ UNCHANGED <<disk, bare, setting>>
  /\ UNCHANGED included

Next == ParseFile \/ Include \/ Leave

Spec == Init /\ [][Next]_vars

-----------------------------------------------------------------------------
TypeOK ==
  /\ disk \in [Files -> Contents] /\ bare \in BOOLEAN
  /\ stack \in Seq(Frames) /\ Len(stack) <= MaxDepth
  /\ included \subseteq Files
  /\ setting \in Files \cup {Default, Empty}
  /\ programs \in Seq(Files)
  /\ result \in {"none", "ok", "error"}

(***************************************************************************)
(* What the files mean, from the include graph alone: inc has the include  *)
(* files of each file, and files what is in it.                            *)
(***************************************************************************)
Graph == [f \in Files |-> Includes(f)]

Children(inc, f) == {inc[f][i] : i \in DOMAIN inc[f]}

\* f, the files it includes, those they include, and so on: the least set of files that
\* has f and what its members include.
Closed(inc, S) == \A f \in S : Children(inc, f) \subseteq S
Subtree(inc, f) == {g \in Files : \A S \in SUBSET Files : f \in S /\ Closed(inc, S) => g \in S}

Reached(inc) == Subtree(inc, Main)

\* The include files form a tree: no directive leads to the main file, and no two lead
\* to one file.
IsTree(inc) ==
  \A g, h \in Reached(inc) : \A i \in DOMAIN inc[g], j \in DOMAIN inc[h] :
    inc[g][i] # Main /\ (inc[g][i] = inc[h][j] => g = h /\ i = j)

\* The files that include f, directly or not.
Ancestors(inc, f) == {g \in Reached(inc) \ {f} : f \in Subtree(inc, g)}

\* f is in an earlier include file of some file than g.
LeftOf(inc, f, g) ==
  \E a \in Reached(inc) : \E i, j \in DOMAIN inc[a] :
    i < j /\ f \in Subtree(inc, inc[a][i]) /\ g \in Subtree(inc, inc[a][j])

\* The files that assign the setting, and after which nobody does: included files
\* come after the file that includes them.
Setters(inc, files) == {f \in Reached(inc) : files[f].setting # "kept"}
LastSetters(inc, files) ==
  {f \in Setters(inc, files) :
     \A g \in Setters(inc, files) \ {f} : LeftOf(inc, g, f) \/ g \in Ancestors(inc, f)}

\* A tree that is not too high, has no bad file, and leaves no setting empty.
Meaningful(inc, files) ==
  /\ IsTree(inc)
  /\ \A f \in Reached(inc) : /\ files[f].trouble = "none"
                             /\ Cardinality(Ancestors(inc, f)) < MaxDepth
  /\ \A f \in LastSetters(inc, files) : files[f].setting # "cleared"

\* parse_file accepts the main file just when the files it reaches form a tree,
\* whatever their order, fewer than MAX_DEPTH files lead to any of them, and all are good:
\* loops, files included twice and files too deep are refused.
Verdict == result # "none" => (result = "ok" <=> Meaningful(Graph, disk))

\* In an accepted configuration each file contributes once, and the programs of a
\* file come after those of the files it includes: of two programs of one name the
\* including file's is the last.
ProgramOrder ==
  result = "ok" =>
    /\ {programs[i] : i \in DOMAIN programs} = Reached(Graph)
    /\ \A i, j \in DOMAIN programs :
         i < j => \/ LeftOf(Graph, programs[i], programs[j])
                  \/ programs[j] \in Ancestors(Graph, programs[i])

\* With settings it is the other way round: an included file overrides the file that
\* includes it, and a later one an earlier one; there is one that is last.
IncludedOverrides ==
  result = "ok" =>
    LastSetters(Graph, disk) = IF setting = Default THEN {} ELSE {setting}

\* Parsing ends, also when files include each other: every step reads a file for the
\* first time, appends the programs of one, or is the last; no file does so twice.
EveryStepCounts ==
  [][ \/ \E f \in Files \ included : included' = included \cup {f}
      \/ \E f \in Files : /\ \A i \in DOMAIN programs : programs[i] # f
                          /\ programs' = Append(programs, f)
      \/ result' # "none" ]_vars
=============================================================================
