------------------------- MODULE ConfigParserProofs -------------------------
(***************************************************************************)
(* What holds of ConfigParser for every finite set of files, whatever is   *)
(* in them: that the stack of calls is sound, and from it, with what holds *)
(* of include graphs, what parse_file accepts and what it makes of it.     *)
(***************************************************************************)
EXTENDS ConfigParser, SequenceTheorems, FiniteSetTheorems, TLAPS

USE FilesAssumption, DepthAssumption, DisksAssumption

-----------------------------------------------------------------------------
(***************************************************************************)
(* The inductive invariant: a call that has not returned is of a file that *)
(* counts as included, of another one than the other calls, and of one     *)
(* whose programs were not read yet; nothing is left to do after parse_file *)
(* has returned.                                                           *)
(***************************************************************************)
CallsAreIncluded == \A i \in DOMAIN stack : stack[i].file \in included

CallsDiffer == \A i, j \in DOMAIN stack : stack[i].file = stack[j].file => i = j

ProgramsAreIncluded == \A i \in DOMAIN programs : programs[i] \in included

CallsHaveNoPrograms ==
  \A i \in DOMAIN programs : \A j \in DOMAIN stack : stack[j].file # programs[i]

Inv == /\ TypeOK
       /\ CallsAreIncluded /\ CallsDiffer /\ ProgramsAreIncluded /\ CallsHaveNoPrograms
       /\ result # "none" => stack = <<>>

\* No call has been made yet.
LEMMA InitInv == Init => Inv
  BY DEF Init, Inv, TypeOK, CallsAreIncluded, CallsDiffer, ProgramsAreIncluded,
         CallsHaveNoPrograms

\* An exception leaves no call.
LEMMA ThrowInv ==
  ASSUME Inv, NEW f \in Files, included' = included \cup {f}, Throw
  PROVE  Inv'
  <1>1. TypeOK'
    BY DEF Inv, TypeOK, Throw
  <1> QED
    BY <1>1 DEF Inv, Throw, CallsAreIncluded, CallsDiffer, ProgramsAreIncluded,
                CallsHaveNoPrograms

\* The files a file includes are files.
LEMMA IncludesType ==
  ASSUME TypeOK, NEW f \in Files
  PROVE  Includes(f) \in Seq(Files)
  BY DEF TypeOK, Includes, Contents

\* A setting names a file.
LEMMA SettingType ==
  ASSUME TypeOK, NEW f \in Files
  PROVE  SettingAfter(f) \in Files \cup {Default, Empty}
  <1>1. disk[f].setting \in {"kept", "set", "cleared"}
    BY DEF TypeOK, Contents
  <1>2. CASE disk[f].setting = "kept"
    BY <1>2 DEF TypeOK, SettingAfter
  <1>3. CASE disk[f].setting = "set"
    BY <1>3 DEF TypeOK, SettingAfter
  <1>4. CASE disk[f].setting = "cleared"
    BY <1>4 DEF TypeOK, SettingAfter
  <1> QED
    BY <1>1, <1>2, <1>3, <1>4

\* The files of calls.
Same(s, t) == DOMAIN s = DOMAIN t /\ \A i \in DOMAIN s : s[i].file = t[i].file

\* parse_single_file_ up to its include files.
LEMMA EnterInv ==
  ASSUME Inv, result = "none", NEW f \in Files, NEW callers \in Seq(Frames),
         Same(callers, stack), Enter(f, callers)
  PROVE  Inv'
  <1>1. CASE Seen(f) \/ Insecure(f) \/ TooDeep(Len(callers)) \/ Malformed(f)
    BY <1>1, ThrowInv DEF Enter
  <1>2. CASE ~(Seen(f) \/ Insecure(f) \/ TooDeep(Len(callers)) \/ Malformed(f))
    <2>0. PICK left \in Seq(Files), n \in Nat :
            left = Includes(f) /\ n = Len(callers) /\ n < MaxDepth
      <3>1. Includes(f) \in Seq(Files) /\ Len(callers) \in Nat
        BY IncludesType DEF Inv
      <3>2. Len(callers) < MaxDepth
        BY <1>2, <3>1 DEF TooDeep
      <3> QED
        BY <3>1, <3>2
    <2>1. PICK new :
            /\ left = Includes(f) /\ n = Len(callers) /\ n < MaxDepth
            /\ new = [file |-> f, left |-> left]
      BY <2>0
    <2>2. /\ included' = included \cup {f} /\ f \notin included
          /\ setting' = SettingAfter(f) /\ stack' = Append(callers, new)
          /\ disk' = disk /\ bare' = bare /\ programs' = programs /\ result' = result
      BY <1>2, <2>1 DEF Enter, Seen
    <2>3. new \in Frames /\ new.file = f
      BY <2>1 DEF Frames
    <2>4. /\ stack' \in Seq(Frames) /\ Len(stack') = n + 1 /\ DOMAIN stack' = 1..(n + 1)
          /\ \A i \in 1..n : stack'[i] = callers[i]
          /\ stack'[n + 1] = new
      BY <2>1, <2>2, <2>3, AppendProperties
    <2>5. DOMAIN stack = 1..n /\ \A i \in 1..n : stack'[i].file = stack[i].file
      <3>1. DOMAIN callers = 1..n
        BY <2>1
      <3>2. DOMAIN stack = 1..n /\ \A i \in 1..n : callers[i].file = stack[i].file
        BY <3>1, Zenon DEF Same
      <3> QED
        BY <2>4, <3>2, Zenon
    <2>6. stack'[n + 1].file = f
      BY <2>3, <2>4
    <2>7. TypeOK'
      BY <2>1, <2>2, <2>4, SettingType DEF Inv, TypeOK
    <2>8. CallsAreIncluded'
      <3>1. \A i \in 1..n : stack[i].file \in included
        BY <2>5, Zenon DEF Inv, CallsAreIncluded
      <3>2. \A i \in 1..n : stack'[i].file \in included'
        BY <2>2, <2>5, <3>1
      <3>3. \A i \in 1..(n + 1) : i \in 1..n \/ i = n + 1
        OBVIOUS
      <3>4. \A i \in 1..(n + 1) : stack'[i].file \in included'
        BY <2>2, <2>6, <3>2, <3>3
      <3> QED
        BY <2>4, <3>4, Zenon DEF CallsAreIncluded
    <2>9. CallsDiffer'
      <3> SUFFICES ASSUME NEW i \in 1..(n + 1), NEW j \in 1..(n + 1),
                          stack'[i].file = stack'[j].file
                   PROVE  i = j
        BY <2>4 DEF CallsDiffer
      <3>1. \A k \in 1..n : stack'[k].file # f
        BY <2>2, <2>5 DEF Inv, CallsAreIncluded
      <3>2. CASE i \in 1..n /\ j \in 1..n
        BY <2>5, <3>2 DEF Inv, CallsDiffer
      <3>3. CASE i = n + 1 \/ j = n + 1
        BY <2>6, <3>1, <3>3
      <3> QED
        BY <3>2, <3>3
    <2>10. ProgramsAreIncluded' /\ CallsHaveNoPrograms'
      BY <2>2, <2>4, <2>5, <2>6 DEF Inv, ProgramsAreIncluded, CallsHaveNoPrograms
    <2> QED
      BY <2>2, <2>7, <2>8, <2>9, <2>10 DEF Inv
  <1> QED
    BY <1>1, <1>2

\* parse_file.
LEMMA ParseFileInv ==
  ASSUME Inv, ParseFile
  PROVE  Inv'
  <1>1. result = "none" /\ included = {} /\ Enter(Main, <<>>)
    BY DEF ParseFile
  <1>2. stack = <<>>
    <2>1. stack \in Seq(Frames) /\ DOMAIN stack = {}
      BY <1>1 DEF Inv, TypeOK, CallsAreIncluded
    <2>2. Len(stack) \in Nat /\ 1..Len(stack) = {}
      BY <2>1
    <2>3. Len(stack) = 0
      BY <2>2
    <2> QED
      BY <2>1, <2>3, EmptySeq
  <1>3. <<>> \in Seq(Frames) /\ Same(<<>>, stack)
    BY <1>2 DEF Same
  <1> QED
    BY <1>1, <1>3, EnterInv

\* The innermost call.
LEMMA TopFacts ==
  ASSUME Inv, stack # <<>>
  PROVE  \E n \in Nat \ {0} :
           /\ n = Len(stack) /\ DOMAIN stack = 1..n /\ Top = stack[n] /\ Top \in Frames
           /\ Top.file \in included /\ \A j \in 1..(n - 1) : stack[j].file # Top.file
           /\ \A i \in DOMAIN programs : programs[i] # Top.file
  <1>1. stack \in Seq(Frames)
    BY DEF Inv, TypeOK
  <1>2. PICK n \in Nat \ {0} : n = Len(stack) /\ DOMAIN stack = 1..n
    BY <1>1
  <1>3. n \in 1..n /\ \A j \in 1..(n - 1) : j \in 1..n /\ j # n
    OBVIOUS
  <1>4. Top = stack[n] /\ Top \in Frames
    BY <1>1, <1>2, <1>3 DEF Top
  <1>5. stack[n].file \in included
    BY <1>2, <1>3, Zenon DEF Inv, CallsAreIncluded
  <1>6. \A j \in 1..(n - 1) : stack[j].file # stack[n].file
    BY <1>2, <1>3, Zenon DEF Inv, CallsDiffer
  <1>7. \A i \in DOMAIN programs : programs[i] # stack[n].file
    BY <1>2, <1>3, Zenon DEF Inv, CallsHaveNoPrograms
  <1> QED
    BY <1>2, <1>4, <1>5, <1>6, <1>7, Zenon

\* parse_includes_ takes the next file off the list.
LEMMA IncludeFacts ==
  ASSUME Inv, Include
  PROVE  \E f \in Files, callers \in Seq(Frames) :
           /\ Same(callers, stack) /\ Enter(f, callers) /\ result = "none"
           /\ f = Head(Top.left)
           /\ callers = [stack EXCEPT ![Len(stack)].left = Tail(@)]
  <1>1. PICK n \in Nat \ {0} : /\ n = Len(stack) /\ DOMAIN stack = 1..n
                               /\ Top = stack[n] /\ Top \in Frames
    BY TopFacts DEF Include
  <1>2. PICK top \in Frames : top = stack[n]
    BY <1>1
  <1>3. PICK left \in Seq(Files) : left = top.left /\ left # <<>>
    BY <1>1, <1>2 DEF Include, Top, Frames
  <1>4. Head(left) \in Files /\ Tail(left) \in Seq(Files)
    BY <1>3
  <1>5. PICK callers : callers = [stack EXCEPT ![Len(stack)].left = Tail(@)]
    OBVIOUS
  <1>6. /\ callers = [stack EXCEPT ![n] = [top EXCEPT !.left = Tail(left)]]
    BY <1>1, <1>2, <1>3, <1>5
  <1>7. PICK new \in Frames : new = [top EXCEPT !.left = Tail(left)] /\ new.file = top.file
    <2>1. PICK rest \in Seq(Files) : rest = Tail(left)
      BY <1>4
    <2>2. [top EXCEPT !.left = rest] \in Frames /\ [top EXCEPT !.left = rest].file = top.file
      BY DEF Frames
    <2> QED
      BY <2>1, <2>2
  <1>8. callers \in Seq(Frames) /\ Same(callers, stack)
    <2>1. stack \in Seq(Frames) /\ callers = [stack EXCEPT ![n] = new]
      BY <1>6, <1>7 DEF Inv, TypeOK
    <2>2. /\ callers \in Seq(Frames) /\ DOMAIN callers = 1..n
          /\ callers[n] = new /\ \A i \in 1..n : i # n => callers[i] = stack[i]
      BY <1>1, <2>1
    <2> QED
      BY <1>1, <1>2, <1>7, <2>2, Zenon DEF Same
  <1>9. Enter(Head(left), callers) /\ Head(left) = Head(Top.left)
    BY <1>1, <1>2, <1>3, <1>5 DEF Include, Top
  <1>10. result = "none"
    BY DEF Inv, Include
  <1> QED
    BY <1>4, <1>5, <1>8, <1>9, <1>10

\* The rest of parse_stream_.
LEMMA LeaveInv ==
  ASSUME Inv, Leave
  PROVE  Inv'
  <1>1. PICK n \in Nat \ {0} :
          /\ n = Len(stack) /\ DOMAIN stack = 1..n /\ Top = stack[n] /\ Top \in Frames
          /\ Top.file \in included /\ \A j \in 1..(n - 1) : stack[j].file # Top.file
    BY TopFacts, Zenon DEF Leave
  <1>2. PICK f \in Files : f = Top.file
    BY <1>1 DEF Frames
  <1>3. CASE BadProgram(f)
    <2>1. Throw /\ included' = included
      BY <1>2, <1>3 DEF Leave
    <2>2. f \in included
      BY <1>1, <1>2
    <2>3. included' = included \cup {f}
      BY <2>1, <2>2
    <2> QED
      BY <2>1, <2>3, ThrowInv
  <1>4. CASE ~BadProgram(f)
    <2>1. /\ programs' = Append(programs, f) /\ stack' = SubSeq(stack, 1, n - 1)
          /\ disk' = disk /\ bare' = bare /\ setting' = setting /\ included' = included
          /\ result' = IF n > 1 THEN "none" ELSE IF Validated(setting) THEN "ok" ELSE "error"
      BY <1>1, <1>2, <1>4 DEF Leave, ProgramsAfter
    <2>2. /\ stack' \in Seq(Frames) /\ Len(stack') = n - 1 /\ DOMAIN stack' = 1..(n - 1)
          /\ \A i \in 1..(n - 1) : stack'[i] = stack[i]
      BY <1>1, <2>1, SubSeqProperties DEF Inv, TypeOK
    <2>3. PICK m \in Nat : m = Len(programs) /\ DOMAIN programs = 1..m
      BY DEF Inv, TypeOK
    <2>4. /\ programs' \in Seq(Files) /\ DOMAIN programs' = 1..(m + 1)
          /\ \A i \in 1..m : programs'[i] = programs[i]
          /\ programs'[m + 1] = f
      BY <1>2, <2>1, <2>3, AppendProperties DEF Inv, TypeOK
    <2>5. TypeOK'
      BY <1>1, <2>1, <2>2, <2>4 DEF Inv, TypeOK
    <2>6. CallsAreIncluded' /\ CallsDiffer'
      BY <1>1, <2>1, <2>2 DEF Inv, CallsAreIncluded, CallsDiffer
    <2>7. f \in included /\ \A j \in 1..(n - 1) : stack[j].file # f
      BY <1>1, <1>2, Zenon
    <2>8. ProgramsAreIncluded'
      BY <2>1, <2>3, <2>4, <2>7 DEF Inv, ProgramsAreIncluded
    <2>9. CallsHaveNoPrograms'
      <3> SUFFICES ASSUME NEW i \in 1..(m + 1), NEW j \in 1..(n - 1)
                   PROVE  stack'[j].file # programs'[i]
        BY <2>2, <2>4 DEF CallsHaveNoPrograms
      <3>1. CASE i = m + 1
        BY <2>2, <2>4, <2>7, <3>1
      <3>2. CASE i \in 1..m
        <4>1. j \in DOMAIN stack /\ i \in DOMAIN programs
          BY <1>1, <2>3, <3>2
        <4>2. stack[j].file # programs[i]
          BY <4>1, Zenon DEF Inv, CallsHaveNoPrograms
        <4> QED
          BY <2>2, <2>4, <3>2, <4>2
      <3> QED
        BY <3>1, <3>2
    <2>10. result' # "none" => stack' = <<>>
      BY <1>1, <2>1, <2>2
    <2> QED
      BY <2>5, <2>6, <2>8, <2>9, <2>10 DEF Inv
  <1> QED
    BY <1>3, <1>4

\* Every step.
LEMMA NextInv == Inv /\ [Next]_vars => Inv'
  <1> SUFFICES ASSUME Inv, [Next]_vars PROVE Inv'
    OBVIOUS
  <1>1. CASE ParseFile
    BY <1>1, ParseFileInv
  <1>2. CASE Include
    BY <1>2, IncludeFacts, EnterInv
  <1>3. CASE Leave
    BY <1>3, LeaveInv
  <1>4. CASE UNCHANGED vars
    BY <1>4 DEF vars, Inv, TypeOK, CallsAreIncluded, CallsDiffer, ProgramsAreIncluded,
                CallsHaveNoPrograms
  <1> QED
    BY <1>1, <1>2, <1>3, <1>4 DEF Next

-----------------------------------------------------------------------------
(***************************************************************************)
(* The files a file leads to.  Subtree is the least set that is closed     *)
(* under the include directives, so what holds of all its members is shown *)
(* by giving a closed set of files for which it does.                      *)
(***************************************************************************)
IncludeGraphs == [Files -> Seq(Files)]

\* A directive of a file names one of its children.
LEMMA ChildrenAre ==
  ASSUME NEW inc \in IncludeGraphs, NEW f \in Files
  PROVE  /\ Children(inc, f) \subseteq Files
         /\ DOMAIN inc[f] = 1..Len(inc[f]) /\ Len(inc[f]) \in Nat
         /\ \A i \in DOMAIN inc[f] : inc[f][i] \in Children(inc, f)
         /\ \A c \in Children(inc, f) : \E i \in DOMAIN inc[f] : c = inc[f][i]
  BY DEF IncludeGraphs, Children

\* Subtree is the least such set.
LEMMA SubtreeLeast ==
  ASSUME NEW inc \in IncludeGraphs, NEW f, NEW S, S \subseteq Files, f \in S, Closed(inc, S)
  PROVE  Subtree(inc, f) \subseteq S
  BY DEF Subtree

\* A file leads to itself, and to what the files do that it leads to.
LEMMA SubtreeClosed ==
  ASSUME NEW inc \in IncludeGraphs, NEW f \in Files
  PROVE  /\ Subtree(inc, f) \subseteq Files
         /\ f \in Subtree(inc, f)
         /\ Closed(inc, Subtree(inc, f))
         /\ \A g \in Subtree(inc, f) : Children(inc, g) \subseteq Subtree(inc, f)
  <1>1. Subtree(inc, f) \subseteq Files /\ f \in Subtree(inc, f)
    BY DEF Subtree
  <1>2. ASSUME NEW g \in Subtree(inc, f), NEW c \in Children(inc, g)
        PROVE  c \in Subtree(inc, f)
    <2>1. g \in Files /\ c \in Files
      BY <1>1, <1>2, ChildrenAre
    <2>2. ASSUME NEW S \in SUBSET Files, f \in S, Closed(inc, S) PROVE c \in S
      <3>1. g \in S
        BY <2>2 DEF Subtree
      <3> QED
        BY <2>2, <3>1 DEF Closed
    <2> QED
      BY <2>1, <2>2 DEF Subtree
  <1> QED
    BY <1>1, <1>2, Zenon DEF Closed

\* What a file leads to leads no further than it does.
LEMMA SubtreeTransitive ==
  ASSUME NEW inc \in IncludeGraphs, NEW f \in Files, NEW g \in Subtree(inc, f)
  PROVE  Subtree(inc, g) \subseteq Subtree(inc, f)
  BY SubtreeClosed, SubtreeLeast

\* The last directive on the way to a file.
LEMMA SubtreeLastStep ==
  ASSUME NEW inc \in IncludeGraphs, NEW f \in Files, NEW g \in Subtree(inc, f), g # f
  PROVE  \E h \in Subtree(inc, f) : g \in Children(inc, h)
  <1> SUFFICES ASSUME \A h \in Subtree(inc, f) : g \notin Children(inc, h) PROVE FALSE
    OBVIOUS
  <1> DEFINE S == Subtree(inc, f) \ {g}
  <1>1. S \subseteq Files /\ f \in S
    BY SubtreeClosed
  <1>2. Closed(inc, S)
    BY SubtreeClosed DEF Closed
  <1> HIDE DEF S
  <1>3. Subtree(inc, f) \subseteq S
    BY <1>1, <1>2, SubtreeLeast
  <1> QED
    BY <1>3 DEF S

\* The first one.
LEMMA SubtreeFirstStep ==
  ASSUME NEW inc \in IncludeGraphs, NEW f \in Files, NEW g \in Subtree(inc, f), g # f
  PROVE  \E i \in DOMAIN inc[f] : g \in Subtree(inc, inc[f][i])
  <1> DEFINE S == {h \in Files : h = f \/ \E i \in DOMAIN inc[f] : h \in Subtree(inc, inc[f][i])}
  <1>1. S \subseteq Files /\ f \in S
    OBVIOUS
  <1>2. ASSUME NEW h \in S, NEW c \in Children(inc, h) PROVE c \in S
    <2>1. c \in Files
      BY <1>2, ChildrenAre
    <2>2. CASE h = f
      <3>1. PICK i \in DOMAIN inc[f] : c = inc[f][i]
        BY <2>2, ChildrenAre
      <3>2. c \in Subtree(inc, c)
        BY <2>1, SubtreeClosed
      <3> QED
        BY <2>1, <3>1, <3>2
    <2>3. CASE h # f
      <3>1. PICK i \in DOMAIN inc[f] : h \in Subtree(inc, inc[f][i])
        BY <2>3
      <3>2. inc[f][i] \in Files
        BY ChildrenAre
      <3>3. c \in Subtree(inc, inc[f][i])
        BY <3>1, <3>2, SubtreeClosed
      <3> QED
        BY <2>1, <3>3
    <2> QED
      BY <2>2, <2>3
  <1>3. Closed(inc, S)
    BY <1>2 DEF Closed
  <1>4. Subtree(inc, f) \subseteq S
    <2> HIDE DEF S
    <2> QED
      BY <1>1, <1>3, SubtreeLeast
  <1> QED
    BY <1>4

-----------------------------------------------------------------------------
(***************************************************************************)
(* The same when the include files form a tree.                            *)
(***************************************************************************)

\* What parse_file comes to.
LEMMA ReachedAre ==
  ASSUME NEW inc \in IncludeGraphs
  PROVE  /\ Reached(inc) \subseteq Files /\ Main \in Reached(inc)
         /\ \A f \in Reached(inc) : Subtree(inc, f) \subseteq Reached(inc)
         /\ \A f \in Reached(inc) : Children(inc, f) \subseteq Reached(inc)
  BY SubtreeClosed, SubtreeTransitive DEF Reached

\* One file includes a file, with one directive, and none the main file.
LEMMA OneParent ==
  ASSUME NEW inc \in IncludeGraphs, IsTree(inc), NEW g \in Reached(inc), NEW h \in Reached(inc),
         NEW c \in Children(inc, g)
  PROVE  c # Main /\ (c \in Children(inc, h) => g = h)
  BY ReachedAre, ChildrenAre DEF IsTree

\* On every way to a file is the one that includes it.
LEMMA WayThroughParent ==
  ASSUME NEW inc \in IncludeGraphs, IsTree(inc), NEW x \in Reached(inc), NEW y \in Reached(inc),
         NEW c \in Children(inc, x), c \in Subtree(inc, y), c # y
  PROVE  x \in Subtree(inc, y)
  <1>1. PICK h \in Subtree(inc, y) : c \in Children(inc, h)
    BY ReachedAre, SubtreeLastStep
  <1>2. h \in Reached(inc)
    BY ReachedAre
  <1> QED
    BY <1>1, <1>2, OneParent

\* No file leads to a file that leads to it.
LEMMA NoLoop ==
  ASSUME NEW inc \in IncludeGraphs, IsTree(inc), NEW y \in Reached(inc), NEW z \in Subtree(inc, y),
         y \in Subtree(inc, z)
  PROVE  y = z
  <1> SUFFICES ASSUME y # z PROVE FALSE
    OBVIOUS
  <1>0. z \in Reached(inc) /\ y \in Files /\ z \in Files
    BY ReachedAre
  <1> DEFINE C == {w \in Reached(inc) : w \in Subtree(inc, y) /\ y \in Subtree(inc, w)}
             S == Reached(inc) \ C
  <1>1. y \in C /\ z \in C
    BY <1>0, SubtreeClosed
  <1>2. ASSUME NEW c \in C, NEW w \in Reached(inc), c \in Children(inc, w)
        PROVE  w \in C
    <2>1. PICK d \in C : d # c
      BY <1>1
    <2>2. c \in Subtree(inc, y) /\ y \in Subtree(inc, d) /\ d \in Files /\ d \in Subtree(inc, y)
      BY <2>1, ReachedAre
    <2>3. c \in Subtree(inc, d)
      BY <2>2, SubtreeTransitive
    <2>4. w \in Subtree(inc, d)
      BY <1>2, <2>1, <2>3, WayThroughParent
    <2>5. w \in Subtree(inc, y)
      BY <1>0, <2>2, <2>4, SubtreeTransitive
    <2>6. c \in Subtree(inc, w) /\ w \in Files
      BY <1>2, ReachedAre, SubtreeClosed
    <2>7. y \in Subtree(inc, w)
      BY <2>6, SubtreeTransitive
    <2> QED
      BY <2>5, <2>7
  <1>3. Main \notin C
    <2> SUFFICES ASSUME Main \in C PROVE FALSE
      OBVIOUS
    <2>1. PICK d \in C : d # Main
      BY <1>1
    <2>2. Main \in Subtree(inc, d)
      <3>1. Main \in Subtree(inc, y) /\ y \in Subtree(inc, d) /\ d \in Files
        BY ReachedAre
      <3> QED
        BY <3>1, SubtreeTransitive
    <2>3. PICK h \in Subtree(inc, d) : Main \in Children(inc, h)
      BY <2>1, <2>2, ReachedAre, SubtreeLastStep
    <2>4. h \in Reached(inc)
      BY ReachedAre
    <2> QED
      BY <2>3, <2>4, OneParent
  <1>4. S \subseteq Files /\ Main \in S
    BY <1>3, ReachedAre
  <1>5. Closed(inc, S)
    BY <1>2, ReachedAre DEF Closed
  <1>6. Reached(inc) \subseteq S
    <2> HIDE DEF S
    <2> QED
      BY <1>4, <1>5, SubtreeLeast DEF Reached
  <1> QED
    BY <1>1, <1>6, ReachedAre

\* Nor does one include itself.
LEMMA NoSelfInclude ==
  ASSUME NEW inc \in IncludeGraphs, IsTree(inc), NEW x \in Reached(inc)
  PROVE  x \notin Children(inc, x)
  <1> SUFFICES ASSUME x \in Children(inc, x) PROVE FALSE
    OBVIOUS
  <1> DEFINE S == Reached(inc) \ {x}
  <1>1. S \subseteq Files /\ Main \in S
    BY ReachedAre, OneParent
  <1>2. Closed(inc, S)
    BY ReachedAre, OneParent DEF Closed
  <1>3. Reached(inc) \subseteq S
    <2> HIDE DEF S
    <2> QED
      BY <1>1, <1>2, SubtreeLeast DEF Reached
  <1> QED
    BY <1>3

\* Of two files that lead to one file, one leads to the other.
LEMMA OnOneWay ==
  ASSUME NEW inc \in IncludeGraphs, IsTree(inc), NEW a \in Reached(inc), NEW b \in Reached(inc),
         NEW f \in Subtree(inc, a), f \in Subtree(inc, b)
  PROVE  a \in Subtree(inc, b) \/ b \in Subtree(inc, a)
  <1> SUFFICES ASSUME a \notin Subtree(inc, b), b \notin Subtree(inc, a) PROVE FALSE
    OBVIOUS
  <1> DEFINE S == Subtree(inc, a) \ Subtree(inc, b)
  <1>1. S \subseteq Files /\ a \in S
    BY ReachedAre, SubtreeClosed
  <1>2. ASSUME NEW x \in S, NEW c \in Children(inc, x) PROVE c \in S
    <2>1. c \in Subtree(inc, a) /\ x \in Reached(inc)
      BY ReachedAre, SubtreeClosed
    <2>2. c # b
      BY <2>1
    <2> QED
      BY <2>1, <2>2, WayThroughParent
  <1>3. Closed(inc, S)
    BY <1>2 DEF Closed
  <1>4. Subtree(inc, a) \subseteq S
    <2> HIDE DEF S
    <2> QED
      BY <1>1, <1>3, SubtreeLeast
  <1> QED
    BY <1>4

\* No file is reached through two directives of a file.
LEMMA DirectivesApart ==
  ASSUME NEW inc \in IncludeGraphs, IsTree(inc), NEW a \in Reached(inc),
         NEW i \in DOMAIN inc[a], NEW j \in DOMAIN inc[a], NEW f,
         f \in Subtree(inc, inc[a][i]), f \in Subtree(inc, inc[a][j])
  PROVE  i = j
  <1>1. ASSUME NEW k \in DOMAIN inc[a], NEW l \in DOMAIN inc[a],
               inc[a][k] \in Subtree(inc, inc[a][l])
        PROVE  k = l
    <2>0. PICK c, d : c = inc[a][k] /\ d = inc[a][l]
      OBVIOUS
    <2>1. /\ c \in Children(inc, a) /\ d \in Children(inc, a)
          /\ c \in Reached(inc) /\ d \in Reached(inc)
      BY <2>0, ChildrenAre, ReachedAre
    <2>2. c = d => k = l
      BY <2>0 DEF IsTree
    <2>3. CASE c # d
      <3>1. a \in Subtree(inc, d)
        BY <1>1, <2>0, <2>1, <2>3, WayThroughParent
      <3>2. d \in Subtree(inc, a)
        BY <2>1, ReachedAre, SubtreeClosed
      <3>3. a = d
        BY <3>1, <3>2, NoLoop
      <3> QED
        BY <2>1, <3>3, NoSelfInclude
    <2> QED
      BY <2>2, <2>3
  <1>2. inc[a][i] \in Reached(inc) /\ inc[a][j] \in Reached(inc)
    BY ChildrenAre, ReachedAre
  <1>3. \/ inc[a][i] \in Subtree(inc, inc[a][j])
        \/ inc[a][j] \in Subtree(inc, inc[a][i])
    BY <1>2, OnOneWay
  <1> QED
    BY <1>1, <1>3

\* The files that lead to an include file are the one that includes it and those that
\* lead to that one.
LEMMA AncestorsOfChild ==
  ASSUME NEW inc \in IncludeGraphs, IsTree(inc), NEW x \in Reached(inc), NEW c \in Children(inc, x)
  PROVE  Ancestors(inc, c) = Ancestors(inc, x) \cup {x}
  <1>1. x \in Files /\ c \in Reached(inc) /\ c \in Subtree(inc, x) /\ x # c
    BY ReachedAre, SubtreeClosed, NoSelfInclude
  <1>2. ASSUME NEW y \in Ancestors(inc, c) PROVE y \in Ancestors(inc, x) \cup {x}
    BY <1>2, WayThroughParent DEF Ancestors
  <1>3. ASSUME NEW y \in Ancestors(inc, x) PROVE y \in Ancestors(inc, c)
    <2>1. y \in Reached(inc) /\ y \in Files /\ x \in Subtree(inc, y) /\ y # x
      BY ReachedAre DEF Ancestors
    <2>2. c \in Subtree(inc, y)
      BY <1>1, <2>1, SubtreeTransitive
    <2>3. y # c
      BY <1>1, <2>1, NoLoop
    <2> QED
      BY <2>1, <2>2, <2>3 DEF Ancestors
  <1>4. x \in Ancestors(inc, c)
    BY <1>1 DEF Ancestors
  <1> QED
    BY <1>2, <1>3, <1>4

\* Nothing leads to the main file.
LEMMA AncestorsOfMain ==
  ASSUME NEW inc \in IncludeGraphs, IsTree(inc)
  PROVE  Ancestors(inc, Main) = {}
  <1> SUFFICES ASSUME NEW y \in Ancestors(inc, Main) PROVE FALSE
    OBVIOUS
  <1>1. y \in Reached(inc) /\ y # Main /\ Main \in Subtree(inc, y)
    BY DEF Ancestors
  <1>2. y \in Subtree(inc, Main)
    BY <1>1 DEF Reached
  <1> QED
    BY <1>1, <1>2, NoLoop, ReachedAre

\* The order in which files are read, and so in which they assign settings: an earlier
\* include file first, and a file before those it includes.
Precedes(inc, g, f) == LeftOf(inc, g, f) \/ g \in Ancestors(inc, f)

\* Neither of two files leads to the other if one is left of the other.
LEMMA LeftOfApart ==
  ASSUME NEW inc \in IncludeGraphs, IsTree(inc), NEW f \in Reached(inc), NEW g \in Reached(inc),
         LeftOf(inc, f, g)
  PROVE  f \notin Subtree(inc, g) /\ g \notin Subtree(inc, f)
  <1>1. PICK a \in Reached(inc) : \E i, j \in DOMAIN inc[a] :
          i < j /\ f \in Subtree(inc, inc[a][i]) /\ g \in Subtree(inc, inc[a][j])
    BY DEF LeftOf
  <1>2. PICK i \in DOMAIN inc[a], j \in DOMAIN inc[a] :
          i < j /\ f \in Subtree(inc, inc[a][i]) /\ g \in Subtree(inc, inc[a][j])
    BY <1>1
  <1>3. a \in Files /\ inc[a][i] \in Files /\ inc[a][j] \in Files /\ i # j
    BY <1>2, ReachedAre, ChildrenAre
  <1>4. ~(f \in Subtree(inc, inc[a][j]))
    BY <1>2, <1>3, DirectivesApart
  <1>5. ~(g \in Subtree(inc, inc[a][i]))
    BY <1>2, <1>3, DirectivesApart
  <1> QED
    BY <1>2, <1>3, <1>4, <1>5, SubtreeTransitive

\* Two files are not left of each other.
LEMMA LeftOfOneWay ==
  ASSUME NEW inc \in IncludeGraphs, IsTree(inc), NEW f \in Reached(inc), NEW g \in Reached(inc),
         LeftOf(inc, f, g), LeftOf(inc, g, f)
  PROVE  FALSE
  <1>1. PICK a \in Reached(inc) : \E i, j \in DOMAIN inc[a] :
          i < j /\ f \in Subtree(inc, inc[a][i]) /\ g \in Subtree(inc, inc[a][j])
    BY DEF LeftOf
  <1>2. PICK i \in DOMAIN inc[a], j \in DOMAIN inc[a] :
          i < j /\ f \in Subtree(inc, inc[a][i]) /\ g \in Subtree(inc, inc[a][j])
    BY <1>1
  <1>3. PICK b \in Reached(inc) : \E k, l \in DOMAIN inc[b] :
          k < l /\ g \in Subtree(inc, inc[b][k]) /\ f \in Subtree(inc, inc[b][l])
    BY DEF LeftOf
  <1>4. PICK k \in DOMAIN inc[b], l \in DOMAIN inc[b] :
          k < l /\ g \in Subtree(inc, inc[b][k]) /\ f \in Subtree(inc, inc[b][l])
    BY <1>3
  <1>5. a \in Files /\ b \in Files /\ i # j /\ k # l
    BY <1>2, <1>4, ReachedAre, ChildrenAre
  <1>6. ASSUME NEW x \in Reached(inc), NEW y \in Reached(inc), y \in Subtree(inc, x), x # y,
               NEW m \in DOMAIN inc[x], NEW n \in DOMAIN inc[x], m # n,
               f \in Subtree(inc, inc[x][m]), g \in Subtree(inc, inc[x][n]),
               f \in Subtree(inc, y), g \in Subtree(inc, y)
        PROVE  FALSE
    <2>1. x \in Files /\ \A p \in DOMAIN inc[x] : inc[x][p] \in Files
      BY ReachedAre, ChildrenAre
    <2>2. PICK p \in DOMAIN inc[x] : y \in Subtree(inc, inc[x][p])
      BY <1>6, <2>1, SubtreeFirstStep
    <2>3. Subtree(inc, y) \subseteq Subtree(inc, inc[x][p])
      BY <2>1, <2>2, SubtreeTransitive
    <2>4. p = m
      BY <1>6, <2>3, DirectivesApart
    <2>5. p = n
      BY <1>6, <2>3, DirectivesApart
    <2> QED
      BY <1>6, <2>4, <2>5
  <1>7. ASSUME NEW x \in Reached(inc), NEW m \in DOMAIN inc[x]
        PROVE  Subtree(inc, inc[x][m]) \subseteq Subtree(inc, x)
    <2>1. x \in Files /\ inc[x][m] \in Children(inc, x)
      BY ReachedAre, ChildrenAre
    <2> QED
      BY <2>1, SubtreeClosed, SubtreeTransitive
  <1>8. /\ f \in Subtree(inc, a) /\ g \in Subtree(inc, a)
        /\ f \in Subtree(inc, b) /\ g \in Subtree(inc, b)
    BY <1>2, <1>4, <1>7
  <1>9. a \in Subtree(inc, b) \/ b \in Subtree(inc, a)
    BY <1>8, OnOneWay
  <1>10. CASE a = b
    <2>1. i = l
      BY <1>2, <1>4, <1>10, DirectivesApart
    <2>2. j = k
      BY <1>2, <1>4, <1>10, DirectivesApart
    <2>3. i \in Nat /\ j \in Nat
      BY <1>5, ChildrenAre
    <2> QED
      BY <1>2, <1>4, <2>1, <2>2, <2>3
  <1>11. CASE a # b
    BY <1>2, <1>4, <1>5, <1>6, <1>8, <1>9, <1>11
  <1> QED
    BY <1>10, <1>11

\* Of two files at most one precedes the other.
LEMMA PrecedesOneWay ==
  ASSUME NEW inc \in IncludeGraphs, IsTree(inc), NEW f \in Reached(inc), NEW g \in Reached(inc),
         Precedes(inc, f, g), Precedes(inc, g, f)
  PROVE  FALSE
  <1>1. CASE f \in Ancestors(inc, g) /\ g \in Ancestors(inc, f)
    BY <1>1, NoLoop DEF Ancestors
  <1>2. CASE LeftOf(inc, f, g) /\ g \in Ancestors(inc, f)
    BY <1>2, LeftOfApart DEF Ancestors
  <1>3. CASE LeftOf(inc, g, f) /\ f \in Ancestors(inc, g)
    BY <1>3, LeftOfApart DEF Ancestors
  <1>4. CASE LeftOf(inc, g, f) /\ LeftOf(inc, f, g)
    BY <1>4, LeftOfOneWay
  <1> QED
    BY <1>1, <1>2, <1>3, <1>4 DEF Precedes

-----------------------------------------------------------------------------
(***************************************************************************)
(* What parse_file has found out about the files, told from the include    *)
(* graph: inc and files are as in Meaningful, taken[f] how many directives *)
(* of f parse_includes_ has followed, calls the files of the n calls that  *)
(* have not returned, seen is config.included, and done the files whose    *)
(* programs were read.                                                     *)
(***************************************************************************)

\* The directives followed led to different files, and to all files but the main one.
Followed(inc, taken, seen) ==
  /\ taken \in [Files -> Nat]
  /\ \A g \in Files : taken[g] <= Len(inc[g]) /\ (g \notin seen => taken[g] = 0)
  /\ \A g \in Files : \A i \in 1..taken[g] : inc[g][i] \in seen \ {Main}
  /\ \A g, h \in Files : \A i \in 1..taken[g], j \in 1..taken[h] :
       inc[g][i] = inc[h][j] => g = h /\ i = j
  /\ \A f \in seen \ {Main} : \E g \in seen : \E i \in 1..taken[g] : f = inc[g][i]

\* Each call was made for the last directive followed of its caller's file.
Nested(inc, taken, calls, n) ==
  /\ n > 0 => calls[1] = Main
  /\ \A k \in 1..(n - 1) :
       taken[calls[k]] > 0 /\ calls[k + 1] = inc[calls[k]][taken[calls[k]]]
  /\ \A k, m \in 1..n : k <= m => calls[m] \in Subtree(inc, calls[k])

\* A file was reached, and its call has returned or not; if it has then with all its
\* directives followed, and it was reached from one of a call's file before the present.
Visited(inc, taken, calls, n, seen, done) ==
  /\ seen = {calls[k] : k \in 1..n} \cup done
  /\ seen \subseteq Reached(inc) /\ (seen # {} => Main \in seen)
  /\ \A g \in done : taken[g] = Len(inc[g])
  /\ n > 0 => \A g \in done : \E k \in 1..n : \E i \in 1..taken[calls[k]] :
                /\ g \in Subtree(inc, inc[calls[k]][i])
                /\ k < n => i < taken[calls[k]]

\* The files are good so far; where they form a tree, the calls tell how deep a file is.
Accepted(inc, files, calls, n, seen, done) ==
  /\ \A g \in seen : files[g].trouble \notin {"insecure", "syntax"}
  /\ \A g \in done : files[g].trouble = "none"
  /\ IsTree(inc) => /\ \A k \in 1..n : Ancestors(inc, calls[k]) = {calls[j] : j \in 1..(k - 1)}
                    /\ \A g \in done : Cardinality(Ancestors(inc, g)) < MaxDepth

\* Programs are in the order of the files.
Ordered(inc, progs) ==
  \A i, j \in DOMAIN progs :
    i < j => LeftOf(inc, progs[i], progs[j]) \/ progs[j] \in Ancestors(inc, progs[i])

\* The setting is from the last file that assigns it.
Assigned(inc, files, seen, value) ==
  \/ value = Default /\ \A g \in seen : files[g].setting = "kept"
  \/ \E s \in seen :
       /\ files[s].setting # "kept"
       /\ value = IF files[s].setting = "set" THEN s ELSE Empty
       /\ \A g \in seen \ {s} : files[g].setting # "kept" => Precedes(inc, g, s)

\* The directives left to a call are those of its file that were not followed yet.
Rest(inc, taken, frame) ==
  /\ Len(frame.left) = Len(inc[frame.file]) - taken[frame.file]
  /\ \A j \in DOMAIN frame.left :
       frame.left[j] = inc[frame.file][taken[frame.file] + j]

Pending(inc, taken, frames) == \A k \in DOMAIN frames : Rest(inc, taken, frames[k])

CallFiles(frames) == [k \in DOMAIN frames |-> frames[k].file]

Done(progs) == {progs[i] : i \in DOMAIN progs}

Parsed(inc, files, taken, calls, n, seen, done, value) ==
  /\ Followed(inc, taken, seen)
  /\ Nested(inc, taken, calls, n)
  /\ Visited(inc, taken, calls, n, seen, done)
  /\ Accepted(inc, files, calls, n, seen, done)
  /\ Assigned(inc, files, seen, value)

\* No two calls are of one file, nor is one of a file whose programs were read.
Apart(calls, n, done) ==
  /\ \A k, m \in 1..n : calls[k] = calls[m] => k = m
  /\ \A k \in 1..n : calls[k] \notin done

\* What pt_get makes of the setting.
Sets(files, f, old, new) ==
  /\ files[f].setting \in {"kept", "set", "cleared"}
  /\ files[f].setting = "kept" => new = old
  /\ files[f].setting = "set" => new = f
  /\ files[f].setting = "cleared" => new = Empty

\* A call's file comes after the files done: right of them, or as it leads to them.
LEMMA DoneBefore ==
  ASSUME NEW inc \in IncludeGraphs, NEW n \in Nat \ {0}, NEW calls \in [1..n -> Files],
         NEW taken, NEW seen, NEW done, Followed(inc, taken, seen),
         Nested(inc, taken, calls, n), Visited(inc, taken, calls, n, seen, done),
         NEW g \in done, g # calls[n]
  PROVE  LeftOf(inc, g, calls[n]) \/ (taken[calls[n]] > 0 /\ calls[n] \in Ancestors(inc, g))
  <1>0. n \in 1..n /\ calls[n] \in Files /\ calls[n] \in Reached(inc)
    BY DEF Visited
  <1>1. PICK k \in 1..n : \E i \in 1..taken[calls[k]] :
          g \in Subtree(inc, inc[calls[k]][i]) /\ (k < n => i < taken[calls[k]])
    BY DEF Visited
  <1>2. PICK a \in Files : a = calls[k] /\ a \in Reached(inc)
    BY DEF Visited
  <1>3. PICK i \in 1..taken[a] : g \in Subtree(inc, inc[a][i]) /\ (k < n => i < taken[a])
    BY <1>1, <1>2
  <1>4. taken[a] \in Nat /\ DOMAIN inc[a] = 1..Len(inc[a]) /\ Len(inc[a]) \in Nat
                         /\ taken[a] <= Len(inc[a])
    BY ChildrenAre DEF Followed
  <1>5. i \in DOMAIN inc[a] /\ taken[a] \in DOMAIN inc[a] /\ taken[a] > 0
    BY <1>3, <1>4
  <1>6. inc[a][i] \in Children(inc, a) /\ inc[a][taken[a]] \in Files /\ inc[a][i] \in Files
    BY <1>5, ChildrenAre
  <1>7. CASE k < n
    <2>1. k \in 1..(n - 1) /\ k + 1 \in 1..n /\ k + 1 <= n
      BY <1>7
    <2>2. calls[k + 1] = inc[a][taken[a]]
      BY <1>2, <2>1, Zenon DEF Nested
    <2>3. calls[n] \in Subtree(inc, calls[k + 1])
      BY <1>0, <2>1, Zenon DEF Nested
    <2> QED
      BY <1>2, <1>3, <1>5, <1>7, <2>2, <2>3 DEF LeftOf
  <1>8. CASE k = n
    <2>1. g \in Subtree(inc, a)
      BY <1>3, <1>6, SubtreeClosed, SubtreeTransitive
    <2> QED
      BY <1>2, <1>5, <1>8, <2>1 DEF Ancestors
  <1> QED
    BY <1>7, <1>8

\* The setting after the call of a file that all files seen before precede.
LEMMA AssignedAfter ==
  ASSUME NEW inc, NEW files, NEW f, NEW seen, NEW value, NEW value2,
         Assigned(inc, files, seen, value), f \notin seen, Sets(files, f, value, value2),
         \A g \in seen : Precedes(inc, g, f)
  PROVE  Assigned(inc, files, seen \cup {f}, value2)
  <1>1. CASE files[f].setting = "kept"
    <2>1. value2 = value
      BY <1>1 DEF Sets
    <2>2. CASE value = Default /\ \A g \in seen : files[g].setting = "kept"
      BY <1>1, <2>1, <2>2 DEF Assigned
    <2>3. CASE \E s \in seen :
                 /\ files[s].setting # "kept"
                 /\ value = IF files[s].setting = "set" THEN s ELSE Empty
                 /\ \A g \in seen \ {s} : files[g].setting # "kept" => Precedes(inc, g, s)
      BY <1>1, <2>1, <2>3 DEF Assigned
    <2> QED
      BY <2>2, <2>3 DEF Assigned
  <1>2. CASE files[f].setting # "kept"
    <2>1. value2 = IF files[f].setting = "set" THEN f ELSE Empty
      BY <1>2 DEF Sets
    <2> QED
      BY <1>2, <2>1 DEF Assigned
  <1> QED
    BY <1>1, <1>2

\* The first call.
LEMMA FirstCall ==
  ASSUME NEW inc \in IncludeGraphs, NEW files, NEW taken, NEW calls, NEW calls2 \in [1..1 -> Files],
         NEW value, NEW value2,
         Parsed(inc, files, taken, calls, 0, {}, {}, value),
         calls2[1] = Main, files[Main].trouble \notin {"insecure", "syntax"},
         Sets(files, Main, value, value2)
  PROVE  Parsed(inc, files, taken, calls2, 1, {Main}, {}, value2)
  <1>1. Followed(inc, taken, {Main})
    BY DEF Parsed, Followed
  <1>2. Nested(inc, taken, calls2, 1)
    BY SubtreeClosed DEF Nested
  <1>3. Visited(inc, taken, calls2, 1, {Main}, {})
    BY ReachedAre DEF Visited
  <1>4. Accepted(inc, files, calls2, 1, {Main}, {})
    BY AncestorsOfMain DEF Accepted
  <1>5. Assigned(inc, files, {} \cup {Main}, value2)
    BY AssignedAfter DEF Parsed
  <1>6. {} \cup {Main} = {Main}
    OBVIOUS
  <1> QED
    BY <1>1, <1>2, <1>3, <1>4, <1>5, <1>6 DEF Parsed

\* The step to the file f of the next directive of the innermost call's file a.
Step(inc, taken, taken2, calls, calls2, n, f) ==
  LET a == calls[n] IN
  /\ calls \in [1..n -> Files] /\ calls2 \in [1..(n + 1) -> Files]
  /\ \A k \in 1..n : calls2[k] = calls[k]
  /\ calls2[n + 1] = f
  /\ taken2 \in [Files -> Nat] /\ taken2[a] = taken[a] + 1
  /\ \A g \in Files : g # a => taken2[g] = taken[g]
  /\ taken[a] + 1 \in DOMAIN inc[a] /\ f = inc[a][taken[a] + 1]

\* The files of all calls lead to it.
LEMMA CallsLeadTo ==
  ASSUME NEW inc \in IncludeGraphs, NEW n \in Nat \ {0}, NEW calls, NEW calls2,
         NEW taken, NEW taken2, NEW f,
         Nested(inc, taken, calls, n), Step(inc, taken, taken2, calls, calls2, n, f)
  PROVE  /\ f \in Files /\ f \in Children(inc, calls[n])
         /\ \A k \in 1..n : f \in Subtree(inc, calls[k])
  <1>1. PICK a \in Files : a = calls[n]
    BY DEF Step
  <1>2. f \in Children(inc, a) /\ f \in Files
    BY <1>1, ChildrenAre DEF Step
  <1>3. ASSUME NEW k \in 1..n PROVE f \in Subtree(inc, calls[k])
    <2>1. calls[k] \in Files /\ a \in Subtree(inc, calls[k])
      BY <1>1 DEF Nested, Step
    <2> QED
      BY <1>2, <2>1, SubtreeClosed
  <1> QED
    BY <1>1, <1>2, <1>3

\* The next call: the directives followed.
LEMMA NextFollowed ==
  ASSUME NEW inc \in IncludeGraphs, NEW n \in Nat \ {0}, NEW calls, NEW calls2,
         NEW taken, NEW taken2, NEW f, NEW seen,
         Followed(inc, taken, seen), Step(inc, taken, taken2, calls, calls2, n, f),
         f \notin seen, seen \subseteq Files, calls[n] \in seen, Main \in seen
  PROVE  Followed(inc, taken2, seen \cup {f})
  <1>0. PICK a \in Files, p \in Nat :
          /\ a = calls[n] /\ p = taken[a] + 1 /\ taken2[a] = p /\ taken[a] \in Nat
          /\ f = inc[a][p] /\ a \in seen
    BY DEF Followed, Step
  <1>1. p \in 1..Len(inc[a]) /\ Len(inc[a]) \in Nat
    BY <1>0, ChildrenAre DEF Step
  <1>2. \A g \in Files : g # a => taken2[g] = taken[g]
    BY <1>0 DEF Step
  <1>3. taken \in [Files -> Nat] /\ taken2 \in [Files -> Nat]
    BY DEF Followed, Step
  <1>4. ASSUME NEW g \in Files, NEW i \in 1..taken2[g]
        PROVE  (g = a /\ i = p) \/ i \in 1..taken[g]
    BY <1>0, <1>2, <1>3
  <1>5. \A g \in Files : \A i \in 1..taken[g] : inc[g][i] \in seen /\ inc[g][i] # Main
    BY DEF Followed
  <1>6. \A g \in Files : taken2[g] <= Len(inc[g]) /\ (g \notin seen \cup {f} => taken2[g] = 0)
    BY <1>0, <1>1, <1>2 DEF Followed
  <1>7. \A g \in Files : \A i \in 1..taken2[g] : inc[g][i] \in (seen \cup {f}) \ {Main}
    BY <1>0, <1>4, <1>5
  <1>8. ASSUME NEW g \in Files, NEW h \in Files, NEW i \in 1..taken2[g], NEW j \in 1..taken2[h],
               inc[g][i] = inc[h][j]
        PROVE  g = h /\ i = j
    <2>1. CASE i \in 1..taken[g] /\ j \in 1..taken[h]
      BY <1>8, <2>1 DEF Followed
    <2>2. CASE (g = a /\ i = p) \/ (h = a /\ j = p)
      BY <1>0, <1>4, <1>5, <1>8, <2>2
    <2> QED
      BY <1>4, <2>1, <2>2
  <1>9. ASSUME NEW g \in (seen \cup {f}) \ {Main}
        PROVE  \E h \in seen \cup {f} : \E i \in 1..taken2[h] : g = inc[h][i]
    <2>1. CASE g = f
      <3>1. p \in 1..taken2[a]
        BY <1>0
      <3> QED
        BY <1>0, <2>1, <3>1
    <2>2. CASE g # f
      <3>1. PICK h \in seen : \E i \in 1..taken[h] : g = inc[h][i]
        BY <2>2 DEF Followed
      <3>2. PICK i \in 1..taken[h] : g = inc[h][i]
        BY <3>1
      <3>3. h \in Files
        OBVIOUS
      <3>4. i \in 1..taken2[h]
        BY <1>0, <1>2, <1>3, <3>3
      <3> QED
        BY <3>2, <3>4
    <2> QED
      BY <2>1, <2>2
  <1> QED
    BY <1>3, <1>6, <1>7, <1>8, <1>9 DEF Followed

\* The next call: the calls.
LEMMA NextNested ==
  ASSUME NEW inc \in IncludeGraphs, NEW n \in Nat \ {0}, NEW calls, NEW calls2,
         NEW taken, NEW taken2, NEW f, NEW done,
         Nested(inc, taken, calls, n), Step(inc, taken, taken2, calls, calls2, n, f),
         Apart(calls, n, done)
  PROVE  Nested(inc, taken2, calls2, n + 1)
  <1>1. calls2[1] = Main
    BY DEF Nested, Step
  <1>2. ASSUME NEW k \in 1..n
        PROVE  /\ taken2[calls2[k]] > 0
               /\ calls2[k + 1] = inc[calls2[k]][taken2[calls2[k]]]
    <2>1. CASE k = n
      <3>1. PICK a \in Files : a = calls[n]
        BY DEF Step
      <3>2. calls2[n] = a /\ taken2[a] = taken[a] + 1 /\ calls2[n + 1] = inc[a][taken[a] + 1]
        BY <3>1 DEF Step
      <3>3. taken[a] + 1 > 0
        BY <3>1, ChildrenAre DEF Step
      <3> QED
        BY <2>1, <3>2, <3>3
    <2>2. CASE k # n
      <3>1. k \in 1..(n - 1) /\ k + 1 \in 1..n /\ n \in 1..n
        BY <2>2
      <3>2. calls[k] # calls[n]
        BY <2>2, <3>1 DEF Apart
      <3>3. calls2[k] = calls[k] /\ calls2[k + 1] = calls[k + 1] /\ calls[k] \in Files
        BY <3>1 DEF Step
      <3>4. taken2[calls[k]] = taken[calls[k]]
        BY <3>2, <3>3, Zenon DEF Step
      <3>5. taken[calls[k]] > 0 /\ calls[k + 1] = inc[calls[k]][taken[calls[k]]]
        BY <3>1, Zenon DEF Nested
      <3> QED
        BY <3>3, <3>4, <3>5
    <2> QED
      BY <2>1, <2>2
  <1>3. ASSUME NEW k \in 1..(n + 1), NEW m \in 1..(n + 1), k <= m
        PROVE  calls2[m] \in Subtree(inc, calls2[k])
    <2>1. CASE m \in 1..n
      <3>1. k \in 1..n
        BY <1>3, <2>1
      <3>2. calls[m] \in Subtree(inc, calls[k])
        BY <1>3, <2>1, <3>1 DEF Nested
      <3> QED
        BY <2>1, <3>1, <3>2 DEF Step
    <2>2. CASE m = n + 1
      <3>1. calls2[m] = f /\ f \in Files
        BY <2>2, CallsLeadTo DEF Step
      <3>2. CASE k \in 1..n
        <4>1. calls2[k] = calls[k]
          BY <3>2 DEF Step
        <4> QED
          BY <3>1, <3>2, <4>1, CallsLeadTo
      <3>3. CASE k = n + 1
        BY <2>2, <3>1, <3>3, SubtreeClosed
      <3> QED
        BY <3>2, <3>3
    <2> QED
      BY <2>1, <2>2
  <1>4. (n + 1) - 1 = n
    OBVIOUS
  <1> QED
    BY <1>1, <1>2, <1>3, <1>4 DEF Nested

\* The next call: the files visited.
LEMMA NextVisited ==
  ASSUME NEW inc \in IncludeGraphs, NEW n \in Nat \ {0}, NEW calls, NEW calls2,
         NEW taken, NEW taken2, NEW f, NEW seen, NEW done,
         taken \in [Files -> Nat],
         Nested(inc, taken, calls, n), Visited(inc, taken, calls, n, seen, done),
         Step(inc, taken, taken2, calls, calls2, n, f), Apart(calls, n, done)
  PROVE  Visited(inc, taken2, calls2, n + 1, seen \cup {f}, done)
  <1>1. \A k \in 1..n : calls2[k] = calls[k] /\ calls[k] \in Files
    BY DEF Step
  <1>2. calls2[n + 1] = f /\ calls[n] \in Files /\ n \in 1..n
    BY DEF Step
  <1>3. seen \cup {f} = {calls2[k] : k \in 1..(n + 1)} \cup done
    <2>1. \A g : g \in {calls2[k] : k \in 1..(n + 1)} <=> (g = f \/ g \in {calls[k] : k \in 1..n})
      BY <1>1, <1>2
    <2> QED
      BY <2>1 DEF Visited
  <1>4. seen \subseteq Reached(inc) /\ seen # {} /\ Main \in seen /\ calls[n] \in Reached(inc)
    BY <1>2 DEF Visited
  <1>5. f \in Reached(inc)
    BY <1>4, CallsLeadTo, ReachedAre
  <1>6. ASSUME NEW g \in done PROVE taken2[g] = Len(inc[g])
    <2>1. g \in Files /\ g # calls[n]
      BY <1>2, <1>4, ReachedAre DEF Visited, Apart
    <2>2. taken2[g] = taken[g]
      BY <2>1 DEF Step
    <2> QED
      BY <2>2 DEF Visited
  <1>7. ASSUME NEW g \in done
        PROVE  \E k \in 1..(n + 1) : \E i \in 1..taken2[calls2[k]] :
                 /\ g \in Subtree(inc, inc[calls2[k]][i])
                 /\ k < n + 1 => i < taken2[calls2[k]]
    <2>1. PICK k \in 1..n : \E i \in 1..taken[calls[k]] :
            g \in Subtree(inc, inc[calls[k]][i]) /\ (k < n => i < taken[calls[k]])
      BY DEF Visited
    <2>2. PICK a \in Files : a = calls[k] /\ a = calls2[k]
      BY <1>1
    <2>3. PICK i \in 1..taken[a] : g \in Subtree(inc, inc[a][i]) /\ (k < n => i < taken[a])
      BY <2>1, <2>2
    <2>4. taken[a] \in Nat /\ taken2[a] \in Nat
      BY DEF Step
    <2>5. i \in 1..taken2[a] /\ i < taken2[a]
      <3>1. CASE k = n
        <4>1. taken2[a] = taken[a] + 1
          BY <2>2, <3>1 DEF Step
        <4> QED
          BY <2>4, <4>1
      <3>2. CASE k # n
        <4>1. a # calls[n]
          BY <1>2, <2>2, <3>2 DEF Apart
        <4>2. taken2[a] = taken[a]
          BY <4>1 DEF Step
        <4>3. k < n
          BY <3>2
        <4> QED
          BY <2>3, <2>4, <4>2, <4>3
      <3> QED
        BY <3>1, <3>2
    <2>6. k \in 1..(n + 1)
      OBVIOUS
    <2> QED
      BY <2>2, <2>3, <2>5, <2>6
  <1> QED
    BY <1>3, <1>4, <1>5, <1>6, <1>7 DEF Visited

\* The next call: the files are good, and it is one deeper than its caller.
LEMMA NextAccepted ==
  ASSUME NEW inc \in IncludeGraphs, NEW files, NEW n \in Nat \ {0}, NEW calls, NEW calls2,
         NEW taken, NEW taken2, NEW f, NEW seen, NEW done,
         Nested(inc, taken, calls, n), Visited(inc, taken, calls, n, seen, done),
         Accepted(inc, files, calls, n, seen, done),
         Step(inc, taken, taken2, calls, calls2, n, f),
         files[f].trouble \notin {"insecure", "syntax"}
  PROVE  Accepted(inc, files, calls2, n + 1, seen \cup {f}, done)
  <1>1. /\ \A g \in seen \cup {f} : files[g].trouble \notin {"insecure", "syntax"}
        /\ \A g \in done : files[g].trouble = "none"
        /\ IsTree(inc) => \A g \in done : Cardinality(Ancestors(inc, g)) < MaxDepth
    BY DEF Accepted
  <1>2. ASSUME IsTree(inc), NEW k \in 1..(n + 1)
        PROVE  Ancestors(inc, calls2[k]) = {calls2[j] : j \in 1..(k - 1)}
    <2>0. \A j \in 1..n : calls2[j] = calls[j]
      BY DEF Step
    <2>1. CASE k \in 1..n
      <3>1. Ancestors(inc, calls[k]) = {calls[j] : j \in 1..(k - 1)}
        BY <1>2, <2>1 DEF Accepted
      <3>2. \A j \in 1..(k - 1) : j \in 1..n
        BY <2>1
      <3> QED
        BY <2>0, <2>1, <3>1, <3>2
    <2>2. CASE k = n + 1
      <3>1. n \in 1..n /\ calls2[k] = f /\ k - 1 = n
        BY <2>2 DEF Step
      <3>2. calls[n] \in Reached(inc) /\ f \in Children(inc, calls[n])
        BY <3>1, CallsLeadTo DEF Visited
      <3>3. Ancestors(inc, f) = Ancestors(inc, calls[n]) \cup {calls[n]}
        BY <1>2, <3>2, AncestorsOfChild
      <3>4. Ancestors(inc, calls[n]) = {calls[j] : j \in 1..(n - 1)}
        BY <1>2, <3>1 DEF Accepted
      <3>5. {calls[j] : j \in 1..(n - 1)} \cup {calls[n]} = {calls2[j] : j \in 1..n}
        BY <2>0
      <3> QED
        BY <3>1, <3>3, <3>4, <3>5
    <2> QED
      BY <2>1, <2>2
  <1> QED
    BY <1>1, <1>2 DEF Accepted

\* The next call.
LEMMA NextCall ==
  ASSUME NEW inc \in IncludeGraphs, NEW files, NEW n \in Nat \ {0}, NEW calls, NEW calls2,
         NEW taken, NEW taken2, NEW f, NEW seen, NEW done, NEW value, NEW value2,
         Parsed(inc, files, taken, calls, n, seen, done, value),
         Step(inc, taken, taken2, calls, calls2, n, f), Apart(calls, n, done),
         f \notin seen, files[f].trouble \notin {"insecure", "syntax"},
         Sets(files, f, value, value2)
  PROVE  Parsed(inc, files, taken2, calls2, n + 1, seen \cup {f}, done, value2)
  <1>0. /\ Followed(inc, taken, seen) /\ Nested(inc, taken, calls, n)
        /\ Visited(inc, taken, calls, n, seen, done)
        /\ Accepted(inc, files, calls, n, seen, done) /\ Assigned(inc, files, seen, value)
    BY Zenon DEF Parsed
  <1>1. n \in 1..n /\ calls[n] \in seen /\ seen \subseteq Reached(inc) /\ Main \in seen
    <2>1. /\ seen = {calls[k] : k \in 1..n} \cup done /\ seen \subseteq Reached(inc)
          /\ seen # {} => Main \in seen
      BY <1>0, Zenon DEF Visited
    <2>2. n \in 1..n
      OBVIOUS
    <2> QED
      BY <2>1, <2>2
  <1>2. seen \subseteq Files
    BY <1>1, ReachedAre
  <1>3. Followed(inc, taken2, seen \cup {f})
    BY <1>0, <1>1, <1>2, NextFollowed
  <1>4. Nested(inc, taken2, calls2, n + 1)
    BY <1>0, NextNested
  <1>5. Visited(inc, taken2, calls2, n + 1, seen \cup {f}, done)
    <2>1. taken \in [Files -> Nat]
      BY <1>0 DEF Followed
    <2> QED
      BY <1>0, <2>1, NextVisited
  <1>6. Accepted(inc, files, calls2, n + 1, seen \cup {f}, done)
    BY <1>0, NextAccepted
  <1>7. ASSUME NEW g \in seen PROVE Precedes(inc, g, f)
    <2>1. g # f /\ g \in Reached(inc)
      BY <1>1
    <2>2. CASE g \in done
      <3>1. n + 1 \in Nat \ {0} /\ calls2 \in [1..(n + 1) -> Files] /\ f = calls2[n + 1]
        BY DEF Step
      <3>2. LeftOf(inc, g, f) \/ taken2[f] > 0
        BY <1>3, <1>4, <1>5, <2>1, <2>2, <3>1, DoneBefore
      <3>3. f \in Files /\ f # calls[n]
        BY <1>0, <1>1, CallsLeadTo
      <3>4. taken2[f] = taken[f]
        BY <3>3 DEF Step
      <3>5. taken[f] = 0
        BY <1>0, <3>3 DEF Followed
      <3> QED
        BY <3>2, <3>4, <3>5 DEF Precedes
    <2>3. CASE \E k \in 1..n : g = calls[k]
      BY <1>0, <2>1, <2>3, CallsLeadTo DEF Precedes, Ancestors
    <2> QED
      BY <1>0, <2>2, <2>3 DEF Visited
  <1>8. Assigned(inc, files, seen \cup {f}, value2)
    BY <1>0, <1>7, AssignedAfter
  <1> QED
    BY <1>3, <1>4, <1>5, <1>6, <1>8, Zenon DEF Parsed

\* The innermost call returns.
Return(calls, calls2, n) ==
  /\ calls \in [1..n -> Files] /\ calls2 \in [1..(n - 1) -> Files]
  /\ \A k \in 1..(n - 1) : calls2[k] = calls[k]

\* A return: the file is reached from the last directive of the caller's file.
LEMMA ReturnVisited ==
  ASSUME NEW inc \in IncludeGraphs, NEW n \in Nat \ {0}, NEW calls, NEW calls2,
         NEW taken, NEW seen, NEW done,
         taken \in [Files -> Nat], \A g \in Files : taken[g] <= Len(inc[g]),
         Nested(inc, taken, calls, n), Visited(inc, taken, calls, n, seen, done),
         Return(calls, calls2, n), taken[calls[n]] = Len(inc[calls[n]])
  PROVE  Visited(inc, taken, calls2, n - 1, seen, done \cup {calls[n]})
  <1>1. n \in 1..n /\ \A k \in 1..(n - 1) : k \in 1..n /\ calls2[k] = calls[k]
    BY DEF Return
  <1>2. \A k \in 1..n : k = n \/ k \in 1..(n - 1)
    OBVIOUS
  <1>3. seen = {calls2[k] : k \in 1..(n - 1)} \cup (done \cup {calls[n]})
    <2>1. seen = {calls[k] : k \in 1..n} \cup done
      BY DEF Visited
    <2> QED
      BY <1>1, <1>2, <2>1
  <1>4. \A g \in done \cup {calls[n]} : taken[g] = Len(inc[g])
    BY DEF Visited
  <1>5. ASSUME n - 1 > 0, NEW g \in done \cup {calls[n]}
        PROVE  \E k \in 1..(n - 1) : \E i \in 1..taken[calls2[k]] :
                 /\ g \in Subtree(inc, inc[calls2[k]][i])
                 /\ k < n - 1 => i < taken[calls2[k]]
    <2>1. PICK m \in 1..(n - 1) : m = n - 1 /\ m + 1 = n
      BY <1>5
    <2>2. PICK b \in Files : b = calls[m] /\ b = calls2[m]
      BY <1>1 DEF Return
    <2>3. taken[b] \in Nat /\ taken[b] > 0 /\ calls[n] = inc[b][taken[b]]
      BY <2>1, <2>2 DEF Nested
    <2>4. calls[n] \in Files
      BY <1>1 DEF Return
    <2>5. CASE g \in Subtree(inc, calls[n])
      BY <2>1, <2>2, <2>3, <2>5
    <2>6. CASE g \notin Subtree(inc, calls[n])
      <3>1. g \in done
        BY <2>4, <2>6, SubtreeClosed
      <3>2. PICK k \in 1..n : \E i \in 1..taken[calls[k]] :
              g \in Subtree(inc, inc[calls[k]][i]) /\ (k < n => i < taken[calls[k]])
        BY <3>1 DEF Visited
      <3>3. PICK a \in Files : a = calls[k] /\ a \in Reached(inc)
        <4>1. calls[k] \in Files
          BY DEF Return
        <4> QED
          BY <4>1 DEF Visited
      <3>4. PICK i \in 1..taken[a] : g \in Subtree(inc, inc[a][i]) /\ (k < n => i < taken[a])
        BY <3>2, <3>3
      <3>5. CASE k = n
        <4>1. taken[a] \in Nat /\ taken[a] <= Len(inc[a])
          OBVIOUS
        <4>2. inc[a][i] \in Children(inc, a)
          BY <4>1, ChildrenAre
        <4>3. g \in Subtree(inc, a)
          BY <3>4, <4>2, SubtreeClosed, SubtreeTransitive
        <4> QED
          BY <2>6, <3>3, <3>5, <4>3
      <3>6. CASE k # n
        <4>1. k \in 1..(n - 1) /\ k < n
          BY <3>6
        <4>2. a = calls2[k]
          BY <1>1, <3>3, <4>1
        <4> QED
          BY <3>4, <4>1, <4>2
      <3> QED
        BY <3>5, <3>6
    <2> QED
      BY <2>5, <2>6
  <1> QED
    BY <1>3, <1>4, <1>5 DEF Visited

\* A return: the file is good, and as deep as there were calls before its own.
LEMMA ReturnAccepted ==
  ASSUME NEW inc \in IncludeGraphs, NEW files, NEW n \in Nat \ {0}, n <= MaxDepth,
         NEW calls, NEW calls2, NEW seen, NEW done,
         Accepted(inc, files, calls, n, seen, done),
         Return(calls, calls2, n), files[calls[n]].trouble = "none"
  PROVE  Accepted(inc, files, calls2, n - 1, seen, done \cup {calls[n]})
  <1>1. /\ \A g \in seen : files[g].trouble \notin {"insecure", "syntax"}
        /\ \A g \in done \cup {calls[n]} : files[g].trouble = "none"
        /\ IsTree(inc) => \A g \in done : Cardinality(Ancestors(inc, g)) < MaxDepth
    BY DEF Accepted
  <1>2. n \in 1..n /\ \A k \in 1..(n - 1) : k \in 1..n /\ calls2[k] = calls[k]
    BY DEF Return
  <1>3. ASSUME IsTree(inc), NEW k \in 1..(n - 1)
        PROVE  Ancestors(inc, calls2[k]) = {calls2[j] : j \in 1..(k - 1)}
    <2>1. Ancestors(inc, calls[k]) = {calls[j] : j \in 1..(k - 1)}
      BY <1>2, <1>3 DEF Accepted
    <2>2. \A j \in 1..(k - 1) : j \in 1..(n - 1)
      OBVIOUS
    <2> QED
      BY <1>2, <2>1, <2>2
  <1>4. ASSUME IsTree(inc) PROVE Cardinality(Ancestors(inc, calls[n])) < MaxDepth
    <2>1. PICK A : A = Ancestors(inc, calls[n])
      OBVIOUS
    <2>2. A = {calls[j] : j \in 1..(n - 1)}
      BY <1>2, <1>4, <2>1 DEF Accepted
    <2>3. calls2 \in Surjection(1..(n - 1), A)
      BY <1>2, <2>2 DEF Surjection, Return
    <2>4. PICK m \in Nat : m = n - 1
      OBVIOUS
    <2>5. IsFiniteSet(1..m) /\ Cardinality(1..m) = m
      BY FS_Interval
    <2>6. IsFiniteSet(A) /\ Cardinality(A) <= m
      BY <2>3, <2>4, <2>5, FS_Surjection
    <2>7. Cardinality(A) \in Nat
      BY <2>6, FS_CardinalityType
    <2> QED
      BY <2>1, <2>4, <2>6, <2>7
  <1> QED
    BY <1>1, <1>3, <1>4 DEF Accepted

\* A return.
LEMMA ReturnCall ==
  ASSUME NEW inc \in IncludeGraphs, NEW files, NEW n \in Nat \ {0}, n <= MaxDepth,
         NEW calls, NEW calls2, NEW taken, NEW seen, NEW done, NEW value,
         Parsed(inc, files, taken, calls, n, seen, done, value), Return(calls, calls2, n),
         taken[calls[n]] = Len(inc[calls[n]]), files[calls[n]].trouble = "none"
  PROVE  Parsed(inc, files, taken, calls2, n - 1, seen, done \cup {calls[n]}, value)
  <1>0. /\ Followed(inc, taken, seen) /\ Nested(inc, taken, calls, n)
        /\ Visited(inc, taken, calls, n, seen, done)
        /\ Accepted(inc, files, calls, n, seen, done) /\ Assigned(inc, files, seen, value)
    BY Zenon DEF Parsed
  <1>1. taken \in [Files -> Nat] /\ \A g \in Files : taken[g] <= Len(inc[g])
    BY <1>0 DEF Followed
  <1>2. Visited(inc, taken, calls2, n - 1, seen, done \cup {calls[n]})
    BY <1>0, <1>1, ReturnVisited
  <1>3. Accepted(inc, files, calls2, n - 1, seen, done \cup {calls[n]})
    BY <1>0, ReturnAccepted
  <1>4. Nested(inc, taken, calls2, n - 1)
    BY <1>0 DEF Nested, Return
  <1> QED
    BY <1>0, <1>2, <1>3, <1>4, Zenon DEF Parsed

-----------------------------------------------------------------------------
(***************************************************************************)
(* What a refusal, and the end, say about the files.                       *)
(***************************************************************************)

\* A bad file.
LEMMA BadFile ==
  ASSUME NEW inc, NEW files, NEW f \in Reached(inc), files[f].trouble # "none"
  PROVE  ~Meaningful(inc, files)
  BY DEF Meaningful

\* A directive that leads to a file seen before.
LEMMA SeenTwice ==
  ASSUME NEW inc \in IncludeGraphs, NEW files, NEW taken, NEW seen, NEW a \in seen, NEW f \in seen,
         Followed(inc, taken, seen), seen \subseteq Reached(inc),
         taken[a] + 1 \in DOMAIN inc[a], f = inc[a][taken[a] + 1]
  PROVE  ~Meaningful(inc, files)
  <1> SUFFICES ASSUME IsTree(inc) PROVE FALSE
    BY DEF Meaningful
  <1>1. a \in Files /\ taken[a] \in Nat
    BY ReachedAre DEF Followed
  <1>2. PICK p \in Nat : p = taken[a] + 1
    BY <1>1
  <1>3. f # Main
    BY <1>2 DEF IsTree
  <1>4. PICK g \in seen : \E i \in 1..taken[g] : f = inc[g][i]
    <2>1. \A c \in seen \ {Main} : \E g \in seen : \E i \in 1..taken[g] : c = inc[g][i]
      BY Zenon DEF Followed
    <2> QED
      BY <1>3, <2>1
  <1>5. PICK i \in 1..taken[g] : f = inc[g][i]
    BY <1>4
  <1>6. g \in Files
    BY ReachedAre
  <1>7. taken[g] \in Nat /\ taken[g] <= Len(inc[g])
    BY <1>6 DEF Followed
  <1>8. i \in DOMAIN inc[g]
    BY <1>6, <1>7, ChildrenAre
  <1>9. g = a /\ i = p
    <2>1. g \in Reached(inc) /\ a \in Reached(inc) /\ p \in DOMAIN inc[a] /\ inc[g][i] = inc[a][p]
      BY <1>2, <1>5
    <2> QED
      BY <1>8, <2>1, Zenon DEF IsTree
  <1> QED
    BY <1>1, <1>2, <1>9

\* The files that lead to a file can be counted.
LEMMA AncestorsFinite ==
  ASSUME NEW inc \in IncludeGraphs, NEW f
  PROVE  IsFiniteSet(Ancestors(inc, f)) /\ Cardinality(Ancestors(inc, f)) \in Nat
  <1>1. Ancestors(inc, f) \in SUBSET Files
    BY ReachedAre DEF Ancestors
  <1> QED
    BY <1>1, FS_Subset, FS_CardinalityType

\* A file as many levels down as MAX_DEPTH.
LEMMA DeepFile ==
  ASSUME NEW inc \in IncludeGraphs, NEW files, NEW n \in Nat, n >= MaxDepth,
         NEW calls \in [1..n -> Reached(inc)], NEW f \in Reached(inc),
         \A k, m \in 1..n : calls[k] = calls[m] => k = m,
         \A k \in 1..n : calls[k] # f /\ f \in Subtree(inc, calls[k])
  PROVE  ~Meaningful(inc, files)
  <1>1. PICK A : A = Ancestors(inc, f)
    OBVIOUS
  <1>2. IsFiniteSet(A) /\ Cardinality(A) \in Nat
    BY <1>1, AncestorsFinite
  <1>3. calls \in Injection(1..n, A)
    BY <1>1 DEF Injection, IsInjective, Ancestors
  <1>4. Cardinality(1..n) = n
    BY FS_Interval
  <1>5. n <= Cardinality(A)
    BY <1>2, <1>3, <1>4, FS_Injection
  <1>6. ~(Cardinality(A) < MaxDepth)
    BY <1>2, <1>5
  <1> QED
    BY <1>1, <1>6 DEF Meaningful

\* When all calls have returned, all files were read and they form a tree.
LEMMA EndTree ==
  ASSUME NEW inc \in IncludeGraphs, NEW files, NEW taken, NEW calls, NEW seen, NEW done, NEW value,
         Parsed(inc, files, taken, calls, 0, seen, done, value), seen # {}
  PROVE  /\ done = Reached(inc) /\ seen = Reached(inc) /\ IsTree(inc)
         /\ \A f \in Reached(inc) : files[f].trouble = "none"
         /\ \A f \in Reached(inc) : Cardinality(Ancestors(inc, f)) < MaxDepth
  <1>0. /\ Followed(inc, taken, seen) /\ Visited(inc, taken, calls, 0, seen, done)
        /\ Accepted(inc, files, calls, 0, seen, done)
    BY DEF Parsed
  <1>1. seen = done /\ seen \subseteq Reached(inc) /\ Main \in seen /\ seen \subseteq Files
    BY <1>0, ReachedAre DEF Visited
  <1>2. \A g \in seen : g \in Files /\ taken[g] = Len(inc[g]) /\ DOMAIN inc[g] = 1..taken[g]
    BY <1>0, <1>1, ChildrenAre DEF Visited
  <1>3. \A g \in seen : \A i \in DOMAIN inc[g] : inc[g][i] \in seen /\ inc[g][i] # Main
    BY <1>0, <1>2 DEF Followed
  <1>4. Closed(inc, seen)
    BY <1>3 DEF Closed, Children
  <1>5. seen = Reached(inc)
    BY <1>1, <1>4, SubtreeLeast DEF Reached
  <1>6. IsTree(inc)
    <2>1. \A g, h \in Files : \A i \in 1..taken[g], j \in 1..taken[h] :
            inc[g][i] = inc[h][j] => g = h /\ i = j
      BY <1>0, Zenon DEF Followed
    <2>2. ASSUME NEW g \in Reached(inc), NEW h \in Reached(inc),
                 NEW i \in DOMAIN inc[g], NEW j \in DOMAIN inc[h]
          PROVE  inc[g][i] # Main /\ (inc[g][i] = inc[h][j] => g = h /\ i = j)
      <3>1. g \in seen /\ h \in seen
        BY <1>5
      <3>2. g \in Files /\ h \in Files /\ i \in 1..taken[g] /\ j \in 1..taken[h]
        BY <1>2, <3>1
      <3>3. inc[g][i] # Main
        BY <1>3, <3>1
      <3> QED
        BY <2>1, <3>2, <3>3
    <2> QED
      BY <2>2, Zenon DEF IsTree
  <1>7. /\ \A f \in Reached(inc) : files[f].trouble = "none"
        /\ \A f \in Reached(inc) : Cardinality(Ancestors(inc, f)) < MaxDepth
    BY <1>0, <1>1, <1>5, <1>6 DEF Accepted
  <1> QED
    BY <1>1, <1>5, <1>6, <1>7

\* The value of the setting is then that of the one file that assigns it last.
LEMMA EndSetting ==
  ASSUME NEW inc \in IncludeGraphs, IsTree(inc), NEW files \in [Files -> Contents], NEW value,
         Assigned(inc, files, Reached(inc), value)
  PROVE  /\ value = Default => LastSetters(inc, files) = {}
         /\ value = Empty => \E s \in LastSetters(inc, files) : files[s].setting = "cleared"
         /\ value \notin {Default, Empty} =>
              LastSetters(inc, files) = {value} /\ files[value].setting = "set"
  <1>1. CASE value = Default /\ \A g \in Reached(inc) : files[g].setting = "kept"
    <2>1. LastSetters(inc, files) = {}
      BY <1>1 DEF LastSetters, Setters
    <2> QED
      BY <1>1, <2>1 DEF Default, Empty
  <1>2. CASE \E s \in Reached(inc) :
               /\ files[s].setting # "kept"
               /\ value = IF files[s].setting = "set" THEN s ELSE Empty
               /\ \A g \in Reached(inc) \ {s} : files[g].setting # "kept" => Precedes(inc, g, s)
    <2>1. PICK s \in Reached(inc) :
               /\ files[s].setting # "kept"
               /\ value = IF files[s].setting = "set" THEN s ELSE Empty
               /\ \A g \in Reached(inc) \ {s} : files[g].setting # "kept" => Precedes(inc, g, s)
      BY <1>2
    <2>2. s \in Files /\ files[s].setting \in {"kept", "set", "cleared"}
      BY ReachedAre DEF Contents
    <2>3. s \in LastSetters(inc, files)
      BY <2>1 DEF LastSetters, Setters, Precedes
    <2>4. ASSUME NEW g \in LastSetters(inc, files), g # s PROVE FALSE
      <3>1. g \in Reached(inc) /\ files[g].setting # "kept"
        BY DEF LastSetters, Setters
      <3>2. Precedes(inc, s, g)
        BY <2>1, <2>4 DEF LastSetters, Setters, Precedes
      <3>3. Precedes(inc, g, s)
        BY <2>1, <2>4, <3>1
      <3> QED
        BY <3>1, <3>2, <3>3, PrecedesOneWay
    <2>5. LastSetters(inc, files) = {s}
      BY <2>3, <2>4
    <2>6. s # Default /\ s # Empty /\ Empty # Default
      BY <2>2, NamesAssumption DEF Default, Empty
    <2> QED
      BY <2>1, <2>2, <2>5, <2>6
  <1> QED
    BY <1>1, <1>2 DEF Assigned

\* parse_file accepts what it has got through unless a setting is empty.
LEMMA EndMeaning ==
  ASSUME NEW inc \in IncludeGraphs, NEW files \in [Files -> Contents], NEW taken, NEW calls,
         NEW seen, NEW done, NEW value,
         Parsed(inc, files, taken, calls, 0, seen, done, value), seen # {}
  PROVE  /\ Meaningful(inc, files) <=> value # Empty
         /\ value # Empty =>
              LastSetters(inc, files) = IF value = Default THEN {} ELSE {value}
  <1>1. /\ seen = Reached(inc) /\ IsTree(inc)
        /\ \A f \in Reached(inc) : files[f].trouble = "none"
        /\ \A f \in Reached(inc) : Cardinality(Ancestors(inc, f)) < MaxDepth
    BY EndTree
  <1>2. Assigned(inc, files, Reached(inc), value)
    BY <1>1 DEF Parsed
  <1>3. /\ value = Default => LastSetters(inc, files) = {}
        /\ value = Empty => \E s \in LastSetters(inc, files) : files[s].setting = "cleared"
        /\ value \notin {Default, Empty} =>
              LastSetters(inc, files) = {value} /\ files[value].setting = "set"
    BY <1>1, <1>2, EndSetting
  <1>4. Meaningful(inc, files)
          <=> \A f \in LastSetters(inc, files) : files[f].setting # "cleared"
    BY <1>1 DEF Meaningful
  <1> QED
    BY <1>3, <1>4

-----------------------------------------------------------------------------
(***************************************************************************)
(* The inductive invariant for the outcome: what parse_file has found out  *)
(* so far, and that it refuses only files that have no meaning.            *)
(***************************************************************************)
Reading ==
  \E taken \in [Files -> Nat] :
    /\ Pending(Graph, taken, stack)
    /\ Parsed(Graph, disk, taken, CallFiles(stack), Len(stack), included, Done(programs),
              setting)

Outcome ==
  /\ result # "error" => Reading /\ Ordered(Graph, programs)
  /\ result = "error" => ~Meaningful(Graph, disk)
  /\ result = "ok" => setting # Empty /\ included # {}

\* The include files of the files.
LEMMA GraphType ==
  ASSUME TypeOK
  PROVE  /\ Graph \in IncludeGraphs /\ \A f \in Files : Graph[f] = Includes(f)
         /\ disk \in [Files -> Contents]
  <1>1. \A f \in Files : Includes(f) \in Seq(Files)
    BY IncludesType
  <1> QED
    BY <1>1 DEF Graph, IncludeGraphs, TypeOK

\* pt_get.
LEMMA SettingSets ==
  ASSUME TypeOK, NEW f \in Files
  PROVE  Sets(disk, f, setting, SettingAfter(f))
  <1>1. disk[f].setting \in {"kept", "set", "cleared"}
    BY DEF TypeOK, Contents
  <1>2. CASE disk[f].setting = "kept"
    BY <1>2 DEF SettingAfter, Sets
  <1>3. CASE disk[f].setting = "set"
    BY <1>3 DEF SettingAfter, Sets
  <1>4. CASE disk[f].setting = "cleared"
    BY <1>4 DEF SettingAfter, Sets
  <1> QED
    BY <1>1, <1>2, <1>3, <1>4

\* The files of calls are files, one for each call.
LEMMA CallFilesType ==
  ASSUME NEW frames \in Seq(Frames)
  PROVE  /\ CallFiles(frames) \in [1..Len(frames) -> Files] /\ Len(frames) \in Nat
         /\ DOMAIN frames = 1..Len(frames)
         /\ \A k \in 1..Len(frames) : /\ frames[k] \in Frames
                                      /\ CallFiles(frames)[k] = frames[k].file
  <1>1. PICK n \in Nat : n = Len(frames) /\ DOMAIN frames = 1..n
    OBVIOUS
  <1>2. \A k \in 1..n : frames[k] \in Frames
    BY <1>1
  <1>3. \A k \in 1..n : frames[k].file \in Files
    BY <1>2 DEF Frames
  <1>4. CallFiles(frames) = [k \in 1..n |-> frames[k].file]
    BY <1>1 DEF CallFiles
  <1> QED
    BY <1>1, <1>2, <1>3, <1>4

\* A frame is not concerned by the directives of other files.
LEMMA RestSame ==
  ASSUME NEW inc, NEW taken, NEW taken2, NEW frame, Rest(inc, taken, frame),
         taken2[frame.file] = taken[frame.file]
  PROVE  Rest(inc, taken2, frame)
  BY DEF Rest

\* The next directive of a frame.
LEMMA RestNext ==
  ASSUME NEW inc \in IncludeGraphs, NEW taken \in [Files -> Nat], NEW taken2 \in [Files -> Nat],
         NEW f \in Files, NEW left \in Seq(Files), left # <<>>,
         Rest(inc, taken, [file |-> f, left |-> left]), taken2[f] = taken[f] + 1
  PROVE  /\ taken[f] + 1 \in DOMAIN inc[f] /\ Head(left) = inc[f][taken[f] + 1]
         /\ Rest(inc, taken2, [file |-> f, left |-> Tail(left)])
  <1>1. /\ Len(left) = Len(inc[f]) - taken[f]
        /\ \A j \in DOMAIN left : left[j] = inc[f][taken[f] + j]
    BY DEF Rest
  <1>2. /\ Len(left) \in Nat \ {0} /\ DOMAIN left = 1..Len(left) /\ Head(left) = left[1]
        /\ Tail(left) \in Seq(Files) /\ Len(Tail(left)) = Len(left) - 1
        /\ DOMAIN Tail(left) = 1..(Len(left) - 1)
        /\ \A j \in 1..(Len(left) - 1) : Tail(left)[j] = left[j + 1]
    BY HeadTailProperties
  <1>3. inc[f] \in Seq(Files) /\ Len(inc[f]) \in Nat /\ DOMAIN inc[f] = 1..Len(inc[f])
    BY DEF IncludeGraphs
  <1>4. taken[f] + 1 \in DOMAIN inc[f] /\ Head(left) = inc[f][taken[f] + 1]
    <2>1. taken[f] \in Nat /\ 1 \in DOMAIN left
      BY <1>2
    <2>2. Head(left) = inc[f][taken[f] + 1]
      BY <1>1, <1>2, <2>1, Zenon
    <2>3. taken[f] + 1 \in 1..Len(inc[f])
      <3>1. /\ Len(left) = Len(inc[f]) - taken[f] /\ Len(left) \in Nat \ {0}
            /\ Len(inc[f]) \in Nat /\ taken[f] \in Nat
        BY <1>1, <1>2, <1>3, <2>1, Zenon
      <3> QED
        BY <3>1
    <2> QED
      BY <1>3, <2>2, <2>3, Zenon
  <1>5. Len(Tail(left)) = Len(inc[f]) - taken2[f]
    BY <1>1, <1>2, <1>3
  <1>6. ASSUME NEW j \in DOMAIN Tail(left) PROVE Tail(left)[j] = inc[f][taken2[f] + j]
    <2>1. j \in 1..(Len(left) - 1) /\ j + 1 \in DOMAIN left
      BY <1>2
    <2>2. Tail(left)[j] = inc[f][taken[f] + (j + 1)]
      BY <1>1, <1>2, <2>1
    <2>3. taken[f] + (j + 1) = taken2[f] + j
      BY <2>1
    <2> QED
      BY <2>2, <2>3
  <1> QED
    BY <1>4, <1>5, <1>6 DEF Rest

\* An exception: the files have no meaning.
LEMMA ThrowOutcome ==
  ASSUME Throw, ~Meaningful(Graph, disk)
  PROVE  Outcome'
  <1>1. Graph' = Graph /\ disk' = disk /\ result' = "error"
    BY DEF Throw, Graph, Includes
  <1>2. Meaningful(Graph, disk)' = Meaningful(Graph, disk)
    BY <1>1
  <1> QED
    BY <1>1, <1>2 DEF Outcome

\* Nothing was read yet.
LEMMA InitOutcome ==
  ASSUME Init
  PROVE  Outcome
  <1>1. TypeOK
    BY InitInv DEF Inv
  <1>2. PICK inc \in IncludeGraphs : inc = Graph
    BY <1>1, GraphType
  <1>3. PICK taken \in [Files -> Nat] : taken = [f \in Files |-> 0]
    OBVIOUS
  <1>4. /\ Followed(inc, taken, {})
    BY <1>3, ChildrenAre DEF Followed
  <1>5. PICK calls : calls = CallFiles(<<>>)
    OBVIOUS
  <1>6. Parsed(inc, disk, taken, calls, 0, {}, {}, Default)
    BY <1>4 DEF Parsed, Nested, Visited, Accepted, Assigned
  <1>7. stack = <<>> /\ included = {} /\ programs = <<>> /\ setting = Default /\ result = "none"
    BY DEF Init
  <1>8. Done(<<>>) = {} /\ Len(<<>>) = 0 /\ Pending(inc, taken, <<>>) /\ Ordered(inc, <<>>)
    BY DEF Done, Pending, Ordered
  <1>9. Reading
    BY <1>2, <1>5, <1>6, <1>7, <1>8 DEF Reading
  <1> QED
    BY <1>2, <1>7, <1>8, <1>9 DEF Outcome

\* parse_file.
LEMMA ParseFileOutcome ==
  ASSUME Inv, Outcome, ParseFile
  PROVE  Outcome'
  <1>1. result = "none" /\ included = {} /\ Enter(Main, <<>>) /\ TypeOK
    BY DEF ParseFile, Inv
  <1>2. PICK inc \in IncludeGraphs : inc = Graph /\ inc[Main] = Includes(Main)
    BY <1>1, GraphType
  <1>3. stack = <<>> /\ programs = <<>>
    <2>1. /\ stack \in Seq(Frames) /\ DOMAIN stack = {}
          /\ programs \in Seq(Files) /\ DOMAIN programs = {}
      BY <1>1 DEF Inv, TypeOK, CallsAreIncluded, ProgramsAreIncluded
    <2>2. ASSUME NEW S, NEW s \in Seq(S), DOMAIN s = {} PROVE s = <<>>
      <3>1. PICK n \in Nat : n = Len(s) /\ 1..n = {}
        BY <2>2
      <3>2. n # 0 => 1 \in 1..n
        OBVIOUS
      <3>3. n = 0
        BY <3>1, <3>2
      <3> QED
        BY <3>1, <3>3, EmptySeq
    <2> QED
      BY <2>1, <2>2
  <1>4. Main \in Reached(inc)
    BY ReachedAre
  <1>5. CASE Seen(Main) \/ Insecure(Main) \/ TooDeep(Len(<<>>)) \/ Malformed(Main)
    <2>1. Throw /\ ~Seen(Main) /\ Len(<<>>) = 0
      BY <1>1, <1>5 DEF Enter, Seen
    <2>2. CASE Insecure(Main) \/ Malformed(Main)
      <3>1. disk[Main].trouble # "none"
        BY <2>2 DEF Insecure, Malformed
      <3>2. ~Meaningful(inc, disk)
        BY <1>4, <3>1, BadFile
      <3> QED
        BY <1>2, <2>1, <3>2, ThrowOutcome
    <2>3. CASE TooDeep(0)
      <3>1. PICK none : none = [k \in 1..0 |-> Main]
        OBVIOUS
      <3>2. none \in [1..0 -> Reached(inc)] /\ 0 >= MaxDepth
        BY <2>3, <3>1 DEF TooDeep
      <3>3. ~Meaningful(inc, disk)
        <4>1. \A k \in 1..0 : FALSE
          OBVIOUS
        <4> QED
          BY <1>4, <3>2, <4>1, DeepFile
      <3> QED
        BY <1>2, <2>1, <3>3, ThrowOutcome
    <2> QED
      BY <1>5, <2>1, <2>2, <2>3
  <1>6. CASE ~(Seen(Main) \/ Insecure(Main) \/ TooDeep(Len(<<>>)) \/ Malformed(Main))
    <2>1. PICK taken \in [Files -> Nat] :
            Parsed(inc, disk, taken, CallFiles(stack), 0, {}, {}, setting)
      <3>1. Len(stack) = 0 /\ Done(programs) = {}
        BY <1>3 DEF Done
      <3> QED
        BY <1>1, <1>2, <3>1, Zenon DEF Outcome, Reading
    <2>2. PICK left \in Seq(Files) : left = Includes(Main)
      BY <1>1, IncludesType
    <2>3. PICK new \in Frames : new = [file |-> Main, left |-> left]
      BY DEF Frames
    <2>4. /\ included' = {Main} /\ setting' = SettingAfter(Main) /\ stack' = Append(<<>>, new)
          /\ disk' = disk /\ bare' = bare /\ programs' = programs /\ result' = result
      BY <1>1, <1>6, <2>2, <2>3 DEF Enter
    <2>5. /\ stack' \in Seq(Frames) /\ Len(stack') = 1 /\ DOMAIN stack' = 1..1 /\ stack'[1] = new
      BY <2>4
    <2>6. PICK calls \in [1..1 -> Files] : calls = CallFiles(stack') /\ calls[1] = Main
      <3>1. PICK frames \in Seq(Frames) : frames = stack' /\ Len(frames) = 1 /\ frames[1] = new
        BY <2>5
      <3>2. CallFiles(frames) \in [1..1 -> Files] /\ CallFiles(frames)[1] = frames[1].file
        <4>1. /\ CallFiles(frames) \in [1..Len(frames) -> Files]
              /\ \A k \in 1..Len(frames) : CallFiles(frames)[k] = frames[k].file
          BY CallFilesType, Zenon
        <4> QED
          BY <3>1, <4>1
      <3> QED
        BY <2>3, <3>1, <3>2
    <2>7. disk[Main].trouble \notin {"insecure", "syntax"}
      BY <1>6 DEF Insecure, Malformed
    <2>8. PICK value : value = setting' /\ Sets(disk, Main, setting, value)
      BY <1>1, <2>4, SettingSets
    <2>9. Parsed(inc, disk, taken, calls, 1, {Main}, {}, value)
      BY <2>1, <2>6, <2>7, <2>8, FirstCall
    <2>10. Graph' = inc
      BY <1>2, <2>4 DEF Graph, Includes
    <2>11. Pending(inc, taken, stack')
      <3>1. taken[Main] = 0
        BY <2>1 DEF Parsed, Followed
      <3>2. left = inc[Main] /\ Len(left) \in Nat /\ DOMAIN left = 1..Len(left)
        BY <1>2, <2>2
      <3>3. Rest(inc, taken, new)
        BY <2>3, <3>1, <3>2 DEF Rest
      <3> QED
        BY <2>5, <3>3 DEF Pending
    <2>12. Done(programs') = {} /\ Ordered(inc, programs')
      BY <1>3, <2>4 DEF Done, Ordered
    <2>13. Reading'
      <3>1. /\ Graph' = inc /\ disk' = disk /\ Len(stack') = 1 /\ included' = {Main}
            /\ Done(programs') = {} /\ setting' = value /\ CallFiles(stack') = calls
        BY <2>4, <2>5, <2>6, <2>8, <2>10, <2>12
      <3>2. Parsed(Graph', disk', taken, CallFiles(stack'), Len(stack'), included',
                   Done(programs'), setting')
        BY <2>9, <3>1
      <3> QED
        BY <2>10, <2>11, <3>2 DEF Reading
    <2> QED
      BY <1>1, <2>4, <2>10, <2>12, <2>13 DEF Outcome
  <1> QED
    BY <1>5, <1>6

\* The files of the calls, as the invariant sees them.
LEMMA CallsApart ==
  ASSUME Inv, NEW n \in Nat, n = Len(stack), NEW calls, calls = CallFiles(stack)
  PROVE  /\ calls \in [1..n -> Files] /\ DOMAIN stack = 1..n
         /\ \A k \in 1..n : calls[k] = stack[k].file
         /\ Apart(calls, n, Done(programs))
  <1>1. PICK frames \in Seq(Frames) : frames = stack
    BY DEF Inv, TypeOK
  <1>2. /\ CallFiles(frames) \in [1..Len(frames) -> Files]
        /\ DOMAIN frames = 1..Len(frames)
        /\ \A k \in 1..Len(frames) : CallFiles(frames)[k] = frames[k].file
    BY CallFilesType, Zenon
  <1>3. /\ calls \in [1..n -> Files] /\ DOMAIN stack = 1..n
        /\ \A k \in 1..n : calls[k] = stack[k].file
    BY <1>1, <1>2
  <1>4. \A k, m \in 1..n : calls[k] = calls[m] => k = m
    BY <1>3 DEF Inv, CallsDiffer
  <1>5. \A k \in 1..n : calls[k] \notin Done(programs)
    BY <1>3 DEF Inv, CallsHaveNoPrograms, Done
  <1> QED
    BY <1>3, <1>4, <1>5 DEF Apart

\* parse_includes_.
LEMMA IncludeOutcome ==
  ASSUME Inv, Outcome, Include
  PROVE  Outcome'
  <1>1. PICK n \in Nat \ {0} : /\ n = Len(stack) /\ DOMAIN stack = 1..n
                               /\ Top = stack[n] /\ Top \in Frames
    BY TopFacts DEF Include
  <1>2. result = "none" /\ TypeOK /\ stack \in Seq(Frames)
    BY DEF Inv, Include, TypeOK
  <1>3. PICK a \in Files, left \in Seq(Files) :
          stack[n] = [file |-> a, left |-> left] /\ left # <<>>
    <2>1. PICK top \in Frames : top = stack[n] /\ top.left # <<>>
      BY <1>1 DEF Include
    <2>2. /\ top = [file |-> top.file, left |-> top.left]
          /\ top.file \in Files /\ top.left \in Seq(Files)
      BY DEF Frames
    <2> QED
      BY <2>1, <2>2
  <1>4. PICK f \in Files, callers \in Seq(Frames) :
          /\ Enter(f, callers) /\ f = Head(left)
          /\ callers = [stack EXCEPT ![n] = [file |-> a, left |-> Tail(left)]]
    <2>1. PICK f \in Files, callers \in Seq(Frames) :
            /\ Enter(f, callers) /\ f = Head(Top.left)
            /\ callers = [stack EXCEPT ![Len(stack)].left = Tail(@)]
      BY IncludeFacts
    <2>2. Top.left = left
      BY <1>1, <1>3
    <2>3. callers = [stack EXCEPT ![n] = [stack[n] EXCEPT !.left = Tail(stack[n].left)]]
      BY <1>1, <2>1
    <2>4. [stack[n] EXCEPT !.left = Tail(stack[n].left)] = [file |-> a, left |-> Tail(left)]
      <3>1. PICK rest : rest = Tail(left)
        OBVIOUS
      <3>2. [[file |-> a, left |-> left] EXCEPT !.left = rest] = [file |-> a, left |-> rest]
        OBVIOUS
      <3>3. stack[n] = [file |-> a, left |-> left] /\ stack[n].left = left
        BY <1>3
      <3> QED
        BY <3>1, <3>2, <3>3
    <2> QED
      BY <2>1, <2>2, <2>3, <2>4
  <1>5. /\ DOMAIN callers = 1..n /\ Len(callers) = n
        /\ callers[n] = [file |-> a, left |-> Tail(left)]
        /\ \A k \in 1..n : k # n => callers[k] = stack[k]
    BY <1>1, <1>2, <1>4
  <1>6. PICK inc \in IncludeGraphs : inc = Graph /\ \A g \in Files : inc[g] = Includes(g)
    BY <1>2, GraphType
  <1>7. PICK calls : calls = CallFiles(stack)
    OBVIOUS
  <1>8. PICK done : done = Done(programs)
    OBVIOUS
  <1>9. PICK taken \in [Files -> Nat] :
          Pending(inc, taken, stack) /\ Parsed(inc, disk, taken, calls, n, included, done, setting)
    BY <1>1, <1>2, <1>6, <1>7, <1>8 DEF Outcome, Reading
  <1>10. /\ calls \in [1..n -> Files] /\ Apart(calls, n, done)
         /\ \A k \in 1..n : calls[k] = stack[k].file
    BY <1>1, <1>7, <1>8, CallsApart
  <1>11. n \in 1..n /\ calls[n] = a
    BY <1>3, <1>10
  <1>12. PICK taken2 \in [Files -> Nat] :
           taken2[a] = taken[a] + 1 /\ \A g \in Files : g # a => taken2[g] = taken[g]
    <2>1. [taken EXCEPT ![a] = taken[a] + 1] \in [Files -> Nat]
      OBVIOUS
    <2> QED
      BY <2>1
  <1>13. /\ taken[a] + 1 \in DOMAIN inc[a] /\ f = inc[a][taken[a] + 1]
         /\ Rest(inc, taken2, [file |-> a, left |-> Tail(left)])
    <2>1. Rest(inc, taken, [file |-> a, left |-> left])
      BY <1>1, <1>3, <1>9, <1>11 DEF Pending
    <2>2. left # <<>> /\ f = Head(left) /\ taken2[a] = taken[a] + 1
      BY <1>3, <1>4, <1>12
    <2>3. /\ taken[a] + 1 \in DOMAIN inc[a] /\ Head(left) = inc[a][taken[a] + 1]
          /\ Rest(inc, taken2, [file |-> a, left |-> Tail(left)])
      BY <2>1, <2>2, RestNext
    <2> QED
      BY <2>2, <2>3
  <1>14. PICK calls2 \in [1..(n + 1) -> Files] :
           calls2[n + 1] = f /\ \A k \in 1..n : calls2[k] = calls[k]
    <2>1. PICK c : c = [k \in 1..(n + 1) |-> IF k = n + 1 THEN f ELSE calls[k]]
      OBVIOUS
    <2>2. \A k \in 1..(n + 1) : k # n + 1 => k \in 1..n
      OBVIOUS
    <2>3. c \in [1..(n + 1) -> Files]
      BY <1>10, <2>1, <2>2
    <2>4. c[n + 1] = f /\ \A k \in 1..n : c[k] = calls[k]
      BY <2>1
    <2> QED
      BY <2>3, <2>4
  <1>15. Step(inc, taken, taken2, calls, calls2, n, f)
    BY <1>10, <1>11, <1>12, <1>13, <1>14 DEF Step
  <1>16. /\ Followed(inc, taken, included) /\ Nested(inc, taken, calls, n)
         /\ Visited(inc, taken, calls, n, included, done)
    BY <1>9, Zenon DEF Parsed
  <1>17. /\ f \in Children(inc, a) /\ \A k \in 1..n : f \in Subtree(inc, calls[k])
    BY <1>11, <1>15, <1>16, CallsLeadTo
  <1>18. included \subseteq Reached(inc) /\ a \in included /\ \A k \in 1..n : calls[k] \in included
    <2>1. included = {calls[k] : k \in 1..n} \cup done /\ included \subseteq Reached(inc)
      BY <1>16, Zenon DEF Visited
    <2> QED
      BY <1>11, <2>1
  <1>19. f \in Reached(inc)
    BY <1>17, <1>18, ReachedAre
  <1>20. CASE Seen(f) \/ Insecure(f) \/ TooDeep(Len(callers)) \/ Malformed(f)
    <2>1. Throw
      BY <1>4, <1>20 DEF Enter
    <2>2. ~Meaningful(inc, disk)
      <3>1. CASE Seen(f)
        <4>1. f \in included
          BY <3>1 DEF Seen
        <4> QED
          BY <1>13, <1>16, <1>18, <4>1, SeenTwice
      <3>2. CASE Insecure(f) \/ Malformed(f)
        <4>1. disk[f].trouble # "none"
          BY <3>2 DEF Insecure, Malformed
        <4> QED
          BY <1>19, <4>1, BadFile
      <3>3. CASE TooDeep(n) /\ ~Seen(f)
        <4>1. n >= MaxDepth /\ f \notin included
          BY <3>3 DEF TooDeep, Seen
        <4>2. calls \in [1..n -> Reached(inc)]
          BY <1>10, <1>18
        <4>3. \A k, m \in 1..n : calls[k] = calls[m] => k = m
          BY <1>10 DEF Apart
        <4>4. \A k \in 1..n : calls[k] # f /\ f \in Subtree(inc, calls[k])
          BY <1>17, <1>18, <4>1
        <4> QED
          BY <1>19, <4>1, <4>2, <4>3, <4>4, DeepFile
      <3> QED
        BY <1>5, <1>20, <3>1, <3>2, <3>3
    <2> QED
      BY <1>6, <2>1, <2>2, ThrowOutcome
  <1>21. CASE ~(Seen(f) \/ Insecure(f) \/ TooDeep(Len(callers)) \/ Malformed(f))
    <2>1. f \notin included /\ disk[f].trouble \notin {"insecure", "syntax"}
      BY <1>21 DEF Seen, Insecure, Malformed
    <2>2. PICK more \in Seq(Files) : more = Includes(f) /\ more = inc[f]
      BY <1>2, <1>6, IncludesType
    <2>3. PICK new \in Frames : new = [file |-> f, left |-> more]
      BY DEF Frames
    <2>4. /\ included' = included \cup {f} /\ setting' = SettingAfter(f)
          /\ stack' = Append(callers, new)
          /\ disk' = disk /\ bare' = bare /\ programs' = programs /\ result' = result
      BY <1>4, <1>21, <2>2, <2>3 DEF Enter
    <2>5. PICK frames \in Seq(Frames) :
            /\ frames = stack' /\ Len(frames) = n + 1 /\ DOMAIN frames = 1..(n + 1)
            /\ frames[n + 1] = new /\ \A k \in 1..n : frames[k] = callers[k]
      <3>1. /\ Append(callers, new) \in Seq(Frames)
            /\ Len(Append(callers, new)) = Len(callers) + 1
            /\ DOMAIN Append(callers, new) = 1..(Len(callers) + 1)
            /\ \A k \in 1..Len(callers) : Append(callers, new)[k] = callers[k]
            /\ Append(callers, new)[Len(callers) + 1] = new
        BY AppendProperties
      <3>2. Len(callers) = n /\ stack' = Append(callers, new)
        BY <1>5, <2>4
      <3> QED
        BY <3>1, <3>2
    <2>6. PICK value : value = setting' /\ Sets(disk, f, setting, value)
      BY <1>2, <2>4, SettingSets
    <2>7. Parsed(inc, disk, taken2, calls2, n + 1, included \cup {f}, done, value)
      BY <1>9, <1>10, <1>15, <2>1, <2>6, NextCall
    <2>8. Graph' = inc
      BY <1>6, <2>4 DEF Graph, Includes
    <2>9. \A k \in 1..(n - 1) : /\ k \in 1..n /\ frames[k] = stack[k] /\ calls[k] # a
      <3>1. \A k \in 1..(n - 1) : k \in 1..n /\ k # n
        OBVIOUS
      <3> QED
        BY <1>5, <1>10, <1>11, <2>5, <3>1, Zenon DEF Apart
    <2>10. Pending(inc, taken2, frames)
      <3>1. ASSUME NEW k \in 1..(n - 1) PROVE Rest(inc, taken2, frames[k])
        <4>1. Rest(inc, taken, stack[k])
          BY <1>1, <1>9, <2>9 DEF Pending
        <4>2. taken2[stack[k].file] = taken[stack[k].file]
          BY <1>10, <1>12, <2>9
        <4> QED
          BY <2>9, <4>1, <4>2, RestSame
      <3>2. Rest(inc, taken2, frames[n])
        BY <1>5, <1>11, <1>13, <2>5
      <3>3. Rest(inc, taken2, frames[n + 1])
        <4>1. taken[f] = 0
          BY <1>16, <2>1 DEF Followed
        <4>2. taken2[f] = 0
          BY <1>12, <1>18, <2>1, <4>1
        <4>3. Len(more) \in Nat /\ DOMAIN more = 1..Len(more)
          OBVIOUS
        <4>4. Rest(inc, taken2, new)
          BY <2>2, <2>3, <4>2, <4>3 DEF Rest
        <4> QED
          BY <2>5, <4>4
      <3>4. \A k \in 1..(n + 1) : k \in 1..(n - 1) \/ k = n \/ k = n + 1
        OBVIOUS
      <3> QED
        BY <2>5, <3>1, <3>2, <3>3, <3>4 DEF Pending
    <2>11. CallFiles(frames) = calls2
      <3>1. /\ CallFiles(frames) \in [1..Len(frames) -> Files]
            /\ \A k \in 1..Len(frames) : CallFiles(frames)[k] = frames[k].file
        BY CallFilesType, Zenon
      <3>2. ASSUME NEW k \in 1..n PROVE frames[k].file = calls[k]
        <4>1. frames[k] = callers[k] /\ calls[k] = stack[k].file
          BY <1>10, <2>5
        <4>2. CASE k = n
          <5>1. callers[n].file = a
            BY <1>5
          <5> QED
            BY <1>11, <4>1, <4>2, <5>1
        <4>3. CASE k # n
          BY <1>5, <4>1, <4>3, Zenon
        <4> QED
          BY <4>2, <4>3
      <3>3. frames[n + 1].file = f
        BY <2>3, <2>5
      <3>4. \A k \in 1..(n + 1) : frames[k].file = calls2[k]
        <4>1. \A k \in 1..(n + 1) : k \in 1..n \/ k = n + 1
          OBVIOUS
        <4> QED
          BY <1>14, <3>2, <3>3, <4>1, Zenon
      <3>5. PICK c : c = CallFiles(frames)
        OBVIOUS
      <3>6. c \in [1..(n + 1) -> Files] /\ \A k \in 1..(n + 1) : c[k] = calls2[k]
        <4>1. Len(frames) = n + 1
          BY <2>5
        <4> QED
          BY <3>1, <3>4, <3>5, <4>1, Zenon
      <3>7. c = calls2
        BY <3>6
      <3> QED
        BY <3>5, <3>7
    <2>12. Reading'
      <3>1. /\ Graph' = inc /\ disk' = disk /\ Len(stack') = n + 1 /\ included' = included \cup {f}
            /\ Done(programs') = done /\ setting' = value /\ CallFiles(stack') = calls2
        BY <1>8, <2>4, <2>5, <2>6, <2>8, <2>11
      <3>2. Parsed(Graph', disk', taken2, CallFiles(stack'), Len(stack'), included',
                   Done(programs'), setting')
        BY <2>7, <3>1
      <3>3. Pending(Graph', taken2, stack')
        BY <2>5, <2>8, <2>10
      <3> QED
        BY <3>2, <3>3 DEF Reading
    <2>13. Ordered(Graph', programs')
      BY <1>2, <1>6, <2>4, <2>8 DEF Outcome
    <2> QED
      BY <1>2, <2>4, <2>12, <2>13 DEF Outcome
  <1> QED
    BY <1>20, <1>21

\* The programs of a file after those of the files done.
LEMMA OrderedAfter ==
  ASSUME NEW inc, NEW progs \in Seq(Files), NEW f \in Files, Ordered(inc, progs),
         \A g \in Done(progs) : LeftOf(inc, g, f) \/ f \in Ancestors(inc, g)
  PROVE  /\ Ordered(inc, Append(progs, f))
         /\ Done(Append(progs, f)) = Done(progs) \cup {f}
  <1>1. PICK m \in Nat : m = Len(progs) /\ DOMAIN progs = 1..m
    OBVIOUS
  <1>2. PICK more : more = Append(progs, f)
    OBVIOUS
  <1>3. /\ DOMAIN more = 1..(m + 1) /\ more[m + 1] = f
        /\ \A i \in 1..m : more[i] = progs[i]
    BY <1>1, <1>2, AppendProperties
  <1>4. ASSUME NEW i \in 1..(m + 1), NEW j \in 1..(m + 1), i < j
        PROVE  LeftOf(inc, more[i], more[j]) \/ more[j] \in Ancestors(inc, more[i])
    <2>1. i \in 1..m /\ more[i] = progs[i]
      BY <1>3, <1>4
    <2>2. CASE j = m + 1
      <3>1. progs[i] \in Done(progs)
        BY <1>1, <2>1 DEF Done
      <3> QED
        BY <1>3, <2>1, <2>2, <3>1
    <2>3. CASE j \in 1..m
      BY <1>1, <1>3, <1>4, <2>1, <2>3 DEF Ordered
    <2> QED
      BY <2>2, <2>3
  <1>5. Ordered(inc, more)
    BY <1>3, <1>4 DEF Ordered
  <1>6. Done(more) = Done(progs) \cup {f}
    <2>1. \A i \in 1..(m + 1) : i \in 1..m \/ i = m + 1
      OBVIOUS
    <2>2. m + 1 \in 1..(m + 1) /\ \A i \in 1..m : i \in 1..(m + 1)
      OBVIOUS
    <2> QED
      BY <1>1, <1>3, <2>1, <2>2 DEF Done
  <1> QED
    BY <1>2, <1>5, <1>6

\* The end of parse_stream_, and of parse_file.
LEMMA LeaveOutcome ==
  ASSUME Inv, Outcome, Leave
  PROVE  Outcome'
  <1>1. PICK n \in Nat \ {0} : /\ n = Len(stack) /\ DOMAIN stack = 1..n
                               /\ Top = stack[n] /\ Top \in Frames
    BY TopFacts DEF Leave
  <1>2. /\ result = "none" /\ TypeOK /\ stack \in Seq(Frames) /\ programs \in Seq(Files)
        /\ Len(stack) <= MaxDepth
    BY DEF Inv, Leave, TypeOK
  <1>3. PICK a \in Files : a = Top.file /\ Top.left = <<>>
    BY <1>1 DEF Leave, Frames
  <1>4. PICK inc \in IncludeGraphs : inc = Graph
    BY <1>2, GraphType
  <1>5. PICK calls : calls = CallFiles(stack)
    OBVIOUS
  <1>6. PICK done : done = Done(programs)
    OBVIOUS
  <1>7. PICK taken \in [Files -> Nat] :
          Pending(inc, taken, stack) /\ Parsed(inc, disk, taken, calls, n, included, done, setting)
    BY <1>1, <1>2, <1>4, <1>5, <1>6 DEF Outcome, Reading
  <1>8. /\ calls \in [1..n -> Files] /\ Apart(calls, n, done)
        /\ \A k \in 1..n : calls[k] = stack[k].file
    BY <1>1, <1>5, <1>6, CallsApart
  <1>9. n \in 1..n /\ calls[n] = a
    BY <1>1, <1>3, <1>8
  <1>10. taken[a] = Len(inc[a])
    <2>1. Rest(inc, taken, Top)
      BY <1>1, <1>7, <1>9 DEF Pending
    <2>2. Len(Top.left) = 0
      BY <1>3
    <2>3. 0 = Len(inc[a]) - taken[a]
      BY <1>3, <2>1, <2>2 DEF Rest
    <2>4. Len(inc[a]) \in Nat /\ taken[a] \in Nat
      BY ChildrenAre
    <2> QED
      BY <2>3, <2>4
  <1>11. /\ Followed(inc, taken, included) /\ Nested(inc, taken, calls, n)
         /\ Visited(inc, taken, calls, n, included, done)
         /\ Accepted(inc, disk, calls, n, included, done)
    BY <1>7, Zenon DEF Parsed
  <1>12. a \in included /\ included \subseteq Reached(inc)
    <2>1. included = {calls[k] : k \in 1..n} \cup done /\ included \subseteq Reached(inc)
      BY <1>11, Zenon DEF Visited
    <2> QED
      BY <1>9, <2>1
  <1>13. CASE BadProgram(a)
    <2>1. Throw
      BY <1>3, <1>13 DEF Leave
    <2>2. disk[a].trouble # "none" /\ a \in Reached(inc)
      BY <1>12, <1>13 DEF BadProgram
    <2>3. ~Meaningful(inc, disk)
      BY <2>2, BadFile
    <2> QED
      BY <1>4, <2>1, <2>3, ThrowOutcome
  <1>14. CASE ~BadProgram(a)
    <2>1. /\ programs' = Append(programs, a) /\ stack' = SubSeq(stack, 1, n - 1)
          /\ disk' = disk /\ bare' = bare /\ setting' = setting /\ included' = included
          /\ result' = IF n > 1 THEN "none" ELSE IF Validated(setting) THEN "ok" ELSE "error"
      BY <1>1, <1>3, <1>14 DEF Leave, ProgramsAfter
    <2>2. PICK frames \in Seq(Frames) :
            /\ frames = stack' /\ Len(frames) = n - 1 /\ DOMAIN frames = 1..(n - 1)
            /\ \A k \in 1..(n - 1) : frames[k] = stack[k]
      <3>1. n = Len(stack) /\ stack \in Seq(Frames) /\ stack' = SubSeq(stack, 1, n - 1)
        BY <1>1, <1>2, <2>1
      <3>2. /\ stack' \in Seq(Frames) /\ Len(stack') = n - 1 /\ DOMAIN stack' = 1..(n - 1)
            /\ \A k \in 1..(n - 1) : stack'[k] = stack[k]
        BY <3>1, SubSeqProperties
      <3> QED
        BY <3>2
    <2>3. PICK calls2 : calls2 = CallFiles(frames)
      OBVIOUS
    <2>4. Return(calls, calls2, n)
      <3>1. /\ CallFiles(frames) \in [1..Len(frames) -> Files]
            /\ \A k \in 1..Len(frames) : CallFiles(frames)[k] = frames[k].file
        BY CallFilesType, Zenon
      <3>2. Len(frames) = n - 1
        BY <2>2
      <3>3. /\ calls2 \in [1..(n - 1) -> Files]
            /\ \A k \in 1..(n - 1) : calls2[k] = frames[k].file
        BY <2>3, <3>1, <3>2, Zenon
      <3>4. \A k \in 1..(n - 1) : k \in 1..n
        OBVIOUS
      <3>5. \A k \in 1..(n - 1) : calls2[k] = calls[k]
        BY <1>8, <2>2, <3>3, <3>4, Zenon
      <3> QED
        BY <1>8, <3>3, <3>5 DEF Return
    <2>5. disk[a].trouble = "none"
      <3>1. disk[a].trouble \in Troubles
        BY <1>2 DEF TypeOK, Contents
      <3>2. disk[a].trouble \notin {"insecure", "syntax"}
        BY <1>11, <1>12 DEF Accepted
      <3> QED
        BY <1>14, <3>1, <3>2 DEF Troubles, BadProgram
    <2>6. Parsed(inc, disk, taken, calls2, n - 1, included, done \cup {a}, setting)
      <3>1. n <= MaxDepth /\ taken[calls[n]] = Len(inc[calls[n]]) /\ disk[calls[n]].trouble = "none"
        BY <1>1, <1>2, <1>9, <1>10, <2>5
      <3>2. Parsed(inc, disk, taken, calls2, n - 1, included, done \cup {calls[n]}, setting)
        BY <1>7, <2>4, <3>1, ReturnCall
      <3> QED
        BY <1>9, <3>2
    <2>7. \A g \in done : LeftOf(inc, g, a) \/ a \in Ancestors(inc, g)
      <3>1. \A g \in done : g # calls[n]
        BY <1>8, <1>9 DEF Apart
      <3>2. \A g \in done : LeftOf(inc, g, calls[n]) \/ calls[n] \in Ancestors(inc, g)
        BY <1>8, <1>11, <3>1, DoneBefore
      <3> QED
        BY <1>9, <3>2
    <2>8. Ordered(inc, programs') /\ Done(programs') = done \cup {a}
      <3>1. Ordered(inc, programs)
        BY <1>2, <1>4 DEF Outcome
      <3>2. /\ Ordered(inc, Append(programs, a))
            /\ Done(Append(programs, a)) = Done(programs) \cup {a}
        BY <1>2, <1>6, <2>7, <3>1, OrderedAfter
      <3> QED
        BY <1>6, <2>1, <3>2
    <2>9. Graph' = inc
      BY <1>4, <2>1 DEF Graph, Includes
    <2>10. Reading'
      <3>1. /\ Graph' = inc /\ disk' = disk /\ Len(stack') = n - 1 /\ included' = included
            /\ Done(programs') = done \cup {a} /\ setting' = setting /\ CallFiles(stack') = calls2
        BY <2>1, <2>2, <2>3, <2>8, <2>9
      <3>2. Parsed(Graph', disk', taken, CallFiles(stack'), Len(stack'), included',
                   Done(programs'), setting')
        BY <2>6, <3>1
      <3>3. Pending(Graph', taken, stack')
        <4>1. \A k \in 1..(n - 1) : k \in DOMAIN stack
          BY <1>1
        <4>2. \A k \in 1..(n - 1) : Rest(inc, taken, stack'[k])
          BY <1>7, <2>2, <4>1 DEF Pending
        <4>3. DOMAIN stack' = 1..(n - 1)
          BY <2>2
        <4> QED
          BY <2>9, <4>2, <4>3 DEF Pending
      <3> QED
        BY <3>2, <3>3 DEF Reading
    <2>11. ASSUME n = 1 PROVE Meaningful(inc, disk) <=> setting # Empty
      <3>1. disk \in [Files -> Contents] /\ included # {}
        BY <1>2, <1>12 DEF TypeOK
      <3>2. Parsed(inc, disk, taken, calls2, 0, included, done \cup {a}, setting)
        BY <2>6, <2>11
      <3> QED
        BY <3>1, <3>2, EndMeaning
    <2>12. result' = "error" => n = 1 /\ setting = Empty
      BY <2>1 DEF Validated
    <2>13. result' = "error" => ~Meaningful(inc, disk)
      BY <2>11, <2>12
    <2>14. result' = "ok" => setting' # Empty /\ included' # {}
      BY <1>12, <2>1 DEF Validated
    <2>15. Meaningful(Graph, disk)' <=> Meaningful(inc, disk)
      BY <2>1, <2>9
    <2>16. Ordered(Graph, programs)'
      BY <2>8, <2>9
    <2> QED
      BY <2>10, <2>13, <2>14, <2>15, <2>16 DEF Outcome
  <1> QED
    BY <1>13, <1>14

\* Every step.
LEMMA NextOutcome == Inv /\ Outcome /\ [Next]_vars => Outcome'
  <1> SUFFICES ASSUME Inv, Outcome, [Next]_vars PROVE Outcome'
    OBVIOUS
  <1>1. CASE ParseFile
    BY <1>1, ParseFileOutcome
  <1>2. CASE Include
    BY <1>2, IncludeOutcome
  <1>3. CASE Leave
    BY <1>3, LeaveOutcome
  <1>4. CASE UNCHANGED vars
    <2>1. /\ disk' = disk /\ bare' = bare /\ stack' = stack /\ included' = included
          /\ setting' = setting /\ programs' = programs /\ result' = result
      BY <1>4 DEF vars
    <2>2. Graph' = Graph
      BY <2>1 DEF Graph, Includes
    <2> QED
      BY <2>1, <2>2 DEF Outcome, Reading
  <1> QED
    BY <1>1, <1>2, <1>3, <1>4 DEF Next

\* What an accepted configuration is.
LEMMA OkMeans ==
  ASSUME Inv, Outcome, result = "ok"
  PROVE  /\ Meaningful(Graph, disk)
         /\ Done(programs) = Reached(Graph) /\ Ordered(Graph, programs)
         /\ LastSetters(Graph, disk) = IF setting = Default THEN {} ELSE {setting}
  <1>1. /\ Graph \in IncludeGraphs /\ disk \in [Files -> Contents]
        /\ Len(stack) = 0 /\ setting # Empty /\ included # {} /\ Ordered(Graph, programs)
    BY GraphType DEF Inv, Outcome
  <1>2. PICK taken \in [Files -> Nat], n \in Nat :
          /\ n = 0
          /\ Parsed(Graph, disk, taken, CallFiles(stack), n, included, Done(programs), setting)
    BY <1>1 DEF Outcome, Reading
  <1>3. Parsed(Graph, disk, taken, CallFiles(stack), 0, included, Done(programs), setting)
    BY <1>2
  <1>4. Done(programs) = Reached(Graph)
    BY <1>1, <1>3, EndTree
  <1>5. /\ Meaningful(Graph, disk)
        /\ LastSetters(Graph, disk) = IF setting = Default THEN {} ELSE {setting}
    BY <1>1, <1>3, EndMeaning
  <1> QED
    BY <1>1, <1>4, <1>5

-----------------------------------------------------------------------------
(***************************************************************************)
(* The theorems.                                                           *)
(***************************************************************************)

\* The invariant holds throughout.
THEOREM Safety == Spec => []Inv
  BY InitInv, NextInv, PTL DEF Spec

\* Type correctness: the calls never nest deeper than MAX_DEPTH.
THEOREM ParserTypeCorrect == Spec => []TypeOK
  <1>1. Inv => TypeOK
    BY DEF Inv
  <1> QED
    BY <1>1, Safety, PTL

\* config.included makes parse_file end, however files include each other: every step
\* uses up a file that no earlier step did, or is the last.
THEOREM ParsingEnds == Spec => EveryStepCounts
  <1> DEFINE Counts ==
        \/ \E f \in Files \ included : included' = included \cup {f}
        \/ \E f \in Files : /\ \A i \in DOMAIN programs : programs[i] # f
                            /\ programs' = Append(programs, f)
        \/ result' # "none"
  <1>1. ASSUME Inv, Next PROVE Counts
    <2>1. ASSUME NEW f \in Files, NEW callers, Enter(f, callers) PROVE Counts
      BY <2>1 DEF Enter, Throw, Seen
    <2>2. CASE ParseFile
      BY <2>1, <2>2 DEF ParseFile
    <2>3. CASE Include
      BY <1>1, <2>1, <2>3, IncludeFacts
    <2>4. CASE Leave
      <3>1. Top \in Frames /\ \A i \in DOMAIN programs : programs[i] # Top.file
        BY <1>1, <2>4, TopFacts DEF Leave
      <3>2. PICK f \in Files : f = Top.file
        BY <3>1 DEF Frames
      <3> QED
        BY <2>4, <3>1, <3>2 DEF Leave, Throw, ProgramsAfter
    <2> QED
      BY <1>1, <2>2, <2>3, <2>4 DEF Next
  <1>2. Inv /\ [Next]_vars => [Counts]_vars
    BY <1>1
  <1>3. [][Counts]_vars => EveryStepCounts
    BY PTL DEF EveryStepCounts
  <1> QED
    BY <1>2, <1>3, Safety, PTL DEF Spec

\* The invariant for the outcome holds throughout.
THEOREM OutcomeHolds == Spec => [](Inv /\ Outcome)
  <1>1. Init => Outcome
    BY InitOutcome
  <1> QED
    BY <1>1, InitInv, NextInv, NextOutcome, PTL DEF Spec

\* parse_file accepts a configuration just when its include files form a tree that is
\* not too high, no file is bad, and no setting is left empty, however many files there
\* are and however they include each other.
THEOREM VerdictHolds == Spec => []Verdict
  <1>1. Inv /\ Outcome => Verdict
    BY OkMeans DEF Inv, TypeOK, Outcome, Verdict
  <1> QED
    BY <1>1, OutcomeHolds, PTL

\* Every file reached gives its programs once, after those of the files it includes.
THEOREM ProgramOrderHolds == Spec => []ProgramOrder
  <1>1. Inv /\ Outcome => ProgramOrder
    BY OkMeans DEF ProgramOrder, Done, Ordered
  <1> QED
    BY <1>1, OutcomeHolds, PTL

\* The value of a setting is that of the one file that comes last, where an included
\* file comes after the one that includes it.
THEOREM IncludedOverridesHolds == Spec => []IncludedOverrides
  <1>1. Inv /\ Outcome => IncludedOverrides
    BY OkMeans DEF IncludedOverrides
  <1> QED
    BY <1>1, OutcomeHolds, PTL
=============================================================================
