-------------------------- MODULE LogCaptureProofs --------------------------
(***************************************************************************)
(* What holds of LogCapture for every number of children and characters    *)
(* and every size of the buffer: the types with any order of restarts, and *)
(* the faithfulness of the log when a child is started only after the end  *)
(* of the previous pipe was handled.                                       *)
(***************************************************************************)
EXTENDS LogCapture, SequenceTheorems, TLAPS

USE BoundsAssumption

-----------------------------------------------------------------------------
(***************************************************************************)
(* The inductive invariant of Spec: the buffer has as many characters as   *)
(* any completion that waits for its handler says.                         *)
(***************************************************************************)
Inv == /\ TypeOK
       /\ isopen => gen > 0
       /\ \A i \in DOMAIN queue : queue[i].bytes <= Len(buffer)

\* Aborted reads have no characters.
LEMMA AbortedFacts ==
  ASSUME NEW n \in Nat
  PROVE  /\ Aborted(n) \in Seq(Completions) /\ Len(Aborted(n)) = n
         /\ \A i \in 1..n : Aborted(n)[i].bytes = 0
  BY DEF Aborted, Completions, Failed

\* The queue when a handler has run, or when more completions have come.
LEMMA QueueFacts ==
  ASSUME NEW q \in Seq(Completions), NEW r \in Seq(Completions), NEW limit \in Nat,
         \A i \in DOMAIN q : q[i].bytes <= limit, \A i \in DOMAIN r : r[i].bytes <= limit
  PROVE  /\ q \o r \in Seq(Completions)
         /\ \A i \in DOMAIN (q \o r) : (q \o r)[i].bytes <= limit
         /\ q # <<>> => /\ Head(q) \in Completions /\ Head(q).bytes <= limit
                        /\ Tail(q) \in Seq(Completions)
                        /\ \A i \in DOMAIN Tail(q) : Tail(q)[i].bytes <= limit
  <1>1. /\ q \o r \in Seq(Completions) /\ DOMAIN (q \o r) = 1..(Len(q) + Len(r))
        /\ \A i \in 1..(Len(q) + Len(r)) :
             (q \o r)[i] = IF i <= Len(q) THEN q[i] ELSE r[i - Len(q)]
    BY ConcatProperties
  <1>2. \A i \in DOMAIN (q \o r) : (q \o r)[i].bytes <= limit
    <2> SUFFICES ASSUME NEW i \in 1..(Len(q) + Len(r)) PROVE (q \o r)[i].bytes <= limit
      BY <1>1
    <2>1. CASE i <= Len(q)
      <3>1. i \in DOMAIN q /\ (q \o r)[i] = q[i]
        BY <1>1, <2>1
      <3> QED
        BY <3>1
    <2>2. CASE ~(i <= Len(q))
      <3>1. i - Len(q) \in DOMAIN r /\ (q \o r)[i] = r[i - Len(q)]
        BY <1>1, <2>2
      <3> QED
        BY <3>1
    <2> QED
      BY <2>1, <2>2
  <1>3. ASSUME q # <<>>
        PROVE  /\ Head(q) \in Completions /\ Head(q).bytes <= limit
               /\ Tail(q) \in Seq(Completions)
               /\ \A i \in DOMAIN Tail(q) : Tail(q)[i].bytes <= limit
    <2>1. /\ 1 \in DOMAIN q /\ Head(q) = q[1] /\ q[1] \in Completions
          /\ Tail(q) \in Seq(Completions)
      BY <1>3
    <2>2. \A i \in DOMAIN Tail(q) : i + 1 \in DOMAIN q /\ Tail(q)[i] = q[i + 1]
      BY <1>3
    <2> QED
      BY <2>1, <2>2
  <1> QED
    BY <1>1, <1>2, <1>3

\* The buffer after a read of n characters of child g: they are at its beginning, and
\* what was there behind them stays.
Filled(buf, n, g, from) == [i \in 1..n |-> <<g, from + i>>] \o SubSeq(buf, n + 1, Len(buf))

\* No character is left over from the read before within what the read returns.
LEMMA BufferFacts ==
  ASSUME NEW buf \in Seq(Chars), Len(buf) <= BufSize, NEW n \in 1..BufSize,
         NEW g \in Gens, NEW from \in Nat, from + n <= MaxChars
  PROVE  /\ Filled(buf, n, g, from) \in Seq(Chars)
         /\ Len(Filled(buf, n, g, from)) <= BufSize
         /\ Len(Filled(buf, n, g, from)) >= n
         /\ Len(Filled(buf, n, g, from)) >= Len(buf)
         /\ \A i \in 1..n : Filled(buf, n, g, from)[i] = <<g, from + i>>
  <1> DEFINE piece == [i \in 1..n |-> <<g, from + i>>]
             rest  == SubSeq(buf, n + 1, Len(buf))
  <1>1. piece \in Seq(Chars) /\ Len(piece) = n /\ \A i \in 1..n : piece[i] = <<g, from + i>>
    <2>1. \A i \in 1..n : <<g, from + i>> \in Chars
      BY DEF Chars
    <2> QED
      BY <2>1
  <1>2. PICK l \in Nat : l = Len(buf) /\ l <= BufSize /\ \A i \in 1..l : buf[i] \in Chars
    OBVIOUS
  <1>3. rest \in Seq(Chars) /\ Len(rest) = IF n + 1 <= l THEN l - n ELSE 0
    <2>1. \A i \in (n + 1)..l : buf[i] \in Chars
      BY <1>2
    <2>2. /\ SubSeq(buf, n + 1, l) \in Seq(Chars)
          /\ Len(SubSeq(buf, n + 1, l)) = IF n + 1 <= l THEN l - (n + 1) + 1 ELSE 0
      BY <1>2, <2>1, SubSeqProperties
    <2> QED
      BY <1>2, <2>2
  <1> HIDE DEF piece, rest
  <1>4. /\ piece \o rest \in Seq(Chars) /\ Len(piece \o rest) = n + Len(rest)
        /\ \A i \in 1..(n + Len(rest)) : i <= n => (piece \o rest)[i] = piece[i]
    BY <1>1, <1>3, ConcatProperties
  <1>5. /\ Len(piece \o rest) <= BufSize /\ Len(piece \o rest) >= n
        /\ Len(piece \o rest) >= Len(buf) /\ \A i \in 1..n : i \in 1..(n + Len(rest))
    BY <1>2, <1>3, <1>4
  <1>6. \A i \in 1..n : (piece \o rest)[i] = <<g, from + i>>
    BY <1>1, <1>4, <1>5
  <1> QED
    BY <1>4, <1>5, <1>6 DEF piece, rest, Filled

\* What a handler logs.
LEMMA LoggedFacts ==
  ASSUME buffer \in Seq(Chars), NEW b \in Nat, b <= Len(buffer)
  PROVE  /\ Logged(b) \in Seq(Chars) /\ Len(Logged(b)) = b
         /\ \A i \in 1..b : Logged(b)[i] = buffer[i]
  <1>1. \A i \in 1..b : buffer[i] \in Chars
    OBVIOUS
  <1>2. /\ SubSeq(buffer, 1, b) \in Seq(Chars)
        /\ Len(SubSeq(buffer, 1, b)) = IF 1 <= b THEN b - 1 + 1 ELSE 0
        /\ \A i \in 1..(b - 1 + 1) : SubSeq(buffer, 1, b)[i] = buffer[1 + i - 1]
    BY <1>1, SubSeqProperties
  <1> QED
    BY <1>2 DEF Logged

-----------------------------------------------------------------------------
\* Inv holds initially.
LEMMA InitInv == Init => Inv
  <1> SUFFICES ASSUME Init PROVE Inv
    OBVIOUS
  <1>1. /\ printed \in [Gens -> 0..MaxChars] /\ read \in [Gens -> 0..MaxChars]
    BY DEF Init
  <1>2. /\ queue \in Seq(Completions) /\ buffer \in Seq(Chars) /\ log \in Seq(Chars)
        /\ Len(buffer) = 0 /\ DOMAIN queue = {}
    BY DEF Init
  <1>3. /\ gen \in 0..MaxGen /\ armed \in Nat /\ held \subseteq Gens
        /\ life \in {"served", "unserved", "gone"}
    BY DEF Init
  <1>4. isopen \in BOOLEAN /\ ~isopen
    BY Zenon DEF Init
  <1>5. Len(buffer) <= BufSize
    BY <1>2
  <1>6. TypeOK
    BY <1>1, <1>2, <1>3, <1>4, <1>5 DEF TypeOK
  <1> QED
    BY <1>2, <1>4, <1>6 DEF Inv

\* A restart.
LEMMA SpawnInv ==
  ASSUME Inv, Spawn
  PROVE  Inv'
  <1>1. PICK limit \in Nat : limit = Len(buffer)
    BY DEF Inv, TypeOK
  <1>2. PICK r \in Seq(Completions) : r = Aborted(armed) /\ \A i \in DOMAIN r : r[i].bytes <= limit
    <2>1. armed \in Nat
      BY DEF Inv, TypeOK
    <2>2. /\ Aborted(armed) \in Seq(Completions) /\ DOMAIN Aborted(armed) = 1..armed
          /\ \A i \in 1..armed : Aborted(armed)[i].bytes = 0
      BY <2>1, AbortedFacts
    <2>3. \A i \in DOMAIN Aborted(armed) : Aborted(armed)[i].bytes <= limit
      BY <2>2
    <2> QED
      BY <2>2, <2>3
  <1>3. queue' = queue \o r /\ buffer' = buffer
    BY <1>2 DEF Spawn
  <1>4. queue' \in Seq(Completions) /\ \A i \in DOMAIN queue' : queue'[i].bytes <= Len(buffer')
    <2>1. queue \in Seq(Completions) /\ \A i \in DOMAIN queue : queue[i].bytes <= limit
      BY <1>1 DEF Inv, TypeOK
    <2> QED
      BY <1>1, <1>2, <1>3, <2>1, QueueFacts
  <1>5. gen' \in 0..MaxGen /\ gen' > 0 /\ held' \subseteq Gens /\ armed' \in Nat
    BY DEF Inv, TypeOK, Spawn, Gens
  <1> QED
    BY <1>4, <1>5 DEF Inv, TypeOK, Spawn

\* A child prints, or a pipe is closed.
LEMMA ChildInv ==
  ASSUME Inv, ChildPrints \/ \E g \in Gens : PipeCloses(g)
  PROVE  Inv'
  <1>1. CASE ChildPrints
    <2>1. printed' \in [Gens -> 0..MaxChars]
      BY <1>1 DEF ChildPrints, Inv, TypeOK
    <2> QED
      BY <1>1, <2>1 DEF ChildPrints, Inv, TypeOK
  <1>2. CASE \E g \in Gens : PipeCloses(g)
    BY <1>2 DEF PipeCloses, Inv, TypeOK
  <1> QED
    BY <1>1, <1>2

\* One completion more is in the queue.
LEMMA AppendFacts ==
  ASSUME Inv, NEW x \in Completions, NEW limit \in Nat, Len(buffer) <= limit, x.bytes <= limit
  PROVE  /\ Append(queue, x) \in Seq(Completions)
         /\ \A i \in DOMAIN Append(queue, x) : Append(queue, x)[i].bytes <= limit
  <1>1. /\ queue \in Seq(Completions) /\ \A i \in DOMAIN queue : queue[i] \in Completions
        /\ Len(buffer) \in Nat
    BY DEF Inv, TypeOK
  <1>2. /\ Append(queue, x) \in Seq(Completions)
        /\ DOMAIN Append(queue, x) = 1..(Len(queue) + 1) /\ DOMAIN queue = 1..Len(queue)
        /\ \A i \in 1..Len(queue) : Append(queue, x)[i] = queue[i]
        /\ Append(queue, x)[Len(queue) + 1] = x
    BY <1>1, AppendProperties
  <1>3. \A i \in DOMAIN queue : queue[i].bytes <= limit
    <2> SUFFICES ASSUME NEW i \in DOMAIN queue PROVE queue[i].bytes <= limit
      OBVIOUS
    <2>1. queue[i].bytes \in Int /\ queue[i].bytes <= Len(buffer)
      BY <1>1 DEF Inv, Completions
    <2> QED
      BY <1>1, <2>1
  <1>4. \A i \in DOMAIN Append(queue, x) : i \in DOMAIN queue \/ i = Len(queue) + 1
    BY <1>2
  <1> QED
    BY <1>2, <1>3, <1>4

\* A read completes.
LEMMA ReadCompletesInv ==
  ASSUME Inv, ReadCompletes
  PROVE  Inv'
  <1>1. /\ armed' \in Nat /\ gen' = gen /\ printed' = printed /\ held' = held
        /\ isopen' = isopen /\ log' = log /\ isopen /\ gen \in Gens /\ life' = life
    BY DEF ReadCompletes, Inv, TypeOK, Gens
  <1>2. ASSUME NEW n \in ReadSizes,
               read[gen] + n <= printed[gen],
               buffer' = [i \in 1..n |-> <<gen, read[gen] + i>>] \o SubSeq(buffer, n + 1, Len(buffer)),
               read' = [read EXCEPT ![gen] = @ + n],
               queue' = Append(queue, [error |-> FALSE, bytes |-> n])
        PROVE  Inv'
    <2>1. PICK g \in Gens, from \in Nat, upto \in 0..MaxChars :
            g = gen /\ from = read[gen] /\ upto = printed[gen]
      BY <1>1 DEF Inv, TypeOK
    <2>2. n \in 1..BufSize /\ from + n <= MaxChars
      BY <1>2, <2>1 DEF ReadSizes
    <2>3. buffer \in Seq(Chars) /\ Len(buffer) <= BufSize
      BY DEF Inv, TypeOK
    <2>4. /\ buffer' \in Seq(Chars) /\ Len(buffer') <= BufSize
          /\ Len(buffer') >= n /\ Len(buffer') >= Len(buffer)
      <3>1. buffer' = Filled(buffer, n, g, from)
        BY <1>2, <2>1, Zenon DEF Filled
      <3> QED
        BY <2>2, <2>3, <3>1, BufferFacts
    <2>5. [error |-> FALSE, bytes |-> n] \in Completions
      BY <2>2 DEF Completions
    <2>6. PICK limit \in Nat : limit = Len(buffer')
      BY <2>4
    <2>7. queue' \in Seq(Completions) /\ \A i \in DOMAIN queue' : queue'[i].bytes <= Len(buffer')
      BY <1>2, <2>2, <2>3, <2>4, <2>5, <2>6, AppendFacts
    <2>8. read' \in [Gens -> 0..MaxChars]
      BY <1>2, <2>1, <2>2 DEF Inv, TypeOK
    <2> QED
      BY <1>1, <2>4, <2>7, <2>8 DEF Inv, TypeOK
  <1>3. ASSUME queue' = Append(queue, Failed), read' = read, buffer' = buffer
        PROVE  Inv'
    <2>1. Failed \in Completions /\ Failed.bytes = 0
      BY DEF Failed, Completions
    <2>2. PICK limit \in Nat : limit = Len(buffer)
      BY DEF Inv, TypeOK
    <2>3. queue' \in Seq(Completions) /\ \A i \in DOMAIN queue' : queue'[i].bytes <= Len(buffer')
      BY <1>3, <2>1, <2>2, AppendFacts
    <2> QED
      BY <1>1, <1>3, <2>3 DEF Inv, TypeOK
  <1> QED
    BY <1>2, <1>3 DEF ReadCompletes

\* A handler runs.
LEMMA HandleReadInv ==
  ASSUME Inv, HandleRead
  PROVE  Inv'
  <1>1. /\ gen' = gen /\ printed' = printed /\ read' = read /\ held' = held
        /\ buffer' = buffer /\ queue # <<>> /\ life' = life
    BY DEF HandleRead
  <1>2. PICK limit \in Nat : limit = Len(buffer)
    BY DEF Inv, TypeOK
  <1>3. /\ queue \in Seq(Completions) /\ \A i \in DOMAIN queue : queue[i].bytes <= limit
        /\ armed \in Nat
    BY <1>2 DEF Inv, TypeOK
  <1>4. /\ Head(queue) \in Completions /\ Head(queue).bytes <= limit
        /\ Tail(queue) \in Seq(Completions)
        /\ \A i \in DOMAIN Tail(queue) : Tail(queue)[i].bytes <= limit
    BY <1>1, <1>3, QueueFacts
  <1>5. CASE EndsReading(Head(queue))
    <2>1. PICK r \in Seq(Completions) :
            r = Aborted(armed) /\ \A i \in DOMAIN r : r[i].bytes <= limit
      <3>1. /\ Aborted(armed) \in Seq(Completions) /\ DOMAIN Aborted(armed) = 1..armed
            /\ \A i \in 1..armed : Aborted(armed)[i].bytes = 0
        BY <1>3, AbortedFacts
      <3>2. \A i \in DOMAIN Aborted(armed) : Aborted(armed)[i].bytes <= limit
        BY <3>1
      <3> QED
        BY <3>1, <3>2
    <2>2. queue' = Tail(queue) \o r /\ isopen' = FALSE /\ armed' = 0 /\ log' = log
      BY <1>5, <2>1 DEF HandleRead
    <2>3. queue' \in Seq(Completions) /\ \A i \in DOMAIN queue' : queue'[i].bytes <= limit
      BY <1>4, <2>1, <2>2, QueueFacts
    <2> QED
      BY <1>1, <1>2, <2>2, <2>3 DEF Inv, TypeOK
  <1>6. CASE ~EndsReading(Head(queue))
    <2>1. /\ log' = log \o Logged(Head(queue).bytes) /\ armed' = ReadsAfter
          /\ queue' = Tail(queue) /\ isopen' = isopen
      BY <1>6 DEF HandleRead
    <2>2. PICK b \in Nat : b = Head(queue).bytes /\ b <= Len(buffer)
      BY <1>2, <1>4 DEF Completions
    <2>3. log \in Seq(Chars) /\ Logged(b) \in Seq(Chars)
      BY <2>2, LoggedFacts DEF Inv, TypeOK
    <2>4. log' \in Seq(Chars)
      BY <2>1, <2>2, <2>3, ConcatProperties
    <2>5. armed' \in Nat
      BY <1>3, <2>1 DEF ReadsAfter
    <2> QED
      BY <1>1, <1>2, <1>4, <2>1, <2>4, <2>5 DEF Inv, TypeOK
  <1> QED
    BY <1>5, <1>6

\* The event loop is stopped, or the object destroyed.
LEMMA EndInv ==
  ASSUME Inv, LoopStops \/ Destroyed
  PROVE  Inv'
  <1>1. /\ gen' = gen /\ printed' = printed /\ read' = read /\ held' = held
        /\ queue' = queue /\ buffer' = buffer /\ log' = log
        /\ life' \in {"served", "unserved", "gone"}
    BY DEF LoopStops, Destroyed
  <1>2. armed' \in Nat
    BY DEF LoopStops, Destroyed, Inv, TypeOK
  <1>3. CASE LoopStops
    <2>1. isopen' = isopen
      BY <1>3 DEF LoopStops
    <2> QED
      BY <1>1, <1>2, <2>1 DEF Inv, TypeOK
  <1>4. CASE Destroyed
    <2>1. isopen' = FALSE
      BY <1>4 DEF Destroyed
    <2> QED
      BY <1>1, <1>2, <2>1 DEF Inv, TypeOK
  <1> QED
    BY <1>3, <1>4

\* Every step keeps Inv.
LEMMA NextInv == Inv /\ [Next]_vars => Inv'
  <1>1. ASSUME Inv, UNCHANGED vars PROVE Inv'
    BY <1>1 DEF vars, Inv, TypeOK
  <1> QED
    BY <1>1, SpawnInv, ChildInv, ReadCompletesInv, HandleReadInv, EndInv DEF Next, NextButSpawn

\* Type correctness, however the restarts interleave with reads of the pipe before: no
\* read exceeds the buffer and no handler logs more than the buffer has.
THEOREM CaptureTypeCorrect == Spec => []TypeOK
  <1>1. Inv => TypeOK
    BY DEF Inv
  <1> QED
    BY <1>1, InitInv, NextInv, PTL DEF Spec

-----------------------------------------------------------------------------
(***************************************************************************)
(* The inductive invariant of CalmSpec.  As long as the object exists, a   *)
(* stream that is open has one read that is armed or one whose handler has *)
(* to run, and a closed one has neither.  The log has all that was read,   *)
(* but for the characters of the read whose handler has to run, which are  *)
(* those in the buffer.                                                    *)
(***************************************************************************)
OneRead == life # "gone" =>
             IF isopen THEN \/ armed = 1 /\ queue = <<>>
                            \/ armed = 0 /\ Len(queue) = 1
                       ELSE armed = 0 /\ queue = <<>>

\* The end of a pipe is seen only when no process has it.
EndIsSeen ==
  life # "gone" /\ (~isopen \/ (queue # <<>> /\ queue[1].error)) => gen \notin held

\* How many characters wait for a handler, and how many of child g are in the log.
InFlight == IF queue # <<>> /\ ~queue[1].error THEN queue[1].bytes ELSE 0
InLog(g) == IF g = gen THEN read[g] - InFlight ELSE read[g]

BufferIsCurrent ==
  InFlight > 0 => /\ gen \in Gens /\ InFlight <= read[gen]
                  /\ \A i \in 1..InFlight : buffer[i] = <<gen, read[gen] - InFlight + i>>

Sorted(text) ==
  \A i, j \in DOMAIN text : i < j /\ text[i][1] = text[j][1] => text[i][2] < text[j][2]

LogIsComplete ==
  /\ \A i \in DOMAIN log : \A g \in Gens : log[i][1] = g => log[i][2] <= InLog(g)
  /\ \A g \in Gens : \A k \in 1..InLog(g) : \E j \in DOMAIN log : log[j] = <<g, k>>

CalmInv == /\ Inv /\ OneRead /\ EndIsSeen /\ BufferIsCurrent
           /\ \A g \in Gens : g > gen => read[g] = 0
           /\ Sorted(log) /\ LogIsComplete

\* The variables CalmInv is about have their types.
LEMMA CalmTypes ==
  ASSUME CalmInv
  PROVE  /\ queue \in Seq(Completions) /\ log \in Seq(Chars) /\ buffer \in Seq(Chars)
         /\ \A i \in DOMAIN log : log[i] \in Chars /\ log[i][1] \in Gens /\ log[i][2] \in Nat
         /\ \A g \in Gens : read[g] \in Nat /\ InLog(g) \in Int
         /\ InFlight \in Nat /\ InFlight <= Len(buffer)
         /\ gen \in Nat /\ (isopen => gen \in Gens)
  <1>1. /\ queue \in Seq(Completions) /\ log \in Seq(Chars) /\ buffer \in Seq(Chars)
        /\ gen \in 0..MaxGen /\ (isopen => gen \in Gens) /\ Len(buffer) \in Nat
    BY DEF CalmInv, Inv, TypeOK, Gens
  <1>2. \A i \in DOMAIN log : log[i] \in Chars /\ log[i][1] \in Gens /\ log[i][2] \in Nat
    <2>1. \A i \in DOMAIN log : log[i] \in Chars
      BY <1>1
    <2>2. \A x \in Chars : x[1] \in Gens /\ x[2] \in Nat
      BY DEF Chars
    <2> QED
      BY <2>1, <2>2
  <1>3. InFlight \in Nat /\ InFlight <= Len(buffer)
    <2>1. CASE queue # <<>> /\ ~queue[1].error
      <3>1. InFlight = queue[1].bytes /\ 1 \in DOMAIN queue
        BY <1>1, <2>1 DEF InFlight
      <3>2. queue[1] \in Completions /\ queue[1].bytes <= Len(buffer)
        BY <1>1, <3>1 DEF CalmInv, Inv
      <3> QED
        BY <3>1, <3>2 DEF Completions
    <2>2. CASE ~(queue # <<>> /\ ~queue[1].error)
      <3>1. InFlight = 0
        BY <2>2 DEF InFlight
      <3> QED
        BY <1>1, <3>1
    <2> QED
      BY <2>1, <2>2
  <1>4. \A g \in Gens : read[g] \in Nat
    BY DEF CalmInv, Inv, TypeOK
  <1>5. \A g \in Gens : InLog(g) \in Int
    BY <1>3, <1>4 DEF InLog
  <1> QED
    BY <1>1, <1>2, <1>3, <1>4, <1>5

\* Nothing about the log changes when what is in it of each child stays the same.
LEMMA LogStays ==
  ASSUME CalmInv, log' = log, \A g \in Gens : InLog(g)' = InLog(g)
  PROVE  Sorted(log)' /\ LogIsComplete'
  <1>1. Sorted(log)'
    BY DEF CalmInv, Sorted
  <1>2. ASSUME NEW i \in DOMAIN log, NEW g \in Gens, log[i][1] = g
        PROVE  log[i][2] <= InLog(g)'
    BY <1>2 DEF CalmInv, LogIsComplete
  <1>3. ASSUME NEW g \in Gens, NEW k \in 1..InLog(g)' PROVE \E j \in DOMAIN log : log[j] = <<g, k>>
    BY DEF CalmInv, LogIsComplete
  <1> QED
    BY <1>1, <1>2, <1>3 DEF LogIsComplete

\* No more reads are aborted than were armed.
LEMMA NoneAborted == Aborted(0) = <<>>
  BY AbortedFacts

\* The calm invariant holds initially.
LEMMA CalmInit == Init => CalmInv
  <1> SUFFICES ASSUME Init PROVE CalmInv
    OBVIOUS
  <1>1. Inv
    BY InitInv
  <1>2. queue = <<>> /\ log = <<>> /\ held = {} /\ armed = 0 /\ read = [g \in Gens |-> 0]
    BY DEF Init
  <1>3. ~isopen
    BY Zenon DEF Init
  <1>4. OneRead /\ EndIsSeen
    BY <1>2, <1>3 DEF OneRead, EndIsSeen
  <1>5. InFlight = 0 /\ \A g \in Gens : InLog(g) = 0
    BY <1>2 DEF InFlight, InLog
  <1>6. BufferIsCurrent
    BY <1>5 DEF BufferIsCurrent
  <1>7. Sorted(log) /\ LogIsComplete
    BY <1>2, <1>5 DEF Sorted, LogIsComplete
  <1> QED
    BY <1>1, <1>2, <1>4, <1>6, <1>7 DEF CalmInv

\* A restart, when nothing of the pipe before is under way.
LEMMA CalmSpawn ==
  ASSUME CalmInv, ~isopen, queue = <<>>, Spawn
  PROVE  CalmInv'
  <1>1. Inv'
    BY SpawnInv DEF CalmInv
  <1>2. armed = 0
    BY DEF CalmInv, OneRead, Spawn
  <1>3. /\ queue' = <<>> /\ isopen' /\ armed' = 1 /\ gen' = gen + 1
        /\ read' = read /\ log' = log
    BY <1>2, NoneAborted DEF Spawn
  <1>4. OneRead' /\ EndIsSeen'
    BY <1>3 DEF OneRead, EndIsSeen
  <1>5. InFlight = 0 /\ InFlight' = 0
    BY <1>3 DEF InFlight
  <1>6. BufferIsCurrent'
    BY <1>5 DEF BufferIsCurrent
  <1>7. \A g \in Gens : InLog(g)' = InLog(g)
    BY <1>3, <1>5, CalmTypes DEF InLog
  <1>8. \A g \in Gens : g > gen' => read'[g] = 0
    BY <1>3, CalmTypes DEF CalmInv, Gens
  <1> QED
    BY <1>1, <1>3, <1>4, <1>6, <1>7, <1>8, LogStays DEF CalmInv

\* A child prints, or a pipe is closed.
LEMMA CalmChild ==
  ASSUME CalmInv, ChildPrints \/ \E g \in Gens : PipeCloses(g)
  PROVE  CalmInv'
  <1>1. Inv'
    BY ChildInv DEF CalmInv
  <1>2. /\ gen' = gen /\ read' = read /\ isopen' = isopen /\ armed' = armed
        /\ queue' = queue /\ buffer' = buffer /\ log' = log /\ held' \subseteq held
        /\ life' = life
    BY DEF ChildPrints, PipeCloses
  <1>3. InFlight' = InFlight /\ \A g \in Gens : InLog(g)' = InLog(g)
    BY <1>2 DEF InFlight, InLog
  <1>4. OneRead' /\ EndIsSeen'
    BY <1>2 DEF CalmInv, OneRead, EndIsSeen
  <1>5. BufferIsCurrent'
    BY <1>2, <1>3 DEF CalmInv, BufferIsCurrent
  <1> QED
    BY <1>1, <1>2, <1>3, <1>4, <1>5, LogStays DEF CalmInv

\* A read completes: it is the only one, so that no handler is about to use what was in
\* the buffer before.
LEMMA CalmReadCompletes ==
  ASSUME CalmInv, ReadCompletes
  PROVE  CalmInv'
  <1>1. Inv'
    BY ReadCompletesInv DEF CalmInv
  <1>2. /\ isopen /\ armed = 1 /\ queue = <<>> /\ armed' = 0 /\ gen' = gen
        /\ isopen' = isopen /\ log' = log /\ held' = held
    BY DEF ReadCompletes, CalmInv, OneRead
  <1>3. InFlight = 0 /\ gen \in Gens
    BY <1>2, CalmTypes DEF InFlight
  <1>4. ASSUME NEW n \in ReadSizes,
               read[gen] + n <= printed[gen],
               buffer' = [i \in 1..n |-> <<gen, read[gen] + i>>] \o SubSeq(buffer, n + 1, Len(buffer)),
               read' = [read EXCEPT ![gen] = @ + n],
               queue' = Append(queue, [error |-> FALSE, bytes |-> n])
        PROVE  CalmInv'
    <2>1. PICK g \in Gens, from \in Nat, upto \in 0..MaxChars :
            g = gen /\ from = read[gen] /\ upto = printed[gen]
      BY <1>3 DEF CalmInv, Inv, TypeOK
    <2>2. n \in 1..BufSize /\ from + n <= MaxChars
      BY <1>4, <2>1 DEF ReadSizes
    <2>3. \A i \in 1..n : buffer'[i] = <<g, from + i>>
      <3>1. buffer' = Filled(buffer, n, g, from)
        BY <1>4, <2>1, Zenon DEF Filled
      <3>2. buffer \in Seq(Chars) /\ Len(buffer) <= BufSize
        BY DEF CalmInv, Inv, TypeOK
      <3> QED
        BY <2>2, <3>1, <3>2, BufferFacts
    <2>4. PICK x : x = [error |-> FALSE, bytes |-> n] /\ queue' = <<x>>
      BY <1>2, <1>4
    <2>5. x.bytes = n /\ ~x.error
      BY <2>4, Zenon
    <2>6. queue' # <<>> /\ Len(queue') = 1 /\ queue'[1] = x
      BY <2>4
    <2>7. InFlight' = n
      BY <2>5, <2>6 DEF InFlight
    <2>8. OneRead' /\ EndIsSeen'
      BY <1>2, <2>5, <2>6 DEF OneRead, EndIsSeen
    <2>9. \A h \in Gens : read'[h] = IF h = g THEN from + n ELSE read[h]
      BY <1>4, <2>1 DEF CalmInv, Inv, TypeOK
    <2>10. \A h \in Gens : InLog(h)' = InLog(h)
      <3> SUFFICES ASSUME NEW h \in Gens PROVE InLog(h)' = InLog(h)
        OBVIOUS
      <3>1. CASE h = g
        <4>1. InLog(h)' = (from + n) - n
          BY <1>2, <2>1, <2>7, <2>9, <3>1 DEF InLog
        <4>2. InLog(h) = from - 0
          BY <1>3, <2>1, <3>1 DEF InLog
        <4> QED
          BY <2>2, <4>1, <4>2
      <3>2. CASE h # g
        BY <1>2, <2>1, <2>9, <3>2 DEF InLog
      <3> QED
        BY <3>1, <3>2
    <2>11. BufferIsCurrent'
      <3>1. gen' = g /\ read'[g] = from + n /\ g \in Gens
        BY <1>2, <2>1, <2>9
      <3>2. n <= from + n /\ \A i \in 1..n : from + i = (from + n) - n + i
        BY <2>2
      <3> QED
        BY <2>3, <2>7, <3>1, <3>2 DEF BufferIsCurrent
    <2>12. \A h \in Gens : h > gen' => read'[h] = 0
      BY <1>2, <2>1, <2>9 DEF CalmInv, Gens
    <2> QED
      BY <1>1, <1>2, <2>8, <2>10, <2>11, <2>12, LogStays DEF CalmInv
  <1>5. ASSUME gen \notin held, queue' = Append(queue, Failed), read' = read, buffer' = buffer
        PROVE  CalmInv'
    <2>1. queue' # <<>> /\ Len(queue') = 1 /\ queue'[1] = Failed
      BY <1>2, <1>5
    <2>2. Failed.error
      BY Zenon DEF Failed
    <2>3. InFlight' = 0
      BY <2>1, <2>2 DEF InFlight
    <2>4. OneRead' /\ EndIsSeen'
      BY <1>2, <1>5, <2>1 DEF OneRead, EndIsSeen
    <2>5. \A h \in Gens : InLog(h)' = InLog(h)
      BY <1>2, <1>3, <1>5, <2>3 DEF InLog
    <2>6. BufferIsCurrent'
      BY <2>3 DEF BufferIsCurrent
    <2> QED
      BY <1>1, <1>2, <1>5, <2>4, <2>5, <2>6, LogStays DEF CalmInv
  <1> QED
    BY <1>4, <1>5 DEF ReadCompletes

\* Text that continues what was logged of a child.
LEMMA SortedConcat ==
  ASSUME NEW text \in Seq(Chars), Sorted(text), NEW g \in Gens, NEW from \in Nat,
         \A i \in DOMAIN text : text[i][1] = g => text[i][2] <= from,
         NEW piece \in Seq(Chars), \A i \in DOMAIN piece : piece[i] = <<g, from + i>>
  PROVE  Sorted(text \o piece)
  <1>1. PICK l \in Nat, m \in Nat : l = Len(text) /\ m = Len(piece)
    OBVIOUS
  <1>2. /\ DOMAIN (text \o piece) = 1..(l + m)
        /\ \A i \in 1..(l + m) : (text \o piece)[i] = IF i <= l THEN text[i] ELSE piece[i - l]
    BY <1>1, ConcatProperties
  <1>3. \A i \in 1..l : text[i][2] \in Nat
    <2>1. \A i \in 1..l : text[i] \in Chars
      BY <1>1
    <2> QED
      BY <2>1 DEF Chars
  <1> SUFFICES ASSUME NEW i \in 1..(l + m), NEW j \in 1..(l + m), i < j,
                      (text \o piece)[i][1] = (text \o piece)[j][1]
               PROVE  (text \o piece)[i][2] < (text \o piece)[j][2]
    BY <1>2 DEF Sorted
  <1>4. CASE j <= l
    <2>1. i \in 1..l /\ j \in 1..l /\ i <= l
      BY <1>4
    <2>2. (text \o piece)[i] = text[i] /\ (text \o piece)[j] = text[j]
      BY <1>2, <1>4, <2>1
    <2>3. \A a, b \in 1..l : a < b /\ text[a][1] = text[b][1] => text[a][2] < text[b][2]
      BY <1>1 DEF Sorted
    <2> QED
      BY <2>1, <2>2, <2>3
  <1>5. CASE j > l
    <2>1. j - l \in 1..m /\ (text \o piece)[j] = piece[j - l]
      BY <1>2, <1>5
    <2>2. (text \o piece)[j] = <<g, from + (j - l)>>
      BY <1>1, <2>1
    <2>3. CASE i <= l
      <3>1. i \in 1..l /\ (text \o piece)[i] = text[i]
        BY <1>2, <2>3
      <3>2. text[i][1] = g /\ text[i][2] <= from /\ text[i][2] \in Nat
        BY <1>1, <1>3, <2>2, <3>1
      <3> QED
        BY <2>1, <2>2, <3>1, <3>2
    <2>4. CASE i > l
      <3>1. i - l \in 1..m /\ (text \o piece)[i] = piece[i - l]
        BY <1>2, <2>4
      <3>2. (text \o piece)[i] = <<g, from + (i - l)>>
        BY <1>1, <3>1
      <3> QED
        BY <2>2, <3>2
    <2>5. i <= l \/ i > l
      OBVIOUS
    <2> QED
      BY <2>3, <2>4, <2>5, Zenon
  <1>6. j <= l \/ j > l
    OBVIOUS
  <1> QED
    BY <1>4, <1>5, <1>6, Zenon

\* A handler runs: what it logs continues what was logged of the present child.
LEMMA CalmHandleRead ==
  ASSUME CalmInv, HandleRead
  PROVE  CalmInv'
  <1>1. Inv'
    BY HandleReadInv DEF CalmInv
  <1>2. /\ gen' = gen /\ read' = read /\ held' = held /\ buffer' = buffer /\ queue # <<>>
        /\ life' = life /\ life = "served"
    BY DEF HandleRead
  <1>3. isopen /\ armed = 0 /\ Len(queue) = 1 /\ gen \in Gens
    BY <1>2, CalmTypes DEF CalmInv, OneRead
  <1>4. PICK x \in Completions : x = Head(queue) /\ x = queue[1] /\ Tail(queue) = <<>>
    <2>1. queue \in Seq(Completions)
      BY CalmTypes
    <2>2. queue[1] \in Completions /\ Head(queue) = queue[1]
      BY <1>2, <1>3, <2>1
    <2>3. Tail(queue) \in Seq(Completions) /\ Len(Tail(queue)) = 0
      BY <1>2, <1>3, <2>1
    <2>4. Tail(queue) = <<>>
      BY <2>3, EmptySeq
    <2> QED
      BY <2>2, <2>4
  <1>5. CASE x.error
    <2>1. /\ isopen' = FALSE /\ armed' = 0 /\ queue' = Tail(queue) \o Aborted(armed)
          /\ log' = log
      BY <1>4, <1>5 DEF HandleRead, EndsReading
    <2>2. queue' = <<>>
      BY <1>3, <1>4, <2>1, NoneAborted
    <2>3. InFlight = 0 /\ InFlight' = 0
      BY <1>4, <1>5, <2>2 DEF InFlight
    <2>4. OneRead' /\ EndIsSeen'
      BY <1>2, <1>4, <1>5, <2>1, <2>2 DEF CalmInv, OneRead, EndIsSeen
    <2>5. \A h \in Gens : InLog(h)' = InLog(h)
      BY <1>2, <2>3 DEF InLog
    <2>6. BufferIsCurrent'
      BY <2>3 DEF BufferIsCurrent
    <2> QED
      BY <1>1, <1>2, <2>1, <2>4, <2>5, <2>6, LogStays DEF CalmInv
  <1>6. CASE ~x.error
    <2>1. /\ log' = log \o Logged(x.bytes) /\ armed' = ReadsAfter
          /\ queue' = <<>> /\ isopen' = isopen
      BY <1>4, <1>6 DEF HandleRead, EndsReading
    <2>2. PICK b \in Nat : b = InFlight /\ b = x.bytes /\ b <= Len(buffer)
      BY <1>2, <1>4, <1>6, CalmTypes DEF InFlight
    <2>3. InFlight' = 0
      BY <2>1 DEF InFlight
    <2>4. OneRead' /\ EndIsSeen'
      BY <1>2, <1>3, <2>1 DEF OneRead, EndIsSeen, ReadsAfter
    <2>5. BufferIsCurrent'
      BY <2>3 DEF BufferIsCurrent
    <2>6. PICK g \in Gens, from \in Nat : g = gen /\ from = read[gen] - b
      <3>1. read[gen] \in Nat /\ (b > 0 => b <= read[gen])
        BY <1>3, <2>2, CalmTypes DEF CalmInv, BufferIsCurrent
      <3> QED
        BY <1>3, <3>1
    <2>7. PICK piece \in Seq(Chars) :
            piece = Logged(b) /\ Len(piece) = b /\ \A i \in 1..b : piece[i] = <<g, from + i>>
      <3>1. /\ Logged(b) \in Seq(Chars) /\ Len(Logged(b)) = b
            /\ \A i \in 1..b : Logged(b)[i] = buffer[i]
        BY <2>2, LoggedFacts, CalmTypes
      <3>2. \A i \in 1..b : buffer[i] = <<g, from + i>>
        <4>1. CASE b = 0
          BY <4>1
        <4>2. CASE b > 0
          BY <2>2, <2>6, <4>2 DEF CalmInv, BufferIsCurrent
        <4> QED
          BY <4>1, <4>2
      <3> QED
        BY <3>1, <3>2
    <2>8. InLog(g) = from /\ InLog(g)' = from + b
      <3>1. read[gen] \in Nat
        BY <1>3, CalmTypes
      <3> QED
        BY <1>2, <2>2, <2>3, <2>6, <3>1 DEF InLog
    <2>9. \A h \in Gens : h # g => InLog(h)' = InLog(h)
      BY <1>2, <2>6 DEF InLog
    <2>10. PICK l \in Nat : /\ l = Len(log) /\ DOMAIN log = 1..l
                            /\ \A i \in 1..l : log[i][1] \in Gens /\ log[i][2] \in Nat
      BY CalmTypes
    <2>11. \A i \in 1..l : \A h \in Gens : log[i][1] = h => log[i][2] <= InLog(h)
      BY <2>10 DEF CalmInv, LogIsComplete
    <2>12. Sorted(log)'
      <3>1. \A i \in DOMAIN log : log[i][1] = g => log[i][2] <= from
        BY <2>8, <2>10, <2>11
      <3>2. log \in Seq(Chars) /\ Sorted(log) /\ log' = log \o piece
        BY <2>1, <2>2, <2>7, CalmTypes DEF CalmInv
      <3>3. \A i \in DOMAIN piece : piece[i] = <<g, from + i>>
        <4>1. DOMAIN piece = 1..Len(piece)
          OBVIOUS
        <4> QED
          BY <2>7, <4>1
      <3> QED
        BY <3>1, <3>2, <3>3, SortedConcat
    <2>13. /\ DOMAIN log' = 1..(l + b)
           /\ \A i \in 1..l : log'[i] = log[i]
           /\ \A i \in 1..b : log'[l + i] = <<g, from + i>>
      <3>1. log \in Seq(Chars) /\ log' = log \o piece
        BY <2>1, <2>2, <2>7, CalmTypes
      <3>2. /\ DOMAIN log' = 1..(l + b)
            /\ \A i \in 1..(l + b) : log'[i] = IF i <= l THEN log[i] ELSE piece[i - l]
        BY <2>7, <2>10, <3>1, ConcatProperties
      <3>3. \A i \in 1..b : l + i \in 1..(l + b) /\ ~(l + i <= l) /\ (l + i) - l = i
        OBVIOUS
      <3>4. \A i \in 1..l : i \in 1..(l + b) /\ i <= l
        OBVIOUS
      <3> QED
        BY <2>7, <3>2, <3>3, <3>4
    <2>14. ASSUME NEW i \in DOMAIN log', NEW h \in Gens, log'[i][1] = h
           PROVE  log'[i][2] <= InLog(h)'
      <3>1. CASE i \in 1..l
        <4>1. /\ log'[i][2] = log[i][2] /\ log[i][2] \in Nat /\ log[i][2] <= InLog(h)
          BY <2>10, <2>11, <2>13, <2>14, <3>1
        <4>2. CASE h = g
          BY <2>8, <4>1, <4>2
        <4>3. CASE h # g
          BY <2>9, <4>1, <4>3
        <4> QED
          BY <4>2, <4>3
      <3>2. CASE i \notin 1..l
        <4>1. i - l \in 1..b /\ i = l + (i - l)
          BY <2>13, <3>2
        <4>2. log'[i] = <<g, from + (i - l)>>
          BY <2>13, <4>1
        <4>3. from + (i - l) <= from + b
          BY <4>1
        <4>4. h = g /\ log'[i][2] = from + (i - l)
          BY <2>14, <4>2
        <4> QED
          BY <2>8, <4>3, <4>4
      <3> QED
        BY <3>1, <3>2
    <2>15. ASSUME NEW h \in Gens, NEW k \in 1..InLog(h)'
           PROVE  \E j \in DOMAIN log' : log'[j] = <<h, k>>
      <3>1. CASE k \in 1..InLog(h)
        <4>1. PICK j \in 1..l : log[j] = <<h, k>>
          BY <2>10, <3>1 DEF CalmInv, LogIsComplete
        <4>2. j \in DOMAIN log' /\ log'[j] = <<h, k>>
          BY <2>13, <4>1
        <4> QED
          BY <4>2
      <3>2. CASE k \notin 1..InLog(h)
        <4>1. h = g
          BY <2>9, <3>2
        <4>2. k \in 1..(from + b) /\ k \notin 1..from
          BY <2>8, <3>2, <4>1
        <4>3. k - from \in 1..b /\ l + (k - from) \in 1..(l + b) /\ from + (k - from) = k
          BY <4>2
        <4>4. log'[l + (k - from)] = <<g, k>>
          BY <2>13, <4>3
        <4> QED
          BY <2>13, <4>1, <4>3, <4>4
      <3> QED
        BY <3>1, <3>2
    <2>16. LogIsComplete'
      BY <2>14, <2>15 DEF LogIsComplete
    <2> QED
      BY <1>1, <1>2, <2>4, <2>5, <2>12, <2>16 DEF CalmInv
  <1> QED
    BY <1>5, <1>6

\* The event loop is stopped, or the object destroyed: what was read and not logged is
\* still in the buffer.
LEMMA CalmEnd ==
  ASSUME CalmInv, LoopStops \/ Destroyed
  PROVE  CalmInv'
  <1>1. Inv'
    BY EndInv DEF CalmInv
  <1>2. /\ gen' = gen /\ read' = read /\ held' = held
        /\ queue' = queue /\ buffer' = buffer /\ log' = log
        /\ life' = "gone" \/ (life # "gone" /\ isopen' = isopen /\ armed' = armed)
    BY DEF LoopStops, Destroyed
  <1>3. InFlight' = InFlight /\ \A g \in Gens : InLog(g)' = InLog(g)
    BY <1>2 DEF InFlight, InLog
  <1>4. OneRead' /\ EndIsSeen' /\ BufferIsCurrent'
    BY <1>2, <1>3 DEF CalmInv, OneRead, EndIsSeen, BufferIsCurrent
  <1> QED
    BY <1>1, <1>2, <1>3, <1>4, LogStays DEF CalmInv

\* Every step keeps the calm invariant.
LEMMA CalmStep == CalmInv /\ [CalmNext]_vars => CalmInv'
  <1>1. ASSUME CalmInv, UNCHANGED vars PROVE CalmInv'
    <2>1. Inv'
      BY <1>1, NextInv DEF CalmInv
    <2>2. /\ gen' = gen /\ read' = read /\ isopen' = isopen /\ armed' = armed
          /\ queue' = queue /\ buffer' = buffer /\ log' = log /\ held' = held
          /\ life' = life
      BY <1>1 DEF vars
    <2>3. InFlight' = InFlight /\ \A g \in Gens : InLog(g)' = InLog(g)
      BY <2>2 DEF InFlight, InLog
    <2>4. OneRead' /\ EndIsSeen' /\ BufferIsCurrent'
      BY <1>1, <2>2, <2>3 DEF CalmInv, OneRead, EndIsSeen, BufferIsCurrent
    <2> QED
      BY <1>1, <2>1, <2>2, <2>3, <2>4, LogStays DEF CalmInv
  <1> QED
    BY <1>1, CalmSpawn, CalmChild, CalmReadCompletes, CalmHandleRead, CalmEnd
    DEF CalmNext, NextButSpawn

\* The inductive invariant, of every state reachable with calm restarts.
THEOREM CalmSafety == CalmSpec => []CalmInv
  BY CalmInit, CalmStep, PTL DEF CalmSpec

\* spawn_ and handle_stdout_read_: the stream is open as long as its child may print and
\* the event loop serves the object.
THEOREM CalmStaysCaptured == CalmSpec => []StaysCaptured
  <1>1. CalmInv => StaysCaptured
    BY DEF CalmInv, EndIsSeen, StaysCaptured
  <1> QED
    BY <1>1, CalmSafety, PTL

\* handle_stdout_read_: however the text is cut into reads, the log has what each child
\* printed, in order, without a gap and without a repetition.
THEOREM CalmLogIsFaithful == CalmSpec => []LogIsFaithful
  <1>1. ASSUME CalmInv PROVE LogIsFaithful
    <2>1. ASSUME NEW i \in DOMAIN log, NEW k \in 1..log[i][2]
          PROVE  \E j \in 1..i : log[j] = <<log[i][1], k>>
      <3>1. PICK l \in Nat : DOMAIN log = 1..l
        BY <1>1, CalmTypes
      <3>2. PICK g \in Gens, m \in Nat : g = log[i][1] /\ m = log[i][2] /\ log[i] = <<g, m>>
        <4>1. log[i] \in Chars
          BY <1>1, CalmTypes
        <4> QED
          BY <4>1 DEF Chars
      <3>3. CASE k = m
        <4>1. i \in 1..i
          BY <3>1
        <4> QED
          BY <3>2, <3>3, <4>1
      <3>4. CASE k # m
        <4>1. m <= InLog(g) /\ InLog(g) \in Int
          BY <1>1, <3>2, CalmTypes DEF CalmInv, LogIsComplete
        <4>2. k \in 1..InLog(g) /\ k < m
          BY <3>2, <3>4, <4>1
        <4>3. PICK j \in 1..l : log[j] = <<g, k>>
          BY <1>1, <3>1, <4>2 DEF CalmInv, LogIsComplete
        <4>4. ~(i < j)
          <5>1. log[j][1] = g /\ log[j][2] = k
            BY <4>3
          <5> QED
            BY <1>1, <3>1, <3>2, <4>2, <5>1 DEF CalmInv, Sorted
        <4>5. j \in 1..i
          BY <3>1, <4>3, <4>4
        <4> QED
          BY <3>2, <4>3, <4>5
      <3> QED
        BY <3>3, <3>4
    <2> QED
      BY <1>1, <2>1 DEF CalmInv, Sorted, LogIsFaithful
  <1> QED
    BY <1>1, CalmSafety, PTL
=============================================================================
