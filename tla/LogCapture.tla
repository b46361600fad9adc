----------------------------- MODULE LogCapture -----------------------------
(***************************************************************************)
(* How a Process captures the output of its children                       *)
(* (supervisor-lib/src/process/process.cpp, spawn_ and the read handlers   *)
(* of stdout; those of stderr are the same).  Each start makes a new pipe  *)
(* and a new stream, stdout_stream_, in the place of the one before, while *)
(* stdout_buffer_ and the handlers are those of the object: a completion   *)
(* of the old stream may be handled when the stream is already the new     *)
(* one.  The old pipe may still be open then, since it is open as long as  *)
(* any descendant of the old child has it.                                 *)
(*                                                                         *)
(* What child number g prints is the characters <<g, 1>>, <<g, 2>>, ...    *)
(***************************************************************************)
EXTENDS Integers, SequencesExt

CONSTANTS
  MaxGen,    \* bound: children started one after the other
  MaxChars,  \* bound: characters a child prints
  BufSize    \* the 4096 characters of stdout_buffer_

ASSUME BoundsAssumption ==
  MaxGen \in Nat /\ MaxChars \in Nat /\ BufSize \in Nat \ {0}

VARIABLES
  gen,      \* the number of the last child started
  printed,  \* how many characters each child has written into its pipe
  read,     \* how many of them were read from the pipe
  held,     \* the children whose pipe is still open for writing
  isopen,   \* stdout_stream_->is_open()
  armed,    \* the reads that stdout_stream_ has not completed
  queue,    \* the completions whose handlers have not run, the oldest first
  buffer,   \* stdout_buffer_
  log,      \* what the log writer was given
  life      \* "served" while the event loop runs, "unserved" when it was stopped,
            \* "gone" when the object was destroyed

vars == <<gen, printed, read, held, isopen, armed, queue, buffer, log, life>>

Gens  == 1..MaxGen
Chars == Gens \X (1..MaxChars)

Completions == [error : BOOLEAN, bytes : 0..BufSize]
Failed      == [error |-> TRUE, bytes |-> 0]

TypeOK == /\ gen \in 0..MaxGen
          /\ printed \in [Gens -> 0..MaxChars] /\ read \in [Gens -> 0..MaxChars]
          /\ held \subseteq Gens
          /\ isopen \in BOOLEAN /\ armed \in Nat
          /\ queue \in Seq(Completions)
          /\ buffer \in Seq(Chars) /\ Len(buffer) <= BufSize
          /\ log \in Seq(Chars)
          /\ life \in {"served", "unserved", "gone"}

Init == /\ gen = 0
        /\ printed = [g \in Gens |-> 0] /\ read = [g \in Gens |-> 0]
        /\ held = {} /\ isopen = FALSE /\ armed = 0
        /\ queue = <<>> /\ buffer = <<>> /\ log = <<>>
        /\ life = "served"

-----------------------------------------------------------------------------
\* The completions of n reads that are aborted because their stream goes.
Aborted(n) == [i \in 1..n |-> Failed]

\* spawn_: the new stream takes the place of the old one and its first read starts.
Spawn ==
  /\ life = "served" /\ gen < MaxGen
  /\ gen' = gen + 1
  /\ held' = held \cup {gen + 1}
  /\ isopen' = TRUE /\ armed' = 1
  /\ queue' = queue \o Aborted(armed)
  /\ UNCHANGED <<printed, read, buffer, log, life>>

\* The present child, or a descendant that has its pipe, prints.  What goes into a
\* pipe that nobody will read is of no interest here.
ChildPrints ==
  /\ gen \in held /\ isopen /\ printed[gen] < MaxChars
  /\ printed' = [printed EXCEPT ![gen] = @ + 1]
  /\ UNCHANGED <<gen, read, held, isopen, armed, queue, buffer, log, life>>

\* The last process that has the pipe ends.
PipeCloses(g) ==
  /\ held' = held \ {g} /\ g \in held
  /\ UNCHANGED <<gen, printed, read, isopen, armed, queue, buffer, log, life>>

\* Mutant: one character too many is asked for.
ReadSizesOver == 1..(BufSize + 1)

\* How much a read may return.
ReadSizes == 1..BufSize

\* The oldest read completes, with some of the text there is, or at its end.
ReadCompletes ==
  /\ life = "served" /\ isopen /\ armed > 0
  /\ armed' = armed - 1
  /\ \/ \E n \in ReadSizes :
          /\ read[gen] + n <= printed[gen]
          /\ buffer' = [i \in 1..n |-> <<gen, read[gen] + i>>]
                         \o SubSeq(buffer, n + 1, Len(buffer))
          /\ read' = [read EXCEPT ![gen] = @ + n]
          /\ queue' = Append(queue, [error |-> FALSE, bytes |-> n])
     \/ /\ gen \notin held /\ read[gen] = printed[gen]
        /\ queue' = Append(queue, Failed)
        /\ UNCHANGED <<read, buffer>>
  /\ UNCHANGED <<gen, printed, held, isopen, log, life>>

\* Mutant: reading does not go on.
ReadsAfterStop == 0

\* start_stdout_read_: the reads that are armed afterwards.
ReadsAfter == IF isopen THEN armed + 1 ELSE armed

\* Mutant: the whole buffer is logged.
LoggedBuffer(bytes) == buffer

\* What handle_stdout_read_ gives to the log writer.
Logged(bytes) == SubSeq(buffer, 1, bytes)

\* Mutant: a short read is taken for the end.
EndsReadingShort(completion) == completion.error \/ completion.bytes < BufSize

\* The handler closes the stream.
EndsReading(completion) == completion.error

\* handle_stdout_read_ of the oldest completion.
HandleRead ==
  /\ life = "served" /\ queue # <<>>
  /\ IF EndsReading(Head(queue))
     THEN /\ isopen' = FALSE /\ armed' = 0
          /\ queue' = Tail(queue) \o Aborted(armed)
          /\ UNCHANGED log
     ELSE /\ log' = log \o Logged(Head(queue).bytes)
          /\ armed' = ReadsAfter
          /\ queue' = Tail(queue)
          /\ UNCHANGED isopen
  /\ UNCHANGED <<gen, printed, read, held, buffer, life>>

\* The shutdown stops the event loop: no read completes and no handler runs any more,
\* whatever is in the pipe and in the buffer.
LoopStops ==
  /\ life = "served" /\ life' = "unserved"
  /\ UNCHANGED <<gen, printed, read, held, isopen, armed, queue, buffer, log>>

\* ~Process, when a reload removes or replaces the program or the daemon ends: the stream
\* is closed with what is in the pipe.  The handlers of what is in the queue, and of
\* the reads that are aborted, find that self_weak is empty and do nothing.
Destroyed ==
  /\ life # "gone" /\ life' = "gone"
  /\ isopen' = FALSE /\ armed' = 0
  /\ UNCHANGED <<gen, printed, read, held, queue, buffer, log>>

NextButSpawn ==
  \/ ChildPrints \/ \E g \in Gens : PipeCloses(g)
  \/ ReadCompletes \/ HandleRead
  \/ LoopStops \/ Destroyed

Next == Spawn \/ NextButSpawn

\* The same, when a child is started only after the end of the previous pipe was
\* seen and handled.
CalmNext == (~isopen /\ queue = <<>> /\ Spawn) \/ NextButSpawn

Spec     == Init /\ [][Next]_vars
CalmSpec == Init /\ [][CalmNext]_vars

\* The event loop, while it runs, completes reads that can complete and runs their
\* handlers.
FairCalmSpec == CalmSpec /\ WF_vars(ReadCompletes) /\ WF_vars(HandleRead)

-----------------------------------------------------------------------------
\* The output of the present child is captured as long as it may print, the event loop
\* runs and the object exists.
StaysCaptured == life = "served" /\ gen \in held => isopen

\* The log has what each child printed, without a repetition or a change of order, and
\* without a gap: before each character are those its child has printed before.
LogIsFaithful ==
  /\ \A i, j \in DOMAIN log : i < j /\ log[i][1] = log[j][1] => log[i][2] < log[j][2]
  /\ \A i \in DOMAIN log : \A k \in 1..log[i][2] : \E j \in 1..i : log[j] = <<log[i][1], k>>

\* Everything a child has printed is in the log in the end, unless the object is destroyed
\* or the event loop stopped before it was read.
EverythingLogged ==
  \A c \in Chars : printed[c[1]] >= c[2] ~> c \in Range(log) \/ life # "served"
=============================================================================
