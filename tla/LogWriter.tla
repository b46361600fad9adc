------------------------------ MODULE LogWriter ------------------------------
(***************************************************************************)
(* LogWriter (supervisor-lib/src/logger/log_writer.cpp): what a program    *)
(* prints is buffered up to its last newline, written to the log file, and *)
(* the file is rotated by size.                                            *)
(*                                                                         *)
(* The characters sent to the writer are numbered in the order they were   *)
(* sent, and only newlines are told from the others; a file is the         *)
(* sequence of the numbers of its characters.                              *)
(***************************************************************************)
EXTENDS Integers, SequencesExt

CONSTANTS
  MaxBytes,    \* max_bytes_, 0 for no rotation
  Backups,     \* what backups_ may be configured to
  MaxPending,  \* the 64 KB of MAX_PENDING_BUFFER
  Chunks,      \* what one call of write() may be given
  Faults,      \* whether an I/O operation may fail
  MaxSent      \* bound: characters sent

ASSUME LimitsAssumption ==
  /\ MaxBytes \in Nat /\ Backups \subseteq Int /\ MaxPending \in Nat \ {0}
  /\ MaxSent \in Nat /\ Faults \in BOOLEAN

\* The 4096 characters of a read of the pipe fit into the buffer.
ASSUME ChunksAssumption ==
  /\ Chunks \subseteq Seq({"c", "nl"}) \ {<<>>}
  /\ \A data \in Chunks : Len(data) <= MaxPending

VARIABLES
  backups,  \* backups_
  sent,     \* history: every character given to write()
  files,    \* the log file (0) and its backups .1, .2, ...
  pending,  \* pending_buffer_
  size,     \* current_size_
  open,     \* file_.is_open()
  bad,      \* file_ is in a failed state
  lost      \* history: an operation on the file failed

vars == <<backups, sent, files, pending, size, open, bad, lost>>

NoFile == <<0>>  \* no character has this number

Kept == IF backups > 0 THEN backups ELSE 0
Oldest == IF Kept = 0 THEN 1 ELSE Kept

Chars == Seq(1..MaxSent)

\* The buffer stays below its limit between calls.
TypeOK == /\ backups \in Backups
          /\ sent \in Seq({"c", "nl"})
          /\ files \in [0..Oldest -> Chars \cup {NoFile}]
          /\ pending \in Chars /\ Len(pending) < MaxPending
          /\ size \in Nat
          /\ open \in BOOLEAN /\ bad \in BOOLEAN /\ lost \in BOOLEAN

-----------------------------------------------------------------------------
\* Opening for append creates the file; current_size_ is its length.
Opened(fs) == IF fs[0] = NoFile THEN [fs EXCEPT ![0] = <<>>] ELSE fs

\* Mutant: the length is not asked for.
SizeAfterOpenZero(fs) == 0

SizeAfterOpen(fs) == Len(Opened(fs)[0])

(***************************************************************************)
(* The files when the first n steps of a rotation were done: the oldest    *)
(* backup is removed, then the others are renamed, from the oldest to the  *)
(* log file itself.  All of them are Kept + 1 steps.                       *)
(***************************************************************************)
Rotated(fs, n) ==
  [i \in 0..Oldest |->
     IF i > 0 /\ n >= Kept + 2 - i THEN fs[i - 1]
     ELSE IF i <= Kept /\ n >= Kept + 1 - i THEN NoFile
     ELSE fs[i]]

\* How many steps of a rotation are done.
Steps == IF Faults THEN 0..(Kept + 1) ELSE {Kept + 1}

\* file_, current_size_ and the files.
Now == [files |-> files, size |-> size, open |-> open, bad |-> bad]

\* The stream after openNL_() of a closed file: it may fail to open, and once it
\* is open its length is known.
Reopened(fs) ==
  {[files |-> Opened(fs), size |-> SizeAfterOpen(fs), open |-> TRUE, bad |-> FALSE]} \cup
  (IF Faults THEN {[files |-> fs, size |-> 0, open |-> FALSE, bad |-> TRUE]} ELSE {})

\* writeNL_ rotates before it writes text.
MustRotate(s, text) == MaxBytes > 0 /\ s.size + Len(text) > MaxBytes

\* The streams rotateNL_() may leave.
AfterRotation(s, text) ==
  IF MustRotate(s, text) THEN UNION {Reopened(Rotated(s.files, n)) : n \in Steps}
                         ELSE {s}

\* The streams file_.write(text) may leave: all, or only the first k characters
\* are in the file, and none when the stream has failed before.
Appended(s, text) ==
  {[s EXCEPT !.files[0] = @ \o text] : x \in IF s.bad THEN {} ELSE {TRUE}} \cup
  {[s EXCEPT !.files[0] = @ \o SubSeq(text, 1, k), !.bad = TRUE] :
     k \in IF s.bad \/ ~Faults THEN {} ELSE 0..(Len(text) - 1)} \cup
  (IF s.bad THEN {s} ELSE {})

\* The state of the writer is that of stream s.
Is(s) == /\ files' = s.files /\ size' = s.size /\ open' = s.open /\ bad' = s.bad
         /\ lost' = (lost \/ s.bad)

-----------------------------------------------------------------------------
\* Mutant: only newlines end what is written.
FlushEndAtNewline(data) ==
  LET nl == SelectLastInSeq(data, LAMBDA c : c = "nl")
  IN  IF nl > 0 THEN Len(pending) + nl ELSE 0

\* The part of the buffer write() writes: up to the last newline of data, or all
\* when there is too much without one.
FlushEnd(data) ==
  LET nl == SelectLastInSeq(data, LAMBDA c : c = "nl")
  IN  IF nl > 0 THEN Len(pending) + nl
      ELSE IF Len(pending) + Len(data) >= MaxPending THEN Len(pending) + Len(data)
      ELSE 0

\* Mutant: what was written stays in the buffer.
PendingAfterKept(buf, n) == buf

\* Mutant: the buffer is cleared, the beginning of the next line with it.
PendingAfterCleared(buf, n) == IF n = 0 THEN buf ELSE <<>>

\* What is left of the buffer when its first n characters were written.
PendingAfter(buf, n) == SubSeq(buf, n + 1, Len(buf))

\* The stream when writing n characters has made w of stream r: current_size_ counts
\* them unless write() has failed; an error of flush() comes after that.
Counting(r, w, n) ==
  {[w EXCEPT !.size = @ + n] : x \in IF r.bad THEN {} ELSE {TRUE}} \cup
  (IF w.bad THEN {w} ELSE {})

\* The constructor.
Init ==
  /\ backups \in Backups /\ sent = <<>> /\ pending = <<>>
  /\ \E s \in Reopened([i \in 0..Oldest |-> NoFile]) :
       files = s.files /\ size = s.size /\ open = s.open /\ bad = s.bad /\ lost = s.bad

\* write(data).
Write(data) ==
  LET end  == FlushEnd(data)
      buf  == pending \o [i \in 1..Len(data) |-> Len(sent) + i]
      text == SubSeq(buf, 1, end)
  IN  /\ Len(sent) + Len(data) <= MaxSent
      /\ sent' = sent \o data /\ UNCHANGED backups
      /\ \E s \in IF open THEN {Now} ELSE Reopened(files) :
           IF ~s.open THEN Is(s) /\ UNCHANGED pending
           ELSE /\ pending' = PendingAfter(buf, end)
                /\ IF end = 0 THEN Is(s)
                   ELSE \E r \in AfterRotation(s, text) : \E w \in Appended(r, text) :
                          \E u \in Counting(r, w, Len(text)) : Is(u)

\* The streams flush() and closeNL_() leave: the buffer is written without a look
\* at the size of the file or at the result.
Flushed(s) == [s EXCEPT !.size = @ + Len(pending)]

\* flush(), which the reader of a pipe calls when the child has closed it.
Flush ==
  /\ IF open /\ pending # <<>>
     THEN pending' = <<>> /\ \E w \in Appended(Now, pending) : Is(Flushed(w))
     ELSE UNCHANGED <<pending, files, size, open, bad, lost>>
  /\ UNCHANGED <<backups, sent>>

\* The writer is destroyed and a new one is made for the same file.
Restart ==
  /\ pending' = <<>>
  /\ \E w \in IF open THEN Appended(Now, pending) ELSE {Now} :
       \E s \in Reopened(w.files) :
         /\ files' = s.files /\ size' = s.size /\ open' = s.open /\ bad' = s.bad
         /\ lost' = (lost \/ s.bad \/ (w.bad /\ pending # <<>>) \/ (~open /\ pending # <<>>))
  /\ UNCHANGED <<backups, sent>>

Next == (\E data \in Chunks : Write(data)) \/ Flush \/ Restart

Spec == Init /\ [][Next]_vars

-----------------------------------------------------------------------------
\* The texts a reader would put together, in that order: the oldest backup first, the
\* log file, and last the buffer.
Places == -1..Oldest
Text(i) == IF i < 0 THEN pending ELSE IF files[i] = NoFile THEN <<>> ELSE files[i]

\* Whatever operation fails, no character is kept twice or out of order.
InOrder ==
  \A i, j \in Places : \A a \in DOMAIN Text(i), b \in DOMAIN Text(j) :
    i > j \/ (i = j /\ a < b) => Text(i)[a] < Text(j)[b]

\* The characters that are kept.
Retained == UNION {Range(Text(i)) : i \in Places}

\* As long as the file can be written, only the oldest characters go: those kept
\* are all the latest ones, even when a rotation was left half done.
NoGap ==
  ~lost /\ sent # <<>> => /\ Len(sent) \in Retained
                         /\ \A x \in Retained : x..Len(sent) \subseteq Retained

\* current_size_ is the length of the log file.
SizeTracksFile == ~lost => size = Len(files[0])
=============================================================================
