-------------------------- MODULE LogWriterProofs --------------------------
(***************************************************************************)
(* What holds of LogWriter for every limit on files and buffer, every      *)
(* number of backups and every text, with and without failing operations.  *)
(***************************************************************************)
EXTENDS LogWriter, SequenceTheorems, WellFoundedInduction, TLAPS

USE LimitsAssumption

-----------------------------------------------------------------------------
(***************************************************************************)
(* Texts.  A character is at a place, which is a file of 0..top or the     *)
(* buffer (-1), and has an index there; one is before another in the order *)
(* of a reader.                                                            *)
(***************************************************************************)
TextAt(fs, p, i) == IF i < 0 THEN p ELSE IF fs[i] = NoFile THEN <<>> ELSE fs[i]

Before(i, a, j, b) == i > j \/ (i = j /\ a < b)

Sorted(top, fs, p) ==
  \A i, j \in -1..top : \A a \in DOMAIN TextAt(fs, p, i), b \in DOMAIN TextAt(fs, p, j) :
    Before(i, a, j, b) => TextAt(fs, p, i)[a] < TextAt(fs, p, j)[b]

\* Character x is kept.
Holds(top, fs, p, x) ==
  \E i \in -1..top : \E a \in DOMAIN TextAt(fs, p, i) : TextAt(fs, p, i)[a] = x

FilesTo(top) == [0..top -> Chars \cup {NoFile}]

\* Every text is a sequence of characters.
LEMMA TextFacts ==
  ASSUME NEW top \in Nat, NEW fs \in FilesTo(top), NEW p \in Chars, NEW i \in -1..top
  PROVE  /\ TextAt(fs, p, i) \in Chars
         /\ \A a \in DOMAIN TextAt(fs, p, i) : TextAt(fs, p, i)[a] \in 1..MaxSent
  <1>1. TextAt(fs, p, i) \in Chars
    <2>1. CASE i < 0
      BY <2>1 DEF TextAt
    <2>2. CASE ~(i < 0)
      <3>1. i \in 0..top
        BY <2>2
      <3>2. fs[i] \in Chars \cup {NoFile} /\ <<>> \in Chars
        BY <3>1 DEF FilesTo, Chars
      <3> QED
        BY <2>2, <3>2 DEF TextAt
    <2> QED
      BY <2>1, <2>2
  <1> QED
    BY <1>1 DEF Chars

\* Each character of new texts comes from one of the old texts, in the same order: no
\* character is new, and what was sorted still is.
LEMMA Embedding ==
  ASSUME NEW top \in Nat, NEW fs, NEW p, NEW gs, NEW q, NEW M,
         \A i \in -1..top : \A a \in DOMAIN TextAt(gs, q, i) :
           /\ M[<<i, a>>][1] \in -1..top
           /\ M[<<i, a>>][2] \in DOMAIN TextAt(fs, p, M[<<i, a>>][1])
           /\ TextAt(fs, p, M[<<i, a>>][1])[M[<<i, a>>][2]] = TextAt(gs, q, i)[a],
         \A i, j \in -1..top : \A a \in DOMAIN TextAt(gs, q, i), b \in DOMAIN TextAt(gs, q, j) :
           Before(i, a, j, b) =>
             Before(M[<<i, a>>][1], M[<<i, a>>][2], M[<<j, b>>][1], M[<<j, b>>][2])
  PROVE  /\ Sorted(top, fs, p) => Sorted(top, gs, q)
         /\ \A x : Holds(top, gs, q, x) => Holds(top, fs, p, x)
  <1>1. ASSUME Sorted(top, fs, p) PROVE Sorted(top, gs, q)
    <2> SUFFICES ASSUME NEW i \in -1..top, NEW j \in -1..top,
                        NEW a \in DOMAIN TextAt(gs, q, i), NEW b \in DOMAIN TextAt(gs, q, j),
                        Before(i, a, j, b)
                 PROVE  TextAt(gs, q, i)[a] < TextAt(gs, q, j)[b]
      BY DEF Sorted
    <2>1. PICK i2, a2, j2, b2 : /\ i2 = M[<<i, a>>][1] /\ a2 = M[<<i, a>>][2]
                                /\ j2 = M[<<j, b>>][1] /\ b2 = M[<<j, b>>][2]
      OBVIOUS
    <2>2. /\ i2 \in -1..top /\ a2 \in DOMAIN TextAt(fs, p, i2)
          /\ TextAt(fs, p, i2)[a2] = TextAt(gs, q, i)[a]
      BY <2>1, Zenon
    <2>3. /\ j2 \in -1..top /\ b2 \in DOMAIN TextAt(fs, p, j2)
          /\ TextAt(fs, p, j2)[b2] = TextAt(gs, q, j)[b]
      BY <2>1, Zenon
    <2>4. Before(i2, a2, j2, b2)
      BY <2>1, Zenon
    <2>5. TextAt(fs, p, i2)[a2] < TextAt(fs, p, j2)[b2]
      BY <1>1, <2>2, <2>3, <2>4, Zenon DEF Sorted
    <2> QED
      BY <2>2, <2>3, <2>5, Zenon
  <1>2. ASSUME NEW x, Holds(top, gs, q, x) PROVE Holds(top, fs, p, x)
    <2>1. PICK i \in -1..top : \E a \in DOMAIN TextAt(gs, q, i) : TextAt(gs, q, i)[a] = x
      BY <1>2, Zenon DEF Holds
    <2>2. PICK a \in DOMAIN TextAt(gs, q, i) : TextAt(gs, q, i)[a] = x
      BY <2>1
    <2>3. /\ M[<<i, a>>][1] \in -1..top
          /\ M[<<i, a>>][2] \in DOMAIN TextAt(fs, p, M[<<i, a>>][1])
          /\ TextAt(fs, p, M[<<i, a>>][1])[M[<<i, a>>][2]] = x
      BY <2>2, Zenon
    <2> QED
      BY <2>3, Zenon DEF Holds
  <1> QED
    BY <1>1, <1>2, Zenon

\* The same texts.
LEMMA SameTexts ==
  ASSUME NEW top \in Nat, NEW fs, NEW gs, NEW p,
         \A i \in 0..top : TextAt(gs, p, i) = TextAt(fs, p, i)
  PROVE  /\ Sorted(top, fs, p) => Sorted(top, gs, p)
         /\ \A x : Holds(top, gs, p, x) <=> Holds(top, fs, p, x)
  <1>1. \A i \in -1..top : TextAt(gs, p, i) = TextAt(fs, p, i)
    <2> SUFFICES ASSUME NEW i \in -1..top PROVE TextAt(gs, p, i) = TextAt(fs, p, i)
      OBVIOUS
    <2>1. CASE i < 0
      BY <2>1 DEF TextAt
    <2>2. CASE ~(i < 0)
      <3>1. i \in 0..top
        BY <2>2
      <3> QED
        BY <3>1
    <2> QED
      BY <2>1, <2>2
  <1>2. Sorted(top, fs, p) => Sorted(top, gs, p)
    BY <1>1, Zenon DEF Sorted
  <1>3. \A x : Holds(top, gs, p, x) <=> Holds(top, fs, p, x)
    BY <1>1, Zenon DEF Holds
  <1> QED
    BY <1>2, <1>3

-----------------------------------------------------------------------------
(***************************************************************************)
(* Rotation.  After some of its steps, every file from the hole on is the  *)
(* one before it, and the hole is empty.                                   *)
(***************************************************************************)
Shifted(top, fs, hole) ==
  [i \in 0..top |-> IF i > hole THEN fs[i - 1] ELSE IF i = hole THEN NoFile ELSE fs[i]]

\* Every number of steps is a shift, or nothing.
LEMMA RotatedIsShifted ==
  ASSUME backups \in Int, NEW fs \in FilesTo(Oldest), NEW n \in 0..(Kept + 1)
  PROVE  /\ Oldest \in Nat
         /\ \/ Rotated(fs, n) = fs
            \/ \E hole \in 0..Oldest : Rotated(fs, n) = Shifted(Oldest, fs, hole)
  <1>1. PICK kept \in Nat, top \in Nat :
          kept = Kept /\ top = Oldest /\ top = (IF kept = 0 THEN 1 ELSE kept)
    BY DEF Kept, Oldest
  <1>2. Rotated(fs, n) = [i \in 0..top |-> IF i > 0 /\ n >= kept + 2 - i THEN fs[i - 1]
                                           ELSE IF i <= kept /\ n >= kept + 1 - i THEN NoFile
                                           ELSE fs[i]]
    BY <1>1 DEF Rotated
  <1>3. CASE n = 0
    <2>1. \A i \in 0..top : ~(i > 0 /\ n >= kept + 2 - i) /\ ~(i <= kept /\ n >= kept + 1 - i)
      BY <1>1, <1>3
    <2>2. fs = [i \in 0..top |-> fs[i]]
      BY <1>1 DEF FilesTo
    <2>3. Rotated(fs, n) = fs
      BY <1>2, <2>1, <2>2
    <2> QED
      BY <1>1, <2>3
  <1>4. CASE n # 0
    <2>1. PICK hole \in 0..top : hole = kept + 1 - n
      BY <1>1, <1>4
    <2>2. \A i \in 0..top : /\ (i > 0 /\ n >= kept + 2 - i) <=> i > hole
                            /\ ~(i > hole) => ((i <= kept /\ n >= kept + 1 - i) <=> i = hole)
      BY <1>1, <1>4, <2>1
    <2>3. Rotated(fs, n) = Shifted(top, fs, hole)
      BY <1>2, <2>2 DEF Shifted
    <2> QED
      BY <1>1, <2>3
  <1> QED
    BY <1>3, <1>4

\* A shift keeps the types and the order, and only the oldest file goes.
LEMMA ShiftedFacts ==
  ASSUME NEW top \in Nat, NEW fs \in FilesTo(top), NEW p \in Chars, NEW hole \in 0..top
  PROVE  /\ Shifted(top, fs, hole) \in FilesTo(top)
         /\ Sorted(top, fs, p) => Sorted(top, Shifted(top, fs, hole), p)
         /\ \A x : Holds(top, Shifted(top, fs, hole), p, x) =>
              \E i \in -1..(top - 1) : \E a \in DOMAIN TextAt(fs, p, i) : TextAt(fs, p, i)[a] = x
         /\ \A i \in -1..(top - 1) : \A a \in DOMAIN TextAt(fs, p, i) :
              Holds(top, Shifted(top, fs, hole), p, TextAt(fs, p, i)[a])
  <1> DEFINE gs == Shifted(top, fs, hole)
  <1>1. \A i \in 0..top : gs[i] = IF i > hole THEN fs[i - 1] ELSE IF i = hole THEN NoFile ELSE fs[i]
    BY DEF Shifted
  <1>2. gs \in FilesTo(top)
    <2>1. \A i \in 0..top : i > hole => i - 1 \in 0..top
      OBVIOUS
    <2> QED
      BY <2>1 DEF FilesTo, Shifted
  <1> HIDE DEF gs
  <1>3. \A i \in -1..top :
          TextAt(gs, p, i) = IF i > hole THEN TextAt(fs, p, i - 1)
                             ELSE IF i = hole THEN <<>> ELSE TextAt(fs, p, i)
    <2> SUFFICES ASSUME NEW i \in -1..top
                 PROVE  TextAt(gs, p, i) = IF i > hole THEN TextAt(fs, p, i - 1)
                                           ELSE IF i = hole THEN <<>> ELSE TextAt(fs, p, i)
      OBVIOUS
    <2>1. CASE i < 0
      BY <2>1 DEF TextAt
    <2>2. CASE i > hole
      <3>1. i \in 0..top /\ i - 1 \in 0..top /\ ~(i < 0) /\ ~(i - 1 < 0)
        BY <2>2
      <3> QED
        BY <1>1, <2>2, <3>1 DEF TextAt
    <2>3. CASE ~(i < 0) /\ ~(i > hole)
      <3>1. i \in 0..top
        BY <2>3
      <3> QED
        BY <1>1, <2>3, <3>1 DEF TextAt
    <2> QED
      BY <2>1, <2>2, <2>3
  <1>4. PICK M : M = [x \in Int \X Int |-> <<IF x[1] > hole THEN x[1] - 1 ELSE x[1], x[2]>>]
    OBVIOUS
  <1>5. \A i, a \in Int : /\ M[<<i, a>>][1] = (IF i > hole THEN i - 1 ELSE i)
                          /\ M[<<i, a>>][2] = a
    BY <1>4
  <1>6. \A i \in -1..top : \A a \in DOMAIN TextAt(gs, p, i) : a \in Int /\ i # hole
    <2> SUFFICES ASSUME NEW i \in -1..top, NEW a \in DOMAIN TextAt(gs, p, i)
                 PROVE  a \in Int /\ i # hole
      OBVIOUS
    <2>1. TextAt(gs, p, i) \in Chars
      BY <1>2, TextFacts
    <2>2. a \in Int
      BY <2>1 DEF Chars
    <2>3. i # hole
      BY <1>3
    <2> QED
      BY <2>2, <2>3
  <1>7. ASSUME NEW i \in -1..top, NEW a \in DOMAIN TextAt(gs, p, i)
        PROVE  /\ M[<<i, a>>][1] \in -1..top
               /\ M[<<i, a>>][2] \in DOMAIN TextAt(fs, p, M[<<i, a>>][1])
               /\ TextAt(fs, p, M[<<i, a>>][1])[M[<<i, a>>][2]] = TextAt(gs, p, i)[a]
    <2>1. a \in Int /\ i # hole /\ i \in Int
      BY <1>6
    <2>2. CASE i > hole
      <3>1. M[<<i, a>>][1] = i - 1 /\ M[<<i, a>>][2] = a /\ i - 1 \in -1..top
        BY <1>5, <2>1, <2>2
      <3>2. TextAt(gs, p, i) = TextAt(fs, p, i - 1)
        BY <1>3, <2>2
      <3> QED
        BY <3>1, <3>2
    <2>3. CASE ~(i > hole)
      <3>1. M[<<i, a>>][1] = i /\ M[<<i, a>>][2] = a
        BY <1>5, <2>1, <2>3
      <3>2. TextAt(gs, p, i) = TextAt(fs, p, i)
        BY <1>3, <2>1, <2>3
      <3> QED
        BY <3>1, <3>2
    <2> QED
      BY <2>2, <2>3
  <1>8. ASSUME NEW i \in -1..top, NEW j \in -1..top,
               NEW a \in DOMAIN TextAt(gs, p, i), NEW b \in DOMAIN TextAt(gs, p, j),
               Before(i, a, j, b)
        PROVE  Before(M[<<i, a>>][1], M[<<i, a>>][2], M[<<j, b>>][1], M[<<j, b>>][2])
    <2>1. a \in Int /\ i # hole /\ b \in Int /\ j # hole /\ i \in Int /\ j \in Int
      BY <1>6
    <2>2. /\ M[<<i, a>>][1] = (IF i > hole THEN i - 1 ELSE i) /\ M[<<i, a>>][2] = a
          /\ M[<<j, b>>][1] = (IF j > hole THEN j - 1 ELSE j) /\ M[<<j, b>>][2] = b
      BY <1>5, <2>1
    <2> QED
      BY <1>8, <2>1, <2>2 DEF Before
  <1>9. Sorted(top, fs, p) => Sorted(top, gs, p)
    BY <1>7, <1>8, Embedding
  <1>10. ASSUME NEW x, Holds(top, gs, p, x)
         PROVE  \E i \in -1..(top - 1) : \E a \in DOMAIN TextAt(fs, p, i) : TextAt(fs, p, i)[a] = x
    <2>1. PICK i \in -1..top : \E a \in DOMAIN TextAt(gs, p, i) : TextAt(gs, p, i)[a] = x
      BY <1>10 DEF Holds
    <2>2. PICK a \in DOMAIN TextAt(gs, p, i) : TextAt(gs, p, i)[a] = x
      BY <2>1
    <2>3. PICK j \in -1..(top - 1) : TextAt(gs, p, i) = TextAt(fs, p, j)
      <3>1. CASE i > hole
        <4>1. i - 1 \in -1..(top - 1)
          BY <3>1
        <4> QED
          BY <1>3, <3>1, <4>1
      <3>2. CASE ~(i > hole)
        <4>1. i \in -1..(top - 1) /\ i # hole
          BY <1>6, <2>2, <3>2
        <4> QED
          BY <1>3, <3>2, <4>1
      <3> QED
        BY <3>1, <3>2
    <2> QED
      BY <2>2, <2>3
  <1>11. ASSUME NEW i \in -1..(top - 1), NEW a \in DOMAIN TextAt(fs, p, i)
         PROVE  Holds(top, gs, p, TextAt(fs, p, i)[a])
    <2>1. PICK j \in -1..top : j = IF i >= hole THEN i + 1 ELSE i
      OBVIOUS
    <2>2. TextAt(gs, p, j) = TextAt(fs, p, i)
      <3>1. CASE i >= hole
        <4>1. j > hole /\ j - 1 = i
          BY <2>1, <3>1
        <4> QED
          BY <1>3, <4>1
      <3>2. CASE ~(i >= hole)
        <4>1. ~(j > hole) /\ j # hole /\ j = i
          BY <2>1, <3>2
        <4> QED
          BY <1>3, <4>1
      <3> QED
        BY <3>1, <3>2
    <2> QED
      BY <2>2 DEF Holds
  <1> QED
    BY <1>2, <1>9, <1>10, <1>11 DEF gs

-----------------------------------------------------------------------------
(***************************************************************************)
(* Characters move from the beginning of the buffer to the end of the log  *)
(* file, all of the first e, or only k of them when the write fails.       *)
(***************************************************************************)
Moved(fs, p, e, k, gs, q) ==
  /\ q = SubSeq(p, e + 1, Len(p))
  /\ \/ k = 0 /\ gs = fs
     \/ fs[0] # NoFile /\ gs = [fs EXCEPT ![0] = @ \o SubSeq(p, 1, k)]

\* NoFile is not a text.
LEMMA NoFileFacts == NoFile \notin Chars
  BY DEF NoFile, Chars

\* A part of a text.
LEMMA PartFacts ==
  ASSUME NEW p \in Chars, NEW m \in 1..(Len(p) + 1), NEW n \in 0..Len(p), m <= n + 1
  PROVE  /\ SubSeq(p, m, n) \in Chars /\ Len(SubSeq(p, m, n)) = n - m + 1
         /\ DOMAIN SubSeq(p, m, n) = 1..(n - m + 1)
         /\ \A i \in 1..(n - m + 1) : SubSeq(p, m, n)[i] = p[m + i - 1]
  <1>1. \A i \in m..n : p[i] \in 1..MaxSent
    BY DEF Chars
  <1>2. /\ SubSeq(p, m, n) \in Seq(1..MaxSent)
        /\ Len(SubSeq(p, m, n)) = IF m <= n THEN n - m + 1 ELSE 0
        /\ \A i \in 1..(n - m + 1) : SubSeq(p, m, n)[i] = p[m + i - 1]
    BY <1>1, SubSeqProperties
  <1> QED
    BY <1>2 DEF Chars

\* The file and the buffer when characters were moved.
LEMMA MovedTexts ==
  ASSUME NEW top \in Nat, NEW fs \in FilesTo(top), NEW p \in Chars,
         NEW e \in 0..Len(p), NEW k \in 0..e, NEW gs, NEW q, Moved(fs, p, e, k, gs, q)
  PROVE  /\ gs \in FilesTo(top) /\ q \in Chars /\ Len(q) = Len(p) - e
         /\ DOMAIN TextAt(gs, q, -1) = 1..(Len(p) - e)
         /\ \A a \in 1..(Len(p) - e) : TextAt(gs, q, -1)[a] = p[a + e]
         /\ \A i \in 1..top : TextAt(gs, q, i) = TextAt(fs, p, i)
         /\ DOMAIN TextAt(gs, q, 0) = 1..(Len(TextAt(fs, p, 0)) + k)
         /\ \A a \in 1..(Len(TextAt(fs, p, 0)) + k) :
              TextAt(gs, q, 0)[a] = IF a <= Len(TextAt(fs, p, 0)) THEN TextAt(fs, p, 0)[a]
                                    ELSE p[a - Len(TextAt(fs, p, 0))]
  <1> USE DEF Moved
  <1>1. PICK n \in Nat : n = Len(p)
    BY DEF Chars
  <1>2. /\ q \in Chars /\ Len(q) = n - e /\ DOMAIN q = 1..(n - e)
        /\ \A a \in 1..(n - e) : q[a] = p[a + e]
    <2>1. /\ q \in Chars /\ Len(q) = n - (e + 1) + 1 /\ DOMAIN q = 1..(n - (e + 1) + 1)
          /\ \A a \in 1..(n - (e + 1) + 1) : q[a] = p[(e + 1) + a - 1]
      BY <1>1, PartFacts
    <2>2. n - (e + 1) + 1 = n - e /\ \A a \in 1..(n - e) : (e + 1) + a - 1 = a + e
      BY <1>1
    <2> QED
      BY <2>1, <2>2
  <1>3. TextAt(gs, q, -1) = q
    BY DEF TextAt
  <1>4. PICK f \in Chars, l \in Nat : f = TextAt(fs, p, 0) /\ l = Len(f) /\ DOMAIN f = 1..l
    <2>1. TextAt(fs, p, 0) \in Chars
      <3>1. 0 \in -1..top
        OBVIOUS
      <3> QED
        BY <3>1, TextFacts
    <2>2. Len(TextAt(fs, p, 0)) \in Nat
          /\ DOMAIN TextAt(fs, p, 0) = 1..Len(TextAt(fs, p, 0))
      BY <2>1 DEF Chars
    <2> QED
      BY <2>1, <2>2
  <1>5. CASE k = 0 /\ gs = fs
    <2>1. \A i \in 0..top : TextAt(gs, q, i) = TextAt(fs, p, i)
      BY <1>5 DEF TextAt
    <2>2. l + k = l /\ \A a \in 1..l : a <= l
      BY <1>5
    <2> QED
      BY <1>1, <1>2, <1>3, <1>4, <1>5, <2>1, <2>2
  <1>6. CASE fs[0] # NoFile /\ gs = [fs EXCEPT ![0] = @ \o SubSeq(p, 1, k)]
    <2>1. f = fs[0]
      BY <1>4, <1>6 DEF TextAt
    <2>2. PICK x \in Chars : /\ x = SubSeq(p, 1, k) /\ Len(x) = k
                             /\ \A a \in 1..k : x[a] = p[a]
      <3>1. /\ SubSeq(p, 1, k) \in Chars /\ Len(SubSeq(p, 1, k)) = k - 1 + 1
            /\ \A a \in 1..(k - 1 + 1) : SubSeq(p, 1, k)[a] = p[1 + a - 1]
        BY <1>1, PartFacts
      <3>2. k - 1 + 1 = k /\ \A a \in 1..k : 1 + a - 1 = a
        OBVIOUS
      <3> QED
        BY <3>1, <3>2
    <2>3. /\ f \o x \in Chars /\ DOMAIN (f \o x) = 1..(l + k)
          /\ \A a \in 1..(l + k) : (f \o x)[a] = IF a <= l THEN f[a] ELSE x[a - l]
      <3>1. /\ f \o x \in Chars /\ Len(f \o x) = l + k
            /\ \A a \in 1..(l + k) : (f \o x)[a] = IF a <= l THEN f[a] ELSE x[a - l]
        <4>1. /\ f \o x \in Chars /\ Len(f \o x) = Len(f) + Len(x)
              /\ \A a \in 1..(Len(f) + Len(x)) :
                   (f \o x)[a] = IF a <= Len(f) THEN f[a] ELSE x[a - Len(f)]
          BY <1>4, <2>2, ConcatProperties DEF Chars
        <4> QED
          BY <1>4, <2>2, <4>1
      <3>2. DOMAIN (f \o x) = 1..Len(f \o x)
        BY <3>1 DEF Chars
      <3> QED
        BY <3>1, <3>2
    <2>4. /\ gs \in FilesTo(top) /\ gs[0] = f \o x
          /\ \A i \in 1..top : gs[i] = fs[i]
      <3>1. PICK y \in Chars : y = f \o x
        BY <2>3
      <3>2. gs = [fs EXCEPT ![0] = y]
        BY <1>6, <2>1, <2>2, <3>1
      <3>3. 0 \in 0..top /\ \A i \in 1..top : i \in 0..top /\ i # 0
        OBVIOUS
      <3> QED
        BY <3>1, <3>2, <3>3 DEF FilesTo
    <2>5. TextAt(gs, q, 0) = f \o x
      <3>1. ~(0 < 0)
        OBVIOUS
      <3> QED
        BY <2>3, <2>4, <3>1, NoFileFacts, Zenon DEF TextAt
    <2>6. \A i \in 1..top : TextAt(gs, q, i) = TextAt(fs, p, i)
      BY <2>4 DEF TextAt
    <2>7. \A a \in 1..(l + k) : (f \o x)[a] = IF a <= l THEN f[a] ELSE p[a - l]
      <3>1. \A a \in 1..(l + k) : ~(a <= l) => a - l \in 1..k
        OBVIOUS
      <3> QED
        BY <2>2, <2>3, <3>1
    <2> QED
      BY <1>1, <1>2, <1>3, <1>4, <2>3, <2>4, <2>5, <2>6, <2>7
  <1> QED
    BY <1>5, <1>6

\* The order is kept, nothing is new, and nothing is lost when all is moved.
LEMMA MovedFacts ==
  ASSUME NEW top \in Nat, NEW fs \in FilesTo(top), NEW p \in Chars,
         NEW e \in 0..Len(p), NEW k \in 0..e, NEW gs, NEW q, Moved(fs, p, e, k, gs, q)
  PROVE  /\ gs \in FilesTo(top) /\ q \in Chars /\ Len(q) = Len(p) - e
         /\ Sorted(top, fs, p) => Sorted(top, gs, q)
         /\ \A x : Holds(top, gs, q, x) => Holds(top, fs, p, x)
         /\ k = e => \A x : Holds(top, fs, p, x) => Holds(top, gs, q, x)
  <1>1. PICK n \in Nat : n = Len(p)
    BY DEF Chars
  <1>2. PICK l \in Nat : l = Len(TextAt(fs, p, 0)) /\ DOMAIN TextAt(fs, p, 0) = 1..l
    <2>1. TextAt(fs, p, 0) \in Chars
      BY TextFacts
    <2> QED
      BY <2>1 DEF Chars
  <1>3. TextAt(fs, p, -1) = p /\ DOMAIN p = 1..n
    BY <1>1 DEF TextAt, Chars
  <1>4. /\ gs \in FilesTo(top) /\ q \in Chars /\ Len(q) = n - e
        /\ DOMAIN TextAt(gs, q, -1) = 1..(n - e)
        /\ \A a \in 1..(n - e) : TextAt(gs, q, -1)[a] = p[a + e]
        /\ \A i \in 1..top : TextAt(gs, q, i) = TextAt(fs, p, i)
        /\ DOMAIN TextAt(gs, q, 0) = 1..(l + k)
        /\ \A a \in 1..(l + k) :
             TextAt(gs, q, 0)[a] = IF a <= l THEN TextAt(fs, p, 0)[a] ELSE p[a - l]
    <2>1. /\ gs \in FilesTo(top) /\ q \in Chars /\ Len(q) = Len(p) - e
          /\ DOMAIN TextAt(gs, q, -1) = 1..(Len(p) - e)
          /\ \A a \in 1..(Len(p) - e) : TextAt(gs, q, -1)[a] = p[a + e]
          /\ \A i \in 1..top : TextAt(gs, q, i) = TextAt(fs, p, i)
          /\ DOMAIN TextAt(gs, q, 0) = 1..(Len(TextAt(fs, p, 0)) + k)
          /\ \A a \in 1..(Len(TextAt(fs, p, 0)) + k) :
               TextAt(gs, q, 0)[a] = IF a <= Len(TextAt(fs, p, 0)) THEN TextAt(fs, p, 0)[a]
                                     ELSE p[a - Len(TextAt(fs, p, 0))]
      BY MovedTexts
    <2> QED
      BY <1>1, <1>2, <2>1
  <1>5. e \in 0..n
    BY <1>1
  <1>6. PICK M : M = [x \in Int \X Int |->
                        <<IF x[1] = 0 /\ x[2] > l THEN 0 - 1 ELSE x[1],
                          IF x[1] = 0 /\ x[2] > l THEN x[2] - l
                          ELSE IF x[1] < 0 THEN x[2] + e ELSE x[2]>>]
    OBVIOUS
  <1>7. \A i, a \in Int :
          /\ M[<<i, a>>][1] = (IF i = 0 /\ a > l THEN 0 - 1 ELSE i)
          /\ M[<<i, a>>][2] = (IF i = 0 /\ a > l THEN a - l
                               ELSE IF i < 0 THEN a + e ELSE a)
    BY <1>6
  <1>8. \A i \in -1..top : i = -1 \/ i = 0 \/ i \in 1..top
    OBVIOUS
  <1>9. \A i \in -1..top : \A a \in DOMAIN TextAt(gs, q, i) :
          a \in Int /\ a > 0 /\ (i = 0 => a <= l + k)
    <2> SUFFICES ASSUME NEW i \in -1..top, NEW a \in DOMAIN TextAt(gs, q, i)
                 PROVE  a \in Int /\ a > 0 /\ (i = 0 => a <= l + k)
      OBVIOUS
    <2>1. TextAt(gs, q, i) \in Chars
      BY <1>4, TextFacts
    <2>2. a \in Int /\ a > 0
      BY <2>1 DEF Chars
    <2>3. i = 0 => a <= l + k
      BY <1>4
    <2> QED
      BY <2>2, <2>3
  <1>10. ASSUME NEW i \in -1..top, NEW a \in DOMAIN TextAt(gs, q, i)
         PROVE  /\ M[<<i, a>>][1] \in -1..top
                /\ M[<<i, a>>][2] \in DOMAIN TextAt(fs, p, M[<<i, a>>][1])
                /\ TextAt(fs, p, M[<<i, a>>][1])[M[<<i, a>>][2]] = TextAt(gs, q, i)[a]
    <2>1. a \in Int /\ i \in Int
      BY <1>9
    <2>2. CASE i = -1
      <3>1. M[<<i, a>>][1] = -1 /\ M[<<i, a>>][2] = a + e /\ -1 \in -1..top
        BY <1>7, <2>1, <2>2
      <3>2. a \in 1..(n - e) /\ a + e \in 1..n
        BY <1>4, <1>5, <2>2
      <3>3. TextAt(gs, q, i)[a] = p[a + e]
        BY <1>4, <2>2, <3>2
      <3> QED
        BY <1>3, <3>1, <3>2, <3>3
    <2>3. CASE i = 0 /\ a > l
      <3>1. M[<<i, a>>][1] = -1 /\ M[<<i, a>>][2] = a - l /\ -1 \in -1..top
        <4>1. M[<<i, a>>][1] = 0 - 1 /\ M[<<i, a>>][2] = a - l
          BY <1>7, <2>1, <2>3
        <4> QED
          BY <4>1
      <3>2. a \in 1..(l + k)
        BY <1>4, <2>3
      <3>3. a - l \in 1..n /\ ~(a <= l)
        BY <1>5, <2>3, <3>2
      <3>4. TextAt(gs, q, i)[a] = p[a - l]
        BY <1>4, <2>3, <3>2, <3>3
      <3> QED
        BY <1>3, <3>1, <3>3, <3>4
    <2>4. CASE i = 0 /\ ~(a > l)
      <3>1. M[<<i, a>>][1] = 0 /\ M[<<i, a>>][2] = a /\ 0 \in -1..top
        BY <1>7, <2>1, <2>4
      <3>2. a \in 1..(l + k)
        BY <1>4, <2>4
      <3>3. a \in 1..l /\ a <= l
        BY <2>4, <3>2
      <3>4. TextAt(gs, q, i)[a] = TextAt(fs, p, 0)[a]
        BY <1>4, <2>4, <3>2, <3>3
      <3> QED
        BY <1>2, <3>1, <3>3, <3>4
    <2>5. CASE i \in 1..top
      <3>1. M[<<i, a>>][1] = i /\ M[<<i, a>>][2] = a
        BY <1>7, <2>1, <2>5
      <3>2. TextAt(gs, q, i) = TextAt(fs, p, i)
        BY <1>4, <2>5
      <3> QED
        BY <3>1, <3>2
    <2> QED
      BY <1>8, <2>2, <2>3, <2>4, <2>5
  <1>11. ASSUME NEW i \in -1..top, NEW j \in -1..top,
                NEW a \in DOMAIN TextAt(gs, q, i), NEW b \in DOMAIN TextAt(gs, q, j),
                Before(i, a, j, b)
         PROVE  Before(M[<<i, a>>][1], M[<<i, a>>][2], M[<<j, b>>][1], M[<<j, b>>][2])
    <2>1. /\ a \in Int /\ i \in Int /\ a > 0 /\ (i = 0 => a <= l + k)
          /\ b \in Int /\ j \in Int /\ b > 0 /\ (j = 0 => b <= l + k)
      BY <1>9
    <2>2. PICK i2, a2, j2, b2 : /\ i2 = M[<<i, a>>][1] /\ a2 = M[<<i, a>>][2]
                                /\ j2 = M[<<j, b>>][1] /\ b2 = M[<<j, b>>][2]
      OBVIOUS
    <2>3. IF i = 0 /\ a > l THEN i2 = -1 /\ a2 = a - l
          ELSE IF i = -1 THEN i2 = -1 /\ a2 = a + e ELSE i2 = i /\ a2 = a
      BY <1>7, <2>1, <2>2
    <2>4. IF j = 0 /\ b > l THEN j2 = -1 /\ b2 = b - l
          ELSE IF j = -1 THEN j2 = -1 /\ b2 = b + e ELSE j2 = j /\ b2 = b
      BY <1>7, <2>1, <2>2
    <2>5. Before(i2, a2, j2, b2)
      BY <1>5, <1>11, <2>1, <2>3, <2>4 DEF Before
    <2> QED
      BY <2>2, <2>5
  <1>12. /\ Sorted(top, fs, p) => Sorted(top, gs, q)
         /\ \A x : Holds(top, gs, q, x) => Holds(top, fs, p, x)
    <2>1. \A i \in -1..top : \A a \in DOMAIN TextAt(gs, q, i) :
            /\ M[<<i, a>>][1] \in -1..top
            /\ M[<<i, a>>][2] \in DOMAIN TextAt(fs, p, M[<<i, a>>][1])
            /\ TextAt(fs, p, M[<<i, a>>][1])[M[<<i, a>>][2]] = TextAt(gs, q, i)[a]
      BY <1>10
    <2>2. \A i, j \in -1..top :
            \A a \in DOMAIN TextAt(gs, q, i), b \in DOMAIN TextAt(gs, q, j) :
              Before(i, a, j, b) =>
                Before(M[<<i, a>>][1], M[<<i, a>>][2], M[<<j, b>>][1], M[<<j, b>>][2])
      BY <1>11
    <2> QED
      BY <2>1, <2>2, Embedding
  <1>13. ASSUME k = e, NEW x, Holds(top, fs, p, x) PROVE Holds(top, gs, q, x)
    <2>1. PICK i \in -1..top : \E a \in DOMAIN TextAt(fs, p, i) : TextAt(fs, p, i)[a] = x
      BY <1>13 DEF Holds
    <2>2. PICK a \in DOMAIN TextAt(fs, p, i) : TextAt(fs, p, i)[a] = x
      BY <2>1
    <2> SUFFICES \E j \in -1..top : \E b \in DOMAIN TextAt(gs, q, j) : TextAt(gs, q, j)[b] = x
      BY DEF Holds
    <2>3. CASE i \in 1..top
      <3>1. TextAt(gs, q, i) = TextAt(fs, p, i)
        BY <1>4, <2>3
      <3> QED
        BY <2>2, <3>1
    <2>4. CASE i = 0
      <3>1. a \in 1..l /\ a \in 1..(l + k) /\ a <= l
        BY <1>2, <2>2, <2>4
      <3>2. TextAt(gs, q, 0)[a] = x /\ 0 \in -1..top
        BY <1>4, <2>2, <2>4, <3>1
      <3> QED
        BY <1>4, <3>1, <3>2
    <2>5. CASE i = -1 /\ a <= e
      <3>1. a \in 1..n /\ p[a] = x
        BY <1>3, <2>2, <2>5
      <3>2. l + a \in 1..(l + k) /\ ~(l + a <= l) /\ (l + a) - l = a
        BY <1>13, <2>5, <3>1
      <3>3. TextAt(gs, q, 0)[l + a] = x /\ 0 \in -1..top
        BY <1>4, <3>1, <3>2
      <3> QED
        BY <1>4, <3>2, <3>3
    <2>6. CASE i = -1 /\ ~(a <= e)
      <3>1. a \in 1..n /\ p[a] = x
        BY <1>3, <2>2, <2>6
      <3>2. a - e \in 1..(n - e) /\ (a - e) + e = a
        BY <1>5, <2>6, <3>1
      <3>3. TextAt(gs, q, -1)[a - e] = x /\ -1 \in -1..top
        BY <1>4, <3>1, <3>2
      <3> QED
        BY <1>4, <3>2, <3>3
    <2> QED
      BY <1>8, <2>3, <2>4, <2>5, <2>6
  <1> QED
    BY <1>1, <1>4, <1>12, <1>13

\* The buffer with the next m characters.
Extended(p, n, m) == p \o [i \in 1..m |-> n + i]

\* Characters are added to the buffer, later ones than any that is kept.
LEMMA ExtendedFacts ==
  ASSUME NEW top \in Nat, NEW fs \in FilesTo(top), NEW p \in Chars, NEW n \in Nat,
         NEW m \in Nat, n + m <= MaxSent, NEW q, q = Extended(p, n, m),
         \A x : Holds(top, fs, p, x) => x <= n, Sorted(top, fs, p)
  PROVE  /\ q \in Chars /\ Len(q) = Len(p) + m
         /\ Sorted(top, fs, q)
         /\ \A x : Holds(top, fs, q, x) <=> Holds(top, fs, p, x) \/ x \in (n + 1)..(n + m)
  <1>1. PICK new : new = [i \in 1..m |-> n + i]
    OBVIOUS
  <1>2. new \in Chars /\ Len(new) = m /\ \A i \in 1..m : new[i] = n + i
    <2>1. \A i \in 1..m : n + i \in 1..MaxSent
      OBVIOUS
    <2> QED
      BY <1>1, <2>1 DEF Chars
  <1>3. PICK l \in Nat : l = Len(p) /\ DOMAIN p = 1..l
    BY DEF Chars
  <1>4. /\ q \in Chars /\ Len(q) = l + m /\ DOMAIN q = 1..(l + m)
        /\ \A a \in 1..(l + m) : q[a] = IF a <= l THEN p[a] ELSE new[a - l]
    BY <1>1, <1>2, <1>3, ConcatProperties DEF Chars, Extended
  <1>5. TextAt(fs, q, -1) = q /\ TextAt(fs, p, -1) = p
    BY DEF TextAt
  <1>6. \A i \in 0..top : TextAt(fs, q, i) = TextAt(fs, p, i)
    BY DEF TextAt
  <1>7. \A i \in -1..top : i = -1 \/ i \in 0..top
    OBVIOUS
  <1>8. ASSUME NEW i \in -1..top, NEW a \in DOMAIN TextAt(fs, q, i)
        PROVE  \/ /\ a \in DOMAIN TextAt(fs, p, i) /\ TextAt(fs, q, i)[a] = TextAt(fs, p, i)[a]
                  /\ i = -1 => a <= l
               \/ i = -1 /\ a \in (l + 1)..(l + m) /\ TextAt(fs, q, i)[a] = n + (a - l)
    <2>1. CASE i \in 0..top
      <3>1. i # -1
        BY <2>1
      <3> QED
        BY <1>6, <2>1, <3>1
    <2>2. CASE i = -1
      <3>1. a \in 1..(l + m)
        BY <1>4, <1>5, <2>2
      <3>2. CASE a <= l
        <4>1. a \in 1..l
          BY <3>1, <3>2
        <4> QED
          BY <1>3, <1>4, <1>5, <2>2, <3>1, <3>2, <4>1
      <3>3. CASE ~(a <= l)
        <4>1. a \in (l + 1)..(l + m) /\ a - l \in 1..m
          BY <3>1, <3>3
        <4> QED
          BY <1>2, <1>4, <1>5, <2>2, <3>1, <3>3, <4>1
      <3> QED
        BY <3>2, <3>3
    <2> QED
      BY <1>7, <2>1, <2>2
  <1>9. ASSUME NEW i \in -1..top, NEW j \in -1..top,
               NEW a \in DOMAIN TextAt(fs, q, i), NEW b \in DOMAIN TextAt(fs, q, j),
               Before(i, a, j, b)
        PROVE  TextAt(fs, q, i)[a] < TextAt(fs, q, j)[b]
    <2>1. a \in Int /\ b \in Int /\ TextAt(fs, q, i)[a] \in Nat
      <3>1. TextAt(fs, q, i) \in Chars /\ TextAt(fs, q, j) \in Chars
        BY <1>4, TextFacts
      <3> QED
        BY <3>1 DEF Chars
    <2>2. CASE j = -1 /\ b \in (l + 1)..(l + m) /\ TextAt(fs, q, j)[b] = n + (b - l)
      <3>1. CASE i = -1 /\ a \in (l + 1)..(l + m) /\ TextAt(fs, q, i)[a] = n + (a - l)
        BY <1>9, <2>1, <2>2, <3>1 DEF Before
      <3>2. CASE a \in DOMAIN TextAt(fs, p, i) /\ TextAt(fs, q, i)[a] = TextAt(fs, p, i)[a]
        <4>1. TextAt(fs, q, i)[a] <= n
          BY <3>2 DEF Holds
        <4> QED
          BY <2>1, <2>2, <4>1
      <3> QED
        BY <1>8, <3>1, <3>2
    <2>3. CASE /\ b \in DOMAIN TextAt(fs, p, j) /\ TextAt(fs, q, j)[b] = TextAt(fs, p, j)[b]
               /\ j = -1 => b <= l
      <3>1. ~(i = -1 /\ a \in (l + 1)..(l + m))
        <4>1. ASSUME i = -1, a \in (l + 1)..(l + m) PROVE FALSE
          <5>1. j = -1 /\ a < b
            BY <1>9, <4>1 DEF Before
          <5> QED
            BY <2>1, <2>3, <4>1, <5>1
        <4> QED
          BY <4>1
      <3>2. a \in DOMAIN TextAt(fs, p, i) /\ TextAt(fs, q, i)[a] = TextAt(fs, p, i)[a]
        BY <1>8, <3>1
      <3> QED
        BY <1>9, <2>3, <3>2 DEF Sorted
    <2> QED
      BY <1>8, <2>2, <2>3
  <1>10. Sorted(top, fs, q)
    BY <1>9, Zenon DEF Sorted
  <1>11. ASSUME NEW x, Holds(top, fs, q, x)
         PROVE  Holds(top, fs, p, x) \/ x \in (n + 1)..(n + m)
    <2>1. PICK i \in -1..top : \E a \in DOMAIN TextAt(fs, q, i) : TextAt(fs, q, i)[a] = x
      BY <1>11 DEF Holds
    <2>2. PICK a \in DOMAIN TextAt(fs, q, i) : TextAt(fs, q, i)[a] = x
      BY <2>1
    <2>3. CASE a \in DOMAIN TextAt(fs, p, i) /\ TextAt(fs, q, i)[a] = TextAt(fs, p, i)[a]
      BY <2>2, <2>3 DEF Holds
    <2>4. CASE a \in (l + 1)..(l + m) /\ TextAt(fs, q, i)[a] = n + (a - l)
      BY <2>2, <2>4
    <2> QED
      BY <1>8, <2>3, <2>4
  <1>12. ASSUME NEW x, Holds(top, fs, p, x) PROVE Holds(top, fs, q, x)
    <2>1. PICK i \in -1..top : \E a \in DOMAIN TextAt(fs, p, i) : TextAt(fs, p, i)[a] = x
      BY <1>12 DEF Holds
    <2>2. PICK a \in DOMAIN TextAt(fs, p, i) : TextAt(fs, p, i)[a] = x
      BY <2>1
    <2>3. a \in DOMAIN TextAt(fs, q, i) /\ TextAt(fs, q, i)[a] = x
      <3>1. CASE i \in 0..top
        BY <1>6, <2>2, <3>1
      <3>2. CASE i = -1
        <4>1. a \in 1..l /\ a \in 1..(l + m) /\ a <= l
          BY <1>3, <1>5, <2>2, <3>2
        <4> QED
          BY <1>4, <1>5, <2>2, <3>2, <4>1
      <3> QED
        BY <1>7, <3>1, <3>2
    <2> QED
      BY <2>3 DEF Holds
  <1>13. ASSUME NEW x \in (n + 1)..(n + m) PROVE Holds(top, fs, q, x)
    <2>1. PICK a \in 1..(l + m) : a = l + (x - n) /\ ~(a <= l) /\ a - l \in 1..m /\ n + (a - l) = x
      OBVIOUS
    <2>2. q[a] = new[a - l] /\ a \in DOMAIN q
      BY <1>4, <2>1
    <2>3. q[a] = x
      BY <1>2, <2>1, <2>2
    <2>4. -1 \in -1..top
      OBVIOUS
    <2> QED
      BY <1>5, <2>2, <2>3, <2>4 DEF Holds
  <1> QED
    BY <1>3, <1>4, <1>10, <1>11, <1>12, <1>13

-----------------------------------------------------------------------------
(***************************************************************************)
(* What the texts promise: they are sorted, no character is later than the *)
(* n-th, and, as long as nothing was lost, those kept are the latest ones. *)
(***************************************************************************)
TextOK(top, fs, p, n) ==
  /\ Sorted(top, fs, p)
  /\ \A i \in -1..top : \A a \in DOMAIN TextAt(fs, p, i) : TextAt(fs, p, i)[a] <= n

Latest(top, fs, p, n) ==
  n > 0 => /\ Holds(top, fs, p, n)
           /\ \A x \in 1..n : Holds(top, fs, p, x) => \A y \in x..n : Holds(top, fs, p, y)

\* No character is later than the n-th.
LEMMA HoldsBound ==
  ASSUME NEW top \in Nat, NEW fs, NEW p, NEW n
  PROVE  TextOK(top, fs, p, n) <=>
           Sorted(top, fs, p) /\ \A x : Holds(top, fs, p, x) => x <= n
  BY Zenon DEF TextOK, Holds

\* A kept character is a number.
LEMMA HoldsType ==
  ASSUME NEW top \in Nat, NEW fs \in FilesTo(top), NEW p \in Chars, NEW x,
         Holds(top, fs, p, x)
  PROVE  x \in Nat /\ x > 0
  <1>1. PICK i \in -1..top : \E a \in DOMAIN TextAt(fs, p, i) : TextAt(fs, p, i)[a] = x
    BY DEF Holds
  <1>2. x \in 1..MaxSent
    BY <1>1, TextFacts
  <1> QED
    BY <1>2

\* More may have been sent.
LEMMA BoundGrows ==
  ASSUME NEW top \in Nat, NEW fs \in FilesTo(top), NEW p \in Chars, NEW n \in Nat,
         NEW m \in Nat, n <= m, TextOK(top, fs, p, n)
  PROVE  TextOK(top, fs, p, m)
  <1>1. ASSUME NEW x, Holds(top, fs, p, x) PROVE x <= m
    BY <1>1, HoldsBound, HoldsType
  <1>2. Sorted(top, fs, p)
    BY DEF TextOK
  <1> QED
    BY <1>1, <1>2, HoldsBound

\* The same texts promise the same.
LEMMA SamePromise ==
  ASSUME NEW top \in Nat, NEW fs, NEW gs, NEW p, NEW n,
         \A i \in 0..top : TextAt(gs, p, i) = TextAt(fs, p, i)
  PROVE  /\ TextOK(top, fs, p, n) => TextOK(top, gs, p, n)
         /\ Latest(top, fs, p, n) => Latest(top, gs, p, n)
  <1>1. /\ Sorted(top, fs, p) => Sorted(top, gs, p)
        /\ \A x : Holds(top, gs, p, x) <=> Holds(top, fs, p, x)
    BY SameTexts
  <1>2. TextOK(top, fs, p, n) => TextOK(top, gs, p, n)
    BY <1>1, HoldsBound
  <1>3. Latest(top, fs, p, n) => Latest(top, gs, p, n)
    BY <1>1, Zenon DEF Latest
  <1> QED
    BY <1>2, <1>3

\* Characters are added to the buffer.
LEMMA ExtendedPromise ==
  ASSUME NEW top \in Nat, NEW fs \in FilesTo(top), NEW p \in Chars, NEW n \in Nat,
         NEW m \in Nat \ {0}, n + m <= MaxSent, NEW q, q = Extended(p, n, m),
         TextOK(top, fs, p, n)
  PROVE  /\ q \in Chars /\ Len(q) = Len(p) + m
         /\ TextOK(top, fs, q, n + m)
         /\ Latest(top, fs, p, n) => Latest(top, fs, q, n + m)
         /\ \E a \in DOMAIN q : q[a] = n + m
  <1>1. Sorted(top, fs, p) /\ \A x : Holds(top, fs, p, x) => x <= n
    BY HoldsBound
  <1>2. /\ q \in Chars /\ Len(q) = Len(p) + m /\ Sorted(top, fs, q)
        /\ \A x : Holds(top, fs, q, x) <=> Holds(top, fs, p, x) \/ x \in (n + 1)..(n + m)
    BY <1>1, ExtendedFacts
  <1>3. \A x : Holds(top, fs, q, x) => x <= n + m
    <2> SUFFICES ASSUME NEW x, Holds(top, fs, q, x) PROVE x <= n + m
      OBVIOUS
    <2>1. CASE Holds(top, fs, p, x)
      <3>1. x \in Nat /\ x <= n
        BY <1>1, <2>1, HoldsType
      <3> QED
        BY <3>1
    <2>2. CASE x \in (n + 1)..(n + m)
      BY <2>2
    <2> QED
      BY <1>2, <2>1, <2>2
  <1>4. TextOK(top, fs, q, n + m)
    BY <1>2, <1>3, HoldsBound
  <1>5. ASSUME Latest(top, fs, p, n) PROVE Latest(top, fs, q, n + m)
    <2>1. n + m \in (n + 1)..(n + m)
      OBVIOUS
    <2>2. ASSUME NEW x \in 1..(n + m), Holds(top, fs, q, x), NEW y \in x..(n + m)
          PROVE  Holds(top, fs, q, y)
      <3>1. CASE y \in (n + 1)..(n + m)
        BY <1>2, <3>1
      <3>2. CASE y \notin (n + 1)..(n + m)
        <4>1. y <= n /\ x \in 1..n /\ y \in x..n /\ n > 0 /\ x \notin (n + 1)..(n + m)
          BY <3>2
        <4>2. Holds(top, fs, p, x)
          BY <1>2, <2>2, <4>1
        <4>3. Holds(top, fs, p, y)
          BY <1>5, <4>1, <4>2 DEF Latest
        <4> QED
          BY <1>2, <4>3
      <3> QED
        BY <3>1, <3>2
    <2> QED
      BY <1>2, <2>1, <2>2 DEF Latest
  <1>6. \E a \in DOMAIN q : q[a] = n + m
    <2>1. PICK l \in Nat : l = Len(p) /\ p \in Seq(1..MaxSent)
      BY DEF Chars
    <2>2. PICK new : new = [i \in 1..m |-> n + i]
      OBVIOUS
    <2>3. new \in Seq(1..MaxSent) /\ Len(new) = m /\ new[m] = n + m
      <3>1. \A i \in 1..m : n + i \in 1..MaxSent
        OBVIOUS
      <3> QED
        BY <2>2, <3>1
    <2>4. /\ DOMAIN q = 1..(l + m)
          /\ \A a \in 1..(l + m) : q[a] = IF a <= l THEN p[a] ELSE new[a - l]
      BY <2>1, <2>2, <2>3, ConcatProperties DEF Extended
    <2>5. l + m \in 1..(l + m) /\ ~(l + m <= l) /\ (l + m) - l = m
      OBVIOUS
    <2>6. q[l + m] = n + m
      BY <2>3, <2>4, <2>5
    <2> QED
      BY <2>4, <2>5, <2>6
  <1> QED
    BY <1>2, <1>4, <1>5, <1>6

\* Some steps of a rotation: a character that goes is older than all that stay.
LEMMA RotatedPromise ==
  ASSUME backups \in Int, NEW fs \in FilesTo(Oldest), NEW p \in Chars, NEW n \in Nat,
         NEW steps \in 0..(Kept + 1), TextOK(Oldest, fs, p, n)
  PROVE  /\ Rotated(fs, steps) \in FilesTo(Oldest)
         /\ TextOK(Oldest, Rotated(fs, steps), p, n)
         /\ Latest(Oldest, fs, p, n) /\ (\E a \in DOMAIN p : p[a] = n) =>
              Latest(Oldest, Rotated(fs, steps), p, n)
  <1>1. PICK top \in Nat : top = Oldest /\ top > 0
    BY DEF Oldest, Kept
  <1>2. CASE Rotated(fs, steps) = fs
    BY <1>2
  <1>3. CASE Rotated(fs, steps) # fs
    <2>1. PICK hole \in 0..top : Rotated(fs, steps) = Shifted(top, fs, hole)
      BY <1>1, <1>3, RotatedIsShifted
    <2>2. PICK gs : gs = Shifted(top, fs, hole)
      OBVIOUS
    <2>3. /\ gs \in FilesTo(top)
          /\ Sorted(top, fs, p) => Sorted(top, gs, p)
          /\ \A x : Holds(top, gs, p, x) =>
               \E i \in -1..(top - 1) : \E a \in DOMAIN TextAt(fs, p, i) : TextAt(fs, p, i)[a] = x
          /\ \A i \in -1..(top - 1) : \A a \in DOMAIN TextAt(fs, p, i) :
               Holds(top, gs, p, TextAt(fs, p, i)[a])
      BY <1>1, <2>2, ShiftedFacts
    <2>4. Sorted(top, fs, p) /\ \A x : Holds(top, fs, p, x) => x <= n
      BY <1>1, HoldsBound
    <2>5. TextOK(top, gs, p, n)
      <3>1. \A x : Holds(top, gs, p, x) => Holds(top, fs, p, x)
        <4>1. \A i \in -1..(top - 1) : i \in -1..top
          OBVIOUS
        <4> QED
          BY <2>3, <4>1, Zenon DEF Holds
      <3> QED
        BY <2>3, <2>4, <3>1, HoldsBound
    <2>6. ASSUME Latest(top, fs, p, n), NEW c \in DOMAIN p, p[c] = n
          PROVE  Latest(top, gs, p, n)
      <3>1. Holds(top, gs, p, n)
        <4>1. TextAt(fs, p, -1) = p /\ -1 \in -1..(top - 1)
          BY <1>1 DEF TextAt
        <4> QED
          BY <2>3, <2>6, <4>1
      <3>2. ASSUME n > 0, NEW x \in 1..n, Holds(top, gs, p, x), NEW y \in x..n
            PROVE  Holds(top, gs, p, y)
        <4>1. PICK j \in -1..(top - 1) :
                \E b \in DOMAIN TextAt(fs, p, j) : TextAt(fs, p, j)[b] = x
          BY <2>3, <3>2
        <4>2. PICK b \in DOMAIN TextAt(fs, p, j) : TextAt(fs, p, j)[b] = x
          BY <4>1
        <4>3. j \in -1..top /\ j < top
          OBVIOUS
        <4>4. Holds(top, fs, p, y)
          <5>1. Holds(top, fs, p, x)
            BY <4>2, <4>3 DEF Holds
          <5> QED
            BY <2>6, <3>2, <5>1 DEF Latest
        <4>5. PICK i \in -1..top : \E a \in DOMAIN TextAt(fs, p, i) : TextAt(fs, p, i)[a] = y
          BY <4>4 DEF Holds
        <4>6. PICK a \in DOMAIN TextAt(fs, p, i) : TextAt(fs, p, i)[a] = y
          BY <4>5
        <4>7. CASE i \in -1..(top - 1)
          BY <2>3, <4>6, <4>7
        <4>8. CASE i = top
          <5>1. Before(i, a, j, b)
            BY <4>3, <4>8 DEF Before
          <5>2. y < x
            BY <2>4, <4>2, <4>3, <4>6, <5>1 DEF Sorted
          <5> QED
            BY <5>2
        <4>9. i \in -1..(top - 1) \/ i = top
          OBVIOUS
        <4> QED
          BY <4>7, <4>8, <4>9
      <3> QED
        BY <3>1, <3>2 DEF Latest
    <2> QED
      BY <1>1, <2>1, <2>2, <2>3, <2>5, <2>6
  <1> QED
    BY <1>2, <1>3

\* Characters are moved: nothing is lost when all of them are.
LEMMA MovedPromise ==
  ASSUME NEW top \in Nat, NEW fs \in FilesTo(top), NEW p \in Chars, NEW n \in Nat,
         NEW e \in 0..Len(p), NEW k \in 0..e, NEW gs, NEW q, Moved(fs, p, e, k, gs, q),
         TextOK(top, fs, p, n)
  PROVE  /\ gs \in FilesTo(top) /\ q \in Chars /\ Len(q) = Len(p) - e
         /\ TextOK(top, gs, q, n)
         /\ k = e /\ Latest(top, fs, p, n) => Latest(top, gs, q, n)
  <1>1. /\ gs \in FilesTo(top) /\ q \in Chars /\ Len(q) = Len(p) - e
        /\ Sorted(top, fs, p) => Sorted(top, gs, q)
        /\ \A x : Holds(top, gs, q, x) => Holds(top, fs, p, x)
        /\ k = e => \A x : Holds(top, fs, p, x) => Holds(top, gs, q, x)
    BY MovedFacts
  <1>2. Sorted(top, fs, p) /\ \A x : Holds(top, fs, p, x) => x <= n
    BY HoldsBound
  <1>3. TextOK(top, gs, q, n)
    BY <1>1, <1>2, HoldsBound
  <1>4. ASSUME k = e, Latest(top, fs, p, n) PROVE Latest(top, gs, q, n)
    BY <1>1, <1>4, Zenon DEF Latest
  <1> QED
    BY <1>1, <1>3, <1>4

-----------------------------------------------------------------------------
(***************************************************************************)
(* Streams: file_, current_size_ and the files.                            *)
(***************************************************************************)
Streams(top) == [files : FilesTo(top), size : Nat, open : BOOLEAN, bad : BOOLEAN]

\* A stream that was opened and has not failed has a file, and one that is not open has
\* failed to open.
StreamOK(top, s) ==
  /\ s \in Streams(top)
  /\ ~s.bad => s.open /\ s.files[0] # NoFile

\* current_size_ is right unless the stream has failed.
SizeOK(s) == ~s.bad => s.size = Len(s.files[0])

\* openNL_.
LEMMA ReopenedFacts ==
  ASSUME NEW top \in Nat, NEW fs \in FilesTo(top), NEW p, NEW s \in Reopened(fs)
  PROVE  /\ StreamOK(top, s) /\ SizeOK(s)
         /\ \A i \in 0..top : TextAt(s.files, p, i) = TextAt(fs, p, i)
  <1>1. PICK gs : gs = Opened(fs)
    OBVIOUS
  <1>2. 0 \in 0..top /\ <<>> \in Chars /\ fs[0] \in Chars \cup {NoFile}
    BY DEF Chars, FilesTo
  <1>3. /\ gs \in FilesTo(top) /\ gs[0] # NoFile /\ gs[0] \in Chars
        /\ \A i \in 0..top : TextAt(gs, p, i) = TextAt(fs, p, i)
    <2>1. CASE fs[0] = NoFile
      <3>1. gs = [fs EXCEPT ![0] = <<>>]
        BY <1>1, <2>1 DEF Opened
      <3>2. gs \in FilesTo(top) /\ gs[0] = <<>> /\ \A i \in 0..top : i # 0 => gs[i] = fs[i]
        BY <1>2, <3>1 DEF FilesTo
      <3>3. <<>> # NoFile
        BY <1>2, NoFileFacts
      <3>4. ASSUME NEW i \in 0..top PROVE TextAt(gs, p, i) = TextAt(fs, p, i)
        BY <2>1, <3>2, <3>3 DEF TextAt
      <3> QED
        BY <1>2, <3>2, <3>3, <3>4
    <2>2. CASE fs[0] # NoFile
      BY <1>1, <1>2, <2>2 DEF Opened
    <2> QED
      BY <2>1, <2>2
  <1>4. CASE s = [files |-> gs, size |-> SizeAfterOpen(fs), open |-> TRUE, bad |-> FALSE]
    <2>1. SizeAfterOpen(fs) = Len(gs[0]) /\ Len(gs[0]) \in Nat
      BY <1>1, <1>3 DEF SizeAfterOpen, Chars
    <2>2. /\ s.files = gs /\ s.size = Len(gs[0]) /\ s \in Streams(top)
      BY <1>3, <1>4, <2>1 DEF Streams
    <2>3. s.open
      BY <1>4, Zenon
    <2> QED
      BY <1>3, <2>2, <2>3 DEF StreamOK, SizeOK
  <1>5. CASE s = [files |-> fs, size |-> 0, open |-> FALSE, bad |-> TRUE]
    <2>1. s.files = fs /\ s \in Streams(top)
      BY <1>5 DEF Streams
    <2>2. s.bad
      BY <1>5, Zenon
    <2> QED
      BY <2>1, <2>2 DEF StreamOK, SizeOK
  <1> QED
    BY <1>1, <1>4, <1>5 DEF Reopened

\* file_.write(text): all of it, or its beginning, or nothing of it is in the file.
LEMMA AppendedFacts ==
  ASSUME NEW top \in Nat, NEW r, StreamOK(top, r), NEW text \in Chars, NEW w \in Appended(r, text)
  PROVE  /\ StreamOK(top, w) /\ w.size = r.size /\ w.open = r.open
         /\ ~w.bad => ~r.bad /\ Len(w.files[0]) = Len(r.files[0]) + Len(text)
         /\ \E k \in 0..Len(text) :
              /\ \/ k = 0 /\ w.files = r.files
                 \/ /\ r.files[0] # NoFile
                    /\ w.files = [r.files EXCEPT ![0] = @ \o SubSeq(text, 1, k)]
              /\ ~w.bad => k = Len(text)
  <1>1. PICK fs \in FilesTo(top) : fs = r.files
    BY DEF StreamOK, Streams
  <1>2. PICK n \in Nat : n = Len(text)
    BY DEF Chars
  <1>3. r \in Streams(top) /\ (~r.bad => r.open /\ fs[0] # NoFile)
    BY <1>1 DEF StreamOK
  <1>4. 0 \in 0..top
    OBVIOUS
  <1>5. ASSUME fs[0] # NoFile, NEW x \in Chars
        PROVE  /\ [fs EXCEPT ![0] = @ \o x] \in FilesTo(top)
               /\ [fs EXCEPT ![0] = @ \o x][0] # NoFile
               /\ Len([fs EXCEPT ![0] = @ \o x][0]) = Len(fs[0]) + Len(x)
    <2>1. fs[0] \in Chars
      BY <1>4, <1>5 DEF FilesTo
    <2>2. PICK y \in Chars : y = fs[0] \o x /\ Len(y) = Len(fs[0]) + Len(x)
      BY <2>1, ConcatProperties DEF Chars
    <2>3. [fs EXCEPT ![0] = y] \in FilesTo(top) /\ [fs EXCEPT ![0] = y][0] = y
      BY <1>4 DEF FilesTo
    <2> QED
      BY <2>2, <2>3, NoFileFacts
  <1>6. CASE ~r.bad /\ w = [r EXCEPT !.files[0] = @ \o text]
    <2>1. /\ w.files = [fs EXCEPT ![0] = @ \o text] /\ w.size = r.size /\ w.open = r.open
          /\ w.bad = r.bad
      BY <1>1, <1>3, <1>6 DEF Streams
    <2>2. SubSeq(text, 1, n) = text
      BY <1>2, SubSeqFull DEF Chars
    <2>3. w \in Streams(top)
      <3>1. w.files \in FilesTo(top)
        BY <1>3, <1>5, <1>6, <2>1
      <3> QED
        BY <1>3, <1>6, <2>1, <3>1 DEF Streams
    <2>4. StreamOK(top, w)
      BY <1>3, <1>5, <1>6, <2>1, <2>3 DEF StreamOK
    <2>5. n \in 0..n
      OBVIOUS
    <2> QED
      BY <1>1, <1>2, <1>3, <1>5, <1>6, <2>1, <2>2, <2>4, <2>5
  <1>7. ASSUME ~r.bad, NEW k \in 0..(Len(text) - 1),
               w = [r EXCEPT !.files[0] = @ \o SubSeq(text, 1, k), !.bad = TRUE]
        PROVE  /\ StreamOK(top, w) /\ w.size = r.size /\ w.open = r.open /\ w.bad
               /\ r.files[0] # NoFile
               /\ w.files = [r.files EXCEPT ![0] = @ \o SubSeq(text, 1, k)]
    <2>1. PICK x \in Chars : x = SubSeq(text, 1, k)
      <3>1. k \in 0..Len(text) /\ 1 \in 1..(Len(text) + 1) /\ 1 <= k + 1
        BY <1>2
      <3> QED
        BY <3>1, PartFacts
    <2>2. w = [r EXCEPT !.files[0] = @ \o x, !.bad = TRUE]
      BY <1>7, <2>1
    <2>3. /\ w.files = [fs EXCEPT ![0] = @ \o x] /\ w.size = r.size /\ w.open = r.open
      BY <1>1, <1>3, <2>2 DEF Streams
    <2>4. w.bad = TRUE
      BY <1>3, <2>2 DEF Streams
    <2>5. w \in Streams(top)
      <3>1. w.files \in FilesTo(top)
        BY <1>3, <1>5, <1>7, <2>3
      <3> QED
        BY <1>3, <2>2, <2>3, <3>1 DEF Streams
    <2> QED
      BY <1>1, <1>3, <1>7, <2>1, <2>3, <2>4, <2>5 DEF StreamOK
  <1>8. ASSUME ~r.bad, NEW k \in 0..(Len(text) - 1),
               w = [r EXCEPT !.files[0] = @ \o SubSeq(text, 1, k), !.bad = TRUE]
        PROVE  k \in 0..Len(text)
    BY <1>2
  <1>9. CASE r.bad /\ w = r
    <2>1. 0 \in 0..Len(text)
      BY <1>2
    <2> QED
      BY <1>9, <2>1
  <1>10. \/ ~r.bad /\ w = [r EXCEPT !.files[0] = @ \o text]
         \/ \E k \in 0..(Len(text) - 1) :
              ~r.bad /\ w = [r EXCEPT !.files[0] = @ \o SubSeq(text, 1, k), !.bad = TRUE]
         \/ r.bad /\ w = r
    BY DEF Appended
  <1> QED
    BY <1>6, <1>7, <1>8, <1>9, <1>10

-----------------------------------------------------------------------------
(***************************************************************************)
(* How much of the buffer write() writes.                                  *)
(***************************************************************************)
\* A set of numbers that is not empty has a least one.
LEMMA Least ==
  ASSUME NEW T \in SUBSET Nat, T # {}
  PROVE  \E x \in T : \A y \in T : x <= y
  <1> DEFINE R == {ss \in Nat \X Nat : ss[1] < ss[2]}
  <1>1. PICK x \in T : \A y \in T : <<y, x>> \notin R
    <2>1. IsWellFoundedOn(R, Nat)
      BY NatLessThanWellFounded DEF OpToRel
    <2> HIDE DEF R
    <2> QED
      BY <2>1, WFMin
  <1>2. \A y \in T : ~(y < x)
    BY <1>1
  <1> QED
    BY <1>2

\* The largest of numbers up to n is one of them.
LEMMA MaxFacts ==
  ASSUME NEW n \in Nat, NEW S \in SUBSET (0..n), S # {}
  PROVE  Max(S) \in S
  <1> DEFINE T == {z \in Nat : \E y \in S : z = n - y}
  <1>1. T \in SUBSET Nat /\ T # {}
    <2>1. PICK y \in S : TRUE
      OBVIOUS
    <2>2. n - y \in T
      OBVIOUS
    <2> QED
      BY <2>2
  <1>2. PICK x \in T : \A y \in T : x <= y
    <2> HIDE DEF T
    <2> QED
      BY <1>1, Least
  <1>3. PICK m \in S : x = n - m
    OBVIOUS
  <1>4. ASSUME NEW y \in S PROVE m >= y
    <2>1. PICK z \in T : z = n - y
      OBVIOUS
    <2>2. x <= z
      BY <1>2
    <2>3. m \in 0..n /\ y \in 0..n
      OBVIOUS
    <2> HIDE DEF T
    <2> QED
      BY <1>3, <2>1, <2>2, <2>3
  <1> QED
    BY <1>4 DEF Max

\* What is left in the buffer is less than its limit, since one text is not longer than
\* the limit.
LEMMA FlushEndFacts ==
  ASSUME NEW data \in Chunks, pending \in Chars, Len(pending) < MaxPending
  PROVE  /\ FlushEnd(data) \in 0..(Len(pending) + Len(data))
         /\ (Len(pending) + Len(data)) - FlushEnd(data) < MaxPending
  <1>1. PICK n \in Nat, m \in Nat : n = Len(pending) /\ m = Len(data)
    BY ChunksAssumption DEF Chars
  <1>2. m <= MaxPending
    BY <1>1, ChunksAssumption
  <1>3. PICK nl : nl = SelectLastInSeq(data, LAMBDA c : c = "nl")
    OBVIOUS
  <1>4. nl \in 0..m
    <2>1. PICK I \in SUBSET (1..m) : I = {i \in 1..Len(data) : data[i] = "nl"}
      BY <1>1
    <2>2. nl = IF I # {} THEN Max(I) ELSE 0
      BY <1>3, <2>1 DEF SelectLastInSeq
    <2>3. I # {} => Max(I) \in I
      <3>1. I \in SUBSET (0..m)
        OBVIOUS
      <3> QED
        BY <3>1, MaxFacts
    <2>4. CASE I = {}
      BY <2>2, <2>4
    <2>5. CASE I # {}
      <3>1. nl \in I
        BY <2>2, <2>3, <2>5, Zenon
      <3> QED
        BY <3>1
    <2> QED
      BY <2>4, <2>5
  <1>5. FlushEnd(data) = IF nl > 0 THEN n + nl ELSE IF n + m >= MaxPending THEN n + m ELSE 0
    BY <1>1, <1>3 DEF FlushEnd
  <1>6. PICK end : end = FlushEnd(data)
    OBVIOUS
  <1>7. end \in 0..(n + m) /\ (n + m) - end < MaxPending
    <2>1. n < MaxPending
      BY <1>1
    <2> QED
      BY <1>2, <1>4, <1>5, <1>6, <2>1
  <1> QED
    BY <1>1, <1>6, <1>7

-----------------------------------------------------------------------------
(***************************************************************************)
(* The inductive invariant.                                                *)
(***************************************************************************)
Inv == /\ TypeOK /\ Len(sent) <= MaxSent
       /\ ~bad => open /\ files[0] # NoFile
       /\ bad => lost
       /\ TextOK(Oldest, files, pending, Len(sent))
       /\ ~lost => Latest(Oldest, files, pending, Len(sent))
       /\ ~lost => size = Len(files[0])

\* The state of the writer as a stream.
LEMMA NowFacts ==
  ASSUME Inv
  PROVE  /\ Oldest \in Nat /\ files \in FilesTo(Oldest) /\ pending \in Chars
         /\ Len(pending) \in Nat /\ Len(pending) < MaxPending /\ Len(sent) \in Nat
         /\ backups \in Int /\ lost \in BOOLEAN
         /\ StreamOK(Oldest, Now) /\ Now.files = files /\ Now.size = size
         /\ Now.open = open /\ Now.bad = bad
  <1>1. /\ backups \in Int /\ files \in FilesTo(Oldest) /\ pending \in Chars
        /\ Len(pending) < MaxPending /\ Len(sent) \in Nat /\ lost \in BOOLEAN
        /\ Len(pending) \in Nat
    BY DEF Inv, TypeOK, FilesTo, Chars
  <1>2. Oldest \in Nat
    BY <1>1 DEF Oldest, Kept
  <1>3. /\ Now \in Streams(Oldest) /\ Now.files = files /\ Now.size = size
        /\ Now.open = open /\ Now.bad = bad
    BY <1>1 DEF Now, Streams, Inv, TypeOK
  <1>4. StreamOK(Oldest, Now)
    BY <1>3 DEF StreamOK, Inv
  <1> QED
    BY <1>1, <1>2, <1>3, <1>4

\* The invariant of the next state, from what holds of its stream.
LEMMA NextState ==
  ASSUME Inv, backups' = backups, NEW s, StreamOK(Oldest, s),
         files' = s.files, size' = s.size, open' = s.open, bad' = s.bad,
         lost' \in BOOLEAN, s.bad => lost', pending' \in Chars, Len(pending') < MaxPending,
         sent' \in Seq({"c", "nl"}), Len(sent') <= MaxSent,
         TextOK(Oldest, s.files, pending', Len(sent')),
         ~lost' => Latest(Oldest, s.files, pending', Len(sent')) /\ SizeOK(s)
  PROVE  Inv'
  <1>1. Oldest' = Oldest
    BY DEF Oldest, Kept
  <1>2. /\ s.files \in FilesTo(Oldest) /\ s.size \in Nat /\ s.open \in BOOLEAN
        /\ s.bad \in BOOLEAN
    BY DEF StreamOK, Streams
  <1>3. TypeOK'
    BY <1>1, <1>2 DEF TypeOK, Inv, FilesTo
  <1>4. TextOK(Oldest, files, pending, Len(sent))'
    BY <1>1
  <1>5. ~lost' => Latest(Oldest, files, pending, Len(sent))'
    BY <1>1
  <1>6. ~lost' => size' = Len(files'[0])
    BY DEF SizeOK
  <1> QED
    BY <1>3, <1>4, <1>5, <1>6 DEF Inv, StreamOK

\* rotateNL_, any number of whose steps may be done.
LEMMA RotationStep ==
  ASSUME backups \in Int, NEW s, StreamOK(Oldest, s), NEW text, NEW r \in AfterRotation(s, text),
         NEW q \in Chars, NEW n \in Nat, TextOK(Oldest, s.files, q, n),
         \E a \in DOMAIN q : q[a] = n
  PROVE  /\ StreamOK(Oldest, r) /\ TextOK(Oldest, r.files, q, n)
         /\ Latest(Oldest, s.files, q, n) => Latest(Oldest, r.files, q, n)
         /\ SizeOK(s) => SizeOK(r)
  <1>1. CASE ~MustRotate(s, text)
    <2>1. r = s
      BY <1>1 DEF AfterRotation
    <2> QED
      BY <2>1
  <1>2. CASE MustRotate(s, text)
    <2>1. PICK steps \in Steps : r \in Reopened(Rotated(s.files, steps))
      BY <1>2 DEF AfterRotation
    <2>2. steps \in 0..(Kept + 1) /\ Oldest \in Nat
      BY <2>1 DEF Steps, Kept, Oldest
    <2>3. PICK fs \in FilesTo(Oldest) : fs = s.files
      BY DEF StreamOK, Streams
    <2>4. PICK gs : gs = Rotated(fs, steps)
      OBVIOUS
    <2>5. /\ gs \in FilesTo(Oldest)
          /\ TextOK(Oldest, gs, q, n)
          /\ Latest(Oldest, fs, q, n) => Latest(Oldest, gs, q, n)
      BY <2>2, <2>3, <2>4, RotatedPromise
    <2>6. /\ StreamOK(Oldest, r) /\ SizeOK(r)
          /\ \A i \in 0..Oldest : TextAt(r.files, q, i) = TextAt(gs, q, i)
      BY <2>1, <2>2, <2>3, <2>4, <2>5, ReopenedFacts
    <2>7. /\ TextOK(Oldest, r.files, q, n)
          /\ Latest(Oldest, gs, q, n) => Latest(Oldest, r.files, q, n)
      BY <2>2, <2>5, <2>6, SamePromise
    <2> QED
      BY <2>3, <2>5, <2>6, <2>7
  <1> QED
    BY <1>1, <1>2

\* The beginning of a text.
LEMMA FirstFacts ==
  ASSUME NEW p \in Chars, NEW e \in 0..Len(p)
  PROVE  /\ SubSeq(p, 1, e) \in Chars /\ Len(SubSeq(p, 1, e)) = e
         /\ \A i \in 1..e : SubSeq(p, 1, e)[i] = p[i]
  <1>1. /\ 1 \in 1..(Len(p) + 1) /\ 1 <= e + 1 /\ e - 1 + 1 = e
        /\ \A i \in 1..e : 1 + i - 1 = i
    BY DEF Chars
  <1>2. /\ SubSeq(p, 1, e) \in Chars /\ Len(SubSeq(p, 1, e)) = e - 1 + 1
        /\ \A i \in 1..(e - 1 + 1) : SubSeq(p, 1, e)[i] = p[1 + i - 1]
    BY <1>1, PartFacts
  <1>3. \A i \in 1..e : SubSeq(p, 1, e)[i] = p[1 + i - 1]
    BY <1>1, <1>2
  <1> QED
    BY <1>1, <1>2, <1>3, Zenon

\* The beginning of the text that is written is the beginning of the buffer.
LEMMA PartOfPart ==
  ASSUME NEW p \in Chars, NEW e \in 0..Len(p), NEW k \in 0..e
  PROVE  SubSeq(SubSeq(p, 1, e), 1, k) = SubSeq(p, 1, k)
  <1>1. PICK x : x = SubSeq(p, 1, e)
    OBVIOUS
  <1>2. x \in Chars /\ Len(x) = e /\ \A i \in 1..e : x[i] = p[i]
    BY <1>1, FirstFacts
  <1>3. k \in 0..Len(p) /\ k \in 0..Len(x)
    BY <1>2 DEF Chars
  <1>4. PICK y : y = SubSeq(p, 1, k)
    OBVIOUS
  <1>5. y \in Chars /\ Len(y) = k /\ \A i \in 1..k : y[i] = p[i]
    BY <1>3, <1>4, FirstFacts
  <1>6. PICK z : z = SubSeq(x, 1, k)
    OBVIOUS
  <1>7. z \in Chars /\ Len(z) = k /\ \A i \in 1..k : z[i] = x[i]
    BY <1>2, <1>3, <1>6, FirstFacts
  <1>8. \A i \in 1..k : z[i] = y[i]
    BY <1>2, <1>5, <1>7
  <1>9. z = y
    BY <1>5, <1>7, <1>8, SeqEqual DEF Chars
  <1> QED
    BY <1>1, <1>4, <1>6, <1>9

\* The buffer is cut in what is written and what is left.
Cut(q, e, text, rest) == text = SubSeq(q, 1, e) /\ rest = SubSeq(q, e + 1, Len(q))

\* The buffer is written to the stream r, and what is left of it stays.
LEMMA AppendStep ==
  ASSUME NEW top \in Nat, NEW r, StreamOK(top, r), NEW q \in Chars, NEW n \in Nat,
         TextOK(top, r.files, q, n), NEW e \in 0..Len(q), NEW text, NEW rest,
         Cut(q, e, text, rest), NEW w \in Appended(r, text)
  PROVE  /\ StreamOK(top, w) /\ w.size = r.size /\ w.open = r.open
         /\ ~w.bad => ~r.bad /\ Len(w.files[0]) = Len(r.files[0]) + Len(text)
         /\ text \in Chars /\ Len(text) = e /\ rest \in Chars /\ Len(rest) = Len(q) - e
         /\ TextOK(top, w.files, rest, n)
         /\ (~w.bad \/ e = 0) /\ Latest(top, r.files, q, n) => Latest(top, w.files, rest, n)
  <1>1. text \in Chars /\ Len(text) = e
    BY FirstFacts DEF Cut
  <1>2. /\ StreamOK(top, w) /\ w.size = r.size /\ w.open = r.open
        /\ ~w.bad => ~r.bad /\ Len(w.files[0]) = Len(r.files[0]) + Len(text)
        /\ \E k \in 0..Len(text) :
             /\ \/ k = 0 /\ w.files = r.files
                \/ /\ r.files[0] # NoFile
                   /\ w.files = [r.files EXCEPT ![0] = @ \o SubSeq(text, 1, k)]
             /\ ~w.bad => k = Len(text)
    BY <1>1, AppendedFacts
  <1>3. PICK k \in 0..e :
          /\ \/ k = 0 /\ w.files = r.files
             \/ /\ r.files[0] # NoFile
                /\ w.files = [r.files EXCEPT ![0] = @ \o SubSeq(text, 1, k)]
          /\ ~w.bad => k = e
    BY <1>1, <1>2
  <1>4. SubSeq(text, 1, k) = SubSeq(q, 1, k)
    BY PartOfPart DEF Cut
  <1>5. PICK fs, gs : fs = r.files /\ gs = w.files
    OBVIOUS
  <1>6. Moved(fs, q, e, k, gs, rest)
    BY <1>3, <1>4, <1>5, Zenon DEF Moved, Cut
  <1>7. fs \in FilesTo(top) /\ TextOK(top, fs, q, n)
    BY <1>5 DEF StreamOK, Streams
  <1>8. /\ rest \in Chars /\ Len(rest) = Len(q) - e
        /\ TextOK(top, gs, rest, n)
        /\ k = e /\ Latest(top, fs, q, n) => Latest(top, gs, rest, n)
    BY <1>6, <1>7, MovedPromise
  <1>9. ~w.bad \/ e = 0 => k = e
    BY <1>3
  <1> QED
    BY <1>1, <1>2, <1>5, <1>8, <1>9, Zenon

\* The stream that is written to is this one, or the file is opened first.
LEMMA FirstStream ==
  ASSUME Inv, NEW s \in IF open THEN {Now} ELSE Reopened(files)
  PROVE  /\ StreamOK(Oldest, s)
         /\ \A i \in 0..Oldest : \A p : TextAt(s.files, p, i) = TextAt(files, p, i)
         /\ ~lost => SizeOK(s)
  <1>1. CASE open
    <2>1. s = Now
      BY <1>1
    <2>2. ~lost => SizeOK(s)
      BY <2>1, NowFacts DEF SizeOK, Inv
    <2> QED
      BY <2>1, <2>2, NowFacts
  <1>2. CASE ~open
    <2>1. s \in Reopened(files) /\ Oldest \in Nat /\ files \in FilesTo(Oldest)
      BY <1>2, NowFacts
    <2>2. \A p : /\ StreamOK(Oldest, s) /\ SizeOK(s)
                 /\ \A i \in 0..Oldest : TextAt(s.files, p, i) = TextAt(files, p, i)
      BY <2>1, ReopenedFacts
    <2> QED
      BY <2>2
  <1> QED
    BY <1>1, <1>2

\* The log file of stream w is that of r and l more characters, and the text that was
\* written is counted in current_size_.
Longer(r, w, l) ==
  /\ w.size = r.size
  /\ ~w.bad => ~r.bad /\ Len(w.files[0]) = Len(r.files[0]) + l

Counted(w, l, u) == u = [w EXCEPT !.size = @ + l] \/ (w.bad /\ u = w)

\* current_size_ stays right.
LEMMA CountedFacts ==
  ASSUME NEW top \in Nat, NEW r, NEW w, NEW u, NEW l \in Nat,
         StreamOK(top, w), Longer(r, w, l), Counted(w, l, u)
  PROVE  /\ StreamOK(top, u) /\ u.files = w.files /\ u.bad = w.bad /\ u.open = w.open
         /\ SizeOK(r) => SizeOK(u)
  <1>1. CASE u = [w EXCEPT !.size = @ + l]
    <2>1. w \in Streams(top)
      BY DEF StreamOK
    <2>2. /\ u \in Streams(top) /\ u.files = w.files /\ u.bad = w.bad /\ u.open = w.open
          /\ u.size = w.size + l
      BY <1>1, <2>1 DEF Streams
    <2> QED
      BY <2>2 DEF StreamOK, SizeOK, Longer
  <1>2. CASE w.bad /\ u = w
    BY <1>2 DEF SizeOK
  <1> QED
    BY <1>1, <1>2 DEF Counted

\* write(data).
LEMMA WriteInv ==
  ASSUME Inv, NEW data \in Chunks, Write(data)
  PROVE  Inv'
  <1>1. PICK n \in Nat, m \in Nat \ {0} : n = Len(sent) /\ m = Len(data)
    <2>1. Len(sent) \in Nat /\ Len(data) \in Nat /\ Len(data) # 0
      BY NowFacts, ChunksAssumption
    <2> QED
      BY <2>1
  <1>2. /\ n + m <= MaxSent /\ backups' = backups
        /\ sent' \in Seq({"c", "nl"}) /\ Len(sent') = n + m
    <2>1. sent \in Seq({"c", "nl"}) /\ data \in Seq({"c", "nl"})
      BY ChunksAssumption DEF Inv, TypeOK
    <2>2. sent' = sent \o data /\ n + m <= MaxSent /\ backups' = backups
      BY <1>1 DEF Write
    <2> QED
      BY <1>1, <2>1, <2>2, ConcatProperties
  <1>3. PICK q : q = Extended(pending, n, m)
    OBVIOUS
  <1>4. PICK end : end = FlushEnd(data)
    OBVIOUS
  <1>5. PICK text, rest : text = SubSeq(q, 1, end) /\ rest = SubSeq(q, end + 1, Len(q))
    OBVIOUS
  <1>6. PICK s \in IF open THEN {Now} ELSE Reopened(files) :
          IF ~s.open THEN Is(s) /\ pending' = pending
          ELSE /\ pending' = rest
               /\ IF end = 0 THEN Is(s)
                  ELSE \E r \in AfterRotation(s, text) : \E w \in Appended(r, text) :
                         \E u \in Counting(r, w, Len(text)) : Is(u)
    BY <1>1, <1>3, <1>4, <1>5 DEF Write, PendingAfter, Extended
  <1>7. /\ Oldest \in Nat /\ files \in FilesTo(Oldest) /\ pending \in Chars
        /\ Len(pending) \in Nat /\ Len(pending) < MaxPending /\ backups \in Int
        /\ lost \in BOOLEAN
        /\ TextOK(Oldest, files, pending, n)
        /\ ~lost => Latest(Oldest, files, pending, n)
    BY <1>1, NowFacts DEF Inv
  <1>8. PICK fs \in FilesTo(Oldest) : fs = s.files
    BY FirstStream DEF StreamOK, Streams
  <1>9. /\ StreamOK(Oldest, s) /\ (~lost => SizeOK(s))
        /\ TextOK(Oldest, fs, pending, n)
        /\ ~lost => Latest(Oldest, fs, pending, n)
    <2>1. /\ StreamOK(Oldest, s) /\ (~lost => SizeOK(s))
          /\ \A i \in 0..Oldest : TextAt(fs, pending, i) = TextAt(files, pending, i)
      BY <1>8, FirstStream
    <2> QED
      BY <1>7, <2>1, SamePromise
  <1>10. CASE ~s.open
    <2>1. Is(s) /\ pending' = pending
      BY <1>6, <1>10
    <2>2. s.bad
      BY <1>9, <1>10 DEF StreamOK
    <2>3. lost'
      BY <2>1, <2>2 DEF Is
    <2>4. TextOK(Oldest, fs, pending, n + m)
      BY <1>7, <1>9, BoundGrows
    <2>5. lost' \in BOOLEAN
      BY <2>1 DEF Is
    <2> QED
      BY <1>2, <1>7, <1>8, <1>9, <2>1, <2>3, <2>4, <2>5, NextState DEF Is
  <1>11. PICK N \in Nat : N = n + m
    OBVIOUS
  <1>12. CASE s.open
    <2>1. /\ q \in Chars /\ Len(q) = Len(pending) + m
          /\ TextOK(Oldest, fs, q, N)
          /\ Latest(Oldest, fs, pending, n) => Latest(Oldest, fs, q, N)
          /\ \E a \in DOMAIN q : q[a] = N
      <3>1. /\ q \in Chars /\ Len(q) = Len(pending) + m
            /\ TextOK(Oldest, fs, q, n + m)
            /\ Latest(Oldest, fs, pending, n) => Latest(Oldest, fs, q, n + m)
            /\ \E a \in DOMAIN q : q[a] = n + m
        BY <1>2, <1>3, <1>7, <1>9, ExtendedPromise
      <3> QED
        BY <1>11, <3>1, Zenon
    <2>2. end \in 0..Len(q) /\ Len(q) - end < MaxPending
      BY <1>1, <1>4, <1>7, <2>1, FlushEndFacts
    <2>3. Cut(q, end, text, rest) /\ pending' = rest
      BY <1>5, <1>6, <1>12 DEF Cut
    <2>4. CASE end = 0
      <3>1. Is(s)
        BY <1>6, <1>12, <2>4
      <3>2. PICK k \in 0..end, gs \in FilesTo(Oldest) : k = end /\ gs = fs
        BY <2>4
      <3>3. Moved(fs, q, end, k, gs, rest)
        BY <2>3, <2>4, <3>2 DEF Moved, Cut
      <3>4. /\ rest \in Chars /\ Len(rest) = Len(q) - end
            /\ TextOK(Oldest, fs, rest, N)
            /\ Latest(Oldest, fs, q, N) => Latest(Oldest, fs, rest, N)
        <4>1. /\ gs \in FilesTo(Oldest) /\ rest \in Chars /\ Len(rest) = Len(q) - end
              /\ TextOK(Oldest, gs, rest, N)
              /\ k = end /\ Latest(Oldest, fs, q, N) => Latest(Oldest, gs, rest, N)
          BY <1>7, <2>1, <2>2, <3>3, MovedPromise, Zenon
        <4> QED
          BY <3>2, <4>1
      <3>5. lost' \in BOOLEAN /\ (s.bad => lost') /\ (~lost' => ~lost)
        BY <3>1 DEF Is
      <3>6. Len(rest) < MaxPending
        BY <2>2, <3>4
      <3>7. ~lost' => Latest(Oldest, fs, rest, N) /\ SizeOK(s)
        BY <1>9, <2>1, <3>4, <3>5
      <3> QED
        BY <1>2, <1>8, <1>9, <1>11, <2>3, <3>1, <3>4, <3>5, <3>6, <3>7, NextState DEF Is
    <2>5. CASE end # 0
      <3>1. PICK r \in AfterRotation(s, text) : \E w \in Appended(r, text) :
              \E u \in Counting(r, w, Len(text)) : Is(u)
        BY <1>6, <1>12, <2>5
      <3>2. PICK w \in Appended(r, text) :
              \E u \in Counting(r, w, Len(text)) : Is(u)
        BY <3>1
      <3>3. /\ StreamOK(Oldest, r) /\ TextOK(Oldest, r.files, q, N)
            /\ Latest(Oldest, fs, q, N) => Latest(Oldest, r.files, q, N)
            /\ SizeOK(s) => SizeOK(r)
        BY <1>7, <1>8, <1>9, <2>1, RotationStep
      <3>4. /\ StreamOK(Oldest, w) /\ w.size = r.size /\ w.open = r.open
            /\ ~w.bad => ~r.bad /\ Len(w.files[0]) = Len(r.files[0]) + Len(text)
            /\ text \in Chars /\ Len(text) = end /\ rest \in Chars /\ Len(rest) = Len(q) - end
            /\ TextOK(Oldest, w.files, rest, N)
            /\ (~w.bad \/ end = 0) /\ Latest(Oldest, r.files, q, N) =>
                 Latest(Oldest, w.files, rest, N)
        BY <1>7, <2>1, <2>2, <2>3, <3>3, AppendStep, Zenon
      <3>5. PICK u \in Counting(r, w, Len(text)) : Is(u)
        BY <3>2
      <3>6. /\ StreamOK(Oldest, u) /\ u.files = w.files /\ u.bad = w.bad
            /\ SizeOK(r) => SizeOK(u)
        <4>1. PICK l \in Nat : l = Len(text)
          BY <2>2, <3>4
        <4>2. Counted(w, l, u)
          BY <3>5, <4>1 DEF Counted, Counting
        <4>3. Longer(r, w, l) /\ StreamOK(Oldest, w)
          BY <3>4, <4>1 DEF Longer
        <4> QED
          BY <1>7, <4>2, <4>3, CountedFacts
      <3>7. Is(u)
        BY <3>5
      <3>8. lost' \in BOOLEAN /\ (u.bad => lost') /\ (~lost' => ~lost)
        BY <3>7 DEF Is
      <3>9. Len(rest) < MaxPending
        BY <2>2, <3>4
      <3>10. ~lost' => Latest(Oldest, u.files, rest, N) /\ SizeOK(u)
        BY <1>9, <2>1, <3>3, <3>4, <3>6, <3>8
      <3> QED
        BY <1>2, <1>11, <2>3, <3>4, <3>6, <3>7, <3>8, <3>9, <3>10, NextState DEF Is
    <2> QED
      BY <2>4, <2>5
  <1> QED
    BY <1>10, <1>12

\* All of the buffer is written, whatever the size of the file.
LEMMA EmptiedFacts ==
  ASSUME Inv, NEW w \in Appended(Now, pending)
  PROVE  /\ StreamOK(Oldest, w) /\ Longer(Now, w, Len(pending)) /\ <<>> \in Chars
         /\ Len(<<>>) = 0
         /\ TextOK(Oldest, w.files, <<>>, Len(sent))
         /\ (~w.bad \/ pending = <<>>) /\ ~lost => Latest(Oldest, w.files, <<>>, Len(sent))
  <1>0. PICK p \in Chars, n \in Nat, e \in Nat :
          p = pending /\ n = Len(sent) /\ e = Len(pending)
    BY NowFacts
  <1>1. PICK now : p = pending /\ n = Len(sent) /\ e = Len(p) /\ now = Now
    BY <1>0
  <1>2. /\ Oldest \in Nat /\ StreamOK(Oldest, now) /\ w \in Appended(now, p)
        /\ now.files = files
    BY <1>1, NowFacts
  <1>3. TextOK(Oldest, now.files, p, n) /\ (~lost => Latest(Oldest, now.files, p, n))
    BY <1>1, <1>2 DEF Inv
  <1>4. PICK text, rest : text = p /\ rest = <<>>
    OBVIOUS
  <1>5. Cut(p, e, text, rest)
    <2>1. SubSeq(p, 1, e) = p
      BY <1>1, SubSeqFull DEF Chars
    <2>2. SubSeq(p, e + 1, e) = <<>>
      BY <1>1, SubSeqEmpty DEF Chars
    <2> QED
      BY <1>1, <1>4, <2>1, <2>2 DEF Cut
  <1>6. e \in 0..Len(p) /\ w \in Appended(now, text)
    BY <1>1, <1>2, <1>4
  <1>7. /\ StreamOK(Oldest, w) /\ w.size = now.size /\ w.open = now.open
        /\ ~w.bad => ~now.bad /\ Len(w.files[0]) = Len(now.files[0]) + Len(text)
        /\ text \in Chars /\ Len(text) = e /\ rest \in Chars /\ Len(rest) = Len(p) - e
        /\ TextOK(Oldest, w.files, rest, n)
        /\ (~w.bad \/ e = 0) /\ Latest(Oldest, now.files, p, n) =>
             Latest(Oldest, w.files, rest, n)
    BY <1>2, <1>3, <1>5, <1>6, AppendStep, Zenon
  <1>8. Longer(now, w, Len(text))
    BY <1>7 DEF Longer
  <1>9. pending = <<>> => e = 0
    BY <1>1
  <1>10. rest = <<>> /\ Len(rest) = 0
    BY <1>1, <1>4, <1>7
  <1> QED
    BY <1>1, <1>3, <1>4, <1>7, <1>8, <1>9, <1>10

\* flush().
LEMMA FlushInv ==
  ASSUME Inv, Flush
  PROVE  Inv'
  <1>1. CASE ~(open /\ pending # <<>>)
    <2>1. UNCHANGED vars
      BY <1>1 DEF Flush, vars
    <2> QED
      BY <2>1 DEF vars, Inv, TypeOK, Oldest, Kept
  <1>2. CASE open /\ pending # <<>>
    <2>1. PICK w \in Appended(Now, pending) : Is(Flushed(w))
      BY <1>2 DEF Flush
    <2>2. pending' = <<>> /\ backups' = backups /\ sent' = sent
      BY <1>2 DEF Flush
    <2>3. /\ StreamOK(Oldest, w) /\ Longer(Now, w, Len(pending)) /\ <<>> \in Chars
          /\ Len(<<>>) = 0
          /\ TextOK(Oldest, w.files, <<>>, Len(sent))
          /\ (~w.bad \/ pending = <<>>) /\ ~lost => Latest(Oldest, w.files, <<>>, Len(sent))
      BY EmptiedFacts
    <2>4. PICK l \in Nat : l = Len(pending)
      BY NowFacts
    <2>5. PICK u, now : u = Flushed(w) /\ now = Now
      OBVIOUS
    <2>6. Counted(w, l, u) /\ Longer(now, w, l)
      BY <2>3, <2>4, <2>5 DEF Counted, Flushed
    <2>7. Oldest \in Nat
      BY NowFacts
    <2>8. /\ StreamOK(Oldest, u) /\ u.files = w.files /\ u.bad = w.bad
          /\ SizeOK(now) => SizeOK(u)
      BY <2>3, <2>6, <2>7, CountedFacts
    <2>9. ~lost => SizeOK(now)
      BY <2>5, NowFacts DEF Inv, SizeOK
    <2>10. Is(u) /\ lost' \in BOOLEAN /\ (u.bad => lost') /\ (~lost' => ~lost)
      BY <2>1, <2>5 DEF Is
    <2>11. ~lost' => Latest(Oldest, u.files, <<>>, Len(sent)) /\ SizeOK(u)
      BY <2>3, <2>8, <2>9, <2>10
    <2>12. /\ sent \in Seq({"c", "nl"}) /\ Len(sent) <= MaxSent /\ Len(<<>>) < MaxPending
      BY <2>3 DEF Inv, TypeOK
    <2> QED
      BY <2>2, <2>3, <2>8, <2>10, <2>11, <2>12, NextState DEF Is
  <1> QED
    BY <1>1, <1>2

\* The buffer is dropped: what is left is still sorted.
LEMMA DroppedBuffer ==
  ASSUME NEW top \in Nat, NEW fs, NEW p, NEW n, TextOK(top, fs, p, n)
  PROVE  TextOK(top, fs, <<>>, n)
  <1>1. \A i \in -1..top : i < 0 => DOMAIN TextAt(fs, <<>>, i) = {}
    BY DEF TextAt
  <1>2. \A i \in -1..top : ~(i < 0) => TextAt(fs, <<>>, i) = TextAt(fs, p, i)
    BY DEF TextAt
  <1>3. Sorted(top, fs, <<>>)
    BY <1>1, <1>2, Zenon DEF Sorted, TextOK
  <1> QED
    BY <1>1, <1>2, <1>3, Zenon DEF TextOK

\* A new writer for the same file.
LEMMA RestartInv ==
  ASSUME Inv, Restart
  PROVE  Inv'
  <1>1. PICK w \in IF open THEN Appended(Now, pending) ELSE {Now} :
          \E s \in Reopened(w.files) :
            /\ files' = s.files /\ size' = s.size /\ open' = s.open /\ bad' = s.bad
            /\ lost' = (lost \/ s.bad \/ (w.bad /\ pending # <<>>) \/ (~open /\ pending # <<>>))
    BY DEF Restart
  <1>2. PICK s \in Reopened(w.files) :
          /\ files' = s.files /\ size' = s.size /\ open' = s.open /\ bad' = s.bad
          /\ lost' = (lost \/ s.bad \/ (w.bad /\ pending # <<>>) \/ (~open /\ pending # <<>>))
    BY <1>1
  <1>3. pending' = <<>> /\ backups' = backups /\ sent' = sent
    BY DEF Restart
  <1>4. /\ <<>> \in Chars /\ Len(<<>>) < MaxPending /\ Oldest \in Nat
        /\ sent \in Seq({"c", "nl"}) /\ Len(sent) <= MaxSent
    BY NowFacts DEF Inv, TypeOK, Chars
  <1>5. /\ w.files \in FilesTo(Oldest)
        /\ TextOK(Oldest, w.files, <<>>, Len(sent))
        /\ ~lost' => Latest(Oldest, w.files, <<>>, Len(sent))
    <2>1. CASE open
      <3>1. w \in Appended(Now, pending)
        BY <1>1, <2>1
      <3>2. /\ StreamOK(Oldest, w) /\ TextOK(Oldest, w.files, <<>>, Len(sent))
            /\ (~w.bad \/ pending = <<>>) /\ ~lost => Latest(Oldest, w.files, <<>>, Len(sent))
        BY <3>1, EmptiedFacts
      <3>3. ~lost' => ~lost /\ (~w.bad \/ pending = <<>>)
        BY <1>2
      <3> QED
        BY <3>2, <3>3 DEF StreamOK, Streams
    <2>2. CASE ~open
      <3>1. PICK fs \in FilesTo(Oldest), p \in Chars, n \in Nat :
              fs = files /\ p = pending /\ n = Len(sent)
        BY NowFacts
      <3>2. w.files = fs
        BY <1>1, <2>2, <3>1, NowFacts
      <3>3. TextOK(Oldest, fs, p, n) /\ (~lost => Latest(Oldest, fs, p, n))
        BY <3>1 DEF Inv
      <3>4. ~lost' => ~lost /\ p = <<>>
        BY <1>2, <2>2, <3>1
      <3>5. TextOK(Oldest, fs, <<>>, n)
        BY <1>4, <3>3, DroppedBuffer
      <3>6. ~lost' => Latest(Oldest, fs, <<>>, n)
        BY <3>3, <3>4
      <3> QED
        BY <3>1, <3>2, <3>5, <3>6
    <2> QED
      BY <2>1, <2>2
  <1>6. PICK fs \in FilesTo(Oldest), p \in Chars : fs = w.files /\ p = <<>>
    BY <1>4, <1>5
  <1>7. /\ StreamOK(Oldest, s) /\ SizeOK(s)
        /\ \A i \in 0..Oldest : TextAt(s.files, p, i) = TextAt(fs, p, i)
    BY <1>2, <1>4, <1>6, ReopenedFacts
  <1>8. /\ TextOK(Oldest, s.files, p, Len(sent))
        /\ ~lost' => Latest(Oldest, s.files, p, Len(sent))
    BY <1>4, <1>5, <1>6, <1>7, SamePromise
  <1>9. lost' \in BOOLEAN /\ (s.bad => lost')
    BY <1>2
  <1> QED
    BY <1>2, <1>3, <1>4, <1>6, <1>7, <1>8, <1>9, NextState

\* The constructor.
LEMMA InitInv == Init => Inv
  <1> SUFFICES ASSUME Init PROVE Inv
    OBVIOUS
  <1>1. /\ backups \in Int /\ sent = <<>> /\ pending = <<>> /\ Len(sent) = 0
        /\ sent \in Seq({"c", "nl"})
    BY DEF Init
  <1>2. <<>> \in Chars /\ Len(<<>>) < MaxPending /\ Oldest \in Nat
    BY <1>1 DEF Chars, Oldest, Kept
  <1>3. PICK fs : fs = [i \in 0..Oldest |-> NoFile]
    OBVIOUS
  <1>4. PICK s \in Reopened(fs) :
          files = s.files /\ size = s.size /\ open = s.open /\ bad = s.bad /\ lost = s.bad
    BY <1>3 DEF Init
  <1>5. fs \in FilesTo(Oldest) /\ \A i \in 0..Oldest : fs[i] = NoFile
    BY <1>3 DEF FilesTo
  <1>6. /\ StreamOK(Oldest, s) /\ SizeOK(s)
        /\ \A i \in 0..Oldest : TextAt(s.files, <<>>, i) = TextAt(fs, <<>>, i)
    BY <1>2, <1>4, <1>5, ReopenedFacts
  <1>7. \A i \in -1..Oldest : DOMAIN TextAt(fs, <<>>, i) = {}
    BY <1>5 DEF TextAt
  <1>8. TextOK(Oldest, fs, <<>>, 0)
    BY <1>7, Zenon DEF TextOK, Sorted
  <1>9. TextOK(Oldest, files, pending, Len(sent))
    BY <1>1, <1>2, <1>4, <1>6, <1>8, SamePromise
  <1>10. Latest(Oldest, files, pending, Len(sent))
    BY <1>1 DEF Latest
  <1>11. TypeOK
    BY <1>1, <1>2, <1>4, <1>6 DEF TypeOK, Init, StreamOK, Streams, FilesTo
  <1> QED
    BY <1>1, <1>4, <1>6, <1>9, <1>10, <1>11 DEF Inv, StreamOK, SizeOK

\* The invariant is inductive.
THEOREM Safety == Spec => []Inv
  <1>1. Inv /\ [Next]_vars => Inv'
    <2> SUFFICES ASSUME Inv, [Next]_vars PROVE Inv'
      OBVIOUS
    <2>1. ASSUME NEW data \in Chunks, Write(data) PROVE Inv'
      BY <2>1, WriteInv
    <2>2. CASE Flush
      BY <2>2, FlushInv
    <2>3. CASE Restart
      BY <2>3, RestartInv
    <2>4. CASE UNCHANGED vars
      BY <2>4 DEF vars, Inv, TypeOK, Oldest, Kept
    <2> QED
      BY <2>1, <2>2, <2>3, <2>4 DEF Next
  <1> QED
    BY <1>1, InitInv, PTL DEF Spec

\* Type correctness; between two calls the buffer is below its limit of 64 KB, so that
\* write() never has to keep more than that.
THEOREM WriterTypeCorrect == Spec => []TypeOK
  <1>1. Inv => TypeOK
    BY DEF Inv
  <1> QED
    BY <1>1, Safety, PTL

\* The texts of the properties are those of the invariant.
LEMMA TextsAgree ==
  ASSUME NEW i
  PROVE  Text(i) = TextAt(files, pending, i)
  BY DEF Text, TextAt

\* Whatever operation fails and however often the writer is made anew, no character is
\* kept twice or out of order: a rotation that is left half done does not mix up the
\* backups, and what was written does not stay in the buffer.
THEOREM LogIsInOrder == Spec => []InOrder
  <1>1. Inv => InOrder
    <2> SUFFICES ASSUME Inv PROVE InOrder
      OBVIOUS
    <2>1. Sorted(Oldest, files, pending)
      BY DEF Inv, TextOK
    <2> QED
      BY <2>1, TextsAgree, Zenon DEF InOrder, Places, Sorted, Before
  <1> QED
    BY <1>1, Safety, PTL

\* A character is kept when a text has it.
LEMMA RetainedFacts ==
  ASSUME NEW x
  PROVE  x \in Retained <=> Holds(Oldest, files, pending, x)
  <1>1. x \in Retained <=> \E i \in Places : \E a \in DOMAIN Text(i) : x = Text(i)[a]
    <2>1. x \in Retained <=> \E i \in Places : x \in Range(Text(i))
      BY DEF Retained
    <2>2. \A i : x \in Range(Text(i)) <=> \E a \in DOMAIN Text(i) : x = Text(i)[a]
      BY DEF Range
    <2> QED
      BY <2>1, <2>2, Zenon
  <1> QED
    BY <1>1, TextsAgree, Zenon DEF Holds, Places

\* As long as no operation on the file fails, rotation gives up the oldest characters
\* only: those kept are a suffix of all that was sent.
THEOREM OnlyTheOldestGo == Spec => []NoGap
  <1>1. Inv => NoGap
    <2> SUFFICES ASSUME Inv, ~lost, sent # <<>>
                 PROVE  /\ Len(sent) \in Retained
                        /\ \A x \in Retained : x..Len(sent) \subseteq Retained
      BY DEF NoGap
    <2>1. PICK n \in Nat : n = Len(sent) /\ n > 0
      BY DEF Inv, TypeOK
    <2>2. /\ Holds(Oldest, files, pending, n)
          /\ \A x \in 1..n : Holds(Oldest, files, pending, x) =>
               \A y \in x..n : Holds(Oldest, files, pending, y)
      BY <2>1 DEF Inv, Latest
    <2>3. ASSUME NEW x \in Retained PROVE x..n \subseteq Retained
      <3>1. Holds(Oldest, files, pending, x)
        BY <2>3, RetainedFacts
      <3>2. x \in Nat /\ x > 0
        BY <3>1, NowFacts, HoldsType
      <3>3. CASE x <= n
        <4>1. \A y \in x..n : Holds(Oldest, files, pending, y)
          BY <2>2, <3>1, <3>2, <3>3
        <4> QED
          BY <4>1, RetainedFacts
      <3>4. CASE ~(x <= n)
        BY <2>1, <3>2, <3>4
      <3> QED
        BY <3>3, <3>4
    <2> QED
      BY <2>1, <2>2, <2>3, RetainedFacts
  <1> QED
    BY <1>1, Safety, PTL

\* As long as no operation on the file fails, current_size_, which write() compares with
\* max_bytes_, is the length of the log file, across rotations and new writers.
THEOREM SizeIsRight == Spec => []SizeTracksFile
  <1>1. Inv => SizeTracksFile
    BY DEF Inv, SizeTracksFile
  <1> QED
    BY <1>1, Safety, PTL
=============================================================================
