--------------------------- MODULE ManagerProofs ---------------------------
(***************************************************************************)
(* What holds of ProcessManager for every set of programs, process ids and *)
(* configurations and every depth of nested stop requests.                 *)
(***************************************************************************)
EXTENDS ProcessManager, FiniteSetTheorems, TLAPS

USE PidsAssumption, TimeAssumption, ManagerAssumption, NoNameAssumption

-----------------------------------------------------------------------------
(***************************************************************************)
(* Facts about the methods.                                                *)
(***************************************************************************)

\* A process id is neither NoPid nor something kill(2) takes for a group.
LEMMA PidFacts == \A c \in Pids : c > 0 /\ c # NoPid
  BY DEF NoPid

\* set_state_ changes only state and elapsed.
LEMMA SetStateFacts ==
  ASSUME NEW p \in Processes, NEW s \in States
  PROVE  /\ SetState(p, s) \in Processes
         /\ SetState(p, s).state = s
         /\ SetState(p, s).pid = p.pid
         /\ SetState(p, s).cfg = p.cfg
         /\ SetState(p, s).elapsed = IF s = p.state THEN p.elapsed ELSE 0
  <1>1. CASE s = p.state
    BY <1>1 DEF SetState
  <1>2. CASE s # p.state
    <2>1. SetState(p, s) = [p EXCEPT !.state = s, !.elapsed = 0]
      BY <1>2 DEF SetState
    <2>2. 0 \in 0..MaxElapsed
      OBVIOUS
    <2> QED
      BY <1>2, <2>1, <2>2 DEF Processes
  <1> QED
    BY <1>1, <1>2

\* A failed attempt leaves the process id alone.
LEMMA AttemptFailedFacts ==
  ASSUME NEW p \in Processes
  PROVE  /\ AttemptFailed(p) \in Processes
         /\ AttemptFailed(p).state \in {"BACKOFF", "FATAL"}
         /\ AttemptFailed(p).pid = p.pid /\ AttemptFailed(p).cfg = p.cfg
  <1> DEFINE r == [p EXCEPT !.retry_count = p.retry_count + 1]
             s == IF p.retry_count + 1 >= p.cfg.startretries THEN "FATAL" ELSE "BACKOFF"
  <1>1. r \in Processes /\ r.pid = p.pid /\ r.cfg = p.cfg
    BY DEF Processes
  <1>2. s \in States /\ s \in {"BACKOFF", "FATAL"}
    BY DEF States
  <1>3. AttemptFailed(p) = SetState(r, s)
    BY DEF AttemptFailed
  <1> HIDE DEF r, s
  <1>4. /\ SetState(r, s) \in Processes
        /\ SetState(r, s).state = s /\ SetState(r, s).pid = r.pid
        /\ SetState(r, s).cfg = r.cfg
    BY <1>1, <1>2, SetStateFacts
  <1> QED
    BY <1>1, <1>2, <1>3, <1>4

\* An object whose process id was replaced.
LEMMA WithPid ==
  ASSUME NEW p \in Processes, NEW c \in Pids \cup {NoPid}
  PROVE  /\ [p EXCEPT !.pid = c] \in Processes
         /\ [p EXCEPT !.pid = c].pid = c
         /\ [p EXCEPT !.pid = c].state = p.state
         /\ [p EXCEPT !.pid = c].cfg = p.cfg
  BY DEF Processes

\* start(): the process id is that of the new child, if there is one.
LEMMA StartFacts ==
  ASSUME NEW p \in Processes, NEW c \in Pids \cup {NoPid}
  PROVE  /\ Start(p, c) \in Processes
         /\ Start(p, c).state \in {"STARTING", "BACKOFF", "FATAL"}
         /\ Start(p, c).pid = IF c = NoPid THEN p.pid ELSE c
         /\ Start(p, c).cfg = p.cfg
  <1>1. CASE c = NoPid
    BY <1>1, AttemptFailedFacts DEF Start
  <1>2. CASE c # NoPid
    <2>1. "STARTING" \in States
      BY DEF States
    <2> DEFINE q == [p EXCEPT !.pid = c]
    <2>2. q \in Processes /\ q.pid = c /\ q.cfg = p.cfg
      BY WithPid
    <2>3. Start(p, c) = SetState(q, "STARTING")
      BY <1>2 DEF Start
    <2> HIDE DEF q
    <2> QED
      BY <1>2, <2>1, <2>2, <2>3, SetStateFacts
  <1> QED
    BY <1>1, <1>2

\* stop() and the end of the wait for startsecs.
LEMMA StopFacts ==
  ASSUME NEW p \in Processes
  PROVE  /\ Stop(p) \in Processes /\ Stop(p).state = "STOPPING" /\ Stop(p).pid = p.pid
         /\ Stop(p).cfg = p.cfg
         /\ Stop(p).elapsed = IF p.state = "STOPPING" THEN p.elapsed ELSE 0
         /\ MarkRunning(p) \in Processes /\ MarkRunning(p).state = "RUNNING"
         /\ MarkRunning(p).pid = p.pid /\ MarkRunning(p).cfg = p.cfg
  <1>1. {"STOPPING", "RUNNING"} \subseteq States
    BY DEF States
  <1>2. /\ SetState(p, "STOPPING") \in Processes
        /\ SetState(p, "STOPPING").state = "STOPPING"
        /\ SetState(p, "STOPPING").pid = p.pid
        /\ SetState(p, "STOPPING").cfg = p.cfg
        /\ SetState(p, "STOPPING").elapsed = IF "STOPPING" = p.state THEN p.elapsed ELSE 0
    BY <1>1, SetStateFacts
  <1> DEFINE q == SetState(p, "RUNNING")
  <1>3. q \in Processes /\ q.state = "RUNNING" /\ q.pid = p.pid /\ q.cfg = p.cfg
    BY <1>1, SetStateFacts
  <1> HIDE DEF q
  <1>4. /\ [q EXCEPT !.retry_count = 0] \in Processes
        /\ [q EXCEPT !.retry_count = 0].state = "RUNNING"
        /\ [q EXCEPT !.retry_count = 0].pid = p.pid
        /\ [q EXCEPT !.retry_count = 0].cfg = p.cfg
    BY <1>3 DEF Processes
  <1> QED
    BY <1>2, <1>4 DEF Stop, MarkRunning, q

\* kill() and on_exit(): there is no child left.  Only a stop leads to STOPPED.
LEMMA ExitFacts ==
  ASSUME NEW p \in Processes
  PROVE  /\ Killed(p) \in Processes /\ Killed(p).state = "STOPPED" /\ Killed(p).pid = NoPid
         /\ Killed(p).cfg = p.cfg
         /\ OnExit(p) \in Processes /\ OnExit(p).pid = NoPid /\ OnExit(p).cfg = p.cfg
         /\ p.state = "STOPPING" => OnExit(p).state = "STOPPED"
  <1> DEFINE q == [p EXCEPT !.pid = NoPid]
  <1>1. {"STOPPED", "BACKOFF", "EXITED"} \subseteq States
    BY DEF States
  <1>2. q \in Processes /\ q.pid = NoPid /\ q.cfg = p.cfg
    BY WithPid
  <1> DEFINE r == SetState(q, "STOPPED")
  <1> HIDE DEF q
  <1>3. r \in Processes /\ r.state = "STOPPED" /\ r.pid = NoPid /\ r.cfg = p.cfg
    BY <1>1, <1>2, SetStateFacts
  <1> HIDE DEF r
  <1>4. /\ [r EXCEPT !.retry_count = 0] \in Processes
        /\ [r EXCEPT !.retry_count = 0].state = "STOPPED"
        /\ [r EXCEPT !.retry_count = 0].pid = NoPid
        /\ [r EXCEPT !.retry_count = 0].cfg = p.cfg
    BY <1>3 DEF Processes
  <1>5. Killed(p) = r
    BY DEF Killed, q, r
  <1>6. CASE p.state = "STOPPING"
    <2>1. OnExit(p) = [r EXCEPT !.retry_count = 0]
      BY <1>6, Zenon DEF OnExit, q, r
    <2> QED
      BY <1>3, <1>4, <1>5, <2>1
  <1>7. CASE p.state # "STOPPING"
    <2>1. \/ OnExit(p) = AttemptFailed(q)
          \/ OnExit(p) = SetState(q, "BACKOFF")
          \/ OnExit(p) = SetState(q, "EXITED")
      BY <1>7, Zenon DEF OnExit, q
    <2>2. /\ AttemptFailed(q) \in Processes /\ AttemptFailed(q).pid = NoPid
          /\ AttemptFailed(q).cfg = p.cfg
          /\ SetState(q, "BACKOFF") \in Processes /\ SetState(q, "BACKOFF").pid = NoPid
          /\ SetState(q, "BACKOFF").cfg = p.cfg
          /\ SetState(q, "EXITED") \in Processes /\ SetState(q, "EXITED").pid = NoPid
          /\ SetState(q, "EXITED").cfg = p.cfg
      BY <1>1, <1>2, SetStateFacts, AttemptFailedFacts
    <2>3. OnExit(p) \in Processes /\ OnExit(p).pid = NoPid /\ OnExit(p).cfg = p.cfg
      BY <2>1, <2>2
    <2> QED
      BY <1>3, <1>5, <1>7, <2>3
  <1> QED
    BY <1>6, <1>7

\* A child keeps its type and stays alive or a zombie through kill(2).
LEMMA SignalledFacts ==
  ASSUME NEW c \in Children, NEW sig \in SignalNames
  PROVE  /\ Signalled(c, sig) \in Children /\ Signalled(c, sig).st = c.st
         /\ c.st = "alive" => Signalled(c, sig).sig # "none"
         /\ c.sig # "none" => /\ Signalled(c, sig).sig # "none"
                              /\ Signalled(c, sig).age = c.age
         /\ Signalled(c, sig).sig \in {c.sig, sig}
  <1>0. sig # "none"
    BY DEF SignalNames
  <1>1. CASE c.st # "alive" \/ c.sig = "KILL"
    BY <1>1 DEF Signalled
  <1>2. CASE ~(c.st # "alive" \/ c.sig = "KILL")
    <2> DEFINE age == IF c.sig = "none" THEN 0 ELSE c.age
    <2>1. Signalled(c, sig) = [c EXCEPT !.sig = sig, !.age = age]
      BY <1>2 DEF Signalled
    <2>2. age \in 0..MaxElapsed /\ (c.sig # "none" => age = c.age)
      BY DEF Children
    <2> HIDE DEF age
    <2> QED
      BY <1>0, <2>1, <2>2 DEF Children
  <1> QED
    BY <1>1, <1>2

\* stop() sends a signal, whatever name is configured.
LEMMA StopSignalFacts ==
  ASSUME NEW cfg PROVE StopSignal(cfg) \in SignalNames
  BY DEF StopSignal, SignalNames

\* What fork, a death and a second make of a process id.
LEMMA ChildFacts ==
  /\ Free \in Children /\ Free.st = "free"
  /\ NewChild \in Children /\ NewChild.st = "alive"
  /\ \A c \in Children : /\ [c EXCEPT !.st = "zombie"] \in Children
                         /\ [c EXCEPT !.st = "zombie"].st = "zombie"
                         /\ Aged(c) \in Children
                         /\ Aged(c).st = c.st /\ Aged(c).sig = c.sig
                         /\ Aged(c).age = IF c.st = "alive" THEN Ticked(c.age) ELSE c.age
  <1>1. /\ Free \in Children /\ Free.st = "free"
        /\ NewChild \in Children /\ NewChild.st = "alive"
    BY DEF Free, NewChild, Children, SignalNames
  <1>2. ASSUME NEW c \in Children
        PROVE  /\ [c EXCEPT !.st = "zombie"] \in Children
               /\ [c EXCEPT !.st = "zombie"].st = "zombie"
               /\ Aged(c) \in Children
               /\ Aged(c).st = c.st /\ Aged(c).sig = c.sig
               /\ Aged(c).age = IF c.st = "alive" THEN Ticked(c.age) ELSE c.age
    <2>1. Ticked(c.age) \in 0..MaxElapsed
      BY DEF Ticked, Children
    <2> QED
      BY <2>1 DEF Children, Aged
  <1> QED
    BY <1>1, <1>2

\* The history of the wait in BACKOFF keeps its type.
LEMMA FailureFacts ==
  /\ NoFailure \in Failures
  /\ \A kind \in {"exit", "spawn"} : \A p : FailureOf(kind, p) \in Failures
  /\ \A f \in Failures : FailureTicked(f) \in Failures
  <1>1. NoFailure \in Failures
    BY DEF NoFailure, Failures
  <1>2. \A kind \in {"exit", "spawn"} : \A p : FailureOf(kind, p) \in Failures
    BY DEF NoFailure, FailureOf, Failures
  <1>3. ASSUME NEW f \in Failures PROVE FailureTicked(f) \in Failures
    <2>1. Ticked(f.age) \in 0..MaxElapsed
      BY DEF Ticked, Failures
    <2> QED
      BY <2>1 DEF FailureTicked, Failures
  <1> QED
    BY <1>1, <1>2, <1>3

\* A second passes for an object.
LEMMA ElapsedFacts ==
  ASSUME NEW p \in Processes
  PROVE  /\ [p EXCEPT !.elapsed = Ticked(p.elapsed)] \in Processes
         /\ [p EXCEPT !.elapsed = Ticked(p.elapsed)].pid = p.pid
         /\ [p EXCEPT !.elapsed = Ticked(p.elapsed)].state = p.state
         /\ [p EXCEPT !.elapsed = Ticked(p.elapsed)].cfg = p.cfg
         /\ [p EXCEPT !.elapsed = Ticked(p.elapsed)].elapsed = Ticked(p.elapsed)
  <1>1. Ticked(p.elapsed) \in 0..MaxElapsed
    BY DEF Ticked, Processes
  <1> QED
    BY <1>1 DEF Processes

-----------------------------------------------------------------------------
(***************************************************************************)
(* The deadline of a wait is a number, because there are finitely many     *)
(* programs.                                                               *)
(***************************************************************************)

\* Every nonempty set of natural numbers has a least element.
LEMMA Least ==
  ASSUME NEW T \in SUBSET Nat, T # {}
  PROVE  \E x \in T : \A y \in T : x <= y
  <1> DEFINE R == {ss \in Nat \X Nat : ss[1] < ss[2]}
  <1>1. IsWellFoundedOn(R, Nat)
    BY NatLessThanWellFounded DEF OpToRel
  <1>2. PICK x \in T : \A y \in T : <<y, x>> \notin R
    <2> HIDE DEF R
    <2> QED
      BY <1>1, WFMin
  <1>3. \A y \in T : ~(y < x)
    BY <1>2
  <1> QED
    BY <1>3

\* Every nonempty finite set of integers has a greatest element: a smallest set
\* without one has an element, and the others have a greatest one.
LEMMA FiniteMax ==
  ASSUME NEW S \in SUBSET Int, IsFiniteSet(S), S # {}
  PROVE  Max(S) \in S /\ \A y \in S : Max(S) >= y
  <1> DEFINE Top(U) == \E x \in U : \A y \in U : x >= y
             T == {k \in Nat : \E U \in SUBSET S : /\ U # {} /\ ~Top(U)
                                                   /\ Cardinality(U) = k}
  <1>1. ASSUME T # {} PROVE FALSE
    <2>1. PICK k \in T : \A j \in T : k <= j
      <3>1. T \in SUBSET Nat
        OBVIOUS
      <3> HIDE DEF T
      <3> QED
        BY <1>1, <3>1, Least
    <2>2. PICK U \in SUBSET S : U # {} /\ ~Top(U) /\ Cardinality(U) = k
      OBVIOUS
    <2>3. PICK u \in U : TRUE
      BY <2>2
    <2> DEFINE V == U \ {u}
    <2>4. Cardinality(V) = k - 1 /\ Cardinality(V) \in Nat
      <3>1. IsFiniteSet(U)
        BY FS_Subset
      <3> QED
        BY <2>2, <3>1, FS_RemoveElement, FS_CardinalityType
    <2>5. V # {}
      BY <2>2
    <2>6. Top(V)
      BY <2>1, <2>4, <2>5
    <2>7. PICK x \in V : \A y \in V : x >= y
      BY <2>6
    <2>8. Top(U)
      <3>1. CASE x >= u
        BY <2>7, <3>1
      <3>2. CASE u >= x
        BY <2>7, <3>2
      <3> QED
        BY <3>1, <3>2
    <2> QED
      BY <2>2, <2>8
  <1>2. Top(S)
    <2>1. Cardinality(S) \in Nat
      BY FS_CardinalityType
    <2> QED
      BY <1>1, <2>1
  <1> QED
    BY <1>2 DEF Max

-----------------------------------------------------------------------------
(***************************************************************************)
(* The inductive invariant.                                                *)
(***************************************************************************)

\* The child in pid_ was forked for this program.
Links == \A n \in Names : procs[n].pid # NoPid => owner[procs[n].pid] = n

\* A process id that is not in use belongs to nobody.
Unowned == \A c \in Pids : os[c].st = "free" => owner[c] = NoName

\* A program that is STOPPED has no child, so that no exit can be reported for it.
StoppedIsDown == \A n \in Names : procs[n].state = "STOPPED" => procs[n].pid = NoPid

Inv == TypeOK /\ Links /\ Unowned /\ StoppedIsDown /\ StaysStopped

\* What TypeOK says of one program.
LEMMA Typing ==
  ASSUME TypeOK, NEW n \in Names
  PROVE  /\ procs[n] \in Processes
         /\ procs[n].pid \in Pids \cup {NoPid}
         /\ procs[n].state \in States
         /\ procs[n].cfg \in ProgramConfigs
         /\ procs[n].pid > 0 <=> procs[n].pid # NoPid
         /\ fails[n] \in Failures
  <1>1. procs[n] \in Processes /\ fails[n] \in Failures
    BY DEF TypeOK
  <1>2. /\ procs[n].pid \in Pids \cup {NoPid}
        /\ procs[n].state \in States /\ procs[n].cfg \in ProgramConfigs
    BY <1>1 DEF Processes
  <1>3. \A c \in Pids \cup {NoPid} : c > 0 <=> c # NoPid
    BY DEF NoPid
  <1> QED
    BY <1>1, <1>2, <1>3

\* The deadlines of a stop: a wait is longer than the stopwaitsecs of every program it
\* waits for.
LEMMA WaitFacts ==
  ASSUME TypeOK
  PROVE  /\ \A n \in Names : /\ StopWait(procs[n]) \in Nat
                             /\ StopWait(procs[n]) >= procs[n].cfg.stopwaitsecs + 1
         /\ \A S \in SUBSET Names :
              /\ StopAllWait(S) \in Nat
              /\ \A n \in S : StopAllWait(S) >= procs[n].cfg.stopwaitsecs + 1
  <1>1. \A n \in Names : procs[n].cfg.stopwaitsecs \in Int
    BY Typing DEF ProgramConfigs
  <1>2. \A n \in Names : /\ StopWait(procs[n]) \in Nat
                         /\ StopWait(procs[n]) >= procs[n].cfg.stopwaitsecs + 1
    BY <1>1 DEF StopWait
  <1>3. ASSUME NEW S \in SUBSET Names
        PROVE  /\ StopAllWait(S) \in Nat
               /\ \A n \in S : StopAllWait(S) >= procs[n].cfg.stopwaitsecs + 1
    <2> DEFINE f == [n \in S |-> procs[n].cfg.stopwaitsecs]
               T == {procs[n].cfg.stopwaitsecs : n \in S}
    <2>1. T \in SUBSET Int
      BY <1>1
    <2>2. IsFiniteSet(T)
      <3>1. IsFiniteSet(S)
        BY FS_Subset
      <3>2. f \in Surjection(S, T)
        BY DEF Surjection
      <3> HIDE DEF f, T
      <3> QED
        BY <3>1, <3>2, FS_Surjection
    <2>3. IsFiniteSet({0} \cup T)
      BY <2>2, FS_AddElement, FS_Singleton, FS_Union
    <2>4. StopAllWait(S) = Max({0} \cup T) + 1
      BY DEF StopAllWait
    <2>5. \A n \in S : procs[n].cfg.stopwaitsecs \in T
      OBVIOUS
    <2> HIDE DEF T
    <2>6. PICK U \in SUBSET Int : U = {0} \cup T
      <3>1. {0} \cup T \in SUBSET Int
        BY <2>1
      <3> QED
        BY <3>1, Zenon
    <2>7. Max(U) \in U /\ \A y \in U : Max(U) >= y
      <3>1. IsFiniteSet(U) /\ U # {}
        BY <2>3, <2>6
      <3> QED
        BY <3>1, FiniteMax
    <2>8. PICK m \in Int : m = Max(U)
      BY <2>7
    <2>9. /\ StopAllWait(S) = m + 1 /\ m >= 0
          /\ \A n \in S : procs[n].cfg.stopwaitsecs \in Int /\ m >= procs[n].cfg.stopwaitsecs
      BY <1>1, <2>4, <2>5, <2>6, <2>7, <2>8
    <2> QED
      BY <2>9
  <1> QED
    BY <1>2, <1>3

\* A manager whose programs were all just created.
LEMMA InitInv == Init => Inv
  <1> SUFFICES ASSUME Init PROVE Inv
    OBVIOUS
  <1>1. \A n \in Names : \E cfg \in Configs : procs[n] = Created(cfg)
    BY DEF Init
  <1>2. \A cfg \in Configs : /\ Created(cfg) \in Processes
                             /\ Created(cfg).pid = NoPid
    BY DEF Created, Processes, States
  <1>3. procs \in [Names -> Processes]
    BY <1>1, <1>2 DEF Init
  <1>4. TypeOK
    BY <1>3, ChildFacts, FailureFacts DEF Init, TypeOK
  <1> QED
    BY <1>1, <1>2, <1>4, ChildFacts
    DEF Init, Inv, Links, Unowned, StoppedIsDown, StaysStopped

\* What start() of several programs in one handler leaves behind.
LEMMA StartEachInv ==
  ASSUME Inv,
         NEW S \in SUBSET Names,
         NEW base \in [Names -> Processes],
         NEW kernel \in [Pids -> Children],
         \A n \in Names : base[n].pid = procs[n].pid,
         \A n \in Names : base[n].state = "STOPPED" => procs[n].state = "STOPPED",
         \A c \in Pids : kernel[c].st = os[c].st,
         StartEach(S, base, kernel)
  PROVE  /\ procs' \in [Names -> Processes] /\ os' \in [Pids -> Children]
         /\ owner' \in [Pids -> Names \cup {NoName}] /\ fails' \in [Names -> Failures]
         /\ Links' /\ Unowned' /\ StoppedIsDown'
         /\ \A n \in Names \ S : procs'[n] = base[n]
  <1>1. PICK fork \in Forks(S) :
          /\ procs' = [n \in Names |-> IF n \in S THEN Start(base[n], fork[n]) ELSE base[n]]
          /\ os' = [c \in Pids |-> IF \E n \in S : fork[n] = c THEN NewChild ELSE kernel[c]]
          /\ owner' = [c \in Pids |-> IF \E n \in S : fork[n] = c
                                      THEN CHOOSE n \in S : fork[n] = c ELSE owner[c]]
          /\ fails' = [n \in Names |->
               IF n \notin S THEN fails[n]
               ELSE IF fork[n] = NoPid THEN FailureOf("spawn", procs'[n]) ELSE NoFailure]
    BY DEF StartEach
  <1>2. /\ fork \in [S -> Pids \cup {NoPid}]
        /\ \A n \in S : fork[n] # NoPid => fork[n] \in Pids /\ os[fork[n]].st = "free"
        /\ \A m, n \in S : m # n /\ fork[m] # NoPid => fork[m] # fork[n]
    BY DEF Forks
  <1>3. \A n \in S : /\ Start(base[n], fork[n]) \in Processes
                     /\ Start(base[n], fork[n]).state # "STOPPED"
                     /\ Start(base[n], fork[n]).pid = IF fork[n] = NoPid THEN procs[n].pid
                                                      ELSE fork[n]
    <2> SUFFICES ASSUME NEW n \in S
                 PROVE  /\ Start(base[n], fork[n]) \in Processes
                        /\ Start(base[n], fork[n]).state # "STOPPED"
                        /\ Start(base[n], fork[n]).pid =
                             IF fork[n] = NoPid THEN procs[n].pid ELSE fork[n]
      OBVIOUS
    <2>1. base[n] \in Processes /\ base[n].pid = procs[n].pid
      OBVIOUS
    <2>2. fork[n] \in Pids \cup {NoPid}
      BY <1>2
    <2>3. /\ Start(base[n], fork[n]) \in Processes
          /\ Start(base[n], fork[n]).state \in {"STARTING", "BACKOFF", "FATAL"}
          /\ Start(base[n], fork[n]).pid = IF fork[n] = NoPid THEN base[n].pid ELSE fork[n]
      BY <2>1, <2>2, StartFacts
    <2> QED
      BY <2>1, <2>3
  <1>4. procs' \in [Names -> Processes] /\ os' \in [Pids -> Children]
    BY <1>1, <1>3, ChildFacts
  <1>5. owner' \in [Pids -> Names \cup {NoName}]
    BY <1>1 DEF Inv, TypeOK
  <1>6. fails' \in [Names -> Failures]
    <2>1. \A n \in Names : fails[n] \in Failures
      BY DEF Inv, TypeOK
    <2> QED
      BY <1>1, <2>1, FailureFacts
  <1>7. Links'
    <2> SUFFICES ASSUME NEW n \in Names, procs'[n].pid # NoPid
                 PROVE  owner'[procs'[n].pid] = n
      BY DEF Links
    <2>1. CASE n \in S /\ fork[n] # NoPid
      <3>1. procs'[n].pid = fork[n] /\ fork[n] \in Pids
        BY <1>1, <1>2, <1>3, <2>1
      <3>2. owner'[fork[n]] = CHOOSE m \in S : fork[m] = fork[n]
        BY <1>1, <2>1, <3>1
      <3> QED
        BY <1>2, <2>1, <3>1, <3>2
    <2>2. CASE ~(n \in S /\ fork[n] # NoPid)
      <3>1. procs'[n].pid = procs[n].pid
        BY <1>1, <1>3, <2>2
      <3>2. procs[n].pid \in Pids /\ owner[procs[n].pid] = n
        BY <3>1, Typing DEF Inv, Links
      <3>3. os[procs[n].pid].st # "free"
        BY <3>2 DEF Inv, Unowned
      <3>4. ~ \E m \in S : fork[m] = procs[n].pid
        BY <1>2, <3>2, <3>3 DEF NoPid
      <3> QED
        BY <1>1, <3>1, <3>2, <3>4
    <2> QED
      BY <2>1, <2>2
  <1>8. Unowned'
    BY <1>1, ChildFacts DEF Inv, Unowned
  <1>9. StoppedIsDown'
    BY <1>1, <1>3 DEF Inv, StoppedIsDown
  <1> QED
    BY <1>1, <1>4, <1>5, <1>6, <1>7, <1>8, <1>9

\* startProcess and startAllProcesses.
LEMMA StartRequestInv ==
  ASSUME Inv, StartAll \/ \E n \in Names : StartProcess(n)
  PROVE  Inv'
  <1>1. \E S \in SUBSET Names :
          /\ StartEach(S, procs, os)
          /\ stack' = stack
          /\ asked' \subseteq asked \ S
    BY DEF StartAll, StartProcess
  <1>2. PICK S \in SUBSET Names :
          /\ StartEach(S, procs, os) /\ stack' = stack /\ asked' \subseteq asked \ S
    BY <1>1
  <1>3. procs \in [Names -> Processes] /\ os \in [Pids -> Children]
    BY DEF Inv, TypeOK
  <1>4. /\ procs' \in [Names -> Processes] /\ os' \in [Pids -> Children]
        /\ owner' \in [Pids -> Names \cup {NoName}] /\ fails' \in [Names -> Failures]
        /\ Links' /\ Unowned' /\ StoppedIsDown'
        /\ \A n \in Names \ S : procs'[n] = procs[n]
    BY <1>2, <1>3, StartEachInv
  <1>5. TypeOK'
    BY <1>2, <1>4 DEF Inv, TypeOK
  <1>6. StaysStopped'
    BY <1>2, <1>4 DEF Inv, TypeOK, StaysStopped
  <1> QED
    BY <1>4, <1>5, <1>6 DEF Inv

\* on_timer_: a program that is stopping or stopped is not restarted.
LEMMA OnTimerInv ==
  ASSUME Inv, OnTimer
  PROVE  Inv'
  <1> DEFINE killed == {procs[n].pid : n \in {m \in Names : StopTimedOut(procs[m])}}
             base   == [n \in Names |-> IF HasStarted(procs[n]) THEN MarkRunning(procs[n])
                                                                ELSE procs[n]]
             kernel == [c \in Pids |-> IF c \in killed THEN Signalled(os[c], "KILL")
                                                       ELSE os[c]]
             S      == {n \in Names : RetryDue(procs[n])}
  <1>1. StartEach(S, base, kernel) /\ stack' = stack /\ asked' = asked
    BY DEF OnTimer
  <1>2. base \in [Names -> Processes]
    BY Typing, StopFacts DEF Inv
  <1>3. /\ \A n \in Names : base[n].pid = procs[n].pid
        /\ \A n \in Names : base[n].state = "STOPPED" => procs[n].state = "STOPPED"
    BY Typing, StopFacts DEF Inv
  <1>4. kernel \in [Pids -> Children] /\ \A c \in Pids : kernel[c].st = os[c].st
    <2>1. os \in [Pids -> Children] /\ "KILL" \in SignalNames
      BY DEF Inv, TypeOK, SignalNames
    <2> HIDE DEF killed
    <2> QED
      BY <2>1, SignalledFacts
  <1>5. \A n \in asked : n \in Names \ S /\ base[n] = procs[n]
    BY DEF Inv, TypeOK, StaysStopped, RetryDue, HasStarted
  <1> HIDE DEF base, kernel, S, killed
  <1>6. /\ procs' \in [Names -> Processes] /\ os' \in [Pids -> Children]
        /\ owner' \in [Pids -> Names \cup {NoName}] /\ fails' \in [Names -> Failures]
        /\ Links' /\ Unowned' /\ StoppedIsDown'
        /\ \A n \in Names \ S : procs'[n] = base[n]
    <2>1. PICK T \in SUBSET Names, b \in [Names -> Processes], k \in [Pids -> Children] :
            T = S /\ b = base /\ k = kernel
      BY <1>2, <1>4 DEF S
    <2>2. /\ \A n \in Names : b[n].pid = procs[n].pid
          /\ \A n \in Names : b[n].state = "STOPPED" => procs[n].state = "STOPPED"
          /\ \A c \in Pids : k[c].st = os[c].st
          /\ StartEach(T, b, k)
      BY <1>1, <1>3, <1>4, <2>1
    <2>3. /\ procs' \in [Names -> Processes] /\ os' \in [Pids -> Children]
          /\ owner' \in [Pids -> Names \cup {NoName}] /\ fails' \in [Names -> Failures]
          /\ Links' /\ Unowned' /\ StoppedIsDown'
          /\ \A n \in Names \ T : procs'[n] = b[n]
      BY <2>2, StartEachInv
    <2> QED
      BY <2>1, <2>3
  <1>7. TypeOK'
    BY <1>1, <1>6 DEF Inv, TypeOK
  <1>8. StaysStopped'
    BY <1>1, <1>5, <1>6 DEF Inv, StaysStopped
  <1> QED
    BY <1>6, <1>7, <1>8 DEF Inv

\* What stop() of several programs leaves behind.
LEMMA StopEachInv ==
  ASSUME Inv, NEW S \in SUBSET Names, StopEach(S)
  PROVE  /\ procs' \in [Names -> Processes] /\ os' \in [Pids -> Children]
         /\ owner' \in [Pids -> Names \cup {NoName}] /\ fails' \in [Names -> Failures]
         /\ Links' /\ Unowned' /\ StoppedIsDown'
         /\ \A n \in S : procs'[n].state = "STOPPING"
         /\ \A n \in Names \ S : procs'[n] = procs[n]
  <1>1. /\ procs' = [n \in Names |-> IF n \in S THEN Stop(procs[n]) ELSE procs[n]]
        /\ owner' = owner
        /\ fails' = [n \in Names |-> IF n \in S THEN NoFailure ELSE fails[n]]
    BY DEF StopEach
  <1>2. \A n \in S : /\ Stop(procs[n]) \in Processes
                     /\ Stop(procs[n]).pid = procs[n].pid
                     /\ Stop(procs[n]).state = "STOPPING"
    BY Typing, StopFacts DEF Inv
  <1>3. /\ procs' \in [Names -> Processes]
        /\ \A n \in Names : procs'[n].pid = procs[n].pid
        /\ \A n \in S : procs'[n].state = "STOPPING"
        /\ \A n \in Names \ S : procs'[n] = procs[n]
    BY <1>1, <1>2, Typing DEF Inv
  <1>4. os' \in [Pids -> Children] /\ \A c \in Pids : os'[c].st = os[c].st
    <2>1. \A c \in Pids : \A cfg : /\ Signalled(os[c], StopSignal(cfg)) \in Children
                                   /\ Signalled(os[c], StopSignal(cfg)).st = os[c].st
      BY StopSignalFacts, SignalledFacts DEF Inv, TypeOK
    <2> DEFINE cfg(c) == procs[CHOOSE n \in S : procs[n].pid = c].cfg
    <2>2. os' = [c \in Pids |-> IF \E n \in S : procs[n].pid = c
                                THEN Signalled(os[c], StopSignal(cfg(c))) ELSE os[c]]
      BY DEF StopEach
    <2> HIDE DEF cfg
    <2> QED
      BY <2>1, <2>2 DEF Inv, TypeOK
  <1>5. fails' \in [Names -> Failures]
    BY <1>1, FailureFacts DEF Inv, TypeOK
  <1>6. Links' /\ Unowned' /\ StoppedIsDown'
    BY <1>1, <1>3, <1>4 DEF Inv, Links, Unowned, StoppedIsDown
  <1> QED
    BY <1>1, <1>3, <1>4, <1>5, <1>6 DEF Inv, TypeOK

\* stopProcess and stopAllProcesses, up to their waits.
LEMMA StopRequestInv ==
  ASSUME Inv, StopAll \/ \E n \in Names : StopProcess(n)
  PROVE  Inv'
  <1>1. \E S, A \in SUBSET Names :
          /\ StopEach(S) /\ asked' = asked \cup A
          /\ \A n \in A \ S : procs[n].state = "STOPPED"
          /\ \/ stack' = stack
             \/ \E frame \in Frames : stack' = Append(stack, frame)
    <2>1. CASE StopAll
      <3> DEFINE A == {n \in Names : Running(n)}
                 S == {n \in A : MayStop(procs[n])}
      <3>1. \A n \in A \ S : procs[n].state = "STOPPED"
        BY DEF Running, MayStop
      <3>2. [kind |-> "stopall", left |-> StopAllWait(A)] \in Frames
        BY WaitFacts DEF Inv, Frames
      <3>3. /\ StopEach(S) /\ asked' = asked \cup A
            /\ stack' = IF A = {} THEN stack
                        ELSE Append(stack, [kind |-> "stopall", left |-> StopAllWait(A)])
        BY <2>1 DEF StopAll
      <3> QED
        BY <3>1, <3>2, <3>3
    <2>2. ASSUME NEW m \in Names, StopProcess(m)
          PROVE  \E S, A \in SUBSET Names :
                   /\ StopEach(S) /\ asked' = asked \cup A
                   /\ \A n \in A \ S : procs[n].state = "STOPPED"
                   /\ \/ stack' = stack
                      \/ \E frame \in Frames : stack' = Append(stack, frame)
      <3>1. [kind |-> "stop", name |-> m, left |-> StopWait(procs[m])] \in Frames
        BY WaitFacts DEF Inv, Frames
      <3>2. /\ {m} \in SUBSET Names
            /\ StopEach({m}) /\ asked' = asked \cup {m}
            /\ stack' = Append(stack, [kind |-> "stop", name |-> m, left |-> StopWait(procs[m])])
        BY <2>2 DEF StopProcess
      <3> QED
        BY <3>1, <3>2
    <2> QED
      BY <2>1, <2>2
  <1>2. PICK S, A \in SUBSET Names :
          /\ StopEach(S) /\ asked' = asked \cup A
          /\ \A n \in A \ S : procs[n].state = "STOPPED"
          /\ \/ stack' = stack
             \/ \E frame \in Frames : stack' = Append(stack, frame)
    BY <1>1
  <1>3. /\ procs' \in [Names -> Processes] /\ os' \in [Pids -> Children]
        /\ owner' \in [Pids -> Names \cup {NoName}] /\ fails' \in [Names -> Failures]
        /\ Links' /\ Unowned' /\ StoppedIsDown'
        /\ \A n \in S : procs'[n].state = "STOPPING"
        /\ \A n \in Names \ S : procs'[n] = procs[n]
    BY <1>2, StopEachInv
  <1>4. stack' \in Seq(Frames)
    BY <1>2 DEF Inv, TypeOK
  <1>5. TypeOK'
    BY <1>2, <1>3, <1>4 DEF Inv, TypeOK
  <1>6. StaysStopped'
    BY <1>2, <1>3 DEF Inv, TypeOK, StaysStopped
  <1> QED
    BY <1>3, <1>5, <1>6 DEF Inv

\* The innermost wait is over: what stop_all kills is not STOPPING any more.
LEMMA ReturnInv ==
  ASSUME Inv, Return
  PROVE  Inv'
  <1> DEFINE left == Remaining(stack[Len(stack)])
             dead == {procs[n].pid : n \in left}
  <1>1. left \in SUBSET Names
    BY DEF Remaining
  <1> HIDE DEF left
  <1>2. /\ procs' = [n \in Names |-> IF n \in left THEN Killed(procs[n]) ELSE procs[n]]
        /\ os' = [c \in Pids |-> IF c \in dead THEN Free ELSE os[c]]
        /\ owner' = [c \in Pids |-> IF c \in dead THEN NoName ELSE owner[c]]
        /\ fails' = [n \in Names |-> IF n \in left THEN NoFailure ELSE fails[n]]
        /\ stack # <<>> /\ stack' = SubSeq(stack, 1, Len(stack) - 1)
        /\ asked' = asked
    BY DEF Return, left
  <1>3. \A n \in left : /\ Killed(procs[n]) \in Processes
                        /\ Killed(procs[n]).state = "STOPPED"
                        /\ Killed(procs[n]).pid = NoPid
    BY <1>1, Typing, ExitFacts DEF Inv
  <1>4. procs' \in [Names -> Processes]
    BY <1>2, <1>3, Typing DEF Inv
  <1>5. stack' \in Seq(Frames)
    BY <1>2 DEF Inv, TypeOK
  <1>6. TypeOK'
    <2>1. os' \in [Pids -> Children] /\ owner' \in [Pids -> Names \cup {NoName}]
      BY <1>2, ChildFacts DEF Inv, TypeOK
    <2>2. fails' \in [Names -> Failures]
      BY <1>2, FailureFacts DEF Inv, TypeOK
    <2> QED
      BY <1>2, <1>4, <1>5, <2>1, <2>2 DEF Inv, TypeOK
  <1>7. Links'
    <2> SUFFICES ASSUME NEW n \in Names, procs'[n].pid # NoPid
                 PROVE  owner'[procs'[n].pid] = n
      BY DEF Links
    <2>1. n \notin left /\ procs'[n] = procs[n]
      BY <1>2, <1>3
    <2>2. procs[n].pid \in Pids /\ owner[procs[n].pid] = n
      BY <2>1, Typing DEF Inv, Links
    <2>3. procs[n].pid \notin dead
      <3> SUFFICES ASSUME NEW m \in left, procs[n].pid = procs[m].pid PROVE FALSE
        OBVIOUS
      <3>1. owner[procs[m].pid] = m
        BY <1>1, <2>2, Typing DEF Inv, Links, NoPid
      <3> QED
        BY <2>1, <2>2, <3>1
    <2> QED
      BY <1>2, <2>1, <2>2, <2>3
  <1>8. Unowned'
    BY <1>2 DEF Inv, Unowned
  <1>9. StoppedIsDown' /\ StaysStopped'
    BY <1>2, <1>3 DEF Inv, TypeOK, StoppedIsDown, StaysStopped
  <1> QED
    BY <1>6, <1>7, <1>8, <1>9 DEF Inv

\* handle_sigchld_: a program that was stopped by request becomes STOPPED.
LEMMA HandleSigchldInv ==
  ASSUME Inv, HandleSigchld
  PROVE  Inv'
  <1> DEFINE zombies == {c \in Pids : os[c].st = "zombie"}
             exited  == {n \in Names : procs[n].pid \in zombies}
  <1>1. /\ procs' = [n \in Names |-> IF n \in exited THEN OnExit(procs[n]) ELSE procs[n]]
        /\ os' = [c \in Pids |-> IF c \in zombies THEN Free ELSE os[c]]
        /\ owner' = [c \in Pids |-> IF c \in zombies THEN NoName ELSE owner[c]]
        /\ fails' = [n \in Names |-> IF n \in exited THEN FailureOf("exit", procs'[n])
                                                     ELSE fails[n]]
        /\ stack' = stack /\ asked' = asked
    BY DEF HandleSigchld, Notified
  <1>2. \A n \in exited : /\ OnExit(procs[n]) \in Processes
                          /\ OnExit(procs[n]).pid = NoPid
                          /\ procs[n].state = "STOPPING" => OnExit(procs[n]).state = "STOPPED"
    BY Typing, ExitFacts DEF Inv
  <1>3. exited \in SUBSET Names /\ \A n \in Names \ exited : procs[n].pid \notin zombies
    OBVIOUS
  <1>4. \A n \in exited : procs[n].state # "STOPPED"
    BY DEF Inv, StoppedIsDown, NoPid
  <1>5. zombies \in SUBSET Pids
    OBVIOUS
  <1> HIDE DEF exited, zombies
  <1>6. procs' \in [Names -> Processes]
    BY <1>1, <1>2, Typing DEF Inv
  <1>7. TypeOK'
    <2>1. os' \in [Pids -> Children] /\ owner' \in [Pids -> Names \cup {NoName}]
      BY <1>1, ChildFacts DEF Inv, TypeOK
    <2>2. fails' \in [Names -> Failures]
      BY <1>1, FailureFacts DEF Inv, TypeOK
    <2> QED
      BY <1>1, <1>6, <2>1, <2>2 DEF Inv, TypeOK
  <1>8. Links'
    <2> SUFFICES ASSUME NEW n \in Names, procs'[n].pid # NoPid
                 PROVE  owner'[procs'[n].pid] = n
      BY DEF Links
    <2>1. n \notin exited /\ procs'[n] = procs[n] /\ procs[n].pid \notin zombies
      BY <1>1, <1>2, <1>3
    <2>2. procs[n].pid \in Pids /\ owner[procs[n].pid] = n
      BY <2>1, Typing DEF Inv, Links
    <2> QED
      BY <1>1, <2>1, <2>2
  <1>9. Unowned' /\ StoppedIsDown' /\ StaysStopped'
    BY <1>1, <1>2, <1>4 DEF Inv, TypeOK, Unowned, StoppedIsDown, StaysStopped
  <1> QED
    BY <1>7, <1>8, <1>9 DEF Inv

\* The end of a child is not noticed before SIGCHLD.
LEMMA ChildExitsInv ==
  ASSUME Inv, NEW c \in Pids, ChildExits(c)
  PROVE  Inv'
  <1>1. /\ os' = [os EXCEPT ![c] = [os[c] EXCEPT !.st = "zombie"]]
        /\ procs' = procs /\ owner' = owner /\ fails' = fails
        /\ stack' = stack /\ asked' = asked
    BY DEF ChildExits
  <1>2. /\ [os[c] EXCEPT !.st = "zombie"] \in Children
        /\ [os[c] EXCEPT !.st = "zombie"].st = "zombie"
    BY ChildFacts DEF Inv, TypeOK
  <1>3. os' \in [Pids -> Children] /\ \A d \in Pids : os'[d].st = "free" => os[d].st = "free"
    BY <1>1, <1>2 DEF Inv, TypeOK
  <1> QED
    BY <1>1, <1>3 DEF Inv, TypeOK, Links, Unowned, StoppedIsDown, StaysStopped

\* A second changes clocks only.
LEMMA SecondInv ==
  ASSUME Inv, Second
  PROVE  Inv'
  <1>1. /\ procs' \in [Names -> Processes]
        /\ \A n \in Names : procs'[n].pid = procs[n].pid /\ procs'[n].state = procs[n].state
    BY ElapsedFacts, Typing DEF Inv, Second
  <1>2. os' \in [Pids -> Children] /\ \A c \in Pids : os'[c].st = os[c].st
    BY ChildFacts DEF Inv, TypeOK, Second
  <1>3. fails' \in [Names -> Failures]
    BY FailureFacts DEF Inv, TypeOK, Second
  <1>4. stack' \in Seq(Frames)
    <2>1. \A f \in Frames :
            [f EXCEPT !.left = IF f.left = 0 THEN 0 ELSE f.left - 1] \in Frames
      BY DEF Frames
    <2>2. /\ stack \in Seq(Frames)
          /\ stack' = [i \in DOMAIN stack |->
                         [stack[i] EXCEPT !.left = IF stack[i].left = 0 THEN 0
                                                   ELSE stack[i].left - 1]]
      BY DEF Inv, TypeOK, Second
    <2> QED
      BY <2>1, <2>2
  <1>5. owner' = owner /\ asked' = asked
    BY DEF Second
  <1> QED
    BY <1>1, <1>2, <1>3, <1>4, <1>5
    DEF Inv, TypeOK, Links, Unowned, StoppedIsDown, StaysStopped

\* Every step keeps the invariant.
LEMMA NextInv == Inv /\ [Next]_vars => Inv'
  <1> SUFFICES ASSUME Inv, [Next]_vars PROVE Inv'
    OBVIOUS
  <1>1. CASE StartAll \/ \E n \in Names : StartProcess(n)
    BY <1>1, StartRequestInv
  <1>2. CASE StopAll \/ \E n \in Names : StopProcess(n)
    BY <1>2, StopRequestInv
  <1>3. CASE Return
    BY <1>3, ReturnInv
  <1>4. CASE OnTimer
    BY <1>4, OnTimerInv
  <1>5. CASE HandleSigchld
    BY <1>5, HandleSigchldInv
  <1>6. CASE \E c \in Pids : ChildExits(c)
    BY <1>6, ChildExitsInv
  <1>7. CASE Second
    BY <1>7, SecondInv
  <1>8. CASE UNCHANGED vars
    BY <1>8 DEF vars, Inv, TypeOK, Links, Unowned, StoppedIsDown, StaysStopped, Running
  <1> QED
    BY <1>1, <1>2, <1>3, <1>4, <1>5, <1>6, <1>7, <1>8 DEF Next

-----------------------------------------------------------------------------
(***************************************************************************)
(* The theorems about the objects.                                         *)
(***************************************************************************)

\* The invariant holds in every reachable state: the map and the kernel agree about
\* whose child is whose, however requests, timer and exits are interleaved.
THEOREM Safety == Spec => []Inv
  <1> QED
    BY InitInv, NextInv, PTL DEF Spec

\* The manager's state is well typed; in particular every wait has a deadline.
THEOREM ManagerTypeCorrect == Spec => []TypeOK
  <1>1. Inv => TypeOK
    BY DEF Inv
  <1> QED
    BY <1>1, Safety, PTL

\* handle_sigchld_ finds at most one program for a process id, for any number of
\* programs.
THEOREM ChildrenAreNotShared == Spec => []NoSharedChild
  <1>1. Inv => NoSharedChild
    <2> SUFFICES ASSUME Inv, NEW m \in Names, NEW n \in Names, m # n, Running(m),
                        procs[m].pid = procs[n].pid
                 PROVE  FALSE
      BY DEF NoSharedChild
    <2>1. procs[m].pid # NoPid
      BY Typing DEF Inv, Running
    <2> QED
      BY <2>1 DEF Inv, Links
  <1> QED
    BY <1>1, Safety, PTL

\* Neither the timer nor an exit brings up a program that was stopped by request.
THEOREM StopIsFinal == Spec => []StaysStopped
  <1>1. Inv => StaysStopped
    BY DEF Inv
  <1> QED
    BY <1>1, Safety, PTL

-----------------------------------------------------------------------------
(***************************************************************************)
(* The manager implements Process for each of its programs.  What belongs  *)
(* to one program does not concern the others because every child is owned *)
(* by the program whose pid_ it is (Links), and a process id that fork     *)
(* returns was owned by nobody (Unowned).                                  *)
(***************************************************************************)

\* The kernel as one program sees it: only the children forked for it.
View(n) == [c \in Pids |-> IF owner[c] = n THEN os[c] ELSE Free]

\* The instance of Process works with the manager's own operators.
LEMMA SameOps ==
  ASSUME NEW n
  PROVE  /\ \A p, c : Proc(n)!Start(p, c) = Start(p, c)
         /\ \A p : /\ Proc(n)!Stop(p) = Stop(p)
                   /\ Proc(n)!Killed(p) = Killed(p)
                   /\ Proc(n)!OnExit(p) = OnExit(p)
                   /\ Proc(n)!MarkRunning(p) = MarkRunning(p)
                   /\ Proc(n)!MayStart(p) <=> MayStart(p)
                   /\ Proc(n)!MayStop(p) <=> MayStop(p)
                   /\ Proc(n)!HasStarted(p) <=> HasStarted(p)
                   /\ Proc(n)!StopTimedOut(p) <=> StopTimedOut(p)
                   /\ Proc(n)!RetryDue(p) <=> RetryDue(p)
         /\ \A k, p : Proc(n)!FailureOf(k, p) = FailureOf(k, p)
         /\ \A c, s : Proc(n)!Signalled(c, s) = Signalled(c, s)
         /\ \A cfg : Proc(n)!StopSignal(cfg) = StopSignal(cfg)
         /\ \A cfg : Proc(n)!Created(cfg) = Created(cfg)
         /\ \A c : Proc(n)!Aged(c) = Aged(c)
         /\ \A t : Proc(n)!Ticked(t) = Ticked(t)
         /\ \A f : Proc(n)!FailureTicked(f) = FailureTicked(f)
         /\ Proc(n)!Free = Free /\ Proc(n)!NewChild = NewChild
         /\ Proc(n)!NoPid = NoPid /\ Proc(n)!NoFailure = NoFailure
  <1>1. \A p, c : Proc(n)!Start(p, c) = Start(p, c)
    BY DEF Proc!Start, Start, Proc!AttemptFailed, AttemptFailed, Proc!SetState, SetState,
       Proc!NoPid, NoPid
  <1>2. \A p : /\ Proc(n)!Stop(p) = Stop(p)
               /\ Proc(n)!Killed(p) = Killed(p)
               /\ Proc(n)!MarkRunning(p) = MarkRunning(p)
    BY DEF Proc!Stop, Stop, Proc!Killed, Killed, Proc!MarkRunning, MarkRunning,
       Proc!SetState, SetState, Proc!NoPid, NoPid
  <1>3. \A p : Proc(n)!OnExit(p) = OnExit(p)
    BY DEF Proc!OnExit, OnExit, Proc!AttemptFailed, AttemptFailed, Proc!SetState, SetState,
       Proc!NoPid, NoPid
  <1>4. \A p : /\ Proc(n)!MayStart(p) <=> MayStart(p)
               /\ Proc(n)!MayStop(p) <=> MayStop(p)
               /\ Proc(n)!HasStarted(p) <=> HasStarted(p)
               /\ Proc(n)!StopTimedOut(p) <=> StopTimedOut(p)
    BY DEF Proc!MayStart, MayStart, Proc!MayStop, MayStop, Proc!HasStarted, HasStarted,
       Proc!StopTimedOut, StopTimedOut
  <1>5. \A p : Proc(n)!RetryDue(p) <=> RetryDue(p)
    BY DEF Proc!RetryDue, RetryDue, Proc!BackoffDelays, BackoffDelays, Proc!ShiftOne, ShiftOne
  <1>6. /\ \A k, p : Proc(n)!FailureOf(k, p) = FailureOf(k, p)
        /\ \A c, s : Proc(n)!Signalled(c, s) = Signalled(c, s)
        /\ \A cfg : Proc(n)!StopSignal(cfg) = StopSignal(cfg)
    BY DEF Proc!FailureOf, FailureOf, Proc!NoFailure, NoFailure, Proc!Signalled, Signalled,
       Proc!StopSignal, StopSignal
  <1>7. /\ \A cfg : Proc(n)!Created(cfg) = Created(cfg)
        /\ \A t : Proc(n)!Ticked(t) = Ticked(t)
        /\ \A c : Proc(n)!Aged(c) = Aged(c)
        /\ \A f : Proc(n)!FailureTicked(f) = FailureTicked(f)
        /\ Proc(n)!Free = Free /\ Proc(n)!NewChild = NewChild
        /\ Proc(n)!NoPid = NoPid /\ Proc(n)!NoFailure = NoFailure
    BY DEF Proc!Created, Created, Proc!Ticked, Ticked, Proc!Aged, Aged, Proc!FailureTicked, FailureTicked,
       Proc!Free, Free, Proc!NewChild, NewChild, Proc!NoPid, NoPid, Proc!NoFailure, NoFailure
  <1> QED
    BY <1>1, <1>2, <1>3, <1>4, <1>5, <1>6, <1>7

\* The steps of one program, written on the manager's variables.
OneStart(n, child) ==
  /\ child \in {c \in Pids : View(n)[c].st = "free"} \cup {NoPid}
  /\ procs'[n] = Start(procs[n], child)
  /\ child = NoPid => fails'[n] = FailureOf("spawn", procs'[n]) /\ View(n)' = View(n)
  /\ child # NoPid => fails'[n] = NoFailure /\ View(n)' = [View(n) EXCEPT ![child] = NewChild]

\* A start request or a due retry, on the variables of the manager, is one of Process.
LEMMA StartStep ==
  ASSUME NEW n \in Names, NEW child, OneStart(n, child),
         \/ MayStart(procs[n]) /\ procs[n].retry_count < MaxRetry
         \/ RetryDue(procs[n])
  PROVE  Proc(n)!Next
  <1>1. Proc(n)!DoStart
    <2>1. child \in Proc(n)!SpawnResults
      BY SameOps DEF Proc!SpawnResults, OneStart, View
    <2>2. /\ procs'[n] = Proc(n)!Start(procs[n], child)
          /\ child = Proc(n)!NoPid => /\ fails'[n] = Proc(n)!FailureOf("spawn", procs'[n])
                                      /\ View(n)' = View(n)
          /\ child # Proc(n)!NoPid => /\ fails'[n] = Proc(n)!NoFailure
                                      /\ View(n)' = [View(n) EXCEPT ![child] = Proc(n)!NewChild]
      BY SameOps DEF OneStart
    <2> QED
      BY <2>1, <2>2, Zenon DEF Proc!DoStart, View
  <1> QED
    BY <1>1, SameOps, Zenon DEF Proc!Next, Proc!CallStart, Proc!NextButStart,
       Proc!OnTimer, Proc!UpdateBackoff

\* A stop request.
LEMMA StopStep ==
  ASSUME NEW n \in Names, MayStop(procs[n]), procs'[n] = Stop(procs[n]),
         View(n)' = [View(n) EXCEPT ![procs[n].pid] = Signalled(@, StopSignal(procs[n].cfg))],
         fails'[n] = NoFailure
  PROVE  Proc(n)!Next
  <1>1. Proc(n)!CallStop
    <2>1. Proc(n)!Signalled(View(n)[procs[n].pid], Proc(n)!StopSignal(procs[n].cfg))
            = Signalled(View(n)[procs[n].pid], StopSignal(procs[n].cfg))
      BY SameOps
    <2>2. View(n)' = [View(n) EXCEPT ![procs[n].pid] =
                        Proc(n)!Signalled(@, Proc(n)!StopSignal(procs[n].cfg))]
      BY <2>1, Zenon
    <2> QED
      BY <2>2, SameOps, Zenon DEF Proc!CallStop, View
  <1> QED
    BY <1>1, Zenon DEF Proc!Next, Proc!NextButStart

\* kill() at the end of stop_all.
LEMMA KillStep ==
  ASSUME NEW n \in Names, procs[n].pid > 0, procs'[n] = Killed(procs[n]),
         View(n)' = [View(n) EXCEPT ![procs[n].pid] = Free],
         fails'[n] = NoFailure
  PROVE  Proc(n)!Next
  BY SameOps, Zenon DEF Proc!Next, Proc!NextButStart, Proc!CallKill, View

\* update() of a program that stayed up for startsecs.
LEMMA StartedStep ==
  ASSUME NEW n \in Names, HasStarted(procs[n]), procs'[n] = MarkRunning(procs[n]),
         View(n)' = View(n), fails'[n] = fails[n]
  PROVE  Proc(n)!Next
  BY SameOps, Zenon DEF Proc!Next, Proc!NextButStart, Proc!OnTimer, Proc!UpdateStarting, View

\* update() of a program that outlived stopwaitsecs.
LEMMA TimedOutStep ==
  ASSUME NEW n \in Names, StopTimedOut(procs[n]), procs'[n] = procs[n],
         View(n)' = [View(n) EXCEPT ![procs[n].pid] = Signalled(@, "KILL")],
         fails'[n] = fails[n]
  PROVE  Proc(n)!Next
  <1>1. Proc(n)!UpdateStopping
    <2>1. Proc(n)!Signalled(View(n)[procs[n].pid], "KILL")
            = Signalled(View(n)[procs[n].pid], "KILL")
      BY SameOps
    <2>2. View(n)' = [View(n) EXCEPT ![procs[n].pid] = Proc(n)!Signalled(@, "KILL")]
      BY <2>1, Zenon
    <2> QED
      BY <2>2, SameOps, Zenon DEF Proc!UpdateStopping, View
  <1> QED
    BY <1>1, Zenon DEF Proc!Next, Proc!NextButStart, Proc!OnTimer

\* The zombies of one program are reaped.
LEMMA ReapStep ==
  ASSUME NEW n \in Names,
         NEW Z, Z = {c \in Pids : View(n)[c].st = "zombie"}, Z # {},
         View(n)' = [c \in Pids |-> IF c \in Z THEN Free ELSE View(n)[c]],
         IF procs[n].pid \in Z
         THEN procs'[n] = OnExit(procs[n]) /\ fails'[n] = FailureOf("exit", procs'[n])
         ELSE procs'[n] = procs[n] /\ fails'[n] = fails[n]
  PROVE  Proc(n)!Next
  <1>1. Proc(n)!HandleSigchld
    <2>1. View(n)' = [c \in Pids |-> IF c \in Z THEN Proc(n)!Free ELSE View(n)[c]]
      BY SameOps
    <2>2. IF procs[n].pid \in Z
          THEN /\ procs'[n] = Proc(n)!OnExit(procs[n])
               /\ fails'[n] = Proc(n)!FailureOf("exit", procs'[n])
          ELSE procs'[n] = procs[n] /\ fails'[n] = fails[n]
      BY SameOps
    <2> QED
      BY <2>1, <2>2, Zenon DEF Proc!HandleSigchld, View
  <1> QED
    BY <1>1, Zenon DEF Proc!Next, Proc!NextButStart

\* A child of the program ends.
LEMMA ExitStep ==
  ASSUME NEW n \in Names, NEW c \in Pids, View(n)[c].st = "alive",
         View(n)' = [View(n) EXCEPT ![c].st = "zombie"],
         procs'[n] = procs[n], fails'[n] = fails[n]
  PROVE  Proc(n)!Next
  BY SameOps, Zenon DEF Proc!Next, Proc!NextButStart, Proc!ChildExits, View

\* A second passes for the program.
LEMMA SecondStep ==
  ASSUME NEW n \in Names,
         View(n)' = [c \in Pids |-> Aged(View(n)[c])],
         procs'[n] = [procs[n] EXCEPT !.elapsed = Ticked(@)],
         fails'[n] = FailureTicked(fails[n])
  PROVE  Proc(n)!Next
  <1>1. Proc(n)!Second
    BY SameOps DEF Proc!Second, View
  <1> QED
    BY <1>1, Zenon DEF Proc!Next, Proc!NextButStart

\* Nothing the program sees changes.
LEMMA StutterStep ==
  ASSUME NEW n \in Names, View(n)' = View(n), procs'[n] = procs[n], fails'[n] = fails[n]
  PROVE  UNCHANGED Proc(n)!vars
  BY DEF Proc!vars, View

\* What one program sees of a handler that starts several.
LEMMA StartEachView ==
  ASSUME Inv,
         NEW S \in SUBSET Names, NEW base, NEW kernel, StartEach(S, base, kernel),
         NEW n \in Names, NEW K,
         K = [c \in Pids |-> IF owner[c] = n THEN kernel[c] ELSE Free]
  PROVE  /\ n \notin S => procs'[n] = base[n] /\ View(n)' = K /\ fails'[n] = fails[n]
         /\ n \in S => \E child \in {c \in Pids : K[c].st = "free"} \cup {NoPid} :
              /\ procs'[n] = Start(base[n], child)
              /\ child = NoPid => fails'[n] = FailureOf("spawn", procs'[n]) /\ View(n)' = K
              /\ child # NoPid => /\ fails'[n] = NoFailure
                                  /\ View(n)' = [K EXCEPT ![child] = NewChild]
  <1>1. PICK fork \in Forks(S) :
          /\ procs' = [m \in Names |-> IF m \in S THEN Start(base[m], fork[m]) ELSE base[m]]
          /\ os' = [c \in Pids |-> IF \E m \in S : fork[m] = c THEN NewChild ELSE kernel[c]]
          /\ owner' = [c \in Pids |-> IF \E m \in S : fork[m] = c
                                      THEN CHOOSE m \in S : fork[m] = c ELSE owner[c]]
          /\ fails' = [m \in Names |->
               IF m \notin S THEN fails[m]
               ELSE IF fork[m] = NoPid THEN FailureOf("spawn", procs'[m]) ELSE NoFailure]
    BY DEF StartEach
  <1>2. /\ fork \in [S -> Pids \cup {NoPid}]
        /\ \A m \in S : fork[m] # NoPid => fork[m] \in Pids /\ os[fork[m]].st = "free"
        /\ \A l, m \in S : l # m /\ fork[l] # NoPid => fork[l] # fork[m]
    BY DEF Forks
  <1>3. \A m \in S : fork[m] # NoPid => owner[fork[m]] # n /\ K[fork[m]] = Free
    BY <1>2 DEF Inv, Unowned
  <1>4. \A c \in Pids : \A m \in S : fork[m] = c => owner'[c] = m
    BY <1>1, <1>2 DEF NoPid
  <1>5. ASSUME NEW c \in Pids
        PROVE  View(n)'[c] = IF n \in S /\ fork[n] = c THEN NewChild ELSE K[c]
    <2>1. View(n)'[c] = IF owner'[c] = n THEN os'[c] ELSE Free
      BY DEF View
    <2>2. CASE \E m \in S : fork[m] = c
      <3>1. PICK m \in S : fork[m] = c
        BY <2>2
      <3>2. c # NoPid /\ os'[c] = NewChild /\ owner'[c] = m /\ K[c] = Free
        BY <1>1, <1>3, <1>4, <3>1 DEF NoPid
      <3>3. n \in S /\ fork[n] = c <=> m = n
        BY <1>2, <3>1, <3>2
      <3> QED
        BY <2>1, <3>2, <3>3
    <2>3. CASE ~ \E m \in S : fork[m] = c
      BY <1>1, <2>1, <2>3
    <2> QED
      BY <2>2, <2>3
  <1>6. n \notin S \/ fork[n] = NoPid => View(n)' = K
    <2>1. View(n)' = [c \in Pids |-> View(n)'[c]]
      BY DEF View
    <2> QED
      BY <1>5, <2>1 DEF NoPid
  <1>7. n \in S /\ fork[n] # NoPid => View(n)' = [K EXCEPT ![fork[n]] = NewChild]
    <2>1. View(n)' = [c \in Pids |-> View(n)'[c]]
      BY DEF View
    <2>2. K = [c \in Pids |-> K[c]]
      OBVIOUS
    <2>3. n \in S /\ fork[n] # NoPid =>
            [K EXCEPT ![fork[n]] = NewChild]
              = [c \in Pids |-> IF c = fork[n] THEN NewChild ELSE K[c]]
      BY <2>2
    <2> QED
      BY <1>5, <2>1, <2>3
  <1>8. n \in S => /\ fork[n] \in {c \in Pids : K[c].st = "free"} \cup {NoPid}
                   /\ procs'[n] = Start(base[n], fork[n])
                   /\ fork[n] = NoPid => fails'[n] = FailureOf("spawn", procs'[n])
                   /\ fork[n] # NoPid => fails'[n] = NoFailure
    BY <1>1, <1>2, <1>3, ChildFacts
  <1>9. n \notin S => procs'[n] = base[n] /\ fails'[n] = fails[n]
    BY <1>1
  <1> QED
    BY <1>6, <1>7, <1>8, <1>9

\* startProcess and startAllProcesses.
LEMMA StartRequestView ==
  ASSUME Inv, StartAll \/ \E m \in Names : StartProcess(m), NEW n \in Names
  PROVE  Proc(n)!Next \/ UNCHANGED Proc(n)!vars
  <1>1. PICK S \in SUBSET Names :
          /\ StartEach(S, procs, os)
          /\ \A m \in S : MayStart(procs[m]) /\ procs[m].retry_count < MaxRetry
    BY DEF StartAll, StartProcess
  <1>2. View(n) = [c \in Pids |-> IF owner[c] = n THEN os[c] ELSE Free]
    BY DEF View
  <1>3. PICK K, b, k : K = View(n) /\ b = procs /\ k = os
    OBVIOUS
  <1>4. /\ n \notin S => procs'[n] = b[n] /\ View(n)' = K /\ fails'[n] = fails[n]
        /\ n \in S => \E child \in {c \in Pids : K[c].st = "free"} \cup {NoPid} :
             /\ procs'[n] = Start(b[n], child)
             /\ child = NoPid => fails'[n] = FailureOf("spawn", procs'[n]) /\ View(n)' = K
             /\ child # NoPid => /\ fails'[n] = NoFailure
                                 /\ View(n)' = [K EXCEPT ![child] = NewChild]
    <2>1. StartEach(S, b, k) /\ K = [c \in Pids |-> IF owner[c] = n THEN k[c] ELSE Free]
      BY <1>1, <1>2, <1>3
    <2> QED
      BY <2>1, StartEachView
  <1>5. CASE n \in S
    <2>1. \E child : OneStart(n, child)
      BY <1>3, <1>4, <1>5 DEF OneStart
    <2> QED
      BY <1>1, <1>5, <2>1, StartStep
  <1>6. CASE n \notin S
    BY <1>3, <1>4, <1>6, StutterStep
  <1> QED
    BY <1>5, <1>6

\* on_timer_: update() of one program concerns no child of another.
LEMMA OnTimerView ==
  ASSUME Inv, OnTimer, NEW n \in Names
  PROVE  Proc(n)!Next \/ UNCHANGED Proc(n)!vars
  <1> DEFINE killed == {procs[m].pid : m \in {l \in Names : StopTimedOut(procs[l])}}
             base   == [m \in Names |-> IF HasStarted(procs[m]) THEN MarkRunning(procs[m])
                                                                ELSE procs[m]]
             kernel == [c \in Pids |-> IF c \in killed THEN Signalled(os[c], "KILL")
                                                       ELSE os[c]]
             S      == {m \in Names : RetryDue(procs[m])}
             V      == [c \in Pids |-> IF owner[c] = n THEN kernel[c] ELSE Free]
  <1>1. StartEach(S, base, kernel)
    BY DEF OnTimer
  <1>2. \A c \in Pids : owner[c] = n /\ c \in killed
                          => StopTimedOut(procs[n]) /\ procs[n].pid = c
    BY DEF Inv, Links, NoPid
  <1>3. StopTimedOut(procs[n]) /\ procs[n].pid \in Pids
          => owner[procs[n].pid] = n /\ procs[n].pid \in killed
    BY DEF Inv, Links, NoPid
  <1>4. ~StopTimedOut(procs[n]) => V = View(n)
    BY <1>2 DEF View
  <1>5. StopTimedOut(procs[n]) =>
          V = [View(n) EXCEPT ![procs[n].pid] = Signalled(@, "KILL")]
    <2> HIDE DEF killed
    <2> QED
      BY <1>2, <1>3 DEF View
  <1>6. /\ n \in S <=> RetryDue(procs[n])
        /\ base[n] = IF HasStarted(procs[n]) THEN MarkRunning(procs[n]) ELSE procs[n]
    OBVIOUS
  <1>7. /\ ~(HasStarted(procs[n]) /\ StopTimedOut(procs[n]))
        /\ ~(RetryDue(procs[n]) /\ StopTimedOut(procs[n]))
        /\ ~(RetryDue(procs[n]) /\ HasStarted(procs[n]))
    BY DEF HasStarted, StopTimedOut, RetryDue
  <1>8. PICK T, b, k, K : T = S /\ b = base /\ k = kernel /\ K = V
    OBVIOUS
  <1>9. /\ T \in SUBSET Names
        /\ StartEach(T, b, k) /\ K = [c \in Pids |-> IF owner[c] = n THEN k[c] ELSE Free]
    <2>1. S \in SUBSET Names
      OBVIOUS
    <2> HIDE DEF base, kernel, S
    <2> QED
      BY <1>1, <1>8, <2>1
  <1>10. /\ n \notin T => procs'[n] = b[n] /\ View(n)' = K /\ fails'[n] = fails[n]
         /\ n \in T => \E child \in {c \in Pids : K[c].st = "free"} \cup {NoPid} :
              /\ procs'[n] = Start(b[n], child)
              /\ child = NoPid => fails'[n] = FailureOf("spawn", procs'[n]) /\ View(n)' = K
              /\ child # NoPid => /\ fails'[n] = NoFailure
                                  /\ View(n)' = [K EXCEPT ![child] = NewChild]
    BY <1>9, StartEachView
  <1> HIDE DEF killed, base, kernel, S, V
  <1>11. CASE RetryDue(procs[n])
    <2>1. \E child : OneStart(n, child)
      BY <1>4, <1>6, <1>7, <1>8, <1>10, <1>11 DEF OneStart
    <2> QED
      BY <1>11, <2>1, StartStep
  <1>12. CASE HasStarted(procs[n])
    BY <1>4, <1>6, <1>7, <1>8, <1>10, <1>12, StartedStep
  <1>13. CASE StopTimedOut(procs[n])
    BY <1>5, <1>6, <1>7, <1>8, <1>10, <1>13, TimedOutStep
  <1>14. CASE ~RetryDue(procs[n]) /\ ~HasStarted(procs[n]) /\ ~StopTimedOut(procs[n])
    BY <1>4, <1>6, <1>8, <1>10, <1>14, StutterStep
  <1> QED
    BY <1>11, <1>12, <1>13, <1>14

\* stop() of several programs.
LEMMA StopRequestView ==
  ASSUME Inv, StopAll \/ \E m \in Names : StopProcess(m), NEW n \in Names
  PROVE  Proc(n)!Next \/ UNCHANGED Proc(n)!vars
  <1>1. PICK S \in SUBSET Names : StopEach(S) /\ \A m \in S : MayStop(procs[m])
    <2>1. CASE StopAll
      <3> DEFINE S == {m \in {l \in Names : Running(l)} : MayStop(procs[m])}
      <3>1. StopEach(S)
        BY <2>1 DEF StopAll
      <3> QED
        BY <3>1
    <2>2. CASE \E m \in Names : StopProcess(m)
      BY <2>2 DEF StopProcess
    <2> QED
      BY <2>1, <2>2
  <1>2. /\ procs' = [m \in Names |-> IF m \in S THEN Stop(procs[m]) ELSE procs[m]]
        /\ os' = [c \in Pids |->
             IF \E m \in S : procs[m].pid = c
             THEN Signalled(os[c], StopSignal(procs[CHOOSE m \in S : procs[m].pid = c].cfg))
             ELSE os[c]]
        /\ fails' = [m \in Names |-> IF m \in S THEN NoFailure ELSE fails[m]]
        /\ owner' = owner
    BY <1>1 DEF StopEach
  <1>3. \A c \in Pids, m \in S : procs[m].pid = c => owner[c] = m
    BY DEF Inv, Links, NoPid
  <1>4. CASE n \in S
    <2>1. MayStop(procs[n]) /\ procs[n].pid \in Pids
      BY <1>1, <1>4, Typing DEF Inv, MayStop
    <2>2. os'[procs[n].pid] = Signalled(os[procs[n].pid], StopSignal(procs[n].cfg))
      <3>1. (CHOOSE m \in S : procs[m].pid = procs[n].pid) = n
        BY <1>3, <1>4, <2>1
      <3> QED
        BY <1>2, <1>4, <2>1, <3>1
    <2>3. \A c \in Pids : owner[c] = n /\ c # procs[n].pid => os'[c] = os[c]
      BY <1>2, <1>3
    <2>4. View(n)' = [View(n) EXCEPT ![procs[n].pid] = Signalled(@, StopSignal(procs[n].cfg))]
      BY <1>2, <1>3, <1>4, <2>1, <2>2, <2>3 DEF View
    <2> QED
      BY <1>2, <1>4, <2>1, <2>4, StopStep
  <1>5. CASE n \notin S
    <2>1. \A c \in Pids : owner[c] = n => os'[c] = os[c]
      BY <1>2, <1>3, <1>5
    <2>2. View(n)' = View(n)
      BY <1>2, <2>1 DEF View
    <2> QED
      BY <1>2, <1>5, <2>2, StutterStep
  <1> QED
    BY <1>4, <1>5

\* A wait is over: kill() of each program that is left.
LEMMA ReturnView ==
  ASSUME Inv, Return, NEW n \in Names
  PROVE  Proc(n)!Next \/ UNCHANGED Proc(n)!vars
  <1> DEFINE left == Remaining(stack[Len(stack)])
             dead == {procs[m].pid : m \in left}
  <1>1. left \in SUBSET Names /\ \A m \in left : procs[m].pid > 0
    BY DEF Remaining, Running
  <1>2. /\ procs' = [m \in Names |-> IF m \in left THEN Killed(procs[m]) ELSE procs[m]]
        /\ os' = [c \in Pids |-> IF c \in dead THEN Free ELSE os[c]]
        /\ owner' = [c \in Pids |-> IF c \in dead THEN NoName ELSE owner[c]]
        /\ fails' = [m \in Names |-> IF m \in left THEN NoFailure ELSE fails[m]]
    BY DEF Return
  <1> HIDE DEF left
  <1>3. \A c \in Pids : c \in dead /\ owner[c] = n => n \in left /\ procs[n].pid = c
    BY <1>1 DEF Inv, Links, NoPid
  <1>4. CASE n \in left
    <2>1. procs[n].pid \in Pids /\ owner[procs[n].pid] = n /\ procs[n].pid \in dead
      BY <1>1, <1>4, Typing DEF Inv, Links
    <2>2. View(n)' = [View(n) EXCEPT ![procs[n].pid] = Free]
      <3> HIDE DEF dead
      <3> QED
        BY <1>2, <1>3, <2>1 DEF View
    <2> QED
      BY <1>1, <1>2, <1>4, <2>2, KillStep
  <1>5. CASE n \notin left
    <2>1. View(n)' = View(n)
      <3> HIDE DEF dead
      <3> QED
        BY <1>2, <1>3, <1>5 DEF View
    <2> QED
      BY <1>2, <1>5, <2>1, StutterStep
  <1> QED
    BY <1>4, <1>5

\* handle_sigchld_: the zombies of other programs are nothing to this one.
LEMMA HandleSigchldView ==
  ASSUME Inv, HandleSigchld, NEW n \in Names
  PROVE  Proc(n)!Next \/ UNCHANGED Proc(n)!vars
  <1> DEFINE zombies == {c \in Pids : os[c].st = "zombie"}
             Z       == {c \in Pids : View(n)[c].st = "zombie"}
  <1>1. /\ procs' = [m \in Names |-> IF procs[m].pid \in zombies THEN OnExit(procs[m])
                                                                 ELSE procs[m]]
        /\ os' = [c \in Pids |-> IF c \in zombies THEN Free ELSE os[c]]
        /\ owner' = [c \in Pids |-> IF c \in zombies THEN NoName ELSE owner[c]]
        /\ fails' = [m \in Names |-> IF procs[m].pid \in zombies
                                     THEN FailureOf("exit", procs'[m]) ELSE fails[m]]
    BY DEF HandleSigchld, Notified
  <1>2. \A c \in Pids : c \in Z <=> c \in zombies /\ owner[c] = n
    BY ChildFacts DEF View
  <1>3. procs[n].pid \in zombies <=> procs[n].pid \in Z
    <2>1. procs[n].pid \in Pids => owner[procs[n].pid] = n
      BY DEF Inv, Links, NoPid
    <2> QED
      BY <1>2, <2>1
  <1>4. View(n)' = [c \in Pids |-> IF c \in Z THEN Free ELSE View(n)[c]]
    <2> HIDE DEF zombies, Z
    <2> QED
      BY <1>1, <1>2 DEF View
  <1>5. CASE Z = {}
    <2>1. View(n)' = View(n)
      BY <1>4, <1>5 DEF View
    <2> QED
      BY <1>1, <1>3, <1>5, <2>1, StutterStep
  <1>6. CASE Z # {}
    <2>1. PICK zs : zs = Z
      OBVIOUS
    <2>2. IF procs[n].pid \in zs
          THEN procs'[n] = OnExit(procs[n]) /\ fails'[n] = FailureOf("exit", procs'[n])
          ELSE procs'[n] = procs[n] /\ fails'[n] = fails[n]
      BY <1>1, <1>3, <2>1
    <2>3. /\ zs # {} /\ zs = {c \in Pids : View(n)[c].st = "zombie"}
          /\ View(n)' = [c \in Pids |-> IF c \in zs THEN Free ELSE View(n)[c]]
      BY <1>4, <1>6, <2>1
    <2> QED
      BY <2>2, <2>3, ReapStep
  <1> QED
    BY <1>5, <1>6

\* A child of this program ends, or one of another.
LEMMA ChildExitsView ==
  ASSUME Inv, NEW c \in Pids, ChildExits(c), NEW n \in Names
  PROVE  Proc(n)!Next \/ UNCHANGED Proc(n)!vars
  <1>1. /\ procs' = procs /\ fails' = fails /\ owner' = owner
        /\ os[c].st = "alive" /\ os' = [os EXCEPT ![c].st = "zombie"]
        /\ os \in [Pids -> Children]
    BY DEF ChildExits, Inv, TypeOK
  <1>2. CASE owner[c] = n
    <2>1. View(n)[c] = os[c]
      BY <1>2 DEF View
    <2>2. View(n)' = [View(n) EXCEPT ![c].st = "zombie"]
      BY <1>1, <1>2 DEF View
    <2> QED
      BY <1>1, <2>1, <2>2, ExitStep
  <1>3. CASE owner[c] # n
    <2>1. View(n)' = View(n)
      BY <1>1, <1>3 DEF View
    <2> QED
      BY <1>1, <2>1, StutterStep
  <1> QED
    BY <1>2, <1>3

\* A second passes.
LEMMA SecondView ==
  ASSUME Inv, Second, NEW n \in Names
  PROVE  Proc(n)!Next
  <1>1. /\ procs'[n] = [procs[n] EXCEPT !.elapsed = Ticked(@)]
        /\ fails'[n] = FailureTicked(fails[n])
        /\ os' = [c \in Pids |-> Aged(os[c])]
        /\ owner' = owner
    BY DEF Second
  <1>2. View(n)' = [c \in Pids |-> Aged(View(n)[c])]
    <2>1. Aged(Free) = Free
      BY DEF Aged, Free
    <2> QED
      BY <1>1, <2>1 DEF View
  <1> QED
    BY <1>1, <1>2, SecondStep

\* Each step of the manager is a step of each program's Process, or none.
LEMMA NextView ==
  ASSUME Inv, [Next]_vars, NEW n \in Names
  PROVE  [Proc(n)!Next]_(Proc(n)!vars)
  <1>1. CASE UNCHANGED vars
    <2>1. View(n)' = View(n) /\ procs'[n] = procs[n] /\ fails'[n] = fails[n]
      BY <1>1 DEF vars, View
    <2> QED
      BY <2>1, StutterStep
  <1>2. CASE Next
    BY <1>2, StartRequestView, StopRequestView, ReturnView, OnTimerView, HandleSigchldView,
       ChildExitsView, SecondView DEF Next
  <1> QED
    BY <1>1, <1>2

\* A program that was just created is in Process's initial state.
LEMMA InitView ==
  ASSUME Init, NEW n \in Names
  PROVE  Proc(n)!Init
  <1>1. PICK cfg \in Configs : procs[n] = Created(cfg)
    BY DEF Init
  <1>2. Proc(n)!Created(cfg) = Created(cfg)
    BY SameOps
  <1>3. procs[n] \in {Proc(n)!Created(d) : d \in Configs}
    BY <1>1, <1>2
  <1>4. View(n) = [c \in Pids |-> Proc(n)!Free] /\ fails[n] = Proc(n)!NoFailure
    BY SameOps DEF Init, View
  <1> QED
    BY <1>3, <1>4, Zenon DEF Proc!Init, View

\* The manager implements Process for each of its programs.
THEOREM Refinement == ASSUME NEW n \in Names PROVE Spec => Proc(n)!Spec
  <1>1. Init => Proc(n)!Init
    BY InitView
  <1>2. Inv /\ [Next]_vars => [Proc(n)!Next]_(Proc(n)!vars)
    BY NextView
  <1> QED
    BY <1>1, <1>2, Safety, PTL DEF Spec, Proc!Spec

\* The same, for all programs at once.
THEOREM ProgramsAreProcesses == Spec => EachProgramIsAProcess
  <1>1. Init => \A n \in Names : Proc(n)!Init
    BY InitView
  <1>2. Inv /\ [Next]_vars => [\A n \in Names : [Proc(n)!Next]_(Proc(n)!vars)]_vars
    BY NextView
  <1> QED
    BY <1>1, <1>2, Safety, PTL DEF Spec, EachProgramIsAProcess

-----------------------------------------------------------------------------
(***************************************************************************)
(* What the manager has done about every child.  A child nobody asked to   *)
(* stop is the pid_ of its program, which is STARTING or RUNNING; so a     *)
(* child that is forgotten, by a start during a stop, was asked.  And the  *)
(* child of a program that is STOPPING has had the stop signal at least    *)
(* for as long as the object counts.                                       *)
(***************************************************************************)
Accounted(p, c, k) ==
  k.st = "alive" =>
    /\ p.pid # c \/ p.state \notin {"STARTING", "RUNNING"} => k.sig # "none"
    /\ p.pid = c /\ p.state = "STOPPING" => k.age >= p.elapsed

Kin == \A c \in Pids : os[c].st = "alive" =>
         owner[c] \in Names /\ Accounted(procs[owner[c]], c, os[c])

\* The state after start() of several programs, child by child.
LEMMA StartEachShape ==
  ASSUME Inv,
         NEW S \in SUBSET Names,
         NEW base \in [Names -> Processes],
         NEW kernel \in [Pids -> Children],
         StartEach(S, base, kernel)
  PROVE  /\ \A n \in Names \ S : procs'[n] = base[n]
         /\ \A n \in S : procs'[n].state \in {"STARTING", "BACKOFF", "FATAL"}
         /\ \A n \in Names : procs'[n].cfg = base[n].cfg
         /\ \A c \in Pids :
              \/ os'[c] = kernel[c] /\ owner'[c] = owner[c]
              \/ /\ os[c].st = "free" /\ os'[c] = NewChild
                 /\ owner'[c] \in S /\ procs'[owner'[c]].pid = c
                 /\ procs'[owner'[c]].state = "STARTING"
  <1>1. PICK fork \in Forks(S) :
          /\ procs' = [n \in Names |-> IF n \in S THEN Start(base[n], fork[n]) ELSE base[n]]
          /\ os' = [c \in Pids |-> IF \E n \in S : fork[n] = c THEN NewChild ELSE kernel[c]]
          /\ owner' = [c \in Pids |-> IF \E n \in S : fork[n] = c
                                      THEN CHOOSE n \in S : fork[n] = c ELSE owner[c]]
    BY DEF StartEach
  <1>2. /\ \A n \in S : fork[n] \in Pids \cup {NoPid}
        /\ \A n \in S : fork[n] # NoPid => os[fork[n]].st = "free"
    BY DEF Forks
  <1>3. \A n \in S : /\ Start(base[n], fork[n]).state \in {"STARTING", "BACKOFF", "FATAL"}
                     /\ Start(base[n], fork[n]).cfg = base[n].cfg
                     /\ fork[n] # NoPid => Start(base[n], fork[n]).pid = fork[n]
    BY <1>2, StartFacts
  <1>4. \A n \in S : fork[n] # NoPid => Start(base[n], fork[n]).state = "STARTING"
    <2> SUFFICES ASSUME NEW n \in S, fork[n] # NoPid
                 PROVE  Start(base[n], fork[n]).state = "STARTING"
      OBVIOUS
    <2>1. fork[n] \in Pids /\ base[n] \in Processes /\ "STARTING" \in States
      BY <1>2 DEF States
    <2>2. PICK q : q = [base[n] EXCEPT !.pid = fork[n]]
      OBVIOUS
    <2>3. q \in Processes
      BY <2>1, <2>2, WithPid
    <2>4. Start(base[n], fork[n]) = SetState(q, "STARTING")
      BY <2>2 DEF Start
    <2> QED
      BY <2>1, <2>3, <2>4, SetStateFacts
  <1>5. ASSUME NEW c \in Pids
        PROVE  \/ os'[c] = kernel[c] /\ owner'[c] = owner[c]
               \/ /\ os[c].st = "free" /\ os'[c] = NewChild
                  /\ owner'[c] \in S /\ procs'[owner'[c]].pid = c
                  /\ procs'[owner'[c]].state = "STARTING"
    <2>1. CASE \E n \in S : fork[n] = c
      <3>1. owner'[c] \in S /\ fork[owner'[c]] = c /\ os'[c] = NewChild
        BY <1>1, <2>1
      <3>2. c # NoPid
        BY DEF NoPid
      <3>3. procs'[owner'[c]] = Start(base[owner'[c]], c)
        BY <1>1, <3>1
      <3> QED
        BY <1>2, <1>3, <1>4, <3>1, <3>2, <3>3
    <2>2. CASE ~ \E n \in S : fork[n] = c
      BY <1>1, <2>2
    <2> QED
      BY <2>1, <2>2
  <1>6. \A n \in Names : procs'[n] = IF n \in S THEN Start(base[n], fork[n]) ELSE base[n]
    BY <1>1
  <1> QED
    BY <1>3, <1>5, <1>6

\* startProcess and startAllProcesses keep the account: a child that is forgotten now
\* belongs to a program that is neither STARTING nor RUNNING.
LEMMA StartRequestKin ==
  ASSUME Inv, Kin, StartAll \/ \E n \in Names : StartProcess(n)
  PROVE  Kin'
  <1>1. PICK S \in SUBSET Names :
          StartEach(S, procs, os) /\ \A m \in S : MayStart(procs[m])
    BY DEF StartAll, StartProcess
  <1>2. PICK b \in [Names -> Processes], k \in [Pids -> Children] : b = procs /\ k = os
    BY DEF Inv, TypeOK
  <1>3. /\ \A n \in Names \ S : procs'[n] = b[n]
        /\ \A n \in S : procs'[n].state \in {"STARTING", "BACKOFF", "FATAL"}
        /\ \A c \in Pids :
             \/ os'[c] = k[c] /\ owner'[c] = owner[c]
             \/ /\ os[c].st = "free" /\ os'[c] = NewChild
                /\ owner'[c] \in S /\ procs'[owner'[c]].pid = c
                /\ procs'[owner'[c]].state = "STARTING"
    <2>1. StartEach(S, b, k)
      BY <1>1, <1>2
    <2> QED
      BY <2>1, StartEachShape
  <1> SUFFICES ASSUME NEW c \in Pids, os'[c].st = "alive"
               PROVE  owner'[c] \in Names /\ Accounted(procs'[owner'[c]], c, os'[c])
    BY DEF Kin
  <1>4. CASE /\ owner'[c] \in S /\ procs'[owner'[c]].pid = c
             /\ procs'[owner'[c]].state = "STARTING"
    BY <1>4 DEF Accounted
  <1>5. CASE os'[c] = os[c] /\ owner'[c] = owner[c]
    <2>1. owner[c] \in Names /\ Accounted(procs[owner[c]], c, os[c])
      BY <1>5 DEF Kin
    <2>2. CASE owner[c] \in S
      <3>1. os[c].sig # "none"
        BY <1>1, <1>5, <2>1, <2>2 DEF Accounted, MayStart
      <3> QED
        BY <1>3, <1>5, <2>1, <2>2, <3>1 DEF Accounted
    <2>3. CASE owner[c] \notin S
      BY <1>2, <1>3, <1>5, <2>1, <2>3
    <2> QED
      BY <2>2, <2>3
  <1> QED
    BY <1>2, <1>3, <1>4, <1>5

\* on_timer_ keeps the account.
LEMMA OnTimerKin ==
  ASSUME Inv, Kin, OnTimer
  PROVE  /\ Kin'
         /\ \A c \in Pids : os[c].st = "alive" =>
              os'[c] = os[c] \/ os'[c] = Signalled(os[c], "KILL")
         /\ \A c \in Pids : os[c].st = "alive" /\ os'[c] # os[c] =>
              \E m \in Names : StopTimedOut(procs[m]) /\ procs[m].pid = c
         /\ \A c \in Pids : os'[c].st = "alive" => os[c].st \in {"free", "alive"}
         /\ \A n \in Names : procs[n].state \in {"STOPPING", "STOPPED"} => procs'[n] = procs[n]
         /\ \A n \in Names : procs'[n].cfg = procs[n].cfg
  <1> DEFINE killed == {procs[n].pid : n \in {m \in Names : StopTimedOut(procs[m])}}
             base   == [n \in Names |-> IF HasStarted(procs[n]) THEN MarkRunning(procs[n])
                                                                ELSE procs[n]]
             kernel == [c \in Pids |-> IF c \in killed THEN Signalled(os[c], "KILL")
                                                       ELSE os[c]]
             S      == {n \in Names : RetryDue(procs[n])}
  <1>1. StartEach(S, base, kernel)
    BY DEF OnTimer
  <1>2. base \in [Names -> Processes] /\ \A n \in Names : base[n].cfg = procs[n].cfg
    BY Typing, StopFacts DEF Inv
  <1>3. "KILL" \in SignalNames /\ os \in [Pids -> Children]
    BY DEF Inv, TypeOK, SignalNames
  <1>4. kernel \in [Pids -> Children]
    <2> HIDE DEF killed
    <2> QED
      BY <1>3, SignalledFacts
  <1>5. \A c \in Pids : \/ kernel[c] = os[c]
                        \/ /\ kernel[c] = Signalled(os[c], "KILL")
                           /\ \E m \in Names : StopTimedOut(procs[m]) /\ procs[m].pid = c
    OBVIOUS
  <1>6. /\ \A n \in S : procs[n].state = "BACKOFF"
        /\ \A n \in Names : procs[n].state = "BACKOFF" \/ n \notin S
        /\ \A n \in Names : \/ base[n] = procs[n]
                             \/ /\ procs[n].state = "STARTING" /\ base[n].state = "RUNNING"
                                /\ base[n].pid = procs[n].pid
    <2>1. \A n \in Names : HasStarted(procs[n]) =>
            /\ procs[n].state = "STARTING" /\ MarkRunning(procs[n]).state = "RUNNING"
            /\ MarkRunning(procs[n]).pid = procs[n].pid
      BY Typing, StopFacts DEF Inv, HasStarted
    <2> QED
      BY <2>1 DEF RetryDue
  <1>7. PICK T \in SUBSET Names, b \in [Names -> Processes], k \in [Pids -> Children] :
          T = S /\ b = base /\ k = kernel
    <2>1. S \in SUBSET Names
      OBVIOUS
    <2> HIDE DEF S, base, kernel
    <2> QED
      BY <1>2, <1>4, <2>1
  <1> HIDE DEF S, base, kernel, killed
  <1>8. /\ \A n \in Names \ T : procs'[n] = b[n]
        /\ \A n \in T : procs'[n].state \in {"STARTING", "BACKOFF", "FATAL"}
        /\ \A n \in Names : procs'[n].cfg = b[n].cfg
        /\ \A c \in Pids :
             \/ os'[c] = k[c] /\ owner'[c] = owner[c]
             \/ /\ os[c].st = "free" /\ os'[c] = NewChild
                /\ owner'[c] \in T /\ procs'[owner'[c]].pid = c
                /\ procs'[owner'[c]].state = "STARTING"
    <2>1. StartEach(T, b, k)
      BY <1>1, <1>7
    <2> QED
      BY <2>1, StartEachShape
  <1>9. ASSUME NEW c \in Pids, os'[c].st = "alive"
        PROVE  owner'[c] \in Names /\ Accounted(procs'[owner'[c]], c, os'[c])
    <2>1. CASE /\ owner'[c] \in T /\ procs'[owner'[c]].pid = c
               /\ procs'[owner'[c]].state = "STARTING"
      BY <2>1 DEF Accounted
    <2>2. CASE os'[c] = k[c] /\ owner'[c] = owner[c]
      <3>1. /\ k[c].st = os[c].st
            /\ k[c] = os[c] \/ (os[c].st = "alive" => k[c].sig # "none")
            /\ os[c].sig # "none" => k[c].sig # "none" /\ k[c].age = os[c].age
        <4>1. os[c] \in Children
          BY <1>3
        <4>2. /\ Signalled(os[c], "KILL").st = os[c].st
              /\ os[c].st = "alive" => Signalled(os[c], "KILL").sig # "none"
              /\ os[c].sig # "none" => /\ Signalled(os[c], "KILL").sig # "none"
                                       /\ Signalled(os[c], "KILL").age = os[c].age
          BY <1>3, <4>1, SignalledFacts
        <4> QED
          BY <1>5, <1>7, <4>2
      <3>2. os[c].st = "alive" /\ owner[c] \in Names /\ Accounted(procs[owner[c]], c, os[c])
        BY <1>9, <2>2, <3>1 DEF Kin
      <3>3. PICK n \in Names : n = owner[c]
        BY <3>2
      <3>4. CASE n \in T
        <4>1. k[c].sig # "none"
          BY <1>6, <1>7, <3>1, <3>2, <3>3, <3>4 DEF Accounted
        <4> QED
          BY <1>8, <2>2, <3>3, <3>4, <4>1 DEF Accounted
      <3>5. CASE n \notin T /\ b[n] = procs[n]
        BY <1>8, <2>2, <3>1, <3>2, <3>3, <3>5 DEF Accounted
      <3>6. CASE /\ n \notin T /\ procs[n].state = "STARTING"
                 /\ b[n].state = "RUNNING" /\ b[n].pid = procs[n].pid
        BY <1>8, <2>2, <3>1, <3>2, <3>3, <3>6 DEF Accounted
      <3> QED
        BY <1>6, <1>7, <3>3, <3>4, <3>5, <3>6
    <2> QED
      BY <1>8, <2>1, <2>2
  <1>10. /\ \A c \in Pids : os[c].st = "alive" => os'[c] = k[c]
         /\ \A n \in Names : procs[n].state \in {"STOPPING", "STOPPED"} => procs'[n] = procs[n]
         /\ \A n \in Names : procs'[n].cfg = procs[n].cfg
    BY <1>2, <1>6, <1>7, <1>8
  <1>11. \A c \in Pids : os'[c].st = "alive" => os[c].st \in {"free", "alive"}
    <2>1. \A c \in Pids : Signalled(os[c], "KILL").st = os[c].st
      BY <1>3, SignalledFacts
    <2>2. \A c \in Pids : k[c].st = os[c].st
      BY <1>5, <1>7, <2>1
    <2> QED
      BY <1>8, <2>2
  <1> QED
    BY <1>5, <1>7, <1>9, <1>10, <1>11 DEF Kin

\* The state after stop() of several programs, child by child.
LEMMA StopEachShape ==
  ASSUME Inv, NEW S \in SUBSET Names, StopEach(S)
  PROVE  /\ \A n \in S : /\ procs'[n].state = "STOPPING" /\ procs'[n].pid = procs[n].pid
                         /\ procs'[n].cfg = procs[n].cfg
                         /\ procs'[n].elapsed = IF procs[n].state = "STOPPING"
                                                THEN procs[n].elapsed ELSE 0
         /\ \A n \in Names \ S : procs'[n] = procs[n]
         /\ owner' = owner
         /\ \A c \in Pids :
              \/ os'[c] = os[c] /\ \A n \in S : procs[n].pid # c
              \/ /\ owner[c] \in S /\ procs[owner[c]].pid = c
                 /\ os'[c] = Signalled(os[c], StopSignal(procs[owner[c]].cfg))
  <1>1. /\ \A n \in Names : procs'[n] = IF n \in S THEN Stop(procs[n]) ELSE procs[n]
        /\ owner' = owner
        /\ \A c \in Pids : os'[c] =
             IF \E n \in S : procs[n].pid = c
             THEN Signalled(os[c], StopSignal(procs[CHOOSE n \in S : procs[n].pid = c].cfg))
             ELSE os[c]
    BY DEF StopEach
  <1>2. ASSUME NEW c \in Pids, \E n \in S : procs[n].pid = c
        PROVE  /\ owner[c] \in S /\ procs[owner[c]].pid = c
               /\ os'[c] = Signalled(os[c], StopSignal(procs[owner[c]].cfg))
    <2>1. PICK m : m \in S /\ procs[m].pid = c /\ m = CHOOSE n \in S : procs[n].pid = c
      BY <1>2
    <2>2. owner[c] = m
      BY <2>1 DEF Inv, Links, NoPid
    <2> QED
      BY <1>1, <1>2, <2>1, <2>2
  <1>3. \A n \in Names : procs[n] \in Processes
    BY Typing DEF Inv
  <1>4. \A n \in S : /\ procs'[n].state = "STOPPING" /\ procs'[n].pid = procs[n].pid
                     /\ procs'[n].cfg = procs[n].cfg
                     /\ procs'[n].elapsed = IF procs[n].state = "STOPPING"
                                            THEN procs[n].elapsed ELSE 0
    BY <1>1, <1>3, StopFacts
  <1> QED
    BY <1>1, <1>2, <1>4

\* stop() keeps the account: the clock of the signal starts with that of the object.
LEMMA StopEachKin ==
  ASSUME Inv, Kin, NEW S \in SUBSET Names, StopEach(S)
  PROVE  Kin'
  <1>1. /\ \A n \in S : /\ procs'[n].state = "STOPPING" /\ procs'[n].pid = procs[n].pid
                        /\ procs'[n].elapsed = IF procs[n].state = "STOPPING"
                                               THEN procs[n].elapsed ELSE 0
        /\ \A n \in Names \ S : procs'[n] = procs[n]
        /\ owner' = owner
        /\ \A c \in Pids :
             \/ os'[c] = os[c] /\ \A n \in S : procs[n].pid # c
             \/ /\ owner[c] \in S /\ procs[owner[c]].pid = c
                /\ os'[c] = Signalled(os[c], StopSignal(procs[owner[c]].cfg))
    BY StopEachShape
  <1> SUFFICES ASSUME NEW c \in Pids, os'[c].st = "alive"
               PROVE  owner'[c] \in Names /\ Accounted(procs'[owner'[c]], c, os'[c])
    BY DEF Kin
  <1>2. CASE os'[c] = os[c] /\ \A n \in S : procs[n].pid # c
    <2>1. owner[c] \in Names /\ Accounted(procs[owner[c]], c, os[c])
      BY <1>2 DEF Kin
    <2>2. PICK n \in Names : n = owner[c] /\ owner'[c] = n
      BY <1>1, <2>1
    <2>3. CASE n \in S
      <3>1. procs[n].pid # c /\ procs'[n].pid # c
        BY <1>1, <1>2, <2>3
      <3> QED
        BY <1>2, <2>1, <2>2, <3>1 DEF Accounted
    <2>4. CASE n \notin S
      BY <1>1, <1>2, <2>1, <2>2, <2>4
    <2> QED
      BY <2>3, <2>4
  <1>3. CASE /\ owner[c] \in S /\ procs[owner[c]].pid = c
             /\ os'[c] = Signalled(os[c], StopSignal(procs[owner[c]].cfg))
    <2>1. PICK n \in Names : n = owner[c] /\ owner'[c] = n /\ n \in S
      BY <1>1, <1>3
    <2>2. PICK sig \in SignalNames : sig = StopSignal(procs[n].cfg)
      BY StopSignalFacts
    <2>3. os[c] \in Children /\ os'[c] = Signalled(os[c], sig)
      BY <1>3, <2>1, <2>2 DEF Inv, TypeOK
    <2>4. /\ os'[c] \in Children /\ os[c].st = "alive" /\ os'[c].sig # "none"
          /\ os[c].sig # "none" => os'[c].age = os[c].age
      BY <2>3, SignalledFacts
    <2>5. Accounted(procs[n], c, os[c])
      BY <2>1, <2>4 DEF Kin
    <2>6. os'[c].age \in Nat
      BY <2>4 DEF Children
    <2>7. os'[c].age >= procs'[n].elapsed
      BY <1>1, <1>3, <2>1, <2>4, <2>5, <2>6 DEF Accounted
    <2> QED
      BY <2>1, <2>4, <2>7 DEF Accounted
  <1> QED
    BY <1>1, <1>2, <1>3

\* The state after a wait, child by child.
LEMMA ReturnShape ==
  ASSUME Inv, Return
  PROVE  /\ stack # <<>> /\ stack' = SubSeq(stack, 1, Len(stack) - 1)
         /\ WaitOver(stack[Len(stack)]) /\ asked' = asked
         /\ \A n \in Names :
              IF n \in Remaining(stack[Len(stack)])
              THEN /\ procs'[n].state = "STOPPED" /\ procs'[n].pid = NoPid
                   /\ procs'[n].cfg = procs[n].cfg
              ELSE procs'[n] = procs[n]
         /\ \A c \in Pids :
              \/ /\ os'[c] = Free /\ owner[c] \in Remaining(stack[Len(stack)])
                 /\ procs[owner[c]].pid = c
              \/ /\ os'[c] = os[c] /\ owner'[c] = owner[c]
                 /\ \A n \in Remaining(stack[Len(stack)]) : procs[n].pid # c
  <1> DEFINE left == Remaining(stack[Len(stack)])
             dead == {procs[n].pid : n \in left}
  <1>1. left \in SUBSET Names
    BY DEF Remaining
  <1> HIDE DEF left
  <1>2. /\ procs' = [n \in Names |-> IF n \in left THEN Killed(procs[n]) ELSE procs[n]]
        /\ os' = [c \in Pids |-> IF c \in dead THEN Free ELSE os[c]]
        /\ owner' = [c \in Pids |-> IF c \in dead THEN NoName ELSE owner[c]]
        /\ stack # <<>> /\ stack' = SubSeq(stack, 1, Len(stack) - 1)
        /\ WaitOver(stack[Len(stack)]) /\ asked' = asked
    BY DEF Return, left
  <1>3. \A n \in left : /\ Killed(procs[n]).state = "STOPPED"
                        /\ Killed(procs[n]).pid = NoPid
                        /\ Killed(procs[n]).cfg = procs[n].cfg
    BY <1>1, Typing, ExitFacts DEF Inv
  <1>4. \A n \in Names : IF n \in left
                         THEN /\ procs'[n].state = "STOPPED" /\ procs'[n].pid = NoPid
                              /\ procs'[n].cfg = procs[n].cfg
                         ELSE procs'[n] = procs[n]
    BY <1>2, <1>3
  <1>5. ASSUME NEW c \in Pids
        PROVE  \/ os'[c] = Free /\ owner[c] \in left /\ procs[owner[c]].pid = c
               \/ /\ os'[c] = os[c] /\ owner'[c] = owner[c]
                  /\ \A n \in left : procs[n].pid # c
    <2>1. CASE c \in dead
      <3>1. PICK n \in left : procs[n].pid = c
        BY <2>1
      <3>2. owner[c] = n
        BY <1>1, <3>1 DEF Inv, Links, NoPid
      <3> QED
        BY <1>2, <2>1, <3>1, <3>2
    <2>2. CASE c \notin dead
      BY <1>2, <2>2
    <2> QED
      BY <2>1, <2>2
  <1> QED
    BY <1>2, <1>4, <1>5 DEF left

\* kill() keeps the account.
LEMMA ReturnKin ==
  ASSUME Inv, Kin, Return
  PROVE  Kin'
  <1>1. PICK left : left = Remaining(stack[Len(stack)])
    OBVIOUS
  <1>2. /\ \A n \in Names : n \notin left => procs'[n] = procs[n]
        /\ \A n \in Names : n \in left => procs'[n].pid = NoPid
        /\ \A c \in Pids :
             \/ os'[c] = Free
             \/ /\ os'[c] = os[c] /\ owner'[c] = owner[c]
                /\ \A n \in left : procs[n].pid # c
    BY <1>1, ReturnShape
  <1> SUFFICES ASSUME NEW c \in Pids, os'[c].st = "alive"
               PROVE  owner'[c] \in Names /\ Accounted(procs'[owner'[c]], c, os'[c])
    BY DEF Kin
  <1>3. os'[c] = os[c] /\ owner'[c] = owner[c] /\ \A n \in left : procs[n].pid # c
    BY <1>2, ChildFacts
  <1>4. owner[c] \in Names /\ Accounted(procs[owner[c]], c, os[c])
    BY <1>3 DEF Kin
  <1>5. CASE owner[c] \in left
    <2>1. os[c].sig # "none" /\ procs'[owner[c]].pid # c
      BY <1>2, <1>3, <1>4, <1>5 DEF Accounted, NoPid
    <2> QED
      BY <1>3, <1>4, <2>1 DEF Accounted
  <1>6. CASE owner[c] \notin left
    BY <1>2, <1>3, <1>4, <1>6
  <1> QED
    BY <1>5, <1>6

\* The state after handle_sigchld_, child by child.
LEMMA HandleSigchldShape ==
  ASSUME Inv, HandleSigchld
  PROVE  /\ stack' = stack /\ asked' = asked
         /\ \A n \in Names : procs'[n].cfg = procs[n].cfg
         /\ \A n \in Names : procs'[n] = procs[n] \/ procs'[n].pid = NoPid
         /\ \A c \in Pids : os'[c].st = "alive" => os[c].st = "alive"
         /\ \A c \in Pids : os[c].st = "alive" =>
              /\ os'[c] = os[c] /\ owner'[c] = owner[c]
              /\ \A n \in Names : procs[n].pid = c => procs'[n] = procs[n]
  <1> DEFINE zombies == {c \in Pids : os[c].st = "zombie"}
             exited  == {n \in Names : procs[n].pid \in zombies}
  <1>1. /\ \A n \in Names : procs'[n] = IF n \in exited THEN OnExit(procs[n]) ELSE procs[n]
        /\ \A c \in Pids : os'[c] = IF c \in zombies THEN Free ELSE os[c]
        /\ \A c \in Pids : owner'[c] = IF c \in zombies THEN NoName ELSE owner[c]
        /\ stack' = stack /\ asked' = asked
    BY DEF HandleSigchld, Notified
  <1>2. \A n \in Names : OnExit(procs[n]).pid = NoPid /\ OnExit(procs[n]).cfg = procs[n].cfg
    BY Typing, ExitFacts DEF Inv
  <1>3. \A c \in Pids : os[c].st = "alive" =>
          c \notin zombies /\ \A n \in Names : procs[n].pid = c => n \notin exited
    OBVIOUS
  <1> HIDE DEF exited, zombies
  <1> QED
    BY <1>1, <1>2, <1>3, ChildFacts

\* handle_sigchld_ keeps the account.
LEMMA HandleSigchldKin ==
  ASSUME Inv, Kin, HandleSigchld
  PROVE  Kin'
  <1>1. /\ \A n \in Names : procs'[n] = procs[n] \/ procs'[n].pid = NoPid
        /\ \A c \in Pids : os'[c].st = "alive" => os[c].st = "alive"
        /\ \A c \in Pids : os[c].st = "alive" =>
             /\ os'[c] = os[c] /\ owner'[c] = owner[c]
             /\ \A n \in Names : procs[n].pid = c => procs'[n] = procs[n]
    BY HandleSigchldShape
  <1> SUFFICES ASSUME NEW c \in Pids, os'[c].st = "alive"
               PROVE  owner'[c] \in Names /\ Accounted(procs'[owner'[c]], c, os'[c])
    BY DEF Kin
  <1>2. os[c].st = "alive" /\ os'[c] = os[c] /\ owner'[c] = owner[c]
    BY <1>1
  <1>3. owner[c] \in Names /\ Accounted(procs[owner[c]], c, os[c])
    BY <1>2 DEF Kin
  <1>4. CASE procs'[owner[c]] = procs[owner[c]]
    BY <1>2, <1>3, <1>4
  <1>5. CASE procs'[owner[c]] # procs[owner[c]]
    <2>1. procs'[owner[c]].pid # c /\ procs[owner[c]].pid # c
      <3>1. c # NoPid
        BY DEF NoPid
      <3>2. PICK n \in Names : n = owner[c]
        BY <1>3
      <3>3. procs'[n] # procs[n] /\ procs'[n].pid = NoPid
        BY <1>1, <1>5, <3>2
      <3>4. procs[n].pid # c
        BY <1>1, <1>2, <3>3
      <3> QED
        BY <3>1, <3>2, <3>3, <3>4
    <2>2. os[c].sig # "none"
      BY <1>2, <1>3, <2>1, Zenon DEF Accounted
    <2> QED
      BY <1>2, <1>3, <2>1, <2>2 DEF Accounted
  <1> QED
    BY <1>4, <1>5

\* A second keeps the account: the clocks of object and child go together.
LEMMA SecondKin ==
  ASSUME Inv, Kin, Second
  PROVE  Kin'
  <1> SUFFICES ASSUME NEW c \in Pids, os'[c].st = "alive"
               PROVE  owner'[c] \in Names /\ Accounted(procs'[owner'[c]], c, os'[c])
    BY DEF Kin
  <1>1. /\ os'[c] = Aged(os[c]) /\ owner' = owner
        /\ \A n \in Names : procs'[n] = [procs[n] EXCEPT !.elapsed = Ticked(procs[n].elapsed)]
    BY DEF Second
  <1>2. /\ os[c] \in Children /\ os[c].st = "alive"
        /\ os'[c].sig = os[c].sig /\ os'[c].age = Ticked(os[c].age)
    <2>1. os[c] \in Children
      BY DEF Inv, TypeOK
    <2>2. /\ Aged(os[c]).st = os[c].st /\ Aged(os[c]).sig = os[c].sig
          /\ Aged(os[c]).age = IF os[c].st = "alive" THEN Ticked(os[c].age) ELSE os[c].age
      BY <2>1, ChildFacts
    <2> QED
      BY <1>1, <2>1, <2>2
  <1>3. owner[c] \in Names /\ Accounted(procs[owner[c]], c, os[c])
    BY <1>2 DEF Kin
  <1>4. PICK n \in Names : n = owner[c] /\ owner'[c] = n
    BY <1>1, <1>3
  <1>5. /\ procs'[n].pid = procs[n].pid /\ procs'[n].state = procs[n].state
        /\ procs'[n].elapsed = Ticked(procs[n].elapsed)
    BY <1>1, Typing, ElapsedFacts DEF Inv
  <1>6. procs[n].elapsed \in 0..MaxElapsed /\ os[c].age \in 0..MaxElapsed
    BY <1>2, Typing DEF Inv, Processes, Children
  <1>7. os[c].age >= procs[n].elapsed => os'[c].age >= procs'[n].elapsed
    BY <1>2, <1>5, <1>6 DEF Ticked
  <1> QED
    BY <1>2, <1>3, <1>4, <1>5, <1>7 DEF Accounted

\* Every step keeps the account.
LEMMA NextKin == Inv /\ Kin /\ [Next]_vars => Kin'
  <1> SUFFICES ASSUME Inv, Kin, [Next]_vars PROVE Kin'
    OBVIOUS
  <1>1. CASE StartAll \/ \E n \in Names : StartProcess(n)
    BY <1>1, StartRequestKin
  <1>2. CASE StopAll \/ \E n \in Names : StopProcess(n)
    <2>1. PICK S \in SUBSET Names : StopEach(S)
      <3>1. CASE StopAll
        <4> DEFINE S == {n \in {m \in Names : Running(m)} : MayStop(procs[n])}
        <4>1. StopEach(S) /\ S \in SUBSET Names
          BY <3>1 DEF StopAll
        <4> QED
          BY <4>1
      <3>2. ASSUME NEW n \in Names, StopProcess(n) PROVE \E S \in SUBSET Names : StopEach(S)
        <4>1. StopEach({n}) /\ {n} \in SUBSET Names
          BY <3>2 DEF StopProcess
        <4> QED
          BY <4>1
      <3> QED
        BY <1>2, <3>1, <3>2
    <2> QED
      BY <2>1, StopEachKin
  <1>3. CASE Return
    BY <1>3, ReturnKin
  <1>4. CASE OnTimer
    BY <1>4, OnTimerKin
  <1>5. CASE HandleSigchld
    BY <1>5, HandleSigchldKin
  <1>6. ASSUME NEW c \in Pids, ChildExits(c) PROVE Kin'
    <2>1. /\ procs' = procs /\ owner' = owner /\ os' = [os EXCEPT ![c].st = "zombie"]
      BY <1>6 DEF ChildExits
    <2>2. \A d \in Pids : os'[d].st = "alive" => os'[d] = os[d]
      BY <2>1, ChildFacts DEF Inv, TypeOK
    <2> QED
      BY <2>1, <2>2 DEF Kin
  <1>7. CASE Second
    BY <1>7, SecondKin
  <1>8. CASE UNCHANGED vars
    BY <1>8 DEF vars, Kin
  <1> QED
    BY <1>1, <1>2, <1>3, <1>4, <1>5, <1>6, <1>7, <1>8 DEF Next

\* The account of the children is kept in every reachable state.
THEOREM ChildrenAccounted == Spec => [](Inv /\ Kin)
  <1>1. Init => Kin
    BY ChildFacts DEF Init, Kin
  <1>2. Inv /\ Kin /\ [Next]_vars => Kin'
    BY NextKin
  <1> QED
    BY <1>1, <1>2, Safety, PTL DEF Spec

\* Only a return takes a frame from the stack.
LEMMA OnlyReturnPops ==
  ASSUME Inv, Next, Len(stack') < Len(stack)
  PROVE  Return
  <1> SUFFICES ASSUME ~Return PROVE Len(stack') >= Len(stack)
    <2>1. stack \in Seq(Frames) /\ stack' \in Seq(Frames)
      BY NextInv DEF Inv, TypeOK
    <2> QED
      BY <2>1
  <1>1. stack \in Seq(Frames)
    BY DEF Inv, TypeOK
  <1>2. CASE Second
    <2>1. DOMAIN stack' = 1..Len(stack)
      BY <1>1, <1>2 DEF Second
    <2>2. stack' \in Seq(Frames)
      BY <1>2, SecondInv DEF Inv, TypeOK
    <2>3. Len(stack) = 0 \/ Len(stack) \in 1..Len(stack')
      <3>1. DOMAIN stack' = 1..Len(stack') /\ Len(stack) \in Nat
        BY <1>1, <2>2
      <3> QED
        BY <2>1, <3>1
    <2> QED
      BY <1>1, <2>2, <2>3
  <1>3. CASE ~Second
    <2>1. stack' = stack \/ \E frame : stack' = Append(stack, frame)
      BY <1>3, Zenon DEF Next, StartProcess, StopProcess, StartAll, StopAll,
         OnTimer, HandleSigchld, ChildExits
    <2> QED
      BY <1>1, <2>1
  <1> QED
    BY <1>2, <1>3

\* When stop_all's wait is over, no program has a child, and every child was asked.
LEMMA StopAllReturn ==
  ASSUME Inv, Kin, Return, stack[Len(stack)].kind = "stopall",
         NEW c \in Pids, os'[c].st = "alive"
  PROVE  os'[c].sig # "none" /\ \A n \in Names : procs'[n].pid # c
  <1>1. PICK left : left = Remaining(stack[Len(stack)])
    OBVIOUS
  <1>2. left = {n \in Names : procs[n].pid > 0}
    BY <1>1 DEF Remaining, Running
  <1>3. /\ \A n \in Names : n \notin left => procs'[n] = procs[n]
        /\ \A n \in Names : n \in left => procs'[n].pid = NoPid
        /\ \A d \in Pids :
             \/ os'[d] = Free
             \/ /\ os'[d] = os[d] /\ owner'[d] = owner[d]
                /\ \A n \in left : procs[n].pid # d
    <2>1. /\ \A n \in Names :
               IF n \in Remaining(stack[Len(stack)])
               THEN /\ procs'[n].state = "STOPPED" /\ procs'[n].pid = NoPid
                    /\ procs'[n].cfg = procs[n].cfg
               ELSE procs'[n] = procs[n]
          /\ \A d \in Pids :
               \/ /\ os'[d] = Free /\ owner[d] \in Remaining(stack[Len(stack)])
                  /\ procs[owner[d]].pid = d
               \/ /\ os'[d] = os[d] /\ owner'[d] = owner[d]
                  /\ \A n \in Remaining(stack[Len(stack)]) : procs[n].pid # d
      BY ReturnShape, Zenon
    <2> QED
      BY <1>1, <2>1
  <1>4. c > 0 /\ c # NoPid
    BY PidFacts
  <1>5. os'[c] = os[c] /\ \A n \in left : procs[n].pid # c
    <2>1. os'[c] # Free
      BY ChildFacts
    <2> QED
      BY <1>3, <2>1
  <1>6. \A n \in Names : procs[n].pid # c
    BY <1>2, <1>4, <1>5
  <1>7. os[c].sig # "none"
    <2>1. owner[c] \in Names /\ Accounted(procs[owner[c]], c, os[c]) /\ os[c].st = "alive"
      BY <1>5 DEF Kin
    <2> QED
      BY <1>6, <2>1, Zenon DEF Accounted
  <1> QED
    BY <1>3, <1>4, <1>5, <1>6, <1>7

\* stop_all() leaves no program with a child, and no child that was not asked to stop:
\* what it could not kill was forgotten, and what is forgotten was asked.
THEOREM StopAllIsComplete == Spec => StopAllAsksAll
  <1> DEFINE A == Len(stack') < Len(stack) /\ stack[Len(stack)].kind = "stopall"
                    => \A c \in Pids : os'[c].st = "alive" =>
                         os'[c].sig # "none" /\ \A n \in Names : procs'[n].pid # c
  <1>1. Inv /\ Kin /\ [Next]_vars => [A]_vars
    <2> SUFFICES ASSUME Inv, Kin, Next, Len(stack') < Len(stack),
                        stack[Len(stack)].kind = "stopall",
                        NEW c \in Pids, os'[c].st = "alive"
                 PROVE  os'[c].sig # "none" /\ \A n \in Names : procs'[n].pid # c
      OBVIOUS
    <2> QED
      BY OnlyReturnPops, StopAllReturn
  <1> QED
    BY <1>1, ChildrenAccounted, PTL DEF Spec, StopAllAsksAll

-----------------------------------------------------------------------------
(***************************************************************************)
(* The grace period.  A wait covers a program when it may end with the     *)
(* program's child being killed, or by giving the program up.  As long as  *)
(* the child of a program that was asked to stop has not had its grace w,  *)
(* there is a wait that covers it, and neither that wait nor one above it  *)
(* that covers it ends before the child has: left is the time to a wait's  *)
(* deadline and age the time since the stop signal, so that their sum does *)
(* not change while both are counted.                                      *)
(***************************************************************************)
Covers(frame, n) == frame.kind = "stop" => frame.name = n

Graced(age, stk, n, w) ==
  \/ age >= w
  \/ \E i \in DOMAIN stk :
       /\ Covers(stk[i], n)
       /\ \A j \in DOMAIN stk : j >= i /\ Covers(stk[j], n) => stk[j].left + age >= w + 1

\* A wait is put on the stack that does not cover the program, or is long enough.
LEMMA GracedPush ==
  ASSUME NEW stk \in Seq(Frames), NEW age \in Nat, NEW n \in Names, NEW w \in Int,
         NEW frame \in Frames,
         \/ Graced(age, stk, n, w) /\ ~Covers(frame, n)
         \/ Covers(frame, n) /\ frame.left >= w + 1
  PROVE  Graced(age, Append(stk, frame), n, w)
  <1>1. PICK s : s = Append(stk, frame)
    OBVIOUS
  <1>2. /\ DOMAIN s = 1..(Len(stk) + 1) /\ DOMAIN stk = 1..Len(stk) /\ Len(stk) \in Nat
        /\ s[Len(stk) + 1] = frame /\ \A j \in 1..Len(stk) : s[j] = stk[j]
    BY <1>1
  <1>3. CASE Covers(frame, n) /\ frame.left >= w + 1
    <2>1. frame.left \in Nat
      BY DEF Frames
    <2>2. \A j \in DOMAIN s : j >= Len(stk) + 1 => s[j] = frame
      BY <1>2
    <2>3. /\ Len(stk) + 1 \in DOMAIN s /\ Covers(s[Len(stk) + 1], n)
          /\ \A j \in DOMAIN s : j >= Len(stk) + 1 => s[j].left + age >= w + 1
      BY <1>2, <1>3, <2>1, <2>2
    <2> QED
      BY <1>1, <2>3 DEF Graced
  <1>4. CASE age >= w
    BY <1>4 DEF Graced
  <1>5. CASE ~Covers(frame, n) /\ Graced(age, stk, n, w) /\ ~(age >= w)
    <2>1. PICK i \in DOMAIN stk :
            /\ Covers(stk[i], n)
            /\ \A j \in DOMAIN stk : j >= i /\ Covers(stk[j], n) => stk[j].left + age >= w + 1
      BY <1>5 DEF Graced
    <2>2. \A j \in DOMAIN s : (j \in DOMAIN stk /\ s[j] = stk[j]) \/ s[j] = frame
      BY <1>2
    <2>3. /\ i \in DOMAIN s /\ Covers(s[i], n)
          /\ \A j \in DOMAIN s : j >= i /\ Covers(s[j], n) => s[j].left + age >= w + 1
      <3>1. i \in DOMAIN s /\ s[i] = stk[i]
        BY <1>2
      <3> QED
        BY <1>5, <2>1, <2>2, <3>1
    <2> QED
      BY <1>1, <2>3 DEF Graced
  <1> QED
    BY <1>3, <1>4, <1>5

\* The innermost wait is taken from the stack: it does not cover the program, or its
\* deadline has come.  In that case the program has had its grace.
LEMMA GracedPop ==
  ASSUME NEW stk \in Seq(Frames), stk # <<>>, NEW age \in Nat, NEW n \in Names, NEW w \in Int,
         Graced(age, stk, n, w),
         Covers(stk[Len(stk)], n) => stk[Len(stk)].left = 0
  PROVE  /\ Graced(age, SubSeq(stk, 1, Len(stk) - 1), n, w)
         /\ Covers(stk[Len(stk)], n) => age >= w
  <1>1. PICK s : s = SubSeq(stk, 1, Len(stk) - 1)
    OBVIOUS
  <1>2. /\ DOMAIN s = 1..(Len(stk) - 1) /\ DOMAIN stk = 1..Len(stk)
        /\ Len(stk) \in Nat /\ Len(stk) >= 1
        /\ \A j \in 1..(Len(stk) - 1) : s[j] = stk[j]
    BY <1>1
  <1>3. CASE age >= w
    BY <1>3 DEF Graced
  <1>4. CASE ~(age >= w)
    <2>1. PICK i \in DOMAIN stk :
            /\ Covers(stk[i], n)
            /\ \A j \in DOMAIN stk : j >= i /\ Covers(stk[j], n) => stk[j].left + age >= w + 1
      BY <1>4 DEF Graced
    <2>2. ~Covers(stk[Len(stk)], n)
      <3> SUFFICES ASSUME Covers(stk[Len(stk)], n) PROVE FALSE
        OBVIOUS
      <3>1. Len(stk) \in DOMAIN stk /\ Len(stk) >= i
        BY <1>2
      <3>2. stk[Len(stk)].left + age >= w + 1 /\ stk[Len(stk)].left = 0
        BY <2>1, <3>1
      <3> QED
        BY <1>4, <3>2
    <2>3. i # Len(stk)
      BY <2>1, <2>2
    <2>4. i \in DOMAIN s /\ s[i] = stk[i] /\ \A j \in DOMAIN s : j \in DOMAIN stk /\ s[j] = stk[j]
      BY <1>2, <2>3
    <2>5. \A j \in DOMAIN s : j >= i /\ Covers(s[j], n) => s[j].left + age >= w + 1
      BY <2>1, <2>4
    <2> QED
      BY <1>1, <2>1, <2>2, <2>4, <2>5 DEF Graced
  <1> QED
    BY <1>3, <1>4

\* A second passes for a child that lives and for the waits.
LEMMA GracedSecond ==
  ASSUME NEW stk \in Seq(Frames), NEW age \in 0..MaxElapsed, NEW n \in Names,
         NEW w \in Int, w <= MaxElapsed, Graced(age, stk, n, w)
  PROVE  Graced(Ticked(age),
                [i \in DOMAIN stk |->
                   [stk[i] EXCEPT !.left = IF stk[i].left = 0 THEN 0 ELSE stk[i].left - 1]],
                n, w)
  <1>1. PICK s : s = [i \in DOMAIN stk |->
                   [stk[i] EXCEPT !.left = IF stk[i].left = 0 THEN 0 ELSE stk[i].left - 1]]
    OBVIOUS
  <1>2. CASE age >= w
    <2>1. Ticked(age) >= w
      BY <1>2 DEF Ticked
    <2> QED
      BY <2>1 DEF Graced
  <1>3. CASE ~(age >= w)
    <2>1. PICK i \in DOMAIN stk :
            /\ Covers(stk[i], n)
            /\ \A j \in DOMAIN stk : j >= i /\ Covers(stk[j], n) => stk[j].left + age >= w + 1
      BY <1>3 DEF Graced
    <2>2. Ticked(age) = age + 1
      BY <1>3 DEF Ticked
    <2>3. ASSUME NEW j \in DOMAIN stk
          PROVE  /\ stk[j].left \in Nat
                 /\ s[j].left = IF stk[j].left = 0 THEN 0 ELSE stk[j].left - 1
                 /\ Covers(s[j], n) <=> Covers(stk[j], n)
      <3>1. stk[j] \in Frames
        OBVIOUS
      <3>2. \A f \in Frames : \A x : /\ f.left \in Nat
                                     /\ [f EXCEPT !.left = x].left = x
                                     /\ [f EXCEPT !.left = x].kind = f.kind
                                     /\ f.kind = "stop" => [f EXCEPT !.left = x].name = f.name
        BY DEF Frames
      <3>3. PICK x : x = IF stk[j].left = 0 THEN 0 ELSE stk[j].left - 1
        OBVIOUS
      <3>4. s[j] = [stk[j] EXCEPT !.left = x]
        BY <1>1, <3>3
      <3>5. /\ stk[j].left \in Nat /\ s[j].left = x /\ s[j].kind = stk[j].kind
            /\ stk[j].kind = "stop" => s[j].name = stk[j].name
        BY <3>1, <3>2, <3>4
      <3> QED
        BY <3>3, <3>5 DEF Covers
    <2>4. DOMAIN s = DOMAIN stk
      BY <1>1
    <2>5. \A j \in DOMAIN stk : stk[j].left + age >= w + 1 => s[j].left + (age + 1) >= w + 1
      BY <1>3, <2>3
    <2>6. Covers(s[i], n) /\ \A j \in DOMAIN s : j >= i /\ Covers(s[j], n)
                                => s[j].left + (age + 1) >= w + 1
      BY <2>1, <2>3, <2>4, <2>5
    <2> QED
      BY <1>1, <2>2, <2>4, <2>6 DEF Graced
  <1> QED
    BY <1>2, <1>3

\* A program keeps its configuration, and stopwaitsecs can be counted.
CfgKept == \A n \in Names : procs[n].cfg \in Configs

\* A program has a child that lives.
HasChild(n) == procs[n].pid # NoPid /\ os[procs[n].pid].st = "alive"

\* Every program that was asked to stop is given its grace by the waits there are.
Grace == \A n \in asked : HasChild(n) =>
           Graced(os[procs[n].pid].age, stack, n, procs[n].cfg.stopwaitsecs)

GInv == Inv /\ Kin /\ CfgKept /\ Grace

\* The child of a program that was asked to stop has its stop signal, and has had it for
\* as long as the program is STOPPING.
LEMMA AskedFacts ==
  ASSUME Inv, Kin, NEW n \in asked, HasChild(n)
  PROVE  /\ n \in Names /\ procs[n].state = "STOPPING"
         /\ procs[n].pid \in Pids /\ owner[procs[n].pid] = n
         /\ os[procs[n].pid] \in Children /\ os[procs[n].pid].sig # "none"
         /\ os[procs[n].pid].age >= procs[n].elapsed
         /\ os[procs[n].pid].age \in 0..MaxElapsed
         /\ procs[n].cfg.stopwaitsecs \in Int
  <1>1. n \in Names
    BY DEF Inv, TypeOK
  <1>2. procs[n].pid # NoPid /\ os[procs[n].pid].st = "alive"
    BY DEF HasChild
  <1>3. procs[n].state = "STOPPING"
    BY <1>1, <1>2 DEF Inv, StaysStopped, StoppedIsDown
  <1>4. procs[n].pid \in Pids /\ owner[procs[n].pid] = n
    BY <1>1, <1>2, Typing DEF Inv, Links
  <1>5. PICK c \in Pids : c = procs[n].pid
    BY <1>4
  <1>6. os[c] \in Children /\ os[c].st = "alive" /\ Accounted(procs[n], c, os[c])
    BY <1>2, <1>4, <1>5 DEF Inv, TypeOK, Kin
  <1>7. os[c].sig # "none" /\ os[c].age >= procs[n].elapsed
    BY <1>3, <1>5, <1>6 DEF Accounted
  <1>8. os[c].age \in 0..MaxElapsed
    BY <1>6 DEF Children
  <1>9. procs[n].cfg.stopwaitsecs \in Int
    BY <1>1, Typing DEF Inv, ProgramConfigs
  <1> QED
    BY <1>1, <1>3, <1>4, <1>5, <1>6, <1>7, <1>8, <1>9

\* What it takes to keep the grace of a program whose child and waits are untouched.
LEMMA GraceKept ==
  ASSUME GInv, NEW n \in asked, HasChild(n), stack' = stack,
         procs'[n] = procs[n], os'[procs[n].pid].age = os[procs[n].pid].age
  PROVE  Graced(os'[procs'[n].pid].age, stack', n, procs'[n].cfg.stopwaitsecs)
  <1>1. Graced(os[procs[n].pid].age, stack, n, procs[n].cfg.stopwaitsecs)
    BY DEF GInv, Grace
  <1> QED
    BY <1>1

\* startProcess and startAllProcesses.
LEMMA StartRequestGrace ==
  ASSUME GInv, StartAll \/ \E n \in Names : StartProcess(n)
  PROVE  /\ Grace' /\ CfgKept'
         /\ \A c \in Pids : os[c].st = "alive" => os'[c] = os[c]
  <1>1. PICK S \in SUBSET Names :
          StartEach(S, procs, os) /\ asked' \subseteq asked \ S /\ stack' = stack
    <2>1. CASE StartAll
      <3> DEFINE T == {n \in Names : MayStart(procs[n])}
      <3>1. StartEach(T, procs, os) /\ asked' = {} /\ stack' = stack /\ T \in SUBSET Names
        BY <2>1 DEF StartAll
      <3> QED
        BY <3>1
    <2>2. ASSUME NEW m \in Names, StartProcess(m)
          PROVE  \E S \in SUBSET Names :
                   StartEach(S, procs, os) /\ asked' \subseteq asked \ S /\ stack' = stack
      <3>1. StartEach({m}, procs, os) /\ asked' = asked \ {m} /\ stack' = stack
        BY <2>2 DEF StartProcess
      <3> QED
        BY <3>1
    <2> QED
      BY <2>1, <2>2
  <1>2. PICK b \in [Names -> Processes], k \in [Pids -> Children] : b = procs /\ k = os
    BY DEF GInv, Inv, TypeOK
  <1>3. /\ \A n \in Names \ S : procs'[n] = b[n]
        /\ \A n \in S : procs'[n].state \in {"STARTING", "BACKOFF", "FATAL"}
        /\ \A n \in Names : procs'[n].cfg = b[n].cfg
        /\ \A c \in Pids :
             \/ os'[c] = k[c] /\ owner'[c] = owner[c]
             \/ /\ os[c].st = "free" /\ os'[c] = NewChild
                /\ owner'[c] \in S /\ procs'[owner'[c]].pid = c
                /\ procs'[owner'[c]].state = "STARTING"
    <2>1. StartEach(S, b, k)
      BY <1>1, <1>2
    <2>2. Inv
      BY DEF GInv
    <2> QED
      BY <2>1, <2>2, StartEachShape
  <1>4. Inv /\ Inv'
    BY StartRequestInv DEF GInv
  <1>5. CfgKept'
    BY <1>2, <1>3 DEF GInv, CfgKept
  <1>6. ASSUME NEW n \in asked', HasChild(n)'
        PROVE  Graced(os'[procs'[n].pid].age, stack', n, procs'[n].cfg.stopwaitsecs)
    <2>1. n \in asked /\ n \in Names \ S
      BY <1>1, <1>4 DEF Inv, TypeOK
    <2>2. procs'[n] = procs[n]
      BY <1>2, <1>3, <2>1
    <2>3. procs[n].pid # NoPid /\ os'[procs[n].pid].st = "alive"
      BY <1>6, <2>2 DEF HasChild
    <2>4. PICK c \in Pids : c = procs[n].pid
      BY <1>4, <2>1, <2>3, Typing DEF Inv
    <2>5. owner'[c] = n
      BY <1>4, <2>1, <2>2, <2>3, <2>4 DEF Inv, Links
    <2>6. os'[c] = os[c]
      BY <1>2, <1>3, <2>1, <2>5
    <2>7. HasChild(n) /\ os'[procs[n].pid].age = os[procs[n].pid].age
      BY <2>3, <2>4, <2>6 DEF HasChild
    <2> QED
      BY <1>1, <2>1, <2>2, <2>7, GraceKept
  <1>7. Grace'
    BY <1>6 DEF Grace
  <1> QED
    BY <1>2, <1>3, <1>5, <1>7

\* stop(): the wait that begins is longer than the grace of the programs it is for.
LEMMA StopEachGrace ==
  ASSUME GInv, NEW S \in SUBSET Names, StopEach(S)
  PROVE  /\ CfgKept'
         /\ \A n \in Names : procs'[n].pid = procs[n].pid /\ procs'[n].cfg = procs[n].cfg
         /\ \A c \in Pids : \/ os'[c] = os[c]
                            \/ /\ owner[c] \in S /\ procs[owner[c]].pid = c
                               /\ os'[c] = Signalled(os[c], StopSignal(procs[owner[c]].cfg))
         /\ \A n \in Names \ S : procs[n].pid # NoPid => os'[procs[n].pid] = os[procs[n].pid]
  <1>1. Inv
    BY DEF GInv
  <1>2. /\ \A n \in S : procs'[n].pid = procs[n].pid /\ procs'[n].cfg = procs[n].cfg
        /\ \A n \in Names \ S : procs'[n] = procs[n]
        /\ \A c \in Pids : \/ os'[c] = os[c]
                           \/ /\ owner[c] \in S /\ procs[owner[c]].pid = c
                              /\ os'[c] = Signalled(os[c], StopSignal(procs[owner[c]].cfg))
    BY <1>1, StopEachShape
  <1>3. \A n \in Names : procs'[n].pid = procs[n].pid /\ procs'[n].cfg = procs[n].cfg
    BY <1>2
  <1>4. \A n \in Names \ S : procs[n].pid # NoPid => os'[procs[n].pid] = os[procs[n].pid]
    BY <1>1, <1>2, Typing DEF Inv, Links
  <1> QED
    BY <1>2, <1>3, <1>4 DEF GInv, CfgKept

\* stopProcess and stopAllProcesses: the wait that begins is longer than the grace of
\* the programs that are signalled; one that is for another program gives nobody up.
LEMMA StopRequestGrace ==
  ASSUME GInv, StopAll \/ \E n \in Names : StopProcess(n)
  PROVE  Grace'
  <1>1. Inv /\ stack \in Seq(Frames)
    BY DEF GInv, Inv, TypeOK
  <1>2. Inv'
    BY <1>1, StopRequestInv
  <1> SUFFICES ASSUME NEW n \in asked', HasChild(n)'
               PROVE  Graced(os'[procs'[n].pid].age, stack', n, procs'[n].cfg.stopwaitsecs)
    BY DEF Grace
  <1>3. n \in Names /\ procs'[n].pid # NoPid /\ os'[procs'[n].pid].st = "alive"
    BY <1>2 DEF Inv, TypeOK, HasChild
  <1>4. procs'[n] \in Processes /\ os' \in [Pids -> Children] /\ procs'[n].pid \in Pids
    BY <1>2, <1>3 DEF Inv, TypeOK, Processes
  <1>5. PICK age \in Nat : age = os'[procs'[n].pid].age
    <2>1. PICK k \in Children : k = os'[procs'[n].pid]
      BY <1>4
    <2>2. k.age \in Nat
      BY DEF Children
    <2> QED
      BY <2>1, <2>2
  <1>6. ASSUME NEW frame \in Frames, stack' = Append(stack, frame), Covers(frame, n),
               frame.left >= procs[n].cfg.stopwaitsecs + 1,
               procs'[n].cfg = procs[n].cfg
        PROVE  Graced(os'[procs'[n].pid].age, stack', n, procs'[n].cfg.stopwaitsecs)
    <2>1. PICK w \in Int : w = procs[n].cfg.stopwaitsecs
      BY <1>1, <1>3, Typing DEF Inv, ProgramConfigs
    <2>2. PICK stk \in Seq(Frames) : stk = stack
      BY <1>1
    <2>3. Graced(age, Append(stk, frame), n, w)
      BY <1>3, <1>6, <2>1, GracedPush
    <2> QED
      BY <1>5, <1>6, <2>1, <2>2, <2>3
  <1>7. CASE StopAll
    <2>1. PICK A \in SUBSET Names : A = {m \in Names : Running(m)}
      <3>1. {m \in Names : Running(m)} \in SUBSET Names
        OBVIOUS
      <3> QED
        BY <3>1
    <2>2. /\ StopEach({m \in A : MayStop(procs[m])})
          /\ A # {} => stack' = Append(stack, [kind |-> "stopall", left |-> StopAllWait(A)])
      BY <1>7, <2>1 DEF StopAll
    <2>3. PICK S \in SUBSET Names : S = {m \in A : MayStop(procs[m])}
      <3>1. {m \in A : MayStop(procs[m])} \in SUBSET Names
        OBVIOUS
      <3> QED
        BY <3>1
    <2>4. procs'[n].pid = procs[n].pid /\ procs'[n].cfg = procs[n].cfg
      BY <1>3, <2>2, <2>3, StopEachGrace
    <2>5. n \in A
      BY <1>1, <1>3, <2>1, <2>4, Typing DEF Inv, Running
    <2>6. PICK left \in Nat : /\ left = StopAllWait(A)
                              /\ left >= procs[n].cfg.stopwaitsecs + 1
      BY <1>1, <2>5, WaitFacts DEF Inv
    <2>7. PICK frame \in Frames : frame = [kind |-> "stopall", left |-> left]
      BY DEF Frames
    <2>8. /\ stack' = Append(stack, frame) /\ Covers(frame, n)
          /\ frame.left >= procs[n].cfg.stopwaitsecs + 1
      BY <2>2, <2>5, <2>6, <2>7 DEF Covers
    <2> QED
      BY <1>6, <2>4, <2>8
  <1>8. ASSUME NEW m \in Names, StopProcess(m)
        PROVE  Graced(os'[procs'[n].pid].age, stack', n, procs'[n].cfg.stopwaitsecs)
    <2>1. /\ StopEach({m}) /\ asked' = asked \cup {m}
          /\ stack' = Append(stack, [kind |-> "stop", name |-> m, left |-> StopWait(procs[m])])
      BY <1>8 DEF StopProcess
    <2>2. PICK S \in SUBSET Names : S = {m}
      OBVIOUS
    <2>3. /\ procs'[n].pid = procs[n].pid /\ procs'[n].cfg = procs[n].cfg
          /\ n \notin S => os'[procs[n].pid] = os[procs[n].pid]
      BY <1>3, <2>1, <2>2, StopEachGrace
    <2>4. PICK left \in Nat : /\ left = StopWait(procs[m])
                              /\ left >= procs[m].cfg.stopwaitsecs + 1
      BY <1>1, WaitFacts DEF Inv
    <2>5. PICK frame \in Frames : frame = [kind |-> "stop", name |-> m, left |-> left]
      BY DEF Frames
    <2>6. stack' = Append(stack, frame)
      BY <2>1, <2>4, <2>5
    <2>7. CASE n = m
      <3>1. Covers(frame, n) /\ frame.left >= procs[n].cfg.stopwaitsecs + 1
        BY <2>4, <2>5, <2>7 DEF Covers
      <3> QED
        BY <1>6, <2>3, <2>6, <3>1
    <2>8. CASE n # m
      <3>1. n \in asked /\ HasChild(n) /\ age = os[procs[n].pid].age
        BY <1>3, <1>5, <2>1, <2>2, <2>3, <2>8 DEF HasChild
      <3>2. Graced(os[procs[n].pid].age, stack, n, procs[n].cfg.stopwaitsecs)
        BY <3>1 DEF GInv, Grace
      <3>3. ~Covers(frame, n)
        BY <2>5, <2>8 DEF Covers
      <3>4. PICK w \in Int : w = procs[n].cfg.stopwaitsecs
        BY <1>1, <1>3, Typing DEF Inv, ProgramConfigs
      <3>5. PICK stk \in Seq(Frames) : stk = stack
        BY <1>1
      <3>6. Graced(age, stk, n, w)
        BY <3>1, <3>2, <3>4, <3>5
      <3>7. Graced(age, Append(stk, frame), n, w)
        BY <1>3, <3>3, <3>6, GracedPush
      <3> QED
        BY <1>5, <2>3, <2>6, <3>4, <3>5, <3>7
    <2> QED
      BY <2>7, <2>8
  <1> QED
    BY <1>7, <1>8

\* The end of a wait: a program is given up, or killed, only when it has had its grace.
LEMMA ReturnGrace ==
  ASSUME GInv, Return
  PROVE  /\ Grace' /\ CfgKept'
         /\ \A n \in asked : HasChild(n) /\ os'[procs[n].pid] # os[procs[n].pid] =>
              os[procs[n].pid].age >= procs[n].cfg.stopwaitsecs
  <1>1. Inv /\ Kin /\ stack \in Seq(Frames)
    BY DEF GInv, Inv, TypeOK
  <1>2. PICK frame \in Frames : frame = stack[Len(stack)]
    <2>1. stack # <<>>
      BY DEF Return
    <2> QED
      BY <1>1, <2>1
  <1>3. PICK left : left = Remaining(frame)
    OBVIOUS
  <1>4. /\ stack # <<>> /\ stack' = SubSeq(stack, 1, Len(stack) - 1)
        /\ WaitOver(frame) /\ asked' = asked
        /\ \A n \in Names :
             IF n \in left
             THEN /\ procs'[n].state = "STOPPED" /\ procs'[n].pid = NoPid
                  /\ procs'[n].cfg = procs[n].cfg
             ELSE procs'[n] = procs[n]
        /\ \A c \in Pids :
             \/ os'[c] = Free /\ owner[c] \in left /\ procs[owner[c]].pid = c
             \/ /\ os'[c] = os[c] /\ owner'[c] = owner[c]
                /\ \A n \in left : procs[n].pid # c
    <2>1. /\ stack # <<>> /\ stack' = SubSeq(stack, 1, Len(stack) - 1)
          /\ WaitOver(stack[Len(stack)]) /\ asked' = asked
          /\ \A n \in Names :
               IF n \in Remaining(stack[Len(stack)])
               THEN /\ procs'[n].state = "STOPPED" /\ procs'[n].pid = NoPid
                    /\ procs'[n].cfg = procs[n].cfg
               ELSE procs'[n] = procs[n]
          /\ \A c \in Pids :
               \/ /\ os'[c] = Free /\ owner[c] \in Remaining(stack[Len(stack)])
                  /\ procs[owner[c]].pid = c
               \/ /\ os'[c] = os[c] /\ owner'[c] = owner[c]
                  /\ \A n \in Remaining(stack[Len(stack)]) : procs[n].pid # c
      BY <1>1, ReturnShape, Zenon
    <2> QED
      BY <1>2, <1>3, <2>1, Zenon
  <1>5. ASSUME NEW n \in asked, HasChild(n)
        PROVE  /\ Graced(os[procs[n].pid].age, SubSeq(stack, 1, Len(stack) - 1), n,
                         procs[n].cfg.stopwaitsecs)
               /\ Covers(frame, n) =>
                    os[procs[n].pid].age >= procs[n].cfg.stopwaitsecs
    <2>1. /\ n \in Names /\ procs[n].pid \in Pids
          /\ os[procs[n].pid].age \in 0..MaxElapsed
          /\ procs[n].cfg.stopwaitsecs \in Int
      BY <1>1, <1>5, AskedFacts
    <2>2. Covers(frame, n) => frame.left = 0
      <3>1. Running(n)
        BY <2>1, PidFacts DEF Running
      <3>2. Covers(frame, n) => KeepWaiting(frame)
        BY <2>1, <3>1 DEF Covers, KeepWaiting
      <3> QED
        BY <1>4, <3>2 DEF WaitOver
    <2>3. PICK age \in Nat, w \in Int :
            age = os[procs[n].pid].age /\ w = procs[n].cfg.stopwaitsecs
      BY <2>1
    <2>4. PICK stk \in Seq(Frames) : stk = stack
      BY <1>1
    <2>5. Graced(age, stk, n, w)
      BY <1>5, <2>3, <2>4 DEF GInv, Grace
    <2>6. /\ Graced(age, SubSeq(stk, 1, Len(stk) - 1), n, w)
          /\ Covers(stk[Len(stk)], n) => age >= w
      BY <1>2, <1>4, <2>1, <2>2, <2>4, <2>5, GracedPop
    <2> QED
      BY <1>2, <2>3, <2>4, <2>6
  <1>6. CfgKept'
    BY <1>4 DEF GInv, CfgKept
  <1>7. ASSUME NEW n \in asked', HasChild(n)'
        PROVE  Graced(os'[procs'[n].pid].age, stack', n, procs'[n].cfg.stopwaitsecs)
    <2>1. n \in asked /\ n \in Names
      BY <1>1, <1>4 DEF Inv, TypeOK
    <2>2. procs'[n] = procs[n] /\ procs[n].pid # NoPid /\ os'[procs[n].pid].st = "alive"
      BY <1>4, <1>7, <2>1 DEF HasChild
    <2>3. PICK c \in Pids : c = procs[n].pid
      BY <1>1, <2>1, <2>2, Typing DEF Inv
    <2>4. os'[c] = os[c]
      BY <1>4, <2>2, <2>3, ChildFacts
    <2>5. HasChild(n)
      BY <2>2, <2>3, <2>4 DEF HasChild
    <2> QED
      BY <1>4, <1>5, <2>1, <2>2, <2>3, <2>4, <2>5
  <1>8. ASSUME NEW n \in asked, HasChild(n), os'[procs[n].pid] # os[procs[n].pid]
        PROVE  os[procs[n].pid].age >= procs[n].cfg.stopwaitsecs
    <2>1. procs[n].pid \in Pids
      BY <1>1, <1>8, AskedFacts
    <2>2. left # {}
      BY <1>4, <1>8, <2>1
    <2>3. Covers(frame, n)
      BY <1>3, <2>2 DEF Remaining, Covers
    <2> QED
      BY <1>5, <1>8, <2>3
  <1> QED
    BY <1>6, <1>7, <1>8 DEF Grace

\* on_timer_ sends SIGKILL to a child that has had the stop signal for stopwaitsecs, and
\* leaves its clock alone.
LEMMA OnTimerGrace ==
  ASSUME GInv, OnTimer
  PROVE  /\ Grace' /\ CfgKept'
         /\ \A n \in asked : HasChild(n) /\ os'[procs[n].pid] # os[procs[n].pid] =>
              /\ os'[procs[n].pid].st = "alive"
              /\ os[procs[n].pid].age >= procs[n].cfg.stopwaitsecs
  <1>1. Inv /\ Kin /\ asked' = asked /\ stack' = stack
    BY DEF GInv, OnTimer
  <1>2. Inv'
    BY <1>1, OnTimerInv
  <1>3. /\ \A c \in Pids : os[c].st = "alive" =>
             os'[c] = os[c] \/ os'[c] = Signalled(os[c], "KILL")
        /\ \A c \in Pids : os[c].st = "alive" /\ os'[c] # os[c] =>
             \E m \in Names : StopTimedOut(procs[m]) /\ procs[m].pid = c
        /\ \A c \in Pids : os'[c].st = "alive" => os[c].st \in {"free", "alive"}
        /\ \A n \in Names : procs[n].state \in {"STOPPING", "STOPPED"} => procs'[n] = procs[n]
        /\ \A n \in Names : procs'[n].cfg = procs[n].cfg
    BY <1>1, OnTimerKin
  <1>4. CfgKept'
    BY <1>3 DEF GInv, CfgKept
  <1>5. "KILL" \in SignalNames
    BY DEF SignalNames
  <1>6. ASSUME NEW n \in asked, HasChild(n)
        PROVE  /\ os'[procs[n].pid].age = os[procs[n].pid].age
               /\ os'[procs[n].pid].st = "alive"
               /\ os'[procs[n].pid] # os[procs[n].pid] =>
                    os[procs[n].pid].age >= procs[n].cfg.stopwaitsecs
    <2>1. /\ n \in Names /\ procs[n].state = "STOPPING"
          /\ procs[n].pid \in Pids /\ owner[procs[n].pid] = n
          /\ os[procs[n].pid] \in Children /\ os[procs[n].pid].sig # "none"
          /\ os[procs[n].pid].age >= procs[n].elapsed
          /\ os[procs[n].pid].age \in 0..MaxElapsed
          /\ procs[n].cfg.stopwaitsecs \in Int
      BY <1>1, <1>6, AskedFacts
    <2>2. PICK c \in Pids, k \in Children : c = procs[n].pid /\ k = os[c]
      BY <2>1
    <2>3. k.st = "alive" /\ k.sig # "none"
      BY <1>6, <2>1, <2>2 DEF HasChild
    <2>4. Signalled(k, "KILL").age = k.age /\ Signalled(k, "KILL").st = k.st
      BY <1>5, <2>3, SignalledFacts
    <2>5. os'[c].age = k.age /\ os'[c].st = "alive"
      BY <1>3, <2>2, <2>3, <2>4
    <2>6. ASSUME os'[c] # os[c] PROVE k.age >= procs[n].cfg.stopwaitsecs
      <3>1. PICK m \in Names : StopTimedOut(procs[m]) /\ procs[m].pid = c
        BY <1>3, <2>2, <2>3, <2>6
      <3>2. m = n
        BY <1>1, <2>1, <2>2, <3>1, PidFacts DEF Inv, Links
      <3>3. procs[n].elapsed >= procs[n].cfg.stopwaitsecs
        BY <3>1, <3>2 DEF StopTimedOut
      <3>4. procs[n].elapsed \in Int
        BY <1>1, <2>1, Typing DEF Inv, Processes
      <3> QED
        BY <2>1, <2>2, <3>3, <3>4
    <2> QED
      BY <2>2, <2>5, <2>6
  <1>7. ASSUME NEW n \in asked', HasChild(n)'
        PROVE  Graced(os'[procs'[n].pid].age, stack', n, procs'[n].cfg.stopwaitsecs)
    <2>1. n \in asked /\ n \in Names /\ procs[n].state \in {"STOPPING", "STOPPED"}
      BY <1>1 DEF Inv, TypeOK, StaysStopped
    <2>2. procs'[n] = procs[n] /\ procs[n].pid # NoPid /\ os'[procs[n].pid].st = "alive"
      BY <1>3, <1>7, <2>1 DEF HasChild
    <2>3. PICK c \in Pids : c = procs[n].pid
      BY <1>1, <2>1, <2>2, Typing DEF Inv
    <2>4. os[c].st # "free"
      BY <1>1, <2>1, <2>2, <2>3 DEF Inv, Links, Unowned
    <2>5. HasChild(n)
      BY <1>3, <2>2, <2>3, <2>4 DEF HasChild
    <2> QED
      BY <1>1, <1>6, <2>1, <2>2, <2>5, GraceKept
  <1> QED
    BY <1>4, <1>6, <1>7 DEF Grace

\* handle_sigchld_ and the end of a child.
LEMMA ExitGrace ==
  ASSUME GInv, HandleSigchld \/ \E c \in Pids : ChildExits(c)
  PROVE  /\ Grace' /\ CfgKept'
         /\ \A c \in Pids : os[c].st = "alive" =>
              os'[c].st # "free" /\ os'[c].sig = os[c].sig
  <1>1. /\ stack' = stack /\ asked' = asked
        /\ \A n \in Names : procs'[n].cfg = procs[n].cfg
        /\ \A n \in Names : procs'[n] = procs[n] \/ procs'[n].pid = NoPid
        /\ \A c \in Pids : os'[c].st = "alive" => os'[c] = os[c]
        /\ \A c \in Pids : os[c].st = "alive" =>
             os'[c].st # "free" /\ os'[c].sig = os[c].sig
    <2>1. CASE HandleSigchld
      <3>1. Inv
        BY DEF GInv
      <3>2. /\ stack' = stack /\ asked' = asked
            /\ \A n \in Names : procs'[n].cfg = procs[n].cfg
            /\ \A n \in Names : procs'[n] = procs[n] \/ procs'[n].pid = NoPid
            /\ \A c \in Pids : os'[c].st = "alive" => os[c].st = "alive"
            /\ \A c \in Pids : os[c].st = "alive" => os'[c] = os[c]
        BY <2>1, <3>1, HandleSigchldShape
      <3> QED
        BY <3>2
    <2>2. ASSUME NEW d \in Pids, ChildExits(d)
          PROVE  /\ stack' = stack /\ asked' = asked /\ procs' = procs
                 /\ \A c \in Pids : os'[c].st = "alive" => os'[c] = os[c]
                 /\ \A c \in Pids : os[c].st = "alive" =>
                      os'[c].st # "free" /\ os'[c].sig = os[c].sig
      <3>1. /\ stack' = stack /\ asked' = asked /\ procs' = procs
            /\ os \in [Pids -> Children] /\ os' = [os EXCEPT ![d].st = "zombie"]
        BY <2>2 DEF ChildExits, GInv, Inv, TypeOK
      <3>2. \A c \in Pids : \/ os'[c] = os[c]
                            \/ os'[c] = [os[c] EXCEPT !.st = "zombie"]
        BY <3>1
      <3>3. \A k \in Children : /\ [k EXCEPT !.st = "zombie"].st = "zombie"
                                /\ [k EXCEPT !.st = "zombie"].sig = k.sig
        BY DEF Children
      <3> QED
        BY <3>1, <3>2, <3>3
    <2> QED
      BY <2>1, <2>2
  <1>2. CfgKept'
    BY <1>1 DEF GInv, CfgKept
  <1>3. ASSUME NEW n \in asked', HasChild(n)'
        PROVE  Graced(os'[procs'[n].pid].age, stack', n, procs'[n].cfg.stopwaitsecs)
    <2>1. n \in asked /\ n \in Names
      BY <1>1 DEF GInv, Inv, TypeOK
    <2>2. procs'[n] = procs[n] /\ procs[n].pid # NoPid /\ os'[procs[n].pid].st = "alive"
      BY <1>1, <1>3, <2>1 DEF HasChild
    <2>3. PICK c \in Pids : c = procs[n].pid
      BY <2>1, <2>2, Typing DEF GInv, Inv
    <2>4. os'[c] = os[c]
      BY <1>1, <2>2, <2>3
    <2>5. HasChild(n) /\ os'[procs[n].pid].age = os[procs[n].pid].age
      BY <2>2, <2>3, <2>4 DEF HasChild
    <2> QED
      BY <1>1, <2>1, <2>2, <2>5, GraceKept
  <1> QED
    BY <1>1, <1>2, <1>3 DEF Grace

\* A second: the waits come closer to their end as the child comes closer to its grace.
LEMMA SecondGrace ==
  ASSUME GInv, Second
  PROVE  /\ Grace' /\ CfgKept'
         /\ \A c \in Pids : os'[c].st = os[c].st /\ os'[c].sig = os[c].sig
  <1>1. /\ Inv /\ Kin /\ CfgKept /\ stack \in Seq(Frames) /\ asked' = asked
        /\ os \in [Pids -> Children]
    BY DEF GInv, Inv, TypeOK, Second
  <1>2. /\ \A n \in Names : procs'[n] = [procs[n] EXCEPT !.elapsed = Ticked(procs[n].elapsed)]
        /\ \A c \in Pids : os'[c] = Aged(os[c])
        /\ stack' = [i \in DOMAIN stack |->
             [stack[i] EXCEPT !.left = IF stack[i].left = 0 THEN 0 ELSE stack[i].left - 1]]
    BY DEF Second
  <1>3. \A n \in Names : procs'[n].pid = procs[n].pid /\ procs'[n].cfg = procs[n].cfg
    BY <1>1, <1>2, Typing, ElapsedFacts DEF Inv
  <1>4. \A c \in Pids : /\ os'[c].st = os[c].st /\ os'[c].sig = os[c].sig
                        /\ os[c].st = "alive" => os'[c].age = Ticked(os[c].age)
    <2> SUFFICES ASSUME NEW c \in Pids
                 PROVE  /\ os'[c].st = os[c].st /\ os'[c].sig = os[c].sig
                        /\ os[c].st = "alive" => os'[c].age = Ticked(os[c].age)
      OBVIOUS
    <2>1. os[c] \in Children
      BY <1>1
    <2>2. /\ Aged(os[c]).st = os[c].st /\ Aged(os[c]).sig = os[c].sig
          /\ Aged(os[c]).age = IF os[c].st = "alive" THEN Ticked(os[c].age) ELSE os[c].age
      BY <2>1, ChildFacts
    <2> QED
      BY <1>2, <2>2
  <1>5. CfgKept'
    BY <1>1, <1>3 DEF CfgKept
  <1>6. ASSUME NEW n \in asked', HasChild(n)'
        PROVE  Graced(os'[procs'[n].pid].age, stack', n, procs'[n].cfg.stopwaitsecs)
    <2>1. n \in asked /\ n \in Names
      BY <1>1 DEF Inv, TypeOK
    <2>2. procs[n].pid # NoPid /\ os'[procs[n].pid].st = "alive"
      BY <1>3, <1>6, <2>1 DEF HasChild
    <2>3. PICK c \in Pids : c = procs[n].pid
      BY <1>1, <2>1, <2>2, Typing DEF Inv
    <2>4. os[c].st = "alive" /\ HasChild(n)
      BY <1>4, <2>2, <2>3 DEF HasChild
    <2>5. os[c].age \in 0..MaxElapsed /\ procs[n].cfg.stopwaitsecs \in Int
      BY <1>1, <2>1, <2>3, <2>4, AskedFacts
    <2>6. procs[n].cfg.stopwaitsecs <= MaxElapsed
      BY <1>1, <2>1, ClockAssumption DEF CfgKept
    <2>7. PICK age \in 0..MaxElapsed, w \in Int : age = os[c].age /\ w = procs[n].cfg.stopwaitsecs
      BY <2>5
    <2>8. PICK stk \in Seq(Frames) : stk = stack
      BY <1>1
    <2>9. Graced(age, stk, n, w)
      BY <2>1, <2>3, <2>4, <2>7, <2>8 DEF GInv, Grace
    <2>10. Graced(Ticked(age),
                  [i \in DOMAIN stk |->
                     [stk[i] EXCEPT !.left = IF stk[i].left = 0 THEN 0 ELSE stk[i].left - 1]],
                  n, w)
      BY <2>1, <2>6, <2>7, <2>9, GracedSecond
    <2>11. stack' = [i \in DOMAIN stk |->
                      [stk[i] EXCEPT !.left = IF stk[i].left = 0 THEN 0 ELSE stk[i].left - 1]]
      BY <1>2, <2>8
    <2>12. /\ procs'[n].pid = c /\ procs'[n].cfg.stopwaitsecs = w /\ os'[c].age = Ticked(age)
      BY <1>3, <1>4, <2>1, <2>3, <2>4, <2>7
    <2> QED
      BY <2>10, <2>11, <2>12, Zenon
  <1> QED
    BY <1>4, <1>5, <1>6 DEF Grace

\* What KillAfterGrace says of one step.
GraceStep ==
  \A n \in asked :
    LET c == procs[n].pid
    IN  c > 0 /\ os[c].st = "alive" /\ SentKill(c)
          => \/ procs[n].cfg.stopsignal = "KILL"
             \/ os[c].sig # "none" /\ os[c].age >= procs[n].cfg.stopwaitsecs

\* Every step keeps the grace, and a SIGKILL comes after it.
LEMMA NextGrace ==
  ASSUME GInv, [Next]_vars
  PROVE  Grace' /\ CfgKept' /\ GraceStep
  <1>1. Inv /\ Kin
    BY DEF GInv
  <1>2. ASSUME NEW n \in asked, procs[n].pid > 0, os[procs[n].pid].st = "alive"
        PROVE  /\ HasChild(n) /\ procs[n].pid \in Pids /\ os[procs[n].pid].sig # "none"
               /\ os[procs[n].pid] \in Children
               /\ n \in Names /\ owner[procs[n].pid] = n
    <2>1. HasChild(n)
      BY <1>2 DEF HasChild, NoPid
    <2> QED
      BY <1>1, <2>1, AskedFacts
  <1>3. CASE StartAll \/ \E n \in Names : StartProcess(n)
    <2>1. /\ Grace' /\ CfgKept'
          /\ \A c \in Pids : os[c].st = "alive" => os'[c] = os[c]
      BY <1>3, StartRequestGrace
    <2> QED
      BY <1>2, <2>1 DEF GraceStep, SentKill
  <1>4. CASE StopAll \/ \E n \in Names : StopProcess(n)
    <2>1. PICK S \in SUBSET Names : StopEach(S)
      <3>1. CASE StopAll
        <4> DEFINE S == {n \in {m \in Names : Running(m)} : MayStop(procs[n])}
        <4>1. StopEach(S) /\ S \in SUBSET Names
          BY <3>1 DEF StopAll
        <4> QED
          BY <4>1
      <3>2. ASSUME NEW n \in Names, StopProcess(n) PROVE \E S \in SUBSET Names : StopEach(S)
        <4>1. StopEach({n}) /\ {n} \in SUBSET Names
          BY <3>2 DEF StopProcess
        <4> QED
          BY <4>1
      <3> QED
        BY <1>4, <3>1, <3>2
    <2>2. /\ CfgKept'
          /\ \A c \in Pids : \/ os'[c] = os[c]
                             \/ /\ owner[c] \in S /\ procs[owner[c]].pid = c
                                /\ os'[c] = Signalled(os[c], StopSignal(procs[owner[c]].cfg))
      BY <2>1, StopEachGrace
    <2>3. ASSUME NEW n \in asked, procs[n].pid > 0, os[procs[n].pid].st = "alive",
                 SentKill(procs[n].pid)
          PROVE  procs[n].cfg.stopsignal = "KILL"
      <3>1. /\ HasChild(n) /\ procs[n].pid \in Pids /\ os[procs[n].pid] \in Children
            /\ owner[procs[n].pid] = n
        BY <1>2, <2>3
      <3>2. PICK c \in Pids, k \in Children : c = procs[n].pid /\ k = os[c]
        BY <3>1, Zenon
      <3>3. PICK sig \in SignalNames : sig = StopSignal(procs[n].cfg)
        BY StopSignalFacts
      <3>4. os'[c] = k \/ os'[c] = Signalled(k, sig)
        BY <2>2, <3>1, <3>2, <3>3
      <3>5. Signalled(k, sig).st = k.st /\ Signalled(k, sig).sig \in {k.sig, sig}
        BY SignalledFacts
      <3>6. k.st = "alive" /\ (os'[c].st = "free" \/ (os'[c].sig = "KILL" /\ k.sig # "KILL"))
        <4>1. SentKill(c) /\ os[c].st = "alive"
          BY <2>3, <3>2, Zenon
        <4> QED
          BY <3>2, <4>1, Zenon DEF SentKill
      <3>7. sig = "KILL"
        BY <3>4, <3>5, <3>6
      <3> QED
        BY <3>3, <3>7 DEF StopSignal
    <2>4. GraceStep
      BY <2>3 DEF GraceStep
    <2> QED
      BY <1>4, <2>2, <2>4, StopRequestGrace
  <1>5. CASE Return
    <2>1. /\ Grace' /\ CfgKept'
          /\ \A n \in asked : HasChild(n) /\ os'[procs[n].pid] # os[procs[n].pid] =>
               os[procs[n].pid].age >= procs[n].cfg.stopwaitsecs
      BY <1>5, ReturnGrace
    <2> QED
      BY <1>2, <2>1 DEF GraceStep, SentKill
  <1>6. CASE OnTimer
    <2>1. /\ Grace' /\ CfgKept'
          /\ \A n \in asked : HasChild(n) /\ os'[procs[n].pid] # os[procs[n].pid] =>
               /\ os'[procs[n].pid].st = "alive"
               /\ os[procs[n].pid].age >= procs[n].cfg.stopwaitsecs
      BY <1>6, OnTimerGrace
    <2> QED
      BY <1>2, <2>1 DEF GraceStep, SentKill
  <1>7. CASE HandleSigchld \/ \E c \in Pids : ChildExits(c)
    <2>1. /\ Grace' /\ CfgKept'
          /\ \A c \in Pids : os[c].st = "alive" =>
               os'[c].st # "free" /\ os'[c].sig = os[c].sig
      BY <1>7, ExitGrace
    <2> QED
      BY <1>2, <2>1 DEF GraceStep, SentKill
  <1>8. CASE Second
    <2>1. /\ Grace' /\ CfgKept'
          /\ \A c \in Pids : os'[c].st = os[c].st /\ os'[c].sig = os[c].sig
      BY <1>8, SecondGrace
    <2> QED
      BY <1>2, <2>1 DEF GraceStep, SentKill
  <1>9. CASE UNCHANGED vars
    <2>1. procs' = procs /\ os' = os /\ stack' = stack /\ asked' = asked
      BY <1>9 DEF vars
    <2>2. Grace' /\ CfgKept'
      BY <2>1 DEF GInv, Grace, CfgKept, HasChild
    <2>3. GraceStep
      BY <2>1 DEF GraceStep, SentKill
    <2> QED
      BY <2>2, <2>3
  <1> QED
    BY <1>3, <1>4, <1>5, <1>6, <1>7, <1>8, <1>9 DEF Next

\* A program that was asked to stop is killed, by the timer or by stop_all, only when
\* stopwaitsecs have passed since its stop signal, for any nesting of the waits.
THEOREM GraceIsGiven == Spec => KillAfterGrace
  <1>1. Init => CfgKept /\ Grace
    <2> SUFFICES ASSUME Init PROVE CfgKept /\ Grace
      OBVIOUS
    <2>1. \A n \in Names : \E cfg \in Configs : procs[n] = Created(cfg)
      BY DEF Init
    <2> QED
      BY <2>1 DEF Init, CfgKept, Grace, Created
  <1>2. Inv /\ Kin /\ CfgKept /\ Grace /\ [Next]_vars => CfgKept' /\ Grace'
    BY NextGrace DEF GInv
  <1>3. Inv /\ Kin /\ CfgKept /\ Grace /\ [Next]_vars => [GraceStep]_vars
    BY NextGrace DEF GInv
  <1> QED
    BY <1>1, <1>2, <1>3, ChildrenAccounted, PTL DEF Spec, KillAfterGrace, GraceStep
=============================================================================
