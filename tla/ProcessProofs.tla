--------------------------- MODULE ProcessProofs ---------------------------
(***************************************************************************)
(* What holds of Process for every set of process ids, configurations and  *)
(* bounds.                                                                 *)
(***************************************************************************)
EXTENDS Process, TLAPS

USE PidsAssumption, TimeAssumption, ConfigsAssumption, MaxRetryAssumption

-----------------------------------------------------------------------------
(***************************************************************************)
(* Facts about the methods.                                                *)
(***************************************************************************)

\* set_state_ keeps the object well formed and changes only state and elapsed.
LEMMA SetStateFacts ==
  ASSUME NEW p \in Processes, NEW s \in States
  PROVE  /\ SetState(p, s) \in Processes
         /\ SetState(p, s).state = s
         /\ SetState(p, s).pid = p.pid
         /\ SetState(p, s).retry_count = p.retry_count
         /\ SetState(p, s).cfg = p.cfg
         /\ SetState(p, s).elapsed = IF s = p.state THEN p.elapsed ELSE 0
  <1>1. CASE s = p.state
    BY <1>1 DEF SetState
  <1>2. CASE s # p.state
    <2>1. SetState(p, s) = [p EXCEPT !.state = s, !.elapsed = 0]
      BY <1>2 DEF SetState
    <2>2. 0 \in 0..MaxElapsed
      OBVIOUS
    <2> QED
      BY <1>2, <2>1, <2>2 DEF Processes
  <1> QED
    BY <1>1, <1>2

\* What a failed attempt leaves behind.
LEMMA AttemptFailedFacts ==
  ASSUME NEW p \in Processes
  PROVE  LET q == AttemptFailed(p)
         IN  /\ q \in Processes
             /\ q.pid = p.pid
             /\ q.cfg = p.cfg
             /\ q.retry_count = p.retry_count + 1
             /\ q.state = IF q.retry_count >= p.cfg.startretries
                          THEN "FATAL" ELSE "BACKOFF"
             /\ q.elapsed = IF q.state = p.state THEN p.elapsed ELSE 0
  <1> DEFINE n == p.retry_count + 1
             r == [p EXCEPT !.retry_count = n]
             s == IF n >= p.cfg.startretries THEN "FATAL" ELSE "BACKOFF"
  <1>1. r \in Processes /\ s \in States
    BY DEF Processes, States
  <1>2. AttemptFailed(p) = SetState(r, s)
    BY DEF AttemptFailed
  <1>3. /\ r.pid = p.pid /\ r.cfg = p.cfg /\ r.retry_count = n
        /\ r.state = p.state /\ r.elapsed = p.elapsed
    BY DEF Processes
  <1> HIDE DEF r, s, n
  <1>4. /\ SetState(r, s) \in Processes
        /\ SetState(r, s).state = s
        /\ SetState(r, s).pid = r.pid
        /\ SetState(r, s).retry_count = r.retry_count
        /\ SetState(r, s).cfg = r.cfg
        /\ SetState(r, s).elapsed = IF s = r.state THEN r.elapsed ELSE 0
    BY <1>1, SetStateFacts
  <1> QED
    BY <1>2, <1>3, <1>4 DEF s, n

\* A child keeps its type through kill(2).
LEMMA SignalledFacts ==
  ASSUME NEW c \in Children, NEW sig \in SignalNames
  PROVE  LET d == Signalled(c, sig)
         IN  /\ d \in Children
             /\ d.st = c.st
             /\ c.st # "alive" => d = c
             /\ c.st = "alive" => d.sig # "none"
             /\ c.sig # "none" => d.age = c.age
             /\ d.sig \in {c.sig, sig}
  <1>1. CASE c.st # "alive" \/ c.sig = "KILL"
    <2>1. Signalled(c, sig) = c
      BY <1>1 DEF Signalled
    <2> QED
      BY <1>1, <2>1 DEF Children
  <1>2. CASE ~(c.st # "alive" \/ c.sig = "KILL")
    <2> DEFINE a == IF c.sig = "none" THEN 0 ELSE c.age
    <2>1. Signalled(c, sig) = [c EXCEPT !.sig = sig, !.age = a]
      BY <1>2 DEF Signalled, Children
    <2>2. a \in 0..MaxElapsed
      BY DEF Children
    <2>3. sig # "none"
      BY DEF SignalNames
    <2>4. c.sig # "none" => a = c.age
      OBVIOUS
    <2> HIDE DEF a
    <2> QED
      BY <1>2, <2>1, <2>2, <2>3, <2>4 DEF Children
  <1> QED
    BY <1>1, <1>2

\* A clock that saturates moves forward and keeps its order.
LEMMA TickedFacts ==
  ASSUME NEW m \in 0..MaxElapsed, NEW n \in 0..MaxElapsed
  PROVE  /\ Ticked(m) \in 0..MaxElapsed
         /\ Ticked(m) >= m
         /\ m >= n => Ticked(m) >= Ticked(n)
  BY DEF Ticked

\* A second changes nothing of a child but its age.
LEMMA AgedFacts ==
  ASSUME NEW c \in Children
  PROVE  /\ Aged(c) \in Children
         /\ Aged(c).st = c.st /\ Aged(c).sig = c.sig
         /\ Aged(c).age = IF c.st = "alive" THEN Ticked(c.age) ELSE c.age
  <1>1. Ticked(c.age) \in 0..MaxElapsed
    BY DEF Children, Ticked
  <1> QED
    BY <1>1 DEF Aged, Children

\* start() after a successful fork.
LEMMA StartedFacts ==
  ASSUME NEW p \in Processes, NEW child \in Pids
  PROVE  LET q == Start(p, child)
         IN  /\ q \in Processes
             /\ q.state = "STARTING"
             /\ q.pid = child
             /\ q.retry_count = p.retry_count
             /\ q.cfg = p.cfg
             /\ MayStart(p) => q.elapsed = 0
  <1> DEFINE r == [p EXCEPT !.pid = child]
  <1>1. r \in Processes /\ "STARTING" \in States
    BY DEF Processes, States
  <1>2. Start(p, child) = SetState(r, "STARTING")
    BY DEF Start, NoPid
  <1>3. /\ r.pid = child /\ r.cfg = p.cfg /\ r.retry_count = p.retry_count
        /\ r.state = p.state
    BY DEF Processes
  <1> HIDE DEF r
  <1> QED
    BY <1>1, <1>2, <1>3, SetStateFacts DEF MayStart

\* kill()
LEMMA KilledFacts ==
  ASSUME NEW p \in Processes
  PROVE  LET q == Killed(p)
         IN  /\ q \in Processes
             /\ q.state = "STOPPED"
             /\ q.pid = NoPid
             /\ q.retry_count = p.retry_count
             /\ q.cfg = p.cfg
  <1> DEFINE r == [p EXCEPT !.pid = NoPid]
  <1>1. r \in Processes /\ "STOPPED" \in States
    BY DEF Processes, States
  <1>2. r.pid = NoPid /\ r.cfg = p.cfg /\ r.retry_count = p.retry_count
    BY DEF Processes
  <1>3. Killed(p) = SetState(r, "STOPPED")
    BY DEF Killed
  <1> HIDE DEF r
  <1> QED
    BY <1>1, <1>2, <1>3, SetStateFacts

\* on_exit(): the state it leads to, and what it does to the retry budget.
LEMMA OnExitFacts ==
  ASSUME NEW p \in Processes
  PROVE  LET q == OnExit(p)
         IN  /\ q \in Processes
             /\ q.pid = NoPid
             /\ q.cfg = p.cfg
             /\ q.state \in {"STOPPED", "BACKOFF", "EXITED", "FATAL"}
             /\ q.state = "STOPPED" <=> p.state = "STOPPING"
             /\ q.state = "BACKOFF" =>
                  \/ q.retry_count < q.cfg.startretries
                  \/ p.state # "STARTING" /\ q.retry_count = p.retry_count
             /\ q.state = "BACKOFF" /\ p.state # "BACKOFF" => q.elapsed = 0
             /\ q.state = "BACKOFF" => p.state # "FATAL"
             /\ q.state = "FATAL" => q.retry_count >= q.cfg.startretries
             /\ q.state = "EXITED" => ~p.cfg.autorestart \/ p.state = "FATAL"
             /\ q.state \in {"BACKOFF", "FATAL"} => p.cfg.autorestart
             /\ q.state = "FATAL" => p.state = "STARTING"
  <1> DEFINE r == [p EXCEPT !.pid = NoPid]
  <1>1. /\ r \in Processes
        /\ {"STOPPED", "BACKOFF", "EXITED"} \subseteq States
    BY DEF Processes, States
  <1>2. /\ r.pid = NoPid /\ r.cfg = p.cfg /\ r.retry_count = p.retry_count
        /\ r.state = p.state /\ r.elapsed = p.elapsed
    BY DEF Processes
  <1>3. r.retry_count \in Nat /\ r.cfg.startretries \in Int /\ p.cfg.autorestart \in BOOLEAN
    BY <1>1, <1>2 DEF Processes, ProgramConfigs
  <1>4. CASE p.state = "STOPPING"
    <2> DEFINE t == SetState(r, "STOPPED")
    <2>1. OnExit(p) = [t EXCEPT !.retry_count = 0]
      BY <1>4 DEF OnExit
    <2>2. t \in Processes /\ t.state = "STOPPED" /\ t.pid = NoPid /\ t.cfg = p.cfg
      BY <1>1, <1>2, SetStateFacts
    <2> HIDE DEF t
    <2> QED
      BY <1>4, <2>1, <2>2 DEF Processes
  <1>5. CASE p.state = "STARTING" /\ p.cfg.autorestart
    <2>1. OnExit(p) = AttemptFailed(r)
      BY <1>5 DEF OnExit
    <2> HIDE DEF r
    <2> DEFINE q == AttemptFailed(r)
    <2>2. /\ q \in Processes /\ q.pid = r.pid /\ q.cfg = r.cfg
          /\ q.retry_count = r.retry_count + 1
          /\ q.state = IF q.retry_count >= r.cfg.startretries
                       THEN "FATAL" ELSE "BACKOFF"
          /\ q.elapsed = IF q.state = r.state THEN r.elapsed ELSE 0
      BY <1>1, AttemptFailedFacts
    <2> HIDE DEF q
    <2> QED
      BY <1>2, <1>3, <1>5, <2>1, <2>2 DEF q
  <1>6. CASE /\ p.state \notin {"STOPPING", "STARTING", "FATAL"}
             /\ p.cfg.autorestart
    <2>1. OnExit(p) = SetState(r, "BACKOFF")
      BY <1>6 DEF OnExit
    <2> HIDE DEF r
    <2>2. LET q == SetState(r, "BACKOFF")
          IN  /\ q \in Processes /\ q.state = "BACKOFF" /\ q.pid = r.pid
              /\ q.retry_count = r.retry_count /\ q.cfg = r.cfg
              /\ q.elapsed = IF "BACKOFF" = r.state THEN r.elapsed ELSE 0
      BY <1>1, SetStateFacts
    <2> QED
      BY <1>2, <1>6, <2>1, <2>2
  <1>7. CASE p.state # "STOPPING" /\ (~p.cfg.autorestart \/ p.state = "FATAL")
    <2>1. OnExit(p) = SetState(r, "EXITED")
      BY <1>3, <1>7 DEF OnExit
    <2> HIDE DEF r
    <2>2. LET q == SetState(r, "EXITED")
          IN  /\ q \in Processes /\ q.state = "EXITED" /\ q.pid = r.pid
              /\ q.retry_count = r.retry_count /\ q.cfg = r.cfg
              /\ q.elapsed = IF "EXITED" = r.state THEN r.elapsed ELSE 0
      BY <1>1, SetStateFacts
    <2> QED
      BY <1>2, <1>7, <2>1, <2>2
  <1> QED
    BY <1>3, <1>4, <1>5, <1>6, <1>7

\* update() when startsecs have passed.
LEMMA MarkRunningFacts ==
  ASSUME NEW p \in Processes
  PROVE  LET q == MarkRunning(p)
         IN  /\ q \in Processes
             /\ q.state = "RUNNING"
             /\ q.pid = p.pid
             /\ q.retry_count = 0
             /\ q.cfg = p.cfg
  <1> DEFINE t == SetState(p, "RUNNING")
  <1>1. MarkRunning(p) = [t EXCEPT !.retry_count = 0]
    BY DEF MarkRunning
  <1>2. t \in Processes /\ t.state = "RUNNING" /\ t.pid = p.pid /\ t.cfg = p.cfg
    BY SetStateFacts DEF States
  <1> HIDE DEF t
  <1> QED
    BY <1>1, <1>2 DEF Processes

\* The history of failures keeps its type and its clock.
LEMMA FailureFacts ==
  /\ NoFailure \in Failures
  /\ \A p : \A kind \in {"exit", "spawn"} :
       /\ FailureOf(kind, p) \in Failures
       /\ FailureOf(kind, p).kind \in {kind, "none"}
       /\ FailureOf(kind, p).age = 0
  BY DEF NoFailure, FailureOf, Failures

\* What a failed attempt to start, or a tick of the clock after it, leaves of the fields.
LEMMA FailureTickedFacts ==
  ASSUME NEW f \in Failures
  PROVE  /\ FailureTicked(f) \in Failures
         /\ FailureTicked(f).kind = f.kind
         /\ f.kind # "none" => FailureTicked(f).age = Ticked(f.age)
  <1>1. f.age \in 0..MaxElapsed
    BY DEF Failures
  <1>2. Ticked(f.age) \in 0..MaxElapsed
    BY <1>1, TickedFacts
  <1> QED
    BY <1>2 DEF FailureTicked, Failures

-----------------------------------------------------------------------------
(***************************************************************************)
(* The inductive invariant.  RunningSurvivedStartsecs is not inductive by  *)
(* itself: what relates the clock of the object (elapsed) to the clock of  *)
(* the child (age) is missing.                                             *)
(***************************************************************************)
ChildClock ==
  /\ proc.state = "STARTING" =>
       /\ os[proc.pid].sig = "none"
       /\ os[proc.pid].st = "alive" => os[proc.pid].age >= proc.elapsed
  /\ proc.state = "STOPPING" /\ os[proc.pid].st = "alive" =>
       os[proc.pid].sig # "none" /\ os[proc.pid].age >= proc.elapsed

\* A child the object has forgotten, because it was started during a stop, was asked to
\* stop, and so was one whose program failed to start during a stop.
ForgottenWasAsked ==
  \A c \in Pids :
    os[c].st = "alive" /\ (proc.pid # c \/ proc.state \in {"BACKOFF", "FATAL"})
      => os[c].sig # "none"

RestHasNoChild == proc.state \in {"STOPPED", "EXITED"} => proc.pid = NoPid

Inv == /\ TypeOK
       /\ PidSafe
       /\ RetryBudget
       /\ RunningSurvivedStartsecs
       /\ ForgottenWasAsked
       /\ ChildClock
       /\ RestHasNoChild

\* The parts of the type invariant the steps below use.
LEMMA Typing ==
  ASSUME TypeOK
  PROVE  /\ proc \in Processes
         /\ proc.state \in States
         /\ proc.pid \in Pids \cup {NoPid}
         /\ proc.pid > 0 <=> proc.pid # NoPid
         /\ proc.retry_count \in Nat
         /\ proc.elapsed \in 0..MaxElapsed
         /\ proc.cfg.startretries \in Int
         /\ proc.cfg.startsecs \in Int
         /\ proc.cfg.stopwaitsecs \in Int
         /\ \A c \in Pids : os[c] \in Children /\ os[c].age \in 0..MaxElapsed
  <1>1. /\ proc \in Processes
        /\ proc.state \in States
        /\ proc.pid \in Pids \cup {NoPid}
        /\ proc.retry_count \in Nat
        /\ proc.elapsed \in 0..MaxElapsed
        /\ proc.cfg \in ProgramConfigs
    BY DEF TypeOK, Processes
  <1>2. proc.pid > 0 <=> proc.pid # NoPid
    <2>1. CASE proc.pid \in Pids
      <3>1. proc.pid \in Nat \ {0}
        BY <2>1
      <3> QED
        BY <3>1 DEF NoPid
    <2>2. CASE proc.pid = NoPid
      BY <2>2 DEF NoPid
    <2> QED
      BY <1>1, <2>1, <2>2
  <1>3. /\ proc.cfg.startretries \in Int
        /\ proc.cfg.startsecs \in Int
        /\ proc.cfg.stopwaitsecs \in Int
    BY <1>1 DEF ProgramConfigs
  <1>4. \A c \in Pids : os[c] \in Children /\ os[c].age \in 0..MaxElapsed
    BY DEF TypeOK, Children
  <1> QED
    BY <1>1, <1>2, <1>3, <1>4

\* The constructor of Process establishes the invariant.
LEMMA InitInv == Init => Inv
  <1> SUFFICES ASSUME Init PROVE Inv
    OBVIOUS
  <1>1. PICK cfg \in Configs : proc = Created(cfg)
    BY DEF Init
  <1>2. /\ proc \in Processes /\ proc.state = "STOPPED" /\ proc.pid = NoPid
        /\ proc.cfg = cfg
    BY <1>1 DEF Created, Processes, States
  <1>3. os \in [Pids -> Children] /\ \A c \in Pids : os[c].st = "free"
    BY DEF Init, Free, Children
  <1>4. fail \in Failures
    BY FailureFacts DEF Init
  <1> QED
    BY <1>2, <1>3, <1>4 DEF Inv, TypeOK, PidSafe, RetryBudget,
       RunningSurvivedStartsecs, ForgottenWasAsked, ChildClock, RestHasNoChild, NoPid

\* start(), from a request or from the timer.
LEMMA DoStartInv ==
  ASSUME Inv, MayStart(proc), DoStart
  PROVE  Inv'
  <1>1. PICK child \in SpawnResults :
          /\ proc' = Start(proc, child)
          /\ IF child = NoPid
             THEN /\ fail' = FailureOf("spawn", proc')
                  /\ UNCHANGED os
             ELSE /\ fail' = NoFailure
                  /\ os' = [os EXCEPT ![child] = NewChild]
    BY DEF DoStart
  <1> USE Typing DEF Inv
  <1>0. \A c \in Pids : os[c].st = "alive" => os[c].sig # "none"
    <2> SUFFICES ASSUME NEW c \in Pids, os[c].st = "alive", proc.pid = c,
                        proc.state \notin {"BACKOFF", "FATAL"}
                 PROVE  os[c].sig # "none"
      BY DEF ForgottenWasAsked
    <2>1. proc.pid # NoPid
      BY DEF NoPid
    <2>2. proc.state = "STOPPING"
      BY <2>1 DEF MayStart, States, RestHasNoChild
    <2> QED
      BY <2>2 DEF ChildClock
  <1>2. CASE child = NoPid
    <2>1. proc' = AttemptFailed(proc)
      BY <1>1, <1>2 DEF Start
    <2>2. /\ proc' \in Processes
          /\ proc'.pid = proc.pid
          /\ proc'.cfg = proc.cfg
          /\ proc'.retry_count = proc.retry_count + 1
          /\ proc'.state = IF proc'.retry_count >= proc.cfg.startretries
                           THEN "FATAL" ELSE "BACKOFF"
      BY <2>1, AttemptFailedFacts
    <2>3. os' = os /\ fail' \in Failures
      BY <1>1, <1>2, FailureFacts
    <2>4. TypeOK'
      BY <2>2, <2>3 DEF TypeOK
    <2>5. RetryBudget' /\ RestHasNoChild'
      BY <2>2, <2>3 DEF RetryBudget, RestHasNoChild
    <2>6. PidSafe' /\ RunningSurvivedStartsecs' /\ ChildClock'
      BY <2>2, <2>3 DEF PidSafe, RunningSurvivedStartsecs, ChildClock
    <2>7. ForgottenWasAsked'
      BY <1>0, <2>3 DEF ForgottenWasAsked
    <2> QED
      BY <2>4, <2>5, <2>6, <2>7
  <1>3. CASE child # NoPid
    <2>1. child \in Pids /\ os[child].st = "free"
      BY <1>1, <1>3 DEF SpawnResults
    <2>2. /\ proc' \in Processes
          /\ proc'.state = "STARTING"
          /\ proc'.pid = child
          /\ proc'.retry_count = proc.retry_count
          /\ proc'.cfg = proc.cfg
          /\ proc'.elapsed = 0
      BY <1>1, <2>1, StartedFacts
    <2>3. os' = [os EXCEPT ![child] = NewChild] /\ fail' \in Failures
      BY <1>1, <1>3, FailureFacts
    <2>4. NewChild \in Children
      BY DEF NewChild, Children
    <2>5. TypeOK'
      BY <2>2, <2>3, <2>4 DEF TypeOK
    <2>6. /\ os'[child] = NewChild
          /\ \A c \in Pids \ {child} : os'[c] = os[c]
      BY <2>1, <2>3 DEF TypeOK
    <2>7. PidSafe' /\ RetryBudget' /\ RunningSurvivedStartsecs' /\ ChildClock'
      <3>1. child > 0
        BY <2>1
      <3>2. os'[child].st = "alive" /\ os'[child].sig = "none" /\ os'[child].age = 0
        BY <2>6 DEF NewChild
      <3> QED
        BY <2>2, <3>1, <3>2 DEF PidSafe, RetryBudget,
           RunningSurvivedStartsecs, ChildClock
    <2>8. ForgottenWasAsked' /\ RestHasNoChild'
      BY <1>0, <2>2, <2>6 DEF ForgottenWasAsked, RestHasNoChild
    <2> QED
      BY <2>5, <2>7, <2>8
  <1> QED
    BY <1>2, <1>3

\* stop()
LEMMA CallStopInv ==
  ASSUME Inv, CallStop
  PROVE  Inv'
  <1> USE Typing DEF Inv
  <1> DEFINE c == proc.pid
             sig == StopSignal(proc.cfg)
  <1>1. c \in Pids
    BY DEF CallStop, MayStop
  <1>2. /\ proc' \in Processes
        /\ proc'.state = "STOPPING"
        /\ proc'.pid = c
        /\ proc'.retry_count = proc.retry_count
        /\ proc'.cfg = proc.cfg
        /\ proc'.elapsed = IF proc.state = "STOPPING" THEN proc.elapsed ELSE 0
    BY SetStateFacts DEF CallStop, Stop, States
  <1>3. sig \in SignalNames /\ (sig = "KILL" => proc.cfg.stopsignal = "KILL")
    BY DEF StopSignal, SignalNames
  <1>4. /\ os' = [os EXCEPT ![c] = Signalled(os[c], sig)]
        /\ fail' \in Failures
    BY FailureFacts DEF CallStop
  <1> HIDE DEF sig
  <1>5. /\ Signalled(os[c], sig) \in Children
        /\ Signalled(os[c], sig).st = os[c].st
        /\ os[c].st # "alive" => Signalled(os[c], sig) = os[c]
        /\ os[c].st = "alive" => Signalled(os[c], sig).sig # "none"
        /\ os[c].sig # "none" => Signalled(os[c], sig).age = os[c].age
        /\ Signalled(os[c], sig).sig \in {os[c].sig, sig}
    BY <1>1, <1>3, SignalledFacts
  <1>6. TypeOK'
    BY <1>2, <1>4, <1>5 DEF TypeOK
  <1>7. /\ os'[c] = Signalled(os[c], sig)
        /\ \A d \in Pids \ {c} : os'[d] = os[d]
    BY <1>1, <1>4 DEF TypeOK
  <1>8. PidSafe' /\ RetryBudget' /\ RunningSurvivedStartsecs'
    <2>1. proc'.pid > 0 /\ os[c].st # "free"
      BY <1>2 DEF PidSafe, CallStop, MayStop
    <2> QED
      BY <1>2, <1>5, <1>7, <2>1 DEF PidSafe, RetryBudget, RunningSurvivedStartsecs
  <1>9. ForgottenWasAsked'
    BY <1>2, <1>5, <1>7 DEF ForgottenWasAsked
  <1>10. ChildClock' /\ RestHasNoChild'
    <2>1. os'[c].age \in 0..MaxElapsed
      BY <1>1, <1>5, <1>7 DEF Children
    <2>2. os'[c].st = "alive" => os'[c].sig # "none" /\ os'[c].age >= proc'.elapsed
      BY <1>1, <1>2, <1>5, <1>7, <2>1 DEF ChildClock
    <2> QED
      BY <1>2, <2>2 DEF ChildClock, RestHasNoChild
  <1> QED
    BY <1>6, <1>8, <1>9, <1>10

\* kill()
LEMMA CallKillInv ==
  ASSUME Inv, CallKill
  PROVE  Inv'
  <1> USE Typing DEF Inv
  <1>1. /\ proc' \in Processes
        /\ proc'.state = "STOPPED"
        /\ proc'.pid = NoPid
        /\ proc'.cfg = proc.cfg
    BY KilledFacts DEF CallKill
  <1>2. os' = [os EXCEPT ![proc.pid] = Free] /\ fail' \in Failures
    BY FailureFacts DEF CallKill
  <1>3. Free \in Children /\ Free.sig = "none"
    BY DEF Free, Children
  <1>4. TypeOK'
    BY <1>1, <1>2, <1>3 DEF TypeOK
  <1>5. \A d \in Pids : IF d = proc.pid THEN os'[d].st = "free" ELSE os'[d] = os[d]
    BY <1>2 DEF TypeOK, Free
  <1>6. PidSafe' /\ RetryBudget' /\ RunningSurvivedStartsecs' /\ ChildClock'
    <2>1. ~(proc'.pid > 0)
      BY <1>1 DEF NoPid
    <2> QED
      BY <1>1, <2>1 DEF PidSafe, RetryBudget, RunningSurvivedStartsecs, ChildClock
  <1>7. ForgottenWasAsked' /\ RestHasNoChild'
    BY <1>1, <1>5 DEF ForgottenWasAsked, RestHasNoChild
  <1> QED
    BY <1>4, <1>6, <1>7

\* update() of a STARTING process.
LEMMA UpdateStartingInv ==
  ASSUME Inv, UpdateStarting
  PROVE  Inv'
  <1> USE Typing DEF Inv
  <1>1. /\ proc' \in Processes
        /\ proc'.state = "RUNNING"
        /\ proc'.pid = proc.pid
        /\ proc'.retry_count = 0
        /\ proc'.cfg = proc.cfg
        /\ os' = os /\ fail' = fail
    BY MarkRunningFacts DEF UpdateStarting
  <1>2. proc.state = "STARTING" /\ proc.elapsed >= proc.cfg.startsecs
    BY DEF UpdateStarting, HasStarted
  <1>3. TypeOK'
    BY <1>1 DEF TypeOK
  <1>4. /\ PidSafe' /\ RetryBudget' /\ ForgottenWasAsked'
        /\ ChildClock' /\ RestHasNoChild'
    BY <1>1, <1>2 DEF PidSafe, RetryBudget, ForgottenWasAsked, ChildClock, RestHasNoChild
  <1>5. RunningSurvivedStartsecs'
    <2>1. /\ os[proc.pid].sig = "none"
          /\ os[proc.pid].st = "alive" => os[proc.pid].age >= proc.elapsed
          /\ os[proc.pid].age \in 0..MaxElapsed
      BY <1>2 DEF ChildClock, PidSafe
    <2>2. os[proc.pid].st = "alive" => os[proc.pid].age >= proc.cfg.startsecs
      BY <1>2, <2>1
    <2> QED
      BY <1>1, <2>1, <2>2 DEF RunningSurvivedStartsecs
  <1> QED
    BY <1>3, <1>4, <1>5

\* update() of a STOPPING process.
LEMMA UpdateStoppingInv ==
  ASSUME Inv, UpdateStopping
  PROVE  Inv'
  <1> USE Typing DEF Inv
  <1> DEFINE c == proc.pid
  <1>1. proc.state = "STOPPING" /\ proc.elapsed >= proc.cfg.stopwaitsecs
    BY DEF UpdateStopping, StopTimedOut
  <1>2. c \in Pids
    BY <1>1 DEF PidSafe
  <1>3. /\ os' = [os EXCEPT ![c] = Signalled(os[c], "KILL")]
        /\ proc' = proc /\ fail' = fail
    BY DEF UpdateStopping
  <1>4. /\ Signalled(os[c], "KILL") \in Children
        /\ Signalled(os[c], "KILL").st = os[c].st
        /\ os[c].st # "alive" => Signalled(os[c], "KILL") = os[c]
        /\ os[c].st = "alive" => Signalled(os[c], "KILL").sig # "none"
        /\ os[c].sig # "none" => Signalled(os[c], "KILL").age = os[c].age
        /\ Signalled(os[c], "KILL").sig \in {os[c].sig, "KILL"}
    BY <1>2, SignalledFacts DEF SignalNames
  <1>5. TypeOK'
    BY <1>3, <1>4 DEF TypeOK
  <1>6. /\ os'[c] = Signalled(os[c], "KILL")
        /\ \A d \in Pids \ {c} : os'[d] = os[d]
    BY <1>2, <1>3 DEF TypeOK
  <1>7. PidSafe' /\ RetryBudget' /\ RunningSurvivedStartsecs'
    BY <1>1, <1>3, <1>4, <1>6 DEF PidSafe, RetryBudget, RunningSurvivedStartsecs
  <1>8. ChildClock' /\ RestHasNoChild'
    BY <1>1, <1>3, <1>4, <1>6 DEF ChildClock, RestHasNoChild
  <1>9. ForgottenWasAsked'
    BY <1>3, <1>4, <1>6 DEF ForgottenWasAsked
  <1> QED
    BY <1>5, <1>7, <1>8, <1>9

\* The SIGCHLD handler.
LEMMA HandleSigchldInv ==
  ASSUME Inv, HandleSigchld
  PROVE  Inv'
  <1> USE Typing DEF Inv
  <1> DEFINE zombies == {c \in Pids : os[c].st = "zombie"}
  <1>1. /\ os' = [c \in Pids |-> IF c \in zombies THEN Free ELSE os[c]]
        /\ IF proc.pid \in zombies
           THEN /\ proc' = OnExit(proc)
                /\ fail' = FailureOf("exit", proc')
           ELSE UNCHANGED <<proc, fail>>
    BY DEF HandleSigchld
  <1>2. Free \in Children /\ Free.sig = "none"
    BY DEF Free, Children
  <1> HIDE DEF zombies
  <1>3. /\ os' \in [Pids -> Children]
        /\ \A c \in Pids \ zombies : os'[c] = os[c]
        /\ \A c \in zombies : os'[c].st = "free"
    BY <1>1, <1>2 DEF TypeOK, zombies, Free
  <1>4. CASE proc.pid \in zombies
    <2> DEFINE q == OnExit(proc)
    <2>1. /\ q \in Processes
          /\ q.pid = NoPid
          /\ q.cfg = proc.cfg
          /\ q.state \in {"STOPPED", "BACKOFF", "EXITED", "FATAL"}
          /\ q.state = "BACKOFF" =>
               \/ q.retry_count < q.cfg.startretries
               \/ proc.state # "STARTING" /\ q.retry_count = proc.retry_count
          /\ q.state = "FATAL" => q.retry_count >= q.cfg.startretries
          /\ q.state = "STOPPED" <=> proc.state = "STOPPING"
          /\ q.state = "BACKOFF" => proc.state # "FATAL"
      BY OnExitFacts
    <2>2. proc' = q /\ fail' \in Failures
      BY <1>1, <1>4, FailureFacts
    <2> HIDE DEF q
    <2>3. TypeOK'
      BY <1>3, <2>1, <2>2 DEF TypeOK
    <2>4. ~(proc'.pid > 0)
      BY <2>1, <2>2 DEF NoPid
    <2>5. PidSafe' /\ RunningSurvivedStartsecs' /\ ChildClock'
      BY <2>1, <2>2, <2>4 DEF PidSafe, RunningSurvivedStartsecs, ChildClock
    <2>6. ForgottenWasAsked' /\ RestHasNoChild'
      BY <1>3, <1>4, <2>1, <2>2 DEF ForgottenWasAsked, RestHasNoChild
    <2>7. RetryBudget'
      <3>1. q.state = "BACKOFF" => q.retry_count < q.cfg.startretries \/ q.retry_count = 0
        <4>1. proc.pid # NoPid
          <5>1. proc.pid \in Nat \ {0}
            BY <1>4 DEF zombies
          <5> QED
            BY <5>1 DEF NoPid
        <4>2. proc.state \notin {"STOPPED", "EXITED"}
          BY <4>1 DEF RestHasNoChild
        <4>3. proc.state \in {"RUNNING", "BACKOFF", "FATAL", "STARTING", "STOPPING"}
          BY <4>2 DEF States
        <4>4. q.state = "BACKOFF" => proc.state # "FATAL"
          BY <2>1
        <4> QED
          BY <2>1, <4>3, <4>4 DEF RetryBudget
      <3> QED
        BY <2>1, <2>2, <3>1 DEF RetryBudget
    <2> QED
      BY <2>3, <2>5, <2>6, <2>7
  <1>5. CASE proc.pid \notin zombies
    <2>1. proc' = proc /\ fail' = fail
      BY <1>1, <1>5
    <2>2. proc.pid > 0 => os'[proc.pid] = os[proc.pid]
      BY <1>3, <1>5
    <2>3. TypeOK'
      BY <1>3, <2>1 DEF TypeOK
    <2>4. PidSafe' /\ RetryBudget' /\ RunningSurvivedStartsecs' /\ ChildClock'
      BY <2>1, <2>2 DEF PidSafe, RetryBudget, RunningSurvivedStartsecs, ChildClock
    <2>5. ForgottenWasAsked' /\ RestHasNoChild'
      BY <1>3, <2>1 DEF ForgottenWasAsked, RestHasNoChild
    <2> QED
      BY <2>3, <2>4, <2>5
  <1> QED
    BY <1>4, <1>5

\* The end of a child.
LEMMA ChildExitsInv ==
  ASSUME Inv, NEW c \in Pids, ChildExits(c)
  PROVE  Inv'
  <1> USE Typing DEF Inv
  <1>1. /\ proc' = proc /\ fail' = fail
        /\ os[c].st = "alive"
        /\ os' = [os EXCEPT ![c] = [os[c] EXCEPT !.st = "zombie"]]
    BY DEF ChildExits
  <1>2. /\ [os[c] EXCEPT !.st = "zombie"] \in Children
        /\ [os[c] EXCEPT !.st = "zombie"].st = "zombie"
        /\ [os[c] EXCEPT !.st = "zombie"].sig = os[c].sig
        /\ [os[c] EXCEPT !.st = "zombie"].age = os[c].age
    BY DEF Children
  <1>3. TypeOK'
    BY <1>1, <1>2 DEF TypeOK
  <1>4. /\ os'[c].st = "zombie" /\ os'[c].sig = os[c].sig /\ os'[c].age = os[c].age
        /\ \A d \in Pids \ {c} : os'[d] = os[d]
    BY <1>1, <1>2 DEF TypeOK
  <1>5. PidSafe' /\ RetryBudget' /\ RunningSurvivedStartsecs'
    BY <1>1, <1>4 DEF PidSafe, RetryBudget, RunningSurvivedStartsecs
  <1>6. ChildClock'
    BY <1>1, <1>4 DEF ChildClock, PidSafe
  <1>7. ForgottenWasAsked' /\ RestHasNoChild'
    BY <1>1, <1>4 DEF ForgottenWasAsked, RestHasNoChild
  <1> QED
    BY <1>3, <1>5, <1>6, <1>7

\* The passing of time.
LEMMA SecondInv ==
  ASSUME Inv, Second
  PROVE  Inv'
  <1> USE Typing DEF Inv
  <1>1. /\ proc' = [proc EXCEPT !.elapsed = Ticked(proc.elapsed)]
        /\ os' = [c \in Pids |-> Aged(os[c])]
        /\ fail' = FailureTicked(fail)
    BY DEF Second
  <1>2. Ticked(proc.elapsed) \in 0..MaxElapsed
    BY TickedFacts
  <1>3. /\ proc' \in Processes /\ proc'.elapsed = Ticked(proc.elapsed)
        /\ proc'.state = proc.state /\ proc'.pid = proc.pid
        /\ proc'.retry_count = proc.retry_count /\ proc'.cfg = proc.cfg
    BY <1>1, <1>2 DEF Processes
  <1>4. ASSUME NEW c \in Pids
        PROVE  /\ os'[c] \in Children
               /\ os'[c].st = os[c].st /\ os'[c].sig = os[c].sig
               /\ os'[c].age = IF os[c].st = "alive" THEN Ticked(os[c].age)
                                                    ELSE os[c].age
    <2>1. os'[c] = Aged(os[c])
      BY <1>1
    <2> QED
      BY <2>1, AgedFacts
  <1>5. fail' \in Failures
    <2>1. fail \in Failures
      BY DEF TypeOK
    <2> QED
      BY <1>1, <2>1, FailureTickedFacts
  <1>6. TypeOK'
    <2>1. os' \in [Pids -> Children]
      BY <1>1, <1>4
    <2> QED
      BY <1>3, <1>5, <2>1 DEF TypeOK
  <1>7. \A c \in Pids : os'[c].age >= os[c].age /\ os'[c].age \in 0..MaxElapsed
    BY <1>4, TickedFacts
  <1>8. PidSafe' /\ RetryBudget' /\ RestHasNoChild'
    BY <1>3, <1>4 DEF PidSafe, RetryBudget, RestHasNoChild
  <1>9. RunningSurvivedStartsecs'
    <2> SUFFICES ASSUME proc.state = "RUNNING"
                 PROVE  /\ os'[proc.pid].sig = "none"
                        /\ os'[proc.pid].st = "alive" =>
                             os'[proc.pid].age >= proc.cfg.startsecs
      BY <1>3 DEF RunningSurvivedStartsecs
    <2>1. proc.pid \in Pids
      BY DEF PidSafe
    <2>2. /\ os[proc.pid].sig = "none"
          /\ os[proc.pid].st = "alive" => os[proc.pid].age >= proc.cfg.startsecs
      BY DEF RunningSurvivedStartsecs
    <2>3. /\ os'[proc.pid].st = os[proc.pid].st /\ os'[proc.pid].sig = os[proc.pid].sig
          /\ os'[proc.pid].age >= os[proc.pid].age
          /\ os'[proc.pid].age \in 0..MaxElapsed /\ os[proc.pid].age \in 0..MaxElapsed
      BY <1>4, <1>7, <2>1
    <2> QED
      BY <2>2, <2>3
  <1>10. ForgottenWasAsked'
    BY <1>3, <1>4 DEF ForgottenWasAsked
  <1>11. ChildClock'
    <2>1. proc.state \in {"STARTING", "STOPPING"} => proc.pid \in Pids
      BY DEF PidSafe
    <2>2. ASSUME proc.pid \in Pids, os[proc.pid].st = "alive",
                 os[proc.pid].age >= proc.elapsed
          PROVE  os'[proc.pid].age >= proc'.elapsed
      <3>1. os'[proc.pid].age = Ticked(os[proc.pid].age)
        BY <1>4, <2>2
      <3> QED
        BY <1>3, <2>2, <3>1, TickedFacts
    <2> QED
      BY <1>3, <1>4, <2>1, <2>2 DEF ChildClock
  <1> QED
    BY <1>6, <1>8, <1>9, <1>10, <1>11

\* Every step of Process, and a stutter, keeps the invariant.
LEMMA NextInv == Inv /\ [Next]_vars => Inv'
  <1> SUFFICES ASSUME Inv, [Next]_vars PROVE Inv'
    OBVIOUS
  <1>1. CASE CallStart
    BY <1>1, DoStartInv DEF CallStart
  <1>2. CASE CallStop
    BY <1>2, CallStopInv
  <1>3. CASE CallKill
    BY <1>3, CallKillInv
  <1>4. CASE UpdateStarting
    BY <1>4, UpdateStartingInv
  <1>5. CASE UpdateStopping
    BY <1>5, UpdateStoppingInv
  <1>6. CASE UpdateBackoff
    BY <1>6, DoStartInv DEF UpdateBackoff, RetryDue, MayStart
  <1>7. CASE HandleSigchld
    BY <1>7, HandleSigchldInv
  <1>8. CASE \E c \in Pids : ChildExits(c)
    BY <1>8, ChildExitsInv
  <1>9. CASE Second
    BY <1>9, SecondInv
  <1>10. CASE UNCHANGED vars
    BY <1>10 DEF vars, Inv, TypeOK, PidSafe, RetryBudget,
       RunningSurvivedStartsecs, ForgottenWasAsked, ChildClock, RestHasNoChild
  <1> QED
    BY <1>1, <1>2, <1>3, <1>4, <1>5, <1>6, <1>7, <1>8, <1>9, <1>10
       DEF Next, NextButStart, OnTimer

\* Inv holds in every state the program reaches, whatever the callers do.
THEOREM Safety == Spec => []Inv
  <1> QED
    BY InitInv, NextInv, PTL DEF Spec

\* The state of the object is well typed in every reachable state.
THEOREM TypeCorrect == Spec => []TypeOK
  <1>1. Inv => TypeOK
    BY DEF Inv
  <1> QED
    BY <1>1, Safety, PTL

\* No signal ever goes to a process id the object does not own (stop() and
\* update() call kill(2) with pid_).
THEOREM PidSafety == Spec => []PidSafe
  <1>1. Inv => PidSafe
    BY DEF Inv
  <1> QED
    BY <1>1, Safety, PTL

\* The retry budget is respected, whatever the order of failures and requests.
THEOREM RetryBudgetKept == Spec => []RetryBudget
  <1>1. Inv => RetryBudget
    BY DEF Inv
  <1> QED
    BY <1>1, Safety, PTL

\* update() calls a program RUNNING only when its own child, if it is alive, has been
\* up for startsecs and was not asked to stop, whatever the callers do.
THEOREM RunningIsEarned == Spec => []RunningSurvivedStartsecs
  <1>1. Inv => RunningSurvivedStartsecs
    BY DEF Inv
  <1> QED
    BY <1>1, Safety, PTL

-----------------------------------------------------------------------------
(***************************************************************************)
(* Callers that do not start a process whose stop has not finished.  The   *)
(* states without a child then really have none, so a start never finds    *)
(* one; and the object's clock in BACKOFF is the time since the child was  *)
(* lost.                                                                   *)
(***************************************************************************)
OwnChild == \A c \in Pids : os[c].st # "free" => proc.pid = c

IdleHasNoChild ==
  proc.state \in {"STOPPED", "BACKOFF", "EXITED", "FATAL"} => proc.pid = NoPid

ExitClock ==
  proc.state = "BACKOFF" /\ fail.kind = "exit" => fail.age = proc.elapsed

SeqInv == /\ OwnChild
          /\ IdleHasNoChild
          /\ ExitClock

\* The constructor of Process establishes the invariant of SeqSpec.
LEMMA InitSeqInv == Init => SeqInv
  <1> SUFFICES ASSUME Init PROVE SeqInv
    OBVIOUS
  <1>1. PICK cfg \in Configs : proc = Created(cfg)
    BY DEF Init
  <1>2. proc.state = "STOPPED" /\ proc.pid = NoPid
    BY <1>1 DEF Created
  <1>3. \A c \in Pids : os[c].st = "free"
    BY DEF Init, Free
  <1> QED
    BY <1>2, <1>3 DEF SeqInv, OwnChild, IdleHasNoChild, ExitClock

\* start() of a process that is not STOPPING finds no child.
LEMMA DoStartSeqInv ==
  ASSUME Inv, SeqInv, MayStart(proc), proc.state # "STOPPING", DoStart
  PROVE  SeqInv'
  <1>1. PICK child \in SpawnResults :
          /\ proc' = Start(proc, child)
          /\ IF child = NoPid
             THEN /\ fail' = FailureOf("spawn", proc')
                  /\ UNCHANGED os
             ELSE /\ fail' = NoFailure
                  /\ os' = [os EXCEPT ![child] = NewChild]
    BY DEF DoStart
  <1> USE Typing DEF Inv
  <1>2. proc.pid = NoPid
    BY DEF MayStart, States, SeqInv, IdleHasNoChild
  <1>3. NoPid \notin Pids
    BY DEF NoPid
  <1>4. \A c \in Pids : os[c].st = "free"
    BY <1>2, <1>3 DEF SeqInv, OwnChild
  <1>5. CASE child = NoPid
    <2>1. proc' = AttemptFailed(proc)
      BY <1>1, <1>5 DEF Start
    <2>2. /\ proc'.pid = NoPid
          /\ proc'.cfg = proc.cfg
          /\ proc'.state \in {"FATAL", "BACKOFF"}
      BY <1>2, <2>1, AttemptFailedFacts
    <2>3. os' = os /\ fail'.kind # "exit"
      BY <1>1, <1>5, FailureFacts
    <2> QED
      BY <1>4, <2>2, <2>3 DEF SeqInv, OwnChild, IdleHasNoChild, ExitClock
  <1>6. CASE child # NoPid
    <2>1. child \in Pids
      BY <1>1, <1>6 DEF SpawnResults
    <2>2. proc'.state = "STARTING" /\ proc'.pid = child
      BY <1>1, <2>1, StartedFacts
    <2>3. \A c \in Pids \ {child} : os'[c] = os[c]
      BY <1>1, <1>6 DEF TypeOK
    <2> QED
      BY <1>4, <2>2, <2>3 DEF SeqInv, OwnChild, IdleHasNoChild, ExitClock
  <1> QED
    BY <1>5, <1>6

\* stop() and the SIGKILL of update() change neither pid_ nor who is alive.
LEMMA StopSeqInv ==
  ASSUME Inv, SeqInv, CallStop \/ UpdateStopping
  PROVE  SeqInv'
  <1> USE Typing DEF Inv
  <1>1. /\ proc'.state = "STOPPING" /\ proc'.pid = proc.pid
    <2>1. CASE CallStop
      BY <2>1, SetStateFacts DEF CallStop, Stop, States
    <2>2. CASE UpdateStopping
      BY <2>2 DEF UpdateStopping, StopTimedOut
    <2> QED
      BY <2>1, <2>2
  <1>2. proc.pid \in Pids
    <2>1. CASE CallStop
      BY <2>1 DEF CallStop, MayStop
    <2>2. CASE UpdateStopping
      BY <2>2 DEF UpdateStopping, StopTimedOut, PidSafe
    <2> QED
      BY <2>1, <2>2
  <1>3. \A c \in Pids \ {proc.pid} : os'[c] = os[c]
    BY DEF CallStop, UpdateStopping, TypeOK
  <1> QED
    BY <1>1, <1>2, <1>3 DEF SeqInv, OwnChild, IdleHasNoChild, ExitClock

\* kill() keeps the invariant of SeqSpec.
LEMMA CallKillSeqInv ==
  ASSUME Inv, SeqInv, CallKill
  PROVE  SeqInv'
  <1> USE Typing DEF Inv
  <1>1. proc'.state = "STOPPED" /\ proc'.pid = NoPid
    BY KilledFacts DEF CallKill
  <1>2. os' = [os EXCEPT ![proc.pid] = Free] /\ Free.st = "free"
    BY DEF CallKill, Free
  <1>3. \A c \in Pids : os'[c].st = "free"
    BY <1>2 DEF TypeOK, SeqInv, OwnChild
  <1> QED
    BY <1>1, <1>3 DEF SeqInv, OwnChild, IdleHasNoChild, ExitClock

\* The report of an exit keeps the invariant of SeqSpec.
LEMMA HandleSigchldSeqInv ==
  ASSUME Inv, SeqInv, HandleSigchld
  PROVE  SeqInv'
  <1> USE Typing DEF Inv
  <1> DEFINE zombies == {c \in Pids : os[c].st = "zombie"}
  <1>1. /\ os' = [c \in Pids |-> IF c \in zombies THEN Free ELSE os[c]]
        /\ IF proc.pid \in zombies
           THEN /\ proc' = OnExit(proc)
                /\ fail' = FailureOf("exit", proc')
           ELSE UNCHANGED <<proc, fail>>
    BY DEF HandleSigchld
  <1>2. proc.pid \in zombies
    <2>1. PICK c \in Pids : os[c].st = "zombie"
      BY DEF HandleSigchld
    <2> QED
      BY <2>1 DEF SeqInv, OwnChild
  <1>3. proc.state \notin {"STOPPED", "BACKOFF", "EXITED", "FATAL"}
    <2>1. proc.pid \in Nat \ {0}
      BY <1>2
    <2> QED
      BY <2>1 DEF SeqInv, IdleHasNoChild, NoPid
  <1> DEFINE q == OnExit(proc)
  <1>4. /\ q.pid = NoPid
        /\ q.cfg = proc.cfg
        /\ q.state \in {"STOPPED", "BACKOFF", "EXITED", "FATAL"}
        /\ q.state = "BACKOFF" /\ proc.state # "BACKOFF" => q.elapsed = 0
        /\ q.state = "EXITED" => ~proc.cfg.autorestart \/ proc.state = "FATAL"
    BY OnExitFacts
  <1>5. proc' = q /\ fail'.age = 0
    BY <1>1, <1>2, FailureFacts
  <1>6. \A c \in Pids : os'[c].st = "free"
    BY <1>1, <1>2 DEF SeqInv, OwnChild, Free
  <1> HIDE DEF q
  <1> QED
    BY <1>3, <1>4, <1>5, <1>6 DEF SeqInv, OwnChild, IdleHasNoChild, ExitClock

\* update(), called once a second, keeps the invariant of SeqSpec.
LEMMA SecondSeqInv ==
  ASSUME Inv, SeqInv, Second
  PROVE  SeqInv'
  <1> USE Typing DEF Inv
  <1>1. /\ proc' = [proc EXCEPT !.elapsed = Ticked(proc.elapsed)]
        /\ os' = [c \in Pids |-> Aged(os[c])]
        /\ fail' = FailureTicked(fail)
    BY DEF Second
  <1>2. /\ proc'.elapsed = Ticked(proc.elapsed) /\ proc'.state = proc.state
        /\ proc'.pid = proc.pid /\ proc'.cfg = proc.cfg
    BY <1>1 DEF Processes
  <1>3. /\ fail'.kind = fail.kind
        /\ fail.kind # "none" => fail'.age = Ticked(fail.age)
    <2>1. fail \in Failures
      BY DEF TypeOK
    <2> QED
      BY <1>1, <2>1, FailureTickedFacts
  <1>4. \A c \in Pids : os[c].st = "free" => os'[c].st = "free"
    BY <1>1 DEF Aged
  <1>5. OwnChild'
    BY <1>2, <1>4 DEF SeqInv, OwnChild
  <1>6. IdleHasNoChild'
    BY <1>2 DEF SeqInv, IdleHasNoChild
  <1>7. ExitClock'
    BY <1>2, <1>3 DEF SeqInv, ExitClock
  <1> QED
    BY <1>5, <1>6, <1>7 DEF SeqInv

\* Every step of SeqSpec, and a stutter, keeps the invariant of SeqSpec.
LEMMA SeqNextInv == Inv /\ SeqInv /\ [SeqNext]_vars => SeqInv'
  <1> SUFFICES ASSUME Inv, SeqInv, [SeqNext]_vars PROVE SeqInv'
    OBVIOUS
  <1>1. CASE proc.state # "STOPPING" /\ CallStart
    BY <1>1, DoStartSeqInv DEF CallStart
  <1>2. CASE CallStop \/ UpdateStopping
    BY <1>2, StopSeqInv
  <1>3. CASE CallKill
    BY <1>3, CallKillSeqInv
  <1>4. CASE UpdateStarting
    <2>1. proc'.state = "RUNNING" /\ proc'.pid = proc.pid /\ os' = os
      BY <1>4, Typing, MarkRunningFacts DEF UpdateStarting, Inv
    <2> QED
      BY <2>1 DEF SeqInv, OwnChild, IdleHasNoChild, ExitClock
  <1>5. CASE UpdateBackoff
    BY <1>5, DoStartSeqInv DEF UpdateBackoff, RetryDue, MayStart
  <1>6. CASE HandleSigchld
    BY <1>6, HandleSigchldSeqInv
  <1>7. ASSUME NEW c \in Pids, ChildExits(c)
        PROVE  SeqInv'
    <2>1. /\ proc' = proc /\ fail' = fail
          /\ os[c].st = "alive"
          /\ \A d \in Pids \ {c} : os'[d] = os[d]
      BY <1>7 DEF ChildExits, Inv, TypeOK
    <2> QED
      BY <2>1 DEF SeqInv, OwnChild, IdleHasNoChild, ExitClock
  <1>8. CASE Second
    BY <1>8, SecondSeqInv
  <1>9. CASE UNCHANGED vars
    BY <1>9 DEF vars, SeqInv, OwnChild, IdleHasNoChild, ExitClock
  <1> QED
    BY <1>1, <1>2, <1>3, <1>4, <1>5, <1>6, <1>7, <1>8, <1>9
       DEF SeqNext, NextButStart, OnTimer

\* What sequential callers add to Inv.
THEOREM SeqSafety == SeqSpec => [](Inv /\ SeqInv)
  <1>1. Inv /\ [SeqNext]_vars => Inv'
    BY NextInv DEF SeqNext, Next
  <1> QED
    BY <1>1, InitInv, InitSeqInv, SeqNextInv, PTL DEF SeqSpec

\* A program never has two children, and none at rest or in BACKOFF: no start forks
\* while one is left.
THEOREM OneChild == SeqSpec => []SingleInstance
  <1>1. Inv /\ SeqInv => SingleInstance
    <2> SUFFICES ASSUME Inv, SeqInv, NEW c \in Pids, os[c].st # "free"
                 PROVE  proc.pid = c /\ proc.state \in {"STARTING", "RUNNING", "STOPPING"}
      BY DEF SingleInstance
    <2>1. proc.pid = c
      BY DEF SeqInv, OwnChild
    <2>2. proc.pid # NoPid
      BY <2>1 DEF NoPid
    <2>3. proc.state \in States
      BY Typing DEF Inv
    <2> QED
      BY <2>1, <2>2, <2>3 DEF SeqInv, IdleHasNoChild, States
  <1> QED
    BY <1>1, SeqSafety, PTL

(***************************************************************************)
(* A child that ended is not replaced before the backoff delay has passed, *)
(* as long as the shift of update() stays within an int.                   *)
(***************************************************************************)
THEOREM BackoffAfterExit == SeqSpec => []ExitBackoff
  <1>1. Inv /\ SeqInv => ExitBackoff
    <2> SUFFICES ASSUME Inv, SeqInv, RetryDue(proc), fail.kind = "exit",
                        proc.retry_count < 31
                 PROVE  fail.age >= Backoff(proc.retry_count)
      BY DEF ExitBackoff
    <2>1. proc.retry_count \in Nat
      BY Typing DEF Inv
    <2>2. BackoffDelays(proc.retry_count) = {Backoff(proc.retry_count)}
      BY <2>1 DEF BackoffDelays, ShiftOne, Backoff
    <2>3. proc.elapsed >= Backoff(proc.retry_count) /\ fail.age = proc.elapsed
      BY <2>2 DEF RetryDue, SeqInv, ExitClock
    <2> QED
      BY <2>3
  <1> QED
    BY <1>1, SeqSafety, PTL

-----------------------------------------------------------------------------
(***************************************************************************)
(* Process implements LifeCycle: every step of SeqSpec is one of the       *)
(* transitions it allows, or changes nothing that it shows.  Inv and       *)
(* SeqInv are needed, for a FATAL program stays FATAL when another attempt *)
(* fails only because its budget is spent, and only a program that is      *)
(* STARTING, RUNNING or STOPPING has a child that can end.                 *)
(***************************************************************************)

\* The two values LifeCycle shows keep their types.
LEMMA ShownTypes ==
  ASSUME Inv
  PROVE  proc.state \in States /\ proc.cfg.autorestart \in BOOLEAN
  BY DEF Inv, TypeOK, Processes, ProgramConfigs

\* An attempt to start shows STARTING, BACKOFF or FATAL.
LEMMA DoStartShows ==
  ASSUME Inv, SeqInv, MayStart(proc), proc.state # "STOPPING", DoStart
  PROVE  [Shown!Next]_(Shown!vars)
  <1> USE Typing DEF Inv
  <1>1. PICK child \in SpawnResults : proc' = Start(proc, child)
    BY DEF DoStart
  <1>2. proc.state \in {"STOPPED", "EXITED", "BACKOFF", "FATAL"}
    BY DEF MayStart, States
  <1>3. CASE child = NoPid
    <2>1. proc' = AttemptFailed(proc)
      BY <1>1, <1>3 DEF Start
    <2>2. /\ proc'.cfg = proc.cfg
          /\ proc'.state \in {"FATAL", "BACKOFF"}
          /\ proc.retry_count + 1 >= proc.cfg.startretries => proc'.state = "FATAL"
      BY <2>1, AttemptFailedFacts
    <2>3. proc.state = "FATAL" => proc'.state = "FATAL"
      <3>1. proc.state = "FATAL" => proc.retry_count >= proc.cfg.startretries
        BY DEF RetryBudget
      <3>2. proc.retry_count \in Nat /\ proc.cfg.startretries \in Int
        OBVIOUS
      <3> QED
        BY <2>2, <3>1, <3>2
    <2> QED
      BY <1>2, <2>2, <2>3 DEF Shown!Next, Shown!Attempt, Shown!Becomes, Shown!vars
  <1>4. CASE child # NoPid
    <2>1. child \in Pids
      BY <1>1, <1>4 DEF SpawnResults
    <2>2. proc'.state = "STARTING" /\ proc'.cfg = proc.cfg
      BY <1>1, <2>1, StartedFacts
    <2> QED
      BY <1>2, <2>2 DEF Shown!Next, Shown!Attempt, Shown!Becomes
  <1> QED
    BY <1>3, <1>4

\* stop() and kill() are called with a child, so not at rest.
LEMMA StopShows ==
  ASSUME Inv, SeqInv, CallStop \/ CallKill
  PROVE  [Shown!Next]_(Shown!vars)
  <1> USE Typing DEF Inv
  <1>1. proc.pid # NoPid
    BY DEF CallStop, CallKill, MayStop
  <1>2. proc.state \in {"STARTING", "RUNNING", "STOPPING"}
    BY <1>1 DEF SeqInv, IdleHasNoChild, States
  <1>3. CASE CallStop
    <2>1. proc'.state = "STOPPING" /\ proc'.cfg = proc.cfg
      BY <1>3, SetStateFacts DEF CallStop, Stop, States
    <2> QED
      BY <1>2, <2>1 DEF Shown!Next, Shown!Stop, Shown!Becomes, Shown!vars
  <1>4. CASE CallKill
    <2>1. proc'.state = "STOPPED" /\ proc'.cfg = proc.cfg
      BY <1>4, KilledFacts DEF CallKill
    <2> QED
      BY <1>2, <2>1 DEF Shown!Next, Shown!Stopped, Shown!Becomes
  <1> QED
    BY <1>3, <1>4

\* on_exit() takes a program from where it was to where LifeCycle lets it end.
LEMMA HandleSigchldShows ==
  ASSUME Inv, SeqInv, HandleSigchld
  PROVE  [Shown!Next]_(Shown!vars)
  <1> USE Typing DEF Inv
  <1>1. PICK c \in Pids : os[c].st = "zombie"
    BY DEF HandleSigchld
  <1>2. proc.pid = c
    BY <1>1 DEF SeqInv, OwnChild
  <1>3. proc' = OnExit(proc)
    BY <1>1, <1>2 DEF HandleSigchld
  <1>4. c # NoPid
    <2>1. c \in Nat \ {0}
      OBVIOUS
    <2> QED
      BY <2>1 DEF NoPid
  <1>5. proc.state \in {"STARTING", "RUNNING", "STOPPING"}
    BY <1>2, <1>4 DEF SeqInv, IdleHasNoChild, States
  <1>6. /\ proc'.cfg = proc.cfg
        /\ proc'.state \in {"STOPPED", "BACKOFF", "EXITED", "FATAL"}
        /\ proc'.state = "STOPPED" <=> proc.state = "STOPPING"
        /\ proc'.state = "EXITED" => ~proc.cfg.autorestart \/ proc.state = "FATAL"
        /\ proc'.state \in {"BACKOFF", "FATAL"} => proc.cfg.autorestart
        /\ proc'.state = "FATAL" => proc.state = "STARTING"
    BY <1>3, OnExitFacts
  <1>7. CASE proc.state = "STOPPING"
    BY <1>6, <1>7 DEF Shown!Next, Shown!Stopped, Shown!Becomes
  <1>8. CASE proc.state \in {"STARTING", "RUNNING"}
    BY <1>6, <1>8 DEF Shown!Next, Shown!End, Shown!Becomes
  <1> QED
    BY <1>5, <1>7, <1>8

\* Every step of SeqSpec is a step of LifeCycle, or shows nothing.
LEMMA StepShows ==
  Inv /\ SeqInv /\ [SeqNext]_vars => [Shown!Next]_(Shown!vars)
  <1> SUFFICES ASSUME Inv, SeqInv, [SeqNext]_vars
               PROVE  [Shown!Next]_(Shown!vars)
    OBVIOUS
  <1>1. CASE proc.state # "STOPPING" /\ CallStart
    BY <1>1, DoStartShows DEF CallStart
  <1>2. CASE CallStop \/ CallKill
    BY <1>2, StopShows
  <1>3. CASE UpdateStarting
    <2>1. /\ proc.state = "STARTING" /\ proc'.state = "RUNNING"
          /\ proc'.cfg = proc.cfg
      BY <1>3, Typing, MarkRunningFacts DEF UpdateStarting, HasStarted, Inv
    <2> QED
      BY <2>1 DEF Shown!Next, Shown!Confirm, Shown!Becomes
  <1>4. CASE UpdateBackoff
    BY <1>4, DoStartShows DEF UpdateBackoff, RetryDue, MayStart
  <1>5. CASE HandleSigchld
    BY <1>5, HandleSigchldShows
  <1>6. CASE UpdateStopping \/ (\E c \in Pids : ChildExits(c)) \/ UNCHANGED vars
    <2>1. proc' = proc
      BY <1>6 DEF UpdateStopping, ChildExits, vars
    <2> QED
      BY <2>1 DEF Shown!vars
  <1>7. CASE Second
    <2>1. proc'.state = proc.state /\ proc'.cfg = proc.cfg
      BY <1>7, Typing DEF Second, Inv, Processes
    <2> QED
      BY <2>1 DEF Shown!vars
  <1> QED
    BY <1>1, <1>2, <1>3, <1>4, <1>5, <1>6, <1>7 DEF SeqNext, NextButStart, OnTimer

\* The states getProcessInfo shows of a program are those of LifeCycle, in its order,
\* for every configuration and every interleaving of requests, timer and deaths.
THEOREM LifeCycleFollowed == SeqSpec => FollowsLifeCycle
  <1>1. Init => Shown!Init
    <2> SUFFICES ASSUME Init PROVE Shown!Init
      OBVIOUS
    <2>1. PICK cfg \in Configs : proc = Created(cfg)
      BY DEF Init
    <2>2. proc.state = "STOPPED"
      BY <2>1 DEF Created
    <2> QED
      BY <2>2, InitInv, ShownTypes DEF Shown!Init
  <1> QED
    BY <1>1, SeqSafety, StepShows, PTL DEF SeqSpec, FollowsLifeCycle, Shown!Safety
=============================================================================
