------------------------------ MODULE Process ------------------------------
(***************************************************************************)
(* One supervised program: a Process object, the children forked for it,   *)
(* and the callers that drive it: requests (start, stop), the update timer *)
(* (on_timer_), the SIGCHLD handler (handle_sigchld_) and the final kill   *)
(* of stop_all.  Every handler runs to its end on the one thread of the    *)
(* event loop, so a handler is one action; children die and time passes    *)
(* between handlers.                                                       *)
(*                                                                         *)
(* A stop request waits for the child in a nested event loop               *)
(* (ProcessManager::reap_until_), and that loop serves other requests.  A  *)
(* start may therefore arrive while the process is STOPPING.  Spec allows  *)
(* it, as the code does; SeqSpec is the same system under callers that do  *)
(* not start a process whose stop has not finished.                        *)
(***************************************************************************)
EXTENDS ProcessOps

CONSTANTS
  Configs,   \* the configurations a program may have
  MaxRetry   \* bound: requests stop retrying when retry_count reaches it

ASSUME ConfigsAssumption == Configs \subseteq ProgramConfigs
ASSUME MaxRetryAssumption == MaxRetry \in Nat

VARIABLES
  proc,  \* the Process object
  os,    \* what the kernel knows of each process id
  fail   \* history: what began the wait in BACKOFF, and how long ago

vars == <<proc, os, fail>>

\* What spawn_() may return: a process id not in use, or a failure.
SpawnResults == {c \in Pids : os[c].st = "free"} \cup {NoPid}

\* start(), when it gets past its first test.
DoStart ==
  \E child \in SpawnResults :
    /\ proc' = Start(proc, child)
    /\ IF child = NoPid
       THEN /\ fail' = FailureOf("spawn", proc')
            /\ UNCHANGED os
       ELSE /\ fail' = NoFailure
            /\ os' = [os EXCEPT ![child] = NewChild]

-----------------------------------------------------------------------------
Init == /\ proc \in {Created(cfg) : cfg \in Configs}
        /\ os = [c \in Pids |-> Free]
        /\ fail = NoFailure

\* A start request: startProcess, start_all, or start_process after a reload.
CallStart == MayStart(proc) /\ proc.retry_count < MaxRetry /\ DoStart

\* A stop request: stopProcess, stop_all, or remove_process.
CallStop ==
  /\ MayStop(proc)
  /\ proc' = Stop(proc)
  /\ os' = [os EXCEPT ![proc.pid] = Signalled(@, StopSignal(proc.cfg))]
  /\ fail' = NoFailure

\* kill(), called by stop_all when its wait is over: SIGKILL, and a waitpid that
\* blocks the only thread until the child is dead and reaped.  No other handler sees
\* the child between the two, and here it goes from alive to free.
CallKill ==
  /\ proc.pid > 0
  /\ proc' = Killed(proc)
  /\ os' = [os EXCEPT ![proc.pid] = Free]
  /\ fail' = NoFailure

\* The update timer, one action for each state update() looks at.
UpdateStarting ==
  /\ HasStarted(proc)
  /\ proc' = MarkRunning(proc)
  /\ UNCHANGED <<os, fail>>

\* Mutant: the stop signal is sent again.
UpdateStoppingAsksAgain ==
  /\ StopTimedOut(proc)
  /\ os' = [os EXCEPT ![proc.pid] = Signalled(@, StopSignal(proc.cfg))]
  /\ UNCHANGED <<proc, fail>>

UpdateStopping ==
  /\ StopTimedOut(proc)
  /\ os' = [os EXCEPT ![proc.pid] = Signalled(@, "KILL")]
  /\ UNCHANGED <<proc, fail>>

UpdateBackoff == RetryDue(proc) /\ DoStart

OnTimer == UpdateStarting \/ UpdateStopping \/ UpdateBackoff

\* handle_sigchld_: waits for every zombie, and tells the object whose pid it is.
HandleSigchld ==
  LET zombies == {c \in Pids : os[c].st = "zombie"}
  IN  /\ zombies # {}
      /\ os' = [c \in Pids |-> IF c \in zombies THEN Free ELSE os[c]]
      /\ IF proc.pid \in zombies
         THEN /\ proc' = OnExit(proc)
              /\ fail' = FailureOf("exit", proc')
         ELSE UNCHANGED <<proc, fail>>

\* A child ends, of itself or by a signal.
ChildExits(c) ==
  /\ os[c].st = "alive"
  /\ os' = [os EXCEPT ![c].st = "zombie"]
  /\ UNCHANGED <<proc, fail>>

\* A second passes.
Second ==
  /\ proc' = [proc EXCEPT !.elapsed = Ticked(@)]
  /\ os' = [c \in Pids |-> Aged(os[c])]
  /\ fail' = FailureTicked(fail)

NextButStart ==
  \/ CallStop \/ CallKill
  \/ OnTimer \/ HandleSigchld
  \/ \E c \in Pids : ChildExits(c)
  \/ Second

Next    == CallStart \/ NextButStart
SeqNext == (proc.state # "STOPPING" /\ CallStart) \/ NextButStart

Spec    == Init /\ [][Next]_vars
SeqSpec == Init /\ [][SeqNext]_vars

(***************************************************************************)
(* The timer is rearmed by every run of its handler and SIGCHLD by every   *)
(* run of its own, time passes, and the kernel ends a child it was told to *)
(* SIGKILL.  Nothing else is assumed: requests may never come, and a child *)
(* may ignore every other signal and never end.                            *)
(***************************************************************************)
Fairness ==
  /\ WF_vars(Second) /\ WF_vars(OnTimer) /\ WF_vars(HandleSigchld)
  /\ \A c \in Pids : WF_vars(os[c].sig = "KILL" /\ ChildExits(c))

FairSeqSpec == SeqSpec /\ Fairness

-----------------------------------------------------------------------------
TypeOK == /\ proc \in Processes
          /\ proc.cfg \in Configs
          /\ os \in [Pids -> Children]
          /\ fail \in Failures

(***************************************************************************)
(* The object never sends a signal to a process id it does not own: in the *)
(* states whose handlers signal pid_, pid_ is positive (kill(-1, ...) goes *)
(* to every process), and a positive pid_ is a child nobody has waited     *)
(* for, so the kernel has not given the id to a stranger.                  *)
(***************************************************************************)
PidSafe ==
  /\ proc.state \in {"STARTING", "RUNNING", "STOPPING"} => proc.pid > 0
  /\ proc.pid > 0 => os[proc.pid].st # "free"

(***************************************************************************)
(* startretries is a budget: a process waits for another automatic attempt *)
(* only while attempts are left, or after a crash from RUNNING, which      *)
(* costs nothing; it is FATAL only when the budget is spent.               *)
(***************************************************************************)
RetryBudget ==
  /\ proc.state = "BACKOFF" => \/ proc.retry_count < proc.cfg.startretries
                               \/ proc.retry_count = 0
  /\ proc.state = "FATAL"   => proc.retry_count >= proc.cfg.startretries
  /\ proc.state = "RUNNING" => proc.retry_count = 0

\* When a program is RUNNING, nobody has asked its child to stop, and if the child is
\* alive, this very child has been up for startsecs.  One that died earlier may be
\* RUNNING until its SIGCHLD is handled: see RanStartsecs.
RunningSurvivedStartsecs ==
  proc.state = "RUNNING" =>
    /\ os[proc.pid].sig = "none"
    /\ os[proc.pid].st = "alive" => os[proc.pid].age >= proc.cfg.startsecs

\* What SPECIFICATION.md says of startsecs: "process must run this long to be
\* considered started".  update() looks at the clock only, so that a child which died
\* before startsecs is taken for started when the timer comes before SIGCHLD.
RanStartsecs ==
  proc.state = "RUNNING" => os[proc.pid].age >= proc.cfg.startsecs

\* The documented delay before automatic attempt number n + 1.
Backoff(n) == IF 2^n < BackoffCap THEN 2^n ELSE BackoffCap

\* After a child has ended, no automatic restart is due before the delay has
\* passed since that end, up to the attempt at which the shift leaves the int.
ExitBackoff ==
  RetryDue(proc) /\ fail.kind = "exit" /\ proc.retry_count < 31
    => fail.age >= Backoff(proc.retry_count)

\* A program has at most one child, the one in pid_, and none while it waits in
\* BACKOFF, was stopped, has ended or was given up.
SingleInstance ==
  \A c \in Pids : os[c].st # "free" =>
    proc.pid = c /\ proc.state \in {"STARTING", "RUNNING", "STOPPING"}

\* A child that was asked to stop is gone in the end.
StoppedChildGoes == \A c \in Pids : os[c].sig # "none" ~> os[c].sig = "none"

Shown == INSTANCE LifeCycle WITH state <- proc.state, autorestart <- proc.cfg.autorestart

\* The states a program goes through are those of LifeCycle: set_state_ is called in
\* no other order, whatever requests, timer and deaths come in between.
FollowsLifeCycle == Shown!Safety

\* Automatic attempts do not go on for ever: the program is RUNNING, given up or at
\* rest in the end, and a program that was asked to stop is STOPPED.
Settles == Shown!Progress
=============================================================================
