---------------------------- MODULE ProcessOps ----------------------------
(***************************************************************************)
(* The class Process (supervisor-lib/src/process/process.cpp) as           *)
(* operators: each method is a function from the object's state before the *)
(* call to its state after it.  What a method does to the operating system *)
(* (fork, kill, waitpid) is in the modules that use these operators.       *)
(*                                                                         *)
(* A Process object is a record                                            *)
(*   state        state_                                                   *)
(*   pid          pid_ (NoPid, -1, when there is no child)                 *)
(*   retry_count  retry_count_                                             *)
(*   elapsed      whole seconds since state_change_time_, saturating at    *)
(*                MaxElapsed                                               *)
(*   cfg          the part of config_ that drives the life cycle           *)
(***************************************************************************)
EXTENDS Integers

CONSTANTS
  Pids,        \* process ids the kernel may hand out
  MaxElapsed,  \* bound: seconds are counted up to this value
  BackoffCap   \* the 60 of min(1 << retry_count_, 60)

ASSUME PidsAssumption == Pids \subseteq Nat \ {0}
ASSUME TimeAssumption == MaxElapsed \in Nat /\ BackoffCap \in Nat

NoPid == -1

States == {"STOPPED", "STARTING", "RUNNING", "BACKOFF", "STOPPING",
           "EXITED", "FATAL"}

\* The names util::validate_signal lets a configuration use.
SignalNames == {"TERM", "HUP", "INT", "QUIT", "KILL", "USR1", "USR2", "ABRT",
                "ALRM", "CONT", "STOP"}

ProgramConfigs == [autorestart  : BOOLEAN,
                   startsecs    : Int,
                   startretries : Int,
                   stopwaitsecs : Int,
                   stopsignal   : SignalNames]

Processes == [state       : States,
              pid         : Pids \cup {NoPid},
              retry_count : Nat,
              elapsed     : 0..MaxElapsed,
              cfg         : ProgramConfigs]

-----------------------------------------------------------------------------
\* Process::Process
Created(cfg) == [state |-> "STOPPED", pid |-> NoPid, retry_count |-> 0,
                 elapsed |-> 0, cfg |-> cfg]

\* Mutant: the clock never restarts.
SetStateKeepsClock(p, s) == [p EXCEPT !.state = s]

\* set_state_: the clock restarts only when the state really changes.
SetState(p, s) ==
  IF s = p.state THEN p ELSE [p EXCEPT !.state = s, !.elapsed = 0]

\* Mutant: one attempt too many.
AttemptFailedOffByOne(p) ==
  LET n == p.retry_count + 1
  IN  SetState([p EXCEPT !.retry_count = n],
               IF n > p.cfg.startretries THEN "FATAL" ELSE "BACKOFF")

\* Mutant: the attempt is not counted.
AttemptFailedUncounted(p) ==
  SetState(p, IF p.retry_count >= p.cfg.startretries THEN "FATAL" ELSE "BACKOFF")

\* A start attempt failed: it counts against startretries.
AttemptFailed(p) ==
  LET n == p.retry_count + 1
  IN  SetState([p EXCEPT !.retry_count = n],
               IF n >= p.cfg.startretries THEN "FATAL" ELSE "BACKOFF")

\* Mutant: a child that is still starting does not count.
MayStartUnlessRunning(p) == p.state # "RUNNING"

\* start() gets past its first test.
MayStart(p) == p.state \notin {"RUNNING", "STARTING"}

\* start(), when spawn_() returned child (NoPid when a pipe or the fork failed).
Start(p, child) ==
  IF child = NoPid THEN AttemptFailed(p)
                   ELSE SetState([p EXCEPT !.pid = child], "STARTING")

\* stop() gets past its first test.
MayStop(p) == p.pid > 0 /\ p.state # "STOPPED"

Stop(p) == SetState(p, "STOPPING")

\* The signal stop() sends for the configured name.
StopSignal(cfg) ==
  IF cfg.stopsignal \in {"INT", "QUIT", "KILL", "HUP"} THEN cfg.stopsignal
                                                      ELSE "TERM"

\* Mutants: pid_ is kept, or cleared to another value than the constructor's.
KilledKeepsPid(p) == SetState(p, "STOPPED")
KilledZeroPid(p)  == SetState([p EXCEPT !.pid = 0], "STOPPED")

\* kill(), once its blocking waitpid has returned.
Killed(p) == SetState([p EXCEPT !.pid = NoPid], "STOPPED")

\* Mutant: a requested stop is taken for a crash.
OnExitForgetsStop(p) ==
  LET q == [p EXCEPT !.pid = NoPid]
  IN  IF p.cfg.autorestart THEN SetState(q, "BACKOFF") ELSE SetState(q, "EXITED")

\* Mutant: a child that dies before startsecs is not restarted.
OnExitStartingExits(p) ==
  LET q == [p EXCEPT !.pid = NoPid]
  IN  CASE p.state = "STOPPING" ->
             [SetState(q, "STOPPED") EXCEPT !.retry_count = 0]
        [] p.state = "RUNNING" /\ p.cfg.autorestart -> SetState(q, "BACKOFF")
        [] OTHER -> SetState(q, "EXITED")

\* on_exit()
OnExit(p) ==
  LET q == [p EXCEPT !.pid = NoPid]
  IN  CASE p.state = "STOPPING" ->
             [SetState(q, "STOPPED") EXCEPT !.retry_count = 0]
        [] p.state = "STARTING" /\ p.cfg.autorestart -> AttemptFailed(q)
        [] p.state \notin {"STOPPING", "STARTING", "FATAL"} /\ p.cfg.autorestart ->
             SetState(q, "BACKOFF")
        [] OTHER -> SetState(q, "EXITED")

-----------------------------------------------------------------------------
\* The three timeouts update() looks at.

\* The child stayed up for startsecs ...
HasStarted(p) == p.state = "STARTING" /\ p.elapsed >= p.cfg.startsecs

\* ... and what update() then does.
MarkRunning(p) == [SetState(p, "RUNNING") EXCEPT !.retry_count = 0]

\* The child outlived stopwaitsecs: update() sends SIGKILL to pid_.
StopTimedOut(p) == p.state = "STOPPING" /\ p.elapsed >= p.cfg.stopwaitsecs

\* 1 << n for an int of 32 bits: the bit lands in the sign at 31.
ShiftOne(n) == IF n = 31 THEN -(2^30) - 2^30 ELSE 2^n

\* What std::min(1 << n, 60) can be in the build.  From 32 on the shift is
\* undefined: the processor masks the count, or the bit is shifted out.
BackoffDelays(n) ==
  {IF s < BackoffCap THEN s ELSE BackoffCap :
     s \in IF n < 32 THEN {ShiftOne(n)} ELSE {0, ShiftOne(n % 32)}}

\* Mutant: the elapsed time is rounded up.
RetryDueRoundsUp(p) ==
  /\ p.state = "BACKOFF"
  /\ \E delay \in BackoffDelays(p.retry_count) : p.elapsed + 1 >= delay

\* update() restarts a process that has waited long enough.
RetryDue(p) ==
  /\ p.state = "BACKOFF"
  /\ \E delay \in BackoffDelays(p.retry_count) : p.elapsed >= delay

\* One second passes.
Ticked(n) == IF n < MaxElapsed THEN n + 1 ELSE n

-----------------------------------------------------------------------------
(***************************************************************************)
(* A child is free (the id is not in use), alive, or a zombie that nobody  *)
(* has waited for.  sig is the last stop signal it was sent, SIGKILL above *)
(* all others.  age is a history variable: the seconds the child has lived *)
(* since the fork, and since the first stop signal once there is one.  It  *)
(* stops with the child, whenever SIGCHLD is handled.                      *)
(***************************************************************************)
Children == [st  : {"free", "alive", "zombie"},
             sig : SignalNames \cup {"none"},
             age : 0..MaxElapsed]

Free     == [st |-> "free",  sig |-> "none", age |-> 0]
NewChild == [st |-> "alive", sig |-> "none", age |-> 0]

\* kill(2) on a child: a zombie takes no signal, and nothing undoes SIGKILL.
Signalled(c, sig) ==
  IF c.st # "alive" \/ c.sig = "KILL" THEN c
  ELSE [c EXCEPT !.sig = sig, !.age = IF c.sig = "none" THEN 0 ELSE @]

\* A second of a child's life.
Aged(c) == IF c.st = "alive" THEN [c EXCEPT !.age = Ticked(@)] ELSE c

(***************************************************************************)
(* A history of the wait in BACKOFF: what began it, a child that ended     *)
(* ("exit") or a spawn_() that failed ("spawn"), and the seconds since the *)
(* last of them.                                                           *)
(***************************************************************************)
Failures == [kind : {"none", "exit", "spawn"}, age : 0..MaxElapsed]

NoFailure == [kind |-> "none", age |-> 0]

FailureOf(kind, p) ==
  IF p.state = "BACKOFF" THEN [kind |-> kind, age |-> 0] ELSE NoFailure

FailureTicked(f) ==
  IF f.kind = "none" THEN f ELSE [f EXCEPT !.age = Ticked(@)]
=============================================================================
