--------------------------- MODULE ProcessManager ---------------------------
(***************************************************************************)
(* ProcessManager (supervisor-lib/src/process/process_manager.cpp) with a  *)
(* fixed set of programs, and the RPC requests that reach it               *)
(* (supervisor-app/src/daemon/rpc_handlers.h).                             *)
(*                                                                         *)
(* There is one thread and one event loop.  A stop request signals the     *)
(* children and then waits in reap_until_, which polls for dead children   *)
(* and runs the event loop again inside the handler.  Requests, the update *)
(* timer and SIGCHLD are served by that inner loop, so a request may begin *)
(* while others, below it on the call stack, are still waiting; a request  *)
(* can return only when it is on top of the stack.                         *)
(***************************************************************************)
EXTENDS ProcessOps, Sequences, FiniteSetsExt

CONSTANTS
  Names,     \* the programs
  Configs,   \* the configurations a program may have
  MaxRetry,  \* bound: requests stop retrying when retry_count reaches it
  MaxDepth   \* bound: stop requests waiting at the same time

ASSUME ManagerAssumption ==
  /\ IsFiniteSet(Names)
  /\ Configs \subseteq ProgramConfigs
  /\ MaxRetry \in Nat /\ MaxDepth \in Nat

\* Clocks count far enough to tell whether stopwaitsecs have passed.
ASSUME ClockAssumption == \A cfg \in Configs : cfg.stopwaitsecs <= MaxElapsed

NoName == "no program"

ASSUME NoNameAssumption == NoName \notin Names

VARIABLES
  procs,  \* process_map_: the Process object of each program
  os,     \* what the kernel knows of each process id
  owner,  \* the program each child was forked for
  fails,  \* history: as in Process, for each program
  stack,  \* the stop requests that wait in reap_until_, the innermost last
  asked   \* history: the programs that had a child when they were last stopped by
          \* request, and were not started by request since

vars == <<procs, os, owner, fails, stack, asked>>

(***************************************************************************)
(* A frame of the call stack: stop_process waits for the program "name",   *)
(* stop_all for all; left is the time to the deadline in seconds.          *)
(***************************************************************************)
Frames == [kind : {"stop"}, name : Names, left : Nat]
            \cup [kind : {"stopall"}, left : Nat]

TypeOK ==
  /\ procs \in [Names -> Processes]
  /\ os \in [Pids -> Children]
  /\ owner \in [Pids -> Names \cup {NoName}]
  /\ fails \in [Names -> Failures]
  /\ stack \in Seq(Frames)
  /\ asked \subseteq Names

-----------------------------------------------------------------------------
Running(n) == procs[n].pid > 0

\* What fork may return when one handler starts the programs of S.
Forks(S) ==
  {fork \in [S -> {c \in Pids : os[c].st = "free"} \cup {NoPid}] :
     \A m, n \in S : m # n /\ fork[m] # NoPid => fork[m] # fork[n]}

(***************************************************************************)
(* start() of the programs of S in a handler that leaves the objects as in *)
(* base and the kernel as in kernel, but for these starts.                 *)
(***************************************************************************)
StartEach(S, base, kernel) ==
  \E fork \in Forks(S) :
    LET child(c) == \E n \in S : fork[n] = c
    IN  /\ procs' = [n \in Names |-> IF n \in S THEN Start(base[n], fork[n])
                                                ELSE base[n]]
        /\ os' = [c \in Pids |-> IF child(c) THEN NewChild ELSE kernel[c]]
        /\ owner' = [c \in Pids |-> IF child(c) THEN CHOOSE n \in S : fork[n] = c
                                                ELSE owner[c]]
        /\ fails' = [n \in Names |->
             IF n \notin S THEN fails[n]
             ELSE IF fork[n] = NoPid THEN FailureOf("spawn", procs'[n])
                                     ELSE NoFailure]

\* stop() of the programs of S.
StopEach(S) ==
  /\ procs' = [n \in Names |-> IF n \in S THEN Stop(procs[n]) ELSE procs[n]]
  /\ os' = [c \in Pids |->
       IF \E n \in S : procs[n].pid = c
       THEN Signalled(os[c], StopSignal(procs[CHOOSE n \in S : procs[n].pid = c].cfg))
       ELSE os[c]]
  /\ fails' = [n \in Names |-> IF n \in S THEN NoFailure ELSE fails[n]]
  /\ UNCHANGED owner

\* The seconds stop_process may wait for a program.
StopWait(p) == IF p.cfg.stopwaitsecs < 0 THEN 0 ELSE p.cfg.stopwaitsecs + 1

\* Mutant: the seconds are taken for milliseconds.
StopAllWaitMillis(S) == 0

\* The seconds stop_all may wait for the programs of S.
StopAllWait(S) == Max({0} \cup {procs[n].cfg.stopwaitsecs : n \in S}) + 1

-----------------------------------------------------------------------------
Init ==
  /\ procs \in [Names -> {Created(cfg) : cfg \in Configs}]
  /\ os = [c \in Pids |-> Free]
  /\ owner = [c \in Pids |-> NoName]
  /\ fails = [n \in Names |-> NoFailure]
  /\ stack = <<>>
  /\ asked = {}

\* startProcess: start_process(n).  A program that is up is left alone.
StartProcess(n) ==
  /\ MayStart(procs[n]) /\ procs[n].retry_count < MaxRetry
  /\ StartEach({n}, procs, os)
  /\ asked' = asked \ {n}
  /\ UNCHANGED stack

\* startAllProcesses: start_all().
StartAll ==
  LET S == {n \in Names : MayStart(procs[n])}
  IN  /\ S # {} /\ \A n \in S : procs[n].retry_count < MaxRetry
      /\ StartEach(S, procs, os)
      /\ asked' = {}
      /\ UNCHANGED stack

\* stopProcess: stop_process(n), up to its wait.
StopProcess(n) ==
  /\ Len(stack) < MaxDepth
  /\ procs[n].state \notin {"STOPPED", "EXITED", "FATAL"} /\ MayStop(procs[n])
  /\ StopEach({n})
  /\ asked' = asked \cup {n}
  /\ stack' = Append(stack, [kind |-> "stop", name |-> n, left |-> StopWait(procs[n])])

\* stopAllProcesses: stop_all(), up to its wait.  It returns at once when no
\* program has a child.
StopAll ==
  LET S == {n \in Names : Running(n)}
  IN  /\ Len(stack) < MaxDepth
      /\ StopEach({n \in S : MayStop(procs[n])})
      /\ asked' = asked \cup S
      /\ stack' = IF S = {} THEN stack
                  ELSE Append(stack, [kind |-> "stopall", left |-> StopAllWait(S)])

\* keep_waiting() of a wait.
KeepWaiting(frame) ==
  IF frame.kind = "stop" THEN Running(frame.name) ELSE \E n \in Names : Running(n)

\* Mutant: there is no deadline.
WaitOverWithoutDeadline(frame) == ~KeepWaiting(frame)

\* The loop of reap_until_ ends.
WaitOver(frame) == ~KeepWaiting(frame) \/ frame.left = 0

\* Mutant: nobody is killed.
RemainingIgnored(frame) == {}

\* The programs stop_all kills when its wait is over.
Remaining(frame) == {n \in Names : frame.kind = "stopall" /\ Running(n)}

\* The innermost wait is over; stop_all kills what is left.  kill() blocks the thread
\* until the child is reaped, so the children go from alive to free in this step.
Return ==
  /\ stack # <<>>
  /\ LET frame == stack[Len(stack)]
         left  == Remaining(frame)
         dead  == {procs[n].pid : n \in left}
     IN  /\ WaitOver(frame)
         /\ procs' = [n \in Names |-> IF n \in left THEN Killed(procs[n]) ELSE procs[n]]
         /\ os' = [c \in Pids |-> IF c \in dead THEN Free ELSE os[c]]
         /\ owner' = [c \in Pids |-> IF c \in dead THEN NoName ELSE owner[c]]
         /\ fails' = [n \in Names |-> IF n \in left THEN NoFailure ELSE fails[n]]
  /\ stack' = SubSeq(stack, 1, Len(stack) - 1)
  /\ UNCHANGED asked

\* on_timer_: update() of every program.
OnTimer ==
  LET killed == {procs[n].pid : n \in {m \in Names : StopTimedOut(procs[m])}}
      base   == [n \in Names |-> IF HasStarted(procs[n]) THEN MarkRunning(procs[n])
                                                         ELSE procs[n]]
      kernel == [c \in Pids |-> IF c \in killed THEN Signalled(os[c], "KILL") ELSE os[c]]
  IN  /\ StartEach({n \in Names : RetryDue(procs[n])}, base, kernel)
      /\ UNCHANGED <<stack, asked>>

\* Mutant: the process id is not compared.
NotifiedWhateverPid(zombies) == {n \in Names : Running(n)}

\* The programs handle_sigchld_ calls on_exit() of.
Notified(zombies) == {n \in Names : procs[n].pid \in zombies}

\* handle_sigchld_: waits for every zombie and tells the program whose child it is.
HandleSigchld ==
  LET zombies == {c \in Pids : os[c].st = "zombie"}
      exited  == Notified(zombies)
  IN  /\ zombies # {}
      /\ procs' = [n \in Names |-> IF n \in exited THEN OnExit(procs[n]) ELSE procs[n]]
      /\ os' = [c \in Pids |-> IF c \in zombies THEN Free ELSE os[c]]
      /\ owner' = [c \in Pids |-> IF c \in zombies THEN NoName ELSE owner[c]]
      /\ fails' = [n \in Names |-> IF n \in exited THEN FailureOf("exit", procs'[n])
                                                   ELSE fails[n]]
      /\ UNCHANGED <<stack, asked>>

\* A child ends, of itself or by a signal.
ChildExits(c) ==
  /\ os[c].st = "alive"
  /\ os' = [os EXCEPT ![c].st = "zombie"]
  /\ UNCHANGED <<procs, owner, fails, stack, asked>>

\* A second passes.
Second ==
  /\ procs' = [n \in Names |-> [procs[n] EXCEPT !.elapsed = Ticked(@)]]
  /\ os' = [c \in Pids |-> Aged(os[c])]
  /\ fails' = [n \in Names |-> FailureTicked(fails[n])]
  /\ stack' = [i \in DOMAIN stack |->
                 [stack[i] EXCEPT !.left = IF @ = 0 THEN 0 ELSE @ - 1]]
  /\ UNCHANGED <<owner, asked>>

Next ==
  \/ \E n \in Names : StartProcess(n) \/ StopProcess(n)
  \/ StartAll \/ StopAll \/ Return
  \/ OnTimer \/ HandleSigchld
  \/ \E c \in Pids : ChildExits(c)
  \/ Second

Spec == Init /\ [][Next]_vars

(***************************************************************************)
(* Time passes and handlers run, as in Process.  run_for(10 ms) returns    *)
(* after the handler during which its time ran out, and reap_until_ then   *)
(* looks at its condition and its deadline before it serves another: a     *)
(* wait that is over again and again while it is on top of the stack does  *)
(* return, whatever waits begin and end above it.  Nothing is assumed of   *)
(* the children.                                                           *)
(***************************************************************************)
Fairness ==
  /\ WF_vars(Second) /\ WF_vars(OnTimer) /\ WF_vars(HandleSigchld)
  /\ \A d \in 1..MaxDepth : SF_vars(Len(stack) = d /\ Return)

FairSpec == Spec /\ Fairness

-----------------------------------------------------------------------------
(***************************************************************************)
(* Seen from one program, the manager is a caller of Process: whatever     *)
(* holds of Process!Spec holds of each program.                            *)
(***************************************************************************)
Proc(n) == INSTANCE Process WITH
             proc <- procs[n],
             os   <- [c \in Pids |-> IF owner[c] = n THEN os[c] ELSE Free],
             fail <- fails[n]

\* Every behaviour of the manager is, for each program, a behaviour of Process:
\* this is \A n \in Names : Proc(n)!Spec in the form TLC evaluates.
EachProgramIsAProcess ==
  /\ \A n \in Names : Proc(n)!Init
  /\ [][\A n \in Names : [Proc(n)!Next]_(Proc(n)!vars)]_vars

\* No two programs claim the same child, so handle_sigchld_ tells the right one.
NoSharedChild ==
  \A m, n \in Names : m # n /\ Running(m) => procs[m].pid # procs[n].pid

\* A program that was stopped by request stays down until it is started by request.
StaysStopped ==
  \A n \in asked : procs[n].state \in {"STOPPING", "STOPPED"}

(***************************************************************************)
(* SIGKILL comes only after the grace period.  A program that was asked to *)
(* stop loses its child to SIGKILL, sent by the timer (the signal is seen) *)
(* or by the kill() of stop_all (the child is alive before the step and    *)
(* reaped after it), only when stopwaitsecs have passed since the stop     *)
(* signal, however stop requests, restarts and waits are nested; unless    *)
(* KILL is its stop signal.  A program that was started while stop_all     *)
(* waited, by request or by the timer, was not asked: the kill() of        *)
(* stop_all is the first signal it gets.                                   *)
(***************************************************************************)
SentKill(c) == \/ os'[c].st = "free"
               \/ os'[c].sig = "KILL" /\ os[c].sig # "KILL"

KillAfterGrace ==
  [][ \A n \in asked :
        LET c == procs[n].pid
        IN  c > 0 /\ os[c].st = "alive" /\ SentKill(c)
              => \/ procs[n].cfg.stopsignal = "KILL"
                 \/ os[c].sig # "none" /\ os[c].age >= procs[n].cfg.stopwaitsecs ]_vars

(***************************************************************************)
(* When stop_all() returns, every child that is still alive was sent a     *)
(* stop signal, and no program knows it: it was forgotten when its program *)
(* was started during a stop (OneChildPerProgram).  No program, whatever   *)
(* was started in the nested event loop, has a child that nobody asked to  *)
(* stop.                                                                   *)
(***************************************************************************)
StopAllAsksAll ==
  [][ Len(stack') < Len(stack) /\ stack[Len(stack)].kind = "stopall"
      => \A c \in Pids : os'[c].st = "alive" =>
           os'[c].sig # "none" /\ \A n \in Names : procs'[n].pid # c ]_vars

\* A program has at most one child: every child is the pid_ of its program.
OneChildPerProgram ==
  \A c \in Pids : owner[c] # NoName => procs[owner[c]].pid = c

\* Every stop request returns, however the waits are nested.
RequestsReturn == \A d \in 1..MaxDepth : Len(stack) >= d ~> Len(stack) < d
=============================================================================
