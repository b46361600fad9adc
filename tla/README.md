# TLA+ verification of supervisorcpp

supervisorcpp is a process supervisor in the style of supervisord: a daemon
(`supervisord`) that forks the programs of an INI file, restarts them, stops
them, captures their output into rotated log files, and obeys a command line
client (`supervisorctl`) over XML-RPC on a Unix socket. This directory models
its core in TLA+, checks the models with TLC and proves most of their safety
properties, for every value of the constants, with TLAPS. `PROJECT.json` lists components, runs, mutants, the
map from definitions to source lines, hazards and theorems.

## 1. Inventory

The daemon has one thread and one `boost::asio::io_context`. A handler runs to
its end before the next one, with one exception on which most of the hard
behaviour rests: a handler that has to wait for a child
(`ProcessManager::reap_until_`) polls for dead children and runs **the event
loop again inside itself**. Requests, timers and signals are served there, so
handlers nest, and each resumes with what it read before the wait.

| Component | State | Operations | Interacts with |
|---|---|---|---|
| Process (`process.cpp`) | state, pid, retry count, time of the last state change, configuration | start, stop, kill, on_exit, update | kernel (fork, kill, waitpid), LogWriter |
| Output capture (`process.cpp`) | pipe streams and read buffers | spawn_, start_*_read_, handle_*_read_ | event loop, LogWriter |
| ProcessManager (`process_manager.cpp`) | map of Process objects | start/stop of one and of all, reap_until_, handle_sigchld_, on_timer_, add/remove/sync_processes | called by RPC handlers and supervisord |
| supervisord (`supervisord.cpp`) | configuration, daemon state | reload, shutdown by signal and request, run | all of the above |
| RPC handlers (`rpc_handlers.h`) | none | one per method | ProcessManager |
| RpcServer (`rpc_server.cpp`) | acceptor, whether it runs | start, stop, accept | socket path, other daemons |
| RpcConnection (`rpc_connection.cpp`) | request text so far | read, dispatch, answer | dispatch to handlers |
| supervisorctl (`supervisorctl.h`) | none between calls | commands as one or two calls | socket |
| LogWriter (`log_writer.cpp`) | file, its size, text since the last newline | write, flush, rotate, close | file system |
| PidFileGuard (`pidfile.h`) | descriptor | constructor, destructor | file system, other daemons |
| Configuration parser (`config_parser.cpp`) | the files read so far, the configuration so far | parse_file, recursion over include files | file system; called at start and by reload |
| Security checks, XML-RPC values, daemon logging, command line | none | pure functions and I/O | |

What is hard to test, and what makes each part correct:

* **Nested handlers**: a start during a stop of the same program, a reload or a
  shutdown inside a reload, waits that can only return from the innermost on.
  A program must have one child, a reload must not run inside another, every
  request must return.
* **Timers racing deaths**: RUNNING only after `startsecs`, SIGKILL for what was
  asked to stop only after `stopwaitsecs`, restarts only after their delay, `startretries` as a budget.
* **Process ids**: a signal must never go to an id the object does not own.
* **Late completions**: a read of the previous child's pipe handled when the
  stream is already that of the next child.
* **Partial failures**: a rotation left half done, a fork that fails, a write
  that fails, a pidfile that is locked.
* **Several daemons** on one pidfile and one socket path, with crashes between
  any two system calls: one runs, it can be reached, and the dead are no obstacle.
* **Include files** that include each other, twice, or too deep, and which of two
  files prevails.
* **Numbers at their limits**: a shift that leaves the int, no backups, a request
  of just the largest size.
* **Segmentation**: a request that arrives in pieces, a limit reached in the
  middle of one, a client that dies or is interrupted, a daemon that shuts down
  with answers outstanding.

## 2. Modules

| Module | Models | Uses |
|---|---|---|
| `ProcessOps` | the methods of `Process` as functions on a record | |
| `LifeCycle` | what a client sees of a program: an abstract specification | |
| `Process` | one program, its children and its callers | `ProcessOps`, instance of `LifeCycle` |
| `ProcessProofs` | theorems about `Process` | `Process` |
| `ProcessManager`, `ManagerProofs` | several programs, nested stop requests; theorems | `ProcessOps`, instance of `Process` |
| `Supervisord`, `SupervisordProofs` | reload, shutdown, end of the event loop; theorems | |
| `ConfigParser`, `ConfigParserProofs` | parse_file over include files; theorems | |
| `Rpc`, `RpcProofs` | supervisorctl, RpcServer and RpcConnection; theorems | |
| `LogCapture`, `LogCaptureProofs` | pipes and read handlers of one program; theorems | |
| `LogWriter`, `LogWriterProofs` | buffering and rotation of one log file; theorems | |
| `PidFile` | several daemons on one pidfile | |
| `Startup`, `StartupProofs` | several daemons from pidfile to socket and back; theorems about them and about `PidFile` | `PidFile` |
| `MC...` | values of the constants for TLC | |

An operator whose comment begins with "Mutant" is a plausible bug of the
definition below it. It is used by no specification; replacing the definition
by it makes TLC report the property that `PROJECT.json` names with it.

### Process

`proc` is the object, `os` what the kernel knows of each process id (free,
alive or zombie; the signal it was sent; the seconds it has lived since it was
forked or last signalled, a zombie's clock standing still), `fail` a history of
what began the wait in BACKOFF. `CallStart`, `CallStop` and `CallKill` are the methods as ProcessManager calls them,
`UpdateStarting/Stopping/Backoff` are the branches of `update()`,
`HandleSigchld` reaps all zombies, `ChildExits` and `Second` are the world.
`update()` and `set_state_` compare whole seconds, so time is a counter that
saturates at `MaxElapsed`; the shift `1 << retry_count_` keeps the width of an
int (`ShiftOne`, `BackoffDelays`), undefined from 32 on.
A `kill(2)` of the object's own child, which nobody has waited for, is taken to
succeed. What a child does between `fork` and `exec` (user, directory,
environment) is a child that may end at any time. `kill()` blocks the thread
until the child is reaped, so in `CallKill` the child goes from alive to free in
one step; that step is a SIGKILL without grace, and it is the manager that
decides when it comes (`KillAfterGrace` in `ProcessManager`).

`RunningSurvivedStartsecs` speaks of a child that is alive. The stronger
`RanStartsecs`, which the documentation promises, is violated: `update()` looks at
the clock only, so the timer marks a child RUNNING that died before `startsecs` if
it is served before SIGCHLD (section 5).

`Spec` lets a start come at any time, as the code does. `SeqSpec` is the same
under callers that do not start a program whose stop is under way; properties
about the number of children hold only there (see `ManagerTwoChildren`), and so do
`FollowsLifeCycle` and `ExitBackoff`. The last one is about the wait after an exit:
that after a failed spawn keeps the clock of the wait before (section 5).

`LifeCycle` is the abstract specification: the state that getProcessInfo reports
and the transitions a client may see, without process ids, clocks or retry
counts. `FollowsLifeCycle` instantiates it with the state and the `autorestart`
of the object; TLC checks it and `LifeCycleFollowed` proves it. `Settles` is its
liveness: attempts end in RUNNING, FATAL, EXITED or STOPPED, and STOPPING ends.

### ProcessManager

`procs` is `process_map_`, `owner` the program each child was forked for,
`stack` the stop requests that wait in `reap_until_` with the seconds to their
deadlines, `asked` the programs that were stopped by request. A stop request is
two actions, up to its wait and after it (`Return`), and everything else may
happen in between; only the innermost wait can return. A handler that changes
several programs (`start_all`, `on_timer_`, `handle_sigchld_`) is one action.
`KillAfterGrace` sees both ways to SIGKILL, the timer's signal and the `kill()` of
`stop_all` (the child is alive before the step and reaped after it), and says that
what was asked to stop gets none before `stopwaitsecs` are over. It says nothing of
a program that was started while `stop_all` waited: that one is killed when the wait is
over, without a stop signal, as the code does. `StopAllAsksAll` says what `stop_all` then
leaves: no program has a child, and the children still alive, those forgotten by a
start during a stop, were all sent a stop signal.
`EachProgramIsAProcess` instantiates `Process` for each program
with the children it owns, so that what is proved of `Process!Spec` holds of
every program in the manager.

### Supervisord

A program is reduced to its configuration (`ver`) and to whether it has a
child, and a wait may end at any time, since deadlines are in ProcessManager. A
frame of `stack` is a handler that has not returned, with what it read before
its wait: for a reload the configuration it parsed, the programs it has still to
remove and the sections it has still to compare. A configuration is a sequence of
sections, since include files may repeat a name; `Programs` are the sequences
TLC lets a reload read. `Reload`, `SyncStep`, `SyncReturn` and `ReloadDone`
are `reload_config_` with `sync_processes`, `Sigterm` and `ShutdownRequest` the
two ways to shut down, `Leave` the end of `run()` with the destructors. Once
two reloads overlap, the code uses iterators of erased elements; the model says
nothing beyond the moment of the overlap (`CalmSpec` keeps it out).

### ConfigParser

A frame of `stack` is a call of `parse_single_file_` that has not returned, with
the files it has still to include; `ParseFile` and `Include` make the calls (the
part of `parse_single_file_` and `parse_stream_` up to the include files, with
every test that may throw, is `Enter`), `Leave` is the rest. A file is reduced to
the files its patterns expand to, in the order of `expand_glob_`, to what is
wrong with it, and to what it does to one setting; it has one program, called as
the file. `bare` is a path given without a directory. The properties compare the
outcome with what the include graph alone says: `Graph` has the include files of
each file, `Subtree` the files a file leads to, as the least set that has the file
and is closed under the directives, and `Meaningful` is defined from these two and
does not follow the parser's order.

### Rpc

A request is a head and a body of some length with a declared length; `sent`
and `rcvd` count what was written and what the connection has. `HandleRead` is
`handle_read_` with everything it calls: limit, end of headers, declared
length, parse, dispatch, answer. Methods that wait for a child push the
connection on `stack` and answer when they return. On the client side
`Connect`, `Write`, `Read` are `call_method_`; `Interrupted` is `retry_eintr_`
as written: its `continue` leaves the `do ... while (false)` loop, so an
interrupted operation counts as done. A declared length is a number no greater
than that of the body, and an answer fits into the buffer of the socket.

### LogCapture, LogWriter, PidFile, Startup

`LogCapture` numbers what each child prints and follows it through pipe,
buffer, completion queue and log. The stream of a new child replaces the old
one, whose pending read completes as aborted; buffer and handlers are shared.
The event loop may be stopped (`LoopStops`, at shutdown) and the object destroyed
(`Destroyed`, when a reload removes or replaces the program or the daemon ends) at
any time; from then on nothing is read or handled, and what is in the pipe or in a
completion is lost, as in the code. `EverythingLogged` promises nothing beyond that.
`LogIsFaithful` says it by pairs: of two characters in the log the earlier one of
a child comes first, and with a character all earlier ones of its child are there.

`LogWriter` numbers the characters it was given; files are sequences of
numbers. A rotation may stop after any of its steps, an open may fail, a write
may put only a prefix into the file; an error of write() leaves the size as it was,
one of the flush() after it does not (`Counting`). The number of backups is chosen in the
initial state, 0 included. Asking for the size of a file just opened
does not fail in the model. What a reader would put together are the texts at the
`Places` from the oldest backup to the buffer; `InOrder` and `NoGap` speak of their
characters. A call of write() is given at most `MaxPending` characters
(`ChunksAssumption`): its caller reads 4096 at a time, the limit is 64 KB. Without
that a long text could leave the limit or more in the buffer after its last newline.

`PidFile` has one action per system call of constructor and destructor, and a
crash at any point. In `CalmSpec` nobody opens the file between the close and
the remove of a destructor, nor is it closed between somebody's open and lock.

`Startup` puts the rest of `supervisord_main` around these steps. `server` is
where each daemon is in `RpcServer::start` and `stop`, `socketPath` whose socket
the path names; probe, unlink, bind, chmod, listen, close and the last unlink are
one step each, each may fail where the code throws, and a daemon may be killed in
between (`Die`). `Guarded` are the daemons with a pidfile: the others rely on
the socket only. In `CalmStartupSpec` the pidfile is used as in `CalmSpec`, and
nobody probes the socket while a daemon that does not share the pidfile with it is
inside start() or stop(); between daemons that share it the lock sees to that.

## 3. Runs

| Run | Specification | Bounds | States | Shows |
|---|---|---|---|---|
| `Process` | `Process!FairSeqSpec` | 2 process ids, 5 configurations (with and without autorestart, 0 to 2 and 34 retries, 0 to 2 s), 4 s, 3 requested retries | 8,277 | all safety properties of one program, that it implements `LifeCycle`, that a stopped child goes and that attempts end |
| `ProcessManager` | `Spec` | 2 programs, 2 process ids, 2 nested waits | 1,013,990 | the manager drives each program as `Process` allows; `NoSharedChild`, `StaysStopped`, `KillAfterGrace`, `StopAllAsksAll` |
| `ProcessManagerLive` | `FairSpec` | 2 programs, 1 process id, 2 nested waits | 63,987 | every stop request returns |
| `Supervisord` | `FairCalmSpec` | 2 programs, 7 configurations (one with two sections of one name), 3 nested handlers | 92,281 | reloads do not overlap, leave what the file says and touch nothing else; a shutdown ends |
| `ConfigParser` | `Spec` | 4 files, all ways to write up to 3 include directives, one odd file, depth 3 | 197,779 | accepted are just the trees of good files; each counts once and in order; parsing ends |
| `Rpc` | `FairSpec` | 2 clients, heads of 2, bodies of 1 and 2, limit 3, pieces of 1 and 2 | 386,115 | the verdict is that of the whole request; what was dispatched is answered; commands end |
| `LogCapture` | `FairCalmSpec` | 2 children of 4 characters, buffer of 2 | 3,003 | all output is logged, once and in order, as long as the object is served |
| `LogWriter` | `Spec` | 7 characters, files of 2, buffer of 2, 0 and 2 backups | 979,785 | nothing is kept twice or out of order, only the oldest text is lost, the size is right |
| `Startup` | `CalmStartupSpec` | 3 daemons with the pidfile, 1 without, 3 inodes | 68,576 | one daemon runs and can be reached; the dead are no obstacle |
| `ManagerTwoChildren` | `ProcessManager!Spec` | as above | violated | two children of one program |
| `SupervisordNested` | `Spec` | as above | violated | a reload inside a reload |
| `LogCaptureRestart` | `Spec` | 2 children | violated | the output of a restarted program is no longer captured |

Why the bounds are enough. Two process ids let a child be forked while another
one of the same or of another program is not yet reaped; a third would be
handled by the same tests. Seconds are compared with `startsecs`,
`stopwaitsecs` and delays of at most 4, and counted past the largest.
Two nested waits are one below another, the case that distinguishes the
innermost; with three handlers a shutdown can be nested in a reload and have
something nested in it. `RequestsReturn` and `ShutdownEnds` are thus shown for at most
two and three handlers at a time: an endless chain of new stop requests, each
nested in the one before, would keep the outermost from returning, and the code has
no bound on that chain. A request of head 2 and body 1 or 2 with pieces of 1
and 2 has a boundary inside the head, at its end, inside the body and at the
limit, which one request meets exactly. Files of 2 characters and 2
backups rotate three times within 7 characters, so that text is dropped. A
program with 34 retries passes the attempts at which the shift of `update()`
reaches the sign bit and leaves the int. Four files are enough for a chain of one
more than the depth limit of 3, a file included from two places, loops of every
length up to three, and two include files of one file with something below one
of them. Three daemons with the pidfile are one that runs, one that is refused
and one that comes after; the fourth meets them at the socket only.
`SYMMETRY` is used in `ProcessManager` only, which has no liveness property.
Deadlock is not checked in `Supervisord` (the daemon leaves), `LogCapture`
(the children end) and `ConfigParser` (parsing ends). The type invariants of
`ProcessManager`, `Supervisord` and `ConfigParser` document the state and are in
no run: the first is that of `Process` for each program.

Fairness. `Second` is time. `OnTimer` and `HandleSigchld` are rearmed by every
run of their handlers, and a child that got SIGKILL ends. Of other requests and
of the children nothing is assumed: a child may ignore every stop signal. A
wait is strongly fair per depth of the stack: `reap_until_` looks at its
condition and deadline whenever control comes back to it, so a wait that is
over each time it is on top of the stack does return, even if handlers are
nested in it again and again. In `Supervisord` and `Rpc`, which have no clock,
the same fairness stands for the deadlines that `ProcessManagerLive` checks.
In `Rpc` clients that are not interrupted run, and the event loop serves
connections that are ready. In `LogCapture` reads that can complete do, and handlers run, while the event loop
runs and the object exists; both actions are disabled afterwards.

## 4. What is proved

`ProcessProofs`, for every set of configurations and process ids and every
bound (assumptions: process ids are positive, the bounds natural numbers,
configurations have their types):

* `TypeCorrect`, `PidSafety`, `RetryBudgetKept` and `RunningIsEarned` for `Spec`, starts during a stop included. The inductive
  invariant `Inv` adds to these properties `ChildClock` (in STARTING and
  STOPPING the clock of a living child is not behind the object's, and the child was not,
  or was, signalled), without which the tests of `update()`, which look at the
  object's clock, say nothing of the child; and `RestHasNoChild` (STOPPED and
  EXITED have no pid).
* `OneChild`, `BackoffAfterExit` and `LifeCycleFollowed` for `SeqSpec`, from `Inv`
  and `SeqInv`: every child is the one in `pid_` (`OwnChild`), states at rest and
  BACKOFF have no `pid_` (`IdleHasNoChild`), and in BACKOFF after an exit the
  object's clock is the time since that exit (`ExitClock`). `BackoffAfterExit`
  speaks of attempts up to the 31st, where the shift stays in the int.
  `LifeCycleFollowed` is the refinement: one lemma per kind of step shows the
  transition of `LifeCycle` it is, or that it shows nothing. It needs the
  invariants, because a FATAL program stays FATAL when an attempt fails only if
  its budget is spent, and because only STARTING, RUNNING and STOPPING have a
  child whose end can be reported.

`StartupProofs`, for any number of daemons and inodes, first of the pidfile alone:
`OneDaemonRuns`, `PathStaysLocked` and `PidfileKeepsItsOwner` for `CalmSpec`. The
invariant says that whoever has the file open has the file at the path (`HoldsPath`), whoever
is past `flock` has its lock (`HoldsLock`), and nobody has it open while it is
about to be removed (`Alone`). Exclusiveness follows because two holders of the
lock of one path are one.

Then of whole daemons, with and without a pidfile:
`StartupUsesPidFile` (every step of a daemon is a step of `CalmSpec` or leaves the
pidfile alone, so that the three theorems above hold of whole daemons; a daemon
killed without a guard must not be seen to release a lock, which `LockIsHeld`
excludes), `StartupTypeCorrect`, `OneServerRuns`, `ServerStaysReachable` and
`NothingInTheWay`. The invariant `ServerInv` says that at most one daemon is
between its probe and the end of its stop() (`OneActive`), that a guarded one has
its pidfile then (`ActiveIsGuarded`), and that whoever has bound the socket has
the path (`HasPath`). The step that matters is the probe (`ProbeIsAlone`): another
daemon inside start() or stop() is excluded by the pidfile or the assumption, and
one that listens has the path and so answers.

`ManagerProofs`, for any finite set of programs (the deadline of a wait for several
is the largest of theirs), any process ids and any depth of nested waits: `ManagerTypeCorrect`,
`ChildrenAreNotShared`, `StopIsFinal`, `ChildrenAccounted`, `StopAllIsComplete`,
`GraceIsGiven` and the refinement `ProgramsAreProcesses`, all for `Spec`, starts during a stop included. The
inductive invariant says that the map and the kernel agree about whose child is
whose (`Links`, `Unowned`) and that a STOPPED program has no child whose end could
be reported for it (`StoppedIsDown`); `NoSharedChild` follows because a child has
one owner. `Kin` accounts for every living child: it has an owner, and unless it is
the `pid_` of a program that is STARTING or RUNNING it was sent a stop signal. A
start during a stop keeps it, because the child it forgets was signalled by that
stop; `StopAllIsComplete` follows. `Grace` is about the stack: as long as
the child of a program that was asked to stop has not had its `stopwaitsecs`, there is
a wait on the stack that covers it, and neither that wait nor one above it that covers
it has its deadline earlier (`Covers`, `Graced`); the wait that began with the stop is
such a one, later ones are as long or do not count. That the wait of `stop_all` is the
longest of its programs', and that clocks count as far as `stopwaitsecs`
(`ClockAssumption`), is what `GraceIsGiven` rests on. The refinement maps the children of the other programs to free process ids
(`View`); one lemma per action shows that what it does to one program is a step of
`Process` or none. Through it `TypeCorrect`, `PidSafety`, `RetryBudgetKept`,
and `RunningIsEarned` hold of every program in the manager.

`SupervisordProofs`, for any names, configurations and depth, of `CalmSpec` (no
reload after a SIGTERM, see `SupervisordNested`): `DaemonTypeCorrect`,
`ReloadsDoNotNest`, `ReloadIsComplete` and `ReloadIsMinimal`. A reload on the stack
means that the daemon is RESTARTING, unless SIGTERM has overwritten that
(`ReloadIsGuarded`), which is what keeps the next one out; and its frame says how far
it is (`FrameOK`, `Synced`): the sections still to compare are the last of those it
read, a program among the sections compared has the version of the last one of its
name, and every other one still that of `config_` or, when the file no longer has it
and it was removed, none. Requests served in between must not disturb that.

`RpcProofs`, for any number of clients, requests, sizes and limits, of `Spec`:
`RpcTypeCorrect`, `VerdictIgnoresCutting` and `BrokenMeansNotServed`. The invariant
is mostly about one client (`LocalOK`: its command, its call, its connection, and
the verdict on what was received so far, `VerdictOK`), so that a step of one
client leaves the others' alone; `StackOK` says that the handlers on the stack are
those of different connections that were dispatched and not answered, and `GoneOK`
that a daemon that has left its event loop has no connection.

`LogCaptureProofs`, for any number of restarts, characters and any buffer:
`CaptureTypeCorrect` of `Spec`; `CalmStaysCaptured` and `CalmLogIsFaithful` of
`CalmSpec`, from `CalmInv`: an open stream has one read that is armed or one whose
handler has to run, and a closed one neither (`OneRead`), the end of a pipe is seen
only when no process has it (`EndIsSeen`), both as long as the object exists, the buffer has the characters of the read
whose handler has to run (`BufferIsCurrent`), and the log has all others that were
read (`LogIsComplete`).

`LogWriterProofs`, for every limit on file and buffer, every number of backups,
negative ones included, and all texts: `WriterTypeCorrect`, `LogIsInOrder`,
`OnlyTheOldestGo` and `SizeIsRight` of `Spec`, with failing operations. The invariant
adds that a stream that has not failed is open and has a file, that no character is
later than the last one sent, and that `lost` records every failure. Rotation is
reduced to a shift: after some of its steps every file from the hole on is the one
before it (`RotatedIsShifted`); moving text from the buffer to the file and a shift
take each character from one place of the old texts, in the same order
(`Embedding`), which keeps them sorted. A rotation loses nothing but the oldest
characters because the buffer has the latest one (`RotatedPromise`), and the buffer
stays below its limit by `FlushEndFacts`, which uses `ChunksAssumption`.

`ConfigParserProofs`, for any finite set of files, any contents and any depth:
`ParserTypeCorrect` and `ParsingEnds` of `Spec`. The invariant `Inv` says that the
calls that have not returned are of different files, that all of them count as
included, and that their programs were not read yet. `ParsingEnds` bounds the number
of steps by twice that of the files and one.

`VerdictHolds`, `ProgramOrderHolds` and `IncludedOverridesHolds` are about the
outcome. Their argument has three parts:

* Include graphs. What holds of all of a `Subtree` is shown by a closed set of files
  for which it does (`SubtreeLeast`), which takes the place of an induction over
  paths. In a tree the way to a file passes through the file that includes it
  (`WayThroughParent`); so there are no loops (`NoLoop`, `NoSelfInclude`: a loop has
  no way in from the main file), of two files that lead to a third one leads to the
  other (`OnOneWay`), the directives of a file lead to different files
  (`DirectivesApart`), and the order in which files are read is one
  (`PrecedesOneWay`), so that at most one file assigns a setting last.
* The invariant `Outcome`. While files are read, there is a number of directives
  `taken` of each file such that the directives followed led to different files and
  to every file seen but the main one (`Followed`); each call was made for the last
  directive taken of its caller (`Nested`); files that are done have none left and
  were reached from a directive of a caller before the present one (`Visited`); the
  files are good, and in a tree those that lead to a call's file are just its callers
  (`Accepted`); the setting is that of the last file seen that assigns it
  (`Assigned`) and the programs are in order (`Ordered`). The parser cannot know
  that it is in a tree before the end, so only `Accepted` assumes it. Once it has
  refused the files, they are not `Meaningful`. One lemma per conjunct shows what
  a call (`NextFollowed`, `NextNested`, ...) and a return (`ReturnVisited`, ...) do
  to it.
* The refusals and the end. A file seen before is one that a second directive leads to
  (`SeenTwice`); a call too deep has as many different callers (`DeepFile`, which
  counts them); when all calls have returned the files seen are closed under the
  directives, so they are all that can be reached, and the directives followed are all
  there are, so they form a tree (`EndTree`, `EndMeaning`).

Assumptions on constants, beyond their types: process ids are positive,
`IsFiniteSet(Names)` in `ProcessManager` and clocks that count as far as any
`stopwaitsecs` there (`ClockAssumption`), `IsFiniteSet(Files)` in `ConfigParser` (a
depth is the number of files that lead to one), requests declare no more than their body
(`Rpc`), and a text given to `LogWriter` fits into its buffer.

Only model-checked: the liveness properties `StoppedChildGoes`, `Settles`,
`RequestsReturn`, `ShutdownEnds`, `EverythingLogged` and `CommandEnds`; the prover has
no rules for fairness and ENABLED that it can apply here. Every invariant and action
property of a passing run is a theorem. The library's induction theorems cannot be
used with these provers; least-element and least-set arguments can (`Least` in
`LogWriterProofs`, `SubtreeLeast`), folds and `SelectSeq` cannot be reasoned about, which is why `InOrder`, `NoGap` and `LogIsFaithful` are
stated by places and pairs and not by a filtered sequence.

## 5. Disagreements between code and documentation

Three have a run that shows them (`findings` in `PROJECT.json`). The others were
met while modelling; the definitions named model what the code does.

* A `start()` that fails during a stop leaves BACKOFF or FATAL with a child;
  when it is FATAL the end of that child makes an autorestart program EXITED
  (`OnExit`; docs/SPECIFICATION.md says EXITED is for autorestart=false). A
  `start()` that succeeds forgets the old child, which is then never killed if
  it ignores the stop signal.
* `update()` compares the clock of the state only (process.cpp:206). When the timer is
  served before the SIGCHLD of a child that died before `startsecs` (both due in one
  turn of the event loop, or the thread was in another handler), the dead child is
  marked RUNNING and `retry_count_` is reset, so that its failure does not count.
  docs/SPECIFICATION.md:47 says "process must run this long to be considered started".
  With `RanStartsecs` among the invariants of Process.cfg TLC reports it.
* `set_state_` does not restart the clock from BACKOFF to BACKOFF (`SetState`),
  so after a failed spawn the next attempt is not delayed by its own backoff.
* `1 << retry_count_` leaves the int when `startretries` exceeds 31
  (`BackoffDelays`): from the attempt at which the sign bit is reached the delay
  is negative or undefined, not the 60 seconds of the comment at process.cpp:221.
* `stop()` sends SIGTERM for USR1, USR2 and other accepted names (`StopSignal`).
* `stop_all()` passes over programs in BACKOFF, which the timer then starts; in its
  own wait too, and then kills them at the end of it without a stop signal
  (`Remaining`), like those started by request.
* Output in the pipe when an object is destroyed, by a reload that replaces or
  removes its program, or when the shutdown stops the event loop, is not logged
  (`Destroyed`, `LoopStops`).
* `stop_process()` returns true also when its deadline has passed with the child
  still there (`Return`).
* A reload in whose wait a shutdown was nested goes on and starts programs
  (`SyncReturn`); only the destructor ends them.
* A line longer than 64 KB may be split between two files (`FlushEnd`), `flush()`
  writes without a look at the size limit (`Flushed`), and with `backups` of 0
  the file `.1` is kept (`Rotated`).
* A daemon that is refused has already emptied the pidfile (`Open`).
* `retry_eintr_` does not retry (`Interrupted`).
* The destructor of PidFileGuard closes, and so unlocks, the file before it removes
  the path (`Close`, `Remove`): a daemon that opened the path in between locks an
  inode without a name, and a third one locks a new file. pidfile.h:23 says "The
  lock prevents multiple daemon instances from using the same pidfile." With
  `StartupSpec` in place of `CalmStartupSpec` in Startup.cfg TLC reports
  `OneDaemon`; and `OneServer` too, since probe, unlink and bind of the
  two are then not kept apart by the lock (`Probe`, `Unlink`, `Bind`).
* Two sections of one name (only possible across include files) make every reload
  of an unchanged file restart the program twice (`MustReplace` sees each section
  differ from what the other left), against "Unchanged - leave running"
  (process_manager.cpp:166). `UnchangedLeftAlone` leaves such files out.
* `supervisord -c config.ini` (README.md:177): a path without a directory has an
  empty `parent_path()`, so its include files are ignored without a word at the
  start (`Includes`, `bare`), and read by a reload, which uses the canonical path.
* A setting of an included file overrides that of the file which includes it,
  while of two programs of one name the including file's prevails
  (`IncludedOverrides`, `ProgramOrder`).
* docs/SPECIFICATION.md:96 speaks of multiple `files` directives; `read_ini` refuses
  a key that comes twice, so there is one list of patterns.
* `remove_process` logs its argument after the erase, and `sync_processes` passes a
  reference to the key that was erased (process_manager.cpp:140).

## 6. Not modelled

* Text: INI syntax and comments, environments, sizes, substitutions, glob patterns,
  XML-RPC values and HTTP headers character by character. They are pure functions
  without state, covered by the unit tests; where they refuse something, the
  models have the refusal.
* The tests of owners, modes and paths inside `secure.cpp`: stateless, and modelled
  by their verdict.
* Daemon logging (Boost.Log), command line, printing of results by supervisorctl.
* An object that a reload has erased from `process_map_` while an outer
  `stop_process` still waits with it. `handle_sigchld_` does not find it any more, so
  its `pid_` stays; `Supervisord` has no process ids, and `ProcessManager` no reload.
  `PidSafe` is about objects in the map.
* A Content-Length that is not a number: no client of the repository sends one.
* `parse_string`, which only tests call and which has no include files.
* Moving a PidFileGuard, which changes no file.
* A child between fork and exec holds copies of the listening socket and of the
  pidfile's descriptor; in `Startup` they go with the daemon that is killed.
* What `restart` of supervisorctl means for a program is not stated as one property:
  its two calls are in `Rpc`, what each does is in `ProcessManager`.

Log files of stderr and stdout are the same code and modelled once.

## 7. Plan

Order of work, the most important behaviour first; all of it is done.

1. `ProcessOps`, `Process`, their run and theorems.
2. `ProcessManager` over `ProcessOps`, with `Process` as its abstraction.
3. `Supervisord`: nested reloads and shutdowns.
4. `LogCapture`.
5. `LogWriter`.
6. `PidFile` and its theorems.
7. `Rpc`: one call from supervisorctl to the handler and back.
8. `Startup`: pidfile and socket of several daemons, and its theorems.
9. `ConfigParser`: include files.
10. `LifeCycle`, which `Process` is proved to implement.
11. Sections of one name in `Supervisord`, no backups in `LogWriter`, more than 31
    retries in `Process`.
12. Proofs: the manager implements Process for every set of programs;
    `NoSharedChild`, `StaysStopped`, `KillAfterGrace`, `StopAllAsksAll`; `OneReload`,
    `MapMatchesConfig` and `UnchangedLeftAlone`; `VerdictOfWhole` and
    `ServedIsAnswered`; `LogCapture`; `LogWriter`; `EveryStepCounts`.
13. Proofs of `Verdict`, `ProgramOrder` and `IncludedOverrides`, for which the include
    graph was restated with `Subtree` as a least closed set.
