----------------------------- MODULE Supervisord -----------------------------
(***************************************************************************)
(* The daemon (supervisor-app/src/daemon/supervisord.cpp): configuration   *)
(* reload with ProcessManager::sync_processes, shutdown by signal and by   *)
(* request, and the end of the event loop.                                 *)
(*                                                                         *)
(* Handlers nest.  A reload, a stop or a shutdown that waits for a child   *)
(* runs the event loop inside its own handler (ProcessManager::reap_until_ *)
(* ), which serves other requests and signals; the handler goes on when    *)
(* everything above it on the call stack has returned.                     *)
(*                                                                         *)
(* A program is reduced to what reload and shutdown look at.  Its life     *)
(* cycle is in Process, the deadlines of the waits are in ProcessManager:  *)
(* here a wait may end at any time.                                        *)
(***************************************************************************)
EXTENDS Integers, Sequences, FiniteSetsExt

CONSTANTS
  Names,     \* the programs a configuration may have
  Versions,  \* the ways a program may be configured
  Programs,  \* what config.programs may be after parse_file
  MaxDepth   \* bound: handlers on the call stack

NoVersion == 0

ASSUME VersionsAssumption == NoVersion \notin Versions
ASSUME DepthAssumption == MaxDepth \in Nat

\* The program sections of a configuration, in the order of parse_file.  Files that
\* include others may have sections of the same name.
Sections == [name : Names, ver : Versions]

ASSUME ProgramsAssumption == Programs \subseteq Seq(Sections)

VARIABLES
  config,  \* the programs of config_
  map,     \* process_map_
  daemon,  \* daemon_state_
  loop,    \* io_context_: running, stopped by stop(), or left for good
  termed,  \* the one wait for SIGTERM and SIGINT was used up
  stack    \* the handlers that have not returned, the innermost last

vars == <<config, map, daemon, loop, termed, stack>>

Named(programs) == {programs[i].name : i \in DOMAIN programs}

\* What add_process() of all programs leaves for n: the last section of a name counts.
VersionIn(programs, n) ==
  IF n \notin Named(programs) THEN NoVersion
  ELSE programs[Max({i \in DOMAIN programs : programs[i].name = n})].ver

(***************************************************************************)
(* A Process object: "up" and "stopping" have a child (pid_ > 0), and      *)
(* "backoff" will be restarted by the update timer.                        *)
(***************************************************************************)
Runs    == {"idle", "backoff", "up", "stopping"}
Objects == [ver : Versions \cup {NoVersion}, run : Runs]
Absent  == [ver |-> NoVersion, run |-> "idle"]

(***************************************************************************)
(* A handler on the stack: the programs whose children it waits for (none  *)
(* when it is running); for a reload also the configuration it read, the   *)
(* programs it has still to remove, and the sections it has still to       *)
(* compare.                                                                *)
(***************************************************************************)
Frames == [kind : {"stop", "stopall", "shutdown", "reload"},
           wait : SUBSET Names, new : Seq(Sections),
           drop : SUBSET Names, apply : Seq(Sections)]

TypeOK == /\ config \in Programs
          /\ map \in [Names -> Objects]
          /\ daemon \in {"RUNNING", "RESTARTING", "SHUTDOWN"}
          /\ loop \in {"running", "stopped", "left"}
          /\ termed \in BOOLEAN
          /\ stack \in Seq(Frames)

-----------------------------------------------------------------------------
HasChild(obj) == obj.run \in {"up", "stopping"}

\* What start() may leave: a child, another attempt later, or FATAL.  An object
\* that still has a child keeps one.
Started(obj) == IF HasChild(obj) THEN {"up"} ELSE {"up", "backoff", "idle"}

\* The objects after run of each program of S became one of Outcomes(n).
Changed(S, Outcomes(_)) ==
  {m \in [Names -> Objects] :
     \A n \in Names : IF n \in S THEN m[n].ver = map[n].ver /\ m[n].run \in Outcomes(n)
                                 ELSE m[n] = map[n]}

Children == {n \in Names : HasChild(map[n])}

Top     == stack[Len(stack)]
Waiting == stack # <<>> /\ Top.wait # {}

\* The event loop, the outer one or the one of a wait, serves handlers.
Serving == loop = "running" /\ (stack = <<>> \/ Waiting)

Pop          == stack' = SubSeq(stack, 1, Len(stack) - 1)
Push(frame)  == Len(stack) < MaxDepth /\ stack' = Append(stack, frame)
Become(frame) == stack' = [stack EXCEPT ![Len(stack)] = frame]

Wait(kind, S) == [kind |-> kind, wait |-> S, new |-> <<>>, drop |-> {}, apply |-> <<>>]

-----------------------------------------------------------------------------
\* run(), when it has called start_all().
Init ==
  /\ config \in Programs
  /\ map \in {m \in [Names -> Objects] :
                \A n \in Names : /\ m[n].ver = VersionIn(config, n)
                                 /\ m[n].run \in IF m[n].ver = NoVersion THEN {"idle"}
                                                 ELSE Started(Absent)}
  /\ daemon = "RUNNING" /\ loop = "running" /\ termed = FALSE /\ stack = <<>>

\* startProcess.
StartRequest(n) ==
  /\ Serving /\ map[n].ver # NoVersion
  /\ map' \in Changed({n}, LAMBDA m : Started(map[m]))
  /\ UNCHANGED <<config, daemon, loop, termed, stack>>

\* startAllProcesses.
StartAllRequest ==
  /\ Serving
  /\ map' \in Changed({n \in Names : map[n].ver # NoVersion}, LAMBDA n : Started(map[n]))
  /\ UNCHANGED <<config, daemon, loop, termed, stack>>

\* stopProcess, up to its wait.
StopRequest(n) ==
  /\ Serving /\ HasChild(map[n])
  /\ map' = [map EXCEPT ![n].run = "stopping"]
  /\ Push(Wait("stop", {n}))
  /\ UNCHANGED <<config, daemon, loop, termed>>

\* stop_all(), up to its wait, called by a handler of this kind.  A shutdown with
\* nothing to wait for stops the event loop at once.
StopAll(kind) ==
  /\ map' = [n \in Names |-> IF HasChild(map[n]) THEN [map[n] EXCEPT !.run = "stopping"]
                                                 ELSE map[n]]
  /\ IF Children # {} THEN Push(Wait(kind, Names)) /\ UNCHANGED loop
     ELSE /\ UNCHANGED stack
          /\ loop' = IF kind = "shutdown" THEN "stopped" ELSE loop
  /\ UNCHANGED config

StopAllRequest == Serving /\ StopAll("stopall") /\ UNCHANGED <<daemon, termed>>

\* The request posts a handler that stops everything.
ShutdownRequest == Serving /\ StopAll("shutdown") /\ UNCHANGED <<daemon, termed>>

\* SIGTERM or SIGINT.  The handler waits for the signal only once.
Sigterm ==
  /\ Serving /\ ~termed
  /\ StopAll("shutdown")
  /\ termed' = TRUE /\ daemon' = "SHUTDOWN"

\* on_timer_: update() starts what is in BACKOFF and due.
OnTimer ==
  /\ Serving
  /\ \E S \in SUBSET {n \in Names : map[n].run = "backoff"} :
       S # {} /\ map' \in Changed(S, LAMBDA n : Started(map[n]))
  /\ UNCHANGED <<config, daemon, loop, termed, stack>>

\* handle_sigchld_, called by SIGCHLD and by every wait, for the children of S.
HandleSigchld(S) ==
  /\ Serving \/ Waiting
  /\ S # {} /\ S \subseteq Children
  /\ map' \in Changed(S, LAMBDA n : IF map[n].run = "stopping" THEN {"idle"}
                                    ELSE {"idle", "backoff"})
  /\ UNCHANGED <<config, daemon, loop, termed, stack>>

-----------------------------------------------------------------------------
\* Mutant: no test for a reload in progress.
MayReloadAlways == TRUE

\* reload_config_ gets past its tests.
MayReload == daemon # "RESTARTING"

\* daemon_state_ after parse_file has thrown.
AfterFailedReload == "RUNNING"

\* SIGHUP or reloadConfig: parse_file reads whatever programs are in the file now,
\* or throws.
Reload ==
  /\ Serving /\ MayReload
  /\ \/ /\ \E new \in Programs :
             Push([kind |-> "reload", wait |-> {}, new |-> new,
                   drop  |-> {n \in Names : map[n].ver # NoVersion} \ Named(new),
                   apply |-> new])
        /\ daemon' = "RESTARTING"
     \/ daemon' = AfterFailedReload /\ UNCHANGED stack
  /\ UNCHANGED <<config, map, loop, termed>>

\* The program sync_processes looks at: one to remove first, then section by section.
Subjects(frame) ==
  IF frame.drop # {} THEN frame.drop
  ELSE IF frame.apply # <<>> THEN {Head(frame.apply).name} ELSE {}

\* The version the program is to have.
Target(frame) == IF frame.drop # {} THEN NoVersion ELSE Head(frame.apply).ver

Done(frame, n) ==
  IF frame.drop # {} THEN [frame EXCEPT !.wait = {}, !.drop = @ \ {n}]
                     ELSE [frame EXCEPT !.wait = {}, !.apply = Tail(@)]

\* erase(it), then add_process and start_process if the program is configured.
\* A child that is still there is killed with its object, or, when a stop_process that
\* waits for it still holds the object, when that one returns; process_map_ does not
\* have it either way.
Replace(frame, n) ==
  map' \in {[map EXCEPT ![n] = obj] :
              obj \in IF Target(frame) = NoVersion THEN {Absent}
                      ELSE [ver : {Target(frame)}, run : Started(Absent)]}

\* Mutants: programs that are up are left as they are; every program is restarted.
MustReplaceIdle(frame, n)   == map[n].ver # Target(frame) /\ ~HasChild(map[n])
MustReplaceAlways(frame, n) == TRUE

\* The program is not in the file, or its configuration differs.
MustReplace(frame, n) == map[n].ver # Target(frame)

\* sync_processes looks at its next program.
SyncStep ==
  /\ stack # <<>> /\ Top.kind = "reload" /\ Top.wait = {}
  /\ \E n \in Subjects(Top) :
       \/ /\ ~MustReplace(Top, n)
          /\ Become(Done(Top, n)) /\ UNCHANGED map
       \/ /\ MustReplace(Top, n) /\ HasChild(map[n])
          /\ map' = [map EXCEPT ![n].run = "stopping"]
          /\ Become([Top EXCEPT !.wait = {n}])
       \/ /\ MustReplace(Top, n) /\ ~HasChild(map[n])
          /\ Replace(Top, n) /\ Become(Done(Top, n))
  /\ UNCHANGED <<config, daemon, loop, termed>>

\* The wait for a program that is being removed is over.
SyncReturn ==
  /\ Waiting /\ Top.kind = "reload"
  /\ \E n \in Top.wait : Replace(Top, n) /\ Become(Done(Top, n))
  /\ UNCHANGED <<config, daemon, loop, termed>>

\* sync_processes has returned.
ReloadDone ==
  /\ stack # <<>> /\ Top.kind = "reload"
  /\ Top.wait = {} /\ Top.drop = {} /\ Top.apply = <<>>
  /\ config' = Top.new /\ daemon' = "RUNNING" /\ Pop
  /\ UNCHANGED <<map, loop, termed>>

-----------------------------------------------------------------------------
\* Mutant: the event loop goes on.
LoopAfterRunning(kind) == loop

\* io_context_ after a handler of this kind has returned.
LoopAfter(kind) == IF kind = "shutdown" THEN "stopped" ELSE loop

\* The wait of a stop or shutdown is over.  stop_all kills what is left.
Return ==
  /\ Waiting /\ Top.kind # "reload"
  /\ map' = [n \in Names |-> IF Top.kind # "stop" /\ HasChild(map[n])
                             THEN [map[n] EXCEPT !.run = "idle"] ELSE map[n]]
  /\ loop' = LoopAfter(Top.kind)
  /\ Pop
  /\ UNCHANGED <<config, daemon, termed>>

\* io_context_.run() has returned: ~ProcessManager stops and kills what is left.
Leave ==
  /\ loop = "stopped" /\ stack = <<>>
  /\ loop' = "left"
  /\ map' = [n \in Names |-> [map[n] EXCEPT !.run = "idle"]]
  /\ UNCHANGED <<config, daemon, termed, stack>>

NextButReload ==
  \/ \E n \in Names : StartRequest(n) \/ StopRequest(n)
  \/ StartAllRequest \/ StopAllRequest \/ ShutdownRequest \/ Sigterm
  \/ OnTimer
  \/ \E S \in SUBSET Names : HandleSigchld(S)
  \/ SyncStep \/ SyncReturn \/ ReloadDone
  \/ Return \/ Leave

Next == Reload \/ NextButReload

\* No reload is asked for after SIGTERM.
CalmNext == (~termed /\ Reload) \/ NextButReload

Spec     == Init /\ [][Next]_vars
CalmSpec == Init /\ [][CalmNext]_vars

(***************************************************************************)
(* Handlers run to their end, and every wait has a deadline after which    *)
(* its loop ends, whatever handlers were nested in it meanwhile.           *)
(***************************************************************************)
Fairness ==
  /\ WF_vars(SyncStep) /\ WF_vars(ReloadDone) /\ WF_vars(Leave)
  /\ \A d \in 1..MaxDepth : SF_vars(Len(stack) = d /\ (Return \/ SyncReturn))

FairCalmSpec == CalmSpec /\ Fairness

-----------------------------------------------------------------------------
\* A reload never runs inside another: the test of daemon_state_ keeps it out
\* while the first one iterates over process_map_.
OneReload ==
  \A i, j \in DOMAIN stack : stack[i].kind = "reload" /\ stack[j].kind = "reload" => i = j

\* When no reload is under way, the programs supervised are exactly those of
\* config_, each with the configuration it has there.
MapMatchesConfig ==
  (\A i \in DOMAIN stack : stack[i].kind # "reload") =>
    \A n \in Names : map[n].ver = VersionIn(config, n)

\* A reload stops, replaces or starts only programs whose configuration differs
\* between the file it read and the one before it, whatever was requested meanwhile:
\* "Unchanged - leave running".  Sections of the same name are restarted one after
\* the other and are left out.
UnchangedLeftAlone ==
  [][ stack # <<>> /\ Top.kind = "reload" /\ Top.wait = {}
        /\ Cardinality(Named(Top.new)) = Len(Top.new)
      => \A n \in Names : map'[n] # map[n] => VersionIn(config, n) # VersionIn(Top.new, n)
    ]_vars

\* Once a handler has begun to shut down, the daemon leaves, whatever handlers it
\* is nested in and whatever is nested in it.
ShutdownEnds ==
  (\E i \in DOMAIN stack : stack[i].kind = "shutdown") ~> loop = "left"
=============================================================================
