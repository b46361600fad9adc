---------------------------- MODULE StartupProofs ----------------------------
(***************************************************************************)
(* Daemons that are started with one configuration, for any number of      *)
(* them, of starts and of crashes: when nobody opens the pidfile while     *)
(* another daemon removes it, or probes the socket while one that does not *)
(* share the pidfile is inside start() or stop(), one daemon serves, and   *)
(* it can be reached.                                                      *)
(***************************************************************************)
EXTENDS Startup, TLAPS

USE InodesAssumption, DaemonsAssumption

-----------------------------------------------------------------------------
(***************************************************************************)
(* The pidfile.  When constructors and destructors do not overlap, one     *)
(* daemon at most runs with it.                                            *)
(***************************************************************************)
\* The states of a daemon that has the pidfile open, and those past flock(2).
Opened == {"opened", "locked", "guarding"}
Locked == {"locked", "guarding"}

\* Whoever has the file open has the file at the path: it was not removed and
\* created again meanwhile.
HoldsPath == \A d \in Daemons : pc[d] \in Opened => fd[d] \in Inodes /\ path = fd[d]

\* Whoever is past flock(2) has the lock.
HoldsLock == \A d \in Daemons : pc[d] \in Locked => lock[fd[d]] = d

\* Nobody has the file open while a daemon is about to remove it.
Alone == \A c, d \in Daemons : pc[c] = "closed" => pc[d] \notin Opened

Inv == TypeOK /\ HoldsPath /\ HoldsLock /\ Alone /\ PidfileNamesNoOther

\* Two daemons that hold the lock of the file at the path are one.
LEMMA LockIsExclusive ==
  ASSUME Inv, NEW c \in Daemons, NEW d \in Daemons,
         pc[c] \in Locked, pc[d] \in Locked
  PROVE  c = d
BY DEF Inv, HoldsPath, HoldsLock, Opened, Locked

\* The empty system satisfies the invariant.
LEMMA InitInv == Init => Inv
BY DEF Init, Inv, TypeOK, Places, HoldsPath, HoldsLock, Alone, PidfileNamesNoOther, Opened,
       Locked

\* Every step keeps the invariant.
LEMMA NextInv == Inv /\ [CalmNext]_vars => Inv'
<1> SUFFICES ASSUME Inv, [CalmNext]_vars PROVE Inv'
  OBVIOUS
<1> USE DEF Inv, TypeOK, Places, HoldsPath, HoldsLock, Alone, PidfileNamesNoOther, Opened,
            Locked, Goto
<1>1. CASE UNCHANGED vars
  BY <1>1 DEF vars
<1>2. ASSUME NEW d \in Daemons, Nowhere("closed"), Open(d) PROVE Inv'
  <2>1. PICK i \in Inodes : /\ IF path = NoInode THEN ~InUse(i) ELSE i = path
                            /\ path' = i
                            /\ fd' = [fd EXCEPT ![d] = i]
                            /\ text' = [text EXCEPT ![i] = Empty]
    BY <1>2 DEF Open
  <2>2. pc' = [pc EXCEPT ![d] = "opened"] /\ pc[d] = "none" /\ UNCHANGED lock
    BY <1>2 DEF Open
  <2>3. TypeOK'
    BY <2>1, <2>2, InodesAssumption
  <2>4. HoldsPath'
    BY <2>1, <2>2, InodesAssumption
  <2>5. HoldsLock'
    BY <2>1, <2>2
  <2>6. Alone'
    BY <1>2, <2>2 DEF Nowhere
  <2>7. PidfileNamesNoOther'
    BY <2>1, <2>2, InodesAssumption
  <2> QED BY <2>3, <2>4, <2>5, <2>6, <2>7
<1>3. ASSUME NEW d \in Daemons, Nowhere("opened"), Close(d) PROVE Inv'
  <2>1. \A c \in Daemons : c # d => pc[c] \notin Opened
    BY <1>3, LockIsExclusive DEF Close, Nowhere
  <2>2. TypeOK'
    BY <1>3 DEF Close, Release
  <2>3. HoldsPath' /\ HoldsLock' /\ Alone' /\ PidfileNamesNoOther'
    BY <1>3, <2>1 DEF Close, Release
  <2> QED BY <2>2, <2>3
<1>4. ASSUME NEW d \in Daemons, Lock(d) PROVE Inv'
  BY <1>4, DaemonsAssumption DEF Lock, MayLock
<1>5. ASSUME NEW d \in Daemons, LockFails(d) PROVE Inv'
  BY <1>5 DEF LockFails, GiveUp, Release, PathAfterFailure
<1>6. ASSUME NEW d \in Daemons, Write(d) PROVE Inv'
  <2>1. TypeOK' /\ HoldsPath' /\ HoldsLock' /\ Alone'
    BY <1>6 DEF Write
  <2>2. \A c \in Daemons : c # d => pc[c] # "guarding"
    BY <1>6, LockIsExclusive DEF Write
  <2>3. PidfileNamesNoOther'
    BY <1>6, <2>2 DEF Write
  <2> QED BY <2>1, <2>3
<1>7. ASSUME NEW d \in Daemons, WriteFails(d) PROVE Inv'
  BY <1>7 DEF WriteFails, GiveUp, Release, PathAfterFailure
<1>8. ASSUME NEW d \in Daemons, Remove(d) PROVE Inv'
  BY <1>8 DEF Remove
<1>9. ASSUME NEW d \in Daemons, Crash(d) PROVE Inv'
  BY <1>9 DEF Crash, Release
<1> QED
  BY <1>1, <1>2, <1>3, <1>4, <1>5, <1>6, <1>7, <1>8, <1>9 DEF CalmNext, Others

\* The invariant holds in every state.
THEOREM Safety == CalmSpec => []Inv
BY InitInv, NextInv, PTL DEF CalmSpec

\* PidFileGuard keeps a second daemon out: never two of them run.
THEOREM OneDaemonRuns == CalmSpec => []OneDaemon
<1>1. Inv => OneDaemon
  BY LockIsExclusive DEF OneDaemon, Locked
<1> QED BY <1>1, Safety, PTL

\* The file at the path stays the one that the running daemon has locked.
THEOREM PathStaysLocked == CalmSpec => []PathIsLocked
<1>1. Inv => PathIsLocked
  BY DEF Inv, HoldsPath, HoldsLock, PathIsLocked, Opened, Locked
<1> QED BY <1>1, Safety, PTL

\* Nobody writes his process id over that of the running daemon.
THEOREM PidfileKeepsItsOwner == CalmSpec => []PidfileNamesNoOther
BY Safety, PTL DEF Inv

-----------------------------------------------------------------------------
(***************************************************************************)
(* The daemon around it.                                                   *)
(***************************************************************************)
USE GuardedAssumption, StaleAssumption

\* A daemon has the lock of a file only while it has the file open and is past flock(2).
LockIsHeld ==
  \A i \in Inodes : \A d \in Daemons : lock[i] = d => pc[d] \in Locked /\ fd[d] = i

\* The server is in start(), serves, or is in stop().
Active(d) == server[d] \notin {"off", "ended"}

\* The Supervisord object lives inside the guard.
ActiveIsGuarded == \A d \in Guarded : Active(d) => pc[d] = "guarding"

\* Probing and listening exclude each other, by the pidfile or by the socket.
OneActive == \A c, d \in Daemons : Active(c) /\ Active(d) => c = d

\* Whoever has bound the socket has the path, and nobody does after the unlink.
HasPath ==
  \A d \in Daemons : /\ server[d] \in {"bound", "secured", "listening"} => socketPath = d
                     /\ server[d] = "unlinked" => socketPath = Nobody

ServerInv == /\ StartupTypeOK /\ LockIsHeld
             /\ ActiveIsGuarded /\ OneActive /\ HasPath

-----------------------------------------------------------------------------
\* The empty system satisfies the invariant.
LEMMA StartupInitInv == StartupInit => Inv /\ ServerInv
<1> SUFFICES ASSUME StartupInit PROVE Inv /\ ServerInv
  OBVIOUS
<1>1. Inv
  BY InitInv DEF StartupInit
<1> QED
  BY <1>1 DEF StartupInit, Init, Inv, ServerInv, StartupTypeOK, Stages, LockIsHeld,
              ActiveIsGuarded, OneActive, Active, HasPath

\* What a daemon that is killed does to its guard: a crash of PidFile, or nothing when
\* it has none.
LEMMA DieIsCrash ==
  ASSUME Inv, LockIsHeld, NEW d \in Daemons, Die(d)
  PROVE  Crash(d) \/ UNCHANGED vars
<1>1. /\ pc' = [pc EXCEPT ![d] = "none"]
      /\ fd' = [fd EXCEPT ![d] = NoInode]
      /\ lock' = [i \in Inodes |-> IF lock[i] = d THEN Nobody ELSE lock[i]]
      /\ path' = path /\ text' = text
  BY DEF Die, Goto, Release
<1>2. CASE pc[d] # "none"
  BY <1>1, <1>2 DEF Crash, Release, Goto
<1>3. CASE pc[d] = "none"
  <2>1. fd[d] = NoInode
    BY <1>3 DEF Inv, TypeOK
  <2>2. \A i \in Inodes : lock[i] # d
    BY <1>3 DEF LockIsHeld, Locked
  <2>3. pc' = pc /\ fd' = fd
    BY <1>1, <1>3, <2>1 DEF Inv, TypeOK
  <2>4. lock' = lock
    BY <1>1, <2>2 DEF Inv, TypeOK
  <2> QED BY <1>1, <2>3, <2>4 DEF vars
<1> QED BY <1>2, <1>3

\* Every step of a daemon is a step of its guard, or none.
LEMMA StepOfGuard ==
  Inv /\ LockIsHeld /\ [CalmStartupNext]_allvars => [CalmNext]_vars
<1> SUFFICES ASSUME Inv, LockIsHeld, [CalmStartupNext]_allvars
             PROVE  [CalmNext]_vars
  OBVIOUS
<1>1. CASE UNCHANGED allvars
  BY <1>1 DEF allvars, vars
<1>2. ASSUME NEW d \in Daemons, Nowhere("closed") /\ BeginGuard(d) PROVE [CalmNext]_vars
  BY <1>2 DEF BeginGuard, CalmNext
<1>3. ASSUME NEW d \in Daemons, Nowhere("opened") /\ CloseGuard(d) PROVE [CalmNext]_vars
  BY <1>3 DEF CloseGuard, CalmNext
<1>4. ASSUME NEW d \in Daemons, InGuard(d) \/ EndGuard(d) PROVE [CalmNext]_vars
  BY <1>4 DEF InGuard, EndGuard, CalmNext, Others
<1>5. ASSUME NEW d \in Daemons, Die(d) PROVE [CalmNext]_vars
  BY <1>5, DieIsCrash DEF CalmNext, Others
<1>6. ASSUME NEW d \in Daemons,
             \/ Probe(d) \/ ProbeFails(d) \/ Bind(d) \/ InStart(d)
             \/ StopClose(d) \/ StopUnlink(d) \/ Exit(d)
      PROVE  [CalmNext]_vars
  BY <1>6 DEF Probe, ProbeFails, Bind, InStart, Unlink, BindFails, Secure, SecureFails, Listen,
              StartFails, StopClose, StopUnlink, Exit
<1> QED
  BY <1>1, <1>2, <1>3, <1>4, <1>5, <1>6 DEF CalmStartupNext, Ending

\* No step leaves a lock with a daemon that has closed the file.
LEMMA LockStaysHeld ==
  Inv /\ LockIsHeld /\ [CalmNext]_vars => LockIsHeld'
<1> SUFFICES ASSUME Inv, LockIsHeld, [CalmNext]_vars PROVE LockIsHeld'
  OBVIOUS
<1> USE DEF Inv, TypeOK, LockIsHeld, Locked, Goto
<1>1. CASE UNCHANGED vars
  BY <1>1 DEF vars
<1>2. ASSUME NEW d \in Daemons, Open(d) PROVE LockIsHeld'
  BY <1>2 DEF Open, Places
<1>3. ASSUME NEW d \in Daemons, Close(d) \/ Crash(d) PROVE LockIsHeld'
  BY <1>3 DEF Close, Crash, Release
<1>4. ASSUME NEW d \in Daemons, Lock(d) PROVE LockIsHeld'
  BY <1>4 DEF Lock, MayLock
<1>5. ASSUME NEW d \in Daemons, LockFails(d) \/ WriteFails(d) PROVE LockIsHeld'
  BY <1>5 DEF LockFails, WriteFails, GiveUp, Release
<1>6. ASSUME NEW d \in Daemons, Write(d) \/ Remove(d) PROVE LockIsHeld'
  BY <1>6 DEF Write, Remove
<1> QED
  BY <1>1, <1>2, <1>3, <1>4, <1>5, <1>6 DEF CalmNext, Others

-----------------------------------------------------------------------------
(***************************************************************************)
(* The steps of the server.                                                *)
(***************************************************************************)

\* A daemon that passes the probe is the only one: one in start() or stop() is kept
\* out by the pidfile or not disturbed, and one that listens has the path and answers.
LEMMA ProbeIsAlone ==
  ASSUME Inv, ServerInv, NEW d \in Daemons, Undisturbed(d), Probe(d), NEW e \in Daemons
  PROVE  ~Active(e)
<1> SUFFICES ASSUME Active(e) PROVE FALSE
  OBVIOUS
<1>1. server[d] = "off" /\ MayRun(d) /\ ~Answers(d)
  BY DEF Probe
<1>2. CASE server[e] = "listening"
  BY <1>1, <1>2 DEF ServerInv, HasPath, Answers
<1>3. CASE server[e] # "listening"
  <2>1. Changing(e)
    BY <1>3 DEF Changing, Active, ServerInv, StartupTypeOK
  <2>2. d \in Guarded /\ e \in Guarded
    BY <2>1 DEF Undisturbed
  <2>3. pc[d] = "guarding" /\ pc[e] = "guarding"
    BY <1>1, <2>2 DEF MayRun, ServerInv, ActiveIsGuarded
  <2>4. d = e
    BY <2>3, LockIsExclusive DEF Locked
  <2> QED BY <1>1, <2>4 DEF Active
<1> QED BY <1>2, <1>3

\* A step of start(), stop() or main that leaves the guard alone and changes the stage
\* of d from one in which d is active, or to one in which it is not.
LEMMA ServerStep ==
  ASSUME Inv, ServerInv, UNCHANGED vars, NEW d \in Daemons, NEW stage \in Stages,
         server' = [server EXCEPT ![d] = stage],
         d \in Guarded => stage # "off",
         server[d] = "off" => MayRun(d),
         Active(d) \/ stage \in {"off", "ended"},
         socketPath' \in Daemons \cup {Nobody, Stale},
         stage \in {"bound", "secured", "listening"} => socketPath' = d,
         stage = "unlinked" => socketPath' = Nobody,
         \/ Active(d)
         \/ socketPath' = socketPath
         \/ socketPath = d /\ socketPath' = Stale
  PROVE  ServerInv'
<1> USE DEF ServerInv
<1>1. /\ server'[d] = stage
      /\ \A e \in Daemons : e # d => server'[e] = server[e]
  BY DEF StartupTypeOK
<1>2. StartupTypeOK'
  BY <1>1 DEF StartupTypeOK, TypeOK, vars, MayRun
<1>3. LockIsHeld'
  BY DEF LockIsHeld, vars
<1>4. ActiveIsGuarded'
  BY <1>1 DEF ActiveIsGuarded, Active, vars
<1>5. OneActive'
  BY <1>1 DEF OneActive, Active
<1>6. HasPath'
  <2> SUFFICES ASSUME NEW e \in Daemons
               PROVE  /\ server'[e] \in {"bound", "secured", "listening"} => socketPath' = e
                      /\ server'[e] = "unlinked" => socketPath' = Nobody
    BY DEF HasPath
  <2>1. CASE e = d
    BY <1>1, <2>1
  <2>2. CASE e # d
    <3>1. Active(e) => ~Active(d)
      BY <2>2 DEF OneActive
    <3>2. server'[e] \in {"bound", "secured", "listening", "unlinked"} => Active(e)
      BY <1>1, <2>2 DEF Active
    <3> QED BY <1>1, <2>2, <3>1, <3>2 DEF HasPath
  <2> QED BY <2>1, <2>2
<1> QED BY <1>2, <1>3, <1>4, <1>5, <1>6

\* The probe makes a daemon active when no other is.
LEMMA ProbeInv ==
  ASSUME Inv, ServerInv, NEW d \in Daemons, Undisturbed(d), Probe(d)
  PROVE  ServerInv'
<1>1. \A e \in Daemons : ~Active(e)
  BY ProbeIsAlone
<1>2. /\ server' = [server EXCEPT ![d] = "probed"]
      /\ UNCHANGED <<pc, fd, path, text, lock, socketPath>> /\ MayRun(d)
  BY DEF Probe, Enter, vars
<1> USE DEF ServerInv
<1>3. /\ server'[d] = "probed"
      /\ \A e \in Daemons : e # d => server'[e] = server[e]
  BY <1>2 DEF StartupTypeOK
<1>4. StartupTypeOK' /\ LockIsHeld'
  BY <1>2, <1>3 DEF StartupTypeOK, TypeOK, Stages, MayRun, LockIsHeld
<1>5. ActiveIsGuarded' /\ OneActive'
  BY <1>1, <1>2, <1>3 DEF ActiveIsGuarded, OneActive, Active, MayRun
<1>6. HasPath'
  BY <1>1, <1>3 DEF HasPath, Active
<1> QED BY <1>4, <1>5, <1>6

\* start() after the probe, stop(), and the end of a daemon without a pidfile.
LEMMA RunInv ==
  ASSUME Inv, ServerInv, NEW d \in Daemons,
         \/ ProbeFails(d) \/ Bind(d) \/ InStart(d)
         \/ StopClose(d) \/ StopUnlink(d) \/ Exit(d)
  PROVE  ServerInv'
<1> USE DEF Enter, Active, Stages
<1>0. socketPath \in Daemons \cup {Nobody, Stale}
  BY DEF ServerInv, StartupTypeOK
<1>1. CASE ProbeFails(d)
  BY <1>0, <1>1, ServerStep DEF ProbeFails, StartFails, PathAfterFailedStart, Abandoned
<1>2. CASE Bind(d)
  BY <1>2, ServerStep DEF Bind
<1>3. CASE Unlink(d)
  BY <1>3, ServerStep DEF Unlink, PathAfterUnlink
<1>4. CASE BindFails(d) \/ SecureFails(d)
  BY <1>0, <1>4, ServerStep DEF BindFails, SecureFails, StartFails, PathAfterFailedStart, Abandoned
<1>5. CASE Secure(d)
  BY <1>0, <1>5, ServerStep DEF Secure, ServerInv, HasPath
<1>6. CASE Listen(d)
  BY <1>0, <1>6, ServerStep DEF Listen, ServerInv, HasPath
<1>7. CASE StopClose(d)
  BY <1>0, <1>7, ServerStep DEF StopClose, Abandoned
<1>8. CASE StopUnlink(d)
  BY <1>8, ServerStep DEF StopUnlink
<1>9. CASE Exit(d)
  BY <1>0, <1>9, ServerStep DEF Exit
<1> QED
  BY <1>1, <1>2, <1>3, <1>4, <1>5, <1>6, <1>7, <1>8, <1>9 DEF InStart

\* The guard is built before the server and goes after it.
LEMMA GuardInv ==
  ASSUME ServerInv, TypeOK', LockIsHeld', NEW d \in Daemons,
         BeginGuard(d) \/ InGuard(d) \/ CloseGuard(d)
  PROVE  ServerInv'
<1> USE DEF ServerInv, StartupTypeOK
<1>1. server' = server /\ socketPath' = socketPath
  BY DEF BeginGuard, InGuard, CloseGuard
<1>2. \A e \in Daemons : e # d => pc'[e] = pc[e]
  BY DEF BeginGuard, InGuard, CloseGuard, Open, Lock, LockFails, Write, WriteFails, Close,
         GiveUp, Goto, TypeOK
<1>3. d \in Guarded => \/ server[d] = "off"
                       \/ server[d] = "ended" /\ pc'[d] = "closed"
  BY DEF BeginGuard, InGuard, CloseGuard, Open, Lock, LockFails, Write, WriteFails, Close,
         Goto, TypeOK
<1>4. StartupTypeOK'
  BY <1>1, <1>2, <1>3
<1>5. ActiveIsGuarded'
  BY <1>1, <1>2, <1>3 DEF ActiveIsGuarded, Active
<1>6. OneActive' /\ HasPath'
  BY <1>1 DEF OneActive, HasPath, Active
<1> QED BY <1>4, <1>5, <1>6

\* The end of a daemon, by itself or killed, leaves the others what they have.
LEMMA EndInv ==
  ASSUME ServerInv, TypeOK', LockIsHeld', NEW d \in Daemons, EndGuard(d) \/ Die(d)
  PROVE  ServerInv'
<1> USE DEF ServerInv, StartupTypeOK
<1>1. /\ server' = [server EXCEPT ![d] = "off"]
      /\ pc' = [pc EXCEPT ![d] = "none"]
      /\ socketPath' \in {socketPath, IF socketPath = d THEN Stale ELSE socketPath}
  BY DEF EndGuard, Die, Enter, Abandoned, Remove, Goto
<1>2. server'[d] = "off" /\ \A e \in Daemons : e # d => server'[e] = server[e] /\ pc'[e] = pc[e]
  BY <1>1 DEF TypeOK
<1>3. StartupTypeOK'
  BY <1>1, <1>2 DEF Stages
<1>4. ActiveIsGuarded' /\ OneActive'
  BY <1>2 DEF ActiveIsGuarded, OneActive, Active
<1>5. HasPath'
  BY <1>1, <1>2 DEF HasPath
<1> QED BY <1>3, <1>4, <1>5

\* Every step keeps both invariants.
LEMMA StartupNextInv ==
  Inv /\ ServerInv /\ [CalmStartupNext]_allvars => Inv' /\ ServerInv'
<1> SUFFICES ASSUME Inv, ServerInv, [CalmStartupNext]_allvars PROVE Inv' /\ ServerInv'
  OBVIOUS
<1>1. [CalmNext]_vars
  BY StepOfGuard DEF ServerInv
<1>2. Inv' /\ LockIsHeld'
  BY <1>1, NextInv, LockStaysHeld DEF ServerInv
<1>3. CASE UNCHANGED allvars
  BY <1>2, <1>3 DEF allvars, vars, Inv, ServerInv, StartupTypeOK, ActiveIsGuarded, OneActive,
                    HasPath, Active
<1>4. ASSUME NEW d \in Daemons, BeginGuard(d) \/ CloseGuard(d) \/ InGuard(d) PROVE ServerInv'
  BY <1>2, <1>4, GuardInv DEF Inv
<1>5. ASSUME NEW d \in Daemons, Undisturbed(d) /\ Probe(d) PROVE ServerInv'
  BY <1>5, ProbeInv
<1>6. ASSUME NEW d \in Daemons, ProbeFails(d) \/ Bind(d) \/ InStart(d) PROVE ServerInv'
  BY <1>6, RunInv
<1>7. ASSUME NEW d \in Daemons, Ending(d) PROVE ServerInv'
  BY <1>2, <1>7, RunInv, EndInv DEF Ending, Inv
<1> QED
  BY <1>2, <1>3, <1>4, <1>5, <1>6, <1>7 DEF CalmStartupNext

\* The invariants hold in every state.
THEOREM StartupSafety == CalmStartupSpec => [](Inv /\ ServerInv)
BY StartupInitInv, StartupNextInv, PTL DEF CalmStartupSpec

\* The daemon as a whole uses its pidfile as PidFile says: what holds of CalmSpec, such
\* as OneDaemon, holds of daemons that start and end around it.
THEOREM StartupUsesPidFile == CalmStartupSpec => CalmSpec
<1>1. StartupInit => Init
  BY DEF StartupInit
<1>2. Inv /\ ServerInv /\ [CalmStartupNext]_allvars => [CalmNext]_vars
  BY StepOfGuard DEF ServerInv
<1> QED BY <1>1, <1>2, StartupSafety, PTL DEF CalmStartupSpec, CalmSpec

\* The state of daemons is well typed, and a daemon with a pidfile has its guard as long
\* as it has its server.
THEOREM StartupTypeCorrect == CalmStartupSpec => []StartupTypeOK
<1>1. ServerInv => StartupTypeOK
  BY DEF ServerInv
<1> QED BY <1>1, StartupSafety, PTL

\* RpcServer::start keeps a second daemon out, whether it has a pidfile or not.
THEOREM OneServerRuns == CalmStartupSpec => []OneServer
<1>1. ServerInv => OneServer
  BY DEF ServerInv, OneServer, OneActive, Active
<1> QED BY <1>1, StartupSafety, PTL

\* Nobody takes the socket from the daemon that listens.
THEOREM ServerStaysReachable == CalmStartupSpec => []Reachable
<1>1. ServerInv => Reachable
  BY DEF ServerInv, Reachable, HasPath
<1> QED BY <1>1, StartupSafety, PTL

\* What dead daemons leave behind keeps nobody from running.
THEOREM NothingInTheWay == CalmStartupSpec => []NoObstacle
<1>1. Inv /\ ServerInv => NoObstacle
  <2> SUFFICES ASSUME Inv, ServerInv, NEW d \in Daemons,
                      \A e \in Daemons \ {d} : pc[e] = "none" /\ server[e] = "off"
               PROVE  /\ pc[d] = "opened" => MayLock(d)
                      /\ server[d] = "off" => ~Answers(d)
                      /\ server[d] = "unlinked" => socketPath = Nobody
                      /\ server[d] = "bound" => socketPath # Nobody
    BY DEF NoObstacle
  <2>1. pc[d] = "opened" => MayLock(d)
    <3> SUFFICES ASSUME pc[d] = "opened" PROVE lock[fd[d]] = Nobody
      BY DEF MayLock
    <3>1. fd[d] \in Inodes
      BY DEF Inv, HoldsPath, Opened
    <3>2. lock[fd[d]] \in Daemons \cup {Nobody}
      BY <3>1 DEF Inv, TypeOK
    <3>3. \A e \in Daemons : lock[fd[d]] # e
      BY <3>1 DEF ServerInv, LockIsHeld, Locked
    <3> QED BY <3>2, <3>3
  <2>2. server[d] = "off" => ~Answers(d)
    BY DEF Answers
  <2>3. /\ server[d] = "unlinked" => socketPath = Nobody
        /\ server[d] = "bound" => socketPath # Nobody
    BY DEF ServerInv, HasPath
  <2> QED BY <2>1, <2>2, <2>3
<1> QED BY <1>1, StartupSafety, PTL
=============================================================================
