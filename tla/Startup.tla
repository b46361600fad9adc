------------------------------- MODULE Startup -------------------------------
(***************************************************************************)
(* Daemons that are started with the same configuration: supervisord_main, *)
(* Supervisord::run and RpcServer::start and stop, from the pidfile guard  *)
(* to the listening socket and back.  Each system call is a step.          *)
(*                                                                         *)
(* The guard is there only when a pidfile is configured, and goes last: it *)
(* is declared before the Supervisord object.                              *)
(***************************************************************************)
EXTENDS PidFile

CONSTANT Guarded  \* the daemons whose command line or configuration names a pidfile

ASSUME GuardedAssumption == Guarded \subseteq Daemons

VARIABLES
  server,     \* where each daemon is in the life of its RpcServer
  socketPath  \* the daemon whose socket the path names, Stale or Nobody

allvars == <<vars, server, socketPath>>

\* The path names a socket whose daemon has closed it or is dead.
Stale == "stale"

ASSUME StaleAssumption == Stale \notin Daemons \cup {Nobody}

(***************************************************************************)
(* "off": not started; "probed" to "secured": in start(); "listening": the *)
(* daemon runs; "closed": in stop(), before the unlink; "ended": stop() or *)
(* the destructor is done, and the pidfile guard goes next.                *)
(***************************************************************************)
Stages == {"off", "probed", "unlinked", "bound", "secured", "listening", "closed", "ended"}

StartupTypeOK ==
  /\ TypeOK
  /\ server \in [Daemons -> Stages]
  /\ socketPath \in Daemons \cup {Nobody, Stale}
  /\ \A d \in Guarded : server[d] # "off" => pc[d] \in {"guarding", "closed"}

StartupInit ==
  /\ Init
  /\ server = [d \in Daemons |-> "off"]
  /\ socketPath = Nobody

-----------------------------------------------------------------------------
Enter(d, stage) == server' = [server EXCEPT ![d] = stage]

\* The acceptor is closed, by a call, a destructor or the end of the process: a socket
\* file stays where it was.
Abandoned(d) == IF socketPath = d THEN Stale ELSE socketPath

\* The pidfile guard, if any, is constructed.
MayRun(d) == d \in Guarded => pc[d] = "guarding"

\* Mutant: nobody is asked.
AnswersNever(d) == FALSE

\* A connect(2) to the path succeeds: a bound socket that does not listen refuses it.
Answers(d) == socketPath \in Daemons /\ server[socketPath] = "listening"

\* The socket does not exist or nobody listens on it.
Probe(d) ==
  /\ server[d] = "off" /\ MayRun(d) /\ ~Answers(d)
  /\ Enter(d, "probed")
  /\ UNCHANGED <<vars, socketPath>>

\* Mutant: stop() does not look at running_.
PathAfterFailedStartUnlinked(d) == Nobody

\* start() has thrown.  The destructor calls stop(), which returns at once because
\* running_ is false, and then closes the acceptor.
PathAfterFailedStart(d) == Abandoned(d)

StartFails(d) ==
  /\ Enter(d, "ended")
  /\ socketPath' = PathAfterFailedStart(d)
  /\ UNCHANGED vars

\* The directory is refused by validate_socket_directory, or another daemon listens.
ProbeFails(d) == server[d] = "off" /\ MayRun(d) /\ StartFails(d)

\* Mutant: the stale socket is left.
PathAfterUnlinkKept == socketPath

\* unlink(2) of whatever is there.
PathAfterUnlink == Nobody

Unlink(d) ==
  /\ server[d] = "probed"
  /\ socketPath' = PathAfterUnlink
  /\ Enter(d, "unlinked")
  /\ UNCHANGED vars

Bind(d) ==
  /\ server[d] = "unlinked" /\ socketPath = Nobody
  /\ socketPath' = d
  /\ Enter(d, "bound")
  /\ UNCHANGED vars

\* The address is in use, or bind(2) fails for another reason.
BindFails(d) == server[d] = "unlinked" /\ StartFails(d)

\* set_socket_permissions: chmod(2) of whatever has the name.
Secure(d) ==
  /\ server[d] = "bound" /\ socketPath # Nobody
  /\ Enter(d, "secured")
  /\ UNCHANGED <<vars, socketPath>>

\* The path is gone, or chmod(2) fails for another reason.
SecureFails(d) == server[d] = "bound" /\ StartFails(d)

\* listen(2); then run() starts the programs and the event loop.
Listen(d) ==
  /\ server[d] = "secured"
  /\ Enter(d, "listening")
  /\ UNCHANGED <<vars, socketPath>>

\* The event loop has ended: stop() closes the acceptor ...
StopClose(d) ==
  /\ server[d] = "listening"
  /\ socketPath' = Abandoned(d)
  /\ Enter(d, "closed")
  /\ UNCHANGED vars

\* ... and unlinks what has its name now.
StopUnlink(d) ==
  /\ server[d] = "closed"
  /\ socketPath' = Nobody
  /\ Enter(d, "ended")
  /\ UNCHANGED vars

\* A daemon without a pidfile ends when its server has; the others in EndGuard.
Exit(d) ==
  /\ server[d] = "ended" /\ d \notin Guarded
  /\ Enter(d, "off")
  /\ UNCHANGED <<vars, socketPath>>

-----------------------------------------------------------------------------
(***************************************************************************)
(* The steps of the guard, with the server as supervisord_main leaves it.  *)
(***************************************************************************)
BeginGuard(d) == d \in Guarded /\ Open(d) /\ UNCHANGED <<server, socketPath>>

InGuard(d) == /\ Lock(d) \/ LockFails(d) \/ Write(d) \/ WriteFails(d)
              /\ UNCHANGED <<server, socketPath>>

\* The Supervisord object is gone.
CloseGuard(d) == server[d] = "ended" /\ Close(d) /\ UNCHANGED <<server, socketPath>>

EndGuard(d) == Remove(d) /\ Enter(d, "off") /\ UNCHANGED socketPath

\* The daemon is killed, at any point of its life.
Die(d) ==
  /\ pc[d] # "none" \/ server[d] # "off"
  /\ Goto(d, "none") /\ Release(d) /\ UNCHANGED <<path, text>>
  /\ Enter(d, "off") /\ socketPath' = Abandoned(d)

InStart(d) == Unlink(d) \/ BindFails(d) \/ Secure(d) \/ SecureFails(d) \/ Listen(d)

Ending(d) == StopClose(d) \/ StopUnlink(d) \/ Exit(d) \/ EndGuard(d) \/ Die(d)

StartupNext ==
  \E d \in Daemons : \/ BeginGuard(d) \/ InGuard(d) \/ CloseGuard(d)
                     \/ Probe(d) \/ ProbeFails(d) \/ Bind(d) \/ InStart(d)
                     \/ Ending(d)

(***************************************************************************)
(* The same, when nobody opens the pidfile while another daemon removes    *)
(* it, as in PidFile, and nobody probes the socket while a daemon that     *)
(* does not share the pidfile with it is inside start() or stop().         *)
(***************************************************************************)
Changing(e) == server[e] \in Stages \ {"off", "listening", "ended"}

Undisturbed(d) == \A e \in Daemons : Changing(e) => {d, e} \subseteq Guarded

CalmStartupNext ==
  \E d \in Daemons : \/ Nowhere("closed") /\ BeginGuard(d)
                     \/ Nowhere("opened") /\ CloseGuard(d)
                     \/ Undisturbed(d) /\ Probe(d)
                     \/ InGuard(d) \/ ProbeFails(d) \/ Bind(d) \/ InStart(d) \/ Ending(d)

StartupSpec     == StartupInit /\ [][StartupNext]_allvars
CalmStartupSpec == StartupInit /\ [][CalmStartupNext]_allvars

-----------------------------------------------------------------------------
\* At most one daemon serves requests and runs the programs, whether the others have a
\* pidfile or not.
OneServer ==
  \A c, d \in Daemons : server[c] = "listening" /\ server[d] = "listening" => c = d

\* The daemon that serves requests can be reached: a refused, failed or ending daemon
\* never takes the socket from it.
Reachable == \A d \in Daemons : server[d] = "listening" => socketPath = d

\* What dead daemons leave behind, in whatever step they were killed, does not keep
\* a daemon that is alone from running.
NoObstacle ==
  \A d \in Daemons :
    (\A e \in Daemons \ {d} : pc[e] = "none" /\ server[e] = "off")
      => /\ pc[d] = "opened" => MayLock(d)
         /\ server[d] = "off" => ~Answers(d)
         /\ server[d] = "unlinked" => socketPath = Nobody
         /\ server[d] = "bound" => socketPath # Nobody
=============================================================================
