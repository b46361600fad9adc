------------------------------ MODULE LifeCycle ------------------------------
(***************************************************************************)
(* What a client sees of a program that is not started while it stops: the *)
(* state that getProcessInfo reports.  It is an abstract specification,    *)
(* which Process implements: no processes, clocks, or retry counts.        *)
(***************************************************************************)
VARIABLES
  state,       \* the state shown
  autorestart  \* how the program is configured

vars == <<state, autorestart>>

Init == state = "STOPPED" /\ autorestart \in BOOLEAN

Becomes(from, to) == state \in from /\ state' \in to /\ UNCHANGED autorestart

\* A request, or the end of the delay in BACKOFF: it begins another attempt, or the
\* attempt fails at once, which leaves a FATAL program FATAL.
Attempt == \/ Becomes({"STOPPED", "EXITED", "BACKOFF"}, {"STARTING", "BACKOFF", "FATAL"})
           \/ Becomes({"FATAL"}, {"STARTING"})

\* The program has been up long enough.
Confirm == Becomes({"STARTING"}, {"RUNNING"})

\* The program ended by itself: the end of a program that was RUNNING never makes it
\* FATAL, and EXITED is the end of programs without autorestart.
End == \/ autorestart /\ Becomes({"STARTING"}, {"BACKOFF", "FATAL"})
       \/ autorestart /\ Becomes({"RUNNING"}, {"BACKOFF"})
       \/ ~autorestart /\ Becomes({"STARTING", "RUNNING"}, {"EXITED"})

\* It is asked to stop; then, or when it is killed, it is STOPPED and nothing else.
Stop    == Becomes({"STARTING", "RUNNING"}, {"STOPPING"})
Stopped == Becomes({"STARTING", "RUNNING", "STOPPING"}, {"STOPPED"})

Next == Attempt \/ Confirm \/ End \/ Stop \/ Stopped

Safety == Init /\ [][Next]_vars

\* Attempts come to an end: the program is RUNNING, was given up, or has ended.
Progress ==
  /\ state \in {"STARTING", "BACKOFF"} ~> state \in {"RUNNING", "FATAL", "EXITED", "STOPPED"}
  /\ state = "STOPPING" ~> state = "STOPPED"

Spec == Safety /\ Progress
=============================================================================
