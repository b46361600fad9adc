-------------------------- MODULE MCProcessManager --------------------------
(***************************************************************************)
(* Instances of ProcessManager for TLC.                                    *)
(***************************************************************************)
EXTENDS ProcessManager, TLC

Config(auto, start, retries, stop, sig) ==
  [autorestart |-> auto, startsecs |-> start, startretries |-> retries,
   stopwaitsecs |-> stop, stopsignal |-> sig]

\* A program that is RUNNING a second after its start and is retried once.
MCConfigs == {Config(TRUE, 1, 2, 1, "TERM")}

\* The programs are treated alike.
NamesSymmetry == Permutations(Names)
=============================================================================
