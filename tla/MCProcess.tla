----------------------------- MODULE MCProcess -----------------------------
(***************************************************************************)
(* Instances of Process for TLC.                                           *)
(***************************************************************************)
EXTENDS Process

Config(auto, start, retries, stop, sig) ==
  [autorestart |-> auto, startsecs |-> start, startretries |-> retries,
   stopwaitsecs |-> stop, stopsignal |-> sig]

\* With and without autorestart; no, one and several retries; no grace, no
\* startsecs; a stop signal the code sends as it is, and KILL; more retries than an
\* int has bits.
MCConfigs == {Config(TRUE,  1, 2, 2, "TERM"),
              Config(TRUE,  0, 1, 1, "KILL"),
              Config(TRUE,  2, 0, 0, "INT"),
              Config(FALSE, 1, 2, 1, "TERM"),
              Config(TRUE,  1, 34, 1, "TERM")}
=============================================================================
