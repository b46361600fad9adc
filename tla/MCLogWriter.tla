----------------------------- MODULE MCLogWriter -----------------------------
(***************************************************************************)
(* Instances of LogWriter for TLC.                                         *)
(***************************************************************************)
EXTENDS LogWriter

\* A part of a line, the end of one, a line, and an end and a beginning.
MCChunks == {<<"c">>, <<"nl">>, <<"c", "nl">>, <<"nl", "c">>}
=============================================================================
