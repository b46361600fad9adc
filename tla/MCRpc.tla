-------------------------------- MODULE MCRpc --------------------------------
(***************************************************************************)
(* Instances of Rpc for TLC.                                               *)
(***************************************************************************)
EXTENDS Rpc

\* What supervisorctl sends, one too long, and one that does not declare its length.
MCRequests == {[body |-> 1, declared |-> 1], [body |-> 2, declared |-> 2],
               [body |-> 1, declared |-> 0]}
=============================================================================
