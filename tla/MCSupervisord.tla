---------------------------- MODULE MCSupervisord ----------------------------
(***************************************************************************)
(* Instances of Supervisord for TLC.                                       *)
(***************************************************************************)
EXTENDS Supervisord

Section(n, v) == [name |-> n, ver |-> v]

\* Nothing; one and two programs; a changed program; sections in another order; two
\* sections of one name.
MCPrograms == {<<>>,
               <<Section("a", 1)>>, <<Section("b", 1)>>,
               <<Section("a", 1), Section("b", 1)>>,
               <<Section("b", 1), Section("a", 2)>>,
               <<Section("a", 2), Section("b", 2)>>,
               <<Section("a", 1), Section("a", 2)>>}
=============================================================================
