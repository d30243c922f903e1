--------------------------- MODULE MCProcessStages ---------------------------
(* A small instance of ProcessStages for TLC.                              *)
EXTENDS ProcessStages, TLC

CONSTANTS s1, s2, t1, t2

Entry(s, t, e) == [id |-> s, type |-> t, enabled |-> e]

\* Lists of one and two stages: every order, every combination of flags, a
\* repeated id and a change of type.
MCStageLists ==
  LET on(s) == Entry(s, t1, TRUE)
      off(s) == Entry(s, t1, FALSE)
  IN  {<<on(s1)>>, <<off(s1)>>, <<on(s1), on(s2)>>, <<on(s2), on(s1)>>,
       <<off(s1), on(s2)>>, <<on(s2), off(s1)>>, <<on(s1), off(s1), on(s2)>>,
       <<Entry(s1, t2, TRUE), on(s2)>>, <<on(s2)>>}

Symmetry == Permutations(ProcessId) \cup Permutations(AttemptId)
=============================================================================
