--------------------------- MODULE MCEvaluations ---------------------------
(* Two attempts at the first stage and one at the second; two texts with one *)
(* key.                                                                      *)
EXTENDS Evaluations

ThreeAttempts == {[stage |-> 1, number |-> 1], [stage |-> 1, number |-> 2],
                  [stage |-> 2, number |-> 1]}
TwoScores == {86, 87}
TwoAdvices == {<<[key |-> "practise", text |-> "Practise"]>>,
               <<[key |-> "practise", text |-> "practise"], [key |-> "read", text |-> "Read"]>>}
=============================================================================
