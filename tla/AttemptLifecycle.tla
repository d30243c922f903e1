-------------------------- MODULE AttemptLifecycle --------------------------
(***************************************************************************)
(* What the product promises of an attempt, whatever tables hold it: it is *)
(* created once, runs and pauses, is completed for good, and is removed    *)
(* for good.  An identifier never comes back.                              *)
(***************************************************************************)
CONSTANT AttemptId

VARIABLE life    \* life[a]: where attempt a is in its life

Open == {"ready", "in_progress", "paused"}

Init == life = [a \in AttemptId |-> "unborn"]

Create(a) ==
  /\ life[a] = "unborn"
  /\ life' = [life EXCEPT ![a] = "ready"]

Start(a) ==
  /\ life[a] \in {"ready", "paused"}
  /\ life' = [life EXCEPT ![a] = "in_progress"]

Pause(a) ==
  /\ life[a] = "in_progress"
  /\ life' = [life EXCEPT ![a] = "paused"]

Finish(a) ==
  /\ life[a] \in Open
  /\ life' = [life EXCEPT ![a] = "completed"]

\* A whole process may be removed with all its attempts.
Remove(S) ==
  /\ \A a \in S : life[a] \in Open \cup {"completed"}
  /\ life' = [a \in AttemptId |-> IF a \in S THEN "gone" ELSE life[a]]

Next ==
  \/ \E a \in AttemptId : Create(a) \/ Start(a) \/ Pause(a) \/ Finish(a)
  \/ \E S \in SUBSET AttemptId : Remove(S)

Spec == Init /\ [][Next]_life
=============================================================================
