----------------------------- MODULE Transcript -----------------------------
(***************************************************************************)
(* What the canonical transcript of an attempt promises its readers: it    *)
(* grows at its end, one message at a time, until it is dropped with its   *)
(* attempt, after which nothing is ever written again.                     *)
(***************************************************************************)
EXTENDS Integers, Sequences

CONSTANT Entry

VARIABLES
  log,     \* the messages, in order
  dropped  \* the attempt has been deleted

vars == <<log, dropped>>

Init == log = << >> /\ dropped = FALSE

Extend ==
  /\ ~dropped
  /\ Len(log') = Len(log) + 1
  /\ SubSeq(log', 1, Len(log)) = log
  /\ log'[Len(log')] \in Entry
  /\ UNCHANGED dropped

Drop == ~dropped /\ dropped' = TRUE /\ log' = << >>

Next == Extend \/ Drop

Spec == Init /\ [][Next]_vars
=============================================================================
