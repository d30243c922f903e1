-------------------------- MODULE AutosavedDocument --------------------------
(***************************************************************************)
(* What a single editor with autosave promises while the network loses     *)
(* nothing: what is stored is a state of the document on the screen, it    *)
(* never goes back, and what was drawn stays on the screen.                *)
(***************************************************************************)
CONSTANT Stroke

VARIABLES
  drawn,      \* the strokes on the screen
  stored,     \* the strokes the server holds
  lossless    \* no request and no answer has been lost

vars == <<drawn, stored, lossless>>

Init == drawn = {} /\ stored = {} /\ lossless = TRUE

Draw ==
  /\ lossless
  /\ \E stroke \in Stroke \ drawn : drawn' = drawn \cup {stroke}
  /\ UNCHANGED <<stored, lossless>>

Store ==
  /\ lossless
  /\ stored' \in SUBSET drawn
  /\ stored \subseteq stored'
  /\ UNCHANGED <<drawn, lossless>>

\* A loss by itself changes neither side; nothing is promised after it.
Lose == lossless /\ ~lossless' /\ UNCHANGED <<drawn, stored>>
Broken == ~lossless /\ ~lossless'

Next == Draw \/ Store \/ Lose \/ Broken

Spec == Init /\ [][Next]_vars
=============================================================================
