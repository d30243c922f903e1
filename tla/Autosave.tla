------------------------------ MODULE Autosave ------------------------------
(***************************************************************************)
(* The autosave hook of the editable pages as operators on its record h:   *)
(* saved, the value it takes for stored (lastSaved); saving, what the      *)
(* latest unanswered request holds, if any (savingSnapshot); sequence, the *)
(* latest request; its status; and whether the debounce timer runs.        *)
(***************************************************************************)
EXTENDS Naturals

Status == {"idle", "pending", "saving", "saved", "error"}
Hook(Value) ==
  [saved : Value, saving : SUBSET Value, sequence : Nat, status : Status, timer : BOOLEAN]

\* reset, after the page has loaded v.
Fresh(v) ==
  [saved |-> v, saving |-> {}, sequence |-> 0, status |-> "idle", timer |-> FALSE]

\* Mutant of Rendered: no timer is started while a save is under way.
RenderedQuietly(h, v) ==
  IF v = h.saved \/ h.saving # {} THEN [h EXCEPT !.timer = FALSE]
  ELSE [h EXCEPT !.timer = TRUE, !.status = "pending"]

\* The effect that follows a change of the value to v.
Rendered(h, v) ==
  IF v = h.saved THEN [h EXCEPT !.timer = FALSE]
  ELSE [h EXCEPT !.timer = TRUE, !.status = "pending"]

\* Whether saveNow(v) sends a request.
Sends(h, v) == v # h.saved /\ v \notin h.saving

\* The hook after saveNow(v), should the request be number n.
Asked(h, v, n) ==
  IF v = h.saved THEN [h EXCEPT !.status = "saved"]
  ELSE IF v \in h.saving THEN h
  ELSE [h EXCEPT !.saving = {v}, !.sequence = n, !.status = "saving"]

\* The requests whose answer still counts.
Current(h, n) == n = h.sequence

\* finally: the snapshot is no longer being saved.
Settled(h, v) == [h EXCEPT !.saving = @ \ {v}]

\* Mutant of Answered: the page is not asked what it holds by now.
AnsweredUnchecked(h, n, v, normalized, value) ==
  Settled(IF ~Current(h, n) THEN h
          ELSE [h EXCEPT !.saved = normalized, !.status = "saved"], v)

\* The answer to request n, which held v: the server has stored normalized, and
\* the page now holds value.
Answered(h, n, v, normalized, value) ==
  Settled(IF ~Current(h, n) THEN h
          ELSE [h EXCEPT !.saved = normalized,
                         !.status = IF value = v THEN "saved" ELSE "pending"], v)

Failed(h, n, v) ==
  Settled(IF ~Current(h, n) THEN h ELSE [h EXCEPT !.status = "error"], v)
=============================================================================
