-------------------------------- MODULE Forms --------------------------------
(***************************************************************************)
(* The two pages that edit one row of the server with the autosave hook.   *)
(* Settings: preferences and an API key, which is sent with the form, never*)
(* shown again, and removed by a request of its own.  Profile: fields that *)
(* a CV can fill, fields of the user's own, and a photo, which is uploaded *)
(* and removed by requests of their own.  Requests overlap; the server may *)
(* handle them, and the page receive their answers, in any order.          *)
(***************************************************************************)
EXTENDS Autosave, FiniteSets

CONSTANTS
  MaxEdits,    \* bound: changes of the form by the user
  MaxBlurs,    \* bound: saves on blur or with the button
  MaxAsides,   \* bound: requests for the key or the photo, and imports
  MaxLosses    \* bound: requests or answers that the network loses

ASSUME FormsAssumption == {MaxEdits, MaxBlurs, MaxAsides, MaxLosses} \subseteq Nat

VARIABLES
  page,      \* the page that is open
  form,      \* its fields
  hook,      \* its autosave hook
  shown,     \* what it shows of the key or the photo: 0 for none
  dialog,    \* "Import profile": closed, or what it waits for
  wire,      \* requests and answers under way
  stored,    \* the server's row
  typed,     \* what the user last entered or imported
  last,      \* the latest request whose save the server has carried out
  taken,     \* the latest save whose answer the page has taken
  calm,      \* no two requests have overlapped and none has been lost
  back,      \* the last change of the form made it what the hook takes for saved
  count      \* edits, blurs, asides, losses and requests so far

vars == <<page, form, hook, shown, dialog, wire, stored, typed, last, taken, calm,
          back, count>>

\* What a CV fills ("padded" holds a blank skill, which the server drops) and the
\* rest: on the profile with a link that the server refuses, on the settings
\* page two values of a preference.
Imported == {"empty", "go", "padded"}
Own == {"empty", "url", "bad"}
Clean(cv) == IF cv = "padded" THEN "go" ELSE cv

Form == [cv : Imported, own : Own, key : 0..MaxEdits]
Row == [cv : Imported, own : Own, item : 0..MaxEdits + MaxAsides]

Request ==
  [kind : {"save"}, n : Nat, form : Form, at : {"sent", "failed"}]
    \cup [kind : {"save"}, n : Nat, form : Form, at : {"done"}, row : Row]
    \cup [kind : {"remove", "upload", "import"}, n : Nat, at : {"sent", "failed"}]
    \cup [kind : {"remove", "upload"}, n : Nat, at : {"done"}, row : Row]
    \cup [kind : {"import"}, n : Nat, at : {"done"}, found : Imported]
Dialog == [at : {"idle", "reading"}] \cup [at : {"saving"}, n : Nat]
Count == [edits : 0..MaxEdits, blurs : 0..MaxBlurs, asides : 0..MaxAsides,
          losses : 0..MaxLosses, sent : Nat]

TypeOK ==
  /\ page \in {"settings", "profile"} /\ form \in Form
  /\ hook \in Hook(Form) /\ \A v, w \in hook.saving : v = w
  /\ shown \in 0..MaxEdits + MaxAsides /\ dialog \in Dialog
  /\ wire \subseteq Request /\ stored \in Row /\ typed \in Form
  /\ \A q, r \in wire : q.n = r.n => q = r
  /\ last \in Nat /\ taken \in Nat /\ calm \in BOOLEAN /\ back \in BOOLEAN
  /\ count \in Count
  /\ page = "settings" => form.cv = "empty" /\ form.own # "bad" /\ dialog.at = "idle"
  /\ page = "profile" => form.key = 0

-----------------------------------------------------------------------------
NotImporting == [at |-> "idle"]

\* The page has loaded the row (load and reset); the key is never loaded.
FormOf(row) == [cv |-> row.cv, own |-> row.own, key |-> 0]

Init ==
  /\ page \in {"settings", "profile"}
  /\ stored = [cv |-> "empty", own |-> "empty", item |-> 0]
  /\ form = FormOf(stored) /\ hook = Fresh(form) /\ typed = form
  /\ shown = stored.item /\ dialog = NotImporting
  /\ wire = {} /\ last = 0 /\ taken = 0 /\ calm = TRUE /\ back = FALSE
  /\ count = [edits |-> 0, blurs |-> 0, asides |-> 0, losses |-> 0, sent |-> 0]

n == count.sent + 1
Bumped(field) == [count EXCEPT ![field] = @ + 1]
Quiet == calm /\ wire = {}

\* update and track; the dialog is modal.
Edit ==
  /\ dialog = NotImporting /\ count.edits < MaxEdits
  /\ \E f \in Form :
       /\ f # form
       /\ page = "settings" => /\ f.cv = "empty" /\ f.own # "bad"
                               /\ f.key \in {0, form.key, count.edits + 1}
       /\ page = "profile" => f.key = 0 /\ f.cv \in {form.cv, "empty", "padded"}
       /\ Cardinality({x \in {"cv", "own", "key"} : f[x] # form[x]}) = 1
       /\ form' = f /\ typed' = f /\ hook' = Rendered(hook, f)
       /\ back' = (f = hook.saved)
  /\ count' = Bumped("edits")
  /\ UNCHANGED <<page, shown, dialog, wire, stored, last, taken, calm>>

\* saveNow, after which h is what becomes of the hook.
SaveNow(h, f, after, counted) ==
  /\ hook' = after
  /\ IF Sends(h, f)
     THEN /\ wire' = wire \cup {[kind |-> "save", n |-> n, form |-> f, at |-> "sent"]}
          /\ calm' = Quiet /\ count' = [counted EXCEPT !.sent = n]
     ELSE UNCHANGED <<wire, calm>> /\ count' = counted

\* onBlur of the form, or its button, which is disabled during a save.
Blur ==
  /\ dialog = NotImporting /\ count.blurs < MaxBlurs
  /\ SaveNow(hook, form, Asked(hook, form, n), Bumped("blurs"))
  /\ UNCHANGED <<page, form, shown, dialog, stored, typed, last, taken, back>>

\* The debounce timer of 700 ms.
Timer ==
  /\ hook.timer
  /\ SaveNow(hook, form, [Asked(hook, form, n) EXCEPT !.timer = FALSE], count)
  /\ UNCHANGED <<page, form, shown, dialog, stored, typed, last, taken, back>>

\* Remove key, Remove photo, Change photo, Import: each has a request of its own.
Aside(kind) ==
  /\ dialog = NotImporting /\ count.asides < MaxAsides
  /\ wire' = wire \cup {[kind |-> kind, n |-> n, at |-> "sent"]}
  /\ calm' = Quiet
  /\ count' = [Bumped("asides") EXCEPT !.sent = n]
  /\ UNCHANGED <<page, form, hook, shown, stored, typed, last, taken, back>>

Remove == shown # 0 /\ Aside("remove") /\ UNCHANGED dialog

Upload ==
  /\ page = "profile" /\ \A r \in wire : r.kind # "upload"
  /\ Aside("upload") /\ UNCHANGED dialog

Import ==
  /\ page = "profile"
  /\ Aside("import") /\ dialog' = [at |-> "reading"]

-----------------------------------------------------------------------------
(* The server: each request is one transaction and answers with the row. *)

\* One field that is invalid, and the whole update is refused.
Refuses(f) == f.own = "bad"

\* Mutant of Updated: an empty API key is sent like any other.
UpdatedWithBlankKey(row, f) == [cv |-> Clean(f.cv), own |-> f.own, item |-> f.key]

\* PATCH: an empty API key is left out of the request (persist), and blank
\* skills are dropped.
Updated(row, f) ==
  [cv |-> Clean(f.cv), own |-> f.own, item |-> IF f.key = 0 THEN row.item ELSE f.key]

Answer(r, answer) == wire' = (wire \ {r}) \cup {answer}
Done(r, row) == Answer(r, [kind |-> r.kind, n |-> r.n, at |-> "done", row |-> row])
Fail(r) == Answer(r, [r EXCEPT !.at = "failed"])

ServeSave(r) ==
  /\ r.kind = "save"
  /\ IF Refuses(r.form) THEN Fail(r) /\ UNCHANGED <<stored, last>>
     ELSE /\ stored' = Updated(stored, r.form) /\ last' = r.n
          /\ Answer(r, [kind |-> "save", n |-> r.n, form |-> r.form, at |-> "done",
                        row |-> stored'])

\* A photo may be refused for its type, its size or its dimensions.
ServeAside(r) ==
  /\ r.kind \in {"remove", "upload"}
  /\ \/ /\ stored' = [stored EXCEPT !.item =
                        IF r.kind = "remove" THEN 0 ELSE MaxEdits + count.asides]
        /\ Done(r, stored')
     \/ r.kind = "upload" /\ Fail(r) /\ UNCHANGED stored
  /\ UNCHANGED last

\* import_cv changes nothing; the provider may fail.
ServeImport(r) ==
  /\ r.kind = "import"
  /\ \/ Fail(r)
     \/ \E cv \in {"empty", "go"} :
          Answer(r, [kind |-> "import", n |-> r.n, at |-> "done", found |-> cv])
  /\ UNCHANGED <<stored, last>>

Serve ==
  /\ \E r \in wire : r.at = "sent" /\ (ServeSave(r) \/ ServeAside(r) \/ ServeImport(r))
  /\ UNCHANGED <<page, form, hook, shown, dialog, typed, taken, calm, back, count>>

\* A request is lost before the server or its answer after it.
Lose ==
  /\ count.losses < MaxLosses
  /\ \E r \in wire :
       /\ r.at # "failed"
       /\ Answer(r, IF r.kind = "save"
                    THEN [kind |-> "save", n |-> r.n, form |-> r.form, at |-> "failed"]
                    ELSE [kind |-> r.kind, n |-> r.n, at |-> "failed"])
  /\ calm' = FALSE /\ count' = Bumped("losses")
  /\ UNCHANGED <<page, form, hook, shown, dialog, stored, typed, last, taken, back>>

-----------------------------------------------------------------------------
(* The answers, as the page takes them. *)

\* The dialog waits for the save of the imported draft and closes if it is
\* the latest save and succeeds.
Awaited(r) == dialog.at = "saving" /\ dialog.n = r.n
DialogAfter(r) == IF Awaited(r) THEN NotImporting ELSE dialog

\* What the page shows of the key or the photo after a save.
ItemOf(r) == IF Current(hook, r.n) THEN r.row.item ELSE shown

\* Mutant of Takes: the normalized form replaces whatever is there.
TakesAlways(r) == TRUE

Takes(r) == form = r.form

\* onSaved: the settings page takes the normalized form if the user has not
\* changed it since, and so clears the API key; both show the item anew.
TakeSaved(r) ==
  LET row == FormOf(r.row)
      now == page = "settings" /\ Current(hook, r.n) /\ Takes(r)
      h == Answered(hook, r.n, r.form, row, form)
  IN /\ r.kind = "save" /\ r.at = "done"
     /\ form' = IF now THEN row ELSE form
     /\ hook' = IF now THEN Rendered(h, row) ELSE h
     /\ shown' = ItemOf(r)
     /\ taken' = IF Current(hook, r.n) THEN r.n ELSE taken
     /\ dialog' = DialogAfter(r)
     /\ back' = (back \/ now)
     /\ UNCHANGED typed

TakeFailed(r) ==
  /\ r.at = "failed"
  /\ hook' = IF r.kind = "save" THEN Failed(hook, r.n, r.form) ELSE hook
  /\ dialog' = IF Awaited(r) \/ r.kind = "import" THEN NotImporting ELSE dialog
  /\ UNCHANGED <<form, typed, shown, taken, back>>

\* The profile shows the photo of the answer; the settings page also clears
\* the key in the form (onSettingsChange).
TakeAside(r) ==
  LET f == [form EXCEPT !.key = 0] IN
  /\ r.kind \in {"remove", "upload"} /\ r.at = "done"
  /\ shown' = r.row.item
  /\ form' = f /\ typed' = [typed EXCEPT !.key = 0]
  /\ hook' = IF page = "settings" THEN Rendered(hook, f) ELSE hook
  /\ back' = IF page = "settings" THEN f = hook.saved ELSE back
  /\ UNCHANGED <<dialog, taken>>

Take ==
  /\ \E r \in wire :
       /\ TakeSaved(r) \/ TakeFailed(r) \/ TakeAside(r)
       /\ wire' = wire \ {r}
  /\ UNCHANGED <<page, stored, last, calm, count>>

\* importCV: the suggestions over the draft, saved at once; the effect follows.
Applied(f, found) == [f EXCEPT !.cv = IF found = "empty" THEN f.cv ELSE found]

TakeImport ==
  \E r \in wire :
    LET f == Applied(form, r.found)
        rest == wire \ {r}
        save == [kind |-> "save", n |-> n, form |-> f, at |-> "sent"]
    IN /\ r.kind = "import" /\ r.at = "done"
       /\ form' = f /\ typed' = Applied(typed, r.found)
       /\ hook' = Rendered(Asked(hook, f, n), f) /\ back' = (f = hook.saved)
       /\ IF Sends(hook, f)
          THEN /\ wire' = rest \cup {save} /\ count' = [count EXCEPT !.sent = n]
               /\ calm' = (calm /\ rest = {}) /\ dialog' = [at |-> "saving", n |-> n]
          ELSE wire' = rest /\ dialog' = NotImporting /\ UNCHANGED <<calm, count>>
       /\ UNCHANGED <<page, shown, stored, last, taken>>

Next ==
  \/ Edit \/ Blur \/ Timer \/ Remove \/ Upload \/ Import
  \/ Serve \/ Lose \/ Take \/ TakeImport

Spec == Init /\ [][Next]_vars

\* The timer fires, the server handles what reaches it, answers arrive.
FairSpec == Spec /\ WF_vars(Timer) /\ WF_vars(Serve) /\ WF_vars(Take) /\ WF_vars(TakeImport)

-----------------------------------------------------------------------------
\* What the user entered, or imported, stays in the form whatever answers
\* arrive and in whatever order; only the API key is cleared once it is stored
\* (MAP.md: stale responses never replace newer form state).
EnteredStays ==
  /\ form.cv = typed.cv /\ form.own = typed.own
  /\ form.key \in {typed.key, 0}

\* "All changes saved" is true when the page has taken the answer of the last
\* save that the server carried out: the row is the form as the server cleans it.
\* Without overlap and loss, the page also shows the key or photo that is stored.
SavedIsStored ==
  /\ hook.status = "saved" /\ last = taken =>
       /\ stored.cv = Clean(form.cv) /\ stored.own = form.own /\ form.key = 0
  /\ Quiet => shown = stored.item

\* The stored key or photo goes only when its removal is carried out: no save
\* of the form, whose key is empty after every load and save, takes it along.
ItemStays ==
  [][stored.item # 0 /\ stored'.item = 0 =>
       \E r \in wire \ wire' : r.kind = "remove" /\ r.at = "sent"]_vars

\* A change that is pending or being saved is stored, or its failure shown,
\* unless the user has gone back to what the hook takes for saved.
ChangesSettle ==
  hook.status \in {"pending", "saving"} ~> hook.status \notin {"pending", "saving"} \/ back

\* Not so: the server may have carried out a save whose answer the page has
\* dropped as stale, or lost, and the form be back at what was saved before.
SavedIsCurrent == hook.status = "saved" /\ wire = {} => last = taken

\* Not so: a page left pending may wait for the next blur, without a timer.
PendingIsSaved == hook.status \in {"pending", "saving"} ~> hook.status \notin {"pending", "saving"}
=============================================================================
