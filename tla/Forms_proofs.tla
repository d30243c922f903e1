---------------------------- MODULE Forms_proofs ----------------------------
(***************************************************************************)
(* Proofs about Forms, and so about the autosave hook, for any number of   *)
(* edits, saves, other requests and losses.                                *)
(***************************************************************************)
EXTENDS Forms, TLAPS

-----------------------------------------------------------------------------
(* The inductive invariant.                                                *)

\* Requests are numbered as they are sent, and none waits whose answer the page
\* has taken; uploads come from asides that were counted.
Numbered ==
  /\ \A r \in wire : r.n <= count.sent /\ r.n # taken
  /\ taken <= count.sent
  /\ \A r \in wire : r.kind = "upload" => count.asides # 0

\* The settings page imports nothing and sends no skills.
SettingsSend ==
  page = "settings" => \A r \in wire : r.kind # "import" /\ (r.kind = "save" => r.form.cv = "empty")

\* The row that answers a save is the form as the server cleans it, and it is
\* the stored one if no later save was carried out.
RowsAnswer ==
  \A r \in wire : r.kind = "save" /\ r.at = "done" =>
    /\ r.row.cv = Clean(r.form.cv) /\ r.row.own = r.form.own
    /\ r.n = last => stored.cv = r.row.cv /\ stored.own = r.row.own

\* What the hook takes for saved has been stored, without the key; it is what is
\* stored if the page has taken the answer of the last save.
SavedWasStored ==
  /\ hook.saved.cv = Clean(hook.saved.cv) /\ hook.saved.key = 0
  /\ last = taken => stored.cv = hook.saved.cv /\ stored.own = hook.saved.own

\* "All changes saved" is about the form that is there.
StatusIsOfForm ==
  hook.status = "saved" =>
    /\ hook.saved.cv = Clean(form.cv) /\ hook.saved.own = form.own /\ form.key = 0

\* Without overlap and loss the one request under way decides what is shown.
CalmShows ==
  calm =>
    /\ \A q, r \in wire : q = r
    /\ \A r \in wire : r.kind = "save" => r.n = hook.sequence
    /\ \A r \in wire : r.kind # "import" /\ r.at = "done" => r.row.item = stored.item
    /\ (\A r \in wire : r.kind = "import" \/ r.at # "done") => shown = stored.item

IInv ==
  /\ TypeOK
  /\ Numbered
  /\ SettingsSend
  /\ RowsAnswer
  /\ SavedWasStored
  /\ StatusIsOfForm
  /\ CalmShows
  /\ EnteredStays

-----------------------------------------------------------------------------
(* The hook, whatever value it is given.                                   *)

Single(S) == \A v, w \in S : v = w

LEMMA RenderedHook ==
  ASSUME NEW h \in Hook(Form), NEW v
  PROVE  LET k == Rendered(h, v) IN
         /\ k \in Hook(Form) /\ k.saved = h.saved /\ k.saving = h.saving
         /\ k.sequence = h.sequence
         /\ k.status = "saved" => h.status = "saved" /\ v = h.saved
  BY DEF Rendered, Hook, Status

LEMMA AskedHook ==
  ASSUME NEW h \in Hook(Form), NEW v \in Form, NEW i \in Nat, Single(h.saving)
  PROVE  LET k == Asked(h, v, i) IN
         /\ k \in Hook(Form) /\ Single(k.saving) /\ k.saved = h.saved
         /\ k.sequence = IF Sends(h, v) THEN i ELSE h.sequence
         /\ k.status = "saved" => h.status = "saved" \/ v = h.saved
  BY DEF Asked, Sends, Hook, Status, Single

LEMMA AnsweredHook ==
  ASSUME NEW h \in Hook(Form), NEW i, NEW v, NEW row \in Form, NEW value, Single(h.saving)
  PROVE  LET k == Answered(h, i, v, row, value) IN
         /\ k \in Hook(Form) /\ Single(k.saving) /\ k.sequence = h.sequence
         /\ k.saved = IF Current(h, i) THEN row ELSE h.saved
         /\ k.status = "saved" => IF Current(h, i) THEN value = v ELSE h.status = "saved"
  BY DEF Answered, Settled, Current, Hook, Status, Single

LEMMA FailedHook ==
  ASSUME NEW h \in Hook(Form), NEW i, NEW v, Single(h.saving)
  PROVE  LET k == Failed(h, i, v) IN
         /\ k \in Hook(Form) /\ Single(k.saving) /\ k.sequence = h.sequence
         /\ k.saved = h.saved
         /\ k.status = "saved" => h.status = "saved"
  BY DEF Failed, Settled, Current, Hook, Status, Single

-----------------------------------------------------------------------------
(* The requests.                                                           *)

LEMMA RequestFields ==
  ASSUME NEW r \in Request
  PROVE  /\ r.kind \in {"save", "remove", "upload", "import"} /\ r.n \in Nat
         /\ r.at \in {"sent", "failed", "done"}
         /\ r.kind = "save" => r.form \in Form
         /\ r.kind # "import" /\ r.at = "done" => r.row \in Row
         /\ r.kind = "import" /\ r.at = "done" => r.found \in Imported
  BY DEF Request

LEMMA RequestSets ==
  ASSUME NEW i \in Nat, NEW at \in {"sent", "failed"}
  PROVE  /\ \A f \in Form : [kind |-> "save", n |-> i, form |-> f, at |-> at] \in Request
         /\ \A kind \in {"remove", "upload", "import"} :
              [kind |-> kind, n |-> i, at |-> at] \in Request
         /\ \A f \in Form, row \in Row :
              [kind |-> "save", n |-> i, form |-> f, at |-> "done", row |-> row] \in Request
         /\ \A kind \in {"remove", "upload"}, row \in Row :
              [kind |-> kind, n |-> i, at |-> "done", row |-> row] \in Request
         /\ \A found \in Imported :
              [kind |-> "import", n |-> i, at |-> "done", found |-> found] \in Request
  BY DEF Request

LEMMA SentNat == ASSUME TypeOK PROVE count.sent \in Nat /\ count.asides \in Nat /\ n \in Nat
<1>1. MaxAsides \in Nat
  BY FormsAssumption
<1>2. count.sent \in Nat /\ count.asides \in Nat
  BY <1>1 DEF TypeOK, Count
<1> QED
  BY <1>2 DEF n

LEMMA CountFields ==
  ASSUME TypeOK
  PROVE  /\ count.edits \in 0..MaxEdits /\ count.blurs \in 0..MaxBlurs
         /\ count.asides \in 0..MaxAsides /\ count.losses \in 0..MaxLosses
         /\ count.sent \in Nat
         /\ count.edits < MaxEdits => /\ Bumped("edits") \in Count
                                      /\ Bumped("edits").sent = count.sent
                                      /\ Bumped("edits").asides = count.asides
         /\ count.blurs < MaxBlurs => /\ Bumped("blurs") \in Count
                                      /\ Bumped("blurs").sent = count.sent
                                      /\ Bumped("blurs").asides = count.asides
         /\ count.losses < MaxLosses => /\ Bumped("losses") \in Count
                                        /\ Bumped("losses").sent = count.sent
                                        /\ Bumped("losses").asides = count.asides
         /\ count.asides < MaxAsides => /\ Bumped("asides") \in Count
                                        /\ Bumped("asides").sent = count.sent
                                        /\ Bumped("asides").asides = count.asides + 1
<1>1. /\ MaxEdits \in Nat /\ MaxBlurs \in Nat /\ MaxAsides \in Nat /\ MaxLosses \in Nat
      /\ count \in Count
  BY FormsAssumption DEF TypeOK
<1>2. /\ count.edits \in 0..MaxEdits /\ count.blurs \in 0..MaxBlurs
      /\ count.asides \in 0..MaxAsides /\ count.losses \in 0..MaxLosses
      /\ count.sent \in Nat
  BY <1>1 DEF Count
<1>3. ASSUME count.edits < MaxEdits
      PROVE  /\ Bumped("edits") \in Count
             /\ Bumped("edits").sent = count.sent /\ Bumped("edits").asides = count.asides
  BY <1>1, <1>2, <1>3 DEF Count, Bumped
<1>4. ASSUME count.blurs < MaxBlurs
      PROVE  /\ Bumped("blurs") \in Count
             /\ Bumped("blurs").sent = count.sent /\ Bumped("blurs").asides = count.asides
  BY <1>1, <1>2, <1>4 DEF Count, Bumped
<1>5. ASSUME count.losses < MaxLosses
      PROVE  /\ Bumped("losses") \in Count
             /\ Bumped("losses").sent = count.sent /\ Bumped("losses").asides = count.asides
  BY <1>1, <1>2, <1>5 DEF Count, Bumped
<1>6. ASSUME count.asides < MaxAsides
      PROVE  /\ Bumped("asides") \in Count
             /\ Bumped("asides").sent = count.sent
             /\ Bumped("asides").asides = count.asides + 1
  BY <1>1, <1>2, <1>6 DEF Count, Bumped
<1> QED
  BY <1>2, <1>3, <1>4, <1>5, <1>6


\* A request that is sent is the newest, and alone if nothing else is under way.
LEMMA SendFrame ==
  ASSUME IInv, NEW r0 \in Request, r0.n = n, r0.at = "sent", NEW rest \in SUBSET wire,
         wire' = rest \cup {r0}, count' \in Count, count'.sent = n,
         count'.asides \in {count.asides, count.asides + 1},
         r0.kind = "upload" => count'.asides # 0,
         page = "settings" => r0.kind # "import" /\ (r0.kind = "save" => r0.form.cv = "empty"),
         UNCHANGED <<page, taken, last>>,
         stored'.cv = stored.cv /\ stored'.own = stored.own
  PROVE  /\ wire' \subseteq Request /\ \A q, r \in wire' : q.n = r.n => q = r
         /\ Numbered' /\ SettingsSend' /\ RowsAnswer'
<1>1. /\ \A r \in wire : r \in Request /\ r.n \in Nat
      /\ \A q, r \in wire : q.n = r.n => q = r
      /\ count.sent \in Nat /\ count.asides \in Nat /\ taken \in Nat /\ n = count.sent + 1
  BY RequestFields, SentNat DEF IInv, TypeOK, n
<1>2. /\ \A r \in wire : r.n <= count.sent /\ r.n # taken /\ r.n < n
      /\ taken <= count.sent /\ taken < n
  BY <1>1 DEF IInv, Numbered
<1>3. wire' \subseteq Request /\ \A q, r \in wire' : q.n = r.n => q = r
  BY <1>1, <1>2
<1>4. Numbered'
  <2>1. \A r \in wire' : r.n <= n /\ r.n # taken
    BY <1>1, <1>2
  <2>2. \A r \in wire' : r.kind = "upload" => count'.asides # 0
    BY <1>1 DEF IInv, Numbered
  <2> QED
    BY <1>1, <1>2, <2>1, <2>2 DEF Numbered
<1>5. SettingsSend' /\ RowsAnswer'
  BY <1>1 DEF IInv, SettingsSend, RowsAnswer
<1> QED
  BY <1>3, <1>4, <1>5

\* A request that is answered, or fails, keeps its number and its form.
LEMMA AnswerFrame ==
  ASSUME IInv, NEW r \in wire, NEW a \in Request, a.n = r.n, a.kind = r.kind,
         r.kind = "save" => a.form = r.form, Answer(r, a), UNCHANGED <<page, taken>>,
         count' \in Count, count'.sent = count.sent, count'.asides = count.asides
  PROVE  /\ wire' \subseteq Request /\ \A p, q \in wire' : p.n = q.n => p = q
         /\ Numbered' /\ SettingsSend'
<1>1. wire' = (wire \ {r}) \cup {a}
  BY DEF Answer
<1>2. /\ wire \subseteq Request /\ \A p, q \in wire : p.n = q.n => p = q
      /\ Numbered /\ SettingsSend
  BY DEF IInv, TypeOK
<1> QED
  BY <1>1, <1>2 DEF Numbered, SettingsSend

\* A request whose answer is taken is gone.
LEMMA TakenFrame ==
  ASSUME IInv, NEW r \in wire, wire' = wire \ {r}, UNCHANGED <<page, last, stored, count>>,
         taken' \in {taken, r.n}
  PROVE  /\ wire' \subseteq Request /\ \A p, q \in wire' : p.n = q.n => p = q
         /\ Numbered' /\ SettingsSend' /\ RowsAnswer' /\ taken' \in Nat
<1>1. /\ wire \subseteq Request /\ \A p, q \in wire : p.n = q.n => p = q
      /\ Numbered /\ SettingsSend /\ RowsAnswer /\ taken \in Nat /\ r.n \in Nat
  BY RequestFields DEF IInv, TypeOK
<1> QED
  BY <1>1 DEF Numbered, SettingsSend, RowsAnswer

-----------------------------------------------------------------------------
(* Every step keeps the invariant.                                         *)

LEMMA CleanIdempotent == \A cv \in Imported : Clean(cv) \in Imported /\ Clean(Clean(cv)) = Clean(cv)
  BY DEF Imported, Clean

LEMMA InitInv == ASSUME Init PROVE IInv
<1>1. /\ MaxEdits \in Nat /\ MaxBlurs \in Nat /\ MaxAsides \in Nat /\ MaxLosses \in Nat
  BY FormsAssumption
<1>2. stored \in Row /\ stored.cv = "empty" /\ stored.own = "empty" /\ stored.item = 0
  BY <1>1 DEF Init, Row, Imported, Own
<1>3. /\ form \in Form /\ form.cv = "empty" /\ form.own = "empty" /\ form.key = 0 /\ typed = form
  BY <1>1, <1>2 DEF Init, FormOf, Form, Imported, Own
<1>4. /\ hook \in Hook(Form) /\ hook.saving = {} /\ hook.saved = form /\ hook.status = "idle"
  BY <1>3 DEF Init, Fresh, Hook, Status
<1>5. dialog \in Dialog /\ dialog.at = "idle"
  BY DEF Init, NotImporting, Dialog
<1>6. count \in Count /\ count.sent = 0
  BY <1>1 DEF Init, Count
<1>7. TypeOK
  <2>1. shown \in 0..MaxEdits + MaxAsides
    BY <1>1, <1>2 DEF Init
  <2>2. /\ page \in {"settings", "profile"} /\ wire = {} /\ last = 0 /\ taken = 0
        /\ calm = TRUE /\ back = FALSE
    BY DEF Init
  <2> QED
    BY <1>2, <1>3, <1>4, <1>5, <1>6, <2>1, <2>2 DEF TypeOK
<1>8. Numbered /\ SettingsSend /\ RowsAnswer /\ CalmShows
  BY <1>2, <1>6 DEF Init, Numbered, SettingsSend, RowsAnswer, CalmShows
<1>9. SavedWasStored /\ StatusIsOfForm /\ EnteredStays
  BY <1>2, <1>3, <1>4 DEF SavedWasStored, StatusIsOfForm, EnteredStays, Clean
<1> QED
  BY <1>7, <1>8, <1>9 DEF IInv

LEMMA EditStep == ASSUME IInv, Edit PROVE IInv'
<1> USE DEF IInv
<1>1. PICK f \in Form :
        /\ page = "settings" => f.cv = "empty" /\ f.own # "bad"
        /\ page = "profile" => f.key = 0
        /\ form' = f /\ typed' = f /\ hook' = Rendered(hook, f) /\ back' = (f = hook.saved)
  BY DEF Edit
<1>2. /\ UNCHANGED <<page, shown, dialog, wire, stored, last, taken, calm>>
      /\ count' = Bumped("edits") /\ count.edits < MaxEdits
  BY DEF Edit
<1>3. count' \in Count /\ count'.sent = count.sent /\ count'.asides = count.asides
  BY <1>2, CountFields
<1>4. /\ hook' \in Hook(Form) /\ hook'.saved = hook.saved /\ hook'.saving = hook.saving
      /\ hook'.sequence = hook.sequence /\ (hook'.status = "saved" => f = hook.saved)
  BY <1>1, RenderedHook DEF TypeOK
<1>5. TypeOK'
  BY <1>1, <1>2, <1>3, <1>4 DEF TypeOK
<1>6. Numbered' /\ SettingsSend' /\ RowsAnswer' /\ CalmShows'
  BY <1>2, <1>3, <1>4 DEF Numbered, SettingsSend, RowsAnswer, CalmShows
<1>7. SavedWasStored'
  BY <1>2, <1>4 DEF SavedWasStored
<1>8. StatusIsOfForm' /\ EnteredStays'
  BY <1>1, <1>4 DEF StatusIsOfForm, SavedWasStored, EnteredStays, Form
<1> QED
  BY <1>5, <1>6, <1>7, <1>8

\* Blur, Timer: what saveNow does to the hook and the requests.
LEMMA SaveNowStep ==
  ASSUME IInv, NEW after \in Hook(Form), Single(after.saving), after.saved = hook.saved,
         after.sequence = IF Sends(hook, form) THEN n ELSE hook.sequence,
         after.status = "saved" => hook.status = "saved" \/ form = hook.saved,
         NEW counted \in Count, counted.sent = count.sent, counted.asides = count.asides,
         SaveNow(hook, form, after, counted),
         UNCHANGED <<page, form, shown, dialog, stored, typed, last, taken, back>>
  PROVE  IInv'
<1> USE DEF IInv
<1>1. hook' = after
  BY DEF SaveNow
<1>2. SavedWasStored' /\ EnteredStays'
  BY <1>1 DEF SavedWasStored, EnteredStays
<1>3. StatusIsOfForm'
  BY <1>1 DEF StatusIsOfForm, SavedWasStored
<1>4. CASE Sends(hook, form)
  <2> DEFINE r0 == [kind |-> "save", n |-> n, form |-> form, at |-> "sent"]
  <2>1. /\ wire' = wire \cup {r0} /\ calm' = Quiet /\ count' = [counted EXCEPT !.sent = n]
    BY <1>4 DEF SaveNow
  <2>2. n \in Nat /\ form \in Form
    BY SentNat DEF TypeOK
  <2>3. r0 \in Request /\ r0.kind = "save" /\ r0.n = n /\ r0.at = "sent" /\ r0.form = form
    BY <2>2, RequestSets
  <2>4. count' \in Count /\ count'.sent = n /\ count'.asides = count.asides
    BY <2>1, <2>2 DEF Count
  <2> HIDE DEF r0
  <2>5. /\ wire' \subseteq Request /\ \A q, r \in wire' : q.n = r.n => q = r
        /\ Numbered' /\ SettingsSend' /\ RowsAnswer'
    BY <2>1, <2>3, <2>4, SendFrame DEF TypeOK
  <2>6. TypeOK'
    BY <1>1, <2>1, <2>4, <2>5 DEF TypeOK, Quiet, Single
  <2>7. CalmShows'
    BY <1>1, <1>4, <2>1, <2>3 DEF CalmShows, Quiet
  <2> QED
    BY <1>2, <1>3, <2>5, <2>6, <2>7
<1>5. CASE ~Sends(hook, form)
  <2>1. wire' = wire /\ calm' = calm /\ count' = counted
    BY <1>5 DEF SaveNow
  <2>2. TypeOK'
    BY <1>1, <2>1 DEF TypeOK, Single
  <2>3. Numbered' /\ SettingsSend' /\ RowsAnswer' /\ CalmShows'
    BY <1>1, <1>5, <2>1 DEF Numbered, SettingsSend, RowsAnswer, CalmShows
  <2> QED
    BY <1>2, <1>3, <2>2, <2>3
<1> QED
  BY <1>4, <1>5

LEMMA BlurStep == ASSUME IInv, Blur PROVE IInv'
<1> DEFINE after == Asked(hook, form, n)
<1>1. n \in Nat /\ form \in Form /\ hook \in Hook(Form) /\ Single(hook.saving)
  BY SentNat DEF IInv, TypeOK, Single
<1>2. /\ after \in Hook(Form) /\ Single(after.saving) /\ after.saved = hook.saved
      /\ after.sequence = IF Sends(hook, form) THEN n ELSE hook.sequence
      /\ after.status = "saved" => hook.status = "saved" \/ form = hook.saved
  BY <1>1, AskedHook
<1>3. /\ Bumped("blurs") \in Count /\ Bumped("blurs").sent = count.sent
      /\ Bumped("blurs").asides = count.asides
  BY CountFields DEF IInv, Blur
<1>4. /\ SaveNow(hook, form, after, Bumped("blurs"))
      /\ UNCHANGED <<page, form, shown, dialog, stored, typed, last, taken, back>>
  BY DEF Blur
<1> HIDE DEF after
<1> QED
  BY <1>2, <1>3, <1>4, SaveNowStep

LEMMA TimerStep == ASSUME IInv, Timer PROVE IInv'
<1> DEFINE asked == Asked(hook, form, n)
           after == [asked EXCEPT !.timer = FALSE]
<1>1. n \in Nat /\ form \in Form /\ hook \in Hook(Form) /\ Single(hook.saving)
  BY SentNat DEF IInv, TypeOK, Single
<1>2. /\ asked \in Hook(Form) /\ Single(asked.saving) /\ asked.saved = hook.saved
      /\ asked.sequence = IF Sends(hook, form) THEN n ELSE hook.sequence
      /\ asked.status = "saved" => hook.status = "saved" \/ form = hook.saved
  BY <1>1, AskedHook
<1>3. SaveNow(hook, form, after, count)
  BY DEF Timer
<1>4. UNCHANGED <<page, form, shown, dialog, stored, typed, last, taken, back>>
  BY DEF Timer
<1> HIDE DEF asked
<1>5. /\ after \in Hook(Form) /\ after.saving = asked.saving /\ after.saved = asked.saved
      /\ after.sequence = asked.sequence /\ after.status = asked.status
  BY <1>2 DEF Hook
<1>6. count \in Count
  BY DEF IInv, TypeOK
<1> HIDE DEF after
<1> QED
  BY <1>2, <1>3, <1>4, <1>5, <1>6, SaveNowStep


LEMMA AsideStep ==
  ASSUME IInv, NEW kind \in {"remove", "upload", "import"}, Aside(kind), dialog' \in Dialog,
         page = "settings" => kind # "import" /\ dialog' = dialog
  PROVE  IInv'
<1> USE DEF IInv
<1> DEFINE r0 == [kind |-> kind, n |-> n, at |-> "sent"]
<1>1. /\ wire' = wire \cup {r0} /\ calm' = Quiet
      /\ count' = [Bumped("asides") EXCEPT !.sent = n] /\ count.asides < MaxAsides
      /\ UNCHANGED <<page, form, hook, shown, stored, typed, last, taken, back>>
  BY DEF Aside
<1>2. n \in Nat /\ count.asides \in Nat
  BY SentNat
<1>3. r0 \in Request /\ r0.kind = kind /\ r0.n = n /\ r0.at = "sent"
  BY <1>2, RequestSets
<1>4. count' \in Count /\ count'.sent = n /\ count'.asides = count.asides + 1
  <2>1. Bumped("asides") \in Count /\ Bumped("asides").asides = count.asides + 1
    BY <1>1, CountFields
  <2> HIDE DEF Bumped
  <2> QED
    BY <1>1, <1>2, <2>1 DEF Count
<1> HIDE DEF r0
<1>5. count'.asides # 0
  BY <1>2, <1>4
<1>6. /\ wire' \subseteq Request /\ \A q, r \in wire' : q.n = r.n => q = r
      /\ Numbered' /\ SettingsSend' /\ RowsAnswer'
  BY <1>1, <1>3, <1>4, <1>5, SendFrame DEF TypeOK
<1>7. TypeOK'
  BY <1>1, <1>4, <1>6 DEF TypeOK, Quiet
<1>8. CalmShows'
  BY <1>1, <1>3 DEF CalmShows, Quiet
<1>9. SavedWasStored' /\ StatusIsOfForm' /\ EnteredStays'
  BY <1>1 DEF SavedWasStored, StatusIsOfForm, EnteredStays
<1> QED
  BY <1>6, <1>7, <1>8, <1>9

LEMMA AsidesStep == ASSUME IInv, Remove \/ Upload \/ Import PROVE IInv'
<1>1. dialog \in Dialog /\ [at |-> "reading"] \in Dialog
  BY DEF IInv, TypeOK, Dialog
<1>2. CASE Remove
  BY <1>1, <1>2, AsideStep DEF Remove
<1>3. CASE Upload
  BY <1>1, <1>3, AsideStep DEF Upload
<1>4. CASE Import
  BY <1>1, <1>4, AsideStep DEF Import
<1> QED
  BY <1>2, <1>3, <1>4

\* A save that the server carries out.
LEMMA UpdatedRow ==
  ASSUME NEW row \in Row, NEW f \in Form
  PROVE  /\ Updated(row, f) \in Row
         /\ Updated(row, f).cv = Clean(f.cv) /\ Updated(row, f).own = f.own
         /\ row.item # 0 => Updated(row, f).item # 0
<1>1. MaxEdits \in Nat /\ MaxAsides \in Nat
  BY FormsAssumption
<1>2. Clean(f.cv) \in Imported
  BY CleanIdempotent DEF Form
<1>3. row.item \in 0..MaxEdits + MaxAsides /\ f.own \in Own /\ f.key \in 0..MaxEdits
  BY DEF Row, Form
<1>4. f.key \in 0..MaxEdits + MaxAsides
  BY <1>1, <1>3
<1> QED
  BY <1>2, <1>3, <1>4 DEF Updated, Row

LEMMA ServeSaveStep ==
  ASSUME IInv, NEW r \in wire, r.at = "sent", ServeSave(r),
         UNCHANGED <<page, form, hook, shown, dialog, typed, taken, calm, back, count>>
  PROVE  IInv'
<1> USE DEF IInv
<1>1. /\ r \in Request /\ r.kind = "save" /\ r.form \in Form /\ r.n \in Nat /\ r.n # taken
      /\ count \in Count /\ stored \in Row
      /\ \A q \in wire : q \in Request /\ (q.n = r.n => q = r)
  BY RequestFields DEF ServeSave, TypeOK, Numbered
<1>2. CASE Refuses(r.form)
  <2> DEFINE a == [r EXCEPT !.at = "failed"]
  <2>1. Answer(r, a) /\ stored' = stored /\ last' = last
    BY <1>2 DEF ServeSave, Fail
  <2>2. a \in Request /\ a.n = r.n /\ a.kind = "save" /\ a.form = r.form /\ a.at = "failed"
    BY <1>1 DEF Request
  <2> HIDE DEF a
  <2>3. /\ wire' \subseteq Request /\ \A p, q \in wire' : p.n = q.n => p = q
        /\ Numbered' /\ SettingsSend'
    BY <1>1, <2>1, <2>2, AnswerFrame
  <2>4. wire' = (wire \ {r}) \cup {a}
    BY <2>1 DEF Answer
  <2>5. TypeOK'
    BY <2>1, <2>3 DEF TypeOK
  <2>6. RowsAnswer' /\ CalmShows'
    BY <1>1, <2>1, <2>2, <2>4 DEF RowsAnswer, CalmShows
  <2>7. SavedWasStored' /\ StatusIsOfForm' /\ EnteredStays'
    BY <2>1 DEF SavedWasStored, StatusIsOfForm, EnteredStays
  <2> QED
    BY <2>3, <2>5, <2>6, <2>7
<1>3. CASE ~Refuses(r.form)
  <2> DEFINE row == Updated(stored, r.form)
             a == [kind |-> "save", n |-> r.n, form |-> r.form, at |-> "done", row |-> row]
  <2>1. stored' = row /\ last' = r.n
    BY <1>3 DEF ServeSave
  <2>2. Answer(r, a)
    BY <1>3, <2>1 DEF ServeSave
  <2>3. row \in Row /\ row.cv = Clean(r.form.cv) /\ row.own = r.form.own
    BY <1>1, UpdatedRow
  <2> HIDE DEF row
  <2>4. /\ a \in Request /\ a.n = r.n /\ a.kind = "save" /\ a.form = r.form /\ a.at = "done"
        /\ a.row = row
    BY <1>1, <2>3, RequestSets
  <2> HIDE DEF a
  <2>5. /\ wire' \subseteq Request /\ \A p, q \in wire' : p.n = q.n => p = q
        /\ Numbered' /\ SettingsSend'
    BY <1>1, <2>2, <2>4, AnswerFrame
  <2>6. wire' = (wire \ {r}) \cup {a}
    BY <2>2 DEF Answer
  <2>7. TypeOK'
    BY <1>1, <2>1, <2>3, <2>5 DEF TypeOK
  <2>8. RowsAnswer'
    BY <1>1, <2>1, <2>3, <2>4, <2>6 DEF RowsAnswer
  <2>9. CalmShows'
    BY <1>1, <2>1, <2>4, <2>6 DEF CalmShows
  <2>10. SavedWasStored' /\ StatusIsOfForm' /\ EnteredStays'
    BY <1>1, <2>1 DEF SavedWasStored, StatusIsOfForm, EnteredStays
  <2> QED
    BY <2>5, <2>7, <2>8, <2>9, <2>10
<1> QED
  BY <1>2, <1>3

\* Answers that leave the fields of the row alone: asides, imports, losses.
LEMMA OtherAnswerStep ==
  ASSUME IInv, NEW r \in wire, NEW a \in Request, Answer(r, a), a.n = r.n, a.kind = r.kind,
         r.kind = "save" => a.form = r.form /\ a.at # "done",
         stored' \in Row, stored'.cv = stored.cv, stored'.own = stored.own,
         calm' \in BOOLEAN,
         calm' => /\ calm
                  /\ IF a.kind # "import" /\ a.at = "done" THEN a.row.item = stored'.item
                     ELSE stored' = stored /\ r.at = "sent",
         count' \in Count, count'.sent = count.sent, count'.asides = count.asides,
         UNCHANGED <<page, form, hook, shown, dialog, typed, last, taken, back>>
  PROVE  IInv'
<1> USE DEF IInv
<1>1. wire' = (wire \ {r}) \cup {a}
  BY DEF Answer
<1>2. /\ wire' \subseteq Request /\ \A p, q \in wire' : p.n = q.n => p = q
      /\ Numbered' /\ SettingsSend'
  BY AnswerFrame
<1>3. TypeOK'
  BY <1>2 DEF TypeOK
<1>4. RowsAnswer'
  BY <1>1 DEF RowsAnswer
<1>5. CalmShows'
  BY <1>1 DEF CalmShows
<1>6. SavedWasStored' /\ StatusIsOfForm' /\ EnteredStays'
  BY DEF SavedWasStored, StatusIsOfForm, EnteredStays
<1> QED
  BY <1>2, <1>3, <1>4, <1>5, <1>6

LEMMA ServeStep == ASSUME IInv, Serve PROVE IInv'
<1>0. /\ UNCHANGED <<page, form, hook, shown, dialog, typed, taken, calm, back, count>>
      /\ count \in Count /\ calm \in BOOLEAN /\ stored \in Row /\ count.asides \in Nat
      /\ MaxEdits \in Nat /\ MaxAsides \in Nat
  BY SentNat, FormsAssumption DEF Serve, IInv, TypeOK
<1>1. PICK r \in wire : r.at = "sent" /\ (ServeSave(r) \/ ServeAside(r) \/ ServeImport(r))
  BY DEF Serve
<1>2. r \in Request /\ r.n \in Nat
  BY RequestFields DEF IInv, TypeOK
<1>3. CASE ServeSave(r)
  BY <1>0, <1>1, <1>3, ServeSaveStep
<1>4. ASSUME r.kind # "save", Fail(r), stored' = stored, last' = last
      PROVE  IInv'
  <2> DEFINE a == [r EXCEPT !.at = "failed"]
  <2>1. a \in Request /\ a.n = r.n /\ a.kind = r.kind /\ a.at = "failed"
    BY <1>1, <1>2, <1>4 DEF Request
  <2>2. Answer(r, a)
    BY <1>4 DEF Fail
  <2> HIDE DEF a
  <2> QED
    BY <1>0, <1>1, <1>4, <2>1, <2>2, OtherAnswerStep
<1>5. CASE ServeAside(r)
  <2>1. r.kind \in {"remove", "upload"} /\ last' = last
    BY <1>5 DEF ServeAside
  <2>2. ASSUME NEW item \in 0..MaxEdits + MaxAsides, stored' = [stored EXCEPT !.item = item],
               Done(r, stored')
        PROVE  IInv'
    <3> DEFINE a == [kind |-> r.kind, n |-> r.n, at |-> "done", row |-> stored']
    <3>1. stored' \in Row /\ stored'.cv = stored.cv /\ stored'.own = stored.own
      BY <1>0, <2>2 DEF Row
    <3>2. /\ a \in Request /\ a.n = r.n /\ a.kind = r.kind /\ a.at = "done"
          /\ a.row = stored'
      BY <1>2, <2>1, <3>1, RequestSets
    <3>3. Answer(r, a)
      BY <2>2 DEF Done
    <3> HIDE DEF a
    <3> QED
      BY <1>0, <2>1, <3>1, <3>2, <3>3, OtherAnswerStep
  <2>3. CASE r.kind = "upload" /\ Fail(r) /\ stored' = stored
    BY <1>4, <2>1, <2>3
  <2>4. 0 \in 0..MaxEdits + MaxAsides /\ MaxEdits + count.asides \in 0..MaxEdits + MaxAsides
    BY <1>0 DEF Count
  <2> QED
    BY <1>5, <2>2, <2>3, <2>4 DEF ServeAside
<1>6. CASE ServeImport(r)
  <2>1. r.kind = "import" /\ stored' = stored /\ last' = last
    BY <1>6 DEF ServeImport
  <2>2. ASSUME NEW cv \in Imported,
               Answer(r, [kind |-> "import", n |-> r.n, at |-> "done", found |-> cv])
        PROVE  IInv'
    <3> DEFINE a == [kind |-> "import", n |-> r.n, at |-> "done", found |-> cv]
    <3>1. a \in Request /\ a.n = r.n /\ a.kind = "import" /\ a.at = "done"
      BY <1>2, RequestSets
    <3>2. Answer(r, a)
      BY <2>2
    <3> HIDE DEF a
    <3> QED
      BY <1>0, <1>1, <2>1, <3>1, <3>2, OtherAnswerStep
  <2> QED
    BY <1>4, <1>6, <2>1, <2>2 DEF ServeImport, Imported
<1> QED
  BY <1>1, <1>3, <1>5, <1>6

LEMMA LoseStep == ASSUME IInv, Lose PROVE IInv'
<1>0. /\ UNCHANGED <<page, form, hook, shown, dialog, stored, typed, last, taken, back>>
      /\ calm' = FALSE /\ count' = Bumped("losses") /\ count.losses < MaxLosses
      /\ stored \in Row
  BY DEF Lose, IInv, TypeOK
<1>1. count' \in Count /\ count'.sent = count.sent /\ count'.asides = count.asides
  BY <1>0, CountFields DEF IInv
<1> DEFINE lost(r) == IF r.kind = "save"
                      THEN [kind |-> "save", n |-> r.n, form |-> r.form, at |-> "failed"]
                      ELSE [kind |-> r.kind, n |-> r.n, at |-> "failed"]
<1>2. PICK r \in wire : Answer(r, lost(r))
  BY DEF Lose
<1>3. /\ r.n \in Nat /\ r.kind \in {"save", "remove", "upload", "import"}
      /\ r.kind = "save" => r.form \in Form
  BY RequestFields DEF IInv, TypeOK
<1>4. /\ lost(r) \in Request /\ lost(r).n = r.n /\ lost(r).kind = r.kind
      /\ lost(r).at = "failed" /\ (r.kind = "save" => lost(r).form = r.form)
  BY <1>3, RequestSets
<1> HIDE DEF lost
<1> QED
  BY <1>0, <1>1, <1>2, <1>4, OtherAnswerStep


LEMMA TakeSavedStep ==
  ASSUME IInv, NEW r \in wire, TakeSaved(r), wire' = wire \ {r},
         UNCHANGED <<page, stored, last, calm, count>>
  PROVE  IInv'
<1> USE DEF IInv
<1> DEFINE row == FormOf(r.row)
           now == page = "settings" /\ Current(hook, r.n) /\ Takes(r)
           h == Answered(hook, r.n, r.form, row, form)
<1>1. /\ r.kind = "save" /\ r.at = "done" /\ form' = (IF now THEN row ELSE form)
      /\ hook' = (IF now THEN Rendered(h, row) ELSE h) /\ shown' = ItemOf(r)
      /\ taken' = (IF Current(hook, r.n) THEN r.n ELSE taken)
      /\ dialog' = DialogAfter(r) /\ back' = (back \/ now) /\ typed' = typed
  BY DEF TakeSaved
<1>2. /\ r \in Request /\ r.form \in Form /\ r.row \in Row /\ r.n \in Nat
      /\ r.row.cv = Clean(r.form.cv) /\ r.row.own = r.form.own
      /\ r.n = last => stored.cv = r.row.cv /\ stored.own = r.row.own
      /\ page = "settings" => r.form.cv = "empty"
  BY <1>1, RequestFields DEF TypeOK, RowsAnswer, SettingsSend
<1>3. /\ row \in Form /\ row.cv = r.row.cv /\ row.own = r.row.own /\ row.key = 0
      /\ row.cv = Clean(r.form.cv) /\ row.cv = Clean(row.cv)
  <2>1. 0 \in 0..MaxEdits
    BY FormsAssumption
  <2> QED
    BY <1>2, <2>1, CleanIdempotent DEF FormOf, Form, Row
<1>4. now => row.cv = form.cv /\ row.own = form.own
  BY <1>2, <1>3 DEF Takes, Clean
<1> HIDE DEF row
<1>5. /\ h \in Hook(Form) /\ Single(h.saving) /\ h.sequence = hook.sequence
      /\ h.saved = IF Current(hook, r.n) THEN row ELSE hook.saved
      /\ h.status = "saved" => IF Current(hook, r.n) THEN form = r.form
                               ELSE hook.status = "saved"
  <2>1. hook \in Hook(Form) /\ Single(hook.saving)
    BY DEF TypeOK, Single
  <2> QED
    BY <1>3, <2>1, AnsweredHook
<1> HIDE DEF h
<1>6. /\ Rendered(h, row) \in Hook(Form) /\ Single(Rendered(h, row).saving)
      /\ Rendered(h, row).saved = h.saved /\ Rendered(h, row).sequence = h.sequence
  BY <1>5, RenderedHook DEF Single
<1>7. /\ hook' \in Hook(Form) /\ Single(hook'.saving) /\ hook'.sequence = hook.sequence
      /\ hook'.saved = IF Current(hook, r.n) THEN row ELSE hook.saved
  BY <1>1, <1>5, <1>6
<1>8. /\ form' \in Form /\ form'.cv = form.cv /\ form'.own = form.own
      /\ form'.key \in {form.key, 0}
      /\ now => form' = row
  BY <1>1, <1>3, <1>4 DEF TypeOK
<1>9. /\ wire' \subseteq Request /\ \A p, q \in wire' : p.n = q.n => p = q
      /\ Numbered' /\ SettingsSend' /\ RowsAnswer' /\ taken' \in Nat
  BY <1>1, TakenFrame
<1>10. /\ dialog' \in Dialog /\ (dialog.at = "idle" => dialog'.at = "idle")
       /\ shown' \in 0..MaxEdits + MaxAsides /\ back' \in BOOLEAN
  BY <1>1, <1>2 DEF DialogAfter, NotImporting, Dialog, ItemOf, Row, TypeOK
<1>11. TypeOK'
  <2>1. /\ page = "settings" => form'.cv = "empty" /\ form'.own # "bad"
        /\ page = "profile" => form'.key = 0
    BY <1>8 DEF TypeOK
  <2>2. /\ page' \in {"settings", "profile"} /\ stored' \in Row /\ typed' \in Form
        /\ last' \in Nat /\ calm' \in BOOLEAN /\ count' \in Count
        /\ page' = "settings" => dialog'.at = "idle"
    BY <1>1, <1>10 DEF TypeOK
  <2>3. \A v, w \in hook'.saving : v = w
    BY <1>7 DEF Single
  <2> HIDE DEF IInv
  <2> QED
    BY <1>7, <1>8, <1>9, <1>10, <2>1, <2>2, <2>3 DEF TypeOK
<1>12. SavedWasStored'
  BY <1>1, <1>2, <1>3, <1>7 DEF SavedWasStored
<1>13. StatusIsOfForm'
  <2>1. CASE now
    BY <1>3, <1>7, <1>8, <2>1 DEF StatusIsOfForm
  <2>2. CASE ~now /\ Current(hook, r.n)
    <3>1. hook' = h /\ form' = form
      BY <1>1, <2>2
    <3>2. ASSUME hook'.status = "saved"
          PROVE  hook'.saved.cv = Clean(form'.cv) /\ hook'.saved.own = form'.own /\ form'.key = 0
      <4>1. form = r.form /\ page = "profile"
        BY <1>5, <2>2, <3>1, <3>2 DEF Takes, TypeOK
      <4> QED
        BY <1>2, <1>3, <1>7, <2>2, <3>1, <4>1 DEF TypeOK
    <3> QED
      BY <3>2 DEF StatusIsOfForm
  <2>3. CASE ~Current(hook, r.n)
    BY <1>1, <1>5, <2>3 DEF StatusIsOfForm
  <2> QED
    BY <2>1, <2>2, <2>3
<1>14. EnteredStays'
  BY <1>1, <1>8 DEF EnteredStays
<1>15. CalmShows'
  <2>1. calm => Current(hook, r.n) /\ shown' = r.row.item /\ r.row.item = stored.item
    BY <1>1 DEF CalmShows, Current, ItemOf
  <2> QED
    BY <1>1, <1>7, <2>1 DEF CalmShows
<1> QED
  BY <1>9, <1>11, <1>12, <1>13, <1>14, <1>15

LEMMA TakeFailedStep ==
  ASSUME IInv, NEW r \in wire, TakeFailed(r), wire' = wire \ {r},
         UNCHANGED <<page, stored, last, calm, count>>
  PROVE  IInv'
<1> USE DEF IInv
<1>1. /\ r.at = "failed" /\ UNCHANGED <<form, typed, shown, taken, back>>
      /\ hook' = IF r.kind = "save" THEN Failed(hook, r.n, r.form) ELSE hook
      /\ dialog' \in {dialog, NotImporting}
  BY DEF TakeFailed
<1>2. /\ hook' \in Hook(Form) /\ Single(hook'.saving) /\ hook'.sequence = hook.sequence
      /\ hook'.saved = hook.saved /\ (hook'.status = "saved" => hook.status = "saved")
  BY <1>1, FailedHook DEF TypeOK, Single
<1>3. dialog' \in Dialog /\ (dialog.at = "idle" => dialog'.at = "idle")
  BY <1>1 DEF NotImporting, Dialog, TypeOK
<1>4. /\ wire' \subseteq Request /\ \A p, q \in wire' : p.n = q.n => p = q
      /\ Numbered' /\ SettingsSend' /\ RowsAnswer'
  BY <1>1, TakenFrame
<1>5. TypeOK'
  BY <1>1, <1>2, <1>3, <1>4 DEF TypeOK, Single
<1>6. SavedWasStored' /\ StatusIsOfForm' /\ EnteredStays'
  BY <1>1, <1>2 DEF SavedWasStored, StatusIsOfForm, EnteredStays
<1>7. CalmShows'
  BY <1>1, <1>2 DEF CalmShows
<1> QED
  BY <1>4, <1>5, <1>6, <1>7

LEMMA TakeAsideStep ==
  ASSUME IInv, NEW r \in wire, TakeAside(r), wire' = wire \ {r},
         UNCHANGED <<page, stored, last, calm, count>>
  PROVE  IInv'
<1> USE DEF IInv
<1> DEFINE f == [form EXCEPT !.key = 0]
<1>1. /\ r.kind \in {"remove", "upload"} /\ r.at = "done" /\ shown' = r.row.item
      /\ form' = f /\ typed' = [typed EXCEPT !.key = 0]
      /\ hook' = (IF page = "settings" THEN Rendered(hook, f) ELSE hook)
      /\ back' = (IF page = "settings" THEN f = hook.saved ELSE back)
      /\ dialog' = dialog /\ taken' = taken
  BY DEF TakeAside
<1>2. r \in Request /\ r.row \in Row /\ r.row.item \in 0..MaxEdits + MaxAsides
  BY <1>1, RequestFields DEF TypeOK, Row
<1>3. /\ f \in Form /\ f.cv = form.cv /\ f.own = form.own /\ f.key = 0
      /\ typed' \in Form /\ typed'.cv = typed.cv /\ typed'.own = typed.own /\ typed'.key = 0
      /\ page = "profile" => f = form
  <2>1. 0 \in 0..MaxEdits /\ form \in Form /\ typed \in Form
    BY FormsAssumption DEF TypeOK
  <2> QED
    BY <1>1, <2>1 DEF TypeOK, Form
<1> HIDE DEF f
<1>4. /\ hook' \in Hook(Form) /\ hook'.saving = hook.saving /\ hook'.sequence = hook.sequence
      /\ hook'.saved = hook.saved
      /\ hook'.status = "saved" => hook.status = "saved" /\ (page = "settings" => f = hook.saved)
  BY <1>1, RenderedHook DEF TypeOK
<1>5. /\ wire' \subseteq Request /\ \A p, q \in wire' : p.n = q.n => p = q
      /\ Numbered' /\ SettingsSend' /\ RowsAnswer'
  BY <1>1, TakenFrame
<1>6. TypeOK'
  BY <1>1, <1>2, <1>3, <1>4, <1>5 DEF TypeOK
<1>7. SavedWasStored' /\ EnteredStays'
  BY <1>1, <1>3, <1>4 DEF SavedWasStored, EnteredStays
<1>8. StatusIsOfForm'
  BY <1>1, <1>3, <1>4 DEF StatusIsOfForm, TypeOK
<1>9. CalmShows'
  BY <1>1, <1>4 DEF CalmShows
<1> QED
  BY <1>5, <1>6, <1>7, <1>8, <1>9

LEMMA TakeStep == ASSUME IInv, Take PROVE IInv'
<1>1. PICK r \in wire : (TakeSaved(r) \/ TakeFailed(r) \/ TakeAside(r)) /\ wire' = wire \ {r}
  BY DEF Take
<1>2. UNCHANGED <<page, stored, last, calm, count>>
  BY DEF Take
<1> QED
  BY <1>1, <1>2, TakeSavedStep, TakeFailedStep, TakeAsideStep

LEMMA AppliedForm ==
  ASSUME NEW f \in Form, NEW found \in Imported
  PROVE  /\ Applied(f, found) \in Form /\ Applied(f, found).own = f.own
         /\ Applied(f, found).key = f.key
         /\ Applied(f, found).cv = IF found = "empty" THEN f.cv ELSE found
  BY DEF Applied, Form

LEMMA TakeImportStep == ASSUME IInv, TakeImport PROVE IInv'
<1> USE DEF IInv
<1>1. PICK r \in wire :
        LET f == Applied(form, r.found)
            rest == wire \ {r}
            save == [kind |-> "save", n |-> n, form |-> f, at |-> "sent"]
        IN /\ r.kind = "import" /\ r.at = "done"
           /\ form' = f /\ typed' = Applied(typed, r.found)
           /\ hook' = Rendered(Asked(hook, f, n), f) /\ back' = (f = hook.saved)
           /\ IF Sends(hook, f)
              THEN /\ wire' = rest \cup {save} /\ count' = [count EXCEPT !.sent = n]
                   /\ calm' = (calm /\ rest = {}) /\ dialog' = [at |-> "saving", n |-> n]
              ELSE wire' = rest /\ dialog' = NotImporting /\ UNCHANGED <<calm, count>>
           /\ UNCHANGED <<page, shown, stored, last, taken>>
  BY DEF TakeImport
<1> DEFINE f == Applied(form, r.found)
           save == [kind |-> "save", n |-> n, form |-> f, at |-> "sent"]
           asked == Asked(hook, f, n)
<1>2. /\ r.kind = "import" /\ r.at = "done" /\ form' = f /\ typed' = Applied(typed, r.found)
      /\ hook' = Rendered(asked, f) /\ back' = (f = hook.saved)
      /\ Sends(hook, f) =>
           /\ wire' = (wire \ {r}) \cup {save} /\ count' = [count EXCEPT !.sent = n]
           /\ calm' = (calm /\ wire \ {r} = {}) /\ dialog' = [at |-> "saving", n |-> n]
      /\ ~Sends(hook, f) =>
           wire' = wire \ {r} /\ dialog' = NotImporting /\ UNCHANGED <<calm, count>>
      /\ UNCHANGED <<page, shown, stored, last, taken>>
  BY <1>1
<1>3. /\ r \in Request /\ r.found \in Imported /\ page = "profile" /\ n \in Nat
      /\ form \in Form /\ typed \in Form /\ hook \in Hook(Form) /\ Single(hook.saving)
      /\ count \in Count /\ calm \in BOOLEAN
  BY <1>2, RequestFields, SentNat DEF TypeOK, SettingsSend, Single
<1>4. /\ f \in Form /\ f.own = form.own /\ f.key = form.key /\ typed' \in Form
      /\ f.cv = (IF r.found = "empty" THEN form.cv ELSE r.found)
      /\ typed'.cv = (IF r.found = "empty" THEN typed.cv ELSE r.found)
      /\ typed'.own = typed.own /\ typed'.key = typed.key
  BY <1>2, <1>3, AppliedForm
<1> HIDE DEF f
<1>5. /\ asked \in Hook(Form) /\ Single(asked.saving) /\ asked.saved = hook.saved
      /\ asked.sequence = IF Sends(hook, f) THEN n ELSE hook.sequence
  BY <1>3, <1>4, AskedHook
<1> HIDE DEF asked
<1>6. /\ hook' \in Hook(Form) /\ Single(hook'.saving) /\ hook'.saved = hook.saved
      /\ hook'.sequence = (IF Sends(hook, f) THEN n ELSE hook.sequence)
      /\ hook'.status = "saved" => f = hook.saved
  BY <1>2, <1>5, RenderedHook DEF Single
<1>7. EnteredStays' /\ SavedWasStored' /\ StatusIsOfForm'
  BY <1>2, <1>4, <1>6 DEF EnteredStays, SavedWasStored, StatusIsOfForm
<1>8. form'.key = 0 /\ back' \in BOOLEAN
  BY <1>2, <1>3, <1>4 DEF TypeOK
<1>9. CASE Sends(hook, f)
  <2>1. /\ save \in Request /\ save.kind = "save" /\ save.n = n /\ save.at = "sent"
        /\ save.form = f
    BY <1>3, <1>4, RequestSets
  <2> HIDE DEF save
  <2>2. count' \in Count /\ count'.sent = n /\ count'.asides = count.asides
    BY <1>2, <1>3, <1>9 DEF Count
  <2>3. /\ wire' \subseteq Request /\ \A p, q \in wire' : p.n = q.n => p = q
        /\ Numbered' /\ SettingsSend' /\ RowsAnswer'
    BY <1>2, <1>3, <1>9, <2>1, <2>2, SendFrame
  <2>4. dialog' \in Dialog
    BY <1>2, <1>3, <1>9 DEF Dialog
  <2>5. calm' \in BOOLEAN
    BY <1>2, <1>3, <1>9
  <2>6. TypeOK'
    BY <1>2, <1>3, <1>4, <1>6, <1>8, <2>2, <2>3, <2>4, <2>5 DEF TypeOK, Single
  <2>7. CalmShows'
    BY <1>2, <1>6, <1>9, <2>1 DEF CalmShows
  <2> QED
    BY <1>7, <2>3, <2>6, <2>7
<1>10. CASE ~Sends(hook, f)
  <2>1. /\ wire' \subseteq Request /\ \A p, q \in wire' : p.n = q.n => p = q
        /\ Numbered' /\ SettingsSend' /\ RowsAnswer'
    BY <1>2, <1>10, TakenFrame
  <2>2. dialog' \in Dialog
    BY <1>2, <1>10 DEF NotImporting, Dialog
  <2>3. TypeOK'
    BY <1>2, <1>3, <1>4, <1>6, <1>8, <1>10, <2>1, <2>2 DEF TypeOK, Single
  <2>4. CalmShows'
    BY <1>2, <1>6, <1>10 DEF CalmShows
  <2> QED
    BY <1>7, <2>1, <2>3, <2>4
<1> QED
  BY <1>9, <1>10

LEMMA Invariance == Spec => []IInv
<1>1. IInv /\ UNCHANGED vars => IInv'
  BY DEF vars, IInv, TypeOK, Numbered, SettingsSend, RowsAnswer, SavedWasStored,
         StatusIsOfForm, CalmShows, EnteredStays
<1>2. IInv /\ Next => IInv'
  BY EditStep, BlurStep, TimerStep, AsidesStep, ServeStep, LoseStep, TakeStep,
     TakeImportStep DEF Next
<1> QED
  BY <1>1, <1>2, InitInv, PTL DEF Spec

-----------------------------------------------------------------------------
(* The theorems.                                                           *)

\* The form, the hook, the requests and the row are well typed, requests keep
\* their numbers apart, and at most one value is being saved (useAutosave).
THEOREM TypeCorrect == Spec => []TypeOK
<1>1. IInv => TypeOK
  BY DEF IInv
<1> QED
  BY <1>1, Invariance, PTL

\* No answer, however late and in whatever order, replaces what the user has
\* entered or imported; only the API key is cleared (onSaved, importCV).
THEOREM EnteredCorrect == Spec => []EnteredStays
<1>1. IInv => EnteredStays
  BY DEF IInv
<1> QED
  BY <1>1, Invariance, PTL

\* "All changes saved" is true when the page has taken the answer of the last
\* save that was carried out, and without overlap and loss the page shows the
\* item that is stored (saveNow, onSaved).
THEOREM SavedCorrect == Spec => []SavedIsStored
<1>1. IInv => SavedIsStored
  BY DEF IInv, SavedWasStored, StatusIsOfForm, CalmShows, Quiet, SavedIsStored
<1> QED
  BY <1>1, Invariance, PTL

\* The stored item is only lost when its removal is carried out.
LostByRemoval ==
  stored.item # 0 /\ stored'.item = 0 =>
    \E r \in wire \ wire' : r.kind = "remove" /\ r.at = "sent"

LEMMA ItemStep == ASSUME IInv, [Next]_vars PROVE LostByRemoval
<1>1. CASE stored' = stored
  BY <1>1 DEF LostByRemoval
<1>2. CASE Serve
  <2>1. PICK r \in wire : r.at = "sent" /\ (ServeSave(r) \/ ServeAside(r) \/ ServeImport(r))
    BY <1>2 DEF Serve
  <2>2. /\ r \in Request /\ (r.kind = "save" => r.form \in Form) /\ stored \in Row
        /\ (r.kind = "upload" => count.asides # 0)
        /\ MaxEdits \in Nat /\ MaxAsides \in Nat /\ count.asides \in Nat
    BY RequestFields, SentNat, FormsAssumption DEF IInv, TypeOK, Numbered
  <2>3. CASE ServeSave(r) /\ stored' = Updated(stored, r.form)
    BY <2>2, <2>3, UpdatedRow DEF ServeSave, LostByRemoval
  <2>4. CASE ServeAside(r) /\ r.kind = "upload" /\ stored' # stored
    <3>1. stored'.item = MaxEdits + count.asides
      BY <2>2, <2>4 DEF ServeAside, Row
    <3> QED
      BY <2>2, <2>4, <3>1 DEF LostByRemoval
  <2>5. CASE ServeAside(r) /\ r.kind = "remove"
    <3> DEFINE a == [kind |-> r.kind, n |-> r.n, at |-> "done", row |-> stored']
    <3>1. wire' = (wire \ {r}) \cup {a}
      BY <2>5 DEF ServeAside, Done, Answer
    <3>2. a.at = "done"
      OBVIOUS
    <3> HIDE DEF a
    <3>3. r \notin wire'
      BY <2>1, <3>1, <3>2
    <3> QED
      BY <2>1, <2>5, <3>3 DEF LostByRemoval
  <2> QED
    BY <1>1, <2>1, <2>3, <2>4, <2>5 DEF ServeSave, ServeAside, ServeImport
<1> QED
  BY <1>1, <1>2 DEF Next, vars, Edit, Blur, Timer, Remove, Upload, Import, Aside, Lose,
                    Take, TakeImport

\* No save of the form, whose key is empty after every load and save, deletes
\* the stored key or photo (persist, update, set_many).
THEOREM ItemCorrect == Spec => ItemStays
<1>1. IInv /\ [Next]_vars => [LostByRemoval]_vars
  BY ItemStep
<1> QED
  BY <1>1, Invariance, PTL DEF Spec, ItemStays, LostByRemoval
=============================================================================
