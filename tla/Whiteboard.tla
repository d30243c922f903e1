------------------------------ MODULE Whiteboard ------------------------------
(***************************************************************************)
(* The system-design whiteboard of one attempt: one versioned scene on the *)
(* server, and the boards (browser tabs) that show it, autosave it one     *)
(* request after the other, take PNG snapshots of it, and reload it when   *)
(* the server answers that the scene has changed elsewhere.                *)
(***************************************************************************)
EXTENDS Integers, Sequences, SequencesExt

CONSTANTS
  Boards,        \* the tabs that show the attempt
  MaxStrokes,    \* bound: edits
  MaxLosses      \* bound: requests or replies that the network loses

ASSUME WhiteboardAssumption ==
  /\ Boards # {}
  /\ MaxStrokes \in Nat
  /\ MaxLosses \in Nat

VARIABLES
  history,    \* the scenes stored so far; the last one is the row
  snapshots,  \* rows of system_design_snapshots: version and image
  draft,      \* per board: the scene in the editor, sceneRef and valueRef
  baseline,   \* per board: lastSaved of the autosave hook
  vref,       \* per board: versionRef
  timer,      \* per board: the autosave timer is running
  chain,      \* per board: saves that have not been answered, the first is sent
  wire,       \* per board: the save request under way
  load,       \* per board: the load request under way
  loaded,     \* per board: the first load has succeeded
  changed,    \* per board: changedSinceSnapshot
  snap,       \* per board: saveSnapshot
  drawn,      \* edits so far
  losses      \* losses so far

server == <<history, snapshots>>
editor == <<draft, baseline, timer>>
saving == <<vref, chain, wire>>
bounds == <<drawn, losses>>
vars == <<server, editor, saving, load, loaded, changed, snap, bounds>>

Stroke == 1..MaxStrokes
Scene == SUBSET Stroke
version == Len(history)                     \* 0 when there is no row
SceneAt(v) == IF v = 0 THEN {} ELSE history[v]
scene == SceneAt(version)

Save == [scene : Scene, by : {"autosave", "snapshot"}]
Put == [at : {"idle", "sent", "accepted", "stale", "lost"}, version : Nat]
Get == [at : {"idle", "sent", "answered", "failed"}, version : Nat]
Snap == [at : {"idle", "saving", "exporting", "sent", "stored", "refused"},
         image : Scene, version : Nat]

TypeOK ==
  /\ history \in Seq(Scene)
  /\ snapshots \subseteq [version : 1..version, image : Scene]
  /\ draft \in [Boards -> Scene] /\ baseline \in [Boards -> Scene]
  /\ vref \in [Boards -> 0..version]
  /\ timer \in [Boards -> BOOLEAN]
  /\ chain \in [Boards -> Seq(Save)]
  /\ wire \in [Boards -> Put]
  /\ load \in [Boards -> Get] /\ loaded \in [Boards -> BOOLEAN]
  /\ changed \in [Boards -> BOOLEAN]
  /\ snap \in [Boards -> Snap]
  /\ drawn \in 0..MaxStrokes /\ losses \in 0..MaxLosses

-----------------------------------------------------------------------------
Idle == [at |-> "idle", version |-> 0]
NoSnap == [at |-> "idle", image |-> {}, version |-> 0]

Saved(b) == draft[b] = baseline[b]

\* savingSnapshot: requests are answered in order, so it is the last one's.
BeingSaved(b) == chain[b] # << >> /\ Last(chain[b]).scene = draft[b]

Init ==
  /\ history = << >> /\ snapshots = {}
  /\ draft = [b \in Boards |-> {}] /\ baseline = draft
  /\ timer = [b \in Boards |-> FALSE]
  /\ vref = [b \in Boards |-> 0]
  /\ chain = [b \in Boards |-> << >>]
  /\ wire = [b \in Boards |-> Idle]
  /\ load = [b \in Boards |-> [Idle EXCEPT !.at = "sent"]]
  /\ loaded = [b \in Boards |-> FALSE]
  /\ changed = [b \in Boards |-> FALSE]
  /\ snap = [b \in Boards |-> NoSnap]
  /\ drawn = 0 /\ losses = 0

\* onChange after the hydration of the editor.
Draw(b) ==
  /\ loaded[b] /\ load[b].at # "failed"
  /\ drawn < MaxStrokes
  /\ drawn' = drawn + 1
  /\ draft' = [draft EXCEPT ![b] = @ \cup {drawn + 1}]
  /\ timer' = [timer EXCEPT ![b] = TRUE]
  /\ changed' = [changed EXCEPT ![b] = TRUE]
  /\ UNCHANGED <<server, baseline, saving, load, loaded, snap, losses>>

-----------------------------------------------------------------------------
(* Saving.                                                                 *)

\* Mutant of Enqueue: the newest save overtakes those that wait.
EnqueueFirst(b, by) ==
  /\ chain' = [chain EXCEPT ![b] = InsertAt(@, IF @ = << >> THEN 1 ELSE 2,
                                          [scene |-> draft[b], by |-> by])]
  /\ wire' = IF chain[b] = << >>
             THEN [wire EXCEPT ![b] = [at |-> "sent", version |-> vref[b]]]
             ELSE wire

\* persistScene: the request is sent when the saves before it are answered.
Enqueue(b, by) ==
  /\ chain' = [chain EXCEPT ![b] = Append(@, [scene |-> draft[b], by |-> by])]
  /\ wire' = IF chain[b] = << >>
             THEN [wire EXCEPT ![b] = [at |-> "sent", version |-> vref[b]]]
             ELSE wire

\* The timer calls saveNow, which drops what is saved or being saved.
Autosave(b) ==
  /\ timer[b]
  /\ timer' = [timer EXCEPT ![b] = FALSE]
  /\ IF Saved(b) \/ BeingSaved(b) THEN UNCHANGED <<chain, wire>>
     ELSE Enqueue(b, "autosave")
  /\ UNCHANGED <<server, draft, baseline, vref, load, loaded, changed, snap, bounds>>

\* SystemDesignRepository.save
SaveScene(b) ==
  /\ wire[b].at = "sent"
  /\ IF wire[b].version = version
     THEN /\ history' = Append(history, Head(chain[b]).scene)
          /\ wire' = [wire EXCEPT ![b] = [at |-> "accepted", version |-> version + 1]]
     ELSE wire' = [wire EXCEPT ![b].at = "stale"] /\ UNCHANGED history
  /\ UNCHANGED <<snapshots, editor, vref, chain, load, loaded, changed, snap, bounds>>

\* The answer to the first save, and the next save of the chain.
SaveAnswered(b) ==
  /\ chain' = [chain EXCEPT ![b] = Tail(@)]
  /\ wire' = [wire EXCEPT ![b] =
                IF Tail(chain[b]) = << >> THEN Idle ELSE [at |-> "sent", version |-> vref'[b]]]

\* Where saveSnapshot goes from the moment the scene is saved.
Exporting(b) ==
  IF draft[b] = {} THEN NoSnap ELSE [at |-> "exporting", image |-> draft[b], version |-> 0]

Latest(b) == Len(chain[b]) = 1

\* Mutant of NewVersion: persistScene leaves the version to onSaved, which is not
\* called for a save that another one superseded.
NewVersionIfLatest(b) == IF Latest(b) THEN wire[b].version ELSE vref[b]

NewVersion(b) == wire[b].version

\* Mutant of Recorded: lastSaved is taken from the editor.
RecordedFromEditor(b) == draft[b]

Recorded(b) == Head(chain[b]).scene

\* Mutant of Rearmed: the answer to a save stops the timer for good.
NotRearmed(b) == FALSE

\* onSaved changes the draft, which starts the timer if there is more to save.
Rearmed(b) == draft[b] # Head(chain[b]).scene

\* The save was accepted.  The hook ignores the answer to a save that another
\* one superseded, persistScene takes the version from it all the same.
Accepted(b) ==
  /\ wire[b].at = "accepted"
  /\ vref' = [vref EXCEPT ![b] = NewVersion(b)]
  /\ SaveAnswered(b)
  /\ IF Latest(b)
     THEN /\ baseline' = [baseline EXCEPT ![b] = Recorded(b)]
          /\ changed' = [changed EXCEPT ![b] = TRUE]
          /\ timer' = [timer EXCEPT ![b] = Rearmed(b)]
     ELSE UNCHANGED <<baseline, changed, timer>>
  /\ snap' = IF Head(chain[b]).by = "autosave" THEN snap
             ELSE [snap EXCEPT ![b] = IF Latest(b) THEN Exporting(b) ELSE NoSnap]
  /\ UNCHANGED <<server, draft, load, loaded, bounds>>

\* The save failed: a conflict reloads the board, anything else is a toast; a
\* superseded save fails silently.
Rejected(b) ==
  /\ wire[b].at \in {"stale", "lost"}
  /\ UNCHANGED vref
  /\ SaveAnswered(b)
  /\ load' = IF /\ Latest(b) /\ wire[b].at = "stale"
                /\ load[b].at \in {"idle", "failed"}
             THEN [load EXCEPT ![b] = [Idle EXCEPT !.at = "sent"]] ELSE load
  /\ snap' = IF Head(chain[b]).by = "autosave" THEN snap ELSE [snap EXCEPT ![b] = NoSnap]
  /\ UNCHANGED <<server, editor, loaded, changed, bounds>>

-----------------------------------------------------------------------------
(* Loading.                                                                *)

GetScene(b) ==
  /\ load[b].at = "sent"
  /\ load' = [load EXCEPT ![b] = [at |-> "answered", version |-> version]]
  /\ UNCHANGED <<server, editor, saving, loaded, changed, snap, bounds>>

\* The editor is remounted with the scene of the server.
Loaded(b) ==
  /\ load[b].at = "answered"
  /\ load' = [load EXCEPT ![b] = Idle]
  /\ loaded' = [loaded EXCEPT ![b] = TRUE]
  /\ draft' = [draft EXCEPT ![b] = SceneAt(load[b].version)]
  /\ baseline' = [baseline EXCEPT ![b] = SceneAt(load[b].version)]
  /\ vref' = [vref EXCEPT ![b] = load[b].version]
  /\ timer' = [timer EXCEPT ![b] = FALSE]
  /\ changed' = [changed EXCEPT ![b] = FALSE]
  /\ UNCHANGED <<server, chain, wire, snap, bounds>>

\* The button of the error page.
Retry(b) ==
  /\ load[b].at = "failed"
  /\ load' = [load EXCEPT ![b] = [Idle EXCEPT !.at = "sent"]]
  /\ UNCHANGED <<server, editor, saving, loaded, changed, snap, bounds>>

-----------------------------------------------------------------------------
(* Snapshots.                                                              *)

\* saveSnapshot, from the button, the interval, or a hand-off.
StartSnapshot(b) ==
  /\ loaded[b] /\ changed[b] /\ snap[b].at = "idle"
  /\ IF Saved(b)
     THEN snap' = [snap EXCEPT ![b] = Exporting(b)] /\ UNCHANGED <<chain, wire>>
     ELSE /\ ~BeingSaved(b)
          /\ snap' = [snap EXCEPT ![b].at = "saving"]
          /\ Enqueue(b, "snapshot")
  /\ UNCHANGED <<server, editor, vref, load, loaded, changed, bounds>>

\* The image is posted under the version the board knows by now.
Exported(b) ==
  /\ snap[b].at = "exporting"
  /\ snap' = [snap EXCEPT ![b] = IF vref[b] = 0 THEN NoSnap
                                 ELSE [@ EXCEPT !.at = "sent", !.version = vref[b]]]
  /\ UNCHANGED <<server, editor, saving, load, loaded, changed, bounds>>

\* SystemDesignRepository.add_snapshot
AddSnapshot(b) ==
  /\ snap[b].at = "sent"
  /\ IF snap[b].version = version
     THEN /\ snapshots' = snapshots \cup {[version |-> version, image |-> snap[b].image]}
          /\ snap' = [snap EXCEPT ![b].at = "stored"]
     ELSE snap' = [snap EXCEPT ![b].at = "refused"] /\ UNCHANGED snapshots
  /\ UNCHANGED <<history, editor, saving, load, loaded, changed, bounds>>

SnapshotAnswered(b) ==
  /\ snap[b].at \in {"stored", "refused"}
  /\ snap' = [snap EXCEPT ![b] = NoSnap]
  /\ changed' = [changed EXCEPT ![b] = @ /\ snap[b].at = "refused"]
  /\ UNCHANGED <<server, editor, saving, load, loaded, bounds>>

-----------------------------------------------------------------------------
\* The network loses a request or its answer.
Lose(b) ==
  /\ losses < MaxLosses
  /\ losses' = losses + 1
  /\ \/ /\ wire[b].at \in {"sent", "accepted", "stale"}
        /\ wire' = [wire EXCEPT ![b].at = "lost"]
        /\ UNCHANGED <<load, snap>>
     \/ /\ load[b].at \in {"sent", "answered"}
        /\ load' = [load EXCEPT ![b].at = "failed"]
        /\ UNCHANGED <<wire, snap>>
     \/ /\ snap[b].at \in {"sent", "stored"}
        /\ snap' = [snap EXCEPT ![b].at = "refused"]
        /\ UNCHANGED <<wire, load>>
  /\ UNCHANGED <<server, editor, vref, chain, loaded, changed, drawn>>

Saves(b) == Autosave(b) \/ SaveScene(b) \/ Accepted(b) \/ Rejected(b)
Loads(b) == GetScene(b) \/ Loaded(b)
Snaps(b) == Exported(b) \/ AddSnapshot(b) \/ SnapshotAnswered(b)

Next ==
  \E b \in Boards :
    \/ Draw(b) \/ Saves(b) \/ Loads(b) \/ Retry(b)
    \/ StartSnapshot(b) \/ Snaps(b) \/ Lose(b)

Spec == Init /\ [][Next]_vars

\* Timers fire, and requests are answered; nobody need draw, retry or snapshot.
FairSpec ==
  /\ Spec
  /\ \A b \in Boards : WF_vars(Saves(b)) /\ WF_vars(Loads(b)) /\ WF_vars(Snaps(b))

-----------------------------------------------------------------------------
(* Properties.                                                             *)

\* What a board calls saved is the scene stored under the version it will name
\* in its next save, through superseded saves, conflicts and reloads.
SavedMeansStored ==
  \A b \in Boards :
    (loaded[b] /\ chain[b] = << >> /\ load[b].at = "idle" /\ Saved(b))
      => draft[b] = SceneAt(vref[b])

\* Also when the network loses requests and answers, a board calls saved only what
\* has been stored: an edit made while a save was under way is never forgotten.
SavedWasStored ==
  \A b \in Boards :
    (loaded[b] /\ Saved(b)) => \E v \in 0..version : draft[b] = SceneAt(v)

\* A board alone is never told that the scene changed elsewhere, unless an answer
\* was lost: its saves are serialised, and each names the version the one before
\* it created.
AloneNeverStale == losses = 0 => \A b \in Boards : wire[b].at # "stale"

\* When the drawing ends every board comes to rest, with nothing unsaved:
\* conflicts do not chase one another for ever.  Snapshots are left out: a board
\* that another one has overtaken has its snapshot refused every 30 seconds.
Settles ==
  <>[](\A b \in Boards : /\ Saved(b) /\ chain[b] = << >> /\ ~timer[b]
                         /\ load[b].at = "idle")

\* A board alone keeps the promise of an autosaved document.
Alone == CHOOSE b \in Boards : TRUE
Document == INSTANCE AutosavedDocument
            WITH drawn <- draft[Alone], stored <- scene, lossless <- losses = 0
ImplementsDocument == Document!Spec

\* backend/README.md: "stale writers receive 409 and cannot overwrite newer work".
\* Nothing is ever erased in this model, so no save may take a stroke away.
NewerWorkIsKept == [][scene \subseteq scene']_vars

\* MAP.md: a snapshot "retains its exact scene version": its image is the scene
\* that was stored under that version.
SnapshotShowsItsVersion == \A row \in snapshots : row.image = SceneAt(row.version)
=============================================================================
