# Interview Studio: a TLA+ development

Interview Studio is a single-user application: a React frontend, a FastAPI
backend that runs as one process on one asyncio event loop, and one SQLite
database. A *process* (a job application) owns an ordered list of *stages*; each
stage owns numbered *attempts*; each attempt is one interview between the
candidate and a LangGraph interviewer, over a WebSocket. These modules model the
parts of it that keep state, check them with TLC on small instances and prove
the central invariants with TLAPS for instances of every size.

## 1. Inventory

Paths are relative to `src/`.

| Component | State it keeps | Operations | What makes it correct |
|---|---|---|---|
| Relational core: `application/processes.py`, `repositories/processes.py`, `repositories/attempts.py`, migration 003 | tables of processes, stages, attempts; the status of a stage is stored, not computed | create, update (two ways), delete a process; start, mark started, paused, ended, delete an attempt | referential integrity; the stored status summarises the attempts; positions and numbers are distinct; history is never lost by an edit |
| Interview engine: `interview_engine/*`, `application/interviews.py` | the graph state of one thread: messages, topic, counters, end flag | start, respond, end, pause, resume; nodes prepare, interviewer, closing | budgets and topic order hold across failed turns; the closing is last; a patient candidate reaches the end |
| Checkpointer: `infrastructure/checkpointer.py` | `interview_graph_state`, `interview_messages`, `interview_graph_writes` | aput, aput_writes, aget_tuple | each checkpoint is one transaction; the transcript is never rewritten |
| WebSocket handler: `api/websocket.py` | per connection: turn task, chain of speech tasks, audio buffer, voice segments, pending diagram, modes | 15 client events; the turn; the speech tasks; disconnect | speech in order and never after a cancel; nothing waits for ever; the client is told how a turn ended |
| Reports: `application/reports.py`, `repositories/reports.py` | `interview_reports`, the set of evaluations in progress | get, evaluate, process report | one immutable report per attempt and version |
| Whiteboard: `application/system_design.py`, its repository, `SystemDesignWhiteboard.tsx` | scene and version, snapshots and the answer they belong to | save, snapshot, associate, load | no lost update; a snapshot shows the scene of its version |
| Autosave: `hooks/useAutosave.ts` | last saved value, value being saved, request sequence, timer | track, reset, save, timer | what says "saved" is saved; no answer replaces what was entered |
| Voice capture and simulator page: `useVoiceCapture.ts`, `InterviewSimulator.tsx` | recorder, segments, hand-over countdown, status, reconnect | segment and turn boundaries, voice on and off, pause, resume, end | discarded speech is never answered; the page never stays listening |
| Authentication: `application/auth.py`, its repository and middleware, the API client | account, sessions, recent failed logins, a security token per tab | initialize, login, authenticate, logout | an accepted session belongs to the present credentials; throttling ends |
| Settings and secrets: `repositories/settings.py`, `core/secrets.py`, `SettingsPage.tsx` | one row, an encrypted API key, a key file | get, update, remove key | a stored key can be read and goes only by its removal |
| Profile and CV import: `application/profiles.py`, `ProfilePage.tsx` | one row, a photo | update, photo, import | as the settings form |
| Process report and dashboard: `repositories/reports.py`, `repositories/dashboard.py` | none: computed from the reports | process_report, get | both follow from the same reports |
| Database, migrations, CLI, deployment, other pages | offline scripts, presentation | | little state of their own |

How they interact. HTTP handlers call the services, which call the repositories;
every repository write is one transaction on one shared connection, under an
asyncio lock that is never held across an await (`core/database.py`), so a
transaction is one atomic step. A WebSocket
connection owns one `InterviewSession`, whose engine saves through the
checkpointer and whose status updates go through `AttemptRepository`. All tasks
share one event loop: they interleave at awaits only.

Hard behaviours. (1) The stage status is patched by five operations in two
repositories. (2) A turn may fail, be cancelled or crash between any two
checkpoints, and the next turn continues from what was saved. (3) In the socket
handler three kinds of task wait for one another and cancel one another. (4)
Several pages, replies out of order, reconnects. (5) A recorder reports its stop
by an event, and frames, buttons and a lost connection may come before it. (6) A
security token cached by each tab beside a cookie that all tabs share, and a
server that starts under another environment.
`PROJECT.json` lists each hazard at its line with the
properties aimed at it.

## 2. Modules

| Module | Models | Composed with |
|---|---|---|
| `AttemptLifecycle` | what the product promises of an attempt: unborn, ready, in progress, paused, completed, gone; completed never reopens, an identifier is never used twice | implemented by `ProcessStages` |
| `ProcessStages` | the relational core | refines `AttemptLifecycle` |
| `InterviewRules` | the state of an interview and the pure decisions of its graph | extended by the next two |
| `InterviewGraph` | engine, session and checkpoints of one attempt, the saved state being atomic | implemented by `Checkpointer` while turns do not overlap |
| `Transcript` | what `interview_messages` promises its readers: it grows at its end until it is dropped | implemented by `Checkpointer`, always |
| `Checkpointer` | the saver's three tables under turns of several connections and the deletion of the attempt | refines `InterviewGraph` and `Transcript` |
| `InterviewSocket` | one WebSocket connection | abstracts the turn that `InterviewGraph` details |
| `VoiceCapture` | spoken answers: the hook, the page, one connection with its queues, the listening part of the handler | its handler abstracts `InterviewSocket` |
| `ProcessReport` | the report of a process and the dashboard's scores, as operators on rows | used by `Evaluations` |
| `Evaluations` | report requests, the service with its guard, the pages that ask | |
| `AutosavedDocument` | what an editor with autosave promises: what is stored was drawn and never goes back | implemented by `Whiteboard` |
| `Whiteboard` | the scene and snapshots of one attempt, with the boards that show them | refines `AutosavedDocument` when there is one board |
| `Autosave` | the autosave hook as operators on its record | used by `Forms` |
| `Forms` | the settings page and the profile page over one row | |
| `Authentication` | start-up, logins, sessions, security tokens, the key file, the tabs of one browser | |
| `ProcessStages_proofs`, `InterviewGraph_proofs`, `InterviewSocket_proofs`, `Checkpointer_proofs`, `Evaluations_proofs`, `Authentication_proofs`, `Forms_proofs` | the theorems about a module (section 4) | each extends its module |
| `InterviewPage_proofs` | the theorems about `Whiteboard` and `VoiceCapture`, the two parts of the interview page | extends both |
| `MCProcessStages`, `MCInterviewGraph`, `MCCheckpointer`, `MCEvaluations`, `MCAuthentication` | the constants of the TLC runs | |

Operators whose comment begins with "Mutant of" are never used by a
specification. Each is a plausible slip in the code (a dropped guard, an
off-by-one); substituting it for the operator it names makes TLC refute the
property it is paired with in `PROJECT.json`, which shows that the property
depends on that code.

### ProcessStages

A table is a partial function; a row exists iff its key is in the domain.
`processes`, `stages` and `attempts` are the tables; `spent` is the set of
attempt identifiers ever drawn (UUIDs do not repeat); `starting` holds the
requests to start an attempt that are between the read in
`ProcessService.start_attempt` and the insert in
`ProcessRepository.create_attempt`. Every other operation is one transaction and
one action. Details kept on purpose:

* `update` replaces the stage list when no attempt exists in the process
  (`ReplaceStages`) and edits it in place otherwise (`UpdateStages`); the second
  moves all positions by `Shift` = 1000 before it assigns them one by one, so
  that `UNIQUE(process_id, position)` is not hit on the way. `PositionTaken`
  says when it would be.
* a stage list may repeat an identifier (the API does not forbid it): the
  in-place edit keeps the last entry, the insert is refused by the primary key.
* `ON DELETE CASCADE` is `Surviving`.
* `create_attempt` tests the stage again in its own transaction (`Startable`).

Titles, texts and configuration are left out: no property depends on them,
except the frozen stage type of an attempt, which is kept.

### InterviewGraph

`saved` is what the database holds; `run` is the invocation in memory. An
invocation goes through the phases input, apply, prepare, then interviewer or
closing, then finish, and each step but the first saves its result
(`Checkpoint`, the `aput` transaction). `Abort` throws `run` away at any point: a
provider error, a cancelled task and a crash leave the same thing behind. The
first step of an invocation (`SaveInput`) creates the row without changing its
values. This is LangGraph's part of the contract; the steps `SaveInput` and
`ApplyInput` are marked external in the map. Time is a flag that may be raised
once (`TimePasses`) and is read by `prepare` only.

One turn runs at a time here, which is what `start_turn` guarantees within one
connection. Two connections on one attempt are the subject of `Checkpointer`.

### Checkpointer

`rows`, `head` and `writes` are the tables `interview_messages`,
`interview_graph_state` and `interview_graph_writes`; `turn` holds for each
connection the invocation in progress and the checkpoint its next writes name. A
turn is made of the same steps as in `InterviewGraph`, with the same operators of
`InterviewRules`, but each step ends in `Put` (aput) and is preceded by
`PutWrites` (aput_writes), and a message carries the identifier under which the
row is upserted. Nothing keeps two connections from running a turn each, and the
attempt may be deleted while they do; `Put` then fails as the code does, on the
lookup of the attempt or on `UNIQUE(attempt_id, sequence)`, and the turn is over.
An operation of the database never suspends (it runs on one synchronous
connection), so the three queries of `aget_tuple` are one step.

`ImplementsTranscript` holds whatever overlaps. `AloneImplementsGraph` says that
until two turns overlap, or the attempt is deleted, every step of the rows is a
step of `InterviewGraph` or a stutter, so that what `InterviewGraph` is shown to
keep is kept by the tables.

### InterviewSocket

One connection. `handler` is what the event loop of the handler awaits; `turn`
is `turn_task`; `speech` the sequence of all `speak_in_order` tasks, each with
the task it awaits (`after`), `tracked` the set `tts_tasks`, `tail` the variable
`tts_tail`. A step runs from one await at which another task can run to the
next. Sends are part of the step that makes them: a send suspends only its own
task and never changes what the others see. A task that ends removes itself
from `tts_tasks` in the same step; the handler's `gather` cannot observe the
moment between, because it handles finished tasks eagerly. The attempt's status
is kept because the handler reports it.

Exceptions are modelled where they go: `CancelledError` passes from a speech task
to the tasks that await it and is not caught by `run_turn`; a failing
transcription is not caught by the handler and ends the connection.

### Whiteboard

The server keeps `history`, whose last scene is the row of
`system_design_sessions` and whose length is its version, and `snapshots`. Each
board (a browser tab) has the scene in its editor (`draft`), the autosave hook's
`lastSaved` (`baseline`), `versionRef` (`vref`), the timer, and `chain`, the saves
that wait in `persistScene` for those before them; the first of them is on the
`wire`. A reload (`load`) after a conflict and a snapshot (`snap`) run beside
these, and the user draws all the while. A scene is a set of numbered strokes and
strokes are never erased, so a lost stroke is a lost update. Details kept on
purpose:

* a queued save reads `versionRef` when it is sent, not when it is queued;
* the hook ignores the answer to a save that a newer one superseded, while
  `persistScene` takes the version from it;
* a reload does not empty the chain;
* `saveSnapshot` exports the image after the save and reads the version after the
  export; it is dropped while another one, or an autosave of the same scene, is
  under way.

`save` reads the row again after its transaction to answer; no step of another
request comes between, because the lock is never contended, so both are one step.
The scene and version of a value change together in the hook's comparisons; the
model compares scenes. `Lose` is the network.

### Evaluations and ProcessReport

`evaluate` suspends only while the provider works: `Evaluate` is the part before
(stored report, status, guard, transcript) and `ProviderAnswers` or
`ProviderFails` the part after, with the `finally` clause in `Ends`. `active` is
`ReportService._active`; `evaluations` are the requests whose provider is working,
which go on when their page is closed (`Nobody`). The feedback page asks for one
attempt; the list of the process page asks for every completed attempt without a
report, one after another, and stops at the first failure.

`ProcessReport` is pure: rows are folded in the order of the query, as the code
does, and both rules of rounding are kept, Python's (half to even) and SQLite's
(half up). `BestOfEachStage` and `AdviceOnce` are reference definitions without a
fold, checked in every reachable state.

### VoiceCapture

`page` holds the refs of the hook and the states of the page; `toPage` and
`page.out` are the two directions of the WebSocket; `handler` is the server's
audio buffer, voice segments and turn, each in order of arrival. Its specification is
named `VoiceSpec`, its variables `voiceVars` and so on, since the proofs extend it
together with `Whiteboard`. The functions of the hook are functions of
the page (`Disable`, `CancelTurn`, `Flushed`), since they call one another within
one callback. A segment travels as one chunk when its recorder has stopped;
`cut` remembers that a chunk found the socket closed.

`cancelTurn` stops a recorder without setting `segmentEnding`, so a frame may start
the next segment before the stop handler of the cancelled one has run. The model
lets it; the guard of `StartSegment` is the code's. From then on two recorders share
`recorder`, `discardSegment` and `pendingChunks`, what was cancelled may be answered
(section 5), and one chunk per segment is coarser than the code, whose chunks go out
every half second. `counts.overlap` is a history flag that remembers it happened. It
guards nothing; `DiscardedIsNotAnswered` and `SpokenInOrder` name it as their
hypothesis, while the types and `NotLeftListening` hold whatever overlaps.

The manual fallback (`startManual`, `stopManual`), for a browser that cannot analyse
sound, is not a mode of the model. Its press and release call the functions that
`StartSegment` and `StopSegment` are; that the voice button does nothing there, and
that no frame counts down or ends a segment after 45 seconds, is left out, so nothing
is claimed of its progress.

### Authentication

`server` walks through its start-up (key file created, key written, account
reconciled) and may stop at any step; once the key file is open it keeps the key
it has read or written (`SecretBox._key`), and `secret` is the key under which the
API key was stored. `account`, `sessions`, `keyFile` and `secret` survive a stop,
the failed logins do not. A tab asks for its security token only
when it has none, and sends it with the cookie the browser has at that moment.
Sessions are numbered, and the number stands for the session token and the
security token of the session. Passwords are compared, not hashed.

### Autosave and Forms

`Autosave` is the hook as operators: `Rendered` the effect after a change,
`Asked` what `saveNow` does, `Answered` and `Failed` its continuations. `Forms`
gives it the two pages whose persist function sends a request at once, so that
requests overlap, and the server may carry them out, and the page receive their
answers, in any order. The fields are those that differ in behaviour: one that a
CV fills and the server normalizes, one that the server may refuse, and the API
key or photo (`item`), which is changed by requests of its own too.

## 3. What TLC checks

| Run | Instance | Shows |
|---|---|---|
| `stages` | 2 processes, 2 stages, 3 attempts, 1 request, lists of up to 3 entries including a repeated id and a swap | `TablesConsistent`, `StageStatusSummarises`, `ReorderAccepted`, `HistoryKept`, `AttemptsOpenOnEnabledStages`, refinement of `AttemptLifecycle` |
| `graph` | 2 topics, 3 questions, 1 follow-up, 2 aborts, 12 messages | `Budgets`, `TopicsInOrder`, `ClosingIsFinal`, `InterviewEnds` |
| `socket` | 2 turns, 3 sentences, 1 segment | `SpeechInOrder`, `NoSpeechAfterCancel`, `CompletedIsTold` |
| `socket_ends` | 1 turn, 2 sentences, 1 segment | `NothingHangs` |
| `board` | 2 boards, 4 strokes | `SavedMeansStored`, `Settles` |
| `board_alone` | 1 board, 4 strokes, 2 losses | `SavedWasStored`, `AloneNeverStale`, refinement of `AutosavedDocument` |
| `checkpointer` | 2 connections, 2 topics, 2 questions, 3 turns, 1 abort | `TablesConsistent`, `QuestionsFollowAnswers`, refinement of `Transcript` and, without overlap, of `InterviewGraph` |
| `evaluations` | 1 page, 3 attempts of 2 stages, 2 scores, 2 lists of advice, 2 messages | `OneEvaluationAtATime`, `EvaluatedOnce`, `ReportsResolve`, `ProcessReportAgrees`, `SummariesAgree`, `PageSettles` |
| `voice` | 2 segments, 3 uses of a button or losses of the connection, at most 1 of these | `DiscardedIsNotAnswered`, `SpokenInOrder`, `NotLeftListening` |
| `voice_cancel` | the same with 1 segment | a statement of `MAP.md` that the code does not keep (violation) |
| `auth` | 2 tabs, 3 environments, 2 keys, 2 logins, 2 starts, limit of 2 failures | `AcceptedSessions`, `SecretReadable`, `OnlyStaleTokensRefused`, `RefusalEnds` |
| `forms` | 2 edits, 2 saves by hand, 1 request aside, 1 loss, on each page | `EnteredStays`, `SavedIsStored`, `ItemStays`, `ChangesSettle` |

Every module has a type invariant, `TypeOK`, which is part of `TablesConsistent`
in `stages` and `checkpointer`. That of another module is checked by adding
`INVARIANT TypeOK` to the configuration of its run; all hold.

Bounds. `stages`: three attempts give one stage two attempts with a gap after a
deletion and leave one for the other stage; two processes make a stage id of
another process available to a list; identifiers are symmetric. `graph`: with
one follow-up, three questions end the interview in the middle of the second
topic, so that the limit on questions and the coverage of all topics are both
reached; two aborts can hit one turn and the turn that repairs it. `MaxMessages`
stops new turns only, never a turn under way; in `graph` it is higher than what two
aborts and three questions can use, so it never hides the end.
`socket`: three sentences give a chain with a middle link, two turns let the
second begin on the chain that the first left behind. `MaxTurns` and `MaxSpeech`
block the step that would exceed them, with every other step still possible.
`board`: four strokes let one board conflict, reload and conflict again while the
other one writes; a third save in one chain needs as many. Two losses reach the
lost answer, whose save is stored, and the lost reload with its `Retry`.
`checkpointer`: three turns let one be cut off, another overlap it and a third
load what both have left; connections are symmetric. `evaluations`: two attempts at
one stage make a choice necessary, the scores 86 and 87 have the average 86.5, on
which the two rules of rounding differ, and two of the texts differ in case only;
one page suffices for two requests at once, because the request of a closed page
goes on. `voice`: two segments are recorded, flushed or transcribed at once; three
uses of a button reach the turning off of voice while another cancellation is
pending. With three segments both invariants hold too, in several minutes. Recorders
overlap within these bounds; what goes wrong then takes a third segment and a fourth
click (section 5). `auth`: two starts reach every change from one environment to
another, among them from a generated key to a configured one, and a crash in every
step of the start-up. A
lifetime and a window of one tick separate "still counts" from "no longer does".
`forms`: with two edits and two saves by hand four requests overlap; going back to
an earlier value, which the hook compares with, needs both edits.

`SavedMeansStored` is checked without losses on purpose. With them it does not
hold: when a save queued before a reload is stored and the answer to the save
after it is lost, the board shows the reloaded scene as saved under the version of
the queued one. What is left then is `SavedWasStored`. The cause is the one that
`NewerWorkIsKept` is about (section 5). A board alone is also told that the scene
"changed elsewhere" when the answer to a save of its own was lost, so
`AloneNeverStale` and `AutosavedDocument` speak of the time until the first loss.

Deadlock is checked except where the system may really stop within the bounds: in
the `socket` runs, where a closed connection whose tasks have ended has nothing
left to do; in the `board`, `forms` and `voice` runs, which wait for a user who has
used up the edits or clicks, or whose interview is over; and in `checkpointer`, once
the turns are used up and the attempt is deleted.

Fairness. `InterviewGraph`: weak fairness of the steps of an invocation (the
event loop runs a ready task) and of answering (`InterviewEnds` is about a
candidate who goes on); pausing, ending and the passing of time are never
forced. Aborts are bounded, since a provider that always fails ends no
interview. `InterviewSocket`: weak fairness of each task's next step and of the
handler while it awaits a task or a provider, which answers or raises; no
fairness on what the client sends. `Whiteboard`: the autosave timer fires, sent
requests are answered and answers are handled; drawing, retrying and snapshots
are never forced. `Evaluations`: requests are answered, and the provider answers
or fails for every attempt it works on, being called with a timeout; nobody need
ask again. `VoiceCapture`: no segment outlasts 45 seconds, the countdown runs out,
the browser delivers its events, the server reads its socket, providers answer or
time out, and the page reconnects; the buttons and speech are never forced.
`Forms`: the timer fires, requests are carried out, answers arrive (or are known to
be lost). `Authentication`: time passes, nothing else. `stages` and `checkpointer`
have no liveness of their own: the operations of the one answer in one or two
steps, and the other's is that of `InterviewGraph`.

Two remarks on the models. `ProcessStages` lets other requests come between the
read of `start_attempt` and its insert. In the code there is no suspension between
the two today (every database operation runs on one synchronous connection), so
this admits more than can happen, and what is shown does not depend on it. And
`Evaluations`, `Forms` and `Authentication` use the same fact the other way round: a
service method without a provider or network call is one step.

## 4. What is proved

TLC checks the instances of section 3; the theorems below hold for every value of
the constants that satisfies the module's ASSUMEs. Those say no more than the code
does: bounds are natural numbers, stage lists have 1 to 12 well-typed entries and
interview limits lie in the ranges the API enforces, topics are distinct, an attempt
has a number of its own within its stage (`003_phase6_processes.py:63`), a server
with authentication has a key configured (its settings refuse to load otherwise), a
name such as `NoRow`, `NoTopic`, `Nobody` or `NoKey` is none of the values it is set
apart from. Bounds on edits, turns or losses are arbitrary, so they bound nothing
that a proof uses.

For each module the proofs define an inductive invariant (`IInv`; `VoiceInv` for
`VoiceCapture`), have one lemma per action (or per function that several actions
share), and conclude by temporal logic. Every one of them was checked by TLC, as an
invariant of the component's run, before it was proved.

| Module | Theorem | States |
|---|---|---|
| `ProcessStages` | `TypeCorrect`, `ReferencesCorrect`, `PositionsCorrect`, `NumbersCorrect`, `TablesCorrect` | `TablesConsistent` and its parts |
| | `StageStatusCorrect`, `ReorderCorrect`, `HistoryCorrect`, `OpeningCorrect` | `StageStatusSummarises`, `ReorderAccepted`, `HistoryKept`, `AttemptsOpenOnEnabledStages` |
| | `LifecycleRefined` | refinement of `AttemptLifecycle` |
| `InterviewGraph` | `TypeCorrect`, `BudgetsCorrect`, `OrderCorrect`, `ClosingCorrect` | `TypeOK`, `Budgets`, `TopicsInOrder`, `ClosingIsFinal` |
| `InterviewSocket` | `TypeCorrect`, `SpeechOrdered` | `TypeOK`, `SpeechInOrder` |
| | `CancelledIsSilent`, `ToldWhenCompleted` | `NoSpeechAfterCancel`, `CompletedIsTold` |
| `Checkpointer` | `TablesCorrect`, `QuestionsCorrect` | `TablesConsistent`, `QuestionsFollowAnswers` |
| | `TranscriptRefined`, `GraphRefined` | refinement of `Transcript` and, without overlap, of `InterviewGraph` |
| `Evaluations` | `TypeCorrect`, `OneAtATime`, `NeverEvaluatedAgain`, `ReportsCorrect` | `TypeOK`, `OneEvaluationAtATime`, `EvaluatedOnce`, `ReportsResolve` |
| | `ProcessReportCorrect`, `SummariesCorrect` | `ProcessReportAgrees`, `SummariesAgree` |
| `Authentication` | `TypeCorrect`, `SessionsCorrect`, `SecretCorrect`, `TokensCorrect` | `TypeOK`, `AcceptedSessions`, `SecretReadable`, `OnlyStaleTokensRefused` |
| `Forms` | `TypeCorrect`, `EnteredCorrect`, `SavedCorrect`, `ItemCorrect` | `TypeOK`, `EnteredStays`, `SavedIsStored`, `ItemStays` |
| `Whiteboard` | `TypeCorrect`, `SavedCorrect` | `TypeOK`, `SavedWasStored`, for any boards and losses |
| | `NamedCorrect` | `SavedMeansStored` until the first loss, for any boards |
| | `AloneCorrect`, `DocumentRefined` | `AloneNeverStale` and the refinement of `AutosavedDocument`, for one board |
| `VoiceCapture` | `VoiceTypes`, `DiscardedNeverAnswered`, `AnsweredInOrder` | `VoiceTypeOK`, `DiscardedIsNotAnswered`, `SpokenInOrder`; the last two until recorders overlap, which the properties say |

### The arguments

`ProcessStages`. `TypeOK` is not inductive as it stands: nothing says that the set of
attempts is finite, and the maximum of an unbounded set of numbers is no number. The
invariant `NumbersBounded` (some number bounds them all) is carried along with it.
`StageStatusSummarises` is inductive relative to these two: an operation that touches
an attempt of stage *s* changes no attempt of another stage, so the status of every
other stage still summarises the same set (`AttemptsOf`), and for *s* itself the new
status is compared with the new set. `ReplaceStages` needs that no attempt exists in
the process, so that cascading removes none (`ReplaceKeepsAttempts`).
`PositionsDistinct` needs the bound on list lengths and the last-entry rule, which
give that two listed stages never get the same position, and that an in-place edit
covers all stages of the process. `ReorderAccepted` needs that a shifted position is at
least 1000 and a list position at most 11. `NumbersDistinct` rests on `NextNumberIsNew`.

`InterviewGraph`. The properties speak of the stored transcript; `Sound` ties it to the
counters beside it: `Counted` (the current topic has its first question and at most
one more for every follow-up that was used, and a topic that is neither current nor
covered was never asked about), `InPlace` (the covered topics are the first ones and
the current one is the next), `AskedInOrder`, `EndsOnce`. `RunInv` says that the
invocation in memory works on what is saved, and what each node may rely on: before a
question there is a reason to ask (`MayAsk`), before the closing there is one to end.
That is what a turn cut short between any two nodes leaves to the next one. The same
invariant shows that the fallback topic is never asked about: it would take all topics
covered, and then the interview has ended.

`InterviewSocket`. The tasks queued since the last `assistant.audio.cancelled` are the
current chain. `Linked` says that each of them awaits the one before it, `Chained` that
whoever speaks or has spoken does so when all before it in the chain have, `Tracked`
that `tts_tasks` is what is left of the chain. While `cancel_audio` waits, `Cancelling`
says that what is left was cancelled or was queued behind a task that was; at any other
time nothing of the chain is (`Undisturbed`). So when the wait ends, each task left over
awaits one that has died or will never run (`NothingLeft`), and joins the `Forgotten`
ones. "Will not speak any more" is a set of tasks each of which has ended, was cancelled
or awaits an unfinished one of the set (`Mute`): such a set stays one under every step
(`AdvanceFrame`), and no recursion along the chain is needed.

`Checkpointer`. `Transcribed` says that the rows are exactly the transcript read in the
order of the sequence numbers; `TurnsContinue` that what any turn has in memory is a
beginning of it, so that turns that overlap are at different places of one transcript
and never on different branches. From these three lemmas on `Upserted` follow: a turn
that is not ahead leaves the rows alone, one that is up to date adds a row at the end,
and one that was overtaken collides on `UNIQUE(attempt_id, sequence)`. `AsksInTurn`
adds what `interviewer` relies on, `AloneCurrent` that a turn that does not overlap has
in memory what a load would return. `GraphRefined` then shows that the decisions of the
graph do not look at message identifiers (`PlainInput`, `PlainPrepared`, `PlainAsked`,
`PlainClosed`): each commutes with leaving them out. Its hypothesis is in the property
itself: a step into an overlap, or the deletion, is excused.

`Evaluations`. The refusing set `_active` names exactly the attempts of the requests in
progress, which are distinct; an attempt under evaluation stays completed and its
transcript never gets shorter unless it is deleted, so a stored citation resolves; a
page waits for its own request.

The two summaries need no invariant beyond types: they hold of any stored reports. What
they need is induction over the rows. The library's induction theorems take a predicate
as a parameter and cannot be applied here; `NatMin` (a nonempty set of numbers has a
least one, from `WFMin`, which speaks of sets) gives `Induction` for a set of numbers.
`FoldExists` then shows that a fold by a step function is a function that exists, and
`FoldValues` what it is, position by position; `TotalSteps`, `WinnersSteps`,
`UnseenSteps` and `MergedSteps` say so of the four loops of the code. After *k* rows
the winners are of every stage seen one that no row beats (`BestUpTo`); after *k*
reports every text of theirs is among the merged items with a source no later than its
report, because the rows come in the order of the stages (`MergedUpTo`). That rows can
be listed in that order at all is `RowsAreListed`: each stands at its rank. For the
averages, rows that are the same set are listed in the same order and have the same
total *t*; with *t = q n + r* both roundings are *q* or *q + 1* and differ for
*2 r = n* only (`RoundingsAgree`).

`Authentication`. `KeyHeld`: the key under which the stored API key is encrypted never
leaves the key file, whichever environment the server starts under, and a server that
has opened the file holds what is in it. `SessionsCurrent`:
every session is of the account's version and hence of its credentials. `BrowserKnows`
is about tabs: unless a tab was left behind by another sign-in, its token and those in
its requests agree with the cookie, and a request without a token carries a cookie
that no longer counts. `OnlyStaleTokensRefused` was found false of an earlier form of
the model, with a third start of the server: the development mode answers a request for
a token with none. The model and the statement now have that case; the run stays at two
starts and the invariant was also checked with three.

`Forms`. `RowsAnswer` relates an answer under way to the row it left, `SavedWasStored`
the hook's last saved value to the row after the last save whose answer was taken,
`StatusIsOfForm` the status to the fields, `CalmShows` what is shown while nothing
overlaps. Requests are numbered without a bound: the number of requests is not
determined by the edits, because the timer sends a save again when one was refused.

`Whiteboard`. `WiresMatch` (the first save of a chain is the one on the wire, and an
accepted one is stored under the version its answer names) and `VersionsExist` carry
`BaselinesStored`: what a board compares its draft with has been stored. Until
something is lost, `BaselinesNamed` says under which version. For one board `AInv` adds
that it names the current version once its queue is empty, and that saves grow, which
maps every step to one of `AutosavedDocument` or a stutter. `Boards = {Alone}` is the
hypothesis of the two theorems for which the property itself needs it: with two
boards a save is refused as stale by design.

`VoiceCapture`. The question is what the handler will have in the turn when it comes to
the *k*-th message still on its way: what it holds now and what the messages before
*k* bring, unless one of them empties the turn (`InTurn`). `TurnEnds` says of every
`turn_end` on its way that the turn it hands over will hold no segment that is held
back or was discarded, `NotSpoken` the same of what was handed over before. A segment
may still arrive after its turn was cancelled; `CancelledWaits` says that then its
recorder's stop handler is still to come and will send the cancellation, before any
turn ends. That needs that there is one recorder to wait for (`OneRecorder`) which
knows why it was stopped (`StoppedWhy`). That is so until recorders overlap, hence
`VoiceInv`: the types hold always, all the rest (`VoiceIInv`) while `counts.overlap` is
false, which is never set back; after it is set the property is false (section 5). After a loss
nothing of the old turn is left to arrive (`Offline`, `Lost`). Segments are in order
along one line: what was answered, the handler's segments, its input and its audio
buffer (`OrderedHere`), the chunks on their way (`OrderedOnTheWay`), the recorder
(`OrderedAtThePage`); each step moves a segment along this line or takes it off.

### What stays with TLC

* Liveness: `InterviewEnds`, `NothingHangs`, `Settles`, `PageSettles`, `NotLeftListening`,
  `RefusalEnds`, `ChangesSettle`. Fairness and ENABLED are out of the prover's reach.
* That `InterviewGraph` bounds the transcript: `MaxMessages` is a bound of the model.

## 5. Disagreements between code and documents

The run `voice_cancel` is one: when the connection is lost while a segment is
recorded, a chunk cannot be sent, the stop handler does nothing, and the turning
off of voice, the pause or the end that waits for it never happens
(`MAP.md:385`).

The following formulas state what a document says, or what one would expect, and
do not hold of the code. They have no run of their own. To see TLC refute one, copy
the configuration of the run and leave it as the only INVARIANT or PROPERTY.

| Formula | Run | Statement | What the code does |
|---|---|---|---|
| `GreetingArrives` (with `OpeningSpec`) | `graph` | `WEBSOCKET_PROTOCOL.md:29` | after a failed first turn `session.start` no longer greets, because a checkpoint without messages exists |
| `CompletedIsReadOnly` | `graph` | `WEBSOCKET_PROTOCOL.md:31` | a completed attempt takes answers |
| `HistoryShowsCoverage` | `graph` | `MAP.md:187` | covered topics are read from the wrong level of the stored JSON and never show |
| `TurnsReport` | `socket` | `WEBSOCKET_PROTOCOL.md:166` | a turn whose speech is cancelled while it waits for it ends without the final interaction state |
| `AnnouncedAnswersAreTaken` | `socket` | `WEBSOCKET_PROTOCOL.md:77` | an answer ended during a turn is announced and lost |
| `NewerWorkIsKept` | `board`, 5 strokes | `backend/README.md:183` | a save queued before a reload overwrites newer work |
| `SnapshotShowsItsVersion` | `board_alone` | `MAP.md:379` | a snapshot's image need not be the scene of its version |
| `RowAlwaysMatchesTranscript` | `checkpointer` | `PLAN.md:102` | turns that overlap leave counters that belong to another transcript |
| `EditsAffectOnlyFutureAttempts` | `stages` | `PLAN.md:173` | editing a stage changes how its past attempts are shown |
| `NumbersIncrease` | `stages` | `MAP.md:214` | the number of a deleted latest attempt is given out again |
| `VoiceTurnEnds` | `voice` | `MAP.md:371` | a segment that the 45 seconds end starts no countdown |
| `DiscardedIsNeverAnswered` | `voice`, 3 segments, 4 clicks, no loss | `PLAN.md:476` | a segment started between a cancellation and the stop event of its recorder is lost from view: turning voice off no longer discards it, and it is answered with the next turn |
| `SignedOutAtLogin` | `auth` | `LogoutButton.tsx:16` | a refused sign-out looks like one that succeeded |
| `KeyFileUsable` | `auth` | `core/secrets.py:27` | a crash between the creation of the key file and its first write leaves a file no start accepts |
| `SavedIsCurrent`, `PendingIsSaved` | `forms` | `MAP.md:223` | the server may carry requests out in another order than they were made; an edit back to the last saved value during a save leaves the page pending |

`EnteredStays` is the part of `MAP.md:223` (stale responses never replace newer form
state) that holds.

Noticed in the code and not stated, because no document says what should happen or
the part is not modelled:

* a hand-off that meets another snapshot or an autosave carries no diagram
  (`frontend/README.md:143`), since `saveSnapshot` drops the request; a snapshot
  marks the board unchanged also when it was changed while being sent;
* `session.pause` during a turn: the turn's last message says the session is ready;
  `session.end` during a turn forgets the pending diagram;
* a completed attempt that is answered again keeps its report;
* the text of a reply cut off by a lost connection keeps voice from becoming ready;
  the error page of the simulator is never left, and its Retry may open a second
  socket;
* the connection test of the settings page goes on after a save that failed.

## 6. Not modelled, and why

* Database access: `transaction()` is the atomicity every module assumes. Migrations
  run once, offline; the command line and deployment scripts are pure I/O.
* Of the saver: `adelete_thread` and `alist`, which the application never calls,
  and the JSON codec. Of the whiteboard: `associate_snapshot`, whose interest lies in
  the product of `Whiteboard` and `InterviewSocket`, which is beyond a run. Of the
  simulator: the playback queue, the shown messages and the error page.
* Of the dashboard: counts, trend and activity, which are read-only aggregations.
  The process form uses the hook as the settings form does; the other pages
  present what the HTTP API answers.
