--------------------------- MODULE InterviewSocket ---------------------------
(***************************************************************************)
(* One WebSocket connection of an interview: a handler that takes client   *)
(* events one at a time, the task of the interviewer's turn, and a chain   *)
(* of speech tasks.  They share one asyncio loop: a step below runs from   *)
(* one await at which another task may run to the next.  A send suspends   *)
(* only the task that sends, so a step contains the sends it makes.        *)
(***************************************************************************)
EXTENDS Integers, Sequences

CONSTANTS
  SpeechOn,      \* capabilities["text_to_speech"]
  MaxTurns,      \* bound: turns begun
  MaxSpeech,     \* bound: sentences queued for speech
  MaxSegments    \* bound: transcribed segments waiting for user.turn.end

ASSUME SocketAssumption ==
  /\ SpeechOn \in BOOLEAN
  /\ MaxTurns \in Nat \ {0}
  /\ MaxSpeech \in Nat \ {0}
  /\ MaxSegments \in Nat \ {0}

VARIABLES
  conn,       \* the connection is open
  handler,    \* what the handler awaits, for which event and which tasks
  turn,       \* turn_task
  speech,     \* every speak_in_order task, in the order it was queued
  tracked,    \* tts_tasks
  tail,       \* tts_tail, 0 for None
  spoken,     \* modes["text_to_speech"]
  recording,  \* audio_input is not empty
  segments,   \* len(voice_turn._segments)
  pending,    \* pending_snapshot_id is set
  status,     \* interview_attempts.status
  shown,      \* the last interview.state or error the client received
  silenced,   \* tasks queued before the last assistant.audio.cancelled
  turns,      \* turns begun
  untaken     \* a transcript.final was sent for an answer that no turn took

device == <<recording, segments, pending>>
counts == <<turns, untaken>>
audio == <<speech, tracked, tail, silenced>>
vars == <<conn, handler, turn, audio, spoken, device, status, shown, counts>>

Awaiting == {"receive", "audio", "transcribe", "observe"}
CancelEvent == {"user.text", "session.pause", "session.end", "audio.output.cancel",
                "mode.update"}
TurnPhase == {"none", "created", "streaming", "replied", "speaking", "linking", "over"}
\* "working" stands for connecting, listening, transcribing and responding.
Interaction == {"working", "ready_for_answer", "paused", "completed", "error"}

Task == [state : {"waiting", "speaking", "done", "dead"}, after : 0..MaxSpeech,
         cancelled : BOOLEAN]

TypeOK ==
  /\ conn \in BOOLEAN
  /\ handler \in [at : Awaiting, event : CancelEvent, tasks : SUBSET (1..MaxSpeech)]
  /\ turn \in [phase : TurnPhase, op : {"start", "respond", "end"},
               snapshot : BOOLEAN, on : 0..MaxSpeech, told : BOOLEAN]
  /\ speech \in Seq(Task) /\ Len(speech) <= MaxSpeech
  /\ tracked \subseteq DOMAIN speech
  /\ tail \in {0} \cup DOMAIN speech
  /\ spoken \in BOOLEAN /\ recording \in BOOLEAN /\ pending \in BOOLEAN
  /\ segments \in 0..MaxSegments
  /\ status \in {"ready", "in_progress", "paused", "completed"}
  /\ shown \in Interaction
  /\ silenced \in 0..Len(speech)
  /\ turns \in 0..MaxTurns /\ untaken \in BOOLEAN

-----------------------------------------------------------------------------
Ended(j) == speech[j].state \in {"done", "dead"}
Busy == turn.phase \notin {"none", "over"}
Receiving == conn /\ handler.at = "receive"
Receive == [at |-> "receive", event |-> "user.text", tasks |-> {}]
NoTurn == [phase |-> "none", op |-> "start", snapshot |-> FALSE, on |-> 0, told |-> FALSE]
TurnOver(told) == [NoTurn EXCEPT !.phase = "over", !.told = told]

\* Mutant of Started: a completed attempt starts again.
StartedAgain == "in_progress"

MayBegin == Busy \/ turns < MaxTurns    \* the bound on turns

Started == IF status = "completed" THEN "completed" ELSE "in_progress"

Init ==
  /\ conn = TRUE
  /\ handler = Receive
  /\ turn = NoTurn
  /\ speech = << >> /\ tracked = {} /\ tail = 0 /\ silenced = 0
  /\ spoken \in {FALSE, SpeechOn}
  /\ recording = FALSE /\ segments = 0 /\ pending = FALSE
  /\ status \in {"ready", "in_progress", "paused", "completed"}
  /\ shown = "working"
  /\ turns = 0 /\ untaken = FALSE

\* start_turn refuses a second turn; the refused event ends in an error.
BeginTurn(op, snapshot, telling) ==
  IF Busy
  THEN shown' = "error" /\ UNCHANGED <<turn, turns>>
  ELSE /\ turn' = [NoTurn EXCEPT !.phase = "created", !.op = op, !.snapshot = snapshot]
       /\ turns' = turns + 1
       /\ shown' = telling

-----------------------------------------------------------------------------
(* Events the handler finishes without waiting for another task.           *)

SessionStart ==
  /\ Receiving
  /\ MayBegin
  /\ BeginTurn("start", FALSE, "working")
  /\ UNCHANGED <<conn, handler, audio, spoken, device, status, untaken>>

AudioStart ==
  /\ Receiving
  /\ \/ ~Busy /\ shown' = "working" /\ recording' = FALSE
     \/ shown' = "error" /\ UNCHANGED recording    \* busy, or no transcription
  /\ UNCHANGED <<conn, handler, turn, audio, spoken, segments, pending, status, counts>>

AudioChunk ==
  /\ Receiving
  /\ \/ recording' = TRUE /\ UNCHANGED shown
     \/ shown' = "error" /\ UNCHANGED recording    \* not base64, or too long
  /\ UNCHANGED <<conn, handler, turn, audio, spoken, segments, pending, status, counts>>

TurnEnd ==
  /\ Receiving
  /\ MayBegin
  /\ IF segments = 0
     THEN shown' = "error" /\ UNCHANGED <<turn, turns, segments, pending, untaken>>
     ELSE /\ untaken' = (untaken \/ Busy)
          /\ segments' = 0
          /\ pending' = FALSE
          /\ BeginTurn("respond", pending, "working")
  /\ UNCHANGED <<conn, handler, audio, spoken, recording, status>>

ClearDevice == recording' = FALSE /\ segments' = 0 /\ pending' = FALSE

TurnCancel ==
  /\ Receiving
  /\ ClearDevice
  /\ shown' = "ready_for_answer"
  /\ UNCHANGED <<conn, handler, turn, audio, spoken, status, counts>>

SessionResume ==
  /\ Receiving
  /\ status' = Started
  /\ shown' = "ready_for_answer"
  /\ UNCHANGED <<conn, handler, turn, audio, spoken, device, counts>>

SpeakReplies ==
  /\ Receiving
  /\ SpeechOn
  /\ spoken' = TRUE
  /\ UNCHANGED <<conn, handler, turn, audio, device, status, shown, counts>>

-----------------------------------------------------------------------------
(* Events that wait for a provider.                                        *)

AudioEnd ==
  /\ Receiving
  /\ IF recording
     THEN handler' = [Receive EXCEPT !.at = "transcribe"] /\ shown' = "working"
     ELSE shown' = "error" /\ UNCHANGED handler
  /\ recording' = FALSE
  /\ UNCHANGED <<conn, turn, audio, spoken, segments, pending, status, counts>>

Transcribed ==
  /\ handler.at = "transcribe"
  /\ handler' = Receive
  /\ \/ /\ segments < MaxSegments
        /\ segments' = segments + 1
        /\ shown' = "ready_for_answer"
     \/ shown' = "error" /\ UNCHANGED segments      \* no speech was detected
  /\ UNCHANGED <<conn, turn, audio, spoken, recording, pending, status, counts>>

\* An exception of the speech-to-text provider is caught nowhere: the handler
\* and with it the connection end, and the tasks are left running.
TranscriptionFails ==
  /\ handler.at = "transcribe"
  /\ handler' = Receive
  /\ conn' = FALSE
  /\ UNCHANGED <<turn, audio, spoken, device, status, shown, counts>>

CanvasSnapshot ==
  /\ Receiving
  /\ \/ handler' = [Receive EXCEPT !.at = "observe"] /\ UNCHANGED shown
     \/ shown' = "error" /\ UNCHANGED handler      \* no such snapshot
  /\ UNCHANGED <<conn, turn, audio, spoken, device, status, counts>>

\* The observation may be missing; the snapshot accompanies the next answer.
Observed ==
  /\ handler.at = "observe"
  /\ handler' = Receive
  /\ pending' = TRUE
  /\ UNCHANGED <<conn, turn, audio, spoken, recording, segments, status, shown, counts>>

-----------------------------------------------------------------------------
(* Events that begin with cancel_audio.                                    *)

\* user.text is refused during a turn, the other events never are.
Admitted(event) ==
  /\ Receiving
  /\ event = "user.text" => ~Busy
  /\ event \in {"user.text", "session.end"} => turns < MaxTurns

\* The tracked tasks are cancelled, and the handler waits until they have ended.
CancelAudio(event) ==
  /\ Admitted(event)
  /\ tracked # {}
  /\ speech' = [j \in DOMAIN speech |->
                  IF j \in tracked THEN [speech[j] EXCEPT !.cancelled = TRUE]
                  ELSE speech[j]]
  /\ handler' = [at |-> "audio", event |-> event, tasks |-> tracked]
  /\ spoken' = (spoken /\ event # "mode.update")
  /\ UNCHANGED <<conn, turn, tracked, tail, silenced, device, status, shown, counts>>

\* Mutant of AudioCancelled: the cancelled tasks are not waited for.
AudioCancelledEarly(event) ==
  /\ Admitted(event) \/ (handler.at = "audio" /\ handler.event = event)
  /\ handler' = Receive
  /\ tracked' = {} /\ tail' = 0
  /\ silenced' = Len(speech)
  /\ spoken' = (spoken /\ event # "mode.update")
  /\ UNCHANGED <<conn, speech, untaken>>

\* The end of cancel_audio, at once when there was nothing to wait for: the
\* chain is forgotten and assistant.audio.cancelled is sent.
AudioCancelled(event) ==
  /\ \/ Admitted(event) /\ tracked = {}
     \/ handler.at = "audio" /\ handler.event = event /\ \A j \in handler.tasks : Ended(j)
  /\ handler' = Receive
  /\ tracked' = {} /\ tail' = 0
  /\ silenced' = Len(speech)
  /\ spoken' = (spoken /\ event # "mode.update")
  /\ UNCHANGED <<conn, speech, untaken>>

TextRefused ==
  /\ Receiving /\ Busy
  /\ shown' = "error"
  /\ UNCHANGED <<conn, handler, turn, audio, spoken, device, status, counts>>

AnswerText ==
  /\ AudioCancelled("user.text")
  /\ \/ pending' = FALSE /\ BeginTurn("respond", pending, shown)
     \/ shown' = "error" /\ UNCHANGED <<turn, turns, pending>>    \* blank text
  /\ UNCHANGED <<recording, segments, status>>

PauseSession ==
  /\ AudioCancelled("session.pause")
  /\ ClearDevice
  /\ status' = IF status = "in_progress" THEN "paused" ELSE status
  /\ shown' = "paused"
  /\ UNCHANGED <<turn, turns>>

EndSession ==
  /\ AudioCancelled("session.end")
  /\ ClearDevice
  /\ BeginTurn("end", pending, shown)
  /\ UNCHANGED status

\* audio.output.cancel, and mode.update without text_to_speech
StopSpeaking ==
  /\ AudioCancelled("audio.output.cancel") \/ AudioCancelled("mode.update")
  /\ UNCHANGED <<turn, turns, device, status, shown>>

-----------------------------------------------------------------------------
(* The turn: run_turn and stream.                                          *)

TurnFrame == UNCHANGED <<conn, handler, spoken, device, counts>>

\* The generator of the session runs only now, and marks the attempt started.
TurnBegins ==
  /\ turn.phase = "created"
  /\ turn' = [turn EXCEPT !.phase = "streaming"]
  /\ status' = IF turn.op = "end" THEN status ELSE Started
  /\ UNCHANGED <<audio, shown>> /\ TurnFrame

\* Mutant of QueueSpeech: the tasks are not chained.
QueueSpeechUnchained ==
  /\ Len(speech) < MaxSpeech
  /\ speech' = Append(speech, [state |-> "waiting", after |-> 0, cancelled |-> FALSE])
  /\ tail' = Len(speech) + 1
  /\ tracked' = tracked \cup {Len(speech) + 1}

\* queue_speech
QueueSpeech ==
  /\ Len(speech) < MaxSpeech
  /\ speech' = Append(speech, [state |-> "waiting", after |-> tail, cancelled |-> FALSE])
  /\ tail' = Len(speech) + 1
  /\ tracked' = tracked \cup {Len(speech) + 1}

\* A sentence is complete while text still arrives.
Sentence ==
  /\ turn.phase = "streaming"
  /\ conn /\ spoken
  /\ QueueSpeech
  /\ UNCHANGED <<turn, silenced, status, shown>> /\ TurnFrame

\* The generator is exhausted, after _complete_if_ended.
Replied ==
  /\ turn.phase = "streaming"
  /\ turn' = [turn EXCEPT !.phase = "replied"]
  /\ CASE turn.op = "start" -> status' = status
       [] turn.op = "respond" -> status' \in {status, "completed"}
       [] turn.op = "end" -> status' = "completed"
  /\ UNCHANGED <<audio, shown>> /\ TurnFrame

\* What is left in the speech buffer is queued; the turn awaits tts_tail, and
\* ends at once with CancelledError if that task was cancelled.
AwaitSpeech ==
  /\ turn.phase = "replied"
  /\ conn
  /\ \/ spoken /\ QueueSpeech
     \/ UNCHANGED <<speech, tracked, tail>>
  /\ turn' = IF tail' # 0 /\ speech'[tail'].state = "dead" THEN TurnOver(FALSE)
             ELSE [turn EXCEPT !.phase = "speaking", !.on = tail']
  /\ UNCHANGED <<silenced, status, shown>> /\ TurnFrame

\* The final interaction state; a snapshot is associated afterwards.
FinalState ==
  /\ turn.phase = "speaking"
  /\ conn
  /\ turn.on # 0 => speech[turn.on].state = "done"
  /\ shown' = IF status = "completed" THEN "completed" ELSE "ready_for_answer"
  /\ turn' = IF turn.snapshot THEN [turn EXCEPT !.phase = "linking", !.told = TRUE]
             ELSE TurnOver(TRUE)
  /\ UNCHANGED <<audio, status>> /\ TurnFrame

\* associate_snapshot; its failure is a warning.
LinkSnapshot ==
  /\ turn.phase = "linking"
  /\ turn' = TurnOver(TRUE)
  /\ UNCHANGED <<audio, status, shown>> /\ TurnFrame

\* The model provider or the database fails: run_turn sends an error.
TurnFails ==
  /\ turn.phase \in {"created", "streaming"}
  /\ conn
  /\ turn' = TurnOver(TRUE)
  /\ shown' = "error"
  /\ UNCHANGED <<audio, status>> /\ TurnFrame

\* After the handler failed a send raises, and so does the send of the error.
TurnUnheard ==
  /\ ~conn /\ Busy
  /\ turn' = TurnOver(turn.told)
  /\ UNCHANGED <<audio, status, shown>> /\ TurnFrame

-----------------------------------------------------------------------------
(* The speech tasks.                                                       *)

SpeechFrame == UNCHANGED <<conn, handler, tail, silenced, spoken, device, status,
                           shown, counts>>

Unhindered(j) == conn /\ ~speech[j].cancelled

\* The predecessor is done: speak runs and sends audio.
Speak(j) ==
  /\ speech[j].state = "waiting"
  /\ Unhindered(j)
  /\ speech[j].after # 0 => speech[speech[j].after].state = "done"
  /\ speech' = [speech EXCEPT ![j].state = "speaking"]
  /\ UNCHANGED <<turn, tracked>> /\ SpeechFrame

\* The audio is complete, or its generation failed with a warning.  The task's
\* done callback takes it out of tts_tasks before a gather can miss it.
SpeechDone(j) ==
  /\ speech[j].state = "speaking"
  /\ Unhindered(j)
  /\ speech' = [speech EXCEPT ![j].state = "done"]
  /\ tracked' = tracked \ {j}
  /\ UNCHANGED turn /\ SpeechFrame

\* Mutant of SpeechDies: the end of a predecessor wakes nobody but its successor
\* in good order.
SpeechDiesAlone(j) ==
  /\ ~Ended(j)
  /\ ~Unhindered(j)
  /\ speech' = [speech EXCEPT ![j].state = "dead"]
  /\ tracked' = tracked \ {j}
  /\ turn' = IF turn.phase = "speaking" /\ turn.on = j THEN TurnOver(FALSE) ELSE turn
  /\ SpeechFrame

\* Cancelled, or awaiting a task that was; CancelledError reaches the turn that
\* awaits this task, and run_turn does not catch it.
SpeechDies(j) ==
  /\ ~Ended(j)
  /\ \/ ~Unhindered(j)
     \/ speech[j].after # 0 /\ speech[speech[j].after].state = "dead"
  /\ speech' = [speech EXCEPT ![j].state = "dead"]
  /\ tracked' = tracked \ {j}
  /\ turn' = IF turn.phase = "speaking" /\ turn.on = j THEN TurnOver(FALSE) ELSE turn
  /\ SpeechFrame

-----------------------------------------------------------------------------
\* WebSocketDisconnect: the turn and the tracked speech are cancelled.
Disconnect ==
  /\ Receiving
  /\ conn' = FALSE
  /\ turn' = IF Busy THEN TurnOver(turn.told) ELSE turn
  /\ speech' = [j \in DOMAIN speech |->
                  IF j \in tracked THEN [speech[j] EXCEPT !.cancelled = TRUE]
                  ELSE speech[j]]
  /\ UNCHANGED <<handler, tracked, tail, silenced, spoken, device, status, shown, counts>>

CancelStep ==
  \/ \E event \in CancelEvent : CancelAudio(event)
  \/ AnswerText \/ PauseSession \/ EndSession \/ StopSpeaking

HandlerStep ==
  \/ CancelStep
  \/ Transcribed \/ TranscriptionFails \/ Observed

TurnStep ==
  \/ TurnBegins \/ Sentence \/ Replied \/ AwaitSpeech \/ FinalState \/ LinkSnapshot
  \/ TurnFails \/ TurnUnheard

SpeechStep(j) == j \in DOMAIN speech /\ (Speak(j) \/ SpeechDone(j) \/ SpeechDies(j))

ClientEvent ==
  \/ SessionStart \/ TextRefused \/ AudioStart \/ AudioChunk \/ AudioEnd
  \/ TurnEnd \/ CanvasSnapshot \/ TurnCancel \/ SessionResume \/ SpeakReplies

Next ==
  \/ ClientEvent \/ Disconnect
  \/ HandlerStep \/ TurnStep
  \/ \E j \in 1..MaxSpeech : SpeechStep(j)

Spec == Init /\ [][Next]_vars

\* The loop runs every ready task and the providers answer or fail; a client
\* may fall silent.
FairSpec ==
  /\ Spec
  /\ WF_vars(handler.at # "receive" /\ HandlerStep)
  /\ WF_vars(TurnStep)
  /\ \A j \in 1..MaxSpeech : WF_vars(SpeechStep(j))

-----------------------------------------------------------------------------
(* Properties.                                                             *)

\* No task of C will speak any more: it has ended, or it still waits but was
\* cancelled, or waits for another of them, one that is not done.
Mute(C) ==
  \A k \in C :
    \/ Ended(k)
    \/ /\ speech[k].state = "waiting"
       /\ \/ speech[k].cancelled
          \/ speech[k].after \in C /\ speech[speech[k].after].state # "done"

Silent(j) == \E C \in SUBSET DOMAIN speech : j \in C /\ Mute(C)

\* Sentences are spoken one at a time and in the order of the transcript: when
\* one is spoken, no earlier one speaks or ever will, through all cancellations.
SpeechInOrder ==
  \A i, j \in DOMAIN speech :
    (i < j /\ speech[j].state \in {"speaking", "done"}) => Silent(i)

\* Once the client has been told that audio is cancelled, nothing that was
\* queued before is spoken, also what a running turn queued while cancel_audio
\* was waiting; and while spoken replies are off nothing is, or can still be.
NoSpeechAfterCancel ==
  \A j \in DOMAIN speech :
    j <= silenced \/ (~spoken /\ Receiving) => Silent(j)

\* The client is told that the interview is over only if the attempt is.
CompletedIsTold == shown = "completed" => status = "completed"

\* Turn, chain and handler never wait for one another for ever: every turn,
\* every sentence and every event comes to an end, also after a disconnect.
NothingHangs ==
  /\ Busy ~> ~Busy
  /\ handler.at # "receive" ~> handler.at = "receive"
  /\ \A j \in 1..MaxSpeech :
       j \in DOMAIN speech ~> (j \in DOMAIN speech /\ Ended(j))

\* WEBSOCKET_PROTOCOL.md: "The final interaction state is sent after queued
\* speech finishes."  A turn that is over has told the client so, or why not.
TurnsReport == (conn /\ turn.phase = "over") => turn.told

\* WEBSOCKET_PROTOCOL.md: "STT results accumulate transiently until
\* user.turn.end creates one canonical candidate message".  An answer announced
\* with transcript.final is one that a turn takes to the interviewer.
AnnouncedAnswersAreTaken == ~untaken
=============================================================================
