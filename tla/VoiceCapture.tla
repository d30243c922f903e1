---------------------------- MODULE VoiceCapture ----------------------------
(***************************************************************************)
(* Spoken answers on the interview page: useVoiceCapture, the buttons and  *)
(* callbacks of InterviewSimulator, one WebSocket with its two queues, and *)
(* the part of the server's handler that listens.  The handler is the one  *)
(* of InterviewSocket, reduced to what a spoken answer meets.              *)
(*                                                                         *)
(* A segment's audio travels as one chunk when the recorder has stopped.   *)
(* That is coarser than the code once two recorders overlap, which         *)
(* counts.overlap remembers: of answers nothing is claimed from then on.   *)
(* prepareDiagram and the playback of replies are left out.  The names are *)
(* apart from those of Whiteboard, the other part of the page.             *)
(***************************************************************************)
EXTENDS Integers, SequencesExt, FiniteSetsExt

CONSTANTS
  MaxSegments,  \* bound: segments recorded
  MaxClicks,    \* bound: uses of the buttons, typed answers and lost connections
  MaxLost       \* bound: connections lost

ASSUME VoiceAssumption ==
  /\ MaxSegments \in Nat /\ MaxClicks \in Nat /\ MaxLost \in Nat

VARIABLES
  page,    \* the refs and states of the page, and the messages it has sent
  toPage,  \* events on the way to the page
  handler, \* the connection's handler: input, segments, turn
  spoken,  \* segments that became part of an answer, in order
  counts   \* segments, clicks and losses so far; a history flag, which guards nothing

voiceVars == <<page, toPage, handler, spoken, counts>>

Segment == 1..MaxSegments
Status == {"connecting", "ready_for_answer", "listening", "transcribing", "responding",
           "paused", "completed"}
After == {"none", "disable", "pause", "end"}
\* assistant.text.completed comes with the interview.state that follows it.
Event == Status \cup {"error", "delta", "replied"}
Request == {"start", "chunk", "audio_end", "turn_end", "turn_cancel", "pause", "resume",
            "end", "text"}
Message == [type : Request \ {"chunk"}, segment : {0}] \cup [type : {"chunk"}, segment : Segment]
Page == [status : Status, connected : BOOLEAN, streaming : BOOLEAN,
         enabled : {"off", "asking", "on"}, current : {0} \cup Segment,
         live : SUBSET Segment, stopping : Seq(Segment), flushing : Seq(Segment),
         ending : BOOLEAN, turnEnd : BOOLEAN, discard : BOOLEAN, notify : BOOLEAN,
         after : After, handoff : BOOLEAN, pending : BOOLEAN, cut : BOOLEAN,
         held : SUBSET Segment, discarded : SUBSET Segment, out : Seq(Message)]
Handler == [at : {"receive", "transcribe"}, audio : Seq(Segment), input : Seq(Segment),
            segments : Seq(Segment), busy : BOOLEAN]
Counts == [segments : 0..MaxSegments, clicks : 0..MaxClicks, losses : 0..MaxLost,
           overlap : BOOLEAN]

VoiceTypeOK ==
  /\ page \in Page
  /\ toPage \in Seq(Event)
  /\ handler \in Handler
  /\ spoken \in Seq(Segment)
  /\ counts \in Counts

Msg(type) == [type |-> type, segment |-> 0]
NewHandler == [at |-> "receive", audio |-> << >>, input |-> << >>, segments |-> << >>,
               busy |-> FALSE]

VoiceInit ==
  /\ page = [status |-> "ready_for_answer", connected |-> TRUE, streaming |-> FALSE,
             enabled |-> "off", current |-> 0, live |-> {}, stopping |-> << >>,
             flushing |-> << >>, ending |-> FALSE, turnEnd |-> FALSE, discard |-> FALSE,
             notify |-> FALSE, after |-> "none", handoff |-> FALSE, pending |-> FALSE,
             cut |-> FALSE, held |-> {}, discarded |-> {}, out |-> << >>]
  /\ toPage = << >>
  /\ handler = NewHandler
  /\ spoken = << >>
  /\ counts = [segments |-> 0, clicks |-> 0, losses |-> 0, overlap |-> FALSE]

-----------------------------------------------------------------------------
(* The hook, as functions of the page.                                     *)

\* InterviewSocket.send throws when the socket is not open.
Sent(p, type) == IF p.connected THEN [p EXCEPT !.out = Append(@, Msg(type))] ELSE p

Recording(p) == p.current \in p.live
Stop(p) == [p EXCEPT !.live = @ \ {p.current}, !.stopping = Append(@, p.current)]

ClearTurn(p) == [p EXCEPT !.handoff = FALSE, !.turnEnd = FALSE, !.pending = FALSE]

\* sendTurn and onTurnEnd
SendTurn(p) ==
  IF p.ending THEN [p EXCEPT !.turnEnd = TRUE]
  ELSE Sent([ClearTurn(p) EXCEPT !.held = {}, !.status = "responding"], "turn_end")

\* disable: the recorder is stopped, and the end of the tracks stops any other.
Disable(p) ==
  LET q == IF Recording(p) THEN [Stop(p) EXCEPT !.discard = TRUE, !.notify = FALSE] ELSE p
  IN  [ClearTurn(q) EXCEPT !.enabled = "off", !.live = {},
                           !.stopping = @ \o SetToSeq(q.live),
                           !.discarded = @ \cup q.held, !.held = {}]

\* onTurnCancel
TurnCancelled(p) ==
  Sent([p EXCEPT !.status = IF @ \in {"listening", "transcribing"} THEN "ready_for_answer"
                            ELSE @], "turn_cancel")

\* What a button has asked for once the turn is cancelled.
Perform(p, after) ==
  CASE after = "none" -> p
    [] after = "disable" -> Disable(p)
    [] after = "pause" -> Sent(Disable(p), "pause")
    [] after = "end" -> Sent(p, "end")

\* Mutant of CancelTurn: it does not wait for a recorder that is stopping already.
CancelTurnAtOnce(p, after) ==
  LET q == [ClearTurn(p) EXCEPT !.discarded = @ \cup p.held, !.held = {}] IN
  IF Recording(p)
  THEN Stop([q EXCEPT !.discard = TRUE, !.notify = TRUE, !.after = after])
  ELSE IF p.connected THEN Perform(TurnCancelled(q), after)
  ELSE TurnCancelled(q)

\* cancelTurn: a segment that has not ended is discarded when it has; without a
\* connection onTurnCancel throws.
CancelTurn(p, after) ==
  LET q == [ClearTurn(p) EXCEPT !.discarded = @ \cup p.held, !.held = {}]
      r == [q EXCEPT !.discard = TRUE, !.notify = TRUE, !.after = after]
  IN  IF Recording(p) THEN Stop(r)
      ELSE IF p.ending THEN r
      ELSE IF p.connected THEN Perform(TurnCancelled(q), after)
      ELSE TurnCancelled(q)

\* Mutant of Flushed: the server is not told of a discarded segment.
FlushedQuietly(p) ==
  LET q == [p EXCEPT !.ending = FALSE] IN
  IF p.discard
  THEN Perform([q EXCEPT !.discard = FALSE, !.notify = FALSE, !.after = "none"], p.after)
  ELSE IF p.turnEnd THEN SendTurn(Sent(q, "audio_end")) ELSE Sent(q, "audio_end")

\* The stop handler when every chunk of the segment has been sent.
Flushed(p) ==
  LET q == [p EXCEPT !.ending = FALSE]
      kept == [q EXCEPT !.discard = FALSE, !.notify = FALSE, !.after = "none"]
  IN  IF p.discard
      THEN Perform(IF p.notify THEN TurnCancelled(kept) ELSE kept, p.after)
      ELSE IF p.turnEnd THEN SendTurn(Sent(q, "audio_end")) ELSE Sent(q, "audio_end")

-----------------------------------------------------------------------------
(* What the page does.                                                     *)

Here == page.status # "completed"
PageOnly == UNCHANGED <<toPage, handler, spoken, counts>>

Ready == /\ page.connected /\ ~page.streaming
         /\ page.status \in {"ready_for_answer", "listening", "transcribing"}

\* startSegment, beyond the stream and readyRef
MayStart == ~page.ending /\ ~Recording(page)

\* The stop handler of a recorder has not run to its end.
Unreported == page.stopping # << >> \/ page.flushing # << >>

\* An animation frame hears speech: the countdown ends, and a segment starts
\* unless one is recorded or ending.  After a cancellation neither is so, and it may
\* start before the recorder that was stopped has reported it.
StartSegment ==
  /\ Here /\ page.enabled = "on" /\ Ready
  /\ MayStart /\ counts.segments < MaxSegments
  /\ LET i == counts.segments + 1 IN
       page' = Sent([page EXCEPT !.handoff = FALSE, !.turnEnd = FALSE, !.current = i,
                                 !.live = @ \cup {i}, !.cut = FALSE, !.pending = TRUE,
                                 !.held = @ \cup {i}], "start")
  /\ counts' = [counts EXCEPT !.segments = @ + 1, !.overlap = @ \/ Unreported]
  /\ UNCHANGED <<toPage, handler, spoken>>

ResumeSpeech ==
  /\ Here /\ page.enabled = "on" /\ Ready
  /\ page.handoff /\ (page.ending \/ Recording(page))
  /\ page' = [page EXCEPT !.handoff = FALSE]
  /\ PageOnly

\* Three seconds of silence, which start the countdown, or 45 seconds in all.
StopSegment ==
  /\ Here /\ page.enabled = "on" /\ Recording(page)
  /\ \E silence \in BOOLEAN :
       page' = [Stop(page) EXCEPT !.ending = TRUE, !.handoff = @ \/ silence]
  /\ PageOnly

\* The countdown ends, or "Finish answer now".
HandOver ==
  /\ Here /\ page.enabled = "on" /\ page.handoff
  /\ page' = SendTurn(page)
  /\ PageOnly

\* The stop event of a recorder; recorder.current is cleared whichever it was.
StopEvent ==
  /\ Here /\ page.stopping # << >>
  /\ page' = [page EXCEPT !.current = 0, !.stopping = Tail(@),
                          !.flushing = Append(@, Head(page.stopping))]
  /\ PageOnly

\* Promise.all of the chunks: a chunk that was not sent rejects it, and then the
\* handler does not run.
Flush ==
  /\ Here /\ page.flushing # << >>
  /\ LET p == [page EXCEPT !.flushing = Tail(@)]
         chunk == [type |-> "chunk", segment |-> Head(page.flushing)]
     IN  page' = IF p.cut \/ ~p.connected THEN p
                 ELSE Flushed([p EXCEPT !.out = Append(@, chunk)])
  /\ PageOnly

-----------------------------------------------------------------------------
(* The buttons.                                                            *)

Click == Here /\ counts.clicks + counts.losses < MaxClicks
Clicked(p) ==
  /\ page' = p
  /\ counts' = [counts EXCEPT !.clicks = @ + 1]
  /\ UNCHANGED <<toPage, handler, spoken>>

\* The voice button: permission is asked for, or the turn is cancelled.
Toggle ==
  /\ Click /\ page.connected
  /\ \/ /\ page.enabled = "off" /\ page.status = "ready_for_answer"
        /\ Clicked([page EXCEPT !.enabled = "asking"])
     \/ /\ page.enabled = "on"
        /\ Clicked(CancelTurn(page, "disable"))

Permission ==
  /\ Here /\ page.enabled = "asking"
  /\ page' \in {[page EXCEPT !.enabled = "on"], Disable(page)}
  /\ PageOnly

Pause ==
  /\ Click /\ page.status # "paused"
  /\ LET p == [page EXCEPT !.status = "paused"] IN
       Clicked(IF p.enabled = "on" \/ p.pending THEN CancelTurn(p, "pause")
               ELSE Sent(p, "pause"))

Resume ==
  /\ Click /\ page.status = "paused"
  /\ Clicked(Sent([page EXCEPT !.status = "connecting"], "resume"))

End ==
  /\ Click
  /\ Clicked(IF page.pending THEN CancelTurn(page, "end") ELSE Sent(page, "end"))

Submit ==
  /\ Click
  /\ page.connected /\ page.status = "ready_for_answer" /\ ~page.pending
  /\ Clicked(Sent([page EXCEPT !.status = "connecting"], "text"))

-----------------------------------------------------------------------------
(* The server.                                                             *)

Told(s, events) ==
  /\ handler' = s
  /\ toPage' = toPage \o events

Ears == [handler EXCEPT !.audio = << >>, !.segments = << >>]

\* Mutant of Taken: the segments stay for the next answer.
TakenAndKept(s) == s

\* VoiceTurn.finish
Taken(s) == [s EXCEPT !.segments = << >>]

\* start_turn refuses an answer while a turn runs.
BeginTurn(s, events) ==
  IF handler.busy THEN Told(s, events \o <<"error">>)
  ELSE Told([s EXCEPT !.busy = TRUE], events)

\* The handler takes the next event.
Handle ==
  /\ page.connected /\ page.out # << >> /\ handler.at = "receive"
  /\ page' = [page EXCEPT !.out = Tail(@)]
  /\ LET m == Head(page.out) IN
     /\ spoken' = IF m.type = "turn_end" /\ ~handler.busy THEN spoken \o handler.segments
                  ELSE spoken
     /\ CASE m.type = "start" ->
               IF handler.busy THEN Told(handler, <<"error">>)
               ELSE Told([handler EXCEPT !.audio = << >>], <<"listening">>)
          [] m.type = "chunk" -> Told([handler EXCEPT !.audio = Append(@, m.segment)], << >>)
          [] m.type = "audio_end" ->
               IF handler.audio = << >> THEN Told(handler, <<"error">>)
               ELSE Told([handler EXCEPT !.at = "transcribe", !.audio = << >>,
                                        !.input = handler.audio], <<"transcribing">>)
          [] m.type = "turn_end" ->
               IF handler.segments = << >> THEN Told(handler, <<"error">>)
               ELSE BeginTurn(Taken(handler), <<"responding">>)
          [] m.type = "turn_cancel" -> Told(Ears, <<"ready_for_answer">>)
          [] m.type = "pause" -> Told(Ears, <<"paused">>)
          [] m.type = "resume" -> Told(handler, <<"ready_for_answer">>)
          [] m.type = "end" -> BeginTurn(Ears, << >>)
          [] m.type = "text" -> BeginTurn(handler, << >>)
  /\ UNCHANGED counts

\* The transcription has a text, or there was no speech.
Transcribed ==
  /\ handler.at = "transcribe"
  /\ LET s == [handler EXCEPT !.at = "receive", !.input = << >>] IN
       \/ Told([s EXCEPT !.segments = @ \o handler.input], <<"ready_for_answer">>)
       \/ Told(s, <<"error">>)
  /\ UNCHANGED <<page, spoken, counts>>

\* The reply of a turn, which may end the interview; a turn may fail.
Reply ==
  /\ handler.busy
  /\ \/ Told([handler EXCEPT !.busy = FALSE], <<"delta", "replied">>)
     \/ Told([handler EXCEPT !.busy = FALSE], <<"delta", "completed">>)
     \/ Told([handler EXCEPT !.busy = FALSE], <<"delta", "error">>)
  /\ UNCHANGED <<page, spoken, counts>>

\* handleEvent
HandleEvent ==
  /\ Here /\ page.connected /\ toPage # << >>
  /\ LET event == Head(toPage) IN
       page' = CASE event = "delta" -> [page EXCEPT !.streaming = TRUE]
                 [] event = "replied" -> [page EXCEPT !.streaming = FALSE,
                                                      !.status = "ready_for_answer"]
                 [] event = "error" -> [page EXCEPT !.status = "ready_for_answer"]
                 [] event \in Status -> [page EXCEPT !.status = event]
  /\ toPage' = Tail(toPage)
  /\ UNCHANGED <<handler, spoken, counts>>

\* The connection is lost, by the network or because a transcription failed.  A
\* recorder goes on; its chunks, one every 500 ms, find the socket closed.
LoseConnection ==
  /\ Click /\ page.connected /\ counts.losses < MaxLost
  /\ page' = [page EXCEPT !.connected = FALSE, !.out = << >>,
                          !.cut = @ \/ page.live # {}]
  /\ toPage' = << >>
  /\ handler' = NewHandler
  /\ counts' = [counts EXCEPT !.losses = @ + 1]
  /\ UNCHANGED spoken

\* connect, 1500 ms later: session.resume, and the page is ready.
Reconnect ==
  /\ Here /\ ~page.connected
  /\ page' = Sent([page EXCEPT !.connected = TRUE, !.status = "ready_for_answer"], "resume")
  /\ PageOnly

VoiceNext ==
  \/ StartSegment \/ ResumeSpeech \/ StopSegment \/ HandOver \/ StopEvent \/ Flush
  \/ Toggle \/ Permission \/ Pause \/ Resume \/ End \/ Submit
  \/ Handle \/ Transcribed \/ Reply \/ HandleEvent \/ LoseConnection \/ Reconnect

VoiceSpec == VoiceInit /\ [][VoiceNext]_voiceVars

\* No segment outlasts 45 seconds, the countdown runs out, the browser runs its
\* events, the server reads its socket, the providers answer or time out, and the
\* page reconnects.
FairVoiceSpec ==
  /\ VoiceSpec
  /\ WF_voiceVars(StopSegment) /\ WF_voiceVars(HandOver)
  /\ WF_voiceVars(StopEvent) /\ WF_voiceVars(Flush) /\ WF_voiceVars(Handle)
  /\ WF_voiceVars(Transcribed) /\ WF_voiceVars(Reply)
  /\ WF_voiceVars(HandleEvent) /\ WF_voiceVars(Reconnect)

-----------------------------------------------------------------------------
(* Properties.                                                             *)

\* Speech that was pending when the candidate turned voice off, paused or ended
\* the session never becomes part of an answer, however far it had got: in the
\* recorder, in the queue, with the transcriber or in the voice turn.  As it stands
\* this is not so (PLAN.md:476).
DiscardedIsNeverAnswered == \A i \in DOMAIN spoken : spoken[i] \notin page.discarded

\* It is until a segment starts before the stop handler of a cancelled one has run:
\* the two recorders then share recorder.current and discardSegment.
DiscardedIsNotAnswered == ~counts.overlap => DiscardedIsNeverAnswered

\* Segments are answered in the order in which they were spoken, and once, until
\* two recorders overlap as above.
SpokenInOrder ==
  ~counts.overlap => \A i, j \in DOMAIN spoken : i < j => spoken[i] < spoken[j]

\* Not so: what a button asked for after a cancellation is waiting for the stop
\* handler of a recorder (MAP.md:385).  It is as long as no connection is lost.
CancelIsPending == page.after # "none" => Unreported

\* The page is not left labelled as listening or transcribing, also when the
\* connection is lost while it records.
NotLeftListening ==
  page.status \in {"listening", "transcribing"}
    ~> page.status \notin {"listening", "transcribing"}

\* A voice turn is handed over or cancelled.  (It is not if the candidate stops
\* speaking where the 45 seconds end: then no countdown is started.)
VoiceTurnEnds == page.pending ~> ~page.pending
=============================================================================
