--------------------------- MODULE InterviewGraph ---------------------------
(***************************************************************************)
(* One interview attempt: the LangGraph state machine that chooses topics, *)
(* follow-ups and the end of the interview, the application session that   *)
(* starts, answers and ends it, and the checkpoints in SQLite that survive *)
(* when a turn is cancelled, its provider fails or the process crashes.    *)
(*                                                                         *)
(* LangGraph itself is external.  As the code uses it, an invocation with  *)
(* an input loads the saved state, saves a row for the input, applies the  *)
(* input, and saves again after every node; what was not saved is lost.    *)
(***************************************************************************)
EXTENDS InterviewRules

CONSTANTS
  MaxAborts,     \* bound: turns that fail, are cancelled or crash
  MaxMessages    \* bound: messages after which no new turn is begun

ASSUME BoundsAssumption == MaxAborts \in Nat /\ MaxMessages \in Nat

VARIABLES
  status,   \* interview_attempts.status
  exists,   \* a row of interview_graph_state exists
  saved,    \* the checkpointed state, with the canonical transcript
  run,      \* the invocation in progress: its phase, operation and state
  overtime, \* the wall clock has passed limits.max_duration_minutes
  aborts    \* turns aborted so far

vars == <<status, exists, saved, run, overtime, aborts>>

TypeOK ==
  /\ status \in {"ready", "in_progress", "paused", "completed"}
  /\ exists \in BOOLEAN
  /\ saved \in GraphState
  /\ run \in [phase : Phase, op : Operation, state : GraphState]
  /\ overtime \in BOOLEAN
  /\ aborts \in 0..MaxAborts

-----------------------------------------------------------------------------
\* What aput stores in state_json, and the covered topics that the attempt's
\* history reads out of it.
StateJson(s) == [channel_values |-> s, pending_sends |-> << >>]
ContextCovered ==
  LET json == StateJson(saved) IN
  IF exists /\ "covered" \in DOMAIN json THEN json["covered"] ELSE {}

-----------------------------------------------------------------------------
Init ==
  /\ status = "ready"
  /\ exists = FALSE
  /\ saved = Blank
  /\ run = Idle
  /\ overtime = FALSE
  /\ aborts = 0

Started == IF status = "completed" THEN "completed" ELSE "in_progress"

\* InterviewSession.start: a thread that has a checkpoint is left as it is.
StartTurn ==
  /\ run.phase = "idle"
  /\ status' = Started
  /\ run' = IF exists THEN run
            ELSE [phase |-> "input", op |-> "start", state |-> saved]
  /\ UNCHANGED <<exists, saved, overtime, aborts>>

\* InterviewSession.respond
RespondTurn ==
  /\ run.phase = "idle"
  /\ Len(saved.messages) < MaxMessages
  /\ status' = Started
  /\ run' = [phase |-> "input", op |-> "respond", state |-> saved]
  /\ UNCHANGED <<exists, saved, overtime, aborts>>

\* InterviewSession.end
EndTurn ==
  /\ run.phase = "idle"
  /\ run' = [phase |-> "input", op |-> "end", state |-> saved]
  /\ UNCHANGED <<status, exists, saved, overtime, aborts>>

\* The checkpoint of the input: the row exists, its values are the old ones.
SaveInput ==
  /\ run.phase = "input"
  /\ exists' = TRUE
  /\ run' = [run EXCEPT !.phase = "apply"]
  /\ UNCHANGED <<status, saved, overtime, aborts>>

\* A step of the graph ends with the checkpoint of the state it computed.
Checkpoint(phase, s) ==
  /\ saved' = s
  /\ run' = [run EXCEPT !.phase = phase, !.state = s]
  /\ UNCHANGED <<status, exists, overtime, aborts>>

ApplyInput ==
  /\ run.phase = "apply"
  /\ Checkpoint("prepare", WithInput(run.state, run.op))

Prepare ==
  /\ run.phase = "prepare"
  /\ LET s == Prepared(run.state, overtime) IN Checkpoint(Route(s), s)

Interviewer ==
  /\ run.phase = "interviewer"
  /\ Checkpoint("finish", Asked(run.state))

Closing ==
  /\ run.phase = "closing"
  /\ Checkpoint("finish", Closed(run.state))

\* Mutant of CompleteIfEnded: only the turn that was asked to end the interview
\* completes it.
CompleteOnEnd ==
  /\ run.phase = "finish"
  /\ status' = IF saved.ended /\ run.op = "end" THEN "completed" ELSE status
  /\ run' = Idle
  /\ UNCHANGED <<exists, saved, overtime, aborts>>

\* _complete_if_ended, which reads the state back from the database.
CompleteIfEnded ==
  /\ run.phase = "finish"
  /\ status' = IF saved.ended THEN "completed" ELSE status
  /\ run' = Idle
  /\ UNCHANGED <<exists, saved, overtime, aborts>>

\* The provider fails, the connection drops, or the process crashes.
Abort ==
  /\ run.phase # "idle"
  /\ aborts < MaxAborts
  /\ aborts' = aborts + 1
  /\ run' = Idle
  /\ UNCHANGED <<status, exists, saved, overtime>>

Pause ==
  /\ status = "in_progress"
  /\ status' = "paused"
  /\ UNCHANGED <<exists, saved, run, overtime, aborts>>

Resume ==
  /\ status' = Started
  /\ UNCHANGED <<exists, saved, run, overtime, aborts>>

TimePasses ==
  /\ ~overtime
  /\ overtime' = TRUE
  /\ UNCHANGED <<status, exists, saved, run, aborts>>

RunStep ==
  SaveInput \/ ApplyInput \/ Prepare \/ Interviewer \/ Closing \/ CompleteIfEnded

Next ==
  \/ StartTurn \/ RespondTurn \/ EndTurn
  \/ RunStep \/ Abort
  \/ Pause \/ Resume \/ TimePasses

Spec == Init /\ [][Next]_vars

\* The event loop runs a ready task; a candidate who stays answers every
\* question.  Nobody is obliged to pause, to end or to let time run out.
FairSpec == Spec /\ WF_vars(RunStep) /\ WF_vars(RespondTurn)

\* A client that opens the attempt again and again with session.start.
OpeningSpec == Spec /\ WF_vars(RunStep) /\ WF_vars(StartTurn)

-----------------------------------------------------------------------------
(* Properties.                                                             *)

QuestionsIn(s) == {i \in DOMAIN s.messages : s.messages[i].role = "question"}

\* The question counter is exactly the number of questions in the canonical
\* transcript, and never exceeds the limit, whichever turns were cut short.
QuestionBudget ==
  /\ saved.asked = Cardinality(QuestionsIn(saved))
  /\ saved.asked <= MaxQuestions

\* A topic never gets more than its first question and its follow-ups.
TopicBudget ==
  \A t \in TopicSet :
    Cardinality({i \in QuestionsIn(saved) : saved.messages[i].topic = t}) <= 1 + FollowUps

\* Both limits hold of the transcript that is stored, also across failed turns.
Budgets == QuestionBudget /\ TopicBudget

\* Questions go through the configured topics in order, never back, and never
\* reach for the fallback topic.
TopicsInOrder ==
  LET at(i) == CHOOSE k \in DOMAIN Topics : Topics[k] = saved.messages[i].topic
  IN  /\ \A i \in QuestionsIn(saved) : saved.messages[i].topic \in TopicSet
      /\ \A i, j \in QuestionsIn(saved) : i <= j => at(i) <= at(j)

\* The closing message comes once, with the end flag and a reason that the
\* state justifies, and no question follows it; an attempt is completed only
\* when this state has been stored.
ClosingIsFinal ==
  LET ms == saved.messages
      closings == {i \in DOMAIN ms : ms[i].role = "closing"}
  IN  /\ saved.ended <=> closings # {}
      /\ \A i \in closings, j \in DOMAIN ms : j > i => ms[j].role = "human"
      /\ saved.ended <=> saved.reason # "none"
      /\ saved.reason = "user_requested" => saved.requested
      /\ saved.reason = "time_limit" => overtime
      /\ saved.reason = "question_limit" => saved.asked = MaxQuestions
      /\ saved.reason = "topics_covered" => TopicSet \subseteq saved.covered
      /\ status = "completed" => saved.ended

\* A candidate who keeps answering reaches a completed attempt, however many
\* (finitely many) turns are cut short on the way.
InterviewEnds == <>[](status = "completed")

\* WEBSOCKET_PROTOCOL.md: "A new attempt generates its greeting with
\* session.start".  A client that sends it whenever it finds no transcript
\* eventually finds one.
GreetingArrives == <>(saved.messages # << >>)

\* WEBSOCKET_PROTOCOL.md: "Completed attempts remain read-only."
CompletedIsReadOnly ==
  [][status = "completed" => saved'.messages = saved.messages]_vars

\* MAP.md: "Attempt history hydration includes [...] planned topics, and
\* checkpoint-derived covered topics."
HistoryShowsCoverage == ContextCovered = saved.covered
=============================================================================
