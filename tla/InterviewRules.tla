--------------------------- MODULE InterviewRules ---------------------------
(***************************************************************************)
(* The state of an interview and the pure decisions of its graph: what an  *)
(* input writes, which topic is asked about, when the interview ends.      *)
(***************************************************************************)
EXTENDS Integers, Sequences, FiniteSets

CONSTANTS
  Topics,        \* the configured topics, in order and without repetition
  MaxQuestions,  \* limits.max_questions
  FollowUps,     \* limits.follow_up_questions_per_topic
  NoTopic,       \* current_topic = None
  Fallback       \* "role-relevant experience"

TopicSet == {Topics[i] : i \in DOMAIN Topics}

ASSUME LimitsAssumption ==
  /\ MaxQuestions \in 1..100
  /\ FollowUps \in 0..3
ASSUME TopicsAssumption ==
  /\ Topics \in Seq(TopicSet)
  /\ Topics # << >>
  /\ \A i, j \in DOMAIN Topics : Topics[i] = Topics[j] => i = j
  /\ NoTopic \notin TopicSet
  /\ Fallback \notin TopicSet \cup {NoTopic}

Role == {"human", "question", "closing"}
Reason == {"none", "user_requested", "time_limit", "question_limit", "topics_covered"}
Operation == {"start", "respond", "end"}
Phase == {"idle", "input", "apply", "prepare", "interviewer", "closing", "finish"}

Message == [role : Role, topic : TopicSet \cup {NoTopic, Fallback}]
Human == [role |-> "human", topic |-> NoTopic]

StateWith(M) ==
  [messages : Seq(M), covered : SUBSET (TopicSet \cup {Fallback}),
   current : TopicSet \cup {NoTopic, Fallback}, asked : Nat, followed : Nat,
   late : BOOLEAN, requested : BOOLEAN, ended : BOOLEAN, reason : Reason,
   processed : Nat]
GraphState == StateWith(Message)

\* initial_state(), and the defaults that prepare uses on an empty thread.
Blank ==
  [messages |-> << >>, covered |-> {}, current |-> NoTopic, asked |-> 0,
   followed |-> 0, late |-> FALSE, requested |-> FALSE, ended |-> FALSE,
   reason |-> "none", processed |-> 0]

Idle == [phase |-> "idle", op |-> "start", state |-> Blank]

-----------------------------------------------------------------------------
(* The pure decisions of the graph.                                        *)

LastMessage(s) == s.messages[Len(s.messages)]
AwaitsReply(s) == s.messages # << >> /\ LastMessage(s).role = "human"

\* Mutant of Termination: one question too many is allowed.
TerminationLate(s) ==
  IF s.requested THEN "user_requested"
  ELSE IF s.late THEN "time_limit"
  ELSE IF s.asked > MaxQuestions THEN "question_limit"
  ELSE IF TopicSet \subseteq s.covered THEN "topics_covered"
  ELSE "none"

\* determine_termination
Termination(s) ==
  IF s.requested THEN "user_requested"
  ELSE IF s.late THEN "time_limit"
  ELSE IF s.asked >= MaxQuestions THEN "question_limit"
  ELSE IF TopicSet \subseteq s.covered THEN "topics_covered"
  ELSE "none"

\* _prepare: the elapsed time is refreshed; a human message that was not
\* processed before either uses up a follow-up or closes the current topic.
Prepared(s, overtime) ==
  LET timed   == [s EXCEPT !.late = overtime]
      counted == [timed EXCEPT !.processed = Len(s.messages)]
  IN  IF ~AwaitsReply(s) \/ s.processed = Len(s.messages) THEN timed
      ELSE IF s.current = NoTopic THEN counted
      ELSE IF s.followed < FollowUps THEN [counted EXCEPT !.followed = @ + 1]
      ELSE [counted EXCEPT !.covered = @ \cup {s.current},
                           !.current = NoTopic, !.followed = 0]

\* Mutant of Route: an interview that has ended is routed like any other.
RouteUnended(s) ==
  IF Termination(s) # "none" THEN "closing"
  ELSE IF s.messages = << >> \/ AwaitsReply(s) THEN "interviewer"
  ELSE "finish"

\* _route_after_prepare
Route(s) ==
  IF s.ended THEN "finish"
  ELSE IF Termination(s) # "none" THEN "closing"
  ELSE IF s.messages = << >> \/ AwaitsReply(s) THEN "interviewer"
  ELSE "finish"

\* Mutant of NextTopic: the last topic that is not covered comes first.
NextTopicLast(s) ==
  LET open == {i \in DOMAIN Topics : Topics[i] \notin s.covered}
  IN  IF s.current # NoTopic THEN s.current
      ELSE IF open = {} THEN Fallback
      ELSE Topics[CHOOSE i \in open : \A j \in open : i >= j]

\* The topic _interviewer asks about: the current one, or the first that is
\* not covered.
NextTopic(s) ==
  LET open == {i \in DOMAIN Topics : Topics[i] \notin s.covered}
  IN  IF s.current # NoTopic THEN s.current
      ELSE IF open = {} THEN Fallback
      ELSE Topics[CHOOSE i \in open : \A j \in open : i <= j]

Asked(s) ==
  LET topic == NextTopic(s) IN
  [s EXCEPT !.messages = Append(@, [role |-> "question", topic |-> topic]),
            !.current = topic, !.asked = @ + 1]

Closed(s) ==
  [s EXCEPT !.messages = Append(@, [role |-> "closing", topic |-> NoTopic]),
            !.ended = TRUE,
            !.reason = IF Termination(s) = "none" THEN "user_requested"
                       ELSE Termination(s)]

\* What the input of an operation writes into the state; add_messages keeps the
\* messages that are there.
WithInput(s, op) ==
  CASE op = "start" -> [Blank EXCEPT !.messages = s.messages]
    [] op = "respond" -> [s EXCEPT !.messages = Append(@, Human)]
    [] op = "end" -> [s EXCEPT !.requested = TRUE]
=============================================================================
