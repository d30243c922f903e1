----------------------- MODULE InterviewGraph_proofs -----------------------
(***************************************************************************)
(* Proofs about InterviewGraph for any topics, limits and number of turns  *)
(* and aborted turns.                                                      *)
(***************************************************************************)
EXTENDS InterviewGraph, TLAPS, FiniteSetTheorems, SequenceTheorems,
        WellFoundedInduction

-----------------------------------------------------------------------------
(* The inductive invariant.                                                *)

QuestionsOn(s, t) == {i \in QuestionsIn(s) : s.messages[i].topic = t}
Closings(s) == {i \in DOMAIN s.messages : s.messages[i].role = "closing"}

\* The counters say what the transcript holds.  The current topic has its first
\* question and at most one more for every follow-up that was used; a topic that
\* is neither current nor covered was never asked about.
Counted(s) ==
  /\ s.processed <= Len(s.messages)
  /\ s.asked = Cardinality(QuestionsIn(s)) /\ s.asked <= MaxQuestions
  /\ s.followed <= FollowUps
  /\ s.current \in TopicSet => Cardinality(QuestionsOn(s, s.current)) <= 1 + s.followed
  /\ \A t \in TopicSet : Cardinality(QuestionsOn(s, t)) <= 1 + FollowUps
  /\ \A i \in QuestionsIn(s) : s.messages[i].topic \in s.covered \cup {s.current}

\* The covered topics are the first ones, and the current one is the next.
InPlace(s) ==
  /\ s.covered \subseteq TopicSet /\ s.current \in TopicSet \cup {NoTopic}
  /\ \A i, j \in DOMAIN Topics :
       /\ Topics[j] \in s.covered /\ i < j => Topics[i] \in s.covered
       /\ Topics[j] = s.current => (Topics[i] \in s.covered <=> i < j)

AskedInOrder(s) ==
  /\ \A i \in QuestionsIn(s) : s.messages[i].topic \in TopicSet
  /\ \A i, j \in QuestionsIn(s), a, b \in DOMAIN Topics :
       i <= j /\ Topics[a] = s.messages[i].topic /\ Topics[b] = s.messages[j].topic
         => a <= b

\* A reason to end stays true of every later state.
ReasonHolds(s, reason, timeIsUp) ==
  /\ reason = "user_requested" => s.requested
  /\ reason = "time_limit" => timeIsUp
  /\ reason = "question_limit" => s.asked = MaxQuestions
  /\ reason = "topics_covered" => TopicSet \subseteq s.covered

EndsOnce(s, timeIsUp) ==
  /\ s.ended <=> Closings(s) # {}
  /\ \A i \in Closings(s), j \in DOMAIN s.messages : j > i => s.messages[j].role = "human"
  /\ s.ended <=> s.reason # "none"
  /\ ReasonHolds(s, s.reason, timeIsUp)
  /\ s.late => timeIsUp

Sound(s, timeIsUp) ==
  /\ s \in GraphState
  /\ Counted(s) /\ InPlace(s) /\ AskedInOrder(s) /\ EndsOnce(s, timeIsUp)

\* The state before a question: there is a reason to ask, and the current topic
\* has a question less than it may have.
MayAsk(s) ==
  /\ ~s.ended /\ Termination(s) = "none"
  /\ s.current \in TopicSet => Cardinality(QuestionsOn(s, s.current)) <= s.followed

\* The state of the invocation in progress is the one that is saved; a thread
\* without a row, and the one that is started, are empty; the input that is
\* prepared is an answer nobody has processed, a request to end, or the start.
RunInv ==
  /\ run.phase # "idle" => run.state = saved
  /\ ~exists => saved = Blank
  /\ run.phase \notin {"idle", "input"} => exists
  /\ run.phase \in {"input", "apply"} /\ run.op = "start" => saved = Blank
  /\ run.phase = "prepare" =>
       saved.messages = << >> \/ saved.requested \/ saved.processed < Len(saved.messages)
  /\ run.phase = "interviewer" => MayAsk(saved)
  /\ run.phase = "closing" => ~saved.ended /\ Termination(saved) # "none"
  /\ status = "completed" => saved.ended

IInv == TypeOK /\ Sound(saved, overtime) /\ RunInv
-----------------------------------------------------------------------------
(* Lemmas about one state of the interview.                                *)

\* A set of natural numbers has a least element, the one that CHOOSE finds.
LEMMA Least ==
  ASSUME NEW S \in SUBSET Nat, S # {}
  PROVE  /\ (CHOOSE i \in S : \A j \in S : i <= j) \in S
         /\ \A j \in S : (CHOOSE i \in S : \A k \in S : i <= k) <= j
<1>1. PICK i \in S : \A j \in S : <<j, i>> \notin OpToRel(<, Nat)
  BY WFMin, NatLessThanWellFounded
<1>2. \A j \in S : ~(j < i)
  BY <1>1 DEF OpToRel
<1>3. \A j \in S : i <= j
  BY <1>2
<1> QED
  BY <1>1, <1>3

LEMMA LastOfAppend ==
  ASSUME NEW S, NEW ms \in Seq(S), NEW m \in S
  PROVE  LET longer == Append(ms, m) IN
         /\ longer \in Seq(S) /\ Len(longer) = Len(ms) + 1
         /\ DOMAIN longer = DOMAIN ms \cup {Len(ms) + 1}
         /\ Len(ms) + 1 \notin DOMAIN ms
         /\ \A i \in DOMAIN ms : longer[i] = ms[i] /\ i \in Nat /\ i < Len(ms) + 1
         /\ longer[Len(ms) + 1] = m
  OBVIOUS

LEMMA FiniteQuestions ==
  ASSUME NEW s \in GraphState
  PROVE  /\ IsFiniteSet(QuestionsIn(s)) /\ Cardinality(QuestionsIn(s)) \in Nat
         /\ \A t : /\ IsFiniteSet(QuestionsOn(s, t))
                  /\ Cardinality(QuestionsOn(s, t)) \in Nat
<1>1. IsFiniteSet(1..Len(s.messages)) /\ DOMAIN s.messages = 1..Len(s.messages)
  BY FS_Interval DEF GraphState, StateWith
<1>2. QuestionsIn(s) \subseteq 1..Len(s.messages)
  BY <1>1 DEF QuestionsIn
<1>3. \A t : QuestionsOn(s, t) \subseteq QuestionsIn(s)
  BY DEF QuestionsOn
<1>4. IsFiniteSet(QuestionsIn(s))
  BY <1>1, <1>2, FS_Subset
<1> QED
  BY <1>3, <1>4, FS_Subset, FS_CardinalityType

\* A message that is not a question leaves the questions as they are.
LEMMA MessageAdded ==
  ASSUME NEW s \in GraphState, NEW m \in Message, m.role # "question",
         NEW n, n.messages = Append(s.messages, m)
  PROVE  /\ QuestionsIn(n) = QuestionsIn(s)
         /\ \A i \in QuestionsIn(s) : n.messages[i] = s.messages[i]
         /\ \A t : QuestionsOn(n, t) = QuestionsOn(s, t)
         /\ Closings(n) = IF m.role = "closing" THEN Closings(s) \cup {Len(s.messages) + 1}
                          ELSE Closings(s)
<1>1. s.messages \in Seq(Message)
  BY DEF GraphState, StateWith
<1>2. QuestionsIn(n) = QuestionsIn(s)
  BY <1>1, LastOfAppend DEF QuestionsIn
<1>3. \A i \in QuestionsIn(s) : n.messages[i] = s.messages[i]
  BY <1>1, LastOfAppend DEF QuestionsIn
<1>4. Closings(n) = IF m.role = "closing" THEN Closings(s) \cup {Len(s.messages) + 1}
                    ELSE Closings(s)
  BY <1>1, LastOfAppend DEF Closings
<1> QED
  BY <1>2, <1>3, <1>4 DEF QuestionsOn

\* States with the same transcript have the same questions.
LEMMA SameMessages ==
  ASSUME NEW s, NEW n, n.messages = s.messages
  PROVE  /\ QuestionsIn(n) = QuestionsIn(s) /\ Closings(n) = Closings(s)
         /\ \A t : QuestionsOn(n, t) = QuestionsOn(s, t)
  BY DEF QuestionsIn, QuestionsOn, Closings

LEMMA BlankSound ==
  ASSUME NEW timeIsUp \in BOOLEAN
  PROVE  Sound(Blank, timeIsUp)
<1>1. Blank \in GraphState
  BY DEF Blank, GraphState, StateWith, Reason
<1>2. QuestionsIn(Blank) = {} /\ Closings(Blank) = {} /\ \A t : QuestionsOn(Blank, t) = {}
  BY DEF Blank, QuestionsIn, QuestionsOn, Closings
<1>3. Counted(Blank)
  <2>1. Cardinality({}) = 0 /\ Len(<< >>) = 0
    BY FS_EmptySet
  <2>2. 0 <= MaxQuestions /\ 0 <= FollowUps /\ 0 <= 1 + FollowUps
    BY LimitsAssumption
  <2>3. /\ Blank.processed = 0 /\ Blank.messages = << >> /\ Blank.asked = 0
        /\ Blank.followed = 0 /\ Blank.current = NoTopic
    BY DEF Blank
  <2>4. /\ Cardinality(QuestionsIn(Blank)) = 0
        /\ \A t : Cardinality(QuestionsOn(Blank, t)) = 0
    BY <1>2, <2>1
  <2>5. \A t \in TopicSet : Cardinality(QuestionsOn(Blank, t)) <= 1 + FollowUps
    BY <2>2, <2>4
  <2>6. Blank.current \notin TopicSet
    BY <2>3, TopicsAssumption
  <2>7. \A i \in QuestionsIn(Blank) :
          Blank.messages[i].topic \in Blank.covered \cup {Blank.current}
    BY <1>2
  <2> QED
    BY <2>1, <2>2, <2>3, <2>4, <2>5, <2>6, <2>7 DEF Counted
<1>4. InPlace(Blank) /\ AskedInOrder(Blank)
  BY <1>2, TopicsAssumption DEF InPlace, AskedInOrder, Blank, TopicSet
<1>5. EndsOnce(Blank, timeIsUp)
  BY <1>2 DEF EndsOnce, ReasonHolds, Blank
<1> QED
  BY <1>1, <1>3, <1>4, <1>5 DEF Sound

\* An answer or a request to end is written into the state.
LEMMA InputSound ==
  ASSUME NEW s, NEW timeIsUp \in BOOLEAN, Sound(s, timeIsUp), NEW op \in {"respond", "end"}
  PROVE  /\ Sound(WithInput(s, op), timeIsUp)
         /\ WithInput(s, op).ended = s.ended
         /\ op = "respond" => WithInput(s, op).processed < Len(WithInput(s, op).messages)
         /\ op = "end" => WithInput(s, op).requested
<1> DEFINE n == WithInput(s, op)
<1>0. s \in GraphState /\ Human \in Message /\ Human.role = "human"
  BY DEF Sound, Human, Message, Role
<1>1. CASE op = "respond"
  <2>1. n = [s EXCEPT !.messages = Append(s.messages, Human)]
    BY <1>1 DEF WithInput
  <2>2. n \in GraphState
    <3>1. Append(s.messages, Human) \in Seq(Message)
      BY <1>0 DEF GraphState, StateWith
    <3> QED
      BY <1>0, <2>1, <3>1 DEF GraphState, StateWith
  <2>3. /\ n.messages = Append(s.messages, Human) /\ n.processed = s.processed
        /\ n.asked = s.asked /\ n.followed = s.followed /\ n.current = s.current
        /\ n.covered = s.covered /\ n.ended = s.ended /\ n.reason = s.reason
        /\ n.requested = s.requested /\ n.late = s.late
    BY <1>0, <2>1 DEF GraphState, StateWith
  <2> HIDE DEF n
  <2>4. /\ QuestionsIn(n) = QuestionsIn(s) /\ Closings(n) = Closings(s)
        /\ \A i \in QuestionsIn(s) : n.messages[i] = s.messages[i]
        /\ \A t : QuestionsOn(n, t) = QuestionsOn(s, t)
    <3>1. /\ Human.role # "question" /\ Human.role # "closing"
          /\ n.messages = Append(s.messages, Human)
      BY <1>0, <2>3
    <3>2. /\ QuestionsIn(n) = QuestionsIn(s)
          /\ \A i \in QuestionsIn(s) : n.messages[i] = s.messages[i]
          /\ \A t : QuestionsOn(n, t) = QuestionsOn(s, t)
      BY <1>0, <3>1, MessageAdded
    <3>3. Closings(n) = Closings(s)
      BY <1>0, <3>1, MessageAdded
    <3> QED
      BY <3>2, <3>3
  <2>5. /\ Len(n.messages) = Len(s.messages) + 1 /\ Len(s.messages) \in Nat
        /\ DOMAIN n.messages = DOMAIN s.messages \cup {Len(s.messages) + 1}
        /\ \A i \in DOMAIN s.messages : n.messages[i] = s.messages[i]
        /\ n.messages[Len(s.messages) + 1].role = "human"
    BY <1>0, <2>3, LastOfAppend DEF GraphState, StateWith
  <2>6. Counted(n) /\ n.processed < Len(n.messages)
    <3>1. s.processed \in Nat /\ s.processed <= Len(s.messages)
      BY <1>0 DEF GraphState, StateWith, Sound, Counted
    <3>2. n.processed <= Len(n.messages) /\ n.processed < Len(n.messages)
      BY <2>3, <2>5, <3>1
    <3> QED
      BY <2>3, <2>4, <3>2 DEF Sound, Counted
  <2>7. InPlace(n) /\ AskedInOrder(n)
    BY <2>3, <2>4 DEF Sound, InPlace, AskedInOrder
  <2>8. EndsOnce(n, timeIsUp)
    BY <2>3, <2>4, <2>5 DEF Sound, EndsOnce, ReasonHolds
  <2> QED
    BY <1>1, <2>2, <2>3, <2>6, <2>7, <2>8 DEF Sound, n
<1>2. CASE op = "end"
  <2>1. n = [s EXCEPT !.requested = TRUE]
    BY <1>2 DEF WithInput
  <2>2. n \in GraphState
    BY <1>0, <2>1 DEF GraphState, StateWith
  <2>3. /\ n.messages = s.messages /\ n.processed = s.processed
        /\ n.asked = s.asked /\ n.followed = s.followed /\ n.current = s.current
        /\ n.covered = s.covered /\ n.ended = s.ended /\ n.reason = s.reason
        /\ n.requested = TRUE /\ n.late = s.late
    BY <1>0, <2>1 DEF GraphState, StateWith
  <2> HIDE DEF n
  <2>4. /\ QuestionsIn(n) = QuestionsIn(s) /\ Closings(n) = Closings(s)
        /\ \A t : QuestionsOn(n, t) = QuestionsOn(s, t)
    BY <2>3, SameMessages
  <2>5. Counted(n) /\ InPlace(n) /\ AskedInOrder(n) /\ EndsOnce(n, timeIsUp)
    BY <2>3, <2>4 DEF Sound, Counted, InPlace, AskedInOrder, EndsOnce, ReasonHolds
  <2> QED
    BY <1>2, <2>2, <2>3, <2>5 DEF Sound, n
<1> QED
  BY <1>1, <1>2

\* The closing message is added once, with the reason that holds now.
LEMMA ClosedSound ==
  ASSUME NEW s, NEW timeIsUp \in BOOLEAN, Sound(s, timeIsUp),
         ~s.ended, Termination(s) # "none"
  PROVE  Sound(Closed(s), timeIsUp) /\ Closed(s).ended = TRUE
<1> DEFINE n == Closed(s)
           m == [role |-> "closing", topic |-> NoTopic]
<1>0. s \in GraphState /\ m \in Message /\ m.role = "closing"
  BY DEF Sound, Message, Role
<1>1. Termination(s) \in Reason
  BY DEF Termination, Reason
<1>2. n = [s EXCEPT !.messages = Append(s.messages, m), !.ended = TRUE,
                    !.reason = Termination(s)]
  BY DEF Closed
<1>3. Append(s.messages, m) \in Seq(Message)
  BY <1>0 DEF GraphState, StateWith
<1>4. n \in GraphState
  BY <1>0, <1>1, <1>2, <1>3 DEF GraphState, StateWith
<1>5. /\ n.messages = Append(s.messages, m) /\ n.processed = s.processed
      /\ n.asked = s.asked /\ n.followed = s.followed /\ n.current = s.current
      /\ n.covered = s.covered /\ n.ended = TRUE /\ n.reason = Termination(s)
      /\ n.requested = s.requested /\ n.late = s.late
  BY <1>0, <1>2 DEF GraphState, StateWith
<1> HIDE DEF n, m
<1>6. /\ QuestionsIn(n) = QuestionsIn(s)
      /\ Closings(n) = Closings(s) \cup {Len(s.messages) + 1}
      /\ \A i \in QuestionsIn(s) : n.messages[i] = s.messages[i]
      /\ \A t : QuestionsOn(n, t) = QuestionsOn(s, t)
  <2>1. s \in GraphState /\ m \in Message /\ m.role = "closing" /\ m.role # "question"
    BY <1>0
  <2>2. n.messages = Append(s.messages, m)
    BY <1>5
  <2>3. QuestionsIn(n) = QuestionsIn(s)
    BY <2>1, <2>2, MessageAdded
  <2>4. \A i \in QuestionsIn(s) : n.messages[i] = s.messages[i]
    BY <2>1, <2>2, MessageAdded
  <2>5. \A t : QuestionsOn(n, t) = QuestionsOn(s, t)
    BY <2>1, <2>2, MessageAdded
  <2>6. Closings(n) = Closings(s) \cup {Len(s.messages) + 1}
    BY <2>1, <2>2, MessageAdded
  <2> QED
    BY <2>3, <2>4, <2>5, <2>6
<1>7. /\ Len(n.messages) = Len(s.messages) + 1 /\ Len(s.messages) \in Nat
      /\ DOMAIN n.messages = DOMAIN s.messages \cup {Len(s.messages) + 1}
      /\ \A i \in DOMAIN s.messages : i < Len(s.messages) + 1
  BY <1>0, <1>5, LastOfAppend DEF GraphState, StateWith
<1>8. Counted(n)
  <2>1. s.processed \in Nat /\ s.processed <= Len(s.messages)
    BY <1>0 DEF GraphState, StateWith, Sound, Counted
  <2>2. n.processed <= Len(n.messages)
    BY <1>5, <1>7, <2>1
  <2> QED
    BY <1>5, <1>6, <2>2 DEF Sound, Counted
<1>9. InPlace(n) /\ AskedInOrder(n)
  BY <1>5, <1>6 DEF Sound, InPlace, AskedInOrder
<1>10. EndsOnce(n, timeIsUp)
  <2>1. Closings(n) = {Len(s.messages) + 1}
    BY <1>0, <1>6 DEF Sound, EndsOnce, GraphState, StateWith
  <2>2. \A i \in Closings(n), j \in DOMAIN n.messages : ~(j > i)
    BY <1>7, <2>1
  <2>3. s.asked >= MaxQuestions => s.asked = MaxQuestions
    BY <1>0, LimitsAssumption DEF Sound, Counted, GraphState, StateWith
  <2>4. ReasonHolds(s, Termination(s), timeIsUp)
    BY <1>0, <2>3 DEF Sound, EndsOnce, ReasonHolds, Termination, GraphState, StateWith
  <2>5. ReasonHolds(n, n.reason, timeIsUp)
    BY <1>5, <2>4 DEF ReasonHolds
  <2> QED
    BY <1>5, <2>1, <2>2, <2>5 DEF Sound, EndsOnce
<1> QED
  BY <1>4, <1>5, <1>8, <1>9, <1>10 DEF Sound, n

\* prepare keeps the state sound, and what it routes to may run.
LEMMA PreparedSound ==
  ASSUME NEW s, NEW timeIsUp \in BOOLEAN, Sound(s, timeIsUp),
         s.messages = << >> \/ s.requested \/ s.processed < Len(s.messages)
  PROVE  /\ Sound(Prepared(s, timeIsUp), timeIsUp)
         /\ Prepared(s, timeIsUp).ended = s.ended
         /\ Route(Prepared(s, timeIsUp)) \in Phase \ {"idle", "input", "apply", "prepare"}
         /\ Route(Prepared(s, timeIsUp)) = "interviewer" => MayAsk(Prepared(s, timeIsUp))
         /\ Route(Prepared(s, timeIsUp)) = "closing" =>
              /\ ~Prepared(s, timeIsUp).ended
              /\ Termination(Prepared(s, timeIsUp)) # "none"
<1> DEFINE n == Prepared(s, timeIsUp)
           skipped == ~AwaitsReply(s) \/ s.processed = Len(s.messages)
<1>0. /\ s \in GraphState /\ s.processed \in Nat /\ s.followed \in Nat
      /\ Len(s.messages) \in Nat /\ s.processed <= Len(s.messages)
      /\ FollowUps \in Nat
  BY LimitsAssumption DEF Sound, Counted, GraphState, StateWith
<1>1. CASE skipped
  <2>1. n = [s EXCEPT !.late = timeIsUp]
    BY <1>1 DEF Prepared
  <2>2. n \in GraphState
    BY <1>0, <2>1 DEF GraphState, StateWith
  <2>3. /\ n.messages = s.messages /\ n.processed = s.processed
        /\ n.asked = s.asked /\ n.followed = s.followed /\ n.current = s.current
        /\ n.covered = s.covered /\ n.ended = s.ended /\ n.reason = s.reason
        /\ n.requested = s.requested /\ n.late = timeIsUp
    BY <1>0, <2>1 DEF GraphState, StateWith
  <2> HIDE DEF n
  <2>4. /\ QuestionsIn(n) = QuestionsIn(s) /\ Closings(n) = Closings(s)
        /\ \A t : QuestionsOn(n, t) = QuestionsOn(s, t)
    BY <2>3, SameMessages
  <2>5. Counted(n) /\ InPlace(n) /\ AskedInOrder(n) /\ EndsOnce(n, timeIsUp)
    BY <2>3, <2>4 DEF Sound, Counted, InPlace, AskedInOrder, EndsOnce, ReasonHolds
  <2>6. ASSUME Route(n) = "interviewer"
        PROVE  MayAsk(n)
    <3>1. ~n.ended /\ Termination(n) = "none" /\ (n.messages = << >> \/ AwaitsReply(n))
      BY <2>6 DEF Route
    <3>2. ~n.requested
      BY <3>1 DEF Termination
    <3>3. n.messages = << >>
      BY <1>0, <1>1, <2>3, <3>1, <3>2 DEF AwaitsReply, LastMessage
    <3>4. \A t : Cardinality(QuestionsOn(n, t)) = 0
      BY <3>3, FS_EmptySet DEF QuestionsOn, QuestionsIn
    <3> QED
      BY <1>0, <2>3, <3>1, <3>4 DEF MayAsk
  <2>7. /\ Route(n) \in Phase \ {"idle", "input", "apply", "prepare"}
        /\ Route(n) = "closing" => ~n.ended /\ Termination(n) # "none"
    BY DEF Route, Phase
  <2> QED
    BY <2>2, <2>3, <2>5, <2>6, <2>7 DEF Sound, n
<1>2. CASE ~skipped /\ s.current = NoTopic
  <2>1. n = [[s EXCEPT !.late = timeIsUp] EXCEPT !.processed = Len(s.messages)]
    BY <1>2 DEF Prepared
  <2>2. n \in GraphState
    BY <1>0, <2>1 DEF GraphState, StateWith
  <2>3. /\ n.messages = s.messages /\ n.processed = Len(s.messages)
        /\ n.asked = s.asked /\ n.followed = s.followed /\ n.current = s.current
        /\ n.covered = s.covered /\ n.ended = s.ended /\ n.reason = s.reason
        /\ n.requested = s.requested /\ n.late = timeIsUp
    BY <1>0, <2>1 DEF GraphState, StateWith
  <2> HIDE DEF n
  <2>4. /\ QuestionsIn(n) = QuestionsIn(s) /\ Closings(n) = Closings(s)
        /\ \A t : QuestionsOn(n, t) = QuestionsOn(s, t)
    BY <2>3, SameMessages
  <2>5. n.processed <= Len(n.messages)
    BY <1>0, <2>3
  <2>6. Counted(n) /\ InPlace(n) /\ AskedInOrder(n) /\ EndsOnce(n, timeIsUp)
    BY <2>3, <2>4, <2>5 DEF Sound, Counted, InPlace, AskedInOrder, EndsOnce, ReasonHolds
  <2>7. /\ Route(n) \in Phase \ {"idle", "input", "apply", "prepare"}
        /\ Route(n) = "closing" => ~n.ended /\ Termination(n) # "none"
        /\ Route(n) = "interviewer" => ~n.ended /\ Termination(n) = "none"
    BY DEF Route, Phase
  <2>8. n.current \notin TopicSet
    BY <1>2, <2>3, TopicsAssumption
  <2> QED
    BY <2>2, <2>3, <2>6, <2>7, <2>8 DEF Sound, MayAsk, n
<1>3. CASE ~skipped /\ s.current # NoTopic /\ s.followed < FollowUps
  <2>1. n = [s EXCEPT !.late = timeIsUp, !.processed = Len(s.messages),
                      !.followed = s.followed + 1]
    BY <1>0, <1>3 DEF Prepared, GraphState, StateWith
  <2>2. n \in GraphState
    <3>1. s.followed + 1 \in Nat
      BY <1>0
    <3> QED
      BY <1>0, <2>1, <3>1 DEF GraphState, StateWith
  <2>3. /\ n.messages = s.messages /\ n.processed = Len(s.messages)
        /\ n.asked = s.asked /\ n.followed = s.followed + 1 /\ n.current = s.current
        /\ n.covered = s.covered /\ n.ended = s.ended /\ n.reason = s.reason
        /\ n.requested = s.requested /\ n.late = timeIsUp
    BY <1>0, <2>1 DEF GraphState, StateWith
  <2> HIDE DEF n
  <2>4. /\ QuestionsIn(n) = QuestionsIn(s) /\ Closings(n) = Closings(s)
        /\ \A t : QuestionsOn(n, t) = QuestionsOn(s, t)
    BY <2>3, SameMessages
  <2>5. s.current \in TopicSet /\ Cardinality(QuestionsOn(s, s.current)) \in Nat
    BY <1>0, <1>3, FiniteQuestions DEF Sound, InPlace
  <2>6. /\ n.processed <= Len(n.messages) /\ n.followed <= FollowUps
        /\ Cardinality(QuestionsOn(n, n.current)) <= n.followed
        /\ Cardinality(QuestionsOn(n, n.current)) <= 1 + n.followed
    BY <1>0, <1>3, <2>3, <2>4, <2>5 DEF Sound, Counted
  <2>7. Counted(n)
    BY <2>3, <2>4, <2>6 DEF Sound, Counted
  <2>8. InPlace(n) /\ AskedInOrder(n) /\ EndsOnce(n, timeIsUp)
    BY <2>3, <2>4 DEF Sound, InPlace, AskedInOrder, EndsOnce, ReasonHolds
  <2>9. /\ Route(n) \in Phase \ {"idle", "input", "apply", "prepare"}
        /\ Route(n) = "closing" => ~n.ended /\ Termination(n) # "none"
        /\ Route(n) = "interviewer" => ~n.ended /\ Termination(n) = "none"
    BY DEF Route, Phase
  <2> QED
    BY <2>2, <2>3, <2>6, <2>7, <2>8, <2>9 DEF Sound, MayAsk, n
<1>4. CASE ~skipped /\ s.current # NoTopic /\ ~(s.followed < FollowUps)
  <2> DEFINE topics == s.covered \cup {s.current}
  <2>1. n = [s EXCEPT !.late = timeIsUp, !.processed = Len(s.messages),
                      !.covered = topics, !.current = NoTopic, !.followed = 0]
    BY <1>0, <1>4 DEF Prepared, GraphState, StateWith
  <2>2. n \in GraphState
    <3>1. topics \in SUBSET (TopicSet \cup {Fallback})
      BY <1>4 DEF Sound, InPlace
    <3>2. NoTopic \in TopicSet \cup {NoTopic, Fallback} /\ 0 \in Nat
      OBVIOUS
    <3>3. /\ s \in StateWith(Message)
          /\ Len(s.messages) \in Nat
      BY <1>0 DEF GraphState
    <3> HIDE DEF topics, n
    <3> QED
      BY <2>1, <3>1, <3>2, <3>3 DEF GraphState, StateWith
  <2>3. /\ n.messages = s.messages /\ n.processed = Len(s.messages)
        /\ n.asked = s.asked /\ n.followed = 0 /\ n.current = NoTopic
        /\ n.covered = topics /\ n.ended = s.ended /\ n.reason = s.reason
        /\ n.requested = s.requested /\ n.late = timeIsUp
    BY <1>0, <2>1 DEF GraphState, StateWith
  <2> HIDE DEF n
  <2>4. /\ QuestionsIn(n) = QuestionsIn(s) /\ Closings(n) = Closings(s)
        /\ \A t : QuestionsOn(n, t) = QuestionsOn(s, t)
    BY <2>3, SameMessages
  <2>5. s.current \in TopicSet /\ n.current \notin TopicSet
    BY <1>4, <2>3, TopicsAssumption DEF Sound, InPlace
  <2>6. n.processed <= Len(n.messages) /\ n.followed <= FollowUps
    BY <1>0, <2>3
  <2>7. Counted(n)
    BY <2>3, <2>4, <2>5, <2>6 DEF Sound, Counted
  <2>8. InPlace(n)
    <3>1. n.covered \subseteq TopicSet /\ n.current \in TopicSet \cup {NoTopic}
      BY <2>3, <2>5 DEF Sound, InPlace
    <3>2. ASSUME NEW i \in DOMAIN Topics, NEW j \in DOMAIN Topics
          PROVE  /\ Topics[j] \in n.covered /\ i < j => Topics[i] \in n.covered
                 /\ Topics[j] # n.current
      BY <2>3, <2>5, <3>2 DEF Sound, InPlace, TopicSet
    <3> QED
      BY <3>1, <3>2 DEF InPlace
  <2>9. AskedInOrder(n)
    BY <2>3, <2>4 DEF Sound, AskedInOrder
  <2>10. EndsOnce(n, timeIsUp)
    BY <2>3, <2>4 DEF Sound, EndsOnce, ReasonHolds
  <2>11. /\ Route(n) \in Phase \ {"idle", "input", "apply", "prepare"}
         /\ Route(n) = "closing" => ~n.ended /\ Termination(n) # "none"
         /\ Route(n) = "interviewer" => ~n.ended /\ Termination(n) = "none"
    BY DEF Route, Phase
  <2> QED
    BY <2>2, <2>3, <2>5, <2>7, <2>8, <2>9, <2>10, <2>11 DEF Sound, MayAsk, n
<1> QED
  BY <1>1, <1>2, <1>3, <1>4


\* The topic that is asked about next follows every covered one; as the current
\* topic it is used as it stands, and as a new one it has no question yet.
LEMMA NextTopicFollows ==
  ASSUME NEW s, NEW timeIsUp \in BOOLEAN, Sound(s, timeIsUp),
         ~(TopicSet \subseteq s.covered)
  PROVE  /\ NextTopic(s) \in TopicSet
         /\ s.current \in TopicSet => NextTopic(s) = s.current
         /\ s.current \notin TopicSet => QuestionsOn(s, NextTopic(s)) = {}
         /\ \A i, j \in DOMAIN Topics :
              Topics[j] = NextTopic(s) => (Topics[i] \in s.covered <=> i < j)
<1>1. CASE s.current # NoTopic
  BY <1>1 DEF NextTopic, Sound, InPlace
<1>2. CASE s.current = NoTopic
  <2> DEFINE open == {i \in DOMAIN Topics : Topics[i] \notin s.covered}
             first == CHOOSE i \in open : \A j \in open : i <= j
  <2>1. open \in SUBSET Nat /\ open # {}
    BY TopicsAssumption DEF TopicSet
  <2>2. first \in open /\ \A j \in open : first <= j
    BY <2>1, Least
  <2>3. NextTopic(s) = Topics[first]
    BY <1>2, <2>1 DEF NextTopic
  <2>4. first \in DOMAIN Topics /\ first \in Nat /\ Topics[first] \notin s.covered
    BY <2>1, <2>2
  <2>5. \A i \in DOMAIN Topics : i < first => Topics[i] \in s.covered
    BY <2>2, <2>4, TopicsAssumption
  <2> HIDE DEF first, open
  <2>6. NextTopic(s) \in TopicSet /\ s.current \notin TopicSet
    BY <1>2, <2>3, <2>4, TopicsAssumption DEF TopicSet
  <2>7. QuestionsOn(s, NextTopic(s)) = {}
    BY <1>2, <2>3, <2>4, <2>6 DEF QuestionsOn, Sound, Counted
  <2>8. ASSUME NEW i \in DOMAIN Topics, NEW j \in DOMAIN Topics, Topics[j] = NextTopic(s)
        PROVE  Topics[i] \in s.covered <=> i < j
    <3>1. j = first
      BY <2>3, <2>4, <2>8, TopicsAssumption
    <3>2. ASSUME Topics[i] \in s.covered
          PROVE  i < j
      <4>1. i # j /\ i \in Nat /\ j \in Nat
        BY <2>4, <3>1, <3>2, TopicsAssumption
      <4>2. ~(j < i)
        BY <2>4, <3>1, <3>2, TopicsAssumption DEF Sound, InPlace
      <4> QED
        BY <4>1, <4>2
    <3> QED
      BY <2>5, <3>1, <3>2
  <2> QED
    BY <2>6, <2>7, <2>8
<1> QED
  BY <1>1, <1>2

LEMMA QuestionAdded ==
  ASSUME NEW s \in GraphState, NEW q \in Message, q.role = "question",
         NEW n, n.messages = Append(s.messages, q)
  PROVE  /\ QuestionsIn(n) = QuestionsIn(s) \cup {Len(s.messages) + 1}
         /\ Cardinality(QuestionsIn(n)) = Cardinality(QuestionsIn(s)) + 1
         /\ Cardinality(QuestionsOn(n, q.topic)) = Cardinality(QuestionsOn(s, q.topic)) + 1
         /\ \A t : t # q.topic => QuestionsOn(n, t) = QuestionsOn(s, t)
         /\ Closings(n) = Closings(s)
<1> DEFINE k == Len(s.messages) + 1
<1>1. /\ DOMAIN n.messages = DOMAIN s.messages \cup {k} /\ k \notin DOMAIN s.messages
      /\ \A i \in DOMAIN s.messages : n.messages[i] = s.messages[i]
      /\ n.messages[k] = q
  BY LastOfAppend DEF GraphState, StateWith
<1> HIDE DEF k
<1>2. QuestionsIn(n) = QuestionsIn(s) \cup {k} /\ k \notin QuestionsIn(s)
  BY <1>1 DEF QuestionsIn
<1>3. /\ QuestionsOn(n, q.topic) = QuestionsOn(s, q.topic) \cup {k}
      /\ k \notin QuestionsOn(s, q.topic)
  BY <1>1, <1>2 DEF QuestionsOn, QuestionsIn
<1>4. \A t : t # q.topic => QuestionsOn(n, t) = QuestionsOn(s, t)
  BY <1>1, <1>2 DEF QuestionsOn, QuestionsIn
<1>5. Closings(n) = Closings(s)
  BY <1>1 DEF Closings
<1>6. /\ Cardinality(QuestionsIn(n)) = Cardinality(QuestionsIn(s)) + 1
      /\ Cardinality(QuestionsOn(n, q.topic)) = Cardinality(QuestionsOn(s, q.topic)) + 1
  BY <1>2, <1>3, FiniteQuestions, FS_AddElement
<1> QED
  BY <1>2, <1>4, <1>5, <1>6 DEF k

\* A question that may be asked keeps the budgets and the order of the topics.
LEMMA AskedSound ==
  ASSUME NEW s, NEW timeIsUp \in BOOLEAN, Sound(s, timeIsUp), MayAsk(s)
  PROVE  Sound(Asked(s), timeIsUp) /\ Asked(s).ended = s.ended
<1> DEFINE n == Asked(s)
           topic == NextTopic(s)
           q == [role |-> "question", topic |-> NextTopic(s)]
           k == Len(s.messages) + 1
<1>0. /\ s \in GraphState /\ s.asked \in Nat /\ s.processed \in Nat /\ s.followed \in Nat
      /\ Len(s.messages) \in Nat /\ FollowUps \in Nat /\ MaxQuestions \in Nat
      /\ DOMAIN s.messages = 1..Len(s.messages)
  <2>1. FollowUps \in Nat /\ MaxQuestions \in Nat
    BY LimitsAssumption
  <2> QED
    BY <2>1 DEF Sound, GraphState, StateWith
<1>1. ~s.ended /\ s.asked < MaxQuestions /\ ~(TopicSet \subseteq s.covered)
  BY <1>0 DEF MayAsk, Termination
<1>2. /\ topic \in TopicSet
      /\ s.current \in TopicSet => topic = s.current
      /\ s.current \notin TopicSet => QuestionsOn(s, topic) = {}
      /\ \A i, j \in DOMAIN Topics :
           Topics[j] = topic => (Topics[i] \in s.covered <=> i < j)
  BY <1>1, NextTopicFollows
<1>3. q \in Message /\ q.role = "question" /\ q.topic = topic
  BY <1>2 DEF Message, Role
<1>4. n = [s EXCEPT !.messages = Append(s.messages, q), !.current = topic,
                    !.asked = s.asked + 1]
  BY <1>0 DEF Asked, GraphState, StateWith
<1> HIDE DEF n, topic, q
<1>5. n \in GraphState
  <2>1. Append(s.messages, q) \in Seq(Message) /\ s.asked + 1 \in Nat
    BY <1>0, <1>3 DEF GraphState, StateWith
  <2> QED
    BY <1>0, <1>2, <1>4, <2>1 DEF GraphState, StateWith
<1>6. /\ n.messages = Append(s.messages, q) /\ n.processed = s.processed
      /\ n.asked = s.asked + 1 /\ n.followed = s.followed /\ n.current = topic
      /\ n.covered = s.covered /\ n.ended = s.ended /\ n.reason = s.reason
      /\ n.requested = s.requested /\ n.late = s.late
  BY <1>0, <1>4 DEF GraphState, StateWith
<1>7. /\ Len(n.messages) = k /\ n.messages[k] = q /\ k \notin DOMAIN s.messages
      /\ DOMAIN n.messages = DOMAIN s.messages \cup {k}
      /\ \A i \in DOMAIN s.messages : n.messages[i] = s.messages[i] /\ i < k
  BY <1>0, <1>3, <1>6, LastOfAppend DEF GraphState, StateWith
<1>8. /\ QuestionsIn(n) = QuestionsIn(s) \cup {k}
      /\ Cardinality(QuestionsIn(n)) = Cardinality(QuestionsIn(s)) + 1
      /\ Cardinality(QuestionsOn(n, topic)) = Cardinality(QuestionsOn(s, topic)) + 1
      /\ \A t : t # topic => QuestionsOn(n, t) = QuestionsOn(s, t)
      /\ Closings(n) = Closings(s)
  BY <1>0, <1>3, <1>6, QuestionAdded
<1>9. QuestionsIn(s) \subseteq DOMAIN s.messages
  BY DEF QuestionsIn
<1>10. \A i \in QuestionsIn(s) :
         /\ s.messages[i].topic \in TopicSet
         /\ s.messages[i].topic \in s.covered \/ s.messages[i].topic = topic
  BY <1>2 DEF Sound, Counted, AskedInOrder
<1>11. Counted(n)
  <2>1. Cardinality(QuestionsOn(s, topic)) <= s.followed
    <3>1. CASE s.current \in TopicSet
      BY <1>2, <3>1 DEF MayAsk
    <3>2. CASE s.current \notin TopicSet
      <4>1. Cardinality(QuestionsOn(s, topic)) = 0
        BY <1>2, <3>2, FS_EmptySet
      <4> QED
        BY <1>0, <4>1
    <3> QED
      BY <3>1, <3>2
  <2>2. Cardinality(QuestionsOn(s, topic)) \in Nat /\ s.followed <= FollowUps
    BY <1>0, FiniteQuestions DEF Sound, Counted
  <2>3. Cardinality(QuestionsOn(n, topic)) <= 1 + s.followed
    BY <1>0, <1>8, <2>1, <2>2
  <2>4. Cardinality(QuestionsOn(n, topic)) <= 1 + FollowUps
    BY <1>0, <1>8, <2>1, <2>2
  <2>5. \A t \in TopicSet : Cardinality(QuestionsOn(n, t)) <= 1 + FollowUps
    BY <1>8, <2>4 DEF Sound, Counted
  <2>6. s.processed <= Len(s.messages) /\ s.asked = Cardinality(QuestionsIn(s))
    BY DEF Sound, Counted
  <2>7. n.processed <= Len(n.messages)
    BY <1>0, <1>6, <1>7, <2>6
  <2>8. n.asked = Cardinality(QuestionsIn(n)) /\ n.asked <= MaxQuestions
    BY <1>0, <1>1, <1>6, <1>8, <2>6
  <2>9. \A i \in QuestionsIn(n) : n.messages[i].topic \in n.covered \cup {n.current}
    BY <1>3, <1>6, <1>7, <1>8, <1>9, <1>10
  <2> QED
    BY <1>6, <2>2, <2>3, <2>5, <2>7, <2>8, <2>9 DEF Counted
<1>12. InPlace(n)
  BY <1>2, <1>6 DEF Sound, InPlace
<1>13. AskedInOrder(n)
  <2>1. \A i \in QuestionsIn(n) : n.messages[i].topic \in TopicSet
    BY <1>2, <1>3, <1>7, <1>8, <1>9, <1>10
  <2>2. ASSUME NEW i \in QuestionsIn(n), NEW j \in QuestionsIn(n),
               NEW a \in DOMAIN Topics, NEW b \in DOMAIN Topics, i <= j,
               Topics[a] = n.messages[i].topic, Topics[b] = n.messages[j].topic
        PROVE  a <= b
    <3>1. a \in Nat /\ b \in Nat
      BY TopicsAssumption
    <3>2. CASE i \in QuestionsIn(s) /\ j \in QuestionsIn(s)
      BY <1>7, <1>9, <2>2, <3>2 DEF Sound, AskedInOrder
    <3>3. CASE i \in QuestionsIn(s) /\ j = k
      <4>1. Topics[b] = topic /\ (Topics[a] \in s.covered \/ Topics[a] = topic)
        BY <1>3, <1>7, <1>9, <1>10, <2>2, <3>3
      <4>2. a < b \/ a = b
        BY <1>2, <4>1, TopicsAssumption
      <4> QED
        BY <3>1, <4>2
    <3>4. CASE i = k
      <4>1. j = k
        BY <1>0, <1>7, <1>8, <1>9, <2>2, <3>4
      <4> QED
        BY <2>2, <3>1, <3>4, <4>1, TopicsAssumption
    <3> QED
      BY <1>8, <3>2, <3>3, <3>4
  <2> QED
    BY <2>1, <2>2 DEF AskedInOrder
<1>14. EndsOnce(n, timeIsUp)
  <2>1. Closings(n) = {} /\ s.reason = "none"
    BY <1>1, <1>8 DEF Sound, EndsOnce
  <2> QED
    BY <1>1, <1>6, <2>1 DEF Sound, EndsOnce, ReasonHolds
<1> QED
  BY <1>5, <1>6, <1>11, <1>12, <1>13, <1>14 DEF Sound, n

-----------------------------------------------------------------------------
(* Every step keeps the invariant.                                         *)

LEMMA IdleType == Idle \in [phase : Phase, op : Operation, state : GraphState]
  BY BlankSound DEF Idle, Phase, Operation, Sound

LEMMA Initial == ASSUME Init PROVE IInv
<1>1. Sound(saved, overtime)
  BY BlankSound DEF Init
<1>2. TypeOK
  <2>1. saved \in GraphState /\ overtime \in BOOLEAN
    BY <1>1 DEF Init, Sound
  <2>2. run \in [phase : Phase, op : Operation, state : GraphState]
    BY IdleType DEF Init
  <2>3. aborts \in 0..MaxAborts
    BY BoundsAssumption DEF Init
  <2> QED
    BY <2>1, <2>2, <2>3 DEF Init, TypeOK
<1>3. RunInv
  BY DEF Init, RunInv, Idle
<1> QED
  BY <1>1, <1>2, <1>3 DEF IInv

\* Time that passes only adds a reason to end.
LEMMA TimeSound ==
  ASSUME NEW s, Sound(s, FALSE)
  PROVE  Sound(s, TRUE)
  BY DEF Sound, EndsOnce, ReasonHolds

LEMMA Invariance == ASSUME IInv, [Next]_vars PROVE IInv'
<1> DEFINE Row == [phase : Phase, op : Operation, state : GraphState]
<1>0. /\ TypeOK /\ RunInv /\ Sound(saved, overtime) /\ run \in Row /\ saved \in GraphState
      /\ status \in {"ready", "in_progress", "paused", "completed"} /\ exists \in BOOLEAN
      /\ overtime \in BOOLEAN /\ aborts \in 0..MaxAborts
  BY DEF IInv, TypeOK
<1>1. CASE UNCHANGED vars
  BY <1>1 DEF vars, IInv, TypeOK, RunInv
<1>2. CASE StartTurn
  <2>1. /\ saved' = saved /\ overtime' = overtime /\ exists' = exists /\ aborts' = aborts
        /\ status' = Started /\ run.phase = "idle"
    BY <1>2 DEF StartTurn
  <2>2. run' = run \/ (run' = [phase |-> "input", op |-> "start", state |-> saved] /\ ~exists)
    BY <1>0, <1>2 DEF StartTurn
  <2>3. run' \in Row
    BY <1>0, <2>2 DEF Phase, Operation
  <2>4. status' \in {"in_progress", "completed"} /\ (status' = "completed" => status = "completed")
    BY <2>1 DEF Started
  <2>5. TypeOK'
    BY <1>0, <2>1, <2>3, <2>4 DEF TypeOK
  <2>6. RunInv'
    BY <1>0, <2>1, <2>2, <2>4 DEF RunInv
  <2> QED
    BY <1>0, <2>1, <2>5, <2>6 DEF IInv
<1>3. CASE RespondTurn \/ EndTurn
  <2>1. /\ saved' = saved /\ overtime' = overtime /\ exists' = exists /\ aborts' = aborts
        /\ status' \in {Started, status} /\ run.phase = "idle"
    BY <1>3 DEF RespondTurn, EndTurn
  <2>2. \E op \in {"respond", "end"} :
          run' = [phase |-> "input", op |-> op, state |-> saved]
    BY <1>3 DEF RespondTurn, EndTurn
  <2>3. run' \in Row
    BY <1>0, <2>2 DEF Phase, Operation
  <2>4. /\ status' \in {"ready", "in_progress", "paused", "completed"}
        /\ status' = "completed" => status = "completed"
    BY <1>0, <2>1 DEF Started
  <2>5. TypeOK'
    BY <1>0, <2>1, <2>3, <2>4 DEF TypeOK
  <2>6. RunInv'
    BY <1>0, <2>1, <2>2, <2>4 DEF RunInv
  <2> QED
    BY <1>0, <2>1, <2>5, <2>6 DEF IInv
<1>4. CASE SaveInput
  <2>1. /\ saved' = saved /\ overtime' = overtime /\ exists' = TRUE /\ aborts' = aborts
        /\ status' = status /\ run.phase = "input" /\ run' = [run EXCEPT !.phase = "apply"]
    BY <1>4 DEF SaveInput
  <2>2. run' \in Row /\ run'.phase = "apply" /\ run'.op = run.op /\ run'.state = run.state
    BY <1>0, <2>1 DEF Phase
  <2> QED
    BY <1>0, <2>1, <2>2 DEF IInv, TypeOK, RunInv
<1>5. ASSUME NEW phase \in Phase \ {"idle", "input", "apply"}, NEW s, Checkpoint(phase, s),
             Sound(s, overtime), run.phase \notin {"idle", "input"}, saved.ended => s.ended,
             phase = "prepare" =>
               s.messages = << >> \/ s.requested \/ s.processed < Len(s.messages),
             phase = "interviewer" => MayAsk(s),
             phase = "closing" => ~s.ended /\ Termination(s) # "none"
      PROVE  IInv'
  <2>1. /\ saved' = s /\ overtime' = overtime /\ exists' = exists /\ aborts' = aborts
        /\ status' = status /\ run' = [run EXCEPT !.phase = phase, !.state = s]
    BY <1>5 DEF Checkpoint
  <2>2. s \in GraphState
    BY <1>5 DEF Sound
  <2>3. run' \in Row /\ run'.phase = phase /\ run'.state = s
    BY <1>0, <1>5, <2>1, <2>2
  <2>4. exists = TRUE
    BY <1>0, <1>5 DEF RunInv
  <2>5. TypeOK'
    BY <1>0, <2>1, <2>2, <2>3 DEF TypeOK
  <2>6. RunInv'
    BY <1>0, <1>5, <2>1, <2>3, <2>4 DEF RunInv
  <2> QED
    BY <1>5, <2>1, <2>5, <2>6 DEF IInv
<1>6. CASE ApplyInput
  <2> DEFINE s == WithInput(saved, run.op)
  <2>1. run.phase = "apply" /\ run.state = saved /\ Checkpoint("prepare", s)
    BY <1>0, <1>6 DEF ApplyInput, RunInv
  <2>2. CASE run.op = "start"
    <3>1. saved = Blank
      BY <1>0, <2>1, <2>2 DEF RunInv
    <3>2. s = Blank /\ s.messages = << >>
      BY <2>2, <3>1 DEF WithInput, Blank
    <3> QED
      BY <1>0, <1>5, <2>1, <3>1, <3>2 DEF Phase
  <2>3. CASE run.op # "start"
    <3>1. run.op \in {"respond", "end"}
      BY <1>0, <2>3 DEF Operation
    <3>2. /\ Sound(s, overtime) /\ s.ended = saved.ended
          /\ s.requested \/ s.processed < Len(s.messages)
      BY <1>0, <3>1, InputSound
    <3> HIDE DEF s
    <3> QED
      BY <1>5, <2>1, <3>2 DEF Phase
  <2> QED
    BY <2>2, <2>3
<1>7. CASE Prepare
  <2> DEFINE s == Prepared(saved, overtime)
  <2>1. run.phase = "prepare" /\ run.state = saved /\ Checkpoint(Route(s), s)
    BY <1>0, <1>7 DEF Prepare, RunInv
  <2>2. saved.messages = << >> \/ saved.requested \/ saved.processed < Len(saved.messages)
    BY <1>0, <2>1 DEF RunInv
  <2>3. /\ Sound(s, overtime) /\ s.ended = saved.ended
        /\ Route(s) \in Phase \ {"idle", "input", "apply", "prepare"}
        /\ Route(s) = "interviewer" => MayAsk(s)
        /\ Route(s) = "closing" => ~s.ended /\ Termination(s) # "none"
    BY <1>0, <2>2, PreparedSound
  <2> HIDE DEF s
  <2> QED
    BY <1>5, <2>1, <2>3
<1>8. CASE Interviewer
  <2>1. /\ run.phase = "interviewer" /\ run.state = saved /\ MayAsk(saved)
        /\ Checkpoint("finish", Asked(saved))
    BY <1>0, <1>8 DEF Interviewer, RunInv
  <2>2. Sound(Asked(saved), overtime) /\ Asked(saved).ended = saved.ended
    BY <1>0, <2>1, AskedSound
  <2> QED
    BY <1>5, <2>1, <2>2 DEF Phase
<1>9. CASE Closing
  <2>1. /\ run.phase = "closing" /\ run.state = saved
        /\ ~saved.ended /\ Termination(saved) # "none"
        /\ Checkpoint("finish", Closed(saved))
    BY <1>0, <1>9 DEF Closing, RunInv
  <2>2. Sound(Closed(saved), overtime) /\ Closed(saved).ended = TRUE
    BY <1>0, <2>1, ClosedSound
  <2> QED
    BY <1>5, <2>1, <2>2 DEF Phase
<1>10. CASE CompleteIfEnded \/ Abort
  <2>1. /\ saved' = saved /\ overtime' = overtime /\ exists' = exists /\ run' = Idle
        /\ status' = status \/ (saved.ended /\ status' = "completed")
    BY <1>10 DEF CompleteIfEnded, Abort
  <2>2. aborts' \in 0..MaxAborts
    BY <1>0, <1>10, BoundsAssumption DEF CompleteIfEnded, Abort
  <2>3. run' \in Row /\ run'.phase = "idle"
    BY <2>1, IdleType DEF Idle
  <2>4. TypeOK'
    BY <1>0, <2>1, <2>2, <2>3 DEF TypeOK
  <2>5. RunInv'
    BY <1>0, <2>1, <2>3 DEF RunInv
  <2> QED
    BY <1>0, <2>1, <2>4, <2>5 DEF IInv
<1>11. CASE Pause \/ Resume
  <2>1. /\ saved' = saved /\ overtime' = overtime /\ exists' = exists /\ run' = run
        /\ aborts' = aborts /\ status' \in {Started, "paused"}
    BY <1>11 DEF Pause, Resume
  <2>2. /\ status' \in {"ready", "in_progress", "paused", "completed"}
        /\ status' = "completed" => status = "completed"
    BY <2>1 DEF Started
  <2> QED
    BY <1>0, <2>1, <2>2 DEF IInv, TypeOK, RunInv
<1>12. CASE TimePasses
  <2>1. /\ saved' = saved /\ overtime' = TRUE /\ overtime = FALSE /\ exists' = exists
        /\ run' = run /\ aborts' = aborts /\ status' = status
    BY <1>0, <1>12 DEF TimePasses
  <2>2. Sound(saved, TRUE)
    BY <1>0, <2>1, TimeSound
  <2> QED
    BY <1>0, <2>1, <2>2 DEF IInv, TypeOK, RunInv
<1> QED
  BY <1>1, <1>2, <1>3, <1>4, <1>6, <1>7, <1>8, <1>9, <1>10, <1>11, <1>12
     DEF Next, RunStep

LEMMA Inductive == Spec => []IInv
<1>1. Init => IInv
  BY Initial
<1>2. IInv /\ [Next]_vars => IInv'
  BY Invariance
<1> QED
  BY <1>1, <1>2, PTL DEF Spec

-----------------------------------------------------------------------------
(* The theorems.                                                           *)

\* The state of the interview, the invocation in progress and the status of the
\* attempt are well typed in every reachable state (InterviewState, mark_started,
\* mark_paused, mark_ended).
THEOREM TypeCorrect == Spec => []TypeOK
<1>1. IInv => TypeOK
  BY DEF IInv
<1> QED
  BY <1>1, Inductive, PTL

\* The stored transcript never has more questions than the limit, nor more of a
\* topic than its first and its follow-ups, whichever turns were cut short
\* (_prepare, _interviewer, determine_termination).
THEOREM BudgetsCorrect == Spec => []Budgets
<1>1. IInv => Budgets
  BY DEF IInv, Sound, Counted, Budgets, QuestionBudget, TopicBudget, QuestionsOn
<1> QED
  BY <1>1, Inductive, PTL

\* Questions go through the configured topics in order and never reach for the
\* fallback topic (_interviewer).
THEOREM OrderCorrect == Spec => []TopicsInOrder
<1>1. ASSUME IInv PROVE TopicsInOrder
  <2> DEFINE at(i) == CHOOSE k \in DOMAIN Topics : Topics[k] = saved.messages[i].topic
  <2>1. \A i \in QuestionsIn(saved) : saved.messages[i].topic \in TopicSet
    BY <1>1 DEF IInv, Sound, AskedInOrder
  <2>2. \A i \in QuestionsIn(saved) :
          at(i) \in DOMAIN Topics /\ Topics[at(i)] = saved.messages[i].topic
    BY <2>1 DEF TopicSet
  <2> HIDE DEF at
  <2>3. \A i, j \in QuestionsIn(saved) : i <= j => at(i) <= at(j)
    BY <1>1, <2>2 DEF IInv, Sound, AskedInOrder
  <2> QED
    BY <2>1, <2>3 DEF TopicsInOrder, at
<1> QED
  BY <1>1, Inductive, PTL

\* The closing message comes once, with a reason that the state justifies, and
\* only its answer may follow it; an attempt is completed only when it is stored
\* (_closing, _complete_if_ended).
THEOREM ClosingCorrect == Spec => []ClosingIsFinal
<1>1. IInv => ClosingIsFinal
  BY DEF IInv, Sound, EndsOnce, ReasonHolds, RunInv, ClosingIsFinal, Closings
<1> QED
  BY <1>1, Inductive, PTL
=============================================================================
