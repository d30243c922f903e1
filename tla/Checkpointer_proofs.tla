------------------------- MODULE Checkpointer_proofs -------------------------
(***************************************************************************)
(* Proofs about Checkpointer, for any number of connections, turns and     *)
(* aborts and any topics: what the rows of one thread promise when turns   *)
(* overlap, and what they implement when none do.                          *)
(***************************************************************************)
EXTENDS Checkpointer, FiniteSetTheorems, SequenceTheorems, WellFoundedInduction, TLAPS

-----------------------------------------------------------------------------
(* A table and the transcript it holds.                                    *)

RowOf(m, i) == [sequence |-> i - 1, message |-> m[i]]
RowsOf(m) == {RowOf(m, i) : i \in 1..Len(m)}

\* The first k rows are k rows.
LEMMA CountRows ==
  ASSUME NEW m \in Seq(Stored), NEW k \in 0..Len(m)
  PROVE  LET S == {RowOf(m, i) : i \in 1..k} IN IsFiniteSet(S) /\ Cardinality(S) = k
<1> DEFINE S == {RowOf(m, i) : i \in 1..k}
           f == [i \in 1..k |-> RowOf(m, i)]
<1>1. k \in Nat /\ IsFiniteSet(1..k) /\ Cardinality(1..k) = k
  <2>1. k \in Nat
    OBVIOUS
  <2> QED
    BY <2>1, FS_Interval
<1>2. f \in Surjection(1..k, S)
  BY DEF Surjection
<1>3. f \in Injection(1..k, S)
  <2>1. ASSUME NEW i \in 1..k, NEW j \in 1..k, f[i] = f[j] PROVE i = j
    <3>1. RowOf(m, i).sequence = RowOf(m, j).sequence
      BY <2>1
    <3> QED
      BY <1>1, <3>1 DEF RowOf
  <2>2. f \in [1..k -> S]
    OBVIOUS
  <2> HIDE DEF f
  <2> QED
    BY <2>1, <2>2 DEF Injection, IsInjective
<1>4. f \in Bijection(1..k, S)
  BY <1>2, <1>3 DEF Bijection
<1>5. ExistsBijection(1..k, S)
  BY <1>4 DEF ExistsBijection
<1> QED
  BY <1>1, <1>5, FS_Bijection

\* The order of the sequence numbers is that of the transcript.
LEMMA InOrderOfRows ==
  ASSUME NEW m \in Seq(Stored)
  PROVE  /\ InOrder(RowsOf(m)) = m
         /\ Cardinality(RowsOf(m)) = Len(m)
         /\ {r.sequence : r \in RowsOf(m)} = 0..(Len(m) - 1)
<1> DEFINE Before(r) == Cardinality({q \in RowsOf(m) : q.sequence < r.sequence})
<1>1. Len(m) \in Nat /\ DOMAIN m = 1..Len(m)
  BY LenProperties
<1>2. Cardinality(RowsOf(m)) = Len(m)
  <2>1. Len(m) \in 0..Len(m)
    BY <1>1
  <2> QED
    BY <2>1, CountRows DEF RowsOf
<1>3. \A i \in 1..Len(m) : Before(RowOf(m, i)) = i - 1
  <2>1. SUFFICES ASSUME NEW i \in 1..Len(m) PROVE Before(RowOf(m, i)) = i - 1
    OBVIOUS
  <2>2. {q \in RowsOf(m) : q.sequence < RowOf(m, i).sequence} = {RowOf(m, j) : j \in 1..(i - 1)}
    BY <1>1 DEF RowsOf, RowOf
  <2>3. i - 1 \in 0..Len(m)
    BY <1>1
  <2> QED
    BY <2>2, <2>3, CountRows
<1>4. \A i \in 1..Len(m) : (CHOOSE r \in RowsOf(m) : Before(r) = i - 1) = RowOf(m, i)
  <2>1. SUFFICES ASSUME NEW i \in 1..Len(m)
                 PROVE  (CHOOSE r \in RowsOf(m) : Before(r) = i - 1) = RowOf(m, i)
    OBVIOUS
  <2>2. RowOf(m, i) \in RowsOf(m) /\ Before(RowOf(m, i)) = i - 1
    BY <1>3 DEF RowsOf
  <2>3. ASSUME NEW r \in RowsOf(m), Before(r) = i - 1 PROVE r = RowOf(m, i)
    <3>1. PICK j \in 1..Len(m) : r = RowOf(m, j)
      BY DEF RowsOf
    <3>2. j - 1 = i - 1
      BY <1>3, <2>3, <3>1
    <3> QED
      BY <1>1, <3>1, <3>2
  <2> HIDE DEF Before
  <2> QED
    BY <2>2, <2>3
<1>5. InOrder(RowsOf(m)) =
        [i \in 1..Len(m) |-> (CHOOSE r \in RowsOf(m) : Before(r) = i - 1).message]
  BY <1>2 DEF InOrder
<1>6. InOrder(RowsOf(m)) = [i \in 1..Len(m) |-> m[i]]
  <2> HIDE DEF Before
  <2>1. \A i \in 1..Len(m) : (CHOOSE r \in RowsOf(m) : Before(r) = i - 1).message = m[i]
    <3>1. \A i \in 1..Len(m) : RowOf(m, i).message = m[i]
      BY DEF RowOf
    <3> HIDE DEF RowOf
    <3> QED
      BY <1>4, <3>1
  <2> QED
    BY <1>5, <2>1
<1>7. [i \in 1..Len(m) |-> m[i]] = m
  BY <1>1
<1>8. {r.sequence : r \in RowsOf(m)} = 0..(Len(m) - 1)
  <2>1. ASSUME NEW n \in 0..(Len(m) - 1) PROVE \E r \in RowsOf(m) : r.sequence = n
    <3>1. n + 1 \in 1..Len(m) /\ RowOf(m, n + 1).sequence = n
      BY <1>1 DEF RowOf
    <3> QED
      BY <3>1 DEF RowsOf
  <2>2. ASSUME NEW r \in RowsOf(m) PROVE r.sequence \in 0..(Len(m) - 1)
    <3>1. PICK i \in 1..Len(m) : r = RowOf(m, i)
      BY DEF RowsOf
    <3> QED
      BY <1>1, <3>1 DEF RowOf
  <2> QED
    BY <2>1, <2>2
<1> QED
  BY <1>2, <1>6, <1>7, <1>8

LEMMA EmptyTable == RowsOf(<< >>) = {} /\ InOrder({}) = << >>
<1>1. << >> \in Seq(Stored) /\ Len(<< >>) = 0
  BY EmptySeq
<1>2. RowsOf(<< >>) = {}
  BY <1>1 DEF RowsOf
<1> QED
  BY <1>1, <1>2, InOrderOfRows

-----------------------------------------------------------------------------
(* The steps of a turn, on messages with identifiers.                      *)

\* The identifier the next message gets.
New(m) == [id |-> ids.message + 1, role |-> m.role, topic |-> m.topic]
Question(s) == [role |-> "question", topic |-> NextTopic(s)]
Goodbye == [role |-> "closing", topic |-> NoTopic]

\* A set of natural numbers has a least element, the one that CHOOSE finds.
LEMMA Least ==
  ASSUME NEW S \in SUBSET Nat, S # {}
  PROVE  (CHOOSE i \in S : \A j \in S : i <= j) \in S
<1>1. PICK i \in S : \A j \in S : <<j, i>> \notin OpToRel(<, Nat)
  BY WFMin, NatLessThanWellFounded
<1>2. \A j \in S : ~(j < i)
  BY <1>1 DEF OpToRel
<1>3. \A j \in S : i <= j
  BY <1>2
<1> QED
  BY <1>1, <1>3

LEMMA TopicType ==
  ASSUME NEW s \in State
  PROVE  NextTopic(s) \in TopicSet \cup {NoTopic, Fallback}
<1> DEFINE open == {i \in DOMAIN Topics : Topics[i] \notin s.covered}
           first == CHOOSE i \in open : \A j \in open : i <= j
<1>1. Topics \in Seq(TopicSet) /\ DOMAIN Topics = 1..Len(Topics)
  BY TopicsAssumption, LenProperties
<1>2. CASE s.current # NoTopic
  BY <1>2 DEF NextTopic, State, StateWith
<1>3. CASE s.current = NoTopic /\ open = {}
  BY <1>3 DEF NextTopic
<1>4. CASE s.current = NoTopic /\ open # {}
  <2>1. open \in SUBSET Nat
    BY <1>1
  <2>2. first \in open
    BY <1>4, <2>1, Least
  <2>3. Topics[first] \in TopicSet
    BY <1>1, <2>2
  <2>4. NextTopic(s) = Topics[first]
    BY <1>4 DEF NextTopic
  <2> QED
    BY <2>3, <2>4
<1> QED
  BY <1>2, <1>3, <1>4

LEMMA MessageTypes ==
  ASSUME NEW s \in State
  PROVE  Human \in Message /\ Question(s) \in Message /\ Goodbye \in Message
BY TopicType DEF Human, Question, Goodbye, Message, Role

LEMMA NewType ==
  ASSUME NEW m \in Message, ids.message \in Nat
  PROVE  New(m) \in Stored /\ New(m).id = ids.message + 1 /\ New(m).role = m.role
BY DEF New, Message, Stored

\* A message that has an identifier keeps it, one that has none gets the next.
LEMMA NamedStays == ASSUME NEW s \in State PROVE Named(s) = s
<1> DEFINE ms == s.messages
           named == [i \in DOMAIN ms |->
                       IF "id" \in DOMAIN ms[i] THEN ms[i]
                       ELSE [id |-> ids.message + 1, role |-> ms[i].role, topic |-> ms[i].topic]]
<1>1. ms \in Seq(Stored)
  BY DEF State, StateWith
<1>2. \A i \in DOMAIN ms : "id" \in DOMAIN ms[i]
  <2>1. \A i \in DOMAIN ms : ms[i] \in Stored
    BY <1>1, ElementOfSeq, LenProperties
  <2> HIDE DEF ms
  <2> QED
    BY <2>1 DEF Stored
<1>3. named = [i \in DOMAIN ms |-> ms[i]]
  BY <1>2
<1>4. [i \in DOMAIN ms |-> ms[i]] = ms
  BY <1>1
<1>5. Named(s) = [s EXCEPT !.messages = named]
  BY DEF Named
<1>6. [s EXCEPT !.messages = ms] = s
  BY DEF State, StateWith
<1> QED
  BY <1>3, <1>4, <1>5, <1>6

LEMMA NamedAppended ==
  ASSUME NEW s \in State, NEW m \in Message, NEW t \in StateWith(Stored \cup Message),
         t.messages = Append(s.messages, m), ids.message \in Nat
  PROVE  /\ Named(t) = [t EXCEPT !.messages = Append(s.messages, New(m))]
         /\ Named(t) \in State
         /\ Named(t).messages = Append(s.messages, New(m))
<1> DEFINE ms == t.messages
           longer == Append(s.messages, New(m))
           named == [i \in DOMAIN ms |->
                       IF "id" \in DOMAIN ms[i] THEN ms[i]
                       ELSE [id |-> ids.message + 1, role |-> ms[i].role, topic |-> ms[i].topic]]
<1>1. s.messages \in Seq(Stored)
  BY DEF State, StateWith
<1>2. s.messages \in Seq(Stored \cup Message)
  BY <1>1
<1>3. Len(s.messages) \in Nat
  BY <1>1, LenProperties
<1>4. /\ Len(ms) = Len(s.messages) + 1 /\ ms[Len(s.messages) + 1] = m
      /\ \A i \in 1..Len(s.messages) : ms[i] = s.messages[i]
      /\ ms \in Seq(Stored \cup Message)
  BY <1>2, AppendProperties
<1>5. /\ longer \in Seq(Stored) /\ Len(longer) = Len(s.messages) + 1
      /\ longer[Len(s.messages) + 1] = New(m)
      /\ \A i \in 1..Len(s.messages) : longer[i] = s.messages[i]
  BY <1>1, NewType, AppendProperties
<1>6. "id" \notin DOMAIN m
  BY DEF Message
<1>7. \A i \in 1..Len(s.messages) : "id" \in DOMAIN s.messages[i]
  <2>1. \A i \in 1..Len(s.messages) : s.messages[i] \in Stored
    BY <1>1, ElementOfSeq
  <2> QED
    BY <2>1 DEF Stored
<1>8. DOMAIN ms = 1..Len(s.messages) + 1 /\ DOMAIN longer = 1..Len(s.messages) + 1
  BY <1>4, <1>5, LenProperties
<1>9. \A i \in DOMAIN ms : named[i] = longer[i]
  <2>1. SUFFICES ASSUME NEW i \in DOMAIN ms PROVE named[i] = longer[i]
    OBVIOUS
  <2>2. CASE i = Len(s.messages) + 1
    BY <1>4, <1>5, <1>6, <2>2 DEF New
  <2>3. CASE i \in 1..Len(s.messages)
    BY <1>4, <1>5, <1>7, <2>3
  <2> QED
    BY <1>3, <1>8, <2>2, <2>3
<1>10. longer = [i \in DOMAIN ms |-> longer[i]]
  BY <1>5, <1>8
<1>11. named = longer
  <2> HIDE DEF longer, ms
  <2> QED
    BY <1>9, <1>10
<1>12. Named(t) = [t EXCEPT !.messages = longer]
  BY <1>11 DEF Named
<1>13. [t EXCEPT !.messages = longer] \in State
  BY <1>5 DEF State, StateWith
<1>14. [t EXCEPT !.messages = longer].messages = longer
  BY DEF StateWith
<1> QED
  BY <1>12, <1>13, <1>14

LEMMA Widened ==
  ASSUME NEW s \in State, NEW m \in Message
  PROVE  /\ s \in StateWith(Stored \cup Message)
         /\ Append(s.messages, m) \in Seq(Stored \cup Message)
<1>1. s.messages \in Seq(Stored)
  BY DEF State, StateWith
<1>2. s.messages \in Seq(Stored \cup Message)
  BY <1>1
<1> QED
  BY <1>2 DEF State, StateWith

\* What each step of a turn makes of the transcript it works on.
LEMMA InputStep ==
  ASSUME NEW s \in State, NEW op \in Operation, ids.message \in Nat
  PROVE  LET n == Named(WithInput(s, op)) IN
         /\ n \in State
         /\ op = "respond" => /\ n.messages = Append(s.messages, New(Human))
                              /\ n = [s EXCEPT !.messages = Append(s.messages, New(Human))]
         /\ op = "start" => n.messages = s.messages /\ n = [Blank EXCEPT !.messages = s.messages]
         /\ op = "end" => n.messages = s.messages /\ n = [s EXCEPT !.requested = TRUE]
<1> DEFINE t == WithInput(s, op)
<1>1. CASE op = "respond"
  <2>1. t = [s EXCEPT !.messages = Append(s.messages, Human)]
    BY <1>1 DEF WithInput
  <2>2. t \in StateWith(Stored \cup Message) /\ t.messages = Append(s.messages, Human)
    BY <2>1, Widened, MessageTypes DEF StateWith
  <2>3. [t EXCEPT !.messages = Append(s.messages, New(Human))]
          = [s EXCEPT !.messages = Append(s.messages, New(Human))]
    BY <2>1 DEF State, StateWith
  <2> HIDE DEF t
  <2> QED
    BY <1>1, <2>2, <2>3, NamedAppended, MessageTypes DEF t
<1>2. CASE op = "start"
  <2>1. t = [Blank EXCEPT !.messages = s.messages]
    BY <1>2 DEF WithInput
  <2>2. t \in State /\ t.messages = s.messages
    <3>1. s.messages \in Seq(Stored)
      BY DEF State, StateWith
    <3>2. t = [messages |-> s.messages, covered |-> {}, current |-> NoTopic, asked |-> 0,
               followed |-> 0, late |-> FALSE, requested |-> FALSE, ended |-> FALSE,
               reason |-> "none", processed |-> 0]
      BY <2>1 DEF Blank
    <3> HIDE DEF t
    <3> QED
      BY <3>1, <3>2 DEF State, StateWith, Reason
  <2> HIDE DEF t
  <2> QED
    BY <1>2, <2>1, <2>2, NamedStays DEF t
<1>3. CASE op = "end"
  <2>1. t = [s EXCEPT !.requested = TRUE]
    BY <1>3 DEF WithInput
  <2>2. t \in State /\ t.messages = s.messages
    BY <2>1 DEF State, StateWith
  <2> HIDE DEF t
  <2> QED
    BY <1>3, <2>1, <2>2, NamedStays DEF t
<1> QED
  BY <1>1, <1>2, <1>3 DEF Operation

LEMMA PreparedStep ==
  ASSUME NEW s \in State, NEW timeIsUp \in BOOLEAN
  PROVE  /\ Prepared(s, timeIsUp) \in State
         /\ Prepared(s, timeIsUp).messages = s.messages
         /\ Route(Prepared(s, timeIsUp)) \in {"finish", "closing", "interviewer"}
         /\ Route(Prepared(s, timeIsUp)) = "interviewer" =>
              s.messages = << >> \/ AwaitsReply(s)
<1> DEFINE n == Prepared(s, timeIsUp)
<1>1. Len(s.messages) \in Nat /\ s.followed + 1 \in Nat
  BY LenProperties DEF State, StateWith
<1>2. \/ n = [s EXCEPT !.late = timeIsUp]
      \/ n = [s EXCEPT !.late = timeIsUp, !.processed = Len(s.messages)]
      \/ n = [s EXCEPT !.late = timeIsUp, !.processed = Len(s.messages),
                       !.followed = s.followed + 1]
      \/ n = [s EXCEPT !.late = timeIsUp, !.processed = Len(s.messages),
                       !.covered = s.covered \cup {s.current}, !.current = NoTopic,
                       !.followed = 0] /\ s.current # NoTopic
  BY DEF Prepared, State, StateWith
<1> HIDE DEF n
<1>3. s.current # NoTopic => s.covered \cup {s.current} \in SUBSET (TopicSet \cup {Fallback})
  BY DEF State, StateWith
<1>4. n \in State /\ n.messages = s.messages
  <2>1. CASE n = [s EXCEPT !.late = timeIsUp]
    BY <2>1 DEF State, StateWith
  <2>2. CASE n = [s EXCEPT !.late = timeIsUp, !.processed = Len(s.messages)]
    BY <1>1, <2>2 DEF State, StateWith
  <2>3. CASE n = [s EXCEPT !.late = timeIsUp, !.processed = Len(s.messages),
                           !.followed = s.followed + 1]
    BY <1>1, <2>3 DEF State, StateWith
  <2>4. CASE n = [s EXCEPT !.late = timeIsUp, !.processed = Len(s.messages),
                           !.covered = s.covered \cup {s.current}, !.current = NoTopic,
                           !.followed = 0] /\ s.current # NoTopic
    <3>1. s.covered \cup {s.current} \in SUBSET (TopicSet \cup {Fallback})
      BY <1>3, <2>4
    <3> QED
      BY <1>1, <2>4, <3>1 DEF State, StateWith
  <2> QED
    BY <1>2, <2>1, <2>2, <2>3, <2>4
<1>5. Route(n) \in {"finish", "closing", "interviewer"}
  BY DEF Route
<1>6. Route(n) = "interviewer" => s.messages = << >> \/ AwaitsReply(s)
  BY <1>4 DEF Route, AwaitsReply, LastMessage
<1> QED
  BY <1>4, <1>5, <1>6 DEF n

LEMMA AskedStep ==
  ASSUME NEW s \in State, ids.message \in Nat
  PROVE  LET n == Named(Asked(s)) IN
         /\ n \in State /\ n.messages = Append(s.messages, New(Question(s)))
         /\ n = [s EXCEPT !.messages = Append(s.messages, New(Question(s))),
                          !.current = NextTopic(s), !.asked = s.asked + 1]
<1> DEFINE t == Asked(s)
           longer == Append(s.messages, New(Question(s)))
<1>1. t = [s EXCEPT !.messages = Append(s.messages, Question(s)),
                    !.current = NextTopic(s), !.asked = s.asked + 1]
  BY DEF Asked, Question, State, StateWith
<1>2. s.asked + 1 \in Nat
  BY DEF State, StateWith
<1>3. t \in StateWith(Stored \cup Message) /\ t.messages = Append(s.messages, Question(s))
  <2>1. Question(s) \in Message /\ NextTopic(s) \in TopicSet \cup {NoTopic, Fallback}
    BY MessageTypes, TopicType
  <2>2. /\ s \in StateWith(Stored \cup Message)
        /\ Append(s.messages, Question(s)) \in Seq(Stored \cup Message)
    BY <2>1, Widened
  <2> HIDE DEF t
  <2> QED
    BY <1>1, <1>2, <2>1, <2>2 DEF StateWith
<1>4. [t EXCEPT !.messages = longer]
        = [s EXCEPT !.messages = longer, !.current = NextTopic(s), !.asked = s.asked + 1]
  BY <1>1 DEF State, StateWith
<1> HIDE DEF t
<1> QED
  BY <1>3, <1>4, NamedAppended, MessageTypes DEF t

LEMMA ClosedStep ==
  ASSUME NEW s \in State, ids.message \in Nat
  PROVE  LET n == Named(Closed(s))
             reason == IF Termination(s) = "none" THEN "user_requested" ELSE Termination(s)
         IN
         /\ n \in State /\ n.messages = Append(s.messages, New(Goodbye))
         /\ n = [s EXCEPT !.messages = Append(s.messages, New(Goodbye)),
                          !.ended = TRUE, !.reason = reason]
<1> DEFINE t == Closed(s)
           longer == Append(s.messages, New(Goodbye))
           reason == IF Termination(s) = "none" THEN "user_requested" ELSE Termination(s)
<1>1. t = [s EXCEPT !.messages = Append(s.messages, Goodbye), !.ended = TRUE, !.reason = reason]
  BY DEF Closed, Goodbye, State, StateWith
<1>2. reason \in Reason
  BY DEF Termination, Reason
<1> HIDE DEF reason
<1>3. t \in StateWith(Stored \cup Message) /\ t.messages = Append(s.messages, Goodbye)
  BY <1>1, <1>2, Widened, MessageTypes DEF StateWith
<1>4. [t EXCEPT !.messages = longer]
        = [s EXCEPT !.messages = longer, !.ended = TRUE, !.reason = reason]
  BY <1>1 DEF State, StateWith
<1> HIDE DEF t
<1> QED
  BY <1>3, <1>4, NamedAppended, MessageTypes DEF t, reason

-----------------------------------------------------------------------------
(* What an upsert makes of the rows.                                       *)

\* One transcript goes on from another; identifiers are those handed out.
Continues(l, m) == Len(m) <= Len(l) /\ \A i \in 1..Len(m) : l[i] = m[i]
Identified(m) ==
  /\ \A i \in 1..Len(m) : m[i].id <= ids.message
  /\ \A i, j \in 1..Len(m) : m[i].id = m[j].id => i = j

\* The messages of a turn that is not behind leave the rows as they are.
LEMMA UpsertedPrefix ==
  ASSUME NEW l \in Seq(Stored), rows = RowsOf(l), Identified(l),
         NEW m \in Seq(Stored), Continues(l, m)
  PROVE  Upserted(m) = rows
<1>1. DOMAIN m = 1..Len(m) /\ Len(m) \in Nat /\ Len(l) \in Nat
  BY LenProperties
<1>2. {[sequence |-> i - 1, message |-> m[i]] : i \in DOMAIN m} = {RowOf(l, i) : i \in 1..Len(m)}
  BY <1>1 DEF Continues, RowOf
<1>3. {r \in rows : \A i \in DOMAIN m : m[i].id # r.message.id}
        = {RowOf(l, j) : j \in Len(m) + 1..Len(l)}
  <2>1. ASSUME NEW r \in rows, \A i \in DOMAIN m : m[i].id # r.message.id
        PROVE  \E j \in Len(m) + 1..Len(l) : r = RowOf(l, j)
    <3>1. PICK j \in 1..Len(l) : r = RowOf(l, j)
      BY DEF RowsOf
    <3>2. r.message = l[j]
      BY <3>1 DEF RowOf
    <3>3. j \notin 1..Len(m)
      BY <1>1, <2>1, <3>2 DEF Continues
    <3> QED
      BY <1>1, <3>1, <3>3
  <2>2. ASSUME NEW j \in Len(m) + 1..Len(l)
        PROVE  RowOf(l, j) \in rows /\ \A i \in DOMAIN m : m[i].id # RowOf(l, j).message.id
    <3>1. j \in 1..Len(l) /\ RowOf(l, j).message = l[j]
      BY <1>1 DEF RowOf
    <3>2. \A i \in 1..Len(m) : i \in 1..Len(l) /\ m[i] = l[i] /\ i # j
      BY <1>1 DEF Continues
    <3> QED
      BY <1>1, <3>1, <3>2 DEF RowsOf, Identified
  <2> QED
    BY <2>1, <2>2
<1>4. rows = {RowOf(l, i) : i \in 1..Len(m)} \cup {RowOf(l, j) : j \in Len(m) + 1..Len(l)}
  <2>1. 1..Len(l) = (1..Len(m)) \cup (Len(m) + 1..Len(l))
    BY <1>1 DEF Continues
  <2> QED
    BY <2>1 DEF RowsOf
<1>5. Upserted(m) = {r \in rows : \A i \in DOMAIN m : m[i].id # r.message.id}
                      \cup {[sequence |-> i - 1, message |-> m[i]] : i \in DOMAIN m}
  BY DEF Upserted
<1> QED
  BY <1>2, <1>3, <1>4, <1>5

\* A turn that is up to date adds its message at the end.
LEMMA UpsertedLonger ==
  ASSUME NEW l \in Seq(Stored), rows = RowsOf(l), NEW new \in Stored
  PROVE  Upserted(Append(l, new)) = RowsOf(Append(l, new))
<1> DEFINE m == Append(l, new)
<1>1. /\ DOMAIN m = 1..Len(m) /\ Len(l) \in Nat /\ Len(m) = Len(l) + 1
      /\ \A i \in 1..Len(l) : m[i] = l[i]
  BY LenProperties, AppendProperties
<1> HIDE DEF m
<1>2. {[sequence |-> i - 1, message |-> m[i]] : i \in DOMAIN m} = RowsOf(m)
  BY <1>1 DEF RowsOf, RowOf
<1>3. {r \in rows : \A i \in DOMAIN m : m[i].id # r.message.id} = {}
  <2>1. SUFFICES ASSUME NEW r \in rows PROVE \E i \in DOMAIN m : m[i].id = r.message.id
    OBVIOUS
  <2>2. PICK i \in 1..Len(l) : r = RowOf(l, i)
    BY DEF RowsOf
  <2>3. r.message = m[i] /\ i \in DOMAIN m
    BY <1>1, <2>2 DEF RowOf
  <2> QED
    BY <2>3
<1>4. Upserted(m) = {r \in rows : \A i \in DOMAIN m : m[i].id # r.message.id}
                      \cup {[sequence |-> i - 1, message |-> m[i]] : i \in DOMAIN m}
  BY DEF Upserted
<1> QED
  BY <1>2, <1>3, <1>4 DEF m

\* A turn that another one has overtaken cannot add its message.
LEMMA UpsertedFork ==
  ASSUME NEW l \in Seq(Stored), rows = RowsOf(l), Identified(l), ids.message \in Nat,
         NEW m \in Seq(Stored), Continues(l, m), Len(m) # Len(l),
         NEW new \in Stored, new.id = ids.message + 1
  PROVE  ~Acceptable(Upserted(Append(m, new)))
<1> DEFINE n == Append(m, new)
           k == Len(m) + 1
<1>1. Len(m) \in Nat /\ Len(l) \in Nat /\ k \in 1..Len(l)
  BY LenProperties DEF Continues
<1>2. /\ DOMAIN n = 1..k /\ n[k] = new /\ \A i \in 1..Len(m) : n[i] = m[i]
  BY LenProperties, AppendProperties
<1>3. l[k].id <= ids.message /\ l[k] \in Stored
  BY <1>1, ElementOfSeq DEF Identified
<1> HIDE DEF n
<1>4. RowOf(l, k) \in rows
  BY <1>1 DEF RowsOf
<1>5. \A i \in 1..k : n[i].id # l[k].id
  <2>1. n[k].id # l[k].id
    BY <1>2, <1>3 DEF Stored
  <2>2. ASSUME NEW i \in 1..Len(m) PROVE n[i].id # l[k].id
    <3>1. i \in 1..Len(l) /\ n[i] = l[i] /\ i # k
      BY <1>1, <1>2 DEF Continues
    <3> QED
      BY <1>1, <3>1 DEF Identified
  <2>3. \A i \in 1..k : i = k \/ i \in 1..Len(m)
    BY <1>1
  <2> QED
    BY <2>1, <2>2, <2>3
<1>6. RowOf(l, k) \in Upserted(n)
  <2>1. RowOf(l, k).message = l[k]
    BY DEF RowOf
  <2> QED
    BY <1>2, <1>4, <1>5, <2>1 DEF Upserted
<1>7. RowOf(n, k) \in Upserted(n)
  <2>1. k \in DOMAIN n
    BY <1>1, <1>2
  <2> QED
    BY <2>1 DEF Upserted, RowOf
<1>8. RowOf(l, k).sequence = RowOf(n, k).sequence /\ RowOf(l, k) # RowOf(n, k)
  <2>1. k \in 1..k
    BY <1>1
  <2>2. n[k] # l[k]
    BY <1>5, <2>1
  <2> QED
    BY <2>2 DEF RowOf
<1> QED
  BY <1>6, <1>7, <1>8 DEF Acceptable, n

LEMMA RowsAcceptable ==
  ASSUME NEW l \in Seq(Stored), status # "deleted"
  PROVE  Acceptable(RowsOf(l))
<1>1. Len(l) \in Nat
  BY LenProperties
<1>2. ASSUME NEW i \in 1..Len(l), NEW j \in 1..Len(l),
             RowOf(l, i).sequence = RowOf(l, j).sequence
      PROVE  RowOf(l, i) = RowOf(l, j)
  <2>1. i = j
    BY <1>1, <1>2 DEF RowOf
  <2> QED
    BY <2>1
<1> QED
  BY <1>2 DEF Acceptable, RowsOf

-----------------------------------------------------------------------------
(* The inductive invariant.                                                *)

\* The rows hold one transcript, and a thread without a state row holds none.
Transcribed ==
  /\ Ordered \in Seq(Stored) /\ rows = RowsOf(Ordered) /\ Identified(Ordered)
  /\ head = NoRow => rows = {}

\* What a turn has in memory is a beginning of the transcript: two turns may be
\* at different places of it, never on different branches.
TurnsContinue ==
  status # "deleted" =>
    \A c \in Connection :
      turn[c].phase # "idle" => Continues(Ordered, turn[c].state.messages)

MayAsk(s) == s.messages = << >> \/ AwaitsReply(s)
AsksInTurn ==
  /\ QuestionsFollowAnswers
  /\ \A c \in Connection : turn[c].phase = "interviewer" => MayAsk(turn[c].state)

\* The messages a turn may still add.
Left(phase) ==
  IF phase \in {"input", "apply"} THEN 2
  ELSE IF phase \in {"prepare", "interviewer", "closing"} THEN 1 ELSE 0

\* A turn that runs alone has in memory what a load would return, under the
\* checkpoint that is stored.
AloneCurrent ==
  ~overlapped =>
    /\ \A c, d \in Connection : turn[c].phase # "idle" /\ turn[d].phase # "idle" => c = d
    /\ status # "deleted" =>
         \A c \in Connection :
           /\ turn[c].phase # "idle" => turn[c].state = Loaded
           /\ turn[c].phase \notin {"idle", "input"} =>
                head # NoRow /\ head.id = turn[c].checkpoint
           /\ Len(Ordered) + Left(turn[c].phase) <= 2 * begun

IInv ==
  /\ TypeOK
  /\ Transcribed
  /\ TurnsContinue
  /\ AsksInTurn
  /\ AloneCurrent
  /\ WritesAreCurrent
  /\ NothingOutlivesAttempt

LEMMA LoadedIs ==
  ASSUME IInv
  PROVE  Loaded \in State /\ Loaded.messages = Ordered /\ Ordered \in Seq(Stored)
<1>1. Ordered \in Seq(Stored) /\ TypeOK
  BY DEF IInv, Transcribed
<1>2. CASE head = NoRow
  <2>1. Ordered = << >>
    BY <1>2, EmptyTable DEF IInv, Transcribed, Ordered
  <2>2. Loaded = Blank
    BY <1>2 DEF Loaded
  <2>3. Blank \in State /\ Blank.messages = << >>
    BY EmptySeq DEF Blank, State, StateWith, Reason
  <2> QED
    BY <1>1, <2>1, <2>2, <2>3
<1>3. CASE head # NoRow
  <2>1. head.values \in State
    BY <1>1, <1>3 DEF TypeOK, StateRow
  <2>2. Loaded = [head.values EXCEPT !.messages = Ordered]
    BY <1>3 DEF Loaded
  <2> QED
    BY <1>1, <2>1, <2>2 DEF State, StateWith
<1> QED
  BY <1>2, <1>3

-----------------------------------------------------------------------------
(* One call of aput.                                                       *)

\* The call raises, which takes a deletion or another turn, ...
PutFails(c) ==
  /\ UNCHANGED tables
  /\ turn' = [turn EXCEPT ![c] = Resting]
  /\ status = "deleted" \/ overlapped

\* ... or the transcript is left as it is or gets the message the turn has added.
PutStores(c, p, n) ==
  /\ status # "deleted"
  /\ n.messages # turn[c].state.messages => turn[c].state.messages = Ordered
  /\ Ordered' = IF n.messages = turn[c].state.messages THEN Ordered ELSE n.messages
  /\ Ordered' \in Seq(Stored) /\ rows' = RowsOf(Ordered')
  /\ head' = [id |-> ids.checkpoint + 1, values |-> StateJson(n)]
  /\ writes' = KeptWrites(ids.checkpoint + 1)
  /\ turn' = [turn EXCEPT ![c] = [turn[c] EXCEPT !.phase = p, !.state = n,
                                  !.checkpoint = ids.checkpoint + 1, !.written = FALSE]]

LEMMA PutOutcome ==
  ASSUME IInv, NEW c \in Connection, turn[c].phase # "idle", NEW p, NEW n \in State,
         NEW new \in Stored, new.id = ids.message + 1,
         \/ n.messages = turn[c].state.messages
         \/ n.messages = Append(turn[c].state.messages, new),
         Put(c, p, n)
  PROVE  /\ ids' = [message |-> IF n.messages = turn[c].state.messages THEN ids.message
                                ELSE ids.message + 1,
                    checkpoint |-> ids.checkpoint + 1]
         /\ PutFails(c) \/ PutStores(c, p, n)
<1> DEFINE s == turn[c].state
           l == Ordered
           id == ids.checkpoint + 1
<1>1. /\ TypeOK /\ l \in Seq(Stored) /\ rows = RowsOf(l) /\ Identified(l)
      /\ ids.message \in Nat /\ ids.checkpoint \in Nat
  BY DEF IInv, Transcribed, TypeOK
<1>2. s \in State /\ s.messages \in Seq(Stored) /\ n.messages \in Seq(Stored)
  BY <1>1 DEF TypeOK, State, StateWith
<1>3. /\ Len(s.messages) \in Nat /\ Len(Append(s.messages, new)) = Len(s.messages) + 1
      /\ Append(s.messages, new) # s.messages
  BY <1>2, LenProperties, AppendProperties
<1>4. ids' = [message |-> IF n.messages = s.messages THEN ids.message ELSE ids.message + 1,
              checkpoint |-> id]
  <2>1. ids' = [message |-> ids.message + Len(n.messages) - Len(s.messages), checkpoint |-> id]
    BY DEF Put
  <2>2. CASE n.messages = s.messages
    BY <1>1, <1>3, <2>1, <2>2
  <2>3. CASE n.messages = Append(s.messages, new)
    BY <1>1, <1>3, <2>1, <2>3
  <2> QED
    BY <2>2, <2>3
<1>5. IF Acceptable(Upserted(n.messages))
      THEN /\ rows' = Upserted(n.messages)
           /\ head' = [id |-> id, values |-> StateJson(n)]
           /\ writes' = KeptWrites(id)
           /\ turn' = [turn EXCEPT ![c] = [turn[c] EXCEPT !.phase = p, !.state = n,
                                           !.checkpoint = id, !.written = FALSE]]
      ELSE turn' = [turn EXCEPT ![c] = Resting] /\ UNCHANGED tables
  BY DEF Put
<1>7. CASE status = "deleted"
  BY <1>4, <1>5, <1>7 DEF Acceptable, PutFails
<1>8. CASE status # "deleted" /\ n.messages = s.messages
  <2>1. Upserted(n.messages) = rows
    BY <1>1, <1>2, <1>8, UpsertedPrefix DEF IInv, TurnsContinue
  <2>2. Acceptable(rows)
    BY <1>1, <1>8, RowsAcceptable
  <2>3. rows' = rows /\ Ordered' = Ordered
    BY <1>5, <2>1, <2>2 DEF Ordered
  <2> QED
    BY <1>1, <1>4, <1>5, <1>8, <2>1, <2>2, <2>3 DEF PutStores
<1>9. CASE status # "deleted" /\ n.messages = Append(s.messages, new) /\ s.messages = l
  <2>1. Upserted(n.messages) = RowsOf(n.messages)
    BY <1>1, <1>9, UpsertedLonger
  <2>2. Acceptable(RowsOf(n.messages))
    BY <1>2, <1>9, RowsAcceptable
  <2>3. rows' = RowsOf(n.messages)
    BY <1>5, <2>1, <2>2
  <2>4. Ordered' = n.messages
    BY <1>2, <2>3, InOrderOfRows DEF Ordered
  <2> QED
    BY <1>2, <1>3, <1>4, <1>5, <1>9, <2>1, <2>2, <2>3, <2>4 DEF PutStores
<1>10. CASE status # "deleted" /\ n.messages = Append(s.messages, new) /\ s.messages # l
  <2>1. Continues(l, s.messages)
    BY <1>10 DEF IInv, TurnsContinue
  <2>2. Len(s.messages) # Len(l)
    <3>1. SUFFICES ASSUME Len(s.messages) = Len(l) PROVE s.messages = l
      BY <1>10
    <3>2. /\ DOMAIN s.messages = 1..Len(l) /\ DOMAIN l = 1..Len(l)
          /\ s.messages = [i \in DOMAIN s.messages |-> s.messages[i]]
          /\ l = [i \in DOMAIN l |-> l[i]]
      BY <1>1, <1>2, <3>1, LenProperties
    <3>3. \A i \in 1..Len(l) : s.messages[i] = l[i]
      BY <2>1, <3>1 DEF Continues
    <3> HIDE DEF s, l
    <3> QED
      BY <3>2, <3>3
  <2>3. ~Acceptable(Upserted(n.messages))
    BY <1>1, <1>2, <1>10, <2>1, <2>2, UpsertedFork
  <2>4. overlapped
    <3>1. SUFFICES ASSUME ~overlapped PROVE FALSE
      OBVIOUS
    <3>2. s = Loaded
      BY <1>10, <3>1 DEF IInv, AloneCurrent
    <3> QED
      BY <1>10, <3>2, LoadedIs
  <2> QED
    BY <1>4, <1>5, <2>3, <2>4 DEF PutFails
<1> QED
  BY <1>7, <1>8, <1>9, <1>10

LEMMA RestingType ==
  /\ Resting \in [phase : Phase, op : Operation, state : State, checkpoint : Nat,
                  written : BOOLEAN]
  /\ Resting.phase = "idle" /\ Left(Resting.phase) = 0
<1>1. Blank \in State
  BY EmptySeq DEF Blank, State, StateWith, Reason
<1> QED
  BY <1>1 DEF Resting, Phase, Operation, Left

LEMMA LeftType == \A phase : Left(phase) \in 0..2
BY DEF Left

\* A turn that has come to an end, without a change of what is stored.
LEMMA EndedIInv ==
  ASSUME IInv, NEW c \in Connection, turn' = [turn EXCEPT ![c] = Resting],
         UNCHANGED tables, status' = status \/ (status' = "completed" /\ status # "deleted"),
         ids'.message \in Nat, ids'.checkpoint \in Nat, ids'.message >= ids.message,
         ids' \in [message : Nat, checkpoint : Nat], aborts' \in 0..MaxAborts,
         UNCHANGED <<overtime, begun, overlapped>>
  PROVE  IInv'
<1>1. UNCHANGED <<rows, head, writes>> /\ Ordered' = Ordered /\ Loaded' = Loaded
  BY DEF tables, Ordered, Loaded
<1>2. \A d \in Connection : turn'[d] = IF d = c THEN Resting ELSE turn[d]
  BY DEF IInv, TypeOK
<1>3. TypeOK'
  <2>1. turn' \in [Connection -> [phase : Phase, op : Operation, state : State,
                                  checkpoint : Nat, written : BOOLEAN]]
    BY RestingType DEF IInv, TypeOK
  <2> QED
    BY <1>1, <2>1 DEF IInv, TypeOK
<1>4. Transcribed'
  <2>1. Ordered \in Seq(Stored) /\ Identified(Ordered) /\ ids.message \in Nat
    BY DEF IInv, Transcribed, TypeOK
  <2>2. \A i \in 1..Len(Ordered) : Ordered[i].id \in Nat /\ Ordered[i].id <= ids.message
    <3>1. \A i \in 1..Len(Ordered) : Ordered[i] \in Stored
      BY <2>1, ElementOfSeq
    <3> QED
      BY <2>1, <3>1 DEF Identified, Stored
  <2>3. Identified(Ordered)'
    BY <1>1, <2>1, <2>2 DEF Identified
  <2> QED
    BY <1>1, <2>3 DEF IInv, Transcribed
<1>5. TurnsContinue'
  BY <1>1, <1>2, RestingType DEF IInv, TurnsContinue
<1>6. AsksInTurn'
  BY <1>1, <1>2, RestingType DEF IInv, AsksInTurn, QuestionsFollowAnswers
<1>7. AloneCurrent'
  <2>1. Len(Ordered) \in Nat /\ begun \in Nat
    BY LenProperties DEF IInv, Transcribed, TypeOK
  <2>2. \A d \in Connection : Left(turn'[d].phase) <= Left(turn[d].phase)
                               /\ Left(turn'[d].phase) \in Nat /\ Left(turn[d].phase) \in Nat
    BY <1>2, RestingType, LeftType
  <2>3. \A d \in Connection :
          Len(Ordered) + Left(turn[d].phase) <= 2 * begun
            => Len(Ordered) + Left(turn'[d].phase) <= 2 * begun
    BY <2>1, <2>2
  <2> QED
    BY <1>1, <1>2, <2>3, RestingType DEF IInv, AloneCurrent
<1>8. WritesAreCurrent' /\ NothingOutlivesAttempt'
  BY <1>1 DEF IInv, WritesAreCurrent, NothingOutlivesAttempt
<1> QED
  BY <1>3, <1>4, <1>5, <1>6, <1>7, <1>8 DEF IInv

LEMMA PutIInv ==
  ASSUME IInv, NEW c \in Connection, turn[c].phase # "idle",
         NEW p \in {"apply", "prepare", "interviewer", "closing", "finish"},
         NEW n \in State, NEW new \in Stored, new.id = ids.message + 1,
         \/ n.messages = turn[c].state.messages
         \/ n.messages = Append(turn[c].state.messages, new),
         Put(c, p, n),
         p = "interviewer" => MayAsk(n),
         n.messages # turn[c].state.messages /\ new.role = "question" => MayAsk(turn[c].state),
         n.messages = turn[c].state.messages => Left(p) <= Left(turn[c].phase),
         n.messages # turn[c].state.messages => Left(p) + 1 <= Left(turn[c].phase)
  PROVE  IInv'
<1> DEFINE s == turn[c].state
           k == ids.checkpoint + 1
<1>0. /\ TypeOK /\ Ordered \in Seq(Stored) /\ Identified(Ordered)
      /\ ids.message \in Nat /\ ids.checkpoint \in Nat /\ begun \in Nat
      /\ Len(Ordered) \in Nat
  BY LenProperties DEF IInv, Transcribed, TypeOK
<1>1. /\ ids' = [message |-> IF n.messages = s.messages THEN ids.message ELSE ids.message + 1,
                 checkpoint |-> k]
      /\ PutFails(c) \/ PutStores(c, p, n)
  BY PutOutcome
<1>2. /\ ids' \in [message : Nat, checkpoint : Nat] /\ ids'.message \in Nat
      /\ ids'.checkpoint = k /\ k \in Nat /\ ids'.message >= ids.message
      /\ n.messages # s.messages => ids'.message = ids.message + 1
  BY <1>0, <1>1
<1>3. UNCHANGED <<status, overtime, begun, aborts, overlapped>>
  BY DEF Put
<1>4. CASE PutFails(c)
  BY <1>0, <1>2, <1>3, <1>4, EndedIInv DEF PutFails, TypeOK
<1>5. CASE PutStores(c, p, n)
  <2> DEFINE t == [turn[c] EXCEPT !.phase = p, !.state = n, !.checkpoint = k, !.written = FALSE]
             l == Ordered
  <2>1. /\ turn' = [turn EXCEPT ![c] = t]
        /\ head' = [id |-> k, values |-> StateJson(n)] /\ writes' = KeptWrites(k)
        /\ rows' = RowsOf(Ordered') /\ Ordered' \in Seq(Stored) /\ status # "deleted"
        /\ Ordered' = IF n.messages = s.messages THEN l ELSE n.messages
        /\ n.messages # s.messages => s.messages = l /\ n.messages = Append(l, new)
    BY <1>5 DEF PutStores
  <2>2. /\ t \in [phase : Phase, op : Operation, state : State, checkpoint : Nat,
                  written : BOOLEAN]
        /\ t.phase = p /\ t.state = n /\ t.checkpoint = k
    <3>1. turn[c] \in [phase : Phase, op : Operation, state : State, checkpoint : Nat,
                       written : BOOLEAN]
      BY <1>0 DEF TypeOK
    <3>2. p \in Phase
      BY DEF Phase
    <3> QED
      BY <1>2, <3>1, <3>2
  <2> HIDE DEF t
  <2>3. \A d \in Connection : turn'[d] = IF d = c THEN t ELSE turn[d]
    BY <1>0, <2>1 DEF TypeOK
  <2>4. StateJson(n) \in State
    BY EmptySeq DEF StateJson, State, StateWith
  <2>5. head' \in StateRow /\ head' # NoRow
    BY <1>2, <2>1, <2>4, NoRowAssumption DEF StateRow
  <2>6. rows' \subseteq Row
    <3>1. \A i \in 1..Len(Ordered') : Ordered'[i] \in Stored
      BY <2>1, ElementOfSeq
    <3>2. Len(Ordered') \in Nat
      BY <2>1, LenProperties
    <3> QED
      BY <2>1, <3>1, <3>2 DEF RowsOf, RowOf, Row
  <2>7. TypeOK'
    <3>1. turn' \in [Connection -> [phase : Phase, op : Operation, state : State,
                                    checkpoint : Nat, written : BOOLEAN]]
      BY <1>0, <2>1, <2>2 DEF TypeOK
    <3>2. writes' \subseteq [checkpoint : Nat, task : Connection]
      BY <1>0, <2>1 DEF TypeOK, KeptWrites
    <3> QED
      BY <1>0, <1>2, <1>3, <2>5, <2>6, <3>1, <3>2 DEF TypeOK
  <2>8. /\ Continues(Ordered', l) /\ Len(Ordered') \in {Len(l), Len(l) + 1}
        /\ n.messages = s.messages => Ordered' = l
        /\ n.messages # s.messages =>
             Len(Ordered') = Len(l) + 1 /\ Ordered'[Len(l) + 1] = new
    <3>1. /\ Len(Append(l, new)) = Len(l) + 1 /\ Append(l, new)[Len(l) + 1] = new
          /\ \A i \in 1..Len(l) : Append(l, new)[i] = l[i]
      BY <1>0, AppendProperties
    <3>2. CASE n.messages = s.messages
      BY <1>0, <2>1, <3>2 DEF Continues
    <3>3. CASE n.messages # s.messages
      <4>1. Ordered' = Append(l, new)
        BY <2>1, <3>3
      <4> QED
        BY <1>0, <3>1, <3>3, <4>1 DEF Continues
    <3> QED
      BY <3>2, <3>3
  <2>9. Transcribed'
    <3>1. \A i \in 1..Len(l) : l[i].id \in Nat /\ l[i].id <= ids.message
      <4>1. \A i \in 1..Len(l) : l[i] \in Stored
        BY <1>0, ElementOfSeq
      <4> QED
        BY <1>0, <4>1 DEF Identified, Stored
    <3>2. Identified(Ordered)'
      <4>1. CASE n.messages = s.messages
        BY <1>0, <1>2, <2>8, <3>1, <4>1 DEF Identified
      <4>2. CASE n.messages # s.messages
        <5>1. /\ Len(Ordered') = Len(l) + 1 /\ Ordered'[Len(l) + 1].id = ids.message + 1
              /\ \A i \in 1..Len(l) : Ordered'[i] = l[i]
          BY <2>8, <4>2 DEF Continues
        <5>2. \A i \in 1..Len(Ordered') : i \in 1..Len(l) \/ i = Len(l) + 1
          BY <1>0, <5>1
        <5>3. ids'.message = ids.message + 1
          BY <1>2, <4>2
        <5>4. \A i \in 1..Len(l) : /\ Ordered'[i].id <= ids'.message
                                   /\ Ordered'[i].id # Ordered'[Len(l) + 1].id
          BY <1>0, <3>1, <5>1, <5>3
        <5>5. \A i, j \in 1..Len(l) : Ordered'[i].id = Ordered'[j].id => i = j
          BY <1>0, <5>1 DEF Identified
        <5>6. \A i \in 1..Len(Ordered') : Ordered'[i].id <= ids'.message
          BY <1>0, <5>1, <5>2, <5>3, <5>4
        <5>7. \A i, j \in 1..Len(Ordered') : Ordered'[i].id = Ordered'[j].id => i = j
          BY <5>2, <5>4, <5>5
        <5> QED
          BY <5>6, <5>7 DEF Identified
      <4> QED
        BY <4>1, <4>2
    <3> QED
      BY <2>1, <2>5, <3>2 DEF Transcribed
  <2>10. TurnsContinue'
    <3>1. ASSUME NEW d \in Connection, turn'[d].phase # "idle"
          PROVE  Continues(Ordered', turn'[d].state.messages)
      <4>1. Continues(l, turn[d].state.messages) \/ d = c
        BY <2>1, <2>3, <3>1 DEF IInv, TurnsContinue
      <4>2. CASE d # c
        <5>1. turn[d].state.messages \in Seq(Stored)
          BY <1>0 DEF TypeOK, State, StateWith
        <5>2. Len(turn[d].state.messages) \in Nat
          BY <5>1, LenProperties
        <5> QED
          BY <1>0, <2>3, <2>8, <4>1, <4>2, <5>2 DEF Continues
      <4>3. CASE d = c
        <5>1. n.messages = s.messages => Continues(l, n.messages)
          BY <2>1 DEF IInv, TurnsContinue
        <5>2. n.messages # s.messages => Continues(Ordered', n.messages)
          <6>1. n.messages # s.messages => Ordered' = n.messages
            BY <2>1
          <6>2. Len(Ordered') \in Nat
            BY <2>1, LenProperties
          <6> QED
            BY <6>1, <6>2 DEF Continues
        <5> QED
          BY <2>2, <2>3, <2>8, <4>3, <5>1, <5>2
      <4> QED
        BY <4>2, <4>3
    <3> QED
      BY <3>1 DEF TurnsContinue
  <2>11. AsksInTurn'
    <3>1. \A d \in Connection : turn'[d].phase = "interviewer" => MayAsk(turn'[d].state)
      BY <2>2, <2>3 DEF IInv, AsksInTurn
    <3>2. QuestionsFollowAnswers'
      <4>1. CASE n.messages = s.messages
        BY <2>8, <4>1 DEF IInv, AsksInTurn, QuestionsFollowAnswers
      <4>2. CASE n.messages # s.messages
        <5>1. s.messages = l /\ Len(Ordered') = Len(l) + 1 /\ Ordered'[Len(l) + 1] = new
              /\ \A i \in 1..Len(l) : Ordered'[i] = l[i]
          BY <2>1, <2>8, <4>2 DEF Continues
        <5>2. SUFFICES ASSUME NEW i \in 1..Len(Ordered'), Ordered'[i].role = "question", i # 1
                       PROVE  Ordered'[i - 1].role = "human"
          BY <2>1, LenProperties DEF QuestionsFollowAnswers
        <5>3. i - 1 \in 1..Len(l)
          BY <1>0, <5>1, <5>2
        <5>4. CASE i = Len(l) + 1
          <6>1. MayAsk(s)
            BY <4>2, <5>1, <5>2, <5>4
          <6>2. l # << >>
            BY <5>3, EmptySeq
          <6>3. l[Len(l)].role = "human"
            BY <5>1, <6>1, <6>2 DEF MayAsk, AwaitsReply, LastMessage
          <6> QED
            BY <1>0, <5>1, <5>3, <5>4, <6>3
        <5>5. CASE i \in 1..Len(l)
          <6>1. DOMAIN l = 1..Len(l)
            BY <1>0, LenProperties
          <6> QED
            BY <5>1, <5>2, <5>3, <5>5, <6>1 DEF IInv, AsksInTurn, QuestionsFollowAnswers
        <5> QED
          BY <1>0, <5>1, <5>4, <5>5
      <4> QED
        BY <4>1, <4>2
    <3> QED
      BY <3>1, <3>2 DEF AsksInTurn
  <2>12. AloneCurrent'
    <3>1. SUFFICES ASSUME ~overlapped PROVE AloneCurrent'
      BY <1>3 DEF AloneCurrent
    <3>2. /\ \A d \in Connection : turn[d].phase # "idle" => d = c
          /\ s = Loaded
          /\ Len(l) + Left(turn[c].phase) <= 2 * begun
      BY <2>1, <3>1 DEF IInv, AloneCurrent
    <3>3. Ordered' = n.messages
      BY <2>1, <3>2, LoadedIs
    <3>4. Loaded' = n
      <4>1. Loaded' = [StateJson(n) EXCEPT !.messages = n.messages]
        BY <2>1, <2>5, <3>3 DEF Loaded
      <4>2. [StateJson(n) EXCEPT !.messages = n.messages] = n
        BY DEF StateJson, State, StateWith
      <4> QED
        BY <4>1, <4>2
    <3>5. \A d \in Connection : d # c => turn'[d].phase = "idle"
      BY <2>3, <3>2
    <3>6. Len(Ordered') + Left(p) <= 2 * begun /\ Len(Ordered') <= 2 * begun
      <4>1. Left(p) \in Nat /\ Left(turn[c].phase) \in Nat
        BY LeftType
      <4> QED
        BY <1>0, <2>8, <3>2, <4>1
    <3>7. \A d \in Connection : Len(Ordered') + Left(turn'[d].phase) <= 2 * begun
      <4>1. Left("idle") = 0 /\ Len(Ordered') + 0 = Len(Ordered')
        BY <1>0, <2>8 DEF Left
      <4> QED
        BY <2>2, <2>3, <3>5, <3>6, <4>1
    <3>8. head'.id = k
      BY <2>1
    <3> QED
      BY <1>3, <2>2, <2>3, <2>5, <3>4, <3>5, <3>7, <3>8 DEF AloneCurrent
  <2>13. WritesAreCurrent'
    <3>1. \A w \in writes' : w.checkpoint = head'.id
      BY <2>1 DEF KeptWrites
    <3> QED
      BY <2>5, <3>1 DEF WritesAreCurrent
  <2>14. NothingOutlivesAttempt'
    BY <1>3, <2>1 DEF NothingOutlivesAttempt
  <2> QED
    BY <2>7, <2>9, <2>10, <2>11, <2>12, <2>13, <2>14 DEF IInv
<1> QED
  BY <1>1, <1>4, <1>5


-----------------------------------------------------------------------------
(* Every step preserves the invariant.                                     *)

LEMMA InitIInv == Init => IInv
<1> SUFFICES ASSUME Init PROVE IInv
  OBVIOUS
<1>1. TypeOK
  <2>1. 0 \in 0..MaxTurns /\ 0 \in 0..MaxAborts
    BY CheckpointerAssumption
  <2> QED
    BY <2>1, RestingType DEF Init, TypeOK
<1>2. Ordered = << >> /\ << >> \in Seq(Stored) /\ Len(<< >>) = 0 /\ rows = {}
  BY EmptyTable, EmptySeq DEF Init, Ordered
<1>3. Transcribed
  BY <1>2, EmptyTable DEF Transcribed, Identified
<1>4. \A c \in Connection : turn[c] = Resting
  BY DEF Init
<1>5. TurnsContinue
  BY <1>4, RestingType DEF TurnsContinue
<1>6. AsksInTurn
  <2>1. DOMAIN Ordered = {}
    BY <1>2, LenProperties
  <2> QED
    BY <1>4, <2>1, RestingType DEF AsksInTurn, QuestionsFollowAnswers
<1>7. AloneCurrent
  BY <1>2, <1>4, RestingType DEF AloneCurrent, Init
<1>8. WritesAreCurrent /\ NothingOutlivesAttempt
  BY DEF Init, WritesAreCurrent, NothingOutlivesAttempt
<1> QED
  BY <1>1, <1>3, <1>5, <1>6, <1>7, <1>8 DEF IInv

\* Steps that leave the tables and the turns alone.
LEMMA StatusIInv ==
  ASSUME IInv, UNCHANGED <<tables, turn, ids, begun, aborts, overlapped>>,
         overtime' \in BOOLEAN,
         status' \in {"ready", "in_progress", "completed", "deleted"},
         status' = "deleted" <=> status = "deleted"
  PROVE  IInv'
<1>1. UNCHANGED <<rows, head, writes>> /\ Ordered' = Ordered /\ Loaded' = Loaded
  BY DEF tables, Ordered, Loaded
<1>2. TypeOK'
  BY <1>1 DEF IInv, TypeOK
<1>3. Transcribed' /\ TurnsContinue'
  BY <1>1 DEF IInv, Transcribed, Identified, TurnsContinue
<1>4. AsksInTurn'
  BY <1>1 DEF IInv, AsksInTurn, QuestionsFollowAnswers
<1>5. AloneCurrent'
  BY <1>1 DEF IInv, AloneCurrent
<1>6. WritesAreCurrent' /\ NothingOutlivesAttempt'
  BY <1>1 DEF IInv, WritesAreCurrent, NothingOutlivesAttempt
<1> QED
  BY <1>2, <1>3, <1>4, <1>5, <1>6 DEF IInv

LEMMA BeginIInv ==
  ASSUME IInv, NEW c \in Connection, NEW op \in Operation, Begin(c, op)
  PROVE  IInv'
<1>1. /\ UNCHANGED <<tables, rows, head, writes, overtime, ids, aborts>>
      /\ Ordered' = Ordered /\ Loaded' = Loaded
  BY DEF Begin, tables, Ordered, Loaded
<1>2. /\ status' \in {"ready", "in_progress", "completed", "deleted"}
      /\ status' = "deleted" <=> status = "deleted"
  BY DEF Begin, Started, IInv, TypeOK
<1>3. CASE op = "start" /\ head # NoRow
  <2>1. UNCHANGED <<turn, begun, overlapped>>
    BY <1>3 DEF Begin
  <2> QED
    BY <1>1, <1>2, <2>1, StatusIInv DEF IInv, TypeOK
<1>4. CASE ~(op = "start" /\ head # NoRow)
  <2> DEFINE t == [Resting EXCEPT !.phase = "input", !.op = op, !.state = Loaded,
                     !.checkpoint = IF head = NoRow THEN 0 ELSE head.id]
  <2>1. /\ turn' = [turn EXCEPT ![c] = t] /\ begun' = begun + 1
        /\ overlapped' = (overlapped \/ \E d \in Connection : turn[d].phase # "idle")
        /\ begun < MaxTurns /\ turn[c].phase = "idle"
    BY <1>4 DEF Begin
  <2>2. Loaded \in State /\ Loaded.messages = Ordered /\ Ordered \in Seq(Stored)
    BY LoadedIs
  <2>3. /\ t \in [phase : Phase, op : Operation, state : State, checkpoint : Nat,
                  written : BOOLEAN]
        /\ t.phase = "input" /\ t.state = Loaded
    <3>1. (IF head = NoRow THEN 0 ELSE head.id) \in Nat
      BY DEF IInv, TypeOK, StateRow
    <3> QED
      BY <2>2, <3>1 DEF Resting, Phase
  <2> HIDE DEF t
  <2>4. \A d \in Connection : turn'[d] = IF d = c THEN t ELSE turn[d]
    BY <2>1 DEF IInv, TypeOK
  <2>5. TypeOK'
    <3>1. turn' \in [Connection -> [phase : Phase, op : Operation, state : State,
                                    checkpoint : Nat, written : BOOLEAN]]
      BY <2>1, <2>3 DEF IInv, TypeOK
    <3>2. begun' \in 0..MaxTurns /\ overlapped' \in BOOLEAN
      BY <2>1, CheckpointerAssumption DEF IInv, TypeOK
    <3> QED
      BY <1>1, <1>2, <3>1, <3>2 DEF IInv, TypeOK
  <2>6. Transcribed'
    BY <1>1 DEF IInv, Transcribed, Identified
  <2>7. TurnsContinue'
    <3>1. Continues(Ordered, Loaded.messages)
      <4>1. Len(Ordered) \in Nat
        BY <2>2, LenProperties
      <4> QED
        BY <2>2, <4>1 DEF Continues
    <3> QED
      BY <1>1, <1>2, <2>3, <2>4, <3>1 DEF IInv, TurnsContinue
  <2>8. AsksInTurn'
    BY <1>1, <2>3, <2>4 DEF IInv, AsksInTurn, QuestionsFollowAnswers
  <2>9. AloneCurrent'
    <3>1. SUFFICES ASSUME ~overlapped' PROVE AloneCurrent'
      BY DEF AloneCurrent
    <3>2. ~overlapped /\ \A d \in Connection : turn[d].phase = "idle"
      BY <2>1, <3>1
    <3>3. \A d \in Connection : d # c => turn'[d].phase = "idle"
      BY <2>4, <3>2
    <3>4. turn'[c].phase = "input" /\ turn'[c].state = Loaded
      BY <2>3, <2>4
    <3>5. status # "deleted" =>
            \A d \in Connection : Len(Ordered) + Left(turn'[d].phase) <= 2 * (begun + 1)
      <4>1. Len(Ordered) \in Nat /\ begun \in Nat
        BY <2>2, LenProperties DEF IInv, TypeOK
      <4>2. Left("idle") = 0 /\ Left("input") = 2
        BY DEF Left
      <4>3. status # "deleted" => Len(Ordered) + 0 <= 2 * begun
        BY <3>2, <4>2 DEF IInv, AloneCurrent
      <4> QED
        BY <3>3, <3>4, <4>1, <4>2, <4>3
    <3>6. /\ \A d, e \in Connection : turn'[d].phase # "idle" /\ turn'[e].phase # "idle" => d = e
          /\ \A d \in Connection : turn'[d].phase \in {"idle", "input"}
          /\ \A d \in Connection : turn'[d].phase # "idle" => turn'[d].state = Loaded
      BY <3>3, <3>4
    <3> QED
      BY <1>1, <1>2, <2>1, <3>5, <3>6 DEF AloneCurrent
  <2>10. WritesAreCurrent' /\ NothingOutlivesAttempt'
    BY <1>1, <1>2, <2>1 DEF IInv, WritesAreCurrent, NothingOutlivesAttempt, TypeOK
  <2> QED
    BY <2>5, <2>6, <2>7, <2>8, <2>9, <2>10 DEF IInv
<1> QED
  BY <1>3, <1>4

LEMMA SaveInputIInv ==
  ASSUME IInv, NEW c \in Connection, SaveInput(c)
  PROVE  IInv'
<1>1. turn[c].state \in State /\ ids.message \in Nat
  BY DEF IInv, TypeOK
<1>2. New(Human) \in Stored /\ New(Human).id = ids.message + 1
  BY <1>1, NewType, MessageTypes
<1>3. turn[c].phase = "input" /\ Put(c, "apply", turn[c].state)
  BY DEF SaveInput
<1>4. Left("apply") = 2 /\ Left("input") = 2 /\ 2 <= 2
  BY DEF Left
<1> QED
  BY <1>1, <1>2, <1>3, <1>4, PutIInv

LEMMA ApplyInputIInv ==
  ASSUME IInv, NEW c \in Connection, ApplyInput(c)
  PROVE  IInv'
<1> DEFINE s == turn[c].state
           op == turn[c].op
           n == Named(WithInput(s, op))
<1>1. s \in State /\ op \in Operation /\ ids.message \in Nat
  BY DEF IInv, TypeOK
<1>2. New(Human) \in Stored /\ New(Human).id = ids.message + 1 /\ New(Human).role = "human"
  BY <1>1, NewType, MessageTypes DEF Human
<1>3. turn[c].phase = "apply" /\ Put(c, "prepare", n)
  BY DEF ApplyInput
<1>4. n \in State /\ (n.messages = s.messages \/ n.messages = Append(s.messages, New(Human)))
  BY <1>1, InputStep DEF Operation
<1>5. Left("apply") = 2 /\ Left("prepare") = 1 /\ 1 <= 2 /\ 1 + 1 <= 2
  BY DEF Left
<1> HIDE DEF n
<1> QED
  BY <1>1, <1>2, <1>3, <1>4, <1>5, PutIInv

LEMMA PrepareIInv ==
  ASSUME IInv, NEW c \in Connection, Prepare(c)
  PROVE  IInv'
<1> DEFINE s == turn[c].state
           n == Prepared(s, overtime)
<1>1. s \in State /\ ids.message \in Nat /\ overtime \in BOOLEAN
  BY DEF IInv, TypeOK
<1>2. New(Human) \in Stored /\ New(Human).id = ids.message + 1
  BY <1>1, NewType, MessageTypes
<1>3. turn[c].phase = "prepare" /\ Put(c, Route(n), n)
  BY DEF Prepare
<1>4. /\ n \in State /\ n.messages = s.messages
      /\ Route(n) \in {"finish", "closing", "interviewer"}
      /\ Route(n) = "interviewer" => MayAsk(n)
  <2>1. /\ n \in State /\ n.messages = s.messages
        /\ Route(n) \in {"finish", "closing", "interviewer"}
        /\ Route(n) = "interviewer" => MayAsk(s)
    BY <1>1, PreparedStep DEF MayAsk
  <2> QED
    BY <2>1 DEF MayAsk, AwaitsReply, LastMessage
<1> HIDE DEF n
<1>5. Left(Route(n)) <= Left("prepare")
  <2>1. Left("prepare") = 1 /\ Left("finish") = 0 /\ Left("closing") = 1 /\ Left("interviewer") = 1
    BY DEF Left
  <2> QED
    BY <1>4, <2>1
<1> QED
  BY <1>1, <1>2, <1>3, <1>4, <1>5, PutIInv

LEMMA InterviewerIInv ==
  ASSUME IInv, NEW c \in Connection, Interviewer(c)
  PROVE  IInv'
<1> DEFINE s == turn[c].state
           n == Named(Asked(s))
           new == New(Question(s))
<1>1. s \in State /\ ids.message \in Nat
  BY DEF IInv, TypeOK
<1>2. new \in Stored /\ new.id = ids.message + 1
  BY <1>1, NewType, MessageTypes
<1>3. turn[c].phase = "interviewer" /\ Put(c, "finish", n)
  BY DEF Interviewer
<1>4. n \in State /\ n.messages = Append(s.messages, new)
  BY <1>1, AskedStep
<1>5. MayAsk(s)
  BY <1>3 DEF IInv, AsksInTurn
<1>6. Left("interviewer") = 1 /\ Left("finish") = 0 /\ 0 <= 1 /\ 0 + 1 <= 1
  BY DEF Left
<1> HIDE DEF n, new
<1> QED
  BY <1>1, <1>2, <1>3, <1>4, <1>5, <1>6, PutIInv

LEMMA ClosingIInv ==
  ASSUME IInv, NEW c \in Connection, Closing(c)
  PROVE  IInv'
<1> DEFINE s == turn[c].state
           n == Named(Closed(s))
           new == New(Goodbye)
<1>1. s \in State /\ ids.message \in Nat
  BY DEF IInv, TypeOK
<1>2. new \in Stored /\ new.id = ids.message + 1 /\ new.role = "closing"
  BY <1>1, NewType, MessageTypes DEF Goodbye
<1>3. turn[c].phase = "closing" /\ Put(c, "finish", n)
  BY DEF Closing
<1>4. n \in State /\ n.messages = Append(s.messages, new)
  BY <1>1, ClosedStep
<1>5. Left("closing") = 1 /\ Left("finish") = 0 /\ 0 <= 1 /\ 0 + 1 <= 1
  BY DEF Left
<1> HIDE DEF n, new
<1> QED
  BY <1>1, <1>2, <1>3, <1>4, <1>5, PutIInv

LEMMA PutWritesIInv ==
  ASSUME IInv, NEW c \in Connection, PutWrites(c)
  PROVE  IInv'
<1>1. /\ UNCHANGED <<status, rows, head, overtime, ids, begun, aborts, overlapped>>
      /\ Ordered' = Ordered /\ Loaded' = Loaded
      /\ turn[c].phase \in NodePhase
  BY DEF PutWrites, Ordered, Loaded
<1>2. CASE status = "deleted"
  <2>1. turn' = [turn EXCEPT ![c] = Resting] /\ UNCHANGED tables
    BY <1>1, <1>2 DEF PutWrites, tables
  <2>2. /\ ids'.message \in Nat /\ ids'.checkpoint \in Nat /\ ids'.message >= ids.message
        /\ ids' \in [message : Nat, checkpoint : Nat] /\ aborts' \in 0..MaxAborts
    BY <1>1 DEF IInv, TypeOK
  <2> QED
    BY <1>1, <2>1, <2>2, EndedIInv
<1>3. CASE status # "deleted"
  <2>1. /\ writes' = writes \cup {[checkpoint |-> turn[c].checkpoint, task |-> c]}
        /\ turn' = [turn EXCEPT ![c].written = TRUE]
    BY <1>3 DEF PutWrites
  <2>2. /\ turn' \in [Connection -> [phase : Phase, op : Operation, state : State,
                                     checkpoint : Nat, written : BOOLEAN]]
        /\ \A d \in Connection : /\ turn'[d].phase = turn[d].phase
                                 /\ turn'[d].state = turn[d].state
                                 /\ turn'[d].checkpoint = turn[d].checkpoint
    BY <2>1 DEF IInv, TypeOK
  <2>3. turn[c].checkpoint \in Nat
    BY DEF IInv, TypeOK
  <2>4. TypeOK'
    BY <1>1, <2>1, <2>2, <2>3 DEF IInv, TypeOK
  <2>5. Transcribed' /\ TurnsContinue'
    BY <1>1, <2>2 DEF IInv, Transcribed, Identified, TurnsContinue
  <2>6. AsksInTurn'
    BY <1>1, <2>2 DEF IInv, AsksInTurn, QuestionsFollowAnswers
  <2>7. AloneCurrent'
    BY <1>1, <2>2 DEF IInv, AloneCurrent
  <2>8. WritesAreCurrent'
    BY <1>1, <1>3, <2>1 DEF IInv, AloneCurrent, WritesAreCurrent, NodePhase
  <2>9. NothingOutlivesAttempt'
    BY <1>1, <1>3 DEF NothingOutlivesAttempt
  <2> QED
    BY <2>4, <2>5, <2>6, <2>7, <2>8, <2>9 DEF IInv
<1> QED
  BY <1>2, <1>3

LEMMA DeleteIInv == ASSUME IInv, Delete PROVE IInv'
<1>1. /\ rows' = {} /\ head' = NoRow /\ writes' = {} /\ status' = "deleted"
      /\ UNCHANGED <<turn, overtime, ids, begun, aborts, overlapped>>
  BY DEF Delete
<1>2. Ordered' = << >> /\ << >> \in Seq(Stored) /\ Len(<< >>) = 0
  BY <1>1, EmptyTable, EmptySeq DEF Ordered
<1>3. DOMAIN Ordered' = {}
  BY <1>2, LenProperties
<1>4. TypeOK'
  BY <1>1 DEF IInv, TypeOK
<1>5. Transcribed'
  BY <1>1, <1>2, EmptyTable DEF Transcribed, Identified
<1>6. AsksInTurn'
  BY <1>1, <1>3 DEF IInv, AsksInTurn, QuestionsFollowAnswers
<1>7. TurnsContinue' /\ AloneCurrent' /\ WritesAreCurrent' /\ NothingOutlivesAttempt'
  BY <1>1 DEF IInv, TurnsContinue, AloneCurrent, WritesAreCurrent, NothingOutlivesAttempt
<1> QED
  BY <1>4, <1>5, <1>6, <1>7 DEF IInv

LEMMA StepIInv == IInv /\ [Next]_vars => IInv'
<1> SUFFICES ASSUME IInv, [Next]_vars PROVE IInv'
  OBVIOUS
<1>1. ASSUME NEW c \in Connection, NEW op \in Operation, Begin(c, op) PROVE IInv'
  BY <1>1, BeginIInv
<1>2. ASSUME NEW c \in Connection, SaveInput(c) PROVE IInv'
  BY <1>2, SaveInputIInv
<1>3. ASSUME NEW c \in Connection, PutWrites(c) PROVE IInv'
  BY <1>3, PutWritesIInv
<1>4. ASSUME NEW c \in Connection, ApplyInput(c) PROVE IInv'
  BY <1>4, ApplyInputIInv
<1>5. ASSUME NEW c \in Connection, Prepare(c) PROVE IInv'
  BY <1>5, PrepareIInv
<1>6. ASSUME NEW c \in Connection, Interviewer(c) PROVE IInv'
  BY <1>6, InterviewerIInv
<1>7. ASSUME NEW c \in Connection, Closing(c) PROVE IInv'
  BY <1>7, ClosingIInv
<1>8. ASSUME NEW c \in Connection, CompleteIfEnded(c) PROVE IInv'
  <2>1. /\ turn' = [turn EXCEPT ![c] = Resting]
        /\ UNCHANGED <<tables, overtime, ids, begun, aborts, overlapped>>
        /\ status' = status \/ (status' = "completed" /\ status # "deleted")
    BY <1>8 DEF CompleteIfEnded
  <2>2. /\ ids'.message \in Nat /\ ids'.checkpoint \in Nat /\ ids'.message >= ids.message
        /\ ids' \in [message : Nat, checkpoint : Nat] /\ aborts' \in 0..MaxAborts
    BY <2>1 DEF IInv, TypeOK
  <2> QED
    BY <2>1, <2>2, EndedIInv
<1>9. ASSUME NEW c \in Connection, Abort(c) PROVE IInv'
  <2>1. /\ turn' = [turn EXCEPT ![c] = Resting]
        /\ UNCHANGED <<status, tables, overtime, ids, begun, overlapped>>
        /\ aborts < MaxAborts /\ aborts' = aborts + 1
    BY <1>9 DEF Abort
  <2>2. /\ ids'.message \in Nat /\ ids'.checkpoint \in Nat /\ ids'.message >= ids.message
        /\ ids' \in [message : Nat, checkpoint : Nat] /\ aborts' \in 0..MaxAborts
    BY <2>1, CheckpointerAssumption DEF IInv, TypeOK
  <2> QED
    BY <2>1, <2>2, EndedIInv
<1>10. CASE Delete
  BY <1>10, DeleteIInv
<1>11. CASE TimePasses
  <2>1. UNCHANGED <<status, tables, turn, ids, begun, aborts, overlapped>> /\ overtime'
    BY <1>11 DEF TimePasses
  <2> QED
    BY <1>11, <2>1, StatusIInv DEF IInv, TypeOK, TimePasses
<1>12. CASE UNCHANGED vars
  BY <1>12, StatusIInv DEF vars, IInv, TypeOK
<1> QED
  BY <1>1, <1>2, <1>3, <1>4, <1>5, <1>6, <1>7, <1>8, <1>9, <1>10, <1>11, <1>12 DEF Next

LEMMA Invariance == Spec => []IInv
BY InitIInv, StepIInv, PTL DEF Spec


-----------------------------------------------------------------------------
(* What readers of the tables rely on.                                     *)

\* Every row has its place in the transcript as its sequence number, and the
\* tables stay well typed and belong together.
THEOREM TablesCorrect == Spec => []TablesConsistent
<1>1. IInv => TablesConsistent
  <2> SUFFICES ASSUME IInv PROVE TablesConsistent
    OBVIOUS
  <2>1. Ordered \in Seq(Stored) /\ rows = RowsOf(Ordered)
    BY DEF IInv, Transcribed
  <2>2. SequenceIsPosition
    BY <2>1, InOrderOfRows DEF SequenceIsPosition
  <2> QED
    BY <2>2 DEF IInv, TablesConsistent
<1> QED
  BY <1>1, Invariance, PTL

\* Whatever turns overlap, fail or are cut short, a question opens the
\* transcript or follows an answer.
THEOREM QuestionsCorrect == Spec => []QuestionsFollowAnswers
<1>1. IInv => QuestionsFollowAnswers
  BY DEF IInv, AsksInTurn
<1> QED
  BY <1>1, Invariance, PTL

\* The steps that call aput, as PutOutcome wants them.
LEMMA Puts ==
  ASSUME IInv, NEW c \in Connection,
         \/ SaveInput(c) \/ ApplyInput(c) \/ Prepare(c) \/ Interviewer(c) \/ Closing(c)
  PROVE  /\ turn[c].phase # "idle"
         /\ \E p \in Phase, n \in State, new \in Stored :
              /\ new.id = ids.message + 1
              /\ \/ n.messages = turn[c].state.messages
                 \/ n.messages = Append(turn[c].state.messages, new)
              /\ Put(c, p, n)
<1> DEFINE s == turn[c].state
           Outcome(p, n, new) ==
             /\ new.id = ids.message + 1
             /\ n.messages = s.messages \/ n.messages = Append(s.messages, new)
             /\ Put(c, p, n)
<1>1. s \in State /\ turn[c].op \in Operation /\ ids.message \in Nat /\ overtime \in BOOLEAN
  BY DEF IInv, TypeOK
<1>2. \A m \in Message : New(m) \in Stored /\ New(m).id = ids.message + 1
  BY <1>1, NewType
<1>3. Human \in Message /\ Question(s) \in Message /\ Goodbye \in Message
  BY <1>1, MessageTypes
<1>4. {"apply", "prepare", "interviewer", "closing", "finish"} \subseteq Phase
  BY DEF Phase
<1>5. turn[c].phase # "idle"
  BY DEF SaveInput, ApplyInput, Prepare, Interviewer, Closing
<1>6. CASE SaveInput(c)
  <2>1. Outcome("apply", s, New(Human))
    BY <1>2, <1>3, <1>6 DEF SaveInput
  <2> QED
    BY <1>1, <1>2, <1>3, <1>4, <1>5, <2>1
<1>7. CASE ApplyInput(c)
  <2> DEFINE n == Named(WithInput(s, turn[c].op))
  <2>1. n \in State /\ (n.messages = s.messages \/ n.messages = Append(s.messages, New(Human)))
    BY <1>1, InputStep DEF Operation
  <2>2. Outcome("prepare", n, New(Human))
    BY <1>2, <1>3, <1>7, <2>1 DEF ApplyInput
  <2> HIDE DEF n
  <2> QED
    BY <1>2, <1>3, <1>4, <1>5, <2>1, <2>2
<1>8. CASE Prepare(c)
  <2> DEFINE n == Prepared(s, overtime)
  <2>1. /\ n \in State /\ n.messages = s.messages
        /\ Route(n) \in {"finish", "closing", "interviewer"}
    BY <1>1, PreparedStep
  <2>2. Outcome(Route(n), n, New(Human))
    BY <1>2, <1>3, <1>8, <2>1 DEF Prepare
  <2> HIDE DEF n
  <2> QED
    BY <1>2, <1>3, <1>4, <1>5, <2>1, <2>2
<1>9. CASE Interviewer(c)
  <2> DEFINE n == Named(Asked(s))
  <2>1. n \in State /\ n.messages = Append(s.messages, New(Question(s)))
    BY <1>1, AskedStep
  <2>2. Outcome("finish", n, New(Question(s)))
    BY <1>2, <1>3, <1>9, <2>1 DEF Interviewer
  <2> HIDE DEF n
  <2> QED
    BY <1>2, <1>3, <1>4, <1>5, <2>1, <2>2
<1>10. CASE Closing(c)
  <2> DEFINE n == Named(Closed(s))
  <2>1. n \in State /\ n.messages = Append(s.messages, New(Goodbye))
    BY <1>1, ClosedStep
  <2>2. Outcome("finish", n, New(Goodbye))
    BY <1>2, <1>3, <1>10, <2>1 DEF Closing
  <2> HIDE DEF n
  <2> QED
    BY <1>2, <1>3, <1>4, <1>5, <2>1, <2>2
<1> QED
  BY <1>6, <1>7, <1>8, <1>9, <1>10

\* One step on the transcript: nothing, a message at its end, or all of it.
LEMMA OneAtATime ==
  ASSUME IInv, [Next]_vars
  PROVE  \/ Ordered' = Ordered /\ (status' = "deleted" <=> status = "deleted")
         \/ /\ status # "deleted" /\ status' # "deleted"
            /\ \E new \in Stored : Ordered' = Append(Ordered, new)
         \/ Delete
<1> DEFINE Same == Ordered' = Ordered /\ (status' = "deleted" <=> status = "deleted")
<1>1. ASSUME UNCHANGED rows, status' = "deleted" <=> status = "deleted" PROVE Same
  BY <1>1 DEF Ordered
<1>2. ASSUME NEW c \in Connection, NEW op \in Operation, Begin(c, op) PROVE Same
  BY <1>1, <1>2 DEF Begin, tables, Started
<1>3. ASSUME NEW c \in Connection, PutWrites(c) PROVE Same
  BY <1>1, <1>3 DEF PutWrites
<1>4. ASSUME NEW c \in Connection, CompleteIfEnded(c) PROVE Same
  BY <1>1, <1>4 DEF CompleteIfEnded, tables
<1>5. ASSUME NEW c \in Connection, Abort(c) PROVE Same
  BY <1>1, <1>5 DEF Abort, tables
<1>6. CASE TimePasses \/ UNCHANGED vars
  BY <1>1, <1>6 DEF TimePasses, tables, vars
<1>7. ASSUME NEW c \in Connection,
             \/ SaveInput(c) \/ ApplyInput(c) \/ Prepare(c) \/ Interviewer(c) \/ Closing(c)
      PROVE  \/ Same
             \/ /\ status # "deleted" /\ status' # "deleted"
                /\ \E new \in Stored : Ordered' = Append(Ordered, new)
  <2>1. turn[c].phase # "idle"
    BY <1>7, Puts
  <2>2. PICK p \in Phase, n \in State, new \in Stored :
          /\ new.id = ids.message + 1
          /\ \/ n.messages = turn[c].state.messages
             \/ n.messages = Append(turn[c].state.messages, new)
          /\ Put(c, p, n)
    BY <1>7, Puts
  <2>3. status' = status
    BY <2>2 DEF Put
  <2>4. CASE PutFails(c)
    BY <1>1, <2>3, <2>4 DEF PutFails, tables
  <2>5. CASE PutStores(c, p, n)
    <3>1. CASE n.messages = turn[c].state.messages
      BY <2>3, <2>5, <3>1 DEF PutStores
    <3>2. CASE n.messages # turn[c].state.messages
      BY <2>2, <2>3, <2>5, <3>2 DEF PutStores
    <3> QED
      BY <3>1, <3>2
  <2> QED
    BY <2>1, <2>2, <2>4, <2>5, PutOutcome
<1> QED
  BY <1>2, <1>3, <1>4, <1>5, <1>6, <1>7 DEF Next

\* The rows of a thread implement the abstract transcript, step by step: nothing
\* that two overlapping turns do to them shows.
THEOREM TranscriptRefined == Spec => ImplementsTranscript
<1>1. Init => Log!Init
  BY EmptyTable DEF Init, Log!Init, Ordered
<1>2. IInv /\ [Next]_vars => [Log!Next]_(Log!vars)
  <2>1. SUFFICES ASSUME IInv, [Next]_vars PROVE [Log!Next]_(Log!vars)
    OBVIOUS
  <2>2. Ordered \in Seq(Stored)
    BY <2>1 DEF IInv, Transcribed
  <2>3. CASE Ordered' = Ordered /\ (status' = "deleted" <=> status = "deleted")
    BY <2>3 DEF Log!vars
  <2>4. CASE /\ status # "deleted" /\ status' # "deleted"
             /\ \E new \in Stored : Ordered' = Append(Ordered, new)
    <3>1. PICK new \in Stored : Ordered' = Append(Ordered, new)
      BY <2>4
    <3>2. /\ Len(Ordered) \in Nat /\ Len(Ordered') = Len(Ordered) + 1
          /\ Ordered'[Len(Ordered) + 1] = new /\ Ordered' \in Seq(Stored)
          /\ \A i \in 1..Len(Ordered) : Ordered'[i] = Ordered[i]
      BY <2>2, <3>1, LenProperties, AppendProperties
    <3>3. SubSeq(Ordered', 1, Len(Ordered)) = Ordered
      BY <2>2, <3>2
    <3> QED
      BY <2>4, <3>2, <3>3 DEF Log!Next, Log!Extend
  <2>5. CASE Delete
    BY <2>5, EmptyTable DEF Delete, Ordered, Log!Next, Log!Drop
  <2> QED
    BY <2>1, <2>3, <2>4, <2>5, OneAtATime
<1> QED
  BY <1>1, <1>2, Invariance, PTL DEF Spec, ImplementsTranscript, Log!Spec

-----------------------------------------------------------------------------
(* The same state without identifiers.                                     *)

Unnamed(m) == [role |-> m.role, topic |-> m.topic]
Told(ms) == [i \in DOMAIN ms |-> Unnamed(ms[i])]

\* Two states with the same fields are the same.
LEMMA SameState ==
  ASSUME NEW M, NEW s \in StateWith(M), NEW t \in StateWith(M),
         s.messages = t.messages, s.covered = t.covered, s.current = t.current,
         s.asked = t.asked, s.followed = t.followed, s.late = t.late,
         s.requested = t.requested, s.ended = t.ended, s.reason = t.reason,
         s.processed = t.processed
  PROVE  s = t
BY DEF StateWith

LEMMA ToldIs ==
  ASSUME NEW ms \in Seq(Stored)
  PROVE  /\ Told(ms) \in Seq(Message) /\ Len(Told(ms)) = Len(ms)
         /\ Told(ms) = << >> <=> ms = << >>
         /\ \A i \in 1..Len(ms) : Told(ms)[i].role = ms[i].role
<1>1. DOMAIN ms = 1..Len(ms) /\ Len(ms) \in Nat
  BY LenProperties
<1>2. \A i \in 1..Len(ms) : ms[i] \in Stored
  BY ElementOfSeq
<1>3. \A i \in 1..Len(ms) : Unnamed(ms[i]) \in Message /\ Unnamed(ms[i]).role = ms[i].role
  BY <1>2 DEF Unnamed, Stored, Message
<1>4. Told(ms) = [i \in 1..Len(ms) |-> Unnamed(ms[i])]
  BY <1>1 DEF Told
<1>5. Told(ms) \in Seq(Message) /\ Len(Told(ms)) = Len(ms)
  BY <1>1, <1>3, <1>4
<1>6. Told(ms) = << >> <=> ms = << >>
  BY <1>1, <1>5, EmptySeq
<1> QED
  BY <1>3, <1>4, <1>5, <1>6

LEMMA ToldAppended ==
  ASSUME NEW ms \in Seq(Stored), NEW new \in Stored
  PROVE  Told(Append(ms, new)) = Append(Told(ms), Unnamed(new))
<1> DEFINE longer == Append(ms, new)
           told == Append(Told(ms), Unnamed(new))
<1>1. /\ Len(ms) \in Nat /\ longer \in Seq(Stored) /\ Len(longer) = Len(ms) + 1
      /\ longer[Len(ms) + 1] = new /\ \A i \in 1..Len(ms) : longer[i] = ms[i]
      /\ DOMAIN ms = 1..Len(ms)
  BY LenProperties, AppendProperties
<1>2. Unnamed(new) \in Message
  BY DEF Unnamed, Stored, Message
<1>3. /\ told \in Seq(Message) /\ Len(told) = Len(ms) + 1
      /\ told[Len(ms) + 1] = Unnamed(new) /\ \A i \in 1..Len(ms) : told[i] = Told(ms)[i]
  <2>1. Told(ms) \in Seq(Message) /\ Len(Told(ms)) = Len(ms)
    BY ToldIs
  <2> QED
    BY <1>2, <2>1, AppendProperties
<1>4. Told(longer) \in Seq(Message) /\ Len(Told(longer)) = Len(ms) + 1
  BY <1>1, ToldIs
<1>5. DOMAIN longer = 1..Len(ms) + 1
  BY <1>1, LenProperties
<1> HIDE DEF longer, told
<1>6. \A i \in 1..Len(ms) + 1 : Told(longer)[i] = told[i]
  <2>1. \A i \in 1..Len(ms) : Told(ms)[i] = Unnamed(ms[i])
    BY <1>1 DEF Told
  <2>2. \A i \in 1..Len(ms) + 1 : Told(longer)[i] = Unnamed(longer[i])
    BY <1>5 DEF Told
  <2>3. \A i \in 1..Len(ms) + 1 : i \in 1..Len(ms) \/ i = Len(ms) + 1
    BY <1>1
  <2> QED
    BY <1>1, <1>3, <2>1, <2>2, <2>3
<1>7. /\ Told(longer) = [i \in 1..Len(ms) + 1 |-> Told(longer)[i]]
      /\ told = [i \in 1..Len(ms) + 1 |-> told[i]]
  BY <1>1, <1>3, <1>4, LenProperties
<1>8. Told(longer) = told
  BY <1>6, <1>7
<1> QED
  BY <1>8 DEF longer, told

LEMMA PlainIs ==
  ASSUME NEW s \in State
  PROVE  /\ Plain(s) \in GraphState /\ Plain(s) = [s EXCEPT !.messages = Told(s.messages)]
         /\ Plain(s).messages = Told(s.messages) /\ Plain(s).covered = s.covered
         /\ Plain(s).current = s.current /\ Plain(s).asked = s.asked
         /\ Plain(s).followed = s.followed /\ Plain(s).late = s.late
         /\ Plain(s).requested = s.requested /\ Plain(s).ended = s.ended
         /\ Plain(s).reason = s.reason /\ Plain(s).processed = s.processed
<1>1. s.messages \in Seq(Stored)
  BY DEF State, StateWith
<1>2. Told(s.messages) \in Seq(Message)
  BY <1>1, ToldIs
<1>3. Plain(s) = [s EXCEPT !.messages = Told(s.messages)]
  BY DEF Plain, Told, Unnamed
<1> QED
  BY <1>2, <1>3 DEF State, GraphState, StateWith

LEMMA PlainSame ==
  ASSUME NEW n \in State, NEW g \in GraphState, g.messages = Told(n.messages),
         g.covered = n.covered, g.current = n.current, g.asked = n.asked,
         g.followed = n.followed, g.late = n.late, g.requested = n.requested,
         g.ended = n.ended, g.reason = n.reason, g.processed = n.processed
  PROVE  Plain(n) = g
<1>1. /\ Plain(n) \in StateWith(Message) /\ g \in StateWith(Message)
      /\ Plain(n).messages = g.messages /\ Plain(n).covered = g.covered
      /\ Plain(n).current = g.current /\ Plain(n).asked = g.asked
      /\ Plain(n).followed = g.followed /\ Plain(n).late = g.late
      /\ Plain(n).requested = g.requested /\ Plain(n).ended = g.ended
      /\ Plain(n).reason = g.reason /\ Plain(n).processed = g.processed
  BY PlainIs DEF GraphState
<1> QED
  BY <1>1, SameState

LEMMA PlainBlank == Plain(Blank) = Blank
<1>1. Blank \in State /\ Blank \in GraphState /\ Blank.messages = << >>
  BY EmptySeq DEF Blank, State, GraphState, StateWith, Reason
<1>2. Told(<< >>) = << >>
  BY EmptySeq, ToldIs
<1> QED
  BY <1>1, <1>2, PlainIs, SameState DEF GraphState

TopicAfter(covered, current) ==
  LET open == {i \in DOMAIN Topics : Topics[i] \notin covered}
  IN  IF current # NoTopic THEN current
      ELSE IF open = {} THEN Fallback
      ELSE Topics[CHOOSE i \in open : \A j \in open : i <= j]

\* Each decision of the graph sees only what is left without identifiers.
LEMMA PlainDecisions ==
  ASSUME NEW s \in State
  PROVE  /\ AwaitsReply(Plain(s)) <=> AwaitsReply(s)
         /\ Plain(s).messages = << >> <=> s.messages = << >>
         /\ Termination(Plain(s)) = Termination(s)
         /\ Route(Plain(s)) = Route(s) /\ NextTopic(Plain(s)) = NextTopic(s)
<1>1. s.messages \in Seq(Stored)
  BY DEF State, StateWith
<1>2. Plain(s).messages = << >> <=> s.messages = << >>
  BY <1>1, PlainIs, ToldIs
<1>3. AwaitsReply(Plain(s)) <=> AwaitsReply(s)
  <2>1. CASE s.messages = << >>
    BY <1>2, <2>1 DEF AwaitsReply
  <2>2. CASE s.messages # << >>
    <3>1. Len(s.messages) \in 1..Len(s.messages)
      BY <1>1, <2>2, EmptySeq, LenProperties
    <3>2. Told(s.messages)[Len(s.messages)].role = s.messages[Len(s.messages)].role
      BY <1>1, <3>1, ToldIs
    <3>3. LastMessage(Plain(s)).role = LastMessage(s).role
      BY <1>1, <3>2, PlainIs, ToldIs DEF LastMessage
    <3> QED
      BY <1>2, <3>3 DEF AwaitsReply
  <2> QED
    BY <2>1, <2>2
<1>4. Termination(Plain(s)) = Termination(s)
  BY PlainIs DEF Termination
<1>5. Route(Plain(s)) = Route(s)
  BY <1>2, <1>3, <1>4, PlainIs DEF Route
<1>6. NextTopic(Plain(s)) = NextTopic(s)
  <2>1. /\ NextTopic(Plain(s)) = TopicAfter(Plain(s).covered, Plain(s).current)
        /\ NextTopic(s) = TopicAfter(s.covered, s.current)
    BY Zenon DEF NextTopic, TopicAfter
  <2> QED
    BY <2>1, PlainIs
<1> QED
  BY <1>2, <1>3, <1>4, <1>5, <1>6

LEMMA PlainInput ==
  ASSUME NEW s \in State, NEW op \in Operation, ids.message \in Nat
  PROVE  Plain(Named(WithInput(s, op))) = WithInput(Plain(s), op)
<1> DEFINE n == Named(WithInput(s, op))
           g == WithInput(Plain(s), op)
<1>1. n \in State /\ Plain(n) \in GraphState /\ Plain(s) \in GraphState
  BY InputStep, PlainIs
<1>2. /\ Plain(s).messages \in Seq(Message) /\ s.messages \in Seq(Stored)
      /\ Plain(s).messages = Told(s.messages)
  BY <1>1, PlainIs DEF State, GraphState, StateWith
<1>3. CASE op = "respond"
  <2>1. n = [s EXCEPT !.messages = Append(s.messages, New(Human))]
    BY <1>3, InputStep
  <2>2. g = [Plain(s) EXCEPT !.messages = Append(Plain(s).messages, Human)]
    BY <1>3 DEF WithInput
  <2>3. Append(Plain(s).messages, Human) \in Seq(Message)
    BY <1>2, MessageTypes, AppendProperties
  <2>4. /\ g \in GraphState /\ g.messages = Append(Plain(s).messages, Human)
        /\ g.covered = s.covered /\ g.current = s.current /\ g.asked = s.asked
        /\ g.followed = s.followed /\ g.late = s.late /\ g.requested = s.requested
        /\ g.ended = s.ended /\ g.reason = s.reason /\ g.processed = s.processed
    BY <1>1, <2>2, <2>3, PlainIs DEF GraphState, StateWith
  <2>5. /\ n.messages = Append(s.messages, New(Human))
        /\ n.covered = s.covered /\ n.current = s.current /\ n.asked = s.asked
        /\ n.followed = s.followed /\ n.late = s.late /\ n.requested = s.requested
        /\ n.ended = s.ended /\ n.reason = s.reason /\ n.processed = s.processed
    BY <2>1 DEF State, StateWith
  <2>6. Told(n.messages) = g.messages
    <3>1. New(Human) \in Stored /\ Unnamed(New(Human)) = Human
      BY NewType, MessageTypes DEF New, Unnamed, Human
    <3> QED
      BY <1>2, <2>4, <2>5, <3>1, ToldAppended, PlainIs
  <2> HIDE DEF n, g
  <2>7. g.messages = Told(n.messages)
    BY <1>2, <2>4, <2>5, <2>6
  <2>8. Plain(n) = g
    <3>1. n \in State /\ g \in GraphState
      BY <1>1, <2>4
    <3>2. /\ g.covered = n.covered /\ g.current = n.current /\ g.asked = n.asked
          /\ g.followed = n.followed /\ g.late = n.late /\ g.requested = n.requested
          /\ g.ended = n.ended /\ g.reason = n.reason /\ g.processed = n.processed
      BY <2>4, <2>5
    <3> QED
      BY <2>7, <3>1, <3>2, PlainSame
  <2> QED
    BY <2>8 DEF n, g
<1>4. CASE op = "start"
  <2>1. n = [Blank EXCEPT !.messages = s.messages]
    BY <1>4, InputStep
  <2>2. g = [Blank EXCEPT !.messages = Plain(s).messages]
    BY <1>4 DEF WithInput
  <2>3. Blank \in GraphState
    BY EmptySeq DEF Blank, GraphState, StateWith, Reason
  <2>4. /\ g \in GraphState /\ g.messages = Plain(s).messages
        /\ g.covered = Blank.covered /\ g.current = Blank.current /\ g.asked = Blank.asked
        /\ g.followed = Blank.followed /\ g.late = Blank.late /\ g.requested = Blank.requested
        /\ g.ended = Blank.ended /\ g.reason = Blank.reason /\ g.processed = Blank.processed
    BY <1>2, <2>2, <2>3 DEF GraphState, StateWith
  <2>5. /\ n.messages = s.messages
        /\ n.covered = Blank.covered /\ n.current = Blank.current /\ n.asked = Blank.asked
        /\ n.followed = Blank.followed /\ n.late = Blank.late /\ n.requested = Blank.requested
        /\ n.ended = Blank.ended /\ n.reason = Blank.reason /\ n.processed = Blank.processed
    BY <2>1, <2>3 DEF GraphState, StateWith
  <2> HIDE DEF n, g
  <2>7. g.messages = Told(n.messages)
    BY <1>2, <2>4, <2>5
  <2>8. Plain(n) = g
    <3>1. n \in State /\ g \in GraphState
      BY <1>1, <2>4
    <3>2. /\ g.covered = n.covered /\ g.current = n.current /\ g.asked = n.asked
          /\ g.followed = n.followed /\ g.late = n.late /\ g.requested = n.requested
          /\ g.ended = n.ended /\ g.reason = n.reason /\ g.processed = n.processed
      BY <2>4, <2>5
    <3> QED
      BY <2>7, <3>1, <3>2, PlainSame
  <2> QED
    BY <2>8 DEF n, g
<1>5. CASE op = "end"
  <2>1. n = [s EXCEPT !.requested = TRUE]
    BY <1>5, InputStep
  <2>2. g = [Plain(s) EXCEPT !.requested = TRUE]
    BY <1>5 DEF WithInput
  <2>4. /\ g \in GraphState /\ g.messages = Plain(s).messages
        /\ g.covered = s.covered /\ g.current = s.current /\ g.asked = s.asked
        /\ g.followed = s.followed /\ g.late = s.late /\ g.requested = TRUE
        /\ g.ended = s.ended /\ g.reason = s.reason /\ g.processed = s.processed
    <3> DEFINE p == Plain(s)
    <3>1. p \in GraphState /\ g = [p EXCEPT !.requested = TRUE]
      BY <1>1, <2>2
    <3> HIDE DEF p, g
    <3>2. /\ g \in GraphState /\ g.messages = p.messages
          /\ g.covered = p.covered /\ g.current = p.current /\ g.asked = p.asked
          /\ g.followed = p.followed /\ g.late = p.late /\ g.requested = TRUE
          /\ g.ended = p.ended /\ g.reason = p.reason /\ g.processed = p.processed
      BY <3>1 DEF GraphState, StateWith
    <3> QED
      BY <3>2, PlainIs DEF p
  <2>5. /\ n.messages = s.messages
        /\ n.covered = s.covered /\ n.current = s.current /\ n.asked = s.asked
        /\ n.followed = s.followed /\ n.late = s.late /\ n.requested = TRUE
        /\ n.ended = s.ended /\ n.reason = s.reason /\ n.processed = s.processed
    BY <2>1 DEF State, StateWith
  <2> HIDE DEF n, g
  <2>7. g.messages = Told(n.messages)
    BY <1>2, <2>4, <2>5
  <2>8. Plain(n) = g
    <3>1. n \in State /\ g \in GraphState
      BY <1>1, <2>4
    <3>2. /\ g.covered = n.covered /\ g.current = n.current /\ g.asked = n.asked
          /\ g.followed = n.followed /\ g.late = n.late /\ g.requested = n.requested
          /\ g.ended = n.ended /\ g.reason = n.reason /\ g.processed = n.processed
      BY <2>4, <2>5
    <3> QED
      BY <2>7, <3>1, <3>2, PlainSame
  <2> QED
    BY <2>8 DEF n, g
<1> QED
  BY <1>3, <1>4, <1>5 DEF Operation

LEMMA PlainPrepared ==
  ASSUME NEW s \in State, NEW timeIsUp \in BOOLEAN
  PROVE  Plain(Prepared(s, timeIsUp)) = Prepared(Plain(s), timeIsUp)
<1> DEFINE n == Prepared(s, timeIsUp)
           p == Plain(s)
           g == Prepared(p, timeIsUp)
           Fields(t, covered, current, followed, processed) ==
             /\ t.covered = covered /\ t.current = current /\ t.asked = s.asked
             /\ t.followed = followed /\ t.late = timeIsUp /\ t.requested = s.requested
             /\ t.ended = s.ended /\ t.reason = s.reason /\ t.processed = processed
<1>1. /\ n \in State /\ n.messages = s.messages /\ p \in GraphState
      /\ s.messages \in Seq(Stored) /\ p.messages \in Seq(Message)
      /\ p.messages = Told(s.messages) /\ Len(p.messages) = Len(s.messages)
  <2>1. s.messages \in Seq(Stored)
    BY DEF State, StateWith
  <2> QED
    BY <2>1, PreparedStep, PlainIs, ToldIs
<1>2. /\ AwaitsReply(p) <=> AwaitsReply(s)
      /\ p.covered = s.covered /\ p.current = s.current /\ p.asked = s.asked
      /\ p.followed = s.followed /\ p.late = s.late /\ p.requested = s.requested
      /\ p.ended = s.ended /\ p.reason = s.reason /\ p.processed = s.processed
  BY PlainDecisions, PlainIs
<1>3. Len(s.messages) \in Nat /\ s.followed + 1 \in Nat
  BY <1>1, LenProperties DEF State, StateWith
<1> HIDE DEF p
<1>4. CASE ~AwaitsReply(s) \/ s.processed = Len(s.messages)
  <2>1. n = [s EXCEPT !.late = timeIsUp] /\ g = [p EXCEPT !.late = timeIsUp]
    BY <1>1, <1>2, <1>4 DEF Prepared
  <2>2. Fields(n, s.covered, s.current, s.followed, s.processed)
    BY <2>1 DEF State, StateWith
  <2>3. /\ g \in GraphState /\ g.messages = p.messages
        /\ Fields(g, s.covered, s.current, s.followed, s.processed)
    BY <1>1, <1>2, <2>1 DEF GraphState, StateWith
  <2> HIDE DEF n, g
  <2>4. Plain(n) = g
    BY <1>1, <2>2, <2>3, PlainSame
  <2> QED
    BY <2>4 DEF n, g, p
<1>5. CASE /\ ~(~AwaitsReply(s) \/ s.processed = Len(s.messages))
           /\ s.current = NoTopic
  <2>1. /\ n = [s EXCEPT !.late = timeIsUp, !.processed = Len(s.messages)]
        /\ g = [p EXCEPT !.late = timeIsUp, !.processed = Len(s.messages)]
    <3>1. n = [[s EXCEPT !.late = timeIsUp] EXCEPT !.processed = Len(s.messages)]
      BY <1>5 DEF Prepared
    <3>2. g = [[p EXCEPT !.late = timeIsUp] EXCEPT !.processed = Len(p.messages)]
      BY <1>1, <1>2, <1>5 DEF Prepared
    <3> QED
      BY <1>1, <3>1, <3>2 DEF State, GraphState, StateWith
  <2>2. Fields(n, s.covered, s.current, s.followed, Len(s.messages))
    BY <2>1 DEF State, StateWith
  <2>3. /\ g \in GraphState /\ g.messages = p.messages
        /\ Fields(g, s.covered, s.current, s.followed, Len(s.messages))
    BY <1>1, <1>2, <1>3, <2>1 DEF GraphState, StateWith
  <2> HIDE DEF n, g
  <2>4. Plain(n) = g
    BY <1>1, <2>2, <2>3, PlainSame
  <2> QED
    BY <2>4 DEF n, g, p
<1>6. CASE /\ ~(~AwaitsReply(s) \/ s.processed = Len(s.messages))
           /\ s.current # NoTopic /\ s.followed < FollowUps
  <2>1. /\ n = [s EXCEPT !.late = timeIsUp, !.processed = Len(s.messages),
                         !.followed = s.followed + 1]
        /\ g = [p EXCEPT !.late = timeIsUp, !.processed = Len(s.messages),
                         !.followed = s.followed + 1]
    <3>1. n = [[[s EXCEPT !.late = timeIsUp] EXCEPT !.processed = Len(s.messages)]
                EXCEPT !.followed = @ + 1]
      BY <1>6 DEF Prepared
    <3>2. g = [[[p EXCEPT !.late = timeIsUp] EXCEPT !.processed = Len(p.messages)]
                EXCEPT !.followed = @ + 1]
      BY <1>1, <1>2, <1>6 DEF Prepared
    <3> QED
      BY <1>1, <1>2, <3>1, <3>2 DEF State, GraphState, StateWith
  <2>2. Fields(n, s.covered, s.current, s.followed + 1, Len(s.messages))
    BY <2>1 DEF State, StateWith
  <2>3. /\ g \in GraphState /\ g.messages = p.messages
        /\ Fields(g, s.covered, s.current, s.followed + 1, Len(s.messages))
    BY <1>1, <1>2, <1>3, <2>1 DEF GraphState, StateWith
  <2> HIDE DEF n, g
  <2>4. Plain(n) = g
    BY <1>1, <2>2, <2>3, PlainSame
  <2> QED
    BY <2>4 DEF n, g, p
<1>7. CASE /\ ~(~AwaitsReply(s) \/ s.processed = Len(s.messages))
           /\ s.current # NoTopic /\ ~(s.followed < FollowUps)
  <2> DEFINE covered == s.covered \cup {s.current}
  <2>1. /\ n = [s EXCEPT !.late = timeIsUp, !.processed = Len(s.messages),
                         !.covered = covered, !.current = NoTopic, !.followed = 0]
        /\ g = [p EXCEPT !.late = timeIsUp, !.processed = Len(s.messages),
                         !.covered = covered, !.current = NoTopic, !.followed = 0]
    <3>1. n = [[[s EXCEPT !.late = timeIsUp] EXCEPT !.processed = Len(s.messages)]
                EXCEPT !.covered = @ \cup {s.current}, !.current = NoTopic, !.followed = 0]
      BY <1>7 DEF Prepared
    <3>2. g = [[[p EXCEPT !.late = timeIsUp] EXCEPT !.processed = Len(p.messages)]
                EXCEPT !.covered = @ \cup {p.current}, !.current = NoTopic, !.followed = 0]
      BY <1>1, <1>2, <1>7 DEF Prepared
    <3> QED
      BY <1>1, <1>2, <3>1, <3>2 DEF State, GraphState, StateWith
  <2>2. covered \in SUBSET (TopicSet \cup {Fallback})
    BY <1>7 DEF State, StateWith
  <2> HIDE DEF covered
  <2>3. Fields(n, covered, NoTopic, 0, Len(s.messages))
    BY <2>1 DEF State, StateWith
  <2>4. /\ g \in GraphState /\ g.messages = p.messages
        /\ Fields(g, covered, NoTopic, 0, Len(s.messages))
    <3>1. g = [p EXCEPT !.late = timeIsUp, !.processed = Len(s.messages),
                        !.covered = covered, !.current = NoTopic, !.followed = 0]
      BY <2>1
    <3>2. p \in GraphState
      BY <1>1
    <3> HIDE DEF n, g
    <3>3. /\ g \in GraphState /\ g.messages = p.messages
          /\ g.covered = covered /\ g.current = NoTopic /\ g.asked = p.asked
          /\ g.followed = 0 /\ g.late = timeIsUp /\ g.requested = p.requested
          /\ g.ended = p.ended /\ g.reason = p.reason /\ g.processed = Len(s.messages)
      BY <1>3, <2>2, <3>1, <3>2 DEF GraphState, StateWith
    <3> QED
      BY <1>2, <3>3
  <2> HIDE DEF n, g
  <2>5. Plain(n) = g
    BY <1>1, <2>3, <2>4, PlainSame
  <2> QED
    BY <2>5 DEF n, g, p
<1> QED
  BY <1>4, <1>5, <1>6, <1>7

LEMMA PlainAsked ==
  ASSUME NEW s \in State, ids.message \in Nat
  PROVE  Plain(Named(Asked(s))) = Asked(Plain(s))
<1> DEFINE n == Named(Asked(s))
           p == Plain(s)
           g == Asked(p)
           longer == Append(p.messages, Question(s))
<1>1. /\ n \in State /\ n.messages = Append(s.messages, New(Question(s)))
      /\ n = [s EXCEPT !.messages = Append(s.messages, New(Question(s))),
                       !.current = NextTopic(s), !.asked = s.asked + 1]
  BY AskedStep
<1>2. /\ p \in GraphState /\ NextTopic(p) = NextTopic(s)
      /\ p.messages = Told(s.messages) /\ p.covered = s.covered /\ p.asked = s.asked
      /\ p.followed = s.followed /\ p.late = s.late /\ p.requested = s.requested
      /\ p.ended = s.ended /\ p.reason = s.reason /\ p.processed = s.processed
  BY PlainDecisions, PlainIs
<1>3. s.messages \in Seq(Stored) /\ p.messages \in Seq(Message) /\ s.asked + 1 \in Nat
  BY <1>2 DEF State, GraphState, StateWith
<1>4. New(Question(s)) \in Stored /\ Unnamed(New(Question(s))) = Question(s)
  BY NewType, MessageTypes DEF New, Unnamed, Question
<1>5. Told(n.messages) = longer
  BY <1>1, <1>2, <1>3, <1>4, ToldAppended
<1>6. longer \in Seq(Message)
  BY <1>3, MessageTypes, AppendProperties
<1> HIDE DEF p
<1>7. g = [p EXCEPT !.messages = longer, !.current = NextTopic(s), !.asked = s.asked + 1]
  <2>1. g = [p EXCEPT !.messages = Append(@, [role |-> "question", topic |-> NextTopic(p)]),
                      !.current = NextTopic(p), !.asked = @ + 1]
    BY DEF Asked
  <2> QED
    BY <1>2, <2>1 DEF Question, GraphState, StateWith
<1> HIDE DEF longer
<1>8. /\ n.covered = s.covered /\ n.current = NextTopic(s) /\ n.asked = s.asked + 1
      /\ n.followed = s.followed /\ n.late = s.late /\ n.requested = s.requested
      /\ n.ended = s.ended /\ n.reason = s.reason /\ n.processed = s.processed
  BY <1>1 DEF State, StateWith
<1>9. /\ g \in GraphState /\ g.messages = longer
      /\ g.covered = s.covered /\ g.current = NextTopic(s) /\ g.asked = s.asked + 1
      /\ g.followed = s.followed /\ g.late = s.late /\ g.requested = s.requested
      /\ g.ended = s.ended /\ g.reason = s.reason /\ g.processed = s.processed
  BY <1>2, <1>3, <1>6, <1>7, TopicType DEF GraphState, StateWith
<1> HIDE DEF n, g
<1>10. Plain(n) = g
  <2>1. n \in State /\ g \in GraphState /\ g.messages = Told(n.messages)
    BY <1>1, <1>5, <1>9
  <2>2. /\ g.covered = n.covered /\ g.current = n.current /\ g.asked = n.asked
        /\ g.followed = n.followed /\ g.late = n.late /\ g.requested = n.requested
        /\ g.ended = n.ended /\ g.reason = n.reason /\ g.processed = n.processed
    BY <1>8, <1>9
  <2> QED
    BY <2>1, <2>2, PlainSame
<1> QED
  BY <1>10 DEF n, g, p

LEMMA PlainClosed ==
  ASSUME NEW s \in State, ids.message \in Nat
  PROVE  Plain(Named(Closed(s))) = Closed(Plain(s))
<1> DEFINE n == Named(Closed(s))
           p == Plain(s)
           g == Closed(p)
           longer == Append(p.messages, Goodbye)
           reason == IF Termination(s) = "none" THEN "user_requested" ELSE Termination(s)
<1>1. /\ n \in State /\ n.messages = Append(s.messages, New(Goodbye))
      /\ n = [s EXCEPT !.messages = Append(s.messages, New(Goodbye)),
                       !.ended = TRUE, !.reason = reason]
  BY ClosedStep
<1>2. /\ p \in GraphState /\ Termination(p) = Termination(s)
      /\ p.messages = Told(s.messages) /\ p.covered = s.covered /\ p.asked = s.asked
      /\ p.current = s.current
      /\ p.followed = s.followed /\ p.late = s.late /\ p.requested = s.requested
      /\ p.processed = s.processed
  BY PlainDecisions, PlainIs
<1>3. s.messages \in Seq(Stored) /\ p.messages \in Seq(Message)
  BY <1>2 DEF State, GraphState, StateWith
<1>4. New(Goodbye) \in Stored /\ Unnamed(New(Goodbye)) = Goodbye
  BY NewType, MessageTypes DEF New, Unnamed, Goodbye
<1>5. Told(n.messages) = longer
  BY <1>1, <1>2, <1>3, <1>4, ToldAppended
<1>6. longer \in Seq(Message)
  BY <1>3, MessageTypes, AppendProperties
<1>7. reason \in Reason
  BY DEF Termination, Reason
<1> HIDE DEF p
<1>8. g = [p EXCEPT !.messages = longer, !.ended = TRUE, !.reason = reason]
  BY <1>2 DEF Closed, Goodbye, GraphState, StateWith
<1> HIDE DEF longer, reason
<1>9. /\ n.covered = s.covered /\ n.current = s.current /\ n.asked = s.asked
      /\ n.followed = s.followed /\ n.late = s.late /\ n.requested = s.requested
      /\ n.ended = TRUE /\ n.reason = reason /\ n.processed = s.processed
  BY <1>1 DEF State, StateWith
<1>10. /\ g \in GraphState /\ g.messages = longer
       /\ g.covered = s.covered /\ g.current = s.current /\ g.asked = s.asked
       /\ g.followed = s.followed /\ g.late = s.late /\ g.requested = s.requested
       /\ g.ended = TRUE /\ g.reason = reason /\ g.processed = s.processed
  BY <1>2, <1>6, <1>7, <1>8 DEF GraphState, StateWith
<1> HIDE DEF n, g
<1>11. Plain(n) = g
  <2>1. n \in State /\ g \in GraphState /\ g.messages = Told(n.messages)
    BY <1>1, <1>5, <1>10
  <2>2. /\ g.covered = n.covered /\ g.current = n.current /\ g.asked = n.asked
        /\ g.followed = n.followed /\ g.late = n.late /\ g.requested = n.requested
        /\ g.ended = n.ended /\ g.reason = n.reason /\ g.processed = n.processed
    BY <1>9, <1>10
  <2> QED
    BY <2>1, <2>2, PlainSame
<1> QED
  BY <1>11 DEF n, g, p

-----------------------------------------------------------------------------
(* Turns that do not overlap implement the atomic saved state.             *)

\* The same decisions, as the instance of InterviewGraph names them.
LEMMA GraphSame ==
  /\ Graph!Idle = Idle /\ Graph!Blank = Blank
  /\ \A s, op : Graph!WithInput(s, op) = WithInput(s, op)
  /\ \A s, timeIsUp : Graph!Prepared(s, timeIsUp) = Prepared(s, timeIsUp)
  /\ \A s : Graph!Route(s) = Route(s) /\ Graph!Asked(s) = Asked(s)
  /\ \A s : Graph!Closed(s) = Closed(s)
<1>1. Graph!Idle = Idle /\ Graph!Blank = Blank
  BY DEF Graph!Idle, Idle, Graph!Blank, Blank
<1>2. \A s, op : Graph!WithInput(s, op) = WithInput(s, op)
  BY DEF Graph!WithInput, WithInput, Graph!Blank, Blank, Graph!Human, Human
<1>3. \A s, timeIsUp : Graph!Prepared(s, timeIsUp) = Prepared(s, timeIsUp)
  BY DEF Graph!Prepared, Prepared, Graph!AwaitsReply, AwaitsReply,
         Graph!LastMessage, LastMessage
<1>4. \A s : Graph!Termination(s) = Termination(s)
  BY DEF Graph!Termination, Termination, Graph!TopicSet, TopicSet
<1>5. \A s : Graph!Route(s) = Route(s)
  BY <1>4 DEF Graph!Route, Route, Graph!AwaitsReply, AwaitsReply,
              Graph!LastMessage, LastMessage
<1>6. \A s : Graph!NextTopic(s) = NextTopic(s)
  BY DEF Graph!NextTopic, NextTopic
<1>7. \A s : Graph!Asked(s) = Asked(s)
  BY <1>6 DEF Graph!Asked, Asked
<1>8. \A s : Graph!Closed(s) = Closed(s)
  BY <1>4 DEF Graph!Closed, Closed
<1> QED
  BY <1>1, <1>2, <1>3, <1>5, <1>7, <1>8

\* The one turn that is in progress, of a table of turns.
RunOf(t) == [phase |-> t.phase, op |-> t.op, state |-> Plain(t.state)]
Active(T) == {c \in Connection : T[c].phase # "idle"}
InvocationOf(T) == IF Active(T) = {} THEN Idle ELSE RunOf(T[CHOOSE c \in Active(T) : TRUE])

LEMMA InvocationIs == Invocation = InvocationOf(turn)
BY DEF Invocation, InvocationOf, Running, Active, RunOf

LEMMA OneActive ==
  ASSUME NEW T, NEW c \in Connection, T[c].phase # "idle",
         \A d \in Connection : d # c => T[d].phase = "idle"
  PROVE  InvocationOf(T) = RunOf(T[c])
<1>1. Active(T) = {c}
  BY DEF Active
<1>2. (CHOOSE d \in {c} : TRUE) = c
  OBVIOUS
<1> QED
  BY <1>1, <1>2 DEF InvocationOf

LEMMA NoneActive ==
  ASSUME NEW T, \A d \in Connection : T[d].phase = "idle"
  PROVE  InvocationOf(T) = Idle
BY DEF InvocationOf, Active

\* What a turn alone sees, before and after a step of its own.
LEMMA AloneBefore ==
  ASSUME IInv, ~overlapped, status # "deleted", NEW c \in Connection,
         turn[c].phase # "idle"
  PROVE  /\ turn[c].state = Loaded /\ Loaded \in State
         /\ \A d \in Connection : d # c => turn[d].phase = "idle"
         /\ Invocation = RunOf(turn[c])
         /\ turn[c].phase # "input" => head # NoRow
<1>1. /\ turn[c].state = Loaded /\ \A d \in Connection : d # c => turn[d].phase = "idle"
      /\ turn[c].phase # "input" => head # NoRow
  BY DEF IInv, AloneCurrent
<1>2. Loaded \in State
  BY LoadedIs
<1>3. Invocation = RunOf(turn[c])
  BY <1>1, InvocationIs, OneActive
<1> QED
  BY <1>1, <1>2, <1>3

LEMMA PutAlone ==
  ASSUME IInv, IInv', ~overlapped, status # "deleted", NEW c \in Connection,
         turn[c].phase # "idle", NEW p \in Phase \ {"idle"}, NEW n \in State,
         NEW new \in Stored, new.id = ids.message + 1,
         \/ n.messages = turn[c].state.messages
         \/ n.messages = Append(turn[c].state.messages, new),
         Put(c, p, n)
  PROVE  /\ Invocation' = [phase |-> p, op |-> turn[c].op, state |-> Plain(n)]
         /\ Plain(Loaded)' = Plain(n) /\ head' # NoRow
         /\ UNCHANGED <<status, overtime, aborts>>
<1>1. UNCHANGED <<status, overtime, aborts, overlapped>>
  BY DEF Put
<1>2. PutStores(c, p, n)
  BY PutOutcome DEF PutFails
<1> DEFINE t == [turn[c] EXCEPT !.phase = p, !.state = n,
                                !.checkpoint = ids.checkpoint + 1, !.written = FALSE]
<1>3. turn' = [turn EXCEPT ![c] = t]
  BY <1>2 DEF PutStores
<1>4. t.phase = p /\ t.op = turn[c].op /\ t.state = n
  <2>1. turn[c] \in [phase : Phase, op : Operation, state : State, checkpoint : Nat,
                     written : BOOLEAN]
    BY DEF IInv, TypeOK
  <2> QED
    BY <2>1
<1> HIDE DEF t
<1>5. \A d \in Connection : turn'[d] = IF d = c THEN t ELSE turn[d]
  BY <1>3 DEF IInv, TypeOK
<1>6. \A d \in Connection : d # c => turn'[d].phase = "idle"
  BY <1>5, AloneBefore
<1>7. turn'[c] = t /\ turn'[c].phase # "idle"
  BY <1>4, <1>5
<1>8. Invocation' = InvocationOf(turn')
  BY DEF Invocation, InvocationOf, Running, Active, RunOf
<1>9. InvocationOf(turn') = RunOf(turn'[c])
  BY <1>6, <1>7, OneActive
<1>10. RunOf(turn'[c]) = [phase |-> p, op |-> turn[c].op, state |-> Plain(n)]
  BY <1>4, <1>7 DEF RunOf
<1>11. Loaded' = n
  BY <1>1, <1>4, <1>7 DEF IInv, AloneCurrent
<1>12. Plain(Loaded)' = Plain(n)
  BY <1>11 DEF Plain
<1>13. head' # NoRow
  <2>1. head' = [id |-> ids.checkpoint + 1, values |-> StateJson(n)]
    BY <1>2 DEF PutStores
  <2>2. StateJson(n) \in State
    BY EmptySeq DEF StateJson, State, StateWith
  <2>3. ids.checkpoint + 1 \in Nat
    BY DEF IInv, TypeOK
  <2>4. head' \in StateRow
    BY <2>1, <2>2, <2>3 DEF StateRow
  <2> QED
    BY <2>4, NoRowAssumption
<1> QED
  BY <1>1, <1>8, <1>9, <1>10, <1>12, <1>13

LEMMA BeginGraph ==
  ASSUME IInv, NEW c \in Connection, NEW op \in Operation, Begin(c, op),
         ~overlapped', status # "deleted"
  PROVE  Graph!Next
<1>1. /\ UNCHANGED <<tables, head, overtime, aborts>> /\ Loaded' = Loaded
      /\ Plain(Loaded)' = Plain(Loaded)
  BY DEF Begin, tables, Loaded, Ordered, Plain
<1>2. Loaded \in State /\ Loaded.messages = Ordered /\ Ordered \in Seq(Stored)
  BY LoadedIs
<1>3. status' = IF op = "end" THEN status
                ELSE IF status = "completed" THEN "completed" ELSE "in_progress"
  BY DEF Begin, Started
<1>4. CASE op = "start" /\ head # NoRow
  <2>1. turn' = turn /\ Invocation' = Invocation
    BY <1>4 DEF Begin, Invocation, Running
  <2>2. Graph!Resume
    BY <1>1, <1>3, <1>4, <2>1 DEF Graph!Resume, Graph!Started
  <2> QED
    BY <2>2 DEF Graph!Next
<1>5. CASE ~(op = "start" /\ head # NoRow)
  <2> DEFINE t == [Resting EXCEPT !.phase = "input", !.op = op, !.state = Loaded,
                     !.checkpoint = IF head = NoRow THEN 0 ELSE head.id]
  <2>1. /\ turn' = [turn EXCEPT ![c] = t] /\ begun < MaxTurns
        /\ \A d \in Connection : turn[d].phase = "idle"
    BY <1>5 DEF Begin
  <2>2. t.phase = "input" /\ t.op = op /\ t.state = Loaded
    BY DEF Resting
  <2> HIDE DEF t
  <2>3. \A d \in Connection : turn'[d] = IF d = c THEN t ELSE turn[d]
    BY <2>1 DEF IInv, TypeOK
  <2>4. Invocation = Idle
    BY <2>1, InvocationIs, NoneActive
  <2>5. Invocation' = [phase |-> "input", op |-> op, state |-> Plain(Loaded)]
    <3>1. Invocation' = InvocationOf(turn')
      BY DEF Invocation, InvocationOf, Running, Active, RunOf
    <3>2. InvocationOf(turn') = RunOf(turn'[c])
      <4>1. turn'[c].phase # "idle" /\ \A d \in Connection : d # c => turn'[d].phase = "idle"
        BY <2>1, <2>2, <2>3
      <4> QED
        BY <4>1, OneActive
    <3>3. RunOf(turn'[c]) = [phase |-> "input", op |-> op, state |-> Plain(Loaded)]
      BY <2>2, <2>3 DEF RunOf
    <3> QED
      BY <3>1, <3>2, <3>3
  <2>6. Invocation.phase = "idle"
    BY <2>4 DEF Idle
  <2>7. CASE op = "start"
    <3>1. Graph!StartTurn
      BY <1>1, <1>3, <1>5, <2>5, <2>6, <2>7 DEF Graph!StartTurn, Graph!Started
    <3> QED
      BY <3>1 DEF Graph!Next
  <2>8. CASE op = "respond"
    <3>1. Len(Plain(Loaded).messages) < 3 * MaxTurns
      <4>1. Len(Plain(Loaded).messages) = Len(Ordered) /\ Len(Ordered) \in Nat
        BY <1>2, PlainIs, ToldIs, LenProperties
      <4>2. ~overlapped
        BY <1>5 DEF Begin, IInv, TypeOK
      <4>3. Len(Ordered) + Left("idle") <= 2 * begun
        BY <2>1, <4>2 DEF IInv, AloneCurrent
      <4>4. Left("idle") = 0 /\ begun \in Nat /\ MaxTurns \in Nat
        BY CheckpointerAssumption DEF Left, IInv, TypeOK
      <4> QED
        BY <2>1, <4>1, <4>3, <4>4
    <3>2. Graph!RespondTurn
      BY <1>1, <1>3, <2>5, <2>6, <2>8, <3>1 DEF Graph!RespondTurn, Graph!Started
    <3> QED
      BY <3>2 DEF Graph!Next
  <2>9. CASE op = "end"
    <3>1. Graph!EndTurn
      BY <1>1, <1>3, <2>5, <2>6, <2>9 DEF Graph!EndTurn
    <3> QED
      BY <3>1 DEF Graph!Next
  <2> QED
    BY <2>7, <2>8, <2>9 DEF Operation
<1> QED
  BY <1>4, <1>5

\* A turn's end, whatever ended it.
LEMMA RestAlone ==
  ASSUME IInv, ~overlapped, status # "deleted", NEW c \in Connection,
         turn[c].phase # "idle", turn' = [turn EXCEPT ![c] = Resting], UNCHANGED tables
  PROVE  /\ Invocation' = Idle /\ Plain(Loaded)' = Plain(Loaded) /\ head' = head
<1>1. \A d \in Connection : turn'[d] = IF d = c THEN Resting ELSE turn[d]
  BY DEF IInv, TypeOK
<1>2. \A d \in Connection : turn'[d].phase = "idle"
  BY <1>1, AloneBefore, RestingType
<1>3. Invocation' = InvocationOf(turn')
  BY DEF Invocation, InvocationOf, Running, Active, RunOf
<1>4. Invocation' = Idle
  BY <1>2, <1>3, NoneActive
<1>5. Plain(Loaded)' = Plain(Loaded) /\ head' = head
  BY DEF tables, Loaded, Ordered, Plain
<1> QED
  BY <1>4, <1>5

\* The run of a turn after a checkpoint, field by field.
After(r, p, y) == [r EXCEPT !.phase = p, !.state = y]
LEMMA RunAfter ==
  ASSUME NEW r, NEW a, NEW o, NEW x, NEW p, NEW y,
         r = [phase |-> a, op |-> o, state |-> x]
  PROVE  /\ r.phase = a /\ r.op = o /\ r.state = x
         /\ After(r, p, y) = [phase |-> p, op |-> o, state |-> y]
<1> DEFINE R == [phase : {a, p}, op : {o}, state : {x, y}]
<1>1. r \in R /\ r.phase = a /\ r.op = o /\ r.state = x
  OBVIOUS
<1>2. /\ After(r, p, y) \in R /\ After(r, p, y).phase = p /\ After(r, p, y).op = o
      /\ After(r, p, y).state = y
  BY <1>1 DEF After
<1>3. After(r, p, y) = [phase |-> p, op |-> o, state |-> y]
  BY <1>2
<1> QED
  BY <1>1, <1>3

LEMMA SaveInputGraph ==
  ASSUME IInv, IInv', ~overlapped, status # "deleted", NEW c \in Connection, SaveInput(c)
  PROVE  Graph!Next
<1> DEFINE s == turn[c].state
<1>1. s \in State /\ turn[c].op \in Operation /\ ids.message \in Nat
  BY DEF IInv, TypeOK
<1>2. New(Human) \in Stored /\ New(Human).id = ids.message + 1
  BY <1>1, NewType, MessageTypes
<1>3. turn[c].phase = "input" /\ Put(c, "apply", s)
  BY DEF SaveInput
<1>4. "apply" \in Phase \ {"idle"}
  BY DEF Phase
<1>5. /\ Invocation' = [phase |-> "apply", op |-> turn[c].op, state |-> Plain(s)]
      /\ Plain(Loaded)' = Plain(s) /\ head' # NoRow /\ UNCHANGED <<status, overtime, aborts>>
  BY <1>1, <1>2, <1>3, <1>4, PutAlone
<1>6. /\ Invocation = [phase |-> "input", op |-> turn[c].op, state |-> Plain(s)]
      /\ Plain(Loaded) = Plain(s)
  BY <1>3, AloneBefore DEF RunOf
<1>7. Graph!SaveInput
  BY <1>5, <1>6 DEF Graph!SaveInput
<1> QED
  BY <1>7 DEF Graph!Next, Graph!RunStep

LEMMA ApplyInputGraph ==
  ASSUME IInv, IInv', ~overlapped, status # "deleted", NEW c \in Connection, ApplyInput(c)
  PROVE  Graph!Next
<1> DEFINE s == turn[c].state
           op == turn[c].op
           n == Named(WithInput(s, op))
<1>1. s \in State /\ op \in Operation /\ ids.message \in Nat
  BY DEF IInv, TypeOK
<1>2. New(Human) \in Stored /\ New(Human).id = ids.message + 1
  BY <1>1, NewType, MessageTypes
<1>3. turn[c].phase = "apply" /\ Put(c, "prepare", n)
  BY DEF ApplyInput
<1>4. n \in State /\ (n.messages = s.messages \/ n.messages = Append(s.messages, New(Human)))
  BY <1>1, InputStep DEF Operation
<1>5. Plain(n) = Graph!WithInput(Plain(s), op)
  BY <1>1, PlainInput, GraphSame
<1>6. "prepare" \in Phase \ {"idle"}
  BY DEF Phase
<1> HIDE DEF n
<1>7. /\ Invocation' = [phase |-> "prepare", op |-> op, state |-> Plain(n)]
      /\ Plain(Loaded)' = Plain(n) /\ head' # NoRow /\ UNCHANGED <<status, overtime, aborts>>
  BY <1>1, <1>2, <1>3, <1>4, <1>6, PutAlone
<1>8. /\ Invocation = [phase |-> "apply", op |-> op, state |-> Plain(s)] /\ head # NoRow
  BY <1>3, AloneBefore DEF RunOf
<1>9. Graph!ApplyInput
  <2>1. /\ Invocation.phase = "apply" /\ Invocation.op = turn[c].op
        /\ Invocation.state = Plain(s)
        /\ Invocation' = After(Invocation, "prepare", Plain(n))
    BY <1>7, <1>8, RunAfter
  <2>2. Graph!Checkpoint("prepare", Plain(n))
    BY <1>7, <1>8, <2>1 DEF Graph!Checkpoint, After
  <2> QED
    BY <1>5, <2>1, <2>2 DEF Graph!ApplyInput
<1> QED
  BY <1>9 DEF Graph!Next, Graph!RunStep

LEMMA PrepareGraph ==
  ASSUME IInv, IInv', ~overlapped, status # "deleted", NEW c \in Connection, Prepare(c)
  PROVE  Graph!Next
<1> DEFINE s == turn[c].state
           n == Prepared(s, overtime)
           p == Route(n)
<1>1. s \in State /\ turn[c].op \in Operation /\ ids.message \in Nat /\ overtime \in BOOLEAN
  BY DEF IInv, TypeOK
<1>2. New(Human) \in Stored /\ New(Human).id = ids.message + 1
  BY <1>1, NewType, MessageTypes
<1>3. turn[c].phase = "prepare" /\ Put(c, p, n)
  BY DEF Prepare
<1>4. n \in State /\ n.messages = s.messages /\ p \in {"finish", "closing", "interviewer"}
  BY <1>1, PreparedStep
<1>5. Plain(n) = Graph!Prepared(Plain(s), overtime) /\ Graph!Route(Plain(n)) = p
  BY <1>1, <1>4, PlainPrepared, PlainDecisions, GraphSame
<1>6. p \in Phase \ {"idle"}
  BY <1>4 DEF Phase
<1> HIDE DEF n, p
<1>7. /\ Invocation' = [phase |-> p, op |-> turn[c].op, state |-> Plain(n)]
      /\ Plain(Loaded)' = Plain(n) /\ head' # NoRow /\ UNCHANGED <<status, overtime, aborts>>
  BY <1>1, <1>2, <1>3, <1>4, <1>6, PutAlone
<1>8. /\ Invocation = [phase |-> "prepare", op |-> turn[c].op, state |-> Plain(s)]
      /\ head # NoRow
  BY <1>3, AloneBefore DEF RunOf
<1>9. Graph!Prepare
  <2>1. /\ Invocation.phase = "prepare" /\ Invocation.op = turn[c].op
        /\ Invocation.state = Plain(s)
        /\ Invocation' = After(Invocation, p, Plain(n))
    BY <1>7, <1>8, RunAfter
  <2>2. Graph!Checkpoint(p, Plain(n))
    BY <1>7, <1>8, <2>1 DEF Graph!Checkpoint, After
  <2> QED
    BY <1>5, <2>1, <2>2 DEF Graph!Prepare
<1> QED
  BY <1>9 DEF Graph!Next, Graph!RunStep

LEMMA InterviewerGraph ==
  ASSUME IInv, IInv', ~overlapped, status # "deleted", NEW c \in Connection, Interviewer(c)
  PROVE  Graph!Next
<1> DEFINE s == turn[c].state
           n == Named(Asked(s))
           new == New(Question(s))
<1>1. s \in State /\ turn[c].op \in Operation /\ ids.message \in Nat
  BY DEF IInv, TypeOK
<1>2. new \in Stored /\ new.id = ids.message + 1
  BY <1>1, NewType, MessageTypes
<1>3. turn[c].phase = "interviewer" /\ Put(c, "finish", n)
  BY DEF Interviewer
<1>4. n \in State /\ n.messages = Append(s.messages, new)
  BY <1>1, AskedStep
<1>5. Plain(n) = Graph!Asked(Plain(s))
  BY <1>1, PlainAsked, GraphSame
<1>6. "finish" \in Phase \ {"idle"}
  BY DEF Phase
<1> HIDE DEF n, new
<1>7. /\ Invocation' = [phase |-> "finish", op |-> turn[c].op, state |-> Plain(n)]
      /\ Plain(Loaded)' = Plain(n) /\ head' # NoRow /\ UNCHANGED <<status, overtime, aborts>>
  BY <1>1, <1>2, <1>3, <1>4, <1>6, PutAlone
<1>8. /\ Invocation = [phase |-> "interviewer", op |-> turn[c].op, state |-> Plain(s)]
      /\ head # NoRow
  BY <1>3, AloneBefore DEF RunOf
<1>9. Graph!Interviewer
  <2>1. /\ Invocation.phase = "interviewer" /\ Invocation.op = turn[c].op
        /\ Invocation.state = Plain(s)
        /\ Invocation' = After(Invocation, "finish", Plain(n))
    BY <1>7, <1>8, RunAfter
  <2>2. Graph!Checkpoint("finish", Plain(n))
    BY <1>7, <1>8, <2>1 DEF Graph!Checkpoint, After
  <2> QED
    BY <1>5, <2>1, <2>2 DEF Graph!Interviewer
<1> QED
  BY <1>9 DEF Graph!Next, Graph!RunStep

LEMMA ClosingGraph ==
  ASSUME IInv, IInv', ~overlapped, status # "deleted", NEW c \in Connection, Closing(c)
  PROVE  Graph!Next
<1> DEFINE s == turn[c].state
           n == Named(Closed(s))
           new == New(Goodbye)
<1>1. s \in State /\ turn[c].op \in Operation /\ ids.message \in Nat
  BY DEF IInv, TypeOK
<1>2. new \in Stored /\ new.id = ids.message + 1
  BY <1>1, NewType, MessageTypes
<1>3. turn[c].phase = "closing" /\ Put(c, "finish", n)
  BY DEF Closing
<1>4. n \in State /\ n.messages = Append(s.messages, new)
  BY <1>1, ClosedStep
<1>5. Plain(n) = Graph!Closed(Plain(s))
  BY <1>1, PlainClosed, GraphSame
<1>6. "finish" \in Phase \ {"idle"}
  BY DEF Phase
<1> HIDE DEF n, new
<1>7. /\ Invocation' = [phase |-> "finish", op |-> turn[c].op, state |-> Plain(n)]
      /\ Plain(Loaded)' = Plain(n) /\ head' # NoRow /\ UNCHANGED <<status, overtime, aborts>>
  BY <1>1, <1>2, <1>3, <1>4, <1>6, PutAlone
<1>8. /\ Invocation = [phase |-> "closing", op |-> turn[c].op, state |-> Plain(s)]
      /\ head # NoRow
  BY <1>3, AloneBefore DEF RunOf
<1>9. Graph!Closing
  <2>1. /\ Invocation.phase = "closing" /\ Invocation.op = turn[c].op
        /\ Invocation.state = Plain(s)
        /\ Invocation' = After(Invocation, "finish", Plain(n))
    BY <1>7, <1>8, RunAfter
  <2>2. Graph!Checkpoint("finish", Plain(n))
    BY <1>7, <1>8, <2>1 DEF Graph!Checkpoint, After
  <2> QED
    BY <1>5, <2>1, <2>2 DEF Graph!Closing
<1> QED
  BY <1>9 DEF Graph!Next, Graph!RunStep

\* The pending writes are not part of the atomic state.
LEMMA PutWritesGraph ==
  ASSUME IInv, ~overlapped, status # "deleted", NEW c \in Connection, PutWrites(c)
  PROVE  UNCHANGED Graph!vars
<1>1. /\ UNCHANGED <<status, rows, head, overtime, aborts>>
      /\ turn' = [turn EXCEPT ![c].written = TRUE] /\ turn[c].phase # "idle"
  BY DEF PutWrites, NodePhase
<1>2. \A d \in Connection : /\ turn'[d].phase = turn[d].phase /\ turn'[d].op = turn[d].op
                             /\ turn'[d].state = turn[d].state
  BY <1>1 DEF IInv, TypeOK
<1>3. Invocation' = InvocationOf(turn')
  BY DEF Invocation, InvocationOf, Running, Active, RunOf
<1>4. \A d \in Connection : d # c => turn[d].phase = "idle"
  BY <1>1, AloneBefore
<1>5. InvocationOf(turn') = RunOf(turn'[c]) /\ InvocationOf(turn) = RunOf(turn[c])
  BY <1>1, <1>2, <1>4, OneActive
<1>6. RunOf(turn'[c]) = RunOf(turn[c])
  BY <1>2 DEF RunOf
<1>7. Plain(Loaded)' = Plain(Loaded)
  BY <1>1 DEF Plain, Loaded, Ordered
<1> QED
  BY <1>1, <1>3, <1>5, <1>6, <1>7, InvocationIs DEF Graph!vars

\* While turns do not overlap and the attempt exists, the three tables and the
\* calls of the saver implement the atomic saved state of InterviewGraph: a turn
\* cut short between two calls leaves one of the states that module allows.
THEOREM GraphRefined == Spec => AloneImplementsGraph
<1>1. Init => Graph!Init
  <2> SUFFICES ASSUME Init PROVE Graph!Init
    OBVIOUS
  <2>1. Loaded = Blank /\ Plain(Loaded) = Graph!Blank
    BY PlainBlank, GraphSame DEF Init, Loaded
  <2>2. Invocation = Graph!Idle
    BY InvocationIs, NoneActive, RestingType, GraphSame DEF Init
  <2> QED
    BY <2>1, <2>2 DEF Init, Graph!Init
<1>2. IInv /\ IInv' /\ [Next]_vars
        => [overlapped' \/ status' = "deleted" \/ Graph!Next]_(Graph!vars)
  <2> SUFFICES ASSUME IInv, IInv', [Next]_vars, ~overlapped', status' # "deleted"
               PROVE  Graph!Next \/ UNCHANGED Graph!vars
    OBVIOUS
  <2>1. CASE UNCHANGED vars
    BY <2>1 DEF vars, tables, Graph!vars, Plain, Loaded, Ordered, Invocation, Running
  <2>2. CASE TimePasses
    <3>1. Plain(Loaded)' = Plain(Loaded) /\ Invocation' = Invocation
      BY <2>2 DEF TimePasses, tables, Plain, Loaded, Ordered, Invocation, Running
    <3>2. Graph!TimePasses
      BY <2>2, <3>1 DEF TimePasses, tables, Graph!TimePasses
    <3> QED
      BY <3>2 DEF Graph!Next
  <2>3. CASE Delete
    BY <2>3 DEF Delete
  <2>4. ASSUME NEW c \in Connection, NEW op \in Operation, Begin(c, op) PROVE Graph!Next
    <3>1. status # "deleted"
      BY <2>4 DEF Begin, Started
    <3> QED
      BY <2>4, <3>1, BeginGraph
  <2>5. ASSUME NEW c \in Connection, CompleteIfEnded(c) PROVE Graph!Next
    <3>1. /\ turn[c].phase = "finish" /\ turn' = [turn EXCEPT ![c] = Resting]
          /\ UNCHANGED <<tables, overtime, aborts, overlapped>>
          /\ status # "deleted" /\ ~overlapped
          /\ status' = IF Loaded.ended THEN "completed" ELSE status
      BY <2>5 DEF CompleteIfEnded
    <3>2. /\ Invocation' = Idle /\ Plain(Loaded)' = Plain(Loaded) /\ head' = head
          /\ Invocation = RunOf(turn[c]) /\ Plain(Loaded).ended = Loaded.ended
      BY <3>1, RestAlone, AloneBefore, PlainIs
    <3>3. Graph!CompleteIfEnded
      BY <3>1, <3>2, GraphSame DEF Graph!CompleteIfEnded, RunOf
    <3> QED
      BY <3>3 DEF Graph!Next, Graph!RunStep
  <2>6. ASSUME NEW c \in Connection, Abort(c) PROVE Graph!Next
    <3>1. /\ turn[c].phase # "idle" /\ turn' = [turn EXCEPT ![c] = Resting]
          /\ UNCHANGED <<status, tables, overtime, overlapped>>
          /\ aborts < MaxAborts /\ aborts' = aborts + 1
          /\ status # "deleted" /\ ~overlapped
      BY <2>6 DEF Abort
    <3>2. /\ Invocation' = Idle /\ Plain(Loaded)' = Plain(Loaded) /\ head' = head
          /\ Invocation = RunOf(turn[c])
      BY <3>1, RestAlone, AloneBefore
    <3>3. Graph!Abort
      BY <3>1, <3>2, GraphSame DEF Graph!Abort, RunOf
    <3> QED
      BY <3>3 DEF Graph!Next
  <2>7. ASSUME NEW c \in Connection,
               \/ SaveInput(c) \/ PutWrites(c) \/ ApplyInput(c)
               \/ Prepare(c) \/ Interviewer(c) \/ Closing(c)
        PROVE  Graph!Next \/ UNCHANGED Graph!vars
    <3>1. status' = status /\ overlapped' = overlapped
      <4>1. \A p, n : Put(c, p, n) => status' = status /\ overlapped' = overlapped
        BY DEF Put
      <4> QED
        BY <2>7, <4>1 DEF SaveInput, PutWrites, ApplyInput, Prepare, Interviewer, Closing
    <3> QED
      BY <2>7, <3>1, SaveInputGraph, PutWritesGraph, ApplyInputGraph, PrepareGraph,
         InterviewerGraph, ClosingGraph
  <2> QED
    BY <2>1, <2>2, <2>3, <2>4, <2>5, <2>6, <2>7 DEF Next
<1> QED
  BY <1>1, <1>2, Invariance, PTL DEF Spec, AloneImplementsGraph
=============================================================================
