---------------------------- MODULE Checkpointer ----------------------------
(***************************************************************************)
(* InterviewSQLiteCheckpointer: the rows in which one attempt's thread is  *)
(* kept, under turns of several connections.  Nothing stops two            *)
(* connections from running a turn each.  A database operation never       *)
(* suspends, so each call of the saver is one step; between the calls of a *)
(* turn anything may happen.                                               *)
(*                                                                         *)
(* When no two turns overlap the rows implement the atomic saved state of  *)
(* InterviewGraph; whatever happens they implement a Transcript.           *)
(***************************************************************************)
EXTENDS InterviewRules

CONSTANTS
  Connection,  \* each has at most one turn at a time
  NoRow,       \* no row in interview_graph_state
  MaxTurns,    \* bound: turns begun
  MaxAborts    \* bound: turns cancelled or failed by a provider

ASSUME CheckpointerAssumption ==
  /\ Connection # {}
  /\ MaxTurns \in Nat
  /\ MaxAborts \in Nat

VARIABLES
  status,      \* interview_attempts.status, "deleted" once the row is gone
  rows,        \* interview_messages
  head,        \* the row of interview_graph_state
  writes,      \* interview_graph_writes
  turn,        \* per connection, the invocation in progress
  overtime,    \* the wall clock has passed limits.max_duration_minutes
  ids,         \* identifiers handed out: [message, checkpoint]
  begun,       \* turns begun
  aborts,      \* turns aborted
  overlapped   \* two turns have been in progress together

tables == <<rows, head, writes>>
vars == <<status, tables, turn, overtime, ids, begun, aborts, overlapped>>

\* A message as the database keeps it: with its langgraph_message_id.
Stored == [id : Nat, role : Role, topic : TopicSet \cup {NoTopic, Fallback}]
Row == [sequence : Nat, message : Stored]
NodePhase == {"apply", "prepare", "interviewer", "closing"}

State == StateWith(Stored)
StateRow == [id : Nat, values : State]

ASSUME NoRowAssumption == NoRow \notin StateRow

\* configurable.checkpoint_id of a turn, and whether its task's writes are put.
Resting == [phase |-> "idle", op |-> "start", state |-> Blank, checkpoint |-> 0,
            written |-> FALSE]

TypeOK ==
  /\ status \in {"ready", "in_progress", "completed", "deleted"}
  /\ rows \subseteq Row
  /\ head = NoRow \/ head \in StateRow
  /\ writes \subseteq [checkpoint : Nat, task : Connection]
  /\ turn \in [Connection -> [phase : Phase, op : Operation, state : State,
                              checkpoint : Nat, written : BOOLEAN]]
  /\ overtime \in BOOLEAN /\ overlapped \in BOOLEAN
  /\ ids \in [message : Nat, checkpoint : Nat]
  /\ begun \in 0..MaxTurns /\ aborts \in 0..MaxAborts

-----------------------------------------------------------------------------
(* The saver.                                                              *)

\* SELECT content_json FROM interview_messages ORDER BY sequence
InOrder(table) ==
  LET Before(r) == Cardinality({q \in table : q.sequence < r.sequence})
  IN  [i \in 1..Cardinality(table) |-> (CHOOSE r \in table : Before(r) = i - 1).message]

Ordered == InOrder(rows)

\* aget_tuple: the values of the state row with the messages of the transcript.
Loaded == IF head = NoRow THEN Blank ELSE [head.values EXCEPT !.messages = Ordered]

\* Mutant of Upserted: the conflict clause names the sequence, so the later
\* message replaces the one that is there.
UpsertedBySequence(messages) ==
  {r \in rows : r.sequence >= Len(messages)}
    \cup {[sequence |-> i - 1, message |-> messages[i]] : i \in DOMAIN messages}

\* aput: INSERT ... ON CONFLICT(attempt_id, langgraph_message_id) DO UPDATE
Upserted(messages) ==
  {r \in rows : \A i \in DOMAIN messages : messages[i].id # r.message.id}
    \cup {[sequence |-> i - 1, message |-> messages[i]] : i \in DOMAIN messages}

\* Mutant of Acceptable: the table lacks UNIQUE(attempt_id, sequence).
AcceptableTwice(table) == status # "deleted"

\* _attempt_id finds the attempt, and UNIQUE(attempt_id, sequence) holds.
Acceptable(table) ==
  /\ status # "deleted"
  /\ \A r, q \in table : r.sequence = q.sequence => r = q

KeptWrites(checkpoint) == {w \in writes : w.checkpoint = checkpoint}

\* Mutant of StateJson: the topics that were covered stay out of the row.
StateJsonUncovered(s) == [s EXCEPT !.messages = << >>, !.covered = {}]

\* The messages are popped from the channel values before they are stored.
StateJson(s) == [s EXCEPT !.messages = << >>]

\* aput in one transaction; when it raises, the turn that called it fails.
Put(c, phase, s) ==
  LET id == ids.checkpoint + 1 IN
  /\ IF Acceptable(Upserted(s.messages))
     THEN /\ rows' = Upserted(s.messages)
          /\ head' = [id |-> id, values |-> StateJson(s)]
          /\ writes' = KeptWrites(id)
          /\ turn' = [turn EXCEPT ![c] = [@ EXCEPT !.phase = phase, !.state = s,
                                          !.checkpoint = id, !.written = FALSE]]
     ELSE /\ turn' = [turn EXCEPT ![c] = Resting]
          /\ UNCHANGED tables
  /\ ids' = [message |-> ids.message + Len(s.messages) - Len(turn[c].state.messages),
             checkpoint |-> id]
  /\ UNCHANGED <<status, overtime, begun, aborts, overlapped>>

\* aput_writes, when a task of the graph has finished and its checkpoint is not
\* saved yet.
PutWrites(c) ==
  /\ turn[c].phase \in NodePhase /\ ~turn[c].written
  /\ IF status # "deleted"
     THEN /\ writes' = writes \cup {[checkpoint |-> turn[c].checkpoint, task |-> c]}
          /\ turn' = [turn EXCEPT ![c].written = TRUE]
     ELSE turn' = [turn EXCEPT ![c] = Resting] /\ UNCHANGED writes
  /\ UNCHANGED <<status, rows, head, overtime, ids, begun, aborts, overlapped>>

-----------------------------------------------------------------------------
(* The turns that use it.                                                  *)

Init ==
  /\ status = "ready"
  /\ rows = {} /\ head = NoRow /\ writes = {}
  /\ turn = [c \in Connection |-> Resting]
  /\ overtime = FALSE /\ overlapped = FALSE
  /\ ids = [message |-> 0, checkpoint |-> 0]
  /\ begun = 0 /\ aborts = 0

\* mark_started
Started == IF status \in {"completed", "deleted"} THEN status ELSE "in_progress"

\* InterviewSession.start, respond and end load the thread and hand it to the
\* graph; start leaves a thread with a checkpoint as it is.
Begin(c, op) ==
  /\ turn[c].phase = "idle" /\ begun < MaxTurns
  /\ status' = IF op = "end" THEN status ELSE Started
  /\ IF op = "start" /\ head # NoRow
     THEN UNCHANGED <<turn, begun, overlapped>>
     ELSE /\ turn' = [turn EXCEPT ![c] =
                       [Resting EXCEPT !.phase = "input", !.op = op, !.state = Loaded,
                          !.checkpoint = IF head = NoRow THEN 0 ELSE head.id]]
          /\ begun' = begun + 1
          /\ overlapped' = (overlapped \/ \E d \in Connection : turn[d].phase # "idle")
  /\ UNCHANGED <<tables, overtime, ids, aborts>>

\* The message a step of the graph appends gets an identifier of its own.
Named(s) ==
  [s EXCEPT !.messages = [i \in DOMAIN @ |->
     IF "id" \in DOMAIN @[i] THEN @[i]
     ELSE [id |-> ids.message + 1, role |-> @[i].role, topic |-> @[i].topic]]]

SaveInput(c) == turn[c].phase = "input" /\ Put(c, "apply", turn[c].state)

ApplyInput(c) ==
  /\ turn[c].phase = "apply" /\ turn[c].written
  /\ Put(c, "prepare", Named(WithInput(turn[c].state, turn[c].op)))

Prepare(c) ==
  /\ turn[c].phase = "prepare" /\ turn[c].written
  /\ LET s == Prepared(turn[c].state, overtime) IN Put(c, Route(s), s)

Interviewer(c) ==
  /\ turn[c].phase = "interviewer" /\ turn[c].written
  /\ Put(c, "finish", Named(Asked(turn[c].state)))

Closing(c) ==
  /\ turn[c].phase = "closing" /\ turn[c].written
  /\ Put(c, "finish", Named(Closed(turn[c].state)))

\* _complete_if_ended asks the saver for the state once more.
CompleteIfEnded(c) ==
  /\ turn[c].phase = "finish"
  /\ status' = IF status # "deleted" /\ Loaded.ended THEN "completed" ELSE status
  /\ turn' = [turn EXCEPT ![c] = Resting]
  /\ UNCHANGED <<tables, overtime, ids, begun, aborts, overlapped>>

\* The provider fails, the turn is cancelled, or the process crashes.
Abort(c) ==
  /\ turn[c].phase # "idle" /\ aborts < MaxAborts
  /\ aborts' = aborts + 1
  /\ turn' = [turn EXCEPT ![c] = Resting]
  /\ UNCHANGED <<status, tables, overtime, ids, begun, overlapped>>

\* AttemptRepository.delete, which cascades to the three tables.
Delete ==
  /\ status # "deleted"
  /\ status' = "deleted"
  /\ rows' = {} /\ head' = NoRow /\ writes' = {}
  /\ UNCHANGED <<turn, overtime, ids, begun, aborts, overlapped>>

TimePasses ==
  /\ ~overtime /\ overtime' = TRUE
  /\ UNCHANGED <<status, tables, turn, ids, begun, aborts, overlapped>>

Next ==
  \/ \E c \in Connection :
       \/ \E op \in Operation : Begin(c, op)
       \/ SaveInput(c) \/ PutWrites(c) \/ ApplyInput(c) \/ Prepare(c)
       \/ Interviewer(c) \/ Closing(c) \/ CompleteIfEnded(c) \/ Abort(c)
  \/ Delete \/ TimePasses

Spec == Init /\ [][Next]_vars

-----------------------------------------------------------------------------
(* Properties.                                                             *)

\* Readers of interview_messages see a transcript, also when two turns write it
\* at once and when the attempt is deleted under them: what was stored keeps
\* its place and its identifier until all of it goes.
Log == INSTANCE Transcript WITH
  Entry <- Stored, log <- Ordered, dropped <- status = "deleted"
ImplementsTranscript == Log!Spec

\* A sequence number is the position in the transcript, so that an answer can
\* be found again by it.
SequenceIsPosition == {r.sequence : r \in rows} = 0..(Cardinality(rows) - 1)

\* Two turns on one thread never both ask: a question opens the transcript or
\* follows an answer.
QuestionsFollowAnswers ==
  \A i \in DOMAIN Ordered :
    Ordered[i].role = "question" => i = 1 \/ Ordered[i - 1].role = "human"

\* While turns do not overlap, the pending writes aget_tuple returns come from a
\* task that ran on the state it returns; those of older states are gone.
WritesAreCurrent ==
  ~overlapped => \A w \in writes : head # NoRow /\ w.checkpoint = head.id

\* A turn that outlives its attempt stores nothing.
NothingOutlivesAttempt ==
  status = "deleted" => rows = {} /\ head = NoRow /\ writes = {}

\* What a load relies on: its three queries return rows that belong together.
TablesConsistent ==
  TypeOK /\ SequenceIsPosition /\ WritesAreCurrent /\ NothingOutlivesAttempt

\* While turns do not overlap, the three tables and the calls of the saver
\* implement the atomic saved state that InterviewGraph is about.
Plain(s) == [s EXCEPT !.messages =
               [i \in DOMAIN @ |-> [role |-> @[i].role, topic |-> @[i].topic]]]
Running == {c \in Connection : turn[c].phase # "idle"}
Invocation ==
  IF Running = {} THEN Idle
  ELSE LET t == turn[CHOOSE c \in Running : TRUE]
       IN  [phase |-> t.phase, op |-> t.op, state |-> Plain(t.state)]
Graph == INSTANCE InterviewGraph WITH
  exists <- head # NoRow, saved <- Plain(Loaded), run <- Invocation,
  MaxMessages <- 3 * MaxTurns
AloneImplementsGraph ==
  Graph!Init /\ [][overlapped' \/ status' = "deleted" \/ Graph!Next]_Graph!vars

\* "The checkpoint state references and reconstructs messages from those rows
\* instead of serializing a duplicate message history" (PLAN.md): with nothing
\* running, the counters belong to the transcript, overlap or not.
QuestionsIn(s) == {i \in DOMAIN s.messages : s.messages[i].role = "question"}
RowAlwaysMatchesTranscript ==
  Running = {} => Loaded.asked = Cardinality(QuestionsIn(Loaded))
=============================================================================
