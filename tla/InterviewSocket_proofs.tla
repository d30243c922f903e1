----------------------- MODULE InterviewSocket_proofs -----------------------
(***************************************************************************)
(* Proofs about InterviewSocket, for any number of turns, sentences and    *)
(* segments, with and without text to speech.                              *)
(***************************************************************************)
EXTENDS InterviewSocket, SequenceTheorems, TLAPS

-----------------------------------------------------------------------------
(* The inductive invariant.  The tasks queued since the last               *)
(* assistant.audio.cancelled, those after silenced, are the current chain. *)

Current(j) == j > silenced

\* Each task of the current chain awaits the one queued before it.
Linked ==
  /\ tail = IF Len(speech) = silenced THEN 0 ELSE Len(speech)
  /\ \A j \in DOMAIN speech :
       Current(j) => speech[j].after = IF j = silenced + 1 THEN 0 ELSE j - 1

\* Whoever speaks, or has spoken, does so when all before it in the chain have.
Chained ==
  \A i, j \in DOMAIN speech :
    (Current(i) /\ i < j /\ speech[j].state \in {"speaking", "done"})
      => speech[i].state = "done"

\* What is tracked is what is left of the current chain.
Tracked == tracked = {j \in DOMAIN speech : Current(j) /\ ~Ended(j)}

\* While cancel_audio waits, what is left of the chain was cancelled or was
\* queued behind a task that was.
Cancelling ==
  handler.at = "audio" =>
    /\ conn
    /\ handler.tasks # {}
    /\ \A j \in handler.tasks :
         /\ j \in DOMAIN speech /\ Current(j)
         /\ speech[j].cancelled /\ speech[j].state # "done"
    /\ \A k \in DOMAIN speech : Current(k) =>
         \/ k \in handler.tasks \/ speech[k].state = "done"
         \/ \E c \in handler.tasks : c < k
    /\ handler.event \in {"user.text", "session.end"} => turns < MaxTurns

\* At any other time nothing of the current chain is cancelled.
Undisturbed ==
  (conn /\ handler.at # "audio") =>
    \A j \in DOMAIN speech : Current(j) => ~speech[j].cancelled /\ speech[j].state # "dead"

\* The handler of a closed connection awaits nothing.
Closed == ~conn => handler.at = "receive"

\* Without spoken replies the current chain is empty, or being cancelled.
Quiet == ~spoken => silenced = Len(speech) \/ handler.at = "audio"

\* The forgotten chains will not speak any more.
Forgotten == Mute(1..silenced)

Chain == /\ Linked /\ Chained /\ Tracked /\ Cancelling
         /\ Undisturbed /\ Closed /\ Quiet /\ Forgotten

IInv == TypeOK /\ Chain /\ CompletedIsTold

-----------------------------------------------------------------------------
(* The types of tasks and turns.                                           *)

States == {"waiting", "speaking", "done", "dead"}
Turn == [phase : TurnPhase, op : {"start", "respond", "end"},
         snapshot : BOOLEAN, on : 0..MaxSpeech, told : BOOLEAN]

LEMMA Bounds ==
  /\ MaxTurns \in Nat \ {0} /\ MaxSpeech \in Nat \ {0} /\ MaxSegments \in Nat \ {0}
  /\ SpeechOn \in BOOLEAN
  BY SocketAssumption

LEMMA Lengths ==
  ASSUME TypeOK
  PROVE  /\ Len(speech) \in Nat /\ Len(speech) <= MaxSpeech
         /\ DOMAIN speech = 1..Len(speech) /\ silenced \in Nat /\ silenced <= Len(speech)
         /\ tail \in 0..MaxSpeech
  BY Bounds DEF TypeOK

LEMMA TaskFields ==
  ASSUME TypeOK
  PROVE  \A j \in DOMAIN speech :
           /\ j \in Nat /\ j # 0 /\ j <= Len(speech)
           /\ speech[j] \in Task /\ speech[j].state \in States
           /\ speech[j].after \in 0..MaxSpeech /\ speech[j].cancelled \in BOOLEAN
<1>1. \A j \in DOMAIN speech : speech[j] \in Task
  BY DEF TypeOK
<1>2. \A task \in Task : /\ task.state \in States /\ task.after \in 0..MaxSpeech
                         /\ task.cancelled \in BOOLEAN
  BY DEF Task, States
<1>3. \A j \in DOMAIN speech : j \in Nat /\ j # 0 /\ j <= Len(speech)
  BY Lengths
<1> QED
  BY <1>1, <1>2, <1>3

LEMMA SameLength ==
  ASSUME NEW f \in Seq(Task), NEW g \in [DOMAIN f -> Task]
  PROVE  g \in Seq(Task) /\ Len(g) = Len(f) /\ DOMAIN g = DOMAIN f
<1>1. Len(f) \in Nat /\ DOMAIN f = 1..Len(f)
  OBVIOUS
<1>2. g \in [1..Len(f) -> Task]
  BY <1>1
<1>3. g \in Seq(Task)
  BY <1>1, <1>2, SeqDef
<1> QED
  BY <1>1, <1>2, <1>3, LenProperties

LEMMA TurnTypes ==
  /\ NoTurn \in Turn
  /\ \A told \in BOOLEAN : TurnOver(told) \in Turn
  /\ \A op \in {"start", "respond", "end"}, snapshot \in BOOLEAN :
       [NoTurn EXCEPT !.phase = "created", !.op = op, !.snapshot = snapshot] \in Turn
<1>1. NoTurn \in Turn
  BY Bounds DEF NoTurn, Turn, TurnPhase
<1>2. ASSUME NEW told \in BOOLEAN
      PROVE  TurnOver(told) \in Turn
  BY <1>1 DEF TurnOver, Turn, TurnPhase
<1>3. ASSUME NEW op \in {"start", "respond", "end"}, NEW snapshot \in BOOLEAN
      PROVE  [NoTurn EXCEPT !.phase = "created", !.op = op, !.snapshot = snapshot] \in Turn
  BY <1>1, <1>3 DEF Turn, TurnPhase
<1> QED
  BY <1>1, <1>2, <1>3

LEMMA BegunType ==
  ASSUME TypeOK, NEW op \in {"start", "respond", "end"}, NEW snapshot \in BOOLEAN,
         NEW telling \in Interaction, BeginTurn(op, snapshot, telling),
         ~Busy => turns < MaxTurns
  PROVE  turn' \in Turn /\ turns' \in 0..MaxTurns /\ shown' \in {"error", telling}
<1>1. turn \in Turn /\ turns \in 0..MaxTurns /\ MaxTurns \in Nat
  BY Bounds DEF TypeOK, Turn
<1>2. CASE Busy
  BY <1>1, <1>2 DEF BeginTurn
<1>3. CASE ~Busy
  <2>1. turn' = [NoTurn EXCEPT !.phase = "created", !.op = op, !.snapshot = snapshot]
    BY <1>3 DEF BeginTurn
  <2>2. turn' \in Turn
    BY <2>1, TurnTypes
  <2> QED
    BY <1>1, <1>3, <2>2 DEF BeginTurn
<1> QED
  BY <1>2, <1>3

-----------------------------------------------------------------------------
(* What a step does to the chain.                                          *)

\* A step that leaves the tasks alone.
LEMMA StillFrame ==
  ASSUME IInv, UNCHANGED <<conn, audio>>, spoken' = spoken \/ spoken' = TRUE,
         \/ handler' = handler
         \/ conn /\ handler.at # "audio" /\ handler'.at # "audio",
         turns' = turns \/ handler.at # "audio"
  PROVE  Chain'
<1>1. /\ UNCHANGED <<conn, speech, tracked, tail, silenced>> /\ Chain
      /\ spoken \in BOOLEAN
  BY DEF audio, IInv, TypeOK
<1>2. Linked' /\ Chained' /\ Tracked' /\ Forgotten'
  BY <1>1 DEF Chain, Linked, Chained, Tracked, Forgotten, Mute, Current, Ended
<1>3. Undisturbed' /\ Closed' /\ Quiet'
  BY <1>1 DEF Chain, Undisturbed, Closed, Quiet, Current
<1>4. Cancelling'
  BY <1>1 DEF Chain, Cancelling, Current
<1> QED
  BY <1>2, <1>3, <1>4 DEF Chain

\* What a step may make of a task that is queued.
Advance(j) ==
  /\ speech'[j].after = speech[j].after
  /\ speech[j].cancelled => speech'[j].cancelled
  /\ \/ speech'[j].state = speech[j].state
     \/ /\ speech[j].state = "waiting" /\ speech'[j].state = "speaking"
        /\ ~speech[j].cancelled
        /\ speech[j].after # 0 => speech[speech[j].after].state = "done"
     \/ speech[j].state = "speaking" /\ speech'[j].state = "done"
     \/ ~Ended(j) /\ speech'[j].state = "dead"

\* A step that only advances tasks keeps what the chain says of their order.
LEMMA AdvanceFrame ==
  ASSUME IInv, UNCHANGED <<tail, silenced>>, DOMAIN speech' = DOMAIN speech,
         Len(speech') = Len(speech), \A j \in DOMAIN speech : Advance(j)
  PROVE  Linked' /\ Chained' /\ Forgotten'
<1>1. /\ Len(speech) \in Nat /\ DOMAIN speech = 1..Len(speech)
      /\ silenced \in Nat /\ silenced <= Len(speech)
      /\ Linked /\ Chained /\ Forgotten
      /\ \A j \in DOMAIN speech : j \in Nat /\ j # 0 /\ speech[j].state \in States
  BY Lengths, TaskFields DEF IInv, Chain
<1>2. Linked'
  BY <1>1 DEF Linked, Current, Advance
<1>3. Chained'
  <2> SUFFICES ASSUME NEW i \in DOMAIN speech, NEW j \in DOMAIN speech, i > silenced, i < j,
                      speech'[j].state \in {"speaking", "done"}
               PROVE  speech'[i].state = "done"
    BY DEF Chained, Current
  <2>1. speech[i].state = "done" => speech'[i].state = "done"
    BY DEF Advance, Ended
  <2>2. CASE speech[j].state \in {"speaking", "done"}
    BY <1>1, <2>1, <2>2 DEF Chained, Current
  <2>3. CASE speech[j].state \notin {"speaking", "done"}
    <3>1. speech[j].after # 0 => speech[speech[j].after].state = "done"
      BY <2>3 DEF Advance
    <3>2. speech[j].after = j - 1 /\ j - 1 \in DOMAIN speech /\ j - 1 # 0
      <4>1. j # silenced + 1 /\ j > silenced /\ j - 1 # 0 /\ j - 1 \in DOMAIN speech
        BY <1>1
      <4> QED
        BY <1>1, <4>1 DEF Linked, Current
    <3>3. speech[j - 1].state = "done" /\ (i = j - 1 \/ i < j - 1)
      BY <1>1, <3>1, <3>2
    <3>4. speech[i].state = "done"
      BY <1>1, <3>2, <3>3 DEF Chained, Current
    <3> QED
      BY <2>1, <3>4
  <2> QED
    BY <2>2, <2>3
<1>4. Forgotten'
  <2> SUFFICES ASSUME NEW k \in 1..silenced
               PROVE  \/ speech'[k].state \in {"done", "dead"}
                      \/ /\ speech'[k].state = "waiting"
                         /\ \/ speech'[k].cancelled
                            \/ /\ speech'[k].after \in 1..silenced
                               /\ speech'[speech'[k].after].state # "done"
    BY DEF Forgotten, Mute, Ended
  <2>1. k \in DOMAIN speech /\ Advance(k)
    BY <1>1
  <2>2. \/ Ended(k)
        \/ /\ speech[k].state = "waiting"
           /\ \/ speech[k].cancelled
              \/ speech[k].after \in 1..silenced /\ speech[speech[k].after].state # "done"
    BY <1>1 DEF Forgotten, Mute
  <2>3. CASE Ended(k)
    BY <2>1, <2>3 DEF Advance, Ended
  <2>4. CASE speech[k].state = "waiting" /\ speech[k].cancelled
    BY <2>1, <2>4 DEF Advance
  <2>5. CASE /\ speech[k].state = "waiting" /\ speech[k].after \in 1..silenced
             /\ speech[speech[k].after].state # "done"
    <3> DEFINE a == speech[k].after
    <3>1. a \in DOMAIN speech /\ Advance(a) /\ a # 0
      BY <1>1, <2>5
    <3>2. speech[a].state # "speaking"
      BY <1>1, <2>5 DEF Forgotten, Mute, Ended
    <3>3. speech'[a].state # "done"
      BY <2>5, <3>1, <3>2 DEF Advance
    <3>4. /\ speech'[k].after = a
          /\ speech'[k].state = "waiting" \/ speech'[k].state = "dead"
      BY <2>1, <2>5, <3>1 DEF Advance
    <3> QED
      BY <2>5, <3>3, <3>4
  <2> QED
    BY <2>2, <2>3, <2>4, <2>5
<1> QED
  BY <1>2, <1>3, <1>4

\* One speech task runs, ends or dies.
LEMMA TaskFrame ==
  ASSUME IInv, NEW j \in DOMAIN speech, NEW s \in States \ {"waiting"},
         speech' = [speech EXCEPT ![j].state = s], Advance(j), speech[j].state # s,
         tracked' = IF s = "speaking" THEN tracked ELSE tracked \ {j},
         s = "done" => ~speech[j].cancelled,
         s = "dead" => \/ ~Unhindered(j)
                       \/ speech[j].after # 0 /\ speech[speech[j].after].state = "dead",
         UNCHANGED <<conn, handler, tail, silenced, spoken, turns>>
  PROVE  /\ Chain' /\ speech' \in Seq(Task) /\ Len(speech') = Len(speech)
         /\ DOMAIN speech' = DOMAIN speech
<1>1. /\ speech \in Seq(Task) /\ \A k \in DOMAIN speech : speech[k] \in Task
      /\ DOMAIN speech = 1..Len(speech) /\ silenced \in Nat /\ Len(speech) \in Nat
      /\ \A k \in DOMAIN speech : k \in Nat /\ k # 0 /\ speech[k].state \in States
      /\ Linked /\ Chained /\ Tracked /\ Cancelling /\ Undisturbed /\ Closed /\ Quiet
  BY Lengths, TaskFields DEF IInv, Chain, TypeOK
<1>2. /\ speech' = [k \in DOMAIN speech |-> speech'[k]]
      /\ \A k \in DOMAIN speech : k # j => speech'[k] = speech[k]
      /\ speech'[j] = [speech[j] EXCEPT !.state = s]
  BY <1>1
<1>3. /\ speech'[j] \in Task /\ speech'[j].state = s
      /\ speech'[j].after = speech[j].after /\ speech'[j].cancelled = speech[j].cancelled
  BY <1>1, <1>2 DEF Task, States
<1>4. speech' \in Seq(Task) /\ Len(speech') = Len(speech) /\ DOMAIN speech' = DOMAIN speech
  <2>1. \A k \in DOMAIN speech : speech'[k] \in Task
    BY <1>1, <1>2, <1>3
  <2>2. speech \in Seq(Task) /\ speech' \in [DOMAIN speech -> Task]
    BY <1>1, <1>2, <2>1
  <2> QED
    BY <2>2, SameLength
<1>5. \A k \in DOMAIN speech : Advance(k)
  BY <1>2 DEF Advance
<1>6. Linked' /\ Chained' /\ Forgotten'
  BY <1>4, <1>5, AdvanceFrame
<1>7. /\ \A k \in DOMAIN speech : speech'[k].cancelled = speech[k].cancelled
      /\ \A k \in DOMAIN speech : k # j => speech'[k].state = speech[k].state
      /\ speech[j].state \notin {"done", "dead"}
  BY <1>2, <1>3 DEF Advance, Ended, States
<1>8. Tracked'
  <2>1. CASE s = "speaking"
    BY <1>1, <1>3, <1>4, <1>7, <2>1 DEF Tracked, Current, Ended
  <2>2. CASE s \in {"done", "dead"}
    BY <1>1, <1>3, <1>4, <1>7, <2>2 DEF Tracked, Current, Ended
  <2> QED
    BY <2>1, <2>2 DEF States
<1>9. Cancelling'
  <2> SUFFICES ASSUME handler.at = "audio"
               PROVE  Cancelling'
    BY DEF Cancelling
  <2>1. \A k \in handler.tasks :
          /\ k \in DOMAIN speech' /\ k > silenced
          /\ speech'[k].cancelled /\ speech'[k].state # "done"
    BY <1>1, <1>3, <1>4, <1>7 DEF Cancelling, Current
  <2>2. \A k \in DOMAIN speech' : k > silenced =>
          \/ k \in handler.tasks \/ speech'[k].state = "done"
          \/ \E c \in handler.tasks : c < k
    BY <1>1, <1>3, <1>4, <1>7 DEF Cancelling, Current
  <2> QED
    BY <1>1, <2>1, <2>2 DEF Cancelling, Current
<1>10. Undisturbed'
  <2> SUFFICES ASSUME conn, handler.at # "audio", NEW k \in DOMAIN speech, k > silenced
               PROVE  ~speech'[k].cancelled /\ speech'[k].state # "dead"
    BY <1>4 DEF Undisturbed, Current
  <2>1. \A i \in DOMAIN speech : i > silenced => ~speech[i].cancelled /\ speech[i].state # "dead"
    BY <1>1 DEF Undisturbed, Current
  <2>2. ASSUME k = j, s = "dead"
        PROVE  FALSE
    <3>1. speech[j].after # 0 /\ speech[speech[j].after].state = "dead"
      BY <2>1, <2>2 DEF Unhindered
    <3>2. speech[j].after = j - 1 /\ j # silenced + 1
      BY <1>1, <2>2, <3>1 DEF Linked, Current
    <3>3. j - 1 \in DOMAIN speech /\ j - 1 > silenced
      BY <1>1, <2>2, <3>2
    <3> QED
      BY <2>1, <3>1, <3>2, <3>3
  <2> QED
    BY <1>3, <1>7, <2>1, <2>2
<1>11. Closed' /\ Quiet'
  BY <1>1, <1>4 DEF Closed, Quiet
<1> QED
  BY <1>4, <1>6, <1>8, <1>9, <1>10, <1>11 DEF Chain

\* A sentence is queued behind the chain.
LEMMA QueueFrame ==
  ASSUME IInv, QueueSpeech, conn, spoken,
         UNCHANGED <<conn, handler, spoken, silenced, turns>>
  PROVE  /\ Chain' /\ speech' \in Seq(Task) /\ Len(speech') = Len(speech) + 1
         /\ Len(speech') <= MaxSpeech /\ tracked' \subseteq DOMAIN speech'
         /\ tail' = Len(speech') /\ tail' \in DOMAIN speech' /\ tail' # 0
         /\ speech'[tail'].state = "waiting" /\ silenced <= Len(speech')
<1> DEFINE n == Len(speech) + 1
           task == [state |-> "waiting", after |-> tail, cancelled |-> FALSE]
<1>1. /\ speech \in Seq(Task) /\ Len(speech) \in Nat /\ DOMAIN speech = 1..Len(speech)
      /\ silenced \in Nat /\ silenced <= Len(speech) /\ tail \in 0..MaxSpeech
      /\ MaxSpeech \in Nat /\ tracked \subseteq DOMAIN speech
      /\ \A k \in DOMAIN speech : k \in Nat /\ k # 0 /\ k <= Len(speech) /\ k # n
      /\ Linked /\ Chained /\ Tracked /\ Cancelling /\ Undisturbed /\ Closed /\ Quiet /\ Forgotten
  BY Bounds, Lengths, TaskFields DEF IInv, Chain, TypeOK
<1>2. Len(speech) < MaxSpeech /\ tail' = n /\ tracked' = tracked \cup {n}
      /\ speech' = Append(speech, task)
  BY DEF QueueSpeech
<1>3. task \in Task /\ task.state = "waiting" /\ task.after = tail /\ task.cancelled = FALSE
  BY <1>1 DEF Task
<1>4. /\ speech' \in Seq(Task) /\ Len(speech') = n /\ DOMAIN speech' = 1..n
      /\ speech'[n] = task /\ \A k \in DOMAIN speech : speech'[k] = speech[k]
  <2> HIDE DEF task
  <2> QED
    BY <1>1, <1>2, <1>3, AppendProperties
<1>5. DOMAIN speech' = DOMAIN speech \cup {n} /\ n > silenced /\ n \in Nat
  BY <1>1, <1>4
<1> HIDE DEF n, task
<1>6. Linked'
  <2>1. tail' = IF Len(speech') = silenced' THEN 0 ELSE Len(speech')
    BY <1>1, <1>2, <1>4, <1>5
  <2>2. tail = IF n = silenced + 1 THEN 0 ELSE n - 1
    <3>1. Len(speech) \in Nat /\ silenced \in Nat
      BY <1>1
    <3>2. /\ n - 1 = Len(speech) /\ (n = silenced + 1 <=> Len(speech) = silenced)
      BY <3>1 DEF n
    <3>3. tail = IF Len(speech) = silenced THEN 0 ELSE Len(speech)
      BY <1>1 DEF Linked
    <3> QED
      BY <3>2, <3>3
  <2>3. \A k \in DOMAIN speech' :
          k > silenced => speech'[k].after = IF k = silenced + 1 THEN 0 ELSE k - 1
    BY <1>1, <1>3, <1>4, <1>5, <2>2 DEF Linked, Current
  <2> QED
    BY <2>1, <2>3 DEF Linked, Current
<1>7. Chained'
  <2> SUFFICES ASSUME NEW i \in DOMAIN speech', NEW j \in DOMAIN speech', i > silenced, i < j,
                      speech'[j].state \in {"speaking", "done"}
               PROVE  speech'[i].state = "done"
    BY DEF Chained, Current
  <2>1. j \in DOMAIN speech
    BY <1>3, <1>4, <1>5
  <2>2. i \in DOMAIN speech
    BY <1>1, <1>4, <1>5, <2>1 DEF n
  <2> QED
    BY <1>1, <1>4, <2>1, <2>2 DEF Chained, Current
<1>8. Tracked'
  BY <1>1, <1>2, <1>3, <1>4, <1>5 DEF Tracked, Current, Ended
<1>9. Cancelling'
  <2> SUFFICES ASSUME handler.at = "audio"
               PROVE  Cancelling'
    BY DEF Cancelling
  <2>1. /\ handler.tasks # {}
        /\ \A k \in handler.tasks :
             k \in DOMAIN speech /\ k > silenced /\ speech[k].cancelled /\ speech[k].state # "done"
        /\ \A k \in DOMAIN speech : k > silenced =>
             \/ k \in handler.tasks \/ speech[k].state = "done"
             \/ \E c \in handler.tasks : c < k
        /\ handler.event \in {"user.text", "session.end"} => turns < MaxTurns
    BY <1>1 DEF Cancelling, Current
  <2>2. \E c \in handler.tasks : c < n
    BY <1>1, <2>1 DEF n
  <2>3. \A k \in handler.tasks :
          /\ k \in DOMAIN speech' /\ k > silenced
          /\ speech'[k].cancelled /\ speech'[k].state # "done"
    BY <1>4, <1>5, <2>1
  <2>4. \A k \in DOMAIN speech' : k > silenced =>
          \/ k \in handler.tasks \/ speech'[k].state = "done"
          \/ \E c \in handler.tasks : c < k
    BY <1>4, <1>5, <2>1, <2>2
  <2> QED
    BY <2>1, <2>3, <2>4 DEF Cancelling, Current
<1>10. Undisturbed' /\ Closed' /\ Quiet'
  BY <1>1, <1>3, <1>4, <1>5 DEF Undisturbed, Closed, Quiet, Current
<1>11. Forgotten'
  <2>1. \A k \in 1..silenced : k \in DOMAIN speech /\ speech'[k] = speech[k]
    BY <1>1, <1>4
  <2> QED
    BY <1>1, <2>1 DEF Forgotten, Mute, Ended
<1>12. /\ Len(speech') = Len(speech) + 1 /\ Len(speech') <= MaxSpeech
       /\ tracked' \subseteq DOMAIN speech' /\ silenced <= Len(speech')
       /\ tail' = Len(speech') /\ tail' \in DOMAIN speech' /\ tail' # 0
  BY <1>1, <1>2, <1>4, <1>5 DEF n
<1>13. speech'[tail'].state = "waiting"
  BY <1>2, <1>3, <1>4
<1> QED
  BY <1>4, <1>6, <1>7, <1>8, <1>9, <1>10, <1>11, <1>12, <1>13 DEF Chain

\* The tracked tasks are cancelled, by the handler or at a disconnect.
LEMMA CancelFrame ==
  ASSUME IInv, UNCHANGED <<tracked, tail, silenced>>,
         speech' = [j \in DOMAIN speech |->
                      IF j \in tracked THEN [speech[j] EXCEPT !.cancelled = TRUE]
                      ELSE speech[j]]
  PROVE  /\ Linked' /\ Chained' /\ Forgotten' /\ Tracked'
         /\ speech' \in Seq(Task) /\ Len(speech') = Len(speech)
         /\ DOMAIN speech' = DOMAIN speech
         /\ \A k \in DOMAIN speech : speech'[k].state = speech[k].state
         /\ \A k \in tracked : speech'[k].cancelled
<1>1. /\ speech \in Seq(Task) /\ \A k \in DOMAIN speech : speech[k] \in Task
      /\ tracked \subseteq DOMAIN speech /\ Tracked
  BY DEF IInv, Chain, TypeOK
<1>2. \A k \in DOMAIN speech :
        /\ speech'[k] \in Task /\ speech'[k].state = speech[k].state
        /\ speech'[k].after = speech[k].after
        /\ speech[k].cancelled => speech'[k].cancelled
        /\ k \in tracked => speech'[k].cancelled
  <2> SUFFICES ASSUME NEW k \in DOMAIN speech
               PROVE  /\ speech'[k] \in Task /\ speech'[k].state = speech[k].state
                      /\ speech'[k].after = speech[k].after
                      /\ speech[k].cancelled => speech'[k].cancelled
                      /\ k \in tracked => speech'[k].cancelled
    OBVIOUS
  <2>1. CASE k \in tracked
    <3>1. speech'[k] = [speech[k] EXCEPT !.cancelled = TRUE] /\ speech[k] \in Task
      BY <1>1, <2>1
    <3> QED
      BY <3>1 DEF Task
  <2>2. CASE k \notin tracked
    <3>1. speech'[k] = speech[k]
      BY <2>2
    <3> QED
      BY <1>1, <2>2, <3>1
  <2> QED
    BY <2>1, <2>2
<1>3. speech' = [k \in DOMAIN speech |-> speech'[k]]
  OBVIOUS
<1>4. speech' \in Seq(Task) /\ Len(speech') = Len(speech) /\ DOMAIN speech' = DOMAIN speech
  <2>1. \A k \in DOMAIN speech : speech'[k] \in Task
    BY <1>2
  <2>2. speech' \in [DOMAIN speech -> Task]
    BY <1>3, <2>1
  <2> QED
    BY <1>1, <2>2, SameLength
<1>5. \A k \in DOMAIN speech : Advance(k)
  BY <1>2 DEF Advance
<1>6. Linked' /\ Chained' /\ Forgotten'
  BY <1>4, <1>5, AdvanceFrame
<1>7. Tracked'
  BY <1>1, <1>2, <1>4 DEF Tracked, Current, Ended
<1> QED
  BY <1>1, <1>2, <1>4, <1>6, <1>7

LEMMA CancelAudioFrame ==
  ASSUME IInv, NEW event \in CancelEvent, CancelAudio(event)
  PROVE  /\ Chain' /\ speech' \in Seq(Task) /\ Len(speech') = Len(speech)
         /\ DOMAIN speech' = DOMAIN speech
<1>1. /\ conn /\ handler.at = "receive" /\ tracked # {}
      /\ event \in {"user.text", "session.end"} => turns < MaxTurns
      /\ handler' = [at |-> "audio", event |-> event, tasks |-> tracked]
      /\ UNCHANGED <<conn, tracked, tail, silenced, turns>>
  BY DEF CancelAudio, Admitted, Receiving, counts
<1>2. /\ Linked' /\ Chained' /\ Forgotten' /\ Tracked'
      /\ speech' \in Seq(Task) /\ Len(speech') = Len(speech) /\ DOMAIN speech' = DOMAIN speech
      /\ \A k \in DOMAIN speech : speech'[k].state = speech[k].state
      /\ \A k \in tracked : speech'[k].cancelled
  BY <1>1, CancelFrame DEF CancelAudio
<1>3. /\ handler'.at = "audio" /\ handler'.event = event /\ handler'.tasks = tracked
  BY <1>1
<1>4. /\ \A k \in tracked : k \in DOMAIN speech /\ k > silenced /\ speech[k].state # "done"
      /\ \A k \in DOMAIN speech :
           k > silenced => k \in tracked \/ speech[k].state = "done"
  <2>1. tracked = {j \in DOMAIN speech : j > silenced /\ ~Ended(j)}
    BY DEF IInv, Chain, Tracked, Current
  <2>2. \A k \in DOMAIN speech : k > silenced => speech[k].state # "dead"
    BY <1>1 DEF IInv, Chain, Undisturbed, Current
  <2> QED
    BY <2>1, <2>2 DEF Ended
<1>5. Cancelling'
  <2>1. \A k \in tracked :
          /\ k \in DOMAIN speech' /\ k > silenced
          /\ speech'[k].cancelled /\ speech'[k].state # "done"
    BY <1>2, <1>4
  <2>2. \A k \in DOMAIN speech' :
          k > silenced => k \in tracked \/ speech'[k].state = "done"
    BY <1>2, <1>4
  <2> QED
    BY <1>1, <1>3, <2>1, <2>2 DEF Cancelling, Current
<1>6. Undisturbed' /\ Closed' /\ Quiet'
  BY <1>1, <1>3 DEF Undisturbed, Closed, Quiet
<1> QED
  BY <1>2, <1>5, <1>6 DEF Chain

\* When cancel_audio ends, whatever is left of the chain waits behind a task that
\* has died.
LEMMA NothingLeft ==
  ASSUME IInv, handler.at = "audio", \A j \in handler.tasks : Ended(j)
  PROVE  Mute(1..Len(speech))
<1>1. /\ Len(speech) \in Nat /\ DOMAIN speech = 1..Len(speech)
      /\ silenced \in Nat /\ silenced <= Len(speech)
      /\ \A j \in DOMAIN speech : j \in Nat /\ j # 0 /\ speech[j].state \in States
  BY Lengths, TaskFields DEF IInv
<1>2. /\ \A j \in handler.tasks :
           j \in DOMAIN speech /\ j > silenced /\ speech[j].state = "dead"
      /\ \A k \in DOMAIN speech : k > silenced =>
           \/ k \in handler.tasks \/ speech[k].state = "done"
           \/ \E c \in handler.tasks : c < k
  BY DEF IInv, Chain, Cancelling, Current, Ended
<1> SUFFICES ASSUME NEW k \in DOMAIN speech
             PROVE  \/ Ended(k)
                    \/ /\ speech[k].state = "waiting"
                       /\ \/ speech[k].cancelled
                          \/ /\ speech[k].after \in DOMAIN speech
                             /\ speech[speech[k].after].state # "done"
  BY <1>1 DEF Mute
<1>3. CASE k <= silenced
  <2>1. k \in 1..silenced /\ 1..silenced \subseteq DOMAIN speech
    BY <1>1, <1>3
  <2> QED
    BY <2>1 DEF IInv, Chain, Forgotten, Mute
<1>4. CASE k > silenced /\ (k \in handler.tasks \/ speech[k].state = "done")
  BY <1>2, <1>4 DEF Ended
<1>5. CASE k > silenced /\ \E c \in handler.tasks : c < k
  <2>1. PICK c \in handler.tasks : c < k
    BY <1>5
  <2>2. c \in DOMAIN speech /\ c > silenced /\ speech[c].state = "dead"
    BY <1>2
  <2>3. speech[k].state \notin {"speaking", "done"}
    BY <1>5, <2>1, <2>2 DEF IInv, Chain, Chained, Current
  <2>4. k # silenced + 1 /\ k - 1 \in DOMAIN speech /\ (c = k - 1 \/ c < k - 1)
    BY <1>1, <1>5, <2>1, <2>2
  <2>5. speech[k].after = k - 1
    BY <1>5, <2>4 DEF IInv, Chain, Linked, Current
  <2>6. speech[k - 1].state # "done"
    BY <2>2, <2>4 DEF IInv, Chain, Chained, Current
  <2> QED
    BY <1>1, <2>3, <2>4, <2>5, <2>6 DEF States, Ended
<1> QED
  BY <1>1, <1>2, <1>3, <1>4, <1>5

LEMMA AudioCancelledFrame ==
  ASSUME IInv, NEW event \in CancelEvent, AudioCancelled(event)
  PROVE  Chain'
<1>1. /\ handler' = Receive /\ tracked' = {} /\ tail' = 0 /\ silenced' = Len(speech)
      /\ UNCHANGED <<conn, speech>>
  BY DEF AudioCancelled
<1>2. /\ Len(speech) \in Nat /\ DOMAIN speech = 1..Len(speech) /\ silenced \in Nat
      /\ \A k \in DOMAIN speech : k \in Nat /\ ~(k > Len(speech))
  BY Lengths, TaskFields DEF IInv
<1>3. Mute(1..Len(speech))
  <2>1. CASE handler.at = "audio" /\ \A j \in handler.tasks : Ended(j)
    BY <2>1, NothingLeft
  <2>2. CASE Admitted(event) /\ tracked = {}
    <3>1. \A k \in DOMAIN speech : k > silenced => Ended(k)
      BY <2>2 DEF IInv, Chain, Tracked, Current
    <3>2. \A k \in DOMAIN speech : k > silenced \/ k \in 1..silenced
      BY <1>2
    <3>3. 1..silenced \subseteq DOMAIN speech
      BY Lengths DEF IInv
    <3> QED
      BY <1>2, <3>1, <3>2, <3>3 DEF IInv, Chain, Forgotten, Mute
  <2> QED
    BY <2>1, <2>2 DEF AudioCancelled
<1>4. Forgotten'
  BY <1>1, <1>3 DEF Forgotten, Mute, Ended
<1>5. handler'.at = "receive"
  BY <1>1 DEF Receive
<1>6. Linked' /\ Chained' /\ Tracked' /\ Undisturbed'
  BY <1>1, <1>2 DEF Linked, Chained, Tracked, Undisturbed, Current
<1>7. Cancelling' /\ Closed' /\ Quiet'
  BY <1>1, <1>5 DEF Cancelling, Closed, Quiet
<1> QED
  BY <1>4, <1>6, <1>7 DEF Chain

-----------------------------------------------------------------------------
(* Every step keeps the invariant.                                         *)

\* The parts of the state a step may leave alone, and their types.
Handler == [at : Awaiting, event : CancelEvent, tasks : SUBSET (1..MaxSpeech)]
Status == {"ready", "in_progress", "paused", "completed"}

TaskTypes ==
  /\ speech \in Seq(Task) /\ Len(speech) <= MaxSpeech
  /\ tracked \subseteq DOMAIN speech
  /\ tail \in {0} \cup DOMAIN speech
  /\ silenced \in 0..Len(speech)

OtherTypes ==
  /\ conn \in BOOLEAN /\ handler \in Handler
  /\ spoken \in BOOLEAN /\ recording \in BOOLEAN /\ pending \in BOOLEAN
  /\ segments \in 0..MaxSegments
  /\ untaken \in BOOLEAN

TalkTypes ==
  /\ turn \in Turn /\ turns \in 0..MaxTurns
  /\ status \in Status /\ shown \in Interaction

LEMMA TypeParts == TypeOK <=> TaskTypes /\ OtherTypes /\ TalkTypes
  BY DEF TypeOK, TaskTypes, OtherTypes, TalkTypes, Handler, Turn, Status

LEMMA TypePartsNext == TypeOK' <=> TaskTypes' /\ OtherTypes' /\ TalkTypes'
  BY DEF TypeOK, TaskTypes, OtherTypes, TalkTypes, Handler, Turn, Status

LEMMA HandlerTypes ==
  /\ Receive \in Handler /\ Receive.at = "receive"
  /\ \A at \in {"transcribe", "observe"} :
       [Receive EXCEPT !.at = at] \in Handler /\ [Receive EXCEPT !.at = at].at = at
  BY DEF Receive, Handler, Awaiting, CancelEvent

LEMMA InitInv == ASSUME Init PROVE IInv
<1>1. /\ conn = TRUE /\ handler = Receive /\ turn = NoTurn /\ speech = << >>
      /\ tracked = {} /\ tail = 0 /\ silenced = 0 /\ turns = 0 /\ untaken = FALSE
      /\ shown = "working" /\ recording = FALSE /\ segments = 0 /\ pending = FALSE
      /\ status \in {"ready", "in_progress", "paused", "completed"} /\ spoken \in BOOLEAN
  BY Bounds DEF Init
<1>2. speech \in Seq(Task) /\ Len(speech) = 0 /\ DOMAIN speech = {}
  BY <1>1
<1>3. handler \in [at : Awaiting, event : CancelEvent, tasks : SUBSET (1..MaxSpeech)]
  BY <1>1 DEF Receive, Awaiting, CancelEvent
<1>4. handler.at = "receive" /\ turn \in Turn
  BY <1>1, TurnTypes DEF Receive
<1>5. TypeOK
  <2>1. TaskTypes
    BY <1>1, <1>2, Bounds DEF TaskTypes
  <2>2. OtherTypes
    <3>1. segments \in 0..MaxSegments
      BY <1>1, Bounds
    <3>2. handler \in Handler
      BY <1>3 DEF Handler
    <3>3. /\ conn \in BOOLEAN /\ recording \in BOOLEAN /\ pending \in BOOLEAN
          /\ untaken \in BOOLEAN
      BY <1>1
    <3> QED
      BY <1>1, <3>1, <3>2, <3>3 DEF OtherTypes
  <2>3. TalkTypes
    BY <1>1, <1>4, Bounds DEF TalkTypes, Status, Interaction
  <2> QED
    BY <2>1, <2>2, <2>3, TypeParts
<1>6. Linked /\ Chained /\ Tracked /\ Cancelling
  BY <1>1, <1>2, <1>4 DEF Linked, Chained, Tracked, Cancelling
<1>7. Undisturbed /\ Closed /\ Quiet
  BY <1>1, <1>2, <1>4 DEF Undisturbed, Closed, Quiet
<1>8. Forgotten
  BY <1>1 DEF Forgotten, Mute
<1> QED
  BY <1>1, <1>5, <1>6, <1>7, <1>8 DEF IInv, Chain, CompletedIsTold

\* An event that touches no task: its parts.
LEMMA EventFrame ==
  ASSUME IInv, UNCHANGED <<conn, audio>>, conn, handler.at # "audio",
         spoken' \in {spoken, TRUE}, handler' \in Handler, handler'.at # "audio",
         recording' \in BOOLEAN, pending' \in BOOLEAN, untaken' \in BOOLEAN,
         segments' \in 0..MaxSegments, turn' \in Turn, turns' \in 0..MaxTurns,
         status' \in Status, shown' \in Interaction,
         status = "completed" => status' = "completed",
         shown' = "completed" => shown = "completed"
  PROVE  IInv'
<1>1. Chain'
  BY StillFrame
<1>2. TaskTypes' /\ OtherTypes' /\ TalkTypes'
  BY TypeParts DEF IInv, audio, TaskTypes, OtherTypes, TalkTypes
<1>3. CompletedIsTold'
  BY DEF IInv, CompletedIsTold
<1> QED
  BY <1>1, <1>2, <1>3, TypePartsNext DEF IInv

LEMMA ClientStep == ASSUME IInv, ClientEvent PROVE IInv'
<1>1. /\ TaskTypes /\ OtherTypes /\ TalkTypes
      /\ MaxTurns \in Nat /\ MaxSegments \in Nat \ {0}
  BY TypeParts, Bounds DEF IInv
<1>2. TypeOK
  BY DEF IInv
<1>3. Receiving => conn /\ handler.at # "audio"
  BY DEF Receiving
<1> USE DEF device, counts, Interaction, Status
<1>4. CASE SessionStart
  <2>1. Receiving /\ (~Busy => turns < MaxTurns) /\ BeginTurn("start", FALSE, "working")
    BY <1>4 DEF SessionStart, MayBegin
  <2>2. turn' \in Turn /\ turns' \in 0..MaxTurns /\ shown' \in {"error", "working"}
    BY <1>2, <2>1, BegunType
  <2> QED
    BY <1>1, <1>3, <1>4, <2>1, <2>2, EventFrame DEF SessionStart, OtherTypes, TalkTypes
<1>5. CASE AudioStart \/ AudioChunk \/ TurnCancel \/ TextRefused
  <2>1. /\ Receiving /\ UNCHANGED <<conn, handler, turn, audio, spoken, status, counts>>
        /\ recording' \in BOOLEAN /\ pending' \in BOOLEAN /\ segments' \in 0..MaxSegments
        /\ shown' \in {shown, "working", "error", "ready_for_answer"}
    <3>1. CASE AudioStart
      <4>1. recording' \in {recording, FALSE} /\ shown' \in {"working", "error"}
        BY <3>1 DEF AudioStart
      <4> QED
        BY <1>1, <3>1, <4>1 DEF AudioStart, OtherTypes
    <3>2. CASE AudioChunk
      <4>1. recording' \in {recording, TRUE} /\ shown' \in {shown, "error"}
        BY <3>2 DEF AudioChunk
      <4> QED
        BY <1>1, <3>2, <4>1 DEF AudioChunk, OtherTypes
    <3>3. CASE TurnCancel
      <4>1. /\ recording' = FALSE /\ segments' = 0 /\ pending' = FALSE
            /\ shown' = "ready_for_answer"
        BY <3>3 DEF TurnCancel, ClearDevice
      <4>2. Receiving /\ UNCHANGED <<conn, handler, turn, audio, spoken, status, counts>>
        BY <3>3 DEF TurnCancel
      <4>3. recording' \in BOOLEAN /\ pending' \in BOOLEAN
        BY <4>1
      <4>4. segments' \in 0..MaxSegments
        BY <1>1, <4>1
      <4> QED
        BY <4>1, <4>2, <4>3, <4>4
    <3>4. CASE TextRefused
      <4>1. UNCHANGED <<recording, segments, pending>> /\ shown' = "error"
        BY <3>4 DEF TextRefused
      <4>2. Receiving /\ UNCHANGED <<conn, handler, turn, audio, spoken, status, counts>>
        BY <3>4 DEF TextRefused
      <4>3. recording' \in BOOLEAN /\ pending' \in BOOLEAN /\ segments' \in 0..MaxSegments
        BY <1>1, <4>1 DEF OtherTypes
      <4> QED
        BY <4>1, <4>2, <4>3
    <3> QED
      BY <1>5, <3>1, <3>2, <3>3, <3>4
  <2> QED
    BY <1>1, <1>3, <2>1, EventFrame DEF OtherTypes, TalkTypes
<1>6. CASE AudioEnd \/ CanvasSnapshot
  <2>1. /\ Receiving /\ UNCHANGED <<conn, turn, audio, spoken, segments, pending, status, counts>>
        /\ recording' \in BOOLEAN /\ shown' \in {shown, "working", "error"}
        /\ handler' \in Handler /\ handler'.at # "audio"
    BY <1>1, <1>6, HandlerTypes DEF AudioEnd, CanvasSnapshot, OtherTypes, Receiving
  <2> QED
    BY <1>1, <1>3, <2>1, EventFrame DEF OtherTypes, TalkTypes
<1>7. CASE TurnEnd
  <2>1. /\ Receiving /\ (~Busy => turns < MaxTurns)
        /\ UNCHANGED <<conn, handler, audio, spoken, recording, status>>
    BY <1>7 DEF TurnEnd, MayBegin
  <2>2. CASE segments = 0
    <3>1. shown' = "error" /\ UNCHANGED <<turn, turns, segments, pending, untaken>>
      BY <1>7, <2>2 DEF TurnEnd
    <3> QED
      BY <1>1, <1>3, <2>1, <3>1, EventFrame DEF OtherTypes, TalkTypes
  <2>3. CASE segments # 0
    <3>1. /\ untaken' = (untaken \/ Busy) /\ segments' = 0 /\ pending' = FALSE
          /\ BeginTurn("respond", pending, "working")
      BY <1>7, <2>3 DEF TurnEnd
    <3>2. turn' \in Turn /\ turns' \in 0..MaxTurns /\ shown' \in {"error", "working"}
      BY <1>1, <1>2, <2>1, <3>1, BegunType DEF OtherTypes
    <3>3. untaken' \in BOOLEAN /\ segments' \in 0..MaxSegments
      BY <1>1, <3>1
    <3> QED
      BY <1>1, <1>3, <2>1, <3>1, <3>2, <3>3, EventFrame DEF OtherTypes, TalkTypes
  <2> QED
    BY <2>2, <2>3
<1>8. CASE SessionResume
  BY <1>1, <1>3, <1>8, EventFrame DEF SessionResume, Started, OtherTypes, TalkTypes
<1>9. CASE SpeakReplies
  BY <1>1, <1>3, <1>9, EventFrame DEF SpeakReplies, OtherTypes, TalkTypes
<1> QED
  BY <1>4, <1>5, <1>6, <1>7, <1>8, <1>9 DEF ClientEvent

LEMMA ProviderStep == ASSUME IInv, Transcribed \/ Observed PROVE IInv'
<1>1. /\ TaskTypes /\ OtherTypes /\ TalkTypes /\ MaxSegments \in Nat \ {0}
  BY TypeParts, Bounds DEF IInv
<1>2. conn /\ handler.at \in {"transcribe", "observe"}
  BY DEF Transcribed, Observed, IInv, Chain, Closed
<1>3. handler' \in Handler /\ handler'.at # "audio"
  BY HandlerTypes DEF Transcribed, Observed
<1>4. /\ UNCHANGED <<conn, turn, audio, spoken, recording, status, turns, untaken>>
      /\ shown' \in {shown, "ready_for_answer", "error"}
  BY DEF Transcribed, Observed, counts
<1>5. segments' \in 0..MaxSegments
  <2>1. segments \in 0..MaxSegments
    BY <1>1 DEF OtherTypes
  <2>2. segments' = segments \/ (segments < MaxSegments /\ segments' = segments + 1)
    BY DEF Transcribed, Observed
  <2> QED
    BY <1>1, <2>1, <2>2
<1>6. pending' \in BOOLEAN
  <2>1. pending' = pending \/ pending' = TRUE
    BY DEF Transcribed, Observed
  <2> QED
    BY <1>1, <2>1 DEF OtherTypes
<1>7. shown' \in Interaction
  BY <1>1, <1>4 DEF TalkTypes, Interaction
<1> QED
  BY <1>1, <1>2, <1>3, <1>4, <1>5, <1>6, <1>7, EventFrame DEF OtherTypes, TalkTypes

\* The handler ends, and with it the connection; the tasks are left alone.
LEMMA TranscriptionFailsStep == ASSUME IInv, TranscriptionFails PROVE IInv'
<1>1. TaskTypes /\ OtherTypes /\ TalkTypes /\ Chain
  BY TypeParts DEF IInv
<1>2. /\ handler.at # "audio" /\ handler' = Receive /\ conn' = FALSE
      /\ UNCHANGED <<turn, audio, spoken, device, status, shown, counts>>
  BY DEF TranscriptionFails
<1>3. handler' \in Handler /\ handler'.at = "receive"
  BY <1>2, HandlerTypes
<1>4. TaskTypes' /\ TalkTypes'
  BY <1>1, <1>2 DEF TaskTypes, TalkTypes, audio, counts
<1>5. OtherTypes'
  BY <1>1, <1>2, <1>3 DEF OtherTypes, device, counts
<1>6. Linked' /\ Chained' /\ Tracked' /\ Forgotten'
  BY <1>1, <1>2 DEF audio, Chain, Linked, Chained, Tracked, Forgotten, Mute, Current, Ended
<1>7. Cancelling' /\ Undisturbed' /\ Closed' /\ Quiet'
  BY <1>1, <1>2, <1>3 DEF audio, Chain, Cancelling, Undisturbed, Closed, Quiet
<1>8. CompletedIsTold'
  BY <1>2 DEF IInv, CompletedIsTold
<1> QED
  BY <1>4, <1>5, <1>6, <1>7, <1>8, TypePartsNext DEF IInv, Chain

LEMMA CancelAudioStep == ASSUME IInv, NEW event \in CancelEvent, CancelAudio(event) PROVE IInv'
<1>1. TaskTypes /\ OtherTypes /\ TalkTypes
  BY TypeParts DEF IInv
<1>2. /\ Chain' /\ speech' \in Seq(Task) /\ Len(speech') = Len(speech)
      /\ DOMAIN speech' = DOMAIN speech
  BY CancelAudioFrame
<1>3. /\ handler' = [at |-> "audio", event |-> event, tasks |-> tracked]
      /\ spoken' = (spoken /\ event # "mode.update")
      /\ UNCHANGED <<conn, turn, tracked, tail, silenced, device, status, shown, counts>>
  BY DEF CancelAudio
<1>4. handler' \in Handler
  <2>1. tracked \in SUBSET (1..MaxSpeech)
    BY <1>1, Lengths, Bounds DEF TaskTypes, IInv
  <2> QED
    BY <1>3, <2>1 DEF Handler, Awaiting
<1>5. spoken' \in BOOLEAN
  BY <1>3
<1>6. TaskTypes'
  BY <1>1, <1>2, <1>3 DEF TaskTypes
<1>7. OtherTypes' /\ TalkTypes'
  BY <1>1, <1>3, <1>4, <1>5 DEF OtherTypes, TalkTypes, device, counts
<1>8. CompletedIsTold'
  BY <1>3 DEF IInv, CompletedIsTold
<1> QED
  BY <1>2, <1>6, <1>7, <1>8, TypePartsNext DEF IInv

\* user.text, session.pause, session.end, audio.output.cancel and mode.update,
\* once cancel_audio has ended.
LEMMA AudioCancelledStep ==
  ASSUME IInv, NEW event \in CancelEvent, AudioCancelled(event),
         recording' \in BOOLEAN, pending' \in BOOLEAN, segments' \in 0..MaxSegments,
         turn' \in Turn, turns' \in 0..MaxTurns, status' \in Status, shown' \in Interaction,
         status = "completed" => status' = "completed",
         shown' = "completed" => shown = "completed"
  PROVE  IInv'
<1>1. TaskTypes /\ OtherTypes /\ TalkTypes
  BY TypeParts DEF IInv
<1>2. /\ handler' = Receive /\ tracked' = {} /\ tail' = 0 /\ silenced' = Len(speech)
      /\ spoken' = (spoken /\ event # "mode.update") /\ UNCHANGED <<conn, speech, untaken>>
  BY DEF AudioCancelled
<1>3. Chain'
  BY AudioCancelledFrame
<1>4. TaskTypes'
  <2>1. Len(speech) \in 0..Len(speech)
    BY Lengths DEF IInv
  <2> QED
    BY <1>1, <1>2, <2>1 DEF TaskTypes
<1>5. spoken' \in BOOLEAN /\ handler' \in Handler
  BY <1>2, HandlerTypes
<1>6. OtherTypes' /\ TalkTypes'
  BY <1>1, <1>2, <1>5 DEF OtherTypes, TalkTypes
<1>7. CompletedIsTold'
  BY DEF IInv, CompletedIsTold
<1> QED
  BY <1>3, <1>4, <1>6, <1>7, TypePartsNext DEF IInv

LEMMA CancelStepStep == ASSUME IInv, CancelStep PROVE IInv'
<1>1. /\ TaskTypes /\ OtherTypes /\ TalkTypes /\ TypeOK /\ 0 \in 0..MaxSegments
  BY TypeParts, Bounds DEF IInv
<1>2. \A event \in {"user.text", "session.end"} : AudioCancelled(event) => turns < MaxTurns
  BY DEF AudioCancelled, Admitted, IInv, Chain, Cancelling
<1>3. {"user.text", "session.pause", "session.end", "audio.output.cancel", "mode.update"}
        \subseteq CancelEvent
  BY DEF CancelEvent
<1>4. ASSUME NEW event \in CancelEvent, CancelAudio(event)
      PROVE  IInv'
  BY <1>4, CancelAudioStep
<1>5. CASE AnswerText
  <2>1. AudioCancelled("user.text") /\ UNCHANGED <<recording, segments, status>>
    BY <1>5 DEF AnswerText
  <2>2. /\ turn' \in Turn /\ turns' \in 0..MaxTurns /\ shown' \in {shown, "error"}
        /\ pending' \in BOOLEAN
    <3>1. CASE pending' = FALSE /\ BeginTurn("respond", pending, shown)
      <4>1. /\ turn' \in Turn /\ turns' \in 0..MaxTurns /\ shown' \in {"error", shown}
        BY <1>1, <1>2, <2>1, <3>1, BegunType DEF OtherTypes, TalkTypes
      <4> QED
        BY <3>1, <4>1
    <3>2. CASE shown' = "error" /\ UNCHANGED <<turn, turns, pending>>
      BY <1>1, <3>2 DEF OtherTypes, TalkTypes
    <3> QED
      BY <1>5, <3>1, <3>2 DEF AnswerText
  <2> QED
    BY <1>1, <1>3, <2>1, <2>2, AudioCancelledStep DEF OtherTypes, TalkTypes, Interaction
<1>6. CASE PauseSession
  <2>1. /\ AudioCancelled("session.pause") /\ UNCHANGED <<turn, turns>>
        /\ recording' = FALSE /\ segments' = 0 /\ pending' = FALSE
        /\ status' = (IF status = "in_progress" THEN "paused" ELSE status)
        /\ shown' = "paused"
    BY <1>6 DEF PauseSession, ClearDevice
  <2>2. recording' \in BOOLEAN /\ pending' \in BOOLEAN
    BY <2>1
  <2>3. status' \in Status /\ (status = "completed" => status' = "completed")
    BY <1>1, <2>1 DEF TalkTypes, Status
  <2> QED
    BY <1>1, <1>3, <2>1, <2>2, <2>3, AudioCancelledStep DEF TalkTypes, Interaction
<1>7. CASE EndSession
  <2>1. /\ AudioCancelled("session.end") /\ UNCHANGED status
        /\ recording' = FALSE /\ segments' = 0 /\ pending' = FALSE
        /\ BeginTurn("end", pending, shown)
    BY <1>7 DEF EndSession, ClearDevice
  <2>2. recording' \in BOOLEAN /\ pending' \in BOOLEAN
    BY <2>1
  <2>3. turn' \in Turn /\ turns' \in 0..MaxTurns /\ shown' \in {"error", shown}
    BY <1>1, <1>2, <2>1, BegunType DEF OtherTypes, TalkTypes
  <2> QED
    BY <1>1, <1>3, <2>1, <2>2, <2>3, AudioCancelledStep DEF TalkTypes, Interaction
<1>8. CASE StopSpeaking
  <2>1. /\ UNCHANGED <<turn, turns, device, status, shown>>
        /\ AudioCancelled("audio.output.cancel") \/ AudioCancelled("mode.update")
    BY <1>8 DEF StopSpeaking
  <2> QED
    BY <1>1, <1>3, <2>1, AudioCancelledStep DEF OtherTypes, TalkTypes, device
<1> QED
  BY <1>4, <1>5, <1>6, <1>7, <1>8 DEF CancelStep

\* A step of the turn that touches no task.
LEMMA TurnFrameStep ==
  ASSUME IInv, TurnFrame, UNCHANGED audio, turn' \in Turn, status' \in Status,
         shown' \in Interaction, status = "completed" => status' = "completed",
         shown' = "completed" => shown = "completed" \/ status' = "completed"
  PROVE  IInv'
<1>1. TaskTypes /\ OtherTypes /\ TalkTypes
  BY TypeParts DEF IInv
<1>2. UNCHANGED <<conn, handler, spoken, device, turns, untaken>>
  BY DEF TurnFrame, counts
<1>3. Chain'
  BY <1>2, StillFrame
<1>4. TaskTypes' /\ OtherTypes' /\ TalkTypes'
  BY <1>1, <1>2 DEF audio, device, TaskTypes, OtherTypes, TalkTypes
<1>5. CompletedIsTold'
  BY DEF IInv, CompletedIsTold
<1> QED
  BY <1>3, <1>4, <1>5, TypePartsNext DEF IInv

\* Replacing fields of a turn keeps its type.
LEMMA TurnFields ==
  ASSUME TypeOK
  PROVE  /\ turn \in Turn /\ turn.told \in BOOLEAN
         /\ \A phase \in TurnPhase : [turn EXCEPT !.phase = phase] \in Turn
         /\ \A on \in 0..MaxSpeech : [turn EXCEPT !.phase = "speaking", !.on = on] \in Turn
         /\ [turn EXCEPT !.phase = "linking", !.told = TRUE] \in Turn
<1>1. turn \in Turn
  BY DEF TypeOK, Turn
<1>2. turn.told \in BOOLEAN
  BY <1>1 DEF Turn
<1>3. \A phase \in TurnPhase : [turn EXCEPT !.phase = phase] \in Turn
  BY <1>1 DEF Turn
<1>4. \A on \in 0..MaxSpeech : [turn EXCEPT !.phase = "speaking", !.on = on] \in Turn
  BY <1>1 DEF Turn, TurnPhase
<1>5. [turn EXCEPT !.phase = "linking", !.told = TRUE] \in Turn
  BY <1>1 DEF Turn, TurnPhase
<1> QED
  BY <1>1, <1>2, <1>3, <1>4, <1>5

\* A sentence queued by the turn.
LEMMA QueueStep ==
  ASSUME IInv, QueueSpeech, conn, spoken, TurnFrame, UNCHANGED <<silenced, status, shown>>,
         turn' \in Turn
  PROVE  IInv'
<1>1. TaskTypes /\ OtherTypes /\ TalkTypes
  BY TypeParts DEF IInv
<1>2. UNCHANGED <<conn, handler, spoken, device, turns, untaken>>
  BY DEF TurnFrame, counts
<1>3. /\ Chain' /\ speech' \in Seq(Task) /\ Len(speech') = Len(speech) + 1
      /\ Len(speech') <= MaxSpeech /\ tracked' \subseteq DOMAIN speech'
      /\ tail' \in DOMAIN speech'
  BY <1>2, QueueFrame
<1>4. TaskTypes'
  <2>1. silenced' \in 0..Len(speech')
    BY <1>3, Lengths DEF IInv
  <2> QED
    BY <1>3, <2>1 DEF TaskTypes
<1>5. OtherTypes' /\ TalkTypes'
  BY <1>1, <1>2 DEF device, OtherTypes, TalkTypes
<1>6. CompletedIsTold'
  BY DEF IInv, CompletedIsTold
<1> QED
  BY <1>3, <1>4, <1>5, <1>6, TypePartsNext DEF IInv

LEMMA SpokenTurn == ASSUME IInv, Sentence \/ AwaitSpeech PROVE IInv'
<1>1. /\ TaskTypes /\ OtherTypes /\ TalkTypes /\ TypeOK
  BY TypeParts DEF IInv
<1>2. turn \in Turn /\ TurnOver(FALSE) \in Turn
      /\ \A on \in 0..MaxSpeech : [turn EXCEPT !.phase = "speaking", !.on = on] \in Turn
  BY <1>1, TurnFields, TurnTypes
<1>3. CASE Sentence
  BY <1>2, <1>3, QueueStep DEF Sentence
<1>4. CASE AwaitSpeech
  <2>1. /\ conn /\ TurnFrame /\ UNCHANGED <<silenced, status, shown>>
        /\ (spoken /\ QueueSpeech) \/ UNCHANGED <<speech, tracked, tail>>
        /\ turn' = IF tail' # 0 /\ speech'[tail'].state = "dead" THEN TurnOver(FALSE)
                   ELSE [turn EXCEPT !.phase = "speaking", !.on = tail']
    BY <1>4 DEF AwaitSpeech
  <2>2. CASE spoken /\ QueueSpeech
    <3>1. tail' \in 0..MaxSpeech
      <4>1. UNCHANGED <<conn, handler, spoken, turns>>
        BY <2>1 DEF TurnFrame, counts
      <4>2. tail' \in DOMAIN speech' /\ speech' \in Seq(Task) /\ Len(speech') <= MaxSpeech
        BY <2>1, <2>2, <4>1, QueueFrame
      <4> QED
        BY <4>2, Bounds
    <3>2. turn' \in Turn
      BY <1>2, <2>1, <3>1
    <3> QED
      BY <2>1, <2>2, <3>2, QueueStep
  <2>3. CASE UNCHANGED <<speech, tracked, tail>>
    <3>1. tail' \in 0..MaxSpeech
      BY <1>1, <2>3, Lengths
    <3>2. turn' \in Turn
      BY <1>2, <2>1, <3>1
    <3> QED
      BY <1>1, <2>1, <2>3, <3>2, TurnFrameStep DEF TalkTypes, audio, IInv, CompletedIsTold
  <2> QED
    BY <2>1, <2>2, <2>3
<1> QED
  BY <1>3, <1>4

LEMMA TurnStepStep == ASSUME IInv, TurnStep PROVE IInv'
<1>1. /\ TaskTypes /\ OtherTypes /\ TalkTypes /\ TypeOK /\ CompletedIsTold
  BY TypeParts DEF IInv
<1>2. /\ turn \in Turn /\ turn.told \in BOOLEAN
      /\ \A phase \in TurnPhase : [turn EXCEPT !.phase = phase] \in Turn
      /\ [turn EXCEPT !.phase = "linking", !.told = TRUE] \in Turn
      /\ \A told \in BOOLEAN : TurnOver(told) \in Turn
  BY <1>1, TurnFields, TurnTypes
<1>3. "streaming" \in TurnPhase /\ "replied" \in TurnPhase
  BY DEF TurnPhase
<1> USE DEF TalkTypes, Status, Interaction
<1>4. CASE TurnBegins
  <2>1. /\ TurnFrame /\ UNCHANGED <<audio, shown>>
        /\ turn' = [turn EXCEPT !.phase = "streaming"]
        /\ status' = status \/ status' = Started
    BY <1>4 DEF TurnBegins
  <2> QED
    BY <1>1, <1>2, <1>3, <2>1, TurnFrameStep DEF Started
<1>5. CASE Sentence \/ AwaitSpeech
  BY <1>5, SpokenTurn
<1>6. CASE Replied
  <2>1. /\ TurnFrame /\ UNCHANGED <<audio, shown>>
        /\ turn' = [turn EXCEPT !.phase = "replied"]
    BY <1>6 DEF Replied
  <2>2. status' \in {status, "completed"}
    <3>1. turn.op \in {"start", "respond", "end"}
      BY <1>2 DEF Turn
    <3> QED
      BY <1>6, <3>1 DEF Replied
  <2> QED
    BY <1>1, <1>2, <1>3, <2>1, <2>2, TurnFrameStep
<1>7. CASE FinalState
  <2>1. /\ TurnFrame /\ UNCHANGED <<audio, status>>
        /\ shown' = (IF status = "completed" THEN "completed" ELSE "ready_for_answer")
        /\ turn' = IF turn.snapshot THEN [turn EXCEPT !.phase = "linking", !.told = TRUE]
                   ELSE TurnOver(TRUE)
    BY <1>7 DEF FinalState
  <2>2. turn' \in Turn
    BY <1>2, <2>1
  <2>3. /\ shown' \in Interaction
        /\ shown' = "completed" => status' = "completed"
    BY <2>1
  <2> QED
    BY <1>1, <2>1, <2>2, <2>3, TurnFrameStep
<1>8. CASE LinkSnapshot
  <2>1. TurnFrame /\ UNCHANGED <<audio, status, shown>> /\ turn' \in Turn
    BY <1>2, <1>8 DEF LinkSnapshot
  <2> QED
    BY <1>1, <2>1, TurnFrameStep
<1>9. CASE TurnFails
  <2>1. TurnFrame /\ UNCHANGED <<audio, status>> /\ shown' = "error" /\ turn' \in Turn
    BY <1>2, <1>9 DEF TurnFails
  <2> QED
    BY <1>1, <2>1, TurnFrameStep
<1>10. CASE TurnUnheard
  <2>1. TurnFrame /\ UNCHANGED <<audio, status, shown>> /\ turn' \in Turn
    BY <1>2, <1>10 DEF TurnUnheard
  <2> QED
    BY <1>1, <2>1, TurnFrameStep
<1> QED
  BY <1>4, <1>5, <1>6, <1>7, <1>8, <1>9, <1>10 DEF TurnStep

LEMMA SpeechStepStep == ASSUME IInv, NEW j \in 1..MaxSpeech, SpeechStep(j) PROVE IInv'
<1>1. /\ TaskTypes /\ OtherTypes /\ TalkTypes /\ TypeOK
  BY TypeParts DEF IInv
<1>2. j \in DOMAIN speech /\ (Speak(j) \/ SpeechDone(j) \/ SpeechDies(j))
  BY DEF SpeechStep
<1>3. speech[j] \in Task
  BY <1>1, <1>2, TaskFields
<1>4. UNCHANGED <<conn, handler, tail, silenced, spoken, device, status, shown, turns, untaken>>
  BY <1>2 DEF Speak, SpeechDone, SpeechDies, SpeechFrame, counts
<1>5. turn' \in Turn
  <2>1. turn' = turn \/ turn' = TurnOver(FALSE)
    BY <1>2 DEF Speak, SpeechDone, SpeechDies
  <2> QED
    BY <1>1, <2>1, TurnTypes DEF TalkTypes
<1>6. tracked' \subseteq tracked
  BY <1>2 DEF Speak, SpeechDone, SpeechDies
<1>7. /\ Chain' /\ speech' \in Seq(Task) /\ Len(speech') = Len(speech)
      /\ DOMAIN speech' = DOMAIN speech
  <2>1. \A s \in States : speech' = [speech EXCEPT ![j].state = s] =>
          /\ speech'[j].after = speech[j].after /\ speech'[j].state = s
          /\ speech'[j].cancelled = speech[j].cancelled
    <3> SUFFICES ASSUME NEW s \in States, speech' = [speech EXCEPT ![j].state = s]
                 PROVE  /\ speech'[j].after = speech[j].after /\ speech'[j].state = s
                        /\ speech'[j].cancelled = speech[j].cancelled
      OBVIOUS
    <3>1. speech'[j] = [speech[j] EXCEPT !.state = s]
      BY <1>2
    <3> QED
      BY <1>3, <3>1 DEF Task
  <2>2. CASE Speak(j)
    <3>1. /\ speech[j].state = "waiting" /\ ~speech[j].cancelled /\ tracked' = tracked
          /\ speech[j].after # 0 => speech[speech[j].after].state = "done"
          /\ speech' = [speech EXCEPT ![j].state = "speaking"]
      BY <2>2 DEF Speak, Unhindered
    <3>2. Advance(j) /\ speech[j].state # "speaking"
      BY <2>1, <3>1 DEF Advance, States
    <3> QED
      BY <1>2, <1>4, <3>1, <3>2, TaskFrame DEF States
  <2>3. CASE SpeechDone(j)
    <3>1. /\ speech[j].state = "speaking" /\ ~speech[j].cancelled /\ tracked' = tracked \ {j}
          /\ speech' = [speech EXCEPT ![j].state = "done"]
      BY <2>3 DEF SpeechDone, Unhindered
    <3>2. Advance(j) /\ speech[j].state # "done"
      BY <2>1, <3>1 DEF Advance, States
    <3> QED
      BY <1>2, <1>4, <3>1, <3>2, TaskFrame DEF States
  <2>4. CASE SpeechDies(j)
    <3>1. /\ ~Ended(j) /\ tracked' = tracked \ {j}
          /\ speech' = [speech EXCEPT ![j].state = "dead"]
          /\ \/ ~Unhindered(j)
             \/ speech[j].after # 0 /\ speech[speech[j].after].state = "dead"
      BY <2>4 DEF SpeechDies
    <3>2. Advance(j) /\ speech[j].state # "dead"
      BY <2>1, <3>1 DEF Advance, States, Ended
    <3>3. /\ "dead" \in States \ {"waiting"}
          /\ UNCHANGED <<conn, handler, tail, silenced, spoken, turns>>
      BY <1>4 DEF States
    <3> QED
      BY <1>2, <3>1, <3>2, <3>3, TaskFrame
  <2> QED
    BY <1>2, <2>2, <2>3, <2>4
<1>8. TaskTypes' /\ OtherTypes' /\ TalkTypes'
  BY <1>1, <1>4, <1>5, <1>6, <1>7 DEF device, TaskTypes, OtherTypes, TalkTypes
<1>9. CompletedIsTold'
  BY <1>4 DEF IInv, CompletedIsTold
<1> QED
  BY <1>7, <1>8, <1>9, TypePartsNext DEF IInv

LEMMA DisconnectStep == ASSUME IInv, Disconnect PROVE IInv'
<1>1. /\ TaskTypes /\ OtherTypes /\ TalkTypes /\ TypeOK
  BY TypeParts DEF IInv
<1>2. /\ handler.at = "receive" /\ conn' = FALSE
      /\ turn' = (IF Busy THEN TurnOver(turn.told) ELSE turn)
      /\ UNCHANGED <<handler, tracked, tail, silenced, spoken, device, status, shown, counts>>
  BY DEF Disconnect, Receiving
<1>3. /\ Linked' /\ Chained' /\ Forgotten' /\ Tracked'
      /\ speech' \in Seq(Task) /\ Len(speech') = Len(speech)
      /\ DOMAIN speech' = DOMAIN speech
  BY CancelFrame DEF Disconnect
<1>4. turn' \in Turn
  BY <1>1, <1>2, TurnFields, TurnTypes
<1>5. conn' \in BOOLEAN
  BY <1>2
<1>6. TaskTypes' /\ OtherTypes' /\ TalkTypes'
  BY <1>1, <1>2, <1>3, <1>4, <1>5 DEF device, counts, TaskTypes, OtherTypes, TalkTypes
<1>7. Cancelling' /\ Undisturbed' /\ Closed' /\ Quiet'
  BY <1>2, <1>3 DEF Cancelling, Undisturbed, Closed, Quiet, IInv, Chain
<1>8. CompletedIsTold'
  BY <1>2 DEF IInv, CompletedIsTold
<1> QED
  BY <1>3, <1>6, <1>7, <1>8, TypePartsNext DEF IInv, Chain

LEMMA StutterStep == ASSUME IInv, UNCHANGED vars PROVE IInv'
<1>1. TaskTypes /\ OtherTypes /\ TalkTypes
  BY TypeParts DEF IInv
<1>2. UNCHANGED <<conn, handler, turn, audio, spoken, recording, segments, pending, status,
                  shown, turns, untaken>>
  BY DEF vars, device, counts
<1>3. Chain'
  BY <1>2, StillFrame
<1>4. TaskTypes' /\ OtherTypes' /\ TalkTypes'
  BY <1>1, <1>2 DEF audio, TaskTypes, OtherTypes, TalkTypes
<1>5. CompletedIsTold'
  BY <1>2 DEF IInv, CompletedIsTold
<1> QED
  BY <1>3, <1>4, <1>5, TypePartsNext DEF IInv

LEMMA NextInv == ASSUME IInv, [Next]_vars PROVE IInv'
<1>1. CASE ClientEvent
  BY <1>1, ClientStep
<1>2. CASE Disconnect
  BY <1>2, DisconnectStep
<1>3. CASE CancelStep
  BY <1>3, CancelStepStep
<1>4. CASE Transcribed \/ Observed
  BY <1>4, ProviderStep
<1>5. CASE TranscriptionFails
  BY <1>5, TranscriptionFailsStep
<1>6. CASE TurnStep
  BY <1>6, TurnStepStep
<1>7. CASE \E j \in 1..MaxSpeech : SpeechStep(j)
  BY <1>7, SpeechStepStep
<1>8. CASE UNCHANGED vars
  BY <1>8, StutterStep
<1> QED
  BY <1>1, <1>2, <1>3, <1>4, <1>5, <1>6, <1>7, <1>8 DEF Next, HandlerStep

\* The inductive invariant holds in every state of one connection.
THEOREM Invariance == Spec => []IInv
<1>1. Init => IInv
  BY InitInv
<1>2. IInv /\ [Next]_vars => IInv'
  BY NextInv
<1> QED
  BY <1>1, <1>2, PTL DEF Spec

-----------------------------------------------------------------------------
(* The theorems.                                                           *)

\* The state of a connection keeps its type, whatever its tasks do: the turn,
\* the chain of speech tasks and the handler's wait.
THEOREM TypeCorrect == Spec => []TypeOK
<1>1. IInv => TypeOK
  BY DEF IInv
<1> QED
  BY <1>1, Invariance, PTL

\* tts_tail chains the sentences in the order of the transcript, and a cancelled
\* chain is never taken up again.
THEOREM SpeechOrdered == Spec => []SpeechInOrder
<1>1. IInv => SpeechInOrder
  <2> SUFFICES ASSUME IInv, NEW i \in DOMAIN speech, NEW j \in DOMAIN speech, i < j,
                      speech[j].state \in {"speaking", "done"}
               PROVE  Silent(i)
    BY DEF SpeechInOrder
  <2>1. /\ i \in 1..Len(speech) /\ DOMAIN speech = 1..Len(speech)
        /\ silenced \in Nat /\ silenced <= Len(speech) /\ Len(speech) \in Nat
    BY Lengths DEF IInv
  <2>2. CASE i > silenced
    <3>1. Mute({i})
      BY <2>2 DEF IInv, Chain, Chained, Current, Mute, Ended
    <3> QED
      BY <3>1 DEF Silent
  <2>3. CASE i <= silenced
    <3>1. i \in 1..silenced /\ 1..silenced \in SUBSET DOMAIN speech
      BY <2>1, <2>3
    <3> QED
      BY <3>1 DEF Silent, IInv, Chain, Forgotten
  <2> QED
    BY <2>1, <2>2, <2>3
<1> QED
  BY <1>1, Invariance, PTL

\* What was queued before assistant.audio.cancelled stays silent, also what the
\* running turn queued while cancel_audio awaited the tracked tasks; and with
\* spoken replies off everything does.
THEOREM CancelledIsSilent == Spec => []NoSpeechAfterCancel
<1>1. IInv => NoSpeechAfterCancel
  <2> SUFFICES ASSUME IInv, NEW j \in DOMAIN speech, j <= silenced \/ (~spoken /\ Receiving)
               PROVE  Silent(j)
    BY DEF NoSpeechAfterCancel
  <2>1. /\ j \in 1..Len(speech) /\ DOMAIN speech = 1..Len(speech)
        /\ silenced \in Nat /\ silenced <= Len(speech) /\ Len(speech) \in Nat
    BY Lengths DEF IInv
  <2>2. j <= silenced
    <3>1. CASE ~spoken /\ Receiving
      <4>1. silenced = Len(speech)
        BY <3>1 DEF IInv, Chain, Quiet, Receiving
      <4> QED
        BY <2>1, <4>1
    <3> QED
      BY <3>1
  <2>3. j \in 1..silenced /\ 1..silenced \in SUBSET DOMAIN speech
    BY <2>1, <2>2
  <2> QED
    BY <2>3 DEF Silent, IInv, Chain, Forgotten
<1> QED
  BY <1>1, Invariance, PTL

\* "completed" is told to the client of a completed attempt only, and as long as
\* the client shows it no event and no other turn opens the attempt again.
THEOREM ToldWhenCompleted == Spec => []CompletedIsTold
<1>1. IInv => CompletedIsTold
  BY DEF IInv
<1> QED
  BY <1>1, Invariance, PTL

=============================================================================
