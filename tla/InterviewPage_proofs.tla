------------------------ MODULE InterviewPage_proofs ------------------------
(***************************************************************************)
(* Proofs about the two parts of the interview page.                       *)
(*                                                                         *)
(* Whiteboard, for any set of boards and any bounds: types, what a board   *)
(* may call saved, and, for a board alone, that it never conflicts with    *)
(* itself and implements an autosaved document.                            *)
(*                                                                         *)
(* VoiceCapture, for any bounds: types, that discarded speech is never     *)
(* answered, and that segments are answered in the order they were spoken. *)
(***************************************************************************)
EXTENDS Whiteboard, VoiceCapture, SequenceTheorems, FiniteSetTheorems, TLAPS

-----------------------------------------------------------------------------
(* The inductive invariant of any number of boards.                        *)

\* The first save of a chain is the one under way, and an accepted one has been
\* stored under the version its answer names.
WiresMatch ==
  \A b \in Boards :
    /\ wire[b].at = "idle" <=> chain[b] = << >>
    /\ wire[b].at = "accepted" =>
         wire[b].version \in 1..version /\ history[wire[b].version] = Head(chain[b]).scene

\* A load answers with a version that exists, a snapshot is posted under one.
VersionsExist ==
  \A b \in Boards :
    /\ load[b].at = "answered" => load[b].version \in 0..version
    /\ snap[b].at = "sent" => snap[b].version # 0

\* What a board compares its draft with has been stored.
BaselinesStored == \A b \in Boards : \E v \in 0..version : baseline[b] = SceneAt(v)

\* Unless something was lost, it is what is stored under the version that the
\* board will name, when no save or load is to be answered.
BaselinesNamed ==
  losses = 0 =>
    \A b \in Boards :
      /\ wire[b].at # "lost" /\ load[b].at # "failed"
      /\ chain[b] = << >> /\ load[b].at = "idle" => baseline[b] = SceneAt(vref[b])

IInv ==
  /\ TypeOK
  /\ WiresMatch
  /\ VersionsExist
  /\ BaselinesStored
  /\ BaselinesNamed

-----------------------------------------------------------------------------
(* The stored scenes.                                                      *)

LEMMA SceneType == ASSUME TypeOK PROVE \A v \in 0..version : SceneAt(v) \in Scene
<1>1. SUFFICES ASSUME NEW v \in 0..version PROVE SceneAt(v) \in Scene
  OBVIOUS
<1>2. history \in Seq(Scene)
  BY DEF TypeOK
<1>3. {} \in Scene
  BY DEF Scene
<1>4. v # 0 => history[v] \in Scene
  BY <1>1, <1>2, ElementOfSeq, LenProperties DEF version
<1> QED
  BY <1>3, <1>4 DEF SceneAt

\* A new scene leaves the older ones where they are.
LEMMA SceneAppended ==
  ASSUME TypeOK, NEW s \in Scene, history' = Append(history, s)
  PROVE  /\ history' \in Seq(Scene)
         /\ version \in Nat /\ version' = version + 1
         /\ \A v \in 0..version : SceneAt(v)' = SceneAt(v)
         /\ \A v \in 1..version : history'[v] = history[v]
         /\ history'[version + 1] = s
         /\ \A v : v = version + 1 => SceneAt(v)' = s
<1>1. history \in Seq(Scene)
  BY DEF TypeOK
<1>2. /\ history' \in Seq(Scene) /\ Len(history') = Len(history) + 1
      /\ \A v \in 1..Len(history) : history'[v] = history[v]
      /\ history'[Len(history) + 1] = s
  BY <1>1, AppendProperties
<1>3. Len(history) \in Nat
  BY <1>1, LenProperties
<1>4. version' = version + 1
  BY <1>2 DEF version
<1>5. \A v \in 0..version : SceneAt(v)' = SceneAt(v)
  BY <1>2, <1>3 DEF SceneAt, version
<1>6. \A v : v = version + 1 => SceneAt(v)' = s
  BY <1>2, <1>3 DEF SceneAt, version
<1> QED
  BY <1>2, <1>3, <1>4, <1>5, <1>6 DEF version

LEMMA SceneSame ==
  ASSUME history' = history
  PROVE  version' = version /\ \A v : SceneAt(v)' = SceneAt(v)
BY DEF version, SceneAt

LEMMA VersionType == ASSUME TypeOK PROVE version \in Nat
BY LenProperties DEF TypeOK, version

-----------------------------------------------------------------------------
(* The chain of saves.                                                     *)

LEMMA ChainHead ==
  ASSUME TypeOK, NEW b \in Boards, chain[b] # << >>
  PROVE  /\ Head(chain[b]) \in Save /\ Head(chain[b]) = chain[b][1]
         /\ Tail(chain[b]) \in Seq(Save)
         /\ Len(Tail(chain[b])) = Len(chain[b]) - 1
         /\ \A i \in 1..Len(Tail(chain[b])) : Tail(chain[b])[i] = chain[b][i + 1]
         /\ Tail(chain[b]) = << >> <=> Latest(b)
         /\ Len(chain[b]) \in Nat /\ Len(chain[b]) >= 1
<1>1. chain[b] \in Seq(Save)
  BY DEF TypeOK
<1>2. /\ Head(chain[b]) \in Save /\ Head(chain[b]) = chain[b][1]
      /\ Tail(chain[b]) \in Seq(Save)
      /\ Len(Tail(chain[b])) = Len(chain[b]) - 1
      /\ \A i \in 1..Len(Tail(chain[b])) : Tail(chain[b])[i] = chain[b][i + 1]
  BY <1>1, HeadTailProperties
<1>3. Len(chain[b]) \in Nat /\ Len(chain[b]) # 0
  BY <1>1, LenProperties, EmptySeq
<1>4. Tail(chain[b]) = << >> <=> Len(Tail(chain[b])) = 0
  BY <1>2, EmptySeq
<1> QED
  BY <1>2, <1>3, <1>4 DEF Latest

LEMMA ChainLonger ==
  ASSUME TypeOK, NEW b \in Boards, NEW save \in Save
  PROVE  LET longer == Append(chain[b], save) IN
         /\ longer \in Seq(Save) /\ longer # << >>
         /\ Len(longer) = Len(chain[b]) + 1 /\ Len(chain[b]) \in Nat
         /\ \A i \in 1..Len(chain[b]) : longer[i] = chain[b][i]
         /\ longer[Len(chain[b]) + 1] = save
         /\ chain[b] # << >> => Head(longer) = Head(chain[b])
<1>1. chain[b] \in Seq(Save)
  BY DEF TypeOK
<1> DEFINE longer == Append(chain[b], save)
<1>2. /\ longer \in Seq(Save) /\ longer # << >>
      /\ Len(longer) = Len(chain[b]) + 1
      /\ \A i \in 1..Len(chain[b]) : longer[i] = chain[b][i]
      /\ longer[Len(chain[b]) + 1] = save
  BY <1>1, AppendProperties
<1>3. Len(chain[b]) \in Nat
  BY <1>1, LenProperties
<1>5. chain[b] # << >> => Head(longer) = Head(chain[b])
  <2>1. SUFFICES ASSUME chain[b] # << >> PROVE Head(longer) = Head(chain[b])
    OBVIOUS
  <2>2. Len(chain[b]) >= 1
    BY <1>1, <1>3, <2>1, EmptySeq
  <2>3. Head(longer) = longer[1]
    BY <1>2, HeadTailProperties
  <2>4. Head(chain[b]) = chain[b][1]
    BY <1>1, <2>1, HeadTailProperties
  <2> QED
    BY <1>2, <1>3, <2>2, <2>3, <2>4
<1> QED
  BY <1>2, <1>3, <1>5

-----------------------------------------------------------------------------
(* Every step keeps the invariant: one lemma per action.                   *)

LEMMA InitIInv == Init => IInv
<1> SUFFICES ASSUME Init PROVE IInv
  OBVIOUS
<1>1. history = << >> /\ version = 0
  BY EmptySeq DEF Init, version
<1>2. history \in Seq(Scene) /\ \A b \in Boards : chain[b] \in Seq(Save)
  BY <1>1, EmptySeq DEF Init
<1>3. TypeOK
  <2>1. /\ {} \in Scene /\ Idle \in Put /\ NoSnap \in Snap
        /\ [Idle EXCEPT !.at = "sent"] \in Get
    BY <1>1 DEF Idle, NoSnap, Put, Get, Snap, Scene
  <2>2. drawn \in 0..MaxStrokes /\ losses \in 0..MaxLosses /\ 0 \in 0..version
    BY <1>1, WhiteboardAssumption DEF Init
  <2>3. snapshots \subseteq [version : 1..version, image : Scene]
    BY DEF Init
  <2> QED
    BY <1>2, <2>1, <2>2, <2>3 DEF Init, TypeOK
<1>4. WiresMatch /\ VersionsExist
  BY DEF Init, WiresMatch, VersionsExist, Idle, NoSnap
<1>5. BaselinesStored /\ BaselinesNamed
  BY <1>1 DEF Init, BaselinesStored, BaselinesNamed, SceneAt, Idle
<1> QED
  BY <1>3, <1>4, <1>5 DEF IInv

LEMMA DrawIInv == ASSUME IInv, NEW b \in Boards, Draw(b) PROVE IInv'
<1>1. version' = version /\ \A v : SceneAt(v)' = SceneAt(v)
  BY SceneSame DEF Draw, server
<1>2. TypeOK'
  <2>1. draft[b] \cup {drawn + 1} \in Scene
    BY WhiteboardAssumption DEF IInv, TypeOK, Draw, Scene, Stroke
  <2>2. draft' \in [Boards -> Scene]
    BY <2>1 DEF IInv, TypeOK, Draw
  <2>3. drawn' \in 0..MaxStrokes
    BY WhiteboardAssumption DEF IInv, TypeOK, Draw
  <2>4. timer' \in [Boards -> BOOLEAN] /\ changed' \in [Boards -> BOOLEAN]
    BY DEF IInv, TypeOK, Draw
  <2> QED
    BY <1>1, <2>2, <2>3, <2>4 DEF IInv, TypeOK, Draw, server, saving
<1>3. WiresMatch' /\ VersionsExist'
  BY <1>1 DEF IInv, WiresMatch, VersionsExist, Draw, server, saving
<1>4. BaselinesStored' /\ BaselinesNamed'
  BY <1>1 DEF IInv, BaselinesStored, BaselinesNamed, Draw, server, saving
<1> QED
  BY <1>2, <1>3, <1>4 DEF IInv

\* A save that is queued is sent at once only if nothing is under way.
LEMMA Enqueued ==
  ASSUME IInv, NEW b \in Boards, NEW by \in {"autosave", "snapshot"}, Enqueue(b, by),
         history' = history
  PROVE  /\ chain' \in [Boards -> Seq(Save)] /\ wire' \in [Boards -> Put]
         /\ WiresMatch'
         /\ \A d \in Boards : wire'[d].at = "lost" => wire[d].at = "lost"
         /\ \A d \in Boards : chain'[d] = << >> => chain[d] = << >>
<1> DEFINE save == [scene |-> draft[b], by |-> by]
           longer == Append(chain[b], save)
           put == [at |-> "sent", version |-> vref[b]]
<1>1. TypeOK /\ WiresMatch
  BY DEF IInv
<1>2. save \in Save
  BY <1>1 DEF TypeOK, Save
<1>3. /\ longer \in Seq(Save) /\ longer # << >>
      /\ chain[b] # << >> => Head(longer) = Head(chain[b])
  BY <1>1, <1>2, ChainLonger
<1>4. put \in Put
  BY <1>1, VersionType DEF TypeOK, Put
<1>5. /\ chain' = [chain EXCEPT ![b] = longer]
      /\ wire' = IF chain[b] = << >> THEN [wire EXCEPT ![b] = put] ELSE wire
  BY DEF Enqueue
<1> HIDE DEF longer
<1>6. chain' \in [Boards -> Seq(Save)] /\ wire' \in [Boards -> Put]
  BY <1>1, <1>3, <1>4, <1>5 DEF TypeOK
<1>7. ASSUME NEW d \in Boards
      PROVE  /\ wire'[d].at = "idle" <=> chain'[d] = << >>
             /\ wire'[d].at = "accepted" => wire'[d] = wire[d] /\ Head(chain'[d]) = Head(chain[d])
             /\ wire'[d].at = "lost" => wire[d].at = "lost"
             /\ chain'[d] = << >> => chain[d] = << >>
  <2>1. CASE d = b
    BY <1>1, <1>3, <1>5, <2>1 DEF TypeOK, WiresMatch
  <2>2. CASE d # b
    BY <1>1, <1>5, <2>2 DEF TypeOK, WiresMatch
  <2> QED
    BY <2>1, <2>2
<1>8. version' = version
  BY SceneSame
<1>9. WiresMatch'
  BY <1>1, <1>7, <1>8 DEF WiresMatch
<1> QED
  BY <1>6, <1>7, <1>9

LEMMA AutosaveIInv == ASSUME IInv, NEW b \in Boards, Autosave(b) PROVE IInv'
<1>1. version' = version /\ \A v : SceneAt(v)' = SceneAt(v)
  BY SceneSame DEF Autosave, server
<1>2. timer' \in [Boards -> BOOLEAN]
  BY DEF IInv, TypeOK, Autosave
<1>3. /\ chain' \in [Boards -> Seq(Save)] /\ wire' \in [Boards -> Put]
      /\ WiresMatch'
      /\ \A d \in Boards : wire'[d].at = "lost" => wire[d].at = "lost"
      /\ \A d \in Boards : chain'[d] = << >> => chain[d] = << >>
  <2>1. CASE UNCHANGED <<chain, wire>>
    BY <1>1, <2>1 DEF IInv, TypeOK, WiresMatch, Autosave, server
  <2>2. CASE Enqueue(b, "autosave")
    BY <2>2, Enqueued DEF Autosave, server
  <2> QED
    BY <2>1, <2>2 DEF Autosave
<1>4. TypeOK'
  BY <1>1, <1>2, <1>3 DEF IInv, TypeOK, Autosave, server, bounds
<1>5. VersionsExist' /\ BaselinesStored'
  BY <1>1 DEF IInv, VersionsExist, BaselinesStored, Autosave, server
<1>6. BaselinesNamed'
  BY <1>1, <1>3 DEF IInv, BaselinesNamed, Autosave, server, bounds
<1> QED
  BY <1>3, <1>4, <1>5, <1>6 DEF IInv

LEMMA SaveSceneIInv == ASSUME IInv, NEW b \in Boards, SaveScene(b) PROVE IInv'
<1>1. TypeOK /\ WiresMatch /\ version \in Nat
  BY VersionType DEF IInv
<1>2. chain[b] # << >>
  BY <1>1 DEF SaveScene, WiresMatch
<1>3. CASE wire[b].version = version
  <2> DEFINE s == Head(chain[b]).scene
             put == [at |-> "accepted", version |-> version + 1]
  <2>1. history' = Append(history, s) /\ wire' = [wire EXCEPT ![b] = put]
    BY <1>3 DEF SaveScene
  <2>2. s \in Scene
    BY <1>1, <1>2, ChainHead DEF Save
  <2> HIDE DEF s
  <2>3. /\ history' \in Seq(Scene)
        /\ version' = version + 1
        /\ \A v \in 0..version : SceneAt(v)' = SceneAt(v)
        /\ \A v \in 1..version : history'[v] = history[v]
        /\ history'[version + 1] = s
    BY <1>1, <2>1, <2>2, SceneAppended
  <2>4. put \in Put
    BY <1>1 DEF Put
  <2>5. TypeOK'
    <3>1. wire' \in [Boards -> Put]
      BY <1>1, <2>1, <2>4 DEF TypeOK
    <3>2. vref' \in [Boards -> 0..version']
      BY <1>1, <2>3 DEF TypeOK, SaveScene
    <3>3. snapshots' \subseteq [version : 1..version', image : Scene]
      BY <1>1, <2>3 DEF TypeOK, SaveScene
    <3> QED
      BY <1>1, <2>3, <3>1, <3>2, <3>3 DEF TypeOK, SaveScene, editor, bounds
  <2>6. WiresMatch'
    <3>1. SUFFICES ASSUME NEW d \in Boards
                   PROVE  /\ wire'[d].at = "idle" <=> chain'[d] = << >>
                          /\ wire'[d].at = "accepted" =>
                               /\ wire'[d].version \in 1..version'
                               /\ history'[wire'[d].version] = Head(chain'[d]).scene
      BY DEF WiresMatch
    <3>0. chain' = chain /\ s = Head(chain[b]).scene
      BY DEF SaveScene, s
    <3>2. CASE d = b
      <4>1. wire'[b] = put
        BY <1>1, <2>1 DEF TypeOK
      <4> QED
        BY <1>1, <1>2, <2>3, <3>0, <3>2, <4>1
    <3>3. CASE d # b
      <4>1. wire'[d] = wire[d]
        BY <1>1, <2>1, <3>3 DEF TypeOK
      <4>2. wire[d].at = "idle" <=> chain[d] = << >>
        BY <1>1 DEF WiresMatch
      <4>3. wire[d].at = "accepted" =>
              wire[d].version \in 1..version /\ history[wire[d].version] = Head(chain[d]).scene
        BY <1>1 DEF WiresMatch
      <4> QED
        BY <1>1, <2>3, <3>0, <4>1, <4>2, <4>3
    <3> QED
      BY <3>2, <3>3
  <2>7. VersionsExist'
    BY <1>1, <2>3 DEF IInv, VersionsExist, SaveScene
  <2>8. BaselinesStored'
    BY <1>1, <2>3 DEF IInv, BaselinesStored, SaveScene, editor
  <2>9. BaselinesNamed'
    BY <1>1, <2>1, <2>3 DEF IInv, TypeOK, BaselinesNamed, SaveScene, editor, bounds
  <2> QED
    BY <2>5, <2>6, <2>7, <2>8, <2>9 DEF IInv
<1>4. CASE wire[b].version # version
  <2>1. history' = history /\ wire' = [wire EXCEPT ![b].at = "stale"]
    BY <1>4 DEF SaveScene
  <2>2. version' = version /\ \A v : SceneAt(v)' = SceneAt(v)
    BY <2>1, SceneSame
  <2>3. wire' \in [Boards -> Put]
    BY <1>1, <2>1 DEF TypeOK, Put
  <2>4. TypeOK'
    BY <1>1, <2>1, <2>2, <2>3 DEF TypeOK, SaveScene, editor, bounds
  <2>5. WiresMatch'
    BY <1>1, <1>2, <2>1, <2>2 DEF TypeOK, WiresMatch, SaveScene
  <2>6. VersionsExist' /\ BaselinesStored'
    BY <2>1, <2>2 DEF IInv, VersionsExist, BaselinesStored, SaveScene, editor
  <2>7. BaselinesNamed'
    BY <1>1, <2>1, <2>2 DEF IInv, TypeOK, BaselinesNamed, SaveScene, editor, bounds
  <2> QED
    BY <2>4, <2>5, <2>6, <2>7 DEF IInv
<1> QED
  BY <1>3, <1>4

\* The answer to a save shortens the chain and sends the next one.
LEMMA Answers ==
  ASSUME IInv, NEW b \in Boards, SaveAnswered(b), wire[b].at # "idle",
         vref' \in [Boards -> 0..version], history' = history
  PROVE  /\ chain' \in [Boards -> Seq(Save)] /\ wire' \in [Boards -> Put]
         /\ WiresMatch'
         /\ \A d \in Boards : wire'[d].at = "lost" => wire[d].at = "lost"
         /\ \A d \in Boards : d # b => chain'[d] = chain[d]
         /\ chain'[b] = << >> => Latest(b)
<1>1. TypeOK /\ WiresMatch /\ version \in Nat /\ version' = version
  BY VersionType, SceneSame DEF IInv
<1>2. chain[b] # << >>
  BY <1>1 DEF WiresMatch
<1> DEFINE shorter == Tail(chain[b])
           put == IF shorter = << >> THEN Idle ELSE [at |-> "sent", version |-> vref'[b]]
<1>3. shorter \in Seq(Save) /\ (shorter = << >> <=> Latest(b))
  BY <1>1, <1>2, ChainHead
<1>4. chain' = [chain EXCEPT ![b] = shorter] /\ wire' = [wire EXCEPT ![b] = put]
  BY DEF SaveAnswered
<1> HIDE DEF shorter
<1>5. put \in Put /\ (put.at = "idle" <=> shorter = << >>) /\ put.at \in {"idle", "sent"}
  BY <1>1 DEF Put, Idle
<1> HIDE DEF put
<1>6. chain' \in [Boards -> Seq(Save)] /\ wire' \in [Boards -> Put]
  BY <1>1, <1>3, <1>4, <1>5 DEF TypeOK
<1>7. ASSUME NEW d \in Boards
      PROVE  /\ wire'[d].at = "idle" <=> chain'[d] = << >>
             /\ wire'[d].at = "accepted" => wire'[d] = wire[d] /\ Head(chain'[d]) = Head(chain[d])
             /\ wire'[d].at = "lost" => wire[d].at = "lost"
  <2>1. CASE d = b
    BY <1>1, <1>4, <1>5, <2>1 DEF TypeOK
  <2>2. CASE d # b
    BY <1>1, <1>4, <2>2 DEF TypeOK, WiresMatch
  <2> QED
    BY <2>1, <2>2
<1>8. WiresMatch'
  BY <1>1, <1>7 DEF WiresMatch
<1>9. \A d \in Boards : d # b => chain'[d] = chain[d]
  BY <1>1, <1>4 DEF TypeOK
<1>10. chain'[b] = shorter
  BY <1>1, <1>4 DEF TypeOK
<1> QED
  BY <1>3, <1>6, <1>7, <1>8, <1>9, <1>10

LEMMA ExportingType == ASSUME TypeOK, NEW b \in Boards PROVE Exporting(b) \in Snap /\ Exporting(b).at # "sent"
BY DEF Exporting, TypeOK, Snap, NoSnap, Scene

LEMMA NoSnapType == NoSnap \in Snap /\ NoSnap.at # "sent" /\ NoSnap.at # "stored"
BY DEF NoSnap, Snap, Scene

LEMMA AcceptedIInv == ASSUME IInv, NEW b \in Boards, Accepted(b) PROVE IInv'
<1>1. TypeOK /\ WiresMatch /\ version \in Nat /\ history' = history
  BY VersionType DEF IInv, Accepted, server
<1>2. version' = version /\ \A v : SceneAt(v)' = SceneAt(v)
  BY <1>1, SceneSame
<1>3. wire[b].version \in 1..version /\ history[wire[b].version] = Head(chain[b]).scene
  BY <1>1 DEF WiresMatch, Accepted
<1>4. chain[b] # << >>
  BY <1>1 DEF WiresMatch, Accepted
<1>5. vref' = [vref EXCEPT ![b] = wire[b].version]
  BY DEF Accepted, NewVersion
<1>6. vref' \in [Boards -> 0..version]
  BY <1>1, <1>3, <1>5 DEF TypeOK
<1>7. /\ chain' \in [Boards -> Seq(Save)] /\ wire' \in [Boards -> Put]
      /\ WiresMatch'
      /\ \A d \in Boards : wire'[d].at = "lost" => wire[d].at = "lost"
      /\ \A d \in Boards : d # b => chain'[d] = chain[d]
      /\ chain'[b] = << >> => Latest(b)
  BY <1>1, <1>6, Answers DEF Accepted
<1> DEFINE s == Head(chain[b]).scene
<1>8. s \in Scene /\ wire[b].version \in 0..version /\ s = SceneAt(wire[b].version)
  BY <1>1, <1>3, <1>4, ChainHead DEF Save, SceneAt
<1>9. baseline' = IF Latest(b) THEN [baseline EXCEPT ![b] = s] ELSE baseline
  BY DEF Accepted, Recorded
<1> HIDE DEF s
<1>10. snap' \in [Boards -> Snap] /\ \A d \in Boards : snap'[d].at = "sent" => snap'[d] = snap[d]
  BY <1>1, ExportingType, NoSnapType DEF TypeOK, Accepted
<1>11. timer' \in [Boards -> BOOLEAN] /\ changed' \in [Boards -> BOOLEAN]
  BY <1>1 DEF TypeOK, Accepted, Rearmed
<1>12. baseline' \in [Boards -> Scene]
  BY <1>1, <1>8, <1>9 DEF TypeOK
<1>13. TypeOK'
  BY <1>1, <1>2, <1>6, <1>7, <1>10, <1>11, <1>12 DEF TypeOK, Accepted, server, bounds
<1>14. VersionsExist'
  BY <1>2, <1>10 DEF IInv, VersionsExist, Accepted
<1>15. BaselinesStored'
  <2>1. SUFFICES ASSUME NEW d \in Boards PROVE \E v \in 0..version' : baseline'[d] = SceneAt(v)'
    BY DEF BaselinesStored
  <2>2. \E v \in 0..version : baseline[d] = SceneAt(v)
    BY DEF IInv, BaselinesStored
  <2>3. baseline'[d] = baseline[d] \/ baseline'[d] = s
    BY <1>1, <1>9 DEF TypeOK
  <2> QED
    BY <1>2, <1>8, <2>2, <2>3
<1>16. BaselinesNamed'
  <2>1. SUFFICES ASSUME losses = 0, NEW d \in Boards
                 PROVE  /\ wire'[d].at # "lost" /\ load'[d].at # "failed"
                        /\ chain'[d] = << >> /\ load'[d].at = "idle"
                             => baseline'[d] = SceneAt(vref[d])'
    BY DEF BaselinesNamed, Accepted, bounds
  <2>2. /\ wire[d].at # "lost" /\ load[d].at # "failed"
        /\ chain[d] = << >> /\ load[d].at = "idle" => baseline[d] = SceneAt(vref[d])
    BY <2>1 DEF IInv, BaselinesNamed
  <2>3. load' = load
    BY DEF Accepted
  <2>4. CASE d # b
    <3>1. baseline'[d] = baseline[d] /\ vref'[d] = vref[d]
      BY <1>1, <1>5, <1>9, <2>4 DEF TypeOK
    <3> QED
      BY <1>2, <1>7, <2>2, <2>3, <2>4, <3>1
  <2>5. CASE d = b
    <3>1. vref'[b] = wire[b].version
      BY <1>1, <1>5 DEF TypeOK
    <3>2. chain'[b] = << >> => baseline'[b] = s
      BY <1>1, <1>7, <1>9 DEF TypeOK
    <3> QED
      BY <1>2, <1>7, <1>8, <2>2, <2>3, <2>5, <3>1, <3>2
  <2> QED
    BY <2>4, <2>5
<1> QED
  BY <1>7, <1>13, <1>14, <1>15, <1>16 DEF IInv

LEMMA RejectedIInv == ASSUME IInv, NEW b \in Boards, Rejected(b) PROVE IInv'
<1>1. TypeOK /\ WiresMatch /\ version \in Nat /\ history' = history
  BY VersionType DEF IInv, Rejected, server
<1>2. version' = version /\ \A v : SceneAt(v)' = SceneAt(v)
  BY <1>1, SceneSame
<1>3. vref' \in [Boards -> 0..version]
  BY <1>1 DEF TypeOK, Rejected
<1>4. /\ chain' \in [Boards -> Seq(Save)] /\ wire' \in [Boards -> Put]
      /\ WiresMatch'
      /\ \A d \in Boards : wire'[d].at = "lost" => wire[d].at = "lost"
      /\ \A d \in Boards : d # b => chain'[d] = chain[d]
      /\ chain'[b] = << >> => Latest(b)
  BY <1>1, <1>3, Answers DEF Rejected
<1>5. snap' \in [Boards -> Snap] /\ \A d \in Boards : snap'[d].at = "sent" => snap'[d] = snap[d]
  BY <1>1, NoSnapType DEF TypeOK, Rejected
<1> DEFINE reload == [at |-> "sent", version |-> 0]
<1>6. load' = IF Latest(b) /\ wire[b].at = "stale" /\ load[b].at \in {"idle", "failed"}
              THEN [load EXCEPT ![b] = reload] ELSE load
  <2>1. [Idle EXCEPT !.at = "sent"] = reload
    BY DEF Idle
  <2> QED
    BY <2>1 DEF Rejected
<1>7. load' \in [Boards -> Get]
  BY <1>1, <1>6 DEF TypeOK, Get
<1>8. TypeOK'
  BY <1>1, <1>2, <1>3, <1>4, <1>5, <1>7 DEF TypeOK, Rejected, server, editor, bounds
<1>9. VersionsExist'
  <2>1. \A d \in Boards : load'[d].at = "answered" => load'[d] = load[d]
    BY <1>1, <1>6 DEF TypeOK
  <2> QED
    BY <1>2, <1>5, <2>1 DEF IInv, VersionsExist
<1>10. BaselinesStored'
  BY <1>2 DEF IInv, BaselinesStored, Rejected, editor
<1>11. BaselinesNamed'
  <2>1. SUFFICES ASSUME losses = 0, NEW d \in Boards
                 PROVE  /\ wire'[d].at # "lost" /\ load'[d].at # "failed"
                        /\ chain'[d] = << >> /\ load'[d].at = "idle"
                             => baseline'[d] = SceneAt(vref[d])'
    BY DEF BaselinesNamed, Rejected, bounds
  <2>2. /\ wire[d].at # "lost" /\ load[d].at # "failed"
        /\ chain[d] = << >> /\ load[d].at = "idle" => baseline[d] = SceneAt(vref[d])
    BY <2>1 DEF IInv, BaselinesNamed
  <2>3. baseline' = baseline /\ vref' = vref
    BY DEF Rejected, editor
  <2>4. CASE d # b
    <3>1. load'[d] = load[d]
      BY <1>1, <1>6, <2>4 DEF TypeOK
    <3> QED
      BY <1>2, <1>4, <2>2, <2>3, <2>4, <3>1
  <2>5. CASE d = b
    <3>1. wire[b].at = "stale"
      BY <2>2, <2>5 DEF Rejected
    <3>2. load'[b].at # "failed" /\ (chain'[b] = << >> => load'[b].at # "idle")
      BY <1>1, <1>4, <1>6, <2>2, <2>5, <3>1 DEF TypeOK, Get
    <3> QED
      BY <1>4, <2>2, <2>5, <3>2
  <2> QED
    BY <2>4, <2>5
<1> QED
  BY <1>4, <1>8, <1>9, <1>10, <1>11 DEF IInv

LEMMA GetSceneIInv == ASSUME IInv, NEW b \in Boards, GetScene(b) PROVE IInv'
<1>1. TypeOK /\ version \in Nat /\ version' = version /\ \A v : SceneAt(v)' = SceneAt(v)
  BY VersionType, SceneSame DEF IInv, GetScene, server
<1> DEFINE got == [at |-> "answered", version |-> version]
<1>2. load' = [load EXCEPT ![b] = got] /\ got \in Get
  BY <1>1 DEF GetScene, Get
<1>3. load' \in [Boards -> Get]
  BY <1>1, <1>2 DEF TypeOK
<1>4. TypeOK'
  BY <1>1, <1>3 DEF TypeOK, GetScene, server, editor, saving, bounds
<1>5. \A d \in Boards : load'[d] = load[d] \/ (d = b /\ load'[d] = got)
  BY <1>1, <1>2 DEF TypeOK
<1>6. VersionsExist'
  BY <1>1, <1>5 DEF IInv, VersionsExist, GetScene
<1>7. WiresMatch' /\ BaselinesStored'
  BY <1>1 DEF IInv, WiresMatch, BaselinesStored, GetScene, server, editor, saving
<1>8. BaselinesNamed'
  BY <1>1, <1>5 DEF IInv, BaselinesNamed, GetScene, editor, saving, bounds
<1> QED
  BY <1>4, <1>6, <1>7, <1>8 DEF IInv

LEMMA LoadedIInv == ASSUME IInv, NEW b \in Boards, Loaded(b) PROVE IInv'
<1>1. /\ TypeOK /\ version \in Nat
      /\ history' = history /\ version' = version /\ \A v : SceneAt(v)' = SceneAt(v)
  BY VersionType, SceneSame DEF IInv, Loaded, server
<1>2. load[b].version \in 0..version
  BY DEF IInv, VersionsExist, Loaded
<1> DEFINE n == load[b].version
           s == SceneAt(n)
<1>3. s \in Scene
  BY <1>1, <1>2, SceneType
<1>4. /\ draft' = [draft EXCEPT ![b] = s] /\ baseline' = [baseline EXCEPT ![b] = s]
      /\ vref' = [vref EXCEPT ![b] = n] /\ load' = [load EXCEPT ![b] = Idle]
  BY DEF Loaded
<1>5. s = SceneAt(n)
  OBVIOUS
<1> HIDE DEF n, s
<1>6. TypeOK'
  <2>1. /\ draft' \in [Boards -> Scene] /\ baseline' \in [Boards -> Scene]
        /\ vref' \in [Boards -> 0..version]
    BY <1>1, <1>2, <1>3, <1>4 DEF TypeOK, n
  <2>2. load' \in [Boards -> Get]
    BY <1>1, <1>4 DEF TypeOK, Get, Idle
  <2>3. /\ loaded' \in [Boards -> BOOLEAN] /\ timer' \in [Boards -> BOOLEAN]
        /\ changed' \in [Boards -> BOOLEAN]
    BY <1>1 DEF TypeOK, Loaded
  <2> QED
    BY <1>1, <2>1, <2>2, <2>3 DEF TypeOK, Loaded, server, bounds
<1>7. WiresMatch'
  BY <1>1 DEF IInv, WiresMatch, Loaded
<1>8. VersionsExist'
  BY <1>1, <1>4 DEF IInv, TypeOK, VersionsExist, Loaded, Idle
<1>9. BaselinesStored'
  <2>1. SUFFICES ASSUME NEW d \in Boards PROVE \E v \in 0..version' : baseline'[d] = SceneAt(v)'
    BY DEF BaselinesStored
  <2>2. \E v \in 0..version : baseline[d] = SceneAt(v)
    BY DEF IInv, BaselinesStored
  <2>3. baseline'[d] = baseline[d] \/ baseline'[d] = s
    BY <1>1, <1>4 DEF TypeOK
  <2> QED
    BY <1>1, <1>2, <1>5, <2>2, <2>3 DEF n
<1>10. BaselinesNamed'
  <2>1. SUFFICES ASSUME losses = 0, NEW d \in Boards
                 PROVE  /\ wire'[d].at # "lost" /\ load'[d].at # "failed"
                        /\ chain'[d] = << >> /\ load'[d].at = "idle"
                             => baseline'[d] = SceneAt(vref[d])'
    BY DEF BaselinesNamed, Loaded, bounds
  <2>2. /\ wire[d].at # "lost" /\ load[d].at # "failed"
        /\ chain[d] = << >> /\ load[d].at = "idle" => baseline[d] = SceneAt(vref[d])
    BY <2>1 DEF IInv, BaselinesNamed
  <2>3. chain' = chain /\ wire' = wire
    BY DEF Loaded
  <2>4. CASE d # b
    <3>1. baseline'[d] = baseline[d] /\ vref'[d] = vref[d] /\ load'[d] = load[d]
      BY <1>1, <1>4, <2>4 DEF TypeOK
    <3> QED
      BY <1>1, <2>2, <2>3, <3>1
  <2>5. CASE d = b
    <3>1. baseline'[b] = s /\ vref'[b] = n /\ load'[b] = Idle
      BY <1>1, <1>4 DEF TypeOK
    <3> QED
      BY <1>1, <1>5, <2>2, <2>3, <2>5, <3>1 DEF Idle
  <2> QED
    BY <2>4, <2>5
<1> QED
  BY <1>6, <1>7, <1>8, <1>9, <1>10 DEF IInv

LEMMA RetryIInv == ASSUME IInv, NEW b \in Boards, Retry(b) PROVE IInv'
<1>1. TypeOK /\ version' = version /\ \A v : SceneAt(v)' = SceneAt(v)
  BY SceneSame DEF IInv, Retry, server
<1> DEFINE reload == [at |-> "sent", version |-> 0]
<1>2. load' = [load EXCEPT ![b] = reload] /\ reload \in Get
  <2>1. [Idle EXCEPT !.at = "sent"] = reload
    BY DEF Idle
  <2> QED
    BY <2>1 DEF Retry, Get
<1>3. load' \in [Boards -> Get]
  BY <1>1, <1>2 DEF TypeOK
<1>4. \A d \in Boards : load'[d] = load[d] \/ (d = b /\ load'[d] = reload)
  BY <1>1, <1>2 DEF TypeOK
<1>5. TypeOK' /\ WiresMatch' /\ BaselinesStored'
  BY <1>1, <1>3
     DEF IInv, TypeOK, WiresMatch, BaselinesStored, Retry, server, editor, saving, bounds
<1>6. VersionsExist' /\ BaselinesNamed'
  BY <1>1, <1>4
     DEF IInv, VersionsExist, BaselinesNamed, Retry, server, editor, saving, bounds
<1> QED
  BY <1>5, <1>6 DEF IInv

\* A step of a snapshot leaves scenes and loads as they are.
LEMMA SnapshotKeeps ==
  ASSUME IInv, snap' \in [Boards -> Snap],
         \A d \in Boards : snap'[d].at = "sent" => snap'[d].version # 0,
         snapshots' \subseteq [version : 1..version, image : Scene],
         changed' \in [Boards -> BOOLEAN],
         UNCHANGED <<history, editor, saving, load, loaded, bounds>>
  PROVE  IInv'
<1>1. version' = version /\ \A v : SceneAt(v)' = SceneAt(v)
  BY SceneSame
<1>2. TypeOK'
  BY <1>1 DEF IInv, TypeOK, editor, saving, bounds
<1>3. WiresMatch' /\ VersionsExist' /\ BaselinesStored' /\ BaselinesNamed'
  BY <1>1 DEF IInv, WiresMatch, VersionsExist, BaselinesStored, BaselinesNamed,
              editor, saving, bounds
<1> QED
  BY <1>2, <1>3 DEF IInv

LEMMA StartSnapshotIInv == ASSUME IInv, NEW b \in Boards, StartSnapshot(b) PROVE IInv'
<1>1. TypeOK /\ history' = history /\ version' = version /\ \A v : SceneAt(v)' = SceneAt(v)
  BY SceneSame DEF IInv, StartSnapshot, server
<1>2. CASE Saved(b)
  <2>1. snap' = [snap EXCEPT ![b] = Exporting(b)] /\ UNCHANGED <<chain, wire>>
    BY <1>2 DEF StartSnapshot
  <2>2. snap' \in [Boards -> Snap] /\ \A d \in Boards : snap'[d].at = "sent" => snap'[d] = snap[d]
    BY <1>1, <2>1, ExportingType DEF TypeOK
  <2> QED
    BY <1>1, <2>1, <2>2, SnapshotKeeps
       DEF IInv, TypeOK, VersionsExist, StartSnapshot, server, saving
<1>3. CASE ~Saved(b)
  <2>1. snap' = [snap EXCEPT ![b].at = "saving"] /\ Enqueue(b, "snapshot")
    BY <1>3 DEF StartSnapshot
  <2>2. snap' \in [Boards -> Snap] /\ \A d \in Boards : snap'[d].at = "sent" => snap'[d] = snap[d]
    BY <1>1, <2>1 DEF TypeOK, Snap
  <2>3. /\ chain' \in [Boards -> Seq(Save)] /\ wire' \in [Boards -> Put]
        /\ WiresMatch'
        /\ \A d \in Boards : wire'[d].at = "lost" => wire[d].at = "lost"
        /\ \A d \in Boards : chain'[d] = << >> => chain[d] = << >>
    BY <1>1, <2>1, Enqueued
  <2>4. TypeOK'
    BY <1>1, <2>2, <2>3 DEF TypeOK, StartSnapshot, server, editor, bounds
  <2>5. VersionsExist' /\ BaselinesStored'
    BY <1>1, <2>2 DEF IInv, VersionsExist, BaselinesStored, StartSnapshot, editor
  <2>6. BaselinesNamed'
    BY <1>1, <2>3 DEF IInv, BaselinesNamed, StartSnapshot, editor, bounds
  <2> QED
    BY <2>3, <2>4, <2>5, <2>6 DEF IInv
<1> QED
  BY <1>2, <1>3

LEMMA ExportedIInv == ASSUME IInv, NEW b \in Boards, Exported(b) PROVE IInv'
<1>1. TypeOK
  BY DEF IInv
<1> DEFINE next == IF vref[b] = 0 THEN NoSnap
                   ELSE [snap[b] EXCEPT !.at = "sent", !.version = vref[b]]
<1>2. snap' = [snap EXCEPT ![b] = next]
  BY DEF Exported
<1>3. next \in Snap /\ (next.at = "sent" => next.version # 0)
  <2>1. vref[b] \in Nat
    BY <1>1, VersionType DEF TypeOK
  <2> QED
    BY <1>1, <2>1, NoSnapType DEF TypeOK, Snap
<1> HIDE DEF next
<1>4. snap' \in [Boards -> Snap] /\ \A d \in Boards : snap'[d].at = "sent" => snap'[d].version # 0
  BY <1>1, <1>2, <1>3 DEF TypeOK, IInv, VersionsExist
<1> QED
  BY <1>1, <1>4, SnapshotKeeps DEF TypeOK, Exported, server

LEMMA AddSnapshotIInv == ASSUME IInv, NEW b \in Boards, AddSnapshot(b) PROVE IInv'
<1>1. TypeOK /\ version \in Nat
  BY VersionType DEF IInv
<1>2. CASE snap[b].version = version
  <2>1. /\ snapshots' = snapshots \cup {[version |-> version, image |-> snap[b].image]}
        /\ snap' = [snap EXCEPT ![b].at = "stored"]
    BY <1>2 DEF AddSnapshot
  <2>2. version \in 1..version /\ snap[b].image \in Scene
    BY <1>1, <1>2 DEF IInv, VersionsExist, TypeOK, Snap, AddSnapshot
  <2>3. snapshots' \subseteq [version : 1..version, image : Scene]
    BY <1>1, <2>1, <2>2 DEF TypeOK
  <2>4. snap' \in [Boards -> Snap] /\ \A d \in Boards : snap'[d].at = "sent" => snap'[d].version # 0
    BY <1>1, <2>1 DEF TypeOK, Snap, IInv, VersionsExist
  <2> QED
    BY <1>1, <2>3, <2>4, SnapshotKeeps DEF TypeOK, AddSnapshot
<1>3. CASE snap[b].version # version
  <2>1. snap' = [snap EXCEPT ![b].at = "refused"] /\ snapshots' = snapshots
    BY <1>3 DEF AddSnapshot
  <2>2. snap' \in [Boards -> Snap] /\ \A d \in Boards : snap'[d].at = "sent" => snap'[d].version # 0
    BY <1>1, <2>1 DEF TypeOK, Snap, IInv, VersionsExist
  <2> QED
    BY <1>1, <2>1, <2>2, SnapshotKeeps DEF TypeOK, AddSnapshot
<1> QED
  BY <1>2, <1>3

LEMMA SnapshotAnsweredIInv == ASSUME IInv, NEW b \in Boards, SnapshotAnswered(b) PROVE IInv'
<1>1. TypeOK
  BY DEF IInv
<1>2. snap' = [snap EXCEPT ![b] = NoSnap]
  BY DEF SnapshotAnswered
<1>3. snap' \in [Boards -> Snap] /\ \A d \in Boards : snap'[d].at = "sent" => snap'[d].version # 0
  BY <1>1, <1>2, NoSnapType DEF TypeOK, IInv, VersionsExist
<1>4. changed' \in [Boards -> BOOLEAN]
  BY <1>1 DEF TypeOK, SnapshotAnswered
<1> QED
  BY <1>1, <1>3, <1>4, SnapshotKeeps DEF TypeOK, SnapshotAnswered, server

LEMMA LoseIInv == ASSUME IInv, NEW b \in Boards, Lose(b) PROVE IInv'
<1>1. TypeOK /\ WiresMatch /\ version' = version /\ \A v : SceneAt(v)' = SceneAt(v)
  BY SceneSame DEF IInv, Lose, server
<1>2. losses' \in 0..MaxLosses /\ losses' # 0
  BY <1>1, WhiteboardAssumption DEF TypeOK, Lose
<1>3. BaselinesNamed'
  BY <1>2 DEF BaselinesNamed
<1>4. BaselinesStored'
  BY <1>1 DEF IInv, BaselinesStored, Lose, editor
<1>5. CASE wire' = [wire EXCEPT ![b].at = "lost"] /\ wire[b].at # "idle" /\ UNCHANGED <<load, snap>>
  <2>1. wire' \in [Boards -> Put]
    BY <1>1, <1>5 DEF TypeOK, Put
  <2>2. TypeOK'
    BY <1>1, <1>2, <1>5, <2>1 DEF TypeOK, Lose, server, editor
  <2>3. WiresMatch' /\ VersionsExist'
    BY <1>1, <1>5 DEF IInv, TypeOK, WiresMatch, VersionsExist, Lose, server
  <2> QED
    BY <1>3, <1>4, <2>2, <2>3 DEF IInv
<1>6. CASE load' = [load EXCEPT ![b].at = "failed"] /\ UNCHANGED <<wire, snap>>
  <2>1. load' \in [Boards -> Get] /\ \A d \in Boards : load'[d].at = "answered" => load'[d] = load[d]
    BY <1>1, <1>6 DEF TypeOK, Get
  <2>2. TypeOK'
    BY <1>1, <1>2, <1>6, <2>1 DEF TypeOK, Lose, server, editor
  <2>3. WiresMatch' /\ VersionsExist'
    BY <1>1, <1>6, <2>1 DEF IInv, WiresMatch, VersionsExist, Lose, server
  <2> QED
    BY <1>3, <1>4, <2>2, <2>3 DEF IInv
<1>7. CASE snap' = [snap EXCEPT ![b].at = "refused"] /\ UNCHANGED <<wire, load>>
  <2>1. snap' \in [Boards -> Snap] /\ \A d \in Boards : snap'[d].at = "sent" => snap'[d] = snap[d]
    BY <1>1, <1>7 DEF TypeOK, Snap
  <2>2. TypeOK'
    BY <1>1, <1>2, <1>7, <2>1 DEF TypeOK, Lose, server, editor
  <2>3. WiresMatch' /\ VersionsExist'
    BY <1>1, <1>7, <2>1 DEF IInv, WiresMatch, VersionsExist, Lose, server
  <2> QED
    BY <1>3, <1>4, <2>2, <2>3 DEF IInv
<1> QED
  BY <1>5, <1>6, <1>7 DEF Lose

LEMMA StepIInv == IInv /\ [Next]_vars => IInv'
<1>1. CASE Next
  BY <1>1, DrawIInv, AutosaveIInv, SaveSceneIInv, AcceptedIInv, RejectedIInv, GetSceneIInv,
     LoadedIInv, RetryIInv, StartSnapshotIInv, ExportedIInv, AddSnapshotIInv,
     SnapshotAnsweredIInv, LoseIInv DEF Next, Saves, Loads, Snaps
<1>2. CASE UNCHANGED vars
  <2>1. UNCHANGED <<history, snapshots, draft, baseline, timer, vref, chain, wire, load,
                    loaded, changed, snap, drawn, losses>>
    BY <1>2 DEF vars, server, editor, saving, bounds
  <2>2. version' = version /\ \A v : SceneAt(v)' = SceneAt(v)
    BY <2>1, SceneSame
  <2>3. IInv => TypeOK' /\ WiresMatch'
    BY <2>1, <2>2 DEF IInv, TypeOK, WiresMatch
  <2>4. IInv => VersionsExist' /\ BaselinesStored' /\ BaselinesNamed'
    BY <2>1, <2>2 DEF IInv, VersionsExist, BaselinesStored, BaselinesNamed
  <2> QED
    BY <2>3, <2>4 DEF IInv
<1> QED
  BY <1>1, <1>2

THEOREM Invariance == Spec => []IInv
BY InitIInv, StepIInv, PTL DEF Spec

-----------------------------------------------------------------------------
(* What any number of boards may rely on.                                  *)

\* Every reachable state is well typed: in particular the versions that boards
\* hold and that snapshots carry have been stored.
THEOREM TypeCorrect == Spec => []TypeOK
<1>1. IInv => TypeOK
  BY DEF IInv
<1> QED
  BY <1>1, Invariance, PTL

\* Whatever boards overtake one another and whatever the network loses, a board
\* calls saved only what has been stored.
THEOREM SavedCorrect == Spec => []SavedWasStored
<1>1. IInv => SavedWasStored
  BY DEF IInv, BaselinesStored, SavedWasStored, Saved
<1> QED
  BY <1>1, Invariance, PTL

\* As long as nothing is lost it is what is stored under the version that the
\* board will name next, for any number of boards.
THEOREM NamedCorrect == Spec => [](losses = 0 => SavedMeansStored)
<1>1. IInv => (losses = 0 => SavedMeansStored)
  BY DEF IInv, BaselinesNamed, SavedMeansStored, Saved
<1> QED
  BY <1>1, Invariance, PTL

-----------------------------------------------------------------------------
(* A board alone.                                                          *)

\* What holds of it until something is lost: its saves name the stored version,
\* and each scene on its way contains the one before it and the stored one.
Names(b) ==
  /\ wire[b].at \in {"idle", "sent", "accepted"}
  /\ wire[b].at # "idle" => wire[b].version = version
  /\ chain[b] = << >> => vref[b] = version

\* It is loaded once, before anything is drawn.
LoadsOnce(b) ==
  IF loaded[b] THEN load[b].at = "idle"
  ELSE load[b].at # "failed" /\ version = 0 /\ draft[b] = {} /\ chain[b] = << >>

Grows(b) ==
  /\ scene \subseteq draft[b] /\ draft[b] \subseteq 1..drawn
  /\ \A i \in 1..Len(chain[b]) :
       scene \subseteq chain[b][i].scene /\ chain[b][i].scene \subseteq draft[b]
  /\ \A i, j \in 1..Len(chain[b]) : i < j => chain[b][i].scene \subseteq chain[b][j].scene

AInv == losses = 0 => Names(Alone) /\ LoadsOnce(Alone) /\ Grows(Alone)

LEMMA AloneIs == ASSUME Boards = {Alone} PROVE Alone \in Boards /\ \A b \in Boards : b = Alone
OBVIOUS

LEMMA InitAInv == ASSUME Boards = {Alone}, Init PROVE AInv
<1>1. version = 0 /\ scene = {}
  BY EmptySeq DEF Init, version, scene, SceneAt
<1>2. chain[Alone] = << >> /\ Len(chain[Alone]) = 0
  BY AloneIs, EmptySeq DEF Init
<1>3. Names(Alone) /\ LoadsOnce(Alone)
  BY <1>1, AloneIs DEF Init, Names, LoadsOnce, Idle
<1>4. Grows(Alone)
  BY <1>1, <1>2, AloneIs DEF Init, Grows
<1> QED
  BY <1>3, <1>4 DEF AInv

LEMMA SceneIsSame == ASSUME history' = history PROVE scene' = scene /\ version' = version
BY DEF scene, version, SceneAt

LEMMA AloneEnqueues ==
  ASSUME IInv, AInv, Boards = {Alone}, losses = 0, loaded[Alone],
         NEW by \in {"autosave", "snapshot"}, Enqueue(Alone, by),
         UNCHANGED <<history, draft, vref, load, loaded, drawn>>
  PROVE  Names(Alone)' /\ LoadsOnce(Alone)' /\ Grows(Alone)'
<1> DEFINE b == Alone
           save == [scene |-> draft[b], by |-> by]
           longer == Append(chain[b], save)
           put == [at |-> "sent", version |-> vref[b]]
<1>1. TypeOK /\ WiresMatch /\ b \in Boards
  BY AloneIs DEF IInv
<1>2. save \in Save
  BY <1>1 DEF TypeOK, Save
<1>3. /\ longer # << >>
      /\ Len(longer) = Len(chain[b]) + 1 /\ Len(chain[b]) \in Nat
      /\ \A i \in 1..Len(chain[b]) : longer[i] = chain[b][i]
      /\ longer[Len(chain[b]) + 1].scene = draft[b]
  BY <1>1, <1>2, ChainLonger
<1>4. /\ chain' = [chain EXCEPT ![b] = longer]
      /\ wire' = IF chain[b] = << >> THEN [wire EXCEPT ![b] = put] ELSE wire
  BY DEF Enqueue
<1> HIDE DEF longer
<1>5. /\ chain'[b] = longer
      /\ wire'[b] = IF chain[b] = << >> THEN put ELSE wire[b]
  BY <1>1, <1>4 DEF TypeOK
<1>6. scene' = scene /\ version' = version
  BY SceneIsSame
<1>7. Names(b) /\ LoadsOnce(b) /\ Grows(b)
  BY DEF AInv
<1>8. Names(b)'
  BY <1>3, <1>5, <1>6, <1>7 DEF Names
<1>9. LoadsOnce(b)'
  BY <1>6, <1>7 DEF LoadsOnce
<1>10. Grows(b)'
  <2>1. scene' \subseteq draft'[b] /\ draft'[b] \subseteq 1..drawn'
    BY <1>6, <1>7 DEF Grows
  <2>2. ASSUME NEW i \in 1..Len(longer)
        PROVE  scene \subseteq longer[i].scene /\ longer[i].scene \subseteq draft[b]
    BY <1>3, <1>7 DEF Grows
  <2>3. ASSUME NEW i \in 1..Len(longer), NEW j \in 1..Len(longer), i < j
        PROVE  longer[i].scene \subseteq longer[j].scene
    <3>1. CASE j \in 1..Len(chain[b])
      BY <1>3, <1>7, <2>3, <3>1 DEF Grows
    <3>2. CASE j = Len(chain[b]) + 1
      BY <1>3, <2>2, <3>2
    <3> QED
      BY <1>3, <3>1, <3>2
  <2> QED
    BY <1>5, <1>6, <2>1, <2>2, <2>3 DEF Grows
<1> QED
  BY <1>8, <1>9, <1>10

LEMMA AloneSaves ==
  ASSUME IInv, AInv, Boards = {Alone}, losses = 0, SaveScene(Alone)
  PROVE  /\ Names(Alone)' /\ LoadsOnce(Alone)' /\ Grows(Alone)'
         /\ scene \subseteq scene' /\ scene' \subseteq draft[Alone]
<1> DEFINE b == Alone
           s == Head(chain[b]).scene
           put == [at |-> "accepted", version |-> version + 1]
<1>1. /\ TypeOK /\ WiresMatch /\ b \in Boards /\ version \in Nat
      /\ Names(b) /\ LoadsOnce(b) /\ Grows(b)
  BY AloneIs, VersionType DEF IInv, AInv
<1>2. chain[b] # << >> /\ wire[b].version = version
  BY <1>1 DEF SaveScene, WiresMatch, Names
<1>3. history' = Append(history, s) /\ wire' = [wire EXCEPT ![b] = put]
  BY <1>2 DEF SaveScene
<1>4. /\ s \in Scene /\ s = chain[b][1].scene
      /\ Len(chain[b]) \in Nat /\ Len(chain[b]) >= 1
  BY <1>1, <1>2, ChainHead DEF Save
<1> HIDE DEF s
<1>5. version' = version + 1 /\ history'[version + 1] = s
  BY <1>1, <1>3, <1>4, SceneAppended
<1>6. scene' = s
  BY <1>1, <1>5 DEF scene, SceneAt
<1>7. wire'[b] = put
  BY <1>1, <1>3 DEF TypeOK
<1>8. UNCHANGED <<draft, vref, chain, load, loaded, drawn>>
  BY DEF SaveScene, editor, bounds
<1>9. Names(b)'
  BY <1>2, <1>5, <1>7, <1>8 DEF Names
<1>10. LoadsOnce(b)'
  BY <1>1, <1>2, <1>8 DEF LoadsOnce
<1>11. scene \subseteq s /\ s \subseteq draft[b]
  BY <1>1, <1>4 DEF Grows
<1>12. \A i \in 1..Len(chain[b]) : s \subseteq chain[b][i].scene
  <2>1. SUFFICES ASSUME NEW i \in 1..Len(chain[b]) PROVE s \subseteq chain[b][i].scene
    OBVIOUS
  <2>2. CASE i = 1
    BY <1>4, <2>2
  <2>3. CASE i # 1
    BY <1>1, <1>4, <2>3 DEF Grows
  <2> QED
    BY <2>2, <2>3
<1>13. Grows(b)'
  BY <1>1, <1>6, <1>8, <1>11, <1>12 DEF Grows
<1> QED
  BY <1>6, <1>9, <1>10, <1>11, <1>13

LEMMA AloneAccepted ==
  ASSUME IInv, AInv, Boards = {Alone}, losses = 0, Accepted(Alone)
  PROVE  Names(Alone)' /\ LoadsOnce(Alone)' /\ Grows(Alone)'
<1> DEFINE b == Alone
           shorter == Tail(chain[b])
           put == IF shorter = << >> THEN Idle ELSE [at |-> "sent", version |-> vref'[b]]
<1>1. /\ TypeOK /\ WiresMatch /\ b \in Boards /\ version \in Nat
      /\ Names(b) /\ LoadsOnce(b) /\ Grows(b)
  BY AloneIs, VersionType DEF IInv, AInv
<1>2. chain[b] # << >> /\ wire[b].version = version
  BY <1>1 DEF Accepted, WiresMatch, Names
<1>3. vref'[b] = version
  BY <1>1, <1>2 DEF TypeOK, Accepted, NewVersion
<1>4. scene' = scene /\ version' = version
  BY SceneIsSame DEF Accepted, server
<1>5. /\ Len(shorter) = Len(chain[b]) - 1 /\ Len(chain[b]) \in Nat /\ Len(chain[b]) >= 1
      /\ \A i \in 1..Len(shorter) : shorter[i] = chain[b][i + 1]
  BY <1>1, <1>2, ChainHead
<1>6. chain' = [chain EXCEPT ![b] = shorter] /\ wire' = [wire EXCEPT ![b] = put]
  BY DEF Accepted, SaveAnswered
<1> HIDE DEF shorter
<1>7. chain'[b] = shorter /\ wire'[b] = put
  BY <1>1, <1>6 DEF TypeOK
<1>8. UNCHANGED <<draft, load, loaded, drawn>>
  BY DEF Accepted, bounds
<1>9. Names(b)'
  BY <1>3, <1>4, <1>7 DEF Names, Idle
<1>10. LoadsOnce(b)'
  BY <1>1, <1>2, <1>8 DEF LoadsOnce
<1>11. Grows(b)'
  <2>1. ASSUME NEW i \in 1..Len(shorter)
        PROVE  /\ i + 1 \in 1..Len(chain[b]) /\ shorter[i] = chain[b][i + 1]
    BY <1>5
  <2>2. ASSUME NEW i \in 1..Len(shorter)
        PROVE  scene \subseteq shorter[i].scene /\ shorter[i].scene \subseteq draft[b]
    BY <1>1, <2>1 DEF Grows
  <2>3. ASSUME NEW i \in 1..Len(shorter), NEW j \in 1..Len(shorter), i < j
        PROVE  shorter[i].scene \subseteq shorter[j].scene
    <3>1. i + 1 < j + 1
      BY <1>5, <2>3
    <3> QED
      BY <1>1, <2>1, <3>1 DEF Grows
  <2> QED
    BY <1>1, <1>4, <1>7, <1>8, <2>2, <2>3 DEF Grows
<1> QED
  BY <1>9, <1>10, <1>11

\* A step that leaves the editor and the saves as they are.
LEMMA AloneStays ==
  ASSUME AInv, losses = 0,
         UNCHANGED <<history, draft, vref, chain, wire, load, loaded, drawn>>
  PROVE  Names(Alone)' /\ LoadsOnce(Alone)' /\ Grows(Alone)'
<1>1. Names(Alone) /\ LoadsOnce(Alone) /\ Grows(Alone)
  BY DEF AInv
<1>2. scene' = scene /\ version' = version
  BY SceneIsSame
<1> QED
  BY <1>1, <1>2 DEF Names, LoadsOnce, Grows

LEMMA AloneDraws ==
  ASSUME IInv, AInv, Boards = {Alone}, losses = 0, Draw(Alone)
  PROVE  /\ Names(Alone)' /\ LoadsOnce(Alone)' /\ Grows(Alone)'
         /\ scene' = scene /\ losses' = losses
         /\ draft'[Alone] = draft[Alone] \cup {drawn + 1}
         /\ drawn + 1 \in Stroke \ draft[Alone]
<1>1. /\ TypeOK /\ Alone \in Boards
      /\ Names(Alone) /\ LoadsOnce(Alone) /\ Grows(Alone)
  BY AloneIs DEF IInv, AInv
<1>2. scene' = scene /\ version' = version
  BY SceneIsSame DEF Draw, server
<1>3. draft'[Alone] = draft[Alone] \cup {drawn + 1} /\ drawn' = drawn + 1 /\ drawn \in Nat
  BY <1>1, WhiteboardAssumption DEF TypeOK, Draw
<1>4. drawn + 1 \in Stroke \ draft[Alone]
  <2>1. drawn + 1 \in Stroke
    BY <1>3, WhiteboardAssumption DEF Draw, Stroke
  <2>2. drawn + 1 \notin 1..drawn
    BY <1>3
  <2> QED
    BY <1>1, <2>1, <2>2 DEF Grows
<1>5. Names(Alone)'
  BY <1>1, <1>2 DEF Names, Draw, saving
<1>6. LoadsOnce(Alone)'
  BY <1>1 DEF LoadsOnce, Draw
<1>7. Grows(Alone)'
  <2>1. draft'[Alone] \subseteq 1..drawn'
    BY <1>1, <1>3 DEF Grows
  <2>2. chain' = chain
    BY DEF Draw, saving
  <2> QED
    BY <1>1, <1>2, <1>3, <2>1, <2>2 DEF Grows
<1> QED
  BY <1>2, <1>3, <1>4, <1>5, <1>6, <1>7 DEF Draw

LEMMA AloneLoads ==
  ASSUME IInv, AInv, Boards = {Alone}, losses = 0, Loaded(Alone)
  PROVE  /\ Names(Alone)' /\ LoadsOnce(Alone)' /\ Grows(Alone)'
         /\ draft'[Alone] = draft[Alone]
<1>1. /\ TypeOK /\ Alone \in Boards /\ VersionsExist
      /\ Names(Alone) /\ LoadsOnce(Alone) /\ Grows(Alone)
  BY AloneIs DEF IInv, AInv
<1>2. scene' = scene /\ version' = version
  BY SceneIsSame DEF Loaded, server
<1>3. version = 0 /\ draft[Alone] = {} /\ chain[Alone] = << >> /\ load[Alone].version = 0
  BY <1>1 DEF LoadsOnce, VersionsExist, Loaded
<1>4. /\ draft'[Alone] = {} /\ vref'[Alone] = 0 /\ load'[Alone] = Idle /\ loaded'[Alone]
      /\ chain' = chain /\ wire' = wire /\ drawn' = drawn
  BY <1>1, <1>3 DEF TypeOK, Loaded, SceneAt, bounds
<1> QED
  BY <1>1, <1>2, <1>3, <1>4 DEF Names, LoadsOnce, Grows, Idle

LEMMA AloneGets ==
  ASSUME IInv, AInv, Boards = {Alone}, losses = 0, GetScene(Alone)
  PROVE  Names(Alone)' /\ LoadsOnce(Alone)' /\ Grows(Alone)'
<1>1. /\ TypeOK /\ Alone \in Boards
      /\ Names(Alone) /\ LoadsOnce(Alone) /\ Grows(Alone)
  BY AloneIs DEF IInv, AInv
<1>2. scene' = scene /\ version' = version
  BY SceneIsSame DEF GetScene, server
<1>3. ~loaded[Alone] /\ load'[Alone].at = "answered"
  BY <1>1 DEF TypeOK, LoadsOnce, GetScene
<1> QED
  BY <1>1, <1>2, <1>3 DEF Names, LoadsOnce, Grows, GetScene, editor, saving, bounds

\* What a step of a board alone does to the document while nothing is lost.
LEMMA AloneStep ==
  ASSUME IInv, AInv, Boards = {Alone}, losses = 0, [Next]_vars
  PROVE  /\ AInv'
         /\ \/ losses' = losses /\ UNCHANGED <<draft[Alone], scene>>
            \/ /\ losses' = losses /\ scene' = scene
               /\ draft'[Alone] = draft[Alone] \cup {drawn + 1}
               /\ drawn + 1 \in Stroke \ draft[Alone]
            \/ /\ losses' = losses /\ draft'[Alone] = draft[Alone]
               /\ scene \subseteq scene' /\ scene' \subseteq draft[Alone]
            \/ losses' # 0 /\ UNCHANGED <<draft[Alone], scene>>
<1> DEFINE b == Alone
           Kept == Names(b)' /\ LoadsOnce(b)' /\ Grows(b)'
           Same == losses' = losses /\ UNCHANGED <<draft[b], scene>>
<1>1. /\ TypeOK /\ b \in Boards
      /\ Names(b) /\ LoadsOnce(b) /\ Grows(b)
  BY AloneIs DEF IInv, AInv
<1>2. Kept => AInv'
  BY DEF AInv
<1> HIDE DEF Kept
<1>3. CASE UNCHANGED vars
  <2>1. UNCHANGED <<history, draft, vref, chain, wire, load, loaded, drawn, losses>>
    BY <1>3 DEF vars, server, editor, saving, bounds
  <2> QED
    BY <1>2, <2>1, AloneStays, SceneIsSame DEF Kept
<1>4. CASE Draw(b)
  BY <1>2, <1>4, AloneDraws DEF Kept
<1>5. CASE Autosave(b)
  <2>1. Same
    BY <1>5, SceneIsSame DEF Autosave, server, bounds
  <2>2. CASE UNCHANGED <<chain, wire>>
    BY <1>2, <1>5, <2>1, <2>2, AloneStays DEF Kept, Autosave, server, bounds
  <2>3. CASE ~Saved(b) /\ Enqueue(b, "autosave")
    <3>1. loaded[b]
      <4>1. SUFFICES ASSUME ~loaded[b] PROVE FALSE
        OBVIOUS
      <4>2. version = 0 /\ draft[b] = {}
        BY <1>1, <4>1 DEF LoadsOnce
      <4>3. baseline[b] = SceneAt(0)
        BY <1>1, <4>2 DEF IInv, BaselinesStored
      <4> QED
        BY <2>3, <4>2, <4>3 DEF Saved, SceneAt
    <3>2. Kept
      BY <1>5, <2>3, <3>1, AloneEnqueues DEF Kept, Autosave, server, bounds
    <3> QED
      BY <1>2, <2>1, <3>2
  <2> QED
    BY <1>5, <2>2, <2>3 DEF Autosave
<1>6. CASE SaveScene(b)
  BY <1>2, <1>6, AloneSaves DEF Kept, SaveScene, editor, bounds
<1>7. CASE Accepted(b)
  BY <1>2, <1>7, AloneAccepted, SceneIsSame DEF Kept, Accepted, server, bounds
<1>8. ~Rejected(b)
  BY <1>1 DEF Names, Rejected
<1>9. CASE GetScene(b)
  BY <1>2, <1>9, AloneGets, SceneIsSame DEF Kept, GetScene, server, editor, bounds
<1>10. CASE Loaded(b)
  BY <1>2, <1>10, AloneLoads, SceneIsSame DEF Kept, Loaded, server, bounds
<1>11. ~Retry(b)
  BY <1>1 DEF LoadsOnce, Retry
<1>12. CASE StartSnapshot(b)
  <2>1. Same
    BY <1>12, SceneIsSame DEF StartSnapshot, server, editor, bounds
  <2>2. CASE UNCHANGED <<chain, wire>>
    BY <1>2, <1>12, <2>1, <2>2, AloneStays DEF Kept, StartSnapshot, server, editor, bounds
  <2>3. CASE Enqueue(b, "snapshot")
    BY <1>2, <1>12, <2>1, <2>3, AloneEnqueues DEF Kept, StartSnapshot, server, editor, bounds
  <2> QED
    BY <1>12, <2>2, <2>3 DEF StartSnapshot
<1>13. CASE Snaps(b)
  <2>1. UNCHANGED <<history, draft, vref, chain, wire, load, loaded, drawn, losses>>
    BY <1>13 DEF Snaps, Exported, AddSnapshot, SnapshotAnswered, server, editor, saving, bounds
  <2> QED
    BY <1>2, <2>1, AloneStays, SceneIsSame DEF Kept
<1>14. CASE Lose(b)
  <2>1. losses' # 0
    BY <1>1, <1>14 DEF TypeOK, Lose
  <2>2. AInv'
    BY <2>1 DEF AInv
  <2> QED
    BY <1>14, <2>1, <2>2, SceneIsSame DEF Lose, server, editor
<1> QED
  BY <1>3, <1>4, <1>5, <1>6, <1>7, <1>8, <1>9, <1>10, <1>11, <1>12, <1>13, <1>14, AloneIs
     DEF Next, Saves, Loads

LEMMA LossesRemain == ASSUME IInv, [Next]_vars, losses # 0 PROVE losses' # 0
<1>1. losses \in Nat
  BY WhiteboardAssumption DEF IInv, TypeOK
<1>2. CASE UNCHANGED vars
  BY <1>2 DEF vars, bounds
<1>3. ASSUME NEW b \in Boards, Lose(b) PROVE losses' # 0
  BY <1>1, <1>3 DEF Lose
<1>4. ASSUME NEW b \in Boards,
             Draw(b) \/ Saves(b) \/ Loads(b) \/ Retry(b) \/ StartSnapshot(b) \/ Snaps(b)
      PROVE  losses' = losses
  BY <1>4 DEF Draw, Saves, Autosave, SaveScene, Accepted, Rejected, Loads, GetScene, Loaded,
              Retry, StartSnapshot, Snaps, Exported, AddSnapshot, SnapshotAnswered, bounds
<1> QED
  BY <1>2, <1>3, <1>4 DEF Next

LEMMA AloneInvariance == ASSUME Boards = {Alone} PROVE Spec => [](IInv /\ AInv)
<1>1. Init => IInv /\ AInv
  BY InitIInv, InitAInv
<1>2. IInv /\ AInv /\ [Next]_vars => (IInv /\ AInv)'
  <2>1. SUFFICES ASSUME IInv, AInv, [Next]_vars PROVE IInv' /\ AInv'
    OBVIOUS
  <2>2. IInv'
    BY <2>1, StepIInv
  <2>3. CASE losses = 0
    BY <2>1, <2>2, <2>3, AloneStep
  <2>4. CASE losses # 0
    BY <2>1, <2>2, <2>4, LossesRemain DEF AInv
  <2> QED
    BY <2>3, <2>4
<1> QED
  BY <1>1, <1>2, PTL DEF Spec

\* A board alone is never refused a save as stale, unless an answer was lost.
THEOREM AloneCorrect == ASSUME Boards = {Alone} PROVE Spec => []AloneNeverStale
<1>1. IInv /\ AInv => AloneNeverStale
  BY AloneIs DEF AInv, Names, AloneNeverStale
<1> QED
  BY <1>1, AloneInvariance, PTL

\* A board alone implements an autosaved document.
THEOREM DocumentRefined == ASSUME Boards = {Alone} PROVE Spec => ImplementsDocument
<1>1. Init => Document!Init
  <2>1. SUFFICES ASSUME Init PROVE Document!Init
    OBVIOUS
  <2>2. version = 0
    BY <2>1, EmptySeq DEF Init, version
  <2> QED
    BY <2>1, <2>2, AloneIs DEF Init, Document!Init, scene, SceneAt
<1>2. IInv /\ AInv /\ [Next]_vars => [Document!Next]_(Document!vars)
  <2>1. SUFFICES ASSUME IInv, AInv, [Next]_vars PROVE [Document!Next]_(Document!vars)
    OBVIOUS
  <2>2. CASE losses # 0
    BY <2>1, <2>2, LossesRemain DEF Document!Next, Document!Broken
  <2>3. CASE losses = 0
    <3>1. CASE losses' = losses /\ UNCHANGED <<draft[Alone], scene>>
      BY <3>1 DEF Document!vars
    <3>2. CASE /\ losses' = losses /\ scene' = scene
               /\ draft'[Alone] = draft[Alone] \cup {drawn + 1}
               /\ drawn + 1 \in Stroke \ draft[Alone]
      BY <2>3, <3>2 DEF Document!Next, Document!Draw
    <3>3. CASE /\ losses' = losses /\ draft'[Alone] = draft[Alone]
               /\ scene \subseteq scene' /\ scene' \subseteq draft[Alone]
      BY <2>3, <3>3 DEF Document!Next, Document!Store
    <3>4. CASE losses' # 0 /\ UNCHANGED <<draft[Alone], scene>>
      BY <2>3, <3>4 DEF Document!Next, Document!Lose
    <3> QED
      BY <2>1, <2>3, <3>1, <3>2, <3>3, <3>4, AloneStep
  <2> QED
    BY <2>2, <2>3
<1> QED
  BY <1>1, <1>2, AloneInvariance, PTL DEF Spec, ImplementsDocument, Document!Spec

-----------------------------------------------------------------------------
(* Voice capture: what the invariant is made of.                           *)

Clears == {"turn_cancel", "pause", "end"}

In(d, s) == \E i \in DOMAIN s : s[i] = d
Has(s, d) == In(d, s.segments) \/ In(d, s.input) \/ In(d, s.audio)

\* No message from the i-th up to the one before the k-th empties the turn.
Uncleared(out, i, k) == \A l \in DOMAIN out : i <= l /\ l < k => out[l].type \notin Clears

\* Segment d is in the turn when the server comes to the k-th message on the way.
InTurn(s, out, k, d) ==
  \/ Has(s, d) /\ Uncleared(out, 1, k)
  \/ \E j \in DOMAIN out : /\ j < k /\ out[j].type = "chunk" /\ out[j].segment = d
                           /\ Uncleared(out, j + 1, k)

\* Segment d is in the turn when all that has been sent has arrived.
Arriving(p, s, d) == InTurn(s, p.out, Len(p.out) + 1, d)
NothingArrives(p, s) == \A d \in Segment : ~Arriving(p, s, d)

AtRest(p) == p.live = {} /\ p.stopping = << >> /\ p.flushing = << >>
Records(p, n) == n \in p.live \/ p.stopping = <<n>> \/ p.flushing = <<n>>

\* There is one recorder, of the last segment: it runs, stops or waits for its chunks.
OneRecorder(p, n) ==
  \/ AtRest(p)
  \/ p.live = {n} /\ p.current = n /\ p.stopping = << >> /\ p.flushing = << >>
  \/ p.live = {} /\ p.stopping = <<n>> /\ p.flushing = << >>
  \/ p.live = {} /\ p.stopping = << >> /\ p.flushing = <<n>>

\* A recorder was stopped for a reason, and knows what to do with its segment.
StoppedWhy(p, n) ==
  /\ ~AtRest(p) /\ p.live = {} => p.ending \/ p.discard
  /\ p.discard => p.notify
  /\ Records(p, n) /\ n \in p.discarded => p.discard

HeldOn(p) == p.enabled # "on" => p.held = {} /\ p.live = {}

Offline(p, s) ==
  /\ ~p.connected => p.out = << >> /\ s = NewHandler
  /\ s.at = "receive" => s.input = << >>

\* After a loss that a recorder met nothing of the turn is left.
Lost(p, s) ==
  /\ p.cut /\ ~AtRest(p) => NothingArrives(p, s)
  /\ p.ending /\ AtRest(p) => NothingArrives(p, s)

\* A cancelled segment that is still arriving waits for the stop handler.
CancelledWaits(p, s) ==
  \A d \in p.discarded : Arriving(p, s, d) =>
    p.discard /\ p.live = {} /\ ~AtRest(p) /\ ~p.handoff /\ ~p.turnEnd

Unanswered(p) == p.held \cup p.discarded

\* No turn that is handed over takes a segment that is held back or discarded.
TurnEnds(p, s) ==
  \A k \in DOMAIN p.out : p.out[k].type = "turn_end" =>
    \A d \in Unanswered(p) : ~InTurn(s, p.out, k, d)

NotSpoken(p, sp) == \A d \in Unanswered(p) : ~In(d, sp)

Increasing(s) == \A i, j \in DOMAIN s : i < j => s[i] < s[j]
Below(s, t) == \A i \in DOMAIN s, j \in DOMAIN t : s[i] < t[j]
UpTo(s, n) == \A i \in DOMAIN s : s[i] <= n

OrderedHere(s, sp) ==
  /\ Increasing(sp) /\ Increasing(s.segments) /\ Increasing(s.input) /\ Increasing(s.audio)
  /\ Below(sp, s.segments) /\ Below(sp, s.input) /\ Below(sp, s.audio)
  /\ Below(s.segments, s.input) /\ Below(s.segments, s.audio) /\ Below(s.input, s.audio)

\* Every segment the server has had is before segment d.
Before(s, sp, d) == \A e \in Segment : In(e, sp) \/ Has(s, e) => e < d

OrderedOnTheWay(p, s, sp) ==
  \A k \in DOMAIN p.out : p.out[k].type = "chunk" =>
    /\ Before(s, sp, p.out[k].segment)
    /\ \A j \in DOMAIN p.out :
         j < k /\ p.out[j].type = "chunk" => p.out[j].segment < p.out[k].segment

\* Every segment there has been, but for the one that is recorded, is before d.
AllBefore(p, s, sp, d) ==
  /\ Before(s, sp, d)
  /\ \A k \in DOMAIN p.out : p.out[k].type = "chunk" => p.out[k].segment < d

OrderedAtThePage(p, s, sp, n) ==
  /\ AllBefore(p, s, sp, n + 1)
  /\ ~AtRest(p) => AllBefore(p, s, sp, n)
  /\ \A d \in Unanswered(p) : d <= n

PageInv(p, n) == OneRecorder(p, n) /\ StoppedWhy(p, n) /\ HeldOn(p)
TurnInv(p, s, sp) == /\ Offline(p, s) /\ Lost(p, s) /\ CancelledWaits(p, s)
                     /\ TurnEnds(p, s) /\ NotSpoken(p, sp)
OrderInv(p, s, sp, n) == /\ OrderedHere(s, sp) /\ OrderedOnTheWay(p, s, sp)
                         /\ OrderedAtThePage(p, s, sp, n)

Typed(p, s, sp, n) == p \in Page /\ s \in Handler /\ sp \in Seq(Segment) /\ n \in 0..MaxSegments

Good(p, s, sp, n) ==
  /\ Typed(p, s, sp, n)
  /\ PageInv(p, n) /\ TurnInv(p, s, sp) /\ OrderInv(p, s, sp, n)

VoiceIInv == Good(page, handler, spoken, counts.segments)
-----------------------------------------------------------------------------
(* The turn, as messages are sent and handled.                             *)

LEMMA MessageKinds ==
  ASSUME NEW m \in Message
  PROVE  /\ m.type \in Request /\ m.segment \in {0} \cup Segment
         /\ m.type = "chunk" => m.segment \in Segment
  BY DEF Message, Request

LEMMA MsgIsMessage ==
  ASSUME NEW type \in Request \ {"chunk"}
  PROVE  Msg(type) \in Message /\ Msg(type).type = type
  BY DEF Msg, Message

LEMMA UnclearedAppended ==
  ASSUME NEW out \in Seq(Message), NEW m \in Message, NEW i \in Nat, NEW k \in Nat,
         k <= Len(out) + 1
  PROVE  Uncleared(Append(out, m), i, k) <=> Uncleared(out, i, k)
  <1>1. Len(out) \in Nat /\ DOMAIN out = 1..Len(out) /\ DOMAIN Append(out, m) = 1..(Len(out) + 1)
    OBVIOUS
  <1>2. \A l \in 1..Len(out) : Append(out, m)[l] = out[l]
    OBVIOUS
  <1> QED  BY <1>1, <1>2 DEF Uncleared

\* What is sent later changes nothing for the messages before it.
LEMMA InTurnAppended ==
  ASSUME NEW s, NEW out \in Seq(Message), NEW m \in Message, NEW d, NEW k \in Nat,
         k <= Len(out) + 1
  PROVE  InTurn(s, Append(out, m), k, d) <=> InTurn(s, out, k, d)
  <1>1. Len(out) \in Nat /\ DOMAIN out = 1..Len(out) /\ DOMAIN Append(out, m) = 1..(Len(out) + 1)
    OBVIOUS
  <1>2. \A l \in 1..Len(out) : Append(out, m)[l] = out[l]
    OBVIOUS
  <1>3. Uncleared(Append(out, m), 1, k) <=> Uncleared(out, 1, k)
    BY UnclearedAppended
  <1>4. \A j \in 1..(Len(out) + 1) :
          Uncleared(Append(out, m), j + 1, k) <=> Uncleared(out, j + 1, k)
    BY <1>1, UnclearedAppended
  <1>5. \A j \in 1..(Len(out) + 1) : j < k => j \in 1..Len(out)
    BY <1>1
  <1> QED  BY <1>1, <1>2, <1>3, <1>4, <1>5 DEF InTurn

\* A message that is sent brings its own segment, or empties the turn.
LEMMA ArrivingAppended ==
  ASSUME NEW s, NEW out \in Seq(Message), NEW m \in Message, NEW d,
         InTurn(s, Append(out, m), Len(Append(out, m)) + 1, d)
  PROVE  \/ m.type = "chunk" /\ m.segment = d
         \/ m.type \notin Clears /\ InTurn(s, out, Len(out) + 1, d)
  <1> DEFINE n == Len(out)
             o == Append(out, m)
  <1>1. n \in Nat /\ DOMAIN out = 1..n /\ DOMAIN o = 1..(n + 1) /\ Len(o) = n + 1
    OBVIOUS
  <1>2. o[n + 1] = m /\ \A l \in 1..n : o[l] = out[l]
    OBVIOUS
  <1>3. ASSUME NEW i \in Nat, i <= n + 1, Uncleared(o, i, n + 2)
        PROVE  m.type \notin Clears /\ Uncleared(out, i, n + 1)
    BY <1>1, <1>2, <1>3 DEF Uncleared
  <1>4. InTurn(s, o, n + 2, d)
    BY <1>1
  <1> HIDE DEF n, o
  <1>5. CASE Has(s, d) /\ Uncleared(o, 1, n + 2)
    <2>1. m.type \notin Clears /\ Uncleared(out, 1, n + 1)
      BY <1>1, <1>3, <1>5
    <2> QED  BY <1>5, <2>1 DEF InTurn, n
  <1>6. ASSUME NEW j \in DOMAIN o, o[j].type = "chunk", o[j].segment = d,
               Uncleared(o, j + 1, n + 2)
        PROVE  \/ m.type = "chunk" /\ m.segment = d
               \/ m.type \notin Clears /\ InTurn(s, out, n + 1, d)
    <2>1. CASE j = n + 1
      BY <1>2, <1>6, <2>1
    <2>2. CASE j \in 1..n
      <3>1. m.type \notin Clears /\ Uncleared(out, j + 1, n + 1)
        BY <1>1, <1>3, <1>6, <2>2
      <3>2. j < n + 1 /\ out[j].type = "chunk" /\ out[j].segment = d /\ j \in DOMAIN out
        BY <1>1, <1>2, <1>6, <2>2
      <3> QED  BY <3>1, <3>2 DEF InTurn
    <2> QED  BY <1>1, <2>1, <2>2
  <1> QED  BY <1>4, <1>5, <1>6 DEF InTurn, n

\* The server has taken the first message: what is in the turn was in it before.
LEMMA InTurnTail ==
  ASSUME NEW s, NEW t, NEW out \in Seq(Message), out # << >>, NEW d,
         NEW k \in Nat \ {0},
         Has(t, d) => \/ Has(s, d) /\ Head(out).type \notin Clears
                      \/ Head(out).type = "chunk" /\ Head(out).segment = d,
         InTurn(t, Tail(out), k, d)
  PROVE  InTurn(s, out, k + 1, d)
  <1> DEFINE n == Len(out)
             o == Tail(out)
  <1>1. n \in Nat /\ n >= 1 /\ DOMAIN out = 1..n /\ DOMAIN o = 1..(n - 1)
    OBVIOUS
  <1>2. Head(out) = out[1] /\ \A l \in 1..(n - 1) : o[l] = out[l + 1]
    OBVIOUS
  <1> HIDE DEF n, o
  <1>3. ASSUME NEW i \in Nat, i >= 1, Uncleared(o, i, k)
        PROVE  Uncleared(out, i + 1, k + 1)
    <2> SUFFICES ASSUME NEW l \in DOMAIN out, i + 1 <= l, l < k + 1
                 PROVE  out[l].type \notin Clears
      BY DEF Uncleared
    <2>1. l - 1 \in DOMAIN o /\ i <= l - 1 /\ l - 1 < k /\ o[l - 1] = out[l]
      BY <1>1, <1>2, <1>3
    <2> QED  BY <1>3, <2>1 DEF Uncleared
  <1>4. CASE Has(t, d) /\ Uncleared(o, 1, k)
    <2>1. Uncleared(out, 2, k + 1)
      BY <1>3, <1>4
    <2>2. CASE Has(s, d) /\ Head(out).type \notin Clears
      <3>1. Uncleared(out, 1, k + 1)
        BY <1>1, <1>2, <2>1, <2>2 DEF Uncleared
      <3> QED  BY <2>2, <3>1 DEF InTurn
    <2>3. CASE Head(out).type = "chunk" /\ Head(out).segment = d
      BY <1>1, <1>2, <2>1, <2>3 DEF InTurn
    <2> QED  BY <1>4, <2>2, <2>3
  <1>5. ASSUME NEW j \in DOMAIN o, j < k, o[j].type = "chunk", o[j].segment = d,
               Uncleared(o, j + 1, k)
        PROVE  InTurn(s, out, k + 1, d)
    <2>1. Uncleared(out, j + 1 + 1, k + 1)
      BY <1>1, <1>3, <1>5
    <2>2. /\ j + 1 \in DOMAIN out /\ j + 1 < k + 1
          /\ out[j + 1].type = "chunk" /\ out[j + 1].segment = d
      BY <1>1, <1>2, <1>5
    <2> QED  BY <2>1, <2>2 DEF InTurn
  <1> QED  BY <1>4, <1>5 DEF InTurn, o

\* A handler that holds no more than before changes nothing on the way.
LEMMA InTurnHolder ==
  ASSUME NEW s, NEW t, NEW out, NEW d, NEW k, Has(t, d) => Has(s, d), InTurn(t, out, k, d)
  PROVE  InTurn(s, out, k, d)
  BY DEF InTurn

LEMMA NewHandlerEmpty ==
  /\ NewHandler \in Handler
  /\ \A d, k : ~InTurn(NewHandler, << >>, k, d)
  BY DEF NewHandler, Handler, InTurn, Has, In
-----------------------------------------------------------------------------
(* The parts of the invariant, kept by the ways in which the page changes. *)

\* What holds between two steps of one handler of the page.
Half(p, s, sp, n) ==
  /\ Typed(p, s, sp, n) /\ PageInv(p, n) /\ Offline(p, s)
  /\ TurnEnds(p, s) /\ NotSpoken(p, sp) /\ OrderInv(p, s, sp, n)

LEMMA GoodParts ==
  ASSUME NEW p, NEW s, NEW sp, NEW n
  PROVE  Good(p, s, sp, n) <=> Half(p, s, sp, n) /\ Lost(p, s) /\ CancelledWaits(p, s)
  BY DEF Good, Half, TurnInv

LEMMA HalfAndEmptyIsGood ==
  ASSUME NEW p, NEW s, NEW sp, NEW n, Half(p, s, sp, n), NothingArrives(p, s)
  PROVE  Good(p, s, sp, n)
  <1>1. p.discarded \subseteq Segment
    BY DEF Half, Typed, Page
  <1> QED  BY <1>1, GoodParts DEF Lost, CancelledWaits, NothingArrives

LEMMA OfflineIsEmpty ==
  ASSUME NEW p \in Page, NEW s, Offline(p, s), ~p.connected
  PROVE  NothingArrives(p, s)
  BY NewHandlerEmpty DEF Offline, NothingArrives, Arriving

\* A page whose messages bring no other segments keeps the order.
LEMMA OrderKept ==
  ASSUME NEW p \in Page, NEW q \in Page, NEW s, NEW sp, NEW n, OrderInv(p, s, sp, n),
         \A k \in DOMAIN q.out :
           q.out[k].type = "chunk" => k \in DOMAIN p.out /\ q.out[k] = p.out[k],
         AtRest(p) => AtRest(q), Unanswered(q) \subseteq Unanswered(p)
  PROVE  OrderInv(q, s, sp, n)
  <1>1. OrderedHere(s, sp)
    BY DEF OrderInv
  <1>2. OrderedOnTheWay(q, s, sp)
    BY DEF OrderInv, OrderedOnTheWay
  <1>3. OrderedAtThePage(q, s, sp, n)
    BY DEF OrderInv, OrderedAtThePage, AllBefore
  <1> QED  BY <1>1, <1>2, <1>3 DEF OrderInv

\* A step of the page that sends nothing.
LEMMA HalfQuiet ==
  ASSUME NEW p, NEW s, NEW sp, NEW n, Half(p, s, sp, n), NEW q \in Page,
         q.out = p.out, p.connected => q.connected, Unanswered(q) \subseteq Unanswered(p),
         AtRest(p) => AtRest(q), PageInv(q, n)
  PROVE  Half(q, s, sp, n) /\ \A d : Arriving(q, s, d) <=> Arriving(p, s, d)
  <1>1. p \in Page /\ OrderInv(p, s, sp, n)
    BY DEF Half, Typed
  <1>2. OrderInv(q, s, sp, n)
    BY <1>1, OrderKept
  <1>3. Offline(q, s) /\ NotSpoken(q, sp) /\ TurnEnds(q, s)
    BY DEF Half, Offline, NotSpoken, TurnEnds
  <1> QED  BY <1>2, <1>3 DEF Half, Typed, Arriving

LEMMA GoodQuiet ==
  ASSUME NEW p, NEW s, NEW sp, NEW n, Good(p, s, sp, n), NEW q \in Page,
         q.out = p.out, p.connected => q.connected, Unanswered(q) \subseteq Unanswered(p),
         AtRest(p) => AtRest(q), PageInv(q, n), p.discarded = q.discarded,
         q.cut = p.cut,
         q.ending /\ AtRest(q) => p.ending /\ AtRest(p),
         p.discard /\ p.live = {} /\ ~AtRest(p) /\ ~p.handoff /\ ~p.turnEnd =>
           q.discard /\ q.live = {} /\ ~AtRest(q) /\ ~q.handoff /\ ~q.turnEnd
  PROVE  Good(q, s, sp, n)
  <1>1. Half(p, s, sp, n) /\ Lost(p, s) /\ CancelledWaits(p, s)
    BY GoodParts
  <1>2. Half(q, s, sp, n) /\ \A d : Arriving(q, s, d) <=> Arriving(p, s, d)
    BY <1>1, HalfQuiet
  <1>3. NothingArrives(q, s) <=> NothingArrives(p, s)
    BY <1>2 DEF NothingArrives
  <1>4. Lost(q, s)
    BY <1>1, <1>3 DEF Lost
  <1>5. CancelledWaits(q, s)
    BY <1>1, <1>2 DEF CancelledWaits
  <1> QED  BY <1>2, <1>4, <1>5, GoodParts

\* What send leaves alone.
SameButOut(p, q) ==
  /\ q.status = p.status /\ q.connected = p.connected /\ q.streaming = p.streaming
  /\ q.enabled = p.enabled /\ q.current = p.current /\ q.live = p.live
  /\ q.stopping = p.stopping /\ q.flushing = p.flushing /\ q.ending = p.ending
  /\ q.turnEnd = p.turnEnd /\ q.discard = p.discard /\ q.notify = p.notify
  /\ q.after = p.after /\ q.handoff = p.handoff /\ q.pending = p.pending
  /\ q.cut = p.cut /\ q.held = p.held /\ q.discarded = p.discarded

LEMMA SentIs ==
  ASSUME NEW p \in Page, NEW type \in Request \ {"chunk"}
  PROVE  /\ Sent(p, type) \in Page /\ SameButOut(p, Sent(p, type))
         /\ p.connected => Sent(p, type).out = Append(p.out, Msg(type))
         /\ ~p.connected => Sent(p, type) = p
  <1>1. Msg(type) \in Message
    BY MsgIsMessage
  <1>2. p.out \in Seq(Message)
    BY DEF Page
  <1>3. Append(p.out, Msg(type)) \in Seq(Message)
    BY <1>1, <1>2
  <1>4. CASE p.connected
    <2>1. Sent(p, type) = [p EXCEPT !.out = Append(p.out, Msg(type))]
      BY <1>4 DEF Sent
    <2> QED  BY <1>3, <1>4, <2>1 DEF Page, SameButOut
  <1>5. CASE ~p.connected
    <2>1. Sent(p, type) = p
      BY <1>5 DEF Sent
    <2> QED  BY <1>5, <2>1 DEF SameButOut
  <1> QED  BY <1>4, <1>5

LEMMA SameButOutKeeps ==
  ASSUME NEW p \in Page, NEW q \in Page, SameButOut(p, q), NEW n
  PROVE  /\ PageInv(p, n) => PageInv(q, n)
         /\ AtRest(p) <=> AtRest(q)
         /\ Unanswered(q) = Unanswered(p)
  BY DEF SameButOut, PageInv, OneRecorder, StoppedWhy, HeldOn, AtRest, Records, Unanswered

LEMMA TurnEndsAppended ==
  ASSUME NEW p \in Page, NEW q \in Page, NEW s, TurnEnds(p, s), NEW m \in Message,
         q.out = Append(p.out, m), Unanswered(q) \subseteq Unanswered(p),
         m.type = "turn_end" => \A d \in Unanswered(q) : ~Arriving(p, s, d)
  PROVE  TurnEnds(q, s)
  <1> DEFINE n == Len(p.out)
  <1>1. p.out \in Seq(Message)
    BY DEF Page
  <1>2. n \in Nat /\ DOMAIN p.out = 1..n /\ DOMAIN q.out = 1..(n + 1)
    BY <1>1
  <1>3. q.out[n + 1] = m /\ \A l \in 1..n : q.out[l] = p.out[l]
    BY <1>1
  <1> SUFFICES ASSUME NEW k \in DOMAIN q.out, q.out[k].type = "turn_end",
                      NEW d \in Unanswered(q)
               PROVE  ~InTurn(s, q.out, k, d)
    BY DEF TurnEnds
  <1>4. k \in Nat /\ k <= n + 1
    BY <1>2
  <1>5. InTurn(s, q.out, k, d) <=> InTurn(s, p.out, k, d)
    BY <1>1, <1>4, InTurnAppended
  <1>6. CASE k = n + 1
    BY <1>3, <1>5, <1>6 DEF Arriving
  <1>7. CASE k \in 1..n
    <2>1. k \in DOMAIN p.out /\ p.out[k].type = "turn_end"
      BY <1>2, <1>3, <1>7
    <2> QED  BY <1>5, <2>1 DEF TurnEnds
  <1> QED  BY <1>2, <1>6, <1>7

\* A message other than a chunk.
LEMMA HalfSent ==
  ASSUME NEW p, NEW s, NEW sp, NEW n, Half(p, s, sp, n), NEW type \in Request \ {"chunk"},
         type = "turn_end" => \A d \in Unanswered(p) : ~Arriving(p, s, d)
  PROVE  /\ Half(Sent(p, type), s, sp, n)
         /\ \A d : Arriving(Sent(p, type), s, d) => Arriving(p, s, d)
         /\ type \in Clears => NothingArrives(Sent(p, type), s)
  <1> DEFINE q == Sent(p, type)
             m == Msg(type)
  <1>1. p \in Page /\ p.out \in Seq(Message) /\ m \in Message /\ m.type = type
    BY MsgIsMessage DEF Half, Typed, Page
  <1>2. /\ q \in Page /\ SameButOut(p, q)
        /\ p.connected => q.out = Append(p.out, m)
        /\ ~p.connected => q = p
    BY <1>1, SentIs
  <1> HIDE DEF q, m
  <1>3. CASE ~p.connected
    <2>1. NothingArrives(p, s)
      BY <1>1, <1>3, OfflineIsEmpty DEF Half
    <2> QED  BY <1>2, <1>3, <2>1 DEF q
  <1>4. CASE p.connected
    <2>1. q.out = Append(p.out, m)
      BY <1>2, <1>4
    <2>2. PageInv(q, n) /\ (AtRest(p) <=> AtRest(q)) /\ Unanswered(q) = Unanswered(p)
      BY <1>1, <1>2, SameButOutKeeps DEF Half
    <2>3. TurnEnds(q, s)
      BY <1>1, <1>2, <2>1, <2>2, TurnEndsAppended DEF Half
    <2>4. \A k \in DOMAIN q.out :
            q.out[k].type = "chunk" => k \in DOMAIN p.out /\ q.out[k] = p.out[k]
      BY <1>1, <2>1
    <2>5. OrderInv(q, s, sp, n)
      BY <1>1, <1>2, <2>2, <2>4, OrderKept DEF Half
    <2>6. Offline(q, s) /\ NotSpoken(q, sp)
      BY <1>2, <1>4, <2>2 DEF Half, Offline, NotSpoken, SameButOut
    <2>7. Half(q, s, sp, n)
      BY <1>2, <2>2, <2>3, <2>5, <2>6 DEF Half, Typed
    <2>8. ASSUME NEW d, Arriving(q, s, d)
          PROVE  type \notin Clears /\ Arriving(p, s, d)
      BY <1>1, <2>1, <2>8, ArrivingAppended DEF Arriving
    <2> QED  BY <2>7, <2>8 DEF NothingArrives, q
  <1> QED  BY <1>3, <1>4

LEMMA GoodSent ==
  ASSUME NEW p, NEW s, NEW sp, NEW n, Good(p, s, sp, n), NEW type \in Request \ {"chunk"},
         type = "turn_end" => \A d \in Unanswered(p) : ~Arriving(p, s, d)
  PROVE  Good(Sent(p, type), s, sp, n)
  <1> DEFINE q == Sent(p, type)
  <1>1. Half(p, s, sp, n) /\ Lost(p, s) /\ CancelledWaits(p, s) /\ p \in Page
    BY GoodParts DEF Half, Typed
  <1>2. Half(q, s, sp, n) /\ \A d : Arriving(q, s, d) => Arriving(p, s, d)
    BY <1>1, HalfSent
  <1>3. q \in Page /\ SameButOut(p, q) /\ (AtRest(p) <=> AtRest(q))
    BY <1>1, SentIs, SameButOutKeeps
  <1> HIDE DEF q
  <1>4. NothingArrives(p, s) => NothingArrives(q, s)
    BY <1>2 DEF NothingArrives
  <1>5. Lost(q, s)
    BY <1>1, <1>3, <1>4 DEF Lost, SameButOut
  <1>6. CancelledWaits(q, s)
    BY <1>1, <1>2, <1>3 DEF CancelledWaits, SameButOut
  <1>7. Good(q, s, sp, n)
    BY <1>2, <1>5, <1>6, GoodParts
  <1> QED  BY <1>7 DEF q
-----------------------------------------------------------------------------
(* What the hook and the buttons do to the page.                           *)

LEMMA SetToSeqEmpty == SetToSeq({}) = << >>
  <1>1. Cardinality({}) = 0
    BY FS_EmptySet
  <1>2. << >> \in [1..0 -> {}] /\ IsInjective(<< >>)
    BY DEF IsInjective
  <1>3. SetToSeq({}) \in [1..0 -> {}]
    BY <1>1, <1>2 DEF SetToSeq
  <1> QED  BY <1>3

LEMMA IdleRecordsNothing ==
  ASSUME NEW p, NEW n, AtRest(p)
  PROVE  ~Records(p, n)
  BY DEF AtRest, Records

LEMMA RecordingIs ==
  ASSUME NEW p, NEW n, OneRecorder(p, n)
  PROVE  /\ Recording(p) => p.live = {n} /\ p.current = n /\ p.stopping = << >>
                            /\ p.flushing = << >>
         /\ ~Recording(p) => p.live = {}
  BY DEF OneRecorder, Recording, AtRest

\* Nothing that is cancelled arrives: the rest of the invariant is as it was.
LEMMA HalfAndCleanIsGood ==
  ASSUME NEW p, NEW s, NEW sp, NEW n, Half(p, s, sp, n), Lost(p, s),
         \A d \in p.discarded : ~Arriving(p, s, d)
  PROVE  Good(p, s, sp, n)
  BY GoodParts DEF CancelledWaits

LEMMA SendTurnGood ==
  ASSUME NEW p, NEW s, NEW sp, NEW n, Good(p, s, sp, n),
         \A d \in p.discarded : ~Arriving(p, s, d)
  PROVE  Good(SendTurn(p), s, sp, n)
  <1>1. Half(p, s, sp, n) /\ Lost(p, s) /\ PageInv(p, n) /\ p \in Page
    BY GoodParts DEF Half, Typed
  <1>2. CASE p.ending
    <2> DEFINE q == [p EXCEPT !.turnEnd = TRUE]
    <2>1. /\ q \in Page /\ q.out = p.out /\ q.connected = p.connected
          /\ q.discarded = p.discarded /\ q.held = p.held /\ q.cut = p.cut
          /\ q.live = p.live /\ q.stopping = p.stopping /\ q.flushing = p.flushing
          /\ q.current = p.current /\ q.ending = p.ending /\ q.discard = p.discard
          /\ q.notify = p.notify /\ q.enabled = p.enabled
      BY <1>1 DEF Page
    <2>2. SendTurn(p) = q
      BY <1>2 DEF SendTurn
    <2> HIDE DEF q
    <2>3. PageInv(q, n) /\ (AtRest(q) <=> AtRest(p)) /\ Unanswered(q) = Unanswered(p)
      BY <1>1, <2>1 DEF PageInv, OneRecorder, StoppedWhy, HeldOn, AtRest, Records, Unanswered
    <2>4. Half(q, s, sp, n) /\ \A d : Arriving(q, s, d) <=> Arriving(p, s, d)
      BY <1>1, <2>1, <2>3, HalfQuiet
    <2>5. Lost(q, s)
      BY <1>1, <2>1, <2>3, <2>4 DEF Lost, NothingArrives
    <2> QED  BY <2>1, <2>2, <2>4, <2>5, HalfAndCleanIsGood
  <1>3. CASE ~p.ending
    <2> DEFINE q == [ClearTurn(p) EXCEPT !.held = {}, !.status = "responding"]
    <2>1. /\ q \in Page /\ q.out = p.out /\ q.connected = p.connected
          /\ q.discarded = p.discarded /\ q.held = {} /\ q.cut = p.cut
          /\ q.live = p.live /\ q.stopping = p.stopping /\ q.flushing = p.flushing
          /\ q.current = p.current /\ q.ending = p.ending /\ q.discard = p.discard
          /\ q.notify = p.notify /\ q.enabled = p.enabled
          /\ q.turnEnd = FALSE /\ q.handoff = FALSE
      BY <1>1 DEF Page, ClearTurn, Status
    <2>2. SendTurn(p) = Sent(q, "turn_end")
      BY <1>3 DEF SendTurn
    <2> HIDE DEF q
    <2>3. PageInv(q, n) /\ (AtRest(q) <=> AtRest(p)) /\ Unanswered(q) = p.discarded
      BY <1>1, <2>1 DEF PageInv, OneRecorder, StoppedWhy, HeldOn, AtRest, Records, Unanswered
    <2>4. Unanswered(q) \subseteq Unanswered(p)
      BY <2>3 DEF Unanswered
    <2>5. Half(q, s, sp, n) /\ \A d : Arriving(q, s, d) <=> Arriving(p, s, d)
      BY <1>1, <2>1, <2>3, <2>4, HalfQuiet
    <2>6. Lost(q, s)
      BY <1>1, <2>1, <2>3, <2>5 DEF Lost, NothingArrives
    <2>7. Good(q, s, sp, n)
      BY <2>1, <2>5, <2>6, HalfAndCleanIsGood
    <2>8. "turn_end" \in Request \ {"chunk"}
      BY DEF Request
    <2> QED  BY <2>2, <2>3, <2>5, <2>7, <2>8, GoodSent
  <1> QED  BY <1>2, <1>3

LEMMA DisableIs ==
  ASSUME NEW p \in Page, p.live = {}
  PROVE  /\ Disable(p) \in Page /\ Disable(p).out = p.out
         /\ Disable(p).connected = p.connected /\ Disable(p).cut = p.cut
         /\ Disable(p).discarded = p.discarded \cup p.held /\ Disable(p).held = {}
         /\ Disable(p).live = p.live /\ Disable(p).stopping = p.stopping
         /\ Disable(p).flushing = p.flushing /\ Disable(p).current = p.current
         /\ Disable(p).ending = p.ending /\ Disable(p).discard = p.discard
         /\ Disable(p).notify = p.notify /\ Disable(p).enabled = "off"
         /\ Disable(p).turnEnd = FALSE /\ Disable(p).handoff = FALSE
  <1>1. ~Recording(p)
    BY DEF Recording
  <1>2. p.stopping \o << >> = p.stopping
    BY DEF Page
  <1> DEFINE c == ClearTurn(p)
             q == Disable(p)
  <1>3. q = [c EXCEPT !.enabled = "off", !.live = {}, !.stopping = @ \o SetToSeq(p.live),
                      !.discarded = @ \cup p.held, !.held = {}]
    BY <1>1 DEF Disable
  <1>4. c \in Page
    BY DEF ClearTurn, Page
  <1>5. /\ c.discarded = p.discarded /\ c.stopping = p.stopping
        /\ c.turnEnd = FALSE /\ c.handoff = FALSE
    BY DEF ClearTurn, Page
  <1>6. /\ c.out = p.out /\ c.connected = p.connected /\ c.cut = p.cut
        /\ c.flushing = p.flushing /\ c.current = p.current /\ c.ending = p.ending
        /\ c.discard = p.discard /\ c.notify = p.notify
    BY DEF ClearTurn, Page
  <1> HIDE DEF c, q
  <1> DEFINE all == p.discarded \cup p.held
  <1>7. q = [c EXCEPT !.enabled = "off", !.live = {}, !.stopping = p.stopping,
                      !.discarded = all, !.held = {}]
    <2>1. SetToSeq(p.live) = << >>
      BY SetToSeqEmpty
    <2>2. c.stopping \o SetToSeq(p.live) = p.stopping
      BY <1>2, <1>5, <2>1
    <2>3. q = [c EXCEPT !.enabled = "off", !.live = {},
                        !.stopping = c.stopping \o SetToSeq(p.live),
                        !.discarded = c.discarded \cup p.held, !.held = {}]
      BY <1>3
    <2>4. c.discarded \cup p.held = all
      BY <1>5
    <2> HIDE DEF all
    <2> QED  BY <2>2, <2>3, <2>4
  <1>8. all \in SUBSET Segment /\ p.stopping \in Seq(Segment)
    BY DEF Page
  <1>9. all = p.discarded \cup p.held
    OBVIOUS
  <1> HIDE DEF all
  <1>10. q \in Page
    BY <1>4, <1>7, <1>8 DEF Page
  <1>11. /\ q.discarded = all /\ q.held = {} /\ q.live = {} /\ q.stopping = p.stopping
         /\ q.enabled = "off"
    BY <1>4, <1>7 DEF Page
  <1>12. /\ q.turnEnd = c.turnEnd /\ q.handoff = c.handoff /\ q.out = c.out
         /\ q.connected = c.connected /\ q.cut = c.cut
         /\ q.flushing = c.flushing /\ q.current = c.current /\ q.ending = c.ending
         /\ q.discard = c.discard /\ q.notify = c.notify
    BY <1>4, <1>7 DEF Page
  <1>13. /\ q \in Page /\ q.out = p.out /\ q.connected = p.connected
         /\ q.discarded = p.discarded \cup p.held /\ q.held = {} /\ q.cut = p.cut
         /\ q.live = p.live /\ q.stopping = p.stopping /\ q.flushing = p.flushing
         /\ q.current = p.current /\ q.ending = p.ending /\ q.discard = p.discard
         /\ q.notify = p.notify /\ q.enabled = "off"
         /\ q.turnEnd = FALSE /\ q.handoff = FALSE
    BY <1>5, <1>6, <1>9, <1>10, <1>11, <1>12
  <1> QED  BY <1>13 DEF q

LEMMA DisableGood ==
  ASSUME NEW p, NEW s, NEW sp, NEW n, Good(p, s, sp, n), p.live = {},
         p.held = {} \/ (AtRest(p) /\ NothingArrives(p, s))
  PROVE  Good(Disable(p), s, sp, n)
  <1> DEFINE q == Disable(p)
  <1>1. Half(p, s, sp, n) /\ Lost(p, s) /\ PageInv(p, n) /\ p \in Page
    BY GoodParts DEF Half, Typed
  <1>2. /\ q \in Page /\ q.out = p.out /\ q.connected = p.connected
        /\ q.discarded = p.discarded \cup p.held /\ q.held = {} /\ q.cut = p.cut
        /\ q.live = p.live /\ q.stopping = p.stopping /\ q.flushing = p.flushing
        /\ q.current = p.current /\ q.ending = p.ending /\ q.discard = p.discard
        /\ q.notify = p.notify /\ q.enabled = "off"
        /\ q.turnEnd = FALSE /\ q.handoff = FALSE
    BY <1>1, DisableIs
  <1> HIDE DEF q
  <1>3. (AtRest(q) <=> AtRest(p)) /\ Unanswered(q) \subseteq Unanswered(p)
    BY <1>2 DEF AtRest, Unanswered
  <1>4. OneRecorder(q, n) /\ HeldOn(q)
    BY <1>1, <1>2, <1>3 DEF PageInv, OneRecorder, HeldOn
  <1>5. CASE p.held = {}
    <2>1. q.discarded = p.discarded
      BY <1>2, <1>5
    <2>2. PageInv(q, n)
      BY <1>1, <1>2, <1>3, <1>4, <2>1 DEF PageInv, StoppedWhy, Records
    <2>3. q.ending /\ AtRest(q) => p.ending /\ AtRest(p)
      BY <1>2, <1>3
    <2>4. p.discard /\ p.live = {} /\ ~AtRest(p) /\ ~p.handoff /\ ~p.turnEnd =>
            q.discard /\ q.live = {} /\ ~AtRest(q) /\ ~q.handoff /\ ~q.turnEnd
      BY <1>2, <1>3
    <2>5. Good(q, s, sp, n)
      BY <1>2, <1>3, <2>1, <2>2, <2>3, <2>4, GoodQuiet
    <2> QED  BY <2>5 DEF q
  <1>6. CASE AtRest(p) /\ NothingArrives(p, s)
    <2>1. PageInv(q, n)
      BY <1>1, <1>2, <1>3, <1>4, <1>6, IdleRecordsNothing DEF PageInv, StoppedWhy
    <2>2. Half(q, s, sp, n) /\ \A d : Arriving(q, s, d) <=> Arriving(p, s, d)
      BY <1>1, <1>2, <1>3, <2>1, HalfQuiet
    <2>3. NothingArrives(q, s)
      BY <1>6, <2>2 DEF NothingArrives
    <2> QED  BY <2>2, <2>3, HalfAndEmptyIsGood DEF q
  <1> QED  BY <1>5, <1>6

LEMMA PerformGood ==
  ASSUME NEW p, NEW s, NEW sp, NEW n, Good(p, s, sp, n), p.live = {},
         p.held = {} \/ (AtRest(p) /\ NothingArrives(p, s)), NEW after \in After
  PROVE  Good(Perform(p, after), s, sp, n)
  <1>1. "pause" \in Request \ {"chunk"} /\ "end" \in Request \ {"chunk"}
    BY DEF Request
  <1>2. Good(Disable(p), s, sp, n)
    BY DisableGood
  <1>3. CASE after = "none"
    BY <1>3 DEF Perform
  <1>4. CASE after = "disable"
    BY <1>2, <1>4 DEF Perform
  <1>5. CASE after = "pause"
    <2>1. Good(Sent(Disable(p), "pause"), s, sp, n)
      BY <1>1, <1>2, GoodSent
    <2> QED  BY <1>5, <2>1 DEF Perform
  <1>6. CASE after = "end"
    <2>1. Good(Sent(p, "end"), s, sp, n)
      BY <1>1, GoodSent
    <2> QED  BY <1>6, <2>1 DEF Perform
  <1> QED  BY <1>3, <1>4, <1>5, <1>6 DEF After

\* A cancelled turn leaves nothing on the way.
LEMMA TurnCancelledGood ==
  ASSUME NEW p, NEW s, NEW sp, NEW n, Half(p, s, sp, n)
  PROVE  /\ Good(TurnCancelled(p), s, sp, n)
         /\ NothingArrives(TurnCancelled(p), s)
         /\ TurnCancelled(p).live = p.live /\ TurnCancelled(p).held = p.held
         /\ AtRest(TurnCancelled(p)) <=> AtRest(p)
  <1> DEFINE status == IF p.status \in {"listening", "transcribing"} THEN "ready_for_answer"
                       ELSE p.status
             q == [p EXCEPT !.status = status]
  <1>1. p \in Page /\ PageInv(p, n)
    BY DEF Half, Typed
  <1>2. status \in Status
    BY <1>1 DEF Page, Status
  <1> HIDE DEF status
  <1>3. TurnCancelled(p) = Sent(q, "turn_cancel")
    BY <1>1 DEF TurnCancelled, status, Page
  <1>4. /\ q \in Page /\ q.out = p.out /\ q.connected = p.connected
        /\ q.discarded = p.discarded /\ q.held = p.held
        /\ q.live = p.live /\ q.stopping = p.stopping /\ q.flushing = p.flushing
        /\ q.current = p.current /\ q.ending = p.ending /\ q.discard = p.discard
        /\ q.notify = p.notify /\ q.enabled = p.enabled
    BY <1>1, <1>2 DEF Page
  <1> HIDE DEF q
  <1>5. PageInv(q, n) /\ (AtRest(q) <=> AtRest(p)) /\ Unanswered(q) = Unanswered(p)
    BY <1>1, <1>4 DEF PageInv, OneRecorder, StoppedWhy, HeldOn, AtRest, Records, Unanswered
  <1>6. Half(q, s, sp, n)
    BY <1>4, <1>5, HalfQuiet
  <1>7. "turn_cancel" \in Request \ {"chunk"} /\ "turn_cancel" \in Clears
    BY DEF Request, Clears
  <1>8. Half(Sent(q, "turn_cancel"), s, sp, n) /\ NothingArrives(Sent(q, "turn_cancel"), s)
    BY <1>6, <1>7, HalfSent
  <1>9. SameButOut(q, Sent(q, "turn_cancel"))
    BY <1>4, <1>7, SentIs
  <1> QED  BY <1>3, <1>4, <1>8, <1>9, HalfAndEmptyIsGood DEF SameButOut, AtRest

LEMMA CancelTurnGood ==
  ASSUME NEW p, NEW s, NEW sp, NEW n, Good(p, s, sp, n), NEW after \in After
  PROVE  Good(CancelTurn(p, after), s, sp, n)
  <1> DEFINE q == [ClearTurn(p) EXCEPT !.discarded = @ \cup p.held, !.held = {}]
             r == [q EXCEPT !.discard = TRUE, !.notify = TRUE, !.after = after]
  <1>1. Half(p, s, sp, n) /\ Lost(p, s) /\ CancelledWaits(p, s) /\ PageInv(p, n) /\ p \in Page
    BY GoodParts DEF Half, Typed
  <1>2. /\ q \in Page /\ q.out = p.out /\ q.connected = p.connected
        /\ q.discarded = p.discarded \cup p.held /\ q.held = {} /\ q.cut = p.cut
        /\ q.live = p.live /\ q.stopping = p.stopping /\ q.flushing = p.flushing
        /\ q.current = p.current /\ q.ending = p.ending /\ q.discard = p.discard
        /\ q.notify = p.notify /\ q.enabled = p.enabled
        /\ q.turnEnd = FALSE /\ q.handoff = FALSE
    BY <1>1 DEF Page, ClearTurn
  <1>3. /\ r \in Page /\ r.out = p.out /\ r.connected = p.connected
        /\ r.discarded = p.discarded \cup p.held /\ r.held = {} /\ r.cut = p.cut
        /\ r.live = p.live /\ r.stopping = p.stopping /\ r.flushing = p.flushing
        /\ r.current = p.current /\ r.ending = p.ending /\ r.discard = TRUE
        /\ r.notify = TRUE /\ r.enabled = p.enabled
        /\ r.turnEnd = FALSE /\ r.handoff = FALSE
    BY <1>2 DEF Page
  <1>4. /\ CancelTurn(p, after) = IF Recording(p) THEN Stop(r)
                                  ELSE IF p.ending THEN r
                                  ELSE IF p.connected THEN Perform(TurnCancelled(q), after)
                                  ELSE TurnCancelled(q)
    BY DEF CancelTurn
  <1> HIDE DEF q, r
  <1>5. CASE Recording(p)
    <2> DEFINE t == Stop(r)
    <2>1. /\ p.live = {n} /\ p.current = n /\ p.stopping = << >> /\ p.flushing = << >>
          /\ n \in Segment
      BY <1>1, <1>5, RecordingIs DEF PageInv, Page
    <2>2. Append(<< >>, n) = <<n>> /\ <<n>> \in Seq(Segment) /\ <<n>> # << >>
      BY <2>1
    <2>3. t = [r EXCEPT !.live = {}, !.stopping = <<n>>]
      <3>1. r.current = n /\ r.live \ {n} = {} /\ Append(r.stopping, n) = <<n>>
        BY <1>3, <2>1, <2>2
      <3>2. t = [r EXCEPT !.live = r.live \ {r.current},
                          !.stopping = Append(r.stopping, r.current)]
        BY DEF Stop
      <3> QED  BY <3>1, <3>2
    <2> HIDE DEF t
    <2>4. /\ t \in Page /\ t.out = p.out /\ t.connected = p.connected
          /\ t.discarded = p.discarded \cup p.held /\ t.held = {} /\ t.cut = p.cut
          /\ t.live = {} /\ t.stopping = <<n>> /\ t.flushing = << >>
          /\ t.discard = TRUE /\ t.notify = TRUE /\ t.enabled = p.enabled
          /\ t.turnEnd = FALSE /\ t.handoff = FALSE
      BY <1>3, <2>1, <2>2, <2>3 DEF Page
    <2>5. ~AtRest(p) /\ ~AtRest(t) /\ Unanswered(t) = Unanswered(p)
      BY <2>1, <2>2, <2>4 DEF AtRest, Unanswered
    <2>6. PageInv(t, n)
      BY <1>1, <2>4 DEF PageInv, OneRecorder, StoppedWhy, HeldOn
    <2>7. Half(t, s, sp, n) /\ \A d : Arriving(t, s, d) <=> Arriving(p, s, d)
      BY <1>1, <2>4, <2>5, <2>6, HalfQuiet
    <2>8. Lost(t, s)
      BY <1>1, <2>4, <2>5, <2>7 DEF Lost, NothingArrives
    <2>9. CancelledWaits(t, s)
      BY <2>4, <2>5 DEF CancelledWaits
    <2> QED  BY <1>4, <1>5, <2>7, <2>8, <2>9, GoodParts DEF t
  <1>6. ASSUME ~Recording(p)
        PROVE  p.live = {} /\ (AtRest(q) <=> AtRest(p)) /\ (AtRest(r) <=> AtRest(p))
               /\ Unanswered(q) = Unanswered(p) /\ Unanswered(r) = Unanswered(p)
    BY <1>1, <1>2, <1>3, <1>6, RecordingIs DEF PageInv, AtRest, Unanswered
  <1>7. CASE ~Recording(p) /\ p.ending
    <2>1. PageInv(r, n)
      BY <1>1, <1>3, <1>6, <1>7 DEF PageInv, OneRecorder, StoppedWhy, HeldOn
    <2>2. Half(r, s, sp, n) /\ \A d : Arriving(r, s, d) <=> Arriving(p, s, d)
      BY <1>1, <1>3, <1>6, <1>7, <2>1, HalfQuiet
    <2>3. CASE AtRest(p)
      <3>1. NothingArrives(r, s)
        BY <1>1, <1>7, <2>2, <2>3 DEF Lost, NothingArrives
      <3> QED  BY <1>4, <1>7, <2>2, <3>1, HalfAndEmptyIsGood
    <2>4. CASE ~AtRest(p)
      <3>1. Lost(r, s)
        BY <1>1, <1>3, <1>6, <1>7, <2>2, <2>4 DEF Lost, NothingArrives
      <3>2. CancelledWaits(r, s)
        BY <1>3, <1>6, <1>7, <2>4 DEF CancelledWaits
      <3> QED  BY <1>4, <1>7, <2>2, <3>1, <3>2, GoodParts
    <2> QED  BY <2>3, <2>4
  <1>8. CASE ~Recording(p) /\ ~p.ending
    <2>1. ~AtRest(p) => p.discard
      BY <1>1, <1>6, <1>8 DEF PageInv, StoppedWhy
    <2>2. Records(q, n) => ~AtRest(p)
      BY <1>6, <1>8, IdleRecordsNothing
    <2>3. PageInv(q, n)
      BY <1>1, <1>2, <1>6, <1>8, <2>1, <2>2 DEF PageInv, OneRecorder, StoppedWhy, HeldOn
    <2>4. Half(q, s, sp, n)
      BY <1>1, <1>2, <1>6, <1>8, <2>3, HalfQuiet
    <2>5. /\ Good(TurnCancelled(q), s, sp, n)
          /\ TurnCancelled(q).live = {} /\ TurnCancelled(q).held = {}
      BY <1>2, <1>6, <1>8, <2>4, TurnCancelledGood
    <2>6. Good(Perform(TurnCancelled(q), after), s, sp, n)
      BY <2>5, PerformGood
    <2> QED  BY <1>4, <1>8, <2>5, <2>6
  <1> QED  BY <1>5, <1>7, <1>8
-----------------------------------------------------------------------------
(* The steps of the page.                                                  *)

\* The segments on the way and in the turn are the ones that have been recorded.
LEMMA InTurnIsBefore ==
  ASSUME NEW p \in Page, NEW s \in Handler, NEW sp, NEW d \in Segment, NEW e, NEW k,
         AllBefore(p, s, sp, e), InTurn(s, p.out, k, d)
  PROVE  d < e
  BY DEF AllBefore, Before, InTurn

\* A segment starts.
LEMMA StartGood ==
  ASSUME Good(page, handler, spoken, counts.segments), ~Unreported, StartSegment,
         counts.segments \in Nat
  PROVE  Good(page', handler, spoken, counts.segments + 1)
  <1> DEFINE n == counts.segments
             i == n + 1
             q == [page EXCEPT !.handoff = FALSE, !.turnEnd = FALSE, !.current = i,
                               !.live = @ \cup {i}, !.cut = FALSE, !.pending = TRUE,
                               !.held = @ \cup {i}]
  <1>1. /\ Half(page, handler, spoken, n) /\ Lost(page, handler) /\ CancelledWaits(page, handler)
        /\ PageInv(page, n) /\ page \in Page /\ n \in 0..MaxSegments
        /\ handler \in Handler /\ spoken \in Seq(Segment)
    BY GoodParts DEF Half, Typed
  <1>2. n < MaxSegments /\ i \in Segment /\ MaxSegments \in Nat
    BY <1>1, VoiceAssumption DEF StartSegment, Segment
  <1>3. page.live = {} /\ page.stopping = << >> /\ page.flushing = << >> /\ ~page.ending
    BY <1>1, RecordingIs DEF StartSegment, MayStart, PageInv, Unreported
  <1>4. AtRest(page) /\ page.enabled = "on" /\ page.connected
    BY <1>3 DEF AtRest, StartSegment, Ready
  <1>5. page' = Sent(q, "start")
    BY DEF StartSegment
  <1>6. /\ q \in Page /\ q.out = page.out /\ q.connected = page.connected
        /\ q.discarded = page.discarded /\ q.held = page.held \cup {i} /\ q.cut = FALSE
        /\ q.live = {i} /\ q.stopping = << >> /\ q.flushing = << >>
        /\ q.current = i /\ q.ending = FALSE /\ q.discard = page.discard
        /\ q.notify = page.notify /\ q.enabled = "on"
    BY <1>1, <1>2, <1>3, <1>4 DEF Page
  <1> HIDE DEF q
  <1>7. \A d \in Unanswered(page) : d <= n
    BY <1>1 DEF Half, OrderInv, OrderedAtThePage
  <1>8. Unanswered(q) = Unanswered(page) \cup {i}
    BY <1>6 DEF Unanswered
  <1>9. AllBefore(page, handler, spoken, i)
    BY <1>1 DEF Half, OrderInv, OrderedAtThePage
  <1>10. i \notin Unanswered(page) /\ i \notin q.discarded
    BY <1>1, <1>6, <1>7 DEF Unanswered
  <1>11. ~AtRest(q)
    BY <1>6 DEF AtRest
  <1>12. PageInv(q, i)
    BY <1>1, <1>6, <1>10 DEF PageInv, OneRecorder, StoppedWhy, HeldOn
  <1>13. \A d : Arriving(q, handler, d) <=> Arriving(page, handler, d)
    BY <1>6 DEF Arriving
  <1>14. \A k : ~InTurn(handler, page.out, k, i)
    <2>1. ~(i < i)
      BY <1>1
    <2> HIDE DEF i
    <2> QED  BY <1>1, <1>2, <1>9, <2>1, InTurnIsBefore
  <1>15. TurnEnds(q, handler)
    <2>1. TurnEnds(page, handler)
      BY <1>1 DEF Half
    <2> QED  BY <1>6, <1>8, <1>14, <2>1 DEF TurnEnds
  <1>16. NotSpoken(q, spoken)
    <2>1. NotSpoken(page, spoken)
      BY <1>1 DEF Half
    <2>2. ~In(i, spoken)
      BY <1>1, <1>2, <1>9 DEF AllBefore, Before
    <2> QED  BY <1>8, <2>1, <2>2 DEF NotSpoken
  <1>17. OrderInv(q, handler, spoken, i)
    <2>1. OrderedHere(handler, spoken) /\ OrderedOnTheWay(q, handler, spoken)
      BY <1>1, <1>6 DEF Half, OrderInv, OrderedOnTheWay
    <2>2. AllBefore(q, handler, spoken, i)
      BY <1>6, <1>9 DEF AllBefore
    <2>3. AllBefore(q, handler, spoken, i + 1)
      <3>1. Before(handler, spoken, i + 1)
        BY <1>1, <1>2, <1>9 DEF AllBefore, Before, Segment
      <3>2. ASSUME NEW k \in DOMAIN q.out, q.out[k].type = "chunk"
            PROVE  q.out[k].segment < i + 1
        <4>1. q.out[k] \in Message
          BY <1>6 DEF Page
        <4>2. q.out[k].segment \in Segment
          BY <3>2, <4>1, MessageKinds
        <4>3. q.out[k].segment < i
          BY <2>2, <3>2 DEF AllBefore
        <4> QED  BY <1>1, <4>2, <4>3 DEF Segment
      <3> QED  BY <3>1, <3>2 DEF AllBefore
    <2>4. \A d \in Unanswered(q) : d <= i
      <3>1. Unanswered(page) \subseteq Segment
        BY <1>1 DEF Unanswered, Page
      <3> QED  BY <1>1, <1>7, <1>8, <3>1 DEF Segment
    <2> QED  BY <2>1, <2>2, <2>3, <2>4 DEF OrderInv, OrderedAtThePage
  <1>18. Half(q, handler, spoken, i)
    <2>1. Offline(q, handler)
      BY <1>1, <1>6 DEF Half, Offline
    <2>2. i \in 0..MaxSegments
      BY <1>1, <1>2
    <2> QED  BY <1>1, <1>6, <1>12, <1>15, <1>16, <1>17, <2>1, <2>2 DEF Half, Typed
  <1>19. Lost(q, handler)
    BY <1>6 DEF Lost
  <1>20. \A d \in q.discarded : ~Arriving(q, handler, d)
    BY <1>1, <1>4, <1>6, <1>13 DEF CancelledWaits
  <1>21. Good(q, handler, spoken, i)
    BY <1>18, <1>19, <1>20, HalfAndCleanIsGood
  <1>22. "start" \in Request \ {"chunk"} /\ "start" # "turn_end"
    BY DEF Request
  <1>23. Good(Sent(q, "start"), handler, spoken, i)
    BY <1>21, <1>22, GoodSent
  <1> QED  BY <1>5, <1>23

\* A page with another status or another answer to the microphone.
LEMMA LabelGood ==
  ASSUME NEW p, NEW s, NEW sp, NEW n, Good(p, s, sp, n), NEW q \in Page,
         q.out = p.out, p.connected => q.connected,
         q.discarded = p.discarded, q.held = p.held, q.cut = p.cut,
         q.live = p.live, q.stopping = p.stopping, q.flushing = p.flushing,
         q.current = p.current, q.ending = p.ending, q.discard = p.discard,
         q.notify = p.notify, q.handoff => p.handoff, q.turnEnd = p.turnEnd,
         HeldOn(q)
  PROVE  Good(q, s, sp, n)
  <1>1. PageInv(p, n)
    BY GoodParts DEF Half
  <1>2. PageInv(q, n) /\ (AtRest(q) <=> AtRest(p)) /\ Unanswered(q) = Unanswered(p)
    BY <1>1 DEF PageInv, OneRecorder, StoppedWhy, AtRest, Records, Unanswered
  <1>3. q.ending /\ AtRest(q) => p.ending /\ AtRest(p)
    BY <1>2
  <1>4. p.discard /\ p.live = {} /\ ~AtRest(p) /\ ~p.handoff /\ ~p.turnEnd =>
          q.discard /\ q.live = {} /\ ~AtRest(q) /\ ~q.handoff /\ ~q.turnEnd
    BY <1>2
  <1>5. /\ Unanswered(q) \subseteq Unanswered(p) /\ (AtRest(p) => AtRest(q))
        /\ p.discarded = q.discarded
    BY <1>2
  <1> QED  BY <1>2, <1>3, <1>4, <1>5, GoodQuiet

LEMMA ResumeSpeechGood ==
  ASSUME NEW s, NEW sp, NEW n, Good(page, s, sp, n), ResumeSpeech
  PROVE  Good(page', s, sp, n)
  <1>1. page \in Page /\ PageInv(page, n)
    BY DEF Good, Typed
  <1>2. page' = [page EXCEPT !.handoff = FALSE]
    BY DEF ResumeSpeech
  <1>3. /\ page' \in Page /\ page'.out = page.out /\ page'.connected = page.connected
        /\ page'.discarded = page.discarded /\ page'.held = page.held /\ page'.cut = page.cut
        /\ page'.live = page.live /\ page'.stopping = page.stopping
        /\ page'.flushing = page.flushing /\ page'.current = page.current
        /\ page'.ending = page.ending /\ page'.discard = page.discard
        /\ page'.notify = page.notify /\ page'.handoff = FALSE
        /\ page'.turnEnd = page.turnEnd /\ page'.enabled = page.enabled
    BY <1>1, <1>2 DEF Page
  <1>4. \A q : q = page' => HeldOn(q)
    BY <1>1, <1>3 DEF PageInv, HeldOn
  <1>5. \A q : q = page' => Good(q, s, sp, n)
    BY <1>3, <1>4, LabelGood
  <1> QED  BY <1>5

LEMMA StopSegmentGood ==
  ASSUME NEW s, NEW sp, NEW n, Good(page, s, sp, n), StopSegment
  PROVE  Good(page', s, sp, n)
  <1>1. /\ page \in Page /\ PageInv(page, n) /\ Half(page, s, sp, n) /\ Lost(page, s)
        /\ CancelledWaits(page, s)
    BY GoodParts DEF Half, Typed
  <1>2. PICK silence \in BOOLEAN :
          page' = [Stop(page) EXCEPT !.ending = TRUE, !.handoff = @ \/ silence]
    BY DEF StopSegment
  <1>3. /\ page.live = {n} /\ page.current = n /\ page.stopping = << >>
        /\ page.flushing = << >> /\ n \in Segment
    BY <1>1, RecordingIs DEF StopSegment, PageInv, Page
  <1>4. Append(<< >>, n) = <<n>> /\ <<n>> \in Seq(Segment) /\ <<n>> # << >>
    BY <1>3
  <1>5. (page.handoff \/ silence) \in BOOLEAN
    OBVIOUS
  <1>6. PICK q : q = page'
    OBVIOUS
  <1>7. q = [page EXCEPT !.live = {}, !.stopping = <<n>>, !.ending = TRUE,
                         !.handoff = page.handoff \/ silence]
    BY <1>1, <1>2, <1>3, <1>4, <1>6 DEF Stop, Page
  <1>8. /\ q \in Page /\ q.out = page.out /\ q.connected = page.connected
        /\ q.discarded = page.discarded /\ q.held = page.held /\ q.cut = page.cut
        /\ q.live = {} /\ q.stopping = <<n>> /\ q.flushing = << >>
        /\ q.ending = TRUE /\ q.discard = page.discard
        /\ q.notify = page.notify /\ q.enabled = page.enabled
    BY <1>1, <1>3, <1>4, <1>5, <1>7 DEF Page
  <1>9. ~AtRest(q) /\ ~AtRest(page) /\ Unanswered(q) = Unanswered(page)
    BY <1>3, <1>4, <1>8 DEF AtRest, Unanswered
  <1>10. Records(page, n)
    BY <1>3 DEF Records
  <1>11. PageInv(q, n)
    BY <1>1, <1>8, <1>9, <1>10 DEF PageInv, OneRecorder, StoppedWhy, HeldOn
  <1>12. Unanswered(q) \subseteq Unanswered(page) /\ (AtRest(page) => AtRest(q))
    BY <1>9
  <1>13. page.live # {}
    BY <1>3
  <1>14. Good(q, s, sp, n)
    BY <1>8, <1>9, <1>11, <1>12, <1>13, GoodQuiet
  <1> QED  BY <1>6, <1>14

LEMMA HandOverGood ==
  ASSUME NEW s, NEW sp, NEW n, Good(page, s, sp, n), HandOver
  PROVE  Good(page', s, sp, n)
  <1>1. page' = SendTurn(page) /\ page.handoff
    BY DEF HandOver
  <1>2. \A d \in page.discarded : ~Arriving(page, s, d)
    BY <1>1, GoodParts DEF CancelledWaits
  <1>3. Good(SendTurn(page), s, sp, n)
    BY <1>2, SendTurnGood
  <1> QED  BY <1>1, <1>3

LEMMA StopEventGood ==
  ASSUME NEW s, NEW sp, NEW n, Good(page, s, sp, n), StopEvent
  PROVE  Good(page', s, sp, n)
  <1>1. page \in Page /\ PageInv(page, n)
    BY GoodParts DEF Half, Typed
  <1>2. page.live = {} /\ page.stopping = <<n>> /\ page.flushing = << >>
    BY <1>1 DEF StopEvent, PageInv, OneRecorder, AtRest
  <1>3. <<n>> \in Seq(Segment)
    BY <1>1, <1>2 DEF Page
  <1>4. Append(<< >>, n) = <<n>> /\ <<n>> # << >> /\ Tail(<<n>>) = << >> /\ Head(<<n>>) = n
    OBVIOUS
  <1>5. PICK q : q = page'
    OBVIOUS
  <1>6. q = [page EXCEPT !.current = 0, !.stopping = << >>, !.flushing = <<n>>]
    BY <1>1, <1>2, <1>4, <1>5 DEF StopEvent, Page
  <1>7. /\ q \in Page /\ q.out = page.out /\ q.connected = page.connected
        /\ q.discarded = page.discarded /\ q.held = page.held /\ q.cut = page.cut
        /\ q.live = {} /\ q.stopping = << >> /\ q.flushing = <<n>>
        /\ q.ending = page.ending /\ q.discard = page.discard
        /\ q.notify = page.notify /\ q.enabled = page.enabled
        /\ q.handoff = page.handoff /\ q.turnEnd = page.turnEnd
    BY <1>1, <1>2, <1>3, <1>6 DEF Page
  <1>8. ~AtRest(q) /\ ~AtRest(page) /\ Unanswered(q) = Unanswered(page)
    BY <1>2, <1>4, <1>7 DEF AtRest, Unanswered
  <1>9. Records(page, n)
    BY <1>2 DEF Records
  <1>10. PageInv(q, n)
    BY <1>1, <1>2, <1>7, <1>8, <1>9 DEF PageInv, OneRecorder, StoppedWhy, HeldOn
  <1>11. Unanswered(q) \subseteq Unanswered(page) /\ (AtRest(page) => AtRest(q))
    BY <1>8
  <1>12. Good(q, s, sp, n)
    BY <1>7, <1>8, <1>10, <1>11, GoodQuiet
  <1> QED  BY <1>5, <1>12
LEMMA StatusGood ==
  ASSUME NEW p, NEW s, NEW sp, NEW n, Good(p, s, sp, n), NEW status \in Status,
         NEW streaming \in BOOLEAN
  PROVE  Good([p EXCEPT !.status = status, !.streaming = streaming], s, sp, n)
  <1> DEFINE q == [p EXCEPT !.status = status, !.streaming = streaming]
  <1>1. p \in Page /\ PageInv(p, n)
    BY GoodParts DEF Half, Typed
  <1>2. /\ q \in Page /\ q.out = p.out /\ q.connected = p.connected
        /\ q.discarded = p.discarded /\ q.held = p.held /\ q.cut = p.cut
        /\ q.live = p.live /\ q.stopping = p.stopping /\ q.flushing = p.flushing
        /\ q.current = p.current /\ q.ending = p.ending /\ q.discard = p.discard
        /\ q.notify = p.notify /\ q.handoff = p.handoff /\ q.turnEnd = p.turnEnd
        /\ q.enabled = p.enabled
    BY <1>1 DEF Page
  <1> HIDE DEF q
  <1>3. HeldOn(q)
    BY <1>1, <1>2 DEF PageInv, HeldOn
  <1>4. Good(q, s, sp, n)
    BY <1>2, <1>3, LabelGood
  <1> QED  BY <1>4 DEF q

\* The status alone.
LEMMA LabelledGood ==
  ASSUME NEW p, NEW s, NEW sp, NEW n, Good(p, s, sp, n), NEW status \in Status
  PROVE  Good([p EXCEPT !.status = status], s, sp, n)
  <1>1. p \in Page
    BY DEF Good, Typed
  <1>2. p.streaming \in BOOLEAN
    BY <1>1 DEF Page
  <1>3. [p EXCEPT !.status = status] = [p EXCEPT !.status = status, !.streaming = p.streaming]
    BY <1>1 DEF Page
  <1> QED  BY <1>2, <1>3, StatusGood

\* The answer to the question for the microphone, and the question.
LEMMA EnabledGood ==
  ASSUME NEW p, NEW s, NEW sp, NEW n, Good(p, s, sp, n), p.enabled # "on",
         NEW enabled \in {"off", "asking", "on"}
  PROVE  Good([p EXCEPT !.enabled = enabled], s, sp, n)
  <1> DEFINE q == [p EXCEPT !.enabled = enabled]
  <1>1. p \in Page /\ PageInv(p, n)
    BY GoodParts DEF Half, Typed
  <1>2. /\ q \in Page /\ q.out = p.out /\ q.connected = p.connected
        /\ q.discarded = p.discarded /\ q.held = p.held /\ q.cut = p.cut
        /\ q.live = p.live /\ q.stopping = p.stopping /\ q.flushing = p.flushing
        /\ q.current = p.current /\ q.ending = p.ending /\ q.discard = p.discard
        /\ q.notify = p.notify /\ q.handoff = p.handoff /\ q.turnEnd = p.turnEnd
    BY <1>1 DEF Page
  <1> HIDE DEF q
  <1>3. HeldOn(q)
    BY <1>1, <1>2 DEF PageInv, HeldOn
  <1>4. Good(q, s, sp, n)
    BY <1>2, <1>3, LabelGood
  <1> QED  BY <1>4 DEF q

LEMMA PermissionGood ==
  ASSUME NEW s, NEW sp, NEW n, Good(page, s, sp, n), Permission
  PROVE  Good(page', s, sp, n)
  <1>1. PageInv(page, n) /\ page.enabled = "asking"
    BY GoodParts DEF Half, Permission
  <1>2. page.held = {} /\ page.live = {}
    BY <1>1 DEF PageInv, HeldOn
  <1>3. Good([page EXCEPT !.enabled = "on"], s, sp, n)
    BY <1>1, EnabledGood
  <1>4. Good(Disable(page), s, sp, n)
    BY <1>2, DisableGood
  <1>5. page' = [page EXCEPT !.enabled = "on"] \/ page' = Disable(page)
    BY DEF Permission
  <1> QED  BY <1>3, <1>4, <1>5

LEMMA ToggleGood ==
  ASSUME NEW s, NEW sp, NEW n, Good(page, s, sp, n), Toggle
  PROVE  Good(page', s, sp, n)
  <1>1. CASE page.enabled = "off" /\ page' = [page EXCEPT !.enabled = "asking"]
    <2>1. Good([page EXCEPT !.enabled = "asking"], s, sp, n)
      BY <1>1, EnabledGood
    <2> QED  BY <1>1, <2>1
  <1>2. CASE page' = CancelTurn(page, "disable")
    <2>1. "disable" \in After
      BY DEF After
    <2>2. Good(CancelTurn(page, "disable"), s, sp, n)
      BY <2>1, CancelTurnGood
    <2> QED  BY <1>2, <2>2
  <1> QED  BY <1>1, <1>2 DEF Toggle, Clicked

LEMMA PauseGood ==
  ASSUME NEW s, NEW sp, NEW n, Good(page, s, sp, n), Pause
  PROVE  Good(page', s, sp, n)
  <1> DEFINE p == [page EXCEPT !.status = "paused"]
  <1>1. "paused" \in Status /\ "pause" \in Request \ {"chunk"} /\ "pause" # "turn_end"
        /\ "pause" \in After
    BY DEF Status, Request, After
  <1>2. Good(p, s, sp, n)
    BY <1>1, LabelledGood
  <1>3. page' = CancelTurn(p, "pause") \/ page' = Sent(p, "pause")
    BY DEF Pause, Clicked
  <1> HIDE DEF p
  <1>4. Good(CancelTurn(p, "pause"), s, sp, n)
    BY <1>1, <1>2, CancelTurnGood
  <1>5. Good(Sent(p, "pause"), s, sp, n)
    BY <1>1, <1>2, GoodSent
  <1> QED  BY <1>3, <1>4, <1>5

LEMMA ResumeGood ==
  ASSUME NEW s, NEW sp, NEW n, Good(page, s, sp, n), Resume
  PROVE  Good(page', s, sp, n)
  <1>1. "connecting" \in Status /\ "resume" \in Request \ {"chunk"} /\ "resume" # "turn_end"
    BY DEF Status, Request
  <1>2. Good([page EXCEPT !.status = "connecting"], s, sp, n)
    BY <1>1, LabelledGood
  <1>3. Good(Sent([page EXCEPT !.status = "connecting"], "resume"), s, sp, n)
    BY <1>1, <1>2, GoodSent
  <1> QED  BY <1>3 DEF Resume, Clicked

LEMMA EndGood ==
  ASSUME NEW s, NEW sp, NEW n, Good(page, s, sp, n), End
  PROVE  Good(page', s, sp, n)
  <1>1. "end" \in After /\ "end" \in Request \ {"chunk"} /\ "end" # "turn_end"
    BY DEF After, Request
  <1>2. page' = CancelTurn(page, "end") \/ page' = Sent(page, "end")
    BY DEF End, Clicked
  <1>3. Good(CancelTurn(page, "end"), s, sp, n)
    BY <1>1, CancelTurnGood
  <1>4. Good(Sent(page, "end"), s, sp, n)
    BY <1>1, GoodSent
  <1> QED  BY <1>2, <1>3, <1>4

LEMMA SubmitGood ==
  ASSUME NEW s, NEW sp, NEW n, Good(page, s, sp, n), Submit
  PROVE  Good(page', s, sp, n)
  <1>1. "connecting" \in Status /\ "text" \in Request \ {"chunk"} /\ "text" # "turn_end"
    BY DEF Status, Request
  <1>2. Good([page EXCEPT !.status = "connecting"], s, sp, n)
    BY <1>1, LabelledGood
  <1>3. Good(Sent([page EXCEPT !.status = "connecting"], "text"), s, sp, n)
    BY <1>1, <1>2, GoodSent
  <1> QED  BY <1>3 DEF Submit, Clicked

\* What an event does to the page.
LEMMA EventLabels ==
  ASSUME page \in Page, toPage \in Seq(Event), HandleEvent
  PROVE  \E status \in Status, streaming \in BOOLEAN :
           page' = [page EXCEPT !.status = status, !.streaming = streaming]
  <1> DEFINE event == Head(toPage)
  <1>1. event \in Event
    BY DEF HandleEvent
  <1>2. page.status \in Status /\ page.streaming \in BOOLEAN
    BY DEF Page
  <1>3. "ready_for_answer" \in Status /\ {"error", "delta", "replied"} \cap Status = {}
    BY DEF Status
  <1>4. CASE event = "delta"
    <2>1. page' = [page EXCEPT !.status = page.status, !.streaming = TRUE]
      BY <1>1, <1>3, <1>4 DEF HandleEvent, Page
    <2> QED  BY <1>2, <2>1
  <1>5. CASE event = "replied"
    <2>1. page' = [page EXCEPT !.status = "ready_for_answer", !.streaming = FALSE]
      BY <1>1, <1>3, <1>5 DEF HandleEvent, Page
    <2> QED  BY <1>3, <2>1
  <1>6. CASE event = "error"
    <2>1. page' = [page EXCEPT !.status = "ready_for_answer", !.streaming = page.streaming]
      BY <1>1, <1>3, <1>6 DEF HandleEvent, Page
    <2> QED  BY <1>2, <1>3, <2>1
  <1>7. CASE event \in Status
    <2>1. page' = [page EXCEPT !.status = event, !.streaming = page.streaming]
      BY <1>1, <1>3, <1>7 DEF HandleEvent, Page
    <2> QED  BY <1>2, <1>7, <2>1
  <1> QED  BY <1>1, <1>4, <1>5, <1>6, <1>7 DEF Event

LEMMA HandleEventGood ==
  ASSUME NEW s, NEW sp, NEW n, Good(page, s, sp, n), toPage \in Seq(Event), HandleEvent
  PROVE  Good(page', s, sp, n)
  <1>1. page \in Page
    BY DEF Good, Typed
  <1>2. PICK status \in Status, streaming \in BOOLEAN :
          page' = [page EXCEPT !.status = status, !.streaming = streaming]
    BY <1>1, EventLabels
  <1>3. Good([page EXCEPT !.status = status, !.streaming = streaming], s, sp, n)
    BY StatusGood
  <1> QED  BY <1>2, <1>3

LEMMA ReconnectGood ==
  ASSUME NEW s, NEW sp, NEW n, Good(page, s, sp, n), Reconnect
  PROVE  Good(page', s, sp, n)
  <1> DEFINE q == [page EXCEPT !.connected = TRUE, !.status = "ready_for_answer"]
  <1>1. page \in Page /\ PageInv(page, n)
    BY GoodParts DEF Half, Typed
  <1>2. "ready_for_answer" \in Status
    BY DEF Status
  <1>3. /\ q \in Page /\ q.out = page.out /\ q.connected = TRUE
        /\ q.discarded = page.discarded /\ q.held = page.held /\ q.cut = page.cut
        /\ q.live = page.live /\ q.stopping = page.stopping /\ q.flushing = page.flushing
        /\ q.current = page.current /\ q.ending = page.ending /\ q.discard = page.discard
        /\ q.notify = page.notify /\ q.handoff = page.handoff /\ q.turnEnd = page.turnEnd
        /\ q.enabled = page.enabled
    BY <1>1, <1>2 DEF Page
  <1>4. page' = Sent(q, "resume")
    BY DEF Reconnect
  <1> HIDE DEF q
  <1>5. HeldOn(q)
    BY <1>1, <1>3 DEF PageInv, HeldOn
  <1>6. Good(q, s, sp, n)
    BY <1>3, <1>5, LabelGood
  <1>7. "resume" \in Request \ {"chunk"} /\ "resume" # "turn_end"
    BY DEF Request
  <1> QED  BY <1>4, <1>6, <1>7, GoodSent
-----------------------------------------------------------------------------
(* The end of a segment, and the loss of a connection.                     *)

\* The last message is m, and the recorder has done its work.
ChunkSent(p, q, m) ==
  /\ q.out = Append(p.out, m) /\ AtRest(q) /\ q.connected = p.connected
  /\ q.discarded = p.discarded /\ q.held = p.held
  /\ q.discard = p.discard /\ q.notify = p.notify /\ q.enabled = p.enabled

\* The chunk of the segment that was recorded is sent.
LEMMA ChunkHalf ==
  ASSUME NEW p, NEW s, NEW sp, NEW n, Half(p, s, sp, n), p.connected,
         ~AtRest(p), n \in Segment,
         NEW m \in Message, m.type = "chunk", m.segment = n, NEW q \in Page,
         ChunkSent(p, q, m)
  PROVE  /\ Half(q, s, sp, n)
         /\ \A d : Arriving(q, s, d) => d = n \/ Arriving(p, s, d)
  <1>1. /\ p \in Page /\ PageInv(p, n) /\ Offline(p, s) /\ TurnEnds(p, s) /\ NotSpoken(p, sp)
        /\ OrderInv(p, s, sp, n) /\ s \in Handler /\ sp \in Seq(Segment) /\ n \in 0..MaxSegments
        /\ p.out \in Seq(Message)
    BY DEF Half, Typed, Page
  <1>2. m \in Message /\ m.type = "chunk" /\ m.segment = n
    OBVIOUS
  <1>3. /\ q \in Page /\ q.out = Append(p.out, m) /\ q.connected = p.connected
        /\ q.discarded = p.discarded /\ q.held = p.held
        /\ q.live = {} /\ q.discard = p.discard /\ q.notify = p.notify
        /\ q.enabled = p.enabled /\ AtRest(q)
    BY DEF ChunkSent, AtRest
  <1>5. AtRest(q) /\ ~AtRest(p) /\ Unanswered(q) = Unanswered(p)
    BY <1>3 DEF Unanswered
  <1>6. PageInv(q, n)
    BY <1>1, <1>3, <1>5, IdleRecordsNothing DEF PageInv, OneRecorder, StoppedWhy, HeldOn
  <1>7. Offline(q, s) /\ NotSpoken(q, sp)
    BY <1>1, <1>3, <1>5 DEF Offline, NotSpoken
  <1>8. TurnEnds(q, s)
    <2>1. m.type # "turn_end" /\ Unanswered(q) \subseteq Unanswered(p)
      BY <1>2, <1>5
    <2> QED  BY <1>1, <1>2, <1>3, <2>1, TurnEndsAppended
  <1>9. AllBefore(p, s, sp, n) /\ AllBefore(p, s, sp, n + 1)
    BY <1>1, <1>5 DEF OrderInv, OrderedAtThePage
  <1>10. Len(p.out) \in Nat /\ DOMAIN p.out = 1..Len(p.out)
         /\ DOMAIN q.out = 1..(Len(p.out) + 1)
    BY <1>1, <1>3
  <1>11. q.out[Len(p.out) + 1] = m /\ \A l \in DOMAIN p.out : q.out[l] = p.out[l]
    BY <1>1, <1>3, <1>10
  <1>12. n \in Int /\ n < n + 1
    BY <1>1
  <1>13. OrderedOnTheWay(q, s, sp)
    <2> SUFFICES ASSUME NEW k \in DOMAIN q.out, q.out[k].type = "chunk"
                 PROVE  /\ Before(s, sp, q.out[k].segment)
                        /\ \A j \in DOMAIN q.out :
                             j < k /\ q.out[j].type = "chunk" =>
                               q.out[j].segment < q.out[k].segment
      BY DEF OrderedOnTheWay
    <2>1. CASE k = Len(p.out) + 1
      <3>1. \A j \in DOMAIN q.out : j < k => j \in DOMAIN p.out
        BY <1>10, <2>1
      <3> QED  BY <1>2, <1>9, <1>11, <2>1, <3>1 DEF AllBefore
    <2>2. CASE k \in DOMAIN p.out
      <3>1. \A j \in DOMAIN q.out : j < k => j \in DOMAIN p.out
        BY <1>10, <2>2
      <3>2. OrderedOnTheWay(p, s, sp)
        BY <1>1 DEF OrderInv
      <3> QED  BY <1>11, <2>2, <3>1, <3>2 DEF OrderedOnTheWay
    <2> QED  BY <1>10, <2>1, <2>2
  <1>14. OrderedAtThePage(q, s, sp, n)
    <2>1. \A k \in DOMAIN q.out : k \in DOMAIN p.out \/ k = Len(p.out) + 1
      BY <1>10
    <2>2. AllBefore(q, s, sp, n + 1)
      BY <1>2, <1>9, <1>11, <1>12, <2>1 DEF AllBefore
    <2>3. \A d \in Unanswered(q) : d <= n
      BY <1>1, <1>5 DEF OrderInv, OrderedAtThePage
    <2> QED  BY <1>5, <2>2, <2>3 DEF OrderedAtThePage
  <1>15. OrderInv(q, s, sp, n)
    BY <1>1, <1>13, <1>14 DEF OrderInv
  <1>16. ASSUME NEW d, Arriving(q, s, d)
         PROVE  d = n \/ Arriving(p, s, d)
    BY <1>1, <1>2, <1>3, <1>16, ArrivingAppended DEF Arriving
  <1> QED  BY <1>1, <1>3, <1>5, <1>6, <1>7, <1>8, <1>15, <1>16 DEF Half, Typed

\* A segment that is not discarded ends.
LEMMA KeptGood ==
  ASSUME NEW p, NEW s, NEW sp, NEW n, Half(p, s, sp, n), AtRest(p), ~p.cut, ~p.ending,
         \A d \in p.discarded : ~Arriving(p, s, d), NEW turnEnd \in BOOLEAN
  PROVE  Good(IF turnEnd THEN SendTurn(Sent(p, "audio_end")) ELSE Sent(p, "audio_end"),
              s, sp, n)
  <1> DEFINE q == Sent(p, "audio_end")
  <1>1. "audio_end" \in Request \ {"chunk"} /\ "audio_end" # "turn_end"
    BY DEF Request
  <1>2. Lost(p, s) /\ p \in Page
    BY DEF Lost, Half, Typed
  <1>3. Good(p, s, sp, n)
    BY <1>2, HalfAndCleanIsGood
  <1>4. Good(q, s, sp, n)
    BY <1>1, <1>3, GoodSent
  <1>5. \A d : Arriving(q, s, d) => Arriving(p, s, d)
    BY <1>1, HalfSent
  <1>6. SameButOut(p, q)
    BY <1>1, <1>2, SentIs
  <1> HIDE DEF q
  <1>7. \A d \in q.discarded : ~Arriving(q, s, d)
    BY <1>5, <1>6 DEF SameButOut
  <1>8. Good(SendTurn(q), s, sp, n)
    BY <1>4, <1>7, SendTurnGood
  <1> QED  BY <1>4, <1>8 DEF q

LEMMA FlushGood ==
  ASSUME NEW s, NEW sp, NEW n, Good(page, s, sp, n), Flush
  PROVE  Good(page', s, sp, n)
  <1> DEFINE m == [type |-> "chunk", segment |-> n]
             p == [page EXCEPT !.flushing = << >>]
             q == [page EXCEPT !.flushing = << >>, !.out = Append(page.out, m)]
  <1>1. /\ page \in Page /\ PageInv(page, n) /\ Half(page, s, sp, n) /\ Lost(page, s)
        /\ CancelledWaits(page, s) /\ Offline(page, s)
    BY GoodParts DEF Half, Typed
  <1>2. page.live = {} /\ page.stopping = << >> /\ page.flushing = <<n>>
    BY <1>1 DEF Flush, PageInv, OneRecorder, AtRest
  <1>3. n \in Segment
    <2>1. <<n>> \in Seq(Segment)
      BY <1>1, <1>2 DEF Page
    <2> QED  BY <2>1
  <1>4. Tail(<<n>>) = << >> /\ Head(<<n>>) = n /\ <<n>> # << >>
    OBVIOUS
  <1>5. /\ p \in Page /\ p.out = page.out /\ p.connected = page.connected
        /\ p.discarded = page.discarded /\ p.held = page.held /\ p.cut = page.cut
        /\ p.live = {} /\ p.stopping = << >> /\ p.flushing = << >>
        /\ p.ending = page.ending /\ p.discard = page.discard
        /\ p.notify = page.notify /\ p.enabled = page.enabled
    BY <1>1, <1>2 DEF Page
  <1>6. page' = IF page.cut \/ ~page.connected THEN p ELSE Flushed(q)
    <2> DEFINE t == [page EXCEPT !.flushing = Tail(@)]
               c == [type |-> "chunk", segment |-> Head(page.flushing)]
    <2>1. page' = IF t.cut \/ ~t.connected THEN t ELSE Flushed([t EXCEPT !.out = Append(@, c)])
      BY Zenon DEF Flush
    <2>2. t = p /\ c = m
      BY <1>1, <1>2, <1>4 DEF Page
    <2> HIDE DEF t, c
    <2>3. [t EXCEPT !.out = Append(@, c)] = q
      BY <1>1, <2>2 DEF Page
    <2> QED  BY <1>5, <2>1, <2>2, <2>3
  <1>7. ~AtRest(page) /\ Records(page, n)
    BY <1>2, <1>4 DEF AtRest, Records
  <1>8. CASE page.cut \/ ~page.connected
    <2>1. NothingArrives(page, s)
      BY <1>1, <1>7, <1>8, OfflineIsEmpty DEF Lost
    <2>2. AtRest(p) /\ Unanswered(p) = Unanswered(page)
      BY <1>5 DEF AtRest, Unanswered
    <2>3. PageInv(p, n)
      BY <1>1, <1>5, <2>2, IdleRecordsNothing DEF PageInv, OneRecorder, StoppedWhy, HeldOn
    <2>4. page' = p
      BY <1>6, <1>8
    <2> HIDE DEF p
    <2>5. Half(p, s, sp, n) /\ \A d : Arriving(p, s, d) <=> Arriving(page, s, d)
      BY <1>1, <1>5, <2>2, <2>3, HalfQuiet
    <2>6. Good(p, s, sp, n)
      BY <2>1, <2>5, HalfAndEmptyIsGood DEF NothingArrives
    <2> QED  BY <2>4, <2>6
  <1>9. CASE ~page.cut /\ page.connected
    <2>1. /\ Half(q, s, sp, n) /\ AtRest(q) /\ q \in Page
          /\ \A d : Arriving(q, s, d) => d = n \/ Arriving(page, s, d)
      <3>1. m \in Message /\ m.type = "chunk" /\ m.segment = n
        BY <1>3 DEF Message
      <3>2. page.out \in Seq(Message)
        BY <1>1 DEF Page
      <3>3. Append(page.out, m) \in Seq(Message)
        BY <3>1, <3>2
      <3>4. /\ q \in Page /\ q.out = Append(page.out, m) /\ q.connected = page.connected
            /\ q.discarded = page.discarded /\ q.held = page.held
            /\ q.live = {} /\ q.stopping = << >> /\ q.flushing = << >>
            /\ q.discard = page.discard /\ q.notify = page.notify /\ q.enabled = page.enabled
        BY <1>1, <1>2, <3>3 DEF Page
      <3> HIDE DEF m, q
      <3>5. page.connected /\ AtRest(q)
        BY <1>9, <3>4 DEF AtRest
      <3>6. ChunkSent(page, q, m)
        BY <3>4, <3>5 DEF ChunkSent
      <3>7. Half(q, s, sp, n) /\ \A d : Arriving(q, s, d) => d = n \/ Arriving(page, s, d)
        BY <1>1, <1>3, <1>7, <3>1, <3>4, <3>5, <3>6, ChunkHalf
      <3> QED  BY <3>4, <3>5, <3>7
    <2>2. page' = Flushed(q)
      BY <1>6, <1>9
    <2>3. /\ q.discard = page.discard /\ q.notify = page.notify /\ q.turnEnd = page.turnEnd
          /\ q.discarded = page.discarded /\ q.cut = page.cut
      BY <1>1 DEF Page
    <2> HIDE DEF q
    <2> DEFINE r == [q EXCEPT !.ending = FALSE]
               kept == [r EXCEPT !.discard = FALSE, !.notify = FALSE, !.after = "none"]
    <2>4. Flushed(q) = IF q.discard
                       THEN Perform(IF q.notify THEN TurnCancelled(kept) ELSE kept, q.after)
                       ELSE IF q.turnEnd THEN SendTurn(Sent(r, "audio_end"))
                       ELSE Sent(r, "audio_end")
      BY DEF Flushed
    <2>5. PageInv(q, n)
      BY <2>1 DEF Half
    <2>6. CASE q.discard
      <3>1. /\ kept \in Page /\ kept.out = q.out /\ kept.connected = q.connected
            /\ kept.discarded = q.discarded /\ kept.held = q.held
            /\ kept.live = q.live /\ kept.stopping = q.stopping /\ kept.flushing = q.flushing
            /\ kept.current = q.current /\ kept.enabled = q.enabled
            /\ kept.discard = FALSE
        BY <2>1 DEF Page, After
      <3>2. q.notify /\ q.after \in After /\ q.live = {}
        BY <2>1, <2>5, <2>6 DEF PageInv, StoppedWhy, Page, AtRest
      <3>3. Perform(TurnCancelled(kept), q.after) = Flushed(q)
        BY <2>4, <2>6, <3>2
      <3> HIDE DEF kept
      <3>4. AtRest(kept) /\ Unanswered(kept) = Unanswered(q)
        BY <2>1, <3>1 DEF AtRest, Unanswered
      <3>5. PageInv(kept, n)
        BY <2>5, <3>1, <3>4, IdleRecordsNothing DEF PageInv, OneRecorder, StoppedWhy, HeldOn
      <3>6. Half(kept, s, sp, n)
        BY <2>1, <3>1, <3>4, <3>5, HalfQuiet
      <3>7. /\ Good(TurnCancelled(kept), s, sp, n) /\ NothingArrives(TurnCancelled(kept), s)
            /\ TurnCancelled(kept).live = {} /\ AtRest(TurnCancelled(kept))
        BY <3>1, <3>2, <3>4, <3>6, TurnCancelledGood
      <3>8. Good(Perform(TurnCancelled(kept), q.after), s, sp, n)
        BY <3>2, <3>7, PerformGood
      <3> QED  BY <2>2, <3>3, <3>8
    <2>7. CASE ~q.discard
      <3>1. /\ r \in Page /\ r.out = q.out /\ r.connected = q.connected
            /\ r.discarded = q.discarded /\ r.held = q.held /\ r.cut = q.cut
            /\ r.live = q.live /\ r.stopping = q.stopping /\ r.flushing = q.flushing
            /\ r.current = q.current /\ r.enabled = q.enabled
            /\ r.discard = q.discard /\ r.notify = q.notify /\ r.ending = FALSE
        BY <2>1 DEF Page
      <3>2. q.turnEnd \in BOOLEAN
        BY <2>1 DEF Page
      <3>3. (IF q.turnEnd THEN SendTurn(Sent(r, "audio_end")) ELSE Sent(r, "audio_end"))
              = Flushed(q)
        BY <2>4, <2>7
      <3> HIDE DEF r
      <3>4. AtRest(r) /\ Unanswered(r) = Unanswered(q)
        BY <2>1, <3>1 DEF AtRest, Unanswered
      <3>5. PageInv(r, n)
        BY <2>5, <3>1, <3>4, IdleRecordsNothing DEF PageInv, OneRecorder, StoppedWhy, HeldOn
      <3>6. Half(r, s, sp, n) /\ \A d : Arriving(r, s, d) <=> Arriving(q, s, d)
        BY <2>1, <3>1, <3>4, <3>5, HalfQuiet
      <3>7. ASSUME NEW d \in r.discarded
            PROVE  ~Arriving(r, s, d)
        <4>1. d \in page.discarded /\ ~page.discard
          BY <2>3, <2>7, <3>1
        <4>2. ~Arriving(page, s, d)
          BY <1>1, <4>1 DEF CancelledWaits
        <4>3. d # n
          BY <1>1, <1>7, <4>1 DEF PageInv, StoppedWhy
        <4> QED  BY <2>1, <3>6, <4>2, <4>3
      <3>8. ~r.cut /\ ~r.ending
        BY <1>9, <2>3, <3>1
      <3>9. Good(IF q.turnEnd THEN SendTurn(Sent(r, "audio_end")) ELSE Sent(r, "audio_end"),
                 s, sp, n)
        BY <3>2, <3>4, <3>6, <3>7, <3>8, KeptGood
      <3> QED  BY <2>2, <3>3, <3>9
    <2> QED  BY <2>6, <2>7
  <1> QED  BY <1>8, <1>9

LEMMA LoseGood ==
  ASSUME NEW sp, NEW n, Good(page, handler, sp, n), LoseConnection
  PROVE  Good(page', handler', sp, n)
  <1> DEFINE q == [page EXCEPT !.connected = FALSE, !.out = << >>,
                               !.cut = @ \/ page.live # {}]
  <1>1. /\ page \in Page /\ PageInv(page, n) /\ sp \in Seq(Segment) /\ n \in 0..MaxSegments
        /\ NotSpoken(page, sp) /\ OrderInv(page, handler, sp, n)
    BY GoodParts DEF Half, Typed
  <1>2. (page.cut \/ page.live # {}) \in BOOLEAN /\ << >> \in Seq(Message)
    OBVIOUS
  <1>3. /\ q \in Page /\ q.out = << >> /\ q.connected = FALSE
        /\ q.discarded = page.discarded /\ q.held = page.held
        /\ q.live = page.live /\ q.stopping = page.stopping /\ q.flushing = page.flushing
        /\ q.current = page.current /\ q.ending = page.ending /\ q.discard = page.discard
        /\ q.notify = page.notify /\ q.enabled = page.enabled
    BY <1>1, <1>2 DEF Page
  <1>4. page' = q /\ handler' = NewHandler
    BY DEF LoseConnection
  <1> HIDE DEF q
  <1>5. PageInv(q, n) /\ (AtRest(q) <=> AtRest(page)) /\ Unanswered(q) = Unanswered(page)
    BY <1>1, <1>3 DEF PageInv, OneRecorder, StoppedWhy, HeldOn, AtRest, Records, Unanswered
  <1>6. /\ NewHandler.at = "receive" /\ NewHandler.segments = << >>
        /\ NewHandler.input = << >> /\ NewHandler.audio = << >>
    BY DEF NewHandler
  <1>7. DOMAIN << >> = {} /\ DOMAIN q.out = {}
    BY <1>3
  <1>8. Offline(q, NewHandler) /\ TurnEnds(q, NewHandler) /\ NotSpoken(q, sp)
    BY <1>1, <1>3, <1>5, <1>6, <1>7 DEF Offline, TurnEnds, NotSpoken
  <1>9. ASSUME NEW d, Before(handler, sp, d)
        PROVE  Before(NewHandler, sp, d)
    BY <1>6, <1>7, <1>9 DEF Before, Has, In
  <1>10. OrderInv(q, NewHandler, sp, n)
    <2>1. OrderedHere(NewHandler, sp)
      BY <1>1, <1>6, <1>7 DEF OrderInv, OrderedHere, Increasing, Below
    <2>2. OrderedOnTheWay(q, NewHandler, sp)
      BY <1>7 DEF OrderedOnTheWay
    <2>3. OrderedAtThePage(q, NewHandler, sp, n)
      BY <1>1, <1>5, <1>7, <1>9 DEF OrderInv, OrderedAtThePage, AllBefore
    <2> QED  BY <2>1, <2>2, <2>3 DEF OrderInv
  <1>11. Half(q, NewHandler, sp, n)
    BY <1>1, <1>3, <1>5, <1>8, <1>10, NewHandlerEmpty DEF Half, Typed
  <1>12. NothingArrives(q, NewHandler)
    BY <1>3, NewHandlerEmpty DEF NothingArrives, Arriving
  <1>13. Good(q, NewHandler, sp, n)
    BY <1>11, <1>12, HalfAndEmptyIsGood
  <1> QED  BY <1>4, <1>13
-----------------------------------------------------------------------------
(* The steps of the server.                                                *)

LEMMA InEmpty == \A d : ~In(d, << >>)
  BY DEF In

LEMMA InAppended ==
  ASSUME NEW a \in Seq(Segment), NEW x \in Segment, NEW d
  PROVE  In(d, Append(a, x)) => In(d, a) \/ d = x
  <1>1. /\ DOMAIN Append(a, x) = 1..(Len(a) + 1) /\ DOMAIN a = 1..Len(a) /\ Len(a) \in Nat
        /\ \A i \in 1..Len(a) : Append(a, x)[i] = a[i]
        /\ Append(a, x)[Len(a) + 1] = x
    OBVIOUS
  <1> QED  BY <1>1 DEF In

LEMMA Joined ==
  ASSUME NEW a \in Seq(Segment), NEW b \in Seq(Segment)
  PROVE  /\ a \o b \in Seq(Segment)
         /\ Len(a) \in Nat /\ Len(b) \in Nat
         /\ DOMAIN a = 1..Len(a) /\ DOMAIN b = 1..Len(b)
         /\ DOMAIN (a \o b) = 1..(Len(a) + Len(b))
         /\ \A i \in 1..(Len(a) + Len(b)) :
              \/ i \in DOMAIN a /\ (a \o b)[i] = a[i]
              \/ i > Len(a) /\ i - Len(a) \in DOMAIN b /\ (a \o b)[i] = b[i - Len(a)]
  OBVIOUS

LEMMA InJoined ==
  ASSUME NEW a \in Seq(Segment), NEW b \in Seq(Segment), NEW d, In(d, a \o b)
  PROVE  In(d, a) \/ In(d, b)
  <1> DEFINE c == a \o b
  <1>1. /\ DOMAIN c = 1..(Len(a) + Len(b))
        /\ \A i \in 1..(Len(a) + Len(b)) :
             \/ i \in DOMAIN a /\ c[i] = a[i]
             \/ i > Len(a) /\ i - Len(a) \in DOMAIN b /\ c[i] = b[i - Len(a)]
    BY Joined
  <1>2. In(d, c)
    OBVIOUS
  <1> HIDE DEF c
  <1> QED  BY <1>1, <1>2 DEF In

LEMMA BelowJoined ==
  ASSUME NEW a \in Seq(Segment), NEW b \in Seq(Segment), NEW e \in Seq(Segment)
  PROVE  /\ Below(a, e) /\ Below(b, e) => Below(a \o b, e)
         /\ Below(e, a) /\ Below(e, b) => Below(e, a \o b)
  <1> DEFINE c == a \o b
  <1>1. /\ DOMAIN c = 1..(Len(a) + Len(b))
        /\ \A i \in 1..(Len(a) + Len(b)) :
             \/ i \in DOMAIN a /\ c[i] = a[i]
             \/ i > Len(a) /\ i - Len(a) \in DOMAIN b /\ c[i] = b[i - Len(a)]
    BY Joined
  <1> HIDE DEF c
  <1>2. Below(a, e) /\ Below(b, e) => Below(c, e)
    BY <1>1 DEF Below
  <1>3. Below(e, a) /\ Below(e, b) => Below(e, c)
    BY <1>1 DEF Below
  <1> QED  BY <1>2, <1>3 DEF c

LEMMA IncreasingJoined ==
  ASSUME NEW a \in Seq(Segment), NEW b \in Seq(Segment),
         Increasing(a), Increasing(b), Below(a, b)
  PROVE  Increasing(a \o b)
  <1> DEFINE c == a \o b
             n == Len(a)
  <1>1. /\ DOMAIN c = 1..(n + Len(b)) /\ n \in Nat /\ Len(b) \in Nat /\ DOMAIN a = 1..n
        /\ \A i \in 1..(n + Len(b)) :
             \/ i \in DOMAIN a /\ c[i] = a[i]
             \/ i > n /\ i - n \in DOMAIN b /\ c[i] = b[i - n]
    BY Joined
  <1> HIDE DEF c, n
  <1> SUFFICES ASSUME NEW i \in DOMAIN c, NEW j \in DOMAIN c, i < j
               PROVE  c[i] < c[j]
    BY DEF Increasing, c
  <1>2. CASE i \in DOMAIN a /\ c[i] = a[i] /\ j \in DOMAIN a /\ c[j] = a[j]
    BY <1>2 DEF Increasing
  <1>3. CASE /\ i \in DOMAIN a /\ c[i] = a[i]
             /\ j > n /\ j - n \in DOMAIN b /\ c[j] = b[j - n]
    BY <1>3 DEF Below
  <1>4. CASE /\ i > n /\ i - n \in DOMAIN b /\ c[i] = b[i - n]
             /\ j > n /\ j - n \in DOMAIN b /\ c[j] = b[j - n]
    <2>1. i - n < j - n
      BY <1>1
    <2> QED  BY <1>4, <2>1 DEF Increasing
  <1>5. ~(i > n /\ j \in DOMAIN a)
    BY <1>1
  <1>6. \/ i \in DOMAIN a /\ c[i] = a[i]
        \/ i > n /\ i - n \in DOMAIN b /\ c[i] = b[i - n]
    BY <1>1
  <1>7. \/ j \in DOMAIN a /\ c[j] = a[j]
        \/ j > n /\ j - n \in DOMAIN b /\ c[j] = b[j - n]
    BY <1>1
  <1> QED  BY <1>2, <1>3, <1>4, <1>5, <1>6, <1>7

LEMMA EmptyOrdered ==
  Increasing(<< >>) /\ \A a : Below(a, << >>) /\ Below(<< >>, a)
  BY DEF Increasing, Below

LEMMA AppendedIsJoined ==
  ASSUME NEW a \in Seq(Segment), NEW x \in Segment
  PROVE  Append(a, x) = a \o <<x>> /\ <<x>> \in Seq(Segment)
  OBVIOUS

\* What is above everything in a sequence can follow it.
LEMMA SingleOrdered ==
  ASSUME NEW a \in Seq(Segment), NEW x \in Segment, \A e \in Segment : In(e, a) => e < x
  PROVE  Increasing(<<x>>) /\ Below(a, <<x>>)
  <1>1. DOMAIN <<x>> = {1} /\ <<x>>[1] = x
    OBVIOUS
  <1>2. \A i \in DOMAIN a : a[i] \in Segment
    OBVIOUS
  <1> QED  BY <1>1, <1>2 DEF Increasing, Below, In

\* The handler takes the first message: what is in the turn, what has been said and
\* what is on the way stay in order, and the turn loses what the message clears.
LEMMA HandledGood ==
  ASSUME NEW p, NEW s, NEW sp, NEW n, Good(p, s, sp, n), p.connected, p.out # << >>,
         NEW t \in Handler, NEW tp \in Seq(Segment), NEW q \in Page,
         q = [p EXCEPT !.out = Tail(@)],
         t.at = "receive" => t.input = << >>,
         OrderedHere(t, tp),
         \A d \in Segment : Has(t, d) => \/ Has(s, d) /\ Head(p.out).type \notin Clears
                                         \/ Head(p.out).type = "chunk" /\ Head(p.out).segment = d,
         \A d \in Segment : In(d, tp) => \/ In(d, sp)
                                         \/ Head(p.out).type = "turn_end" /\ Has(s, d)
  PROVE  Good(q, t, tp, n)
  <1> DEFINE h == Head(p.out)
  <1>1. /\ Half(p, s, sp, n) /\ Lost(p, s) /\ CancelledWaits(p, s)
        /\ p \in Page /\ PageInv(p, n) /\ TurnEnds(p, s) /\ NotSpoken(p, sp)
        /\ OrderInv(p, s, sp, n) /\ n \in 0..MaxSegments /\ p.out \in Seq(Message)
    BY GoodParts DEF Half, Typed, Page
  <1>2. /\ Len(p.out) \in Nat \ {0} /\ DOMAIN p.out = 1..Len(p.out) /\ h = p.out[1]
        /\ DOMAIN Tail(p.out) = 1..(Len(p.out) - 1) /\ Len(Tail(p.out)) = Len(p.out) - 1
        /\ \A k \in 1..(Len(p.out) - 1) : Tail(p.out)[k] = p.out[k + 1]
    BY <1>1
  <1>3. /\ q.out = Tail(p.out) /\ SameButOut(p, q)
    BY <1>1 DEF Page, SameButOut
  <1>4. PageInv(q, n) /\ (AtRest(p) <=> AtRest(q)) /\ Unanswered(q) = Unanswered(p)
    BY <1>1, <1>3, SameButOutKeeps
  <1>5. Unanswered(p) \subseteq Segment
    BY <1>1 DEF Unanswered, Page
  <1>6. ASSUME NEW d \in Segment, NEW k \in Nat \ {0}, InTurn(t, q.out, k, d)
        PROVE  InTurn(s, p.out, k + 1, d)
    BY <1>1, <1>3, <1>6, InTurnTail
  <1>7. \A d \in Segment : Arriving(q, t, d) => Arriving(p, s, d)
    <2>1. Len(p.out) \in Nat \ {0} /\ (Len(p.out) - 1) + 1 = Len(p.out)
      BY <1>2
    <2> QED  BY <1>2, <1>3, <1>6, <2>1 DEF Arriving
  <1>8. Lost(q, t)
    BY <1>1, <1>3, <1>4, <1>7 DEF Lost, NothingArrives, SameButOut
  <1>9. CancelledWaits(q, t)
    BY <1>1, <1>3, <1>4, <1>5, <1>7 DEF CancelledWaits, SameButOut, Unanswered
  <1>10. Offline(q, t)
    BY <1>3 DEF Offline, SameButOut
  <1>11. TurnEnds(q, t)
    <2> SUFFICES ASSUME NEW k \in DOMAIN q.out, q.out[k].type = "turn_end",
                        NEW d \in Unanswered(p)
                 PROVE  ~InTurn(t, q.out, k, d)
      BY <1>4 DEF TurnEnds
    <2>1. k \in Nat \ {0} /\ k + 1 \in DOMAIN p.out /\ p.out[k + 1].type = "turn_end"
      BY <1>2, <1>3
    <2> QED  BY <1>1, <1>5, <1>6, <2>1 DEF TurnEnds
  <1>12. NotSpoken(q, tp)
    <2> SUFFICES ASSUME NEW d \in Unanswered(p), In(d, tp)
                 PROVE  FALSE
      BY <1>4 DEF NotSpoken
    <2>1. ~In(d, sp)
      BY <1>1 DEF NotSpoken
    <2>2. h.type = "turn_end" /\ Has(s, d)
      BY <1>5, <2>1
    <2>3. 1 \in DOMAIN p.out /\ p.out[1].type = "turn_end"
      BY <1>2, <2>2
    <2>4. Uncleared(p.out, 1, 1)
      BY <1>2 DEF Uncleared
    <2>5. InTurn(s, p.out, 1, d)
      BY <2>2, <2>4 DEF InTurn
    <2> QED  BY <1>1, <2>3, <2>5 DEF TurnEnds
  <1>13. ASSUME NEW x, Before(s, sp, x), h.type = "chunk" => h.segment < x
         PROVE  Before(t, tp, x)
    BY <1>13 DEF Before
  <1>14. OrderedOnTheWay(q, t, tp)
    <2> SUFFICES ASSUME NEW k \in DOMAIN q.out, q.out[k].type = "chunk"
                 PROVE  /\ Before(t, tp, q.out[k].segment)
                        /\ \A j \in DOMAIN q.out : j < k /\ q.out[j].type = "chunk" =>
                             q.out[j].segment < q.out[k].segment
      BY DEF OrderedOnTheWay
    <2>1. /\ k + 1 \in DOMAIN p.out /\ p.out[k + 1] = q.out[k] /\ 1 \in DOMAIN p.out /\ 1 < k + 1
          /\ \A j \in DOMAIN q.out : j + 1 \in DOMAIN p.out /\ p.out[j + 1] = q.out[j]
          /\ \A j \in DOMAIN q.out : j < k => j + 1 < k + 1
      BY <1>2, <1>3
    <2>2. OrderedOnTheWay(p, s, sp)
      BY <1>1 DEF OrderInv
    <2>3. /\ Before(s, sp, q.out[k].segment)
          /\ \A j \in DOMAIN p.out : j < k + 1 /\ p.out[j].type = "chunk" =>
               p.out[j].segment < q.out[k].segment
      BY <2>1, <2>2 DEF OrderedOnTheWay
    <2>4. h.type = "chunk" => h.segment < q.out[k].segment
      BY <1>2, <2>1, <2>3
    <2> QED  BY <1>13, <2>1, <2>3, <2>4
  <1>15. ASSUME NEW x, AllBefore(p, s, sp, x)
         PROVE  AllBefore(q, t, tp, x)
    <2>1. h.type = "chunk" => h.segment < x
      BY <1>2, <1>15 DEF AllBefore
    <2>2. Before(t, tp, x)
      BY <1>13, <1>15, <2>1 DEF AllBefore
    <2>3. \A j \in DOMAIN q.out : j + 1 \in DOMAIN p.out /\ p.out[j + 1] = q.out[j]
      BY <1>2, <1>3
    <2> QED  BY <1>15, <2>2, <2>3 DEF AllBefore
  <1>16. OrderedAtThePage(q, t, tp, n)
    BY <1>1, <1>4, <1>15 DEF OrderInv, OrderedAtThePage
  <1>17. Half(q, t, tp, n)
    BY <1>1, <1>4, <1>10, <1>11, <1>12, <1>14, <1>16 DEF Half, Typed, OrderInv
  <1> QED  BY <1>8, <1>9, <1>17, GoodParts
\* The handler goes on, and holds no more than before.
LEMMA HolderGood ==
  ASSUME NEW p, NEW s, NEW sp, NEW n, Good(p, s, sp, n), p.connected, NEW t \in Handler,
         t.at = "receive" => t.input = << >>, OrderedHere(t, sp),
         \A d \in Segment : Has(t, d) => Has(s, d)
  PROVE  Good(p, t, sp, n)
  <1>1. /\ Half(p, s, sp, n) /\ Lost(p, s) /\ CancelledWaits(p, s)
        /\ p \in Page /\ PageInv(p, n) /\ TurnEnds(p, s) /\ NotSpoken(p, sp)
        /\ OrderInv(p, s, sp, n) /\ n \in 0..MaxSegments /\ sp \in Seq(Segment)
    BY GoodParts DEF Half, Typed
  <1>2. Unanswered(p) \subseteq Segment /\ p.discarded \subseteq Segment
    BY <1>1 DEF Unanswered, Page
  <1>3. \A d \in Segment : \A k : InTurn(t, p.out, k, d) => InTurn(s, p.out, k, d)
    BY InTurnHolder
  <1>4. Lost(p, t) /\ CancelledWaits(p, t)
    BY <1>1, <1>2, <1>3 DEF Lost, CancelledWaits, NothingArrives, Arriving
  <1>5. Offline(p, t) /\ TurnEnds(p, t)
    BY <1>1, <1>2, <1>3 DEF Offline, TurnEnds
  <1>6. \A x : Before(s, sp, x) => Before(t, sp, x)
    BY DEF Before
  <1>7. OrderInv(p, t, sp, n)
    BY <1>1, <1>6 DEF OrderInv, OrderedOnTheWay, OrderedAtThePage, AllBefore
  <1> QED  BY <1>1, <1>4, <1>5, <1>7, GoodParts DEF Half, Typed

LEMMA TranscribedGood ==
  ASSUME NEW p, NEW sp, NEW n, Good(p, handler, sp, n), Transcribed
  PROVE  Good(p, handler', sp, n)
  <1> DEFINE s == [handler EXCEPT !.at = "receive", !.input = << >>]
             t == [s EXCEPT !.segments = @ \o handler.input]
  <1>1. handler \in Handler /\ Offline(p, handler) /\ OrderInv(p, handler, sp, n)
        /\ sp \in Seq(Segment)
    BY GoodParts DEF Half, Typed
  <1>2. handler' = s \/ handler' = t
    BY DEF Transcribed, Told
  <1>3. p.connected
    <2>1. handler.at = "transcribe" /\ NewHandler.at # "transcribe"
      BY DEF Transcribed, NewHandler
    <2> QED  BY <1>1, <2>1 DEF Offline
  <1>4. /\ handler.segments \in Seq(Segment) /\ handler.input \in Seq(Segment)
        /\ handler.audio \in Seq(Segment) /\ << >> \in Seq(Segment)
    BY <1>1 DEF Handler
  <1>5. handler.segments \o handler.input \in Seq(Segment)
    BY <1>4
  <1>6. /\ s \in Handler /\ s.at = "receive" /\ s.input = << >>
        /\ s.segments = handler.segments /\ s.audio = handler.audio
    BY <1>1, <1>4 DEF Handler
  <1>7. /\ t \in Handler /\ t.at = "receive" /\ t.input = << >>
        /\ t.segments = handler.segments \o handler.input /\ t.audio = handler.audio
    BY <1>5, <1>6 DEF Handler
  <1> HIDE DEF s, t
  <1>8. OrderedHere(handler, sp)
    BY <1>1 DEF OrderInv
  <1>9. Good(p, s, sp, n)
    <2>1. OrderedHere(s, sp)
      BY <1>6, <1>8, EmptyOrdered DEF OrderedHere
    <2>2. \A d \in Segment : Has(s, d) => Has(handler, d)
      BY <1>6, InEmpty DEF Has
    <2> QED  BY <1>3, <1>6, <2>1, <2>2, HolderGood
  <1>10. Good(p, t, sp, n)
    <2>1. OrderedHere(t, sp)
      BY <1>1, <1>4, <1>7, <1>8, EmptyOrdered, IncreasingJoined, BelowJoined DEF OrderedHere
    <2>2. \A d \in Segment : Has(t, d) => Has(handler, d)
      BY <1>4, <1>7, InEmpty, InJoined DEF Has
    <2> QED  BY <1>3, <1>7, <2>1, <2>2, HolderGood
  <1> QED  BY <1>2, <1>9, <1>10

LEMMA ReplyGood ==
  ASSUME NEW p, NEW sp, NEW n, Good(p, handler, sp, n), Reply
  PROVE  Good(p, handler', sp, n)
  <1>1. handler \in Handler /\ Offline(p, handler) /\ OrderInv(p, handler, sp, n)
    BY GoodParts DEF Half, Typed
  <1>2. PICK t : t = [handler EXCEPT !.busy = FALSE]
    OBVIOUS
  <1>3. handler' = t
    BY <1>2 DEF Reply, Told
  <1>4. p.connected
    <2>1. handler.busy /\ ~NewHandler.busy
      BY DEF Reply, NewHandler
    <2> QED  BY <1>1, <2>1 DEF Offline
  <1>5. /\ t \in Handler /\ t.at = handler.at /\ t.input = handler.input
        /\ t.segments = handler.segments /\ t.audio = handler.audio
    BY <1>1, <1>2 DEF Handler
  <1>6. t.at = "receive" => t.input = << >>
    BY <1>1, <1>5 DEF Offline
  <1>7. OrderedHere(t, sp) /\ \A d \in Segment : Has(t, d) => Has(handler, d)
    BY <1>1, <1>5 DEF OrderInv, OrderedHere, Has
  <1>8. Good(p, t, sp, n)
    BY <1>4, <1>5, <1>6, <1>7, HolderGood
  <1> QED  BY <1>3, <1>8

\* What a handler is after a message, but for the turn it starts.
LEMMA SameTurn ==
  ASSUME NEW t, NEW events, Told(t, events) \/ BeginTurn(t, events),
         t \in Handler
  PROVE  /\ handler' \in Handler /\ handler'.at = t.at /\ handler'.input = t.input
         /\ handler'.segments = t.segments /\ handler'.audio = t.audio
  <1>1. handler' = t \/ handler' = [t EXCEPT !.busy = TRUE]
    BY DEF Told, BeginTurn
  <1>2. /\ [t EXCEPT !.busy = TRUE] \in Handler
        /\ [t EXCEPT !.busy = TRUE].at = t.at /\ [t EXCEPT !.busy = TRUE].input = t.input
        /\ [t EXCEPT !.busy = TRUE].segments = t.segments
        /\ [t EXCEPT !.busy = TRUE].audio = t.audio
    BY DEF Handler
  <1> QED  BY <1>1, <1>2

\* What the handler has and what was said, after the first message on the way.
LEMMA HandledTurn ==
  ASSUME NEW n, Good(page, handler, spoken, n), Handle
  PROVE  /\ handler' \in Handler /\ spoken' \in Seq(Segment)
         /\ handler'.at = "receive" => handler'.input = << >>
         /\ OrderedHere(handler', spoken')
         /\ \A d \in Segment : Has(handler', d) =>
              \/ Has(handler, d) /\ Head(page.out).type \notin Clears
              \/ Head(page.out).type = "chunk" /\ Head(page.out).segment = d
         /\ \A d \in Segment : In(d, spoken') =>
              \/ In(d, spoken)
              \/ Head(page.out).type = "turn_end" /\ Has(handler, d)
  <1> DEFINE m == Head(page.out)
  <1>1. /\ page \in Page /\ handler \in Handler /\ Offline(page, handler)
        /\ OrderInv(page, handler, spoken, n) /\ spoken \in Seq(Segment)
    BY GoodParts DEF Half, Typed
  <1>2. page.out \in Seq(Message) /\ page.out # << >>
    BY <1>1 DEF Page, Handle
  <1>3. /\ m \in Message /\ m.type \in Request /\ m = page.out[1] /\ 1 \in DOMAIN page.out
    BY <1>2, MessageKinds
  <1>4. /\ handler.segments \in Seq(Segment) /\ handler.audio \in Seq(Segment)
        /\ handler.at = "receive" /\ handler.input = << >> /\ << >> \in Seq(Segment)
    BY <1>1 DEF Handler, Offline, Handle
  <1>5. OrderedHere(handler, spoken)
    BY <1>1 DEF OrderInv
  <1>6. spoken' = IF m.type = "turn_end" /\ ~handler.busy THEN spoken \o handler.segments
                  ELSE spoken
    BY DEF Handle
  <1>7. m.type # "turn_end" => spoken' = spoken
    BY <1>6
  <1> DEFINE ears == [handler EXCEPT !.audio = << >>, !.segments = << >>]
             deaf == [handler EXCEPT !.audio = << >>]
             taken == [handler EXCEPT !.segments = << >>]
             fuller == [handler EXCEPT !.audio = Append(@, m.segment)]
             hearing == [handler EXCEPT !.at = "transcribe", !.audio = << >>,
                                       !.input = handler.audio]
  <1>8. /\ ears \in Handler /\ ears.at = "receive" /\ ears.input = << >>
        /\ ears.segments = << >> /\ ears.audio = << >>
        /\ deaf \in Handler /\ deaf.at = "receive" /\ deaf.input = << >>
        /\ deaf.segments = handler.segments /\ deaf.audio = << >>
        /\ taken \in Handler /\ taken.at = "receive" /\ taken.input = << >>
        /\ taken.segments = << >> /\ taken.audio = handler.audio
        /\ hearing \in Handler /\ hearing.at = "transcribe" /\ hearing.input = handler.audio
        /\ hearing.segments = handler.segments /\ hearing.audio = << >>
    BY <1>1, <1>4 DEF Handler
  <1> DEFINE Case(type) ==
        CASE type = "start" ->
               IF handler.busy THEN Told(handler, <<"error">>) ELSE Told(deaf, <<"listening">>)
          [] type = "chunk" -> Told(fuller, << >>)
          [] type = "audio_end" ->
               IF handler.audio = << >> THEN Told(handler, <<"error">>)
               ELSE Told(hearing, <<"transcribing">>)
          [] type = "turn_end" ->
               IF handler.segments = << >> THEN Told(handler, <<"error">>)
               ELSE BeginTurn(taken, <<"responding">>)
          [] type = "turn_cancel" -> Told(ears, <<"ready_for_answer">>)
          [] type = "pause" -> Told(ears, <<"paused">>)
          [] type = "resume" -> Told(handler, <<"ready_for_answer">>)
          [] type = "end" -> BeginTurn(ears, << >>)
          [] type = "text" -> BeginTurn(handler, << >>)
  <1>9. Case(m.type)
    BY DEF Handle, Ears, Taken
  <1> HIDE DEF m, ears, deaf, taken, fuller, hearing
  \* The handler holds what it held.
  <1>10. ASSUME handler' \in Handler, handler'.at = "receive", handler'.input = << >>,
                handler'.segments = handler.segments, handler'.audio = handler.audio,
                m.type \notin Clears, spoken' = spoken
         PROVE  /\ OrderedHere(handler', spoken')
                /\ \A d \in Segment : Has(handler', d) => Has(handler, d)
    BY <1>4, <1>5, <1>10 DEF OrderedHere, Has
  <1>11. CASE m.type = "start"
    <2>1. Told(handler, <<"error">>) \/ Told(deaf, <<"listening">>)
      BY <1>9, <1>11
    <2>2. handler' = handler \/ handler' = deaf
      BY <2>1 DEF Told
    <2>3. spoken' = spoken /\ m.type \notin Clears
      BY <1>7, <1>11 DEF Clears
    <2>4. CASE handler' = handler
      BY <1>1, <1>4, <1>5, <2>3, <2>4 DEF m
    <2>5. CASE handler' = deaf
      BY <1>1, <1>4, <1>5, <1>8, <2>3, <2>5, EmptyOrdered, InEmpty DEF OrderedHere, Has, m
    <2> QED  BY <2>2, <2>4, <2>5
  <1>12. CASE m.type = "chunk"
    <2>1. handler' = fuller /\ spoken' = spoken
      BY <1>7, <1>9, <1>12 DEF Told
    <2>2. m.segment \in Segment
      BY <1>3, <1>12, MessageKinds
    <2>3. Before(handler, spoken, m.segment)
      BY <1>1, <1>3, <1>12 DEF OrderInv, OrderedOnTheWay
    <2>4. /\ Append(handler.audio, m.segment) = handler.audio \o <<m.segment>>
          /\ <<m.segment>> \in Seq(Segment) /\ Append(handler.audio, m.segment) \in Seq(Segment)
      BY <1>4, <2>2, AppendedIsJoined
    <2>5. /\ fuller \in Handler /\ fuller.at = "receive" /\ fuller.input = << >>
          /\ fuller.segments = handler.segments
          /\ fuller.audio = Append(handler.audio, m.segment)
      BY <1>1, <1>4, <2>4 DEF Handler, fuller
    <2>6. \A e \in Segment : In(e, spoken) \/ In(e, handler.segments) \/ In(e, handler.audio) =>
                               e < m.segment
      BY <2>3 DEF Before, Has
    <2>7. /\ Increasing(<<m.segment>>) /\ Below(spoken, <<m.segment>>)
          /\ Below(handler.segments, <<m.segment>>) /\ Below(handler.audio, <<m.segment>>)
      BY <1>1, <1>4, <2>2, <2>6, SingleOrdered
    <2>8. /\ Increasing(spoken) /\ Increasing(handler.segments) /\ Increasing(handler.audio)
          /\ Below(spoken, handler.segments) /\ Below(spoken, handler.audio)
          /\ Below(handler.segments, handler.audio)
      BY <1>5 DEF OrderedHere
    <2>9. /\ Increasing(handler.audio \o <<m.segment>>)
          /\ Below(spoken, handler.audio \o <<m.segment>>)
          /\ Below(handler.segments, handler.audio \o <<m.segment>>)
      BY <1>1, <1>4, <2>4, <2>7, <2>8, IncreasingJoined, BelowJoined
    <2>10. OrderedHere(fuller, spoken)
      BY <2>4, <2>5, <2>8, <2>9, EmptyOrdered DEF OrderedHere
    <2>11. \A d \in Segment : Has(fuller, d) => Has(handler, d) \/ m.segment = d
      BY <1>4, <2>2, <2>5, InAppended DEF Has
    <2> QED  BY <1>1, <1>12, <2>1, <2>5, <2>10, <2>11 DEF Clears, m
  <1>13. CASE m.type = "audio_end"
    <2>1. handler' = handler \/ handler' = hearing
      BY <1>9, <1>13 DEF Told
    <2>2. spoken' = spoken /\ m.type \notin Clears
      BY <1>7, <1>13 DEF Clears
    <2>3. CASE handler' = handler
      BY <1>1, <1>4, <1>5, <2>2, <2>3 DEF m
    <2>4. CASE handler' = hearing
      <3>1. OrderedHere(hearing, spoken)
        BY <1>5, <1>8, EmptyOrdered DEF OrderedHere
      <3>2. \A d \in Segment : Has(hearing, d) => Has(handler, d)
        BY <1>8, InEmpty DEF Has
      <3> QED  BY <1>1, <1>8, <2>2, <2>4, <3>1, <3>2 DEF m
    <2> QED  BY <2>1, <2>3, <2>4
  <1>14. CASE m.type = "turn_end"
    <2>1. \/ handler.segments = << >> /\ handler' = handler
          \/ handler.segments # << >> /\ BeginTurn(taken, <<"responding">>)
      BY <1>9, <1>14 DEF Told
    <2>2. m.type \notin Clears
      BY <1>14 DEF Clears
    <2>3. spoken' = spoken \/ spoken' = spoken \o handler.segments
      BY <1>6
    <2>4. spoken \o handler.segments \in Seq(Segment) /\ spoken \o << >> = spoken
      BY <1>1, <1>4
    <2>5. CASE handler.segments = << >> /\ handler' = handler
      <3>1. spoken' = spoken
        BY <2>3, <2>4, <2>5
      <3> QED  BY <1>1, <1>4, <1>5, <2>2, <2>5, <3>1 DEF m
    <2>6. CASE BeginTurn(taken, <<"responding">>)
      <3>1. /\ handler' \in Handler /\ handler'.at = "receive" /\ handler'.input = << >>
            /\ handler'.segments = << >> /\ handler'.audio = handler.audio
        BY <1>8, <2>6, SameTurn
      <3>2. /\ Increasing(spoken) /\ Increasing(handler.segments) /\ Increasing(handler.audio)
            /\ Below(spoken, handler.segments) /\ Below(spoken, handler.audio)
            /\ Below(handler.segments, handler.audio)
        BY <1>5 DEF OrderedHere
      <3>3. /\ Increasing(spoken \o handler.segments)
            /\ Below(spoken \o handler.segments, handler.audio)
        BY <1>1, <1>4, <3>2, IncreasingJoined, BelowJoined
      <3>4. Increasing(spoken') /\ Below(spoken', handler.audio) /\ spoken' \in Seq(Segment)
        BY <1>1, <2>3, <2>4, <3>2, <3>3
      <3>5. OrderedHere(handler', spoken')
        BY <3>1, <3>2, <3>4, EmptyOrdered DEF OrderedHere
      <3>6. \A d \in Segment : Has(handler', d) => Has(handler, d)
        BY <3>1, InEmpty DEF Has
      <3>7. \A d \in Segment : In(d, spoken') => In(d, spoken) \/ Has(handler, d)
        BY <1>1, <1>4, <2>3, InJoined DEF Has
      <3> QED  BY <1>14, <2>2, <3>1, <3>4, <3>5, <3>6, <3>7 DEF m
    <2> QED  BY <2>1, <2>5, <2>6
  <1>15. CASE m.type \in Clears
    <2>1. \/ Told(ears, <<"ready_for_answer">>) \/ Told(ears, <<"paused">>)
          \/ BeginTurn(ears, << >>)
      BY <1>9, <1>15 DEF Clears
    <2>2. /\ handler' \in Handler /\ handler'.at = "receive" /\ handler'.input = << >>
          /\ handler'.segments = << >> /\ handler'.audio = << >>
      BY <1>8, <2>1, SameTurn
    <2>3. spoken' = spoken
      BY <1>7, <1>15 DEF Clears
    <2>4. Increasing(spoken)
      BY <1>5 DEF OrderedHere
    <2>5. OrderedHere(handler', spoken')
      BY <2>2, <2>3, <2>4, EmptyOrdered DEF OrderedHere
    <2>6. \A d \in Segment : ~Has(handler', d)
      BY <2>2, InEmpty DEF Has
    <2> QED  BY <1>1, <2>2, <2>3, <2>5, <2>6
  <1>16. CASE m.type \in {"resume", "text"}
    <2>1. Told(handler, <<"ready_for_answer">>) \/ BeginTurn(handler, << >>)
      BY <1>9, <1>16
    <2>2. /\ handler' \in Handler /\ handler'.at = "receive" /\ handler'.input = << >>
          /\ handler'.segments = handler.segments /\ handler'.audio = handler.audio
      BY <1>1, <1>4, <2>1, SameTurn
    <2>3. spoken' = spoken /\ m.type \notin Clears
      BY <1>7, <1>16 DEF Clears
    <2> QED  BY <1>1, <1>10, <2>2, <2>3 DEF m
  <1> QED  BY <1>3, <1>11, <1>12, <1>13, <1>14, <1>15, <1>16 DEF Request, Clears

LEMMA HandleGood ==
  ASSUME NEW n, Good(page, handler, spoken, n), Handle
  PROVE  Good(page', handler', spoken', n)
  <1>1. page \in Page /\ page.connected /\ page.out # << >>
    BY GoodParts DEF Half, Typed, Handle
  <1>2. page' = [page EXCEPT !.out = Tail(@)]
    BY DEF Handle
  <1>3. page' \in Page
    <2>1. Tail(page.out) \in Seq(Message)
      BY <1>1 DEF Page
    <2> QED  BY <1>1, <1>2, <2>1 DEF Page
  <1>4. PICK q, t, tp : q = page' /\ t = handler' /\ tp = spoken'
    OBVIOUS
  <1>5. /\ t \in Handler /\ tp \in Seq(Segment)
        /\ t.at = "receive" => t.input = << >>
        /\ OrderedHere(t, tp)
        /\ \A d \in Segment : Has(t, d) =>
             \/ Has(handler, d) /\ Head(page.out).type \notin Clears
             \/ Head(page.out).type = "chunk" /\ Head(page.out).segment = d
        /\ \A d \in Segment : In(d, tp) =>
             \/ In(d, spoken)
             \/ Head(page.out).type = "turn_end" /\ Has(handler, d)
    BY <1>4, HandledTurn
  <1>6. q \in Page /\ q = [page EXCEPT !.out = Tail(@)]
    BY <1>2, <1>3, <1>4
  <1>7. Good(q, t, tp, n)
    BY <1>1, <1>5, <1>6, HandledGood
  <1> QED  BY <1>4, <1>7
-----------------------------------------------------------------------------
(* Types, also when recorders overlap.                                     *)

LEMMA SequenceOfSet ==
  ASSUME NEW S \in SUBSET Segment
  PROVE  SetToSeq(S) \in Seq(Segment)
  <1>1. IsFiniteSet(Segment)
    BY VoiceAssumption, FS_Interval DEF Segment
  <1>2. Cardinality(S) \in Nat /\ ExistsBijection(1..Cardinality(S), S)
    BY <1>1, FS_Subset, FS_CardinalityType
  <1>3. \E f \in [1..Cardinality(S) -> S] : IsInjective(f)
    BY <1>2 DEF ExistsBijection, Bijection, Injection
  <1>4. SetToSeq(S) \in [1..Cardinality(S) -> S]
    BY <1>3 DEF SetToSeq
  <1> QED  BY <1>2, <1>4

LEMMA StopTyped ==
  ASSUME NEW p \in Page, Recording(p)
  PROVE  Stop(p) \in Page
  <1>1. p.current \in Segment /\ p.stopping \in Seq(Segment)
    BY DEF Recording, Page
  <1>2. Append(p.stopping, p.current) \in Seq(Segment)
    BY <1>1
  <1> QED  BY <1>2 DEF Stop, Page

LEMMA SendTurnTyped ==
  ASSUME NEW p \in Page
  PROVE  SendTurn(p) \in Page
  <1> DEFINE q == [ClearTurn(p) EXCEPT !.held = {}, !.status = "responding"]
  <1>1. [p EXCEPT !.turnEnd = TRUE] \in Page
    BY DEF Page
  <1>2. q \in Page
    BY DEF ClearTurn, Page, Status
  <1>3. "turn_end" \in Request \ {"chunk"}
    BY DEF Request
  <1> HIDE DEF q
  <1>4. Sent(q, "turn_end") \in Page
    BY <1>2, <1>3, SentIs
  <1> QED  BY <1>1, <1>4 DEF SendTurn, q

LEMMA DisableTyped ==
  ASSUME NEW p \in Page
  PROVE  Disable(p) \in Page
  <1> DEFINE q == IF Recording(p) THEN [Stop(p) EXCEPT !.discard = TRUE, !.notify = FALSE]
                  ELSE p
             c == ClearTurn(q)
             stopped == c.stopping \o SetToSeq(q.live)
             all == c.discarded \cup q.held
  <1>1. q \in Page
    <2>1. ASSUME Recording(p) PROVE [Stop(p) EXCEPT !.discard = TRUE, !.notify = FALSE] \in Page
      <3>1. PICK t : t = Stop(p)
        OBVIOUS
      <3>2. [t EXCEPT !.discard = TRUE, !.notify = FALSE] \in Page
        BY <2>1, <3>1, StopTyped DEF Page
      <3> QED  BY <3>1, <3>2
    <2> QED  BY <2>1
  <1>2. Disable(p) = [c EXCEPT !.enabled = "off", !.live = {},
                               !.stopping = @ \o SetToSeq(q.live),
                               !.discarded = @ \cup q.held, !.held = {}]
    BY DEF Disable
  <1> HIDE DEF q
  <1>3. c \in Page
    BY <1>1 DEF ClearTurn, Page
  <1>4. SetToSeq(q.live) \in Seq(Segment) /\ q.held \in SUBSET Segment
    BY <1>1, SequenceOfSet DEF Page
  <1> HIDE DEF c
  <1>5. stopped \in Seq(Segment) /\ all \in SUBSET Segment
    BY <1>3, <1>4 DEF Page
  <1>6. Disable(p) = [c EXCEPT !.enabled = "off", !.live = {}, !.stopping = stopped,
                               !.discarded = all, !.held = {}]
    BY <1>2
  <1> HIDE DEF stopped, all
  <1> QED  BY <1>3, <1>5, <1>6 DEF Page

LEMMA TurnCancelledTyped ==
  ASSUME NEW p \in Page
  PROVE  TurnCancelled(p) \in Page
  <1> DEFINE status == IF p.status \in {"listening", "transcribing"} THEN "ready_for_answer"
                       ELSE p.status
             q == [p EXCEPT !.status = status]
  <1>1. status \in Status
    BY DEF Page, Status
  <1>2. TurnCancelled(p) = Sent(q, "turn_cancel")
    BY DEF TurnCancelled, Page
  <1> HIDE DEF status
  <1>3. q \in Page
    BY <1>1 DEF Page
  <1>4. "turn_cancel" \in Request \ {"chunk"}
    BY DEF Request
  <1> HIDE DEF q
  <1> QED  BY <1>2, <1>3, <1>4, SentIs

LEMMA PerformTyped ==
  ASSUME NEW p \in Page, NEW after \in After
  PROVE  Perform(p, after) \in Page
  <1>1. "pause" \in Request \ {"chunk"} /\ "end" \in Request \ {"chunk"}
    BY DEF Request
  <1>2. Disable(p) \in Page
    BY DisableTyped
  <1>3. Sent(Disable(p), "pause") \in Page /\ Sent(p, "end") \in Page
    BY <1>1, <1>2, SentIs
  <1> QED  BY <1>2, <1>3 DEF Perform, After

LEMMA CancelTurnTyped ==
  ASSUME NEW p \in Page, NEW after \in After
  PROVE  CancelTurn(p, after) \in Page
  <1> DEFINE q == [ClearTurn(p) EXCEPT !.discarded = @ \cup p.held, !.held = {}]
             r == [q EXCEPT !.discard = TRUE, !.notify = TRUE, !.after = after]
  <1>1. q \in Page /\ q.live = p.live /\ q.current = p.current
    BY DEF ClearTurn, Page
  <1>2. /\ CancelTurn(p, after) = IF Recording(p) THEN Stop(r)
                                  ELSE IF p.ending THEN r
                                  ELSE IF p.connected THEN Perform(TurnCancelled(q), after)
                                  ELSE TurnCancelled(q)
    BY DEF CancelTurn
  <1> HIDE DEF q
  <1>3. r \in Page /\ r.live = p.live /\ r.current = p.current
    BY <1>1 DEF Page
  <1> HIDE DEF r
  <1>4. Recording(p) => Stop(r) \in Page
    BY <1>3, StopTyped DEF Recording
  <1>5. TurnCancelled(q) \in Page
    BY <1>1, TurnCancelledTyped
  <1>6. Perform(TurnCancelled(q), after) \in Page
    BY <1>5, PerformTyped
  <1> QED  BY <1>2, <1>3, <1>4, <1>5, <1>6

LEMMA FlushedTyped ==
  ASSUME NEW p \in Page
  PROVE  Flushed(p) \in Page
  <1> DEFINE q == [p EXCEPT !.ending = FALSE]
             kept == [q EXCEPT !.discard = FALSE, !.notify = FALSE, !.after = "none"]
  <1>1. q \in Page
    BY DEF Page
  <1>2. Flushed(p) = IF p.discard
                     THEN Perform(IF p.notify THEN TurnCancelled(kept) ELSE kept, p.after)
                     ELSE IF p.turnEnd THEN SendTurn(Sent(q, "audio_end"))
                     ELSE Sent(q, "audio_end")
    BY DEF Flushed
  <1>3. p.after \in After /\ "audio_end" \in Request \ {"chunk"}
    BY DEF Page, Request
  <1> HIDE DEF q
  <1>4. kept \in Page
    BY <1>1 DEF Page, After
  <1> HIDE DEF kept
  <1>5. TurnCancelled(kept) \in Page
    BY <1>4, TurnCancelledTyped
  <1>6. /\ Perform(TurnCancelled(kept), p.after) \in Page
        /\ Perform(kept, p.after) \in Page
    BY <1>3, <1>4, <1>5, PerformTyped
  <1>7. Sent(q, "audio_end") \in Page
    BY <1>1, <1>3, SentIs
  <1>8. SendTurn(Sent(q, "audio_end")) \in Page
    BY <1>7, SendTurnTyped
  <1> QED  BY <1>2, <1>6, <1>7, <1>8

LEMMA StartTyped ==
  ASSUME page \in Page, counts \in Counts, StartSegment
  PROVE  page' \in Page
  <1> DEFINE i == counts.segments + 1
             live == page.live \cup {i}
             held == page.held \cup {i}
             q == [page EXCEPT !.handoff = FALSE, !.turnEnd = FALSE, !.current = i,
                               !.live = live, !.cut = FALSE, !.pending = TRUE,
                               !.held = held]
  <1>1. i \in Segment
    BY VoiceAssumption DEF Counts, StartSegment, Segment
  <1>2. page' = Sent(q, "start")
    BY DEF StartSegment
  <1> HIDE DEF i
  <1>3. live \in SUBSET Segment /\ held \in SUBSET Segment
    BY <1>1 DEF Page
  <1> HIDE DEF live, held
  <1>4. q \in Page
    BY <1>1, <1>3 DEF Page
  <1>5. "start" \in Request \ {"chunk"}
    BY DEF Request
  <1> HIDE DEF q
  <1> QED  BY <1>2, <1>4, <1>5, SentIs

LEMMA StopSegmentTyped ==
  ASSUME page \in Page, StopSegment
  PROVE  page' \in Page
  <1>1. PICK t : t = Stop(page)
    OBVIOUS
  <1>2. t \in Page
    BY <1>1, StopTyped DEF StopSegment
  <1>3. PICK silence \in BOOLEAN : page' = [t EXCEPT !.ending = TRUE, !.handoff = @ \/ silence]
    BY <1>1 DEF StopSegment
  <1> DEFINE ready == t.handoff \/ silence
  <1>4. ready \in BOOLEAN /\ page' = [t EXCEPT !.ending = TRUE, !.handoff = ready]
    BY <1>3
  <1> HIDE DEF ready
  <1>5. [t EXCEPT !.ending = TRUE, !.handoff = ready] \in Page
    BY <1>2, <1>4 DEF Page
  <1> QED  BY <1>4, <1>5

LEMMA StopEventTyped ==
  ASSUME page \in Page, StopEvent
  PROVE  page' \in Page
  <1>1. /\ page.stopping \in Seq(Segment) /\ page.flushing \in Seq(Segment)
        /\ page.stopping # << >>
    BY DEF Page, StopEvent
  <1>2. /\ Tail(page.stopping) \in Seq(Segment)
        /\ Append(page.flushing, Head(page.stopping)) \in Seq(Segment)
    BY <1>1
  <1>3. page' = [page EXCEPT !.current = 0, !.stopping = Tail(page.stopping),
                             !.flushing = Append(page.flushing, Head(page.stopping))]
    BY DEF StopEvent
  <1> QED  BY <1>2, <1>3 DEF Page

LEMMA FlushTyped ==
  ASSUME page \in Page, Flush
  PROVE  page' \in Page
  <1> DEFINE p == [page EXCEPT !.flushing = Tail(@)]
             chunk == [type |-> "chunk", segment |-> Head(page.flushing)]
             q == [p EXCEPT !.out = Append(@, chunk)]
  <1>1. page.flushing \in Seq(Segment) /\ page.flushing # << >>
    BY DEF Page, Flush
  <1>2. Tail(page.flushing) \in Seq(Segment) /\ Head(page.flushing) \in Segment
    BY <1>1
  <1>3. p \in Page /\ chunk \in Message
    BY <1>2 DEF Page, Message
  <1>4. page' = IF p.cut \/ ~p.connected THEN p ELSE Flushed(q)
    BY Zenon DEF Flush
  <1> HIDE DEF p, chunk
  <1>5. Append(p.out, chunk) \in Seq(Message)
    BY <1>3 DEF Page
  <1>6. q \in Page
    BY <1>3, <1>5 DEF Page
  <1> HIDE DEF q
  <1> QED  BY <1>3, <1>4, <1>6, FlushedTyped

LEMMA ButtonsTyped ==
  ASSUME page \in Page, Toggle \/ Permission \/ Pause \/ Resume \/ End \/ Submit
  PROVE  page' \in Page
  <1> DEFINE paused == [page EXCEPT !.status = "paused"]
             connecting == [page EXCEPT !.status = "connecting"]
  <1>1. /\ "disable" \in After /\ "pause" \in After /\ "end" \in After
        /\ "pause" \in Request \ {"chunk"} /\ "end" \in Request \ {"chunk"}
        /\ "resume" \in Request \ {"chunk"} /\ "text" \in Request \ {"chunk"}
    BY DEF After, Request
  <1>2. /\ [page EXCEPT !.enabled = "asking"] \in Page
        /\ [page EXCEPT !.enabled = "on"] \in Page
        /\ paused \in Page /\ connecting \in Page
    BY DEF Page, Status
  <1>3. Disable(page) \in Page
    BY DisableTyped
  <1>4. CASE Toggle
    BY <1>1, <1>2, <1>4, CancelTurnTyped DEF Toggle, Clicked
  <1>5. CASE Permission
    BY <1>2, <1>3, <1>5 DEF Permission
  <1>6. CASE Pause
    <2>1. page' = CancelTurn(paused, "pause") \/ page' = Sent(paused, "pause")
      BY <1>6 DEF Pause, Clicked
    <2> HIDE DEF paused
    <2> QED  BY <1>1, <1>2, <2>1, CancelTurnTyped, SentIs
  <1>7. CASE Resume
    <2>1. page' = Sent(connecting, "resume")
      BY <1>7 DEF Resume, Clicked
    <2> HIDE DEF connecting
    <2> QED  BY <1>1, <1>2, <2>1, SentIs
  <1>8. CASE End
    <2>1. page' = CancelTurn(page, "end") \/ page' = Sent(page, "end")
      BY <1>8 DEF End, Clicked
    <2> QED  BY <1>1, <2>1, CancelTurnTyped, SentIs
  <1>9. CASE Submit
    <2>1. page' = Sent(connecting, "text")
      BY <1>9 DEF Submit, Clicked
    <2> HIDE DEF connecting
    <2> QED  BY <1>1, <1>2, <2>1, SentIs
  <1> QED  BY <1>4, <1>5, <1>6, <1>7, <1>8, <1>9

LEMMA LossTyped ==
  ASSUME page \in Page, LoseConnection \/ Reconnect
  PROVE  page' \in Page
  <1> DEFINE q == [page EXCEPT !.connected = TRUE, !.status = "ready_for_answer"]
             cut == page.cut \/ page.live # {}
  <1>1. q \in Page /\ "resume" \in Request \ {"chunk"}
    BY DEF Page, Status, Request
  <1>2. cut \in BOOLEAN /\ << >> \in Seq(Message)
    OBVIOUS
  <1>3. LoseConnection => page' = [page EXCEPT !.connected = FALSE, !.out = << >>, !.cut = cut]
    BY DEF LoseConnection
  <1>4. Reconnect => page' = Sent(q, "resume")
    BY DEF Reconnect
  <1> HIDE DEF q, cut
  <1>5. Sent(q, "resume") \in Page
    BY <1>1, SentIs
  <1>6. [page EXCEPT !.connected = FALSE, !.out = << >>, !.cut = cut] \in Page
    BY <1>2 DEF Page
  <1> QED  BY <1>3, <1>4, <1>5, <1>6

LEMMA HandleTyped ==
  ASSUME page \in Page, handler \in Handler, spoken \in Seq(Segment), Handle
  PROVE  page' \in Page /\ handler' \in Handler /\ spoken' \in Seq(Segment)
  <1> DEFINE m == Head(page.out)
             full == Append(handler.audio, m.segment)
             fuller == [handler EXCEPT !.audio = full]
             deaf == [handler EXCEPT !.audio = << >>]
             hearing == [handler EXCEPT !.at = "transcribe", !.audio = << >>,
                                       !.input = handler.audio]
  <1>1. page.out \in Seq(Message) /\ page.out # << >>
    BY DEF Page, Handle
  <1>2. m \in Message /\ m.type \in Request /\ Tail(page.out) \in Seq(Message)
    BY <1>1, MessageKinds
  <1>3. page' = [page EXCEPT !.out = Tail(page.out)]
    BY DEF Handle
  <1>4. page' \in Page
    BY <1>2, <1>3 DEF Page
  <1>5. handler.segments \in Seq(Segment) /\ handler.audio \in Seq(Segment)
    BY DEF Handler
  <1>6. spoken' = spoken \/ spoken' = spoken \o handler.segments
    BY DEF Handle
  <1>7. spoken' \in Seq(Segment)
    <2>1. \A a, b \in Seq(Segment) : a \o b \in Seq(Segment)
      OBVIOUS
    <2> QED  BY <1>5, <1>6, <2>1
  <1>8. Ears \in Handler /\ Taken(handler) \in Handler /\ deaf \in Handler /\ hearing \in Handler
    <2>1. << >> \in Seq(Segment)
      OBVIOUS
    <2>2. Ears \in Handler
      BY <2>1 DEF Handler, Ears
    <2>3. Taken(handler) \in Handler
      BY <2>1 DEF Handler, Taken
    <2>4. deaf \in Handler
      BY <2>1 DEF Handler
    <2>5. hearing \in Handler
      BY <1>5, <2>1 DEF Handler
    <2> QED  BY <2>2, <2>3, <2>4, <2>5
  <1>9. ASSUME m.type = "chunk"
        PROVE  fuller \in Handler
    <2>1. m.segment \in Segment
      BY <1>2, <1>9, MessageKinds
    <2>2. full \in Seq(Segment)
      BY <1>5, <2>1
    <2> HIDE DEF full
    <2> QED  BY <2>2 DEF Handler
  <1>10. ASSUME NEW t \in Handler, NEW events, Told(t, events) \/ BeginTurn(t, events)
         PROVE  handler' \in Handler
    BY <1>10, SameTurn
  <1>11. handler' \in Handler
    <2>1. CASE m.type = "start"
      <3>1. Told(handler, <<"error">>) \/ Told(deaf, <<"listening">>)
        BY <2>1 DEF Handle
      <3> QED  BY <1>8, <1>10, <3>1
    <2>2. CASE m.type = "chunk"
      <3>1. Told(fuller, << >>)
        BY <2>2 DEF Handle
      <3> QED  BY <1>9, <1>10, <2>2, <3>1
    <2>3. CASE m.type = "audio_end"
      <3>1. Told(handler, <<"error">>) \/ Told(hearing, <<"transcribing">>)
        BY <2>3 DEF Handle
      <3> QED  BY <1>8, <1>10, <3>1
    <2>4. CASE m.type = "turn_end"
      <3>1. Told(handler, <<"error">>) \/ BeginTurn(Taken(handler), <<"responding">>)
        BY <2>4 DEF Handle
      <3> QED  BY <1>8, <1>10, <3>1
    <2>5. CASE m.type \in {"turn_cancel", "pause", "end"}
      <3>1. \E events : Told(Ears, events) \/ BeginTurn(Ears, events)
        BY <2>5 DEF Handle
      <3> QED  BY <1>8, <1>10, <3>1
    <2>6. CASE m.type \in {"resume", "text"}
      <3>1. \E events : Told(handler, events) \/ BeginTurn(handler, events)
        BY <2>6 DEF Handle
      <3> QED  BY <1>10, <3>1
    <2> QED  BY <1>2, <2>1, <2>2, <2>3, <2>4, <2>5, <2>6 DEF Request
  <1> QED  BY <1>4, <1>7, <1>11

LEMMA AnswersTyped ==
  ASSUME handler \in Handler, Transcribed \/ Reply
  PROVE  handler' \in Handler
  <1> DEFINE s == [handler EXCEPT !.at = "receive", !.input = << >>]
             all == handler.segments \o handler.input
             t == [handler EXCEPT !.at = "receive", !.input = << >>, !.segments = all]
  <1>1. all \in Seq(Segment) /\ << >> \in Seq(Segment)
    BY DEF Handler
  <1>2. s \in Handler /\ [handler EXCEPT !.busy = FALSE] \in Handler
    BY <1>1 DEF Handler
  <1>3. [s EXCEPT !.segments = @ \o handler.input] = t
    BY DEF Handler
  <1>4. handler' = s \/ handler' = t \/ handler' = [handler EXCEPT !.busy = FALSE]
    BY <1>3 DEF Transcribed, Reply, Told
  <1> HIDE DEF all
  <1>5. t \in Handler
    BY <1>1 DEF Handler
  <1> QED  BY <1>2, <1>4, <1>5

-----------------------------------------------------------------------------
(* The specification.                                                      *)

\* The types, and until two recorders overlap all the rest.
VoiceInv == VoiceTypeOK /\ (~counts.overlap => VoiceIInv)

LEMMA InitGood == VoiceInit => VoiceInv
  <1> SUFFICES ASSUME VoiceInit PROVE VoiceInv
    OBVIOUS
  <1>1. /\ page \in Page /\ page.out = << >> /\ page.connected /\ page.live = {}
        /\ page.stopping = << >> /\ page.flushing = << >> /\ ~page.ending /\ ~page.discard
        /\ page.held = {} /\ page.discarded = {} /\ ~page.cut
    <2>1. << >> \in Seq(Segment) /\ << >> \in Seq(Message)
      OBVIOUS
    <2> QED  BY <2>1 DEF VoiceInit, Page, Status, After
  <1>2. handler = NewHandler /\ spoken = << >> /\ spoken \in Seq(Segment)
    BY DEF VoiceInit
  <1>3. 0 \in 0..MaxSegments /\ 0 \in 0..MaxClicks /\ 0 \in 0..MaxLost
    BY VoiceAssumption
  <1>4. counts \in Counts /\ counts.segments = 0 /\ toPage \in Seq(Event)
    BY <1>3 DEF Counts, VoiceInit
  <1>5. /\ NewHandler.at = "receive" /\ NewHandler.segments = << >>
        /\ NewHandler.input = << >> /\ NewHandler.audio = << >>
    BY DEF NewHandler
  <1>6. PageInv(page, 0) /\ AtRest(page) /\ Unanswered(page) = {}
    BY <1>1, IdleRecordsNothing
    DEF PageInv, OneRecorder, StoppedWhy, HeldOn, AtRest, Unanswered
  <1>7. Offline(page, handler) /\ TurnEnds(page, handler) /\ NotSpoken(page, spoken)
    BY <1>1, <1>2, <1>5, <1>6 DEF Offline, TurnEnds, NotSpoken
  <1>8. Before(handler, spoken, 1)
    BY <1>2, <1>5, InEmpty DEF Before, Has
  <1>9. DOMAIN page.out = {}
    BY <1>1
  <1>10. OrderInv(page, handler, spoken, 0)
    BY <1>2, <1>5, <1>6, <1>8, <1>9, EmptyOrdered
    DEF OrderInv, OrderedHere, OrderedOnTheWay, OrderedAtThePage, AllBefore
  <1>11. Half(page, handler, spoken, 0)
    BY <1>1, <1>2, <1>3, <1>6, <1>7, <1>10, NewHandlerEmpty DEF Half, Typed
  <1>12. NothingArrives(page, handler)
    BY <1>1, <1>2, NewHandlerEmpty DEF NothingArrives, Arriving
  <1>13. Good(page, handler, spoken, 0)
    BY <1>11, <1>12, HalfAndEmptyIsGood
  <1>14. handler \in Handler
    BY <1>13 DEF Good, Typed
  <1> QED  BY <1>1, <1>2, <1>4, <1>13, <1>14 DEF VoiceInv, VoiceIInv, VoiceTypeOK

LEMMA EventsKept ==
  ASSUME NEW s, NEW events \in Seq(Event), toPage \in Seq(Event),
         Told(s, events) \/ BeginTurn(s, events)
  PROVE  toPage' \in Seq(Event)
  <1>1. <<"error">> \in Seq(Event) /\ events \o <<"error">> \in Seq(Event)
    BY DEF Event
  <1>2. ASSUME NEW told \in Seq(Event) PROVE toPage \o told \in Seq(Event)
    OBVIOUS
  <1>3. toPage' = toPage \o events \/ toPage' = toPage \o (events \o <<"error">>)
    BY DEF Told, BeginTurn
  <1> QED  BY <1>1, <1>2, <1>3

LEMMA HandleTypes ==
  ASSUME page \in Page, toPage \in Seq(Event), Handle
  PROVE  toPage' \in Seq(Event)
  <1> DEFINE m == Head(page.out)
             Tells(s, events) == Told(s, events) \/ BeginTurn(s, events)
  <1>1. m.type \in Request
    <2>1. m \in Message
      BY DEF Page, Handle
    <2> QED  BY <2>1, MessageKinds
  <1>2. /\ << >> \in Seq(Event) /\ <<"error">> \in Seq(Event) /\ <<"listening">> \in Seq(Event)
        /\ <<"transcribing">> \in Seq(Event) /\ <<"responding">> \in Seq(Event)
        /\ <<"ready_for_answer">> \in Seq(Event) /\ <<"paused">> \in Seq(Event)
    BY DEF Event, Status
  <1>3. \E s : \E events \in {<< >>, <<"error">>, <<"listening">>, <<"transcribing">>,
                              <<"responding">>, <<"ready_for_answer">>, <<"paused">>} :
          Tells(s, events)
    <2> HIDE DEF m
    <2>1. CASE m.type = "start"
      BY <2>1 DEF Handle, m
    <2>2. CASE m.type = "chunk"
      BY <2>2 DEF Handle, m
    <2>3. CASE m.type = "audio_end"
      BY <2>3 DEF Handle, m
    <2>4. CASE m.type = "turn_end"
      BY <2>4 DEF Handle, m
    <2>5. CASE m.type = "turn_cancel"
      BY <2>5 DEF Handle, m
    <2>6. CASE m.type = "pause"
      BY <2>6 DEF Handle, m
    <2>7. CASE m.type = "resume"
      BY <2>7 DEF Handle, m
    <2>8. CASE m.type = "end"
      BY <2>8 DEF Handle, m
    <2>9. CASE m.type = "text"
      BY <2>9 DEF Handle, m
    <2> QED  BY <1>1, <2>1, <2>2, <2>3, <2>4, <2>5, <2>6, <2>7, <2>8, <2>9 DEF Request
  <1> QED  BY <1>2, <1>3, EventsKept

LEMMA ServerTypes ==
  ASSUME toPage \in Seq(Event), Transcribed \/ Reply
  PROVE  toPage' \in Seq(Event)
  <1>1. /\ <<"ready_for_answer">> \in Seq(Event) /\ <<"error">> \in Seq(Event)
        /\ <<"delta", "replied">> \in Seq(Event) /\ <<"delta", "completed">> \in Seq(Event)
        /\ <<"delta", "error">> \in Seq(Event)
    BY DEF Event, Status
  <1>2. \E s : \E events \in {<<"ready_for_answer">>, <<"error">>, <<"delta", "replied">>,
                              <<"delta", "completed">>, <<"delta", "error">>} : Told(s, events)
    BY DEF Transcribed, Reply
  <1> QED  BY <1>1, <1>2, EventsKept

\* Segments are counted by StartSegment alone, and an overlap is remembered.
LEMMA CountsKept ==
  ASSUME VoiceTypeOK, VoiceNext
  PROVE  /\ counts' \in Counts
         /\ ~counts'.overlap => ~counts.overlap /\ (StartSegment => ~Unreported)
         /\ StartSegment => counts'.segments = counts.segments + 1
         /\ ~StartSegment => counts'.segments = counts.segments
  <1>1. /\ counts \in Counts /\ MaxSegments \in Nat /\ MaxClicks \in Nat /\ MaxLost \in Nat
    BY VoiceAssumption DEF VoiceTypeOK
  <1>2. CASE StartSegment
    <2>1. /\ counts' = [counts EXCEPT !.segments = counts.segments + 1,
                                      !.overlap = counts.overlap \/ Unreported]
          /\ counts.segments < MaxSegments
      BY <1>2 DEF StartSegment
    <2>2. (counts.overlap \/ Unreported) \in BOOLEAN
      BY DEF Unreported
    <2>3. counts.segments + 1 \in 0..MaxSegments
      BY <1>1, <2>1 DEF Counts
    <2>4. counts' \in Counts
      BY <1>1, <2>1, <2>2, <2>3 DEF Counts
    <2>5. counts'.overlap = (counts.overlap \/ Unreported)
      BY <1>1, <2>1 DEF Counts
    <2>6. counts'.segments = counts.segments + 1
      BY <1>1, <2>1 DEF Counts
    <2> QED  BY <1>2, <2>4, <2>5, <2>6
  <1>3. CASE ~StartSegment
    <2>1. \/ UNCHANGED counts
          \/ Click /\ counts' = [counts EXCEPT !.clicks = @ + 1]
          \/ counts.losses < MaxLost /\ counts' = [counts EXCEPT !.losses = @ + 1]
      BY <1>3
      DEF VoiceNext, PageOnly, Clicked, ResumeSpeech, StopSegment, HandOver, StopEvent,
          Flush, Toggle, Permission, Pause, Resume, End, Submit, Handle, Transcribed,
          Reply, HandleEvent, LoseConnection, Reconnect
    <2>2. counts.clicks + counts.losses < MaxClicks => counts.clicks + 1 \in 0..MaxClicks
      BY <1>1 DEF Counts
    <2>3. counts.losses < MaxLost => counts.losses + 1 \in 0..MaxLost
      BY <1>1 DEF Counts
    <2>4. /\ counts' \in Counts /\ counts'.segments = counts.segments
          /\ counts'.overlap = counts.overlap
      BY <1>1, <2>1, <2>2, <2>3 DEF Counts, Click
    <2> QED  BY <1>3, <2>4
  <1> QED  BY <1>2, <1>3

LEMMA StepTyped ==
  ASSUME VoiceTypeOK, VoiceNext
  PROVE  VoiceTypeOK'
  <1>1. /\ page \in Page /\ toPage \in Seq(Event) /\ handler \in Handler
        /\ spoken \in Seq(Segment) /\ counts \in Counts
    BY DEF VoiceTypeOK
  <1>2. ASSUME page' \in Page, toPage' \in Seq(Event), handler' \in Handler,
               spoken' \in Seq(Segment)
        PROVE  VoiceTypeOK'
    BY <1>2, CountsKept DEF VoiceTypeOK
  <1>3. CASE StartSegment
    BY <1>1, <1>2, <1>3, StartTyped DEF StartSegment
  <1>4. CASE ResumeSpeech \/ HandOver
    <2>1. [page EXCEPT !.handoff = FALSE] \in Page /\ SendTurn(page) \in Page
      BY <1>1, SendTurnTyped DEF Page
    <2> QED  BY <1>1, <1>2, <1>4, <2>1 DEF ResumeSpeech, HandOver, PageOnly
  <1>5. CASE StopSegment \/ StopEvent \/ Flush
    BY <1>1, <1>2, <1>5, StopSegmentTyped, StopEventTyped, FlushTyped
    DEF StopSegment, StopEvent, Flush, PageOnly
  <1>6. CASE Toggle \/ Permission \/ Pause \/ Resume \/ End \/ Submit
    BY <1>1, <1>2, <1>6, ButtonsTyped
    DEF Toggle, Permission, Pause, Resume, End, Submit, Clicked, PageOnly
  <1>7. CASE Handle
    BY <1>1, <1>2, <1>7, HandleTyped, HandleTypes
  <1>8. CASE Transcribed \/ Reply
    BY <1>1, <1>2, <1>8, AnswersTyped, ServerTypes DEF Transcribed, Reply
  <1>9. CASE HandleEvent
    <2>1. page' \in Page
      BY <1>1, <1>9, EventLabels DEF Page
    <2>2. toPage' = Tail(toPage) /\ toPage # << >>
      BY <1>9 DEF HandleEvent
    <2>3. toPage' \in Seq(Event)
      BY <1>1, <2>2
    <2>4. handler' = handler /\ spoken' = spoken
      BY <1>9 DEF HandleEvent
    <2> QED  BY <1>1, <1>2, <2>1, <2>3, <2>4
  <1>10. CASE LoseConnection
    <2>1. NewHandler \in Handler
      BY DEF NewHandler, Handler
    <2> QED  BY <1>1, <1>2, <1>10, <2>1, LossTyped DEF LoseConnection
  <1>11. CASE Reconnect
    BY <1>1, <1>2, <1>11, LossTyped DEF Reconnect, PageOnly
  <1> QED
    BY <1>3, <1>4, <1>5, <1>6, <1>7, <1>8, <1>9, <1>10, <1>11 DEF VoiceNext

\* One step before any two recorders overlap.
LEMMA StepGood ==
  ASSUME VoiceTypeOK, VoiceIInv, VoiceNext, ~counts'.overlap
  PROVE  VoiceIInv'
  <1> DEFINE n == counts.segments
  <1>1. Good(page, handler, spoken, n) /\ toPage \in Seq(Event) /\ page \in Page /\ n \in Nat
    BY DEF VoiceTypeOK, VoiceIInv, Good, Typed
  <1>2. CASE StartSegment
    <2>1. Good(page', handler, spoken, n + 1)
      BY <1>1, <1>2, StartGood, CountsKept
    <2>2. handler' = handler /\ spoken' = spoken /\ counts'.segments = n + 1
      BY <1>2, CountsKept DEF StartSegment
    <2> QED  BY <2>1, <2>2 DEF VoiceIInv
  <1>3. CASE ~StartSegment
    <2>1. counts'.segments = n
      BY <1>3, CountsKept
    <2>2. ASSUME Good(page', handler', spoken', n)
          PROVE  VoiceIInv'
      BY <2>1, <2>2 DEF VoiceIInv
    <2>3. ASSUME Good(page', handler, spoken, n), UNCHANGED <<handler, spoken>>
          PROVE  VoiceIInv'
      BY <2>2, <2>3
    <2>4. CASE ResumeSpeech
      BY <1>1, <2>3, <2>4, ResumeSpeechGood DEF ResumeSpeech, PageOnly
    <2>5. CASE StopSegment
      BY <1>1, <2>3, <2>5, StopSegmentGood DEF StopSegment, PageOnly
    <2>6. CASE HandOver
      BY <1>1, <2>3, <2>6, HandOverGood DEF HandOver, PageOnly
    <2>7. CASE StopEvent
      BY <1>1, <2>3, <2>7, StopEventGood DEF StopEvent, PageOnly
    <2>8. CASE Flush
      BY <1>1, <2>3, <2>8, FlushGood DEF Flush, PageOnly
    <2>9. CASE Permission
      BY <1>1, <2>3, <2>9, PermissionGood DEF Permission, PageOnly
    <2>10. CASE Reconnect
      BY <1>1, <2>3, <2>10, ReconnectGood DEF Reconnect, PageOnly
    <2>11. CASE Toggle
      BY <1>1, <2>3, <2>11, ToggleGood DEF Toggle, Clicked
    <2>12. CASE Pause
      BY <1>1, <2>3, <2>12, PauseGood DEF Pause, Clicked
    <2>13. CASE Resume
      BY <1>1, <2>3, <2>13, ResumeGood DEF Resume, Clicked
    <2>14. CASE End
      BY <1>1, <2>3, <2>14, EndGood DEF End, Clicked
    <2>15. CASE Submit
      BY <1>1, <2>3, <2>15, SubmitGood DEF Submit, Clicked
    <2>16. CASE HandleEvent
      BY <1>1, <2>3, <2>16, HandleEventGood DEF HandleEvent
    <2>17. CASE Handle
      BY <1>1, <2>2, <2>17, HandleGood
    <2>18. CASE Transcribed \/ Reply
      <3>1. Good(page, handler', spoken, n)
        BY <1>1, <2>18, TranscribedGood, ReplyGood
      <3>2. page' = page /\ spoken' = spoken
        BY <2>18 DEF Transcribed, Reply
      <3> QED  BY <2>2, <3>1, <3>2
    <2>19. CASE LoseConnection
      <3>1. Good(page', handler', spoken, n) /\ spoken' = spoken
        BY <1>1, <2>19, LoseGood DEF LoseConnection
      <3> QED  BY <2>2, <3>1
    <2> QED
      BY <1>3, <2>4, <2>5, <2>6, <2>7, <2>8, <2>9, <2>10, <2>11, <2>12, <2>13, <2>14, <2>15,
         <2>16, <2>17, <2>18, <2>19 DEF VoiceNext
  <1> QED  BY <1>2, <1>3

LEMMA StepInv ==
  ASSUME VoiceInv, VoiceNext
  PROVE  VoiceInv'
  <1>1. VoiceTypeOK /\ VoiceTypeOK'
    BY StepTyped DEF VoiceInv
  <1>2. ~counts'.overlap => VoiceIInv'
    BY <1>1, CountsKept, StepGood DEF VoiceInv
  <1> QED  BY <1>1, <1>2 DEF VoiceInv

LEMMA StutterGood ==
  ASSUME VoiceInv, UNCHANGED voiceVars
  PROVE  VoiceInv'
  <1>1. page' = page /\ handler' = handler /\ spoken' = spoken /\ counts' = counts
        /\ toPage' = toPage
    BY DEF voiceVars
  <1>2. counts'.segments = counts.segments /\ counts'.overlap = counts.overlap
    BY <1>1
  <1>3. ~counts'.overlap => VoiceIInv'
    BY <1>1, <1>2 DEF VoiceInv, VoiceIInv
  <1>4. VoiceTypeOK'
    BY <1>1 DEF VoiceInv, VoiceTypeOK
  <1> QED  BY <1>3, <1>4 DEF VoiceInv

LEMMA InvNotAnswered ==
  ASSUME VoiceInv
  PROVE  DiscardedIsNotAnswered
  <1>1. ~counts.overlap => NotSpoken(page, spoken)
    BY DEF VoiceInv, VoiceIInv, Good, TurnInv
  <1> QED
    BY <1>1 DEF NotSpoken, Unanswered, In, DiscardedIsNotAnswered, DiscardedIsNeverAnswered

LEMMA InvInOrder ==
  ASSUME VoiceInv
  PROVE  SpokenInOrder
  BY DEF VoiceInv, VoiceIInv, Good, OrderInv, OrderedHere, Increasing, SpokenInOrder

\* Types, and until two recorders overlap: the one recorder, what is held back and
\* what is discarded, and what is on the way are as the invariant says.
THEOREM VoiceInvariant == VoiceSpec => []VoiceInv
  <1>1. VoiceInv /\ [VoiceNext]_voiceVars => VoiceInv'
    BY StepInv, StutterGood
  <1> QED  BY <1>1, InitGood, PTL DEF VoiceSpec

\* Types of the page, the messages and events on the way and the handler, whatever
\* overlaps.
THEOREM VoiceTypes == VoiceSpec => []VoiceTypeOK
  <1>1. VoiceInv => VoiceTypeOK
    BY DEF VoiceInv
  <1> QED  BY <1>1, VoiceInvariant, PTL

\* Speech that was pending when the candidate turned voice off, paused or ended the
\* session never becomes part of an answer (cancelTurn and the stop handler), unless
\* a segment has started before the stop handler of a cancelled one had run.
THEOREM DiscardedNeverAnswered == VoiceSpec => []DiscardedIsNotAnswered
  <1>1. VoiceInv => DiscardedIsNotAnswered
    BY InvNotAnswered
  <1> QED  BY <1>1, VoiceInvariant, PTL

\* Segments are answered in the order in which they were spoken, and once
\* (startSegment, the two queues, and the voice turn of the server), with the same
\* exception.
THEOREM AnsweredInOrder == VoiceSpec => []SpokenInOrder
  <1>1. VoiceInv => SpokenInOrder
    BY InvInOrder
  <1> QED  BY <1>1, VoiceInvariant, PTL

=============================================================================
