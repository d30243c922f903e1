------------------------ MODULE ProcessStages_proofs ------------------------
(***************************************************************************)
(* Proofs about ProcessStages for any number of processes, stages,         *)
(* attempts and requests.                                                  *)
(***************************************************************************)
EXTENDS ProcessStages, TLAPS, WellFoundedInduction

-----------------------------------------------------------------------------
(* Maxima of bounded sets of naturals: attempt numbers and list indexes.   *)

\* A nonempty set of naturals with an upper bound has a greatest element.
LEMMA BoundedHasMax ==
  ASSUME NEW S \in SUBSET Nat, S # {},
         NEW N \in Nat, \A m \in S : m <= N
  PROVE  \E x \in S : \A y \in S : y <= x
<1> DEFINE U == {n \in Nat : \A m \in S : m <= n}
<1>1. U \subseteq Nat /\ U # {}
  OBVIOUS
<1>2. PICK x \in U : \A y \in U : <<y, x>> \notin OpToRel(<, Nat)
  BY <1>1, WFMin, NatLessThanWellFounded
<1>3. x \in Nat /\ \A m \in S : m <= x
  BY <1>2
<1>4. \A y \in U : ~(y < x)
  BY <1>1, <1>2 DEF OpToRel
<1>5. x \in S
  <2> SUFFICES ASSUME x \notin S PROVE FALSE
    OBVIOUS
  <2>1. \A m \in S : m < x
    BY <1>3
  <2>2. PICK m \in S : TRUE
    OBVIOUS
  <2>3. x - 1 \in Nat
    BY <2>1, <2>2, <1>3
  <2>4. \A k \in S : k <= x - 1
    <3> TAKE k \in S
    <3>1. k \in Nat /\ k < x
      BY <2>1
    <3> QED
      BY <3>1, <1>3
  <2>5. x - 1 \in U
    BY <2>3, <2>4
  <2> QED
    BY <2>5, <1>3, <1>4
<1> QED
  BY <1>3, <1>5

\* The number of a new attempt exceeds the number of every attempt of the stage.
LEMMA NextNumberIsNew ==
  ASSUME TypeOK, NEW s,
         NEW N \in Nat, \A a \in DOMAIN attempts : attempts[a].number <= N
  PROVE  /\ NextNumber(s) \in Nat \ {0}
         /\ NextNumber(s) <= N + 1
         /\ \A a \in AttemptsOf(s) : attempts[a].number < NextNumber(s)
<1> DEFINE S == {0} \cup {attempts[a].number : a \in AttemptsOf(s)}
<1>1. S \in SUBSET Nat /\ S # {} /\ \A m \in S : m <= N
  BY DEF TypeOK, AttemptRow, AttemptsOf
<1>2. \E x \in S : \A y \in S : y <= x
  BY <1>1, BoundedHasMax
<1>3. Max(S) \in S /\ \A y \in S : y <= Max(S)
  BY <1>1, <1>2 DEF Max
<1>4. NextNumber(s) = 1 + Max(S)
  BY DEF NextNumber
<1> HIDE DEF S
<1>5. Max(S) \in Nat /\ Max(S) <= N
  BY <1>1, <1>3
<1>6. \A a \in AttemptsOf(s) : attempts[a].number \in S
  BY DEF S
<1>7. \A a \in AttemptsOf(s) : attempts[a].number \in Nat /\ attempts[a].number <= Max(S)
  BY <1>1, <1>3, <1>6
<1>8. NextNumber(s) \in Nat \ {0} /\ NextNumber(s) <= N + 1
  BY <1>4, <1>5
<1>9. \A a \in AttemptsOf(s) : attempts[a].number < NextNumber(s)
  <2> HIDE DEF NextNumber
  <2> TAKE a \in AttemptsOf(s)
  <2> DEFINE n == attempts[a].number
            k == Max(S)
  <2>1. n \in Nat /\ k \in Nat /\ n <= k /\ NextNumber(s) = 1 + k
    BY <1>4, <1>5, <1>7
  <2> HIDE DEF n, k
  <2>2. n < NextNumber(s)
    BY <2>1
  <2> QED
    BY <2>2 DEF n
<1> QED
  BY <1>8, <1>9

\* The last entry for a listed stage is one of the list's entries for it.
LEMMA LastEntryExists ==
  ASSUME NEW list \in StageLists, NEW s \in Listed(list)
  PROVE  /\ LastEntry(list, s) \in DOMAIN list
         /\ list[LastEntry(list, s)].id = s
         /\ LastEntry(list, s) - 1 \in Nat
<1> DEFINE S == {i \in DOMAIN list : list[i].id = s}
<1>1. /\ list \in Seq(StageEntry)
      /\ Len(list) \in Nat
      /\ DOMAIN list = 1..Len(list)
  BY StageListsAssumption
<1>2. S \in SUBSET Nat /\ S # {} /\ \A m \in S : m <= Len(list)
  BY <1>1 DEF Listed
<1>3. \E x \in S : \A y \in S : y <= x
  BY <1>1, <1>2, BoundedHasMax
<1>4. \E i \in DOMAIN list : list[i].id = s
                             /\ \A j \in DOMAIN list : list[j].id = s => j <= i
  BY <1>3
<1> QED
  BY <1>1, <1>4 DEF LastEntry

\* The row written for a listed stage is well formed.
LEMMA FreshRowType ==
  ASSUME NEW list \in StageLists, NEW s \in Listed(list), NEW p \in ProcessId
  PROVE  /\ s \in StageId
         /\ FreshRow(p, list, s) \in StageRow
         /\ list[LastEntry(list, s)] \in StageEntry
<1>1. /\ LastEntry(list, s) \in DOMAIN list
      /\ list[LastEntry(list, s)].id = s
      /\ LastEntry(list, s) - 1 \in Nat
  BY LastEntryExists
<1>2. list \in Seq(StageEntry)
  BY StageListsAssumption
<1>3. list[LastEntry(list, s)] \in StageEntry
  BY <1>1, <1>2
<1> QED
  BY <1>1, <1>3 DEF FreshRow, StageRow, StageEntry, StageStatus

-----------------------------------------------------------------------------
(* Type correctness.  The number of a new attempt is a maximum, which exists *)
(* only because the numbers in use are bounded: that is part of the          *)
(* inductive invariant.                                                      *)

NumbersBounded == \E N \in Nat : \A a \in DOMAIN attempts : attempts[a].number <= N

LEMMA TypeInit == Init => TypeOK /\ NumbersBounded
  BY DEF Init, TypeOK, NumbersBounded, StageRow, AttemptRow, StartRequest

\* Writing the rows of a stage list keeps the stages table well formed.
LEMMA InsertedType ==
  ASSUME TypeOK, NEW p \in ProcessId, NEW list \in StageLists,
         NEW kept \in SUBSET DOMAIN stages,
         stages' = [s \in kept \cup Listed(list) |->
                      IF s \in Listed(list) THEN FreshRow(p, list, s) ELSE stages[s]]
  PROVE  /\ DOMAIN stages' \subseteq StageId
         /\ stages' \in [DOMAIN stages' -> StageRow]
<1>1. \A s \in Listed(list) : s \in StageId /\ FreshRow(p, list, s) \in StageRow
  BY FreshRowType
<1> QED
  BY <1>1 DEF TypeOK

\* The cascade of a replacement finds nothing: there are no attempts to lose.
LEMMA ReplaceKeepsAttempts ==
  ASSUME TypeOK, NEW p, NEW list, ReplaceStages(p, list)
  PROVE  attempts' = attempts
<1>1. {b \in DOMAIN attempts : attempts[b].stage \notin StagesOf(p)} = DOMAIN attempts
  BY DEF ReplaceStages, HasAttempts, AttemptsOf
<1> QED
  BY <1>1 DEF ReplaceStages, Surviving, TypeOK

LEMMA TypeStep ==
  ASSUME TypeOK, NumbersBounded, [Next]_vars
  PROVE  TypeOK' /\ NumbersBounded'
<1>1. ASSUME NEW p \in ProcessId, NEW list \in StageLists, CreateProcess(p, list)
      PROVE  TypeOK' /\ NumbersBounded'
  BY <1>1, InsertedType DEF CreateProcess, TypeOK, NumbersBounded
<1>2. ASSUME NEW p \in ProcessId, NEW list \in StageLists, ReplaceStages(p, list)
      PROVE  TypeOK' /\ NumbersBounded'
  <2>1. DOMAIN stages \ StagesOf(p) \in SUBSET DOMAIN stages
    OBVIOUS
  <2> QED
    BY <1>2, <2>1, InsertedType, ReplaceKeepsAttempts DEF ReplaceStages, TypeOK, NumbersBounded
<1>3. ASSUME NEW p \in ProcessId, NEW list \in StageLists, UpdateStages(p, list)
      PROVE  TypeOK' /\ NumbersBounded'
  <2>1. \A s \in StagesOf(p) :
          /\ LastEntry(list, s) - 1 \in Nat
          /\ list[LastEntry(list, s)] \in StageEntry
    BY <1>3, LastEntryExists, FreshRowType DEF UpdateStages
  <2>2. \A s \in StagesOf(p) : EditedRow(list, s) \in StageRow
    <3> TAKE s \in StagesOf(p)
    <3>1. stages[s] \in StageRow
      BY DEF StagesOf, TypeOK
    <3>2. \A e \in BOOLEAN : Toggled(stages[s].status, e) \in StageStatus
      BY <3>1 DEF Toggled, StageStatus, StageRow
    <3> QED
      BY <2>1, <3>1, <3>2 DEF EditedRow, StageRow, StageEntry
  <2>3. \A s \in DOMAIN stages : stages'[s] \in StageRow
    BY <1>3, <2>2 DEF UpdateStages, TypeOK
  <2> QED
    BY <1>3, <2>3 DEF UpdateStages, TypeOK, NumbersBounded
<1>4. ASSUME NEW p \in ProcessId, DeleteProcess(p)
      PROVE  TypeOK' /\ NumbersBounded'
  BY <1>4 DEF DeleteProcess, WithoutStages, Surviving, TypeOK, NumbersBounded
<1>5. ASSUME NEW p \in ProcessId, NEW r \in RequestId, NEW s \in StageId,
             StartAttempt(r, p, s)
      PROVE  TypeOK' /\ NumbersBounded'
  BY <1>5 DEF StartAttempt, StagesOf, TypeOK, StageRow, StartRequest, NumbersBounded
<1>6. ASSUME NEW r \in RequestId, CreateAttempt(r)
      PROVE  TypeOK' /\ NumbersBounded'
  <2> DEFINE req == starting[r]
  <2>1. req \in StartRequest
    BY <1>6 DEF CreateAttempt, TypeOK
  <2>2. CASE ~Startable(req.process, req.stage)
    BY <1>6, <2>2 DEF CreateAttempt, TypeOK, NumbersBounded
  <2>3. CASE Startable(req.process, req.stage)
    <3>1. PICK a \in AttemptId \ spent :
            /\ spent' = spent \cup {a}
            /\ attempts' = [b \in DOMAIN attempts \cup {a} |->
                  IF b = a
                  THEN [stage |-> req.stage, number |-> NextNumber(req.stage),
                        status |-> "ready", type |-> req.type]
                  ELSE attempts[b]]
            /\ stages' = [stages EXCEPT ![req.stage].status =
                  IF @ \in {"not_started", "skipped"} THEN "in_progress" ELSE @]
      BY <1>6, <2>3 DEF CreateAttempt
    <3>2. PICK N \in Nat : \A b \in DOMAIN attempts : attempts[b].number <= N
      BY DEF NumbersBounded
    <3>3. /\ NextNumber(req.stage) \in Nat \ {0}
          /\ NextNumber(req.stage) <= N + 1
      BY <3>2, NextNumberIsNew
    <3>4. DOMAIN attempts' = DOMAIN attempts \cup {a}
      BY <3>1
    <3>5. attempts'[a] \in AttemptRow /\ attempts'[a].number <= N + 1
      BY <3>1, <3>3, <2>1 DEF AttemptRow, StartRequest, AttemptStatus
    <3>6. \A b \in DOMAIN attempts : a # b /\ attempts'[b] = attempts[b]
      BY <3>1 DEF TypeOK
    <3>7. \A b \in DOMAIN attempts' :
            attempts'[b] \in AttemptRow /\ attempts'[b].number <= N + 1
      BY <3>2, <3>4, <3>5, <3>6 DEF TypeOK, AttemptRow
    <3>8. NumbersBounded'
      BY <3>2, <3>7 DEF NumbersBounded
    <3>9. DOMAIN stages' = DOMAIN stages /\ stages' \in [DOMAIN stages -> StageRow]
      BY <3>1, <2>3 DEF Startable, StagesOf, TypeOK, StageRow, StageStatus
    <3>10. attempts' \in [DOMAIN attempts' -> AttemptRow]
      BY <3>1, <3>7
    <3> QED
      BY <1>6, <3>1, <3>4, <3>8, <3>9, <3>10 DEF CreateAttempt, TypeOK
  <2> QED
    BY <2>2, <2>3
<1>7. ASSUME NEW a \in AttemptId, MarkStarted(a)
      PROVE  TypeOK' /\ NumbersBounded'
  BY <1>7 DEF MarkStarted, TypeOK, AttemptRow, AttemptStatus, NumbersBounded
<1>8. ASSUME NEW a \in AttemptId, MarkPaused(a)
      PROVE  TypeOK' /\ NumbersBounded'
  BY <1>8 DEF MarkPaused, TypeOK, AttemptRow, AttemptStatus, NumbersBounded
<1>9. ASSUME NEW a \in AttemptId, MarkEnded(a)
      PROVE  TypeOK' /\ NumbersBounded'
  <2>1. stages' \in [DOMAIN stages -> StageRow]
    BY <1>9 DEF MarkEnded, TypeOK, StageRow, StageStatus
  <2>2. attempts' \in [DOMAIN attempts -> AttemptRow]
    BY <1>9 DEF MarkEnded, TypeOK, AttemptRow, AttemptStatus
  <2>3. NumbersBounded'
    BY <1>9 DEF MarkEnded, TypeOK, AttemptRow, NumbersBounded
  <2> QED
    BY <1>9, <2>1, <2>2, <2>3 DEF MarkEnded, TypeOK
<1>10. ASSUME NEW a \in AttemptId, DeleteAttempt(a)
       PROVE  TypeOK' /\ NumbersBounded'
  <2>1. Recalculated(attempts[a].stage, AttemptsOf(attempts[a].stage) \ {a}) \in StageStatus
    BY DEF Recalculated, StageStatus
  <2>2. stages' \in [DOMAIN stages -> StageRow]
    BY <1>10, <2>1 DEF DeleteAttempt, TypeOK, StageRow
  <2> QED
    BY <1>10, <2>2 DEF DeleteAttempt, TypeOK, NumbersBounded
<1>11. CASE UNCHANGED vars
  BY <1>11 DEF vars, TypeOK, NumbersBounded
<1> QED
  BY <1>1, <1>2, <1>3, <1>4, <1>5, <1>6, <1>7, <1>8, <1>9, <1>10, <1>11
     DEF Next, ProcessNext, AttemptNext

\* The tables always hold well-formed rows (TypeOK), whatever the operations
\* and however many rows there are.
THEOREM TypeCorrect == Spec => []TypeOK
<1>1. TypeOK /\ NumbersBounded /\ [Next]_vars => (TypeOK /\ NumbersBounded)'
  BY TypeStep
<1> QED
  BY TypeInit, <1>1, PTL DEF Spec

-----------------------------------------------------------------------------
(* The safety invariants, each inductive together with type correctness.   *)

\* After a stage list is written, each listed stage is one of p's rows, with the
\* status its flag gives it.
LEMMA InsertedRows ==
  ASSUME NEW p, NEW list \in StageLists, NEW s \in Listed(list)
  PROVE  /\ FreshRow(p, list, s).process = p
         /\ FreshRow(p, list, s).enabled \in BOOLEAN
         /\ FreshRow(p, list, s).enabled => FreshRow(p, list, s).status = "not_started"
         /\ ~FreshRow(p, list, s).enabled => FreshRow(p, list, s).status = "skipped"
<1>1. list[LastEntry(list, s)] \in StageEntry
  <2>1. LastEntry(list, s) \in DOMAIN list /\ list \in Seq(StageEntry)
    BY LastEntryExists, StageListsAssumption
  <2> QED
    BY <2>1
<1> QED
  BY <1>1 DEF FreshRow, StageEntry

\* What inserting an attempt does to the tables, row by row.
LEMMA CreatedAttempt ==
  ASSUME TypeOK, NEW r \in RequestId, CreateAttempt(r),
         Startable(starting[r].process, starting[r].stage)
  PROVE  \E a \in AttemptId \ spent :
           /\ a \notin DOMAIN attempts
           /\ DOMAIN attempts' = DOMAIN attempts \cup {a}
           /\ attempts'[a].stage = starting[r].stage
           /\ attempts'[a].number = NextNumber(starting[r].stage)
           /\ attempts'[a].status = "ready"
           /\ \A b \in DOMAIN attempts : attempts'[b] = attempts[b]
           /\ DOMAIN stages' = DOMAIN stages
           /\ \A s \in DOMAIN stages :
                /\ stages'[s].process = stages[s].process
                /\ stages'[s].position = stages[s].position
                /\ stages'[s].enabled = stages[s].enabled
                /\ s # starting[r].stage => stages'[s].status = stages[s].status
                /\ s = starting[r].stage =>
                     stages'[s].status =
                       IF stages[s].status \in {"not_started", "skipped"}
                       THEN "in_progress" ELSE stages[s].status
<1> DEFINE st == starting[r].stage
<1>1. PICK a \in AttemptId \ spent :
        /\ attempts' = [b \in DOMAIN attempts \cup {a} |->
              IF b = a
              THEN [stage |-> st, number |-> NextNumber(st),
                    status |-> "ready", type |-> starting[r].type]
              ELSE attempts[b]]
        /\ stages' = [stages EXCEPT ![st].status =
              IF @ \in {"not_started", "skipped"} THEN "in_progress" ELSE @]
  BY DEF CreateAttempt
<1>2. a \notin DOMAIN attempts
  BY DEF TypeOK
<1>3. DOMAIN attempts' = DOMAIN attempts \cup {a}
  BY <1>1
<1>4. \A b \in DOMAIN attempts : attempts'[b] = attempts[b]
  BY <1>1, <1>2
<1>5. attempts'[a] = [stage |-> st, number |-> NextNumber(st),
                      status |-> "ready", type |-> starting[r].type]
  BY <1>1
<1>6. st \in DOMAIN stages
  BY DEF Startable, StagesOf
<1>7. \A s \in DOMAIN stages : s # st => stages'[s] = stages[s]
  BY <1>1
<1>8. /\ DOMAIN stages' = DOMAIN stages
      /\ stages'[st] = [stages[st] EXCEPT !.status =
            IF @ \in {"not_started", "skipped"} THEN "in_progress" ELSE @]
  BY <1>1, <1>6
<1>9. stages[st] \in StageRow
  BY <1>6 DEF TypeOK
<1>10. /\ stages'[st].process = stages[st].process
       /\ stages'[st].position = stages[st].position
       /\ stages'[st].enabled = stages[st].enabled
       /\ stages'[st].status = IF stages[st].status \in {"not_started", "skipped"}
                               THEN "in_progress" ELSE stages[st].status
  BY <1>8, <1>9 DEF StageRow
<1>11. \A s \in DOMAIN stages :
          /\ stages'[s].process = stages[s].process
          /\ stages'[s].position = stages[s].position
          /\ stages'[s].enabled = stages[s].enabled
          /\ s # starting[r].stage => stages'[s].status = stages[s].status
          /\ s = starting[r].stage =>
               stages'[s].status =
                 IF stages[s].status \in {"not_started", "skipped"}
                 THEN "in_progress" ELSE stages[s].status
  BY <1>7, <1>10
<1>12. /\ attempts'[a].stage = starting[r].stage
       /\ attempts'[a].number = NextNumber(starting[r].stage)
       /\ attempts'[a].status = "ready"
  BY <1>5
<1> QED
  BY <1>2, <1>3, <1>4, <1>8, <1>11, <1>12

LEMMA ReferencesStep ==
  ASSUME TypeOK, References, [Next]_vars
  PROVE  References'
<1>1. ASSUME NEW p \in ProcessId, NEW list \in StageLists, CreateProcess(p, list)
      PROVE  References'
  BY <1>1, InsertedRows DEF CreateProcess, References, TypeOK
<1>2. ASSUME NEW p \in ProcessId, NEW list \in StageLists, ReplaceStages(p, list)
      PROVE  References'
  BY <1>2, InsertedRows, ReplaceKeepsAttempts
     DEF ReplaceStages, HasAttempts, AttemptsOf, References, TypeOK
<1>3. ASSUME NEW p \in ProcessId, NEW list \in StageLists, UpdateStages(p, list)
      PROVE  References'
  <2>1. \A s \in DOMAIN stages : stages'[s].process = stages[s].process
    BY <1>3 DEF UpdateStages, EditedRow, TypeOK, StageRow
  <2> QED
    BY <1>3, <2>1 DEF UpdateStages, References
<1>4. ASSUME NEW p \in ProcessId, DeleteProcess(p)
      PROVE  References'
  BY <1>4 DEF DeleteProcess, WithoutStages, Surviving, StagesOf, References, TypeOK
<1>5. ASSUME NEW r \in RequestId, CreateAttempt(r)
      PROVE  References'
  <2>1. CASE Startable(starting[r].process, starting[r].stage)
    <3>1. PICK a \in AttemptId \ spent :
            /\ DOMAIN attempts' = DOMAIN attempts \cup {a}
            /\ attempts'[a].stage = starting[r].stage
            /\ \A b \in DOMAIN attempts : attempts'[b] = attempts[b]
            /\ DOMAIN stages' = DOMAIN stages
            /\ \A s \in DOMAIN stages : stages'[s].process = stages[s].process
      BY <1>5, <2>1, CreatedAttempt
    <3> QED
      BY <1>5, <2>1, <3>1 DEF CreateAttempt, References, Startable, StagesOf
  <2>2. CASE ~Startable(starting[r].process, starting[r].stage)
    BY <1>5, <2>2 DEF CreateAttempt, References
  <2> QED
    BY <2>1, <2>2
<1>6. ASSUME NEW a \in AttemptId, MarkEnded(a)
      PROVE  References'
  <2>1. /\ DOMAIN stages' = DOMAIN stages
        /\ \A s \in DOMAIN stages : stages'[s].process = stages[s].process
    BY <1>6 DEF MarkEnded, TypeOK, StageRow
  <2>2. /\ DOMAIN attempts' = DOMAIN attempts
        /\ \A b \in DOMAIN attempts : attempts'[b].stage = attempts[b].stage
    BY <1>6 DEF MarkEnded, TypeOK, AttemptRow
  <2> QED
    BY <1>6, <2>1, <2>2 DEF MarkEnded, References
<1>7. ASSUME NEW a \in AttemptId, MarkStarted(a) \/ MarkPaused(a)
      PROVE  References'
  BY <1>7 DEF MarkStarted, MarkPaused, References, TypeOK, AttemptRow
<1>8. ASSUME NEW a \in AttemptId, DeleteAttempt(a)
      PROVE  References'
  <2>1. /\ DOMAIN stages' = DOMAIN stages
        /\ \A s \in DOMAIN stages : stages'[s].process = stages[s].process
    BY <1>8 DEF DeleteAttempt, TypeOK, StageRow
  <2> QED
    BY <1>8, <2>1 DEF DeleteAttempt, References
<1>9. CASE UNCHANGED vars \/ \E p \in ProcessId, r \in RequestId, s \in StageId :
                               StartAttempt(r, p, s)
  BY <1>9 DEF vars, StartAttempt, References
<1> QED
  BY <1>1, <1>2, <1>3, <1>4, <1>5, <1>6, <1>7, <1>8, <1>9
     DEF Next, ProcessNext, AttemptNext

\* A stage whose row and attempts a step leaves alone keeps its summary.
LEMMA SummaryFrame ==
  ASSUME NEW s, Summarised(s),
         stages'[s].status = stages[s].status,
         stages'[s].enabled = stages[s].enabled,
         AttemptsOf(s)' = AttemptsOf(s),
         \A a \in AttemptsOf(s) :
            attempts'[a].status = "completed" <=> attempts[a].status = "completed"
  PROVE  Summarised(s)'
  BY DEF Summarised

LEMMA SummaryStep ==
  ASSUME TypeOK, References, StageStatusSummarises, [Next]_vars
  PROVE  StageStatusSummarises'
<1> SUFFICES ASSUME NEW s \in DOMAIN stages'
             PROVE  Summarised(s)'
  BY DEF StageStatusSummarises
<1>0. \A t \in DOMAIN stages : Summarised(t)
  BY DEF StageStatusSummarises
<1>1. ASSUME NEW p \in ProcessId, NEW list \in StageLists,
             CreateProcess(p, list) \/ ReplaceStages(p, list)
      PROVE  Summarised(s)'
  <2>0. attempts' = attempts
    BY <1>1, ReplaceKeepsAttempts DEF CreateProcess
  <2>1. AttemptsOf(s)' = AttemptsOf(s)
    BY <2>0 DEF AttemptsOf
  <2>2. CASE s \in Listed(list)
    <3>1. AttemptsOf(s) = {}
      BY <1>1, <2>2 DEF CreateProcess, ReplaceStages, Insertable, References,
                        AttemptsOf, HasAttempts
    <3>2. stages'[s] = FreshRow(p, list, s)
      BY <1>1, <2>2 DEF CreateProcess, ReplaceStages
    <3> QED
      BY <2>1, <2>2, <3>1, <3>2, InsertedRows DEF Summarised
  <2>3. CASE s \notin Listed(list)
    <3>1. s \in DOMAIN stages /\ stages'[s] = stages[s] /\ attempts' = attempts
      BY <1>1, <2>0, <2>3 DEF CreateProcess, ReplaceStages
    <3> QED
      BY <1>0, <2>1, <3>1, SummaryFrame
  <2> QED
    BY <2>2, <2>3
<1>2. ASSUME NEW p \in ProcessId, NEW list \in StageLists, UpdateStages(p, list)
      PROVE  Summarised(s)'
  <2>1. s \in DOMAIN stages /\ attempts' = attempts /\ AttemptsOf(s)' = AttemptsOf(s)
    BY <1>2 DEF UpdateStages, AttemptsOf
  <2>2. CASE s \notin StagesOf(p)
    <3>1. stages'[s] = stages[s]
      BY <1>2, <2>1, <2>2 DEF UpdateStages
    <3> QED
      BY <1>0, <2>1, <3>1, SummaryFrame
  <2>3. CASE s \in StagesOf(p)
    <3> DEFINE e == list[LastEntry(list, s)].enabled
    <3>1. stages'[s] = EditedRow(list, s)
      BY <1>2, <2>1, <2>3 DEF UpdateStages
    <3>2. stages[s] \in StageRow /\ e \in BOOLEAN
      BY <1>2, <2>1, <2>3, FreshRowType DEF UpdateStages, TypeOK, StageEntry
    <3>3. stages'[s].enabled = e /\ stages'[s].status = Toggled(stages[s].status, e)
      BY <3>1, <3>2 DEF EditedRow, StageRow
    <3>4. Summarised(s)
      BY <1>0, <2>1
    <3> HIDE DEF e
    <3>5. CASE stages[s].status \in {"completed", "in_progress"}
      <4>1. stages'[s].status = stages[s].status
        BY <3>3, <3>5, <3>2 DEF Toggled
      <4> QED
        BY <2>1, <3>3, <3>4, <3>5, <4>1 DEF Summarised
    <3>6. CASE stages[s].status \in {"not_started", "skipped"}
      <4>1. stages'[s].status = IF e THEN "not_started" ELSE "skipped"
        BY <3>3, <3>6, <3>2 DEF Toggled
      <4> QED
        BY <2>1, <3>2, <3>3, <3>4, <3>6, <4>1 DEF Summarised
    <3> QED
      BY <3>2, <3>5, <3>6 DEF StageRow, StageStatus
  <2> QED
    BY <2>2, <2>3
<1>3. ASSUME NEW p \in ProcessId, DeleteProcess(p)
      PROVE  Summarised(s)'
  <2>1. /\ s \in DOMAIN stages /\ stages'[s] = stages[s]
        /\ AttemptsOf(s)' = AttemptsOf(s)
        /\ \A a \in AttemptsOf(s) : attempts'[a] = attempts[a]
    BY <1>3 DEF DeleteProcess, WithoutStages, Surviving, StagesOf, AttemptsOf
  <2> QED
    BY <1>0, <2>1, SummaryFrame
<1>4. ASSUME NEW r \in RequestId, CreateAttempt(r)
      PROVE  Summarised(s)'
  <2> DEFINE st == starting[r].stage
  <2>1. CASE ~Startable(starting[r].process, st)
    <3>1. stages' = stages /\ attempts' = attempts
      BY <1>4, <2>1 DEF CreateAttempt
    <3>2. AttemptsOf(s)' = AttemptsOf(s)
      BY <3>1 DEF AttemptsOf
    <3> QED
      BY <1>0, <3>1, <3>2, SummaryFrame
  <2>2. CASE Startable(starting[r].process, st)
    <3>1. PICK a \in AttemptId \ spent :
            /\ a \notin DOMAIN attempts
            /\ DOMAIN attempts' = DOMAIN attempts \cup {a}
            /\ attempts'[a].stage = st
            /\ attempts'[a].status = "ready"
            /\ \A b \in DOMAIN attempts : attempts'[b] = attempts[b]
            /\ DOMAIN stages' = DOMAIN stages
            /\ \A t \in DOMAIN stages :
                /\ stages'[t].enabled = stages[t].enabled
                /\ t # st => stages'[t].status = stages[t].status
                /\ t = st => stages'[t].status =
                               IF stages[t].status \in {"not_started", "skipped"}
                               THEN "in_progress" ELSE stages[t].status
      BY <1>4, <2>2, CreatedAttempt
    <3>2. CASE s # st
      <4>1. AttemptsOf(s)' = AttemptsOf(s)
        BY <3>1, <3>2 DEF AttemptsOf
      <4>2. \A b \in AttemptsOf(s) : attempts'[b] = attempts[b]
        BY <3>1 DEF AttemptsOf
      <4> QED
        BY <1>0, <3>1, <3>2, <4>1, <4>2, SummaryFrame
    <3>3. CASE s = st
      <4>1. AttemptsOf(s)' = AttemptsOf(s) \cup {a}
        BY <3>1, <3>3 DEF AttemptsOf
      <4>2. \A b \in AttemptsOf(s) : attempts'[b] = attempts[b]
        BY <3>1 DEF AttemptsOf
      <4>3. Summarised(s) /\ s \in DOMAIN stages /\ stages[s].status \in StageStatus
        BY <1>0, <3>1 DEF TypeOK, StageRow
      <4> HIDE DEF st
      <4>4. \/ stages[s].status = "completed" /\ stages'[s].status = "completed"
               /\ \E b \in AttemptsOf(s) : attempts[b].status = "completed"
            \/ /\ stages[s].status # "completed" /\ stages'[s].status = "in_progress"
               /\ \A b \in AttemptsOf(s) : attempts[b].status # "completed"
        BY <3>1, <3>3, <4>3 DEF Summarised, StageStatus
      <4> QED
        BY <3>1, <4>1, <4>2, <4>4 DEF Summarised
    <3> QED
      BY <3>2, <3>3
  <2> QED
    BY <2>1, <2>2
<1>5. ASSUME NEW a \in AttemptId, MarkStarted(a) \/ MarkPaused(a)
      PROVE  Summarised(s)'
  <2>1. stages' = stages /\ AttemptsOf(s)' = AttemptsOf(s)
    BY <1>5 DEF MarkStarted, MarkPaused, AttemptsOf, TypeOK, AttemptRow
  <2>2. \A b \in AttemptsOf(s) :
          attempts'[b].status = "completed" <=> attempts[b].status = "completed"
    BY <1>5 DEF MarkStarted, MarkPaused, AttemptsOf, TypeOK, AttemptRow
  <2> QED
    BY <1>0, <2>1, <2>2, SummaryFrame
<1>6. ASSUME NEW a \in AttemptId, MarkEnded(a)
      PROVE  Summarised(s)'
  <2>1. /\ DOMAIN stages' = DOMAIN stages
        /\ stages'[s].enabled = stages[s].enabled
        /\ stages'[s].status = IF s = attempts[a].stage THEN "completed"
                               ELSE stages[s].status
    BY <1>6 DEF MarkEnded, TypeOK, StageRow
  <2>2. /\ AttemptsOf(s)' = AttemptsOf(s)
        /\ a \in DOMAIN attempts /\ attempts'[a].status = "completed"
        /\ \A b \in AttemptsOf(s) \ {a} : attempts'[b] = attempts[b]
    BY <1>6 DEF MarkEnded, AttemptsOf, TypeOK, AttemptRow
  <2>3. CASE s = attempts[a].stage
    <3>1. a \in AttemptsOf(s)
      BY <2>2, <2>3 DEF AttemptsOf
    <3> QED
      BY <2>1, <2>2, <2>3, <3>1 DEF Summarised
  <2>4. CASE s # attempts[a].stage
    <3>1. a \notin AttemptsOf(s)
      BY <2>4 DEF AttemptsOf
    <3> QED
      BY <1>0, <2>1, <2>2, <2>4, <3>1, SummaryFrame
  <2> QED
    BY <2>3, <2>4
<1>7. ASSUME NEW a \in AttemptId, DeleteAttempt(a)
      PROVE  Summarised(s)'
  <2> DEFINE t == attempts[a].stage
  <2>1. /\ DOMAIN stages' = DOMAIN stages
        /\ stages[s].enabled \in BOOLEAN
        /\ stages'[s].enabled = stages[s].enabled
        /\ stages'[s].status = IF s = t THEN Recalculated(t, AttemptsOf(t) \ {a})
                               ELSE stages[s].status
    BY <1>7 DEF DeleteAttempt, TypeOK, StageRow
  <2>2. /\ AttemptsOf(s)' = AttemptsOf(s) \ {a}
        /\ \A b \in AttemptsOf(s) \ {a} : attempts'[b] = attempts[b]
    BY <1>7 DEF DeleteAttempt, AttemptsOf
  <2>3. CASE s = t
    BY <2>1, <2>2, <2>3 DEF Summarised, Recalculated
  <2>4. CASE s # t
    <3>1. AttemptsOf(s)' = AttemptsOf(s)
      BY <2>2, <2>4 DEF AttemptsOf
    <3> QED
      BY <1>0, <2>1, <2>2, <2>4, <3>1, SummaryFrame
  <2> QED
    BY <2>3, <2>4
<1>8. CASE UNCHANGED vars \/ \E p \in ProcessId, r \in RequestId, t \in StageId :
                               StartAttempt(r, p, t)
  <2>1. stages' = stages /\ attempts' = attempts /\ AttemptsOf(s)' = AttemptsOf(s)
    BY <1>8 DEF vars, StartAttempt, AttemptsOf
  <2> QED
    BY <1>0, <2>1, SummaryFrame
<1> QED
  BY <1>1, <1>2, <1>3, <1>4, <1>5, <1>6, <1>7, <1>8
     DEF Next, ProcessNext, AttemptNext

\* Distinct stages take distinct entries of a list, hence distinct positions.
LEMMA EntriesDistinct ==
  ASSUME NEW list \in StageLists, NEW s \in Listed(list), NEW t \in Listed(list), s # t
  PROVE  LastEntry(list, s) - 1 # LastEntry(list, t) - 1
<1>1. /\ list[LastEntry(list, s)].id = s /\ list[LastEntry(list, t)].id = t
      /\ LastEntry(list, s) - 1 \in Nat /\ LastEntry(list, t) - 1 \in Nat
      /\ LastEntry(list, s) \in DOMAIN list /\ LastEntry(list, t) \in DOMAIN list
  BY LastEntryExists
<1>2. LastEntry(list, s) \in Int /\ LastEntry(list, t) \in Int
  BY <1>1, StageListsAssumption
<1> QED
  BY <1>1, <1>2

\* Steps that leave every surviving stage's process and position alone.
LEMMA PositionsFrame ==
  ASSUME PositionsDistinct, DOMAIN stages' \subseteq DOMAIN stages,
         \A s \in DOMAIN stages' : /\ stages'[s].process = stages[s].process
                                  /\ stages'[s].position = stages[s].position
  PROVE  PositionsDistinct'
  BY DEF PositionsDistinct

LEMMA PositionsStep ==
  ASSUME TypeOK, References, PositionsDistinct, [Next]_vars
  PROVE  PositionsDistinct'
<1>1. ASSUME NEW p \in ProcessId, NEW list \in StageLists,
             CreateProcess(p, list) \/ ReplaceStages(p, list)
      PROVE  PositionsDistinct'
  <2> SUFFICES ASSUME NEW s \in DOMAIN stages', NEW t \in DOMAIN stages', s # t,
                      stages'[s].process = stages'[t].process
               PROVE  stages'[s].position # stages'[t].position
    BY DEF PositionsDistinct
  <2>1. \A u \in DOMAIN stages' :
          \/ u \in Listed(list) /\ stages'[u] = FreshRow(p, list, u)
          \/ u \in DOMAIN stages /\ stages'[u] = stages[u] /\ stages[u].process # p
    BY <1>1 DEF CreateProcess, ReplaceStages, StagesOf, References
  <2>2. \A u \in Listed(list) :
          /\ FreshRow(p, list, u).process = p
          /\ FreshRow(p, list, u).position = LastEntry(list, u) - 1
    BY DEF FreshRow
  <2> QED
    BY <2>1, <2>2, EntriesDistinct DEF PositionsDistinct
<1>2. ASSUME NEW p \in ProcessId, NEW list \in StageLists, UpdateStages(p, list)
      PROVE  PositionsDistinct'
  <2> SUFFICES ASSUME NEW s \in DOMAIN stages, NEW t \in DOMAIN stages, s # t,
                      stages'[s].process = stages'[t].process
               PROVE  stages'[s].position # stages'[t].position
    BY <1>2 DEF PositionsDistinct, UpdateStages
  <2>1. \A u \in DOMAIN stages :
          /\ stages'[u].process = stages[u].process
          /\ stages[u].process = p =>
                u \in Listed(list) /\ stages'[u].position = LastEntry(list, u) - 1
          /\ stages[u].process # p => stages'[u] = stages[u]
    BY <1>2 DEF UpdateStages, EditedRow, StagesOf, TypeOK, StageRow
  <2> QED
    BY <2>1, EntriesDistinct DEF PositionsDistinct
<1>3. ASSUME NEW p \in ProcessId, DeleteProcess(p)
      PROVE  PositionsDistinct'
  BY <1>3, PositionsFrame DEF DeleteProcess, WithoutStages, Surviving
<1>4. ASSUME NEW r \in RequestId, CreateAttempt(r)
      PROVE  PositionsDistinct'
  <2>1. CASE Startable(starting[r].process, starting[r].stage)
    BY <1>4, <2>1, CreatedAttempt, PositionsFrame
  <2>2. CASE ~Startable(starting[r].process, starting[r].stage)
    BY <1>4, <2>2, PositionsFrame DEF CreateAttempt
  <2> QED
    BY <2>1, <2>2
<1>5. ASSUME NEW a \in AttemptId, MarkEnded(a) \/ DeleteAttempt(a)
      PROVE  PositionsDistinct'
  BY <1>5, PositionsFrame DEF MarkEnded, DeleteAttempt, TypeOK, StageRow
<1>6. CASE \/ UNCHANGED vars
           \/ \E p \in ProcessId, r \in RequestId, s \in StageId : StartAttempt(r, p, s)
           \/ \E a \in AttemptId : MarkStarted(a) \/ MarkPaused(a)
  BY <1>6, PositionsFrame DEF vars, StartAttempt, MarkStarted, MarkPaused
<1> QED
  BY <1>1, <1>2, <1>3, <1>4, <1>5, <1>6 DEF Next, ProcessNext, AttemptNext

\* Steps that create no attempt and leave the surviving ones' stage and number.
LEMMA NumbersFrame ==
  ASSUME NumbersDistinct, DOMAIN attempts' \subseteq DOMAIN attempts,
         \A a \in DOMAIN attempts' : /\ attempts'[a].stage = attempts[a].stage
                                    /\ attempts'[a].number = attempts[a].number
  PROVE  NumbersDistinct'
  BY DEF NumbersDistinct

LEMMA NumbersStep ==
  ASSUME TypeOK, NumbersBounded, NumbersDistinct, [Next]_vars
  PROVE  NumbersDistinct'
<1>1. ASSUME NEW r \in RequestId, CreateAttempt(r)
      PROVE  NumbersDistinct'
  <2> DEFINE st == starting[r].stage
  <2>1. CASE ~Startable(starting[r].process, st)
    BY <1>1, <2>1, NumbersFrame DEF CreateAttempt
  <2>2. CASE Startable(starting[r].process, st)
    <3>1. PICK a \in AttemptId \ spent :
            /\ a \notin DOMAIN attempts
            /\ DOMAIN attempts' = DOMAIN attempts \cup {a}
            /\ attempts'[a].stage = st
            /\ attempts'[a].number = NextNumber(st)
            /\ \A b \in DOMAIN attempts : attempts'[b] = attempts[b]
      BY <1>1, <2>2, CreatedAttempt
    <3>2. NextNumber(st) \in Nat /\ \A b \in AttemptsOf(st) : attempts[b].number < NextNumber(st)
      BY NextNumberIsNew DEF NumbersBounded
    <3>3. \A b \in DOMAIN attempts :
            attempts[b].stage = st => attempts[b].number # NextNumber(st)
      BY <3>2 DEF AttemptsOf, TypeOK, AttemptRow
    <3> HIDE DEF st
    <3> QED
      BY <3>1, <3>3 DEF NumbersDistinct
  <2> QED
    BY <2>1, <2>2
<1>2. ASSUME NEW p \in ProcessId, DeleteProcess(p)
      PROVE  NumbersDistinct'
  BY <1>2, NumbersFrame DEF DeleteProcess, WithoutStages, Surviving
<1>3. ASSUME NEW a \in AttemptId, AttemptNext
      PROVE  NumbersDistinct'
  BY <1>3, NumbersFrame
     DEF AttemptNext, MarkStarted, MarkPaused, MarkEnded, DeleteAttempt, TypeOK, AttemptRow
<1>4. CASE attempts' = attempts
  BY <1>4, NumbersFrame
<1>5. ASSUME NEW p \in ProcessId, NEW list \in StageLists, ReplaceStages(p, list)
      PROVE  NumbersDistinct'
  BY <1>4, <1>5, ReplaceKeepsAttempts
<1> QED
  BY <1>1, <1>2, <1>3, <1>4, <1>5
     DEF Next, ProcessNext, AttemptNext, CreateProcess, UpdateStages, StartAttempt, vars

\* The inductive invariant: every named part is preserved by every operation.
IInv ==
  /\ TypeOK
  /\ NumbersBounded
  /\ References
  /\ StageStatusSummarises
  /\ PositionsDistinct
  /\ NumbersDistinct

LEMMA Invariance == Spec => []IInv
<1>1. Init => IInv
  BY TypeInit DEF Init, IInv, References, StageStatusSummarises, PositionsDistinct,
                  NumbersDistinct
<1>2. IInv /\ [Next]_vars => IInv'
  BY TypeStep, ReferencesStep, SummaryStep, PositionsStep, NumbersStep DEF IInv
<1> QED
  BY <1>1, <1>2, PTL DEF Spec

\* No stage or attempt is ever orphaned.
THEOREM ReferencesCorrect == Spec => []References
<1>1. IInv => References
  BY DEF IInv
<1> QED
  BY Invariance, <1>1, PTL

\* The stored stage status always summarises the stage's attempts and flag.
THEOREM StageStatusCorrect == Spec => []StageStatusSummarises
<1>1. IInv => StageStatusSummarises
  BY DEF IInv
<1> QED
  BY Invariance, <1>1, PTL

\* UNIQUE(process_id, position) holds after every whole transaction.
THEOREM PositionsCorrect == Spec => []PositionsDistinct
<1>1. IInv => PositionsDistinct
  BY DEF IInv
<1> QED
  BY Invariance, <1>1, PTL

\* MAX + 1 never repeats the number of an attempt the stage still has.
THEOREM NumbersCorrect == Spec => []NumbersDistinct
<1>1. IInv => NumbersDistinct
  BY DEF IInv
<1> QED
  BY Invariance, <1>1, PTL

\* The constraints of the schema hold together, for tables of any size.
THEOREM TablesCorrect == Spec => []TablesConsistent
<1>1. IInv => TablesConsistent
  BY DEF IInv, TablesConsistent
<1> QED
  BY Invariance, <1>1, PTL

\* A reorder is never refused: the shift exceeds every position a list assigns.
THEOREM ReorderCorrect == Spec => []ReorderAccepted
<1>1. TypeOK => ReorderAccepted
  <2> SUFFICES ASSUME TypeOK, NEW p \in processes, NEW list \in StageLists,
                      NEW i \in DOMAIN list
               PROVE  ~PositionTaken(p, list, i)
    BY DEF ReorderAccepted
  <2>1. i \in 1..12
    BY StageListsAssumption
  <2>2. \A t \in StagesOf(p) : stages[t].position \in Nat
    BY DEF StagesOf, TypeOK, StageRow
  <2> QED
    BY <2>1, <2>2 DEF PositionTaken, Shift
<1> QED
  BY TypeCorrect, <1>1, PTL

-----------------------------------------------------------------------------
(* What a step may do to the attempts.                                     *)

\* The attempts that a step takes away were asked to go.
LostByRequest ==
  \A a \in DOMAIN attempts \ DOMAIN attempts' :
    \/ DOMAIN attempts' = DOMAIN attempts \ {a} /\ DOMAIN stages' = DOMAIN stages
    \/ stages[attempts[a].stage].process \notin processes'

LEMMA HistoryStep ==
  ASSUME TypeOK, [Next]_vars
  PROVE  LostByRequest
<1>1. ASSUME NEW p \in ProcessId, NEW list \in StageLists,
             CreateProcess(p, list) \/ ReplaceStages(p, list) \/ UpdateStages(p, list)
      PROVE  LostByRequest
  <2>1. attempts' = attempts
    BY <1>1, ReplaceKeepsAttempts DEF CreateProcess, UpdateStages
  <2> QED
    BY <2>1 DEF LostByRequest
<1>2. ASSUME NEW p \in ProcessId, DeleteProcess(p)
      PROVE  LostByRequest
  <2>1. \A a \in DOMAIN attempts \ DOMAIN attempts' : attempts[a].stage \in StagesOf(p)
    BY <1>2 DEF DeleteProcess, WithoutStages, Surviving
  <2> QED
    BY <1>2, <2>1 DEF DeleteProcess, StagesOf, LostByRequest
<1>3. ASSUME NEW r \in RequestId, CreateAttempt(r)
      PROVE  LostByRequest
  <2>1. CASE Startable(starting[r].process, starting[r].stage)
    <3>1. DOMAIN attempts \subseteq DOMAIN attempts'
      BY <1>3, <2>1, CreatedAttempt
    <3> QED
      BY <3>1 DEF LostByRequest
  <2>2. CASE ~Startable(starting[r].process, starting[r].stage)
    BY <1>3, <2>2 DEF CreateAttempt, LostByRequest
  <2> QED
    BY <2>1, <2>2
<1>4. ASSUME NEW a \in AttemptId, MarkStarted(a) \/ MarkPaused(a) \/ MarkEnded(a)
      PROVE  LostByRequest
  BY <1>4 DEF MarkStarted, MarkPaused, MarkEnded, LostByRequest
<1>5. ASSUME NEW a \in AttemptId, DeleteAttempt(a)
      PROVE  LostByRequest
  <2>1. DOMAIN attempts' = DOMAIN attempts \ {a} /\ DOMAIN stages' = DOMAIN stages
    BY <1>5 DEF DeleteAttempt, TypeOK
  <2> QED
    BY <2>1 DEF LostByRequest
<1>6. CASE UNCHANGED vars \/ \E p \in ProcessId, r \in RequestId, s \in StageId :
                               StartAttempt(r, p, s)
  BY <1>6 DEF vars, StartAttempt, LostByRequest
<1> QED
  BY <1>1, <1>2, <1>3, <1>4, <1>5, <1>6 DEF Next, ProcessNext, AttemptNext

\* A stage list may be edited at any time without losing an attempt: attempts go
\* when they are deleted, or with their process (ProcessRepository.update,
\* delete; AttemptRepository.delete).
THEOREM HistoryCorrect == Spec => HistoryKept
<1>1. IInv /\ [Next]_vars => [LostByRequest]_vars
  BY HistoryStep DEF IInv
<1> QED
  BY <1>1, Invariance, PTL DEF Spec, HistoryKept, LostByRequest

\* The attempts that a step adds belong to the stage a request named, which is
\* enabled and in the process that the request named.
AddedToEnabledStage ==
  \A a \in DOMAIN attempts' \ DOMAIN attempts :
    /\ stages[attempts'[a].stage].enabled
    /\ \E r \in DOMAIN starting \ DOMAIN starting' :
          /\ starting[r].stage = attempts'[a].stage
          /\ starting[r].process = stages[starting[r].stage].process

LEMMA OpeningStep ==
  ASSUME TypeOK, [Next]_vars
  PROVE  AddedToEnabledStage
<1>1. ASSUME NEW r \in RequestId, CreateAttempt(r)
      PROVE  AddedToEnabledStage
  <2>1. r \in DOMAIN starting \ DOMAIN starting'
    BY <1>1 DEF CreateAttempt
  <2>2. CASE Startable(starting[r].process, starting[r].stage)
    <3>1. PICK a \in AttemptId \ spent :
            /\ DOMAIN attempts' = DOMAIN attempts \cup {a}
            /\ attempts'[a].stage = starting[r].stage
      BY <1>1, <2>2, CreatedAttempt
    <3>2. /\ stages[starting[r].stage].enabled
          /\ starting[r].process = stages[starting[r].stage].process
      BY <2>2 DEF Startable, StagesOf
    <3> QED
      BY <2>1, <3>1, <3>2 DEF AddedToEnabledStage
  <2>3. CASE ~Startable(starting[r].process, starting[r].stage)
    BY <1>1, <2>3 DEF CreateAttempt, AddedToEnabledStage
  <2> QED
    BY <2>2, <2>3
<1>2. ASSUME DOMAIN attempts' \subseteq DOMAIN attempts
      PROVE  AddedToEnabledStage
  BY <1>2 DEF AddedToEnabledStage
<1>3. ASSUME NEW p \in ProcessId, NEW list \in StageLists,
             CreateProcess(p, list) \/ ReplaceStages(p, list) \/ UpdateStages(p, list)
      PROVE  DOMAIN attempts' \subseteq DOMAIN attempts
  BY <1>3, ReplaceKeepsAttempts DEF CreateProcess, UpdateStages
<1>4. ASSUME NEW p \in ProcessId, DeleteProcess(p)
      PROVE  DOMAIN attempts' \subseteq DOMAIN attempts
  BY <1>4 DEF DeleteProcess, WithoutStages, Surviving
<1>5. ASSUME NEW a \in AttemptId,
             MarkStarted(a) \/ MarkPaused(a) \/ MarkEnded(a) \/ DeleteAttempt(a)
      PROVE  DOMAIN attempts' \subseteq DOMAIN attempts
  BY <1>5 DEF MarkStarted, MarkPaused, MarkEnded, DeleteAttempt
<1>6. CASE UNCHANGED vars \/ \E p \in ProcessId, r \in RequestId, s \in StageId :
                               StartAttempt(r, p, s)
  BY <1>2, <1>6 DEF vars, StartAttempt
<1> QED
  BY <1>1, <1>2, <1>3, <1>4, <1>5, <1>6 DEF Next, ProcessNext, AttemptNext

\* An attempt is created only for a stage that is enabled in the process the
\* request named when it is inserted, however old the request's own read is
\* (start_attempt, create_attempt).
THEOREM OpeningCorrect == Spec => AttemptsOpenOnEnabledStages
<1>1. IInv /\ [Next]_vars => [AddedToEnabledStage]_vars
  BY OpeningStep DEF IInv
<1> QED
  BY <1>1, Invariance, PTL DEF Spec, AttemptsOpenOnEnabledStages, AddedToEnabledStage

-----------------------------------------------------------------------------
(* The tables implement the promised life of an attempt.                   *)

LEMMA LifeInit == Init => Lifecycle!Init
  BY DEF Init, Lifecycle!Init, Life

\* One existing attempt changes status and nothing else does.
LEMMA LifeUpdate ==
  ASSUME TypeOK, NEW a \in DOMAIN attempts, NEW st, spent' = spent,
         attempts' = [attempts EXCEPT ![a].status = st]
  PROVE  /\ Life' = [Life EXCEPT ![a] = st]
         /\ Life[a] = attempts[a].status
<1>1. /\ DOMAIN attempts' = DOMAIN attempts /\ a \in AttemptId
      /\ attempts'[a].status = st
      /\ \A b \in DOMAIN attempts : b # a => attempts'[b] = attempts[b]
  BY DEF TypeOK, AttemptRow
<1> QED
  BY <1>1 DEF Life

\* Attempts disappear, their identifiers stay spent.
LEMMA LifeRemoval ==
  ASSUME TypeOK, NEW S \in SUBSET DOMAIN attempts, spent' = spent,
         attempts' = [a \in DOMAIN attempts \ S |-> attempts[a]]
  PROVE  Lifecycle!Remove(S) /\ S \in SUBSET AttemptId
<1>1. S \in SUBSET AttemptId
  BY DEF TypeOK
<1>2. \A a \in S : Life[a] \in Lifecycle!Open \cup {"completed"}
  BY <1>1 DEF Life, Lifecycle!Open, TypeOK, AttemptRow, AttemptStatus
<1>3. Life' = [a \in AttemptId |-> IF a \in S THEN "gone" ELSE Life[a]]
  BY <1>1 DEF Life, TypeOK
<1> QED
  BY <1>1, <1>2, <1>3 DEF Lifecycle!Remove

LEMMA LifeStep ==
  ASSUME TypeOK, [Next]_vars
  PROVE  [Lifecycle!Next]_Life
<1>1. ASSUME NEW r \in RequestId, CreateAttempt(r)
      PROVE  [Lifecycle!Next]_Life
  <2>1. CASE ~Startable(starting[r].process, starting[r].stage)
    BY <1>1, <2>1 DEF CreateAttempt, Life
  <2>2. CASE Startable(starting[r].process, starting[r].stage)
    <3>1. PICK a \in AttemptId \ spent :
            /\ spent' = spent \cup {a}
            /\ attempts' = [b \in DOMAIN attempts \cup {a} |->
                  IF b = a
                  THEN [stage |-> starting[r].stage,
                        number |-> NextNumber(starting[r].stage),
                        status |-> "ready", type |-> starting[r].type]
                  ELSE attempts[b]]
      BY <1>1, <2>2 DEF CreateAttempt
    <3>2. a \notin DOMAIN attempts /\ Life[a] = "unborn"
      BY DEF TypeOK, Life
    <3>3. Life' = [Life EXCEPT ![a] = "ready"]
      BY <3>1, <3>2 DEF Life
    <3> QED
      BY <3>2, <3>3 DEF Lifecycle!Next, Lifecycle!Create
  <2> QED
    BY <2>1, <2>2
<1>2. ASSUME NEW a \in AttemptId, MarkStarted(a)
      PROVE  [Lifecycle!Next]_Life
  <2>1. Life' = [Life EXCEPT ![a] = "in_progress"] /\ Life[a] = attempts[a].status
    BY <1>2, LifeUpdate DEF MarkStarted
  <2> QED
    BY <1>2, <2>1 DEF MarkStarted, Lifecycle!Next, Lifecycle!Start, Life
<1>3. ASSUME NEW a \in AttemptId, MarkPaused(a)
      PROVE  [Lifecycle!Next]_Life
  <2>1. Life' = [Life EXCEPT ![a] = "paused"] /\ Life[a] = attempts[a].status
    BY <1>3, LifeUpdate DEF MarkPaused
  <2> QED
    BY <1>3, <2>1 DEF MarkPaused, Lifecycle!Next, Lifecycle!Pause
<1>4. ASSUME NEW a \in AttemptId, MarkEnded(a)
      PROVE  [Lifecycle!Next]_Life
  <2>1. Life' = [Life EXCEPT ![a] = "completed"] /\ Life[a] = attempts[a].status
    BY <1>4, LifeUpdate DEF MarkEnded
  <2>2. attempts[a].status \in AttemptStatus
    BY <1>4 DEF MarkEnded, TypeOK, AttemptRow
  <2> QED
    BY <2>1, <2>2 DEF Lifecycle!Next, Lifecycle!Finish, Lifecycle!Open, AttemptStatus, Life
<1>5. ASSUME NEW a \in AttemptId, DeleteAttempt(a)
      PROVE  [Lifecycle!Next]_Life
  <2>1. {a} \in SUBSET DOMAIN attempts
    BY <1>5 DEF DeleteAttempt
  <2>2. Lifecycle!Remove({a}) /\ {a} \in SUBSET AttemptId
    BY <1>5, <2>1, LifeRemoval DEF DeleteAttempt
  <2> QED
    BY <2>2 DEF Lifecycle!Next
<1>6. ASSUME NEW p \in ProcessId, DeleteProcess(p)
      PROVE  [Lifecycle!Next]_Life
  <2> DEFINE S == {a \in DOMAIN attempts : attempts[a].stage \in StagesOf(p)}
  <2>1. attempts' = [a \in DOMAIN attempts \ S |-> attempts[a]]
    BY <1>6 DEF DeleteProcess, WithoutStages, Surviving
  <2>2. S \in SUBSET DOMAIN attempts
    OBVIOUS
  <2> HIDE DEF S
  <2>3. Lifecycle!Remove(S) /\ S \in SUBSET AttemptId
    BY <1>6, <2>1, <2>2, LifeRemoval DEF DeleteProcess
  <2> QED
    BY <2>3 DEF Lifecycle!Next
<1>7. CASE attempts' = attempts /\ spent' = spent
  BY <1>7 DEF Life
<1>8. ASSUME NEW p \in ProcessId, NEW list \in StageLists, ReplaceStages(p, list)
      PROVE  [Lifecycle!Next]_Life
  BY <1>7, <1>8, ReplaceKeepsAttempts DEF ReplaceStages
<1> QED
  BY <1>1, <1>2, <1>3, <1>4, <1>5, <1>6, <1>7, <1>8
     DEF Next, ProcessNext, AttemptNext, CreateProcess, UpdateStages, StartAttempt, vars

\* Whatever the requests, each attempt lives the life AttemptLifecycle allows.
THEOREM LifecycleRefined == Spec => ImplementsLifecycle
<1>1. TypeOK /\ [Next]_vars => [Lifecycle!Next]_Life
  BY LifeStep
<1> QED
  BY LifeInit, <1>1, TypeCorrect, PTL DEF Spec, ImplementsLifecycle, Lifecycle!Spec
=============================================================================
