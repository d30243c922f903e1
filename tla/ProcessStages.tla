---------------------------- MODULE ProcessStages ----------------------------
(***************************************************************************)
(* The relational core of Interview Studio: processes own ordered stages,  *)
(* stages own numbered attempts, and every HTTP or WebSocket operation is  *)
(* one SQLite transaction on the three tables.  The tables are partial     *)
(* functions: a row exists iff its key is in the DOMAIN.  A request to     *)
(* start an attempt is the one operation of two steps, because it reads    *)
(* the process first and inserts the attempt in a later transaction.       *)
(***************************************************************************)
EXTENDS Integers, Sequences, FiniteSets, FiniteSetsExt

CONSTANTS
  ProcessId,    \* identifiers of interview processes (UUIDs)
  StageId,      \* identifiers of stages, client-supplied on an update
  AttemptId,    \* identifiers of attempts (fresh UUIDs): the bound on attempts
  StageType,    \* InterviewType
  RequestId,    \* POST .../attempts requests that may be in progress
  StageLists    \* the ordered stage lists a client may submit

StageEntry == [id : StageId, type : StageType, enabled : BOOLEAN]

ASSUME StageListsAssumption ==
  StageLists \subseteq {list \in Seq(StageEntry) : Len(list) \in 1..12}

VARIABLES
  processes,    \* rows of interview_processes, by id
  stages,       \* rows of interview_stages
  attempts,     \* rows of interview_attempts
  spent,        \* attempt ids handed out so far; a UUID is never drawn twice
  starting      \* start_attempt requests between their read and their insert

vars == <<processes, stages, attempts, spent, starting>>

StageStatus == {"not_started", "in_progress", "completed", "skipped"}
AttemptStatus == {"ready", "in_progress", "paused", "completed"}

StageRow == [process : ProcessId, type : StageType, position : Nat,
             enabled : BOOLEAN, status : StageStatus]
AttemptRow == [stage : StageId, number : Nat \ {0},
               status : AttemptStatus, type : StageType]
StartRequest == [process : ProcessId, stage : StageId, type : StageType]

TypeOK ==
  /\ processes \subseteq ProcessId
  /\ DOMAIN stages \subseteq StageId
  /\ stages \in [DOMAIN stages -> StageRow]
  /\ DOMAIN attempts \subseteq AttemptId
  /\ attempts \in [DOMAIN attempts -> AttemptRow]
  /\ spent \subseteq AttemptId
  /\ DOMAIN attempts \subseteq spent
  /\ DOMAIN starting \subseteq RequestId
  /\ starting \in [DOMAIN starting -> StartRequest]

-----------------------------------------------------------------------------
StagesOf(p) == {s \in DOMAIN stages : stages[s].process = p}
AttemptsOf(s) == {a \in DOMAIN attempts : attempts[a].stage = s}

\* Mutant of HasAttempts: only attempts that are not completed are counted.
HasOpenAttempts(p) ==
  \E s \in StagesOf(p) : \E a \in AttemptsOf(s) : attempts[a].status # "completed"

HasAttempts(p) == \E s \in StagesOf(p) : AttemptsOf(s) # {}

Listed(list) == {list[i].id : i \in DOMAIN list}

\* The loop over the submitted list writes a repeated id more than once; the
\* last entry is the one that stays.
LastEntry(list, s) ==
  CHOOSE i \in DOMAIN list :
    /\ list[i].id = s
    /\ \A j \in DOMAIN list : list[j].id = s => j <= i

\* ON DELETE CASCADE from stages to attempts.
Surviving(gone) ==
  [a \in {b \in DOMAIN attempts : attempts[b].stage \notin gone} |-> attempts[a]]

WithoutStages(gone) ==
  /\ stages' = [s \in DOMAIN stages \ gone |-> stages[s]]
  /\ attempts' = Surviving(gone)

FreshRow(p, list, s) ==
  LET i == LastEntry(list, s) IN
  [process |-> p, type |-> list[i].type, position |-> i - 1,
   enabled |-> list[i].enabled,
   status |-> IF list[i].enabled THEN "not_started" ELSE "skipped"]

\* The primary key of interview_stages refuses a repeated id and an id that
\* another process owns; the transaction is then rolled back.
Insertable(list, kept) ==
  /\ Cardinality(Listed(list)) = Len(list)
  /\ Listed(list) \cap kept = {}

-----------------------------------------------------------------------------
Init ==
  /\ processes = {}
  /\ stages = [s \in {} |-> s]
  /\ attempts = [a \in {} |-> a]
  /\ spent = {}
  /\ starting = [r \in {} |-> r]

\* ProcessService.create replaces the client's stage ids by fresh ones.
CreateProcess(p, list) ==
  /\ p \notin processes
  /\ Insertable(list, DOMAIN stages)
  /\ processes' = processes \cup {p}
  /\ stages' = [s \in DOMAIN stages \cup Listed(list) |->
                  IF s \in Listed(list) THEN FreshRow(p, list, s) ELSE stages[s]]
  /\ UNCHANGED <<attempts, spent, starting>>

\* No attempt exists anywhere in the process: its stages are deleted, with what
\* hangs on them, and inserted anew.
ReplaceStages(p, list) ==
  /\ p \in processes
  /\ ~HasAttempts(p)
  /\ Insertable(list, DOMAIN stages \ StagesOf(p))
  /\ stages' = [s \in (DOMAIN stages \ StagesOf(p)) \cup Listed(list) |->
                  IF s \in Listed(list) THEN FreshRow(p, list, s) ELSE stages[s]]
  /\ attempts' = Surviving(StagesOf(p))
  /\ UNCHANGED <<processes, spent, starting>>

\* Mutant of Shift: the positions are assigned in place.
NoShift == 0

\* The positions are moved out of the way before they are assigned one by one.
Shift == 1000

\* UNIQUE(process_id, position) refuses entry i when a stage that the loop has
\* not reached yet still sits at the position entry i takes.
PositionTaken(p, list, i) ==
  \E t \in StagesOf(p) \ {list[j].id : j \in 1..i} :
     stages[t].position + Shift = i - 1

Toggled(status, enabled) ==
  CASE ~enabled /\ status = "not_started" -> "skipped"
    [] enabled /\ status = "skipped" -> "not_started"
    [] OTHER -> status

\* The UPDATE of one stage in place.
EditedRow(list, s) ==
  LET entry == list[LastEntry(list, s)] IN
  [stages[s] EXCEPT !.type = entry.type,
                    !.position = LastEntry(list, s) - 1,
                    !.enabled = entry.enabled,
                    !.status = Toggled(@, entry.enabled)]

\* Attempts exist: stage identities are fixed, the rest is edited in place.
UpdateStages(p, list) ==
  /\ p \in processes
  /\ HasAttempts(p)
  /\ Listed(list) = StagesOf(p)
  /\ \A i \in DOMAIN list : ~PositionTaken(p, list, i)
  /\ stages' = [s \in DOMAIN stages |->
                  IF s \in StagesOf(p) THEN EditedRow(list, s) ELSE stages[s]]
  /\ UNCHANGED <<processes, attempts, spent, starting>>

DeleteProcess(p) ==
  /\ p \in processes
  /\ processes' = processes \ {p}
  /\ WithoutStages(StagesOf(p))
  /\ UNCHANGED <<spent, starting>>

\* start_attempt, first part: read the process, check the stage and freeze the
\* configuration the attempt will carry.
StartAttempt(r, p, s) ==
  /\ r \notin DOMAIN starting
  /\ p \in processes
  /\ s \in StagesOf(p)
  /\ stages[s].enabled
  /\ starting' = [q \in DOMAIN starting \cup {r} |->
                    IF q = r
                    THEN [process |-> p, stage |-> s, type |-> stages[s].type]
                    ELSE starting[q]]
  /\ UNCHANGED <<processes, stages, attempts, spent>>

\* Mutant of Startable: the flag read by the first part is trusted.
StartableOnceRead(p, s) == s \in StagesOf(p)

Startable(p, s) == s \in StagesOf(p) /\ stages[s].enabled

\* Mutant of NextNumber: attempts are counted.
NextNumberByCount(s) == 1 + Cardinality(AttemptsOf(s))

NextNumber(s) == 1 + Max({0} \cup {attempts[a].number : a \in AttemptsOf(s)})

\* start_attempt, second part: insert the attempt if the stage can still be
\* started, else answer 409.
CreateAttempt(r) ==
  /\ r \in DOMAIN starting
  /\ starting' = [q \in DOMAIN starting \ {r} |-> starting[q]]
  /\ LET req == starting[r] IN
     IF Startable(req.process, req.stage)
     THEN \E a \in AttemptId \ spent :
            /\ spent' = spent \cup {a}
            /\ attempts' = [b \in DOMAIN attempts \cup {a} |->
                  IF b = a
                  THEN [stage |-> req.stage, number |-> NextNumber(req.stage),
                        status |-> "ready", type |-> req.type]
                  ELSE attempts[b]]
            /\ stages' = [stages EXCEPT ![req.stage].status =
                  IF @ \in {"not_started", "skipped"} THEN "in_progress" ELSE @]
     ELSE UNCHANGED <<stages, attempts, spent>>
  /\ UNCHANGED processes

\* Mutant of MarkStarted: the UPDATE has no condition on the status.
MarkStartedAlways(a) ==
  /\ a \in DOMAIN attempts
  /\ attempts' = [attempts EXCEPT ![a].status = "in_progress"]
  /\ UNCHANGED <<processes, stages, spent, starting>>

MarkStarted(a) ==
  /\ a \in DOMAIN attempts
  /\ attempts[a].status \in {"ready", "in_progress", "paused"}
  /\ attempts' = [attempts EXCEPT ![a].status = "in_progress"]
  /\ UNCHANGED <<processes, stages, spent, starting>>

MarkPaused(a) ==
  /\ a \in DOMAIN attempts
  /\ attempts[a].status = "in_progress"
  /\ attempts' = [attempts EXCEPT ![a].status = "paused"]
  /\ UNCHANGED <<processes, stages, spent, starting>>

MarkEnded(a) ==
  /\ a \in DOMAIN attempts
  /\ attempts' = [attempts EXCEPT ![a].status = "completed"]
  /\ stages' = [stages EXCEPT ![attempts[a].stage].status = "completed"]
  /\ UNCHANGED <<processes, spent, starting>>

\* Mutant of Recalculated: a completed attempt that remains is overlooked.
RecalculatedOpen(s, remaining) ==
  IF remaining # {} THEN "in_progress"
  ELSE IF stages[s].enabled THEN "not_started" ELSE "skipped"

\* AttemptRepository.delete derives the owning stage's status afresh from the
\* attempts that remain.
Recalculated(s, remaining) ==
  IF \E b \in remaining : attempts[b].status = "completed" THEN "completed"
  ELSE IF remaining # {} THEN "in_progress"
  ELSE IF stages[s].enabled THEN "not_started" ELSE "skipped"

DeleteAttempt(a) ==
  /\ a \in DOMAIN attempts
  /\ attempts' = [b \in DOMAIN attempts \ {a} |-> attempts[b]]
  /\ LET s == attempts[a].stage IN
     stages' = [stages EXCEPT ![s].status = Recalculated(s, AttemptsOf(s) \ {a})]
  /\ UNCHANGED <<processes, spent, starting>>

ProcessNext ==
  \E p \in ProcessId :
    \/ DeleteProcess(p)
    \/ \E list \in StageLists :
         \/ CreateProcess(p, list)
         \/ ReplaceStages(p, list)
         \/ UpdateStages(p, list)
    \/ \E r \in RequestId, s \in StageId : StartAttempt(r, p, s)

AttemptNext ==
  \E a \in AttemptId :
    MarkStarted(a) \/ MarkPaused(a) \/ MarkEnded(a) \/ DeleteAttempt(a)

Next ==
  \/ ProcessNext
  \/ \E r \in RequestId : CreateAttempt(r)
  \/ AttemptNext

Spec == Init /\ [][Next]_vars

-----------------------------------------------------------------------------
(* Properties.                                                             *)

\* Every row's parent row exists: deleting a process or replacing its stages
\* leaves no orphaned stage or attempt behind.
References ==
  /\ \A s \in DOMAIN stages : stages[s].process \in processes
  /\ \A a \in DOMAIN attempts : attempts[a].stage \in DOMAIN stages

\* The stage status, which is stored and patched by five operations in two
\* repositories, always says what the stage's attempts and its enabled flag
\* say: completed iff an attempt is, in progress iff there are attempts but
\* none is complete, and otherwise startable or skipped.
Summarised(s) ==
  LET mine == AttemptsOf(s)
      done == \E a \in mine : attempts[a].status = "completed"
      st   == stages[s].status
  IN  /\ st = "completed" <=> done
      /\ st = "in_progress" <=> (mine # {} /\ ~done)
      /\ st = "not_started" <=> (mine = {} /\ stages[s].enabled)
      /\ st = "skipped" <=> (mine = {} /\ ~stages[s].enabled)

StageStatusSummarises == \A s \in DOMAIN stages : Summarised(s)

\* Attempt numbers identify an attempt within its stage, also after deletions
\* left gaps: UNIQUE(stage_id, attempt_number) never refuses a new attempt.
NumbersDistinct ==
  \A a, b \in DOMAIN attempts :
    /\ attempts[a].stage = attempts[b].stage
    /\ attempts[a].number = attempts[b].number
    => a = b

\* Two stages of a process never share a position.
PositionsDistinct ==
  \A s, t \in DOMAIN stages :
    /\ stages[s].process = stages[t].process
    /\ stages[s].position = stages[t].position
    => s = t

\* What the schema declares and the services rely on: types, foreign keys and
\* the two UNIQUE constraints hold together, whatever is edited or deleted.
TablesConsistent == TypeOK /\ References /\ NumbersDistinct /\ PositionsDistinct

\* A reorder that names exactly the stages of a process with attempts is never
\* refused by UNIQUE(process_id, position), whatever the order of the list.
ReorderAccepted ==
  \A p \in processes, list \in StageLists :
    (HasAttempts(p) /\ Listed(list) = StagesOf(p))
      => \A i \in DOMAIN list : ~PositionTaken(p, list, i)

\* History is lost only by asking for it: an attempt disappears by being
\* deleted alone or together with its process, never because a stage list was
\* edited.
HistoryKept ==
  [][\A a \in DOMAIN attempts \ DOMAIN attempts' :
        \/ DOMAIN attempts' = DOMAIN attempts \ {a} /\ DOMAIN stages' = DOMAIN stages
        \/ stages[attempts[a].stage].process \notin processes']_vars

\* An attempt is only ever created for a stage that is enabled at that moment
\* in the process the request named, however old the request's own read is.
AttemptsOpenOnEnabledStages ==
  [][\A a \in DOMAIN attempts' \ DOMAIN attempts :
        /\ stages[attempts'[a].stage].enabled
        /\ \E r \in DOMAIN starting \ DOMAIN starting' :
              /\ starting[r].stage = attempts'[a].stage
              /\ starting[r].process = stages[starting[r].stage].process]_vars

\* The three tables together implement the life of an attempt that the product
\* promises: completed and removed are final, and an identifier is used once.
Life == [a \in AttemptId |->
           IF a \in DOMAIN attempts THEN attempts[a].status
           ELSE IF a \in spent THEN "gone" ELSE "unborn"]
Lifecycle == INSTANCE AttemptLifecycle WITH life <- Life
ImplementsLifecycle == Lifecycle!Spec

\* PLAN.md: "Stage definitions remain stable once attempts exist; edits affect
\* future attempts."  AttemptRepository.context shows an attempt under the
\* stage's present type, so an edit may not change it.
ContextStageType(a) == stages[attempts[a].stage].type
EditsAffectOnlyFutureAttempts ==
  [][\A a \in DOMAIN attempts \cap DOMAIN attempts' :
        ContextStageType(a)' = ContextStageType(a)]_vars

\* MAP.md: a new attempt gets "a monotonically increasing stage-local number".
\* The number that the next attempt of a stage would get never goes down.
NumbersIncrease ==
  [][\A s \in DOMAIN stages \cap DOMAIN stages' : NextNumber(s)' >= NextNumber(s)]_vars
=============================================================================
