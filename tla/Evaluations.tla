---------------------------- MODULE Evaluations ----------------------------
(***************************************************************************)
(* Evaluation reports: the feedback page and the process page ask for      *)
(* them, ReportService has a provider write them, and the report of a      *)
(* process and the dashboard are computed from them.                       *)
(*                                                                         *)
(* A request runs without suspension except while the provider works, so   *)
(* evaluate is two steps.  The transcript of an attempt is the Transcript  *)
(* that Checkpointer implements: only its length matters here.             *)
(***************************************************************************)
EXTENDS ProcessReport

CONSTANTS
  Attempt,      \* of one process: records with stage (its position) and number,
                \* which are unique together
  Page,         \* browser pages that ask for reports
  Nobody,       \* the page of a request was closed
  NoReport,
  Score,        \* overall scores a provider may give
  Advice,       \* advice a provider may give: sequences of texts
  MaxMessages   \* bound: the length of a transcript

ASSUME EvaluationsAssumption ==
  /\ IsFiniteSet(Attempt)
  /\ \A a \in Attempt : a.stage \in Nat /\ a.number \in Nat
  /\ \A a, b \in Attempt : a.stage = b.stage /\ a.number = b.number => a = b
  /\ Score \subseteq 0..100
  /\ \A advice \in Advice : advice \in Seq(ToSet(advice))
  /\ Nobody \notin Page
  /\ MaxMessages \in Nat

VARIABLES
  status,      \* interview_attempts.status, or "deleted"
  messages,    \* the length of the canonical transcript
  report,      \* interview_reports
  enabled,     \* interview_stages.enabled
  active,      \* ReportService._active
  evaluations, \* requests whose provider is working
  page         \* what each page does

server == <<status, messages, report, enabled>>
vars == <<server, active, evaluations, page>>

Stage == {a.stage : a \in Attempt}
Report == [score : Score, advice : Advice, cited : 2..MaxMessages + 1]
Evaluation == [attempt : Attempt, length : Nat, by : Page \cup {Nobody}]
PageState == {"closed", "loading", "asking", "evaluating", "empty", "error", "ready"}
PageRow == [state : PageState, todo : Seq(Attempt), shown : Report \cup {NoReport},
            batch : BOOLEAN]

\* The feedback page has one attempt; the process page evaluates a list of them
\* (batch).
Closed == [state |-> "closed", todo |-> << >>, shown |-> NoReport, batch |-> FALSE]

TypeOK ==
  /\ status \in [Attempt -> {"in_progress", "completed", "deleted"}]
  /\ messages \in [Attempt -> 0..MaxMessages]
  /\ report \in [Attempt -> Report \cup {NoReport}]
  /\ enabled \in [Stage -> BOOLEAN]
  /\ active \subseteq Attempt
  /\ evaluations \subseteq Evaluation
  /\ page \in [Page -> PageRow]
  /\ \A p \in Page : page[p].batch => page[p].state \in {"asking", "evaluating"}

Init ==
  /\ status = [a \in Attempt |-> "in_progress"]
  /\ messages = [a \in Attempt |-> 0]
  /\ report = [a \in Attempt |-> NoReport]
  /\ enabled = [s \in Stage |-> TRUE]
  /\ active = {} /\ evaluations = {}
  /\ page = [p \in Page |-> Closed]

-----------------------------------------------------------------------------
(* The attempts and the settings change under the evaluations.             *)

\* A turn of the interview; nothing stops an answer to a completed attempt.
Answer(a) ==
  /\ status[a] # "deleted" /\ messages[a] < MaxMessages
  /\ messages' = [messages EXCEPT ![a] = @ + 1]
  /\ UNCHANGED <<status, report, enabled, active, evaluations, page>>

Complete(a) ==
  /\ status[a] = "in_progress" /\ messages[a] > 0
  /\ status' = [status EXCEPT ![a] = "completed"]
  /\ UNCHANGED <<messages, report, enabled, active, evaluations, page>>

DeleteAttempt(a) ==
  /\ status[a] # "deleted"
  /\ status' = [status EXCEPT ![a] = "deleted"]
  /\ messages' = [messages EXCEPT ![a] = 0]
  /\ report' = [report EXCEPT ![a] = NoReport]
  /\ UNCHANGED <<enabled, active, evaluations, page>>

ToggleStage(s) ==
  /\ enabled' = [enabled EXCEPT ![s] = ~@]
  /\ UNCHANGED <<status, messages, report, active, evaluations, page>>

-----------------------------------------------------------------------------
(* The pages.                                                              *)

\* FeedbackPage opens with the attempt of its address.
Open(p, a) ==
  /\ page[p].state = "closed"
  /\ page' = [page EXCEPT ![p] = [Closed EXCEPT !.state = "loading", !.todo = <<a>>]]
  /\ UNCHANGED <<server, active, evaluations>>

\* evaluatePending: every completed attempt without a report, one after another, in
\* the order of the process page.
Pending == {a \in Attempt : status[a] = "completed" /\ report[a] = NoReport}

EvaluatePending(p) ==
  /\ page[p].state = "closed" /\ Pending # {}
  /\ \E list \in Listings(Pending) :
       page' = [page EXCEPT ![p] =
         [Closed EXCEPT !.state = "asking", !.todo = list, !.batch = TRUE]]
  /\ UNCHANGED <<server, active, evaluations>>

\* Mutant of Rest: the loop does not go on to the next attempt.
RestSame(todo) == todo

Rest(todo) == Tail(todo)

\* The first attempt of a page has a report: it is shown, or the next one is
\* asked for.
Answered(row, r) ==
  IF ~row.batch THEN [row EXCEPT !.state = "ready", !.shown = r]
  ELSE IF Len(row.todo) = 1 THEN Closed
  ELSE [row EXCEPT !.state = "asking", !.todo = Rest(row.todo)]

Shows(p, r) == [page EXCEPT ![p] = Answered(@, r)]

\* A failure ends the list.
Failed(row) == IF row.batch THEN Closed ELSE [row EXCEPT !.state = "error"]

Fails(p) == [page EXCEPT ![p] = Failed(@)]

\* GET report; only the feedback page asks, and only a page opened with
\* evaluate=1 goes on to evaluate by itself.
GetReport(p) ==
  LET a == Head(page[p].todo) IN
  /\ page[p].state = "loading"
  /\ IF status[a] = "deleted" THEN page' = Fails(p)
     ELSE IF report[a] # NoReport THEN page' = Shows(p, report[a])
     ELSE page' \in {[page EXCEPT ![p].state = next] : next \in {"asking", "empty"}}
  /\ UNCHANGED <<server, active, evaluations>>

\* "Evaluate interview" and "Retry" load again and then evaluate.
Retry(p) ==
  /\ page[p].state \in {"empty", "error"}
  /\ page' = [page EXCEPT ![p].state = "loading"]
  /\ UNCHANGED <<server, active, evaluations>>

Abandoned(p) == {[e EXCEPT !.by = IF @ = p THEN Nobody ELSE @] : e \in evaluations}

\* The request of a page that is closed goes on.
Close(p) ==
  /\ page[p].state # "closed"
  /\ page' = [page EXCEPT ![p] = Closed]
  /\ evaluations' = Abandoned(p)
  /\ UNCHANGED <<server, active>>

-----------------------------------------------------------------------------
(* ReportService.                                                          *)

\* Mutant of MayEvaluate: the set of active evaluations is not looked at.
MayEvaluateTwice(a) == status[a] = "completed" /\ messages[a] >= 2

\* The attempt is completed, nobody evaluates it and its context has two messages.
MayEvaluate(a) == status[a] = "completed" /\ a \notin active /\ messages[a] >= 2

\* Mutant of Existing: the stored report is not looked up.
ExistingNever(a) == FALSE

Existing(a) == status[a] = "completed" /\ report[a] # NoReport

\* evaluate, up to the call of the provider; it fails if no provider is configured.
Evaluate(p) ==
  LET a == Head(page[p].todo) IN
  /\ page[p].state = "asking"
  /\ \/ /\ Existing(a)
        /\ page' = Shows(p, report[a])
        /\ UNCHANGED <<active, evaluations>>
     \/ /\ ~Existing(a) /\ MayEvaluate(a)
        /\ active' = active \cup {a}
        /\ evaluations' = evaluations \cup {[attempt |-> a, length |-> messages[a], by |-> p]}
        /\ page' = [page EXCEPT ![p].state = "evaluating"]
     \/ /\ ~Existing(a)
        /\ page' = Fails(p)
        /\ UNCHANGED <<active, evaluations>>
  /\ UNCHANGED server

\* The finally clause.
Ends(e) ==
  /\ evaluations' = evaluations \ {e}
  /\ active' = active \ {e.attempt}

\* Mutant of Storable: the evidence is not validated.
StorableUnchecked(e, r) == status[e.attempt] # "deleted"

\* _validate_evidence knows the messages; the foreign key finds the attempt.
Storable(e, r) == r.cited <= e.length /\ status[e.attempt] # "deleted"

\* INSERT ... ON CONFLICT DO NOTHING
Saved(a, r) == IF report[a] = NoReport THEN [report EXCEPT ![a] = r] ELSE report

\* The provider answers with a report; the stored one is returned.
ProviderAnswers(e) ==
  /\ e \in evaluations
  /\ \E r \in Report :
       IF Storable(e, r)
       THEN /\ report' = Saved(e.attempt, r)
            /\ page' = IF e.by = Nobody THEN page
                       ELSE Shows(e.by, report'[e.attempt])
       ELSE /\ page' = IF e.by = Nobody THEN page ELSE Fails(e.by)
            /\ UNCHANGED report
  /\ Ends(e)
  /\ UNCHANGED <<status, messages, enabled>>

\* The provider fails or times out, or the request is cancelled.
ProviderFails(e) ==
  /\ e \in evaluations
  /\ page' = IF e.by = Nobody THEN page ELSE Fails(e.by)
  /\ UNCHANGED server
  /\ Ends(e)

\* The server restarts: requests fail, the set of active evaluations is empty.
Restart ==
  /\ active' = {} /\ evaluations' = {}
  /\ page' = [p \in Page |-> IF page[p].state \in {"loading", "asking", "evaluating"}
                             THEN Failed(page[p]) ELSE page[p]]
  /\ UNCHANGED server

Next ==
  \/ \E a \in Attempt : Answer(a) \/ Complete(a) \/ DeleteAttempt(a)
  \/ \E s \in Stage : ToggleStage(s)
  \/ Restart
  \/ \E p \in Page :
       \/ \E a \in Attempt : Open(p, a)
       \/ EvaluatePending(p) \/ GetReport(p) \/ Retry(p) \/ Close(p) \/ Evaluate(p)
  \/ \E e \in evaluations : ProviderAnswers(e) \/ ProviderFails(e)

Spec == Init /\ [][Next]_vars

\* Requests are answered, and the provider is called with a timeout of 60 s.
FairSpec ==
  /\ Spec
  /\ \A p \in Page : WF_vars(GetReport(p)) /\ WF_vars(Evaluate(p))
  /\ \A a \in Attempt :
       WF_vars(\E e \in evaluations : e.attempt = a /\ (ProviderAnswers(e) \/ ProviderFails(e)))

-----------------------------------------------------------------------------
(* Properties.                                                             *)

\* The provider works on an attempt for one request at a time, and the set that
\* refuses the others names those attempts exactly: a set that keeps an attempt
\* after a failure refuses it until the next restart.
OneEvaluationAtATime ==
  /\ active = {e.attempt : e \in evaluations}
  /\ Cardinality(active) = Cardinality(evaluations)

\* Nothing is asked of the provider for an attempt that has its report,
\* whichever pages ask and however late.
EvaluatedOnce == \A e \in evaluations : report[e.attempt] = NoReport

\* A report belongs to a completed attempt that still exists and cites messages
\* of its transcript, also if the attempt was answered or deleted while the
\* provider was working.
ReportsResolve ==
  \A a \in Attempt :
    report[a] # NoReport => status[a] = "completed" /\ report[a].cited <= messages[a]

\* The queries behind the two summaries.
Stored == {a \in Attempt : report[a] # NoReport}
RowsOf(S) == {[stage |-> a.stage, number |-> a.number, report |-> report[a]] : a \in S}
EnabledRows == RowsOf({a \in Stored : enabled[a.stage]})
EnabledStages == Cardinality({s \in Stage : enabled[s]})
Process == ProcessReportOf(EnabledRows, EnabledStages)

\* The report of a process has exactly one attempt of each enabled stage that
\* has a report, the latest of those with the stage's best score, in the order
\* of the stages.
BestOfEachStage ==
  EnabledRows # {} =>
    LET best == Process.selected IN
    /\ ToSet(best) \subseteq EnabledRows
    /\ \A i, j \in DOMAIN best : i < j => best[i].stage < best[j].stage
    /\ \A row \in EnabledRows : \E i \in DOMAIN best :
         /\ best[i].stage = row.stage
         /\ row.report.score <= best[i].report.score
         /\ row.report.score = best[i].report.score => row.number <= best[i].number

\* The dashboard and the report of the process are computed apart, in SQL and in
\* Python; over the same reports their scores agree, except that of two nearest
\* integers the one takes the larger and the other the even one.
SummariesAgree ==
  (EnabledRows # {} /\ ToSet(Process.selected) = RowsOf(Stored)) =>
    LET dashboard == DashboardScores(RowsOf(Stored)) IN
    /\ Process.overall \in dashboard.minimum..dashboard.maximum
    /\ \/ Process.overall = dashboard.average
       \/ /\ 2 * Total(Process.selected) = (2 * dashboard.average - 1) * Process.evaluated
          /\ Process.overall = dashboard.average - 1

\* Every advice of the selected reports is in the report of the process once,
\* with the first stage that gives it as its source.
AdviceOnce ==
  EnabledRows # {} =>
    LET merged == Process.advice
        GivenBy(row, k) == \E i \in DOMAIN row.report.advice : row.report.advice[i].key = k
    IN /\ \A i, j \in DOMAIN merged : merged[i].text.key = merged[j].text.key => i = j
       /\ \A row \in ToSet(Process.selected) : \A i \in DOMAIN row.report.advice :
            \E j \in DOMAIN merged :
              /\ merged[j].text.key = row.report.advice[i].key
              /\ merged[j].stage <= row.stage
              /\ \E first \in ToSet(Process.selected) :
                   first.stage = merged[j].stage /\ GivenBy(first, merged[j].text.key)

\* The report of a process says what the reports of its stages say.
ProcessReportAgrees == BestOfEachStage /\ AdviceOnce

\* A page that asks, alone or for a list of attempts, comes to an end.
PageSettles ==
  \A p \in Page :
    page[p].state \in {"loading", "asking", "evaluating"}
      ~> page[p].state \in {"closed", "empty", "error", "ready"}
=============================================================================
