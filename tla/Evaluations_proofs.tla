------------------------- MODULE Evaluations_proofs -------------------------
(***************************************************************************)
(* Proofs about Evaluations for any number of attempts, pages, reports and *)
(* messages.                                                               *)
(***************************************************************************)
EXTENDS Evaluations, TLAPS, FiniteSetTheorems, SequenceTheorems, WellFoundedInduction

-----------------------------------------------------------------------------
(* The inductive invariant.                                                *)

\* An attempt is evaluated for one request, and a page waits for one.
RequestsDistinct ==
  /\ \A e, f \in evaluations : e.attempt = f.attempt => e = f
  /\ \A e, f \in evaluations : e.by = f.by /\ e.by # Nobody => e = f

ActiveNamesRequests == active = {e.attempt : e \in evaluations}

\* Unless it was deleted, an attempt that is being evaluated is still completed
\* and its transcript has not become shorter.
TranscriptsGrow ==
  \A e \in evaluations :
    status[e.attempt] # "deleted" =>
      status[e.attempt] = "completed" /\ e.length <= messages[e.attempt]

\* A page that is not closed has an attempt, and one whose request is running
\* waits for it.
PagesWait ==
  /\ \A p \in Page : page[p].state # "closed" => page[p].todo # << >>
  /\ \A e \in evaluations : e.by # Nobody => page[e.by].state = "evaluating"

IInv ==
  /\ TypeOK
  /\ RequestsDistinct
  /\ ActiveNamesRequests
  /\ TranscriptsGrow
  /\ PagesWait
  /\ EvaluatedOnce
  /\ ReportsResolve

-----------------------------------------------------------------------------
(* Lemmas about the pages.                                                 *)

\* A list of attempts to evaluate is a nonempty sequence of attempts.
LEMMA ListingIsSeq ==
  ASSUME NEW S \in SUBSET Attempt, S # {}, NEW list \in Listings(S)
  PROVE  list \in Seq(Attempt) /\ list # << >>
<1> DEFINE n == Cardinality(S)
<1>1. IsFiniteSet(S)
  BY FS_Subset, EvaluationsAssumption
<1>2. n \in Nat /\ n # 0
  BY <1>1, FS_CardinalityType, FS_EmptySet
<1>3. list \in [1..n -> Attempt]
  BY DEF Listings
<1> HIDE DEF n
<1> QED
  BY <1>2, <1>3

\* A list of several elements has a nonempty tail.
LEMMA LongTail ==
  ASSUME NEW S, NEW list \in Seq(S), list # << >>, Len(list) # 1
  PROVE  Tail(list) \in Seq(S) /\ Tail(list) # << >>
<1>1. Tail(list) \in Seq(S) /\ Len(list) \in Nat /\ Len(list) # 0
  BY HeadTailProperties, EmptySeq, LenProperties
<1>2. Len(Tail(list)) = Len(list) - 1
  BY HeadTailProperties
<1>3. Len(Tail(list)) # 0
  BY <1>1, <1>2
<1> QED
  BY <1>1, <1>3, EmptySeq

\* A page that may be in memory: what TypeOK and PagesWait say of each.
PageOK(row) ==
  /\ row \in PageRow
  /\ row.batch => row.state \in {"asking", "evaluating"}
  /\ row.state # "closed" => row.todo # << >>

LEMMA PagesOK == TypeOK /\ PagesWait => \A p \in Page : PageOK(page[p])
  BY DEF TypeOK, PagesWait, PageOK

LEMMA ClosedOK == PageOK(Closed) /\ Closed.state = "closed"
  BY EmptySeq DEF PageOK, Closed, PageRow, PageState

\* A page whose first attempt has a report, or whose request fails, stays legal.
LEMMA AnsweredOK ==
  ASSUME NEW row, PageOK(row), row.todo # << >>, NEW r \in Report \cup {NoReport}
  PROVE  PageOK(Answered(row, r))
<1>1. CASE ~row.batch
  BY <1>1 DEF Answered, PageOK, PageRow, PageState
<1>2. CASE row.batch /\ Len(row.todo) = 1
  BY <1>2, ClosedOK DEF Answered
<1>3. CASE row.batch /\ Len(row.todo) # 1
  <2>1. Tail(row.todo) \in Seq(Attempt) /\ Tail(row.todo) # << >>
    BY <1>3, LongTail DEF PageOK, PageRow
  <2> DEFINE next == [row EXCEPT !.state = "asking", !.todo = Tail(row.todo)]
  <2>2. next \in PageRow /\ next.state = "asking" /\ next.todo # << >>
    BY <2>1 DEF PageOK, PageRow, PageState
  <2>3. Answered(row, r) = next
    BY <1>3 DEF Answered, Rest
  <2> HIDE DEF next
  <2> QED
    BY <2>2, <2>3 DEF PageOK
<1> QED
  BY <1>1, <1>2, <1>3

LEMMA FailedOK ==
  ASSUME NEW row, PageOK(row), row.todo # << >>
  PROVE  PageOK(Failed(row))
<1>1. CASE row.batch
  BY <1>1, ClosedOK DEF Failed
<1>2. CASE ~row.batch
  BY <1>2 DEF Failed, PageOK, PageRow, PageState
<1> QED
  BY <1>1, <1>2

LEMMA FirstIsAttempt ==
  ASSUME NEW row, PageOK(row), row.todo # << >>
  PROVE  Head(row.todo) \in Attempt
  BY HeadTailProperties DEF PageOK, PageRow

\* One page changes, and what it becomes is legal.
LEMMA PageUpdate ==
  ASSUME TypeOK, PagesWait, NEW p \in Page, NEW row, PageOK(row),
         page' = [page EXCEPT ![p] = row]
  PROVE  /\ page' \in [Page -> PageRow] /\ page'[p] = row
         /\ \A q \in Page : PageOK(page'[q])
         /\ \A q \in Page : q # p => page'[q] = page[q]
  BY PagesOK DEF TypeOK, PageOK

\* The page of a request that ends: it is shown a report, its request fails, or
\* nobody is there.
LEMMA RequestEnds ==
  ASSUME TypeOK, PagesWait, NEW e \in evaluations,
         \/ e.by = Nobody /\ page' = page
         \/ e.by # Nobody /\ page' = Fails(e.by)
         \/ e.by # Nobody /\ \E r \in Report \cup {NoReport} : page' = Shows(e.by, r)
  PROVE  /\ page' \in [Page -> PageRow]
         /\ \A q \in Page : PageOK(page'[q])
         /\ \A q \in Page : q # e.by => page'[q] = page[q]
<1>1. CASE e.by = Nobody /\ page' = page
  BY <1>1, PagesOK DEF TypeOK
<1>2. CASE e.by # Nobody
  <2>1. e.by \in Page /\ page[e.by].todo # << >> /\ PageOK(page[e.by])
    BY <1>2, PagesOK DEF TypeOK, Evaluation, PagesWait
  <2>2. ASSUME page' = Fails(e.by)
        PROVE  page' = [page EXCEPT ![e.by] = Failed(page[e.by])] /\ PageOK(Failed(page[e.by]))
    BY <2>1, <2>2, FailedOK DEF Fails
  <2>3. ASSUME NEW r \in Report \cup {NoReport}, page' = Shows(e.by, r)
        PROVE  /\ page' = [page EXCEPT ![e.by] = Answered(page[e.by], r)]
               /\ PageOK(Answered(page[e.by], r))
    BY <2>1, <2>3, AnsweredOK DEF Shows
  <2> QED
    BY <1>2, <2>1, <2>2, <2>3, PageUpdate
<1> QED
  BY <1>1, <1>2

-----------------------------------------------------------------------------
(* Every step keeps the pages legal.                                       *)

LEMMA PagesStep ==
  ASSUME IInv, [Next]_vars
  PROVE  page' \in [Page -> PageRow] /\ \A q \in Page : PageOK(page'[q])
<1> USE DEF IInv
<1>1. \A q \in Page : PageOK(page[q])
  BY PagesOK
<1>2. CASE page' = page
  BY <1>1, <1>2 DEF TypeOK
<1>3. ASSUME NEW p \in Page, NEW row, PageOK(row), page' = [page EXCEPT ![p] = row]
      PROVE  page' \in [Page -> PageRow] /\ \A q \in Page : PageOK(page'[q])
  BY <1>3, PageUpdate
<1>4. ASSUME NEW p \in Page, NEW a \in Attempt, Open(p, a)
      PROVE  page' \in [Page -> PageRow] /\ \A q \in Page : PageOK(page'[q])
  <2> DEFINE row == [Closed EXCEPT !.state = "loading", !.todo = <<a>>]
  <2>0. <<a>> \in Seq(Attempt) /\ <<a>> # << >>
    OBVIOUS
  <2>1. row \in PageRow /\ ~row.batch /\ row.todo # << >>
    BY <2>0 DEF Closed, PageRow, PageState
  <2>2. page' = [page EXCEPT ![p] = row]
    BY <1>4 DEF Open
  <2> HIDE DEF row
  <2> QED
    BY <1>3, <2>1, <2>2 DEF PageOK
<1>5. ASSUME NEW p \in Page, EvaluatePending(p)
      PROVE  page' \in [Page -> PageRow] /\ \A q \in Page : PageOK(page'[q])
  <2>1. PICK list \in Listings(Pending) :
          page' = [page EXCEPT ![p] =
            [Closed EXCEPT !.state = "asking", !.todo = list, !.batch = TRUE]]
    BY <1>5 DEF EvaluatePending
  <2>2. list \in Seq(Attempt) /\ list # << >>
    BY <1>5, ListingIsSeq DEF EvaluatePending, Pending
  <2> DEFINE row == [Closed EXCEPT !.state = "asking", !.todo = list, !.batch = TRUE]
  <2>3. row \in PageRow /\ row.state = "asking" /\ row.todo # << >>
    BY <2>2 DEF Closed, PageRow, PageState
  <2>4. page' = [page EXCEPT ![p] = row]
    BY <2>1
  <2> HIDE DEF row
  <2> QED
    BY <1>3, <2>3, <2>4 DEF PageOK
<1>6. ASSUME NEW p \in Page, GetReport(p)
      PROVE  page' \in [Page -> PageRow] /\ \A q \in Page : PageOK(page'[q])
  <2> DEFINE a == Head(page[p].todo)
  <2>1. PageOK(page[p]) /\ page[p].todo # << >> /\ page[p].state = "loading"
    BY <1>1, <1>6 DEF GetReport, PageOK
  <2>2. a \in Attempt /\ report[a] \in Report \cup {NoReport}
    BY <2>1, FirstIsAttempt DEF TypeOK
  <2>3. CASE page' = Fails(p)
    BY <1>3, <2>1, <2>3, FailedOK DEF Fails
  <2>4. CASE page' = Shows(p, report[a])
    BY <1>3, <2>1, <2>2, <2>4, AnsweredOK DEF Shows
  <2>5. ASSUME NEW next \in {"asking", "empty"}, page' = [page EXCEPT ![p].state = next]
        PROVE  page' \in [Page -> PageRow] /\ \A q \in Page : PageOK(page'[q])
    <3>1. ~page[p].batch
      BY <2>1 DEF PageOK
    <3>2. PageOK([page[p] EXCEPT !.state = next])
      BY <2>1, <2>5, <3>1 DEF PageOK, PageRow, PageState
    <3> QED
      BY <1>3, <2>5, <3>2
  <2> QED
    BY <1>6, <2>3, <2>4, <2>5 DEF GetReport
<1>7. ASSUME NEW p \in Page, Retry(p)
      PROVE  page' \in [Page -> PageRow] /\ \A q \in Page : PageOK(page'[q])
  <2>1. PageOK([page[p] EXCEPT !.state = "loading"])
    BY <1>1, <1>7 DEF Retry, PageOK, PageRow, PageState
  <2> QED
    BY <1>3, <1>7, <2>1 DEF Retry
<1>8. ASSUME NEW p \in Page, Close(p)
      PROVE  page' \in [Page -> PageRow] /\ \A q \in Page : PageOK(page'[q])
  BY <1>3, <1>8, ClosedOK DEF Close
<1>9. ASSUME NEW p \in Page, Evaluate(p)
      PROVE  page' \in [Page -> PageRow] /\ \A q \in Page : PageOK(page'[q])
  <2> DEFINE a == Head(page[p].todo)
  <2>1. PageOK(page[p]) /\ page[p].todo # << >> /\ page[p].state = "asking"
    BY <1>1, <1>9 DEF Evaluate, PageOK
  <2>2. a \in Attempt /\ report[a] \in Report \cup {NoReport}
    BY <2>1, FirstIsAttempt DEF TypeOK
  <2>3. CASE page' = Fails(p)
    BY <1>3, <2>1, <2>3, FailedOK DEF Fails
  <2>4. CASE page' = Shows(p, report[a])
    BY <1>3, <2>1, <2>2, <2>4, AnsweredOK DEF Shows
  <2>5. CASE page' = [page EXCEPT ![p].state = "evaluating"]
    <3>1. PageOK([page[p] EXCEPT !.state = "evaluating"])
      BY <2>1 DEF PageOK, PageRow, PageState
    <3> QED
      BY <1>3, <2>5, <3>1
  <2> QED
    BY <1>9, <2>3, <2>4, <2>5 DEF Evaluate
<1>10. ASSUME NEW e \in evaluations, ProviderAnswers(e) \/ ProviderFails(e)
       PROVE  page' \in [Page -> PageRow] /\ \A q \in Page : PageOK(page'[q])
  <2>1. e.attempt \in Attempt
    BY DEF TypeOK, Evaluation
  <2>2. ASSUME NEW r \in Report, report' = Saved(e.attempt, r)
        PROVE  report'[e.attempt] \in Report \cup {NoReport}
    BY <2>1, <2>2 DEF Saved, TypeOK
  <2> QED
    BY <1>10, <2>2, RequestEnds DEF ProviderAnswers, ProviderFails
<1>11. CASE Restart
  <2>1. ASSUME NEW p \in Page
        PROVE  /\ page'[p] = IF page[p].state \in {"loading", "asking", "evaluating"}
                             THEN Failed(page[p]) ELSE page[p]
               /\ PageOK(page'[p])
    <3>1. page'[p] = IF page[p].state \in {"loading", "asking", "evaluating"}
                     THEN Failed(page[p]) ELSE page[p]
      BY <1>11 DEF Restart
    <3>2. page[p].state # "closed" => PageOK(Failed(page[p]))
      BY <1>1, FailedOK DEF PageOK
    <3> QED
      BY <1>1, <3>1, <3>2
  <2> QED
    BY <1>11, <2>1 DEF Restart, PageOK
<1> QED
  BY <1>2, <1>4, <1>5, <1>6, <1>7, <1>8, <1>9, <1>10, <1>11
     DEF Next, vars, Answer, Complete, DeleteAttempt, ToggleStage

-----------------------------------------------------------------------------
(* What the provider works on.                                             *)

\* What Evaluate adds, if it calls the provider.
LEMMA EvaluationAdded ==
  ASSUME IInv, NEW p \in Page, Evaluate(p)
  PROVE  \/ /\ active' = active /\ evaluations' = evaluations
            /\ page[p].state = "asking"
         \/ \E e \in Evaluation :
              /\ active' = active \cup {e.attempt}
              /\ evaluations' = evaluations \cup {e}
              /\ e.attempt \notin active /\ e.by = p
              /\ report[e.attempt] = NoReport
              /\ status[e.attempt] = "completed"
              /\ e.length = messages[e.attempt]
              /\ page[p].state = "asking" /\ page'[p].state = "evaluating"
<1> USE DEF IInv
<1> DEFINE a == Head(page[p].todo)
           e == [attempt |-> a, length |-> messages[a], by |-> p]
<1>1. PageOK(page[p]) /\ page[p].todo # << >> /\ page[p].state = "asking"
  BY PagesOK DEF Evaluate, PageOK
<1>2. a \in Attempt
  BY <1>1, FirstIsAttempt
<1>3. e \in Evaluation
  BY <1>2, EvaluationsAssumption DEF Evaluation, TypeOK
<1>4. CASE Existing(a)
  BY <1>1, <1>4 DEF Evaluate
<1>5. CASE ~Existing(a) /\ MayEvaluate(a) /\ evaluations' = evaluations \cup {e}
           /\ active' = active \cup {a} /\ page' = [page EXCEPT ![p].state = "evaluating"]
  BY <1>1, <1>3, <1>5 DEF Existing, MayEvaluate, TypeOK, PageRow
<1>6. CASE active' = active /\ evaluations' = evaluations
  BY <1>1, <1>6
<1> QED
  BY <1>4, <1>5, <1>6 DEF Evaluate

LEMMA RequestsStep ==
  ASSUME IInv, [Next]_vars
  PROVE  /\ active' \subseteq Attempt /\ evaluations' \subseteq Evaluation
         /\ RequestsDistinct' /\ ActiveNamesRequests'
<1> USE DEF IInv, RequestsDistinct, ActiveNamesRequests
<1>1. CASE active' = active /\ evaluations' = evaluations
  BY <1>1 DEF TypeOK
<1>2. ASSUME NEW p \in Page, Evaluate(p)
      PROVE  /\ active' \subseteq Attempt /\ evaluations' \subseteq Evaluation
             /\ RequestsDistinct' /\ ActiveNamesRequests'
  <2>1. CASE \E e \in Evaluation :
               /\ active' = active \cup {e.attempt}
               /\ evaluations' = evaluations \cup {e}
               /\ e.attempt \notin active /\ e.by = p
               /\ page[p].state = "asking"
    <3>1. PICK e \in Evaluation :
            /\ active' = active \cup {e.attempt}
            /\ evaluations' = evaluations \cup {e}
            /\ e.attempt \notin active /\ e.by = p
            /\ page[p].state = "asking"
      BY <2>1
    <3>2. \A f \in evaluations : f.attempt # e.attempt
      BY <3>1
    <3>3. \A f \in evaluations : f.by # e.by
      BY <3>1, EvaluationsAssumption DEF PagesWait
    <3>4. e.attempt \in Attempt
      BY DEF Evaluation
    <3> QED
      BY <3>1, <3>2, <3>3, <3>4 DEF TypeOK
  <2> QED
    BY <1>1, <1>2, <2>1, EvaluationAdded
<1>3. ASSUME NEW p \in Page, Close(p)
      PROVE  /\ active' \subseteq Attempt /\ evaluations' \subseteq Evaluation
             /\ RequestsDistinct' /\ ActiveNamesRequests'
  <2> DEFINE Left(e) == [e EXCEPT !.by = IF @ = p THEN Nobody ELSE @]
  <2>1. evaluations' = {Left(e) : e \in evaluations} /\ active' = active
    BY <1>3 DEF Close, Abandoned
  <2>2. \A e \in evaluations :
          /\ Left(e) \in Evaluation /\ Left(e).attempt = e.attempt
          /\ Left(e).by # Nobody => Left(e).by = e.by
    BY DEF TypeOK, Evaluation
  <2> HIDE DEF Left
  <2>3. evaluations' \subseteq Evaluation /\ active' \subseteq Attempt
    BY <2>1, <2>2 DEF TypeOK
  <2>4. RequestsDistinct'
    BY <2>1, <2>2
  <2>5. ActiveNamesRequests'
    BY <2>1, <2>2
  <2> QED
    BY <2>3, <2>4, <2>5
<1>4. ASSUME NEW e \in evaluations, Ends(e)
      PROVE  /\ active' \subseteq Attempt /\ evaluations' \subseteq Evaluation
             /\ RequestsDistinct' /\ ActiveNamesRequests'
  BY <1>4 DEF Ends, TypeOK
<1>5. CASE Restart
  BY <1>5 DEF Restart
<1> QED
  BY <1>1, <1>2, <1>3, <1>4, <1>5
     DEF Next, vars, Answer, Complete, DeleteAttempt, ToggleStage, Open, EvaluatePending,
         GetReport, Retry, ProviderAnswers, ProviderFails

\* The page of a running request waits for it: a page is shown the answer of the
\* request it made and of no other.
LEMMA WaitStep ==
  ASSUME IInv, [Next]_vars
  PROVE  \A e \in evaluations' : e.by # Nobody => page'[e.by].state = "evaluating"
<1> USE DEF IInv
<1>0. \A e \in evaluations : e.by # Nobody => e.by \in Page /\ page[e.by].state = "evaluating"
  BY DEF PagesWait, TypeOK, Evaluation
<1>1. CASE evaluations' = evaluations /\ page' = page
  BY <1>0, <1>1
<1>2. ASSUME NEW p \in Page, evaluations' = evaluations, page[p].state # "evaluating",
             \A q \in Page : q # p => page'[q] = page[q]
      PROVE  \A e \in evaluations' : e.by # Nobody => page'[e.by].state = "evaluating"
  BY <1>0, <1>2
<1>3. ASSUME NEW p \in Page,
             Retry(p) \/ EvaluatePending(p) \/ GetReport(p) \/ \E a \in Attempt : Open(p, a)
      PROVE  \A e \in evaluations' : e.by # Nobody => page'[e.by].state = "evaluating"
  <2>1. evaluations' = evaluations /\ page[p].state # "evaluating"
    BY <1>3 DEF Retry, EvaluatePending, GetReport, Open
  <2>2. \A q \in Page : q # p => page'[q] = page[q]
    BY <1>3 DEF Retry, EvaluatePending, GetReport, Open, Shows, Fails, TypeOK
  <2> QED
    BY <1>2, <2>1, <2>2
<1>4. ASSUME NEW p \in Page, Evaluate(p)
      PROVE  \A e \in evaluations' : e.by # Nobody => page'[e.by].state = "evaluating"
  <2>1. \A q \in Page : q # p => page'[q] = page[q]
    BY <1>4 DEF Evaluate, Shows, Fails, TypeOK
  <2>2. CASE evaluations' = evaluations /\ page[p].state = "asking"
    BY <1>2, <2>1, <2>2
  <2>3. CASE \E e \in Evaluation :
               /\ evaluations' = evaluations \cup {e} /\ e.by = p
               /\ page'[p].state = "evaluating"
    BY <1>0, <2>1, <2>3
  <2> QED
    BY <1>4, <2>2, <2>3, EvaluationAdded
<1>5. ASSUME NEW p \in Page, Close(p)
      PROVE  \A e \in evaluations' : e.by # Nobody => page'[e.by].state = "evaluating"
  <2>1. \A q \in Page : q # p => page'[q] = page[q]
    BY <1>5 DEF Close, TypeOK
  <2>2. \A e \in evaluations' :
          e.by # Nobody => e.by # p /\ \E f \in evaluations : f.by = e.by
    BY <1>5, EvaluationsAssumption DEF Close, Abandoned, TypeOK, Evaluation
  <2> QED
    BY <1>0, <2>1, <2>2
<1>6. ASSUME NEW e \in evaluations, ProviderAnswers(e) \/ ProviderFails(e)
      PROVE  \A f \in evaluations' : f.by # Nobody => page'[f.by].state = "evaluating"
  <2>1. evaluations' = evaluations \ {e}
    BY <1>6 DEF ProviderAnswers, ProviderFails, Ends
  <2>2. \A q \in Page : q # e.by => page'[q] = page[q]
    BY <1>6 DEF ProviderAnswers, ProviderFails, Shows, Fails, TypeOK
  <2> QED
    BY <1>0, <2>1, <2>2 DEF RequestsDistinct
<1>7. CASE Restart
  BY <1>7 DEF Restart
<1> QED
  BY <1>1, <1>3, <1>4, <1>5, <1>6, <1>7
     DEF Next, vars, Answer, Complete, DeleteAttempt, ToggleStage

-----------------------------------------------------------------------------
(* What the server stores.                                                 *)

LEMMA ServerTypeStep ==
  ASSUME IInv, [Next]_vars
  PROVE  /\ status' \in [Attempt -> {"in_progress", "completed", "deleted"}]
         /\ messages' \in [Attempt -> 0..MaxMessages]
         /\ report' \in [Attempt -> Report \cup {NoReport}]
         /\ enabled' \in [Stage -> BOOLEAN]
<1> USE DEF IInv, TypeOK
<1>1. CASE UNCHANGED server
  BY <1>1 DEF server
<1>2. ASSUME NEW a \in Attempt, Answer(a)
      PROVE  messages' \in [Attempt -> 0..MaxMessages] /\ UNCHANGED <<status, report, enabled>>
  <2>1. messages[a] \in 0..MaxMessages /\ messages[a] < MaxMessages
    BY <1>2 DEF Answer
  <2>2. messages[a] + 1 \in 0..MaxMessages
    BY <2>1, EvaluationsAssumption
  <2> QED
    BY <1>2, <2>2 DEF Answer
<1>3. ASSUME NEW a \in Attempt, Complete(a) \/ DeleteAttempt(a)
      PROVE  /\ status' \in [Attempt -> {"in_progress", "completed", "deleted"}]
             /\ messages' \in [Attempt -> 0..MaxMessages]
             /\ report' \in [Attempt -> Report \cup {NoReport}] /\ enabled' = enabled
  <2>1. 0 \in 0..MaxMessages
    BY EvaluationsAssumption
  <2> QED
    BY <1>3, <2>1 DEF Complete, DeleteAttempt
<1>4. ASSUME NEW s \in Stage, ToggleStage(s)
      PROVE  enabled' \in [Stage -> BOOLEAN] /\ UNCHANGED <<status, messages, report>>
  BY <1>4 DEF ToggleStage
<1>5. ASSUME NEW e \in evaluations, ProviderAnswers(e)
      PROVE  /\ report' \in [Attempt -> Report \cup {NoReport}]
             /\ UNCHANGED <<status, messages, enabled>>
  BY <1>5 DEF ProviderAnswers, Saved
<1> QED
  BY <1>1, <1>2, <1>3, <1>4, <1>5
     DEF Next, vars, server, Open, EvaluatePending, GetReport, Retry, Close, Evaluate,
         ProviderFails, Restart

LEMMA TypeStep == IInv /\ [Next]_vars => TypeOK'
  BY PagesStep, RequestsStep, ServerTypeStep DEF TypeOK, PageOK

LEMMA PagesWaitStep == IInv /\ [Next]_vars => PagesWait'
  BY PagesStep, WaitStep DEF PagesWait, PageOK

\* A completed attempt stays completed, with its messages, until it is deleted.
LEMMA AttemptsAdvance ==
  ASSUME IInv, [Next]_vars, NEW a \in Attempt
  PROVE  /\ status[a] = "deleted" => status'[a] = "deleted"
         /\ status[a] = "completed" /\ status'[a] # "deleted" =>
              status'[a] = "completed" /\ messages[a] <= messages'[a]
<1> USE DEF IInv, TypeOK
<1> DEFINE Advances == /\ status[a] = "deleted" => status'[a] = "deleted"
                       /\ status[a] = "completed" /\ status'[a] # "deleted" =>
                            status'[a] = "completed" /\ messages[a] <= messages'[a]
<1>0. messages[a] \in Nat
  BY EvaluationsAssumption
<1>1. UNCHANGED <<status, messages>> => Advances
  BY <1>0
<1>2. ASSUME NEW b \in Attempt, Answer(b)
      PROVE  Advances
  BY <1>0, <1>2 DEF Answer
<1>3. ASSUME NEW b \in Attempt, Complete(b)
      PROVE  Advances
  <2>1. messages' = messages /\ status[a] \in {"deleted", "completed"} => status'[a] = status[a]
    BY <1>3 DEF Complete
  <2> QED
    BY <1>0, <1>3, <2>1 DEF Complete
<1>4. ASSUME NEW b \in Attempt, DeleteAttempt(b)
      PROVE  Advances
  <2>1. a # b => status'[a] = status[a] /\ messages'[a] = messages[a]
    BY <1>4 DEF DeleteAttempt
  <2>2. a = b => status'[a] = "deleted"
    BY <1>4 DEF DeleteAttempt
  <2> QED
    BY <1>0, <2>1, <2>2
<1> HIDE DEF Advances
<1>5. Advances
  BY <1>1, <1>2, <1>3, <1>4
     DEF Next, vars, server, ToggleStage, Open, EvaluatePending, GetReport, Retry, Close,
         Evaluate, ProviderAnswers, ProviderFails, Restart
<1> QED
  BY <1>5 DEF Advances

\* What an evaluation of the next state knows was known before or is read now.
LEMMA EvaluationsStay ==
  ASSUME IInv, [Next]_vars, NEW e \in evaluations'
  PROVE  \/ \E f \in evaluations : f.attempt = e.attempt /\ f.length = e.length
         \/ /\ UNCHANGED server
            /\ report[e.attempt] = NoReport /\ status[e.attempt] = "completed"
            /\ e.attempt \in Attempt /\ e.length = messages[e.attempt]
<1> USE DEF IInv
<1>1. CASE evaluations' \subseteq evaluations
  BY <1>1
<1>2. ASSUME NEW p \in Page, Close(p)
      PROVE  \E f \in evaluations : f.attempt = e.attempt /\ f.length = e.length
  <2>1. PICK f \in evaluations : e = [f EXCEPT !.by = IF @ = p THEN Nobody ELSE @]
    BY <1>2 DEF Close, Abandoned
  <2>2. f \in Evaluation
    BY DEF TypeOK
  <2> QED
    BY <2>1, <2>2 DEF Evaluation
<1>3. ASSUME NEW p \in Page, Evaluate(p)
      PROVE  \/ \E f \in evaluations : f.attempt = e.attempt /\ f.length = e.length
             \/ /\ UNCHANGED server
                /\ report[e.attempt] = NoReport /\ status[e.attempt] = "completed"
                /\ e.attempt \in Attempt /\ e.length = messages[e.attempt]
  <2>1. UNCHANGED server
    BY <1>3 DEF Evaluate
  <2> QED
    BY <1>3, <2>1, EvaluationAdded DEF Evaluation
<1> QED
  BY <1>1, <1>2, <1>3
     DEF Next, vars, server, Answer, Complete, DeleteAttempt, ToggleStage, Open,
         EvaluatePending, GetReport, Retry, ProviderAnswers, ProviderFails, Ends, Restart

LEMMA TranscriptsStep == IInv /\ [Next]_vars => TranscriptsGrow'
<1> SUFFICES ASSUME IInv, [Next]_vars, NEW e \in evaluations',
                    status'[e.attempt] # "deleted"
             PROVE  status'[e.attempt] = "completed" /\ e.length <= messages'[e.attempt]
  BY DEF TranscriptsGrow
<1> USE DEF IInv
<1>1. ASSUME NEW f \in evaluations, f.attempt = e.attempt, f.length = e.length
      PROVE  status'[e.attempt] = "completed" /\ e.length <= messages'[e.attempt]
  <2>1. f.attempt \in Attempt /\ f.length \in Nat
    BY DEF TypeOK, Evaluation
  <2>2. status[f.attempt] = "completed" /\ f.length <= messages[f.attempt]
    BY <1>1, <2>1, AttemptsAdvance DEF TranscriptsGrow
  <2>3. status'[f.attempt] = "completed" /\ messages[f.attempt] <= messages'[f.attempt]
    BY <1>1, <2>1, <2>2, AttemptsAdvance
  <2>4. messages[f.attempt] \in Nat /\ messages'[f.attempt] \in Nat
    BY <2>1, ServerTypeStep, EvaluationsAssumption DEF TypeOK
  <2> QED
    BY <1>1, <2>1, <2>2, <2>3, <2>4
<1>2. CASE /\ UNCHANGED server /\ status[e.attempt] = "completed"
           /\ e.attempt \in Attempt /\ e.length = messages[e.attempt]
  <2>1. messages[e.attempt] \in Nat
    BY <1>2, EvaluationsAssumption DEF TypeOK
  <2> QED
    BY <1>2, <2>1 DEF server
<1> QED
  BY <1>1, <1>2, EvaluationsStay

\* Only the answer to the one request for an attempt stores a report of it.
LEMMA ReportStored ==
  ASSUME IInv, [Next]_vars, NEW a \in Attempt, report[a] = NoReport, report'[a] # NoReport
  PROVE  \E e \in evaluations, r \in Report :
           /\ ProviderAnswers(e) /\ e.attempt = a /\ Storable(e, r) /\ report'[a] = r
<1> USE DEF IInv
<1>1. ASSUME NEW b \in Attempt, DeleteAttempt(b)
      PROVE  FALSE
  BY <1>1 DEF DeleteAttempt, TypeOK
<1>2. PICK e \in evaluations : ProviderAnswers(e)
  BY <1>1
     DEF Next, vars, server, Answer, Complete, ToggleStage, Open, EvaluatePending, GetReport,
         Retry, Close, Evaluate, ProviderFails, Restart
<1>3. PICK r \in Report : Storable(e, r) /\ report' = Saved(e.attempt, r)
  BY <1>2 DEF ProviderAnswers
<1>4. e.attempt = a /\ report'[a] = r
  BY <1>3 DEF Saved, TypeOK
<1> QED
  BY <1>2, <1>3, <1>4

LEMMA EvaluatedOnceStep == IInv /\ [Next]_vars => EvaluatedOnce'
<1> SUFFICES ASSUME IInv, [Next]_vars, NEW e \in evaluations', report'[e.attempt] # NoReport
             PROVE  FALSE
  BY DEF EvaluatedOnce
<1> USE DEF IInv
<1>1. e.attempt \in Attempt
  BY RequestsStep DEF Evaluation
<1>2. report[e.attempt] = NoReport
  BY EvaluationsStay DEF EvaluatedOnce
<1>3. PICK f \in evaluations : ProviderAnswers(f) /\ f.attempt = e.attempt
  BY <1>1, <1>2, ReportStored
<1>4. evaluations' = evaluations \ {f}
  BY <1>3 DEF ProviderAnswers, Ends
<1> QED
  BY <1>3, <1>4 DEF RequestsDistinct

LEMMA ReportsResolveStep == IInv /\ [Next]_vars => ReportsResolve'
<1> SUFFICES ASSUME IInv, [Next]_vars, NEW a \in Attempt, report'[a] # NoReport
             PROVE  status'[a] = "completed" /\ report'[a].cited <= messages'[a]
  BY DEF ReportsResolve
<1> USE DEF IInv
<1>1. messages[a] \in Nat /\ messages'[a] \in Nat
  BY ServerTypeStep, EvaluationsAssumption DEF TypeOK
<1>2. CASE report[a] # NoReport
  <2>1. status[a] = "completed" /\ report[a].cited <= messages[a] /\ report[a].cited \in Int
    BY <1>2, EvaluationsAssumption DEF ReportsResolve, TypeOK, Report
  <2>2. report'[a] = report[a] /\ status'[a] # "deleted"
    <3>1. ASSUME NEW e \in evaluations, ProviderAnswers(e)
          PROVE  report'[a] = report[a] /\ status' = status
      BY <1>2, <3>1 DEF ProviderAnswers, Saved, TypeOK
    <3>2. ASSUME NEW b \in Attempt, DeleteAttempt(b)
          PROVE  report'[a] = report[a] /\ status'[a] = status[a]
      BY <3>2 DEF DeleteAttempt, TypeOK
    <3>3. ASSUME NEW b \in Attempt, Complete(b)
          PROVE  report' = report /\ status'[a] = "completed"
      BY <2>1, <3>3 DEF Complete, TypeOK
    <3> QED
      BY <2>1, <3>1, <3>2, <3>3
         DEF Next, vars, server, Answer, ToggleStage, Open, EvaluatePending, GetReport, Retry,
             Close, Evaluate, ProviderFails, Restart
  <2> QED
    BY <1>1, <2>1, <2>2, AttemptsAdvance
<1>3. CASE report[a] = NoReport
  <2>1. PICK e \in evaluations, r \in Report :
          ProviderAnswers(e) /\ e.attempt = a /\ Storable(e, r) /\ report'[a] = r
    BY <1>3, ReportStored
  <2>2. status[a] = "completed" /\ e.length <= messages[a] /\ e.length \in Nat
    BY <2>1 DEF Storable, TranscriptsGrow, TypeOK, Evaluation
  <2>3. r.cited <= e.length /\ r.cited \in Int /\ status' = status /\ messages' = messages
    BY <2>1, EvaluationsAssumption DEF Storable, ProviderAnswers, Report
  <2> QED
    BY <1>1, <2>1, <2>2, <2>3
<1> QED
  BY <1>2, <1>3

-----------------------------------------------------------------------------
(* The theorems.                                                           *)

LEMMA Initial == Init => IInv
<1> SUFFICES ASSUME Init PROVE IInv
  OBVIOUS
<1>1. TypeOK
  BY EvaluationsAssumption, ClosedOK DEF Init, TypeOK, PageOK
<1>2. PagesWait
  BY ClosedOK DEF Init, PagesWait
<1> QED
  BY <1>1, <1>2
     DEF Init, IInv, RequestsDistinct, ActiveNamesRequests, TranscriptsGrow, EvaluatedOnce,
         ReportsResolve

LEMMA Invariance == Spec => []IInv
<1>1. IInv /\ [Next]_vars => IInv'
  BY TypeStep, RequestsStep, TranscriptsStep, PagesWaitStep, EvaluatedOnceStep,
     ReportsResolveStep DEF IInv
<1> QED
  BY Initial, <1>1, PTL DEF Spec

\* Every variable keeps its type, whatever the pages, the provider and the
\* operator do: no list of attempts runs empty while its page still works.
THEOREM TypeCorrect == Spec => []TypeOK
<1>1. IInv => TypeOK
  BY DEF IInv
<1> QED
  BY Invariance, <1>1, PTL

\* The attempts being evaluated are as many as the requests, and are those the
\* service refuses to others.
THEOREM OneAtATime == Spec => []OneEvaluationAtATime
<1>1. IInv => OneEvaluationAtATime
  <2> SUFFICES ASSUME IInv PROVE Cardinality(active) = Cardinality(evaluations)
    BY DEF IInv, ActiveNamesRequests, OneEvaluationAtATime
  <2> DEFINE f == [e \in evaluations |-> e.attempt]
  <2>1. f \in Bijection(evaluations, active)
    <3>1. f \in [evaluations -> active]
      BY DEF IInv, ActiveNamesRequests
    <3>2. \A e, g \in evaluations : f[e] = f[g] => e = g
      BY DEF IInv, RequestsDistinct
    <3>3. \A a \in active : \E e \in evaluations : f[e] = a
      BY DEF IInv, ActiveNamesRequests
    <3> HIDE DEF f
    <3>4. f \in Injection(evaluations, active)
      BY <3>1, <3>2 DEF Injection, IsInjective
    <3>5. f \in Surjection(evaluations, active)
      BY <3>1, <3>3 DEF Surjection
    <3> QED
      BY <3>4, <3>5 DEF Bijection
  <2>2. IsFiniteSet(active)
    BY FS_Subset, EvaluationsAssumption DEF IInv, TypeOK
  <2>3. f \in Injection(evaluations, active) /\ f \in Surjection(evaluations, active)
    BY <2>1 DEF Bijection
  <2> HIDE DEF f
  <2> QED
    BY <2>2, <2>3, FS_Injection
<1> QED
  BY Invariance, <1>1, PTL

\* Nothing is asked of the provider for an attempt that has its report.
THEOREM NeverEvaluatedAgain == Spec => []EvaluatedOnce
<1>1. IInv => EvaluatedOnce
  BY DEF IInv
<1> QED
  BY Invariance, <1>1, PTL

\* A stored report belongs to a completed attempt and cites messages it has,
\* however long the provider took and whatever happened meanwhile.
THEOREM ReportsCorrect == Spec => []ReportsResolve
<1>1. IInv => ReportsResolve
  BY DEF IInv
<1> QED
  BY Invariance, <1>1, PTL

-----------------------------------------------------------------------------
(* Folds over positions. The theorems on induction of the library take an *)
(* operator; the least number of a set, which is one of sets, gives the    *)
(* same for a set of numbers.                                              *)

\* Induction, in the form in which it can be cited: over a set of numbers.
LEMMA NatMin ==
  ASSUME NEW T \in SUBSET Nat, T # {}
  PROVE  \E m \in T : \A k \in T : m <= k
<1> DEFINE R == OpToRel(<, Nat)
<1>1. IsWellFoundedOn(R, Nat)
  BY NatLessThanWellFounded
<1>2. PICK m \in T : \A k \in T : ~(<<k, m>> \in R)
  <2> HIDE DEF R
  <2> QED BY <1>1, WFMin
<1>3. \A k \in T : <<k, m>> \in R <=> k < m
  BY DEF OpToRel
<1> HIDE DEF R
<1>4. \A k \in T : ~(k < m)
  BY <1>2, <1>3
<1>5. \A k \in T : k \in Nat /\ m \in Nat
  OBVIOUS
<1>6. \A k \in T : m <= k
  BY <1>4, <1>5
<1> QED  BY <1>6

\* What holds at 0 and is handed on holds up to N.
LEMMA Induction ==
  ASSUME NEW N \in Nat, NEW S, 0 \in S,
         \A n \in 1..N : n - 1 \in S => n \in S
  PROVE  0..N \subseteq S
<1> DEFINE T == (0..N) \ S
<1>1. SUFFICES ASSUME T # {} PROVE FALSE
  OBVIOUS
<1>2. PICK m \in T : \A k \in T : m <= k
  <2>1. T \in SUBSET Nat
    OBVIOUS
  <2> HIDE DEF T
  <2> QED  BY <1>1, <2>1, NatMin
<1>3. m \in 1..N /\ m - 1 \in 0..N /\ m - 1 \notin T
  BY <1>2
<1> QED BY <1>3

\* Max of the positions up to the last one, and of any set of positions.
LEMMA MaxOfPrefix ==
  ASSUME NEW n \in Nat, NEW s, s \subseteq 1..n, n \in s
  PROVE  Max(s) = n
<1>1. n \in s /\ \A y \in s : n >= y
  OBVIOUS
<1>2. \A x \in s : (\A y \in s : x >= y) => x = n
  OBVIOUS
<1> QED  BY <1>1, <1>2 DEF Max

LEMMA MaxIsMember ==
  ASSUME NEW N \in Nat, NEW s \in SUBSET (0..N), s # {}
  PROVE  Max(s) \in s /\ \A y \in s : y <= Max(s)
<1> DEFINE T == {k \in Nat : \A y \in s : y <= k}
<1>1. N \in T
  OBVIOUS
<1>2. PICK m \in T : \A k \in T : m <= k
  <2>1. T \in SUBSET Nat
    OBVIOUS
  <2> HIDE DEF T
  <2> QED  BY <1>1, <2>1, NatMin
<1>3. m \in s
  <2>1. SUFFICES ASSUME m \notin s PROVE FALSE
    OBVIOUS
  <2>2. PICK x \in s : TRUE
    OBVIOUS
  <2>3. m \in Nat /\ \A y \in s : y \in Nat /\ y <= m /\ y # m
    BY <2>1
  <2>4. m - 1 \in Nat /\ \A y \in s : y <= m - 1
    BY <2>2, <2>3
  <2> QED  BY <1>2, <2>3, <2>4
<1>4. \E x \in s : \A y \in s : x >= y
  BY <1>2, <1>3
<1>5. Max(s) \in s /\ \A y \in s : Max(s) >= y
  BY <1>4 DEF Max
<1> QED  BY <1>5

LEMMA LastIsMember ==
  ASSUME NEW N \in Nat
  PROVE  \A s \in SUBSET (1..N) : s # {} => Max(s) \in 1..N
<1> SUFFICES ASSUME NEW s \in SUBSET (1..N), s # {} PROVE Max(s) \in 1..N
  OBVIOUS
<1>1. s \in SUBSET (0..N)
  OBVIOUS
<1> QED  BY <1>1, MaxIsMember

\* A fold over the first N positions is a function that exists.
FoldsTo(f, D, base, G) ==
  f = [s \in D |-> IF s = {} THEN base ELSE G[<<f[s \ {Max(s)}], Max(s)>>]]

LEMMA FoldExists ==
  ASSUME NEW N \in Nat, NEW V, NEW base \in V, NEW G \in [V \X (1..N) -> V]
  PROVE  \E f \in [SUBSET (1..N) -> V] : FoldsTo(f, SUBSET (1..N), base, G)
<1> DEFINE P(n) == \E f \in [SUBSET (1..n) -> V] : FoldsTo(f, SUBSET (1..n), base, G)
           S == {n \in 0..N : P(n)}
<1>1. 0 \in S
  <2> DEFINE f == [s \in SUBSET (1..0) |-> base]
  <2>1. SUBSET (1..0) = {{}}
    OBVIOUS
  <2>2. f \in [SUBSET (1..0) -> V]
    OBVIOUS
  <2>3. f = [s \in SUBSET (1..0) |-> IF s = {} THEN base ELSE G[<<f[s \ {Max(s)}], Max(s)>>]]
    BY <2>1
  <2> QED  BY <2>2, <2>3 DEF FoldsTo
<1>2. ASSUME NEW n \in 1..N, n - 1 \in S PROVE n \in S
  <2>1. PICK f \in [SUBSET (1..(n-1)) -> V] : FoldsTo(f, SUBSET (1..(n-1)), base, G)
    BY <1>2
  <2> DEFINE g == [s \in SUBSET (1..n) |->
                     IF n \in s THEN G[<<f[s \ {n}], n>>] ELSE f[s]]
  <2>2. \A s \in SUBSET (1..n) : n \in s => s \ {n} \in SUBSET (1..(n-1)) /\ Max(s) = n
    <3> SUFFICES ASSUME NEW s \in SUBSET (1..n), n \in s
                 PROVE  s \ {n} \in SUBSET (1..(n-1)) /\ Max(s) = n
      OBVIOUS
    <3>1. Max(s) = n
      <4>1. n \in Nat /\ s \subseteq 1..n
        OBVIOUS
      <4> QED  BY <4>1, MaxOfPrefix
    <3> QED  BY <3>1
  <2>3. \A s \in SUBSET (1..n) : n \notin s => s \in SUBSET (1..(n-1))
    OBVIOUS
  <2>4. g \in [SUBSET (1..n) -> V]
    BY <2>2, <2>3
  <2>5. \A s \in SUBSET (1..n) :
          g[s] = IF s = {} THEN base ELSE G[<<g[s \ {Max(s)}], Max(s)>>]
    <3> SUFFICES ASSUME NEW s \in SUBSET (1..n)
                 PROVE  g[s] = IF s = {} THEN base ELSE G[<<g[s \ {Max(s)}], Max(s)>>]
      OBVIOUS
    <3>1. CASE n \in s
      <4>1. g[s \ {n}] = f[s \ {n}]
        OBVIOUS
      <4> QED  BY <2>2, <3>1, <4>1
    <3>2. CASE n \notin s
      <4>1. s \in SUBSET (1..(n-1)) /\ g[s] = f[s]
        BY <3>2
      <4>2. f[s] = IF s = {} THEN base ELSE G[<<f[s \ {Max(s)}], Max(s)>>]
        BY <2>1, <4>1 DEF FoldsTo
      <4>3. s \ {Max(s)} \in SUBSET (1..n) /\ n \notin s \ {Max(s)}
        BY <3>2
      <4>4. g[s \ {Max(s)}] = f[s \ {Max(s)}]
        BY <4>3
      <4> QED  BY <4>1, <4>2, <4>4
    <3> QED  BY <3>1, <3>2
  <2>6. FoldsTo(g, SUBSET (1..n), base, G)
    <3> HIDE DEF g
    <3>1. g = [s \in SUBSET (1..n) |-> g[s]]
      BY <2>4
    <3> QED BY <2>5, <3>1 DEF FoldsTo
  <2>7. P(n)
    BY <2>4, <2>6
  <2> QED  BY <2>7
<1>3. 0..N \subseteq S
  <2> HIDE DEF S
  <2> QED BY <1>1, <1>2, Induction
<1>4. N \in S
  <2> HIDE DEF S
  <2> QED BY <1>3
<1> QED  BY <1>4

\* The last position comes last.
LEMMA PrefixIsSet ==
  ASSUME NEW N \in Nat
  PROVE  /\ \A n \in 1..N : 1..n \in SUBSET (1..N) /\ 1..n # {} /\ (1..n) \ {n} = 1..(n-1) /\ Max(1..n) = n
         /\ {} \in SUBSET (1..N) /\ 1..0 = {}
<1>1. ASSUME NEW n \in 1..N
      PROVE  1..n \in SUBSET (1..N) /\ 1..n # {} /\ (1..n) \ {n} = 1..(n-1) /\ Max(1..n) = n
  <2>1. n \in Nat /\ n \in 1..n /\ 1..n \subseteq 1..n
    OBVIOUS
  <2>2. Max(1..n) = n
    BY <2>1, MaxOfPrefix
  <2> QED  BY <2>1, <2>2
<1>2. {} \in SUBSET (1..N) /\ 1..0 = {}
  OBVIOUS
<1> QED  BY <1>1, <1>2

\* Function c takes step G over the positions up to N, as long as its values are in V.
TakesSteps(c, N, V, base, G) ==
  /\ c[{}] = base
  /\ \A s \in SUBSET (1..N) : s # {} /\ c[s \ {Max(s)}] \in V
                             => c[s] = G[<<c[s \ {Max(s)}], Max(s)>>]

StepByStep(h, N, base, G) ==
  h[0] = base /\ \A n \in 1..N : h[n] = G[<<h[n-1], n>>]

\* The values of a fold, one position after another.
LEMMA FoldValues ==
  ASSUME NEW N \in Nat, NEW V, NEW base \in V, NEW G \in [V \X (1..N) -> V],
         NEW c, TakesSteps(c, N, V, base, G)
  PROVE  \E h \in [0..N -> V] : c[1..N] = h[N] /\ StepByStep(h, N, base, G)
<1> DEFINE h == [n \in 0..N |-> c[1..n]]
           S == {n \in 0..N : c[1..n] \in V}
<1>1. c[1..0] = base
  BY PrefixIsSet DEF TakesSteps
<1>2. ASSUME NEW n \in 1..N, c[1..(n-1)] \in V
      PROVE  c[1..n] \in V /\ c[1..n] = G[<<c[1..(n-1)], n>>]
  <2>1. 1..n \in SUBSET (1..N) /\ 1..n # {} /\ (1..n) \ {n} = 1..(n-1) /\ Max(1..n) = n
    BY PrefixIsSet
  <2>2. c[1..n] = G[<<c[1..(n-1)], n>>]
    BY <1>2, <2>1 DEF TakesSteps
  <2> QED  BY <1>2, <2>2
<1>3. 0 \in S
  BY <1>1
<1>4. ASSUME NEW n \in 1..N, n - 1 \in S PROVE n \in S
  <2>1. c[1..(n-1)] \in V /\ n \in 0..N
    BY <1>4
  <2>2. c[1..n] \in V
    BY <1>2, <2>1
  <2> QED  BY <2>1, <2>2
<1>5. 0..N \subseteq S
  <2> HIDE DEF S
  <2> QED  BY <1>3, <1>4, Induction
<1>6. h \in [0..N -> V]
  BY <1>5
<1>7. ASSUME NEW n \in 1..N PROVE h[n] = G[<<h[n-1], n>>]
  <2>1. n - 1 \in 0..N /\ n \in 0..N
    OBVIOUS
  <2>2. c[1..(n-1)] \in V
    BY <1>5, <2>1
  <2>3. c[1..n] = G[<<c[1..(n-1)], n>>]
    BY <1>2, <2>2
  <2>4. h[n] = c[1..n] /\ h[n-1] = c[1..(n-1)]
    BY <2>1
  <2> QED  BY <2>3, <2>4
<1>8. h[0] = base /\ c[1..N] = h[N]
  BY <1>1
<1> HIDE DEF h
<1> QED  BY <1>6, <1>7, <1>8 DEF StepByStep

-----------------------------------------------------------------------------
(* Rows and their order.                                                   *)

\* Rows of a query: a finite set, no two with the same stage and number.
Rows(S) ==
  /\ IsFiniteSet(S)
  /\ \A r \in S : r.stage \in Nat /\ r.number \in Nat /\ r.report.score \in 0..100
  /\ \A r, s \in S : r.stage = s.stage /\ r.number = s.number => r = s

\* ORDER BY position, attempt_number is a total order of rows.
LEMMA BeforeOrders ==
  ASSUME NEW S, Rows(S)
  PROVE  /\ \A r \in S : ~Before(r, r)
         /\ \A r, s \in S : r # s => Before(r, s) \/ Before(s, r)
         /\ \A r, s, t \in S : Before(r, s) /\ Before(s, t) => Before(r, t)
<1>1. \A r \in S : ~Before(r, r)
  BY DEF Rows, Before
<1>2. \A r, s \in S : r # s => Before(r, s) \/ Before(s, r)
  BY DEF Rows, Before
<1>3. ASSUME NEW r \in S, NEW s \in S, NEW t \in S, Before(r, s), Before(s, t)
      PROVE  Before(r, t)
  BY <1>3 DEF Rows, Before
<1> QED  BY <1>1, <1>2, <1>3

\* The members of a finite set can be listed: each at its rank.
LEMMA RowsAreListed ==
  ASSUME NEW S, Rows(S)
  PROVE  Listings(S) # {}
<1> DEFINE n == Cardinality(S)
           Below(r) == {t \in S : Before(t, r)}
           rank == [r \in S |-> Cardinality(Below(r)) + 1]
           list == [i \in 1..n |-> CHOOSE r \in S : rank[r] = i]
<1>1. IsFiniteSet(S) /\ n \in Nat
  BY FS_CardinalityType DEF Rows
<1>2. ASSUME NEW r \in S PROVE rank[r] \in 1..n
  <2>1. Below(r) \in SUBSET (S \ {r})
    BY BeforeOrders
  <2>2. IsFiniteSet(S \ {r}) /\ Cardinality(S \ {r}) = n - 1
    BY <1>1, FS_RemoveElement
  <2>3. IsFiniteSet(Below(r)) /\ Cardinality(Below(r)) <= n - 1
    <3> HIDE DEF n, Below
    <3> QED BY <2>1, <2>2, FS_Subset
  <2>4. Cardinality(Below(r)) \in Nat
    <3> HIDE DEF Below
    <3> QED BY <2>3, FS_CardinalityType
  <2> HIDE DEF n, Below
  <2> QED  BY <1>1, <2>3, <2>4
<1>3. ASSUME NEW r \in S, NEW s \in S, Before(r, s) PROVE rank[r] < rank[s]
  <2>1. Below(r) \in SUBSET Below(s)
    BY <1>3, BeforeOrders
  <2>2. Below(r) # Below(s)
    BY <1>3, BeforeOrders
  <2>3. IsFiniteSet(Below(s))
    <3>1. Below(s) \in SUBSET S
      OBVIOUS
    <3> HIDE DEF Below
    <3> QED BY <1>1, <3>1, FS_Subset
  <2>4. Cardinality(Below(r)) <= Cardinality(Below(s)) /\ Cardinality(Below(r)) # Cardinality(Below(s))
    <3> HIDE DEF Below
    <3> QED BY <2>1, <2>2, <2>3, FS_Subset
  <2>5. Cardinality(Below(r)) \in Nat /\ Cardinality(Below(s)) \in Nat
    <3> HIDE DEF Below
    <3> QED BY <2>1, <2>3, FS_Subset, FS_CardinalityType
  <2> HIDE DEF Below
  <2> QED  BY <2>4, <2>5
<1>4. rank \in [S -> 1..n] /\ \A r, s \in S : r # s => rank[r] # rank[s]
  <2>1. rank \in [S -> 1..n]
    BY <1>2
  <2> HIDE DEF rank, n
  <2>2. \A r, s \in S : r # s => rank[r] < rank[s] \/ rank[s] < rank[r]
    BY <1>3, BeforeOrders
  <2>3. \A r \in S : rank[r] \in Nat
    BY <2>1, <1>1
  <2> QED BY <2>1, <2>2, <2>3
<1>5. \A i \in 1..n : \E r \in S : rank[r] = i
  <2> HIDE DEF rank
  <2>1. rank \in Injection(S, 1..n)
    BY <1>4 DEF Injection, IsInjective
  <2>2. IsFiniteSet(1..n) /\ Cardinality(1..n) = n
    <3> HIDE DEF n
    <3>1. 1 \in Int /\ n \in Int
      BY <1>1
    <3> QED  BY <1>1, <3>1, FS_Interval
  <2>3. rank \in Surjection(S, 1..n)
    <3> HIDE DEF n
    <3>1. Cardinality(S) = Cardinality(1..n)
      BY <2>2 DEF n
    <3> QED BY <2>1, <2>2, <3>1, FS_Injection
  <2> QED  BY <2>3 DEF Surjection
<1>6. \A i \in 1..n : list[i] \in S /\ rank[list[i]] = i
  <2> HIDE DEF rank, n
  <2> QED  BY <1>5
<1>7. ASSUME NEW i \in 1..n, NEW j \in 1..n, i < j PROVE Before(list[i], list[j])
  <2> HIDE DEF rank, list, n
  <2>1. list[i] # list[j]
    BY <1>6, <1>7
  <2>2. ~Before(list[j], list[i])
    BY <1>1, <1>3, <1>6, <1>7
  <2> QED  BY <1>6, <2>1, <2>2, BeforeOrders
<1>8. list \in [1..n -> S]
  <2> HIDE DEF rank
  <2> QED  BY <1>6
<1>9. list \in Listings(S)
  <2> HIDE DEF list
  <2> QED BY <1>7, <1>8 DEF Listings
<1> QED  BY <1>9

\* Every member is listed once.
LEMMA InOrderLists ==
  ASSUME NEW S, Rows(S)
  PROVE  /\ Cardinality(S) \in Nat
         /\ InOrder(S) \in [1..Cardinality(S) -> S]
         /\ \A i, j \in 1..Cardinality(S) : i < j => Before(InOrder(S)[i], InOrder(S)[j])
         /\ ToSet(InOrder(S)) = S
<1> DEFINE n == Cardinality(S)
           list == InOrder(S)
<1>1. IsFiniteSet(S) /\ n \in Nat
  BY FS_CardinalityType DEF Rows
<1>2. list \in Listings(S)
  BY RowsAreListed DEF InOrder
<1> HIDE DEF list
<1>3. list \in [1..n -> S] /\ \A i, j \in 1..n : i < j => Before(list[i], list[j])
  BY <1>2 DEF Listings
<1>4. ToSet(list) = S
  <2> HIDE DEF n
  <2>1. \A i, j \in 1..n : i # j => i < j \/ j < i
    BY <1>1
  <2>2. \A i, j \in 1..n : i # j => list[i] # list[j]
    BY <1>3, <2>1, BeforeOrders
  <2>3. list \in Injection(1..n, S)
    BY <1>3, <2>2 DEF Injection, IsInjective
  <2>4. Cardinality(1..n) = Cardinality(S)
    <3>1. 1 \in Int /\ n \in Int
      BY <1>1
    <3>2. Cardinality(1..n) = n
      BY <1>1, <3>1, FS_Interval
    <3> QED  BY <3>2 DEF n
  <2>5. list \in Surjection(1..n, S)
    BY <1>1, <2>3, <2>4, FS_Injection
  <2> QED  BY <1>3, <2>5 DEF Surjection, ToSet
<1> QED  BY <1>1, <1>3, <1>4 DEF list

-----------------------------------------------------------------------------
(* The winners.                                                            *)

\* Winners of some of the stages of S.
Partial(S) == UNION {[D -> S] : D \in SUBSET {r.stage : r \in S}}

LEMMA PartialIs ==
  ASSUME NEW S, NEW best
  PROVE  best \in Partial(S) <=> /\ best \in [DOMAIN best -> S]
                                 /\ DOMAIN best \subseteq {r.stage : r \in S}
  BY DEF Partial

\* process_report begins without winners and goes on to winners of more stages.
LEMMA NoWinners ==
  ASSUME NEW S
  PROVE  << >> \in Partial(S) /\ DOMAIN << >> = {}
<1>1. DOMAIN << >> = {} /\ << >> \in [{} -> S]
  OBVIOUS
<1> QED  BY <1>1, PartialIs

LEMMA BetterIsPartial ==
  ASSUME NEW S, NEW best \in Partial(S), NEW row \in S
  PROVE  Better(best, row) \in Partial(S)
<1> DEFINE next == [s \in DOMAIN best \cup {row.stage} |-> IF s = row.stage THEN row ELSE best[s]]
<1>1. best \in [DOMAIN best -> S] /\ DOMAIN best \subseteq {r.stage : r \in S}
  BY PartialIs
<1>2. DOMAIN next = DOMAIN best \cup {row.stage}
  OBVIOUS
<1>3. next \in [DOMAIN next -> S] /\ DOMAIN next \subseteq {r.stage : r \in S}
  BY <1>1
<1>4. next \in Partial(S)
  <2> HIDE DEF next
  <2> QED  BY <1>3, PartialIs
<1> HIDE DEF next
<1>5. Better(best, row) \in {best, next}
  BY DEF Better, next
<1> QED  BY <1>4, <1>5

\* The loop over the rows.
LEMMA WinnersSteps ==
  ASSUME NEW S, Rows(S)
  PROVE  \E h \in [0..Cardinality(S) -> Partial(S)] :
           /\ h[0] = << >> /\ Winners(S) = h[Cardinality(S)]
           /\ \A n \in 1..Cardinality(S) : h[n] = Better(h[n-1], InOrder(S)[n])
<1> DEFINE N == Cardinality(S)
           list == InOrder(S)
           V == Partial(S)
           G == [p \in V \X (1..N) |-> Better(p[1], list[p[2]])]
           D == SUBSET (1..N)
           P(f) == f = [s \in D |-> IF s = {} THEN << >>
                                    ELSE Better(f[s \ {Max(s)}], list[Max(s)])]
           c == CHOOSE f : P(f)
<1>0. N \in Nat /\ list \in [1..N -> S] /\ DOMAIN list = 1..N
  BY InOrderLists
<1> HIDE DEF N, list, V
<1>1. << >> \in V /\ G \in [V \X (1..N) -> V]
  BY <1>0, NoWinners, BetterIsPartial DEF V
<1>2. \A s \in D : s # {} => Max(s) \in 1..N
  BY <1>0, LastIsMember
<1>3. P(c)
  <2>1. PICK f \in [D -> V] : FoldsTo(f, D, << >>, G)
    <3> HIDE DEF G
    <3> QED  BY <1>0, <1>1, FoldExists
  <2>2. \A s \in D : s # {} => G[<<f[s \ {Max(s)}], Max(s)>>]
                                = Better(f[s \ {Max(s)}], list[Max(s)])
    BY <1>2
  <2>3. P(f)
    <3> HIDE DEF G
    <3> QED  BY <2>1, <2>2 DEF FoldsTo
  <2> QED  BY <2>3
<1>4. Winners(S) = c[1..N]
  BY <1>0 DEF Winners, FoldLeft, MapThenFoldSet, list
<1> HIDE DEF c
<1>5. c[{}] = << >>
  BY <1>3
<1>6. \A s \in D : s # {} /\ c[s \ {Max(s)}] \in V => c[s] = G[<<c[s \ {Max(s)}], Max(s)>>]
  BY <1>2, <1>3
<1>7. PICK h \in [0..N -> V] : c[1..N] = h[N] /\ StepByStep(h, N, << >>, G)
  <2>1. TakesSteps(c, N, V, << >>, G)
    BY <1>5, <1>6 DEF TakesSteps
  <2> HIDE DEF G
  <2> QED  BY <1>0, <1>1, <2>1, FoldValues
<1>8. ASSUME NEW n \in 1..N PROVE h[n] = Better(h[n-1], list[n])
  <2>1. n - 1 \in 0..N
    BY <1>0
  <2>2. h[n] = G[<<h[n-1], n>>] /\ h[n-1] \in V
    BY <1>7, <2>1 DEF StepByStep
  <2> QED  BY <2>2
<1> QED  BY <1>4, <1>7, <1>8 DEF StepByStep, N, list, V

\* The winners of the first k rows: of every stage seen, one that no row beats.
BestUpTo(best, list, k) ==
  /\ \A s \in DOMAIN best : best[s].stage = s
  /\ \A i \in 1..k : list[i].stage \in DOMAIN best /\ ~Beats(list[i], best[list[i].stage])

\* One row more: it wins, or it is beaten like those before it.
LEMMA BetterIsBest ==
  ASSUME NEW S, Rows(S), NEW N \in Nat, NEW list \in [1..N -> S], NEW k \in 1..N,
         NEW best \in Partial(S), BestUpTo(best, list, k - 1)
  PROVE  BestUpTo(Better(best, list[k]), list, k)
<1> DEFINE row == list[k]
           next == [s \in DOMAIN best \cup {row.stage} |-> IF s = row.stage THEN row ELSE best[s]]
<1>1. row \in S /\ \A i \in 1..k : list[i] \in S /\ (i = k \/ i \in 1..(k-1))
  OBVIOUS
<1>2. best \in [DOMAIN best -> S]
  BY PartialIs
<1>0. \A r \in S : r.report.score \in Int /\ r.number \in Int
  <2> SUFFICES ASSUME NEW r \in S PROVE r.report.score \in Int /\ r.number \in Int
    OBVIOUS
  <2> DEFINE score == r.report.score
  <2>1. score \in 0..100 /\ r.number \in Nat
    BY DEF Rows
  <2> HIDE DEF score
  <2>2. score \in Int /\ r.number \in Int
    BY <2>1
  <2> QED  BY <2>2 DEF score
<1>3. \A r, s, t \in S : ~Beats(r, s) /\ Beats(t, s) => ~Beats(r, t)
  BY <1>0 DEF Beats
<1>4. \A r \in S : ~Beats(r, r)
  BY <1>0 DEF Beats
<1>5. CASE row.stage \in DOMAIN best /\ ~Beats(row, best[row.stage])
  <2>1. Better(best, row) = best
    BY <1>5 DEF Better
  <2> QED  BY <1>1, <1>5, <2>1 DEF BestUpTo
<1>6. CASE ~(row.stage \in DOMAIN best /\ ~Beats(row, best[row.stage]))
  <2>1. Better(best, row) = next
    BY <1>6 DEF Better
  <2>2. DOMAIN next = DOMAIN best \cup {row.stage} /\ next[row.stage] = row
        /\ \A s \in DOMAIN best : s # row.stage => next[s] = best[s]
    OBVIOUS
  <2> HIDE DEF next, row
  <2>3. \A s \in DOMAIN next : next[s].stage = s
    BY <2>2 DEF BestUpTo
  <2>4. ASSUME NEW i \in 1..k
        PROVE  list[i].stage \in DOMAIN next /\ ~Beats(list[i], next[list[i].stage])
    <3>1. CASE i = k
      BY <1>1, <1>4, <2>2, <3>1 DEF row
    <3>2. CASE i \in 1..(k-1) /\ list[i].stage # row.stage
      BY <2>2, <3>2 DEF BestUpTo
    <3>3. CASE i \in 1..(k-1) /\ list[i].stage = row.stage
      <4>1. row.stage \in DOMAIN best /\ ~Beats(list[i], best[row.stage])
        BY <3>3 DEF BestUpTo
      <4>2. Beats(row, best[row.stage]) /\ best[row.stage] \in S
        BY <1>2, <1>6, <4>1
      <4> QED  BY <1>1, <1>3, <2>2, <3>3, <4>1, <4>2
    <3> QED  BY <1>1, <3>1, <3>2, <3>3
  <2> QED  BY <2>1, <2>3, <2>4 DEF BestUpTo, row
<1> QED  BY <1>5, <1>6

\* The rows that win.
Winning(S) == {Winners(S)[s] : s \in DOMAIN Winners(S)}

\* After the last row.
LEMMA WinnersAreBest ==
  ASSUME NEW S, Rows(S)
  PROVE  /\ Winners(S) \in Partial(S)
         /\ BestUpTo(Winners(S), InOrder(S), Cardinality(S))
<1> DEFINE N == Cardinality(S)
           list == InOrder(S)
<1>1. N \in Nat /\ list \in [1..N -> S]
  BY InOrderLists
<1>2. PICK h \in [0..N -> Partial(S)] :
        /\ h[0] = << >> /\ Winners(S) = h[N]
        /\ \A n \in 1..N : h[n] = Better(h[n-1], list[n])
  BY WinnersSteps
<1> HIDE DEF N, list
<1> DEFINE T == {n \in 0..N : BestUpTo(h[n], list, n)}
<1>3. 0 \in T
  BY <1>1, <1>2, NoWinners DEF BestUpTo
<1>4. ASSUME NEW n \in 1..N, n - 1 \in T PROVE n \in T
  <2>1. n - 1 \in 0..N /\ n \in 0..N /\ BestUpTo(h[n-1], list, n-1)
    BY <1>1, <1>4
  <2>2. h[n-1] \in Partial(S) /\ h[n] = Better(h[n-1], list[n])
    BY <1>2, <2>1
  <2>3. BestUpTo(h[n], list, n)
    BY <1>1, <2>1, <2>2, BetterIsBest
  <2> QED  BY <2>1, <2>3
<1>5. N \in T
  <2> HIDE DEF T
  <2>1. 0..N \subseteq T
    BY <1>1, <1>3, <1>4, Induction
  <2> QED  BY <1>1, <2>1
<1> QED  BY <1>1, <1>2, <1>5 DEF N, list

\* Of every stage one row wins, which no other row of the stage beats.
LEMMA WinningRows ==
  ASSUME NEW S, Rows(S)
  PROVE  /\ Winning(S) \subseteq S /\ Rows(Winning(S))
         /\ \A r, s \in Winning(S) : r.stage = s.stage => r = s
         /\ \A r \in S : \E s \in Winning(S) : s.stage = r.stage /\ ~Beats(r, s)
<1> DEFINE best == Winners(S)
<1>1. best \in Partial(S) /\ BestUpTo(best, InOrder(S), Cardinality(S))
  BY WinnersAreBest
<1>2. Winning(S) = {best[s] : s \in DOMAIN best}
  BY DEF Winning
<1> HIDE DEF best
<1>3. Winning(S) \subseteq S
  BY <1>1, <1>2, PartialIs
<1>4. Rows(Winning(S))
  <2>1. IsFiniteSet(Winning(S))
    BY <1>3, FS_Subset DEF Rows
  <2> QED  BY <1>3, <2>1 DEF Rows
<1>5. \A r, s \in Winning(S) : r.stage = s.stage => r = s
  BY <1>1, <1>2 DEF BestUpTo
<1>6. ASSUME NEW r \in S PROVE \E s \in Winning(S) : s.stage = r.stage /\ ~Beats(r, s)
  <2>1. PICK i \in 1..Cardinality(S) : r = InOrder(S)[i]
    BY InOrderLists DEF ToSet
  <2>2. r.stage \in DOMAIN best /\ ~Beats(r, best[r.stage]) /\ best[r.stage].stage = r.stage
    BY <1>1, <2>1 DEF BestUpTo
  <2> QED  BY <1>2, <2>2
<1> QED  BY <1>3, <1>4, <1>5, <1>6

-----------------------------------------------------------------------------
(* Averages.                                                               *)

\* The sum of the scores, one after another.
LEMMA TotalSteps ==
  ASSUME NEW rows, NEW N \in Nat, DOMAIN rows = 1..N,
         \A i \in 1..N : rows[i].report.score \in Int
  PROVE  \E h \in [0..N -> Int] :
           h[0] = 0 /\ Total(rows) = h[N]
           /\ \A n \in 1..N : h[n] = h[n-1] + rows[n].report.score
<1> DEFINE G == [p \in Int \X (1..N) |-> p[1] + rows[p[2]].report.score]
           D == SUBSET (1..N)
           P(f) == f = [s \in D |-> IF s = {} THEN 0
                                    ELSE f[s \ {Max(s)}] + rows[Max(s)].report.score]
           c == CHOOSE f : P(f)
<1>1. 0 \in Int /\ G \in [Int \X (1..N) -> Int]
  OBVIOUS
<1>2. \A s \in D : s # {} => Max(s) \in 1..N
  BY LastIsMember
<1>3. P(c)
  <2>1. PICK f \in [D -> Int] : FoldsTo(f, D, 0, G)
    <3> HIDE DEF G
    <3> QED  BY <1>1, FoldExists
  <2>2. \A s \in D : s # {} => G[<<f[s \ {Max(s)}], Max(s)>>]
                                = f[s \ {Max(s)}] + rows[Max(s)].report.score
    BY <1>2
  <2>3. P(f)
    <3> HIDE DEF G
    <3> QED  BY <2>1, <2>2 DEF FoldsTo
  <2> QED  BY <2>3
<1>4. Total(rows) = c[1..N]
  BY DEF Total, FoldLeft, MapThenFoldSet
<1> HIDE DEF c
<1>5. c[{}] = 0
  BY <1>3
<1>6. \A s \in D : s # {} /\ c[s \ {Max(s)}] \in Int => c[s] = G[<<c[s \ {Max(s)}], Max(s)>>]
  BY <1>2, <1>3
<1>7. PICK h \in [0..N -> Int] : c[1..N] = h[N] /\ StepByStep(h, N, 0, G)
  <2>1. TakesSteps(c, N, Int, 0, G)
    BY <1>5, <1>6 DEF TakesSteps
  <2> HIDE DEF G
  <2> QED  BY <1>1, <2>1, FoldValues
<1>8. \A n \in 1..N : h[n] = h[n-1] + rows[n].report.score
  <2>1. ASSUME NEW n \in 1..N PROVE h[n] = h[n-1] + rows[n].report.score
    <3>1. n - 1 \in 0..N
      OBVIOUS
    <3>2. h[n] = G[<<h[n-1], n>>] /\ h[n-1] \in Int
      BY <1>7, <3>1 DEF StepByStep
    <3> QED  BY <3>2
  <2> QED  BY <2>1
<1> QED  BY <1>4, <1>7, <1>8 DEF StepByStep

\* A sum lies between so many times the least and the greatest.
LEMMA TotalBounds ==
  ASSUME NEW N \in Nat, NEW rows, DOMAIN rows = 1..N, NEW lo \in Nat, NEW hi \in Nat,
         \A i \in 1..N : rows[i].report.score \in lo..hi
  PROVE  Total(rows) \in Int /\ N * lo <= Total(rows) /\ Total(rows) <= N * hi
<1>1. PICK h \in [0..N -> Int] :
        h[0] = 0 /\ Total(rows) = h[N]
        /\ \A n \in 1..N : h[n] = h[n-1] + rows[n].report.score
  <2>1. \A i \in 1..N : rows[i].report.score \in Int
    OBVIOUS
  <2> QED  BY <2>1, TotalSteps
<1> DEFINE T == {n \in 0..N : n * lo <= h[n] /\ h[n] <= n * hi}
<1>2. 0 \in T
  BY <1>1
<1>3. ASSUME NEW n \in 1..N, n - 1 \in T PROVE n \in T
  <2>1. n - 1 \in 0..N /\ n \in 0..N /\ (n - 1) * lo <= h[n-1] /\ h[n-1] <= (n - 1) * hi
    BY <1>3
  <2> DEFINE g == h[n-1]
             score == rows[n].report.score
  <2>2. h[n] = g + score /\ g \in Int /\ score \in Int /\ lo <= score /\ score <= hi
    BY <1>1, <2>1
  <2> HIDE DEF g, score
  <2>3. (n - 1) * lo + lo = n * lo /\ (n - 1) * hi + hi = n * hi
    OBVIOUS
  <2>4. (n - 1) * lo \in Int /\ (n - 1) * hi \in Int
    OBVIOUS
  <2>5. n * lo <= g + score /\ g + score <= n * hi
    BY <2>1, <2>2, <2>3, <2>4 DEF g
  <2> QED  BY <2>1, <2>2, <2>5
<1>4. N \in T
  <2> HIDE DEF T
  <2>1. 0..N \subseteq T
    BY <1>2, <1>3, Induction
  <2> QED  BY <2>1
<1> QED  BY <1>1, <1>4

\* Quotient and remainder.
LEMMA Division ==
  ASSUME NEW t \in Nat, NEW n \in Nat \ {0}
  PROVE  /\ t \div n \in Nat /\ t % n \in 0..(n-1)
         /\ t = (t \div n) * n + (t % n)
  OBVIOUS

LEMMA QuotientIs ==
  ASSUME NEW a \in Nat, NEW d \in Nat \ {0}, NEW q \in Nat, NEW r \in 0..(d-1), a = q * d + r
  PROVE  a \div d = q
  OBVIOUS

\* The two rules of rounding differ for a tie, and by one.
LEMMA RoundingsAgree ==
  ASSUME NEW t \in Nat, NEW n \in Nat \ {0}
  PROVE  \/ RoundHalfEven(t, n) = RoundHalfUp(t, n)
         \/ /\ 2 * t = (2 * RoundHalfUp(t, n) - 1) * n
            /\ RoundHalfEven(t, n) = RoundHalfUp(t, n) - 1
<1> DEFINE q == t \div n
           r == t % n
<1>1. q \in Nat /\ r \in 0..(n-1) /\ t = q * n + r
  BY Division
<1> HIDE DEF q, r
<1>2. q * n \in Nat /\ 2 * n \in Nat \ {0} /\ 2 * t + n \in Nat
  BY <1>1
<1>3. CASE 2 * r < n
  <2>1. 2 * t + n = q * (2 * n) + (2 * r + n)
    BY <1>1, <1>2
  <2>2. 2 * r + n \in 0..(2*n-1)
    BY <1>1, <1>3
  <2>3. RoundHalfUp(t, n) = q
    BY <1>1, <1>2, <2>1, <2>2, QuotientIs DEF RoundHalfUp
  <2>4. RoundHalfEven(t, n) = q
    BY <1>1, <1>3 DEF RoundHalfEven, q, r
  <2> QED  BY <2>3, <2>4
<1>4. CASE n <= 2 * r
  <2>1. 2 * t + n = (q + 1) * (2 * n) + (2 * r - n)
    BY <1>1, <1>2
  <2>2. 2 * r - n \in 0..(2*n-1)
    BY <1>1, <1>4
  <2>3. RoundHalfUp(t, n) = q + 1
    <3>1. q + 1 \in Nat
      BY <1>1
    <3> QED  BY <3>1, <1>2, <2>1, <2>2, QuotientIs DEF RoundHalfUp
  <2>4. RoundHalfEven(t, n) = q + 1 \/ (RoundHalfEven(t, n) = q /\ 2 * r = n)
    BY <1>1, <1>4 DEF RoundHalfEven, q, r
  <2>5. 2 * r = n => 2 * t = (2 * (q + 1) - 1) * n
    BY <1>1, <1>2
  <2>6. (q + 1) - 1 = q
    BY <1>1
  <2> QED  BY <2>3, <2>4, <2>5, <2>6
<1> QED  BY <1>1, <1>3, <1>4

\* A rounded average lies where the values lie.
LEMMA RoundingBounds ==
  ASSUME NEW t \in Nat, NEW n \in Nat \ {0}, NEW lo \in Nat, NEW hi \in Nat,
         n * lo <= t, t <= n * hi
  PROVE  RoundHalfEven(t, n) \in lo..hi
<1> DEFINE q == t \div n
           r == t % n
<1>1. q \in Nat /\ r \in 0..(n-1) /\ t = q * n + r
  BY Division
<1>2. RoundHalfEven(t, n) = q \/ (RoundHalfEven(t, n) = q + 1 /\ r # 0)
  BY <1>1 DEF RoundHalfEven
<1> HIDE DEF q, r
<1>3. lo <= q
  <2>1. SUFFICES ASSUME q + 1 <= lo PROVE FALSE
    BY <1>1
  <2>2. n * (q + 1) <= n * lo
    BY <1>1, <2>1
  <2>3. n * (q + 1) = q * n + n
    BY <1>1
  <2> QED  BY <1>1, <2>2, <2>3
<1>4. q <= hi
  <2>1. SUFFICES ASSUME hi + 1 <= q PROVE FALSE
    BY <1>1
  <2>2. n * (hi + 1) <= n * q
    BY <1>1, <2>1
  <2>3. n * (hi + 1) = n * hi + n /\ n * q = q * n
    BY <1>1
  <2> QED  BY <1>1, <2>2, <2>3
<1>5. r # 0 => q + 1 <= hi
  <2>1. SUFFICES ASSUME r # 0, hi <= q PROVE FALSE
    BY <1>1
  <2>2. n * hi <= n * q
    BY <1>1, <2>1
  <2>3. n * q = q * n
    BY <1>1
  <2> QED  BY <1>1, <2>1, <2>2, <2>3
<1>6. RoundHalfEven(t, n) \in Nat
  BY <1>1, <1>2
<1> QED  BY <1>1, <1>2, <1>3, <1>4, <1>5, <1>6

-----------------------------------------------------------------------------
(* The reports of the process and the dashboard.                           *)

\* The stored reports are rows, and so are those of the enabled stages.
LEMMA StoredAreRows ==
  ASSUME TypeOK, NEW S \in SUBSET Stored
  PROVE  Rows(RowsOf(S)) /\ \A r \in RowsOf(S) : r.report \in Report
<1> DEFINE row == [a \in S |-> [stage |-> a.stage, number |-> a.number, report |-> report[a]]]
<1>1. S \subseteq Attempt /\ \A a \in S : report[a] \in Report
  BY DEF Stored, TypeOK
<1>2. IsFiniteSet(S)
  BY <1>1, FS_Subset, EvaluationsAssumption
<1>3. RowsOf(S) = {row[a] : a \in S}
  BY DEF RowsOf
<1>4. row \in Surjection(S, RowsOf(S))
  BY <1>3 DEF Surjection
<1>5. IsFiniteSet(RowsOf(S))
  <2> HIDE DEF row
  <2> QED  BY <1>2, <1>4, FS_Surjection
<1>6. \A r \in RowsOf(S) : r.report \in Report
  BY <1>1 DEF RowsOf
<1>7. ASSUME NEW r \in RowsOf(S)
      PROVE  r.stage \in Nat /\ r.number \in Nat /\ r.report.score \in 0..100
  <2>1. r.report.score \in Score
    BY <1>6 DEF Report
  <2>2. PICK a \in S : r.stage = a.stage /\ r.number = a.number
    BY DEF RowsOf
  <2> QED  BY <1>1, <2>1, <2>2, EvaluationsAssumption
<1>8. ASSUME NEW r \in RowsOf(S), NEW s \in RowsOf(S), r.stage = s.stage, r.number = s.number
      PROVE  r = s
  <2>1. PICK a \in S : r = [stage |-> a.stage, number |-> a.number, report |-> report[a]]
    BY DEF RowsOf
  <2>2. PICK b \in S : s = [stage |-> b.stage, number |-> b.number, report |-> report[b]]
    BY DEF RowsOf
  <2>3. a = b
    BY <1>1, <1>8, <2>1, <2>2, EvaluationsAssumption
  <2> QED  BY <2>1, <2>2, <2>3
<1> QED  BY <1>5, <1>6, <1>7, <1>8 DEF Rows

LEMMA EnabledAreRows ==
  ASSUME TypeOK
  PROVE  /\ Rows(EnabledRows) /\ Rows(RowsOf(Stored))
         /\ EnabledRows \subseteq RowsOf(Stored)
         /\ \A r \in EnabledRows : r.report \in Report
<1>1. {a \in Stored : enabled[a.stage]} \in SUBSET Stored /\ Stored \in SUBSET Stored
  OBVIOUS
<1>2. EnabledRows \subseteq RowsOf(Stored)
  BY DEF EnabledRows, RowsOf
<1> QED  BY <1>1, <1>2, StoredAreRows DEF EnabledRows

\* The selected reports, in the order of the stages.
LEMMA SelectedRows ==
  ASSUME NEW S, Rows(S)
  PROVE  /\ Selected(S) = InOrder(Winning(S))
         /\ Cardinality(Winning(S)) \in Nat
         /\ Selected(S) \in [1..Cardinality(Winning(S)) -> Winning(S)]
         /\ Len(Selected(S)) = Cardinality(Winning(S))
         /\ ToSet(Selected(S)) = Winning(S)
         /\ \A i, j \in DOMAIN Selected(S) : i < j => Selected(S)[i].stage < Selected(S)[j].stage
<1> DEFINE W == Winning(S)
           n == Cardinality(W)
           best == Selected(S)
<1>1. best = InOrder(W)
  BY DEF Selected, Winning
<1>2. Rows(W) /\ \A r, s \in W : r.stage = s.stage => r = s
  BY WinningRows
<1> HIDE DEF W, best
<1>3. /\ n \in Nat /\ best \in [1..n -> W] /\ ToSet(best) = W
      /\ \A i, j \in 1..n : i < j => Before(best[i], best[j])
  BY <1>1, <1>2, InOrderLists
<1>4. Len(best) = n
  <2> HIDE DEF n
  <2>1. best \in Seq(W)
    BY <1>3
  <2> QED  BY <1>3, <2>1
<1>5. \A r, s \in W : Before(r, s) => r.stage < s.stage
  <2>1. \A r \in W : ~Before(r, r)
    BY <1>2, BeforeOrders
  <2> QED  BY <1>2, <2>1 DEF Before
<1>6. \A i, j \in DOMAIN best : i < j => best[i].stage < best[j].stage
  BY <1>3, <1>5
<1> QED  BY <1>1, <1>3, <1>4, <1>6 DEF W, best

\* The parts of the report of the process.
LEMMA ProcessIs ==
  /\ Process.selected = Selected(EnabledRows)
  /\ Process.overall = RoundHalfEven(Total(Selected(EnabledRows)), Len(Selected(EnabledRows)))
  /\ Process.evaluated = Len(Selected(EnabledRows))
  /\ Process.advice = Merged(Selected(EnabledRows))
  BY DEF Process, ProcessReportOf, Average

\* The winners are what the report of the process promises.
LEMMA BestOfEachStageHolds == TypeOK => BestOfEachStage
<1> SUFFICES ASSUME TypeOK PROVE BestOfEachStage
  OBVIOUS
<1> DEFINE S == EnabledRows
           best == Selected(S)
<1>1. Rows(S)
  BY EnabledAreRows
<1>2. ToSet(best) = Winning(S) /\ \A i, j \in DOMAIN best : i < j => best[i].stage < best[j].stage
  BY <1>1, SelectedRows
<1> HIDE DEF S, best
<1>3. ToSet(best) \subseteq S
  BY <1>1, <1>2, WinningRows
<1>4. ASSUME NEW row \in S
      PROVE  \E i \in DOMAIN best :
               /\ best[i].stage = row.stage
               /\ row.report.score <= best[i].report.score
               /\ row.report.score = best[i].report.score => row.number <= best[i].number
  <2>1. PICK s \in Winning(S) : s.stage = row.stage /\ ~Beats(row, s)
    BY <1>1, WinningRows
  <2>2. PICK i \in DOMAIN best : best[i] = s
    BY <1>2, <2>1 DEF ToSet
  <2>3. s \in S
    BY <1>2, <1>3, <2>1
  <2> DEFINE sc == row.report.score
             tc == s.report.score
             sn == row.number
             tn == s.number
  <2>4. sc \in 0..100 /\ tc \in 0..100 /\ sn \in Nat /\ tn \in Nat
    BY <1>1, <2>3 DEF Rows
  <2>5. ~(sc > tc) /\ ~(sc = tc /\ sn > tn)
    BY <2>1 DEF Beats
  <2> HIDE DEF sc, tc, sn, tn
  <2>6. sc <= tc /\ (sc = tc => sn <= tn)
    BY <2>4, <2>5
  <2> QED  BY <2>1, <2>2, <2>6 DEF sc, tc, sn, tn
<1> QED  BY <1>2, <1>3, <1>4, ProcessIs DEF BestOfEachStage, S, best

\* The scores of the dashboard.
LEMMA ScoresBounded ==
  ASSUME NEW S, Rows(S), S # {}
  PROVE  LET scores == {r.report.score : r \in S} IN
         /\ Min(scores) \in 0..100 /\ Max(scores) \in 0..100
         /\ \A r \in S : r.report.score \in Min(scores)..Max(scores)
<1> DEFINE scores == {r.report.score : r \in S}
<1>1. \A r \in S : r.report.score \in 0..100
  BY DEF Rows
<1>2. scores \in SUBSET (0..100) /\ scores # {} /\ \A r \in S : r.report.score \in scores
  BY <1>1
<1> HIDE DEF scores
<1>3. Max(scores) \in scores /\ \A y \in scores : y <= Max(scores)
  <2>1. 100 \in Nat
    OBVIOUS
  <2> QED  BY <1>2, <2>1, MaxIsMember
<1>4. Min(scores) \in scores /\ \A y \in scores : Min(scores) <= y
  <2>1. scores \in SUBSET Nat
    BY <1>2
  <2>2. PICK m \in scores : \A y \in scores : m <= y
    BY <1>2, <2>1, NatMin
  <2> QED  BY <2>2 DEF Min
<1>5. Min(scores) \in 0..100 /\ Max(scores) \in 0..100
  BY <1>2, <1>3, <1>4
<1>6. \A y \in scores : y \in Min(scores)..Max(scores)
  BY <1>2, <1>3, <1>4
<1>7. \A r \in S : r.report.score \in Min(scores)..Max(scores)
  BY <1>2, <1>6
<1> QED  BY <1>5, <1>7 DEF scores

\* Both averages are of the same total: the selected rows are all the rows.
LEMMA SummariesAgreeHolds == TypeOK => SummariesAgree
<1> SUFFICES ASSUME TypeOK, EnabledRows # {}, ToSet(Process.selected) = RowsOf(Stored)
             PROVE  LET dashboard == DashboardScores(RowsOf(Stored)) IN
                    /\ Process.overall \in dashboard.minimum..dashboard.maximum
                    /\ \/ Process.overall = dashboard.average
                       \/ /\ 2 * Total(Process.selected) = (2 * dashboard.average - 1) * Process.evaluated
                          /\ Process.overall = dashboard.average - 1
  BY DEF SummariesAgree
<1> DEFINE R == RowsOf(Stored)
           n == Cardinality(R)
           list == InOrder(R)
           scores == {r.report.score : r \in R}
           dashboard == DashboardScores(R)
<1>1. Rows(EnabledRows) /\ Rows(R) /\ R # {}
  BY EnabledAreRows
<1>2. Process.selected = list /\ Len(list) = n /\ Process.evaluated = n
  <2>1. R = Winning(EnabledRows)
    BY <1>1, SelectedRows, ProcessIs
  <2> QED  BY <1>1, <2>1, SelectedRows, ProcessIs
<1>3. /\ dashboard.average = RoundHalfUp(Total(list), n)
      /\ dashboard.minimum = Min(scores) /\ dashboard.maximum = Max(scores)
  BY DEF DashboardScores
<1>4. Process.overall = RoundHalfEven(Total(list), n)
  BY <1>2, ProcessIs
<1>5. n \in Nat \ {0} /\ list \in [1..n -> R]
  <2>1. IsFiniteSet(R) /\ n \in Nat /\ list \in [1..n -> R]
    BY <1>1, InOrderLists DEF Rows
  <2> QED  BY <1>1, <2>1, FS_EmptySet
<1>6. /\ Min(scores) \in 0..100 /\ Max(scores) \in 0..100
      /\ \A r \in R : r.report.score \in Min(scores)..Max(scores)
  BY <1>1, ScoresBounded
<1> HIDE DEF R, n, list, scores, dashboard
<1> DEFINE t == Total(list)
           lo == Min(scores)
           hi == Max(scores)
<1>7. lo \in Nat /\ hi \in Nat
  BY <1>6
<1>8. \A i \in 1..n : list[i].report.score \in lo..hi
  BY <1>5, <1>6
<1> HIDE DEF lo, hi
<1>9. t \in Int /\ n * lo <= t /\ t <= n * hi
  BY <1>5, <1>7, <1>8, TotalBounds
<1>10. t \in Nat
  <2>1. n * lo \in Nat
    BY <1>5, <1>7
  <2> QED  BY <1>9, <2>1
<1> HIDE DEF t
<1>11. RoundHalfEven(t, n) \in lo..hi
  BY <1>5, <1>7, <1>9, <1>10, RoundingBounds
<1>12. \/ RoundHalfEven(t, n) = RoundHalfUp(t, n)
       \/ /\ 2 * t = (2 * RoundHalfUp(t, n) - 1) * n
          /\ RoundHalfEven(t, n) = RoundHalfUp(t, n) - 1
  BY <1>5, <1>10, RoundingsAgree
<1> QED  BY <1>2, <1>3, <1>4, <1>11, <1>12 DEF t, lo, hi, R, dashboard

-----------------------------------------------------------------------------
(* The merged advice.                                                      *)

Text == UNION {ToSet(advice) : advice \in Advice}
Item == [text : Text, stage : Nat]

\* No two items have one key.
OneEach(items) ==
  \A i, j \in DOMAIN items : items[i].text.key = items[j].text.key => i = j

\* The items of list, up to the j-th, have been added to items, which gave next.
Added(items, next, list, j) ==
  /\ OneEach(next)
  /\ DOMAIN items \subseteq DOMAIN next /\ \A x \in DOMAIN items : next[x] = items[x]
  /\ \A i \in 1..j : \E x \in DOMAIN next : next[x].text.key = list[i].text.key
  /\ \A x \in DOMAIN next : x \in DOMAIN items \/ \E i \in 1..j : next[x] = list[i]

LEMMA UnseenIsSeq ==
  ASSUME NEW items \in Seq(Item), NEW item \in Item
  PROVE  Unseen(items, item) \in Seq(Item)
  BY DEF Unseen

\* One text more: it has an equal one already or is added at the end.
LEMMA UnseenAdds ==
  ASSUME NEW items, NEW next \in Seq(Item), NEW m \in Nat, NEW list, DOMAIN list = 1..m,
         NEW j \in 1..m, list[j] \in Item, Added(items, next, list, j - 1)
  PROVE  Added(items, Unseen(next, list[j]), list, j)
<1> DEFINE item == list[j]
           n == Len(next)
           more == Append(next, item)
<1>1. \A i \in 1..j : i = j \/ i \in 1..(j-1)
  OBVIOUS
<1>2. \A i \in 1..(j-1) : i \in 1..j
  OBVIOUS
<1>3. j \in 1..j
  OBVIOUS
<1>4. CASE \E x \in DOMAIN next : SameText(next[x].text, item.text)
  <2>1. Unseen(next, item) = next
    BY <1>4 DEF Unseen
  <2> QED  BY <1>1, <1>2, <1>4, <2>1 DEF Added, SameText
<1>5. CASE ~ \E x \in DOMAIN next : SameText(next[x].text, item.text)
  <2>1. Unseen(next, item) = more
    BY <1>5 DEF Unseen
  <2>2. n \in Nat /\ DOMAIN next = 1..n /\ DOMAIN more = 1..(n+1)
        /\ more[n+1] = item /\ \A x \in 1..n : more[x] = next[x]
    OBVIOUS
  <2>3. \A x \in 1..(n+1) : x = n + 1 \/ x \in 1..n
    BY <2>2
  <2>4. n + 1 \in 1..(n+1) /\ 1..n \subseteq 1..(n+1)
    BY <2>2
  <2> HIDE DEF item, n, more
  <2>5. OneEach(more)
    <3>1. \A x, y \in 1..n : next[x].text.key = next[y].text.key => x = y
      BY <2>2 DEF Added, OneEach
    <3>2. \A x \in 1..n : next[x].text.key # item.text.key
      BY <1>5, <2>2 DEF SameText
    <3> SUFFICES ASSUME NEW x \in 1..(n+1), NEW y \in 1..(n+1),
                        more[x].text.key = more[y].text.key
                 PROVE  x = y
      BY <2>2 DEF OneEach
    <3> QED  BY <2>2, <2>3, <3>1, <3>2
  <2>6. DOMAIN items \subseteq DOMAIN more /\ \A x \in DOMAIN items : more[x] = items[x]
    BY <2>2, <2>4 DEF Added
  <2>7. ASSUME NEW i \in 1..j PROVE \E x \in DOMAIN more : more[x].text.key = list[i].text.key
    <3>1. CASE i = j
      BY <2>2, <2>4, <3>1 DEF item
    <3>2. CASE i \in 1..(j-1)
      <4>1. PICK x \in DOMAIN next : next[x].text.key = list[i].text.key
        BY <3>2 DEF Added
      <4> QED  BY <2>2, <2>4, <4>1
    <3> QED  BY <1>1, <3>1, <3>2
  <2>8. ASSUME NEW x \in DOMAIN more
        PROVE  x \in DOMAIN items \/ \E i \in 1..j : more[x] = list[i]
    <3>1. CASE x = n + 1
      BY <1>3, <2>2, <3>1 DEF item
    <3>2. CASE x \in 1..n
      BY <1>2, <2>2, <3>2 DEF Added
    <3> QED  BY <2>2, <2>3, <3>1, <3>2
  <2>9. Added(items, more, list, j)
    BY <2>5, <2>6, <2>7, <2>8 DEF Added
  <2> QED  BY <2>1, <2>9 DEF item
<1> QED  BY <1>4, <1>5

\* The loop over the texts of one report.
LEMMA UnseenSteps ==
  ASSUME NEW items \in Seq(Item), NEW N \in Nat, NEW list \in [1..N -> Item]
  PROVE  \E h \in [0..N -> Seq(Item)] :
           /\ h[0] = items /\ FoldLeft(Unseen, items, list) = h[N]
           /\ \A n \in 1..N : h[n] = Unseen(h[n-1], list[n])
<1> DEFINE V == Seq(Item)
           G == [p \in V \X (1..N) |-> Unseen(p[1], list[p[2]])]
           D == SUBSET (1..N)
           P(f) == f = [s \in D |-> IF s = {} THEN items
                                    ELSE Unseen(f[s \ {Max(s)}], list[Max(s)])]
           c == CHOOSE f : P(f)
<1>1. items \in V /\ G \in [V \X (1..N) -> V]
  BY UnseenIsSeq
<1> HIDE DEF V
<1>2. \A s \in D : s # {} => Max(s) \in 1..N
  BY LastIsMember
<1>3. P(c)
  <2>1. PICK f \in [D -> V] : FoldsTo(f, D, items, G)
    <3> HIDE DEF G
    <3> QED  BY <1>1, FoldExists
  <2>2. \A s \in D : s # {} => G[<<f[s \ {Max(s)}], Max(s)>>]
                                = Unseen(f[s \ {Max(s)}], list[Max(s)])
    BY <1>2
  <2>3. P(f)
    <3> HIDE DEF G
    <3> QED  BY <2>1, <2>2 DEF FoldsTo
  <2> QED  BY <2>3
<1>4. FoldLeft(Unseen, items, list) = c[1..N]
  BY DEF FoldLeft, MapThenFoldSet
<1> HIDE DEF c
<1>5. c[{}] = items
  BY <1>3
<1>6. \A s \in D : s # {} /\ c[s \ {Max(s)}] \in V => c[s] = G[<<c[s \ {Max(s)}], Max(s)>>]
  BY <1>2, <1>3
<1>7. PICK h \in [0..N -> V] : c[1..N] = h[N] /\ StepByStep(h, N, items, G)
  <2>1. TakesSteps(c, N, V, items, G)
    BY <1>5, <1>6 DEF TakesSteps
  <2> HIDE DEF G
  <2> QED  BY <1>1, <2>1, FoldValues
<1>8. ASSUME NEW n \in 1..N PROVE h[n] = Unseen(h[n-1], list[n])
  <2>1. n - 1 \in 0..N
    OBVIOUS
  <2>2. h[n] = G[<<h[n-1], n>>] /\ h[n-1] \in V
    BY <1>7, <2>1 DEF StepByStep
  <2> QED  BY <2>2
<1> QED  BY <1>4, <1>7, <1>8 DEF StepByStep, V

\* A report whose texts are known.
Advises(row) == row.stage \in Nat /\ row.report.advice \in Advice

\* Its texts, each with its stage.
LEMMA SourcedIs ==
  ASSUME NEW row, Advises(row)
  PROVE  /\ Len(row.report.advice) \in Nat
         /\ DOMAIN row.report.advice = 1..Len(row.report.advice)
         /\ Sourced(row) \in [1..Len(row.report.advice) -> Item]
         /\ \A i \in 1..Len(row.report.advice) :
              /\ Sourced(row)[i].text = row.report.advice[i]
              /\ Sourced(row)[i].stage = row.stage
<1> DEFINE advice == row.report.advice
<1>1. advice \in Seq(ToSet(advice)) /\ ToSet(advice) \subseteq Text /\ row.stage \in Nat
  BY EvaluationsAssumption DEF Advises, Text
<1> HIDE DEF advice
<1>2. Len(advice) \in Nat /\ DOMAIN advice = 1..Len(advice)
  BY <1>1
<1>3. \A i \in DOMAIN advice : advice[i] \in Text
  BY <1>1 DEF ToSet
<1>4. Sourced(row) = [i \in DOMAIN advice |-> [text |-> advice[i], stage |-> row.stage]]
  BY DEF Sourced, advice
<1>5. Sourced(row) \in [1..Len(advice) -> Item]
  BY <1>1, <1>2, <1>3, <1>4 DEF Item
<1>6. \A i \in 1..Len(advice) : Sourced(row)[i].text = advice[i] /\ Sourced(row)[i].stage = row.stage
  BY <1>2, <1>4
<1> QED  BY <1>2, <1>5, <1>6 DEF advice

\* The texts of one more report.
LEMMA ReportAdded ==
  ASSUME NEW items \in Seq(Item), OneEach(items), NEW row, Advises(row)
  PROVE  /\ AddReport(items, row) \in Seq(Item)
         /\ Added(items, AddReport(items, row), Sourced(row), Len(row.report.advice))
<1> DEFINE N == Len(row.report.advice)
           list == Sourced(row)
<1>1. N \in Nat /\ list \in [1..N -> Item]
  BY SourcedIs
<1> HIDE DEF N, list
<1>2. PICK h \in [0..N -> Seq(Item)] :
        /\ h[0] = items /\ FoldLeft(Unseen, items, list) = h[N]
        /\ \A n \in 1..N : h[n] = Unseen(h[n-1], list[n])
  BY <1>1, UnseenSteps
<1> DEFINE T == {n \in 0..N : Added(items, h[n], list, n)}
<1>3. 0 \in T
  BY <1>1, <1>2 DEF Added
<1>4. ASSUME NEW n \in 1..N, n - 1 \in T PROVE n \in T
  <2>1. n - 1 \in 0..N /\ n \in 0..N /\ Added(items, h[n-1], list, n-1)
    BY <1>1, <1>4
  <2>2. h[n-1] \in Seq(Item) /\ h[n] = Unseen(h[n-1], list[n])
    BY <1>2, <2>1
  <2>3. list[n] \in Item /\ DOMAIN list = 1..N
    BY <1>1
  <2>4. Added(items, h[n], list, n)
    BY <1>1, <2>1, <2>2, <2>3, UnseenAdds
  <2> QED  BY <2>1, <2>4
<1>5. N \in T
  <2> HIDE DEF T
  <2>1. 0..N \subseteq T
    BY <1>1, <1>3, <1>4, Induction
  <2> QED  BY <1>1, <2>1
<1>6. AddReport(items, row) = h[N]
  BY <1>2 DEF AddReport, list
<1> QED  BY <1>1, <1>2, <1>5, <1>6 DEF N, list

\* The loop over the selected reports.
LEMMA MergedSteps ==
  ASSUME NEW N \in Nat, NEW rows, DOMAIN rows = 1..N, \A i \in 1..N : Advises(rows[i])
  PROVE  \E h \in [0..N -> {items \in Seq(Item) : OneEach(items)}] :
           /\ h[0] = << >> /\ Merged(rows) = h[N]
           /\ \A n \in 1..N : h[n] = AddReport(h[n-1], rows[n])
<1> DEFINE V == {items \in Seq(Item) : OneEach(items)}
           G == [p \in V \X (1..N) |-> AddReport(p[1], rows[p[2]])]
           D == SUBSET (1..N)
           P(f) == f = [s \in D |-> IF s = {} THEN << >>
                                    ELSE AddReport(f[s \ {Max(s)}], rows[Max(s)])]
           c == CHOOSE f : P(f)
<1>1. << >> \in V /\ G \in [V \X (1..N) -> V]
  <2>1. << >> \in V
    BY DEF OneEach
  <2>2. ASSUME NEW items \in V, NEW n \in 1..N PROVE AddReport(items, rows[n]) \in V
    BY ReportAdded DEF Added
  <2> QED  BY <2>1, <2>2
<1> HIDE DEF V
<1>2. \A s \in D : s # {} => Max(s) \in 1..N
  BY LastIsMember
<1>3. P(c)
  <2>1. PICK f \in [D -> V] : FoldsTo(f, D, << >>, G)
    <3> HIDE DEF G
    <3> QED  BY <1>1, FoldExists
  <2>2. \A s \in D : s # {} => G[<<f[s \ {Max(s)}], Max(s)>>]
                                = AddReport(f[s \ {Max(s)}], rows[Max(s)])
    BY <1>2
  <2>3. P(f)
    <3> HIDE DEF G
    <3> QED  BY <2>1, <2>2 DEF FoldsTo
  <2> QED  BY <2>3
<1>4. Merged(rows) = c[1..N]
  BY DEF Merged, FoldLeft, MapThenFoldSet
<1> HIDE DEF c
<1>5. c[{}] = << >>
  BY <1>3
<1>6. \A s \in D : s # {} /\ c[s \ {Max(s)}] \in V => c[s] = G[<<c[s \ {Max(s)}], Max(s)>>]
  BY <1>2, <1>3
<1>7. PICK h \in [0..N -> V] : c[1..N] = h[N] /\ StepByStep(h, N, << >>, G)
  <2>1. TakesSteps(c, N, V, << >>, G)
    BY <1>5, <1>6 DEF TakesSteps
  <2> HIDE DEF G
  <2> QED  BY <1>1, <2>1, FoldValues
<1>8. ASSUME NEW n \in 1..N PROVE h[n] = AddReport(h[n-1], rows[n])
  <2>1. n - 1 \in 0..N
    OBVIOUS
  <2>2. h[n] = G[<<h[n-1], n>>] /\ h[n-1] \in V
    BY <1>7, <2>1 DEF StepByStep
  <2> QED  BY <2>2
<1> QED  BY <1>4, <1>7, <1>8 DEF StepByStep, V

Gives(row, key) == \E x \in DOMAIN row.report.advice : row.report.advice[x].key = key

\* The texts of the first k reports are among the items, each with a source no later
\* than the report, and no item is without a report that gives it.
MergedUpTo(items, rows, k) ==
  /\ \A i \in 1..k : \A x \in DOMAIN rows[i].report.advice :
       \E j \in DOMAIN items : /\ items[j].text.key = rows[i].report.advice[x].key
                               /\ items[j].stage <= rows[i].stage
  /\ \A j \in DOMAIN items : \E i \in 1..k :
       items[j].stage = rows[i].stage /\ Gives(rows[i], items[j].text.key)

\* An equal text that is there already came from an earlier stage.
LEMMA ReportMerged ==
  ASSUME NEW N \in Nat, NEW rows, DOMAIN rows = 1..N, \A i \in 1..N : Advises(rows[i]),
         \A i, j \in 1..N : i < j => rows[i].stage < rows[j].stage,
         NEW k \in 1..N, NEW items \in Seq(Item), OneEach(items), MergedUpTo(items, rows, k - 1)
  PROVE  MergedUpTo(AddReport(items, rows[k]), rows, k)
<1> DEFINE row == rows[k]
           next == AddReport(items, row)
           list == Sourced(row)
           n == Len(row.report.advice)
<1>1. /\ n \in Nat /\ DOMAIN row.report.advice = 1..n /\ list \in [1..n -> Item]
      /\ \A i \in 1..n : list[i].text = row.report.advice[i] /\ list[i].stage = row.stage
  BY SourcedIs
<1>2. next \in Seq(Item) /\ Added(items, next, list, n)
  BY ReportAdded
<1>3. /\ \A i \in 1..k : i = k \/ i \in 1..(k-1)
      /\ \A i \in 1..(k-1) : i \in 1..k /\ i \in 1..N /\ i < k
      /\ k \in 1..k
  OBVIOUS
<1>4. \A i \in 1..N : rows[i].stage \in Nat
  BY DEF Advises
<1> HIDE DEF row, next, list, n
<1>5. ASSUME NEW j \in DOMAIN next
      PROVE  \/ /\ j \in DOMAIN items /\ next[j] = items[j]
                /\ \E i \in 1..(k-1) : next[j].stage = rows[i].stage /\ Gives(rows[i], next[j].text.key)
             \/ next[j].stage = row.stage /\ Gives(row, next[j].text.key)
  <2>1. CASE j \in DOMAIN items
    BY <1>2, <2>1 DEF Added, MergedUpTo
  <2>2. CASE \E i \in 1..n : next[j] = list[i]
    BY <1>1, <2>2 DEF Gives
  <2> QED  BY <1>2, <2>1, <2>2 DEF Added
<1>6. \A j \in DOMAIN next : next[j].stage \in Nat /\ next[j].stage <= row.stage
  <2> SUFFICES ASSUME NEW j \in DOMAIN next
               PROVE  next[j].stage \in Nat /\ next[j].stage <= row.stage
    OBVIOUS
  <2>1. CASE \E i \in 1..(k-1) : next[j].stage = rows[i].stage
    <3>1. PICK i \in 1..(k-1) : next[j].stage = rows[i].stage
      BY <2>1
    <3>2. rows[i].stage < row.stage /\ rows[i].stage \in Nat /\ row.stage \in Nat
      BY <1>3, <1>4 DEF row
    <3> QED  BY <3>1, <3>2
  <2>2. CASE next[j].stage = row.stage
    BY <1>4, <2>2 DEF row
  <2> QED  BY <1>5, <2>1, <2>2
<1>7. ASSUME NEW i \in 1..k, NEW x \in DOMAIN rows[i].report.advice
      PROVE  \E j \in DOMAIN next : /\ next[j].text.key = rows[i].report.advice[x].key
                                    /\ next[j].stage <= rows[i].stage
  <2>1. CASE i = k
    <3>1. x \in 1..n /\ list[x].text = row.report.advice[x]
      BY <1>1, <1>7, <2>1 DEF row
    <3>2. PICK j \in DOMAIN next : next[j].text.key = list[x].text.key
      BY <1>2, <3>1 DEF Added
    <3> QED  BY <1>6, <2>1, <3>1, <3>2 DEF row
  <2>2. CASE i \in 1..(k-1)
    <3>1. PICK j \in DOMAIN items : /\ items[j].text.key = rows[i].report.advice[x].key
                                    /\ items[j].stage <= rows[i].stage
      BY <1>7, <2>2 DEF MergedUpTo
    <3>2. j \in DOMAIN next /\ next[j] = items[j]
      BY <1>2, <3>1 DEF Added
    <3> QED  BY <3>1, <3>2
  <2> QED  BY <1>3, <2>1, <2>2
<1>8. ASSUME NEW j \in DOMAIN next
      PROVE  \E i \in 1..k : next[j].stage = rows[i].stage /\ Gives(rows[i], next[j].text.key)
  BY <1>3, <1>5 DEF row
<1> QED  BY <1>7, <1>8 DEF MergedUpTo, row, next

\* After the last report.
LEMMA MergedIs ==
  ASSUME NEW N \in Nat, NEW rows, DOMAIN rows = 1..N, \A i \in 1..N : Advises(rows[i]),
         \A i, j \in 1..N : i < j => rows[i].stage < rows[j].stage
  PROVE  OneEach(Merged(rows)) /\ MergedUpTo(Merged(rows), rows, N)
<1>1. PICK h \in [0..N -> {items \in Seq(Item) : OneEach(items)}] :
        /\ h[0] = << >> /\ Merged(rows) = h[N]
        /\ \A n \in 1..N : h[n] = AddReport(h[n-1], rows[n])
  BY MergedSteps
<1> DEFINE T == {n \in 0..N : MergedUpTo(h[n], rows, n)}
<1>2. 0 \in T
  BY <1>1 DEF MergedUpTo
<1>3. ASSUME NEW n \in 1..N, n - 1 \in T PROVE n \in T
  <2>1. n - 1 \in 0..N /\ n \in 0..N /\ MergedUpTo(h[n-1], rows, n-1)
    BY <1>3
  <2>2. h[n-1] \in Seq(Item) /\ OneEach(h[n-1]) /\ h[n] = AddReport(h[n-1], rows[n])
    BY <1>1, <2>1
  <2>3. MergedUpTo(h[n], rows, n)
    BY <2>1, <2>2, ReportMerged
  <2> QED  BY <2>1, <2>3
<1>4. N \in T
  <2> HIDE DEF T
  <2>1. 0..N \subseteq T
    BY <1>2, <1>3, Induction
  <2> QED  BY <2>1
<1> QED  BY <1>1, <1>4

\* The advice of the selected reports, merged.
LEMMA AdviceOnceHolds == TypeOK => AdviceOnce
<1> SUFFICES ASSUME TypeOK PROVE AdviceOnce
  OBVIOUS
<1> DEFINE S == EnabledRows
           best == Selected(S)
           n == Cardinality(Winning(S))
           merged == Merged(best)
<1>1. Rows(S) /\ \A r \in S : r.report \in Report
  BY EnabledAreRows
<1>2. /\ n \in Nat /\ best \in [1..n -> Winning(S)] /\ DOMAIN best = 1..n
      /\ \A i, j \in 1..n : i < j => best[i].stage < best[j].stage
  BY <1>1, SelectedRows
<1>3. \A r \in Winning(S) : Advises(r)
  <2> HIDE DEF S
  <2> SUFFICES ASSUME NEW r \in Winning(S) PROVE Advises(r)
    OBVIOUS
  <2>1. r \in S
    BY <1>1, WinningRows
  <2> QED  BY <1>1, <2>1 DEF Rows, Advises, Report
<1> HIDE DEF S, best, n
<1>4. OneEach(merged) /\ MergedUpTo(merged, best, n)
  <2>1. \A i \in 1..n : Advises(best[i])
    BY <1>2, <1>3
  <2> QED  BY <1>2, <2>1, MergedIs
<1> HIDE DEF merged
<1>5. \A i, j \in DOMAIN merged : merged[i].text.key = merged[j].text.key => i = j
  BY <1>4 DEF OneEach
<1>6. ASSUME NEW row \in ToSet(best), NEW x \in DOMAIN row.report.advice
      PROVE  \E j \in DOMAIN merged :
               /\ merged[j].text.key = row.report.advice[x].key
               /\ merged[j].stage <= row.stage
               /\ \E first \in ToSet(best) :
                    first.stage = merged[j].stage /\ Gives(first, merged[j].text.key)
  <2>1. PICK i \in 1..n : best[i] = row
    BY <1>2 DEF ToSet
  <2>2. PICK j \in DOMAIN merged : /\ merged[j].text.key = row.report.advice[x].key
                                   /\ merged[j].stage <= row.stage
    BY <1>4, <1>6, <2>1 DEF MergedUpTo
  <2>3. PICK f \in 1..n : merged[j].stage = best[f].stage /\ Gives(best[f], merged[j].text.key)
    BY <1>4 DEF MergedUpTo
  <2>4. best[f] \in ToSet(best)
    BY <1>2 DEF ToSet
  <2> QED  BY <2>2, <2>3, <2>4
<1> QED  BY <1>5, <1>6, ProcessIs DEF AdviceOnce, Gives, S, best, merged

-----------------------------------------------------------------------------
(* What the two summaries show.                                            *)

\* The report of a process names, of every enabled stage that has a report, the
\* latest of its best ones, in the order of the stages, and repeats every advice of
\* these reports once, with the first stage that gives it: process_report and
\* _merge_items, for any reports.
THEOREM ProcessReportCorrect == Spec => []ProcessReportAgrees
<1>1. IInv => ProcessReportAgrees
  BY BestOfEachStageHolds, AdviceOnceHolds DEF IInv, ProcessReportAgrees
<1> QED
  BY <1>1, Invariance, PTL

\* Over the same reports the average of process_report is that of the dashboard, but
\* for a tie, which each of them rounds in its own way.
THEOREM SummariesCorrect == Spec => []SummariesAgree
<1>1. IInv => SummariesAgree
  BY SummariesAgreeHolds DEF IInv
<1> QED
  BY <1>1, Invariance, PTL
=============================================================================
