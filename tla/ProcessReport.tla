--------------------------- MODULE ProcessReport ---------------------------
(***************************************************************************)
(* What is computed from the stored reports: the report of a process       *)
(* (ReportRepository.process_report) and the counts and the average of the *)
(* dashboard (DashboardRepository.get).                                    *)
(*                                                                         *)
(* A row is the row of a query: an attempt with stage, number and report.  *)
(* A report has a score and advice, a sequence of texts; two texts with    *)
(* one key differ in case or spaces only.                                  *)
(***************************************************************************)
EXTENDS Integers, FiniteSetsExt, SequencesExt

\* ORDER BY s.position, a.attempt_number
Before(r, s) == r.stage < s.stage \/ (r.stage = s.stage /\ r.number < s.number)

\* The ways to list the members of S in this order: one, when no two members have
\* the same stage and number.
Listings(S) ==
  {list \in [1..Cardinality(S) -> S] :
     \A i, j \in 1..Cardinality(S) : i < j => Before(list[i], list[j])}

InOrder(S) == CHOOSE list \in Listings(S) : TRUE

\* Mutant of Beats: the first of several equal scores stays.
BeatsByScore(r, s) == r.report.score > s.report.score

\* The better score, and of equal scores the later attempt.
Beats(r, s) ==
  \/ r.report.score > s.report.score
  \/ r.report.score = s.report.score /\ r.number > s.number

\* The row becomes the winner of its stage, if there was none or it beats the other.
Better(best, row) ==
  IF row.stage \in DOMAIN best /\ ~Beats(row, best[row.stage]) THEN best
  ELSE [s \in DOMAIN best \cup {row.stage} |-> IF s = row.stage THEN row ELSE best[s]]

Winners(rows) == FoldLeft(Better, << >>, InOrder(rows))

\* One row of every stage, in the order of the stages.
Selected(rows) == InOrder({Winners(rows)[s] : s \in DOMAIN Winners(rows)})

Total(rows) == FoldLeft(LAMBDA sum, row : sum + row.report.score, 0, rows)

\* Python's round: the nearest integer, the even one of two.
RoundHalfEven(n, d) ==
  LET q == n \div d
      twice == 2 * (n % d)
  IN  IF twice > d \/ (twice = d /\ q % 2 = 1) THEN q + 1 ELSE q

\* SQLite's ROUND of a positive number: the nearest integer, the larger of two.
RoundHalfUp(n, d) == (2 * n + d) \div (2 * d)

\* Mutant of Average: the stages without a report count as zero.
AverageOfEnabled(rows, stages) == RoundHalfEven(Total(rows), stages)

\* overall_score; every competency is averaged in this way.
Average(rows, stages) == RoundHalfEven(Total(rows), Len(rows))

SameText(t, u) == t.key = u.key

\* _merge_items: the texts of the selected reports, each with its source, the
\* later ones of several equal texts left out.
Sourced(row) == [i \in DOMAIN row.report.advice |->
                   [text |-> row.report.advice[i], stage |-> row.stage]]

Unseen(items, item) ==
  IF \E i \in DOMAIN items : SameText(items[i].text, item.text) THEN items
  ELSE Append(items, item)

AddReport(items, row) == FoldLeft(Unseen, items, Sourced(row))

Merged(rows) == FoldLeft(AddReport, << >>, rows)

\* The report of a process over the rows of its enabled stages.
ProcessReportOf(rows, stages) ==
  LET best == Selected(rows) IN
  [overall  |-> Average(best, stages),
   selected |-> best,
   evaluated |-> Len(best),
   advice   |-> Merged(best)]

\* DashboardStats over every stored report.
DashboardScores(rows) ==
  LET scores == {r.report.score : r \in rows} IN
  [average |-> RoundHalfUp(Total(InOrder(rows)), Cardinality(rows)),
   minimum |-> Min(scores),
   maximum |-> Max(scores)]
=============================================================================
