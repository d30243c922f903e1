SPECIFICATION FairSpec
CONSTANTS
  Attempt <- ThreeAttempts
  Score <- TwoScores
  Advice <- TwoAdvices
  Page = {feedback}
  Nobody = Nobody
  NoReport = NoReport
  MaxMessages = 2
INVARIANTS
  OneEvaluationAtATime
  EvaluatedOnce
  ReportsResolve
  ProcessReportAgrees
  SummariesAgree
PROPERTIES
  PageSettles
