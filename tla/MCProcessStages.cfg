SPECIFICATION Spec
CONSTANTS
  s1 = s1
  s2 = s2
  t1 = t1
  t2 = t2
  ProcessId = {p1, p2}
  StageId = {s1, s2}
  AttemptId = {a1, a2, a3}
  StageType = {t1, t2}
  RequestId = {r1}
  StageLists <- MCStageLists
INVARIANTS
  TablesConsistent
  StageStatusSummarises
  ReorderAccepted
PROPERTIES
  HistoryKept
  AttemptsOpenOnEnabledStages
  ImplementsLifecycle
SYMMETRY Symmetry
