SPECIFICATION Spec
CONSTANTS
  t1 = t1
  t2 = t2
  Topics <- MCTopics
  MaxQuestions = 2
  FollowUps = 0
  NoTopic = NoTopic
  Fallback = Fallback
  NoRow = NoRow
  Connection = {c1, c2}
  MaxTurns = 3
  MaxAborts = 1
INVARIANTS
  TablesConsistent
  QuestionsFollowAnswers
PROPERTIES
  ImplementsTranscript
  AloneImplementsGraph
SYMMETRY Symmetry
CHECK_DEADLOCK FALSE
