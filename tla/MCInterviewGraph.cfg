SPECIFICATION FairSpec
CONSTANTS
  t1 = t1
  t2 = t2
  Topics <- MCTopics
  MaxQuestions = 3
  FollowUps = 1
  NoTopic = NoTopic
  Fallback = Fallback
  MaxAborts = 2
  MaxMessages = 12
INVARIANTS
  Budgets
  TopicsInOrder
  ClosingIsFinal
PROPERTIES
  InterviewEnds
