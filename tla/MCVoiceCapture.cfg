SPECIFICATION FairVoiceSpec
CONSTANTS
  MaxSegments = 2
  MaxClicks = 3
  MaxLost = 1
CHECK_DEADLOCK FALSE
INVARIANTS
  DiscardedIsNotAnswered
  SpokenInOrder
PROPERTIES
  NotLeftListening
