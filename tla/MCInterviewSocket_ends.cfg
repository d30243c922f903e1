SPECIFICATION FairSpec
CONSTANTS
  SpeechOn = TRUE
  MaxTurns = 1
  MaxSpeech = 2
  MaxSegments = 1
PROPERTIES
  NothingHangs
CHECK_DEADLOCK FALSE
