SPECIFICATION Spec
CONSTANTS
  SpeechOn = TRUE
  MaxTurns = 2
  MaxSpeech = 3
  MaxSegments = 1
INVARIANTS
  SpeechInOrder
  NoSpeechAfterCancel
  CompletedIsTold
CHECK_DEADLOCK FALSE
