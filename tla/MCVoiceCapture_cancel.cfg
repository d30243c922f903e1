SPECIFICATION FairVoiceSpec
CONSTANTS
  MaxSegments = 1
  MaxClicks = 3
  MaxLost = 1
CHECK_DEADLOCK FALSE
INVARIANTS
  CancelIsPending
