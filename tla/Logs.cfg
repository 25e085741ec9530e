SPECIFICATION FairSpec
CONSTANTS
  Messages <- MCMessages
  Scenes <- MCScenes
  REQ <- MCREQ
  Tuned = {"HTTP"}
INVARIANTS OutbufBounded 
PROPERTIES LogKept RetryAnswered
CHECK_DEADLOCK FALSE
