\* Connections may end abnormally and addresses may be reused while queued.
SPECIFICATION FairSpec
CONSTANTS
  c1 = c1
  c2 = c2
  Conns = {c1, c2}
  NULL = NULL
  HTTP_MAX_CLIENTS = 1
  BUF = 4
  Requests <- MCRequests
  Chunks = {1, 3}
  MaxGot = 6
INVARIANTS TypeOK SlotOwned BytesAccounted AnswerAfterBody DoomedQueued OnlyErrorsLeak
PROPERTIES KillsOnlyDoomed DoomedCloses
