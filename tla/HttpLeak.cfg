\* A connection ends by a reset: its slot is never released.
SPECIFICATION Spec
CONSTANTS
  c1 = c1
  c2 = c2
  Conns = {c1, c2}
  NULL = NULL
  HTTP_MAX_CLIENTS = 1
  BUF = 2
  Requests <- FewRequests
  Chunks = {1}
  MaxGot = 2
INVARIANT NoSlotLeak
