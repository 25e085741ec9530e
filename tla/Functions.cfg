SPECIFICATION Spec
CONSTANTS
  UrlLen = 4
  HostLen = 3
  BufLen = 30
  Requests <- MCRequests
  SsidLen = 8
  PassLen = 7
  Typed <- MCTyped
  MaxMessage = 140
  MaxSegment = 70
  DATA_MAXLEN = 4
INVARIANT ParserFaithful
INVARIANT StationTyped
INVARIANT HashBlocks
INVARIANT CodesExact
