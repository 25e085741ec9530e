\* A second upload starts between the 202 and the reboot.
SPECIFICATION Spec
CONSTANTS
  k1 = k1
  k2 = k2
  Clients = {k1, k2}
  NULL = NULL
  SEC = 2
  HALF = 7
  SupportedMap = TRUE
  BUF = 4
  Chunks = {0, 3}
  Uploads <- Rivals
  Factory <- Full
  Official <- MCOfficial
  Unit = {1, 2}
  STALE = STALE
  PAD = PAD
  HASH = 2
  Sha256 <- Digest
  NoSig = NoSig
  BadWrites = TRUE
  QuietWindow = FALSE
INVARIANT RunningOfficial
