SPECIFICATION Spec
CONSTANTS
  NULL = NULL
  BUF = 9
  Mail <- MCMail
  TooLong = TooLong
  Configured = TRUE
  Memory <- MCMemory
  Words <- MCWords
  Texts <- MCTexts
  EhloLines <- MCEhloLines
  Challenges <- MCChallenges
  Base64 <- MCBase64
  Refusals = TRUE
  Segmented = TRUE
  MaxFaults = 1
  MaxMails = 2
INVARIANTS BufTerminated InTurn
PROPERTIES Serves
CHECK_DEADLOCK FALSE
