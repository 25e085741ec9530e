SPECIFICATION FairSpec
CONSTANTS
  NULL = NULL
  BUF = 16
  Mail <- MCMail
  TooLong = TooLong
  Configured = TRUE
  Memory <- MCMemory
  Words <- MCWords
  Texts <- MCTexts
  EhloLines <- MCEhloLines
  Challenges <- Good334
  Base64 <- MCBase64
  Refusals = FALSE
  Segmented = FALSE
  MaxFaults = 1
  MaxMails = 2
PROPERTIES ReadyAgain
CHECK_DEADLOCK FALSE
