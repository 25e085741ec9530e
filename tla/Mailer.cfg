\* Every pair of requests around two mails, with two faults or restarts; whole lines.
SPECIFICATION MailerSpec
CONSTANTS
  Queries <- MCQueries
  TooLong <- MCTooLong
  JUNK = JUNK
  SupportedMap = TRUE
  MaxQueries = 2
  NULL = NULL
  TOOLONG = TOOLONG
  BUF = 16
  Memory <- MCMemory
  Words <- MCWords
  Replies <- MCReplies
  EhloLines <- MCEhloLines
  Challenges <- MCChallenges
  Base64 <- MCBase64
  Segmented = FALSE
  Servers <- MCServers
  MaxFaults = 2
  MaxMails = 2
INVARIANTS StoredAccepted BootAccepted CredentialsHome BufTerminated
PROPERTIES AcceptedStored Delivered ReadyForNext
CHECK_DEADLOCK FALSE
