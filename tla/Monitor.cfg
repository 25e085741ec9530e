SPECIFICATION MonitorSpec
CONSTANTS
  W = 14
  PERIOD = 4
  LATE = 1
  SPAN = 1
  DAY = 30
  MaxTime = 95
  Readings <- MCReadings
  SPACE = 1
INVARIANTS ClockExact BurstBound
PROPERTIES MailNamesToday LightMailsApart
CHECK_DEADLOCK FALSE
