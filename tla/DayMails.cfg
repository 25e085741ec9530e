\* A day is mailed twice, with the sizes of the code and no callback late.
SPECIFICATION MonitorSpec
CONSTANTS
  W = 179
  PERIOD = 50
  LATE = 0
  SPAN = 0
  DAY = 3600
  MaxTime = 7400
  Readings = {}
  SPACE = 12
INVARIANT OncePerDay
CHECK_DEADLOCK FALSE
