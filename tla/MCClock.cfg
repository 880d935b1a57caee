CONSTANTS
  Sessions = {s1, s2}
  SecPerMin = 2
  MinPerHour = 1
  HourPerDay = 2
  MaxDay = 0
  SetTimes <- MCSetTimes
  WaitTimes <- MCWaitTimes
  PollsPerSecond = 2
  Timeouts = {1}
  MaxReloads = 1
SPECIFICATION Spec
CHECK_DEADLOCK FALSE
PROPERTIES MovesBySeconds LateAnswer WaitEnds
