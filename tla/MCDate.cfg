CONSTANTS
  SECONDS_PER_MINUTE = 2
  MINUTES_PER_HOUR = 2
  HOURS_PER_DAY = 2
  FirstEpoch = 0
  LastEpoch = 1175000
SPECIFICATION DateSpec
PROPERTIES
  ImplementsCalendar
CHECK_DEADLOCK FALSE
