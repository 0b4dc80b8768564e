SPECIFICATION Reading
CONSTANTS
  Wrapped = 1000000
  Files = {"m"}
  Lines <- MCLines
  MaxLines = 9
  WithBlanks = FALSE
INVARIANT SettingsWhereWritten AcceptedIsUsable
CHECK_DEADLOCK FALSE
