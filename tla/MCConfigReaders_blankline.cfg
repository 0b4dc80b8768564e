SPECIFICATION Reading
CONSTANTS
  Wrapped = 1000000
  Files = {"m"}
  Lines <- MCLines
  MaxLines = 9
  WithBlanks = TRUE
INVARIANT SettingsWhereWritten
CHECK_DEADLOCK FALSE
