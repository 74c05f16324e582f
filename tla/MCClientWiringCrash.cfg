CONSTANTS
  JsonClients = {json}
  TomlClients = {}
  Edits = {e}
  Commands = {p1}
  NoFile = NoFile
  NoRecord = NoRecord
  MaxRuns = 3
  MaxOutside = 0
  MaxDeaths = 1
SPECIFICATION WiringSpec
PROPERTIES UntouchedComesBack
CHECK_DEADLOCK FALSE
