SPECIFICATION Spec
CONSTANTS
  Entries <- MCEntries
  Installed <- MCInstalled
  CommandLines <- MCCommandLines
  WordLength = 3
  MaxChanges = 2
INVARIANTS
  ReadingInv
  WantedActionRuns
  HintsAreClose
CHECK_DEADLOCK FALSE
