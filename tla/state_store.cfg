SPECIFICATION StoreSpec
CONSTANTS
  NoFile = NoFile
  Blank = Blank
  MaxContents = 2
  MaxFiles = 2
  MaxManual = 2
  MaxDay = 2
INVARIANTS Recoverable CompanionMatches HistoryKept
PROPERTIES PreviousIsReplaced NoStaleImport
CHECK_DEADLOCK FALSE
