SPECIFICATION MCSpec
CONSTANTS
  Settings <- SomeSettings
  Programs = {"a", "b"}
  Tokenizers <- SomeTokenizers
  Layouts <- SomeLayouts
  Tasks = {1, 2}
  Repeats = 2
  Launches = 2
  MinDrafts = 2
  MaxDrafted = 3
  SampleLines = 4
  TokensPerRecord = 1
  MinRecords = 3
  Drivers = {"d1", "d2"}
  Arguments <- SomeArguments
  Questions = 2
  MaxAttempts = 2
INVARIANTS VerdictIsEarned SizedToFit RunsAreWhole
\* Every check or evaluation may be over.
CHECK_DEADLOCK FALSE
