SPECIFICATION MCSpec
CONSTANTS
  Kpool = 4
  Depth = 4
  Context = 16
  Mla <- MlaBetween
  RoutedExperts = {0, 1}
  Batches = 3
  Speculated = 2
  ConvSize = 3
  PromptLength = 3
  MaxLength = 7
  Served = 3
  Ranks = 2
  Rank = 1
  LogitColumns = 3
  Candidates = 2
  LogitValues = {0, 1}
  RoutedTokens = 3
  ExpertCount = 2
  BlockSize = 2
INVARIANTS PoolsAreCommitted StagesAreWhole RowsAreTheirOwn OneInputOneResult
\* A load, a request, a batch or a selection comes to its end.
CHECK_DEADLOCK FALSE
