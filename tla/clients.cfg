SPECIFICATION MCSpec
CONSTANTS
  c1 = c1  c2 = c2  w0 = w0  w1 = w1
  Clients = {c1, c2}
  Asks = 2
  Long <- LongOnes
  Workers = {w0, w1}
  Chunks = 2
  None = None
  Strict = {"strict"}
  Deltas <- SomeDeltas
  Lists <- SomeLists
  MaxChunks <- SomeChunks
  TracedRuns <- SomeRuns
  Traces = 2
  WeightNames = {"w1", "w2", "w3"}
  WeightLayer <- SomeLayers
INVARIANTS ModeIsOwn Withheld OutcomeIsTrue TurnIsWhole TraceNamesCause
\* Once the clients are done, nothing is left to do.
CHECK_DEADLOCK FALSE
