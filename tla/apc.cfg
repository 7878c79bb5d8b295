SPECIFICATION Spec
CONSTANTS
  Requests = {"long", "short"}
  Text <- Turns
  Prompt <- TurnPrompt
  Groups = {2}
  TailTokens = 1
  BreakEven = 0
  Chunk = 2
  Draft = 1
  Ahead = 2
  None = None
INVARIANTS SharedIsExact ExactIsShared WindowOnly
PROPERTIES WindowKept
\* Finished requests stay finished.
CHECK_DEADLOCK FALSE
