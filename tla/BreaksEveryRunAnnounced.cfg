SPECIFICATION Spec
CONSTANTS
  MaxTokens = 4
  MaxSteps = 5
  MaxRepeats = 2
  ValidationRounds = 1
  ToolErrorRounds = 1
  RevisionRounds = 1
  Signature = {a, b}
  Size = {1, 3}
  PromptSize = 1
  MaxCalls = 2
  MaxRuns = 2
SYMMETRY Symmetry
CHECK_DEADLOCK FALSE
INVARIANTS
  EveryRunAnnounced
