SPECIFICATION Spec
CONSTANTS
  MaxTokens = 6
  MaxSteps = 5
  MaxRepeats = 2
  ValidationRounds = 1
  ToolErrorRounds = 1
  RevisionRounds = 1
  Signature = {a, b}
  Size = {0, 2}
  PromptSize = 1
  MaxCalls = 2
  MaxRuns = 2
SYMMETRY Symmetry
CHECK_DEADLOCK FALSE
INVARIANTS
  TypeOK
  ResultsHaveCalls
  CallsAnsweredOnce
  AnswersAnnounced
  FinishedHasAnswer
  BudgetsRespected
  FeedbackKept
PROPERTIES
  RunsConverge
