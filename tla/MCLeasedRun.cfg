SPECIFICATION FairSpec
CONSTANTS
  Client = {c1, c2}
  Session = {s1, s2}
  NoClient = NoClient
  MaxRetries = 1
  Pieces <- ThePieces
  c1 = c1
  c2 = c2
  Thread = {t1, t2}
  MaxWorkers = 1
  Idle = Idle
  MaxRounds = 1
  NoSession = NoSession
  Planning = {c2}
  Proposal <- TheProposals
  Id = {i1, i2, i3}
  i1 = i1
  i2 = i2
  i3 = i3
  MaxTasks = 3
INVARIANTS
  NeverEmptyHanded
  AnswerWhole
  ToolsOfTheHolder
  PlansExecutable
PROPERTIES
  NoLateStart
  EveryRunLeaves
