SPECIFICATION Spec
CONSTANTS
  Session = {s}
  Budget = {2, 3}
  Size = {0, 1}
  MaxLength = 3
  MaxDrift = 1
  None = None
PROPERTIES
  CountKept
  EvictsWholeBlocks
  ReloadIsTrim
