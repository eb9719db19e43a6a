\* Parallel or sequential, each invocation anew; a select collapse, one resume.
SPECIFICATION FairSpec
CONSTANTS
  Group <- AreaGroups
  Waves <- AreaWaves
  Sources <- AreaSources
  Leaf <- AreaLeaves
  Area <- AreaOf
  Budget <- AreaBudget
  StopOnSuccess = TRUE
  MaxInvocations = 2
INVARIANTS
  TypeOK
  ResultsBeforeNextWave
  OnlyOrphansMoveAnchors
PROPERTIES
  LoopsAllReturns
CHECK_DEADLOCK FALSE
