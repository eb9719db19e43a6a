\* The same study without a resume.
SPECIFICATION Spec
CONSTANTS
  Failed = Failed
  Unscored = Unscored
  None = None
  Base = Base
  Group <- Chain
  Order <- ChainOrder
  Wave <- ChainWave
  Mode <- ChainMode
  Parent <- ChainParent
  Draws <- ChainDraws
  InheritPolicy <- AllBest
  TopPolicy <- KeepLatest
  Area <- ChainArea
  Role <- ChainRole
  Budget <- ChainBudget
  Score <- Scores
  BaselineScore = 0
  Minimize = FALSE
  Outcome <- Outcomes
  CutOff <- SomeCutOff
  StopOnSuccess = FALSE
  MaxInvocations = 1
INVARIANTS
  FoldInsAreNew
CHECK_DEADLOCK FALSE
