\* Two areas and a final merge below a common root, resumed once.
SPECIFICATION Spec
CONSTANTS
  Failed = Failed
  Unscored = Unscored
  None = None
  Base = Base
  Group <- Chain
  Order <- ChainOrder
  Wave <- ChainWave
  Mode <- ChainMode
  Parent <- ChainParent
  Draws <- ChainDraws
  InheritPolicy <- AllBest
  TopPolicy <- KeepLatest
  Area <- ChainArea
  Role <- ChainRole
  Budget <- ChainBudget
  Score <- Scores
  BaselineScore = 0
  Minimize = FALSE
  Outcome <- Outcomes
  CutOff <- SomeCutOff
  StopOnSuccess = FALSE
  MaxInvocations = 2
INVARIANTS
  TypeOK
  BestOfHistory
  StepIsDepth
  PlanIsDistinct
  OnePlacePerCommit
  TopCommitsAreStarred
  OverviewFollowsAreas
  FoldInsAreDrawn
CHECK_DEADLOCK FALSE
