\* A child process of a parallel wave: linked worktree, baseline bootstrap.
SPECIFICATION FairSpec
CONSTANTS
  Source = {"model.py"}
  Bytecode = {}
  OffLimits = {"notes.md"}
  Protected = {}
  Loops = 2
  Retries = 2
  Inherit = FALSE
  Linked = TRUE
  StopOnSuccess = TRUE
  AgentCommits = FALSE
  DiscardCanFail = FALSE
  Outcomes = {"met", "failed"}
  MaxInvocations = 2
  MaxAnchor = 0
INVARIANTS
  TypeOK
  DeadEndIsGenuine
  FeedbackReachesNextCycle
  CommitHoldsOwnEdits
  CleanResultsStayOnBranch
PROPERTIES
  KeepsLedger
  InvocationEnds
CHECK_DEADLOCK FALSE
