\* One loop with one retry and an agent that may commit.
SPECIFICATION Spec
CONSTANTS
  Source = {"model.py"}
  Bytecode = {}
  OffLimits = {}
  Protected = {}
  Loops = 1
  Retries = 2
  Inherit = TRUE
  Linked = TRUE
  StopOnSuccess = TRUE
  AgentCommits = TRUE
  DiscardCanFail = FALSE
  Outcomes = {"met"}
  MaxInvocations = 1
  MaxAnchor = 0
INVARIANTS
  SoleCommitter
CHECK_DEADLOCK FALSE
