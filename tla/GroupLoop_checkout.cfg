\* Sequential loops-all: the shared checkout, an inherit group, an agent that may
\* commit, discards that may fail, an anchor that may move.
SPECIFICATION Spec
CONSTANTS
  Source = {"model.py"}
  Bytecode = {}
  OffLimits = {}
  Protected = {"eval.py"}
  Loops = 2
  Retries = 2
  Inherit = TRUE
  Linked = FALSE
  StopOnSuccess = FALSE
  AgentCommits = TRUE
  DiscardCanFail = TRUE
  Outcomes = {"below", "foreign", "malformed"}
  MaxInvocations = 2
  MaxAnchor = 1
INVARIANTS
  RebuiltFromAnchor
  LoopOrdersBranch
CHECK_DEADLOCK FALSE
