\* The MNIST adapter when nothing is lost on the way.
SPECIFICATION Spec
CONSTANTS
  Diagnostics <- MnistAdapter
  Reliable = TRUE
  None = None
INVARIANTS
  FailuresAreClassified
CHECK_DEADLOCK FALSE
