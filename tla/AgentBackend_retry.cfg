SPECIFICATION Spec
CONSTANTS
    Attempts = 3
    None = None
INVARIANT ErrorsMeanNotStarted
CHECK_DEADLOCK FALSE
