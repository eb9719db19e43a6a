SPECIFICATION Spec
CONSTANTS
    Caller = {loops, build}
    Ingest = {ingest}
    Commit = {c1, c2}
    Metric = {accuracy}
    Required = {accuracy}
    Attempts = 1
    MaxRuns = 2
    MaxMoves = 1
    None = None
INVARIANTS
    TypeOK
    BaselineIsOfItsCommit
    ReturnMeansBaseline
    BaselineInSession
PROPERTIES
    FrozenOnceComplete

CHECK_DEADLOCK FALSE
