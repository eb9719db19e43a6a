\* Every configuration of up to three areas.
SPECIFICATION Spec
CONSTANTS
  Names <- XYZ
  Config <- Configs
  None = None
INVARIANTS
  TypeOK
  SoundAreasLoad
  RunsOnce
  RunsInOrder
  NothingIsLeftOut
  EdgesJoinResults
CHECK_DEADLOCK FALSE
