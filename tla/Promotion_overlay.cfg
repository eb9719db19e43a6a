SPECIFICATION Spec
CONSTANTS
  c1 = c1  c2 = c2  g1 = g1  g2 = g2
  Work = {"model", "extra"}
  Other = {"notes"}
  Old <- MCOld
  Candidate = {c1, c2}
  Tree <- MCTree
  Score <- MCScore
  Minimize = TRUE
  Group = {g1, g2}
  Order <- MCOrder
  TopPolicy <- MCPolicy
  Edited = {"extra", "notes"}
  MaxCommits = 2
  Mine = Mine  Theirs = Theirs  None = None
INVARIANTS TypeOK PromotedIsChosen ChoiceIsStrongest
PROPERTIES EditsSurvive NothingIsLost
CHECK_DEADLOCK FALSE
