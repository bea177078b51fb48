SPECIFICATION Spec
CONSTANTS
  Users <- MCUsers
  Orcids <- MCOrcids
  NoOrcid = "none"
  Depts = {0, 1, 2}
  MaxEdits = 2
  MaxLost = 1
CHECK_DEADLOCK FALSE
INVARIANTS
  NobodyVanishes
  ProfileArrives
PROPERTIES
  OrcidPreferred
  DuplicatesMerged
