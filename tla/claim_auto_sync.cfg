SPECIFICATION Spec
CONSTANTS
  Versions = {"v1"}
  ParentOf <- MCParentOf
  DocOf <- MCDocOf
  OtherLinks = {"other"}
  Gives <- MCGives
  Allowed = {"v1"}
  Pages = {"p"}
  Tasks = {t1, t2}
  MaxRev = 3
  MaxEntries = 2
  MaxCalls = 2
CHECK_DEADLOCK FALSE
PROPERTIES
  SyncedWhenEdited
