SPECIFICATION Spec
CONSTANTS
  Tasks = {1, 2}
  Works <- MCWorks
  NoWork <- MCNone
  MaxVersions = 5
  MaxEdits = 1
  MaxCrashes = 1
  Scenarios <- MCScenarios
  ParentDoi <- MCParentDoi
  Lrecid <- MCLrecid
  OldCDS <- MCOldCDS
  Minted = {"A1"}
  Restricted = {}
INVARIANTS
  FailedCreateLeavesNothing
  PublishedInCommunity
  NoDuplicateOfVisible
PROPERTIES
  CurationLostOnlyToStaleWriter
  WholeFiles
  DraftedWorkLostOnlyToUpdate
  VersionsCovered
