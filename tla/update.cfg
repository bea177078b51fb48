SPECIFICATION Spec
CONSTANTS
  Records <- MCRecords
  Entries <- MCEntries
  Dates <- MCDates
  People <- MCPeople
  Topics <- MCTopics
  Normalized <- MCNormalized
  MaxSteps = 5
CHECK_DEADLOCK FALSE
INVARIANTS
  Settles
PROPERTIES
  NothingLost
  DatesOnlyRefined
  NobodyMixedByName
