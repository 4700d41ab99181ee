SPECIFICATION Spec
CONSTANTS
  Setups <- MCSetups
  Statements <- MCStatements
  Shapes <- MCShapes
  IndexDefs <- MCIndexDefs
  Alters <- MCAlters
  RowStates <- MCRowStates
  Starts <- MCStarts
  Queries <- MCQueries
INVARIANTS
  ReferencesHold
  NothingStale
  
  WindowsExact
PROPERTIES
  AllOrNothing
CHECK_DEADLOCK FALSE
