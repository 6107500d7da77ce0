SPECIFICATION Spec
CONSTANTS
  main = main
  hover = hover
  Path <- OneDocument
  Request <- Hover
  Task = {1, 2}
  SetupFails = TRUE
  MaxEdits = 2
  MaxSaves = 1
  MaxConfigs = 1
CHECK_DEADLOCK FALSE
INVARIANTS
  SnapshotDescribesOneText
  ShownIsLastPublished
PROPERTIES
  WorkspaceKeepsTheEditor
  FirstAnswersFollowACheck
  WaitersAreAnswered
  LastEditIsChecked
