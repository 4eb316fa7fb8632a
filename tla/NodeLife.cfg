SPECIFICATION FairSpec
CONSTANTS
  Kind = "router"
  NumInterfaces = 2
  MaxDatagrams = 2
  Submitters <- MCInterfaces
  Tasks <- MCTasks
  Workers = {"w1", "w2"}
  NoTask <- MCNoTask
  CtorFirst = TRUE
INVARIANTS NodeTypeOK WorkConserving AddressAlive QuietExit
PROPERTIES Handled Exits
CHECK_DEADLOCK FALSE
