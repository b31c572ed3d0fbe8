SPECIFICATION Spec
CONSTANTS
  SessionTasks = {"resync", "keypad"}
  StartupQueries <- Queries1
  Requests <- Shapes
  Unsolicited = {"XN"}
  TxCapacity = 2
  RxCapacity = 2
  ReconnectAfter = 1
INVARIANTS WorkerSurvives
