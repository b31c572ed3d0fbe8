SPECIFICATION Spec
CONSTANTS
  SessionTasks = {"startup", "resync"}
  StartupQueries <- Queries2
  Requests <- Shapes
  Unsolicited = {"AD", "BD", "XF", "XN", "invalid", "power_up"}
  TxCapacity = 2
  RxCapacity = 2
  ReconnectAfter = 2
INVARIANTS OneTransaction LockDiscipline RecoveryParked QueueIsOfThisSession
PROPERTIES AckIsOwn
