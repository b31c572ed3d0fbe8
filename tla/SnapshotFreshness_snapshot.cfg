SPECIFICATION FSpec
CONSTANTS
  SessionTasks = {"startup", "resync", "keypad"}
  StartupQueries <- AllQueries
  Requests <- NoRequests
  Unsolicited = {"XF", "XN", "BD", "invalid"}
  TxCapacity = 2
  RxCapacity = 2
  ReconnectAfter = 1
INVARIANTS FreshIsTrue DoubtIsRepaired
PROPERTIES KeepsContract
