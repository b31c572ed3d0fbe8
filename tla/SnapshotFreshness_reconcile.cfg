SPECIFICATION FSpec
CONSTANTS
  SessionTasks = {"resync", "periodic", "keypad"}
  StartupQueries <- RequiredQueries
  Requests <- OneShape
  Unsolicited = {"BD", "XN"}
  TxCapacity = 2
  RxCapacity = 2
  ReconnectAfter = 1
INVARIANTS SecureIsTrue
