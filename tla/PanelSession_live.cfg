SPECIFICATION FairSpec
CONSTANTS
  SessionTasks = {"resync", "keypad", "periodic"}
  StartupQueries <- Queries1
  Requests <- OneShape
  Unsolicited = {"power_up"}
  TxCapacity = 2
  RxCapacity = 2
  ReconnectAfter = 1
PROPERTIES TaintEndsSession LockIsGranted ResyncIsServed
