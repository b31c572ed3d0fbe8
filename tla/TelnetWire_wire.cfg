SPECIFICATION Spec
CONSTANTS
  Options = {"BIN", "COM", "ECHO", "SGA", "OTHER"}
  Performs = {"BIN", "COM", "SGA", "OTHER"}
  Accepts = {"BIN", "COM"}
  Data = {"a", "CR", "LF", "IAC"}
  Payloads <- MCPayloads
  MaxBuffer = 2
  MaxSaid = 3
  MaxWire = 1
CHECK_DEADLOCK FALSE
INVARIANTS SerialIsWhatWasSent FramesAreLines BeliefIsTrue
PROPERTIES NegotiationEnds
