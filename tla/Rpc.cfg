SPECIFICATION Spec
CONSTANTS
  Kind = {"ping", "stop", "start", "press", "bad"}
  StreamMax = 2
  MaxMsgs = 3
CHECK_DEADLOCK FALSE
INVARIANTS
  NoCallbackAfterClose
  AnsweredOnce
  FedIsServed
PROPERTIES
  CloseEnds
