SPECIFICATION Spec
CONSTANTS
  LenBytes = 1
  Calls = {"stream", "unary"}
  Unary = {"unary"}
  Messages <- MCMessages
  Workloads <- MCWorkloads
  MaxMessage = 1
  Answers <- MCAnswers
  Endings <- MCEndings
INVARIANTS
  TypeOK
  LimitIsExact
  IteratorIsWhole
  UnaryIsWhole
  FailureHasCause
PROPERTIES
  ImplementsRpcStream
  CallsSettle
  NextResolves
  CloseCloses
