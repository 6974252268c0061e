SPECIFICATION Spec
CONSTANTS
  LenBytes <- MCLenBytes
  Rules <- MCRules
  Kinds <- MCKinds
  Numerals <- MCNumerals
  Bad = Bad
  Requests <- MCRequests
  Schemas = {"none", "loading", "loaded"}
  KnownMethods <- MCKnownMethods
  ImplicitCodec = FALSE
  MaxMessage = 3
  Replies <- MCReplies
  Garbled <- MCGarbled
  ClientMax = 6
INVARIANTS
  TypeOK
  AnswerIsWhole
  OutcomeIsBackends
  FailureHasCause
  RouteIsDeclared
  RequestIsWhole
  DeadlineKept
PROPERTY
  BackendReleased
