CONSTANTS
  Handlers = {h1, h2}
  Buffers = {b1, b2}
  WellFormed = {buyer}
  Malformed = {junk}
  Torn = Torn
  Nil = Nil
  NumKnobs = 1
SPECIFICATION Spec
INVARIANTS
  ServerTypeOK
  ExactlyOneAnswer
  AnswersItsOwnRequest
  BufferHeldByOne
  ReadyMeansIndexed
  SearchesAFinalIndex
PROPERTIES
  EveryRequestAnswered
CHECK_DEADLOCK FALSE
