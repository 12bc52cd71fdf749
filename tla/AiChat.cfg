CONSTANTS
  ContextSize = 12
  Headroom = 2
  BatchSize = 4
  Sizes = {1, 3, 5, 11}
  Predict = 2
SPECIFICATION Spec
INVARIANTS
  LoadedWhileReady
  MemoryIsTheConversation
PROPERTY
  AnswerEnds
CHECK_DEADLOCK FALSE
