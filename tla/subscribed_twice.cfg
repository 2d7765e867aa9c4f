CONSTANTS
  a1 = a1  a2 = a2  h1 = h1  h2 = h2
  AppThreads = {a1, a2}
  Handlers = {h1}
  NoHandler = NoHandler
CHECK_DEADLOCK FALSE
SPECIFICATION AccessorSpec
INVARIANT DestroyedIsUnsubscribed
