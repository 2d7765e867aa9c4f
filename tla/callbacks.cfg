CONSTANTS
  a1 = a1  a2 = a2  h1 = h1  h2 = h2
  AppThreads = {a1}
  Handlers = {h1, h2}
  NoHandler = NoHandler
CHECK_DEADLOCK FALSE
SPECIFICATION AccessorFairSpec
INVARIANT AccessorTypeOK
INVARIANT OncePerNotification
INVARIANT DestroyedIsUnsubscribed
INVARIANT RunningIsSet
INVARIANT SetIsSubscribed
PROPERTY SettersReturn
PROPERTY NotificationsEnd
