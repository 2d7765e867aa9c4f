--------------------------- MODULE ClientAccessor ---------------------------
(***************************************************************************)
(* The notifications on the side of a client: the application sets and     *)
(* clears its callbacks from its own threads, and the listener thread of   *)
(* the stream client hands every notification to each subscription of the  *)
(* accessor, in callbackHandler.                                           *)
(*                                                                         *)
(* The stream client (fty-common) is external: subscribe gives a new id,   *)
(* a notification is handed to the subscriptions one after the other, and  *)
(* unsubscribe waits for the notification under way, as the destructor,    *)
(* which frees the object right after it, relies on.                       *)
(***************************************************************************)
EXTENDS Naturals, FiniteSets

CONSTANTS
  AppThreads,  \* the threads of the application
  Handlers,    \* the callbacks the application may set
  NoHandler    \* a callback that is not set (nullptr)

ASSUME ThreadsAssumption == IsFiniteSet(AppThreads) /\ NoHandler \notin Handlers

Actions == {"CREATED", "UPDATED", "DELETED", "STARTED"}

\* The notifications that SecurityWalletServer publishes.
Published == {"CREATED", "UPDATED", "DELETED"}

VARIABLES
  callbacks,       \* m_createdCallback, m_updatedCallback, ..., by action
  isRegistered,    \* m_isRegistered
  registrationId,  \* m_registrationId
  handlerLock,     \* whether callbackHandler holds m_handlerFunctionLock
  setter,          \* what each application thread is doing in a setCallbackOn
  subscriptions,   \* the subscriptions of the accessor in the stream client
  listener,        \* what the listener thread is doing
  destroyed        \* the accessor has been destroyed

accessorVars == <<callbacks, isRegistered, registrationId, handlerLock, setter,
                  subscriptions, listener, destroyed>>

\* A thread subscribes at most once: m_isRegistered is set then, and for good.
SubscriptionIds == 1..Cardinality(AppThreads)

NotSetting == [step |-> "idle", action |-> "none", handler |-> NoHandler,
               shouldBeRunning |-> FALSE, id |-> 0]
Waiting    == [action |-> "none", left |-> {}, handler |-> NoHandler, ran |-> 0]

AccessorTypeOK ==
  /\ callbacks \in [Actions -> Handlers \cup {NoHandler}]
  /\ isRegistered \in BOOLEAN
  /\ registrationId \in SubscriptionIds \cup {0}
  /\ handlerLock \in BOOLEAN
  /\ setter \in [AppThreads -> [step : {"idle", "set", "check", "decide", "register"},
                                action : Actions \cup {"none"}, handler : Handlers \cup {NoHandler},
                                shouldBeRunning : BOOLEAN, id : SubscriptionIds \cup {0}]]
  /\ subscriptions \subseteq SubscriptionIds
  /\ listener \in [action : Actions \cup {"none"}, left : SUBSET SubscriptionIds,
                   handler : Handlers \cup {NoHandler}, ran : 0..Cardinality(AppThreads)]
  /\ destroyed \in BOOLEAN

AccessorInit ==
  /\ callbacks = [a \in Actions |-> NoHandler]
  /\ isRegistered = FALSE
  /\ registrationId = 0
  /\ handlerLock = FALSE
  /\ setter = [t \in AppThreads |-> NotSetting]
  /\ subscriptions = {}
  /\ listener = Waiting
  /\ destroyed = FALSE

-----------------------------------------------------------------------------
(* setCallbackOnUpdate, ...OnCreate, ...OnDelete, ...OnStart *)

\* The application calls a setter, which waits for m_handlerFunctionLock ...
CallSetter(t, action, handler) ==
  /\ ~destroyed
  /\ setter[t].step = "idle"
  /\ setter' = [setter EXCEPT ![t] = [NotSetting EXCEPT !.step = "set", !.action = action,
                                                        !.handler = handler]]
  /\ UNCHANGED <<callbacks, isRegistered, registrationId, handlerLock, subscriptions,
                 listener, destroyed>>

\* ... and assigns the callback under it.
SetCallback(t) ==
  /\ setter[t].step = "set"
  /\ ~handlerLock
  /\ callbacks' = [callbacks EXCEPT ![setter[t].action] = setter[t].handler]
  /\ setter' = [setter EXCEPT ![t] = [NotSetting EXCEPT !.step = "check"]]
  /\ UNCHANGED <<isRegistered, registrationId, handlerLock, subscriptions, listener, destroyed>>

\* updateNotificationThread takes the lock again to see whether a callback is set.
CheckCallbacks(t) ==
  /\ setter[t].step = "check"
  /\ ~handlerLock
  /\ setter' = [setter EXCEPT ![t].step = "decide",
                              ![t].shouldBeRunning = \E a \in Actions : callbacks[a] # NoHandler]
  /\ UNCHANGED <<callbacks, isRegistered, registrationId, handlerLock, subscriptions,
                 listener, destroyed>>

\* Variant used to test the properties: subscribed once, and never noted.
RegisterLate(t) ==
  /\ setter[t].step = "register"
  /\ setter' = [setter EXCEPT ![t] = NotSetting]
  /\ UNCHANGED <<callbacks, isRegistered, registrationId, handlerLock, subscriptions,
                 listener, destroyed>>

\* Variant used to test the properties: the test of m_isRegistered is left out.
DecideAlways(t) ==
  /\ setter[t].step = "decide"
  /\ IF setter[t].shouldBeRunning
       THEN LET id == Cardinality(subscriptions) + 1
            IN  /\ subscriptions' = subscriptions \cup {id}
                /\ setter' = [setter EXCEPT ![t].step = "register", ![t].id = id]
       ELSE /\ setter' = [setter EXCEPT ![t] = NotSetting]
            /\ UNCHANGED subscriptions
  /\ UNCHANGED <<callbacks, isRegistered, registrationId, handlerLock, listener, destroyed>>

\* Without the lock: subscribe when a callback is set and m_isRegistered is not.
\* The test before unsubscribe is the same, so it never holds.
Decide(t) ==
  /\ setter[t].step = "decide"
  /\ IF setter[t].shouldBeRunning /\ ~isRegistered
       THEN LET id == Cardinality(subscriptions) + 1
            IN  /\ subscriptions' = subscriptions \cup {id}
                /\ setter' = [setter EXCEPT ![t].step = "register", ![t].id = id]
       ELSE /\ setter' = [setter EXCEPT ![t] = NotSetting]
            /\ UNCHANGED subscriptions
  /\ UNCHANGED <<callbacks, isRegistered, registrationId, handlerLock, listener, destroyed>>

\* What subscribe returned is stored.
Register(t) ==
  /\ setter[t].step = "register"
  /\ registrationId' = setter[t].id
  /\ isRegistered' = TRUE
  /\ setter' = [setter EXCEPT ![t] = NotSetting]
  /\ UNCHANGED <<callbacks, handlerLock, subscriptions, listener, destroyed>>

\* ~ClientAccessor, when no other thread uses the object.
Destroy ==
  /\ ~destroyed
  /\ \A t \in AppThreads : setter[t].step = "idle"
  /\ listener = Waiting
  /\ destroyed' = TRUE
  /\ subscriptions' = IF isRegistered THEN subscriptions \ {registrationId} ELSE subscriptions
  /\ UNCHANGED <<callbacks, isRegistered, registrationId, handlerLock, setter, listener>>

-----------------------------------------------------------------------------
(* The listener thread *)

\* A notification reaches the stream client.
Arrive(action) ==
  /\ listener = Waiting
  /\ subscriptions # {}
  /\ listener' = [Waiting EXCEPT !.action = action, !.left = subscriptions]
  /\ UNCHANGED <<callbacks, isRegistered, registrationId, handlerLock, setter,
                 subscriptions, destroyed>>

\* The notification has been handed to subscription id.
Handed(id) == IF listener.left = {id} THEN Waiting
              ELSE [listener EXCEPT !.left = @ \ {id}, !.handler = NoHandler]

\* Variant used to test the properties: the callback is called without the lock.
CallHandlerUnlocked ==
  /\ listener.left # {} /\ listener.handler = NoHandler
  /\ ~handlerLock
  /\ IF callbacks[listener.action] # NoHandler
       THEN listener' = [listener EXCEPT !.handler = callbacks[listener.action], !.ran = @ + 1]
       ELSE \E id \in listener.left : listener' = Handed(id)
  /\ UNCHANGED <<callbacks, isRegistered, registrationId, handlerLock, setter,
                 subscriptions, destroyed>>

\* callbackHandler takes the lock and looks for a callback ...
CallHandler ==
  /\ listener.left # {} /\ listener.handler = NoHandler
  /\ ~handlerLock
  /\ LET handler == callbacks[listener.action]
     IN  \/ /\ handler # NoHandler
            /\ handlerLock' = TRUE
            /\ listener' = [listener EXCEPT !.handler = handler, !.ran = @ + 1]
         \/ /\ handler = NoHandler
            /\ \E id \in listener.left : listener' = Handed(id)
            /\ UNCHANGED handlerLock
  /\ UNCHANGED <<callbacks, isRegistered, registrationId, setter, subscriptions, destroyed>>

\* Variant used to test the properties: the lock is kept.
HandlerReturnsLocked ==
  /\ listener.handler # NoHandler
  /\ \E id \in listener.left : listener' = Handed(id)
  /\ UNCHANGED <<callbacks, isRegistered, registrationId, handlerLock, setter,
                 subscriptions, destroyed>>

\* ... which runs with the lock held, and returns or throws.
HandlerReturns ==
  /\ listener.handler # NoHandler
  /\ handlerLock' = FALSE
  /\ \E id \in listener.left : listener' = Handed(id)
  /\ UNCHANGED <<callbacks, isRegistered, registrationId, setter, subscriptions, destroyed>>

-----------------------------------------------------------------------------
SetterStep(t) == SetCallback(t) \/ CheckCallbacks(t) \/ Decide(t) \/ Register(t)

ListenerStep == CallHandler \/ HandlerReturns

AccessorNext ==
  \/ \E t \in AppThreads :
       \/ \E action \in Actions, handler \in Handlers \cup {NoHandler} :
            CallSetter(t, action, handler)
       \/ SetterStep(t)
  \/ Destroy
  \/ \E action \in Published : Arrive(action)
  \/ ListenerStep

AccessorSpec == AccessorInit /\ [][AccessorNext]_accessorVars

-----------------------------------------------------------------------------
\* A notification is handed to the callback of its action at most once: the
\* accessor has one subscription, however often callbacks are set and cleared
\* (updateNotificationThread).
OncePerNotification == listener.ran <= 1

\* While a callback runs it is the one that is set: once a setter has returned,
\* the callback it replaced or cleared does not run and will not
\* (m_handlerFunctionLock is held from the test of the callback to its return).
RunningIsSet == listener.handler # NoHandler => callbacks[listener.action] = listener.handler

\* When no setter is under way and a callback is set, the accessor is subscribed
\* and knows under which id.
SetIsSubscribed ==
  /\ ~destroyed
  /\ \A t \in AppThreads : setter[t].step = "idle"
  /\ \E a \in Actions : callbacks[a] # NoHandler
  => isRegistered /\ registrationId \in subscriptions

\* After the destructor no subscription can reach the object.
DestroyedIsUnsubscribed == destroyed => subscriptions = {}

\* The threads go on; a thread that waits for the lock gets it although the
\* listener takes it again and again.
AccessorFairness ==
  /\ WF_accessorVars(ListenerStep)
  /\ \A t \in AppThreads : SF_accessorVars(SetterStep(t))

AccessorFairSpec == AccessorSpec /\ AccessorFairness

\* Every setter that is called returns, though it waits twice for the lock that
\* callbacks run under, and every notification is dealt with, for callbacks that
\* return and do not set callbacks themselves.
SettersReturn == \A t \in AppThreads : setter[t].step # "idle" ~> setter[t].step = "idle"

NotificationsEnd == listener # Waiting ~> listener = Waiting

=============================================================================
