--------------------------- MODULE AccessorProofs ---------------------------
(***************************************************************************)
(* What an accessor promises its application, proved for any callbacks.    *)
(* That a callback that runs is the one that is set holds for any number   *)
(* of threads.  The promises about the subscription hold for one thread    *)
(* that sets callbacks: two of them may both subscribe.                    *)
(***************************************************************************)
EXTENDS ClientAccessor, FiniteSetTheorems, TLAPS

-----------------------------------------------------------------------------
(* Any number of threads *)

\* Every thread that sets a callback sets one of the application's.
SettersTyped ==
  /\ DOMAIN setter = AppThreads
  /\ \A t \in AppThreads :
       DOMAIN setter[t] = DOMAIN NotSetting /\ setter[t].handler \in Handlers \cup {NoHandler}

\* The listener holds the lock from the choice of a callback to its return.
RunsLocked ==
  /\ SettersTyped
  /\ callbacks \in [Actions -> Handlers \cup {NoHandler}]
  /\ DOMAIN listener = DOMAIN Waiting
  /\ listener.left # {} => listener.action \in Actions
  /\ listener.handler # NoHandler =>
       /\ handlerLock /\ listener.action \in Actions
       /\ callbacks[listener.action] = listener.handler

\* While a callback runs it is the one that is set, whatever threads set and
\* clear callbacks meanwhile: once a setter has returned, the callback it
\* replaced or cleared does not run and will not (setCallbackOnCreate and the
\* others, callbackHandler).
THEOREM NoStaleCallback == AccessorSpec => []RunningIsSet
<1>1. AccessorInit => RunsLocked
  BY DEF AccessorInit, RunsLocked, Waiting, SettersTyped, NotSetting
<1>2. ASSUME RunsLocked, [AccessorNext]_accessorVars
      PROVE  RunsLocked'
  <2>1. ASSUME NEW t \in AppThreads, NEW action \in Actions, NEW handler \in Handlers \cup {NoHandler},
               CallSetter(t, action, handler)
        PROVE  RunsLocked'
    <3>1. SettersTyped'
      BY <1>2, <2>1 DEF RunsLocked, SettersTyped, CallSetter, NotSetting
    <3>. QED
      BY <1>2, <2>1, <3>1 DEF RunsLocked, CallSetter
  <2>2. ASSUME NEW t \in AppThreads, SetterStep(t)
        PROVE  RunsLocked'
    <3>1. SettersTyped'
      <4>1. CASE SetCallback(t)
        BY <1>2, <4>1 DEF RunsLocked, SettersTyped, SetCallback, NotSetting
      <4>2. CASE CheckCallbacks(t)
        BY <1>2, <4>2 DEF RunsLocked, SettersTyped, CheckCallbacks, NotSetting
      <4>3. CASE Decide(t)
        BY <1>2, <4>3 DEF RunsLocked, SettersTyped, Decide, NotSetting
      <4>4. CASE Register(t)
        BY <1>2, <4>4 DEF RunsLocked, SettersTyped, Register, NotSetting
      <4>. QED
        BY <2>2, <4>1, <4>2, <4>3, <4>4 DEF SetterStep
    <3>2. CASE SetCallback(t)
      BY <1>2, <3>1, <3>2 DEF RunsLocked, SettersTyped, SetCallback
    <3>3. CASE CheckCallbacks(t) \/ Decide(t) \/ Register(t)
      BY <1>2, <3>1, <3>3 DEF RunsLocked, CheckCallbacks, Decide, Register
    <3>. QED
      BY <2>2, <3>2, <3>3 DEF SetterStep
  <2>3. CASE Destroy
    BY <1>2, <2>3 DEF RunsLocked, SettersTyped, Destroy
  <2>4. ASSUME NEW action \in Published, Arrive(action)
        PROVE  RunsLocked'
    BY <1>2, <2>4 DEF RunsLocked, SettersTyped, Arrive, Waiting, Published, Actions
  <2>5. CASE CallHandler
    <3>1. /\ listener.left # {} /\ listener.handler = NoHandler
          /\ UNCHANGED callbacks
      BY <2>5 DEF CallHandler
    <3>2. SettersTyped'
      BY <1>2, <2>5 DEF RunsLocked, SettersTyped, CallHandler
    <3>3. CASE /\ callbacks[listener.action] # NoHandler /\ handlerLock' = TRUE
               /\ listener' = [listener EXCEPT !.handler = callbacks[listener.action], !.ran = @ + 1]
      BY <1>2, <2>5, <3>1, <3>2, <3>3 DEF RunsLocked, Waiting
    <3>4. CASE \E id \in listener.left : listener' = Handed(id)
      BY <1>2, <2>5, <3>1, <3>2, <3>4 DEF RunsLocked, Handed, Waiting
    <3>. QED
      BY <2>5, <3>3, <3>4 DEF CallHandler
  <2>6. CASE HandlerReturns
    BY <1>2, <2>6 DEF RunsLocked, SettersTyped, HandlerReturns, Handed, Waiting
  <2>7. CASE UNCHANGED accessorVars
    BY <1>2, <2>7 DEF RunsLocked, SettersTyped, accessorVars
  <2>. QED
    BY <1>2, <2>1, <2>2, <2>3, <2>4, <2>5, <2>6, <2>7 DEF AccessorNext, ListenerStep
<1>3. RunsLocked => RunningIsSet
  BY DEF RunsLocked, RunningIsSet
<1>. QED
  BY <1>1, <1>2, <1>3, PTL DEF AccessorSpec

-----------------------------------------------------------------------------
(* One thread that sets callbacks *)

AnySet == \E a \in Actions : callbacks[a] # NoHandler

\* Thread t has subscribed as 1, and is noted so; or is about to note it; or has
\* not, and no callback is set.
Subscribes(t) ==
  /\ setter[t].step = "register" => ~isRegistered /\ setter[t].id = 1
  /\ ~isRegistered => subscriptions = IF setter[t].step = "register" THEN {1} ELSE {}
  /\ isRegistered => registrationId = 1 /\ subscriptions = IF destroyed THEN {} ELSE {1}
  /\ destroyed => setter[t].step = "idle" /\ listener = Waiting
  /\ setter[t].step = "decide" => setter[t].shouldBeRunning = AnySet
  /\ setter[t].step \in {"idle", "set"} /\ AnySet => isRegistered

Delivers ==
  /\ listener.left \subseteq subscriptions
  /\ listener.left # {} => listener.action \in Actions
  /\ IF listener.handler # NoHandler THEN listener.ran = 1 /\ listener.left # {} ELSE listener.ran = 0

SInv(t) == AccessorTypeOK /\ Subscribes(t) /\ Delivers

LEMMA OneSubscription ==
  ASSUME NEW t, AppThreads = {t}
  PROVE  Cardinality(AppThreads) = 1 /\ SubscriptionIds = {1}
<1>1. Cardinality(AppThreads) = 1
  BY FS_Singleton
<1>. QED
  BY <1>1 DEF SubscriptionIds

SetterRecord == [step : {"idle", "set", "check", "decide", "register"},
                 action : Actions \cup {"none"}, handler : Handlers \cup {NoHandler},
                 shouldBeRunning : BOOLEAN, id : SubscriptionIds \cup {0}]

ListenerRecord == [action : Actions \cup {"none"}, left : SUBSET SubscriptionIds,
                   handler : Handlers \cup {NoHandler}, ran : 0..Cardinality(AppThreads)]

LEMMA RecordsTyped ==
  /\ AccessorTypeOK => setter \in [AppThreads -> SetterRecord] /\ listener \in ListenerRecord
  /\ NotSetting \in SetterRecord
  /\ \A t : AppThreads = {t} => Waiting \in ListenerRecord
<1>1. NotSetting \in SetterRecord
  BY DEF NotSetting, SetterRecord
<1>2. ASSUME NEW t, AppThreads = {t}
      PROVE  Waiting \in ListenerRecord
  <2>1. 0 \in 0..Cardinality(AppThreads)
    BY <1>2, OneSubscription
  <2>. QED
    BY <2>1 DEF Waiting, ListenerRecord
<1>3. AccessorTypeOK => setter \in [AppThreads -> SetterRecord] /\ listener \in ListenerRecord
  BY DEF AccessorTypeOK, SetterRecord, ListenerRecord
<1>. QED
  BY <1>1, <1>2, <1>3

LEMMA TypedByRecords ==
  ASSUME callbacks \in [Actions -> Handlers \cup {NoHandler}], isRegistered \in BOOLEAN,
         registrationId \in SubscriptionIds \cup {0}, handlerLock \in BOOLEAN,
         setter \in [AppThreads -> SetterRecord], subscriptions \subseteq SubscriptionIds,
         listener \in ListenerRecord, destroyed \in BOOLEAN
  PROVE  AccessorTypeOK
BY DEF AccessorTypeOK, SetterRecord, ListenerRecord

LEMMA SInvInit ==
  ASSUME NEW t, AppThreads = {t}, AccessorInit
  PROVE  SInv(t)
<1>1. /\ setter = [u \in AppThreads |-> NotSetting] /\ setter[t].step = "idle"
      /\ 0 \in SubscriptionIds \cup {0} /\ 0 \in 0..Cardinality(AppThreads)
  BY OneSubscription DEF AccessorInit, NotSetting
<1>2. AccessorTypeOK
  BY <1>1, RecordsTyped, TypedByRecords DEF AccessorInit
<1>3. Subscribes(t) /\ Delivers
  BY <1>1 DEF AccessorInit, Subscribes, Delivers, Waiting, AnySet
<1>. QED
  BY <1>2, <1>3 DEF SInv

LEMMA SetterKeeps ==
  ASSUME NEW t, AppThreads = {t}, SInv(t),
         \/ \E action \in Actions, handler \in Handlers \cup {NoHandler} : CallSetter(t, action, handler)
         \/ SetterStep(t)
  PROVE  SInv(t)'
<1>1. ASSUME NEW action \in Actions, NEW handler \in Handlers \cup {NoHandler},
             CallSetter(t, action, handler)
      PROVE  SInv(t)'
  <2>1. AccessorTypeOK'
    BY <1>1 DEF SInv, AccessorTypeOK, CallSetter, NotSetting
  <2>2. setter'[t].step = "set" /\ setter[t].step = "idle" /\ ~destroyed
    BY <1>1 DEF SInv, AccessorTypeOK, CallSetter, NotSetting
  <2>3. Subscribes(t)' /\ Delivers'
    BY <1>1, <2>2 DEF SInv, Subscribes, Delivers, CallSetter, AnySet
  <2>. QED
    BY <2>1, <2>3 DEF SInv
<1>2. CASE CheckCallbacks(t)
  <2>1. AccessorTypeOK'
    <3> DEFINE set == \E a \in Actions : callbacks[a] # NoHandler
    <3>1. setter \in [AppThreads -> SetterRecord] /\ set \in BOOLEAN
      BY RecordsTyped DEF SInv
    <3>2. setter' = [setter EXCEPT ![t].step = "decide", ![t].shouldBeRunning = set]
      BY <1>2 DEF CheckCallbacks
    <3> HIDE DEF set
    <3>3. setter' \in [AppThreads -> SetterRecord]
      <4>1. [setter[t] EXCEPT !.step = "decide", !.shouldBeRunning = set] \in SetterRecord
        BY <3>1 DEF SetterRecord
      <4>2. setter' = [setter EXCEPT ![t] = [setter[t] EXCEPT !.step = "decide", !.shouldBeRunning = set]]
        BY <3>1, <3>2 DEF SetterRecord
      <4>. QED
        BY <3>1, <4>1, <4>2
    <3>4. UNCHANGED <<callbacks, isRegistered, registrationId, handlerLock, subscriptions,
                      listener, destroyed>>
      BY <1>2 DEF CheckCallbacks
    <3>. QED
      BY <3>3, <3>4, setter' \in [AppThreads -> SetterRecord]
         DEF SInv, AccessorTypeOK, SetterRecord
  <2>2. /\ setter'[t].step = "decide" /\ setter[t].step = "check"
        /\ setter'[t].shouldBeRunning = AnySet
    BY <1>2 DEF SInv, AccessorTypeOK, CheckCallbacks, AnySet
  <2>3. Subscribes(t)' /\ Delivers'
    BY <1>2, <2>2 DEF SInv, Subscribes, Delivers, CheckCallbacks, AnySet
  <2>. QED
    BY <2>1, <2>3 DEF SInv
<1>3. CASE Decide(t)
  <2>1. CASE setter[t].shouldBeRunning /\ ~isRegistered
    <3>1. setter[t].step = "decide" /\ subscriptions = {}
      BY <1>3, <2>1 DEF Decide, SInv, Subscribes
    <3>2. Cardinality(subscriptions) = 0
      BY <3>1, FS_EmptySet
    <3>3. /\ subscriptions' = {1}
          /\ setter' = [setter EXCEPT ![t].step = "register", ![t].id = 1]
          /\ UNCHANGED <<callbacks, isRegistered, registrationId, handlerLock, listener, destroyed>>
      BY <1>3, <2>1, <3>1, <3>2 DEF Decide
    <3>4. setter'[t].step = "register" /\ setter'[t].id = 1
      BY <3>3 DEF SInv, AccessorTypeOK
    <3>5. AccessorTypeOK'
      <4>1. setter' \in [AppThreads -> SetterRecord]
        <5>1. setter \in [AppThreads -> SetterRecord] /\ 1 \in SubscriptionIds
          BY OneSubscription, RecordsTyped DEF SInv
        <5>2. [setter[t] EXCEPT !.step = "register", !.id = 1] \in SetterRecord
          BY <5>1 DEF SetterRecord
        <5>3. setter' = [setter EXCEPT ![t] = [setter[t] EXCEPT !.step = "register", !.id = 1]]
          BY <3>3, <5>1 DEF SetterRecord
        <5>. QED
          BY <5>1, <5>2, <5>3
      <4>2. subscriptions' \subseteq SubscriptionIds
        BY <3>3, OneSubscription
      <4>. QED
        BY <3>3, <4>1, <4>2 DEF SInv, AccessorTypeOK, SetterRecord
    <3>6. ~destroyed
      BY <3>1 DEF SInv, Subscribes
    <3>7. Subscribes(t)' /\ Delivers'
      BY <2>1, <3>1, <3>3, <3>4, <3>6 DEF SInv, Subscribes, Delivers
    <3>. QED
      BY <3>5, <3>7 DEF SInv
  <2>2. CASE ~(setter[t].shouldBeRunning /\ ~isRegistered)
    <3>1. /\ setter[t].step = "decide" /\ setter' = [setter EXCEPT ![t] = NotSetting]
          /\ UNCHANGED <<callbacks, isRegistered, registrationId, handlerLock, subscriptions,
                         listener, destroyed>>
      BY <1>3, <2>2 DEF Decide
    <3>2. setter'[t].step = "idle" /\ AccessorTypeOK'
      BY <3>1 DEF SInv, AccessorTypeOK, NotSetting
    <3>3. AnySet => isRegistered
      BY <2>2, <3>1 DEF SInv, Subscribes
    <3>4. Subscribes(t)' /\ Delivers'
      BY <3>1, <3>2, <3>3 DEF SInv, Subscribes, Delivers, AnySet
    <3>. QED
      BY <3>2, <3>4 DEF SInv
  <2>. QED
    BY <2>1, <2>2
<1>4. CASE Register(t)
  <2>1. /\ setter[t].step = "register" /\ ~isRegistered /\ setter[t].id = 1 /\ ~destroyed
        /\ subscriptions = {1}
    BY <1>4 DEF Register, SInv, Subscribes
  <2>2. setter'[t].step = "idle" /\ isRegistered' /\ registrationId' = 1
    BY <1>4, <2>1 DEF Register, SInv, AccessorTypeOK, NotSetting
  <2>3. AccessorTypeOK'
    BY <1>4, <2>2, OneSubscription DEF Register, SInv, AccessorTypeOK, NotSetting
  <2>4. Subscribes(t)' /\ Delivers'
    BY <1>4, <2>1, <2>2 DEF SInv, Subscribes, Delivers, Register
  <2>. QED
    BY <2>3, <2>4 DEF SInv
<1>5. CASE SetCallback(t)
  <2>1. AccessorTypeOK'
    BY <1>5 DEF SInv, AccessorTypeOK, SetCallback, NotSetting
  <2>2. setter'[t].step = "check" /\ setter[t].step = "set" /\ ~destroyed
    BY <1>5 DEF SInv, AccessorTypeOK, Subscribes, SetCallback, NotSetting
  <2>3. Subscribes(t)' /\ Delivers'
    BY <1>5, <2>2 DEF SInv, Subscribes, Delivers, SetCallback
  <2>. QED
    BY <2>1, <2>3 DEF SInv
<1>. QED
  BY <1>1, <1>2, <1>3, <1>4, <1>5 DEF SetterStep

LEMMA DestroyKeeps ==
  ASSUME NEW t, AppThreads = {t}, SInv(t), Destroy
  PROVE  SInv(t)'
<1>1. setter[t].step = "idle" /\ listener = Waiting /\ ~destroyed /\ destroyed'
  BY DEF Destroy
<1>2. subscriptions' = {}
  BY <1>1 DEF Destroy, SInv, Subscribes
<1>3. AccessorTypeOK'
  BY <1>2 DEF Destroy, SInv, AccessorTypeOK
<1>4. Subscribes(t)' /\ Delivers'
  BY <1>1, <1>2 DEF Destroy, SInv, Subscribes, Delivers, AnySet, Waiting
<1>. QED
  BY <1>3, <1>4 DEF SInv

\* Subscription 1 is the only one, so the notification ends with it.
LEMMA HandedIsWaiting ==
  ASSUME NEW t, AppThreads = {t}, SInv(t), NEW id \in listener.left
  PROVE  Handed(id) = Waiting
<1>1. listener.left = {1} /\ id = 1
  BY OneSubscription DEF SInv, AccessorTypeOK
<1>. QED
  BY <1>1 DEF Handed

LEMMA ListenerKeeps ==
  ASSUME NEW t, AppThreads = {t}, SInv(t), ListenerStep \/ \E action \in Published : Arrive(action)
  PROVE  SInv(t)'
<1>1. UNCHANGED <<callbacks, isRegistered, registrationId, setter, subscriptions, destroyed>>
  BY DEF ListenerStep, CallHandler, HandlerReturns, Arrive
<1>2. handlerLock' \in BOOLEAN /\ ~destroyed
  <2>1. handlerLock' \in BOOLEAN
    <3>1. handlerLock' = TRUE \/ handlerLock' = FALSE \/ UNCHANGED handlerLock
      BY DEF ListenerStep, CallHandler, HandlerReturns, Arrive
    <3>. QED
      BY <3>1 DEF SInv, AccessorTypeOK
  <2>2. CASE ListenerStep
    <3>1. listener # Waiting
      BY <2>2 DEF ListenerStep, CallHandler, HandlerReturns, Waiting
    <3>2. destroyed => listener = Waiting
      BY DEF SInv, Subscribes
    <3>. QED
      BY <2>1, <3>1, <3>2
  <2>3. CASE \E action \in Published : Arrive(action)
    <3>1. subscriptions # {}
      BY <2>3 DEF Arrive
    <3>2. destroyed => subscriptions = {}
      <4>1. CASE isRegistered
        BY <4>1 DEF SInv, Subscribes
      <4>2. CASE ~isRegistered
        BY <4>2 DEF SInv, Subscribes
      <4>. QED
        BY <4>1, <4>2
    <3>. QED
      BY <2>1, <3>1, <3>2
  <2>. QED
    BY <2>1, <2>2, <2>3
<1>3. Subscribes(t)'
  BY <1>1, <1>2 DEF SInv, Subscribes, AnySet
<1>4. CASE listener' = Waiting
  <2>1. 0 \in 0..Cardinality(AppThreads)
    BY OneSubscription
  <2>2. AccessorTypeOK'
    BY <1>1, <1>2, <1>4, <2>1 DEF SInv, AccessorTypeOK, Waiting
  <2>3. Delivers'
    BY <1>4 DEF Delivers, Waiting
  <2>. QED
    BY <1>3, <2>2, <2>3 DEF SInv
<1>5. CASE \E action \in Published : Arrive(action)
  <2>1. PICK action \in Published : listener' = [Waiting EXCEPT !.action = action, !.left = subscriptions]
    BY <1>5 DEF Arrive
  <2>2. 0 \in 0..Cardinality(AppThreads) /\ action \in Actions
    BY OneSubscription DEF Published, Actions
  <2>3. AccessorTypeOK'
    BY <1>1, <1>2, <2>1, <2>2 DEF SInv, AccessorTypeOK, Waiting
  <2>4. Delivers'
    BY <1>1, <2>1, <2>2 DEF Delivers, Waiting
  <2>. QED
    BY <1>3, <2>3, <2>4 DEF SInv
<1>6. CASE /\ callbacks[listener.action] # NoHandler
           /\ listener.left # {} /\ listener.handler = NoHandler
           /\ listener' = [listener EXCEPT !.handler = callbacks[listener.action], !.ran = @ + 1]
  <2>1. listener.action \in Actions
    BY <1>6 DEF SInv, Delivers
  <2>2. /\ callbacks[listener.action] \in Handlers
        /\ listener.ran = 0 /\ 1 \in 0..Cardinality(AppThreads)
    <3>1. callbacks \in [Actions -> Handlers \cup {NoHandler}]
      BY DEF SInv, AccessorTypeOK
    <3>2. listener.ran = 0
      BY <1>6 DEF SInv, Delivers
    <3>. QED
      BY <1>6, <2>1, <3>1, <3>2, OneSubscription
  <2>3. AccessorTypeOK'
    <3>1. listener' \in ListenerRecord
      <4>1. listener \in ListenerRecord
        BY RecordsTyped DEF SInv
      <4>2. listener' = [action |-> listener.action, left |-> listener.left,
                         handler |-> callbacks[listener.action], ran |-> 1]
        <5>1. listener.ran + 1 = 1
          BY <2>2
        <5>2. listener' = [listener EXCEPT !.handler = callbacks[listener.action], !.ran = 1]
          BY <1>6, <5>1
        <5>. QED
          BY <4>1, <5>2 DEF ListenerRecord
      <4>. QED
        BY <2>2, <4>1, <4>2 DEF ListenerRecord
    <3>. QED
      BY <1>1, <1>2, <3>1 DEF SInv, AccessorTypeOK, ListenerRecord
  <2>4. Delivers'
    BY <1>1, <1>6, <2>1, <2>2 DEF SInv, AccessorTypeOK, Delivers
  <2>. QED
    BY <1>3, <2>3, <2>4 DEF SInv
<1>. QED
  BY <1>4, <1>5, <1>6, HandedIsWaiting DEF ListenerStep, CallHandler, HandlerReturns

LEMMA SubscriptionInvariance ==
  ASSUME NEW t, AppThreads = {t}
  PROVE  AccessorSpec => []SInv(t)
<1>1. AccessorInit => SInv(t)
  BY SInvInit
<1>2. ASSUME SInv(t), [AccessorNext]_accessorVars
      PROVE  SInv(t)'
  <2>1. CASE UNCHANGED accessorVars
    BY <1>2, <2>1 DEF accessorVars, SInv, AccessorTypeOK, Subscribes, Delivers, AnySet
  <2>. QED
    BY <1>2, <2>1, SetterKeeps, DestroyKeeps, ListenerKeeps DEF AccessorNext
<1>. QED
  BY <1>1, <1>2, PTL DEF AccessorSpec

\* With one thread that sets callbacks, however often it sets and clears them,
\* every variable keeps its type (secw_client_accessor.cc).
THEOREM OneSetterTypeOK ==
  ASSUME NEW t, AppThreads = {t}
  PROVE  AccessorSpec => []AccessorTypeOK
<1>1. SInv(t) => AccessorTypeOK
  BY DEF SInv
<1>. QED
  BY <1>1, SubscriptionInvariance, PTL

\* With one thread that sets callbacks, a notification is handed to its callback
\* at most once (updateNotificationThread subscribes once).
THEOREM OneSetterOncePerNotification ==
  ASSUME NEW t, AppThreads = {t}
  PROVE  AccessorSpec => []OncePerNotification
<1>1. SInv(t) => OncePerNotification
  BY DEF SInv, Delivers, OncePerNotification
<1>. QED
  BY <1>1, SubscriptionInvariance, PTL

\* With one thread that sets callbacks, the accessor is subscribed whenever a
\* callback is set and no setter is under way (updateNotificationThread).
THEOREM OneSetterSubscribed ==
  ASSUME NEW t, AppThreads = {t}
  PROVE  AccessorSpec => []SetIsSubscribed
<1>1. SInv(t) => SetIsSubscribed
  BY DEF SInv, Subscribes, SetIsSubscribed, AnySet
<1>. QED
  BY <1>1, SubscriptionInvariance, PTL

\* With one thread that sets callbacks, no subscription is left when the accessor
\* is destroyed (~ClientAccessor).
THEOREM OneSetterUnsubscribed ==
  ASSUME NEW t, AppThreads = {t}
  PROVE  AccessorSpec => []DestroyedIsUnsubscribed
<1>1. SInv(t) => DestroyedIsUnsubscribed
  BY DEF SInv, Subscribes, DestroyedIsUnsubscribed
<1>. QED
  BY <1>1, SubscriptionInvariance, PTL

=============================================================================
