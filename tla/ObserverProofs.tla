---------------------------- MODULE ObserverProofs ----------------------------
(***************************************************************************)
(* What the clients of the wallet can rely on, for every set of documents, *)
(* clients, portfolios and configurations, with crashes at any step.       *)
(*                                                                         *)
(* A client that follows the notifications knows the public part of every  *)
(* document, when writes do not fail and nothing is restored.  The replica *)
(* is compared with the files, which survive the process: with the         *)
(* database while it is whole, and with the tree a thread is about to put  *)
(* in its place while it is not.                                           *)
(*                                                                         *)
(* A client that reads a list of documents gets what it could have         *)
(* observed.  What its call has found lies between what was readable all   *)
(* the time and what was readable at some time, and the state of the       *)
(* server is accounted for whenever a request can be served.               *)
(***************************************************************************)
EXTENDS StoreProofs, SubscribedWallet, ListedDocuments

-----------------------------------------------------------------------------
(* The replica of a client that follows the notifications *)

\* What the database, or a tree about to be written, shows of a document.
Shown(content, p, i) == PublicPart(Stored(content, p, i))

\* The document that the event under way is about.
Target(p, i) == <<p, i>> \in EventTarget(work["socket"].event)

Follows ==
  /\ Rests("srr")
  /\ database.file # "torn" =>
       \A p \in Portfolios, i \in Ids :
         \/ <<p, i>> \in missed
         \/ work["socket"].step = "notify" /\ Target(p, i)
         \/ replica[p][i] = Shown(database.content, p, i)
  /\ \A t \in Threads : work[t].step = "write" =>
       \A p \in Portfolios, i \in Ids :
         \/ <<p, i>> \in missed
         \/ t = "socket" /\ Target(p, i)
         \/ replica[p][i] = Shown(work[t].rootSi, p, i)
  /\ work["socket"].step = "write" =>
       \A p \in Portfolios, i \in Ids :
         Target(p, i) => work["socket"].event.newData = Shown(work["socket"].rootSi, p, i)
  /\ work["socket"].step = "notify" =>
       \A p \in Portfolios, i \in Ids :
         Target(p, i) => work["socket"].event.newData = Shown(database.content, p, i)

FInv == DInv /\ Follows

LEMMA SubscribedIsNext ==
  ASSUME [SubscribedNext]_subscribedVars
  PROVE  [Next]_vars
BY DEF SubscribedNext, subscribedVars, NotifySubscriber, HaltUnpublished, Next, vars

\* Nothing that the replica is compared with changes.
LEMMA FollowsKept ==
  ASSUME Follows, UNCHANGED <<database, replica, missed>>,
         \A t \in Threads : work[t].step # "write" /\ work'[t].step # "write",
         work["socket"].step # "notify", work'["socket"].step # "notify",
         work'["srr"].step = "idle"
  PROVE  Follows'
BY DEF Follows, Shown, Stored, Rests, Threads

LEMMA FollowsHalt ==
  ASSUME FInv, HaltUnpublished
  PROVE  Follows'
<1>1. /\ \A t \in Threads : work'[t].step = "idle"
      /\ UNCHANGED <<database, replica>>
  BY DEF HaltUnpublished, Stop, Crash, Halt, Idle
<1>2. missed \subseteq missed'
      /\ (work["socket"].step = "notify" => EventTarget(work["socket"].event) \subseteq missed')
  BY DEF HaltUnpublished
<1>3. ASSUME NEW p \in Portfolios, NEW i \in Ids, <<p, i>> \notin missed', database.file # "torn"
      PROVE  replica[p][i] = Shown(database.content, p, i)
  BY <1>2, <1>3 DEF FInv, Follows, Target
<1>. QED
  BY <1>1, <1>3 DEF Follows, Shown, Stored, Rests, Threads

LEMMA FollowsNotify ==
  ASSUME FInv, NotifySubscriber
  PROVE  Follows'
<1> DEFINE event == work["socket"].event
<1>1. /\ work["socket"].step = "notify" /\ UNCHANGED database
      /\ \A t \in Threads : work[t].step # "write" /\ work'[t].step # "write"
      /\ work'["socket"].step = "reply" /\ work'["srr"].step = "idle"
  <2>1. work["socket"].step = "notify" /\ ~Rests("socket")
    BY DEF NotifySubscriber, Notify, Rests
  <2>2. \A t \in Threads : work[t].step # "write"
    BY <2>1, Typed, OnlyOneSaves DEF FInv, Saves
  <2>. QED
    BY <2>1, <2>2, Typed DEF NotifySubscriber, Notify, GoOn, FInv, Follows, Rests
<1>2. CASE replica' = Follow(event) /\ missed' = missed \ EventTarget(event)
  <2>1. ASSUME NEW p \in Portfolios, NEW i \in Ids
        PROVE  /\ <<p, i>> \in missed' <=> <<p, i>> \in missed /\ ~Target(p, i)
               /\ replica'[p][i] = IF Target(p, i) THEN event.newData ELSE replica[p][i]
    BY <1>2 DEF Follow, Target
  <2>2. ASSUME NEW p \in Portfolios, NEW i \in Ids, <<p, i>> \notin missed', database.file # "torn"
        PROVE  replica'[p][i] = Shown(database.content, p, i)
    BY <1>1, <2>1, <2>2 DEF FInv, Follows
  <2>. QED
    BY <1>1, <2>2 DEF Follows, Shown, Stored, Rests, Threads
<1>3. CASE missed' = missed \cup EventTarget(event) /\ UNCHANGED replica
  <2>1. ASSUME NEW p \in Portfolios, NEW i \in Ids
        PROVE  <<p, i>> \in missed' <=> <<p, i>> \in missed \/ Target(p, i)
    BY <1>3 DEF Target
  <2>2. ASSUME NEW p \in Portfolios, NEW i \in Ids, <<p, i>> \notin missed', database.file # "torn"
        PROVE  replica'[p][i] = Shown(database.content, p, i)
    BY <1>1, <1>3, <2>1, <2>2 DEF FInv, Follows
  <2>. QED
    BY <1>1, <2>2 DEF Follows, Shown, Stored, Rests, Threads
<1>. QED
  BY <1>2, <1>3 DEF NotifySubscriber

LEMMA FollowsOpen ==
  ASSUME ~WritesFail, FInv, NEW t \in {"main", "socket"}, OpenDatabase(t), UNCHANGED <<replica, missed>>
  PROVE  Follows'
<1>1. /\ work[t].step = "open" /\ process \in {"starting", "serving"}
      /\ \A u \in Threads : u # t => Rests(u) /\ work'[u] = work[u]
      /\ t \in Threads
  <2>1. t \in Threads /\ work[t].step = "open" /\ Saves(t)
    BY DEF OpenDatabase, Saves, Threads
  <2>2. process \in {"starting", "serving"} /\ \A u \in Threads : u # t => Rests(u)
    BY <2>1, OnlyOneSaves DEF FInv, Rests, Saves
  <2>3. \A u \in Threads : u # t => work'[u] = work[u]
    BY <2>1, Typed DEF FInv, OpenDatabase, GoOn
  <2>. QED
    BY <2>1, <2>2, <2>3
<1>2. database.file # "torn"
  BY <1>1 DEF FInv, DInv, Files, Rests
<1>3. /\ work'[t].step = "write" /\ work'[t].rootSi = work[t].rootSi
      /\ work'[t].event = work[t].event /\ database'.file = "torn"
  BY <1>1, Typed DEF FInv, OpenDatabase, GoOn
<1>4. ASSUME NEW p \in Portfolios, NEW i \in Ids, <<p, i>> \notin missed
      PROVE  replica[p][i] = Shown(database.content, p, i)
  BY <1>1, <1>2, <1>4 DEF FInv, Follows, Rests, Threads
<1>5. CASE t = "main"
  <2>1. \A p \in Portfolios, i \in Ids : Shown(work[t].rootSi, p, i) = Shown(database.content, p, i)
    BY <1>1, <1>5 DEF FInv, DInv, Plans, ChangesNothing, Shown
  <2>. QED
    BY <1>1, <1>3, <1>4, <1>5, <2>1 DEF Follows, Shown, Stored, Rests, Threads
<1>6. CASE t = "socket"
  <2> DEFINE event == work["socket"].event
             new == work["socket"].rootSi
  <2>1. PICK p \in Portfolios, i \in Ids :
          /\ \A q \in Portfolios, j \in Ids :
               q # p \/ j # i => Stored(new, q, j) = Stored(database.content, q, j)
          /\ Tells(event, p, i, Stored(new, p, i))
    BY <1>1, <1>6 DEF FInv, DInv, Plans, ChangesOne
  <2>2. \A q \in Portfolios, j \in Ids : Target(q, j) <=> q = p /\ j = i
    BY <2>1 DEF Tells, Target, EventTarget, EventDocument
  <2>3. event.newData = Shown(new, p, i)
    BY <2>1 DEF Tells, Shown
  <2>4. ASSUME NEW q \in Portfolios, NEW j \in Ids, <<q, j>> \notin missed, ~Target(q, j)
        PROVE  replica[q][j] = Shown(new, q, j)
    BY <1>4, <2>1, <2>2, <2>4 DEF Shown
  <2>. QED
    BY <1>1, <1>3, <1>6, <2>2, <2>3, <2>4 DEF Follows, Target, Shown, Stored, Rests, Threads
<1>. QED
  BY <1>5, <1>6

LEMMA FollowsWrite ==
  ASSUME ~WritesFail, FInv, NEW t \in {"main", "socket"}, WriteDatabase(t), UNCHANGED <<replica, missed>>
  PROVE  Follows'
<1>1. /\ work[t].step = "write" /\ t \in Threads
      /\ \A u \in Threads : u # t => Rests(u) /\ work'[u] = work[u]
  BY Typed, OnlyOneSaves DEF FInv, WriteDatabase, SaveReturns, Saves, GoOn, Threads
<1>2. /\ work'[t].step = (IF t = "main" THEN "idle" ELSE "notify")
      /\ work'[t].event = work[t].event
      /\ database' = [file |-> "written", content |-> work[t].rootSi]
  BY <1>1, Typed DEF FInv, WriteDatabase, SaveReturns, GoOn, AfterSave
<1>3. ASSUME NEW p \in Portfolios, NEW i \in Ids, <<p, i>> \notin missed, t = "main" \/ ~Target(p, i)
      PROVE  replica[p][i] = Shown(work[t].rootSi, p, i)
  BY <1>1, <1>3 DEF FInv, Follows
<1>4. t = "socket" => \A p \in Portfolios, i \in Ids :
        Target(p, i) => work["socket"].event.newData = Shown(work["socket"].rootSi, p, i)
  BY <1>1 DEF FInv, Follows
<1>. QED
  BY <1>1, <1>2, <1>3, <1>4 DEF Follows, Target, Shown, Stored, Rests, Threads

LEMMA FollowsProduce ==
  ASSUME FInv, DInv', Produce, UNCHANGED <<replica, missed>>
  PROVE  Follows'
<1>1. /\ Listening /\ UNCHANGED database /\ work'["srr"] = work["srr"]
      /\ (work' = work \/ work'["socket"].step = "open")
  <2>1. ASSUME NEW c, NEW p, NEW form, Create(c, p, form) \/ UpdateDocument(c, p, form)
        PROVE  /\ Listening /\ UNCHANGED database /\ work'["srr"] = work["srr"]
               /\ (work' = work \/ work'["socket"].step = "open")
    BY <2>1, Typed DEF FInv, Create, UpdateDocument, Commit, Answer, Saving
  <2>2. ASSUME NEW c, NEW p, NEW id, Delete(c, p, id)
        PROVE  /\ Listening /\ UNCHANGED database /\ work'["srr"] = work["srr"]
               /\ (work' = work \/ work'["socket"].step = "open")
    BY <2>2, Typed DEF FInv, Delete, Commit, Answer, Saving
  <2>. QED
    BY <2>1, <2>2 DEF Produce
<1>2. database.file # "torn" /\ \A t \in Threads : Rests(t)
  BY <1>1, RestsBetweenRequests DEF FInv
<1>3. \A t \in Threads : work'[t].step # "write"
  BY <1>1, <1>2 DEF DInv, Files
<1>. QED
  BY <1>1, <1>2, <1>3, FollowsKept DEF FInv, Rests, Threads

LEMMA FollowsStep ==
  ASSUME ~WritesFail, Passphrases = {}, FInv, DInv', [SubscribedNext]_subscribedVars
  PROVE  Follows'
<1>1. CASE HaltUnpublished \/ NotifySubscriber
  BY <1>1, FollowsHalt, FollowsNotify
<1>2. CASE (EditConfiguration \/ Read \/ UNCHANGED vars) /\ UNCHANGED <<replica, missed>>
  <2>1. UNCHANGED <<database, work, replica, missed>>
    BY <1>2, ReadsOnlyAnswer DEF EditConfiguration, vars
  <2>. QED
    BY <2>1 DEF FInv, Follows, Target, Shown, Stored, Rests
<1>3. CASE Start /\ UNCHANGED <<replica, missed>>
  <2>1. \A t \in Threads : Rests(t)
    BY <1>3 DEF FInv, DInv, RInv, WInv, OneWorks, Start, Restarted, Threads
  <2>2. /\ \A t \in Threads : work'[t].step \in {"idle", "open"}
        /\ work'["srr"].step = "idle" /\ UNCHANGED database
    BY <1>3, <2>1, Typed DEF FInv, Start, Saving, Rests, Threads
  <2>. QED
    BY <1>3, <2>1, <2>2, FollowsKept DEF FInv, Rests, Threads
<1>4. CASE Produce /\ UNCHANGED <<replica, missed>>
  BY <1>4, FollowsProduce
<1>5. ~Srr /\ ~SrrReload
  BY DEF Srr, SrrReload, FInv, Follows, Rests
<1>6. CASE (\E t \in Threads : OpenDatabase(t) \/ WriteDatabase(t)) /\ UNCHANGED <<replica, missed>>
  <2>1. ~OpenDatabase("srr") /\ ~WriteDatabase("srr")
    BY DEF OpenDatabase, WriteDatabase, FInv, Follows, Rests
  <2>. QED
    BY <1>6, <2>1, FollowsOpen, FollowsWrite DEF Threads
<1>7. CASE Reply /\ UNCHANGED <<replica, missed>>
  <2>1. ~Rests("socket") /\ work["socket"].step = "reply"
    BY <1>7 DEF Reply, Rests
  <2>2. \A t \in Threads : work[t].step # "write"
    BY <2>1, Typed, OnlyOneSaves DEF FInv, Saves
  <2>3. /\ \A t \in Threads : work'[t].step # "write"
        /\ work'["socket"].step = "idle" /\ work'["srr"].step = "idle" /\ UNCHANGED database
    BY <1>7, <2>2, Typed DEF Reply, Idle, FInv, Follows, Rests
  <2>. QED
    BY <1>7, <2>1, <2>2, <2>3, FollowsKept DEF FInv
<1>8. CASE UNCHANGED subscribedVars
  BY <1>2, <1>8 DEF subscribedVars
<1>. QED
  BY <1>1, <1>2, <1>3, <1>4, <1>5, <1>6, <1>7, <1>8 DEF SubscribedNext

\* Between requests a client that has followed every notification has the public
\* part of every document as a request would give it, but for those whose event
\* died with the process or whose publication failed (sendNotificationOnCreate,
\* OnUpdate and OnDelete, after save and under the lock).
THEOREM FollowersKnowEveryDocument ==
  ASSUME ~WritesFail, Passphrases = {}
  PROVE  SubscribedSpec => []ReplicaFollows
<1>1. SubscribedSpec => Spec
  <2>1. SubscribedInit => Init
    BY DEF SubscribedInit
  <2>2. [SubscribedNext]_subscribedVars => [Next]_vars
    BY SubscribedIsNext
  <2>. QED
    BY <2>1, <2>2, PTL DEF SubscribedSpec, Spec
<1>2. SubscribedInit => Follows
  <2> SUFFICES ASSUME SubscribedInit PROVE Follows
    OBVIOUS
  <2>1. \A t \in Threads : work[t].step = "idle"
    BY DEF SubscribedInit, Init, Idle
  <2>2. \A p \in Portfolios, i \in Ids : replica[p][i] = Shown(database.content, p, i)
    BY DEF SubscribedInit, NoReplica, Init, Shown, Stored, NoPortfolios, PublicPart
  <2>. QED
    BY <2>1, <2>2 DEF Follows, Rests, Threads
<1>3. DInv /\ DInv' /\ Follows /\ [SubscribedNext]_subscribedVars => Follows'
  BY FollowsStep DEF FInv
<1>4. ASSUME FInv, Listening, portfolios # NoPortfolios,
             NEW p \in Portfolios, NEW i \in Ids, <<p, i>> \notin missed
      PROVE  replica[p][i] = PublicDocument(p, i)
  <2>1. Found
    BY <1>4 DEF FInv, DInv, RInv, Recoverable, Listening
  <2>2. database.file = "written" /\ work["socket"].step = "idle"
    BY <1>4, <2>1, RestsBetweenRequests DEF FInv, Found, Rests, Threads
  <2>3. replica[p][i] = PublicPart(Stored(SerializeWallet(portfolios), p, i))
    BY <1>4, <2>1, <2>2, FoundIsStored DEF FInv, Follows, Shown
  <2>4. CASE portfolios[p] # NoPortfolio /\ Has(portfolios[p], i)
    <3> DEFINE doc == portfolios[p].documents[i]
    <3>1. WithSecret(doc) \in Form
      BY <1>4, <2>4, Typed, SerializedType DEF FInv, Wallet, PortfolioRecord, DocumentMap, Has
    <3>2. WithoutSecret(doc) = PublicPart(WithSecret(doc))
      BY <3>1, NoDocumentAssumption DEF WithoutSecret, PublicPart
    <3>. QED
      BY <1>4, <2>3, <2>4, <3>2, Typed, SerializedDocuments DEF FInv, PublicDocument
  <2>5. CASE ~(portfolios[p] # NoPortfolio /\ Has(portfolios[p], i))
    BY <1>4, <2>3, <2>5, Typed, SerializedDocuments DEF FInv, PublicDocument, PublicPart
  <2>. QED
    BY <2>4, <2>5
<1>5. DInv /\ Follows => ReplicaFollows
  BY <1>4 DEF ReplicaFollows, FInv
<1>. QED
  BY <1>1, <1>2, <1>3, <1>5, DurableInvariance, PTL DEF SubscribedSpec

-----------------------------------------------------------------------------
(* Lists of documents *)

\* Readable and Missing, of the state before a step.
CanRead(c, call, i) ==
  \E p \in call.portfolio :
    /\ portfolios[p] # NoPortfolio
    /\ Has(portfolios[p], i)
    /\ call.secret => Shared(portfolios[p].documents[i], ConsumerUsages(c, p))

Misses(call) ==
  \/ process # "serving"
  \/ \E p \in call.portfolio :
       portfolios[p] = NoPortfolio \/ (call.secret /\ configurations[p] = NoAccess)

ListCall ==
  [step : {"idle", "calling", "returned", "thrown"}, secret : BOOLEAN,
   portfolio : SUBSET Portfolios, ids : SUBSET Ids, left : SUBSET Ids, found : SUBSET Ids,
   always : SUBSET Ids, ever : SUBSET Ids, missing : BOOLEAN]

\* What a call has found is what its caller could have observed so far.
Accounts(call) ==
  /\ call.always \ call.left \subseteq call.found
  /\ call.found \subseteq call.ever

\* What a call has recorded includes the state the server is in.
UpToDate(c, call) ==
  /\ process # "serving" => call.missing
  /\ Listening =>
       /\ \A i \in call.always : CanRead(c, call, i)
       /\ \A i \in call.ids : CanRead(c, call, i) => i \in call.ever
       /\ Misses(call) => call.missing

CallCorrect(c) ==
  /\ list[c] \in ListCall
  /\ list[c].step = "calling" =>
       /\ \E p \in Portfolios : list[c].portfolio = {p}
       /\ list[c].left \subseteq list[c].ids /\ list[c].always \subseteq list[c].ids
       /\ Accounts(list[c]) /\ UpToDate(c, list[c])
  /\ list[c].step = "returned" =>
       list[c].always \subseteq list[c].found /\ list[c].found \subseteq list[c].ever
  /\ list[c].step = "thrown" => list[c].missing

LInv ==
  /\ list = [c \in Listers |-> list[c]]
  /\ \A c \in Listers : CallCorrect(c)

\* The three ways a call goes on after a request.
LEMMA GoesOn ==
  ASSUME NEW call \in ListCall, NEW left \in SUBSET Ids, NEW found \in SUBSET Ids, left # {},
         NEW new, new = GoOnWith(call, left, found)
  PROVE  /\ new \in ListCall /\ new.step = call.step /\ new.secret = call.secret
         /\ new.portfolio = call.portfolio /\ new.ids = call.ids /\ new.left = left
         /\ new.found = found /\ new.always = call.always /\ new.ever = call.ever
         /\ new.missing = call.missing
BY DEF ListCall, GoOnWith

LEMMA Returns ==
  ASSUME NEW call \in ListCall, NEW found \in SUBSET Ids, NEW new, new = GoOnWith(call, {}, found)
  PROVE  /\ new \in ListCall /\ new.step = "returned" /\ new.found = found
         /\ new.always = call.always /\ new.ever = call.ever
BY DEF ListCall, GoOnWith, NoList

LEMMA Throws ==
  ASSUME NEW call \in ListCall, NEW new, new = Thrown(call)
  PROVE  new \in ListCall /\ new.step = "thrown" /\ new.missing = call.missing
BY DEF ListCall, Thrown, NoList

\* The record that Observed makes of a call.
Seen(call, always, ever, missing) ==
  [call EXCEPT !.always = always, !.ever = ever, !.missing = missing]

\* A step that shows nothing to the caller.
LEMMA CallKept ==
  ASSUME NEW c, CallCorrect(c), list'[c] = list[c],
         UNCHANGED <<process, configurations, portfolios, lock>>
  PROVE  CallCorrect(c)'
BY DEF CallCorrect, UpToDate, Accounts, CanRead, Misses, Listening, ConsumerUsages

\* Every other step, with what the caller can observe of it.
LEMMA ObservedCorrect ==
  ASSUME NEW c \in Listers, CallCorrect(c), list'[c] = Observed(c, list[c])
  PROVE  CallCorrect(c)'
<1> DEFINE readable == {i \in list[c].ids : Readable(c, list[c], i)}
<1>1. CASE list[c].step # "calling"
  BY <1>1 DEF Observed, CallCorrect
<1>2. CASE list[c].step = "calling" /\ process' = "serving" /\ lock' # "none"
  BY <1>2 DEF Observed, CallCorrect, UpToDate, Accounts, Listening
<1>3. CASE list[c].step = "calling" /\ ~(process' = "serving" /\ lock' # "none")
  <2>1. list'[c] = [list[c] EXCEPT !.always = @ \cap readable, !.ever = @ \cup readable,
                                   !.missing = @ \/ Missing(list[c])]
    BY <1>3 DEF Observed
  <2>2. /\ list'[c] \in ListCall /\ list'[c].step = "calling" /\ list'[c].secret = list[c].secret
        /\ list'[c].portfolio = list[c].portfolio /\ list'[c].ids = list[c].ids
        /\ list'[c].left = list[c].left /\ list'[c].found = list[c].found
        /\ list'[c].always = list[c].always \cap readable
        /\ list'[c].ever = list[c].ever \cup readable
        /\ list'[c].missing = (list[c].missing \/ Missing(list[c]))
    <3> DEFINE missing == list[c].missing \/ Missing(list[c])
               always == list[c].always \cap readable
               ever == list[c].ever \cup readable
    <3>1. list[c] \in ListCall /\ readable \in SUBSET Ids /\ missing \in BOOLEAN
      BY DEF CallCorrect, ListCall, Missing
    <3>2. always \in SUBSET Ids /\ ever \in SUBSET Ids
      BY <3>1 DEF ListCall
    <3>3. list'[c] = Seen(list[c], always, ever, missing)
      BY <2>1 DEF Seen
    <3> HIDE DEF readable, missing, always, ever
    <3>4. /\ list'[c] \in ListCall /\ list'[c].step = "calling" /\ list'[c].secret = list[c].secret
          /\ list'[c].portfolio = list[c].portfolio /\ list'[c].ids = list[c].ids
          /\ list'[c].left = list[c].left /\ list'[c].found = list[c].found
          /\ list'[c].always = always /\ list'[c].ever = ever
          /\ list'[c].missing = missing
      BY <1>3, <3>1, <3>2, <3>3 DEF ListCall, Seen
    <3>. QED
      BY <3>4 DEF missing, always, ever
  <2>3. Accounts(list'[c])
    BY <1>3, <2>2 DEF CallCorrect, Accounts
  <2>4. /\ \A i \in list[c].ids : i \in readable <=> CanRead(c, list[c], i)'
        /\ Missing(list[c]) <=> Misses(list[c])'
    BY <2>2 DEF Readable, CanRead, Missing, Misses
  <2> HIDE DEF readable
  <2>5. UpToDate(c, list[c])'
    BY <1>3, <2>2, <2>4 DEF CallCorrect, UpToDate, Misses
  <2>. QED
    BY <1>3, <2>2, <2>3, <2>5 DEF CallCorrect, Accounts
<1>. QED
  BY <1>1, <1>2, <1>3

\* The other clients do not see the step of one.
LEMMA OthersKept ==
  ASSUME LInv, NEW c \in Listers, NEW call, list' = [list EXCEPT ![c] = call],
         UNCHANGED <<process, configurations, portfolios, lock>>, CallCorrect(c)'
  PROVE  LInv'
<1>1. list'[c] = call /\ \A d \in Listers : d # c => list'[d] = list[d]
  BY DEF LInv
<1>2. \A d \in Listers : CallCorrect(d)'
  BY <1>1, CallKept DEF LInv
<1>3. list' = [d \in Listers |-> list'[d]]
  BY DEF LInv
<1>. QED
  BY <1>2, <1>3 DEF LInv

LEMMA CallStarts ==
  ASSUME LInv, NEW c \in Listers, NEW secret \in BOOLEAN, NEW p \in Portfolios,
         NEW ids \in SUBSET Ids, Call(c, secret, p, ids)
  PROVE  LInv'
<1> DEFINE call == [NoList EXCEPT !.step = "calling", !.secret = secret, !.portfolio = {p},
                                  !.ids = ids, !.left = ids, !.always = ids]
<1>1. /\ call \in ListCall /\ call.step = "calling" /\ call.secret = secret
      /\ call.portfolio = {p} /\ call.ids = ids /\ call.left = ids /\ call.found = {}
      /\ call.always = ids /\ call.ever = {} /\ call.missing = FALSE
  <2> HIDE DEF call
  <2>1. call = [NoList EXCEPT !.step = "calling", !.secret = secret, !.portfolio = {p},
                              !.ids = ids, !.left = ids, !.always = ids]
    BY DEF call
  <2>2. CASE secret = TRUE
    BY <2>1, <2>2 DEF ListCall, NoList
  <2>3. CASE secret = FALSE
    BY <2>1, <2>3 DEF ListCall, NoList
  <2>. QED
    BY <2>2, <2>3
<1>2. UNCHANGED <<process, configurations, portfolios, lock>>
  BY DEF Call, vars
<1>3. list' = [list EXCEPT ![c] = Observed(c, call)]
  BY DEF Call
<1>4. list'[c] = Observed(c, call)
  BY <1>3 DEF LInv
<1> HIDE DEF call
<1>5. CASE process' = "serving" /\ lock' # "none"
  <2>1. list'[c] = call
    BY <1>4, <1>5 DEF Observed
  <2>2. CallCorrect(c)'
    BY <1>1, <1>5, <2>1 DEF CallCorrect, Accounts, UpToDate, Listening
  <2>. QED
    BY <1>2, <1>3, <2>2, OthersKept
<1>6. CASE ~(process' = "serving" /\ lock' # "none")
  <2> DEFINE readable == {i \in call.ids : Readable(c, call, i)}
             missing == call.missing \/ Missing(call)
  <2>1. readable \in SUBSET ids /\ missing \in BOOLEAN
    BY <1>1 DEF Missing
  <2>2. list'[c] = Seen(call, readable, readable, missing)
    <3>1. call.always \cap readable = readable /\ call.ever \cup readable = readable
      BY <1>1
    <3>2. list'[c] = [call EXCEPT !.always = call.always \cap readable,
                                  !.ever = call.ever \cup readable, !.missing = missing]
      BY <1>1, <1>4, <1>6 DEF Observed
    <3> HIDE DEF readable, missing
    <3>. QED
      BY <3>1, <3>2 DEF Seen
  <2>3. /\ list'[c] \in ListCall /\ list'[c].step = "calling" /\ list'[c].secret = secret
        /\ list'[c].portfolio = {p} /\ list'[c].ids = ids /\ list'[c].left = ids
        /\ list'[c].found = {} /\ list'[c].always = readable /\ list'[c].ever = readable
        /\ list'[c].missing = missing
    <3> HIDE DEF readable, missing
    <3>1. readable \in SUBSET Ids
      BY <2>1
    <3>2. /\ list'[c] \in ListCall /\ list'[c].step = call.step /\ list'[c].secret = call.secret
          /\ list'[c].portfolio = call.portfolio /\ list'[c].ids = call.ids
          /\ list'[c].left = call.left /\ list'[c].found = call.found
          /\ list'[c].always = readable /\ list'[c].ever = readable /\ list'[c].missing = missing
      <4>1. call \in ListCall
        BY <1>1
      <4>. QED
        BY <2>1, <2>2, <3>1, <4>1 DEF ListCall, Seen
    <3>. QED
      BY <1>1, <3>2
  <2>4. /\ \A i \in ids : i \in readable <=> CanRead(c, list[c], i)'
        /\ missing <=> Misses(list[c])'
    BY <1>1, <2>3 DEF Readable, CanRead, Missing, Misses
  <2> HIDE DEF readable, missing
  <2>5. CallCorrect(c)'
    BY <1>6, <2>1, <2>3, <2>4 DEF CallCorrect, Accounts, UpToDate, Misses
  <2>. QED
    BY <1>2, <1>3, <2>5, OthersKept
<1>. QED
  BY <1>5, <1>6

\* A request of the loop answers OK exactly when the client can read the document,
\* and its error ends the call only when the portfolio is missing.
LEMMA RequestAnswers ==
  ASSUME NEW c, NEW p \in Portfolios, NEW i, NEW call, call.portfolio = {p},
         \/ call.secret /\ GetWithSecret(c, p, i)
         \/ ~call.secret /\ GetWithoutSecret(c, p, i)
  PROVE  /\ Listening
         /\ UNCHANGED <<process, configurations, portfolios, lock>>
         /\ answer'.status = "OK" <=> CanRead(c, call, i)
<1>1. CASE call.secret /\ GetWithSecret(c, p, i)
  <2>1. CanRead(c, call, i) <=> /\ Known(p) /\ ConsumerUsages(c, p) # {} /\ Has(portfolios[p], i)
                                /\ Shared(portfolios[p].documents[i], ConsumerUsages(c, p))
    BY <1>1 DEF CanRead, Known, Shared, ConsumerUsages
  <2>. QED
    BY <1>1, <2>1 DEF GetWithSecret, DeliverOr, Answer
<1>2. CASE ~call.secret /\ GetWithoutSecret(c, p, i)
  <2>1. CanRead(c, call, i) <=> portfolios[p] # NoPortfolio /\ Has(portfolios[p], i)
    BY <1>2 DEF CanRead
  <2>. QED
    BY <1>2, <2>1 DEF GetWithoutSecret, DeliverOr, Answer
<1>. QED
  BY <1>1, <1>2

LEMMA WithSecretErrorCode ==
  ASSUME NEW c, NEW p \in Portfolios, NEW i,
         configurations[p] # NoAccess, portfolios[p] # NoPortfolio
  PROVE  ThrownCode(WithSecretError(c, p, i)) \in Filtered
<1>1. CASE ConsumerUsages(c, p) = {}
  <2>1. WithSecretError(c, p, i) = ILLEGAL_ACCESS
    BY <1>1 DEF WithSecretError, Known
  <2>. QED
    BY <2>1 DEF ThrownCode, Filtered, ILLEGAL_ACCESS
<1>2. CASE ConsumerUsages(c, p) # {}
  <2>1. WithSecretError(c, p, i) \in {ILLEGAL_ACCESS, DOCUMENT_DO_NOT_EXIST}
    BY <1>2 DEF WithSecretError, Known
  <2>. QED
    BY <2>1 DEF ThrownCode, Filtered, ILLEGAL_ACCESS, DOCUMENT_DO_NOT_EXIST
<1>. QED
  BY <1>1, <1>2

LEMMA WithoutSecretErrorCode ==
  ASSUME NEW p, NEW i, portfolios[p] # NoPortfolio
  PROVE  ThrownCode(WithoutSecretError(p, i)) \in Filtered
BY DEF WithoutSecretError, ThrownCode, Filtered, DOCUMENT_DO_NOT_EXIST

LEMMA CollectCorrect ==
  ASSUME LInv, NEW c \in Listers, NEW p \in Portfolios, list[c].step = "calling",
         list[c].portfolio = {p}, NEW i \in list[c].left, NEW code,
         Listening, UNCHANGED <<process, configurations, portfolios, lock>>,
         answer'.status = "OK" <=> CanRead(c, list[c], i),
         ThrownCode(code) \notin Filtered => Misses(list[c]),
         list' = [list EXCEPT ![c] = Collect(list[c], i, code)]
  PROVE  LInv'
<1>1. /\ list'[c] = Collect(list[c], i, code)
      /\ CallCorrect(c) /\ list[c] \in ListCall /\ i \in Ids /\ i \in list[c].ids
      /\ Accounts(list[c]) /\ UpToDate(c, list[c])
  BY DEF LInv, CallCorrect, ListCall
<1> SUFFICES CallCorrect(c)'
  BY OthersKept
<1>2. ASSUME NEW left \in SUBSET list[c].left, NEW found \in SUBSET Ids,
             list'[c] = GoOnWith(list[c], left, found),
             list[c].always \ left \subseteq found, found \subseteq list[c].ever
      PROVE  CallCorrect(c)'
  <2>1. CASE left # {}
    <3>1. /\ list'[c] \in ListCall /\ list'[c].step = "calling" /\ list'[c].secret = list[c].secret
          /\ list'[c].portfolio = list[c].portfolio /\ list'[c].ids = list[c].ids
          /\ list'[c].left = left /\ list'[c].found = found /\ list'[c].always = list[c].always
          /\ list'[c].ever = list[c].ever /\ list'[c].missing = list[c].missing
      <4>1. left \in SUBSET Ids
        BY <1>1 DEF ListCall
      <4>. QED
        BY <1>1, <1>2, <2>1, <4>1, GoesOn
    <3>2. UpToDate(c, list[c])'
      BY <1>1, <3>1 DEF UpToDate, CanRead, Misses, Listening, ConsumerUsages
    <3>. QED
      BY <1>1, <1>2, <3>1, <3>2 DEF CallCorrect, Accounts
  <2>2. CASE left = {}
    <3>1. /\ list'[c] \in ListCall /\ list'[c].step = "returned" /\ list'[c].found = found
          /\ list'[c].always = list[c].always /\ list'[c].ever = list[c].ever
      BY <1>1, <1>2, <2>2, Returns
    <3>. QED
      BY <1>2, <2>2, <3>1 DEF CallCorrect
  <2>. QED
    BY <2>1, <2>2
<1>3. CASE answer'.status = "OK"
  <2>1. list'[c] = GoOnWith(list[c], list[c].left \ {i}, list[c].found \cup {i})
    BY <1>1, <1>3 DEF Collect
  <2>2. i \in list[c].ever
    BY <1>1, <1>3 DEF UpToDate
  <2>. QED
    BY <1>1, <1>2, <2>1, <2>2 DEF Accounts, ListCall
<1>4. CASE answer'.status # "OK" /\ ThrownCode(code) \in Filtered
  <2>1. list'[c] = GoOnWith(list[c], list[c].left \ {i}, list[c].found)
    BY <1>1, <1>4 DEF Collect
  <2>2. i \notin list[c].always
    BY <1>1, <1>4 DEF UpToDate
  <2>. QED
    BY <1>1, <1>2, <2>1, <2>2 DEF Accounts, ListCall
<1>5. CASE answer'.status # "OK" /\ ThrownCode(code) \notin Filtered
  <2>1. list'[c] = Thrown(list[c])
    BY <1>1, <1>5 DEF Collect
  <2>2. list[c].missing = TRUE
    BY <1>1, <1>5 DEF UpToDate, ListCall
  <2>. QED
    BY <1>1, <2>1, <2>2, Throws DEF CallCorrect
<1>. QED
  BY <1>3, <1>4, <1>5

LEMMA ListStep ==
  ASSUME LInv, [ListNext]_listVars
  PROVE  LInv'
<1>1. CASE ServerStep
  <2>1. list' = [c \in Listers |-> Observed(c, list[c])]
    BY <1>1 DEF ServerStep
  <2>2. \A c \in Listers : CallCorrect(c)'
    BY <2>1, ObservedCorrect DEF LInv
  <2>. QED
    BY <2>1, <2>2 DEF LInv
<1>2. ASSUME NEW c \in Listers, GetOneWithSecret(c)
      PROVE  LInv'
  <2>1. PICK p \in list[c].portfolio, i \in list[c].left :
          /\ GetWithSecret(c, p, i)
          /\ list' = [list EXCEPT ![c] = Collect(list[c], i, WithSecretError(c, p, i))]
    BY <1>2 DEF GetOneWithSecret
  <2>2. p \in Portfolios /\ list[c].portfolio = {p} /\ list[c].step = "calling" /\ list[c].secret
    BY <1>2 DEF LInv, CallCorrect, GetOneWithSecret
  <2>3. ThrownCode(WithSecretError(c, p, i)) \notin Filtered => Misses(list[c])
    BY <2>2, WithSecretErrorCode DEF Misses
  <2>4. /\ Listening /\ UNCHANGED <<process, configurations, portfolios, lock>>
        /\ answer'.status = "OK" <=> CanRead(c, list[c], i)
    BY <2>1, <2>2, RequestAnswers
  <2>. QED
    BY <2>1, <2>2, <2>3, <2>4, CollectCorrect
<1>3. ASSUME NEW c \in Listers, GetOneWithoutSecret(c)
      PROVE  LInv'
  <2>1. PICK p \in list[c].portfolio, i \in list[c].left :
          /\ GetWithoutSecret(c, p, i)
          /\ list' = [list EXCEPT ![c] = Collect(list[c], i, WithoutSecretError(p, i))]
    BY <1>3 DEF GetOneWithoutSecret
  <2>2. p \in Portfolios /\ list[c].portfolio = {p} /\ list[c].step = "calling" /\ ~list[c].secret
    BY <1>3 DEF LInv, CallCorrect, GetOneWithoutSecret
  <2>3. ThrownCode(WithoutSecretError(p, i)) \notin Filtered => Misses(list[c])
    BY <2>2, WithoutSecretErrorCode DEF Misses
  <2>4. /\ Listening /\ UNCHANGED <<process, configurations, portfolios, lock>>
        /\ answer'.status = "OK" <=> CanRead(c, list[c], i)
    BY <2>1, <2>2, RequestAnswers
  <2>. QED
    BY <2>1, <2>2, <2>3, <2>4, CollectCorrect
<1>4. ASSUME NEW c \in Listers, Unreachable(c)
      PROVE  LInv'
  <2>1. /\ list' = [list EXCEPT ![c] = Thrown(list[c])]
        /\ UNCHANGED <<process, configurations, portfolios, lock>>
    BY <1>4 DEF Unreachable, vars
  <2>2. list[c] \in ListCall /\ list[c].missing = TRUE
    BY <1>4 DEF LInv, CallCorrect, UpToDate, Unreachable, ListCall
  <2>3. list'[c] = Thrown(list[c])
    BY <2>1 DEF LInv
  <2>4. CallCorrect(c)'
    BY <2>2, <2>3, Throws DEF CallCorrect
  <2>. QED
    BY <2>1, <2>4, OthersKept
<1>5. CASE UNCHANGED listVars
  BY <1>5, CallKept DEF LInv, listVars, vars
<1>. QED
  BY <1>1, <1>2, <1>3, <1>4, <1>5, CallStarts DEF ListNext

LEMMA ListsInvariance == ListSpec => []LInv
<1>1. ListInit => LInv
  BY DEF ListInit, LInv, CallCorrect, ListCall, NoList
<1>. QED
  BY <1>1, ListStep, PTL DEF ListSpec

\* A list holds every document asked for that the client could read from the
\* call to the return, and none that it could read at no time in between,
\* whatever was created, changed, deleted, restored or restarted between two
\* requests of the loop, for any ids in any order and whether or not writes fail
\* (getListDocumentsWithPrivateData and getListDocumentsWithoutPrivateData).
THEOREM ListsAreComplete == ListSpec => []ListIsComplete
<1>1. LInv => ListIsComplete
  BY DEF LInv, CallCorrect, ListIsComplete
<1>. QED
  BY <1>1, ListsInvariance, PTL

\* A list call throws only when the server or the portfolio was missing at some
\* time between the call and the throw: the two errors of a document that is not
\* there, or not for this client, never end it (the catch of the two loops).
THEOREM ListsThrowForCause == ListSpec => []ListThrowsForCause
<1>1. LInv => ListThrowsForCause
  BY DEF LInv, CallCorrect, ListThrowsForCause
<1>. QED
  BY <1>1, ListsInvariance, PTL

=============================================================================
