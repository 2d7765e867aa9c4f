-------------------------- MODULE SubscribedWallet --------------------------
(***************************************************************************)
(* The security wallet with a client that follows its notifications: the   *)
(* replica is what the client knows of the documents when it applies every *)
(* event the server publishes, in order.  The set missed holds the         *)
(* documents whose last event was lost: the process did not live to        *)
(* publish it, or the publication failed, which the server only logs.      *)
(***************************************************************************)
EXTENDS WalletProperties

VARIABLES replica, missed

subscribedVars == <<vars, replica, missed>>

NoReplica == [p \in Portfolios |-> [i \in Ids |-> NoDocument]]

SubscribedInit == Init /\ replica = NoReplica /\ missed = {}

EventDocument(event) == IF event.action = "DELETED" THEN event.oldData ELSE event.newData

EventTarget(event) == event.portfolio \X {EventDocument(event).id}

\* The callbacks of a client: a created or updated document replaces the one
\* with its id, a deleted document is dropped.
Follow(event) ==
  [p \in Portfolios |-> [i \in Ids |->
     IF <<p, i>> \in EventTarget(event) THEN event.newData ELSE replica[p][i]]]

\* Whatever publish throws is caught, and the request is answered OK.
NotifySubscriber ==
  LET event == work["socket"].event
  IN  /\ Notify
      /\ \/ /\ replica' = Follow(event)
            /\ missed' = missed \ EventTarget(event)
         \/ /\ missed' = missed \cup EventTarget(event)
            /\ UNCHANGED replica

\* The event of the change under way is never published.
HaltUnpublished ==
  /\ Stop \/ Crash
  /\ missed' = IF work["socket"].step \in {"open", "write", "notify"}
                 THEN missed \cup EventTarget(work["socket"].event) ELSE missed
  /\ UNCHANGED replica

SubscribedNext ==
  \/ NotifySubscriber
  \/ HaltUnpublished
  \/ /\ \/ Start \/ EditConfiguration \/ Produce \/ Read \/ Srr
        \/ \E t \in Threads : OpenDatabase(t) \/ WriteDatabase(t)
        \/ Reply \/ SrrReload
     /\ UNCHANGED <<replica, missed>>

SubscribedSpec == SubscribedInit /\ [][SubscribedNext]_subscribedVars

\* The public part of document i of portfolio p, as a client would read it.
PublicDocument(p, i) ==
  IF portfolios[p] = NoPortfolio THEN NoDocument
  ELSE IF Has(portfolios[p], i) THEN WithoutSecret(portfolios[p].documents[i])
  ELSE NoDocument

\* Between requests, a client that follows the notifications has the public part
\* of every document, but for those whose last event was lost; the next event of
\* a document makes up for it.
ReplicaFollows ==
  Listening /\ portfolios # NoPortfolios =>
    \A p \in Portfolios, i \in Ids :
      <<p, i>> \notin missed => replica[p][i] = PublicDocument(p, i)

\* The event of an update says that the secret changed exactly when the update
\* changes a stored secret.
SecretChangedIsTrue ==
  [][lock = "none" /\ work'["socket"].event.action = "UPDATED" =>
       \A p \in work'["socket"].event.portfolio :
         LET i == work'["socket"].event.newData.id
         IN  work'["socket"].event.secretChanged
               = (portfolios'[p].documents[i].sec # portfolios[p].documents[i].sec)]_subscribedVars

=============================================================================
