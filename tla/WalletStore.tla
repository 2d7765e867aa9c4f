---------------------------- MODULE WalletStore ----------------------------
(***************************************************************************)
(* The wallet as its users see it: a store that changes one document at a  *)
(* time, a snapshot of it that can be put back, and the loss of everything *)
(* when the process dies at the wrong moment.                              *)
(***************************************************************************)
EXTENDS Portfolio

CONSTANT Portfolios

VARIABLES
  store,     \* the documents that a restart would find
  snapshot,  \* the documents of the last backup
  lost       \* the store can no longer be read

storeVars == <<store, snapshot, lost>>

NoDocuments == [p \in Portfolios |-> [i \in Ids |-> NoDocument]]

\* No two documents of a portfolio have the same name.
UniqueNames(documents) ==
  \A i, j \in Ids :
    documents[i] # NoDocument /\ documents[j] # NoDocument
      /\ documents[i].name = documents[j].name => i = j

StoreInit == store = NoDocuments /\ snapshot = NoDocuments /\ ~lost

\* One document is created, replaced by one of its type, or deleted.
Change(p, i) ==
  /\ ~lost
  /\ store' = [store EXCEPT ![p][i] = store'[p][i]]
  /\ store'[p][i] # NoDocument =>
       /\ Loadable(store'[p][i])
       /\ store[p][i] # NoDocument => store[p][i].type = store'[p][i].type
  /\ UniqueNames(store'[p])
  /\ UNCHANGED <<snapshot, lost>>

\* A wallet that a failed reload has emptied gives an empty snapshot.
Save ==
  /\ snapshot' \in {store, NoDocuments}
  /\ UNCHANGED <<store, lost>>

\* Key certificates are not put back on another machine.
Restore ==
  /\ ~lost
  /\ \/ store' = snapshot
     \/ store' = [p \in Portfolios |-> [i \in Ids |->
                    IF snapshot[p][i] # NoDocument /\ snapshot[p][i].type = "InternalCertificate"
                      THEN NoDocument ELSE snapshot[p][i]]]
  /\ UNCHANGED <<snapshot, lost>>

Lose ==
  /\ lost'
  /\ store' = NoDocuments
  /\ UNCHANGED snapshot

StoreNext ==
  \/ \E p \in Portfolios, i \in Ids : Change(p, i)
  \/ Save \/ Restore \/ Lose

StoreSpec == StoreInit /\ [][StoreNext]_storeVars

=============================================================================
