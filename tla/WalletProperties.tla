-------------------------- MODULE WalletProperties --------------------------
(***************************************************************************)
(* What the security wallet promises.                                      *)
(***************************************************************************)
EXTENDS SecurityWallet

\* In every portfolio the map by id and the map by name hold the same
\* documents, whatever creates, renames, deletions, restores and restarts came
\* before: a rename must drop the old name and a load must rebuild both maps
\* (secw_portfolio.cc, add, remove, update and the two load functions).
WalletAgrees(wallet) ==
  \A p \in Portfolios : wallet[p] # NoPortfolio => IndexAgree(wallet[p])

IndexesAgree == WalletAgrees(portfolios)

\* The database, the last backup and every tree about to be written hold each
\* document under its id and each name once per portfolio, so that loading them
\* does not depend on the order of the documents (loadPortfolioVersion1 keeps
\* the last document of a name and forgets the others by name).
ContentAgrees(content) ==
  \A p \in Portfolios : content[p] # NoPortfolio => StoredAgree(content[p])

SavedAgrees ==
  /\ ContentAgrees(database.content)
  /\ ContentAgrees(backup.content)
  /\ \A t \in Threads : ContentAgrees(work[t].rootSi)

\* What is written to the database is what the wallet holds at that moment, also
\* after saves that failed: no thread writes a tree that another has outdated
\* (SecurityWallet::save serialises first and writes last, under m_lock).
WritesMemory ==
  [][database'.file = "written" /\ database' # database =>
       database'.content = SerializeWallet(portfolios)]_vars

\* Whenever the lock is free, a restart with the current configuration would
\* give back exactly the documents in memory: every change was saved before its
\* reply, and reload() finds no stored document invalid.  The exception is a
\* wallet that a failed reload has emptied (SecurityWallet::save and reload).
RestartKeepsEverything ==
  process = "serving" /\ lock = "none" /\ portfolios # NoPortfolios =>
    /\ database.file = "written"
    /\ SerializeWallet(LoadWallet(configurations, database.content)) = SerializeWallet(portfolios)

\* No client is ever shown a document, or a state of one, that is not in the
\* database: requests never see the middle of a restore or of another change.
ReadsAreSaved ==
  \A x \in answer.delivered :
    LET stored == database.content[x.portfolio]
    IN  /\ database.file = "written" /\ stored # NoPortfolio
        /\ stored[x.form.id] # NoDocument
        /\ x.form \in {stored[x.form.id], WithoutSecret(Parse(stored[x.form.id]))}

\* A private part is only sent to a client that consumes a usage of the
\* document, by id, by name, or in a list with or without a requested usage.
SecretsOnlyToConsumers ==
  \A x \in answer.delivered :
    x.form.private => x.form.usages \cap ConsumerUsages(x.client, x.portfolio) # {}

\* The usages a document has before and after a change; a document that does
\* not exist has none.
UsagesOf(wallet, p, i) ==
  IF wallet[p] = NoPortfolio THEN {}
  ELSE IF Has(wallet[p], i) THEN wallet[p].documents[i].usages ELSE {}

\* A request adds a usage to a document, or takes one away, creating and
\* deleting it included, only if one producer is entitled to all of those
\* usages (handleCreate, handleUpdate, handleDelete).
UsageGuard ==
  [][lock = "none" /\ lock' = "socket" =>
       \E c \in Clients : \A p \in Portfolios, i \in Ids :
         LET before == UsagesOf(portfolios, p, i)
             after  == UsagesOf(portfolios', p, i)
         IN  \A u \in Usages : (u \in before) # (u \in after) =>
               u \in UsagesForProducer(configurations[p], c)]_vars

\* What the database holds of document i of portfolio p.
Stored(content, p, i) ==
  IF content[p] = NoPortfolio THEN NoDocument ELSE content[p][i]

\* A save never writes less than the file held, but for the document a Delete
\* removes and for a restore: not after a reload that failed, not after a
\* portfolio has left the configuration, not when the process starts.
OnlyDeleteOrRestoreForgets ==
  [][\A t \in Threads :
       database.file = "written" /\ work[t].step = "open" /\ work'[t].step = "write" =>
         \A p \in Portfolios, i \in Ids :
           Stored(database.content, p, i) # NoDocument
             /\ Stored(work[t].rootSi, p, i) = NoDocument =>
               \/ t = "srr"
               \/ /\ work[t].event.action = "DELETED"
                  /\ work[t].event.portfolio = {p} /\ work[t].event.oldData.id = i]_vars

\* The documents a backup brings to this platform.
BackupDocuments(p, isSamePlatform) ==
  IF backup.content[p] = NoPortfolio THEN {}
  ELSE {d \in ListDocuments(LoadPortfolio(backup.content[p])) :
          isSamePlatform \/ d.type # "InternalCertificate"}

\* A restore that answers SUCCESS leaves exactly the documents of the backup in
\* memory: with the key certificates if the backup was made on this platform,
\* without them if it was made on another (restoreSRRData, loadPortfolioFromSRR).
RestoredIsBackup ==
  [][work["srr"].step = "reload" /\ answer'.status = "SUCCESS" =>
       \A p \in Portfolios :
         (IF portfolios'[p] = NoPortfolio THEN {} ELSE ListDocuments(portfolios'[p]))
           = BackupDocuments(p, work["srr"].isSamePlatform)]_vars

\* Whoever takes the lock gives it back, also when the reload of a restore fails.
LockIsReleased == lock # "none" ~> lock = "none"

=============================================================================
