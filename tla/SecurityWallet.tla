--------------------------- MODULE SecurityWallet ---------------------------
(***************************************************************************)
(* The security wallet process: the documents in memory, the database and  *)
(* configuration files, the socket server that handles the requests of     *)
(* producers and consumers, and the save / restore (SRR) requests of the   *)
(* message bus, which run on a thread of their own under the same lock.    *)
(*                                                                         *)
(* A request that changes documents goes through the steps of its handler: *)
(* the change in memory with the serialisation of the whole wallet, the    *)
(* opening of the database file (which truncates it), the write, and then  *)
(* the notification and the reply, or the reload that ends a restore.  The *)
(* process may stop or crash between any two of them.                      *)
(***************************************************************************)
EXTENDS Portfolio, Configuration

CONSTANTS
  Submissions,         \* the documents that producers send, but for their id
  ConfigurationFiles,  \* the contents the configuration file may have
  Passphrases,         \* the passphrases of SRR requests
  ShortPassphrases,    \* those of fewer than 8 characters
  PlatformMatches,     \* whether a backup may be (or not be) of this platform
  Crashes,             \* whether the process may crash
  WritesFail,          \* whether a write to the database may fail
  NoPortfolio          \* a portfolio the wallet does not hold

ASSUME InputsAssumption ==
  /\ Submissions \subseteq Form
  /\ ConfigurationFiles \subseteq ConfigurationFile
  /\ PlatformMatches \subseteq BOOLEAN
  /\ Crashes \in BOOLEAN /\ WritesFail \in BOOLEAN
ASSUME NoPortfolioAssumption ==
  NoPortfolio \notin PortfolioRecord /\ NoPortfolio \notin StoredPortfolio

VARIABLES
  process,         \* the life of the process
  confFile,        \* the configuration file
  database,        \* the database file
  configurations,  \* m_configurations
  portfolios,      \* m_portfolios
  lock,            \* the holder of m_lock
  work,            \* what each thread is doing
  backup,          \* the last data SRR saved
  answer           \* the reply given by the last step, if it gave one

vars == <<process, confFile, database, configurations, portfolios, lock, work,
          backup, answer>>

Threads == {"main", "socket", "srr"}

Wallet       == [Portfolios -> PortfolioRecord \cup {NoPortfolio}]
StoredWallet == [Portfolios -> StoredPortfolio \cup {NoPortfolio}]
NoPortfolios == [p \in Portfolios |-> NoPortfolio]

\* What sendNotificationOnCreate, OnUpdate and OnDelete publish.
Event ==
  [action : {"none", "CREATED", "UPDATED", "DELETED"},
   portfolio : SUBSET Portfolios,
   oldData : Form \cup {NoDocument}, newData : Form \cup {NoDocument},
   nonSecretChanged : BOOLEAN, secretChanged : BOOLEAN]

NoEvent == [action |-> "none", portfolio |-> {}, oldData |-> NoDocument,
            newData |-> NoDocument, nonSecretChanged |-> FALSE,
            secretChanged |-> FALSE]

\* A thread at work: its next step, the tree that save() is writing, the event to
\* publish, and whether the backup it restores is of this platform.
Steps == {"idle", "open", "write", "notify", "reply", "reload"}
Work  == [step : Steps, rootSi : StoredWallet, event : Event, isSamePlatform : BOOLEAN]
Idle  == [step |-> "idle", rootSi |-> NoPortfolios, event |-> NoEvent, isSamePlatform |-> FALSE]

\* A document as it is sent to a client.
Delivery == [client : Clients, portfolio : Portfolios, form : Form]
NoAnswer == [status |-> "none", delivered |-> {}]

TypeOK ==
  /\ process \in {"down", "starting", "serving", "exited"}
  /\ confFile \in ConfigurationFile
  /\ database \in [file : {"missing", "torn", "written"}, content : StoredWallet]
  /\ configurations \in Configurations
  /\ portfolios \in Wallet
  /\ lock \in {"none", "socket", "srr"}
  /\ work \in [Threads -> Work]
  /\ backup \in [passphrase : SUBSET Passphrases, content : StoredWallet]
  /\ answer \in [status : {"none", "OK", "ERROR", "SUCCESS", "FAILED"},
                 delivered : SUBSET Delivery]

Init ==
  /\ process = "down"
  /\ confFile \in ConfigurationFiles
  /\ database = [file |-> "missing", content |-> NoPortfolios]
  /\ configurations = NoConfigurations
  /\ portfolios = NoPortfolios
  /\ lock = "none"
  /\ work = [t \in Threads |-> Idle]
  /\ backup = [passphrase |-> {}, content |-> NoPortfolios]
  /\ answer = NoAnswer

-----------------------------------------------------------------------------
(* SecurityWallet::reload and save *)

SerializeWallet(wallet) ==
  [p \in Portfolios |-> IF wallet[p] = NoPortfolio THEN NoPortfolio
                                                   ELSE SerializePortfolio(wallet[p])]

\* Variant used to test the properties: only the configured portfolios are kept.
LoadWalletConfigured(conf, content) ==
  [p \in Portfolios |->
     IF conf[p] = NoAccess THEN NoPortfolio
     ELSE IF content[p] # NoPortfolio THEN LoadPortfolio(content[p]) ELSE EmptyPortfolio]

\* What reload() makes of the two files: the portfolios of the database, and
\* an empty one for each other portfolio of the configuration.
LoadWallet(conf, content) ==
  [p \in Portfolios |->
     IF content[p] # NoPortfolio THEN LoadPortfolio(content[p])
     ELSE IF conf[p] # NoAccess THEN EmptyPortfolio
     ELSE NoPortfolio]

ReloadSucceeds == ConfigurationLoads(confFile) /\ database.file # "torn"

\* reload() clears the memory first and leaves it so when it throws.
Reload ==
  /\ configurations' = confFile.entries
  /\ portfolios' = IF ReloadSucceeds THEN LoadWallet(confFile.entries, database.content)
                                     ELSE NoPortfolios

\* The first half of save(): the whole wallet is serialised.
Saving(wallet, event, isSamePlatform) ==
  [step |-> "open", rootSi |-> SerializeWallet(wallet), event |-> event,
   isSamePlatform |-> isSamePlatform]

\* Thread t goes on to its next step.
GoOn(t, step, rootSi) ==
  work' = [work EXCEPT ![t] = [step |-> step, rootSi |-> rootSi, event |-> work[t].event,
                               isSamePlatform |-> work[t].isSamePlatform]]

\* Where a thread goes on when save() returns.
AfterSave(t) == CASE t = "main" -> "idle" [] t = "socket" -> "notify" [] OTHER -> "reload"

SaveReturns(t) ==
  /\ GoOn(t, AfterSave(t), NoPortfolios)
  /\ process' = IF t = "main" THEN "serving" ELSE process

\* std::ofstream truncates the file when it opens it.  Nothing looks at the
\* state of the stream, so a failure to open goes unnoticed.
OpenDatabase(t) ==
  /\ work[t].step = "open"
  /\ \/ /\ database' = [file |-> "torn", content |-> NoPortfolios]
        /\ GoOn(t, "write", work[t].rootSi)
        /\ UNCHANGED process
     \/ /\ WritesFail
        /\ SaveReturns(t)
        /\ UNCHANGED database
  /\ answer' = NoAnswer
  /\ UNCHANGED <<confFile, configurations, portfolios, lock, backup>>

\* The tree is written and the file closed; a failed write goes unnoticed too.
WriteDatabase(t) ==
  /\ work[t].step = "write"
  /\ \/ database' = [file |-> "written", content |-> work[t].rootSi]
     \/ WritesFail /\ UNCHANGED database
  /\ SaveReturns(t)
  /\ answer' = NoAnswer
  /\ UNCHANGED <<confFile, configurations, portfolios, lock, backup>>

-----------------------------------------------------------------------------
(* The life of the process *)

\* Variant used to test the properties: a process that gave up is not restarted.
RestartedOnce == process = "down"

\* The service manager starts the process however it ended.
Restarted == process \in {"down", "exited"}

\* The constructor of SecurityWallet: reload, then the save that creates the
\* database.  The process exits when reload throws.
Start ==
  /\ Restarted
  /\ \/ /\ ReloadSucceeds
        /\ Reload
        /\ process' = "starting"
        /\ work' = [work EXCEPT !["main"] = Saving(portfolios', NoEvent, FALSE)]
     \/ /\ ~ReloadSucceeds
        /\ process' = "exited"
        /\ UNCHANGED <<configurations, portfolios, work>>
  /\ answer' = NoAnswer
  /\ UNCHANGED <<confFile, database, lock, backup>>

\* Whatever ends the process, its memory is gone and its files stay.
Halt ==
  /\ process' = "down"
  /\ configurations' = NoConfigurations
  /\ portfolios' = NoPortfolios
  /\ lock' = "none"
  /\ work' = [t \in Threads |-> Idle]
  /\ answer' = NoAnswer
  /\ UNCHANGED <<confFile, database, backup>>

\* ~SecurityWalletServer waits for the lock.
Stop == process = "serving" /\ lock = "none" /\ Halt

Crash == Crashes /\ process \in {"starting", "serving"} /\ Halt

\* An administrator replaces the configuration file.
EditConfiguration ==
  /\ confFile' \in ConfigurationFiles \ {confFile}
  /\ answer' = NoAnswer
  /\ UNCHANGED <<process, database, configurations, portfolios, lock, work, backup>>

-----------------------------------------------------------------------------
(* The requests of producers: handleRequest takes the lock, and a handler  *)
(* that throws answers ERROR and changes nothing.                          *)

\* Variant used to test the properties: a request does not take the lock.
ListeningUnlocked == process = "serving"

Listening == process = "serving" /\ lock = "none"

Answer(status, delivered) ==
  /\ answer' = [status |-> status, delivered |-> delivered]
  /\ UNCHANGED <<process, confFile, database, configurations, portfolios, lock,
                 work, backup>>

\* getConfiguration and getPortfolio both find the portfolio.
Known(p) == configurations[p] # NoAccess /\ portfolios[p] # NoPortfolio

\* Change portfolio p, then save and notify.
Commit(p, portfolio, event) ==
  /\ lock' = "socket"
  /\ portfolios' = [portfolios EXCEPT ![p] = portfolio]
  /\ work' = [work EXCEPT !["socket"] = Saving(portfolios', event, FALSE)]
  /\ answer' = NoAnswer
  /\ UNCHANGED <<process, confFile, database, configurations, backup>>

CreateAccepted(c, p, form) ==
  LET allowed == UsagesForProducer(configurations[p], c)
  IN  /\ Known(p)
      /\ allowed # {}
      /\ Parseable(form) /\ Valid(Parse(form))
      /\ form.usages \subseteq allowed
      /\ Addable(portfolios[p], Parse(form))

CreateEvent(p, doc) ==
  [NoEvent EXCEPT !.action = "CREATED", !.portfolio = {p},
                  !.newData = WithoutSecret(doc)]

Create(c, p, form) ==
  /\ Listening
  /\ \/ /\ CreateAccepted(c, p, form)
        /\ \E id \in FreshIds(portfolios[p]) :
             LET portfolio == Add(portfolios[p], Parse(form), id)
             IN  Commit(p, portfolio, CreateEvent(p, portfolio.documents[id]))
     \/ /\ ~CreateAccepted(c, p, form)
        /\ Answer("ERROR", {})

DeleteAccepted(c, p, id) ==
  LET allowed == UsagesForProducer(configurations[p], c)
  IN  /\ Known(p)
      /\ allowed # {}
      /\ Has(portfolios[p], id)
      /\ portfolios[p].documents[id].usages \subseteq allowed

DeleteEvent(p, doc) ==
  [NoEvent EXCEPT !.action = "DELETED", !.portfolio = {p},
                  !.oldData = WithoutSecret(doc)]

Delete(c, p, id) ==
  /\ Listening
  /\ \/ /\ DeleteAccepted(c, p, id)
        /\ Commit(p, Remove(portfolios[p], id), DeleteEvent(p, portfolios[p].documents[id]))
     \/ /\ ~DeleteAccepted(c, p, id)
        /\ Answer("ERROR", {})

\* Variant used to test the properties: the updated document is not validated.
UpdateAcceptedInvalid(c, p, form) ==
  LET allowed == UsagesForProducer(configurations[p], c)
      old     == portfolios[p].documents[form.id]
  IN  /\ Known(p) /\ allowed # {} /\ Parseable(form) /\ Has(portfolios[p], form.id)
      /\ UsageDifference(form.usages, old.usages) \subseteq allowed
      /\ Overwritable(old, form) /\ Updatable(portfolios[p], Overwrite(old, form))

UpdateAccepted(c, p, form) ==
  LET allowed == UsagesForProducer(configurations[p], c)
      old     == portfolios[p].documents[form.id]
      new     == Overwrite(old, form)
  IN  /\ Known(p)
      /\ allowed # {}
      /\ Parseable(form)
      /\ Has(portfolios[p], form.id)
      /\ UsageDifference(form.usages, old.usages) \subseteq allowed
      /\ Overwritable(old, form)
      /\ Valid(new)
      /\ Updatable(portfolios[p], new)

\* Variant used to test the properties: the old document is published as the new.
UpdateEventOld(p, old, received) ==
  [action |-> "UPDATED", portfolio |-> {p},
   oldData |-> WithoutSecret(old), newData |-> WithoutSecret(old),
   nonSecretChanged |-> FALSE, secretChanged |-> FALSE]

\* The document of the notification is the one received, not the one stored.
UpdateEvent(p, old, received) ==
  [action |-> "UPDATED", portfolio |-> {p},
   oldData |-> WithoutSecret(old), newData |-> WithoutSecret(received),
   nonSecretChanged |-> ~IsNonSecretEquals(received, old),
   secretChanged    |-> ~IsSecretEquals(received, old)]

UpdateDocument(c, p, form) ==
  /\ Listening
  /\ \/ /\ UpdateAccepted(c, p, form)
        /\ LET old == portfolios[p].documents[form.id]
           IN  Commit(p, Update(portfolios[p], Overwrite(old, form)),
                      UpdateEvent(p, old, Parse(form)))
     \/ /\ ~UpdateAccepted(c, p, form)
        /\ Answer("ERROR", {})

\* The notification is published with the lock held.  A publication that throws
\* is logged, and the request goes on; nothing in the wallet depends on it.
Notify ==
  /\ work["socket"].step = "notify"
  /\ GoOn("socket", "reply", work["socket"].rootSi)
  /\ answer' = NoAnswer
  /\ UNCHANGED <<process, confFile, database, configurations, portfolios, lock, backup>>

Reply ==
  /\ work["socket"].step = "reply"
  /\ work' = [work EXCEPT !["socket"] = Idle]
  /\ lock' = "none"
  /\ answer' = [status |-> "OK", delivered |-> {}]
  /\ UNCHANGED <<process, confFile, database, configurations, portfolios, backup>>

-----------------------------------------------------------------------------
(* The requests that read documents *)

ConsumerUsages(c, p) ==
  IF configurations[p] = NoAccess THEN {} ELSE UsagesForConsumer(configurations[p], c)

\* hasCommonUsageIds
Shared(doc, usages) == doc.usages \cap usages # {}

DeliverOr(accepted, c, p, forms) ==
  \/ accepted /\ Answer("OK", {[client |-> c, portfolio |-> p, form |-> f] : f \in forms})
  \/ ~accepted /\ Answer("ERROR", {})

\* handleGetDocumentWithSecret
GetWithSecret(c, p, id) ==
  LET doc == portfolios[p].documents[id]
  IN  /\ Listening
      /\ DeliverOr(/\ Known(p) /\ ConsumerUsages(c, p) # {}
                   /\ Has(portfolios[p], id)
                   /\ Shared(doc, ConsumerUsages(c, p)),
                   c, p, {WithSecret(doc)})

\* handleGetDocumentWithSecretByName
GetWithSecretByName(c, p, name) ==
  LET doc == portfolios[p].mapNameDocuments[name]
  IN  /\ Listening
      /\ DeliverOr(/\ Known(p) /\ ConsumerUsages(c, p) # {}
                   /\ HasName(portfolios[p], name)
                   /\ Shared(doc, ConsumerUsages(c, p)),
                   c, p, {WithSecret(doc)})

\* handleGetDocumentWithoutSecret, which does not look at the configuration
GetWithoutSecret(c, p, id) ==
  /\ Listening
  /\ DeliverOr(portfolios[p] # NoPortfolio /\ Has(portfolios[p], id),
               c, p, {WithoutSecret(portfolios[p].documents[id])})

\* handleGetDocumentWithoutSecretByName
GetWithoutSecretByName(c, p, name) ==
  /\ Listening
  /\ DeliverOr(portfolios[p] # NoPortfolio /\ HasName(portfolios[p], name),
               c, p, {WithoutSecret(portfolios[p].mapNameDocuments[name])})

\* The list requests name one usage (a singleton) or none (the empty set).
Wanted == {{}} \cup {{u} : u \in Usages}

\* Variant used to test the properties: a client may name any usage.
ListWithSecretAnyUsage(c, p, wanted) ==
  LET usages == IF wanted = {} THEN ConsumerUsages(c, p) ELSE wanted
  IN  /\ Listening
      /\ DeliverOr(Known(p) /\ ConsumerUsages(c, p) # {}, c, p,
                   {WithSecret(d) : d \in {x \in ListDocuments(portfolios[p]) : Shared(x, usages)}})

\* handleGetListDocumentsWithSecret
ListWithSecret(c, p, wanted) ==
  LET allowed == ConsumerUsages(c, p)
      usages  == IF wanted = {} THEN allowed ELSE wanted
  IN  /\ Listening
      /\ DeliverOr(Known(p) /\ allowed # {} /\ wanted \subseteq allowed, c, p,
                   {WithSecret(d) : d \in {x \in ListDocuments(portfolios[p]) : Shared(x, usages)}})

\* handleGetListDocumentsWithoutSecret
ListWithoutSecret(c, p, wanted) ==
  /\ Listening
  /\ DeliverOr(Known(p) /\ wanted \subseteq configurations[p].usages, c, p,
               {WithoutSecret(d) : d \in {x \in ListDocuments(portfolios[p]) :
                                            wanted = {} \/ Shared(x, wanted)}})

Read ==
  \E c \in Clients, p \in Portfolios :
    \/ \E id \in Ids : GetWithSecret(c, p, id) \/ GetWithoutSecret(c, p, id)
    \/ \E name \in Names : GetWithSecretByName(c, p, name) \/ GetWithoutSecretByName(c, p, name)
    \/ \E wanted \in Wanted : ListWithSecret(c, p, wanted) \/ ListWithoutSecret(c, p, wanted)

-----------------------------------------------------------------------------
(* Save and restore, on the message bus thread *)

\* handleSave, getSrrSaveData
SrrSave(passphrase) ==
  /\ Listening
  /\ \/ /\ passphrase \notin ShortPassphrases
        /\ backup' = [passphrase |-> {passphrase}, content |-> SerializeWallet(portfolios)]
        /\ answer' = [status |-> "SUCCESS", delivered |-> {}]
        /\ UNCHANGED <<process, confFile, database, configurations, portfolios, lock, work>>
     \/ /\ passphrase \in ShortPassphrases
        /\ Answer("FAILED", {})

\* Variant used to test the properties: the memory is not cleared first.
LoadBackupMerged(content, isSamePlatform) ==
  [p \in Portfolios |->
     IF content[p] = NoPortfolio THEN portfolios[p]
                                 ELSE LoadPortfolioFromSRR(content[p], isSamePlatform)]

LoadBackup(content, isSamePlatform) ==
  [p \in Portfolios |->
     IF content[p] = NoPortfolio THEN NoPortfolio
                                 ELSE LoadPortfolioFromSRR(content[p], isSamePlatform)]

\* handleRestore, restoreSRRData up to the save: the documents are replaced by
\* those of the backup.
SrrRestore(passphrase, isSamePlatform) ==
  LET accepted == passphrase \notin ShortPassphrases /\ passphrase \in backup.passphrase
  IN  /\ Listening
      /\ backup.passphrase # {}
      /\ \/ /\ accepted
            /\ lock' = "srr"
            /\ portfolios' = LoadBackup(backup.content, isSamePlatform)
            /\ work' = [work EXCEPT !["srr"] = Saving(portfolios', NoEvent, isSamePlatform)]
            /\ answer' = NoAnswer
            /\ UNCHANGED <<process, confFile, database, configurations, backup>>
         \/ /\ ~accepted
            /\ Answer("FAILED", {})

\* Variant used to test the properties: a reload that throws keeps the lock.
SrrReloadLocked ==
  /\ work["srr"].step = "reload"
  /\ Reload
  /\ work' = [work EXCEPT !["srr"] = Idle]
  /\ lock' = IF ReloadSucceeds THEN "none" ELSE "srr"
  /\ answer' = [status |-> IF ReloadSucceeds THEN "SUCCESS" ELSE "FAILED", delivered |-> {}]
  /\ UNCHANGED <<process, confFile, database, backup>>

\* The reload that ends a restore, and the status it answers.
SrrReload ==
  /\ work["srr"].step = "reload"
  /\ Reload
  /\ work' = [work EXCEPT !["srr"] = Idle]
  /\ lock' = "none"
  /\ answer' = [status |-> IF ReloadSucceeds THEN "SUCCESS" ELSE "FAILED",
                delivered |-> {}]
  /\ UNCHANGED <<process, confFile, database, backup>>

-----------------------------------------------------------------------------
Produce ==
  \E c \in Clients, p \in Portfolios :
    \/ \E form \in Submissions : Create(c, p, form)
    \/ \E form \in Submissions, id \in Ids : UpdateDocument(c, p, [form EXCEPT !.id = id])
    \/ \E id \in Ids : Delete(c, p, id)

Srr ==
  \E passphrase \in Passphrases :
    \/ SrrSave(passphrase)
    \/ \E isSamePlatform \in PlatformMatches : SrrRestore(passphrase, isSamePlatform)

Next ==
  \/ Start \/ Stop \/ Crash \/ EditConfiguration
  \/ Produce \/ Read \/ Srr
  \/ \E t \in Threads : OpenDatabase(t) \/ WriteDatabase(t)
  \/ Notify \/ Reply \/ SrrReload

Spec == Init /\ [][Next]_vars

=============================================================================
