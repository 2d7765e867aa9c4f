---------------------------- MODULE WalletProofs ----------------------------
(***************************************************************************)
(* The type invariant of the security wallet, and the agreement of the two *)
(* maps of every portfolio, for every set of ids, names, usages, clients,  *)
(* portfolios, documents, configuration files and passphrases, with        *)
(* crashes and failing writes or without.                                  *)
(*                                                                         *)
(* IndexesAgree is not inductive by itself: a restart or a restore makes   *)
(* the maps anew from a file, so the files must hold each name once, and   *)
(* they do because they were written from maps that agree.                 *)
(***************************************************************************)
EXTENDS WalletProperties, PortfolioProofs

IInv == TypeOK /\ IndexesAgree /\ SavedAgrees

-----------------------------------------------------------------------------
(* Wallets and their stored form *)

LEMMA NoPortfoliosCorrect ==
  /\ NoPortfolios \in Wallet /\ WalletAgrees(NoPortfolios)
  /\ NoPortfolios \in StoredWallet /\ ContentAgrees(NoPortfolios)
BY DEF NoPortfolios, Wallet, StoredWallet, WalletAgrees, ContentAgrees

LEMMA EmptyPortfolioCorrect == EmptyPortfolio \in PortfolioRecord /\ IndexAgree(EmptyPortfolio)
BY DEF EmptyPortfolio, PortfolioRecord, DocumentMap, NameMap, IndexAgree, Has, HasName

LEMMA SerializeWalletCorrect ==
  ASSUME NEW wallet \in Wallet, WalletAgrees(wallet)
  PROVE  SerializeWallet(wallet) \in StoredWallet /\ ContentAgrees(SerializeWallet(wallet))
<1>1. ASSUME NEW p \in Portfolios, wallet[p] # NoPortfolio
      PROVE  /\ SerializePortfolio(wallet[p]) \in StoredPortfolio
             /\ StoredAgree(SerializePortfolio(wallet[p]))
  BY <1>1, SerializeCorrect DEF Wallet, WalletAgrees
<1>. QED
  BY <1>1 DEF SerializeWallet, StoredWallet, ContentAgrees

LEMMA LoadWalletCorrect ==
  ASSUME NEW conf, NEW content \in StoredWallet, ContentAgrees(content)
  PROVE  LoadWallet(conf, content) \in Wallet /\ WalletAgrees(LoadWallet(conf, content))
<1>1. ASSUME NEW p \in Portfolios, content[p] # NoPortfolio
      PROVE  LoadPortfolio(content[p]) \in PortfolioRecord /\ IndexAgree(LoadPortfolio(content[p]))
  BY <1>1, LoadCorrect DEF StoredWallet, ContentAgrees
<1>. QED
  BY <1>1, EmptyPortfolioCorrect DEF LoadWallet, Wallet, WalletAgrees

LEMMA LoadBackupCorrect ==
  ASSUME NEW content \in StoredWallet, ContentAgrees(content), NEW same \in BOOLEAN
  PROVE  LoadBackup(content, same) \in Wallet /\ WalletAgrees(LoadBackup(content, same))
<1>1. ASSUME NEW p \in Portfolios, content[p] # NoPortfolio
      PROVE  /\ LoadPortfolioFromSRR(content[p], same) \in PortfolioRecord
             /\ IndexAgree(LoadPortfolioFromSRR(content[p], same))
  BY <1>1, LoadFromSRRCorrect DEF StoredWallet, ContentAgrees
<1>. QED
  BY <1>1 DEF LoadBackup, Wallet, WalletAgrees

LEMMA IdleCorrect == Idle \in Work /\ ContentAgrees(Idle.rootSi)
BY NoPortfoliosCorrect DEF Idle, Work, Steps, NoEvent, Event

LEMMA SavingCorrect ==
  ASSUME NEW wallet \in Wallet, WalletAgrees(wallet), NEW event \in Event, NEW same \in BOOLEAN
  PROVE  /\ Saving(wallet, event, same) \in Work
         /\ ContentAgrees(Saving(wallet, event, same).rootSi)
BY SerializeWalletCorrect DEF Saving, Work, Steps

LEMMA EventsTyped ==
  ASSUME NEW p \in Portfolios, NEW doc \in Document, NEW other \in Document
  PROVE  /\ NoEvent \in Event
         /\ CreateEvent(p, doc) \in Event
         /\ DeleteEvent(p, doc) \in Event
         /\ UpdateEvent(p, doc, other) \in Event
<1>1. WithoutSecret(doc) \in Form /\ WithoutSecret(other) \in Form
  BY SerializedType
<1>2. NoEvent \in Event
  BY DEF NoEvent, Event
<1>3. CreateEvent(p, doc) \in Event
  BY <1>1 DEF CreateEvent, NoEvent, Event
<1>4. DeleteEvent(p, doc) \in Event
  BY <1>1 DEF DeleteEvent, NoEvent, Event
<1>5. UpdateEvent(p, doc, other) \in Event
  BY <1>1 DEF UpdateEvent, IsNonSecretEquals, IsSecretEquals, Event
<1>. QED
  BY <1>2, <1>3, <1>4, <1>5

-----------------------------------------------------------------------------
(* The steps of the process and of save *)

\* Most steps put one thread to a new piece of work, or none.
LEMMA WorkCorrect ==
  ASSUME work \in [Threads -> Work], \A t \in Threads : ContentAgrees(work[t].rootSi),
         NEW t \in Threads, NEW new \in Work, ContentAgrees(new.rootSi)
  PROVE  /\ [work EXCEPT ![t] = new] \in [Threads -> Work]
         /\ \A u \in Threads : ContentAgrees([work EXCEPT ![t] = new][u].rootSi)
OBVIOUS

LEMMA GoOnCorrect ==
  ASSUME IInv, NEW t \in Threads, NEW step \in Steps,
         NEW rootSi \in StoredWallet, ContentAgrees(rootSi), GoOn(t, step, rootSi)
  PROVE  /\ work' \in [Threads -> Work]
         /\ \A u \in Threads : ContentAgrees(work'[u].rootSi)
<1> DEFINE new == [step |-> step, rootSi |-> rootSi, event |-> work[t].event,
                   isSamePlatform |-> work[t].isSamePlatform]
<1>1. new \in Work /\ ContentAgrees(new.rootSi)
  BY DEF IInv, TypeOK, Work
<1>2. work' = [work EXCEPT ![t] = new]
  BY DEF GoOn
<1> HIDE DEF new
<1>. QED
  BY <1>1, <1>2, WorkCorrect DEF IInv, TypeOK, SavedAgrees

LEMMA SaveReturnsCorrect ==
  ASSUME IInv, NEW t \in Threads, SaveReturns(t)
  PROVE  /\ work' \in [Threads -> Work]
         /\ \A u \in Threads : ContentAgrees(work'[u].rootSi)
         /\ process' \in {"down", "starting", "serving", "exited"}
<1>1. AfterSave(t) \in Steps
  BY DEF AfterSave, Steps, Threads
<1>2. process' \in {"down", "starting", "serving", "exited"}
  BY DEF SaveReturns, IInv, TypeOK
<1>. QED
  BY <1>1, <1>2, GoOnCorrect, NoPortfoliosCorrect DEF SaveReturns

LEMMA InitCorrect == Init => IInv
<1> SUFFICES ASSUME Init PROVE IInv
  OBVIOUS
<1>1. TypeOK
  BY InputsAssumption, NoPortfoliosCorrect, IdleCorrect
     DEF Init, TypeOK, NoConfigurations, Configurations, NoAnswer
<1>2. IndexesAgree /\ SavedAgrees
  BY NoPortfoliosCorrect, IdleCorrect DEF Init, IndexesAgree, SavedAgrees
<1>. QED
  BY <1>1, <1>2 DEF IInv

LEMMA OpenDatabaseCorrect ==
  ASSUME IInv, NEW t \in Threads, OpenDatabase(t)
  PROVE  IInv'
<1>1. /\ database' \in [file : {"missing", "torn", "written"}, content : StoredWallet]
      /\ ContentAgrees(database'.content)
  BY NoPortfoliosCorrect DEF IInv, TypeOK, SavedAgrees, OpenDatabase
<1>2. /\ work' \in [Threads -> Work]
      /\ \A u \in Threads : ContentAgrees(work'[u].rootSi)
      /\ process' \in {"down", "starting", "serving", "exited"}
  <2>1. CASE GoOn(t, "write", work[t].rootSi) /\ UNCHANGED process
    <3>1. work[t].rootSi \in StoredWallet /\ ContentAgrees(work[t].rootSi)
      BY DEF IInv, TypeOK, SavedAgrees, Work
    <3>2. "write" \in Steps /\ process' \in {"down", "starting", "serving", "exited"}
      BY <2>1 DEF Steps, IInv, TypeOK
    <3>. QED
      BY <2>1, <3>1, <3>2, GoOnCorrect
  <2>2. CASE SaveReturns(t)
    BY <2>2, SaveReturnsCorrect
  <2>. QED
    BY <2>1, <2>2 DEF OpenDatabase
<1>3. answer' = NoAnswer /\ UNCHANGED <<confFile, configurations, portfolios, lock, backup>>
  BY DEF OpenDatabase
<1>. QED
  BY <1>1, <1>2, <1>3 DEF IInv, TypeOK, IndexesAgree, SavedAgrees, NoAnswer

LEMMA WriteDatabaseCorrect ==
  ASSUME IInv, NEW t \in Threads, WriteDatabase(t)
  PROVE  IInv'
<1>1. /\ database' \in [file : {"missing", "torn", "written"}, content : StoredWallet]
      /\ ContentAgrees(database'.content)
  BY DEF IInv, TypeOK, SavedAgrees, WriteDatabase, Work
<1>2. /\ work' \in [Threads -> Work]
      /\ \A u \in Threads : ContentAgrees(work'[u].rootSi)
      /\ process' \in {"down", "starting", "serving", "exited"}
  BY SaveReturnsCorrect DEF WriteDatabase
<1>3. answer' = NoAnswer /\ UNCHANGED <<confFile, configurations, portfolios, lock, backup>>
  BY DEF WriteDatabase
<1>. QED
  BY <1>1, <1>2, <1>3 DEF IInv, TypeOK, IndexesAgree, SavedAgrees, NoAnswer

LEMMA ReloadCorrect ==
  ASSUME IInv, Reload
  PROVE  /\ configurations' \in Configurations
         /\ portfolios' \in Wallet /\ WalletAgrees(portfolios')
<1>1. LoadWallet(confFile.entries, database.content) \in Wallet
      /\ WalletAgrees(LoadWallet(confFile.entries, database.content))
  BY LoadWalletCorrect DEF IInv, TypeOK, SavedAgrees
<1>. QED
  BY <1>1, NoPortfoliosCorrect DEF Reload, IInv, TypeOK, ConfigurationFile

LEMMA StartCorrect ==
  ASSUME IInv, Start
  PROVE  IInv'
<1>1. CASE ReloadSucceeds /\ Reload /\ process' = "starting"
           /\ work' = [work EXCEPT !["main"] = Saving(portfolios', NoEvent, FALSE)]
  <2>1. /\ configurations' \in Configurations
        /\ portfolios' \in Wallet /\ WalletAgrees(portfolios')
    BY <1>1, ReloadCorrect
  <2>2. NoEvent \in Event
    BY DEF NoEvent, Event
  <2>3. /\ Saving(portfolios', NoEvent, FALSE) \in Work
        /\ ContentAgrees(Saving(portfolios', NoEvent, FALSE).rootSi)
    BY <2>1, <2>2, SavingCorrect
  <2>4. /\ work' \in [Threads -> Work]
        /\ \A u \in Threads : ContentAgrees(work'[u].rootSi)
    BY <1>1, <2>3, WorkCorrect DEF IInv, TypeOK, SavedAgrees, Threads
  <2>. QED
    BY <1>1, <2>1, <2>4 DEF Start, IInv, TypeOK, IndexesAgree, SavedAgrees, NoAnswer
<1>2. CASE process' = "exited" /\ UNCHANGED <<configurations, portfolios, work>>
  BY <1>2 DEF Start, IInv, TypeOK, IndexesAgree, SavedAgrees, NoAnswer
<1>. QED
  BY <1>1, <1>2 DEF Start

LEMMA HaltCorrect ==
  ASSUME IInv, Halt
  PROVE  IInv'
BY NoPortfoliosCorrect, IdleCorrect
   DEF Halt, IInv, TypeOK, IndexesAgree, SavedAgrees, NoAnswer, NoConfigurations, Configurations

LEMMA EditConfigurationCorrect ==
  ASSUME IInv, EditConfiguration
  PROVE  IInv'
BY InputsAssumption
   DEF EditConfiguration, IInv, TypeOK, IndexesAgree, SavedAgrees, NoAnswer



-----------------------------------------------------------------------------
(* The requests *)

LEMMA AnswerCorrect ==
  ASSUME IInv, NEW status \in {"OK", "ERROR", "SUCCESS", "FAILED"},
         NEW delivered \in SUBSET Delivery, Answer(status, delivered)
  PROVE  IInv'
BY DEF Answer, IInv, TypeOK, IndexesAgree, SavedAgrees

LEMMA CommitCorrect ==
  ASSUME IInv, NEW p \in Portfolios, NEW portfolio \in PortfolioRecord, IndexAgree(portfolio),
         NEW event \in Event, Commit(p, portfolio, event)
  PROVE  IInv'
<1>1. portfolios' \in Wallet /\ WalletAgrees(portfolios')
  BY DEF Commit, IInv, TypeOK, IndexesAgree, Wallet, WalletAgrees
<1>2. Saving(portfolios', event, FALSE) \in Work /\ ContentAgrees(Saving(portfolios', event, FALSE).rootSi)
  BY <1>1, SavingCorrect
<1>3. /\ work' \in [Threads -> Work]
      /\ \A u \in Threads : ContentAgrees(work'[u].rootSi)
  BY <1>2, WorkCorrect DEF Commit, IInv, TypeOK, SavedAgrees, Threads
<1>4. /\ lock' = "socket" /\ answer' = NoAnswer
      /\ UNCHANGED <<process, confFile, database, configurations, backup>>
  BY DEF Commit
<1>. QED
  BY <1>1, <1>3, <1>4 DEF IInv, TypeOK, IndexesAgree, SavedAgrees, NoAnswer

\* A portfolio in memory, and the documents found in it.
LEMMA KnownPortfolio ==
  ASSUME IInv, NEW p \in Portfolios, portfolios[p] # NoPortfolio
  PROVE  /\ portfolios[p] \in PortfolioRecord /\ IndexAgree(portfolios[p])
         /\ \A id \in Ids : Has(portfolios[p], id) => portfolios[p].documents[id] \in Document
         /\ \A name \in Names : HasName(portfolios[p], name)
              => portfolios[p].mapNameDocuments[name] \in Document
BY DEF IInv, TypeOK, IndexesAgree, WalletAgrees, Wallet, PortfolioRecord, DocumentMap, NameMap,
       Has, HasName

LEMMA CreateCorrect ==
  ASSUME IInv, NEW c \in Clients, NEW p \in Portfolios, NEW form \in Form, Create(c, p, form)
  PROVE  IInv'
<1>1. CASE CreateAccepted(c, p, form)
  <2>1. PICK id \in FreshIds(portfolios[p]) :
          LET portfolio == Add(portfolios[p], Parse(form), id)
          IN  Commit(p, portfolio, CreateEvent(p, portfolio.documents[id]))
    BY <1>1 DEF Create
  <2> DEFINE portfolio == Add(portfolios[p], Parse(form), id)
  <2>2. Parse(form) \in Document /\ Addable(portfolios[p], Parse(form)) /\ portfolios[p] # NoPortfolio
    BY <1>1, ParseType DEF CreateAccepted, Known
  <2>3. portfolios[p] \in PortfolioRecord /\ IndexAgree(portfolios[p])
    BY <2>2, KnownPortfolio
  <2>4. portfolio \in PortfolioRecord /\ IndexAgree(portfolio)
    BY <2>2, <2>3, AddCorrect
  <2>5. portfolio.documents[id] \in Document
    BY <2>2, <2>3 DEF Add, Put, FreshIds, PortfolioRecord, DocumentMap, Document
  <2>6. CreateEvent(p, portfolio.documents[id]) \in Event
    BY <2>5, EventsTyped
  <2>7. Commit(p, portfolio, CreateEvent(p, portfolio.documents[id]))
    BY <2>1
  <2> HIDE DEF portfolio
  <2>. QED
    BY <2>4, <2>6, <2>7, CommitCorrect
<1>2. CASE Answer("ERROR", {})
  BY <1>2, AnswerCorrect
<1>. QED
  BY <1>1, <1>2 DEF Create

LEMMA DeleteCorrect ==
  ASSUME IInv, NEW c \in Clients, NEW p \in Portfolios, NEW id \in Ids, Delete(c, p, id)
  PROVE  IInv'
<1>1. CASE DeleteAccepted(c, p, id) /\ Commit(p, Remove(portfolios[p], id),
                                              DeleteEvent(p, portfolios[p].documents[id]))
  <2>1. portfolios[p] # NoPortfolio /\ Has(portfolios[p], id)
    BY <1>1 DEF DeleteAccepted, Known
  <2>2. /\ portfolios[p] \in PortfolioRecord /\ IndexAgree(portfolios[p])
        /\ portfolios[p].documents[id] \in Document
    BY <2>1, KnownPortfolio
  <2>3. Remove(portfolios[p], id) \in PortfolioRecord /\ IndexAgree(Remove(portfolios[p], id))
    BY <2>1, <2>2, RemoveCorrect
  <2>4. DeleteEvent(p, portfolios[p].documents[id]) \in Event
    BY <2>2, EventsTyped
  <2>. QED
    BY <1>1, <2>3, <2>4, CommitCorrect
<1>2. CASE Answer("ERROR", {})
  BY <1>2, AnswerCorrect
<1>. QED
  BY <1>1, <1>2 DEF Delete

LEMMA UpdateDocumentCorrect ==
  ASSUME IInv, NEW c \in Clients, NEW p \in Portfolios, NEW form \in Form,
         UpdateDocument(c, p, form)
  PROVE  IInv'
<1> DEFINE old == portfolios[p].documents[form.id]
           new == Overwrite(old, form)
           event == UpdateEvent(p, old, Parse(form))
<1>1. CASE UpdateAccepted(c, p, form) /\ Commit(p, Update(portfolios[p], new), event)
  <2>1. /\ portfolios[p] # NoPortfolio /\ Has(portfolios[p], form.id)
        /\ Parseable(form) /\ Updatable(portfolios[p], new)
    BY <1>1 DEF UpdateAccepted, Known
  <2>2. portfolios[p] \in PortfolioRecord /\ IndexAgree(portfolios[p]) /\ old \in Document
    BY <2>1, KnownPortfolio DEF Form
  <2>3. new \in Document /\ Parse(form) \in Document
    BY <2>1, <2>2, OverwriteType, ParseType
  <2>4. event \in Event
    BY <2>2, <2>3, EventsTyped
  <2> HIDE DEF old, new, event
  <2>5. Update(portfolios[p], new) \in PortfolioRecord /\ IndexAgree(Update(portfolios[p], new))
    BY <2>1, <2>2, <2>3, UpdateCorrect
  <2>. QED
    BY <1>1, <2>4, <2>5, CommitCorrect
<1>2. CASE Answer("ERROR", {})
  BY <1>2, AnswerCorrect
<1>. QED
  BY <1>1, <1>2 DEF UpdateDocument

LEMMA NotifyCorrect ==
  ASSUME IInv, Notify
  PROVE  IInv'
<1>1. work["socket"].rootSi \in StoredWallet /\ ContentAgrees(work["socket"].rootSi)
  BY DEF IInv, TypeOK, SavedAgrees, Work, Threads
<1>2. /\ work' \in [Threads -> Work]
      /\ \A u \in Threads : ContentAgrees(work'[u].rootSi)
  BY <1>1, GoOnCorrect DEF Notify, Threads, Steps
<1>. QED
  BY <1>2 DEF Notify, IInv, TypeOK, IndexesAgree, SavedAgrees, NoAnswer

LEMMA ReplyCorrect ==
  ASSUME IInv, Reply
  PROVE  IInv'
<1>1. /\ work' \in [Threads -> Work]
      /\ \A u \in Threads : ContentAgrees(work'[u].rootSi)
  BY IdleCorrect, WorkCorrect DEF Reply, IInv, TypeOK, SavedAgrees, Threads
<1>. QED
  BY <1>1 DEF Reply, IInv, TypeOK, IndexesAgree, SavedAgrees

LEMMA DeliverOrCorrect ==
  ASSUME IInv, NEW accepted, NEW c \in Clients, NEW p \in Portfolios, NEW forms,
         accepted => forms \subseteq Form, DeliverOr(accepted, c, p, forms)
  PROVE  IInv'
<1>1. CASE accepted /\ Answer("OK", {[client |-> c, portfolio |-> p, form |-> f] : f \in forms})
  <2>1. {[client |-> c, portfolio |-> p, form |-> f] : f \in forms} \in SUBSET Delivery
    BY <1>1 DEF Delivery
  <2>. QED
    BY <1>1, <2>1, AnswerCorrect
<1>2. CASE Answer("ERROR", {})
  BY <1>2, AnswerCorrect
<1>. QED
  BY <1>1, <1>2 DEF DeliverOr



LEMMA ReadCorrect ==
  ASSUME IInv, Read
  PROVE  IInv'
<1> PICK c \in Clients, p \in Portfolios :
      \/ \E id \in Ids : GetWithSecret(c, p, id) \/ GetWithoutSecret(c, p, id)
      \/ \E name \in Names : GetWithSecretByName(c, p, name) \/ GetWithoutSecretByName(c, p, name)
      \/ \E wanted \in Wanted : ListWithSecret(c, p, wanted) \/ ListWithoutSecret(c, p, wanted)
  BY DEF Read
<1>1. ASSUME NEW id \in Ids, GetWithSecret(c, p, id) \/ GetWithoutSecret(c, p, id)
      PROVE  IInv'
  <2> DEFINE doc == portfolios[p].documents[id]
  <2>1. portfolios[p] # NoPortfolio /\ Has(portfolios[p], id) =>
          {WithSecret(doc)} \subseteq Form /\ {WithoutSecret(doc)} \subseteq Form
    BY KnownPortfolio, SerializedType
  <2>2. CASE GetWithSecret(c, p, id)
    BY <2>1, <2>2, DeliverOrCorrect DEF GetWithSecret, Known
  <2>3. CASE GetWithoutSecret(c, p, id)
    BY <2>1, <2>3, DeliverOrCorrect DEF GetWithoutSecret
  <2>. QED
    BY <1>1, <2>2, <2>3
<1>2. ASSUME NEW name \in Names, GetWithSecretByName(c, p, name) \/ GetWithoutSecretByName(c, p, name)
      PROVE  IInv'
  <2> DEFINE doc == portfolios[p].mapNameDocuments[name]
  <2>1. portfolios[p] # NoPortfolio /\ HasName(portfolios[p], name) =>
          {WithSecret(doc)} \subseteq Form /\ {WithoutSecret(doc)} \subseteq Form
    BY KnownPortfolio, SerializedType
  <2>2. CASE GetWithSecretByName(c, p, name)
    BY <2>1, <2>2, DeliverOrCorrect DEF GetWithSecretByName, Known
  <2>3. CASE GetWithoutSecretByName(c, p, name)
    BY <2>1, <2>3, DeliverOrCorrect DEF GetWithoutSecretByName
  <2>. QED
    BY <1>2, <2>2, <2>3
<1>3. ASSUME NEW wanted \in Wanted, ListWithSecret(c, p, wanted) \/ ListWithoutSecret(c, p, wanted)
      PROVE  IInv'
  <2>1. portfolios[p] # NoPortfolio => ListDocuments(portfolios[p]) \subseteq Document
    BY KnownPortfolio DEF ListDocuments
  <2>2. CASE ListWithSecret(c, p, wanted)
    <3> DEFINE allowed == ConsumerUsages(c, p)
               usages == IF wanted = {} THEN allowed ELSE wanted
               forms == {WithSecret(d) : d \in {x \in ListDocuments(portfolios[p]) : Shared(x, usages)}}
               accepted == Known(p) /\ allowed # {} /\ wanted \subseteq allowed
    <3>1. accepted => forms \subseteq Form
      BY <2>1, SerializedType DEF Known
    <3>2. DeliverOr(accepted, c, p, forms)
      BY <2>2 DEF ListWithSecret
    <3> HIDE DEF forms, accepted
    <3>. QED
      BY <3>1, <3>2, DeliverOrCorrect
  <2>3. CASE ListWithoutSecret(c, p, wanted)
    <3> DEFINE forms == {WithoutSecret(d) : d \in {x \in ListDocuments(portfolios[p]) :
                                                     wanted = {} \/ Shared(x, wanted)}}
               accepted == Known(p) /\ wanted \subseteq configurations[p].usages
    <3>1. accepted => forms \subseteq Form
      BY <2>1, SerializedType DEF Known
    <3>2. DeliverOr(accepted, c, p, forms)
      BY <2>3 DEF ListWithoutSecret
    <3> HIDE DEF forms, accepted
    <3>. QED
      BY <3>1, <3>2, DeliverOrCorrect
  <2>. QED
    BY <1>3, <2>2, <2>3
<1>. QED
  BY <1>1, <1>2, <1>3

LEMMA ProduceCorrect ==
  ASSUME IInv, Produce
  PROVE  IInv'
<1> PICK c \in Clients, p \in Portfolios :
      \/ \E form \in Submissions : Create(c, p, form)
      \/ \E form \in Submissions, id \in Ids : UpdateDocument(c, p, [form EXCEPT !.id = id])
      \/ \E id \in Ids : Delete(c, p, id)
  BY DEF Produce
<1>1. CASE \E form \in Submissions : Create(c, p, form)
  BY <1>1, InputsAssumption, CreateCorrect
<1>2. CASE \E form \in Submissions, id \in Ids : UpdateDocument(c, p, [form EXCEPT !.id = id])
  <2>1. ASSUME NEW form \in Form, NEW id \in Ids
        PROVE  [form EXCEPT !.id = id] \in Form
    BY DEF Form
  <2>. QED
    BY <1>2, <2>1, InputsAssumption, UpdateDocumentCorrect
<1>3. CASE \E id \in Ids : Delete(c, p, id)
  BY <1>3, DeleteCorrect
<1>. QED
  BY <1>1, <1>2, <1>3

LEMMA SrrSaveCorrect ==
  ASSUME IInv, NEW passphrase \in Passphrases, SrrSave(passphrase)
  PROVE  IInv'
<1>1. CASE /\ backup' = [passphrase |-> {passphrase}, content |-> SerializeWallet(portfolios)]
           /\ answer' = [status |-> "SUCCESS", delivered |-> {}]
           /\ UNCHANGED <<process, confFile, database, configurations, portfolios, lock, work>>
  <2>1. SerializeWallet(portfolios) \in StoredWallet /\ ContentAgrees(SerializeWallet(portfolios))
    BY SerializeWalletCorrect DEF IInv, TypeOK, IndexesAgree
  <2>. QED
    BY <1>1, <2>1 DEF IInv, TypeOK, IndexesAgree, SavedAgrees
<1>2. CASE Answer("FAILED", {})
  BY <1>2, AnswerCorrect
<1>. QED
  BY <1>1, <1>2 DEF SrrSave

LEMMA SrrRestoreCorrect ==
  ASSUME IInv, NEW passphrase, NEW same \in BOOLEAN, SrrRestore(passphrase, same)
  PROVE  IInv'
<1>1. CASE /\ lock' = "srr"
           /\ portfolios' = LoadBackup(backup.content, same)
           /\ work' = [work EXCEPT !["srr"] = Saving(portfolios', NoEvent, same)]
           /\ answer' = NoAnswer
           /\ UNCHANGED <<process, confFile, database, configurations, backup>>
  <2>1. portfolios' \in Wallet /\ WalletAgrees(portfolios')
    BY <1>1, LoadBackupCorrect DEF IInv, TypeOK, SavedAgrees
  <2>2. NoEvent \in Event
    BY DEF NoEvent, Event
  <2>3. Saving(portfolios', NoEvent, same) \in Work /\ ContentAgrees(Saving(portfolios', NoEvent, same).rootSi)
    BY <2>1, <2>2, SavingCorrect
  <2>4. /\ work' \in [Threads -> Work]
        /\ \A u \in Threads : ContentAgrees(work'[u].rootSi)
    BY <1>1, <2>3, WorkCorrect DEF IInv, TypeOK, SavedAgrees, Threads
  <2>. QED
    BY <1>1, <2>1, <2>4 DEF IInv, TypeOK, IndexesAgree, SavedAgrees, NoAnswer
<1>2. CASE Answer("FAILED", {})
  BY <1>2, AnswerCorrect
<1>. QED
  BY <1>1, <1>2 DEF SrrRestore

LEMMA SrrReloadCorrect ==
  ASSUME IInv, SrrReload
  PROVE  IInv'
<1>1. /\ configurations' \in Configurations
      /\ portfolios' \in Wallet /\ WalletAgrees(portfolios')
  BY ReloadCorrect DEF SrrReload
<1>2. /\ work' \in [Threads -> Work]
      /\ \A u \in Threads : ContentAgrees(work'[u].rootSi)
  BY IdleCorrect, WorkCorrect DEF SrrReload, IInv, TypeOK, SavedAgrees, Threads
<1>. QED
  BY <1>1, <1>2 DEF SrrReload, IInv, TypeOK, IndexesAgree, SavedAgrees

-----------------------------------------------------------------------------
LEMMA NextCorrect ==
  ASSUME IInv, [Next]_vars
  PROVE  IInv'
<1>1. CASE Start
  BY <1>1, StartCorrect
<1>2. CASE Stop \/ Crash
  BY <1>2, HaltCorrect DEF Stop, Crash
<1>3. CASE EditConfiguration
  BY <1>3, EditConfigurationCorrect
<1>4. CASE Produce
  BY <1>4, ProduceCorrect
<1>5. CASE Read
  BY <1>5, ReadCorrect
<1>6. CASE Srr
  BY <1>6, SrrSaveCorrect, SrrRestoreCorrect, InputsAssumption DEF Srr
<1>7. CASE \E t \in Threads : OpenDatabase(t) \/ WriteDatabase(t)
  BY <1>7, OpenDatabaseCorrect, WriteDatabaseCorrect
<1>8. CASE Notify \/ Reply \/ SrrReload
  BY <1>8, NotifyCorrect, ReplyCorrect, SrrReloadCorrect
<1>9. CASE UNCHANGED vars
  BY <1>9 DEF vars, IInv, TypeOK, IndexesAgree, SavedAgrees
<1>. QED
  BY <1>1, <1>2, <1>3, <1>4, <1>5, <1>6, <1>7, <1>8, <1>9 DEF Next

\* The inductive invariant: types, maps that agree, and files that do.
LEMMA Invariance == Spec => []IInv
BY InitCorrect, NextCorrect, PTL DEF Spec

\* Every variable keeps its type, through every request, restart and failure of
\* the wallet (secw_security_wallet_server.cc).
THEOREM WalletTypeOK == Spec => []TypeOK
<1>1. IInv => TypeOK
  BY DEF IInv
<1>. QED
  BY <1>1, Invariance, PTL

\* The maps by id and by name of every portfolio agree in every reachable state,
\* for any number of documents and portfolios (secw_portfolio.cc, add, remove,
\* update and the two load functions).
THEOREM WalletIndexesAgree == Spec => []IndexesAgree
<1>1. IInv => IndexesAgree
  BY DEF IInv
<1>. QED
  BY <1>1, Invariance, PTL

\* Everything the wallet saves, and everything it is about to save, holds each
\* document under its id and each name once (SecurityWallet::save and
\* getSrrSaveData).
THEOREM WalletSavedAgrees == Spec => []SavedAgrees
<1>1. IInv => SavedAgrees
  BY DEF IInv
<1>. QED
  BY <1>1, Invariance, PTL

=============================================================================
