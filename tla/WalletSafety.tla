---------------------------- MODULE WalletSafety ----------------------------
(***************************************************************************)
(* Who may see and change what, and what a restart finds: theorems about   *)
(* the security wallet for every set of documents, clients, portfolios,    *)
(* configurations and passphrases, with crashes and without.               *)
(*                                                                         *)
(* What a restart finds needs three facts that are invariant only          *)
(* together: one thread works at a time, the tree it is about to write is  *)
(* the wallet in memory, and every document in memory reads back from its  *)
(* stored form.                                                            *)
(***************************************************************************)
EXTENDS WalletProofs

-----------------------------------------------------------------------------
(* What each step answers *)

LEMMA DeliveredByReads ==
  ASSUME Next, ~Read
  PROVE  answer'.delivered = {}
<1>1. CASE Start \/ Stop \/ Crash \/ EditConfiguration
  BY <1>1 DEF Start, Stop, Crash, Halt, EditConfiguration, Saving, NoAnswer
<1>2. CASE Produce
  <2>1. ASSUME NEW c, NEW p, NEW form, Create(c, p, form)
        PROVE  answer'.delivered = {}
    BY <2>1 DEF Create, Commit, Answer, Saving, NoAnswer
  <2>2. ASSUME NEW c, NEW p, NEW form, UpdateDocument(c, p, form)
        PROVE  answer'.delivered = {}
    BY <2>2 DEF UpdateDocument, Commit, Answer, Saving, NoAnswer
  <2>3. ASSUME NEW c, NEW p, NEW id, Delete(c, p, id)
        PROVE  answer'.delivered = {}
    BY <2>3 DEF Delete, Commit, Answer, Saving, NoAnswer
  <2>. QED
    BY <1>2, <2>1, <2>2, <2>3 DEF Produce
<1>3. CASE Srr
  BY <1>3 DEF Srr, SrrSave, SrrRestore, Answer, NoAnswer
<1>4. CASE \E t \in Threads : OpenDatabase(t) \/ WriteDatabase(t)
  BY <1>4 DEF OpenDatabase, WriteDatabase, NoAnswer
<1>5. CASE Notify \/ Reply \/ SrrReload
  BY <1>5 DEF Notify, Reply, SrrReload, NoAnswer
<1>. QED
  BY <1>1, <1>2, <1>3, <1>4, <1>5 DEF Next

LEMMA ReadsOnlyAnswer ==
  ASSUME Read
  PROVE  /\ Listening
         /\ UNCHANGED <<process, confFile, database, configurations, portfolios, lock, work, backup>>
BY DEF Read, GetWithSecret, GetWithoutSecret, GetWithSecretByName, GetWithoutSecretByName,
       ListWithSecret, ListWithoutSecret, DeliverOr, Answer

\* Whatever is read is a document in memory, and its private part is there only
\* for a consumer of one of its usages.
LEMMA ReadDelivers ==
  ASSUME IInv, Read, NEW x \in answer'.delivered
  PROVE  /\ x.portfolio \in Portfolios /\ portfolios[x.portfolio] # NoPortfolio
         /\ \E doc \in ListDocuments(portfolios[x.portfolio]) :
              \/ x.form = WithoutSecret(doc)
              \/ x.form = WithSecret(doc) /\ Shared(doc, ConsumerUsages(x.client, x.portfolio))
<1> PICK c \in Clients, p \in Portfolios :
      \/ \E id \in Ids : GetWithSecret(c, p, id) \/ GetWithoutSecret(c, p, id)
      \/ \E name \in Names : GetWithSecretByName(c, p, name) \/ GetWithoutSecretByName(c, p, name)
      \/ \E wanted \in Wanted : ListWithSecret(c, p, wanted) \/ ListWithoutSecret(c, p, wanted)
  BY DEF Read
<1> DEFINE Right(forms) ==
      /\ portfolios[p] # NoPortfolio
      /\ \A f \in forms : \E doc \in ListDocuments(portfolios[p]) :
           f = WithoutSecret(doc) \/ (f = WithSecret(doc) /\ Shared(doc, ConsumerUsages(c, p)))
<1>1. ASSUME NEW accepted, NEW forms, DeliverOr(accepted, c, p, forms), accepted => Right(forms)
      PROVE  /\ x.portfolio = p /\ x.client = c /\ portfolios[p] # NoPortfolio
             /\ \E doc \in ListDocuments(portfolios[p]) :
                  x.form = WithoutSecret(doc) \/ (x.form = WithSecret(doc) /\ Shared(doc, ConsumerUsages(c, p)))
  <2>1. accepted /\ answer'.delivered = {[client |-> c, portfolio |-> p, form |-> f] : f \in forms}
    BY <1>1 DEF DeliverOr, Answer
  <2>2. PICK f \in forms : x = [client |-> c, portfolio |-> p, form |-> f]
    BY <2>1
  <2>. QED
    BY <1>1, <2>1, <2>2
<1>2. ASSUME portfolios[p] # NoPortfolio
      PROVE  /\ \A id \in Ids : Has(portfolios[p], id)
                  => portfolios[p].documents[id] \in ListDocuments(portfolios[p])
             /\ \A name \in Names : HasName(portfolios[p], name)
                  => portfolios[p].mapNameDocuments[name] \in ListDocuments(portfolios[p])
  <2>1. /\ portfolios[p] \in PortfolioRecord /\ IndexAgree(portfolios[p])
        /\ \A name \in Names : HasName(portfolios[p], name)
             => portfolios[p].mapNameDocuments[name] \in Document
    BY <1>2, KnownPortfolio
  <2>2. ASSUME NEW name \in Names, HasName(portfolios[p], name)
        PROVE  portfolios[p].mapNameDocuments[name] \in ListDocuments(portfolios[p])
    <3> DEFINE doc == portfolios[p].mapNameDocuments[name]
    <3>1. doc.id \in Ids /\ portfolios[p].documents[doc.id] = doc /\ doc # NoDocument
      BY <2>1, <2>2 DEF IndexAgree, HasName, Document
    <3>. QED
      BY <3>1 DEF ListDocuments, Has
  <2>. QED
    BY <2>2 DEF ListDocuments
<1>3. ASSUME NEW id \in Ids, GetWithSecret(c, p, id) \/ GetWithoutSecret(c, p, id)
      PROVE  \E accepted, forms : DeliverOr(accepted, c, p, forms) /\ (accepted => Right(forms))
  <2> DEFINE doc == portfolios[p].documents[id]
             full == /\ Known(p) /\ ConsumerUsages(c, p) # {}
                     /\ Has(portfolios[p], id) /\ Shared(doc, ConsumerUsages(c, p))
             bare == portfolios[p] # NoPortfolio /\ Has(portfolios[p], id)
  <2>1. CASE GetWithSecret(c, p, id)
    <3>1. full => Right({WithSecret(doc)})
      BY <1>2 DEF Known
    <3>2. DeliverOr(full, c, p, {WithSecret(doc)})
      BY <2>1 DEF GetWithSecret
    <3>. QED
      BY <3>1, <3>2
  <2>2. CASE GetWithoutSecret(c, p, id)
    <3>1. bare => Right({WithoutSecret(doc)})
      BY <1>2
    <3>2. DeliverOr(bare, c, p, {WithoutSecret(doc)})
      BY <2>2 DEF GetWithoutSecret
    <3>. QED
      BY <3>1, <3>2
  <2>. QED
    BY <1>3, <2>1, <2>2
<1>4. ASSUME NEW name \in Names, GetWithSecretByName(c, p, name) \/ GetWithoutSecretByName(c, p, name)
      PROVE  \E accepted, forms : DeliverOr(accepted, c, p, forms) /\ (accepted => Right(forms))
  <2> DEFINE doc == portfolios[p].mapNameDocuments[name]
             full == /\ Known(p) /\ ConsumerUsages(c, p) # {}
                     /\ HasName(portfolios[p], name) /\ Shared(doc, ConsumerUsages(c, p))
             bare == portfolios[p] # NoPortfolio /\ HasName(portfolios[p], name)
  <2>1. CASE GetWithSecretByName(c, p, name)
    <3>1. full => Right({WithSecret(doc)})
      BY <1>2 DEF Known
    <3>2. DeliverOr(full, c, p, {WithSecret(doc)})
      BY <2>1 DEF GetWithSecretByName
    <3>. QED
      BY <3>1, <3>2
  <2>2. CASE GetWithoutSecretByName(c, p, name)
    <3>1. bare => Right({WithoutSecret(doc)})
      BY <1>2
    <3>2. DeliverOr(bare, c, p, {WithoutSecret(doc)})
      BY <2>2 DEF GetWithoutSecretByName
    <3>. QED
      BY <3>1, <3>2
  <2>. QED
    BY <1>4, <2>1, <2>2
<1>5. ASSUME NEW wanted \in Wanted, ListWithSecret(c, p, wanted) \/ ListWithoutSecret(c, p, wanted)
      PROVE  \E accepted, forms : DeliverOr(accepted, c, p, forms) /\ (accepted => Right(forms))
  <2> DEFINE allowed == ConsumerUsages(c, p)
             usages == IF wanted = {} THEN allowed ELSE wanted
             secretForms == {WithSecret(d) : d \in {d \in ListDocuments(portfolios[p]) : Shared(d, usages)}}
             forms == {WithoutSecret(d) : d \in {d \in ListDocuments(portfolios[p]) :
                                                   wanted = {} \/ Shared(d, wanted)}}
             full == Known(p) /\ allowed # {} /\ wanted \subseteq allowed
             bare == Known(p) /\ wanted \subseteq configurations[p].usages
  <2>1. CASE ListWithSecret(c, p, wanted)
    <3>1. full => usages \subseteq allowed
      OBVIOUS
    <3>2. full => Right(secretForms)
      BY <3>1 DEF Known, Shared
    <3>3. DeliverOr(full, c, p, secretForms)
      BY <2>1 DEF ListWithSecret
    <3>. QED
      BY <3>2, <3>3
  <2>2. CASE ListWithoutSecret(c, p, wanted)
    <3>1. bare => Right(forms)
      BY DEF Known
    <3>2. DeliverOr(bare, c, p, forms)
      BY <2>2 DEF ListWithoutSecret
    <3>. QED
      BY <3>1, <3>2
  <2>. QED
    BY <1>5, <2>1, <2>2
<1>. QED
  BY <1>1, <1>3, <1>4, <1>5

\* A private part is only sent to a client that consumes a usage of the
\* document, whatever the configuration, the documents and the requests
\* (handleGetDocumentWithSecret, ByName and the list).
THEOREM SecretsStayWithConsumers == Spec => []SecretsOnlyToConsumers
<1>1. Init => SecretsOnlyToConsumers
  BY DEF Init, NoAnswer, SecretsOnlyToConsumers
<1>2. ASSUME IInv, SecretsOnlyToConsumers, [Next]_vars
      PROVE  SecretsOnlyToConsumers'
  <2>1. CASE Read
    <3>1. UNCHANGED configurations
      BY <2>1, ReadsOnlyAnswer
    <3>2. ASSUME NEW x \in answer'.delivered, x.form.private
          PROVE  x.form.usages \cap ConsumerUsages(x.client, x.portfolio) # {}
      <4>1. PICK doc \in ListDocuments(portfolios[x.portfolio]) :
              \/ x.form = WithoutSecret(doc)
              \/ x.form = WithSecret(doc) /\ Shared(doc, ConsumerUsages(x.client, x.portfolio))
        BY <1>2, <2>1, ReadDelivers
      <4>2. x.form # WithoutSecret(doc)
        BY <3>2 DEF WithoutSecret, WithSecret
      <4>. QED
        BY <4>1, <4>2 DEF WithSecret, Shared
    <3>. QED
      BY <3>1, <3>2 DEF SecretsOnlyToConsumers, ConsumerUsages
  <2>2. CASE Next /\ ~Read
    BY <2>2, DeliveredByReads DEF SecretsOnlyToConsumers
  <2>3. CASE UNCHANGED vars
    BY <1>2, <2>3 DEF vars, SecretsOnlyToConsumers, ConsumerUsages
  <2>. QED
    BY <1>2, <2>1, <2>2, <2>3
<1>. QED
  BY <1>1, <1>2, Invariance, PTL DEF Spec

-----------------------------------------------------------------------------
(* Who may change what *)

\* The usages of document i of a portfolio that is in memory.
UsagesIn(portfolio, i) == IF Has(portfolio, i) THEN portfolio.documents[i].usages ELSE {}

LEMMA CommitChangesOne ==
  ASSUME IInv, NEW c \in Clients, NEW p \in Portfolios, NEW id \in Ids, NEW portfolio \in PortfolioRecord,
         portfolios[p] # NoPortfolio, portfolios' = [portfolios EXCEPT ![p] = portfolio],
         \A i \in Ids : i # id => portfolio.documents[i] = portfolios[p].documents[i],
         \A u \in Usages : (u \in UsagesIn(portfolios[p], id)) # (u \in UsagesIn(portfolio, id))
            => u \in UsagesForProducer(configurations[p], c),
         NEW q \in Portfolios, NEW i \in Ids, NEW u \in Usages,
         (u \in UsagesOf(portfolios, q, i)) # (u \in UsagesOf(portfolios', q, i))
  PROVE  u \in UsagesForProducer(configurations[q], c)
<1>1. CASE q # p
  <2>1. portfolios'[q] = portfolios[q]
    BY <1>1 DEF IInv, TypeOK, Wallet
  <2>. QED
    BY <2>1 DEF UsagesOf
<1>2. CASE q = p
  <2>1. portfolios'[q] = portfolio /\ portfolio # NoPortfolio
    BY <1>2, NoPortfolioAssumption DEF IInv, TypeOK, Wallet
  <2>2. UsagesOf(portfolios, q, i) = UsagesIn(portfolios[p], i)
        /\ UsagesOf(portfolios', q, i) = UsagesIn(portfolio, i)
    BY <1>2, <2>1 DEF UsagesOf, UsagesIn
  <2>3. i # id => UsagesIn(portfolios[p], i) = UsagesIn(portfolio, i)
    BY DEF UsagesIn, Has
  <2>. QED
    BY <1>2, <2>2, <2>3
<1>. QED
  BY <1>1, <1>2

LEMMA CreateEntitled ==
  ASSUME IInv, NEW c \in Clients, NEW p \in Portfolios, NEW form \in Form, Create(c, p, form),
         lock' = "socket",
         NEW q \in Portfolios, NEW i \in Ids, NEW u \in Usages,
         (u \in UsagesOf(portfolios, q, i)) # (u \in UsagesOf(portfolios', q, i))
  PROVE  u \in UsagesForProducer(configurations[q], c)
<1>1. CreateAccepted(c, p, form)
  BY DEF Create, Listening, Answer
<1> DEFINE doc == Parse(form)
<1>2. PICK id \in FreshIds(portfolios[p]) : portfolios' = [portfolios EXCEPT ![p] = Add(portfolios[p], doc, id)]
  BY <1>1 DEF Create, Commit
<1>3. /\ doc \in Document /\ doc.usages = form.usages
      /\ portfolios[p] # NoPortfolio /\ form.usages \subseteq UsagesForProducer(configurations[p], c)
  BY <1>1, ParseType DEF CreateAccepted, Known, Parse
<1>4. portfolios[p] \in PortfolioRecord /\ IndexAgree(portfolios[p])
  BY <1>3, KnownPortfolio
<1> DEFINE portfolio == Add(portfolios[p], doc, id)
<1>5. portfolio \in PortfolioRecord
  BY <1>1, <1>3, <1>4, AddCorrect DEF CreateAccepted
<1>6. portfolio.documents = [portfolios[p].documents EXCEPT ![id] = [doc EXCEPT !.id = id]]
  BY <1>3 DEF Add, Put, Document
<1>7. UsagesIn(portfolios[p], id) = {} /\ UsagesIn(portfolio, id) \subseteq form.usages
  BY <1>3, <1>4, <1>6 DEF UsagesIn, FreshIds, PortfolioRecord, DocumentMap, Document
<1>8. \A j \in Ids : j # id => portfolio.documents[j] = portfolios[p].documents[j]
  BY <1>4, <1>6 DEF PortfolioRecord, DocumentMap
<1>9. id \in Ids /\ portfolios' = [portfolios EXCEPT ![p] = portfolio]
  BY <1>2 DEF FreshIds
<1>10. \A v \in Usages : (v \in UsagesIn(portfolios[p], id)) # (v \in UsagesIn(portfolio, id))
         => v \in UsagesForProducer(configurations[p], c)
  BY <1>3, <1>7
<1> HIDE DEF portfolio, doc
<1>. QED
  BY <1>3, <1>5, <1>8, <1>9, <1>10, CommitChangesOne

LEMMA DeleteEntitled ==
  ASSUME IInv, NEW c \in Clients, NEW p \in Portfolios, NEW id \in Ids, Delete(c, p, id),
         lock' = "socket",
         NEW q \in Portfolios, NEW i \in Ids, NEW u \in Usages,
         (u \in UsagesOf(portfolios, q, i)) # (u \in UsagesOf(portfolios', q, i))
  PROVE  u \in UsagesForProducer(configurations[q], c)
<1> DEFINE portfolio == Remove(portfolios[p], id)
<1>1. /\ portfolios[p] # NoPortfolio /\ Has(portfolios[p], id)
      /\ portfolios[p].documents[id].usages \subseteq UsagesForProducer(configurations[p], c)
      /\ portfolios' = [portfolios EXCEPT ![p] = portfolio]
  BY DEF Delete, Listening, Answer, DeleteAccepted, Known, Commit
<1>2. portfolios[p] \in PortfolioRecord /\ IndexAgree(portfolios[p])
  BY <1>1, KnownPortfolio
<1>3. portfolio \in PortfolioRecord
  BY <1>1, <1>2, RemoveCorrect
<1>4. portfolio.documents = [portfolios[p].documents EXCEPT ![id] = NoDocument]
  BY DEF Remove
<1>5. UsagesIn(portfolio, id) = {}
  BY <1>2, <1>4 DEF UsagesIn, Has, PortfolioRecord, DocumentMap
<1>6. UsagesIn(portfolios[p], id) \subseteq UsagesForProducer(configurations[p], c)
  BY <1>1 DEF UsagesIn
<1>7. \A j \in Ids : j # id => portfolio.documents[j] = portfolios[p].documents[j]
  BY <1>2, <1>4 DEF PortfolioRecord, DocumentMap
<1>8. \A v \in Usages : (v \in UsagesIn(portfolios[p], id)) # (v \in UsagesIn(portfolio, id))
        => v \in UsagesForProducer(configurations[p], c)
  BY <1>5, <1>6
<1> HIDE DEF portfolio
<1>. QED
  BY <1>1, <1>3, <1>7, <1>8, CommitChangesOne

LEMMA UpdateEntitled ==
  ASSUME IInv, NEW c \in Clients, NEW p \in Portfolios, NEW form \in Form,
         UpdateDocument(c, p, form), lock' = "socket",
         NEW q \in Portfolios, NEW i \in Ids, NEW u \in Usages,
         (u \in UsagesOf(portfolios, q, i)) # (u \in UsagesOf(portfolios', q, i))
  PROVE  u \in UsagesForProducer(configurations[q], c)
<1> DEFINE old == portfolios[p].documents[form.id]
           new == Overwrite(old, form)
           portfolio == Update(portfolios[p], new)
<1>1. /\ portfolios[p] # NoPortfolio /\ Has(portfolios[p], form.id) /\ Updatable(portfolios[p], new)
      /\ UsageDifference(form.usages, old.usages) \subseteq UsagesForProducer(configurations[p], c)
      /\ portfolios' = [portfolios EXCEPT ![p] = portfolio]
  BY DEF UpdateDocument, Listening, Answer, UpdateAccepted, Known, Commit
<1>2. /\ portfolios[p] \in PortfolioRecord /\ IndexAgree(portfolios[p])
      /\ form.id \in Ids /\ old \in Document
  BY <1>1, KnownPortfolio DEF Form
<1>3. new \in Document /\ new.usages = form.usages /\ new.id = form.id
  BY <1>1, <1>2, OverwriteType DEF IndexAgree
<1> HIDE DEF new
<1>4. portfolio \in PortfolioRecord
  BY <1>1, <1>2, <1>3, UpdateCorrect
<1>5. portfolio.documents = [portfolios[p].documents EXCEPT ![form.id] = new]
  BY <1>2, <1>3 DEF Update, Put, PortfolioRecord
<1>6. UsagesIn(portfolios[p], form.id) = old.usages /\ UsagesIn(portfolio, form.id) = form.usages
  BY <1>1, <1>2, <1>3, <1>5, NoDocumentAssumption DEF UsagesIn, Has, PortfolioRecord, DocumentMap
<1>7. \A j \in Ids : j # form.id => portfolio.documents[j] = portfolios[p].documents[j]
  BY <1>2, <1>5 DEF PortfolioRecord, DocumentMap
<1>8. \A v \in Usages : (v \in UsagesIn(portfolios[p], form.id)) # (v \in UsagesIn(portfolio, form.id))
        => v \in UsagesForProducer(configurations[p], c)
  BY <1>1, <1>6 DEF UsageDifference
<1> HIDE DEF portfolio, old
<1>. QED
  BY <1>1, <1>2, <1>4, <1>7, <1>8, CommitChangesOne

\* A request adds a usage to a document, or takes one away, creating and
\* deleting it included, only if one producer is entitled to all of those
\* usages, whatever the configuration (handleCreate, handleUpdate, handleDelete).
THEOREM ChangesByEntitledProducers == Spec => UsageGuard
<1> DEFINE Entitled ==
      \E c \in Clients : \A p \in Portfolios, i \in Ids :
        LET before == UsagesOf(portfolios, p, i)
            after  == UsagesOf(portfolios', p, i)
        IN  \A u \in Usages : (u \in before) # (u \in after) =>
              u \in UsagesForProducer(configurations[p], c)
<1>1. ASSUME IInv, Next, lock = "none", lock' = "socket"
      PROVE  Entitled
  <2>1. Produce
    <3>1. ~Read
      BY <1>1, ReadsOnlyAnswer
    <3>2. ~(Start \/ Stop \/ Crash \/ EditConfiguration)
      BY <1>1 DEF Start, Stop, Crash, Halt, EditConfiguration
    <3>3. ~Srr
      BY <1>1 DEF Srr, SrrSave, SrrRestore, Answer
    <3>4. ~\E t \in Threads : OpenDatabase(t) \/ WriteDatabase(t)
      BY <1>1 DEF OpenDatabase, WriteDatabase
    <3>5. ~(Notify \/ Reply \/ SrrReload)
      BY <1>1 DEF Notify, Reply, SrrReload
    <3>. QED
      BY <1>1, <3>1, <3>2, <3>3, <3>4, <3>5 DEF Next
  <2>2. PICK c \in Clients, p \in Portfolios :
          \/ \E form \in Submissions : Create(c, p, form)
          \/ \E form \in Submissions, id \in Ids : UpdateDocument(c, p, [form EXCEPT !.id = id])
          \/ \E id \in Ids : Delete(c, p, id)
    BY <2>1 DEF Produce
  <2>3. ASSUME NEW form \in Submissions, NEW id \in Ids
        PROVE  form \in Form /\ [form EXCEPT !.id = id] \in Form
    BY InputsAssumption DEF Form
  <2>4. ASSUME NEW q \in Portfolios, NEW i \in Ids, NEW u \in Usages,
               (u \in UsagesOf(portfolios, q, i)) # (u \in UsagesOf(portfolios', q, i))
        PROVE  u \in UsagesForProducer(configurations[q], c)
    <3>1. CASE \E form \in Submissions : Create(c, p, form)
      BY <1>1, <2>4, <3>1, InputsAssumption, CreateEntitled
    <3>2. CASE \E form \in Submissions, id \in Ids : UpdateDocument(c, p, [form EXCEPT !.id = id])
      BY <1>1, <2>3, <2>4, <3>2, UpdateEntitled
    <3>3. CASE \E id \in Ids : Delete(c, p, id)
      BY <1>1, <2>4, <3>3, DeleteEntitled
    <3>. QED
      BY <2>2, <3>1, <3>2, <3>3
  <2>. QED
    BY <2>4
<1>2. ASSUME IInv, [Next]_vars
      PROVE  [lock = "none" /\ lock' = "socket" => Entitled]_vars
  BY <1>1, <1>2
<1>3. Spec => [][lock = "none" /\ lock' = "socket" => Entitled]_vars
  <2> HIDE DEF Entitled
  <2>. QED
    BY <1>2, Invariance, PTL DEF Spec
<1>. QED
  BY <1>3 DEF UsageGuard

-----------------------------------------------------------------------------
(* One thread works at a time, on the wallet as it is in memory *)

Saves(t) == work[t].step \in {"open", "write"}
Rests(t) == work[t].step = "idle"

OneWorks ==
  /\ process \in {"down", "exited"} => lock = "none" /\ Rests("main")
  /\ process = "starting" => lock = "none" /\ Saves("main")
  /\ process = "serving" => Rests("main")
  /\ lock = "socket" => work["socket"].step \in {"open", "write", "notify", "reply"}
  /\ lock = "srr" => work["srr"].step \in {"open", "write", "reload"}
  /\ lock # "socket" => Rests("socket")
  /\ lock # "srr" => Rests("srr")

WritesCurrent == \A t \in Threads : Saves(t) => work[t].rootSi = SerializeWallet(portfolios)

WInv == IInv /\ OneWorks /\ WritesCurrent

LEMMA WorkType ==
  ASSUME IInv
  PROVE  /\ work \in [Threads -> Work]
         /\ process \in {"down", "starting", "serving", "exited"} /\ lock \in {"none", "socket", "srr"}
         /\ "main" \in Threads /\ "socket" \in Threads /\ "srr" \in Threads
BY DEF IInv, TypeOK, Threads

\* What SerializeWallet does not depend on.
LEMMA WInvKept ==
  ASSUME WInv, UNCHANGED <<process, portfolios, lock, work>>
  PROVE  OneWorks' /\ WritesCurrent'
BY DEF WInv, OneWorks, WritesCurrent, Rests, Saves, SerializeWallet

LEMMA OneWorksStart ==
  ASSUME WInv, Start
  PROVE  OneWorks' /\ WritesCurrent'
<1>1. CASE /\ process' = "starting"
           /\ work' = [work EXCEPT !["main"] = Saving(portfolios', NoEvent, FALSE)]
  <2>1. lock = "none" /\ lock' = "none" /\ \A t \in Threads : Rests(t)
    BY DEF WInv, OneWorks, Start, Restarted, Threads
  <2>2. \A t \in Threads : work'[t] = IF t = "main" THEN Saving(portfolios', NoEvent, FALSE) ELSE work[t]
    BY <1>1, WorkType DEF WInv
  <2>3. WritesCurrent'
    BY <2>1, <2>2 DEF WritesCurrent, Saves, Rests, Saving
  <2>. QED
    BY <1>1, <2>1, <2>2, <2>3 DEF OneWorks, Saves, Rests, Saving, Threads
<1>2. CASE process' = "exited" /\ UNCHANGED <<portfolios, work, lock>>
  BY <1>2 DEF WInv, OneWorks, WritesCurrent, Saves, Rests, Start, Restarted, SerializeWallet
<1>. QED
  BY <1>1, <1>2 DEF Start

LEMMA OneWorksHalt ==
  ASSUME WInv, Halt
  PROVE  OneWorks' /\ WritesCurrent'
BY DEF Halt, OneWorks, WritesCurrent, Saves, Rests, Idle, Threads

LEMMA OneWorksCommit ==
  ASSUME WInv, Listening, NEW p, NEW portfolio, NEW event, Commit(p, portfolio, event)
  PROVE  OneWorks' /\ WritesCurrent'
<1>1. \A t \in Threads : work'[t] = IF t = "socket" THEN Saving(portfolios', event, FALSE) ELSE work[t]
  BY WorkType DEF WInv, Commit
<1>2. \A t \in Threads : Rests(t)
  BY DEF WInv, OneWorks, Listening, Threads
<1>3. WritesCurrent'
  BY <1>1, <1>2 DEF WritesCurrent, Saves, Rests, Saving
<1>. QED
  BY <1>1, <1>2, <1>3 DEF WInv, OneWorks, Listening, Commit, Saves, Rests, Saving, Threads

LEMMA OneWorksProduce ==
  ASSUME WInv, Produce
  PROVE  OneWorks' /\ WritesCurrent'
<1>1. ASSUME NEW c, NEW p, NEW form, Create(c, p, form) \/ UpdateDocument(c, p, form)
      PROVE  OneWorks' /\ WritesCurrent'
  <2>1. CASE Answer("ERROR", {})
    BY <2>1, WInvKept DEF Answer
  <2>2. Listening /\ (Answer("ERROR", {}) \/ \E portfolio, event : Commit(p, portfolio, event))
    BY <1>1 DEF Create, UpdateDocument
  <2>. QED
    BY <2>1, <2>2, OneWorksCommit
<1>2. ASSUME NEW c, NEW p, NEW id, Delete(c, p, id)
      PROVE  OneWorks' /\ WritesCurrent'
  <2>1. CASE Answer("ERROR", {})
    BY <2>1, WInvKept DEF Answer
  <2>2. Listening /\ (Answer("ERROR", {}) \/ \E portfolio, event : Commit(p, portfolio, event))
    BY <1>2 DEF Delete
  <2>. QED
    BY <2>1, <2>2, OneWorksCommit
<1>. QED
  BY <1>1, <1>2 DEF Produce

LEMMA OneWorksSrr ==
  ASSUME WInv, Srr
  PROVE  OneWorks' /\ WritesCurrent'
<1>1. ASSUME NEW passphrase, SrrSave(passphrase)
      PROVE  OneWorks' /\ WritesCurrent'
  BY <1>1, WInvKept DEF SrrSave, Answer
<1>2. ASSUME NEW passphrase, NEW same, SrrRestore(passphrase, same)
      PROVE  OneWorks' /\ WritesCurrent'
  <2>1. CASE Answer("FAILED", {})
    BY <2>1, WInvKept DEF Answer
  <2>2. CASE /\ lock' = "srr" /\ UNCHANGED process
             /\ work' = [work EXCEPT !["srr"] = Saving(portfolios', NoEvent, same)]
    <3>1. \A t \in Threads : work'[t] = IF t = "srr" THEN Saving(portfolios', NoEvent, same) ELSE work[t]
      BY <2>2, WorkType DEF WInv
    <3>2. process = "serving" /\ lock = "none" /\ \A t \in Threads : Rests(t)
      BY <1>2 DEF WInv, OneWorks, SrrRestore, Listening, Threads
    <3>3. WritesCurrent'
      BY <3>1, <3>2 DEF WritesCurrent, Saves, Rests, Saving
    <3>. QED
      BY <2>2, <3>1, <3>2, <3>3 DEF OneWorks, Saves, Rests, Saving, Threads
  <2>. QED
    BY <1>2, <2>1, <2>2 DEF SrrRestore
<1>. QED
  BY <1>1, <1>2 DEF Srr

\* The steps of save: a thread that goes on holds its tree or drops it.
LEMMA OneWorksSave ==
  ASSUME WInv, NEW t \in Threads, OpenDatabase(t) \/ WriteDatabase(t)
  PROVE  OneWorks' /\ WritesCurrent'
<1>1. Saves(t) /\ UNCHANGED <<portfolios, lock>>
  BY DEF OpenDatabase, WriteDatabase, Saves
<1>2. /\ t = "main" => process = "starting"
      /\ t = "socket" => lock = "socket"
      /\ t = "srr" => lock = "srr"
  BY <1>1, WorkType DEF WInv, OneWorks, Saves, Rests, Threads
<1>3. CASE SaveReturns(t)
  <2>1. \A u \in Threads : work'[u] = IF u = t THEN [step |-> AfterSave(t), rootSi |-> NoPortfolios,
                                                     event |-> work[t].event,
                                                     isSamePlatform |-> work[t].isSamePlatform] ELSE work[u]
    BY <1>3, WorkType DEF WInv, SaveReturns, GoOn
  <2>2. \A u \in Threads : Saves(u)' => u # t /\ Saves(u) /\ work'[u] = work[u]
    BY <2>1 DEF Saves, AfterSave
  <2>3. WritesCurrent'
    BY <1>1, <2>2 DEF WInv, WritesCurrent, SerializeWallet
  <2>4. process' = IF t = "main" THEN "serving" ELSE process
    BY <1>3 DEF SaveReturns
  <2>5. CASE t = "main"
    <3>1. work'["main"].step = "idle" /\ work'["socket"] = work["socket"] /\ work'["srr"] = work["srr"]
      BY <2>1, <2>5 DEF AfterSave, Threads
    <3>. QED
      BY <1>1, <1>2, <2>3, <2>4, <2>5, <3>1 DEF WInv, OneWorks, Rests, Saves
  <2>6. CASE t = "socket"
    <3>1. work'["socket"].step = "notify" /\ work'["main"] = work["main"] /\ work'["srr"] = work["srr"]
      BY <2>1, <2>6 DEF AfterSave, Threads
    <3>. QED
      BY <1>1, <1>2, <2>3, <2>4, <2>6, <3>1 DEF WInv, OneWorks, Rests, Saves
  <2>7. CASE t = "srr"
    <3>1. work'["srr"].step = "reload" /\ work'["main"] = work["main"] /\ work'["socket"] = work["socket"]
      BY <2>1, <2>7 DEF AfterSave, Threads
    <3>. QED
      BY <1>1, <1>2, <2>3, <2>4, <2>7, <3>1 DEF WInv, OneWorks, Rests, Saves
  <2>. QED
    BY <2>5, <2>6, <2>7 DEF Threads
<1>4. CASE GoOn(t, "write", work[t].rootSi) /\ UNCHANGED process
  <2>1. \A u \in Threads : work'[u] = IF u = t THEN [step |-> "write", rootSi |-> work[t].rootSi,
                                                     event |-> work[t].event,
                                                     isSamePlatform |-> work[t].isSamePlatform] ELSE work[u]
    BY <1>4, WorkType DEF WInv, GoOn
  <2>2. \A u \in Threads : Saves(u)' => Saves(u) /\ work'[u].rootSi = work[u].rootSi
    BY <1>1, <2>1 DEF Saves
  <2>3. WritesCurrent'
    BY <1>1, <2>2 DEF WInv, WritesCurrent, SerializeWallet
  <2>4. \A u \in Threads : work'[u].step = IF u = t THEN "write" ELSE work[u].step
    BY <2>1
  <2>. QED
    BY <1>1, <1>2, <1>4, <2>3, <2>4 DEF WInv, OneWorks, Rests, Saves, Threads
<1>. QED
  BY <1>3, <1>4 DEF OpenDatabase, WriteDatabase

LEMMA OneWorksEnd ==
  ASSUME WInv, Notify \/ Reply \/ SrrReload
  PROVE  OneWorks' /\ WritesCurrent'
<1>1. CASE Notify
  <2>1. \A t \in Threads : work'[t].step = IF t = "socket" THEN "reply" ELSE work[t].step
    BY <1>1, WorkType DEF WInv, Notify, GoOn
  <2>2. \A t \in Threads : Saves(t)' => work'[t] = work[t] /\ Saves(t)
    BY <1>1, <2>1, WorkType DEF WInv, Notify, GoOn, Saves
  <2>3. UNCHANGED <<process, portfolios, lock>> /\ work["socket"].step = "notify" /\ lock = "socket"
    BY <1>1 DEF Notify, WInv, OneWorks, Rests
  <2>. QED
    BY <2>1, <2>2, <2>3 DEF WInv, OneWorks, WritesCurrent, Rests, Saves, Threads, SerializeWallet
<1>2. CASE Reply
  <2>1. \A t \in Threads : work'[t] = IF t = "socket" THEN Idle ELSE work[t]
    BY <1>2, WorkType DEF WInv, Reply
  <2>2. UNCHANGED <<process, portfolios>> /\ lock = "socket" /\ lock' = "none"
    BY <1>2 DEF Reply, WInv, OneWorks, Rests
  <2>. QED
    BY <2>1, <2>2 DEF WInv, OneWorks, WritesCurrent, Rests, Saves, Idle, Threads, SerializeWallet
<1>3. CASE SrrReload
  <2>1. \A t \in Threads : work'[t] = IF t = "srr" THEN Idle ELSE work[t]
    BY <1>3, WorkType DEF WInv, SrrReload
  <2>2. UNCHANGED process /\ lock = "srr" /\ lock' = "none" /\ process = "serving"
    BY <1>3, WorkType DEF SrrReload, WInv, OneWorks, Rests
  <2>3. \A t \in Threads : Rests(t)'
    BY <2>1, <2>2 DEF WInv, OneWorks, Rests, Idle, Threads
  <2>. QED
    BY <2>2, <2>3 DEF OneWorks, WritesCurrent, Rests, Saves, Threads
<1>. QED
  BY <1>1, <1>2, <1>3

\* A step of the wallet, or whatever ends its process.
LEMMA WInvStep ==
  ASSUME WInv, [Next]_vars \/ Halt
  PROVE  WInv'
<1>1. IInv'
  BY NextCorrect, HaltCorrect DEF WInv
<1>2. OneWorks' /\ WritesCurrent'
  <2>1. CASE Start \/ Stop \/ Crash \/ Halt
    BY <2>1, OneWorksStart, OneWorksHalt DEF Stop, Crash
  <2>2. CASE EditConfiguration \/ Read \/ UNCHANGED vars
    BY <2>2, WInvKept, ReadsOnlyAnswer DEF EditConfiguration, vars
  <2>3. CASE Produce \/ Srr
    BY <2>3, OneWorksProduce, OneWorksSrr
  <2>4. CASE \E t \in Threads : OpenDatabase(t) \/ WriteDatabase(t)
    BY <2>4, OneWorksSave
  <2>5. CASE Notify \/ Reply \/ SrrReload
    BY <2>5, OneWorksEnd
  <2>. QED
    BY <2>1, <2>2, <2>3, <2>4, <2>5 DEF Next
<1>. QED
  BY <1>1, <1>2 DEF WInv

LEMMA WritingInvariance == Spec => []WInv
<1>1. Init => WInv
  BY InitCorrect DEF Init, WInv, OneWorks, WritesCurrent, Rests, Saves, Idle, Threads
<1>. QED
  BY <1>1, WInvStep, PTL DEF Spec

LEMMA SaveIsCurrent ==
  ASSUME WInv, Next, database'.file = "written", database' # database
  PROVE  database'.content = SerializeWallet(portfolios)
<1>1. CASE UNCHANGED database
  BY <1>1
<1>2. CASE \E t \in Threads : OpenDatabase(t) \/ WriteDatabase(t)
  <2>1. PICK t \in Threads : OpenDatabase(t) \/ WriteDatabase(t)
    BY <1>2
  <2>2. CASE OpenDatabase(t)
    BY <2>2 DEF OpenDatabase
  <2>3. CASE WriteDatabase(t)
    BY <2>3 DEF WriteDatabase, WInv, WritesCurrent, Saves
  <2>. QED
    BY <2>1, <2>2, <2>3
<1>3. CASE Start \/ Stop \/ Crash \/ EditConfiguration \/ Read
  BY <1>1, <1>3, ReadsOnlyAnswer DEF Start, Stop, Crash, Halt, EditConfiguration
<1>4. CASE Produce \/ Srr
  <2>1. Produce => UNCHANGED database
    <3>1. ASSUME NEW c, NEW p, NEW form, Create(c, p, form) PROVE UNCHANGED database
      BY <3>1 DEF Create, Commit, Answer
    <3>2. ASSUME NEW c, NEW p, NEW form, UpdateDocument(c, p, form) PROVE UNCHANGED database
      BY <3>2 DEF UpdateDocument, Commit, Answer
    <3>3. ASSUME NEW c, NEW p, NEW id, Delete(c, p, id) PROVE UNCHANGED database
      BY <3>3 DEF Delete, Commit, Answer
    <3>. QED
      BY <3>1, <3>2, <3>3 DEF Produce
  <2>2. Srr => UNCHANGED database
    BY DEF Srr, SrrSave, SrrRestore, Answer
  <2>. QED
    BY <1>1, <1>4, <2>1, <2>2
<1>5. CASE Notify \/ Reply \/ SrrReload
  BY <1>1, <1>5 DEF Notify, Reply, SrrReload
<1>. QED
  BY <1>2, <1>3, <1>4, <1>5 DEF Next

\* What is written to the database is what the wallet holds at that moment,
\* also after saves that failed: no thread ever writes a tree that another has
\* outdated (SecurityWallet::save under m_lock).
THEOREM SavesWriteMemory == Spec => WritesMemory
<1> DEFINE Current == database'.file = "written" /\ database' # database =>
                        database'.content = SerializeWallet(portfolios)
<1>1. ASSUME WInv, [Next]_vars
      PROVE  [Current]_vars
  BY <1>1, SaveIsCurrent
<1>2. Spec => [][Current]_vars
  <2> HIDE DEF Current
  <2>. QED
    BY <1>1, WritingInvariance, PTL DEF Spec
<1>. QED
  BY <1>2 DEF WritesMemory

-----------------------------------------------------------------------------
(* Documents that read back *)

\* A document in memory is valid, and empty where its type has no secret.
Keepable(doc) == Valid(doc) /\ TypedSecrets(doc)

KeepsAll(portfolio) == \A i \in Ids : Has(portfolio, i) => Keepable(portfolio.documents[i])

WalletKeeps(wallet) == \A p \in Portfolios : wallet[p] # NoPortfolio => KeepsAll(wallet[p])

LEMMA ParseKeepable ==
  ASSUME NEW form \in Form, Parseable(form), Valid(Parse(form))
  PROVE  Keepable(Parse(form)) /\ Parse(form) \in Document
<1>1. TypedSecrets(Parse(form))
  BY DEF TypedSecrets, Parse, UpdatePrivate, NoSecret
<1>. QED
  BY <1>1, ParseType DEF Keepable

LEMMA OverwriteTyped ==
  ASSUME NEW doc \in Document, TypedSecrets(doc), NEW form \in Form
  PROVE  TypedSecrets(Overwrite(doc, form))
<1> DEFINE sec == UpdatePrivate(doc.type, doc.sec, form)
<1>1. Overwrite(doc, form).sec = sec /\ Overwrite(doc, form).type = doc.type
  BY DEF Overwrite, Document
<1>2. \A f \in Fields : f \notin SecretFields(doc.type) => sec[f] = Empty
  BY DEF TypedSecrets, UpdatePrivate
<1> HIDE DEF sec
<1>. QED
  BY <1>1, <1>2 DEF TypedSecrets

LEMMA RenumberedKeepable ==
  ASSUME NEW doc \in Document, Keepable(doc), NEW id \in Ids
  PROVE  Keepable([doc EXCEPT !.id = id])
<1> DEFINE new == [doc EXCEPT !.id = id]
<1>1. /\ new.type = doc.type /\ new.pub = doc.pub /\ new.sec = doc.sec
      /\ new.containPrivateData = doc.containPrivateData
  BY DEF Document
<1> HIDE DEF new
<1>2. Valid(new)
  BY <1>1 DEF Keepable, Valid, Snmpv3Valid, Snmpv1Valid, UserAndPasswordValid,
              ExternalCertificateValid, InternalCertificateValid
<1>3. TypedSecrets(new)
  BY <1>1 DEF Keepable, TypedSecrets
<1>. QED
  BY <1>2, <1>3 DEF Keepable, new

\* What is stored of a keepable document is read back, and stored, as the same.
LEMMA StoredIsLoadable ==
  ASSUME NEW doc \in Document, Keepable(doc)
  PROVE  /\ WithSecret(doc) \in Form /\ Loadable(WithSecret(doc))
         /\ Parse(WithSecret(doc)) = ReadBack(doc) /\ ReadBack(doc) \in Document
         /\ WithSecret(ReadBack(doc)) = WithSecret(doc)
<1>1. WithSecret(doc) \in Form /\ WithSecret(doc) # NoDocument
  BY SerializedType, NoDocumentAssumption
<1>2. Parse(WithSecret(doc)) = ReadBack(doc) /\ Valid(ReadBack(doc))
  BY SerializedReadsBack, ValidReadsBack DEF Keepable
<1>3. Parseable(WithSecret(doc))
  BY DEF Parseable, WithSecret, Document
<1>4. ReadBack(doc) \in Document
  BY <1>1, <1>2, <1>3, ParseType
<1>5. WithSecret(ReadBack(doc)) = WithSecret(doc)
  BY DEF ReadBack, WithSecret, FillPrivate
<1>. QED
  BY <1>1, <1>2, <1>3, <1>4, <1>5 DEF Loadable

\* A portfolio that is loaded from what was saved of it is saved as the same.
LEMMA LoadedIsSaved ==
  ASSUME NEW portfolio \in PortfolioRecord, KeepsAll(portfolio)
  PROVE  SerializePortfolio(LoadPortfolio(SerializePortfolio(portfolio))) = SerializePortfolio(portfolio)
<1> DEFINE stored == SerializePortfolio(portfolio)
           loaded == LoadPortfolio(stored)
<1>1. ASSUME NEW i \in Ids
      PROVE  loaded.documents[i] = IF Loadable(stored[i]) THEN Parse(stored[i]) ELSE NoDocument
  BY DEF LoadPortfolio, Index
<1>2. ASSUME NEW i \in Ids
      PROVE  SerializePortfolio(loaded)[i] = stored[i]
  <2>1. CASE Has(portfolio, i)
    <3> DEFINE doc == portfolio.documents[i]
    <3>1. doc \in Document /\ Keepable(doc) /\ stored[i] = WithSecret(doc)
      BY <2>1 DEF KeepsAll, Has, PortfolioRecord, DocumentMap, SerializePortfolio
    <3> HIDE DEF doc, loaded, stored
    <3>. QED
      BY <1>1, <3>1, StoredIsLoadable, NoDocumentAssumption DEF SerializePortfolio, Has
  <2>2. CASE ~Has(portfolio, i)
    <3>1. stored[i] = NoDocument
      BY <2>2 DEF SerializePortfolio
    <3>2. loaded.documents[i] = NoDocument
      BY <1>1, <3>1 DEF Loadable
    <3> HIDE DEF loaded, stored
    <3>. QED
      BY <3>1, <3>2 DEF SerializePortfolio, Has
  <2>. QED
    BY <2>1, <2>2
<1>. QED
  BY <1>2 DEF SerializePortfolio

LEMMA LoadKeeps ==
  ASSUME NEW stored \in StoredPortfolio, NEW same
  PROVE  KeepsAll(LoadPortfolio(stored)) /\ KeepsAll(LoadPortfolioFromSRR(stored, same))
<1>1. ASSUME NEW i \in Ids, Loadable(stored[i])
      PROVE  Keepable(Parse(stored[i]))
  BY <1>1, ParseKeepable DEF Loadable, StoredPortfolio
<1>2. KeepsAll(LoadPortfolio(stored))
  BY <1>1 DEF KeepsAll, LoadPortfolio, Index, Has
<1>3. KeepsAll(LoadPortfolioFromSRR(stored, same))
  BY <1>1 DEF KeepsAll, LoadPortfolioFromSRR, Index, Has
<1>. QED
  BY <1>2, <1>3

LEMMA LoadWalletKeeps ==
  ASSUME NEW content \in StoredWallet, NEW conf, NEW same
  PROVE  WalletKeeps(LoadWallet(conf, content)) /\ WalletKeeps(LoadBackup(content, same))
<1>1. KeepsAll(EmptyPortfolio)
  BY DEF KeepsAll, EmptyPortfolio, Has
<1>2. ASSUME NEW p \in Portfolios, content[p] # NoPortfolio
      PROVE  KeepsAll(LoadPortfolio(content[p])) /\ KeepsAll(LoadPortfolioFromSRR(content[p], same))
  BY <1>2, LoadKeeps DEF StoredWallet
<1>. QED
  BY <1>1, <1>2 DEF WalletKeeps, LoadWallet, LoadBackup

\* The three changes of a portfolio keep its documents keepable.
LEMMA PutKeeps ==
  ASSUME NEW documents \in DocumentMap, NEW doc \in Document, Keepable(doc), NEW portfolio,
         \A i \in Ids : documents[i] # NoDocument => Keepable(documents[i]),
         portfolio.documents = [documents EXCEPT ![doc.id] = doc]
  PROVE  KeepsAll(portfolio)
BY DEF KeepsAll, Has, DocumentMap

LEMMA RemoveKeeps ==
  ASSUME NEW portfolio \in PortfolioRecord, KeepsAll(portfolio), NEW id \in Ids
  PROVE  KeepsAll(Remove(portfolio, id))
BY DEF KeepsAll, Has, Remove, PortfolioRecord, DocumentMap

LEMMA NothingKeeps == WalletKeeps(NoPortfolios)
BY DEF WalletKeeps, NoPortfolios

-----------------------------------------------------------------------------
(* What requests and reloads leave in memory *)

\* A request of a producer either changes nothing, or leaves one portfolio with
\* documents that read back.
Commits ==
  \E p \in Portfolios, portfolio \in PortfolioRecord :
    portfolios[p] # NoPortfolio /\ KeepsAll(portfolio) /\ \E event : Commit(p, portfolio, event)

LEMMA CreateCommits ==
  ASSUME IInv, WalletKeeps(portfolios),
         NEW c \in Clients, NEW p \in Portfolios, NEW form \in Form, Create(c, p, form)
  PROVE  Listening /\ (Commits \/ Answer("ERROR", {}))
<1>1. CASE CreateAccepted(c, p, form)
  <2> DEFINE doc == Parse(form)
  <2>1. PICK id \in FreshIds(portfolios[p]) :
          Commit(p, Add(portfolios[p], doc, id), CreateEvent(p, Add(portfolios[p], doc, id).documents[id]))
    BY <1>1 DEF Create
  <2> DEFINE portfolio == Add(portfolios[p], doc, id)
             new == [doc EXCEPT !.id = id]
  <2>2. doc \in Document /\ Keepable(doc) /\ portfolios[p] # NoPortfolio /\ Addable(portfolios[p], doc)
    BY <1>1, ParseKeepable DEF CreateAccepted, Known
  <2>3. /\ portfolios[p] \in PortfolioRecord /\ IndexAgree(portfolios[p]) /\ KeepsAll(portfolios[p])
    BY <2>2, KnownPortfolio DEF WalletKeeps
  <2>4. portfolio \in PortfolioRecord
    BY <2>2, <2>3, AddCorrect
  <2>5. new \in Document /\ new.id = id /\ Keepable(new)
    BY <2>2, RenumberedKeepable DEF FreshIds, Document
  <2>6. portfolio.documents = [portfolios[p].documents EXCEPT ![new.id] = new]
    BY <2>5 DEF Add, Put
  <2>7. portfolios[p].documents \in DocumentMap
    BY <2>3 DEF PortfolioRecord
  <2> HIDE DEF portfolio, new
  <2>8. KeepsAll(portfolio)
    BY <2>3, <2>5, <2>6, <2>7, PutKeeps DEF KeepsAll, Has
  <2>9. \E event : Commit(p, portfolio, event)
    BY <2>1 DEF portfolio
  <2>. QED
    BY <2>2, <2>4, <2>8, <2>9 DEF Create, Commits
<1>2. CASE ~CreateAccepted(c, p, form)
  BY <1>2 DEF Create
<1>. QED
  BY <1>1, <1>2

LEMMA DeleteCommits ==
  ASSUME IInv, WalletKeeps(portfolios),
         NEW c \in Clients, NEW p \in Portfolios, NEW id \in Ids, Delete(c, p, id)
  PROVE  Listening /\ (Commits \/ Answer("ERROR", {}))
<1>1. CASE DeleteAccepted(c, p, id)
  <2>1. portfolios[p] # NoPortfolio /\ Has(portfolios[p], id)
    BY <1>1 DEF DeleteAccepted, Known
  <2>2. /\ portfolios[p] \in PortfolioRecord /\ IndexAgree(portfolios[p]) /\ KeepsAll(portfolios[p])
    BY <2>1, KnownPortfolio DEF WalletKeeps
  <2>3. Remove(portfolios[p], id) \in PortfolioRecord /\ KeepsAll(Remove(portfolios[p], id))
    BY <2>1, <2>2, RemoveCorrect, RemoveKeeps
  <2>. QED
    BY <1>1, <2>1, <2>3 DEF Delete, Commits
<1>2. CASE ~DeleteAccepted(c, p, id)
  BY <1>2 DEF Delete
<1>. QED
  BY <1>1, <1>2

LEMMA UpdateCommits ==
  ASSUME IInv, WalletKeeps(portfolios),
         NEW c \in Clients, NEW p \in Portfolios, NEW form \in Form, UpdateDocument(c, p, form)
  PROVE  Listening /\ (Commits \/ Answer("ERROR", {}))
<1> DEFINE old == portfolios[p].documents[form.id]
           new == Overwrite(old, form)
           portfolio == Update(portfolios[p], new)
<1>1. CASE UpdateAccepted(c, p, form)
  <2>1. /\ portfolios[p] # NoPortfolio /\ Has(portfolios[p], form.id)
        /\ Valid(new) /\ Updatable(portfolios[p], new)
    BY <1>1 DEF UpdateAccepted, Known
  <2>2. /\ portfolios[p] \in PortfolioRecord /\ IndexAgree(portfolios[p]) /\ KeepsAll(portfolios[p])
        /\ form.id \in Ids /\ old \in Document /\ Keepable(old) /\ old.id = form.id
    <3>1. /\ portfolios[p] \in PortfolioRecord /\ IndexAgree(portfolios[p]) /\ KeepsAll(portfolios[p])
          /\ form.id \in Ids
      BY <2>1, KnownPortfolio DEF WalletKeeps, Form
    <3>2. old \in Document /\ old.id = form.id
      BY <2>1, <3>1 DEF Has, IndexAgree, PortfolioRecord, DocumentMap
    <3>. QED
      BY <2>1, <3>1, <3>2 DEF KeepsAll
  <2>3. new \in Document /\ new.id = form.id
    BY <2>2, OverwriteType
  <2>4. Keepable(new)
    BY <2>1, <2>2, OverwriteTyped DEF Keepable
  <2>5. Listening /\ \E event : Commit(p, portfolio, event)
    BY <1>1 DEF UpdateDocument
  <2> HIDE DEF new
  <2>6. portfolio \in PortfolioRecord
    BY <2>1, <2>2, <2>3, UpdateCorrect
  <2>7. portfolios[p].documents \in DocumentMap
        /\ portfolio.documents = [portfolios[p].documents EXCEPT ![new.id] = new]
    BY <2>2, <2>3 DEF Update, Put, PortfolioRecord
  <2> HIDE DEF portfolio
  <2>8. KeepsAll(portfolio)
    BY <2>2, <2>3, <2>4, <2>7, PutKeeps DEF KeepsAll, Has
  <2>. QED
    BY <2>1, <2>5, <2>6, <2>8 DEF Commits
<1>2. CASE ~UpdateAccepted(c, p, form)
  BY <1>2 DEF UpdateDocument
<1>. QED
  BY <1>1, <1>2

LEMMA ProduceCommits ==
  ASSUME IInv, WalletKeeps(portfolios), Produce
  PROVE  Listening /\ (Commits \/ Answer("ERROR", {}))
<1>1. ASSUME NEW form \in Submissions, NEW id \in Ids
      PROVE  form \in Form /\ [form EXCEPT !.id = id] \in Form
  BY InputsAssumption DEF Form
<1>2. PICK c \in Clients, p \in Portfolios :
        \/ \E form \in Submissions : Create(c, p, form)
        \/ \E form \in Submissions, id \in Ids : UpdateDocument(c, p, [form EXCEPT !.id = id])
        \/ \E id \in Ids : Delete(c, p, id)
  BY DEF Produce
<1>3. CASE \E form \in Submissions : Create(c, p, form)
  BY <1>3, InputsAssumption, CreateCommits
<1>4. CASE \E form \in Submissions, id \in Ids : UpdateDocument(c, p, [form EXCEPT !.id = id])
  BY <1>1, <1>4, UpdateCommits
<1>5. CASE \E id \in Ids : Delete(c, p, id)
  BY <1>5, DeleteCommits
<1>. QED
  BY <1>2, <1>3, <1>4, <1>5

\* Every document in memory always reads back from its stored form, whether or
\* not writes fail.
LEMMA WalletKeepsStep ==
  ASSUME IInv, WalletKeeps(portfolios), [Next]_vars \/ Halt
  PROVE  WalletKeeps(portfolios')
<1>1. CASE Produce
  <2>1. CASE Commits
    <3>1. PICK p \in Portfolios, portfolio \in PortfolioRecord :
            KeepsAll(portfolio) /\ \E event : Commit(p, portfolio, event)
      BY <2>1 DEF Commits
    <3>2. \A q \in Portfolios : portfolios'[q] = IF q = p THEN portfolio ELSE portfolios[q]
      BY <3>1 DEF Commit, IInv, TypeOK, Wallet
    <3>. QED
      BY <3>1, <3>2 DEF WalletKeeps
  <2>2. CASE Answer("ERROR", {})
    BY <2>2 DEF Answer
  <2>. QED
    BY <1>1, <2>1, <2>2, ProduceCommits
<1>2. CASE Start \/ SrrReload
  <2>1. CASE Reload
    BY <2>1, LoadWalletKeeps, NothingKeeps DEF Reload, IInv, TypeOK
  <2>2. CASE UNCHANGED portfolios
    BY <2>2
  <2>. QED
    BY <1>2, <2>1, <2>2 DEF Start, SrrReload
<1>3. CASE Stop \/ Crash \/ Halt
  BY <1>3, NothingKeeps DEF Stop, Crash, Halt
<1>4. CASE Srr
  BY <1>4, LoadWalletKeeps DEF Srr, SrrSave, SrrRestore, Answer, IInv, TypeOK
<1>5. CASE EditConfiguration \/ Read \/ Notify \/ Reply \/ UNCHANGED vars
  BY <1>5, ReadsOnlyAnswer DEF EditConfiguration, Notify, Reply, vars
<1>6. CASE \E t \in Threads : OpenDatabase(t) \/ WriteDatabase(t)
  BY <1>6 DEF OpenDatabase, WriteDatabase
<1>. QED
  BY <1>1, <1>2, <1>3, <1>4, <1>5, <1>6 DEF Next

-----------------------------------------------------------------------------
(* What a restart finds, when writes do not fail *)

Covered == \A p \in Portfolios : configurations[p] # NoAccess => portfolios[p] # NoPortfolio

\* A restart with this configuration would find what is in memory.
Found ==
  /\ database.file = "written"
  /\ \A p \in Portfolios :
       IF database.content[p] # NoPortfolio
         THEN portfolios[p] # NoPortfolio /\ SerializePortfolio(portfolios[p]) = database.content[p]
         ELSE portfolios[p] = IF configurations[p] # NoAccess THEN EmptyPortfolio ELSE NoPortfolio

\* The wallet at each step of a thread, and between requests.
Recoverable ==
  /\ WalletKeeps(portfolios)
  /\ \A t \in {"main", "socket"} : Saves(t) => Covered
  /\ work["socket"].step \in {"notify", "reply"} => Found
  /\ work["srr"].step = "reload" =>
       database.file = "written" /\ database.content = SerializeWallet(portfolios)
  /\ process = "serving" /\ lock = "none" => portfolios = NoPortfolios \/ Found

RInv == WInv /\ Recoverable

LEMMA SerializedWallet ==
  ASSUME WInv, NEW p \in Portfolios
  PROVE  /\ portfolios[p] = NoPortfolio => SerializeWallet(portfolios)[p] = NoPortfolio
         /\ portfolios[p] # NoPortfolio =>
              /\ portfolios[p] \in PortfolioRecord
              /\ SerializeWallet(portfolios)[p] = SerializePortfolio(portfolios[p])
              /\ SerializeWallet(portfolios)[p] # NoPortfolio
<1>1. CASE portfolios[p] # NoPortfolio
  <2>1. portfolios[p] \in PortfolioRecord /\ IndexAgree(portfolios[p])
    BY <1>1, KnownPortfolio DEF WInv
  <2>2. SerializePortfolio(portfolios[p]) # NoPortfolio
    BY <2>1, SerializeCorrect, NoPortfolioAssumption
  <2>. QED
    BY <1>1, <2>1, <2>2 DEF SerializeWallet
<1>. QED
  BY <1>1 DEF SerializeWallet

LEMMA WrittenIsFound ==
  ASSUME WInv, Covered, database'.file = "written",
         database'.content = SerializeWallet(portfolios), UNCHANGED <<portfolios, configurations>>
  PROVE  Found'
BY SerializedWallet DEF Covered, Found

LEMMA FoundIsCovered ==
  ASSUME Found
  PROVE  Covered
BY EmptyPortfolioCorrect, NoPortfolioAssumption DEF Found, Covered

\* The reload of a restore finds what the restore has written.
LEMMA ReloadIsFound ==
  ASSUME WInv, WalletKeeps(portfolios), Reload, ReloadSucceeds, UNCHANGED database,
         database.file = "written", database.content = SerializeWallet(portfolios)
  PROVE  Found'
<1>1. configurations' = confFile.entries
      /\ portfolios' = LoadWallet(confFile.entries, database.content)
  BY DEF Reload
<1>2. ASSUME NEW p \in Portfolios, database.content[p] # NoPortfolio
      PROVE  portfolios'[p] # NoPortfolio /\ SerializePortfolio(portfolios'[p]) = database.content[p]
  <2>1. /\ portfolios[p] \in PortfolioRecord /\ KeepsAll(portfolios[p])
        /\ database.content[p] = SerializePortfolio(portfolios[p])
    BY <1>2, SerializedWallet DEF WalletKeeps
  <2>2. portfolios'[p] = LoadPortfolio(database.content[p])
    BY <1>1, <1>2 DEF LoadWallet
  <2>3. portfolios'[p] \in PortfolioRecord
    BY <1>2, <2>2, LoadCorrect DEF WInv, IInv, TypeOK, SavedAgrees, ContentAgrees, StoredWallet
  <2>. QED
    BY <2>1, <2>2, <2>3, LoadedIsSaved, NoPortfolioAssumption
<1>3. ASSUME NEW p \in Portfolios, database.content[p] = NoPortfolio
      PROVE  portfolios'[p] = IF configurations'[p] # NoAccess THEN EmptyPortfolio ELSE NoPortfolio
  BY <1>1, <1>3 DEF LoadWallet
<1>. QED
  BY <1>2, <1>3 DEF Found

LEMMA RecoverableKept ==
  ASSUME Recoverable, UNCHANGED <<process, database, configurations, portfolios, lock, work>>
  PROVE  Recoverable'
BY DEF Recoverable, WalletKeeps, Covered, Found, Saves, SerializeWallet

LEMMA RecoverableStart ==
  ASSUME RInv, Start
  PROVE  Recoverable'
<1>1. CASE /\ ReloadSucceeds /\ Reload /\ process' = "starting"
           /\ work' = [work EXCEPT !["main"] = Saving(portfolios', NoEvent, FALSE)]
  <2>1. lock' = "none" /\ Rests("socket") /\ Rests("srr")
    BY DEF RInv, WInv, OneWorks, Start, Restarted
  <2>2. /\ work'["socket"] = work["socket"] /\ work'["srr"] = work["srr"]
    BY <1>1, WorkType DEF RInv, WInv
  <2>3. WalletKeeps(portfolios')
    BY <1>1, LoadWalletKeeps DEF Reload, RInv, WInv, IInv, TypeOK
  <2>4. Covered'
    <3>1. ASSUME NEW p \in Portfolios, configurations'[p] # NoAccess
          PROVE  portfolios'[p] # NoPortfolio
      <4>1. database.content[p] # NoPortfolio => LoadPortfolio(database.content[p]) \in PortfolioRecord
        BY LoadCorrect DEF RInv, WInv, IInv, TypeOK, SavedAgrees, ContentAgrees, StoredWallet
      <4>2. portfolios'[p] \in PortfolioRecord
        BY <1>1, <3>1, <4>1, EmptyPortfolioCorrect DEF Reload, LoadWallet
      <4>. QED
        BY <4>2, NoPortfolioAssumption
    <3>. QED
      BY <3>1 DEF Covered
  <2>. QED
    BY <1>1, <2>1, <2>2, <2>3, <2>4 DEF Recoverable, Rests
<1>2. CASE process' = "exited" /\ UNCHANGED <<configurations, portfolios, work>>
  <2>1. WalletKeeps(portfolios') /\ Rests("main")' /\ Rests("socket")' /\ Rests("srr")'
    BY <1>2 DEF RInv, WInv, OneWorks, Recoverable, WalletKeeps, Start, Restarted, Rests
  <2>. QED
    BY <1>2, <2>1 DEF Recoverable, Rests, Saves
<1>. QED
  BY <1>1, <1>2 DEF Start

LEMMA RecoverableHalt ==
  ASSUME Halt
  PROVE  Recoverable'
BY NothingKeeps DEF Halt, Recoverable, Saves, Idle, Threads

LEMMA RecoverableCommit ==
  ASSUME RInv, Listening, NEW p \in Portfolios, portfolios[p] # NoPortfolio,
         NEW portfolio \in PortfolioRecord, KeepsAll(portfolio), NEW event, Commit(p, portfolio, event)
  PROVE  Recoverable'
<1>1. \A q \in Portfolios : portfolios'[q] = IF q = p THEN portfolio ELSE portfolios[q]
  BY DEF Commit, RInv, WInv, IInv, TypeOK, Wallet
<1>2. WalletKeeps(portfolios')
  BY <1>1 DEF RInv, Recoverable, WalletKeeps
<1>3. Covered
  BY FoundIsCovered DEF RInv, Recoverable, Listening, NoPortfolios
<1>4. Covered'
  BY <1>1, <1>3, NoPortfolioAssumption DEF Covered, Commit
<1>5. work'["socket"].step = "open" /\ Rests("srr")'
  BY WorkType DEF RInv, WInv, OneWorks, Listening, Commit, Saving, Rests
<1>6. lock' = "socket"
  BY DEF Commit
<1>. QED
  BY <1>2, <1>4, <1>5, <1>6 DEF Recoverable, Rests

LEMMA RecoverableAnswer ==
  ASSUME RInv, NEW status, NEW delivered, Answer(status, delivered)
  PROVE  Recoverable'
BY RecoverableKept DEF RInv, Answer

LEMMA RecoverableProduce ==
  ASSUME RInv, Produce
  PROVE  Recoverable'
<1>1. Listening /\ (Commits \/ Answer("ERROR", {}))
  BY ProduceCommits DEF RInv, WInv, Recoverable
<1>2. CASE Commits
  BY <1>1, <1>2, RecoverableCommit DEF Commits
<1>3. CASE Answer("ERROR", {})
  BY <1>3, RecoverableAnswer
<1>. QED
  BY <1>1, <1>2, <1>3

LEMMA RecoverableSrr ==
  ASSUME RInv, Srr
  PROVE  Recoverable'
<1>1. ASSUME NEW passphrase, SrrSave(passphrase)
      PROVE  Recoverable'
  BY <1>1, RecoverableKept DEF RInv, SrrSave, Answer
<1>2. ASSUME NEW passphrase, NEW same, SrrRestore(passphrase, same)
      PROVE  Recoverable'
  <2>1. CASE /\ lock' = "srr" /\ portfolios' = LoadBackup(backup.content, same)
             /\ work' = [work EXCEPT !["srr"] = Saving(portfolios', NoEvent, same)]
    <3>1. WalletKeeps(portfolios')
      BY <2>1, LoadWalletKeeps DEF RInv, WInv, IInv, TypeOK
    <3>2. work'["srr"].step = "open" /\ Rests("main")' /\ Rests("socket")'
      BY <1>2, <2>1, WorkType DEF RInv, WInv, OneWorks, SrrRestore, Listening, Saving, Rests
    <3>. QED
      BY <2>1, <3>1, <3>2 DEF Recoverable, Rests, Saves
  <2>2. CASE Answer("FAILED", {})
    BY <2>2, RecoverableAnswer
  <2>. QED
    BY <1>2, <2>1, <2>2 DEF SrrRestore
<1>. QED
  BY <1>1, <1>2 DEF Srr

LEMMA RecoverableOpen ==
  ASSUME ~WritesFail, RInv, NEW t \in Threads, OpenDatabase(t)
  PROVE  Recoverable'
<1>1. /\ work[t].step = "open" /\ UNCHANGED <<process, configurations, portfolios, lock>>
      /\ \A u \in Threads : work'[u].step = IF u = t THEN "write" ELSE work[u].step
  BY WorkType DEF RInv, WInv, OpenDatabase, GoOn
<1>2. /\ work["socket"].step \notin {"notify", "reply"} /\ work["srr"].step # "reload"
      /\ ~(process = "serving" /\ lock = "none")
  BY <1>1, WorkType DEF RInv, WInv, OneWorks, Rests, Saves, Threads
<1>3. \A u \in {"main", "socket"} : Saves(u)' => Saves(u)
  BY <1>1 DEF Saves, Threads
<1>4. WalletKeeps(portfolios') /\ \A u \in {"main", "socket"} : Saves(u)' => Covered'
  BY <1>1, <1>3 DEF RInv, Recoverable, WalletKeeps, Covered
<1>. QED
  BY <1>1, <1>2, <1>4 DEF Recoverable, Threads

LEMMA RecoverableWrite ==
  ASSUME ~WritesFail, RInv, NEW t \in Threads, WriteDatabase(t)
  PROVE  Recoverable'
<1>1. /\ Saves(t) /\ UNCHANGED <<configurations, portfolios, lock>>
      /\ database' = [file |-> "written", content |-> work[t].rootSi]
      /\ \A u \in Threads : work'[u].step = IF u = t THEN AfterSave(t) ELSE work[u].step
      /\ process' = IF t = "main" THEN "serving" ELSE process
  BY WorkType DEF RInv, WInv, WriteDatabase, SaveReturns, GoOn, Saves
<1>2. database'.file = "written" /\ database'.content = SerializeWallet(portfolios)
  BY <1>1 DEF RInv, WInv, WritesCurrent
<1>3. t \in {"main", "socket"} => Found'
  BY <1>1, <1>2, WrittenIsFound DEF RInv, Recoverable
<1>4. /\ t = "main" => lock = "none" /\ Rests("socket") /\ Rests("srr")
      /\ t = "socket" => process # "starting" /\ lock = "socket" /\ Rests("srr")
      /\ t = "srr" => process # "starting" /\ lock = "srr" /\ Rests("socket")
  BY <1>1, WorkType DEF RInv, WInv, OneWorks, Rests, Saves
<1>5. Rests("main")'
  BY <1>1, <1>4, WorkType DEF RInv, WInv, OneWorks, Rests, Saves, AfterSave, Threads
<1>6. WalletKeeps(portfolios')
  BY <1>1 DEF RInv, Recoverable, WalletKeeps
<1>7. t # "socket" => Rests("socket")'
  BY <1>1, <1>4 DEF Rests, Threads
<1>8. CASE t = "main"
  BY <1>1, <1>3, <1>4, <1>5, <1>6, <1>7, <1>8 DEF Recoverable, Rests, Saves, Threads
<1>9. CASE t = "socket"
  BY <1>1, <1>3, <1>4, <1>5, <1>6, <1>9 DEF Recoverable, Rests, Saves, Threads, AfterSave
<1>10. CASE t = "srr"
  <2>1. database'.content = SerializeWallet(portfolios')
    BY <1>1, <1>2 DEF SerializeWallet
  <2>. QED
    BY <1>1, <1>2, <1>4, <1>5, <1>6, <1>7, <1>10, <2>1 DEF Recoverable, Rests, Saves, Threads
<1>. QED
  BY <1>8, <1>9, <1>10 DEF Threads

LEMMA RecoverableEnd ==
  ASSUME RInv, Notify \/ Reply \/ SrrReload
  PROVE  Recoverable'
<1>1. CASE Notify \/ Reply
  <2>1. /\ Found /\ lock = "socket" /\ UNCHANGED <<process, database, configurations, portfolios>>
        /\ \A t \in Threads : t # "socket" => work'[t].step = work[t].step
        /\ work'["socket"].step \in {"reply", "idle"}
    BY <1>1, WorkType DEF RInv, WInv, OneWorks, Recoverable, Notify, Reply, GoOn, Rests, Idle
  <2>2. WalletKeeps(portfolios') /\ Found'
    BY <2>1 DEF RInv, Recoverable, WalletKeeps, Found
  <2>3. Rests("main")' /\ Rests("srr")'
    BY <2>1, WorkType DEF RInv, WInv, OneWorks, Rests, Saves
  <2>. QED
    BY <2>1, <2>2, <2>3 DEF Recoverable, Rests, Saves
<1>2. CASE SrrReload
  <2>1. /\ lock = "srr" /\ Reload /\ UNCHANGED <<process, database>>
        /\ work' = [work EXCEPT !["srr"] = Idle]
        /\ database.file = "written" /\ database.content = SerializeWallet(portfolios)
    BY <1>2 DEF RInv, WInv, OneWorks, Recoverable, SrrReload, Rests
  <2>2. Rests("main")' /\ Rests("socket")' /\ Rests("srr")'
    BY <2>1, WorkType DEF RInv, WInv, OneWorks, Rests, Saves, Idle
  <2>3. CASE ReloadSucceeds
    <3>1. Found'
      BY <2>1, <2>3, ReloadIsFound DEF RInv, Recoverable
    <3>2. WalletKeeps(portfolios')
      BY <2>1, <2>3, LoadWalletKeeps DEF Reload, RInv, WInv, IInv, TypeOK
    <3>. QED
      BY <2>2, <3>1, <3>2 DEF Recoverable, Rests, Saves
  <2>4. CASE ~ReloadSucceeds
    <3>1. portfolios' = NoPortfolios
      BY <2>1, <2>4 DEF Reload
    <3>. QED
      BY <2>2, <3>1, NothingKeeps DEF Recoverable, Rests, Saves
  <2>. QED
    BY <2>3, <2>4
<1>. QED
  BY <1>1, <1>2

LEMMA RecoverableStep ==
  ASSUME ~WritesFail, RInv, [Next]_vars
  PROVE  Recoverable'
<1>1. CASE Start \/ Stop \/ Crash
  BY <1>1, RecoverableStart, RecoverableHalt DEF Stop, Crash
<1>2. CASE EditConfiguration \/ Read \/ UNCHANGED vars
  BY <1>2, RecoverableKept, ReadsOnlyAnswer DEF RInv, EditConfiguration, vars
<1>3. CASE Produce \/ Srr
  BY <1>3, RecoverableProduce, RecoverableSrr
<1>4. CASE \E t \in Threads : OpenDatabase(t) \/ WriteDatabase(t)
  BY <1>4, RecoverableOpen, RecoverableWrite
<1>5. CASE Notify \/ Reply \/ SrrReload
  BY <1>5, RecoverableEnd
<1>. QED
  BY <1>1, <1>2, <1>3, <1>4, <1>5 DEF Next

LEMMA RecoverableInvariance ==
  ASSUME ~WritesFail
  PROVE  Spec => []RInv
<1>1. Init => Recoverable
  BY NothingKeeps DEF Init, Recoverable, Saves, Idle, Threads
<1>2. ASSUME WInv, Recoverable, [Next]_vars
      PROVE  Recoverable'
  BY <1>2, RecoverableStep DEF RInv
<1>. QED
  BY <1>1, <1>2, WritingInvariance, PTL DEF Spec, RInv

\* Whenever the lock is free, a restart with the current configuration would
\* give back exactly the documents in memory, when writes do not fail and with
\* crashes at any step (SecurityWallet::save and reload).
THEOREM RestartFindsEverything ==
  ASSUME ~WritesFail
  PROVE  Spec => []RestartKeepsEverything
<1>1. ASSUME RInv, process = "serving", lock = "none", portfolios # NoPortfolios
      PROVE  /\ database.file = "written"
             /\ SerializeWallet(LoadWallet(configurations, database.content)) = SerializeWallet(portfolios)
  <2>1. Found
    BY <1>1 DEF RInv, Recoverable
  <2> DEFINE loaded == LoadWallet(configurations, database.content)
  <2>2. ASSUME NEW p \in Portfolios
        PROVE  SerializeWallet(loaded)[p] = SerializeWallet(portfolios)[p]
    <3>1. CASE database.content[p] # NoPortfolio
      <4>1. /\ portfolios[p] \in PortfolioRecord /\ KeepsAll(portfolios[p])
            /\ database.content[p] = SerializePortfolio(portfolios[p])
            /\ SerializeWallet(portfolios)[p] = database.content[p]
        BY <1>1, <2>1, <3>1, SerializedWallet DEF Found, RInv, Recoverable, WalletKeeps
      <4>2. loaded[p] = LoadPortfolio(database.content[p]) /\ loaded[p] # NoPortfolio
        BY <1>1, <3>1, LoadCorrect, NoPortfolioAssumption
           DEF LoadWallet, RInv, WInv, IInv, TypeOK, SavedAgrees, ContentAgrees, StoredWallet
      <4> HIDE DEF loaded
      <4>. QED
        BY <4>1, <4>2, LoadedIsSaved DEF SerializeWallet
    <3>2. CASE database.content[p] = NoPortfolio
      <4>1. loaded[p] = portfolios[p]
        BY <2>1, <3>2 DEF Found, LoadWallet
      <4> HIDE DEF loaded
      <4>. QED
        BY <4>1 DEF SerializeWallet
    <3>. QED
      BY <3>1, <3>2
  <2> HIDE DEF loaded
  <2>. QED
    BY <2>1, <2>2 DEF SerializeWallet, Found, loaded
<1>2. RInv => RestartKeepsEverything
  BY <1>1 DEF RestartKeepsEverything
<1>. QED
  BY <1>2, RecoverableInvariance, PTL

\* No client is ever shown a document, or a state of one, that is not in the
\* database, when writes do not fail (handleRequest under the lock that save and
\* restore hold).
THEOREM ReadsShowWhatIsSaved ==
  ASSUME ~WritesFail
  PROVE  Spec => []ReadsAreSaved
<1>1. Init => ReadsAreSaved
  BY DEF Init, NoAnswer, ReadsAreSaved
<1>2. ASSUME RInv, ReadsAreSaved, [Next]_vars
      PROVE  ReadsAreSaved'
  <2>1. CASE Read
    <3>1. Listening /\ UNCHANGED database
      BY <2>1, ReadsOnlyAnswer
    <3>2. ASSUME NEW x \in answer'.delivered
          PROVE  LET stored == database.content[x.portfolio]
                 IN  /\ database.file = "written" /\ stored # NoPortfolio
                     /\ stored[x.form.id] # NoDocument
                     /\ x.form \in {stored[x.form.id], WithoutSecret(Parse(stored[x.form.id]))}
      <4> DEFINE p == x.portfolio
      <4>1. p \in Portfolios /\ portfolios[p] # NoPortfolio
            /\ \E doc \in ListDocuments(portfolios[p]) :
                 x.form = WithoutSecret(doc) \/ x.form = WithSecret(doc)
        BY <1>2, <2>1, ReadDelivers DEF RInv, WInv
      <4>2. PICK doc \in ListDocuments(portfolios[p]) :
                 x.form = WithoutSecret(doc) \/ x.form = WithSecret(doc)
        BY <4>1
      <4> HIDE DEF p
      <4>3. Found
        BY <1>2, <3>1, <4>1 DEF RInv, Recoverable, Listening, NoPortfolios
      <4>4. /\ doc.id \in Ids /\ Has(portfolios[p], doc.id) /\ portfolios[p].documents[doc.id] = doc
            /\ doc \in Document /\ Keepable(doc)
        BY <1>2, <4>1, KnownPortfolio
           DEF RInv, WInv, ListDocuments, IndexAgree, Recoverable, WalletKeeps, KeepsAll
      <4>5. database.content[p] # NoPortfolio
        BY <4>1, <4>3, <4>4 DEF Found, EmptyPortfolio, Has
      <4>6. database.content[p][doc.id] = WithSecret(doc)
        BY <4>1, <4>3, <4>4, <4>5 DEF Found, SerializePortfolio
      <4>7. WithSecret(doc) # NoDocument /\ x.form.id = doc.id
        <5>1. WithSecret(doc) \in Form /\ WithSecret(doc).id = doc.id
          BY <4>4, SerializedType DEF WithSecret
        <5>2. WithoutSecret(doc).id = WithSecret(doc).id
          BY <5>1 DEF WithoutSecret, Form
        <5>. QED
          BY <4>2, <5>1, <5>2, NoDocumentAssumption
      <4>8. WithoutSecret(Parse(WithSecret(doc))) = WithoutSecret(doc)
        <5>1. Parse(WithSecret(doc)) = ReadBack(doc)
          BY <4>4, SerializedReadsBack DEF Keepable
        <5>2. WithSecret(ReadBack(doc)) = WithSecret(doc)
          BY DEF ReadBack, WithSecret, FillPrivate
        <5>. QED
          BY <5>1, <5>2 DEF WithoutSecret
      <4>. QED
        BY <4>2, <4>3, <4>5, <4>6, <4>7, <4>8 DEF Found, p
    <3>. QED
      BY <3>1, <3>2 DEF ReadsAreSaved
  <2>2. CASE Next /\ ~Read
    BY <2>2, DeliveredByReads DEF ReadsAreSaved
  <2>3. CASE UNCHANGED vars
    BY <1>2, <2>3 DEF vars, ReadsAreSaved
  <2>. QED
    BY <1>2, <2>1, <2>2, <2>3
<1>. QED
  BY <1>1, <1>2, RecoverableInvariance, PTL DEF Spec

=============================================================================
