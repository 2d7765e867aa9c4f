----------------------------- MODULE StoreProofs -----------------------------
(***************************************************************************)
(* The security wallet implements the abstract store, for every set of     *)
(* documents, clients, portfolios, configurations and passphrases, with    *)
(* crashes at any step, when writes do not fail.                           *)
(*                                                                         *)
(* The step that changes the store is the one that truncates the file, so  *)
(* the invariant says of each thread that is about to take it what the     *)
(* tree it holds makes of the stored documents: nothing new at the start,  *)
(* one change for a request, the backup for a restore.                     *)
(***************************************************************************)
EXTENDS WalletSafety, WalletRefinement

-----------------------------------------------------------------------------
(* What is stored, document by document *)

\* Every stored document is loaded, and stored again as it is.
Canonical(content) ==
  \A p \in Portfolios, i \in Ids :
    Stored(content, p, i) # NoDocument =>
      /\ Stored(content, p, i) \in Form /\ Loadable(Stored(content, p, i))
      /\ WithSecret(Parse(Stored(content, p, i))) = Stored(content, p, i)

LEMMA DocumentsAreStored ==
  ASSUME NEW content \in StoredWallet
  PROVE  DocumentsOf(content) = [p \in Portfolios |-> [i \in Ids |-> Stored(content, p, i)]]
BY DEF DocumentsOf, Stored, StoredWallet, StoredPortfolio

LEMMA SerializedDocuments ==
  ASSUME NEW wallet \in Wallet, WalletAgrees(wallet), NEW p \in Portfolios, NEW i \in Ids
  PROVE  Stored(SerializeWallet(wallet), p, i) =
           IF wallet[p] # NoPortfolio /\ Has(wallet[p], i)
             THEN WithSecret(wallet[p].documents[i]) ELSE NoDocument
<1>1. CASE wallet[p] # NoPortfolio
  <2>1. wallet[p] \in PortfolioRecord /\ IndexAgree(wallet[p])
    BY <1>1 DEF Wallet, WalletAgrees
  <2>2. SerializePortfolio(wallet[p]) # NoPortfolio
    BY <2>1, SerializeCorrect, NoPortfolioAssumption
  <2>3. SerializeWallet(wallet)[p] = SerializePortfolio(wallet[p])
    BY <1>1 DEF SerializeWallet
  <2>. QED
    BY <1>1, <2>2, <2>3 DEF Stored, SerializePortfolio
<1>2. CASE wallet[p] = NoPortfolio
  BY <1>2 DEF Stored, SerializeWallet
<1>. QED
  BY <1>1, <1>2

LEMMA SerializedCanonical ==
  ASSUME NEW wallet \in Wallet, WalletAgrees(wallet), WalletKeeps(wallet)
  PROVE  Canonical(SerializeWallet(wallet))
<1>1. ASSUME NEW p \in Portfolios, NEW i \in Ids, wallet[p] # NoPortfolio, Has(wallet[p], i)
      PROVE  wallet[p].documents[i] \in Document /\ Keepable(wallet[p].documents[i])
  BY <1>1 DEF Wallet, WalletKeeps, KeepsAll, PortfolioRecord, DocumentMap, Has
<1>2. ASSUME NEW p \in Portfolios, NEW i \in Ids, Stored(SerializeWallet(wallet), p, i) # NoDocument
      PROVE  LET form == Stored(SerializeWallet(wallet), p, i)
             IN  form \in Form /\ Loadable(form) /\ WithSecret(Parse(form)) = form
  <2>1. wallet[p] # NoPortfolio /\ Has(wallet[p], i)
        /\ Stored(SerializeWallet(wallet), p, i) = WithSecret(wallet[p].documents[i])
    BY <1>2, SerializedDocuments
  <2>. QED
    BY <1>1, <2>1, StoredIsLoadable
<1>. QED
  BY <1>2 DEF Canonical

\* A reload finds what is stored, and no more.
LEMMA LoadedDocuments ==
  ASSUME NEW content \in StoredWallet, ContentAgrees(content), Canonical(content), NEW conf,
         NEW p \in Portfolios, NEW i \in Ids
  PROVE  Stored(SerializeWallet(LoadWallet(conf, content)), p, i) = Stored(content, p, i)
<1> DEFINE loaded == LoadWallet(conf, content)
<1>1. loaded \in Wallet /\ WalletAgrees(loaded)
  BY LoadWalletCorrect
<1>2. Stored(SerializeWallet(loaded), p, i) =
        IF loaded[p] # NoPortfolio /\ Has(loaded[p], i) THEN WithSecret(loaded[p].documents[i]) ELSE NoDocument
  BY <1>1, SerializedDocuments
<1>3. CASE content[p] # NoPortfolio
  <2>1. /\ loaded[p] = LoadPortfolio(content[p]) /\ loaded[p] # NoPortfolio
        /\ Stored(content, p, i) = content[p][i]
    <3>1. content[p] \in StoredPortfolio /\ StoredAgree(content[p])
      BY <1>3 DEF StoredWallet, ContentAgrees
    <3>2. loaded[p] = LoadPortfolio(content[p])
      BY <1>3 DEF LoadWallet
    <3>. QED
      BY <1>3, <3>1, <3>2, LoadCorrect, NoPortfolioAssumption DEF Stored
  <2>2. loaded[p].documents[i] = IF Loadable(content[p][i]) THEN Parse(content[p][i]) ELSE NoDocument
    <3>1. LoadPortfolio(content[p]).documents =
            [j \in Ids |-> IF Loadable(content[p][j]) THEN Parse(content[p][j]) ELSE NoDocument]
      BY DEF LoadPortfolio, Index
    <3>. QED
      BY <2>1, <3>1
  <2>3. CASE content[p][i] # NoDocument
    <3>1. /\ content[p][i] \in Form /\ Loadable(content[p][i])
          /\ WithSecret(Parse(content[p][i])) = content[p][i]
      BY <2>1, <2>3 DEF Canonical
    <3>2. Parse(content[p][i]) # NoDocument
      BY <3>1, ParseType, NoDocumentAssumption DEF Loadable
    <3>. QED
      BY <1>2, <2>1, <2>2, <3>1, <3>2 DEF Has
  <2>4. CASE content[p][i] = NoDocument
    <3>. QED
      BY <1>2, <2>1, <2>2, <2>4 DEF Has, Loadable
  <2>. QED
    BY <2>3, <2>4
<1>4. CASE content[p] = NoPortfolio
  <2>1. loaded[p] \in {EmptyPortfolio, NoPortfolio} /\ Stored(content, p, i) = NoDocument
    BY <1>4 DEF LoadWallet, Stored
  <2>2. ~Has(EmptyPortfolio, i)
    BY DEF Has, EmptyPortfolio
  <2>. QED
    BY <1>2, <2>1, <2>2
<1>. QED
  BY <1>3, <1>4

\* What a restore brings, on this platform or another.
LEMMA RestoredDocuments ==
  ASSUME NEW content \in StoredWallet, ContentAgrees(content), Canonical(content), NEW same \in BOOLEAN,
         NEW p \in Portfolios, NEW i \in Ids
  PROVE  Stored(SerializeWallet(LoadBackup(content, same)), p, i) =
           IF Stored(content, p, i) # NoDocument /\ ~same
              /\ Stored(content, p, i).type = "InternalCertificate"
             THEN NoDocument ELSE Stored(content, p, i)
<1> DEFINE loaded == LoadBackup(content, same)
<1>1. loaded \in Wallet /\ WalletAgrees(loaded)
  BY LoadBackupCorrect
<1>2. Stored(SerializeWallet(loaded), p, i) =
        IF loaded[p] # NoPortfolio /\ Has(loaded[p], i) THEN WithSecret(loaded[p].documents[i]) ELSE NoDocument
  BY <1>1, SerializedDocuments
<1>3. CASE content[p] # NoPortfolio
  <2>1. /\ loaded[p] = LoadPortfolioFromSRR(content[p], same) /\ loaded[p] # NoPortfolio
        /\ Stored(content, p, i) = content[p][i]
    <3>1. content[p] \in StoredPortfolio /\ StoredAgree(content[p])
      BY <1>3 DEF StoredWallet, ContentAgrees
    <3>2. loaded[p] = LoadPortfolioFromSRR(content[p], same)
      BY <1>3 DEF LoadBackup
    <3>. QED
      BY <1>3, <3>1, <3>2, LoadFromSRRCorrect, NoPortfolioAssumption DEF Stored
  <2>2. loaded[p].documents[i] =
          IF Loadable(content[p][i]) /\ (same \/ content[p][i].type # "InternalCertificate")
            THEN Parse(content[p][i]) ELSE NoDocument
    <3>1. LoadPortfolioFromSRR(content[p], same).documents =
            [j \in Ids |-> IF Loadable(content[p][j])
                              /\ (same \/ content[p][j].type # "InternalCertificate")
                             THEN Parse(content[p][j]) ELSE NoDocument]
      BY DEF LoadPortfolioFromSRR, Index
    <3>. QED
      BY <2>1, <3>1
  <2>3. CASE content[p][i] # NoDocument
    <3>1. /\ content[p][i] \in Form /\ Loadable(content[p][i])
          /\ WithSecret(Parse(content[p][i])) = content[p][i]
      BY <2>1, <2>3 DEF Canonical
    <3>2. Parse(content[p][i]) # NoDocument
      BY <3>1, ParseType, NoDocumentAssumption DEF Loadable
    <3>. QED
      BY <1>2, <2>1, <2>2, <3>1, <3>2 DEF Has
  <2>4. CASE content[p][i] = NoDocument
    <3>. QED
      BY <1>2, <2>1, <2>2, <2>4 DEF Has, Loadable
  <2>. QED
    BY <2>3, <2>4
<1>4. CASE content[p] = NoPortfolio
  <2>1. loaded[p] = NoPortfolio /\ Stored(content, p, i) = NoDocument
    BY <1>4 DEF LoadBackup, Stored
  <2>. QED
    BY <1>2, <2>1
<1>. QED
  BY <1>3, <1>4

\* Loadable in WalletStore is Loadable here: both read the same documents.
LEMMA SameLoadable == \A form : Durable!Loadable(form) <=> Loadable(form)
BY DEF Durable!Loadable, Durable!Parseable, Durable!Parse, Durable!UpdatePrivate, Durable!NoSecret,
       Durable!Fields, Durable!Types, Durable!SecretFields, Durable!Valid, Durable!Snmpv3Valid,
       Durable!Snmpv1Valid, Durable!UserAndPasswordValid, Durable!ExternalCertificateValid,
       Durable!InternalCertificateValid, Durable!AUTH_PRIV, Durable!AUTH_NO_PRIV,
       Loadable, Parseable, Parse, UpdatePrivate, NoSecret, Fields, Types, SecretFields, Valid,
       Snmpv3Valid, Snmpv1Valid, UserAndPasswordValid, ExternalCertificateValid,
       InternalCertificateValid, AUTH_PRIV, AUTH_NO_PRIV

-----------------------------------------------------------------------------
(* The invariant *)

\* A tree that changes nothing, one document, or all of them to the backup.
ChangesNothing(old, new) ==
  \A p \in Portfolios, i \in Ids : Stored(new, p, i) = Stored(old, p, i)

\* The public part of a stored document.
PublicPart(form) ==
  IF form = NoDocument THEN NoDocument
  ELSE [form EXCEPT !.private = FALSE, !.sent = [f \in Fields |-> Absent]]

\* The event tells which document changes, and what becomes of its public part.
Tells(event, p, i, form) ==
  /\ event.portfolio = {p}
  /\ (IF event.action = "DELETED" THEN event.oldData ELSE event.newData).id = i
  /\ event.newData = PublicPart(form)

ChangesOne(old, new, event) ==
  \E p \in Portfolios, i \in Ids :
    /\ \A q \in Portfolios, j \in Ids : q # p \/ j # i => Stored(new, q, j) = Stored(old, q, j)
    /\ Tells(event, p, i, Stored(new, p, i))
    /\ Stored(new, p, i) # NoDocument /\ Stored(old, p, i) # NoDocument
         => Stored(old, p, i).type = Stored(new, p, i).type
    /\ Stored(new, p, i) = NoDocument => event.action = "DELETED" /\ event.oldData.id = i

BringsBack(saved, new, same) ==
  \A p \in Portfolios, i \in Ids :
    Stored(new, p, i) =
      IF Stored(saved, p, i) # NoDocument /\ ~same /\ Stored(saved, p, i).type = "InternalCertificate"
        THEN NoDocument ELSE Stored(saved, p, i)

\* The file is torn exactly while a thread is to write it, or the process died so.
Files ==
  /\ \A t \in Threads : work[t].step = "write" => database.file = "torn"
  /\ process \in {"starting", "serving"} /\ database.file = "torn" =>
       \E t \in Threads : work[t].step = "write"
  /\ database.file = "torn" => database.content = NoPortfolios
  /\ Canonical(database.content) /\ Canonical(backup.content)

Plans ==
  /\ work["main"].step = "open" => ChangesNothing(database.content, work["main"].rootSi)
  /\ work["socket"].step = "open" =>
       ChangesOne(database.content, work["socket"].rootSi, work["socket"].event)
  /\ work["srr"].step = "open" =>
       BringsBack(backup.content, work["srr"].rootSi, work["srr"].isSamePlatform)

DInv == RInv /\ Files /\ Plans

LEMMA Typed ==
  ASSUME DInv
  PROVE  /\ work \in [Threads -> Work]
         /\ "main" \in Threads /\ "socket" \in Threads /\ "srr" \in Threads
         /\ portfolios \in Wallet /\ WalletAgrees(portfolios) /\ WalletKeeps(portfolios)
         /\ database.content \in StoredWallet /\ ContentAgrees(database.content)
         /\ backup.content \in StoredWallet /\ ContentAgrees(backup.content)
         /\ \A t \in Threads : work[t].rootSi \in StoredWallet /\ ContentAgrees(work[t].rootSi)
BY WorkType DEF DInv, RInv, WInv, IInv, TypeOK, IndexesAgree, SavedAgrees, Recoverable, Work

LEMMA OnlyOneSaves ==
  ASSUME DInv, NEW t \in Threads, Saves(t), NEW u \in Threads, ~Rests(u)
  PROVE  u = t /\ process \in {"starting", "serving"}
BY WorkType DEF DInv, RInv, WInv, OneWorks, Saves, Rests, Threads

LEMMA RestsBetweenRequests ==
  ASSUME DInv, Listening
  PROVE  /\ \A t \in Threads : Rests(t)
         /\ database.file # "torn"
BY DEF DInv, RInv, WInv, OneWorks, Listening, Rests, Threads, Files

\* The database holds what memory holds, but for portfolios without documents.
LEMMA FoundIsStored ==
  ASSUME DInv, Found, NEW p \in Portfolios, NEW i \in Ids
  PROVE  Stored(database.content, p, i) = Stored(SerializeWallet(portfolios), p, i)
<1>1. CASE database.content[p] # NoPortfolio
  BY <1>1, Typed DEF Found, Stored, SerializeWallet
<1>2. CASE database.content[p] = NoPortfolio
  <2>1. portfolios[p] \in {EmptyPortfolio, NoPortfolio}
    BY <1>2 DEF Found
  <2>2. ~Has(EmptyPortfolio, i)
    BY DEF Has, EmptyPortfolio
  <2>3. Stored(SerializeWallet(portfolios), p, i) = NoDocument
    BY <2>1, <2>2, Typed, SerializedDocuments
  <2>. QED
    BY <1>2, <2>3 DEF Stored
<1>. QED
  BY <1>1, <1>2

LEMMA NothingCanonical == Canonical(NoPortfolios)
BY DEF Canonical, Stored, NoPortfolios

LEMMA DurableKept ==
  ASSUME DInv, UNCHANGED <<process, database, work, backup>>
  PROVE  Files' /\ Plans'
<1>1. Files'
  BY DEF DInv, Files, Canonical, Stored
<1>2. Plans'
  BY DEF DInv, Plans, Stored, ChangesNothing, ChangesOne, BringsBack
<1>. QED
  BY <1>1, <1>2

LEMMA DurableStart ==
  ASSUME DInv, Start
  PROVE  Files' /\ Plans'
<1>1. \A t \in Threads : Rests(t)
  BY DEF DInv, RInv, WInv, OneWorks, Start, Restarted, Threads
<1>2. UNCHANGED <<database, backup>>
  BY DEF Start
<1>3. Canonical(database'.content) /\ Canonical(backup'.content)
  BY <1>2 DEF DInv, Files, Canonical, Stored
<1>4. CASE /\ ReloadSucceeds /\ Reload
           /\ work' = [work EXCEPT !["main"] = Saving(portfolios', NoEvent, FALSE)]
  <2>1. /\ work'["main"] = Saving(portfolios', NoEvent, FALSE)
        /\ work'["socket"] = work["socket"] /\ work'["srr"] = work["srr"]
    BY <1>4, Typed
  <2>2. portfolios' = LoadWallet(confFile.entries, database.content)
    BY <1>4 DEF Reload
  <2>3. ChangesNothing(database.content, SerializeWallet(portfolios'))
    BY <2>2, Typed, LoadedDocuments DEF DInv, Files, ChangesNothing
  <2>4. Plans'
    BY <1>1, <1>2, <2>1, <2>3 DEF Plans, Saving, Rests, Threads, ChangesNothing, Stored
  <2>5. database'.file # "torn" /\ \A t \in Threads : work'[t].step # "write"
    BY <1>1, <1>2, <1>4, <2>1 DEF ReloadSucceeds, Saving, Rests, Threads
  <2>. QED
    BY <1>3, <2>4, <2>5 DEF Files
<1>5. CASE process' = "exited" /\ UNCHANGED work
  <2>1. \A t \in Threads : work'[t].step = "idle"
    BY <1>1, <1>5 DEF Rests
  <2>. QED
    BY <1>2, <1>3, <1>5, <2>1 DEF DInv, Files, Plans, Threads
<1>. QED
  BY <1>4, <1>5 DEF Start

LEMMA DurableHalt ==
  ASSUME DInv, Halt
  PROVE  Files' /\ Plans'
<1>1. \A t \in Threads : work'[t].step = "idle"
  BY DEF Halt, Idle
<1>2. process' = "down" /\ UNCHANGED <<database, backup>>
  BY DEF Halt
<1>3. Canonical(database'.content) /\ Canonical(backup'.content)
  BY <1>2 DEF DInv, Files, Canonical, Stored
<1>. QED
  BY <1>1, <1>2, <1>3 DEF DInv, Files, Plans, Threads

LEMMA DurableCommit ==
  ASSUME DInv, IInv', Listening, NEW p \in Portfolios, NEW id \in Ids, NEW portfolio \in PortfolioRecord,
         portfolios[p] # NoPortfolio, NEW event, Commit(p, portfolio, event),
         \A j \in Ids : j # id => portfolio.documents[j] = portfolios[p].documents[j],
         Has(portfolio, id) /\ Has(portfolios[p], id) =>
           portfolios[p].documents[id].type = portfolio.documents[id].type,
         ~Has(portfolio, id) => event.action = "DELETED" /\ event.oldData.id = id,
         Tells(event, p, id, IF Has(portfolio, id) THEN WithSecret(portfolio.documents[id]) ELSE NoDocument)
  PROVE  Files' /\ Plans'
<1>1. /\ UNCHANGED <<process, database, backup>>
      /\ portfolios' = [portfolios EXCEPT ![p] = portfolio]
      /\ work' = [work EXCEPT !["socket"] = Saving(portfolios', event, FALSE)]
  BY DEF Commit
<1>2. Found
  BY DEF DInv, RInv, Recoverable, Listening, NoPortfolios
<1>3. /\ work'["socket"] = Saving(portfolios', event, FALSE)
      /\ work'["main"] = work["main"] /\ work'["srr"] = work["srr"]
  BY <1>1, Typed
<1>4. \A t \in Threads : Rests(t)
  BY RestsBetweenRequests
<1>5. portfolios' \in Wallet /\ WalletAgrees(portfolios')
  BY DEF IInv, TypeOK, IndexesAgree
<1>6. \A q \in Portfolios : portfolios'[q] = IF q = p THEN portfolio ELSE portfolios[q]
  BY <1>1, Typed DEF Wallet
<1>7. ChangesOne(database.content, SerializeWallet(portfolios'), event)
  <2> DEFINE old(q, j) == Stored(SerializeWallet(portfolios), q, j)
             new(q, j) == Stored(SerializeWallet(portfolios'), q, j)
  <2>1. ASSUME NEW q \in Portfolios, NEW j \in Ids
        PROVE  /\ Stored(database.content, q, j) = old(q, j)
               /\ old(q, j) = IF portfolios[q] # NoPortfolio /\ Has(portfolios[q], j)
                                THEN WithSecret(portfolios[q].documents[j]) ELSE NoDocument
               /\ new(q, j) = IF portfolios'[q] # NoPortfolio /\ Has(portfolios'[q], j)
                                THEN WithSecret(portfolios'[q].documents[j]) ELSE NoDocument
    BY <1>2, <1>5, Typed, FoundIsStored, SerializedDocuments
  <2> HIDE DEF old, new
  <2>2. ASSUME NEW q \in Portfolios, NEW j \in Ids, q # p \/ j # id
        PROVE  new(q, j) = old(q, j)
    <3>1. CASE q # p
      BY <1>6, <2>1, <3>1
    <3>2. CASE q = p /\ j # id
      BY <1>6, <2>1, <3>2, NoPortfolioAssumption DEF Has
    <3>. QED
      BY <2>2, <3>1, <3>2
  <2>3. portfolio # NoPortfolio
    BY NoPortfolioAssumption
  <2>4. new(p, id) # NoDocument /\ old(p, id) # NoDocument => old(p, id).type = new(p, id).type
    BY <1>6, <2>1, <2>3 DEF WithSecret
  <2>5. Has(portfolio, id) => portfolio.documents[id] \in Document
    BY DEF Has, PortfolioRecord, DocumentMap
  <2>6. new(p, id) = NoDocument => ~Has(portfolio, id)
    BY <1>6, <2>1, <2>3, <2>5, SerializedType, NoDocumentAssumption
  <2>7. new(p, id) = IF Has(portfolio, id) THEN WithSecret(portfolio.documents[id]) ELSE NoDocument
    BY <1>6, <2>1, <2>3
  <2>8. Tells(event, p, id, new(p, id))
    BY <2>7
  <2>. QED
    BY <2>1, <2>2, <2>4, <2>6, <2>8 DEF ChangesOne, new
<1>8. Plans'
  <2>1. work'["main"].step # "open" /\ work'["srr"].step # "open"
    BY <1>3, <1>4 DEF Rests, Threads
  <2>2. /\ work'["socket"].rootSi = SerializeWallet(portfolios')
        /\ work'["socket"].event = event
    BY <1>3 DEF Saving
  <2>3. ChangesOne(database'.content, work'["socket"].rootSi, work'["socket"].event)
    BY <1>1, <1>7, <2>2
  <2>. QED
    BY <2>1, <2>3 DEF Plans
<1>9. Canonical(database'.content) /\ Canonical(backup'.content)
  BY <1>1 DEF DInv, Files, Canonical, Stored
<1>10. \A t \in Threads : work'[t].step # "write"
  BY <1>3, <1>4 DEF Saving, Rests, Threads
<1>. QED
  BY <1>1, <1>8, <1>9, <1>10, RestsBetweenRequests DEF Files

LEMMA DurableAnswer ==
  ASSUME DInv, NEW status, NEW delivered, Answer(status, delivered)
  PROVE  Files' /\ Plans'
BY DurableKept DEF Answer

LEMMA DurableCreate ==
  ASSUME DInv, IInv', NEW c \in Clients, NEW p \in Portfolios, NEW form \in Form, Create(c, p, form)
  PROVE  Files' /\ Plans'
<1>1. CASE CreateAccepted(c, p, form)
  <2> DEFINE doc == Parse(form)
  <2>1. PICK id \in FreshIds(portfolios[p]) :
          LET portfolio == Add(portfolios[p], doc, id)
          IN  Commit(p, portfolio, CreateEvent(p, portfolio.documents[id]))
    BY <1>1 DEF Create
  <2> DEFINE portfolio == Add(portfolios[p], doc, id)
             new == [doc EXCEPT !.id = id]
  <2>2. doc \in Document /\ portfolios[p] # NoPortfolio /\ Addable(portfolios[p], doc)
    BY <1>1, ParseType DEF CreateAccepted, Known
  <2>3. portfolios[p] \in PortfolioRecord /\ IndexAgree(portfolios[p])
    BY <2>2, KnownPortfolio DEF DInv, RInv, WInv
  <2>4. portfolio \in PortfolioRecord
    BY <2>2, <2>3, AddCorrect
  <2>5. new \in Document /\ new.id = id /\ new # NoDocument /\ id \in Ids /\ ~Has(portfolios[p], id)
    BY <2>2, NoDocumentAssumption DEF FreshIds, Document
  <2>6. portfolio.documents = [portfolios[p].documents EXCEPT ![id] = new]
    BY <2>5 DEF Add, Put
  <2>7. Has(portfolio, id) /\ \A j \in Ids : j # id => portfolio.documents[j] = portfolios[p].documents[j]
    BY <2>3, <2>5, <2>6 DEF Has, PortfolioRecord, DocumentMap
  <2>8. Listening
    BY DEF Create
  <2>9. portfolio.documents[id] = new
    BY <2>3, <2>5, <2>6 DEF PortfolioRecord, DocumentMap
  <2> HIDE DEF portfolio, new
  <2>10. Tells(CreateEvent(p, new), p, id, WithSecret(new))
    <3>1. WithSecret(new) \in Form /\ WithSecret(new).id = id
      BY <2>5, SerializedType DEF WithSecret
    <3>2. WithoutSecret(new) = PublicPart(WithSecret(new)) /\ WithoutSecret(new).id = id
      BY <3>1, NoDocumentAssumption DEF WithoutSecret, PublicPart, Form
    <3>. QED
      BY <3>2 DEF Tells, CreateEvent, NoEvent
  <2>. QED
    BY <2>1, <2>2, <2>4, <2>5, <2>7, <2>8, <2>9, <2>10, DurableCommit DEF portfolio
<1>2. CASE Answer("ERROR", {})
  BY <1>2, DurableAnswer
<1>. QED
  BY <1>1, <1>2 DEF Create

LEMMA DurableDelete ==
  ASSUME DInv, IInv', NEW c \in Clients, NEW p \in Portfolios, NEW id \in Ids, Delete(c, p, id)
  PROVE  Files' /\ Plans'
<1>1. CASE DeleteAccepted(c, p, id)
  <2> DEFINE doc == portfolios[p].documents[id]
             event == DeleteEvent(p, doc)
  <2>1. portfolios[p] # NoPortfolio /\ Has(portfolios[p], id) /\ Listening
        /\ Commit(p, Remove(portfolios[p], id), event)
    BY <1>1 DEF DeleteAccepted, Known, Delete
  <2>2. /\ portfolios[p] \in PortfolioRecord /\ IndexAgree(portfolios[p])
        /\ doc \in Document /\ doc.id = id
    BY <2>1, KnownPortfolio DEF DInv, RInv, WInv, IndexAgree
  <2>3. /\ Remove(portfolios[p], id) \in PortfolioRecord
        /\ ~Has(Remove(portfolios[p], id), id)
        /\ \A j \in Ids : j # id => Remove(portfolios[p], id).documents[j] = portfolios[p].documents[j]
    BY <2>1, <2>2, RemoveCorrect DEF Remove, Has, PortfolioRecord, DocumentMap
  <2>4. event.action = "DELETED" /\ event.oldData.id = id
    <3>1. WithSecret(doc) \in Form /\ WithSecret(doc).id = id
      BY <2>2, SerializedType DEF WithSecret
    <3>2. WithoutSecret(doc).id = id
      BY <3>1 DEF WithoutSecret, Form
    <3>. QED
      BY <3>2 DEF DeleteEvent, NoEvent
  <2>5. Tells(event, p, id, NoDocument)
    BY <2>4 DEF Tells, DeleteEvent, NoEvent, PublicPart
  <2> HIDE DEF event
  <2>. QED
    BY <2>1, <2>3, <2>4, <2>5, DurableCommit
<1>2. CASE Answer("ERROR", {})
  BY <1>2, DurableAnswer
<1>. QED
  BY <1>1, <1>2 DEF Delete

LEMMA SamePublicPart ==
  ASSUME NEW doc \in Document, NEW other \in Document, doc.id = other.id, doc.name = other.name,
         doc.type = other.type, doc.usages = other.usages, doc.pub = other.pub
  PROVE  WithoutSecret(doc) = WithoutSecret(other)
<1> DEFINE form == WithSecret(doc)
           otherForm == WithSecret(other)
<1>1. /\ form \in Form /\ otherForm \in Form /\ form.id = otherForm.id /\ form.name = otherForm.name
      /\ form.type = otherForm.type /\ form.usages = otherForm.usages /\ form.pub = otherForm.pub
  BY SerializedType DEF WithSecret
<1> HIDE DEF form, otherForm
<1>2. [form EXCEPT !.private = FALSE, !.sent = [f \in Fields |-> Absent]]
        = [otherForm EXCEPT !.private = FALSE, !.sent = [f \in Fields |-> Absent]]
  BY <1>1 DEF Form
<1>. QED
  BY <1>2 DEF form, otherForm, WithoutSecret

LEMMA DurableUpdate ==
  ASSUME DInv, IInv', NEW c \in Clients, NEW p \in Portfolios, NEW form \in Form,
         UpdateDocument(c, p, form)
  PROVE  Files' /\ Plans'
<1> DEFINE old == portfolios[p].documents[form.id]
           new == Overwrite(old, form)
           portfolio == Update(portfolios[p], new)
           event == UpdateEvent(p, old, Parse(form))
<1>1. CASE UpdateAccepted(c, p, form)
  <2>1. /\ portfolios[p] # NoPortfolio /\ Has(portfolios[p], form.id) /\ Updatable(portfolios[p], new)
    BY <1>1 DEF UpdateAccepted, Known
  <2>2. /\ portfolios[p] \in PortfolioRecord /\ IndexAgree(portfolios[p])
        /\ form.id \in Ids /\ old \in Document /\ old.id = form.id
    <3>1. portfolios[p] \in PortfolioRecord /\ IndexAgree(portfolios[p])
      BY <2>1, KnownPortfolio DEF DInv, RInv, WInv
    <3>2. form.id \in Ids
      BY DEF Form
    <3>3. old \in Document
      BY <2>1, <3>1, <3>2 DEF Has, PortfolioRecord, DocumentMap
    <3>4. old.id = form.id
      BY <2>1, <3>1, <3>2 DEF IndexAgree
    <3>. QED
      BY <3>1, <3>2, <3>3, <3>4
  <2>3. new \in Document /\ new.id = form.id /\ new # NoDocument
    BY <2>2, OverwriteType, NoDocumentAssumption
  <2>8. new.type = old.type
    BY <2>2 DEF Overwrite, Document
  <2>4. Listening /\ Commit(p, portfolio, event)
    BY <1>1 DEF UpdateDocument
  <2>9. WithoutSecret(Parse(form)) = WithoutSecret(new)
    <3>1. /\ new.id = Parse(form).id /\ new.name = Parse(form).name
          /\ new.type = Parse(form).type /\ new.usages = Parse(form).usages
          /\ new.pub = Parse(form).pub
      BY <1>1, <2>2 DEF UpdateAccepted, Overwritable, Overwrite, Parse, Document
    <3>2. Parse(form) \in Document
      BY <1>1, ParseType DEF UpdateAccepted
    <3>. QED
      BY <2>3, <3>1, <3>2, SamePublicPart
  <2> HIDE DEF new
  <2>10. Tells(event, p, form.id, WithSecret(new))
    <3>1. WithSecret(new) \in Form /\ WithSecret(new).id = form.id
      BY <2>3, SerializedType DEF WithSecret
    <3>2. WithoutSecret(new) = PublicPart(WithSecret(new)) /\ WithoutSecret(new).id = form.id
      BY <3>1, NoDocumentAssumption DEF WithoutSecret, PublicPart, Form
    <3>. QED
      BY <2>9, <3>2 DEF Tells, UpdateEvent
  <2>5. portfolio \in PortfolioRecord
    BY <2>1, <2>2, <2>3, UpdateCorrect
  <2>6. portfolio.documents = [portfolios[p].documents EXCEPT ![form.id] = new]
    BY <2>2, <2>3 DEF Update, Put, PortfolioRecord
  <2>7. /\ Has(portfolio, form.id) /\ portfolio.documents[form.id].type = old.type
        /\ portfolio.documents[form.id] = new
        /\ \A j \in Ids : j # form.id => portfolio.documents[j] = portfolios[p].documents[j]
    BY <2>2, <2>3, <2>6, <2>8 DEF Has, PortfolioRecord, DocumentMap
  <2> HIDE DEF portfolio, event
  <2>. QED
    BY <2>1, <2>2, <2>4, <2>5, <2>7, <2>10, DurableCommit
<1>2. CASE Answer("ERROR", {})
  BY <1>2, DurableAnswer
<1>. QED
  BY <1>1, <1>2 DEF UpdateDocument

LEMMA DurableProduce ==
  ASSUME DInv, IInv', Produce
  PROVE  Files' /\ Plans'
<1>1. ASSUME NEW form \in Submissions, NEW id \in Ids
      PROVE  form \in Form /\ [form EXCEPT !.id = id] \in Form
  BY InputsAssumption DEF Form
<1>2. PICK c \in Clients, p \in Portfolios :
        \/ \E form \in Submissions : Create(c, p, form)
        \/ \E form \in Submissions, id \in Ids : UpdateDocument(c, p, [form EXCEPT !.id = id])
        \/ \E id \in Ids : Delete(c, p, id)
  BY DEF Produce
<1>3. CASE \E form \in Submissions : Create(c, p, form)
  BY <1>3, InputsAssumption, DurableCreate
<1>4. CASE \E form \in Submissions, id \in Ids : UpdateDocument(c, p, [form EXCEPT !.id = id])
  BY <1>1, <1>4, DurableUpdate
<1>5. CASE \E id \in Ids : Delete(c, p, id)
  BY <1>5, DurableDelete
<1>. QED
  BY <1>2, <1>3, <1>4, <1>5

LEMMA DurableSrr ==
  ASSUME DInv, Srr
  PROVE  Files' /\ Plans'
<1>1. ASSUME NEW passphrase, SrrSave(passphrase)
      PROVE  Files' /\ Plans'
  <2>1. CASE Answer("FAILED", {})
    BY <2>1, DurableAnswer
  <2>2. CASE backup'.content = SerializeWallet(portfolios) /\ UNCHANGED <<process, database, work>>
    <3>1. Canonical(backup'.content) /\ Canonical(database'.content)
      BY <2>2, Typed, SerializedCanonical DEF DInv, Files
    <3>2. \A t \in Threads : work'[t].step = "idle"
      BY <1>1, <2>2, RestsBetweenRequests DEF SrrSave, Rests
    <3>. QED
      BY <2>2, <3>1, <3>2 DEF DInv, Files, Plans, Threads
  <2>. QED
    BY <1>1, <2>1, <2>2 DEF SrrSave
<1>2. ASSUME NEW passphrase, NEW same \in BOOLEAN, SrrRestore(passphrase, same)
      PROVE  Files' /\ Plans'
  <2>1. CASE Answer("FAILED", {})
    BY <2>1, DurableAnswer
  <2>2. CASE /\ portfolios' = LoadBackup(backup.content, same)
             /\ work' = [work EXCEPT !["srr"] = Saving(portfolios', NoEvent, same)]
             /\ UNCHANGED <<process, database, backup>>
    <3>1. /\ work'["srr"] = Saving(portfolios', NoEvent, same)
          /\ work'["main"] = work["main"] /\ work'["socket"] = work["socket"]
      BY <2>2, Typed
    <3>2. (\A t \in Threads : Rests(t)) /\ database.file # "torn"
      BY <1>2, RestsBetweenRequests DEF SrrRestore
    <3>3. BringsBack(backup.content, SerializeWallet(portfolios'), same)
      BY <2>2, Typed, RestoredDocuments DEF DInv, Files, BringsBack
    <3>4. Plans'
      BY <2>2, <3>1, <3>2, <3>3 DEF Plans, Saving, Rests, Threads, BringsBack, Stored
    <3>5. Canonical(database'.content) /\ Canonical(backup'.content)
      BY <2>2 DEF DInv, Files, Canonical, Stored
    <3>6. \A t \in Threads : work'[t].step # "write"
      BY <3>1, <3>2 DEF Saving, Rests, Threads
    <3>. QED
      BY <2>2, <3>2, <3>4, <3>5, <3>6 DEF Files
  <2>. QED
    BY <1>2, <2>1, <2>2 DEF SrrRestore
<1>. QED
  BY <1>1, <1>2, InputsAssumption DEF Srr

LEMMA DurableSave ==
  ASSUME ~WritesFail, DInv, NEW t \in Threads, OpenDatabase(t) \/ WriteDatabase(t)
  PROVE  Files' /\ Plans'
<1>1. Saves(t) /\ UNCHANGED backup
  BY DEF OpenDatabase, WriteDatabase, Saves
<1>2. \A u \in Threads : u # t => Rests(u)
  BY <1>1, OnlyOneSaves
<1>3. \A u \in Threads : u # t => work'[u] = work[u]
  BY Typed DEF OpenDatabase, WriteDatabase, SaveReturns, GoOn
<1>4. Canonical(backup'.content)
  BY <1>1 DEF DInv, Files, Canonical, Stored
<1>5. CASE OpenDatabase(t)
  <2>1. work'[t].step = "write" /\ database' = [file |-> "torn", content |-> NoPortfolios]
    BY <1>5, Typed DEF OpenDatabase, GoOn
  <2>2. Plans'
    BY <1>2, <1>3, <2>1 DEF Plans, Rests, Threads
  <2>3. Files'
    BY <1>4, <2>1, NothingCanonical DEF Files
  <2>. QED
    BY <2>2, <2>3
<1>6. CASE WriteDatabase(t)
  <2>1. /\ work'[t].step = AfterSave(t)
        /\ database' = [file |-> "written", content |-> work[t].rootSi]
    BY <1>6, Typed DEF WriteDatabase, SaveReturns, GoOn
  <2>2. \A u \in Threads : work'[u].step \notin {"open", "write"}
    BY <1>2, <1>3, <2>1 DEF AfterSave, Rests
  <2>3. Canonical(database'.content)
    BY <1>1, <2>1, Typed, SerializedCanonical DEF DInv, RInv, WInv, WritesCurrent
  <2>. QED
    BY <1>4, <2>1, <2>2, <2>3 DEF Files, Plans, Threads
<1>. QED
  BY <1>5, <1>6

LEMMA DurableEnd ==
  ASSUME DInv, Notify \/ Reply \/ SrrReload
  PROVE  Files' /\ Plans'
<1>1. UNCHANGED <<process, database, backup>>
  BY DEF Notify, Reply, SrrReload
<1>2. \A t \in Threads : ~Saves(t)
  <2>1. CASE Notify \/ Reply
    <3>1. ~Rests("socket") /\ ~Saves("socket")
      BY <2>1 DEF Notify, Reply, Rests, Saves
    <3>. QED
      BY <3>1, Typed, OnlyOneSaves
  <2>2. CASE SrrReload
    <3>1. ~Rests("srr") /\ ~Saves("srr")
      BY <2>2 DEF SrrReload, Rests, Saves
    <3>. QED
      BY <3>1, Typed, OnlyOneSaves
  <2>. QED
    BY <2>1, <2>2
<1>3. \A t \in Threads : work'[t].step \notin {"open", "write"}
  BY <1>2, Typed DEF Notify, Reply, SrrReload, GoOn, Idle, Saves
<1>4. Canonical(database'.content) /\ Canonical(backup'.content)
  BY <1>1 DEF DInv, Files, Canonical, Stored
<1>. QED
  BY <1>1, <1>2, <1>3, <1>4 DEF DInv, Files, Plans, Saves, Threads

LEMMA DurableInvariance ==
  ASSUME ~WritesFail
  PROVE  Spec => []DInv
<1>1. Init => Files /\ Plans
  BY NothingCanonical DEF Init, Files, Plans, Idle, Threads
<1>2. ASSUME RInv, Files, Plans, RInv', [Next]_vars
      PROVE  Files' /\ Plans'
  <2>1. DInv /\ IInv'
    BY <1>2 DEF DInv, RInv, WInv
  <2>2. CASE Start \/ Stop \/ Crash
    BY <2>1, <2>2, DurableStart, DurableHalt DEF Stop, Crash
  <2>3. CASE EditConfiguration \/ Read \/ UNCHANGED vars
    BY <2>1, <2>3, DurableKept, ReadsOnlyAnswer DEF EditConfiguration, vars
  <2>4. CASE Produce \/ Srr
    BY <2>1, <2>4, DurableProduce, DurableSrr
  <2>5. CASE \E t \in Threads : OpenDatabase(t) \/ WriteDatabase(t)
    BY <2>1, <2>5, DurableSave
  <2>6. CASE Notify \/ Reply \/ SrrReload
    BY <2>1, <2>6, DurableEnd
  <2>. QED
    BY <1>2, <2>2, <2>3, <2>4, <2>5, <2>6 DEF Next
<1>. QED
  BY <1>1, <1>2, RecoverableInvariance, PTL DEF Spec, DInv

\* A save never writes less than the file held, but for the document a Delete
\* removes and for a restore, when writes do not fail (SecurityWallet::save,
\* reload and restoreSRRData).
THEOREM SavesForgetNothingElse ==
  ASSUME ~WritesFail
  PROVE  Spec => OnlyDeleteOrRestoreForgets
<1> DEFINE Remembers ==
      \A t \in Threads :
        database.file = "written" /\ work[t].step = "open" /\ work'[t].step = "write" =>
          \A p \in Portfolios, i \in Ids :
            Stored(database.content, p, i) # NoDocument
              /\ Stored(work[t].rootSi, p, i) = NoDocument =>
                \/ t = "srr"
                \/ /\ work[t].event.action = "DELETED"
                   /\ work[t].event.portfolio = {p} /\ work[t].event.oldData.id = i
<1>1. DInv => Remembers
  BY DEF DInv, Plans, ChangesNothing, ChangesOne, Tells, Threads
<1>2. DInv => [Remembers]_vars
  BY <1>1
<1>3. Spec => [][Remembers]_vars
  <2> HIDE DEF Remembers
  <2>. QED
    BY <1>2, DurableInvariance, PTL
<1>. QED
  BY <1>3 DEF OnlyDeleteOrRestoreForgets

-----------------------------------------------------------------------------
(* What a restore leaves in memory *)

\* From its save to its reload a restore carries the documents of the backup.
Restoring ==
  /\ work["srr"].step \in {"open", "write"} =>
       BringsBack(backup.content, work["srr"].rootSi, work["srr"].isSamePlatform)
  /\ work["srr"].step = "reload" =>
       BringsBack(backup.content, database.content, work["srr"].isSamePlatform)

LEMMA RestoringKept ==
  ASSUME Restoring, UNCHANGED <<database, backup>>, work'["srr"] = work["srr"]
  PROVE  Restoring'
BY DEF Restoring, BringsBack, Stored

LEMMA RestoringRests ==
  ASSUME work'["srr"].step \in {"idle", "notify", "reply"}
  PROVE  Restoring'
BY DEF Restoring

LEMMA RestoringSave ==
  ASSUME ~WritesFail, DInv, Restoring, NEW t \in Threads, OpenDatabase(t) \/ WriteDatabase(t)
  PROVE  Restoring'
<1>1. Saves(t)
  BY DEF OpenDatabase, WriteDatabase, Saves
<1>2. CASE t # "srr"
  <2>1. Rests("srr") /\ work'["srr"] = work["srr"]
    BY <1>1, <1>2, Typed, OnlyOneSaves DEF OpenDatabase, WriteDatabase, SaveReturns, GoOn
  <2>. QED
    BY <2>1, RestoringRests DEF Rests
<1>3. CASE t = "srr"
  <2> DEFINE same == work["srr"].isSamePlatform
  <2>1. BringsBack(backup.content, work["srr"].rootSi, same) /\ UNCHANGED backup
    BY <1>3 DEF OpenDatabase, WriteDatabase, Restoring
  <2>2. CASE OpenDatabase(t)
    <3>1. /\ work'["srr"].step = "write" /\ work'["srr"].rootSi = work["srr"].rootSi
          /\ work'["srr"].isSamePlatform = same
      BY <1>3, <2>2, Typed DEF OpenDatabase, GoOn
    <3>. QED
      BY <2>1, <3>1 DEF Restoring, BringsBack, Stored
  <2>3. CASE WriteDatabase(t)
    <3>1. /\ work'["srr"].step = "reload" /\ database'.content = work["srr"].rootSi
          /\ work'["srr"].isSamePlatform = same
      BY <1>3, <2>3, Typed DEF WriteDatabase, SaveReturns, GoOn, AfterSave
    <3>. QED
      BY <2>1, <3>1 DEF Restoring, BringsBack, Stored
  <2>. QED
    BY <2>2, <2>3
<1>. QED
  BY <1>2, <1>3

LEMMA RestoringStep ==
  ASSUME ~WritesFail, DInv, DInv', Restoring, [Next]_vars
  PROVE  Restoring'
<1>1. CASE Start
  <2>1. Rests("srr")
    BY <1>1 DEF DInv, RInv, WInv, OneWorks, Start, Restarted
  <2>2. work'["srr"] = work["srr"]
    BY <1>1, Typed DEF Start
  <2>. QED
    BY <2>1, <2>2, RestoringRests DEF Rests
<1>2. CASE Stop \/ Crash
  BY <1>2, RestoringRests, Typed DEF Stop, Crash, Halt, Idle
<1>3. CASE EditConfiguration \/ Read \/ UNCHANGED vars
  BY <1>3, RestoringKept, ReadsOnlyAnswer DEF EditConfiguration, vars
<1>4. CASE Produce
  <2>1. UNCHANGED <<database, backup>> /\ work'["srr"] = work["srr"]
    <3>1. ASSUME NEW c, NEW p, NEW form, Create(c, p, form) \/ UpdateDocument(c, p, form)
          PROVE  UNCHANGED <<database, backup>> /\ work'["srr"] = work["srr"]
      BY <3>1, Typed DEF Create, UpdateDocument, Commit, Answer
    <3>2. ASSUME NEW c, NEW p, NEW id, Delete(c, p, id)
          PROVE  UNCHANGED <<database, backup>> /\ work'["srr"] = work["srr"]
      BY <3>2, Typed DEF Delete, Commit, Answer
    <3>. QED
      BY <1>4, <3>1, <3>2 DEF Produce
  <2>. QED
    BY <2>1, RestoringKept
<1>5. CASE Srr
  <2>1. Listening
    BY <1>5 DEF Srr, SrrSave, SrrRestore
  <2>2. work'["srr"].step \in {"idle", "open"} /\ database' = database
    BY <1>5, <2>1, Typed, RestsBetweenRequests
       DEF Srr, SrrSave, SrrRestore, Answer, Saving, Rests
  <2>3. work'["srr"].step = "open" =>
          BringsBack(backup.content, work["srr"].rootSi, work["srr"].isSamePlatform)'
    BY DEF DInv, Plans
  <2>. QED
    BY <2>2, <2>3 DEF Restoring
<1>6. CASE \E t \in Threads : OpenDatabase(t) \/ WriteDatabase(t)
  BY <1>6, RestoringSave
<1>7. CASE Notify \/ Reply
  BY <1>7, Typed, RestoringKept DEF Notify, Reply, GoOn
<1>8. CASE SrrReload
  BY <1>8, Typed, RestoringRests DEF SrrReload, Idle
<1>. QED
  BY <1>1, <1>2, <1>3, <1>4, <1>5, <1>6, <1>7, <1>8 DEF Next

LEMMA LoadedList ==
  ASSUME NEW content \in StoredWallet, ContentAgrees(content), NEW p \in Portfolios,
         content[p] # NoPortfolio
  PROVE  /\ LoadPortfolio(content[p]) # NoPortfolio
         /\ ListDocuments(LoadPortfolio(content[p])) =
              {Parse(Stored(content, p, i)) : i \in {j \in Ids : Loadable(Stored(content, p, j))}}
<1>1. content[p] \in StoredPortfolio /\ StoredAgree(content[p])
  BY DEF StoredWallet, ContentAgrees
<1>2. LoadPortfolio(content[p]) # NoPortfolio
  BY <1>1, LoadCorrect, NoPortfolioAssumption
<1>3. \A i \in Ids : LoadPortfolio(content[p]).documents[i] =
        IF Loadable(content[p][i]) THEN Parse(content[p][i]) ELSE NoDocument
  BY DEF LoadPortfolio, Index
<1>4. \A i \in Ids : Loadable(content[p][i]) => Parse(content[p][i]) # NoDocument
  BY <1>1, ParseType, NoDocumentAssumption DEF Loadable, StoredPortfolio
<1>5. \A i \in Ids : Stored(content, p, i) = content[p][i]
  BY DEF Stored
<1>. QED
  BY <1>2, <1>3, <1>4, <1>5 DEF ListDocuments, Has

\* SUCCESS during a restore is the answer of its reload.
LEMMA SuccessIsReload ==
  ASSUME DInv, Next, work["srr"].step = "reload", answer'.status = "SUCCESS"
  PROVE  SrrReload /\ ReloadSucceeds
<1>1. ~Listening /\ ~Restarted
  BY RestsBetweenRequests, Typed DEF Rests, DInv, RInv, WInv, OneWorks, Restarted
<1>2. ~Start /\ ~Read /\ ~Srr /\ ~Produce
  BY <1>1, ReadsOnlyAnswer
     DEF Start, Srr, SrrSave, SrrRestore, Produce, Create, UpdateDocument, Delete
<1>3. ~Stop /\ ~Crash /\ ~EditConfiguration /\ ~Notify /\ ~Reply
  BY DEF Stop, Crash, Halt, EditConfiguration, Notify, Reply, NoAnswer
<1>4. \A t \in Threads : ~OpenDatabase(t) /\ ~WriteDatabase(t)
  BY DEF OpenDatabase, WriteDatabase, NoAnswer
<1>5. SrrReload
  BY <1>2, <1>3, <1>4 DEF Next
<1>. QED
  BY <1>5 DEF SrrReload

\* The documents a load brings are those of the stored forms it accepts.
LEMMA LoadedSet ==
  ASSUME NEW content \in StoredWallet, ContentAgrees(content), NEW conf, NEW p \in Portfolios
  PROVE  LET loaded == LoadWallet(conf, content)[p]
         IN  (IF loaded = NoPortfolio THEN {} ELSE ListDocuments(loaded))
               = {Parse(Stored(content, p, i)) : i \in {j \in Ids : Loadable(Stored(content, p, j))}}
<1> DEFINE loaded == LoadWallet(conf, content)[p]
<1>1. CASE content[p] # NoPortfolio
  <2>1. loaded = LoadPortfolio(content[p])
    BY <1>1 DEF LoadWallet
  <2>. QED
    BY <1>1, <2>1, LoadedList
<1>2. CASE content[p] = NoPortfolio
  <2>1. loaded \in {EmptyPortfolio, NoPortfolio} /\ \A i \in Ids : ~Loadable(Stored(content, p, i))
    BY <1>2 DEF LoadWallet, Stored, Loadable
  <2>2. ListDocuments(EmptyPortfolio) = {}
    BY DEF ListDocuments, Has, EmptyPortfolio
  <2>. QED
    BY <2>1, <2>2
<1>. QED
  BY <1>1, <1>2

\* A restore that answers SUCCESS leaves the documents of the backup in memory, the
\* key certificates exactly when its request says that the backup was made on this
\* platform (restoreSRRData, loadPortfolioFromSRR and the reload), when writes do
\* not fail.
THEOREM RestoresBringTheBackup ==
  ASSUME ~WritesFail
  PROVE  Spec => RestoredIsBackup
<1> DEFINE same == work["srr"].isSamePlatform
           Brings ==
      work["srr"].step = "reload" /\ answer'.status = "SUCCESS" =>
        \A p \in Portfolios :
          (IF portfolios'[p] = NoPortfolio THEN {} ELSE ListDocuments(portfolios'[p]))
            = BackupDocuments(p, same)
<1>1. Init => Restoring
  BY DEF Init, Restoring, Idle, Threads
<1>2. DInv /\ DInv' /\ Restoring /\ [Next]_vars => Restoring'
  BY RestoringStep
<1>3. ASSUME DInv, Restoring, Next
      PROVE  Brings
  <2>1. SUFFICES ASSUME work["srr"].step = "reload", answer'.status = "SUCCESS"
                 PROVE  \A p \in Portfolios :
                          (IF portfolios'[p] = NoPortfolio THEN {} ELSE ListDocuments(portfolios'[p]))
                            = BackupDocuments(p, same)
    OBVIOUS
  <2>2. SrrReload /\ ReloadSucceeds
    BY <1>3, <2>1, SuccessIsReload
  <2>3. portfolios' = LoadWallet(confFile.entries, database.content)
    BY <2>2 DEF SrrReload, Reload
  <2>4. \A p \in Portfolios, i \in Ids :
          Stored(database.content, p, i) =
            IF Stored(backup.content, p, i) # NoDocument /\ ~same
               /\ Stored(backup.content, p, i).type = "InternalCertificate"
              THEN NoDocument ELSE Stored(backup.content, p, i)
    BY <1>3, <2>1 DEF Restoring, BringsBack
  <2>5. ASSUME NEW p \in Portfolios
        PROVE  {Parse(Stored(database.content, p, i)) :
                  i \in {j \in Ids : Loadable(Stored(database.content, p, j))}}
                 = BackupDocuments(p, same)
    <3>1. BackupDocuments(p, same) =
            {d \in {Parse(Stored(backup.content, p, i)) :
                      i \in {j \in Ids : Loadable(Stored(backup.content, p, j))}} :
               same \/ d.type # "InternalCertificate"}
      <4>1. CASE backup.content[p] = NoPortfolio
        BY <4>1 DEF BackupDocuments, Stored, Loadable
      <4>2. CASE backup.content[p] # NoPortfolio
        BY <1>3, <4>2, Typed, LoadedList DEF BackupDocuments
      <4>. QED
        BY <4>1, <4>2
    <3>2. \A form : Parse(form).type = form.type
      BY DEF Parse
    <3>3. \A form : Loadable(form) => form # NoDocument
      BY DEF Loadable
    <3>4. ASSUME NEW i \in Ids, Loadable(Stored(database.content, p, i))
          PROVE  /\ Stored(backup.content, p, i) = Stored(database.content, p, i)
                 /\ same \/ Stored(database.content, p, i).type # "InternalCertificate"
      BY <2>4, <3>3, <3>4
    <3>5. ASSUME NEW i \in Ids, Loadable(Stored(backup.content, p, i)),
                 same \/ Stored(backup.content, p, i).type # "InternalCertificate"
          PROVE  Stored(database.content, p, i) = Stored(backup.content, p, i)
      BY <2>4, <3>5
    <3>. QED
      BY <3>1, <3>2, <3>4, <3>5
  <2>6. ASSUME NEW p \in Portfolios
        PROVE  (IF portfolios'[p] = NoPortfolio THEN {} ELSE ListDocuments(portfolios'[p]))
                 = {Parse(Stored(database.content, p, i)) :
                      i \in {j \in Ids : Loadable(Stored(database.content, p, j))}}
    BY <1>3, <2>3, Typed, LoadedSet
  <2>. QED
    BY <2>5, <2>6
<1>. QED
  <2> HIDE DEF Brings
  <2>1. Spec => []Restoring
    BY <1>1, <1>2, DurableInvariance, PTL DEF Spec
  <2>2. Spec => [][Brings]_vars
    BY <1>3, <2>1, DurableInvariance, PTL DEF Spec
  <2>. QED
    BY <2>2 DEF Brings, RestoredIsBackup

-----------------------------------------------------------------------------
(* The refinement *)

LEMMA NoWriter ==
  ASSUME \A t \in Threads : work[t].step # "write"
  PROVE  Writing = {} /\ DurableContent = database.content
BY DEF Writing, DurableContent

LEMMA OneWriter ==
  ASSUME DInv, NEW t \in Threads, work[t].step = "write"
  PROVE  Writing = {t} /\ DurableContent = work[t].rootSi /\ database.file = "torn"
<1>1. \A u \in Threads : work[u].step = "write" => u = t
  BY OnlyOneSaves DEF Saves, Rests
<1>2. Writing = {t} /\ database.file = "torn"
  BY <1>1 DEF Writing, DInv, Files
<1>. QED
  BY <1>2 DEF DurableContent

\* The three variables of WalletStore.
Store    == DocumentsOf(DurableContent)
Snapshot == DocumentsOf(backup.content)
Lost     == database.file = "torn" /\ Writing = {}

StoreStep == [Durable!StoreNext]_Durable!storeVars

LEMMA Stutters ==
  ASSUME DurableContent' = DurableContent, UNCHANGED backup, Lost' <=> Lost
  PROVE  StoreStep
BY DEF StoreStep, Durable!storeVars, DocumentsOf, Lost

\* Between saves nothing but the snapshot can change.
LEMMA StuttersBetweenSaves ==
  ASSUME \A t \in Threads : work[t].step # "write" /\ work'[t].step # "write",
         UNCHANGED <<database, backup>>
  PROVE  StoreStep
<1>1. Writing = {} /\ DurableContent = database.content
  BY NoWriter
<1>2. Writing' = {} /\ DurableContent' = database'.content
  BY DEF Writing, DurableContent
<1>. QED
  BY <1>1, <1>2, Stutters DEF Lost

LEMMA StuttersKept ==
  ASSUME UNCHANGED <<database, work, backup>>
  PROVE  StoreStep
<1>1. Writing' = Writing /\ DurableContent' = DurableContent
  BY DEF Writing, DurableContent
<1>. QED
  BY <1>1, Stutters DEF Lost

\* A request changes one document: the names stay unique and types do not change.
LEMMA RefinesOpenSocket ==
  ASSUME DInv, DInv', OpenDatabase("socket"), ~WritesFail
  PROVE  StoreStep
<1> DEFINE old == database.content
           new == work["socket"].rootSi
<1>1. /\ "socket" \in Threads /\ work["socket"].step = "open"
      /\ process \in {"starting", "serving"}
      /\ \A t \in Threads : work[t].step # "write"
  BY Typed, OnlyOneSaves DEF OpenDatabase, Saves, Rests
<1>2. /\ Writing = {} /\ DurableContent = old /\ ~Lost
  BY <1>1, NoWriter DEF Lost, DInv, Files
<1>3. /\ work'["socket"].step = "write" /\ work'["socket"].rootSi = new
      /\ UNCHANGED backup
  BY Typed DEF OpenDatabase, GoOn
<1>4. \A t \in Threads : t # "socket" => work'[t].step # "write"
  BY <1>1, Typed DEF OpenDatabase, GoOn
<1>5. Writing' = {"socket"} /\ DurableContent' = new /\ ~Lost'
  <2>1. Writing' = {"socket"}
    BY <1>1, <1>3, <1>4 DEF Writing
  <2>2. database'.file = "torn"
    BY Typed DEF OpenDatabase
  <2>. QED
    BY <1>3, <2>1, <2>2 DEF DurableContent, Lost
<1>6. PICK p \in Portfolios, i \in Ids :
        /\ \A q \in Portfolios, j \in Ids : q # p \/ j # i => Stored(new, q, j) = Stored(old, q, j)
        /\ Stored(new, p, i) # NoDocument /\ Stored(old, p, i) # NoDocument
             => Stored(old, p, i).type = Stored(new, p, i).type
  BY <1>1 DEF DInv, Plans, ChangesOne
<1>7. old \in StoredWallet /\ new \in StoredWallet /\ ContentAgrees(new)
  BY <1>1, Typed
<1>8. /\ Store = [q \in Portfolios |-> [j \in Ids |-> Stored(old, q, j)]]
      /\ Store' = [q \in Portfolios |-> [j \in Ids |-> Stored(new, q, j)]]
  BY <1>2, <1>5, <1>7, DocumentsAreStored DEF Store, DocumentsOf
<1>9. Store' = [Store EXCEPT ![p][i] = Store'[p][i]]
  BY <1>6, <1>8
<1>10. Store'[p][i] # NoDocument =>
         /\ Durable!Loadable(Store'[p][i])
         /\ Store[p][i] # NoDocument => Store[p][i].type = Store'[p][i].type
  <2>1. Canonical(new)
    BY <1>1, Typed, SerializedCanonical DEF DInv, RInv, WInv, WritesCurrent, Saves
  <2>2. Store'[p][i] = Stored(new, p, i) /\ Store[p][i] = Stored(old, p, i)
    BY <1>8
  <2>3. Stored(new, p, i) # NoDocument => Durable!Loadable(Stored(new, p, i))
    BY <2>1, SameLoadable DEF Canonical
  <2>. QED
    BY <1>6, <2>2, <2>3
<1>11. Durable!UniqueNames(Store'[p])
  <2>1. Store'[p] = [j \in Ids |-> Stored(new, p, j)]
    BY <1>8
  <2>2. ASSUME NEW j \in Ids, NEW k \in Ids, Stored(new, p, j) # NoDocument,
               Stored(new, p, k) # NoDocument, Stored(new, p, j).name = Stored(new, p, k).name
        PROVE  j = k
    BY <1>7, <2>2 DEF ContentAgrees, StoredAgree, Stored
  <2>. QED
    BY <2>1, <2>2 DEF Durable!UniqueNames
<1>12. Durable!Change(p, i)
  BY <1>2, <1>3, <1>5, <1>9, <1>10, <1>11 DEF Durable!Change, Store, Lost, DocumentsOf
<1>. QED
  BY <1>12 DEF StoreStep, Durable!StoreNext

\* The first save of the process writes what the database holds.
LEMMA RefinesOpenMain ==
  ASSUME DInv, OpenDatabase("main"), ~WritesFail
  PROVE  StoreStep
<1> DEFINE old == database.content
           new == work["main"].rootSi
<1>1. /\ "main" \in Threads /\ work["main"].step = "open"
      /\ process \in {"starting", "serving"}
      /\ \A t \in Threads : work[t].step # "write"
  BY Typed, OnlyOneSaves DEF OpenDatabase, Saves, Rests
<1>2. /\ Writing = {} /\ DurableContent = old /\ ~Lost
  BY <1>1, NoWriter DEF Lost, DInv, Files
<1>3. /\ work'["main"].step = "write" /\ work'["main"].rootSi = new
      /\ UNCHANGED backup /\ database'.file = "torn"
      /\ \A t \in Threads : t # "main" => work'[t].step # "write"
  BY <1>1, Typed DEF OpenDatabase, GoOn
<1>4. Writing' = {"main"}
  BY <1>1, <1>3 DEF Writing
<1>5. DurableContent' = new /\ ~Lost'
  BY <1>3, <1>4 DEF DurableContent, Lost
<1>6. DocumentsOf(new) = DocumentsOf(old)
  BY <1>1, Typed, DocumentsAreStored DEF DInv, Plans, ChangesNothing
<1>. QED
  BY <1>2, <1>3, <1>5, <1>6 DEF StoreStep, Durable!storeVars, DocumentsOf, Lost

\* A restore puts the snapshot back, with the key certificates or without.
LEMMA RefinesOpenSrr ==
  ASSUME DInv, OpenDatabase("srr"), ~WritesFail
  PROVE  StoreStep
<1> DEFINE old == database.content
           new == work["srr"].rootSi
<1>1. /\ "srr" \in Threads /\ work["srr"].step = "open"
      /\ process \in {"starting", "serving"}
      /\ \A t \in Threads : work[t].step # "write"
  BY Typed, OnlyOneSaves DEF OpenDatabase, Saves, Rests
<1>2. /\ Writing = {} /\ DurableContent = old /\ ~Lost
  BY <1>1, NoWriter DEF Lost, DInv, Files
<1>3. /\ work'["srr"].step = "write" /\ work'["srr"].rootSi = new
      /\ UNCHANGED backup /\ database'.file = "torn"
      /\ \A t \in Threads : t # "srr" => work'[t].step # "write"
  BY <1>1, Typed DEF OpenDatabase, GoOn
<1>4. Writing' = {"srr"}
  BY <1>1, <1>3 DEF Writing
<1>5. DurableContent' = new /\ ~Lost'
  BY <1>3, <1>4 DEF DurableContent, Lost
<1> DEFINE same == work["srr"].isSamePlatform
<1>6. \A p \in Portfolios, i \in Ids :
        Stored(new, p, i) =
          IF Stored(backup.content, p, i) # NoDocument /\ ~same
             /\ Stored(backup.content, p, i).type = "InternalCertificate"
            THEN NoDocument ELSE Stored(backup.content, p, i)
  BY <1>1 DEF DInv, Plans, BringsBack
<1>7. /\ Snapshot = [p \in Portfolios |-> [i \in Ids |-> Stored(backup.content, p, i)]]
      /\ DocumentsOf(new) = [p \in Portfolios |-> [i \in Ids |-> Stored(new, p, i)]]
  BY <1>1, Typed, DocumentsAreStored DEF Snapshot
<1>8. \/ DocumentsOf(new) = Snapshot
      \/ DocumentsOf(new) =
           [p \in Portfolios |-> [i \in Ids |->
              IF Snapshot[p][i] # NoDocument /\ Snapshot[p][i].type = "InternalCertificate"
                THEN NoDocument ELSE Snapshot[p][i]]]
  <2>1. CASE same
    BY <1>6, <1>7, <2>1
  <2>2. CASE ~same
    BY <1>6, <1>7, <2>2
  <2>. QED
    BY <2>1, <2>2
<1>9. Durable!Restore
  BY <1>2, <1>3, <1>5, <1>8 DEF Durable!Restore, Snapshot, Lost, DocumentsOf
<1>. QED
  BY <1>9 DEF StoreStep, Durable!StoreNext

LEMMA RefinesWrite ==
  ASSUME DInv, NEW t \in Threads, WriteDatabase(t), ~WritesFail
  PROVE  StoreStep
<1>1. /\ Writing = {t} /\ DurableContent = work[t].rootSi
      /\ \A u \in Threads : u # t => work[u].step # "write"
  BY OneWriter, OnlyOneSaves DEF WriteDatabase, Saves, Rests
<1>2. /\ database' = [file |-> "written", content |-> work[t].rootSi] /\ UNCHANGED backup
      /\ \A u \in Threads : work'[u].step # "write"
  BY <1>1, Typed DEF WriteDatabase, SaveReturns, GoOn, AfterSave
<1>3. Writing' = {}
  BY <1>2 DEF Writing
<1>4. DurableContent' = work[t].rootSi /\ ~Lost'
  BY <1>2, <1>3 DEF DurableContent, Lost
<1>. QED
  BY <1>1, <1>2, <1>4, Stutters DEF Lost

\* A process that ends between the truncation and the write loses the store.
LEMMA RefinesHalt ==
  ASSUME DInv, Halt
  PROVE  StoreStep
<1>1. UNCHANGED <<database, backup>> /\ \A t \in Threads : work'[t].step # "write"
  BY DEF Halt, Idle
<1>2. CASE \A t \in Threads : work[t].step # "write"
  BY <1>1, <1>2, StuttersBetweenSaves
<1>3. CASE \E t \in Threads : work[t].step = "write"
  <2>1. database.file = "torn" /\ database.content = NoPortfolios
    BY <1>3 DEF DInv, Files
  <2>2. Writing' = {}
    BY <1>1 DEF Writing
  <2>3. DurableContent' = NoPortfolios /\ Lost'
    BY <1>1, <2>1, <2>2 DEF DurableContent, Lost
  <2>4. DocumentsOf(NoPortfolios) = Durable!NoDocuments
    BY DEF DocumentsOf, NoPortfolios, Durable!NoDocuments
  <2>5. Durable!Lose
    BY <1>1, <2>3, <2>4 DEF Durable!Lose, DocumentsOf, Lost
  <2>. QED
    BY <2>5 DEF StoreStep, Durable!StoreNext
<1>. QED
  BY <1>2, <1>3

\* A snapshot is the store, or empty when a reload has failed before.
LEMMA RefinesSrrSave ==
  ASSUME DInv, NEW passphrase, SrrSave(passphrase)
  PROVE  StoreStep
<1>1. CASE Answer("FAILED", {})
  BY <1>1, StuttersKept DEF Answer
<1>2. CASE backup'.content = SerializeWallet(portfolios) /\ UNCHANGED <<database, work>>
  <2>1. /\ \A t \in Threads : work[t].step # "write"
        /\ database.file # "torn" /\ (portfolios = NoPortfolios \/ Found)
    BY RestsBetweenRequests DEF SrrSave, Rests, DInv, RInv, Recoverable, Listening
  <2>2. DurableContent = database.content /\ DurableContent' = DurableContent
        /\ ~Lost /\ ~Lost'
    BY <1>2, <2>1, NoWriter DEF Writing, DurableContent, Lost
  <2>3. DocumentsOf(backup'.content) \in {Store, Durable!NoDocuments}
    <3>1. CASE portfolios = NoPortfolios
      BY <1>2, <3>1 DEF SerializeWallet, NoPortfolios, DocumentsOf, Durable!NoDocuments
    <3>2. CASE Found
      <4>1. SerializeWallet(portfolios) \in StoredWallet
        BY Typed, SerializeWalletCorrect
      <4>. QED
        BY <1>2, <2>2, <3>2, <4>1, Typed, FoundIsStored, DocumentsAreStored DEF Store
    <3>. QED
      BY <2>1, <3>1, <3>2
  <2>4. Durable!Save
    BY <2>2, <2>3 DEF Durable!Save, Store, DocumentsOf, Lost
  <2>. QED
    BY <2>4 DEF StoreStep, Durable!StoreNext
<1>. QED
  BY <1>1, <1>2 DEF SrrSave

\* Requests, and the steps of a thread that neither truncate nor write.
LEMMA RefinesListening ==
  ASSUME DInv, DInv', Produce \/ (\E x \in Passphrases, same \in BOOLEAN : SrrRestore(x, same))
  PROVE  StoreStep
<1>1. Listening /\ UNCHANGED <<database, backup>> /\ (work' = work \/ lock' # "none")
  <2>1. ASSUME NEW c, NEW p, NEW form, Create(c, p, form) \/ UpdateDocument(c, p, form)
        PROVE  Listening /\ UNCHANGED <<database, backup>> /\ (work' = work \/ lock' # "none")
    BY <2>1 DEF Create, UpdateDocument, Commit, Answer
  <2>2. ASSUME NEW c, NEW p, NEW id, Delete(c, p, id)
        PROVE  Listening /\ UNCHANGED <<database, backup>> /\ (work' = work \/ lock' # "none")
    BY <2>2 DEF Delete, Commit, Answer
  <2>3. CASE \E x \in Passphrases, same \in BOOLEAN : SrrRestore(x, same)
    BY <2>3 DEF SrrRestore, Answer
  <2>. QED
    BY <2>1, <2>2, <2>3 DEF Produce
<1>2. database.file # "torn" /\ \A t \in Threads : work[t].step # "write"
  BY <1>1, RestsBetweenRequests DEF Rests
<1>3. \A t \in Threads : work'[t].step # "write"
  BY <1>1, <1>2 DEF DInv, Files
<1>. QED
  BY <1>1, <1>2, <1>3, StuttersBetweenSaves

LEMMA RefinesEnd ==
  ASSUME DInv, Notify \/ Reply \/ SrrReload
  PROVE  StoreStep
<1>1. UNCHANGED <<database, backup>>
  BY DEF Notify, Reply, SrrReload
<1>2. \A t \in Threads : work[t].step # "write"
  <2>1. CASE Notify \/ Reply
    <3>1. ~Rests("socket") /\ work["socket"].step # "write"
      BY <2>1 DEF Notify, Reply, Rests
    <3>. QED
      BY <3>1, Typed, OnlyOneSaves DEF Saves
  <2>2. CASE SrrReload
    <3>1. ~Rests("srr") /\ work["srr"].step # "write"
      BY <2>2 DEF SrrReload, Rests
    <3>. QED
      BY <3>1, Typed, OnlyOneSaves DEF Saves
  <2>. QED
    BY <2>1, <2>2
<1>3. \A t \in Threads : work'[t].step # "write"
  BY <1>2, Typed DEF Notify, Reply, SrrReload, GoOn, Idle
<1>. QED
  BY <1>1, <1>2, <1>3, StuttersBetweenSaves

LEMMA RefinesStart ==
  ASSUME DInv, Start
  PROVE  StoreStep
<1>1. /\ UNCHANGED <<database, backup>> /\ \A t \in Threads : Rests(t)
  BY DEF DInv, RInv, WInv, OneWorks, Start, Restarted, Threads, Rests
<1>2. \A t \in Threads : work'[t].step \in {"idle", "open"}
  BY <1>1, Typed DEF Start, Saving, Rests
<1>. QED
  BY <1>1, <1>2, StuttersBetweenSaves DEF Rests

LEMMA RefinesNext ==
  ASSUME ~WritesFail, DInv, DInv', [Next]_vars
  PROVE  StoreStep
<1>1. CASE Start \/ Stop \/ Crash
  BY <1>1, RefinesStart, RefinesHalt DEF Stop, Crash
<1>2. CASE EditConfiguration \/ Read \/ UNCHANGED vars
  BY <1>2, StuttersKept, ReadsOnlyAnswer DEF EditConfiguration, vars
<1>3. CASE Produce
  BY <1>3, RefinesListening
<1>4. CASE Srr
  BY <1>4, InputsAssumption, RefinesListening, RefinesSrrSave DEF Srr
<1>5. CASE \E t \in Threads : OpenDatabase(t) \/ WriteDatabase(t)
  BY <1>5, RefinesOpenMain, RefinesOpenSocket, RefinesOpenSrr, RefinesWrite DEF Threads
<1>6. CASE Notify \/ Reply \/ SrrReload
  BY <1>6, RefinesEnd
<1>. QED
  BY <1>1, <1>2, <1>3, <1>4, <1>5, <1>6 DEF Next

\* Over any number of requests, restores, restarts and crashes the database goes
\* from one set of documents to the next as WalletStore says (SecurityWallet's
\* save and reload, Portfolio's add, update and remove, restoreSRRData), when
\* writes do not fail.
THEOREM WalletImplementsStore ==
  ASSUME ~WritesFail
  PROVE  Spec => ImplementsStore
<1>1. Init => Durable!StoreInit
  <2> SUFFICES ASSUME Init PROVE Durable!StoreInit
    OBVIOUS
  <2>1. /\ database = [file |-> "missing", content |-> NoPortfolios]
        /\ backup.content = NoPortfolios /\ \A t \in Threads : work[t].step # "write"
    BY DEF Init, Idle
  <2>2. DurableContent = NoPortfolios /\ backup.content = NoPortfolios /\ ~Lost
    BY <2>1, NoWriter DEF Lost
  <2>3. DocumentsOf(NoPortfolios) = Durable!NoDocuments
    BY DEF DocumentsOf, NoPortfolios, Durable!NoDocuments
  <2>. QED
    BY <2>2, <2>3 DEF Durable!StoreInit, Lost
<1>2. DInv /\ DInv' /\ [Next]_vars => [Durable!StoreNext]_Durable!storeVars
  BY RefinesNext DEF StoreStep
<1>. QED
  BY <1>1, <1>2, DurableInvariance, PTL DEF Spec, ImplementsStore, Durable!StoreSpec

=============================================================================
