--------------------------- MODULE PortfolioProofs ---------------------------
(***************************************************************************)
(* Facts about documents and portfolios, for every set of ids, names,      *)
(* usages and texts: what each operation returns, and that each keeps the  *)
(* two maps of a portfolio in agreement.                                   *)
(***************************************************************************)
EXTENDS Portfolio, TLAPS

\* Reading, writing and overwriting documents stay within their types
\* (Document::operator>>=, fillSerializationInfoWithSecret, WithoutSecret).
LEMMA UpdatePrivateType ==
  ASSUME NEW type, NEW sec \in Secret, NEW form \in Form
  PROVE  UpdatePrivate(type, sec, form) \in Secret
BY TextsAssumption DEF UpdatePrivate, Secret, Form, Values

LEMMA ParseType ==
  ASSUME NEW form \in Form, Parseable(form)
  PROVE  Parse(form) \in Document
<1>1. NoSecret \in Secret
  BY DEF NoSecret, Secret, Values
<1>2. UpdatePrivate(form.type, NoSecret, form) \in Secret
  BY <1>1, UpdatePrivateType
<1>. QED
  BY <1>2 DEF Parse, Parseable, Document, Form

LEMMA OverwriteType ==
  ASSUME NEW doc \in Document, NEW form \in Form
  PROVE  /\ Overwrite(doc, form) \in Document
         /\ Overwrite(doc, form).id = doc.id
         /\ Overwrite(doc, form).name = form.name
         /\ Overwrite(doc, form).usages = form.usages
<1>1. UpdatePrivate(doc.type, doc.sec, form) \in Secret
  BY UpdatePrivateType DEF Document
<1>. QED
  BY <1>1 DEF Overwrite, Document, Form

LEMMA SerializedType ==
  ASSUME NEW doc \in Document
  PROVE  WithSecret(doc) \in Form /\ WithoutSecret(doc) \in Form
<1>1. FillPrivate(doc) \in [Fields -> Values \cup {Absent}]
  BY DEF FillPrivate, Document, Secret
<1>. QED
  BY <1>1 DEF WithSecret, WithoutSecret, Document, Form

\* A document keeps its secrets when a client reads it without them, changes its
\* public part and sends it back: overwriting a document with a form that has no
\* private entry, or one that sends no field, leaves every secret as it was
\* (updatePrivateDocFromSerializationInfo skips what is not sent).
THEOREM UnsentSecretsAreKept ==
  ASSUME NEW doc \in Document, NEW form \in Form,
         ~form.private \/ \A f \in Fields : form.sent[f] = Absent
  PROVE  Overwrite(doc, form).sec = doc.sec
<1>1. UpdatePrivate(doc.type, doc.sec, form) = doc.sec
  BY DEF UpdatePrivate, Document, Secret
<1>. QED
  BY <1>1 DEF Overwrite, Document

\* What the database holds of a document reads back as the document, but for
\* containPrivateData, which becomes true (save, then loadPortfolioVersion1).  It
\* needs the fields that are not of the document's type to be empty.
TypedSecrets(doc) == \A f \in Fields : f \notin SecretFields(doc.type) => doc.sec[f] = Empty

ReadBack(doc) ==
  [id |-> doc.id, name |-> doc.name, type |-> doc.type, usages |-> doc.usages,
   pub |-> doc.pub, sec |-> doc.sec, containPrivateData |-> TRUE]

THEOREM SerializedReadsBack ==
  ASSUME NEW doc \in Document, TypedSecrets(doc)
  PROVE  Parse(WithSecret(doc)) = ReadBack(doc)
<1> DEFINE form == WithSecret(doc)
<1>1. UpdatePrivate(doc.type, NoSecret, form) = doc.sec
  BY TextsAssumption
     DEF UpdatePrivate, NoSecret, TypedSecrets, WithSecret, FillPrivate, Document, Secret, Values
<1>2. Parse(form).sec = doc.sec
  BY <1>1 DEF Parse, WithSecret
<1>. QED
  BY <1>2 DEF ReadBack, Parse, WithSecret

\* A document that is valid stays valid when it is read back, so a reload never
\* finds a stored document invalid: validate() asks no more of a document with a
\* private part than of one without.
THEOREM ValidReadsBack ==
  ASSUME NEW doc \in Document, Valid(doc)
  PROVE  Valid(ReadBack(doc))
BY DEF ReadBack, Valid, Snmpv3Valid, Snmpv1Valid, UserAndPasswordValid,
       ExternalCertificateValid, InternalCertificateValid, Document

-----------------------------------------------------------------------------
\* Put, and with it add and update, stays within the type of portfolios.
LEMMA PutType ==
  ASSUME NEW portfolio \in PortfolioRecord, NEW doc \in Document
  PROVE  Put(portfolio, doc) \in PortfolioRecord
BY DEF Put, PortfolioRecord, DocumentMap, NameMap

LEMMA AddCorrect ==
  ASSUME NEW portfolio \in PortfolioRecord, NEW doc \in Document, NEW id \in FreshIds(portfolio),
         IndexAgree(portfolio), Addable(portfolio, doc)
  PROVE  /\ Add(portfolio, doc, id) \in PortfolioRecord
         /\ IndexAgree(Add(portfolio, doc, id))
<1> DEFINE new == [doc EXCEPT !.id = id]
<1>1. id \in Ids /\ ~Has(portfolio, id)
  BY DEF FreshIds
<1>2. new \in Document /\ new.id = id /\ new.name = doc.name
  BY <1>1 DEF Document
<1>3. Add(portfolio, doc, id) \in PortfolioRecord
  BY <1>2, PutType DEF Add
<1>4. Add(portfolio, doc, id) =
        [documents        |-> [portfolio.documents EXCEPT ![id] = new],
         mapNameDocuments |-> [portfolio.mapNameDocuments EXCEPT ![doc.name] = new]]
  BY <1>2 DEF Add, Put
<1> HIDE DEF new
<1>5. doc.name \in Names /\ new # NoDocument
  BY <1>2, NoDocumentAssumption DEF Document
<1>6. IndexAgree(Add(portfolio, doc, id))
  BY <1>1, <1>2, <1>4, <1>5
     DEF IndexAgree, Has, HasName, Addable, PortfolioRecord, DocumentMap, NameMap, Document
<1>. QED
  BY <1>3, <1>6

LEMMA RemoveCorrect ==
  ASSUME NEW portfolio \in PortfolioRecord, NEW id \in Ids, Has(portfolio, id),
         IndexAgree(portfolio)
  PROVE  /\ Remove(portfolio, id) \in PortfolioRecord
         /\ IndexAgree(Remove(portfolio, id))
<1>1. portfolio.documents[id] \in Document
  BY DEF PortfolioRecord, DocumentMap, Has
<1>2. portfolio.documents[id].name \in Names
  BY <1>1 DEF Document
<1>3. Remove(portfolio, id) \in PortfolioRecord
  BY DEF Remove, PortfolioRecord, DocumentMap, NameMap
<1>4. IndexAgree(Remove(portfolio, id))
  BY <1>1, <1>2 DEF IndexAgree, Remove, Has, HasName, PortfolioRecord, DocumentMap, NameMap, Document
<1>. QED
  BY <1>3, <1>4

LEMMA UpdateCorrect ==
  ASSUME NEW portfolio \in PortfolioRecord, NEW doc \in Document,
         IndexAgree(portfolio), Updatable(portfolio, doc)
  PROVE  /\ Update(portfolio, doc) \in PortfolioRecord
         /\ IndexAgree(Update(portfolio, doc))
<1> DEFINE old == portfolio.documents[doc.id]
           names == IF doc.name # old.name
                      THEN [portfolio.mapNameDocuments EXCEPT ![old.name] = NoDocument]
                      ELSE portfolio.mapNameDocuments
<1>1. doc.id \in Ids /\ doc.name \in Names /\ doc # NoDocument
  BY NoDocumentAssumption DEF Document
<1>2. old \in Document /\ old # NoDocument
  BY <1>1, NoDocumentAssumption DEF Updatable, Has, PortfolioRecord, DocumentMap
<1>3. old.name \in Names
  BY <1>2 DEF Document
<1>4. names \in NameMap
  BY DEF PortfolioRecord, NameMap
<1>5. [portfolio EXCEPT !.mapNameDocuments[old.name] =
          IF doc.name # old.name THEN NoDocument ELSE @]
        = [documents |-> portfolio.documents, mapNameDocuments |-> names]
  BY <1>3 DEF PortfolioRecord, NameMap
<1>6. Update(portfolio, doc) =
        [documents        |-> [portfolio.documents EXCEPT ![doc.id] = doc],
         mapNameDocuments |-> [names EXCEPT ![doc.name] = doc]]
  BY <1>5 DEF Update, Put
<1>7. Update(portfolio, doc) \in PortfolioRecord
  <2> DEFINE renamed == [documents |-> portfolio.documents, mapNameDocuments |-> names]
  <2>1. renamed \in PortfolioRecord
    BY <1>4 DEF PortfolioRecord
  <2>2. Update(portfolio, doc) = Put(renamed, doc)
    BY <1>5 DEF Update
  <2> HIDE DEF renamed
  <2>. QED
    BY <2>1, <2>2, PutType
<1>8. IndexAgree(Update(portfolio, doc))
  <2>1. CASE doc.name = old.name
    BY <1>1, <1>2, <1>3, <1>6, <2>1, SMTT(20)
       DEF IndexAgree, Updatable, Has, HasName, PortfolioRecord, DocumentMap, NameMap, Document
  <2>2. CASE doc.name # old.name
    BY <1>1, <1>2, <1>3, <1>6, <2>2, SMTT(20)
       DEF IndexAgree, Updatable, Has, HasName, PortfolioRecord, DocumentMap, NameMap, Document
  <2>. QED
    BY <2>1, <2>2
<1>. QED
  BY <1>7, <1>8

-----------------------------------------------------------------------------
\* The loads: each rebuilds both maps from the stored documents
\* (loadPortfolioVersion1, loadPortfolioSRRVersion1).
LEMMA IndexCorrect ==
  ASSUME NEW docs \in DocumentMap, StoredAgree(docs)
  PROVE  Index(docs) \in PortfolioRecord /\ IndexAgree(Index(docs))
<1> DEFINE Named(n, i) == docs[i] # NoDocument /\ docs[i].name = n
<1>1. ASSUME NEW n \in Names, NEW i \in Ids, Named(n, i)
      PROVE  (CHOOSE j \in Ids : Named(n, j)) = i
  BY <1>1 DEF StoredAgree
<1>2. ASSUME NEW n \in Names, NEW i \in Ids, Named(n, i)
      PROVE  Index(docs).mapNameDocuments[n] = docs[i]
  BY <1>1, <1>2 DEF Index
<1>3. ASSUME NEW n \in Names, \A i \in Ids : ~Named(n, i)
      PROVE  Index(docs).mapNameDocuments[n] = NoDocument
  BY <1>3 DEF Index
<1>4. Index(docs).documents = docs
  BY DEF Index
<1>5. \A n \in Names : Index(docs).mapNameDocuments[n] \in Document \cup {NoDocument}
  BY <1>2, <1>3 DEF DocumentMap
<1>6. Index(docs) \in PortfolioRecord
  BY <1>5 DEF Index, PortfolioRecord, DocumentMap, NameMap
<1>7. ASSUME NEW i \in Ids, docs[i] # NoDocument
      PROVE  docs[i].id = i /\ Index(docs).mapNameDocuments[docs[i].name] = docs[i]
  <2>1. docs[i].name \in Names
    BY <1>7 DEF DocumentMap, Document
  <2>. QED
    BY <1>2, <1>7, <2>1 DEF StoredAgree
<1>8. ASSUME NEW n \in Names, Index(docs).mapNameDocuments[n] # NoDocument
      PROVE  LET doc == Index(docs).mapNameDocuments[n]
             IN  doc.name = n /\ docs[doc.id] = doc
  <2>1. PICK i \in Ids : Named(n, i)
    BY <1>3, <1>8
  <2>. QED
    BY <1>2, <2>1 DEF StoredAgree
<1>9. IndexAgree(Index(docs))
  BY <1>4, <1>7, <1>8 DEF IndexAgree, Has, HasName
<1>. QED
  BY <1>6, <1>9

LEMMA KeptCorrect ==
  ASSUME NEW stored \in StoredPortfolio, StoredAgree(stored), NEW kept \in SUBSET Ids,
         \A i \in kept : Loadable(stored[i])
  PROVE  LET docs == [i \in Ids |-> IF i \in kept THEN Parse(stored[i]) ELSE NoDocument]
         IN  Index(docs) \in PortfolioRecord /\ IndexAgree(Index(docs))
<1> DEFINE docs == [i \in Ids |-> IF i \in kept THEN Parse(stored[i]) ELSE NoDocument]
<1>1. ASSUME NEW i \in Ids, i \in kept
      PROVE  stored[i] # NoDocument /\ docs[i] \in Document
  BY <1>1, ParseType DEF Loadable, StoredPortfolio
<1>2. ASSUME NEW i \in Ids, docs[i] # NoDocument
      PROVE  /\ i \in kept /\ stored[i] # NoDocument
             /\ docs[i].id = stored[i].id /\ docs[i].name = stored[i].name
  BY <1>1, <1>2 DEF Parse
<1>3. docs \in DocumentMap
  BY <1>1 DEF DocumentMap
<1> HIDE DEF docs
<1>4. StoredAgree(docs)
  BY <1>2 DEF StoredAgree
<1>5. Index(docs) \in PortfolioRecord /\ IndexAgree(Index(docs))
  BY <1>3, <1>4, IndexCorrect
<1>. QED
  BY <1>5 DEF docs

LEMMA LoadCorrect ==
  ASSUME NEW stored \in StoredPortfolio, StoredAgree(stored)
  PROVE  LoadPortfolio(stored) \in PortfolioRecord /\ IndexAgree(LoadPortfolio(stored))
<1> DEFINE kept == {i \in Ids : Loadable(stored[i])}
           docs == [i \in Ids |-> IF i \in kept THEN Parse(stored[i]) ELSE NoDocument]
<1>1. Index(docs) \in PortfolioRecord /\ IndexAgree(Index(docs))
  BY KeptCorrect
<1>2. docs = [i \in Ids |-> IF Loadable(stored[i]) THEN Parse(stored[i]) ELSE NoDocument]
  OBVIOUS
<1>. QED
  BY <1>1, <1>2 DEF LoadPortfolio

LEMMA LoadFromSRRCorrect ==
  ASSUME NEW stored \in StoredPortfolio, StoredAgree(stored), NEW isSameInstance \in BOOLEAN
  PROVE  /\ LoadPortfolioFromSRR(stored, isSameInstance) \in PortfolioRecord
         /\ IndexAgree(LoadPortfolioFromSRR(stored, isSameInstance))
<1> DEFINE Kept(i) == /\ Loadable(stored[i])
                      /\ isSameInstance \/ stored[i].type # "InternalCertificate"
           kept == {i \in Ids : Kept(i)}
           docs == [i \in Ids |-> IF i \in kept THEN Parse(stored[i]) ELSE NoDocument]
<1>1. Index(docs) \in PortfolioRecord /\ IndexAgree(Index(docs))
  BY KeptCorrect
<1>2. docs = [i \in Ids |-> IF Kept(i) THEN Parse(stored[i]) ELSE NoDocument]
  OBVIOUS
<1>. QED
  BY <1>1, <1>2 DEF LoadPortfolioFromSRR

\* What a save writes of a portfolio whose maps agree can be loaded as one.
LEMMA SerializeCorrect ==
  ASSUME NEW portfolio \in PortfolioRecord, IndexAgree(portfolio)
  PROVE  SerializePortfolio(portfolio) \in StoredPortfolio /\ StoredAgree(SerializePortfolio(portfolio))
<1> DEFINE stored == SerializePortfolio(portfolio)
<1>1. ASSUME NEW i \in Ids, Has(portfolio, i)
      PROVE  /\ portfolio.documents[i] \in Document
             /\ stored[i] \in Form
             /\ stored[i].id = portfolio.documents[i].id
             /\ stored[i].name = portfolio.documents[i].name
  <2>1. portfolio.documents[i] \in Document
    BY <1>1 DEF PortfolioRecord, DocumentMap, Has
  <2>2. stored[i] = WithSecret(portfolio.documents[i])
    BY <1>1 DEF SerializePortfolio
  <2>. QED
    BY <2>1, <2>2, SerializedType DEF WithSecret
<1>2. ASSUME NEW i \in Ids, ~Has(portfolio, i)
      PROVE  stored[i] = NoDocument
  BY <1>2 DEF SerializePortfolio
<1>3. stored \in StoredPortfolio
  BY <1>1, <1>2 DEF StoredPortfolio, SerializePortfolio
<1> HIDE DEF stored
<1>4. ASSUME NEW i \in Ids, stored[i] # NoDocument
      PROVE  /\ stored[i].id = i
             /\ \A j \in Ids : stored[j] # NoDocument /\ stored[j].name = stored[i].name => j = i
  <2>1. Has(portfolio, i)
    BY <1>2, <1>4
  <2>2. stored[i].id = i /\ stored[i].name = portfolio.documents[i].name
    BY <1>1, <2>1 DEF IndexAgree
  <2>3. ASSUME NEW j \in Ids, stored[j] # NoDocument, stored[j].name = stored[i].name
        PROVE  j = i
    <3>1. Has(portfolio, j)
      BY <1>2, <2>3
    <3>2. portfolio.documents[j].name = portfolio.documents[i].name
      BY <1>1, <2>2, <2>3, <3>1
    <3>3. portfolio.documents[j] = portfolio.documents[i]
      BY <2>1, <3>1, <3>2 DEF IndexAgree
    <3>. QED
      BY <2>1, <3>1, <3>3 DEF IndexAgree
  <2>. QED
    BY <2>2, <2>3
<1>5. StoredAgree(stored)
  BY <1>4 DEF StoredAgree
<1>. QED
  BY <1>3, <1>5 DEF stored

=============================================================================
