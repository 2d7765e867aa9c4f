----------------------------- MODULE Portfolio -----------------------------
(***************************************************************************)
(* A portfolio: the documents by id (m_documents) and by name              *)
(* (m_mapNameDocuments), the operations that change both, and the two      *)
(* serialised forms a portfolio is stored in.  Each operation comes with   *)
(* the condition under which the code does not throw.                      *)
(***************************************************************************)
EXTENDS Documents

DocumentMap == [Ids -> Document \cup {NoDocument}]
NameMap     == [Names -> Document \cup {NoDocument}]
PortfolioRecord == [documents : DocumentMap, mapNameDocuments : NameMap]

\* The array "documents" of a serialised portfolio, by document id: an array
\* the wallet wrote holds each id once.
StoredPortfolio == [Ids -> Form \cup {NoDocument}]

EmptyPortfolio ==
  [documents        |-> [i \in Ids |-> NoDocument],
   mapNameDocuments |-> [n \in Names |-> NoDocument]]

Has(portfolio, id)        == portfolio.documents[id] # NoDocument
HasName(portfolio, name)  == portfolio.mapNameDocuments[name] # NoDocument
ListDocuments(portfolio)  == {portfolio.documents[i] : i \in {j \in Ids : Has(portfolio, j)}}

-----------------------------------------------------------------------------
\* Variant used to test the properties: the name is not looked up.
AddableAnyName(portfolio, doc) == TRUE

Addable(portfolio, doc) == ~HasName(portfolio, doc.name)

\* The id is drawn until it is not one of the portfolio's.
FreshIds(portfolio) == {i \in Ids : ~Has(portfolio, i)}

Put(portfolio, doc) ==
  [documents        |-> [portfolio.documents EXCEPT ![doc.id] = doc],
   mapNameDocuments |-> [portfolio.mapNameDocuments EXCEPT ![doc.name] = doc]]

Add(portfolio, doc, id) == Put(portfolio, [doc EXCEPT !.id = id])

Remove(portfolio, id) ==
  [documents        |-> [portfolio.documents EXCEPT ![id] = NoDocument],
   mapNameDocuments |-> [portfolio.mapNameDocuments EXCEPT
                           ![portfolio.documents[id].name] = NoDocument]]

Updatable(portfolio, doc) ==
  /\ Has(portfolio, doc.id)
  /\ doc.name # portfolio.documents[doc.id].name => ~HasName(portfolio, doc.name)

\* Variant used to test the properties: the old name stays in the map.
UpdateKeepingOldName(portfolio, doc) == Put(portfolio, doc)

Update(portfolio, doc) ==
  LET oldName == portfolio.documents[doc.id].name
  IN  Put([portfolio EXCEPT !.mapNameDocuments[oldName] =
             IF doc.name # oldName THEN NoDocument ELSE @], doc)

-----------------------------------------------------------------------------
SerializePortfolio(portfolio) ==
  [i \in Ids |-> IF Has(portfolio, i) THEN WithSecret(portfolio.documents[i])
                                      ELSE NoDocument]

\* The portfolio that holds the given documents: each is entered in both maps.
\* Names are unique in what the wallet stores, so the order does not matter.
Index(docs) ==
  [documents |-> docs,
   mapNameDocuments |->
     [n \in Names |->
        IF \E i \in Ids : docs[i] # NoDocument /\ docs[i].name = n
          THEN docs[CHOOSE i \in Ids : docs[i] # NoDocument /\ docs[i].name = n]
          ELSE NoDocument]]

\* A document that cannot be read or is not valid is logged and left out.
Loadable(form) == form # NoDocument /\ Parseable(form) /\ Valid(Parse(form))

\* Variant used to test the properties: the filter of backups on every load.
LoadPortfolioFiltered(stored) ==
  Index([i \in Ids |-> IF Loadable(stored[i]) /\ stored[i].type # "InternalCertificate"
                         THEN Parse(stored[i]) ELSE NoDocument])

LoadPortfolio(stored) ==
  Index([i \in Ids |-> IF Loadable(stored[i]) THEN Parse(stored[i]) ELSE NoDocument])

\* Variant used to test the properties: the key certificates of any platform.
LoadPortfolioFromSRRAnywhere(stored, isSameInstance) == LoadPortfolio(stored)

\* From a backup: a key certificate stays on the machine it was saved on.
LoadPortfolioFromSRR(stored, isSameInstance) ==
  Index([i \in Ids |->
           IF Loadable(stored[i])
              /\ (isSameInstance \/ stored[i].type # "InternalCertificate")
             THEN Parse(stored[i]) ELSE NoDocument])

-----------------------------------------------------------------------------
\* The two maps name the same documents, and a document is found under its id.
IndexAgree(portfolio) ==
  /\ \A i \in Ids : Has(portfolio, i) =>
        LET doc == portfolio.documents[i]
        IN  doc.id = i /\ portfolio.mapNameDocuments[doc.name] = doc
  /\ \A n \in Names : HasName(portfolio, n) =>
        LET doc == portfolio.mapNameDocuments[n]
        IN  doc.name = n /\ portfolio.documents[doc.id] = doc

\* A stored portfolio holds each document under its id, and each name once.
StoredAgree(stored) ==
  \A i \in Ids : stored[i] # NoDocument =>
    /\ stored[i].id = i
    /\ \A j \in Ids : stored[j] # NoDocument /\ stored[j].name = stored[i].name => j = i

=============================================================================
