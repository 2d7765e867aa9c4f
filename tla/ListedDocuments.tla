--------------------------- MODULE ListedDocuments ---------------------------
(***************************************************************************)
(* Clients that read a list of documents by their ids:                     *)
(* getListDocumentsWithPrivateData of the consumer accessor and            *)
(* getListDocumentsWithoutPrivateData of the producer accessor.  Such a    *)
(* call is one request per id, and producers, restores and restarts may    *)
(* come between two of them.                                               *)
(*                                                                         *)
(* A call records what its caller could have observed: the ids that were   *)
(* readable all the time and at some time, and whether the server or the   *)
(* portfolio was ever missing.                                             *)
(***************************************************************************)
EXTENDS WalletProperties

CONSTANT Listers   \* the clients that read lists

ASSUME ListersAssumption == Listers \subseteq Clients

VARIABLE list   \* the list call of each client

listVars == <<vars, list>>

NoList == [step |-> "idle", secret |-> FALSE, portfolio |-> {}, ids |-> {}, left |-> {},
           found |-> {}, always |-> {}, ever |-> {}, missing |-> FALSE]

ListInit == Init /\ list = [c \in Listers |-> NoList]

-----------------------------------------------------------------------------
(* The errors of the requests: the server sends the code of the exception, *)
(* and sendCommand throws the exception of the code.                       *)

GENERIC               == 0
UNKNOWN_PORTFOLIO     == 5
DOCUMENT_DO_NOT_EXIST == 9
ILLEGAL_ACCESS        == 10

\* The code of the exception that handleGetDocumentWithSecret throws.
WithSecretError(c, p, id) ==
  CASE configurations[p] = NoAccess -> UNKNOWN_PORTFOLIO
    [] configurations[p] # NoAccess /\ ConsumerUsages(c, p) = {} -> ILLEGAL_ACCESS
    [] ConsumerUsages(c, p) # {} /\ portfolios[p] = NoPortfolio -> UNKNOWN_PORTFOLIO
    [] Known(p) /\ ConsumerUsages(c, p) # {} ->
         IF Has(portfolios[p], id) THEN ILLEGAL_ACCESS ELSE DOCUMENT_DO_NOT_EXIST

\* The code of the exception that handleGetDocumentWithoutSecret throws.
WithoutSecretError(p, id) ==
  IF portfolios[p] = NoPortfolio THEN UNKNOWN_PORTFOLIO ELSE DOCUMENT_DO_NOT_EXIST

\* throwSecwException: the codes of the Malamute errors have no exception of
\* their own.
ThrownCode(code) == IF code \in 1 .. 13 THEN code ELSE GENERIC

\* Variant used to test the properties: a document without access is an error.
FilteredMissing == {DOCUMENT_DO_NOT_EXIST}

\* The exceptions that a list call leaves out.
Filtered == {DOCUMENT_DO_NOT_EXIST, ILLEGAL_ACCESS}

-----------------------------------------------------------------------------
(* What the caller could observe after a step *)

\* Client c can read document i of the call, with its private part or without.
Readable(c, call, i) ==
  \E p \in call.portfolio :
    /\ portfolios'[p] # NoPortfolio
    /\ Has(portfolios'[p], i)
    /\ call.secret => Shared(portfolios'[p].documents[i], ConsumerUsages(c, p)')

Missing(call) ==
  \/ process' # "serving"
  \/ \E p \in call.portfolio :
       portfolios'[p] = NoPortfolio \/ (call.secret /\ configurations'[p] = NoAccess)

\* A change shows when the lock is free again.
Observed(c, call) ==
  LET readable == {i \in call.ids : Readable(c, call, i)}
  IN  IF call.step # "calling" \/ (process' = "serving" /\ lock' # "none") THEN call
      ELSE [call EXCEPT !.always = @ \cap readable, !.ever = @ \cup readable,
                        !.missing = @ \/ Missing(call)]

-----------------------------------------------------------------------------
Call(c, secret, p, ids) ==
  /\ list[c].step # "calling"
  /\ ids # {}
  /\ UNCHANGED vars
  /\ list' = [list EXCEPT ![c] = Observed(c,
                [NoList EXCEPT !.step = "calling", !.secret = secret, !.portfolio = {p},
                               !.ids = ids, !.left = ids, !.always = ids])]

Thrown(call) == [NoList EXCEPT !.step = "thrown", !.missing = call.missing]

\* The loop goes on with the next id, or the call returns.
GoOnWith(call, left, found) ==
  IF left # {} THEN [call EXCEPT !.left = left, !.found = found]
  ELSE [NoList EXCEPT !.step = "returned", !.found = found, !.always = call.always, !.ever = call.ever]

\* Variant used to test the properties: the loop is inside the try block.
CollectUntilError(call, id, code) ==
  CASE answer'.status = "OK" -> GoOnWith(call, call.left \ {id}, call.found \cup {id})
    [] answer'.status # "OK" /\ ThrownCode(code) \in Filtered -> GoOnWith(call, {}, call.found)
    [] answer'.status # "OK" /\ ThrownCode(code) \notin Filtered -> Thrown(call)

\* What the loop does with the outcome of the request for one id.
Collect(call, id, code) ==
  CASE answer'.status = "OK" -> GoOnWith(call, call.left \ {id}, call.found \cup {id})
    [] answer'.status # "OK" /\ ThrownCode(code) \in Filtered -> GoOnWith(call, call.left \ {id}, call.found)
    [] answer'.status # "OK" /\ ThrownCode(code) \notin Filtered -> Thrown(call)

\* One request of the consumer accessor; the caller gives the ids in any order.
GetOneWithSecret(c) ==
  /\ list[c].step = "calling" /\ list[c].secret
  /\ \E p \in list[c].portfolio, id \in list[c].left :
       /\ GetWithSecret(c, p, id)
       /\ list' = [list EXCEPT ![c] = Collect(list[c], id, WithSecretError(c, p, id))]

\* One request of the producer accessor.
GetOneWithoutSecret(c) ==
  /\ list[c].step = "calling" /\ ~list[c].secret
  /\ \E p \in list[c].portfolio, id \in list[c].left :
       /\ GetWithoutSecret(c, p, id)
       /\ list' = [list EXCEPT ![c] = Collect(list[c], id, WithoutSecretError(p, id))]

\* The request client throws when nobody answers.
Unreachable(c) ==
  /\ list[c].step = "calling"
  /\ process # "serving"
  /\ list' = [list EXCEPT ![c] = Thrown(list[c])]
  /\ UNCHANGED vars

\* Everything else the server does, seen by the callers.
ServerStep ==
  /\ \/ Start \/ Stop \/ Crash \/ EditConfiguration \/ Produce \/ Srr
     \/ \E t \in Threads : OpenDatabase(t) \/ WriteDatabase(t)
     \/ Notify \/ Reply \/ SrrReload
  /\ list' = [c \in Listers |-> Observed(c, list[c])]

ListNext ==
  \/ ServerStep
  \/ \E c \in Listers :
       \/ \E secret \in BOOLEAN, p \in Portfolios, ids \in SUBSET Ids : Call(c, secret, p, ids)
       \/ GetOneWithSecret(c) \/ GetOneWithoutSecret(c) \/ Unreachable(c)

ListSpec == ListInit /\ [][ListNext]_listVars

-----------------------------------------------------------------------------
\* A list holds every document asked for that the client could read from the
\* call to the return, and none that it could read at no time in between,
\* whatever was created, changed, deleted, restored or restarted meanwhile.
ListIsComplete ==
  \A c \in Listers :
    list[c].step = "returned" =>
      list[c].always \subseteq list[c].found /\ list[c].found \subseteq list[c].ever

\* A list call only throws when the server or the portfolio was missing at some
\* time: a document that is not there, or not for this client, is left out.
ListThrowsForCause ==
  \A c \in Listers : list[c].step = "thrown" => list[c].missing

=============================================================================
