# fty-security-wallet: specifications, checks and proofs

`fty-security-wallet` keeps the credentials of a platform (SNMP communities,
users and passwords, certificates) and the mappings that say which credential
is used for which service of which asset. This directory holds TLA+
specifications of it, the TLC configurations that check them on small
instances, and proofs checked by TLAPS.

Paths below are relative to `src/`.

## 1. The system

One process (`agent/src/fty_security_wallet.cc`) runs two servers that share
nothing but their fate:

    consumers, producers --socket------.
    SRR ------------------message bus--+-> SecurityWalletServer -> SecurityWallet -> Portfolio -> Document
    ClientAccessor <--notifications----'                                |
                                                        configuration.json, database.json

    CAM clients ----------mailbox--------> CredentialAssetMappingServer -> CredentialAssetMappingStorage
                                                                                        |
                                                                                   mapping.json

| Component | State | Operations | What makes it correct |
|---|---|---|---|
| Documents (`secw_document.cc` and the five types) | id, name, usages, public and private part, whether it came with a private part | serialise with and without secret, create from a form, overwrite by a form, compare, validate | an update keeps the secrets it does not send; what is valid is valid when read back |
| Portfolio (`secw_portfolio.cc`) | documents by id, documents by name | add, remove, update, load, load from SRR, serialise | both maps hold the same documents; each name once |
| Configuration (`secw_configuration.cc`) | usages, consumers and producers by portfolio | usages of a client, difference of two sets of usages | a change of usages needs the right to all of them |
| Wallet storage (`secw_security_wallet.cc`) | configurations, portfolios, two files | reload, save, SRR save and restore | a restart gives back what was answered; nothing is forgotten but by a deletion or a restore |
| Wallet server (`secw_security_wallet_server.cc`) | `m_lock` | nine requests on documents, SRR save and restore, three notifications | secrets go to consumers only; reads never see half a change; the lock comes back; notifications tell the truth |
| Client accessor (`secw_client_accessor.cc`) | four callbacks, `m_isRegistered`, `m_registrationId`, the subscription | set and clear callbacks, handle a notification, destroy | one subscription while a callback is set, none afterwards; no stale callback runs |
| Consumer and producer accessors (`secw_consumer_accessor.cc`, `secw_producer_accessor.cc`) | none | calls turned into requests; the lists by ids are one request per id | a list holds all that was readable throughout; only a missing server or portfolio ends the call |
| CAM server and storage (`cam_credential_asset_mapping_*.cc`) | mappings by hash, a file | create, update (mapping, port, credential, status, info), remove, get, lists, counts | one mapping per asset, service and protocol; a status never outlives its credential; a restart gives back what was answered, as long as writes succeed |
| CAM accessor (`cam_accessor.cc`) | none | calls turned into requests, which may time out | a call that is answered has taken effect once; one that timed out, once at most |
| Agent (`agent/src/fty_security_wallet.cc`, the two `*_mlm_agent.cc`, `resources/*.service.in`) | four threads: main, socket, message bus, CAM actor | start both servers, stop them on a signal, end with either, restart by the service manager | an orderly stop leaves each file that could be written as memory was; a stop ends; the process serves again unless a file cannot be loaded |
| Exceptions | none | from an exception to a code and back | callers tell the causes apart |
| Helpers, cryptography | none | formatting, JSON, encryption | - |

How they interact. A request takes `m_lock` in `handleRequest`, changes memory,
saves *every* portfolio, publishes the notification, and answers, all under the
lock. SRR requests come on a thread of the message bus and take the same lock
in `handleSave` and `handleRestore`. Notifications go over a stream to every
accessor that has subscribed, where a listener thread runs the callbacks under
the accessor's own lock. CAM requests are handled one at a time by one actor,
which saves every mapping after each change. A client of theirs waits for the reply
for a while and gives up, with its request in the mailbox, under way, or
answered too late. The main thread asks the socket server to stop, joins its
thread, waits for the actor, and destroys the wallet server; the message bus
thread is the last to be stopped.

What is hard.
* Saves of either server truncate the file and then write it, and look at no error.
  A process may die, or a write fail, between any two steps of a request.
* A publication that throws is logged, and the request answers OK.
* A restore replaces memory, saves it, reloads it (which clears it first, and
  may throw), while requests wait for the lock.
* Validation has two meanings of "contains private data", one for a document
  from a client and one for a document from the file; a document the second
  refuses is dropped by the next restart with only a log line.
* Two maps index the documents; renames, loads and restores must keep them equal.
* A notification of an update is computed from the document *received*, not from
  the one the update makes.
* The accessor decides to subscribe outside the lock that protects its callbacks.
* The hash of a mapping joins texts that may hold its separators.
* A call of an accessor may be several requests, with other requests, a restore or a
  restart between two of them.
* Requests of callers that have given up are still handled, after later ones.
* A signal, an `exit()` in the actor, or a crash ends both servers wherever they are.

`PROJECT.json` lists the hazards, each at its line, with the properties that
catch it.

## 2. The modules

| Module | Models | State and actions |
|---|---|---|
| `Documents` | the five document types | `Document`, the object; `Form`, its serialised form. `Parse` and `Overwrite` are the two `operator>>=`, `WithSecret`/`WithoutSecret` the two serialisers, `Valid` is `validate()` |
| `Portfolio` | `secw::Portfolio` | `PortfolioRecord` has the two maps; `Addable`/`Add`, `Updatable`/`Update`, `Remove`, `LoadPortfolio`, `LoadPortfolioFromSRR` |
| `Configuration` | who may consume and produce what | `UsagesForConsumer`, `UsagesForProducer`, `UsageDifference` |
| `SecurityWallet` | the process: storage, server, lock, SRR | `portfolios`, `configurations`, `lock` are the members; `database`, `confFile` the files; `work[t]` is where each thread is in its handler; `answer` the reply of the last step |
| `WalletProperties` | - | the properties of `SecurityWallet` and its fairness |
| `WalletStore` | the abstract store | one document changes at a time; snapshot, restore, loss |
| `WalletRefinement` | - | the mapping from `SecurityWallet` to `WalletStore` |
| `SubscribedWallet` | the wallet with a client that follows its notifications | adds `replica`, and `missed`, the documents whose last event was lost: it died with the process, or its publication failed |
| `ListedDocuments` | consumer and producer accessors: calls that are several requests | adds `list`: the call of each client, and what it could have read meanwhile |
| `ClientAccessor` | setters, the listener thread, the destructor | one action per stretch of code between two lock operations; `CallSetter` is the call, which then waits for the lock |
| `CredentialMapping` | CAM server and storage | `mappings`, the file, `saving`; one action per request |
| `ReportedMapping` | adds when a status was given | `reported`: the port and credential that were in a mapping when the server handled the report of its status |
| `MappingClients` | the CAM accessor: methods, requests, replies, timeouts | adds `user`, `mailbox` and `handling`, the request that is being saved for |
| `MappingService` | the abstract service | calls that take effect once, at one moment; late calls; loss |
| `MappingRefinement` | - | the mapping from `MappingClients` to `MappingService`, and fairness |
| `MappingProperties` | - | the properties of the mapping server |
| `Agent` | the process: composes `SecurityWallet` and `CredentialMapping` | adds `main`, how far the main thread is, `ended`, how the process ended, and `unwritten`, the files whose last save failed |
| `PortfolioProofs`, `WalletProofs`, `WalletSafety`, `StoreProofs`, `ObserverProofs`, `MappingProofs`, `AccessorProofs`, `AgentProofs` | - | theorems |
| `MCInputs`, `MCWallet`, `MCSubscribed`, `MCLists`, `MCAccessor`, `MCMapping`, `MCAgent` | - | instances for TLC |

### How a handler becomes actions

A request that is refused, or that only reads, is one action: it holds the lock
from end to end, touches no file, and its answer is in `answer`. A request that
changes documents is a chain of actions, so that a crash can fall between any
two of them:

    Create | UpdateDocument | Delete  ->  OpenDatabase  ->  WriteDatabase  ->  Notify  ->  Reply
    SrrRestore                        ->  OpenDatabase  ->  WriteDatabase  ->  SrrReload
    Start                             ->  OpenDatabase  ->  WriteDatabase     (the process serves)

The first action of each chain does everything up to `std::ofstream`: the whole
condition of the handler, the change in memory, and the serialisation of the
whole wallet, which is what `work[t].rootSi` holds; `work[t].isSamePlatform` is what a
restore has found of the platform of its backup. `OpenDatabase` truncates the
file, `WriteDatabase` writes it. `GoOn` and `AfterSave` say where the caller of
`save()` continues. A request to the mapping server that changes something is such
a chain too, `OpenMappings` and `WriteMappings`.

Neither `save()` looks at its stream. With `WritesFail` (the wallet) and
`MappingWritesFail` (the mapping server) a file that cannot be opened stays as it was,
one that cannot be written stays torn, and the caller of `save()` goes on as if
nothing had happened. The functions that publish an event catch every exception:
`NotifySubscriber` either delivers the event or loses it, and `Reply` follows in both
cases.

`Agent` adds one action per step of `main()` between two points where it may have to
wait: the two constructors, the socket thread, the actor, the loop, and on the way
out the join, the actor's end, the destructor of the server and the return.

### Abstractions

* Texts are members of small sets. Of a document's public part the fields that
  `validate()` reads are kept. Tags and the remaining public fields are only
  stored and given back.
* `client_regex` is the set of clients it matches.
* A certificate is a member of `Pems`; a private key is named by the certificate
  it fits. Parsing PEM and encryption are not modelled: a backup is opened by
  the passphrase that made it, and by no other.
* A stored portfolio is a function of ids. The code writes arrays; every file
  the wallet writes has each id once, which `SavedAgrees` and its theorem check
  for names as well, so that the order of the array cannot matter.
* A client that reads a list by ids gives them in any order (`ListedDocuments` takes
  any id that is left); an exception is the code that its caller tells apart.
* The arguments of a CAM method are a mapping, of which the request carries the
  members that the method sends (`Sent`); the counters of the CAM accessor are
  computed from its lists.
* The three requests that list portfolio names or a client's own usages change
  nothing and are not modelled. A request that is not well-formed JSON or lacks
  an argument is answered as an error before it touches anything.
* In `SecurityWallet` a document id is any id the portfolio does not have: `add`
  draws UUIDs until it finds one. When the instance has no id left, creation is
  disabled: this bound, the number of `Ids`, is the only one on the wallet.
* The JSON deserialiser refuses an empty file: `reload` throws, the constructor
  logs and the process exits with `EXIT_FAILURE`.

### What is external

The mailbox of the mapping server is a malamute broker: it keeps requests in order,
also while the server is down, and drops a reply nobody waits for. The message bus
library runs its handlers on a thread of its own, which ends when `m_msgBus` is
destroyed. `zactor_destroy` and the join of the socket thread return when the request
under way is done.

`fty-common`'s stream client is not in this repository. `ClientAccessor` takes
from how the accessor uses it: `subscribe` gives a fresh id; a notification is
handed to the subscriptions one after the other; `unsubscribe` does not return
while a notification of that subscription is being handled (the destructor frees
the object right after it, and would be wrong in all cases otherwise). Callbacks
return and do not call setters: `m_handlerFunctionLock` is not recursive, and
`secw_client_accessor.cc` has no provision for it.

## 3. The runs

The only bounds that are not sets of inputs are `MailboxSize`, on the requests that
wait for the mapping server, and the number of `Ids`. No counter grows without limit,
so the state spaces are finite without a depth bound.

| Run | Question | Instance |
|---|---|---|
| `core` | do maps, files, rights and subscribed clients stay right under creations, renames, updates and deletions, with a stop or a crash anywhere? | two ids, two names, two usages, one portfolio, two clients that own one usage each; passwords and Snmpv3 documents with, without and with an empty secret, and a type the factory does not know; a replica; publications that fail |
| `backup` | save and restore against requests and reads, with a configuration that changes under the wallet; does it all implement the abstract store? | one id, two portfolios; three configurations: both, one of them, faulty; a passphrase that is long enough and one that is not; same platform or not; a password and both kinds of certificate; crashes |
| `lists` | does a list by ids hold what it must, and throw only when it must? | two ids, two portfolios of which one is not configured, one client that reads lists, two that change, restores, crashes |
| `callbacks` | does the accessor hand each notification to the callback that is set, and always get its lock back? | an application thread and the listener, two handlers, four callbacks; with fairness. `CHECK_DEADLOCK FALSE`: a destroyed accessor does nothing more |
| `mapping` | do the CAM server and its clients implement the service, with crashes in the middle of a save, timeouts and late requests? | an administrator and a client that tests credentials; two protocols, an empty id, two credentials; every method; one request in the mailbox; writes succeed |
| `answered` | is every caller answered? | the same with few methods, three requests in the mailbox, and writes that fail; with fairness |
| `agent` | does an orderly stop save everything, does a stop end, does the process serve again? | both servers, four threads, one document (a password), one mapping, requests, restores, failing writes of both files, crashes, a configuration that becomes faulty; with fairness |

Five more runs state what the repository says and find a behaviour of the code
that does otherwise (see "What does not hold").

### Why the bounds are enough

Two names and two ids are what a clash of names needs, in a creation as in a
rename, and what it takes for a list to have more than one document. Two usages
with one client each tell "added", "taken away" and "kept" apart, and a right
from no right; `Shared1` gives one client both. Two portfolios let a
configuration lose one and keep the other. No more than two threads contend for
`m_lock`. Two application threads, in `subscribed_twice`, are what the race of the
setters needs; with one thread every interleaving of a setter with the listener
and the destructor is explored. The handlers of the CAM server work on one hash,
so two keys show whether one request disturbs another; two clients and one place
in the mailbox let a request that was given up be handled after a later
call of the same client, and three places let requests wait behind abandoned ones.
Where a theorem states the property (section 4), the instance only has to be large
enough for every action to happen.

`PROJECT.json` names for each property a variant of the model, defined beside the
definition it stands for ("Variant used to test the properties"), under which TLC
finds the property violated.

### What holds

Of the wallet:

* **`IndexesAgree`, `SavedAgrees`**: the maps by id and by name never disagree,
  nor do the files hold a name twice.
* **`RestartKeepsEverything`**: when the lock is free, a restart would give back
  what is in memory. The exception, in the property, is a wallet emptied by a
  reload that failed (see below).
* **`WritesMemory`**: each successful write puts down the documents of that
  moment, so a later save repairs what a failed one left out.
* **`ReadsAreSaved`**: no client is shown a document that is not in the database.
* **`SecretsOnlyToConsumers`**, **`UsageGuard`**: private parts and changes of
  usages need the rights the configuration gives. `UsageGuard` covers creation,
  deletion and both directions of an update.
* **`OnlyDeleteOrRestoreForgets`**: a save writes less than the file had only for
  a deletion or a restore; in particular a portfolio that leaves the
  configuration keeps its documents. The document that a deletion removes is the one
  its event names, in the portfolio its event names.
* **`RestoredIsBackup`**: a restore that answers SUCCESS leaves exactly the
  documents of the backup: with its key certificates if it was made on this platform,
  without them if not. What the property compares with is what this restore found of
  the platform.
* **`ImplementsStore`**: all of it implements `WalletStore`. The point at which a
  change takes effect is the truncation of the file.
* **`ReplicaFollows`** (without restores): a subscribed client has the public
  part of every document, but for those whose last event was lost, with the process or
  because its publication failed; the next event of the document makes up for it.

Of its clients:

* **`ListIsComplete`**: a list by ids holds every document that the client could
  read from the call to the return, and none that it could read at no time.
* **`ListThrowsForCause`**: such a call throws only if the server or the portfolio was
  missing at some time; a document that is gone or withdrawn is left out.
* **`OncePerNotification`, `RunningIsSet`, `SetIsSubscribed`, `SettersReturn`,
  `NotificationsEnd`, `DestroyedIsUnsubscribed`** of an accessor whose callbacks are
  set by one thread.

Of the mappings, for ids without the separators of the hash:

* **`RestartKeepsMappings`**, if writes succeed, and **`AnswersAreAboutAsked`**.
* **`StatusIsReported`**: a status other than UNKNOWN was given when the mapping had
  the port and the credential it has now: whichever request changes one of them forgets
  the status. That the report is of a test of this very credential cannot be said: a
  report names the mapping only (see below).
* **`ImplementsService`**, if writes succeed: to the callers the server is a table with one mapping per
  asset, service and protocol. A call that is answered has taken effect once, at one
  moment between the call and the answer; a call that timed out takes effect once at
  most, perhaps after later calls of the same caller; a crash may cost the answer of
  the call under way, and in the middle of a save the table.
* **`CallsAreAnswered`**, under fairness, also when writes fail.

Of the process:

* **`OrderlyStopSaves`**: when `main` returns after a signal, each of the two files whose
  last save did not fail is whole and holds what was in memory: the mapping file has the
  mappings of the moment the actor ends, and nothing writes it after that; the database
  has the documents when `main` returns, but for a wallet that a failed reload emptied.
* **`StopCompletes`**, **`LockIsReleased`**, under fairness.
* **`AgentServesAgain`**, under fairness: if crashes come to an end, a process that is
  down gets to its loop, or is down again because a constructor has ended it over a
  file that it cannot load and that is still so (`FileUnloadable`). The truncation that
  is part of each start does not count as such a file.

### What does not hold

| Run | What happens |
|---|---|
| `secret_changed` | An update that leaves the secret out keeps it, and is published with `secret_changed = true`: the comparison is with the document received (`lib/src/secw_security_wallet_server.cc:609`). |
| `write_failure` | A database that cannot be written is noticed neither by the save at start, which is there to find that out, nor later. |
| `subscribed_twice` | Two threads that set their first callback at the same time both subscribe; the destructor undoes one subscription. |
| `hash_collision` | Two keys whose ids hold `\|S` have one hash, and the second cannot be created. |
| `destroyed_in_use` | `~SecurityWalletServer` takes and releases the lock to "ensure nothing else is on going", but the message bus thread ends only with `m_msgBus`: a request that waits for the lock, or that it takes up then, finds the members destroyed. The run shows a request that is taken up. |

More that a reader should know:

* The accessor never unsubscribes when its callbacks are cleared: the condition
  (`lib/src/secw_client_accessor.cc:89`) repeats the one to subscribe, against the comment
  above it. Nothing is called then, as `RunningIsSet` shows, and the
  destructor unsubscribes.
* A restore publishes nothing, and clients that follow the notifications keep
  documents that are gone. `ReplicaFollows` is stated without restores.
* The STARTED notification has a callback, and nothing publishes it.
* A crash between the truncation and the write leaves an empty database, which no
  restart accepts: the process exits again and again until somebody removes the
  file. This is `Lose` in `WalletStore`, and its only cause in a system whose
  writes succeed. `AgentServesAgain` allows for it by `FileUnloadable`.
* The mapping server looks at its file no more than the wallet does at its own, against
  the comment at `lib/src/cam_credential_asset_mapping_storage.cc:79` ("ensure that we can
  write"): a change that has been answered need not be in the file, and the file may be
  torn with the server still serving. `RestartKeepsMappings` and `ImplementsService` are
  therefore stated for writes that succeed; `answered` and `agent` have writes that fail.
  The run `write_failure` shows the same mistake in the wallet.
* A torn mapping file ends the whole process, the wallet included, which is already
  serving: the storage calls `exit` in the actor
  (`lib/src/cam_credential_asset_mapping_storage.cc:76`). `StartActor` models it.
* When a restore ends with a reload that fails (the configuration has become
  faulty since), the wallet goes on serving with no portfolio at all. An SRR
  save then answers SUCCESS with an empty backup. The database keeps the restored
  documents, and the next restart with a good configuration finds them.
* A database whose version is not 1 is skipped without a word and overwritten.
* `agent/src/fty_security_wallet.cc:100` gives the name of the mapping agent as the
  default path of the mapping file, for a configuration file without that entry.
* `updateMapping` of the CAM accessor replaces the whole mapping, so that a caller that
  reads, changes and writes back undoes what others changed meanwhile; and
  `updateStatus` cannot say which credential was tested: a report that comes after
  another client has set a new credential is taken for a report on that one. The protocol has no
  version to compare, and no property asks for one.

### Fairness

`AgentFairSpec` assumes weak fairness of the steps of the socket thread, of the bus
thread and of the actor once they are in a handler: they are threads of the operating
system and wait for nothing but `m_lock`, which they hold at that point. It
assumes strong fairness of the steps of the main thread, which waits for the lock in
`~SecurityWalletServer` while SRR requests may take it again and again: what justifies it
is that backups are rare. A start is one of these steps, by `Restart=always`
in `resources/fty-security-wallet.service.in`. Nothing is assumed of requests, of
signals, or of the administrator.

`ClientsFairness` assumes weak fairness of the start of the mapping server, and strong
fairness of taking, opening and writing, so that a server that is stopped and
started again and again still gets to each of its steps. Clients need not call, nor
take their replies.

`AccessorFairSpec` assumes weak fairness of the listener thread in a callback and
strong fairness of the setters: they need the mutex, which the listener frees after
each callback, again and again. A `std::mutex` promises no order; what justifies it
is that notifications are rare (one for each change of a credential), so that a
waiting setter is woken in one of the gaps between them.

## 4. The proofs

TLAPS checks the following for every value of the constants that satisfies the named
assumptions (the sentinels are not values, `Pems` is a subset of `Texts`, inputs have
their types, what may happen is a Boolean): any number of documents, names, usages, portfolios, clients and
configuration files, with crashes at any step.

### The wallet

| Theorem | States | Beyond the named assumptions |
|---|---|---|
| `UnsentSecretsAreKept`, `SerializedReadsBack`, `ValidReadsBack` (`PortfolioProofs`) | an update that sends no secret keeps those of the stored document; a document read back is the document, but for `containPrivateData`; a valid document is still valid when read back | - |
| `WalletTypeOK`, `WalletIndexesAgree`, `WalletSavedAgrees` (`WalletProofs`) | `TypeOK`, `IndexesAgree`, `SavedAgrees` | - |
| `SecretsStayWithConsumers`, `ChangesByEntitledProducers`, `SavesWriteMemory` (`WalletSafety`) | `SecretsOnlyToConsumers`, `UsageGuard`, `WritesMemory` | - |
| `RestartFindsEverything`, `ReadsShowWhatIsSaved` (`WalletSafety`) | `RestartKeepsEverything`, `ReadsAreSaved` | `~WritesFail` |
| `SavesForgetNothingElse`, `RestoresBringTheBackup`, `WalletImplementsStore` (`StoreProofs`) | `OnlyDeleteOrRestoreForgets`, `RestoredIsBackup`, `ImplementsStore` | `~WritesFail` |
| `FollowersKnowEveryDocument` (`ObserverProofs`) | `ReplicaFollows` of `SubscribedSpec` | `~WritesFail`, no restores (`Passphrases = {}`) |
| `ListsAreComplete`, `ListsThrowForCause` (`ObserverProofs`) | `ListIsComplete`, `ListThrowsForCause` of `ListSpec` | - |

`~WritesFail` is needed: `write_failure` is the counterexample without it.

The invariants grow one on the other, each in its own module:

* `IInv == TypeOK /\ IndexesAgree /\ SavedAgrees`. `IndexesAgree` alone is not
  inductive: `Start`, `SrrRestore` and `SrrReload` build the maps from a file or a backup,
  which gives agreeing maps only if that file holds each document under its id and
  each name once (`SavedAgrees`). `SavedAgrees` is in turn about what threads are about
  to write, which serialises the maps in memory and has unique names only because
  these agree.
* `WInv` adds `OneWorks`, that no two threads are in a handler at once and the one that
  is has the lock, and `WritesCurrent`, that the tree it is about to write is
  the memory of this moment. This is what makes a save of *every* portfolio safe.
* `RInv` adds `Recoverable`: documents in memory are valid and canonical, so that
  `ValidReadsBack` applies, and the file, or the tree that is about to replace it,
  gives them back.
* `DInv` adds `Files`, that the database is torn exactly while a thread is between the
  truncation and the write or the process has died there, and `Plans`, what the tree
  that a thread is about to write makes of the stored documents: nothing new, one
  document changed (the one its event tells of), or a backup put back, as
  the platform it was made on allows. `Plans` is
  what the refinement needs: at the truncation it says which action of
  `WalletStore` is taken.
* `FInv` adds `Follows`: the replica agrees with the database while that is whole, and
  with the tree about to be written while it is not, but for the document of the event
  under way and those in `missed`.
* `LInv` is about the calls of `ListSpec`: what a call has found lies between the ids it
  could read all the time, but for those left to ask for, and the ids it could read
  at some time (`Accounts`); and both of these sets, and the record that the server or
  the portfolio was missing, take in the state the server is in now (`UpToDate`). It
  asks nothing of the wallet's own invariants: a list is right whatever the
  documents do between its requests, also when a save fails.

`WalletImplementsStore` is a full refinement proof: initial states map to initial states,
and each action to a step of `WalletStore` or a stutter (one lemma `Refines...` per
kind of action).

### The mapping server (`MappingProofs`)

| Theorem | States | Beyond the named assumptions |
|---|---|---|
| `MappingTypeOK`, `StatusAlwaysReported` | `CamTypeOK`, `StatusIsReported` | - |
| `RestartFindsMappings` | `RestartKeepsMappings` | `~MappingWritesFail` |
| `AnswersAlwaysAboutAsked` | `AnswersAreAboutAsked` | `Injective`: no two keys have one hash |
| `ServerImplementsService` | `ImplementsService` | `Injective`, `~MappingWritesFail` |
| `HashTellsKeysApart` | `Injective` | `Separated(Piece)`: no asset id holds `\|S`, no service id `\|P:` |

for any number of clients and keys and any size of the mailbox, with crashes.
`~MappingWritesFail` is the hypothesis that no write of the mapping file fails, which the
code cannot ensure; the types, the status and the answers need none. The code
ensures neither `Injective` nor `Separated`: nothing refuses an id with a separator in
it, and `hash_collision` is the counterexample. `HashTellsKeysApart` says that this is the
only way in which keys are confused: in the text that `computeHash` writes, the first
mark of the service ends the asset id, and the first mark of the protocol after it the
service id. An id is a sequence of pieces of text there, and a mark is one
piece: no end of an id and beginning of a mark make up another mark, since `|` is the first
character of each and occurs in it once.

`IInv` says that mappings are stored under the hash of their key (`Keyed`), that memory
and file agree between saves if writes succeed (`Flushed`), and which variables are at rest when the
server is not serving (`Running`). The refinement needs `ServiceInv`, which adds

* `WholeFile`: the list in the file has each key once, and a file that is not whole
  holds nothing; it is torn exactly between the truncation and the write;
* `Underway`: the list about to be written is the saved table with the effect of the
  one call that is being handled, and that call would still be allowed on the saved
  table. This is what lets the call take effect at the truncation, as
  `MappingRefinement` has it, rather than when the handler changes the map;
* `Requested`: the request of a client that waits is in the mailbox, under way, or
  answered, and in one of these places only, once; a client that has given up may have
  left requests, which are nobody's.

Without `Requested` a call could be carried out twice, or answered by the reply to
another. Each step of `ClientsSpec` is then a step of `MappingService` or a stutter, in
one lemma each: a call is `Invoke`, the handling of a read or a refusal and the
truncation are `ExecuteCall` or, for a client that has given up, `ExecuteLate`,
the taking of the reply is `Return`, a timeout `GiveUp`, and a crash or a stop `Fail`
or nothing, by what it loses.

### The accessor (`AccessorProofs`)

`NoStaleCallback` (`RunningIsSet`) for any number of threads: the invariant is that a
callback runs only with the lock held. `OneSetterTypeOK`, `OneSetterOncePerNotification`,
`OneSetterSubscribed` and `OneSetterUnsubscribed` (`AccessorTypeOK`, `OncePerNotification`,
`SetIsSubscribed`, `DestroyedIsUnsubscribed`) for one thread that sets callbacks, which
`subscribed_twice` shows to be needed. Their invariant ties the set of
subscriptions to where that thread is in its setter.

### The process (`AgentProofs`)

`StopLeavesFilesCurrent` (`OrderlyStopSaves`) and `AgentSavesWriteMemory` (`WritesMemory`, of
`AgentSpec`), for any documents, clients, mappings and configurations, with signals,
crashes, failing writes of both files, and an actor that ends the process. `AInv` combines
`WInv` with three parts of its own: `MainInOrder`, which threads may still be in
a handler at each point of `main` (none of the socket thread after the join, no
actor after `zactor_destroy`, nobody with the lock after the destructor has taken it);
`ActorInOrder`, the same for the saves of the mapping server, with the list that is about
to be written, which is the mappings in memory, and a file that has them unless its last
save failed; and `Written`, that unless its last save failed the database holds
the memory whenever no thread is between its change and its write. The wallet's steps are steps of `Spec`
(`AgentIsWallet`), so that the lemmas of `WalletSafety` serve again.

`AgentImplementsWallet` says that, when crashes are possible (`Crashes`), the process is to
the wallet nothing that it could not meet by itself: an `exit()` of the actor, and the return
of `main` while the bus thread is at work, are crashes of the wallet. So every
theorem about the wallet holds in the process; `AgentKeepsRights`
(`SecretsOnlyToConsumers`, `UsageGuard`) and `AgentImplementsStore` (`ImplementsStore`, with
`~WritesFail`) state three of them.

### How the invariants were found

`AInv` and `ServiceInv` were given to TLC as invariants of the instances of `agent`
and `mapping` (151,466 and 99,115 states; `ServiceInv` also with two places in the
mailbox, 924,979 states) before they were proved. Working on the proofs changed the model
in two places, neither of which changes its behaviours. In `Agent`, the condition that a
save is under way had alternatives that overlap in a `CASE`, whose value is then not
determined, and is two alternatives that exclude each other now (`SavesFile`). In `CredentialMapping` the two texts that
`computeHash` writes between the ids have names (`ServiceMark`, `ProtocolMark`).

### Only model-checked

Liveness: `SettersReturn`, `NotificationsEnd`, `LockIsReleased`, `StopCompletes`,
`AgentServesAgain` and `CallsAreAnswered`, which like `ENABLED` is outside what the
prover does. Every invariant and every other action property of a passing run is
stated by a theorem. The converse is not proved: where a theorem has a hypothesis
(`~WritesFail`, `~MappingWritesFail`, `Injective`, no restores, one thread that sets
callbacks), the runs
`write_failure`, `hash_collision` and `subscribed_twice` show three of these to be needed;
a restore publishes nothing, which is why `ReplicaFollows` cannot hold with one.

## 5. Not modelled

* Parsing and formatting of JSON and PEM, encryption, logging, the texts of exceptions:
  they keep no state the properties depend on. So is the reply `{"ERROR", ""}`, of
  which `throwSecwException` and `throwCamException` make an exception about the
  parsing of the reply.
* The three requests that list portfolio names or a client's own usages, which read the
  configuration and change nothing.
* The command line and the configuration file of the agent, but for the paths.
* `fty_security_wallet_mlm_agent.cc`, an actor that answers wallet requests by mailbox:
  `main` uses the socket server instead.
* A database written by another version of the program.
* Callbacks that set callbacks: `m_handlerFunctionLock` is not recursive, and they would
  wait for themselves.
* Requests with two arguments to `handleGetMapping` and `handleRemoveMapping`, whose check
  lets them pass: the accessor sends three, and `out_of_range` is answered as
  an error.

## 6. Plan

What is left: a notification stream with a queue per client, so that `SubscribedWallet`
and `ClientAccessor` become one module; the safety of the service itself, proved of
`MappingService` and carried over by the refinement (a table never has an entry that no
call made); and the same for `WalletStore`.
