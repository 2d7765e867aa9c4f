--------------------------- MODULE Configuration ---------------------------
(***************************************************************************)
(* The configuration of the wallet: for each portfolio the usages it knows *)
(* and which clients may consume or produce documents of which usages.     *)
(*                                                                         *)
(* A client_regex is given as the set of clients it matches.               *)
(***************************************************************************)
EXTENDS Documents

CONSTANTS
  Portfolios,  \* portfolio names
  Clients,     \* client ids (the sender of a request)
  NoAccess     \* a portfolio the configuration does not name

ClientEntry == [clients : SUBSET Clients, usages : SUBSET Usages]

\* PortfolioConfiguration.
Access == [usages : SUBSET Usages,
           consumers : SUBSET ClientEntry, producers : SUBSET ClientEntry]

ASSUME NoAccessAssumption == NoAccess \notin Access

Configurations == [Portfolios -> Access \cup {NoAccess}]
NoConfigurations == [p \in Portfolios |-> NoAccess]

\* The configuration file: the entries that can be read, and whether the file
\* is one that reload() accepts to the end (it exists, parses, and names no
\* portfolio twice).  When it is not, the entries are those before the fault.
ConfigurationFile == [wellFormed : BOOLEAN, entries : Configurations]

ConfigurationLoads(file) == file.wellFormed /\ file.entries # NoConfigurations

\* getUsageIdsForConsummer, getUsageIdsForProducer: every entry that matches
\* the client adds its usages.
MatchingUsages(entries, client) ==
  UNION {e.usages : e \in {m \in entries : client \in m.clients}}

UsagesForConsumer(access, client) == MatchingUsages(access.consumers, client)
UsagesForProducer(access, client) == MatchingUsages(access.producers, client)

\* Variant used to test the properties: one side of the difference only.
UsageDifferenceAdded(a, b) == a \ b

\* differenceBetween2UsagesIdSet
UsageDifference(a, b) == (a \ b) \cup (b \ a)

=============================================================================
