-------------------------- MODULE WalletRefinement --------------------------
(***************************************************************************)
(* The security wallet implements WalletStore.  A change takes effect when *)
(* the database file is truncated to write it: from there on the old       *)
(* documents cannot come back, and the new ones are what the thread that   *)
(* saves is about to write.                                                *)
(***************************************************************************)
EXTENDS WalletProperties

DocumentsOf(content) ==
  [p \in Portfolios |-> IF content[p] = NoPortfolio
                          THEN [i \in Ids |-> NoDocument] ELSE content[p]]

Writing == {t \in Threads : work[t].step = "write"}

\* What a restart would find, or will once the write is done.
DurableContent ==
  IF database.file = "torn" /\ Writing # {}
    THEN work[CHOOSE t \in Writing : TRUE].rootSi ELSE database.content

Durable == INSTANCE WalletStore WITH
  store    <- DocumentsOf(DurableContent),
  snapshot <- DocumentsOf(backup.content),
  lost     <- database.file = "torn" /\ Writing = {}

\* Across restarts, crashes, restores and changes of the configuration the
\* database goes from one set of documents to the next as WalletStore says: one
\* document at a time, with unique names and types that do not change, or back to
\* a snapshot; and only a crash in the middle of a save loses it.
ImplementsStore == Durable!StoreSpec

=============================================================================
