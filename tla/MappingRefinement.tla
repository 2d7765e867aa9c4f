-------------------------- MODULE MappingRefinement --------------------------
(***************************************************************************)
(* The mapping server with its clients implements the service they see,    *)
(* and answers them.                                                       *)
(***************************************************************************)
EXTENDS MappingClients

\* What a restart would find, or will once the write is done.
DurableMappings == IF saving.step = "write" THEN saving.list ELSE camDatabase.content

DurableTable ==
  [k \in Key |-> IF \E m \in DurableMappings : KeyOf(m) = k
                   THEN CHOOSE m \in DurableMappings : KeyOf(m) = k ELSE NoMapping]

\* A request has taken effect once the file it changes is being written.
Effective == IF saving.step = "write" THEN handling ELSE {}

InMailbox == {mailbox[i] : i \in DOMAIN mailbox}

Awaited(u) ==
  LET own(messages) == {message \in messages : message.from = u}
      finished == own(Effective) # {} \/ user[u].reply # {}
  IN  [step   |-> CASE user[u].step = "idle" -> "idle"
                    [] user[u].step # "idle" /\ finished -> "done"
                    [] user[u].step # "idle" /\ ~finished /\ own(InMailbox \cup handling) # {} -> "pending"
                    [] OTHER -> "unanswered",
       calls  |-> user[u].calls,
       answer |-> IF own(Effective) # {} THEN {[status |-> "OK", found |-> {}]}
                  ELSE {Outcome(c, reply) : c \in user[u].calls, reply \in user[u].reply}]

AllCalls == UNION {UserCalls[u] : u \in MappingUsers}

LateCalls ==
  [c \in AllCalls |->
     LET late == [from |-> Nobody, call |-> c]
     IN  Cardinality({i \in DOMAIN mailbox : mailbox[i] = late})
           + Cardinality({late} \cap (handling \ Effective))]

AllNamed(k) == k.assetId # <<>> /\ k.serviceId # <<>> /\ k.protocol # <<>>

Service == INSTANCE MappingService WITH
  Users   <- MappingUsers,
  Calls   <- AllCalls,
  Keys    <- Key,
  Named   <- AllNamed,
  NoEntry <- NoMapping,
  Unknown <- UNKNOWN,
  table   <- DurableTable,
  lost    <- camDatabase.file = "torn" /\ saving.step # "write",
  call    <- [u \in MappingUsers |-> Awaited(u)],
  late    <- LateCalls

\* As long as the writes to the mapping file succeed, and whatever the interleaving
\* of calls, timeouts, retries, crashes and restarts: a call that is answered has
\* taken effect once, on the saved mappings, and returns or throws what was true at
\* that moment; one that timed out takes effect once at most; and only a crash in
\* the middle of a save loses mappings.
ImplementsService == Service!ServiceSpec

-----------------------------------------------------------------------------
\* The server goes on, also when it is stopped or crashes again and again, as
\* long as it gets to each of its steps again.
ClientsFairness ==
  /\ WF_clientVars(Serve) /\ SF_clientVars(Open)
  /\ SF_clientVars(Write) /\ SF_clientVars(Take)

ClientsFairSpec == ClientsSpec /\ ClientsFairness

\* A client that waits gets an answer, or gives up, unless a crash took its
\* request away, or a crash or a failed write left a file the server cannot start
\* with: requests that others have abandoned, that are refused, or whose save fails,
\* do not block the mailbox.
CallsAreAnswered ==
  \A u \in MappingUsers :
    Awaited(u).step = "pending"
      ~> \/ Awaited(u).step \in {"done", "idle"}
         \/ Awaited(u).step = "unanswered" /\ camProcess = "down"
         \/ camDatabase.file = "torn" /\ camProcess = "exited"

=============================================================================
