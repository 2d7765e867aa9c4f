--------------------------- MODULE MappingService ---------------------------
(***************************************************************************)
(* What the credential asset mapping server promises the callers of its    *)
(* accessor: a table with at most one mapping for each asset, service and  *)
(* protocol; a call that is answered has taken effect once, at one moment  *)
(* between the call and the answer, and a call that times out takes effect *)
(* once at most, maybe after it has returned.  A crash may cost the answer *)
(* of the call it interrupts and, in the middle of a save, the table.      *)
(***************************************************************************)
EXTENDS Naturals

CONSTANTS
  Users,    \* the callers
  Calls,    \* what they may call: a method with a mapping for its arguments
  Keys,     \* an asset, a service and a protocol
  Named(_), \* whether all three of a key are given
  NoEntry,  \* no mapping
  Unknown   \* the status of a mapping nothing is known of

VARIABLES
  table, lost,  \* the mappings, and whether a crash has destroyed them
  call,         \* what each caller waits for
  late          \* the calls that timed out and may still take effect, with their number

serviceVars == <<table, lost, call, late>>

NoTable == [k \in Keys |-> NoEntry]
NotCalling == [step |-> "idle", calls |-> {}, answer |-> {}]

ServiceInit ==
  /\ table = NoTable
  /\ lost = FALSE
  /\ call = [u \in Users |-> NotCalling]
  /\ late = [c \in Calls |-> 0]

KeyOfCall(c) ==
  [assetId |-> c.mapping.assetId, serviceId |-> c.mapping.serviceId, protocol |-> c.mapping.protocol]

Taken(c) == table[KeyOfCall(c)] # NoEntry

\* The entry of the key after call c; only a removal leaves none.
Entry(c) ==
  LET old == table[KeyOfCall(c)]
      new == c.mapping
  IN  CASE c.method \in {"createMapping", "updateMapping"} -> new
        [] c.method = "updateCredentialId" ->
             [old EXCEPT !.credentialId = new.credentialId, !.status = Unknown]
        [] c.method = "updatePort" -> [old EXCEPT !.port = new.port, !.status = Unknown]
        [] c.method = "updateStatus" -> [old EXCEPT !.status = new.status]
        [] c.method = "updateExtendedInfo" -> [old EXCEPT !.extendedInfo = new.extendedInfo]
        [] c.method = "removeMapping" -> NoEntry

Changing == {"createMapping", "updateMapping", "updateCredentialId", "updatePort",
             "updateStatus", "updateExtendedInfo", "removeMapping"}

Entries == {table[k] : k \in {j \in Keys : table[j] # NoEntry}}

\* The mappings a list method returns.
Listed(c) ==
  CASE c.method = "getAllMappings" -> Entries
    [] c.method = "getAssetMappings" -> {m \in Entries : m.assetId = c.mapping.assetId}
    [] c.method = "getMappings" ->
         {m \in Entries : m.assetId = c.mapping.assetId /\ m.serviceId = c.mapping.serviceId}
    [] c.method = "getCredentialMappings" ->
         {m \in Entries : m.credentialId = c.mapping.credentialId}

\* What a call that takes effect now returns or throws.
AnswerTo(c) ==
  CASE c.method = "createMapping" ->
         [status |-> CASE Taken(c) -> "ALREADY_EXISTS"
                       [] ~Taken(c) /\ ~Named(KeyOfCall(c)) -> "BAD_FORMAT"
                       [] OTHER -> "OK", found |-> {}]
    [] c.method \in Changing \ {"createMapping"} ->
         [status |-> IF Taken(c) THEN "OK" ELSE "DOES_NOT_EXIST", found |-> {}]
    [] c.method = "getMapping" ->
         IF Taken(c) THEN [status |-> "OK", found |-> {table[KeyOfCall(c)]}]
                     ELSE [status |-> "DOES_NOT_EXIST", found |-> {}]
    [] c.method = "isMappingExisting" ->
         [status |-> "OK", found |-> IF Taken(c) THEN {table[KeyOfCall(c)]} ELSE {}]
    [] OTHER -> [status |-> "OK", found |-> Listed(c)]

\* Call c takes effect.
Execute(c) ==
  /\ ~lost
  /\ table' = IF c.method \in Changing /\ AnswerTo(c).status = "OK"
                THEN [table EXCEPT ![KeyOfCall(c)] = Entry(c)] ELSE table
  /\ UNCHANGED lost

Invoke(u) ==
  /\ call[u] = NotCalling
  /\ \E c \in Calls : call' = [call EXCEPT ![u] = [step |-> "pending", calls |-> {c}, answer |-> {}]]
  /\ UNCHANGED <<table, lost, late>>

ExecuteCall(u) ==
  /\ call[u].step = "pending"
  /\ \E c \in call[u].calls :
       /\ Execute(c)
       /\ call' = [call EXCEPT ![u].step = "done", ![u].answer = {AnswerTo(c)}]
  /\ UNCHANGED late

ExecuteLate(c) ==
  /\ late[c] > 0
  /\ Execute(c)
  /\ late' = [late EXCEPT ![c] = @ - 1]
  /\ UNCHANGED call

Return(u) ==
  /\ call[u].step = "done"
  /\ call' = [call EXCEPT ![u] = NotCalling]
  /\ UNCHANGED <<table, lost, late>>

GiveUp(u) ==
  /\ call[u].step # "idle"
  /\ call' = [call EXCEPT ![u] = NotCalling]
  /\ \/ UNCHANGED late
     \/ call[u].step = "pending" /\ \E c \in call[u].calls : late' = [late EXCEPT ![c] = @ + 1]
  /\ UNCHANGED <<table, lost>>

\* A crash: the call under way is not answered, or will not take effect.
Fail ==
  /\ \/ UNCHANGED <<table, lost>>
     \/ table' = NoTable /\ lost' = TRUE
  /\ \/ UNCHANGED <<call, late>>
     \/ \E u \in Users : call[u].step # "idle" /\ call' = [call EXCEPT ![u] =
          [step |-> "unanswered", calls |-> call[u].calls, answer |-> {}]] /\ UNCHANGED late
     \/ \E c \in Calls : late[c] > 0 /\ late' = [late EXCEPT ![c] = @ - 1] /\ UNCHANGED call

ServiceNext ==
  \/ \E u \in Users : Invoke(u) \/ ExecuteCall(u) \/ Return(u) \/ GiveUp(u)
  \/ \E c \in Calls : ExecuteLate(c)
  \/ Fail

ServiceSpec == ServiceInit /\ [][ServiceNext]_serviceVars

=============================================================================
