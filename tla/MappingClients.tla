--------------------------- MODULE MappingClients ---------------------------
(***************************************************************************)
(* The clients of the mapping server.  Each holds a cam::Accessor, whose   *)
(* methods send one request to the mailbox of the server and wait for its  *)
(* reply; the client library gives up after a while, with the request      *)
(* still in the mailbox, under way, or answered too late.                  *)
(*                                                                         *)
(* The mailbox (the malamute broker) is external: it keeps the requests in *)
(* order, also while the server is down, and a reply nobody waits for any  *)
(* more is dropped.                                                        *)
(***************************************************************************)
EXTENDS ReportedMapping, FiniteSets

CONSTANTS
  MappingUsers,  \* the clients
  Nobody,        \* the sender of a request whose caller has given up
  Blank,         \* a member of a mapping that a method leaves empty
  UserCalls,     \* what each client calls: a method, and a mapping for its arguments
  MailboxSize    \* bound on the requests in the mailbox

Methods == {"createMapping", "updateMapping", "getMapping", "removeMapping",
            "updateCredentialId", "updatePort", "updateStatus", "updateExtendedInfo",
            "isMappingExisting", "getAssetMappings", "getMappings", "getAllMappings",
            "getCredentialMappings"}

ASSUME UsersAssumption ==
  /\ IsFiniteSet(MappingUsers) /\ Nobody \notin MappingUsers
  /\ \A u \in MappingUsers : UserCalls[u] \subseteq [method : Methods, mapping : Mapping]
  /\ MailboxSize \in Nat \ {0}

VARIABLES
  user,      \* what each client waits for, and the reply on its way to it
  mailbox,   \* the requests that wait for the server
  handling   \* the request the server is saving for

clientVars == <<reportedVars, user, mailbox, handling>>

NoUser == [step |-> "idle", calls |-> {}, reply |-> {}]

ClientsInit ==
  /\ ReportedInit
  /\ user = [u \in MappingUsers |-> NoUser]
  /\ mailbox = <<>>
  /\ handling = {}

-----------------------------------------------------------------------------
(* cam::Accessor *)

Named3   == {"assetId", "serviceId", "protocol"}
Members  == Named3 \cup {"port", "credentialId", "status", "extendedInfo"}

Command(method) ==
  CASE method = "createMapping"      -> "CREATE_MAPPING"
    [] method = "updateMapping"      -> "UPDATE_MAPPING"
    [] method \in {"getMapping", "isMappingExisting"} -> "GET_MAPPING"
    [] method = "removeMapping"      -> "REMOVE_MAPPING"
    [] method = "updateCredentialId" -> "UPDATE_CREDENTIAL_MAPPING"
    [] method = "updatePort"         -> "UPDATE_PORT_MAPPING"
    [] method = "updateStatus"       -> "UPDATE_STATUS_MAPPING"
    [] method = "updateExtendedInfo" -> "UPDATE_INFO_MAPPING"
    [] method = "getAssetMappings"   -> "GET_ASSET_MAPPINGS"
    [] method = "getMappings"        -> "GET_MAPPINGS"
    [] method = "getAllMappings"     -> "GET_ALL_MAPPINGS"
    [] method = "getCredentialMappings" -> "GET_CRED_MAPPINGS"

\* The members of the mapping that a method fills in.
Sent(method) ==
  CASE method \in {"createMapping", "updateMapping"} -> Members
    [] method = "updateCredentialId" -> Named3 \cup {"credentialId"}
    [] method = "updatePort"         -> Named3 \cup {"port"}
    [] method = "updateStatus"       -> Named3 \cup {"status"}
    [] method = "updateExtendedInfo" -> Named3 \cup {"extendedInfo"}
    [] method \in {"getMapping", "isMappingExisting", "removeMapping"} -> Named3
    [] method = "getAssetMappings"   -> {"assetId"}
    [] method = "getMappings"        -> {"assetId", "serviceId"}
    [] method = "getAllMappings"     -> {}
    [] method = "getCredentialMappings" -> {"credentialId"}

\* A default CredentialAssetMapping.
DefaultMapping ==
  [assetId |-> <<>>, serviceId |-> <<>>, protocol |-> <<>>, port |-> Blank,
   credentialId |-> Blank, status |-> UNKNOWN, extendedInfo |-> Blank]

Payload(c) ==
  [command |-> Command(c.method),
   mapping |-> [f \in Members |-> IF f \in Sent(c.method) THEN c.mapping[f] ELSE DefaultMapping[f]]]

\* The error codes of CamException.
GENERIC                == 0
MAPPING_DOES_NOT_EXIST == 4
MAPPING_ALREADY_EXISTS == 5

\* A reply: the frames of handleRequest, with the code of CamException::toJson.
ReplyFrames(answer) ==
  CASE answer.status = "OK" -> [frame |-> "data", code |-> GENERIC, found |-> answer.found]
    [] answer.status = "DOES_NOT_EXIST" ->
         [frame |-> "ERROR", code |-> MAPPING_DOES_NOT_EXIST, found |-> {}]
    [] answer.status = "ALREADY_EXISTS" ->
         [frame |-> "ERROR", code |-> MAPPING_ALREADY_EXISTS, found |-> {}]
    [] answer.status = "BAD_FORMAT" -> [frame |-> "ERROR", code |-> GENERIC, found |-> {}]

\* throwCamException
ThrownFor(code) ==
  CASE code = MAPPING_DOES_NOT_EXIST -> "DOES_NOT_EXIST"
    [] code = MAPPING_ALREADY_EXISTS -> "ALREADY_EXISTS"
    [] OTHER -> "BAD_FORMAT"

\* What a method returns or throws when it receives a reply; isMappingExisting
\* catches the exception that says no.
Outcome(c, reply) ==
  LET status == IF reply.frame = "ERROR" THEN ThrownFor(reply.code) ELSE "OK"
  IN  [status |-> IF c.method = "isMappingExisting" /\ status = "DOES_NOT_EXIST"
                    THEN "OK" ELSE status,
       found  |-> reply.found]

-----------------------------------------------------------------------------
(* The steps of the clients *)

QuietServer ==
  /\ camAnswer' = NoCamAnswer
  /\ UNCHANGED <<camProcess, camDatabase, mappings, saving, reported, handling>>

\* sendCommand, up to the request.
Call(u) ==
  /\ user[u] = NoUser
  /\ Len(mailbox) < MailboxSize
  /\ \E c \in UserCalls[u] :
       /\ user' = [user EXCEPT ![u] = [step |-> "waiting", calls |-> {c}, reply |-> {}]]
       /\ mailbox' = Append(mailbox, [from |-> u, call |-> c])
  /\ QuietServer

\* sendCommand, from the reply.
Receive(u) ==
  /\ user[u].reply # {}
  /\ user' = [user EXCEPT ![u] = NoUser]
  /\ UNCHANGED mailbox
  /\ QuietServer

From(u, message) == IF message.from = u THEN [message EXCEPT !.from = Nobody] ELSE message

\* Variant used to test the properties: the caller sends its request again.
GiveUpAndRetry(u) ==
  /\ user[u].step = "waiting"
  /\ user[u].reply = {}
  /\ Len(mailbox) < MailboxSize
  /\ mailbox' = mailbox \o <<[from |-> u, call |-> CHOOSE c \in user[u].calls : TRUE]>>
  /\ UNCHANGED user
  /\ QuietServer

\* syncRequestWithReply throws when the reply does not come in time.
TimeOut(u) ==
  /\ user[u].step = "waiting"
  /\ user' = [user EXCEPT ![u] = NoUser]
  /\ mailbox' = [i \in DOMAIN mailbox |-> From(u, mailbox[i])]
  /\ handling' = {From(u, message) : message \in handling}
  /\ camAnswer' = NoCamAnswer
  /\ UNCHANGED <<camProcess, camDatabase, mappings, saving, reported>>

-----------------------------------------------------------------------------
(* The steps of the server *)

\* handleRequest
Handle(request) ==
  LET m == request.mapping
      k == KeyOf(m)
  IN  \/ request.command = "CREATE_MAPPING" /\ CreateMapping(m)
      \/ request.command = "UPDATE_MAPPING" /\ UpdateMapping(m)
      \/ request.command = "UPDATE_PORT_MAPPING" /\ UpdatePort(k, m.port)
      \/ request.command = "UPDATE_CREDENTIAL_MAPPING" /\ UpdateCredential(k, m.credentialId)
      \/ request.command = "UPDATE_STATUS_MAPPING" /\ UpdateStatus(k, m.status)
      \/ request.command = "UPDATE_INFO_MAPPING" /\ UpdateInfo(k, m.extendedInfo)
      \/ request.command = "REMOVE_MAPPING" /\ RemoveMapping(k)
      \/ request.command = "GET_MAPPING" /\ GetMapping(k)
      \/ request.command = "GET_ASSET_MAPPINGS" /\ GetAssetMappings(m.assetId)
      \/ request.command = "GET_MAPPINGS" /\ GetMappings(m.assetId, m.serviceId)
      \/ request.command = "GET_ALL_MAPPINGS" /\ GetAllMappings
      \/ request.command = "GET_CRED_MAPPINGS" /\ GetCredentialMappings(m.credentialId)

\* The requests that tell the status of a mapping.
Reporting == {"CREATE_MAPPING", "UPDATE_MAPPING", "UPDATE_STATUS_MAPPING"}

ReplyTo(u) ==
  user' = [v \in MappingUsers |->
             IF v = u THEN [user[v] EXCEPT !.reply = {ReplyFrames(camAnswer')}] ELSE user[v]]

\* Variant used to test the properties: an error is not answered.
TakeAnsweringOk ==
  /\ mailbox # <<>>
  /\ LET message == Head(mailbox)
     IN  /\ Handle(Payload(message.call))
         /\ mailbox' = Tail(mailbox)
         /\ IF camAnswer'.status = "OK" THEN ReplyTo(message.from) ELSE UNCHANGED user
         /\ handling' = IF camAnswer'.status = "none" THEN {message} ELSE {}
         /\ reported' = IF Payload(message.call).command \in Reporting THEN Reports ELSE reported

\* The server takes the first request; one that changes nothing is answered at once.
Take ==
  /\ mailbox # <<>>
  /\ LET message == Head(mailbox)
     IN  /\ Handle(Payload(message.call))
         /\ mailbox' = Tail(mailbox)
         /\ \/ /\ camAnswer'.status = "none"
               /\ handling' = {message}
               /\ UNCHANGED user
            \/ /\ camAnswer'.status # "none"
               /\ ReplyTo(message.from)
               /\ UNCHANGED handling
         /\ reported' = IF Payload(message.call).command \in Reporting THEN Reports ELSE reported

\* The request under way, if the save is for one, is answered.
AnswerHandled ==
  /\ \/ handling = {} /\ UNCHANGED user
     \/ \E message \in handling : ReplyTo(message.from)
  /\ handling' = {}

\* The save goes on, or ends with a file that could not be opened.
Open ==
  /\ OpenMappings
  /\ \/ saving'.step = "write" /\ UNCHANGED <<user, handling>>
     \/ saving'.step = "idle" /\ AnswerHandled
  /\ UNCHANGED <<mailbox, reported>>

Write == WriteMappings /\ AnswerHandled /\ UNCHANGED <<mailbox, reported>>

Serve == StartCam /\ reported' = Reports /\ UNCHANGED <<user, mailbox, handling>>

Shut == StopCam /\ UNCHANGED <<user, mailbox, handling, reported>>

\* The request under way is lost with the process.
Die == CrashCam /\ handling' = {} /\ UNCHANGED <<user, mailbox, reported>>

ClientsNext ==
  \/ \E u \in MappingUsers : Call(u) \/ Receive(u) \/ TimeOut(u)
  \/ Take \/ Open \/ Write \/ Serve \/ Shut \/ Die

ClientsSpec == ClientsInit /\ [][ClientsNext]_clientVars

=============================================================================
