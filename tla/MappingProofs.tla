---------------------------- MODULE MappingProofs ----------------------------
(***************************************************************************)
(* The mapping server with its clients, for every set of assets, services, *)
(* protocols, ports, credentials, callers and calls, any size of the       *)
(* mailbox, with crashes or without, and with writes to the file that fail *)
(* or not: the type invariant, when a status was given, what a restart     *)
(* finds if writes succeed, and, when computeHash tells every two keys     *)
(* apart, what an answer is about, and, if writes succeed, that the server *)
(* with its clients implements the service they see.                       *)
(*                                                                         *)
(* None of them is inductive by itself.  What they need is that every      *)
(* mapping is stored under its own hash, that a save which is under way    *)
(* writes the mappings of the moment, and that what waits in the mailbox   *)
(* was sent by an accessor; the service needs besides that the list about  *)
(* to be written is the saved table with the effect of the one request     *)
(* under way, and that a client's request is in one place only.            *)
(***************************************************************************)
EXTENDS MappingRefinement, FiniteSetTheorems, SequenceTheorems, TLAPS

\* Every mapping is stored under its own hash, and has its three ids.
Keyed ==
  \A h \in Hashes :
    mappings[h] # NoMapping => Settable(mappings[h]) /\ ComputeHash(KeyOf(mappings[h])) = h

\* A save writes the mappings in memory, and between two saves the file has them,
\* unless a write failed.
Flushed ==
  /\ saving.step # "idle" => saving.list = AllMappings
  /\ ~MappingWritesFail /\ CamListening =>
       camDatabase.file = "written" /\ camDatabase.content = AllMappings

\* The constructor ends with its save; a process that is not there saves nothing.
Running ==
  /\ camProcess = "starting" => saving.step # "idle"
  /\ camProcess \in {"down", "exited"} => saving.step = "idle"

CamIInv == CamTypeOK /\ Keyed /\ Flushed /\ Running

Calls    == [method : Methods, mapping : Mapping]
Messages == [from : MappingUsers \cup {Nobody}, call : Calls]

MailTypeOK == mailbox \in Seq(Messages)

IInv == CamIInv /\ MailTypeOK

-----------------------------------------------------------------------------
(* Mappings and their hashes *)

LEMMA KeyOfType ==
  ASSUME NEW m \in Mapping
  PROVE  KeyOf(m) \in Key
BY DEF KeyOf, Mapping, Key

LEMMA HashType ==
  ASSUME NEW k \in Key
  PROVE  ComputeHash(k) \in Hashes
BY DEF Hashes

LEMMA NoMappingsCorrect ==
  ASSUME mappings = NoMappings
  PROVE  mappings \in [Hashes -> Mapping \cup {NoMapping}] /\ Keyed
BY DEF NoMappings, Keyed

LEMMA AllMappingsType ==
  ASSUME CamTypeOK
  PROVE  AllMappings \in SUBSET Mapping
BY DEF AllMappings, CamTypeOK

\* What is stored under a hash is what a load of all mappings finds for it.
LEMMA LoadAllMappings ==
  ASSUME CamTypeOK, Keyed
  PROVE  LoadMappings(AllMappings) = mappings
<1>1. ASSUME NEW h \in Hashes
      PROVE  LoadMappings(AllMappings)[h] = mappings[h]
  <2> DEFINE Here(m) == Settable(m) /\ ComputeHash(KeyOf(m)) = h
  <2>1. ASSUME NEW m \in AllMappings, Here(m)
        PROVE  m = mappings[h] /\ mappings[h] # NoMapping
    BY <2>1 DEF AllMappings, Keyed
  <2>2. mappings[h] # NoMapping => mappings[h] \in AllMappings /\ Here(mappings[h])
    BY DEF AllMappings, Keyed
  <2>3. LoadMappings(AllMappings)[h] = IF \E m \in AllMappings : Here(m)
                                       THEN CHOOSE m \in AllMappings : Here(m) ELSE NoMapping
    BY DEF LoadMappings
  <2> HIDE DEF Here
  <2>. QED
    BY <2>1, <2>2, <2>3
<1>. QED
  BY <1>1 DEF LoadMappings, CamTypeOK

LEMMA LoadedType ==
  ASSUME NEW list \in SUBSET Mapping
  PROVE  /\ LoadMappings(list) \in [Hashes -> Mapping \cup {NoMapping}]
         /\ \A h \in Hashes : LoadMappings(list)[h] # NoMapping =>
              /\ Settable(LoadMappings(list)[h])
              /\ ComputeHash(KeyOf(LoadMappings(list)[h])) = h
<1>1. ASSUME NEW h \in Hashes
      PROVE  /\ LoadMappings(list)[h] \in Mapping \cup {NoMapping}
             /\ LoadMappings(list)[h] # NoMapping =>
                  /\ Settable(LoadMappings(list)[h])
                  /\ ComputeHash(KeyOf(LoadMappings(list)[h])) = h
  <2> DEFINE Here(m) == Settable(m) /\ ComputeHash(KeyOf(m)) = h
  <2>1. LoadMappings(list)[h] = IF \E m \in list : Here(m)
                                THEN CHOOSE m \in list : Here(m) ELSE NoMapping
    BY DEF LoadMappings
  <2>2. CASE \E m \in list : Here(m)
    <3>1. LoadMappings(list)[h] \in list /\ Here(LoadMappings(list)[h])
      <4> HIDE DEF Here
      <4>. QED
        BY <2>1, <2>2
    <3>. QED
      BY <3>1
  <2>3. CASE ~\E m \in list : Here(m)
    BY <2>1, <2>3
  <2>. QED
    BY <2>2, <2>3
<1>. QED
  BY <1>1 DEF LoadMappings

LEMMA SetMappingCorrect ==
  ASSUME CamTypeOK, Keyed, NEW m \in Mapping, Settable(m)
  PROVE  /\ SetMapping(m) \in [Hashes -> Mapping \cup {NoMapping}]
         /\ \A h \in Hashes : SetMapping(m)[h] # NoMapping =>
              Settable(SetMapping(m)[h]) /\ ComputeHash(KeyOf(SetMapping(m)[h])) = h
<1>1. ComputeHash(KeyOf(m)) \in Hashes
  BY KeyOfType, HashType
<1>. QED
  BY <1>1 DEF SetMapping, CamTypeOK, Keyed

-----------------------------------------------------------------------------
(* The steps of the server *)

LEMMA StartCamCorrect ==
  ASSUME CamIInv, StartCam
  PROVE  CamIInv'
<1>1. CASE /\ camProcess' = "starting"
           /\ mappings' = LoadMappings(camDatabase.content)
           /\ saving' = [step |-> "open", list |-> AllMappings']
  <2>1. mappings' \in [Hashes -> Mapping \cup {NoMapping}] /\ Keyed'
    BY <1>1, LoadedType DEF CamIInv, CamTypeOK, Keyed
  <2>2. AllMappings' \in SUBSET Mapping
    BY <2>1 DEF AllMappings
  <2>3. CamTypeOK'
    BY <1>1, <2>1, <2>2 DEF StartCam, CamIInv, CamTypeOK, NoCamAnswer
  <2>. QED
    BY <1>1, <2>1, <2>3 DEF CamIInv, Flushed, Running, CamListening
<1>2. CASE camProcess' = "exited" /\ UNCHANGED <<mappings, saving>>
  <2>1. saving.step = "idle"
    BY DEF StartCam, CamIInv, Running
  <2>. QED
    BY <1>2, <2>1 DEF StartCam, CamIInv, CamTypeOK, Keyed, Flushed, Running, CamListening, NoCamAnswer
<1>. QED
  BY <1>1, <1>2 DEF StartCam

\* A save that ends leaves the mappings as they are, and the file with the list, or
\* with what a failure left in it.
LEMMA SaveEndsCorrect ==
  ASSUME CamIInv, SaveEnds, saving.step # "idle",
         \/ camDatabase' = [file |-> "written", content |-> saving.list]
         \/ MappingWritesFail /\ UNCHANGED camDatabase
  PROVE  CamIInv'
<1>1. saving.list = AllMappings /\ AllMappings' = AllMappings
  BY DEF SaveEnds, CamIInv, Flushed, AllMappings
<1>2. camDatabase' \in [file : {"missing", "torn", "written"}, content : SUBSET Mapping]
  BY <1>1, AllMappingsType DEF CamIInv, CamTypeOK
<1>3. CamTypeOK'
  BY <1>2 DEF SaveEnds, CamIInv, CamTypeOK, NotSaving, NoCamAnswer
<1>. QED
  BY <1>1, <1>3 DEF SaveEnds, CamIInv, Keyed, Flushed, Running, CamListening, NotSaving

LEMMA OpenMappingsCorrect ==
  ASSUME CamIInv, OpenMappings
  PROVE  CamIInv'
<1>1. CASE /\ camDatabase' = [file |-> "torn", content |-> {}]
           /\ saving' = [saving EXCEPT !.step = "write"]
           /\ camAnswer' = NoCamAnswer
           /\ UNCHANGED <<camProcess, mappings>>
  <2>1. CamTypeOK'
    BY <1>1 DEF CamIInv, CamTypeOK, NoCamAnswer
  <2>2. AllMappings' = AllMappings
    BY <1>1 DEF AllMappings
  <2>3. saving'.step = "write" /\ saving'.list = saving.list /\ saving.step = "open"
    BY <1>1 DEF OpenMappings, CamIInv, CamTypeOK
  <2>. QED
    BY <1>1, <2>1, <2>2, <2>3 DEF CamIInv, Keyed, Flushed, Running, CamListening
<1>2. CASE MappingWritesFail /\ SaveEnds /\ UNCHANGED camDatabase
  BY <1>2, SaveEndsCorrect DEF OpenMappings
<1>. QED
  BY <1>1, <1>2 DEF OpenMappings

LEMMA WriteMappingsCorrect ==
  ASSUME CamIInv, WriteMappings
  PROVE  CamIInv'
BY SaveEndsCorrect DEF WriteMappings

LEMMA HaltCamCorrect ==
  ASSUME CamIInv, HaltCam,
         camDatabase' \in [file : {"missing", "torn", "written"}, content : SUBSET Mapping]
  PROVE  CamIInv'
<1>1. mappings' \in [Hashes -> Mapping \cup {NoMapping}] /\ Keyed'
  BY DEF HaltCam, NoMappings, Keyed
<1>2. CamTypeOK'
  BY <1>1 DEF HaltCam, CamTypeOK, NotSaving, NoCamAnswer
<1>. QED
  BY <1>1, <1>2 DEF HaltCam, CamIInv, Flushed, Running, CamListening, NotSaving

LEMMA StopCamCorrect ==
  ASSUME CamIInv, StopCam
  PROVE  CamIInv'
BY HaltCamCorrect DEF StopCam, CamIInv, CamTypeOK

LEMMA CrashCamCorrect ==
  ASSUME CamIInv, CrashCam
  PROVE  CamIInv'
<1>1. saving.list \in SUBSET Mapping
  BY DEF CamIInv, CamTypeOK
<1>. QED
  BY <1>1, HaltCamCorrect DEF CrashCam, CamIInv, CamTypeOK

LEMMA CamReplyCorrect ==
  ASSUME CamIInv,
         NEW status \in {"none", "OK", "BAD_FORMAT", "DOES_NOT_EXIST", "ALREADY_EXISTS"},
         NEW asked \in SUBSET Key, NEW found \in SUBSET Mapping,
         CamReply(status, asked, found)
  PROVE  CamIInv'
<1>1. AllMappings' = AllMappings
  BY DEF CamReply, AllMappings
<1>. QED
  BY <1>1 DEF CamReply, CamIInv, CamTypeOK, Keyed, Flushed, Running, CamListening

LEMMA StoreCorrect ==
  ASSUME CamIInv, CamListening, NEW changed \in [Hashes -> Mapping \cup {NoMapping}],
         \A h \in Hashes : changed[h] # NoMapping =>
           Settable(changed[h]) /\ ComputeHash(KeyOf(changed[h])) = h,
         Store(changed)
  PROVE  CamIInv'
<1>1. mappings' \in [Hashes -> Mapping \cup {NoMapping}] /\ Keyed'
  BY DEF Store, Keyed
<1>2. AllMappings' \in SUBSET Mapping
  BY <1>1 DEF AllMappings
<1>3. CamTypeOK'
  BY <1>1, <1>2 DEF Store, CamIInv, CamTypeOK, NoCamAnswer
<1>. QED
  BY <1>1, <1>3 DEF Store, CamIInv, Flushed, Running, CamListening

LEMMA CreateMappingCorrect ==
  ASSUME CamIInv, NEW m \in Mapping, CreateMapping(m)
  PROVE  CamIInv'
<1>1. CamListening /\ KeyOf(m) \in Key
  BY KeyOfType DEF CreateMapping
<1>2. CASE Settable(m) /\ Store(SetMapping(m))
  BY <1>1, <1>2, SetMappingCorrect, StoreCorrect DEF CamIInv
<1>3. CASE CamReply("BAD_FORMAT", {KeyOf(m)}, {}) \/ CamReply("ALREADY_EXISTS", {KeyOf(m)}, {})
  BY <1>1, <1>3, CamReplyCorrect
<1>. QED
  BY <1>2, <1>3 DEF CreateMapping

LEMMA ChangeCorrect ==
  ASSUME CamIInv, NEW key \in Key, NEW changed, Exists(key) => changed \in Mapping,
         Change(key, changed)
  PROVE  CamIInv'
<1>1. CASE Exists(key) /\ Settable(changed) /\ Store(SetMapping(changed))
  BY <1>1, SetMappingCorrect, StoreCorrect DEF CamIInv, Change
<1>2. CASE CamReply(IF Exists(key) THEN "BAD_FORMAT" ELSE "DOES_NOT_EXIST", {key}, {})
  BY <1>2, CamReplyCorrect
<1>. QED
  BY <1>1, <1>2 DEF Change

\* A mapping with one member replaced is a mapping.
LEMMA MemberChanges ==
  ASSUME CamTypeOK, NEW key \in Key, Exists(key)
  PROVE  LET old == mappings[ComputeHash(key)]
         IN  /\ old \in Mapping
             /\ \A port \in Ports : [old EXCEPT !.port = port, !.status = UNKNOWN] \in Mapping
             /\ \A credentialId \in Credentials :
                  [old EXCEPT !.credentialId = credentialId, !.status = UNKNOWN] \in Mapping
             /\ \A status \in {UNKNOWN, VALID, ERROR} : [old EXCEPT !.status = status] \in Mapping
             /\ \A extendedInfo \in Infos : [old EXCEPT !.extendedInfo = extendedInfo] \in Mapping
<1>1. mappings[ComputeHash(key)] \in Mapping
  BY HashType DEF Exists, CamTypeOK
<1>. QED
  BY <1>1 DEF Mapping

LEMMA RemoveMappingCorrect ==
  ASSUME CamIInv, NEW key \in Key, RemoveMapping(key)
  PROVE  CamIInv'
<1>1. CASE Store([mappings EXCEPT ![ComputeHash(key)] = NoMapping])
  <2> DEFINE changed == [mappings EXCEPT ![ComputeHash(key)] = NoMapping]
  <2>1. changed \in [Hashes -> Mapping \cup {NoMapping}]
    BY HashType DEF CamIInv, CamTypeOK
  <2>2. \A h \in Hashes : changed[h] # NoMapping =>
          Settable(changed[h]) /\ ComputeHash(KeyOf(changed[h])) = h
    BY DEF CamIInv, CamTypeOK, Keyed
  <2> HIDE DEF changed
  <2>3. Store(changed)
    BY <1>1 DEF changed
  <2>. QED
    BY <2>1, <2>2, <2>3, StoreCorrect DEF RemoveMapping
<1>2. CASE CamReply("DOES_NOT_EXIST", {key}, {})
  BY <1>2, CamReplyCorrect
<1>. QED
  BY <1>1, <1>2 DEF RemoveMapping

LEMMA GetMappingCorrect ==
  ASSUME CamIInv, NEW key \in Key, GetMapping(key)
  PROVE  CamIInv'
<1>1. Exists(key) => {mappings[ComputeHash(key)]} \in SUBSET Mapping
  BY HashType DEF Exists, CamIInv, CamTypeOK
<1>. QED
  BY <1>1, CamReplyCorrect DEF GetMapping

LEMMA ListsCorrect ==
  ASSUME CamIInv, NEW assetId, NEW serviceId, NEW credentialId,
         \/ GetAssetMappings(assetId) \/ GetMappings(assetId, serviceId)
         \/ GetCredentialMappings(credentialId) \/ GetAllMappings
  PROVE  CamIInv'
<1>1. AllMappings \in SUBSET Mapping
  BY AllMappingsType DEF CamIInv
<1>2. PICK found \in SUBSET Mapping : CamReply("OK", {}, found)
  BY <1>1 DEF GetAssetMappings, GetMappings, GetCredentialMappings, GetAllMappings
<1>. QED
  BY <1>2, CamReplyCorrect

-----------------------------------------------------------------------------
(* The requests of the accessor *)

NamesKey == {"UPDATE_MAPPING", "UPDATE_PORT_MAPPING", "UPDATE_CREDENTIAL_MAPPING",
             "UPDATE_STATUS_MAPPING", "UPDATE_INFO_MAPPING", "REMOVE_MAPPING", "GET_MAPPING"}

\* The members that a handler reads are those that the accessor has filled in.
LEMMA PayloadType ==
  ASSUME NEW c \in Calls
  PROVE  LET request == Payload(c)
             m       == request.mapping
         IN  /\ request.command \in {"CREATE_MAPPING", "UPDATE_MAPPING"} => m \in Mapping
             /\ request.command \in NamesKey => KeyOf(m) \in Key
             /\ request.command = "UPDATE_PORT_MAPPING" => m.port \in Ports
             /\ request.command = "UPDATE_CREDENTIAL_MAPPING" => m.credentialId \in Credentials
             /\ request.command = "UPDATE_STATUS_MAPPING" => m.status \in {UNKNOWN, VALID, ERROR}
             /\ request.command = "UPDATE_INFO_MAPPING" => m.extendedInfo \in Infos
<1> DEFINE m == Payload(c).mapping
<1>1. /\ c.method \in Methods /\ c.mapping \in Mapping
      /\ Payload(c).command = Command(c.method)
      /\ m = [f \in Members |-> IF f \in Sent(c.method) THEN c.mapping[f] ELSE DefaultMapping[f]]
  BY DEF Payload, Calls
<1>2. ASSUME NEW f \in Members, f \in Sent(c.method)
      PROVE  m[f] = c.mapping[f]
  BY <1>1, <1>2
<1> HIDE DEF m
<1>3. ASSUME Command(c.method) \in {"CREATE_MAPPING", "UPDATE_MAPPING"}
      PROVE  m \in Mapping
  <2>1. Sent(c.method) = Members
    BY <1>1, <1>3 DEF Command, Sent, Methods
  <2>2. m = [f \in Members |-> c.mapping[f]]
    BY <1>1, <2>1
  <2>. QED
    BY <1>1, <2>2 DEF Members, Named3, Mapping
<1>4. ASSUME Command(c.method) \in NamesKey
      PROVE  KeyOf(m) \in Key
  <2>1. Named3 \subseteq Sent(c.method)
    BY <1>1, <1>4 DEF Command, Sent, Methods, NamesKey, Members
  <2>2. m["assetId"] \in Assets /\ m["serviceId"] \in Services /\ m["protocol"] \in Protocols
    BY <1>1, <1>2, <2>1 DEF Members, Named3, Mapping
  <2>. QED
    BY <2>2 DEF KeyOf, Key
<1>5. Command(c.method) = "UPDATE_PORT_MAPPING" => m.port \in Ports
  BY <1>1, <1>2 DEF Command, Sent, Methods, Members, Mapping
<1>6. Command(c.method) = "UPDATE_CREDENTIAL_MAPPING" => m.credentialId \in Credentials
  BY <1>1, <1>2 DEF Command, Sent, Methods, Members, Mapping
<1>7. Command(c.method) = "UPDATE_STATUS_MAPPING" => m.status \in {UNKNOWN, VALID, ERROR}
  BY <1>1, <1>2 DEF Command, Sent, Methods, Members, Mapping
<1>8. Command(c.method) = "UPDATE_INFO_MAPPING" => m.extendedInfo \in Infos
  BY <1>1, <1>2 DEF Command, Sent, Methods, Members, Mapping
<1>. QED
  BY <1>1, <1>3, <1>4, <1>5, <1>6, <1>7, <1>8 DEF m

LEMMA HandleCorrect ==
  ASSUME CamIInv, NEW c \in Calls, Handle(Payload(c))
  PROVE  CamIInv'
<1> DEFINE request == Payload(c)
           m == request.mapping
           k == KeyOf(m)
<1>1. CASE request.command = "CREATE_MAPPING" /\ CreateMapping(m)
  BY <1>1, PayloadType, CreateMappingCorrect
<1>2. CASE request.command = "UPDATE_MAPPING" /\ UpdateMapping(m)
  BY <1>2, PayloadType, KeyOfType, ChangeCorrect DEF UpdateMapping
<1>3. CASE request.command = "UPDATE_PORT_MAPPING" /\ UpdatePort(k, m.port)
  BY <1>3, PayloadType, MemberChanges, ChangeCorrect DEF UpdatePort, NamesKey, CamIInv
<1>4. CASE request.command = "UPDATE_CREDENTIAL_MAPPING" /\ UpdateCredential(k, m.credentialId)
  BY <1>4, PayloadType, MemberChanges, ChangeCorrect DEF UpdateCredential, NamesKey, CamIInv
<1>5. CASE request.command = "UPDATE_STATUS_MAPPING" /\ UpdateStatus(k, m.status)
  BY <1>5, PayloadType, MemberChanges, ChangeCorrect DEF UpdateStatus, NamesKey, CamIInv
<1>6. CASE request.command = "UPDATE_INFO_MAPPING" /\ UpdateInfo(k, m.extendedInfo)
  BY <1>6, PayloadType, MemberChanges, ChangeCorrect DEF UpdateInfo, NamesKey, CamIInv
<1>7. CASE request.command = "REMOVE_MAPPING" /\ RemoveMapping(k)
  BY <1>7, PayloadType, RemoveMappingCorrect DEF NamesKey
<1>8. CASE request.command = "GET_MAPPING" /\ GetMapping(k)
  BY <1>8, PayloadType, GetMappingCorrect DEF NamesKey
<1>9. CASE \/ GetAssetMappings(m.assetId) \/ GetMappings(m.assetId, m.serviceId)
           \/ GetCredentialMappings(m.credentialId) \/ GetAllMappings
  BY <1>9, ListsCorrect
<1>. QED
  BY <1>1, <1>2, <1>3, <1>4, <1>5, <1>6, <1>7, <1>8, <1>9 DEF Handle

-----------------------------------------------------------------------------
(* The steps of the whole *)

LEMMA ClientsInitCorrect == ClientsInit => IInv
<1> SUFFICES ASSUME ClientsInit PROVE IInv
  OBVIOUS
<1>1. CamTypeOK /\ Keyed
  BY NoMappingsCorrect DEF ClientsInit, ReportedInit, CamInit, CamTypeOK, NotSaving, NoCamAnswer
<1>2. Flushed /\ Running
  BY DEF ClientsInit, ReportedInit, CamInit, Flushed, Running, CamListening, NotSaving
<1>3. MailTypeOK
  BY DEF ClientsInit, MailTypeOK
<1>. QED
  BY <1>1, <1>2, <1>3 DEF IInv, CamIInv

\* The server does not see the steps of the clients.
LEMMA QuietCorrect ==
  ASSUME CamIInv, camAnswer' = NoCamAnswer,
         UNCHANGED <<camProcess, camDatabase, mappings, saving>>
  PROVE  CamIInv'
<1>1. AllMappings' = AllMappings
  BY DEF AllMappings
<1>. QED
  BY <1>1 DEF CamIInv, CamTypeOK, Keyed, Flushed, Running, CamListening, NoCamAnswer

LEMMA CallCorrect ==
  ASSUME IInv, NEW u \in MappingUsers, Call(u)
  PROVE  IInv'
<1>1. PICK c \in UserCalls[u] : mailbox' = Append(mailbox, [from |-> u, call |-> c])
  BY DEF Call
<1>2. [from |-> u, call |-> c] \in Messages
  BY UsersAssumption DEF Messages, Calls
<1>3. MailTypeOK'
  BY <1>1, <1>2 DEF IInv, MailTypeOK
<1>. QED
  BY <1>3, QuietCorrect DEF IInv, Call, QuietServer

LEMMA ReceiveCorrect ==
  ASSUME IInv, NEW u \in MappingUsers, Receive(u)
  PROVE  IInv'
BY QuietCorrect DEF IInv, MailTypeOK, Receive, QuietServer

LEMMA TimeOutCorrect ==
  ASSUME IInv, NEW u \in MappingUsers, TimeOut(u)
  PROVE  IInv'
<1>1. ASSUME NEW message \in Messages
      PROVE  From(u, message) \in Messages
  BY DEF From, Messages
<1>2. mailbox' = [i \in DOMAIN mailbox |-> From(u, mailbox[i])]
  BY DEF TimeOut
<1>3. mailbox' \in Seq(Messages)
  BY <1>1, <1>2 DEF IInv, MailTypeOK
<1>. QED
  BY <1>3, QuietCorrect DEF IInv, MailTypeOK, TimeOut

LEMMA TakeCorrect ==
  ASSUME IInv, Take
  PROVE  IInv'
<1>1. Head(mailbox) \in Messages /\ mailbox' \in Seq(Messages)
  BY DEF IInv, MailTypeOK, Take
<1>2. Handle(Payload(Head(mailbox).call)) /\ Head(mailbox).call \in Calls
  BY <1>1 DEF Take, Messages
<1>. QED
  BY <1>1, <1>2, HandleCorrect DEF IInv, MailTypeOK

LEMMA ClientsNextCorrect == IInv /\ [ClientsNext]_clientVars => IInv'
<1> SUFFICES ASSUME IInv, [ClientsNext]_clientVars PROVE IInv'
  OBVIOUS
<1>1. ASSUME NEW u \in MappingUsers, Call(u) \/ Receive(u) \/ TimeOut(u)
      PROVE  IInv'
  BY <1>1, CallCorrect, ReceiveCorrect, TimeOutCorrect
<1>2. CASE Take
  BY <1>2, TakeCorrect
<1>3. CASE Open
  BY <1>3, OpenMappingsCorrect DEF Open, IInv, MailTypeOK
<1>4. CASE Write
  BY <1>4, WriteMappingsCorrect DEF Write, IInv, MailTypeOK
<1>5. CASE Serve
  BY <1>5, StartCamCorrect DEF Serve, IInv, MailTypeOK
<1>6. CASE Shut
  BY <1>6, StopCamCorrect DEF Shut, IInv, MailTypeOK
<1>7. CASE Die
  BY <1>7, CrashCamCorrect DEF Die, IInv, MailTypeOK
<1>8. CASE UNCHANGED clientVars
  <2>1. AllMappings' = AllMappings
    BY <1>8 DEF clientVars, reportedVars, camVars, AllMappings
  <2>. QED
    BY <1>8, <2>1 DEF clientVars, reportedVars, camVars, IInv, MailTypeOK, CamIInv, CamTypeOK,
                      Keyed, Flushed, Running, CamListening
<1>. QED
  BY <1>1, <1>2, <1>3, <1>4, <1>5, <1>6, <1>7, <1>8 DEF ClientsNext

LEMMA ClientsInvariant == ClientsSpec => []IInv
BY ClientsInitCorrect, ClientsNextCorrect, PTL DEF ClientsSpec

-----------------------------------------------------------------------------
\* The variables of the mapping server keep their types, whatever the clients
\* call, however late (CredentialAssetMappingServer and Storage).
THEOREM MappingTypeOK == ClientsSpec => []CamTypeOK
<1>1. IInv => CamTypeOK
  BY DEF IInv, CamIInv
<1>. QED
  BY <1>1, ClientsInvariant, PTL

\* As long as the writes to the mapping file succeed, which save does not look at:
\* whenever a request may come, a restart would find exactly the mappings in
\* memory, also if the hash confuses keys, as a load enters each mapping under the
\* hash it was stored under (CredentialAssetMappingStorage, constructor and save).
THEOREM RestartFindsMappings ==
  ASSUME ~MappingWritesFail
  PROVE  ClientsSpec => []RestartKeepsMappings
<1>1. IInv => RestartKeepsMappings
  BY LoadAllMappings DEF IInv, CamIInv, Flushed, RestartKeepsMappings
<1>. QED
  BY <1>1, ClientsInvariant, PTL

-----------------------------------------------------------------------------
(* What a status is about *)

LEMMA ReportsCorrect ==
  ASSUME StatusIsReported, reported' = Reports
  PROVE  StatusIsReported'
BY DEF StatusIsReported, Reports, PortAndCredential

LEMMA UnreportedCorrect ==
  ASSUME StatusIsReported, UNCHANGED <<mappings, reported>>
  PROVE  StatusIsReported'
BY DEF StatusIsReported, PortAndCredential

\* A handler that changes one member stores the mapping under the hash it had.
LEMMA ChangedPlace ==
  ASSUME CamIInv, NEW key \in Key, Exists(key), NEW changed \in Mapping,
         KeyOf(changed) = KeyOf(mappings[ComputeHash(key)])
  PROVE  SetMapping(changed) = [mappings EXCEPT ![ComputeHash(key)] = changed]
BY HashType DEF CamIInv, Keyed, Exists, SetMapping

\* A status that is about no credential any more has become UNKNOWN.
LEMMA ForgottenCorrect ==
  ASSUME CamIInv, StatusIsReported, NEW changed \in Mapping, changed.status = UNKNOWN,
         mappings' = SetMapping(changed), UNCHANGED reported
  PROVE  StatusIsReported'
<1>1. ASSUME NEW h \in Hashes
      PROVE  mappings'[h] = mappings[h] \/ mappings'[h] = changed
  BY DEF SetMapping, CamIInv, CamTypeOK
<1>. QED
  BY <1>1 DEF StatusIsReported, PortAndCredential

LEMMA HandleReports ==
  ASSUME CamIInv, StatusIsReported, NEW c \in Calls, Handle(Payload(c)),
         reported' = IF Payload(c).command \in Reporting THEN Reports ELSE reported
  PROVE  StatusIsReported'
<1> DEFINE request == Payload(c)
           m == request.mapping
           k == KeyOf(m)
           old == mappings[ComputeHash(k)]
<1>1. CASE request.command \in Reporting
  BY <1>1, ReportsCorrect
<1>2. CASE request.command \notin Reporting /\ UNCHANGED mappings
  BY <1>2, UnreportedCorrect
<1>3. CASE request.command = "UPDATE_PORT_MAPPING" /\ UpdatePort(k, m.port) /\ ~UNCHANGED mappings
  <2> DEFINE changed == [old EXCEPT !.port = m.port, !.status = UNKNOWN]
  <2>1. Exists(k) /\ mappings' = SetMapping(changed)
    BY <1>3 DEF UpdatePort, Change, Store, CamReply
  <2>2. changed \in Mapping
    BY <1>3, <2>1, PayloadType, MemberChanges DEF NamesKey, CamIInv
  <2>3. changed.status = UNKNOWN
    BY <1>3, <2>1, PayloadType, MemberChanges DEF NamesKey, CamIInv, Mapping
  <2>4. UNCHANGED reported
    BY <1>3 DEF Reporting
  <2>. QED
    BY <2>1, <2>2, <2>3, <2>4, ForgottenCorrect
<1>4. CASE /\ request.command = "UPDATE_CREDENTIAL_MAPPING"
           /\ UpdateCredential(k, m.credentialId) /\ ~UNCHANGED mappings
  <2> DEFINE changed == [old EXCEPT !.credentialId = m.credentialId, !.status = UNKNOWN]
  <2>1. Exists(k) /\ mappings' = SetMapping(changed)
    BY <1>4 DEF UpdateCredential, Change, Store, CamReply
  <2>2. changed \in Mapping
    BY <1>4, <2>1, PayloadType, MemberChanges DEF NamesKey, CamIInv
  <2>3. changed.status = UNKNOWN
    BY <1>4, <2>1, PayloadType, MemberChanges DEF NamesKey, CamIInv, Mapping
  <2>4. UNCHANGED reported
    BY <1>4 DEF Reporting
  <2>. QED
    BY <2>1, <2>2, <2>3, <2>4, ForgottenCorrect
<1>5. CASE request.command = "UPDATE_INFO_MAPPING" /\ UpdateInfo(k, m.extendedInfo) /\ ~UNCHANGED mappings
  <2> DEFINE changed == [old EXCEPT !.extendedInfo = m.extendedInfo]
  <2>1. Exists(k) /\ mappings' = SetMapping(changed)
    BY <1>5 DEF UpdateInfo, Change, Store, CamReply
  <2>2. changed \in Mapping /\ old \in Mapping /\ k \in Key
    BY <1>5, <2>1, PayloadType, MemberChanges DEF NamesKey, CamIInv
  <2>3. /\ KeyOf(changed) = KeyOf(old)
        /\ changed.port = old.port /\ changed.credentialId = old.credentialId
        /\ changed.status = old.status
    BY <2>2 DEF KeyOf, Mapping
  <2>4. mappings' = [mappings EXCEPT ![ComputeHash(k)] = changed]
    BY <2>1, <2>2, <2>3, ChangedPlace
  <2>5. UNCHANGED reported
    BY <1>5 DEF Reporting
  <2>6. changed # NoMapping /\ old # NoMapping
    BY <2>2, NoMappingAssumption
  <2>7. mappings \in [Hashes -> Mapping \cup {NoMapping}] /\ ComputeHash(k) \in Hashes
    BY <2>2, HashType DEF CamIInv, CamTypeOK
  <2> HIDE DEF changed
  <2>. QED
    BY <2>3, <2>4, <2>5, <2>6, <2>7 DEF StatusIsReported, PortAndCredential
<1>6. CASE request.command = "REMOVE_MAPPING" /\ RemoveMapping(k) /\ ~UNCHANGED mappings
  <2>1. mappings' = [mappings EXCEPT ![ComputeHash(k)] = NoMapping]
    BY <1>6 DEF RemoveMapping, Store, CamReply
  <2>2. UNCHANGED reported
    BY <1>6 DEF Reporting
  <2>3. mappings \in [Hashes -> Mapping \cup {NoMapping}]
    BY DEF CamIInv, CamTypeOK
  <2>. QED
    BY <2>1, <2>2, <2>3 DEF StatusIsReported, PortAndCredential
<1>7. CASE \/ GetMapping(k) \/ GetAssetMappings(m.assetId) \/ GetMappings(m.assetId, m.serviceId)
           \/ GetAllMappings \/ GetCredentialMappings(m.credentialId)
  <2>1. UNCHANGED mappings
    BY <1>7 DEF GetMapping, GetAssetMappings, GetMappings, GetAllMappings, GetCredentialMappings,
                CamReply
  <2>. QED
    BY <1>1, <1>2, <2>1
<1>8. request.command \in {"CREATE_MAPPING", "UPDATE_MAPPING", "UPDATE_STATUS_MAPPING"}
        => request.command \in Reporting
  BY DEF Reporting
<1> HIDE DEF request, m, k, old
<1>. QED
  BY <1>1, <1>2, <1>3, <1>4, <1>5, <1>6, <1>7, <1>8 DEF Handle, request, m, k

\* While some clients report statuses and others replace the credential or the port,
\* a status that is not UNKNOWN was given, or loaded, while the mapping had the
\* port and the credential it has, also when saves fail
\* (handleUpdatePortMapping, handleUpdateCredentialMapping).
THEOREM StatusAlwaysReported == ClientsSpec => []StatusIsReported
<1>1. ClientsInit => StatusIsReported
  BY DEF ClientsInit, ReportedInit, CamInit, NoMappings, StatusIsReported
<1>2. IInv /\ StatusIsReported /\ [ClientsNext]_clientVars => StatusIsReported'
  <2> SUFFICES ASSUME IInv, StatusIsReported, [ClientsNext]_clientVars PROVE StatusIsReported'
    OBVIOUS
  <2>1. CASE UNCHANGED <<mappings, reported>>
    BY <2>1, UnreportedCorrect
  <2>2. CASE Take
    <3>1. Head(mailbox) \in Messages
      BY <2>2 DEF IInv, MailTypeOK, Take
    <3>2. Handle(Payload(Head(mailbox).call)) /\ Head(mailbox).call \in Calls
      BY <2>2, <3>1 DEF Take, Messages
    <3>. QED
      BY <2>2, <3>2, HandleReports DEF Take, IInv
  <2>3. CASE Serve
    BY <2>3, ReportsCorrect DEF Serve
  <2>4. CASE Shut \/ Die
    BY <2>4 DEF Shut, StopCam, Die, CrashCam, HaltCam, NoMappings, StatusIsReported
  <2>5. ASSUME NEW u \in MappingUsers, Call(u) \/ Receive(u) \/ TimeOut(u)
        PROVE  UNCHANGED <<mappings, reported>>
    BY <2>5 DEF Call, Receive, TimeOut, QuietServer
  <2>6. ASSUME Open \/ Write
        PROVE  UNCHANGED <<mappings, reported>>
    BY <2>6 DEF Open, OpenMappings, Write, WriteMappings, SaveEnds
  <2>7. ASSUME UNCHANGED clientVars
        PROVE  UNCHANGED <<mappings, reported>>
    BY <2>7 DEF clientVars, reportedVars, camVars
  <2>. QED
    BY <2>1, <2>2, <2>3, <2>4, <2>5, <2>6, <2>7 DEF ClientsNext
<1>. QED
  BY <1>1, <1>2, ClientsInvariant, PTL DEF ClientsSpec

-----------------------------------------------------------------------------
(* When computeHash tells the keys apart *)

\* No two keys have one hash.
Injective == \A k, l \in Key : ComputeHash(k) = ComputeHash(l) => k = l

\* The ids are made of pieces of text; no asset id has the mark of the service in
\* it, and no service id that of the protocol.
Separated(Piece) ==
  /\ Assets \subseteq Seq(Piece) /\ Services \subseteq Seq(Piece) /\ Protocols \subseteq Seq(Piece)
  /\ \A a \in Assets : \A i \in DOMAIN a : a[i] # ServiceMark
  /\ \A s \in Services : \A i \in DOMAIN s : s[i] # ProtocolMark

\* Texts and their concatenation, of which the following needs these facts only.
TextOf(T)    == Seq(T)
Joined(a, b) == a \o b
Lacks(a, mark) == \A i \in DOMAIN a : a[i] # mark

LEMMA JoinedIsText ==
  ASSUME NEW T, NEW a \in TextOf(T), NEW b \in TextOf(T)
  PROVE  Joined(a, b) \in TextOf(T)
BY ConcatProperties DEF TextOf, Joined

LEMMA JoinedInOrder ==
  ASSUME NEW T, NEW a \in TextOf(T), NEW b \in TextOf(T), NEW c \in TextOf(T)
  PROVE  Joined(Joined(a, b), c) = Joined(a, Joined(b, c))
BY ConcatAssociative DEF TextOf, Joined

LEMMA JoinedCancels ==
  ASSUME NEW T, NEW a \in TextOf(T), NEW b \in TextOf(T), NEW c \in TextOf(T),
         Joined(a, b) = Joined(a, c)
  PROVE  b = c
BY ConcatSimplifications DEF TextOf, Joined

LEMMA MarkIsText ==
  ASSUME NEW T, NEW mark \in T
  PROVE  <<mark>> \in TextOf(T)
BY DEF TextOf

LEMMA JoinedBegins ==
  ASSUME NEW T, NEW a \in TextOf(T), NEW b \in TextOf(T), NEW i \in 1 .. Len(a)
  PROVE  Joined(a, b)[i] = a[i]
<1>1. i \in 1 .. Len(a) + Len(b) /\ i <= Len(a)
  BY LenProperties DEF TextOf
<1>. QED
  BY <1>1, ConcatProperties DEF TextOf, Joined

LEMMA JoinedGoesOn ==
  ASSUME NEW T, NEW a \in TextOf(T), NEW b \in TextOf(T), b # << >>
  PROVE  Joined(a, b)[Len(a) + 1] = b[1]
<1>1. Len(a) \in Nat /\ Len(b) \in Nat /\ Len(b) # 0
  BY LenProperties, EmptySeq DEF TextOf
<1>2. Len(a) + 1 \in 1 .. Len(a) + Len(b) /\ ~(Len(a) + 1 <= Len(a)) /\ (Len(a) + 1) - Len(a) = 1
  BY <1>1
<1>3. \A i \in 1 .. Len(a) + Len(b) :
        (a \o b)[i] = IF i <= Len(a) THEN a[i] ELSE b[i - Len(a)]
  BY ConcatProperties DEF TextOf
<1>. QED
  BY <1>2, <1>3 DEF Joined

LEMMA MarkBegins ==
  ASSUME NEW T, NEW mark \in T, NEW r \in TextOf(T)
  PROVE  Joined(<<mark>>, r) # << >> /\ Joined(<<mark>>, r)[1] = mark
<1>1. <<mark>> \in TextOf(T) /\ Len(<<mark>>) = 1 /\ 1 \in 1 .. Len(<<mark>>) /\ <<mark>>[1] = mark
  BY DEF TextOf
<1>2. Joined(<<mark>>, r)[1] = mark
  BY <1>1, JoinedBegins
<1>3. Joined(<<mark>>, r) # << >>
  BY <1>1, ConcatEqualIffEmpty DEF Joined, TextOf
<1>. QED
  BY <1>2, <1>3

LEMMA NeitherLess == ASSUME NEW m \in Nat, NEW n \in Nat, ~(m < n), ~(n < m) PROVE m = n
OBVIOUS

LEMMA MarkEnds ==
  ASSUME NEW T, NEW mark, NEW a \in TextOf(T), NEW b \in TextOf(T), NEW all,
         Lacks(b, mark), all[Len(a) + 1] = mark, \A i \in 1 .. Len(b) : all[i] = b[i]
  PROVE  ~(Len(a) < Len(b))
<1>1. /\ Len(a) \in Nat /\ Len(b) \in Nat /\ DOMAIN b = 1 .. Len(b)
  BY LenProperties DEF TextOf
<1> SUFFICES ASSUME Len(a) < Len(b) PROVE FALSE
  OBVIOUS
<1>2. Len(a) + 1 \in 1 .. Len(b)
  BY <1>1
<1>. QED
  BY <1>1, <1>2 DEF Lacks

LEMMA FirstMark ==
  ASSUME NEW T, NEW mark, NEW a \in TextOf(T), NEW b \in TextOf(T), NEW all,
         Lacks(a, mark), all[Len(a) + 1] = mark, \A i \in 1 .. Len(a) : all[i] = a[i],
         Lacks(b, mark), all[Len(b) + 1] = mark, \A i \in 1 .. Len(b) : all[i] = b[i]
  PROVE  a = b
<1>1. Len(a) \in Nat /\ Len(b) \in Nat
  BY LenProperties DEF TextOf
<1>2. ~(Len(a) < Len(b)) /\ ~(Len(b) < Len(a))
  BY MarkEnds
<1>3. Len(a) = Len(b)
  BY <1>1, <1>2, NeitherLess, Zenon
<1>4. \A i \in 1 .. Len(a) : a[i] = b[i]
  BY <1>3
<1>. QED
  BY <1>3, <1>4, SeqEqual DEF TextOf

\* Two texts that are the same are the same before the first mark, and after it.
LEMMA MarkSplits ==
  ASSUME NEW T, NEW mark \in T, NEW a \in TextOf(T), NEW b \in TextOf(T),
         NEW r \in TextOf(T), NEW q \in TextOf(T), Lacks(a, mark), Lacks(b, mark),
         Joined(a, Joined(<<mark>>, r)) = Joined(b, Joined(<<mark>>, q))
  PROVE  a = b /\ r = q
<1> DEFINE left == Joined(<<mark>>, r)
           right == Joined(<<mark>>, q)
           all == Joined(a, left)
<1>1. /\ left \in TextOf(T) /\ left # << >> /\ left[1] = mark
      /\ right \in TextOf(T) /\ right # << >> /\ right[1] = mark /\ <<mark>> \in TextOf(T)
  BY MarkIsText, MarkBegins, JoinedIsText
<1>2. all = Joined(b, right)
  OBVIOUS
<1>3. left = right => r = q
  BY <1>1, JoinedCancels
<1> HIDE DEF left, right
<1>4. all[Len(a) + 1] = mark /\ \A i \in 1 .. Len(a) : all[i] = a[i]
  BY <1>1, JoinedBegins, JoinedGoesOn
<1>5. all[Len(b) + 1] = mark /\ \A i \in 1 .. Len(b) : all[i] = b[i]
  BY <1>1, <1>2, JoinedBegins, JoinedGoesOn
<1>6. a = b
  <2> HIDE DEF all
  <2>. QED
    BY <1>4, <1>5, FirstMark
<1>7. left = right
  BY <1>1, <1>2, <1>6, JoinedCancels
<1>. QED
  BY <1>3, <1>6, <1>7

\* computeHash joins from the left; grouped from the right, each id ends at a mark.
LEMMA JoinedFromTheRight ==
  ASSUME NEW T, NEW x \in TextOf(T), NEW a \in TextOf(T), NEW y \in TextOf(T),
         NEW s \in TextOf(T), NEW z \in TextOf(T), NEW p \in TextOf(T)
  PROVE  Joined(Joined(Joined(Joined(Joined(x, a), y), s), z), p) =
           Joined(x, Joined(a, Joined(y, Joined(s, Joined(z, p)))))
<1> DEFINE zp == Joined(z, p)
           szp == Joined(s, zp)
           xa == Joined(x, a)
           xay == Joined(xa, y)
           xays == Joined(xay, s)
           yszp == Joined(y, szp)
<1>1. zp \in TextOf(T) /\ xa \in TextOf(T)
  BY JoinedIsText
<1>2. szp \in TextOf(T) /\ xay \in TextOf(T)
  BY <1>1, JoinedIsText
<1>3. xays \in TextOf(T) /\ yszp \in TextOf(T)
  BY <1>2, JoinedIsText
<1>4. Joined(Joined(xays, z), p) = Joined(xays, zp)
  BY <1>3, JoinedInOrder
<1>5. Joined(xays, zp) = Joined(xay, szp)
  BY <1>1, <1>2, JoinedInOrder
<1>6. Joined(xay, szp) = Joined(xa, yszp)
  BY <1>1, <1>2, JoinedInOrder
<1>7. Joined(xa, yszp) = Joined(x, Joined(a, yszp))
  BY <1>3, JoinedInOrder
<1>. QED
  BY <1>4, <1>5, <1>6, <1>7

\* computeHash tells every two keys apart, when no id has a mark in it: no two
\* mappings are then stored under one hash.
THEOREM HashTellsKeysApart ==
  ASSUME NEW Piece, Separated(Piece)
  PROVE  Injective
<1> DEFINE T == Piece \cup {"A", ServiceMark, ProtocolMark}
<1> SUFFICES ASSUME NEW k \in Key, NEW l \in Key, ComputeHash(k) = ComputeHash(l)
             PROVE  k = l
  BY DEF Injective
<1>1. "A" \in T /\ ServiceMark \in T /\ ProtocolMark \in T /\ Piece \subseteq T
  OBVIOUS
<1> HIDE DEF T
<1>2. <<"A">> \in TextOf(T) /\ <<ServiceMark>> \in TextOf(T) /\ <<ProtocolMark>> \in TextOf(T)
  BY <1>1, MarkIsText
<1> DEFINE end(j)  == Joined(j.serviceId, Joined(<<ProtocolMark>>, j.protocol))
           text(j) == Joined(j.assetId, Joined(<<ServiceMark>>, end(j)))
<1>3. ASSUME NEW j \in Key
      PROVE  /\ j.assetId \in TextOf(T) /\ j.serviceId \in TextOf(T) /\ j.protocol \in TextOf(T)
             /\ Lacks(j.assetId, ServiceMark) /\ Lacks(j.serviceId, ProtocolMark)
  <2>1. j.assetId \in Assets /\ j.serviceId \in Services /\ j.protocol \in Protocols
    BY DEF Key
  <2>2. j.assetId \in Seq(Piece) /\ j.serviceId \in Seq(Piece) /\ j.protocol \in Seq(Piece)
    BY <2>1 DEF Separated
  <2>3. j.assetId \in TextOf(T) /\ j.serviceId \in TextOf(T) /\ j.protocol \in TextOf(T)
    BY <1>1, <2>2, SeqMonotonic DEF TextOf
  <2>. QED
    BY <2>1, <2>3 DEF Separated, Lacks
<1>4. ASSUME NEW j \in Key
      PROVE  end(j) \in TextOf(T) /\ text(j) \in TextOf(T)
  <2>1. end(j) \in TextOf(T)
    BY <1>2, <1>3, JoinedIsText
  <2> HIDE DEF end
  <2>. QED
    BY <1>2, <1>3, <2>1, JoinedIsText
<1>5. ASSUME NEW j \in Key
      PROVE  ComputeHash(j) = Joined(<<"A">>, text(j))
  <2>1. ComputeHash(j) = Joined(Joined(Joined(Joined(Joined(<<"A">>, j.assetId), <<ServiceMark>>),
                                              j.serviceId), <<ProtocolMark>>), j.protocol)
    BY Zenon DEF ComputeHash, Joined
  <2> DEFINE x == <<"A">>
             y == <<ServiceMark>>
             z == <<ProtocolMark>>
  <2>2. x \in TextOf(T) /\ y \in TextOf(T) /\ z \in TextOf(T)
    BY <1>2
  <2>3. ComputeHash(j) = Joined(Joined(Joined(Joined(Joined(x, j.assetId), y), j.serviceId), z), j.protocol)
    BY <2>1
  <2> HIDE DEF x, y, z
  <2>4. ComputeHash(j) = Joined(x, Joined(j.assetId, Joined(y, Joined(j.serviceId, Joined(z, j.protocol)))))
    <3>1. PICK a \in TextOf(T), s \in TextOf(T), p \in TextOf(T) :
            a = j.assetId /\ s = j.serviceId /\ p = j.protocol
      BY <1>3
    <3>2. Joined(Joined(Joined(Joined(Joined(x, a), y), s), z), p) =
            Joined(x, Joined(a, Joined(y, Joined(s, Joined(z, p)))))
      BY <2>2, JoinedFromTheRight
    <3>. QED
      BY <2>3, <3>1, <3>2
  <2>. QED
    BY <2>4 DEF x, y, z
<1>6. text(k) = text(l)
  <2>1. Joined(<<"A">>, text(k)) = Joined(<<"A">>, text(l))
    BY <1>5
  <2> HIDE DEF text
  <2>. QED
    BY <1>2, <1>4, <2>1, JoinedCancels
<1>7. k.assetId = l.assetId /\ end(k) = end(l)
  <2>1. end(k) \in TextOf(T) /\ end(l) \in TextOf(T)
    BY <1>4
  <2> HIDE DEF end
  <2>. QED
    BY <1>1, <1>3, <1>6, <2>1, MarkSplits
<1>8. k.serviceId = l.serviceId /\ k.protocol = l.protocol
  BY <1>1, <1>3, <1>7, MarkSplits
<1>. QED
  BY <1>7, <1>8 DEF Key

-----------------------------------------------------------------------------
(* What an answer is about *)

\* What is not found under its hash is stored nowhere.
LEMMA MissingIsMissing ==
  ASSUME CamIInv, NEW key \in Key, ~Exists(key), CamReply("DOES_NOT_EXIST", {key}, {})
  PROVE  AnswersAreAboutAsked'
<1>1. ASSUME NEW m \in AllMappings
      PROVE  KeyOf(m) # key
  BY DEF AllMappings, CamIInv, Keyed, Exists
<1>2. AllMappings' = AllMappings
  BY DEF CamReply, AllMappings
<1>. QED
  BY <1>1, <1>2 DEF CamReply, AnswersAreAboutAsked

LEMMA RefusedCorrect ==
  ASSUME NEW status \in {"BAD_FORMAT", "ALREADY_EXISTS"}, NEW key, CamReply(status, {key}, {})
  PROVE  AnswersAreAboutAsked'
BY DEF CamReply, AnswersAreAboutAsked

LEMMA ChangeAnswers ==
  ASSUME CamIInv, NEW key \in Key, NEW changed, Change(key, changed)
  PROVE  AnswersAreAboutAsked'
<1>1. CASE Exists(key) /\ Settable(changed) /\ Store(SetMapping(changed))
  BY <1>1 DEF Store, NoCamAnswer, AnswersAreAboutAsked
<1>2. CASE Exists(key) /\ CamReply("BAD_FORMAT", {key}, {})
  BY <1>2, RefusedCorrect
<1>3. CASE ~Exists(key) /\ CamReply("DOES_NOT_EXIST", {key}, {})
  BY <1>3, MissingIsMissing
<1>. QED
  BY <1>1, <1>2, <1>3 DEF Change

LEMMA HandleAnswers ==
  ASSUME CamIInv, Injective, NEW c \in Calls, Handle(Payload(c))
  PROVE  AnswersAreAboutAsked'
<1> DEFINE request == Payload(c)
           m == request.mapping
           k == KeyOf(m)
<1>1. CASE CreateMapping(m)
  <2>1. CASE Store(SetMapping(m))
    BY <2>1 DEF Store, NoCamAnswer, AnswersAreAboutAsked
  <2>2. CASE CamReply("BAD_FORMAT", {k}, {}) \/ CamReply("ALREADY_EXISTS", {k}, {})
    BY <2>2, RefusedCorrect
  <2>. QED
    BY <1>1, <2>1, <2>2 DEF CreateMapping
<1>2. ASSUME request.command \in NamesKey
      PROVE  k \in Key
  BY <1>2, PayloadType
<1>3. CASE request.command = "UPDATE_MAPPING" /\ UpdateMapping(m)
  BY <1>2, <1>3, ChangeAnswers DEF UpdateMapping, NamesKey
<1>4. CASE request.command = "UPDATE_PORT_MAPPING" /\ UpdatePort(k, m.port)
  BY <1>2, <1>4, ChangeAnswers DEF UpdatePort, NamesKey
<1>5. CASE request.command = "UPDATE_CREDENTIAL_MAPPING" /\ UpdateCredential(k, m.credentialId)
  BY <1>2, <1>5, ChangeAnswers DEF UpdateCredential, NamesKey
<1>6. CASE request.command = "UPDATE_STATUS_MAPPING" /\ UpdateStatus(k, m.status)
  BY <1>2, <1>6, ChangeAnswers DEF UpdateStatus, NamesKey
<1>7. CASE request.command = "UPDATE_INFO_MAPPING" /\ UpdateInfo(k, m.extendedInfo)
  BY <1>2, <1>7, ChangeAnswers DEF UpdateInfo, NamesKey
<1>8. CASE request.command = "REMOVE_MAPPING" /\ RemoveMapping(k)
  <2>1. CASE Store([mappings EXCEPT ![ComputeHash(k)] = NoMapping])
    BY <2>1 DEF Store, NoCamAnswer, AnswersAreAboutAsked
  <2>2. CASE ~Exists(k) /\ CamReply("DOES_NOT_EXIST", {k}, {})
    BY <1>2, <1>8, <2>2, MissingIsMissing DEF NamesKey
  <2>. QED
    BY <1>8, <2>1, <2>2 DEF RemoveMapping
<1>9. CASE request.command = "GET_MAPPING" /\ GetMapping(k)
  <2>1. CASE Exists(k) /\ CamReply("OK", {k}, {mappings[ComputeHash(k)]})
    <3>1. k \in Key /\ ComputeHash(k) \in Hashes
      BY <1>2, <1>9, HashType DEF NamesKey
    <3>2. mappings[ComputeHash(k)] \in Mapping
      BY <2>1, <3>1 DEF Exists, CamIInv, CamTypeOK
    <3>3. ComputeHash(KeyOf(mappings[ComputeHash(k)])) = ComputeHash(k)
      BY <2>1, <3>1 DEF Exists, CamIInv, Keyed
    <3>4. KeyOf(mappings[ComputeHash(k)]) = k
      BY <3>1, <3>2, <3>3, KeyOfType DEF Injective
    <3> HIDE DEF k
    <3>. QED
      BY <2>1, <3>4 DEF CamReply, AnswersAreAboutAsked
  <2>2. CASE ~Exists(k) /\ CamReply("DOES_NOT_EXIST", {k}, {})
    BY <1>2, <1>9, <2>2, MissingIsMissing DEF NamesKey
  <2>. QED
    BY <1>9, <2>1, <2>2 DEF GetMapping
<1>10. CASE \/ GetAssetMappings(m.assetId) \/ GetMappings(m.assetId, m.serviceId)
            \/ GetAllMappings \/ GetCredentialMappings(m.credentialId)
  <2>1. camAnswer'.asked = {}
    BY <1>10 DEF GetAssetMappings, GetMappings, GetAllMappings, GetCredentialMappings, CamReply
  <2>. QED
    BY <2>1 DEF AnswersAreAboutAsked
<1>. QED
  BY <1>1, <1>3, <1>4, <1>5, <1>6, <1>7, <1>8, <1>9, <1>10 DEF Handle

\* As long as the hash tells the keys apart, a mapping that is found is the one
\* that was asked for, and one that is said not to exist is stored nowhere; the
\* separators of computeHash do not ensure it for all ids
\* (CredentialAssetMappingStorage::computeHash, getMapping, isMappingExisting).
THEOREM AnswersAlwaysAboutAsked ==
  ASSUME Injective
  PROVE  ClientsSpec => []AnswersAreAboutAsked
<1>1. ClientsInit => AnswersAreAboutAsked
  BY DEF ClientsInit, ReportedInit, CamInit, NoCamAnswer, AnswersAreAboutAsked
<1>2. IInv /\ AnswersAreAboutAsked /\ [ClientsNext]_clientVars => AnswersAreAboutAsked'
  <2> SUFFICES ASSUME IInv, AnswersAreAboutAsked, [ClientsNext]_clientVars
               PROVE  AnswersAreAboutAsked'
    OBVIOUS
  <2>1. CASE camAnswer'.asked = {}
    BY <2>1 DEF AnswersAreAboutAsked
  <2>2. CASE Take
    <3>1. Head(mailbox) \in Messages
      BY <2>2 DEF IInv, MailTypeOK, Take
    <3>2. Handle(Payload(Head(mailbox).call)) /\ Head(mailbox).call \in Calls
      BY <2>2, <3>1 DEF Take, Messages
    <3>. QED
      BY <3>2, HandleAnswers DEF IInv
  <2>3. ASSUME NEW u \in MappingUsers, Call(u) \/ Receive(u) \/ TimeOut(u)
        PROVE  camAnswer'.asked = {}
    BY <2>3 DEF Call, Receive, TimeOut, QuietServer, NoCamAnswer
  <2>4. ASSUME Open \/ Write \/ Serve \/ Shut \/ Die
        PROVE  camAnswer'.asked = {}
    BY <2>4 DEF Open, OpenMappings, Write, WriteMappings, SaveEnds, Serve, StartCam, Shut, StopCam,
                Die, CrashCam, HaltCam, NoCamAnswer
  <2>5. CASE UNCHANGED clientVars
    <3>1. AllMappings' = AllMappings
      BY <2>5 DEF clientVars, reportedVars, camVars, AllMappings
    <3>. QED
      BY <2>5, <3>1 DEF clientVars, reportedVars, camVars, AnswersAreAboutAsked
  <2>. QED
    BY <2>1, <2>2, <2>3, <2>4, <2>5 DEF ClientsNext
<1>. QED
  BY <1>1, <1>2, ClientsInvariant, PTL DEF ClientsSpec

-----------------------------------------------------------------------------
(* What the clients are promised: the requests and the file *)

\* The mappings of a list are entered each under a key of its own.
Sound(list) ==
  \A m \in list : Settable(m) /\ \A n \in list : KeyOf(n) = KeyOf(m) => n = m

TableOf(list) ==
  [k \in Key |-> IF \E m \in list : KeyOf(m) = k THEN CHOOSE m \in list : KeyOf(m) = k ELSE NoMapping]

\* A file that is not whole holds nothing, and is being written, or not saved over.
WholeFile ==
  /\ Sound(camDatabase.content)
  /\ camDatabase.file # "written" => camDatabase.content = {}
  /\ saving.step = "open" => camDatabase.file # "torn"
  /\ saving.step = "write" => camDatabase.file = "torn"

Done == [status |-> "OK", found |-> {}]

\* Until the file is opened, the request under way would still have the effect that
\* the list has that is about to be written; a start writes what it has loaded.
Underway ==
  saving.step = "open" =>
    IF handling = {} THEN TableOf(saving.list) = DurableTable
    ELSE \A message \in handling :
           LET c == message.call
           IN  /\ c.method \in Service!Changing /\ Service!AnswerTo(c) = Done
               /\ TableOf(saving.list) =
                    [DurableTable EXCEPT ![Service!KeyOfCall(c)] = Service!Entry(c)]

\* A client that waits has one call, and one request at most, in one place.
InMail(u) == \E i \in DOMAIN mailbox : mailbox[i].from = u
InHand(u) == \E message \in handling : message.from = u

OneRequest(u) ==
  /\ user[u].step = "idle" => user[u] = NoUser /\ ~InMail(u) /\ ~InHand(u)
  /\ user[u].step = "waiting" =>
       \E c \in UserCalls[u] :
         /\ user[u].calls = {c}
         /\ \A i \in DOMAIN mailbox : mailbox[i].from = u => mailbox[i].call = c
         /\ \A message \in handling : message.from = u => message.call = c
  /\ \A i, j \in DOMAIN mailbox : mailbox[i].from = u /\ mailbox[j].from = u => i = j
  /\ InMail(u) => ~InHand(u)
  /\ user[u].reply # {} => ~InMail(u) /\ ~InHand(u)

Requests == [from : MappingUsers \cup {Nobody}, call : AllCalls]
Replies  == [frame : {"data", "ERROR"}, code : {GENERIC, MAPPING_DOES_NOT_EXIST, MAPPING_ALREADY_EXISTS},
             found : SUBSET Mapping]

Requested ==
  /\ user \in [MappingUsers -> [step : {"idle", "waiting"}, calls : SUBSET AllCalls, reply : SUBSET Replies]]
  /\ mailbox \in Seq(Requests)
  /\ handling = {} \/ \E message \in Requests : handling = {message}
  /\ handling # {} => saving.step # "idle" /\ camProcess = "serving"
  /\ \A u \in MappingUsers : OneRequest(u)

ServiceInv == IInv /\ WholeFile /\ Underway /\ Requested

\* The table of what is stored under the hashes, when they tell the keys apart.
LEMMA TableOfStored ==
  ASSUME Injective, NEW f \in [Hashes -> Mapping \cup {NoMapping}],
         \A h \in Hashes : f[h] # NoMapping => Settable(f[h]) /\ ComputeHash(KeyOf(f[h])) = h
  PROVE  LET list == {f[h] : h \in {x \in Hashes : f[x] # NoMapping}}
         IN  /\ Sound(list)
             /\ TableOf(list) = [k \in Key |-> f[ComputeHash(k)]]
<1> DEFINE list == {f[h] : h \in {x \in Hashes : f[x] # NoMapping}}
<1>1. ASSUME NEW m \in list
      PROVE  m \in Mapping /\ Settable(m) /\ f[ComputeHash(KeyOf(m))] = m
  OBVIOUS
<1>2. Sound(list)
  <2> HIDE DEF list
  <2>. QED
    BY <1>1 DEF Sound
<1>3. ASSUME NEW k \in Key
      PROVE  TableOf(list)[k] = f[ComputeHash(k)]
  <2> DEFINE Here(m) == KeyOf(m) = k
  <2>1. ASSUME NEW m \in list, Here(m)
        PROVE  m = f[ComputeHash(k)] /\ f[ComputeHash(k)] # NoMapping
    BY <1>1, <2>1, NoMappingAssumption
  <2>2. ASSUME f[ComputeHash(k)] # NoMapping
        PROVE  f[ComputeHash(k)] \in list /\ Here(f[ComputeHash(k)])
    <3>1. ComputeHash(k) \in Hashes
      BY HashType
    <3>2. f[ComputeHash(k)] \in list /\ ComputeHash(KeyOf(f[ComputeHash(k)])) = ComputeHash(k)
      BY <2>2, <3>1
    <3>3. KeyOf(f[ComputeHash(k)]) \in Key
      BY <1>1, <3>2, KeyOfType
    <3>. QED
      BY <3>2, <3>3 DEF Injective
  <2>3. TableOf(list)[k] = IF \E m \in list : Here(m) THEN CHOOSE m \in list : Here(m) ELSE NoMapping
    BY DEF TableOf
  <2> HIDE DEF list, Here
  <2>. QED
    BY <2>1, <2>2, <2>3
<1> HIDE DEF list
<1>4. TableOf(list) = [k \in Key |-> f[ComputeHash(k)]]
  BY <1>3 DEF TableOf
<1>. QED
  BY <1>2, <1>4 DEF list

\* Between two requests the table is what the server has in memory.
LEMMA ListeningTable ==
  ASSUME CamIInv, Injective, ~MappingWritesFail, CamListening
  PROVE  /\ DurableTable = [k \in Key |-> mappings[ComputeHash(k)]]
         /\ Service!Entries = AllMappings
         /\ \A k \in Key : Exists(k) => /\ KeyOf(mappings[ComputeHash(k)]) = k
                                        /\ Settable(mappings[ComputeHash(k)])
                                        /\ mappings[ComputeHash(k)] \in Mapping
<1>1. /\ mappings \in [Hashes -> Mapping \cup {NoMapping}]
      /\ \A h \in Hashes : mappings[h] # NoMapping =>
           Settable(mappings[h]) /\ ComputeHash(KeyOf(mappings[h])) = h
  BY DEF CamIInv, CamTypeOK, Keyed
<1>2. TableOf(AllMappings) = [k \in Key |-> mappings[ComputeHash(k)]]
  BY <1>1, TableOfStored DEF AllMappings
<1>3. DurableMappings = AllMappings
  BY DEF CamIInv, Flushed, DurableMappings, CamListening
<1>4. DurableTable = [k \in Key |-> mappings[ComputeHash(k)]]
  BY <1>2, <1>3 DEF DurableTable, TableOf
<1>5. ASSUME NEW k \in Key, Exists(k)
      PROVE  /\ KeyOf(mappings[ComputeHash(k)]) = k
             /\ Settable(mappings[ComputeHash(k)])
             /\ mappings[ComputeHash(k)] \in Mapping
  <2>1. ComputeHash(k) \in Hashes /\ mappings[ComputeHash(k)] # NoMapping
    BY <1>5, HashType DEF Exists
  <2>2. /\ mappings[ComputeHash(k)] \in Mapping /\ Settable(mappings[ComputeHash(k)])
        /\ ComputeHash(KeyOf(mappings[ComputeHash(k)])) = ComputeHash(k)
    BY <1>1, <2>1
  <2>. QED
    BY <2>2, KeyOfType DEF Injective
<1>6. Service!Entries = AllMappings
  <2>1. Service!Entries = {mappings[ComputeHash(k)] : k \in {j \in Key : mappings[ComputeHash(j)] # NoMapping}}
    BY <1>4 DEF Service!Entries
  <2>2. ASSUME NEW h \in Hashes, mappings[h] # NoMapping
        PROVE  \E k \in Key : mappings[h] = mappings[ComputeHash(k)] /\ mappings[ComputeHash(k)] # NoMapping
    <3>1. PICK k \in Key : h = ComputeHash(k)
      BY DEF Hashes
    <3>. QED
      BY <2>2, <3>1
  <2>3. \A k \in Key : ComputeHash(k) \in Hashes
    BY HashType
  <2>. QED
    BY <2>1, <2>2, <2>3 DEF AllMappings
<1>. QED
  BY <1>4, <1>5, <1>6

\* The members of a request that a handler reads are those of the call.
LEMMA PayloadOfCall ==
  ASSUME NEW c \in Calls
  PROVE  LET request == Payload(c)
             m       == request.mapping
         IN  /\ request.command = Command(c.method)
             /\ c.mapping \in Mapping /\ KeyOf(c.mapping) \in Key
             /\ request.command \in {"CREATE_MAPPING", "UPDATE_MAPPING"} => m = c.mapping
             /\ request.command \in NamesKey => KeyOf(m) = KeyOf(c.mapping)
             /\ request.command = "UPDATE_PORT_MAPPING" => m.port = c.mapping.port
             /\ request.command = "UPDATE_CREDENTIAL_MAPPING" => m.credentialId = c.mapping.credentialId
             /\ request.command = "UPDATE_STATUS_MAPPING" => m.status = c.mapping.status
             /\ request.command = "UPDATE_INFO_MAPPING" => m.extendedInfo = c.mapping.extendedInfo
             /\ request.command = "GET_ASSET_MAPPINGS" => m.assetId = c.mapping.assetId
             /\ request.command = "GET_MAPPINGS" =>
                  m.assetId = c.mapping.assetId /\ m.serviceId = c.mapping.serviceId
             /\ request.command = "GET_CRED_MAPPINGS" => m.credentialId = c.mapping.credentialId
<1> DEFINE m == Payload(c).mapping
<1>1. /\ c.method \in Methods /\ c.mapping \in Mapping
      /\ Payload(c).command = Command(c.method)
      /\ m = [f \in Members |-> IF f \in Sent(c.method) THEN c.mapping[f] ELSE DefaultMapping[f]]
  BY DEF Payload, Calls
<1>2. ASSUME NEW f \in Members, f \in Sent(c.method)
      PROVE  m[f] = c.mapping[f]
  BY <1>1, <1>2
<1> HIDE DEF m
<1>3. ASSUME Command(c.method) \in {"CREATE_MAPPING", "UPDATE_MAPPING"}
      PROVE  m = c.mapping
  <2>1. Sent(c.method) = Members
    BY <1>1, <1>3 DEF Command, Sent, Methods
  <2>2. m = [f \in Members |-> c.mapping[f]]
    BY <1>1, <2>1
  <2>. QED
    BY <1>1, <2>2 DEF Members, Named3, Mapping
<1>4. ASSUME Command(c.method) \in NamesKey
      PROVE  KeyOf(m) = KeyOf(c.mapping)
  <2>1. Named3 \subseteq Sent(c.method)
    BY <1>1, <1>4 DEF Command, Sent, Methods, NamesKey, Members
  <2>. QED
    BY <1>1, <1>2, <2>1 DEF Members, Named3, KeyOf
<1>5. /\ Command(c.method) = "UPDATE_PORT_MAPPING" => m.port = c.mapping.port
      /\ Command(c.method) = "UPDATE_CREDENTIAL_MAPPING" => m.credentialId = c.mapping.credentialId
      /\ Command(c.method) = "UPDATE_STATUS_MAPPING" => m.status = c.mapping.status
      /\ Command(c.method) = "UPDATE_INFO_MAPPING" => m.extendedInfo = c.mapping.extendedInfo
  BY <1>1, <1>2 DEF Command, Sent, Methods, Members
<1>6. /\ Command(c.method) = "GET_ASSET_MAPPINGS" => m.assetId = c.mapping.assetId
      /\ Command(c.method) = "GET_MAPPINGS" =>
           m.assetId = c.mapping.assetId /\ m.serviceId = c.mapping.serviceId
      /\ Command(c.method) = "GET_CRED_MAPPINGS" => m.credentialId = c.mapping.credentialId
  BY <1>1, <1>2 DEF Command, Sent, Methods, Members, Named3
<1>. QED
  BY <1>1, <1>3, <1>4, <1>5, <1>6, KeyOfType DEF m

\* What the service answers, when the server is at rest.
Refuses(status) == [status |-> status, found |-> {}]

LEMMA ServiceAnswers ==
  ASSUME CamIInv, Injective, ~MappingWritesFail, CamListening, NEW c \in Calls
  PROVE  LET k == KeyOf(c.mapping)
         IN  /\ Service!KeyOfCall(c) = k /\ k \in Key
             /\ DurableTable[k] = mappings[ComputeHash(k)]
             /\ c.method = "createMapping" =>
                  Service!AnswerTo(c) = IF Exists(k) THEN Refuses("ALREADY_EXISTS")
                                        ELSE IF AllNamed(k) THEN Done ELSE Refuses("BAD_FORMAT")
             /\ c.method \in Service!Changing \ {"createMapping"} =>
                  Service!AnswerTo(c) = IF Exists(k) THEN Done ELSE Refuses("DOES_NOT_EXIST")
             /\ c.method = "getMapping" =>
                  Service!AnswerTo(c) = IF Exists(k) THEN [status |-> "OK", found |-> {mappings[ComputeHash(k)]}]
                                        ELSE Refuses("DOES_NOT_EXIST")
             /\ c.method = "isMappingExisting" =>
                  Service!AnswerTo(c) = IF Exists(k) THEN [status |-> "OK", found |-> {mappings[ComputeHash(k)]}]
                                        ELSE Done
<1> DEFINE k == KeyOf(c.mapping)
<1>1. Service!KeyOfCall(c) = k /\ k \in Key
  BY KeyOfType DEF Service!KeyOfCall, KeyOf, Calls
<1>2. DurableTable[k] = mappings[ComputeHash(k)]
  BY <1>1, ListeningTable
<1>3. Service!Taken(c) <=> Exists(k)
  BY <1>1, <1>2 DEF Service!Taken, Exists
<1> HIDE DEF k
<1>4. c.method = "createMapping" =>
        Service!AnswerTo(c) = IF Exists(k) THEN Refuses("ALREADY_EXISTS")
                              ELSE IF AllNamed(k) THEN Done ELSE Refuses("BAD_FORMAT")
  BY <1>1, <1>3 DEF Service!AnswerTo, Refuses, Done
<1>5. c.method \in Service!Changing \ {"createMapping"} =>
        Service!AnswerTo(c) = IF Exists(k) THEN Done ELSE Refuses("DOES_NOT_EXIST")
  BY <1>1, <1>3 DEF Service!AnswerTo, Service!Changing, Refuses, Done
<1>6. c.method = "getMapping" =>
        Service!AnswerTo(c) = IF Exists(k) THEN [status |-> "OK", found |-> {mappings[ComputeHash(k)]}]
                              ELSE Refuses("DOES_NOT_EXIST")
  BY <1>1, <1>2, <1>3 DEF Service!AnswerTo, Service!Changing, Refuses
<1>7. c.method = "isMappingExisting" =>
        Service!AnswerTo(c) = IF Exists(k) THEN [status |-> "OK", found |-> {mappings[ComputeHash(k)]}]
                              ELSE Done
  BY <1>1, <1>2, <1>3 DEF Service!AnswerTo, Service!Changing, Done
<1>. QED
  BY <1>1, <1>2, <1>4, <1>5, <1>6, <1>7 DEF k

\* The request of call c is answered at once, as the service answers it now ...
Answered(c) ==
  /\ camAnswer'.status # "none" /\ UNCHANGED <<camProcess, camDatabase, mappings, saving>>
  /\ ReplyFrames(camAnswer') \in Replies
  /\ c.method \in Service!Changing => Service!AnswerTo(c).status # "OK"
  /\ Outcome(c, ReplyFrames(camAnswer')) = Service!AnswerTo(c)

\* ... or the save that ends it begins, of the table that the service has after it.
Stored(c) ==
  /\ camAnswer'.status = "none" /\ UNCHANGED <<camProcess, camDatabase>> /\ saving'.step = "open"
  /\ c.method \in Service!Changing /\ Service!AnswerTo(c) = Done
  /\ TableOf(saving'.list) = [DurableTable EXCEPT ![Service!KeyOfCall(c)] = Service!Entry(c)]

LEMMA StoresEntry ==
  ASSUME CamIInv, Injective, ~MappingWritesFail, CamListening, NEW c \in Calls,
         c.method \in Service!Changing, Service!AnswerTo(c) = Done,
         NEW entry \in Mapping \cup {NoMapping}, entry = Service!Entry(c),
         entry # NoMapping => Settable(entry) /\ KeyOf(entry) = KeyOf(c.mapping),
         Store([mappings EXCEPT ![ComputeHash(KeyOf(c.mapping))] = entry])
  PROVE  Stored(c)
<1> DEFINE k == KeyOf(c.mapping)
           changed == [mappings EXCEPT ![ComputeHash(k)] = entry]
<1>1. k \in Key /\ Service!KeyOfCall(c) = k /\ ComputeHash(k) \in Hashes
  BY ServiceAnswers, HashType
<1>2. mappings \in [Hashes -> Mapping \cup {NoMapping}]
      /\ \A h \in Hashes : mappings[h] # NoMapping =>
           Settable(mappings[h]) /\ ComputeHash(KeyOf(mappings[h])) = h
  BY DEF CamIInv, CamTypeOK, Keyed
<1>3. /\ changed \in [Hashes -> Mapping \cup {NoMapping}]
      /\ \A h \in Hashes : changed[h] # NoMapping =>
           Settable(changed[h]) /\ ComputeHash(KeyOf(changed[h])) = h
  <2> HIDE DEF k
  <2>1. entry # NoMapping => KeyOf(entry) = k
    BY DEF k
  <2>. QED
    BY <1>1, <1>2, <2>1
<1>4. \A j \in Key : changed[ComputeHash(j)] = IF j = k THEN entry ELSE mappings[ComputeHash(j)]
  <2> HIDE DEF k
  <2>. QED
    BY <1>1, <1>2, HashType DEF Injective
<1>5. mappings' = changed /\ saving' = [step |-> "open", list |-> AllMappings']
  BY DEF Store
<1> HIDE DEF changed
<1>6. TableOf({changed[h] : h \in {x \in Hashes : changed[x] # NoMapping}})
        = [j \in Key |-> changed[ComputeHash(j)]]
  BY <1>3, TableOfStored
<1>7. saving'.list = {changed[h] : h \in {x \in Hashes : changed[x] # NoMapping}}
  BY <1>5 DEF AllMappings
<1>8. DurableTable = [j \in Key |-> mappings[ComputeHash(j)]]
  BY ListeningTable
<1> HIDE DEF k
<1>9. TableOf(saving'.list) = [DurableTable EXCEPT ![k] = entry]
  BY <1>1, <1>4, <1>6, <1>7, <1>8
<1>. QED
  BY <1>1, <1>5, <1>9 DEF Store, Stored, NoCamAnswer

LEMMA RefusesCall ==
  ASSUME NEW c \in Calls, NEW asked, NEW status \in {"DOES_NOT_EXIST", "ALREADY_EXISTS", "BAD_FORMAT"},
         CamReply(status, asked, {}), c.method # "isMappingExisting",
         Service!AnswerTo(c) = Refuses(status)
  PROVE  Answered(c)
<1>1. camAnswer' = [status |-> status, asked |-> asked, found |-> {}]
      /\ UNCHANGED <<camProcess, camDatabase, mappings, saving>>
  BY DEF CamReply
<1>2. ReplyFrames(camAnswer') \in Replies /\ Outcome(c, ReplyFrames(camAnswer')) = Refuses(status)
  <2>1. CASE status = "DOES_NOT_EXIST"
    <3>1. ReplyFrames(camAnswer') = [frame |-> "ERROR", code |-> MAPPING_DOES_NOT_EXIST, found |-> {}]
      BY <1>1, <2>1 DEF ReplyFrames
    <3>. QED
      BY <2>1, <3>1 DEF Replies, Outcome, ThrownFor, Refuses, GENERIC, MAPPING_DOES_NOT_EXIST, MAPPING_ALREADY_EXISTS
  <2>2. CASE status = "ALREADY_EXISTS"
    <3>1. ReplyFrames(camAnswer') = [frame |-> "ERROR", code |-> MAPPING_ALREADY_EXISTS, found |-> {}]
      BY <1>1, <2>2 DEF ReplyFrames
    <3>. QED
      BY <2>2, <3>1 DEF Replies, Outcome, ThrownFor, Refuses, GENERIC, MAPPING_DOES_NOT_EXIST, MAPPING_ALREADY_EXISTS
  <2>3. CASE status = "BAD_FORMAT"
    <3>1. ReplyFrames(camAnswer') = [frame |-> "ERROR", code |-> GENERIC, found |-> {}]
      BY <1>1, <2>3 DEF ReplyFrames
    <3>. QED
      BY <2>3, <3>1 DEF Replies, Outcome, ThrownFor, Refuses, GENERIC, MAPPING_DOES_NOT_EXIST, MAPPING_ALREADY_EXISTS
  <2>. QED
    BY <2>1, <2>2, <2>3
<1>. QED
  BY <1>1, <1>2 DEF Answered, Refuses

LEMMA ReturnsFound ==
  ASSUME NEW c \in Calls, NEW asked, NEW found \in SUBSET Mapping, CamReply("OK", asked, found),
         c.method \notin Service!Changing,
         Service!AnswerTo(c) = [status |-> "OK", found |-> found]
  PROVE  Answered(c)
<1>1. camAnswer' = [status |-> "OK", asked |-> asked, found |-> found]
      /\ UNCHANGED <<camProcess, camDatabase, mappings, saving>>
  BY DEF CamReply
<1>2. ReplyFrames(camAnswer') = [frame |-> "data", code |-> GENERIC, found |-> found]
  BY <1>1 DEF ReplyFrames
<1>. QED
  BY <1>1, <1>2 DEF Answered, Outcome, Replies, GENERIC

\* isMappingExisting makes an answer of the exception that says no.
LEMMA ExistsNot ==
  ASSUME NEW c \in Calls, NEW asked, c.method = "isMappingExisting",
         CamReply("DOES_NOT_EXIST", asked, {}), Service!AnswerTo(c) = Done
  PROVE  Answered(c)
<1>1. camAnswer' = [status |-> "DOES_NOT_EXIST", asked |-> asked, found |-> {}]
      /\ UNCHANGED <<camProcess, camDatabase, mappings, saving>>
  BY DEF CamReply
<1>2. ReplyFrames(camAnswer') = [frame |-> "ERROR", code |-> MAPPING_DOES_NOT_EXIST, found |-> {}]
  BY <1>1 DEF ReplyFrames
<1>. QED
  BY <1>1, <1>2 DEF Answered, Outcome, Replies, ThrownFor, Done, Service!Changing,
                    GENERIC, MAPPING_DOES_NOT_EXIST, MAPPING_ALREADY_EXISTS

LEMMA CommandNames ==
  ASSUME NEW c \in Calls
  PROVE  /\ Command(c.method) = "CREATE_MAPPING" <=> c.method = "createMapping"
         /\ Command(c.method) = "UPDATE_MAPPING" <=> c.method = "updateMapping"
         /\ Command(c.method) = "UPDATE_PORT_MAPPING" <=> c.method = "updatePort"
         /\ Command(c.method) = "UPDATE_CREDENTIAL_MAPPING" <=> c.method = "updateCredentialId"
         /\ Command(c.method) = "UPDATE_STATUS_MAPPING" <=> c.method = "updateStatus"
         /\ Command(c.method) = "UPDATE_INFO_MAPPING" <=> c.method = "updateExtendedInfo"
         /\ Command(c.method) = "REMOVE_MAPPING" <=> c.method = "removeMapping"
         /\ Command(c.method) = "GET_MAPPING" <=> c.method \in {"getMapping", "isMappingExisting"}
         /\ Command(c.method) = "GET_ASSET_MAPPINGS" <=> c.method = "getAssetMappings"
         /\ Command(c.method) = "GET_MAPPINGS" <=> c.method = "getMappings"
         /\ Command(c.method) = "GET_ALL_MAPPINGS" <=> c.method = "getAllMappings"
         /\ Command(c.method) = "GET_CRED_MAPPINGS" <=> c.method = "getCredentialMappings"
BY DEF Calls, Methods, Command

\* A handler that changes an existing mapping.
LEMMA ChangeServed ==
  ASSUME CamIInv, Injective, ~MappingWritesFail, NEW c \in Calls, c.method \in Service!Changing \ {"createMapping", "removeMapping"},
         NEW changed, Change(KeyOf(c.mapping), changed),
         Exists(KeyOf(c.mapping)) =>
           /\ changed \in Mapping /\ KeyOf(changed) = KeyOf(c.mapping)
           /\ changed = Service!Entry(c)
  PROVE  Answered(c) \/ Stored(c)
<1> DEFINE k == KeyOf(c.mapping)
<1>1. CamListening
  BY DEF Change
<1>2. CASE Exists(k)
  <2>1. Settable(changed)
    <3>1. KeyOf(mappings[ComputeHash(k)]) = k /\ Settable(mappings[ComputeHash(k)])
      BY <1>1, <1>2, ListeningTable, ServiceAnswers
    <3>. QED
      BY <1>2, <3>1 DEF Settable, KeyOf
  <2>2. Store(SetMapping(changed))
    BY <1>2, <2>1 DEF Change
  <2>3. SetMapping(changed) = [mappings EXCEPT ![ComputeHash(k)] = changed]
    BY <1>2 DEF SetMapping
  <2>4. Service!AnswerTo(c) = Done
    BY <1>1, <1>2, ServiceAnswers
  <2>. QED
    BY <1>1, <1>2, <2>1, <2>2, <2>3, <2>4, StoresEntry, NoMappingAssumption
<1>3. CASE ~Exists(k)
  <2>1. CamReply("DOES_NOT_EXIST", {k}, {})
    BY <1>3 DEF Change
  <2>2. Service!AnswerTo(c) = Refuses("DOES_NOT_EXIST")
    BY <1>1, <1>3, ServiceAnswers
  <2>. QED
    BY <2>1, <2>2, RefusesCall DEF Service!Changing
<1>. QED
  BY <1>2, <1>3

LEMMA CreateServed ==
  ASSUME CamIInv, Injective, ~MappingWritesFail, NEW c \in Calls, c.method = "createMapping", CreateMapping(c.mapping)
  PROVE  Answered(c) \/ Stored(c)
<1> DEFINE k == KeyOf(c.mapping)
<1>1. CamListening /\ c.mapping \in Mapping /\ c.method \in Service!Changing
  BY DEF CreateMapping, Calls, Service!Changing
<1>2. AllNamed(k) <=> Settable(c.mapping)
  BY DEF AllNamed, KeyOf, Settable
<1>3. CASE ~Exists(k) /\ Settable(c.mapping) /\ Store(SetMapping(c.mapping))
  <2>1. Service!AnswerTo(c) = Done
    BY <1>1, <1>2, <1>3, ServiceAnswers
  <2>2. Service!Entry(c) = c.mapping
    BY DEF Service!Entry
  <2>. QED
    BY <1>1, <1>3, <2>1, <2>2, StoresEntry, NoMappingAssumption DEF SetMapping
<1>4. CASE ~Exists(k) /\ ~Settable(c.mapping) /\ CamReply("BAD_FORMAT", {k}, {})
  <2>1. Service!AnswerTo(c) = Refuses("BAD_FORMAT")
    BY <1>1, <1>2, <1>4, ServiceAnswers
  <2>. QED
    BY <1>4, <2>1, RefusesCall
<1>5. CASE Exists(k) /\ CamReply("ALREADY_EXISTS", {k}, {})
  <2>1. Service!AnswerTo(c) = Refuses("ALREADY_EXISTS")
    BY <1>1, <1>5, ServiceAnswers
  <2>. QED
    BY <1>5, <2>1, RefusesCall
<1>. QED
  BY <1>3, <1>4, <1>5 DEF CreateMapping

LEMMA RemoveServed ==
  ASSUME CamIInv, Injective, ~MappingWritesFail, NEW c \in Calls, c.method = "removeMapping", RemoveMapping(KeyOf(c.mapping))
  PROVE  Answered(c) \/ Stored(c)
<1> DEFINE k == KeyOf(c.mapping)
<1>1. CamListening /\ c.method \in Service!Changing \ {"createMapping"}
  BY DEF RemoveMapping, Service!Changing
<1>2. CASE Exists(k) /\ Store([mappings EXCEPT ![ComputeHash(k)] = NoMapping])
  <2>1. Service!AnswerTo(c) = Done
    BY <1>1, <1>2, ServiceAnswers
  <2>2. Service!Entry(c) = NoMapping
    BY DEF Service!Entry
  <2>. QED
    BY <1>1, <1>2, <2>1, <2>2, StoresEntry
<1>3. CASE ~Exists(k) /\ CamReply("DOES_NOT_EXIST", {k}, {})
  <2>1. Service!AnswerTo(c) = Refuses("DOES_NOT_EXIST")
    BY <1>1, <1>3, ServiceAnswers
  <2>. QED
    BY <1>3, <2>1, RefusesCall
<1>. QED
  BY <1>2, <1>3 DEF RemoveMapping

LEMMA GetServed ==
  ASSUME CamIInv, Injective, ~MappingWritesFail, NEW c \in Calls, c.method \in {"getMapping", "isMappingExisting"},
         GetMapping(KeyOf(c.mapping))
  PROVE  Answered(c)
<1> DEFINE k == KeyOf(c.mapping)
<1>1. CamListening /\ c.method \notin Service!Changing /\ k \in Key
  BY ServiceAnswers DEF GetMapping, Service!Changing
<1>2. CASE Exists(k) /\ CamReply("OK", {k}, {mappings[ComputeHash(k)]})
  <2>1. mappings[ComputeHash(k)] \in Mapping
    BY <1>1, <1>2, ListeningTable
  <2>2. Service!AnswerTo(c) = [status |-> "OK", found |-> {mappings[ComputeHash(k)]}]
    BY <1>1, <1>2, ServiceAnswers
  <2>. QED
    BY <1>1, <1>2, <2>1, <2>2, ReturnsFound
<1>3. CASE ~Exists(k) /\ CamReply("DOES_NOT_EXIST", {k}, {})
  <2>1. CASE c.method = "getMapping"
    <3>1. Service!AnswerTo(c) = Refuses("DOES_NOT_EXIST")
      BY <1>1, <1>3, <2>1, ServiceAnswers
    <3>. QED
      BY <1>3, <2>1, <3>1, RefusesCall
  <2>2. CASE c.method = "isMappingExisting"
    <3>1. Service!AnswerTo(c) = Done
      BY <1>1, <1>3, <2>2, ServiceAnswers
    <3>. QED
      BY <1>3, <2>2, <3>1, ExistsNot
  <2>. QED
    BY <2>1, <2>2
<1>. QED
  BY <1>2, <1>3 DEF GetMapping

Listing == {"getAllMappings", "getAssetMappings", "getMappings", "getCredentialMappings"}

LEMMA ListsServed ==
  ASSUME CamIInv, Injective, ~MappingWritesFail, NEW c \in Calls,
         \/ c.method = "getAllMappings" /\ GetAllMappings
         \/ c.method = "getAssetMappings" /\ GetAssetMappings(c.mapping.assetId)
         \/ c.method = "getMappings" /\ GetMappings(c.mapping.assetId, c.mapping.serviceId)
         \/ c.method = "getCredentialMappings" /\ GetCredentialMappings(c.mapping.credentialId)
  PROVE  Answered(c)
<1>1. CamListening /\ c.method \in Listing
  BY DEF GetAllMappings, GetAssetMappings, GetMappings, GetCredentialMappings, Listing
<1>2. Service!AnswerTo(c) = [status |-> "OK", found |-> Service!Listed(c)] /\ c.method \notin Service!Changing
  BY <1>1 DEF Service!AnswerTo, Service!Changing, Listing
<1>3. Service!Entries = AllMappings /\ AllMappings \in SUBSET Mapping
  BY <1>1, ListeningTable, AllMappingsType DEF CamIInv
<1>4. Service!Listed(c) \in SUBSET Mapping /\ CamReply("OK", {}, Service!Listed(c))
  <2>1. CASE c.method = "getAllMappings" /\ GetAllMappings
    BY <1>3, <2>1 DEF GetAllMappings, Service!Listed
  <2>2. CASE c.method = "getAssetMappings" /\ GetAssetMappings(c.mapping.assetId)
    BY <1>3, <2>2 DEF GetAssetMappings, Service!Listed
  <2>3. CASE c.method = "getMappings" /\ GetMappings(c.mapping.assetId, c.mapping.serviceId)
    BY <1>3, <2>3 DEF GetMappings, Service!Listed
  <2>4. CASE c.method = "getCredentialMappings" /\ GetCredentialMappings(c.mapping.credentialId)
    BY <1>3, <2>4 DEF GetCredentialMappings, Service!Listed
  <2>. QED
    BY <2>1, <2>2, <2>3, <2>4
<1>. QED
  BY <1>2, <1>4, ReturnsFound

\* Whatever the request, it is answered at once as the service answers it, or saved.
LEMMA CallServed ==
  ASSUME CamIInv, Injective, ~MappingWritesFail, NEW c \in Calls, Handle(Payload(c))
  PROVE  CamListening /\ (Answered(c) \/ Stored(c))
<1> DEFINE request == Payload(c)
           m == request.mapping
           k == KeyOf(c.mapping)
           old == mappings[ComputeHash(k)]
           new == c.mapping
<1>1. CamListening
  BY DEF Handle, CreateMapping, UpdateMapping, UpdatePort, UpdateCredential, UpdateStatus, UpdateInfo,
         Change, RemoveMapping, GetMapping, GetAssetMappings, GetMappings, GetAllMappings,
         GetCredentialMappings
<1>2. /\ request.command = Command(c.method) /\ k \in Key /\ new \in Mapping
      /\ DurableTable[k] = old /\ Service!KeyOfCall(c) = k
  BY <1>1, PayloadOfCall, ServiceAnswers
<1>3. Exists(k) => old \in Mapping /\ KeyOf(old) = k
  BY <1>1, <1>2, ListeningTable
<1>4. CASE request.command = "CREATE_MAPPING" /\ CreateMapping(m)
  BY <1>1, <1>2, <1>4, PayloadOfCall, CommandNames, CreateServed
<1>5. CASE request.command = "UPDATE_MAPPING" /\ UpdateMapping(m)
  <2>1. c.method = "updateMapping" /\ Change(k, new)
    BY <1>5, <1>2, PayloadOfCall, CommandNames DEF UpdateMapping, NamesKey
  <2>2. new = Service!Entry(c) /\ c.method \in Service!Changing \ {"createMapping", "removeMapping"}
    BY <2>1 DEF Service!Entry, Service!Changing
  <2>. QED
    BY <1>1, <1>2, <2>1, <2>2, ChangeServed
<1>6. CASE request.command = "UPDATE_PORT_MAPPING" /\ UpdatePort(KeyOf(m), m.port)
  <2> DEFINE changed == [old EXCEPT !.port = new.port, !.status = UNKNOWN]
  <2>1. c.method = "updatePort" /\ Change(k, changed)
    BY <1>6, <1>2, PayloadOfCall, CommandNames DEF UpdatePort, NamesKey
  <2>2. changed = Service!Entry(c) /\ c.method \in Service!Changing \ {"createMapping", "removeMapping"}
    BY <1>2, <2>1 DEF Service!Entry, Service!Changing
  <2>3. Exists(k) => changed \in Mapping /\ KeyOf(changed) = k
    BY <1>2, <1>3 DEF Mapping, KeyOf
  <2> HIDE DEF changed
  <2>. QED
    BY <1>1, <2>1, <2>2, <2>3, ChangeServed
<1>7. CASE request.command = "UPDATE_CREDENTIAL_MAPPING" /\ UpdateCredential(KeyOf(m), m.credentialId)
  <2> DEFINE changed == [old EXCEPT !.credentialId = new.credentialId, !.status = UNKNOWN]
  <2>1. c.method = "updateCredentialId" /\ Change(k, changed)
    BY <1>7, <1>2, PayloadOfCall, CommandNames DEF UpdateCredential, NamesKey
  <2>2. changed = Service!Entry(c) /\ c.method \in Service!Changing \ {"createMapping", "removeMapping"}
    BY <1>2, <2>1 DEF Service!Entry, Service!Changing
  <2>3. Exists(k) => changed \in Mapping /\ KeyOf(changed) = k
    BY <1>2, <1>3 DEF Mapping, KeyOf
  <2> HIDE DEF changed
  <2>. QED
    BY <1>1, <2>1, <2>2, <2>3, ChangeServed
<1>8. CASE request.command = "UPDATE_STATUS_MAPPING" /\ UpdateStatus(KeyOf(m), m.status)
  <2> DEFINE changed == [old EXCEPT !.status = new.status]
  <2>1. c.method = "updateStatus" /\ Change(k, changed)
    BY <1>8, <1>2, PayloadOfCall, CommandNames DEF UpdateStatus, NamesKey
  <2>2. changed = Service!Entry(c) /\ c.method \in Service!Changing \ {"createMapping", "removeMapping"}
    BY <1>2, <2>1 DEF Service!Entry, Service!Changing
  <2>3. Exists(k) => changed \in Mapping /\ KeyOf(changed) = k
    BY <1>2, <1>3 DEF Mapping, KeyOf
  <2> HIDE DEF changed
  <2>. QED
    BY <1>1, <2>1, <2>2, <2>3, ChangeServed
<1>9. CASE request.command = "UPDATE_INFO_MAPPING" /\ UpdateInfo(KeyOf(m), m.extendedInfo)
  <2> DEFINE changed == [old EXCEPT !.extendedInfo = new.extendedInfo]
  <2>1. c.method = "updateExtendedInfo" /\ Change(k, changed)
    BY <1>9, <1>2, PayloadOfCall, CommandNames DEF UpdateInfo, NamesKey
  <2>2. changed = Service!Entry(c) /\ c.method \in Service!Changing \ {"createMapping", "removeMapping"}
    BY <1>2, <2>1 DEF Service!Entry, Service!Changing
  <2>3. Exists(k) => changed \in Mapping /\ KeyOf(changed) = k
    BY <1>2, <1>3 DEF Mapping, KeyOf
  <2> HIDE DEF changed
  <2>. QED
    BY <1>1, <2>1, <2>2, <2>3, ChangeServed
<1>10. CASE request.command = "REMOVE_MAPPING" /\ RemoveMapping(KeyOf(m))
  BY <1>1, <1>2, <1>10, PayloadOfCall, CommandNames, RemoveServed DEF NamesKey
<1>11. CASE request.command = "GET_MAPPING" /\ GetMapping(KeyOf(m))
  BY <1>1, <1>2, <1>11, PayloadOfCall, CommandNames, GetServed DEF NamesKey
<1>12. CASE \/ request.command = "GET_ASSET_MAPPINGS" /\ GetAssetMappings(m.assetId)
            \/ request.command = "GET_MAPPINGS" /\ GetMappings(m.assetId, m.serviceId)
            \/ request.command = "GET_ALL_MAPPINGS" /\ GetAllMappings
            \/ request.command = "GET_CRED_MAPPINGS" /\ GetCredentialMappings(m.credentialId)
  BY <1>1, <1>2, <1>12, PayloadOfCall, CommandNames, ListsServed
<1>. QED
  BY <1>1, <1>4, <1>5, <1>6, <1>7, <1>8, <1>9, <1>10, <1>11, <1>12 DEF Handle

-----------------------------------------------------------------------------
(* The requests nobody waits for any more *)

Late(c) == [from |-> Nobody, call |-> c]
LateIn(box, c) == {i \in DOMAIN box : box[i] = Late(c)}
LateInHand(hand, step, c) == IF Late(c) \in hand /\ step # "write" THEN 1 ELSE 0

LEMMA LateCounted ==
  LateCalls = [c \in AllCalls |->
                 Cardinality(LateIn(mailbox, c)) + LateInHand(handling, saving.step, c)]
<1>1. ASSUME NEW c \in AllCalls
      PROVE  Cardinality({Late(c)} \cap (handling \ Effective)) = LateInHand(handling, saving.step, c)
  <2>1. CASE Late(c) \in handling /\ saving.step # "write"
    <3>1. {Late(c)} \cap (handling \ Effective) = {Late(c)}
      BY <2>1 DEF Effective
    <3>. QED
      BY <2>1, <3>1, FS_Singleton DEF LateInHand
  <2>2. CASE ~(Late(c) \in handling /\ saving.step # "write")
    <3>1. {Late(c)} \cap (handling \ Effective) = {}
      BY <2>2 DEF Effective
    <3>. QED
      BY <2>2, <3>1, FS_EmptySet DEF LateInHand
  <2>. QED
    BY <2>1, <2>2
<1>2. LateCalls = [c \in AllCalls |->
        Cardinality(LateIn(mailbox, c)) + Cardinality({Late(c)} \cap (handling \ Effective))]
  BY DEF LateCalls, LateIn, Late
<1>. QED
  BY <1>1, <1>2

LEMMA LateFinite ==
  ASSUME NEW box \in Seq(Requests), NEW c
  PROVE  IsFiniteSet(LateIn(box, c)) /\ Cardinality(LateIn(box, c)) \in Nat
<1>1. IsFiniteSet(1 .. Len(box))
  BY FS_Interval
<1>2. LateIn(box, c) \subseteq 1 .. Len(box)
  BY DEF LateIn
<1>. QED
  BY <1>1, <1>2, FS_Subset, FS_CardinalityType

LEMMA LateAppended ==
  ASSUME NEW box \in Seq(Requests), NEW c, NEW message \in Requests, message.from # Nobody
  PROVE  LateIn(Append(box, message), c) = LateIn(box, c)
<1>1. DOMAIN Append(box, message) = 1 .. Len(box) + 1 /\ DOMAIN box = 1 .. Len(box)
  OBVIOUS
<1>2. \A i \in 1 .. Len(box) + 1 : Append(box, message)[i] = IF i = Len(box) + 1 THEN message ELSE box[i]
  OBVIOUS
<1>3. message # Late(c)
  BY DEF Late
<1>. QED
  BY <1>1, <1>2, <1>3 DEF LateIn

LEMMA LateTaken ==
  ASSUME NEW box \in Seq(Requests), box # <<>>, NEW c
  PROVE  Cardinality(LateIn(box, c)) =
           Cardinality(LateIn(Tail(box), c)) + IF Head(box) = Late(c) THEN 1 ELSE 0
<1> DEFINE rest == LateIn(Tail(box), c)
           f == [i \in rest |-> i + 1]
<1>1. Tail(box) \in Seq(Requests) /\ DOMAIN Tail(box) = 1 .. Len(box) - 1 /\ DOMAIN box = 1 .. Len(box)
      /\ Len(box) \in Nat \ {0} /\ Head(box) = box[1]
  OBVIOUS
<1>2. \A i \in 1 .. Len(box) - 1 : Tail(box)[i] = box[i + 1]
  OBVIOUS
<1>3. rest \subseteq Nat /\ \A i \in rest : i + 1 \in LateIn(box, c) \ {1}
  BY <1>1, <1>2 DEF LateIn
<1>4. ASSUME NEW j \in LateIn(box, c) \ {1}
      PROVE  j - 1 \in rest
  <2>1. j \in 2 .. Len(box) /\ box[j] = Late(c)
    BY <1>1 DEF LateIn
  <2>2. j - 1 \in 1 .. Len(box) - 1 /\ (j - 1) + 1 = j
    BY <1>1, <2>1
  <2>3. Tail(box)[j - 1] = box[(j - 1) + 1]
    BY <1>2, <2>2
  <2>. QED
    BY <1>1, <2>1, <2>2, <2>3 DEF LateIn
<1>5. f \in Bijection(rest, LateIn(box, c) \ {1})
  <2>1. f \in [rest -> LateIn(box, c) \ {1}]
    BY <1>3
  <2>2. \A i, j \in rest : f[i] = f[j] => i = j
    BY <1>3
  <2>3. \A j \in LateIn(box, c) \ {1} : f[j - 1] = j
    <3>1. \A j \in LateIn(box, c) : j \in Nat
      BY <1>1 DEF LateIn
    <3>. QED
      BY <1>4, <3>1
  <2>4. \A j \in LateIn(box, c) \ {1} : \E i \in rest : f[i] = j
    BY <1>4, <2>3
  <2> HIDE DEF f, rest
  <2>. QED
    BY <2>1, <2>2, <2>4 DEF Bijection, Injection, Surjection, IsInjective
<1>6. IsFiniteSet(rest) /\ IsFiniteSet(LateIn(box, c)) /\ Cardinality(rest) \in Nat
      /\ Cardinality(LateIn(box, c)) \in Nat
  BY <1>1, LateFinite
<1>7. Cardinality(LateIn(box, c) \ {1}) = Cardinality(rest)
  <2> HIDE DEF f, rest
  <2>. QED
    BY <1>5, <1>6, FS_Bijection DEF ExistsBijection
<1>8. Cardinality(LateIn(box, c) \ {1}) =
        IF 1 \in LateIn(box, c) THEN Cardinality(LateIn(box, c)) - 1 ELSE Cardinality(LateIn(box, c))
  BY <1>6, FS_RemoveElement
<1>9. 1 \in LateIn(box, c) <=> Head(box) = Late(c)
  BY <1>1 DEF LateIn
<1> HIDE DEF rest
<1>10. Cardinality(LateIn(box, c)) = Cardinality(rest) + IF Head(box) = Late(c) THEN 1 ELSE 0
  BY <1>6, <1>7, <1>8, <1>9
<1>. QED
  BY <1>10 DEF rest

\* The one request of a client that gives up becomes late.
LEMMA LateRenamed ==
  ASSUME NEW box \in Seq(Requests), NEW u \in MappingUsers, NEW j \in DOMAIN box,
         \A i \in DOMAIN box : box[i].from = u <=> i = j, NEW c,
         NEW renamed, renamed = [i \in DOMAIN box |-> From(u, box[i])]
  PROVE  Cardinality(LateIn(renamed, c)) =
           Cardinality(LateIn(box, c)) + IF box[j].call = c THEN 1 ELSE 0
<1>1. /\ DOMAIN renamed = DOMAIN box
      /\ \A i \in DOMAIN box : renamed[i] = IF i = j THEN [box[j] EXCEPT !.from = Nobody] ELSE box[i]
  BY DEF From
<1>2. box[j] \in Requests /\ box[j].from = u /\ u # Nobody
  BY UsersAssumption
<1>3. [box[j] EXCEPT !.from = Nobody] = Late(box[j].call)
  BY <1>2 DEF Requests, Late
<1>4. Late(box[j].call) = Late(c) <=> box[j].call = c
  BY DEF Late
<1>5. j \notin LateIn(box, c)
  BY <1>2 DEF LateIn, Late
<1>6. LateIn(renamed, c) = IF box[j].call = c THEN LateIn(box, c) \cup {j} ELSE LateIn(box, c)
  BY <1>1, <1>3, <1>4, <1>5 DEF LateIn
<1>7. IsFiniteSet(LateIn(box, c)) /\ Cardinality(LateIn(box, c)) \in Nat
  BY LateFinite
<1>8. Cardinality(LateIn(box, c) \cup {j}) = Cardinality(LateIn(box, c)) + 1
  BY <1>5, <1>7, FS_AddElement
<1>. QED
  BY <1>6, <1>7, <1>8

-----------------------------------------------------------------------------
(* What the clients are promised: the file *)

LEMMA CallsTyped ==
  /\ AllCalls \subseteq Calls /\ Requests \subseteq Messages
  /\ \A u \in MappingUsers : UserCalls[u] \subseteq AllCalls
BY UsersAssumption DEF AllCalls, Calls, Requests, Messages

\* What is loaded from a list is that list again.
LEMMA LoadedList ==
  ASSUME Injective, NEW list \in SUBSET Mapping, Sound(list)
  PROVE  {LoadMappings(list)[h] : h \in {x \in Hashes : LoadMappings(list)[x] # NoMapping}} = list
<1> DEFINE loaded == LoadMappings(list)
           all == {loaded[h] : h \in {x \in Hashes : loaded[x] # NoMapping}}
<1>1. ASSUME NEW h \in Hashes
      PROVE  /\ loaded[h] # NoMapping => loaded[h] \in list
             /\ \A m \in list : ComputeHash(KeyOf(m)) = h => loaded[h] = m
  <2> DEFINE Here(m) == Settable(m) /\ ComputeHash(KeyOf(m)) = h
  <2>1. loaded[h] = IF \E m \in list : Here(m) THEN CHOOSE m \in list : Here(m) ELSE NoMapping
    BY DEF LoadMappings
  <2>2. \A m, n \in list : Here(m) /\ Here(n) => m = n
    BY KeyOfType DEF Sound, Injective
  <2>3. \A m \in list : ComputeHash(KeyOf(m)) = h => Here(m)
    BY DEF Sound
  <2> HIDE DEF Here, loaded
  <2>. QED
    BY <2>1, <2>2, <2>3
<1>2. all \subseteq list
  <2> HIDE DEF loaded
  <2>. QED
    BY <1>1
<1>3. ASSUME NEW m \in list
      PROVE  m \in all
  <2>1. ComputeHash(KeyOf(m)) \in Hashes /\ m # NoMapping
    BY KeyOfType, HashType, NoMappingAssumption
  <2>2. loaded[ComputeHash(KeyOf(m))] = m
    <3> HIDE DEF loaded
    <3>. QED
      BY <1>1, <2>1
  <2> HIDE DEF loaded
  <2>. QED
    BY <2>1, <2>2
<1>. QED
  BY <1>2, <1>3

LEMMA SavedListSound ==
  ASSUME CamIInv, Injective, saving.step # "idle"
  PROVE  Sound(saving.list) /\ saving.list \in SUBSET Mapping
<1>1. saving.list = AllMappings
  BY DEF CamIInv, Flushed
<1>2. /\ mappings \in [Hashes -> Mapping \cup {NoMapping}]
      /\ \A h \in Hashes : mappings[h] # NoMapping =>
           Settable(mappings[h]) /\ ComputeHash(KeyOf(mappings[h])) = h
  BY DEF CamIInv, CamTypeOK, Keyed
<1>. QED
  BY <1>1, <1>2, TableOfStored, AllMappingsType DEF AllMappings, CamIInv

LEMMA FirstRequest ==
  ASSUME IInv, mailbox # <<>>
  PROVE  Head(mailbox) \in Messages /\ Head(mailbox).call \in Calls
<1>1. Head(mailbox) \in Messages
  BY DEF IInv, MailTypeOK
<1>. QED
  BY <1>1 DEF Messages

\* The steps of a save whose writes succeed.
OpensWell ==
  /\ saving.step = "open" /\ saving'.step = "write" /\ saving'.list = saving.list
  /\ camDatabase' = [file |-> "torn", content |-> {}]
  /\ UNCHANGED <<camProcess, user, mailbox, handling>>

WritesWell ==
  /\ saving.step = "write" /\ saving'.step = "idle"
  /\ camDatabase' = [file |-> "written", content |-> saving.list]
  /\ handling' = {} /\ UNCHANGED mailbox

LEMMA WritesSucceed ==
  ASSUME IInv, ~MappingWritesFail
  PROVE  (Open => OpensWell) /\ (Write => WritesWell)
<1>1. saving \in [step : {"idle", "open", "write"}, list : SUBSET Mapping]
  BY DEF IInv, CamIInv, CamTypeOK
<1>2. ASSUME Open
      PROVE  OpensWell
  <2>1. saving' = [saving EXCEPT !.step = "write"]
    BY <1>2 DEF Open, OpenMappings
  <2>. QED
    BY <1>1, <1>2, <2>1 DEF Open, OpenMappings, OpensWell
<1>3. ASSUME Write
      PROVE  WritesWell
  BY <1>3 DEF Write, WriteMappings, SaveEnds, AnswerHandled, NotSaving, WritesWell
<1>. QED
  BY <1>2, <1>3

LEMMA WholeFileStep ==
  ASSUME IInv, Injective, ~MappingWritesFail, WholeFile, [ClientsNext]_clientVars
  PROVE  WholeFile'
<1>1. CASE UNCHANGED <<camDatabase, saving>>
  BY <1>1 DEF WholeFile, Sound
<1>2. CASE Take
  <2>1. CASE UNCHANGED <<camDatabase, saving>>
    BY <1>1, <2>1
  <2>2. CASE UNCHANGED camDatabase /\ camDatabase.file = "written" /\ saving'.step = "open"
    BY <2>2 DEF WholeFile, Sound
  <2>3. Handle(Payload(Head(mailbox).call)) /\ Head(mailbox).call \in Calls
    BY <1>2, FirstRequest DEF Take
  <2>4. CamListening
    BY <2>3, CallServed DEF IInv
  <2>5. camDatabase.file = "written"
    BY <2>4 DEF IInv, CamIInv, Flushed
  <2>. QED
    BY <2>1, <2>2, <2>3, <2>5, CallServed DEF IInv, Answered, Stored
<1>3. CASE Open
  <2>1. camDatabase' = [file |-> "torn", content |-> {}] /\ saving'.step = "write"
    BY <1>3, WritesSucceed DEF OpensWell
  <2>. QED
    BY <2>1 DEF WholeFile, Sound
<1>4. CASE Write
  <2>1. camDatabase' = [file |-> "written", content |-> saving.list] /\ saving'.step = "idle" /\ saving.step # "idle"
    BY <1>4, WritesSucceed DEF WritesWell
  <2>2. Sound(saving.list)
    BY <2>1, SavedListSound DEF IInv
  <2>. QED
    BY <2>1, <2>2 DEF WholeFile, Sound
<1>5. CASE Serve
  BY <1>5 DEF Serve, StartCam, WholeFile, Sound
<1>6. CASE Shut
  BY <1>6 DEF Shut, StopCam, HaltCam, NotSaving, WholeFile, Sound
<1>7. CASE Die
  <2>1. saving'.step = "idle"
    BY <1>7 DEF Die, CrashCam, HaltCam, NotSaving
  <2>2. CASE UNCHANGED camDatabase
    BY <2>1, <2>2 DEF WholeFile, Sound
  <2>3. CASE saving.step = "write" /\ camDatabase' = [file |-> "written", content |-> saving.list]
    <3>1. Sound(saving.list)
      BY <2>3, SavedListSound DEF IInv
    <3>. QED
      BY <2>1, <2>3, <3>1 DEF WholeFile, Sound
  <2>. QED
    BY <1>7, <2>2, <2>3 DEF Die, CrashCam
<1>8. ASSUME NEW u \in MappingUsers, Call(u) \/ Receive(u) \/ TimeOut(u)
      PROVE  WholeFile'
  BY <1>1, <1>8 DEF Call, Receive, TimeOut, QuietServer
<1>. QED
  BY <1>1, <1>2, <1>3, <1>4, <1>5, <1>6, <1>7, <1>8 DEF ClientsNext, clientVars, reportedVars, camVars

LEMMA SameAnswers ==
  ASSUME DurableTable' = DurableTable, NEW c
  PROVE  /\ Service!AnswerTo(c)' = Service!AnswerTo(c) /\ Service!Entry(c)' = Service!Entry(c)
         /\ Service!KeyOfCall(c)' = Service!KeyOfCall(c)
<1>1. Service!Taken(c)' <=> Service!Taken(c)
  BY DEF Service!Taken, Service!KeyOfCall
<1>2. Service!Listed(c)' = Service!Listed(c)
  BY DEF Service!Listed, Service!Entries
<1>. QED
  BY <1>1, <1>2 DEF Service!AnswerTo, Service!Entry, Service!KeyOfCall

LEMMA UnderwayStep ==
  ASSUME IInv, Injective, ~MappingWritesFail, WholeFile, Underway, Requested, [ClientsNext]_clientVars
  PROVE  Underway'
<1>1. CASE UNCHANGED <<camDatabase, saving, handling>>
  <2>1. DurableTable' = DurableTable
    BY <1>1 DEF DurableTable, DurableMappings
  <2>2. \A c : /\ Service!AnswerTo(c)' = Service!AnswerTo(c) /\ Service!Entry(c)' = Service!Entry(c)
               /\ Service!KeyOfCall(c)' = Service!KeyOfCall(c)
    BY <2>1, SameAnswers
  <2>. QED
    BY <1>1, <2>1, <2>2 DEF Underway
<1>2. CASE saving'.step # "open"
  BY <1>2 DEF Underway
<1>3. ASSUME NEW u \in MappingUsers, TimeOut(u)
      PROVE  Underway'
  <2>1. UNCHANGED <<camDatabase, saving>> /\ handling' = {From(u, message) : message \in handling}
    BY <1>3 DEF TimeOut
  <2>2. DurableTable' = DurableTable
    BY <2>1 DEF DurableTable, DurableMappings
  <2>3. \A c : /\ Service!AnswerTo(c)' = Service!AnswerTo(c) /\ Service!Entry(c)' = Service!Entry(c)
               /\ Service!KeyOfCall(c)' = Service!KeyOfCall(c)
    BY <2>2, SameAnswers
  <2>4. \A message \in handling : From(u, message).call = message.call
    BY DEF From, Requested, Requests
  <2>. QED
    BY <2>1, <2>2, <2>3, <2>4 DEF Underway
<1>4. CASE Take
  <2> DEFINE message == Head(mailbox)
             c == message.call
  <2>1. Handle(Payload(c)) /\ c \in Calls
    BY <1>4, FirstRequest DEF Take
  <2>2. CamListening /\ (Answered(c) \/ Stored(c))
    BY <2>1, CallServed DEF IInv
  <2>3. CASE Answered(c)
    BY <1>2, <2>2, <2>3 DEF Answered, CamListening
  <2>4. CASE Stored(c)
    <3>1. UNCHANGED camDatabase /\ saving'.step = "open" /\ saving.step = "idle" /\ handling' = {message}
      BY <1>4, <2>2, <2>4 DEF Stored, CamListening, Take
    <3>2. DurableTable' = DurableTable
      BY <3>1 DEF DurableTable, DurableMappings
    <3>3. \A d : /\ Service!AnswerTo(d)' = Service!AnswerTo(d) /\ Service!Entry(d)' = Service!Entry(d)
                 /\ Service!KeyOfCall(d)' = Service!KeyOfCall(d)
      BY <3>2, SameAnswers
    <3>4. /\ c.method \in Service!Changing /\ Service!AnswerTo(c) = Done
          /\ TableOf(saving'.list) = [DurableTable EXCEPT ![Service!KeyOfCall(c)] = Service!Entry(c)]
      BY <2>4 DEF Stored
    <3>5. TableOf(saving.list)' = TableOf(saving'.list)
      BY DEF TableOf
    <3> HIDE DEF message
    <3>. QED
      BY <3>1, <3>2, <3>3, <3>4, <3>5 DEF Underway
  <2>. QED
    BY <2>2, <2>3, <2>4
<1>5. CASE Serve
  <2>1. saving.step = "idle" /\ handling = {} /\ UNCHANGED <<camDatabase, handling>>
    BY <1>5 DEF Serve, StartCam, IInv, CamIInv, Running, Requested
  <2>2. CASE mappings' = LoadMappings(camDatabase.content) /\ saving' = [step |-> "open", list |-> AllMappings']
    <3>1. AllMappings' = camDatabase.content
      BY <2>2, LoadedList DEF AllMappings, WholeFile, IInv, CamIInv, CamTypeOK
    <3>2. DurableMappings' = camDatabase.content
      BY <2>1, <2>2 DEF DurableMappings
    <3>. QED
      BY <2>1, <2>2, <3>1, <3>2 DEF Underway, DurableTable, TableOf
  <2>3. CASE UNCHANGED saving
    BY <1>1, <2>1, <2>3
  <2>. QED
    BY <1>5, <2>2, <2>3 DEF Serve, StartCam
<1>6. CASE Open
  BY <1>2, <1>6, WritesSucceed DEF OpensWell
<1>7. CASE Write \/ Shut \/ Die
  BY <1>2, <1>7, WritesSucceed DEF WritesWell, Shut, StopCam, Die, CrashCam, HaltCam, NotSaving
<1>8. ASSUME NEW u \in MappingUsers, Call(u) \/ Receive(u)
      PROVE  Underway'
  BY <1>1, <1>8 DEF Call, Receive, QuietServer
<1>. QED
  BY <1>1, <1>3, <1>4, <1>5, <1>6, <1>7, <1>8 DEF ClientsNext, clientVars, reportedVars, camVars

-----------------------------------------------------------------------------
(* What the clients are promised: the requests *)

LEMMA CallRequested ==
  ASSUME Requested, NEW u \in MappingUsers, Call(u)
  PROVE  Requested'
<1>1. PICK c \in UserCalls[u] :
        /\ user' = [user EXCEPT ![u] = [step |-> "waiting", calls |-> {c}, reply |-> {}]]
        /\ mailbox' = Append(mailbox, [from |-> u, call |-> c])
  BY DEF Call
<1>2. c \in AllCalls /\ user[u] = NoUser /\ UNCHANGED <<handling, saving, camProcess>>
  BY CallsTyped DEF Call, QuietServer
<1> DEFINE message == [from |-> u, call |-> c]
<1>3. message \in Requests
  BY <1>2 DEF Requests
<1>4. mailbox \in Seq(Requests) /\ mailbox' \in Seq(Requests)
  BY <1>1, <1>3 DEF Requested
<1>5. /\ DOMAIN mailbox' = 1 .. Len(mailbox) + 1 /\ DOMAIN mailbox = 1 .. Len(mailbox) /\ Len(mailbox) \in Nat
      /\ \A i \in DOMAIN mailbox : mailbox'[i] = mailbox[i] 
      /\ mailbox'[Len(mailbox) + 1] = message
  BY <1>1, <1>4
<1>6. ASSUME NEW v \in MappingUsers
      PROVE  OneRequest(v)'
  <2>1. OneRequest(v) /\ user[v].step \in {"idle", "waiting"}
    BY DEF Requested
  <2>2. CASE v # u
    <3>1. user'[v] = user[v]
      BY <1>1, <2>2 DEF Requested
    <3>2. message.from # v
      BY <2>2
    <3>3. \A i \in DOMAIN mailbox' : mailbox'[i].from = v => i \in DOMAIN mailbox
      BY <1>5, <3>2
    <3>4. DOMAIN mailbox \subseteq DOMAIN mailbox'
      BY <1>5
    <3>5. InMail(v)' <=> InMail(v)
      BY <1>5, <3>3, <3>4 DEF InMail
    <3>6. InHand(v)' <=> InHand(v)
      BY <1>2 DEF InHand
    <3>. QED
      BY <1>2, <1>5, <2>1, <3>1, <3>3, <3>5, <3>6 DEF OneRequest, NoUser
  <2>3. CASE v = u
    <3>1. user'[v] = [step |-> "waiting", calls |-> {c}, reply |-> {}]
      BY <1>1, <2>3 DEF Requested
    <3>2. ~InMail(v) /\ ~InHand(v)
      BY <1>2, <2>1, <2>3 DEF OneRequest, NoUser
    <3>3. \A i \in DOMAIN mailbox' : mailbox'[i].from = v <=> i = Len(mailbox) + 1
      BY <1>5, <2>3, <3>2 DEF InMail
    <3>4. ~InHand(v)'
      BY <1>2, <3>2 DEF InHand
    <3>. QED
      BY <1>5, <2>3, <3>1, <3>3, <3>4 DEF OneRequest, InHand
  <2>. QED
    BY <2>2, <2>3
<1>7. user' \in [MappingUsers -> [step : {"idle", "waiting"}, calls : SUBSET AllCalls, reply : SUBSET Replies]]
  BY <1>1, <1>2 DEF Requested
<1>. QED
  BY <1>2, <1>4, <1>6, <1>7 DEF Requested

LEMMA ReceiveRequested ==
  ASSUME Requested, NEW u \in MappingUsers, Receive(u)
  PROVE  Requested'
<1>1. user[u].reply # {} /\ user' = [user EXCEPT ![u] = NoUser] /\ UNCHANGED <<mailbox, handling, saving, camProcess>>
  BY DEF Receive, QuietServer
<1>2. user' \in [MappingUsers -> [step : {"idle", "waiting"}, calls : SUBSET AllCalls, reply : SUBSET Replies]]
  BY <1>1 DEF Requested, NoUser
<1>3. ASSUME NEW v \in MappingUsers
      PROVE  OneRequest(v)'
  <2>1. OneRequest(v) /\ user'[v] = IF v = u THEN NoUser ELSE user[v]
    BY <1>1 DEF Requested
  <2>. QED
    BY <1>1, <2>1 DEF OneRequest, InMail, InHand, NoUser
<1>. QED
  BY <1>1, <1>2, <1>3 DEF Requested

LEMMA TimeOutRequested ==
  ASSUME Requested, NEW u \in MappingUsers, TimeOut(u)
  PROVE  Requested'
<1>1. /\ user' = [user EXCEPT ![u] = NoUser] /\ UNCHANGED <<saving, camProcess>>
      /\ mailbox' = [i \in DOMAIN mailbox |-> From(u, mailbox[i])]
      /\ handling' = {From(u, message) : message \in handling}
  BY DEF TimeOut
<1>2. user' \in [MappingUsers -> [step : {"idle", "waiting"}, calls : SUBSET AllCalls, reply : SUBSET Replies]]
  BY <1>1 DEF Requested, NoUser
<1>3. ASSUME NEW message \in Requests
      PROVE  /\ From(u, message) \in Requests /\ From(u, message).call = message.call
             /\ From(u, message).from = IF message.from = u THEN Nobody ELSE message.from
  BY DEF From, Requests
<1>4. mailbox' \in Seq(Requests) /\ mailbox \in Seq(Requests)
  BY <1>1, <1>3 DEF Requested
<1>5. handling' = {} \/ \E message \in Requests : handling' = {message}
  BY <1>1, <1>3 DEF Requested
<1>6. handling' # {} => handling # {}
  BY <1>1
<1>7. ASSUME NEW v \in MappingUsers
      PROVE  OneRequest(v)'
  <2>1. OneRequest(v) /\ user'[v] = IF v = u THEN NoUser ELSE user[v]
    BY <1>1 DEF Requested
  <2>2. /\ DOMAIN mailbox' = DOMAIN mailbox
        /\ \A i \in DOMAIN mailbox : /\ mailbox'[i].call = mailbox[i].call
                                     /\ mailbox'[i].from = v <=> v # u /\ mailbox[i].from = v
    BY <1>1, <1>3, <1>4, UsersAssumption
  <2>3. \A message \in handling : /\ From(u, message).call = message.call
                                  /\ From(u, message).from = v <=> v # u /\ message.from = v
    BY <1>3, UsersAssumption DEF Requested
  <2>4. InMail(v)' <=> v # u /\ InMail(v)
    BY <2>2 DEF InMail
  <2>5. InHand(v)' <=> v # u /\ InHand(v)
    BY <1>1, <2>3 DEF InHand
  <2>6. \A message \in handling' : message.from = v => \E m \in handling : m.from = v /\ m.call = message.call
    BY <1>1, <2>3
  <2>. QED
    BY <2>1, <2>2, <2>4, <2>5, <2>6 DEF OneRequest, NoUser
<1>. QED
  BY <1>1, <1>2, <1>4, <1>5, <1>6, <1>7 DEF Requested

LEMMA ReplySent ==
  ASSUME Requested, NEW to \in MappingUsers \cup {Nobody}, ReplyTo(to), ReplyFrames(camAnswer') \in Replies
  PROVE  /\ user' \in [MappingUsers -> [step : {"idle", "waiting"}, calls : SUBSET AllCalls, reply : SUBSET Replies]]
         /\ \A v \in MappingUsers : /\ v # to => user'[v] = user[v]
                                    /\ user'[v].step = user[v].step /\ user'[v].calls = user[v].calls
                                    /\ v = to => user'[v].reply = {ReplyFrames(camAnswer')}
         /\ to = Nobody => UNCHANGED user
<1> DEFINE reply == ReplyFrames(camAnswer')
<1>1. user' = [v \in MappingUsers |-> IF v = to THEN [user[v] EXCEPT !.reply = {reply}] ELSE user[v]]
  BY DEF ReplyTo
<1>2. user \in [MappingUsers -> [step : {"idle", "waiting"}, calls : SUBSET AllCalls, reply : SUBSET Replies]]
  BY DEF Requested
<1>3. Nobody \notin MappingUsers /\ reply \in Replies
  BY UsersAssumption
<1> HIDE DEF reply
<1>4. user' \in [MappingUsers -> [step : {"idle", "waiting"}, calls : SUBSET AllCalls, reply : SUBSET Replies]]
  BY <1>1, <1>2, <1>3
<1>5. \A v \in MappingUsers : /\ v # to => user'[v] = user[v]
                              /\ user'[v].step = user[v].step /\ user'[v].calls = user[v].calls
                              /\ v = to => user'[v].reply = {reply}
  BY <1>1, <1>2
<1>6. to = Nobody => user' = user
  BY <1>1, <1>2, <1>3
<1>. QED
  BY <1>4, <1>5, <1>6 DEF reply

\* A client whose request has been taken by the server has no other.
LEMMA TakenIsOnly ==
  ASSUME Requested, mailbox # <<>>
  PROVE  /\ Head(mailbox) \in Requests /\ Tail(mailbox) \in Seq(Requests) /\ mailbox \in Seq(Requests)
         /\ Head(mailbox) = mailbox[1] /\ 1 \in DOMAIN mailbox
         /\ \A i \in DOMAIN Tail(mailbox) :
              i + 1 \in DOMAIN mailbox /\ i + 1 # 1 /\ Tail(mailbox)[i] = mailbox[i + 1]
         /\ \A i \in DOMAIN mailbox : i # 1 => i - 1 \in DOMAIN Tail(mailbox) /\ Tail(mailbox)[i - 1] = mailbox[i]
         /\ \A i, j \in DOMAIN Tail(mailbox) : i + 1 = j + 1 => i = j
<1>1. mailbox \in Seq(Requests)
  BY DEF Requested
<1>2. /\ Head(mailbox) \in Requests /\ Tail(mailbox) \in Seq(Requests) /\ Head(mailbox) = mailbox[1]
      /\ DOMAIN mailbox = 1 .. Len(mailbox) /\ Len(mailbox) \in Nat \ {0}
      /\ DOMAIN Tail(mailbox) = 1 .. Len(mailbox) - 1
      /\ \A i \in 1 .. Len(mailbox) - 1 : Tail(mailbox)[i] = mailbox[i + 1]
  BY <1>1
<1>3. \A i \in 1 .. Len(mailbox) - 1 : i + 1 \in 1 .. Len(mailbox) /\ i + 1 # 1
  BY <1>2
<1>4. ASSUME NEW i \in 1 .. Len(mailbox), i # 1
      PROVE  i - 1 \in 1 .. Len(mailbox) - 1 /\ Tail(mailbox)[i - 1] = mailbox[i]
  <2>1. i - 1 \in 1 .. Len(mailbox) - 1 /\ (i - 1) + 1 = i
    BY <1>2, <1>4
  <2>2. Tail(mailbox)[i - 1] = mailbox[(i - 1) + 1]
    BY <1>2, <2>1
  <2>. QED
    BY <2>1, <2>2
<1>5. \A i, j \in 1 .. Len(mailbox) - 1 : i + 1 = j + 1 => i = j
  OBVIOUS
<1>. QED
  BY <1>1, <1>2, <1>3, <1>4, <1>5

\* The request that leaves the mailbox is the only one of its caller, who waits.
LEMMA MailTaken ==
  ASSUME Requested, mailbox # <<>>, mailbox' = Tail(mailbox), NEW v \in MappingUsers
  PROVE  /\ \A i \in DOMAIN mailbox' : mailbox'[i].from = v =>
              i + 1 \in DOMAIN mailbox /\ mailbox[i + 1].from = v /\ mailbox[i + 1].call = mailbox'[i].call
         /\ InMail(v)' <=> InMail(v) /\ Head(mailbox).from # v
         /\ \A i, j \in DOMAIN mailbox' : mailbox'[i].from = v /\ mailbox'[j].from = v => i = j
         /\ Head(mailbox).from = v =>
              /\ InMail(v) /\ user[v].step = "waiting" /\ user[v].reply = {}
              /\ user[v].calls = {Head(mailbox).call}
<1> DEFINE message == Head(mailbox)
           c == message.call
<1>1. OneRequest(v) /\ user[v].step \in {"idle", "waiting"}
  BY DEF Requested
<1>2. \A i \in DOMAIN mailbox' : i + 1 \in DOMAIN mailbox /\ i + 1 # 1 /\ mailbox'[i] = mailbox[i + 1]
  BY TakenIsOnly
<1>3. message = mailbox[1] /\ 1 \in DOMAIN mailbox /\ \A i, j \in DOMAIN mailbox' : i + 1 = j + 1 => i = j
  BY TakenIsOnly
<1>4. \A i, j \in DOMAIN mailbox : mailbox[i].from = v /\ mailbox[j].from = v => i = j
  BY <1>1 DEF OneRequest
<1>5. \A i \in DOMAIN mailbox : i # 1 => \E j \in DOMAIN mailbox' : mailbox'[j] = mailbox[i]
  BY TakenIsOnly
<1> HIDE DEF message, c
<1>6. InMail(v)' <=> InMail(v) /\ message.from # v
  <2>1. InMail(v)' => InMail(v) /\ message.from # v
    BY <1>2, <1>3, <1>4 DEF InMail
  <2>2. ASSUME NEW i \in DOMAIN mailbox, mailbox[i].from = v, message.from # v
        PROVE  InMail(v)'
    <3>1. i # 1
      BY <1>3, <2>2
    <3>. QED
      BY <1>5, <2>2, <3>1 DEF InMail
  <2>. QED
    BY <2>1, <2>2 DEF InMail
<1>7. message.from = v => InMail(v)
  BY <1>3 DEF InMail
<1>8. message.from = v => user[v].step = "waiting" /\ user[v].reply = {} /\ user[v].calls = {c}
  BY <1>1, <1>3, <1>7 DEF OneRequest, c
<1>9. \A i, j \in DOMAIN mailbox' : mailbox'[i].from = v /\ mailbox'[j].from = v => i = j
  BY <1>2, <1>3, <1>4
<1>. QED
  BY <1>2, <1>6, <1>7, <1>8, <1>9 DEF message, c

LEMMA TakeRequested ==
  ASSUME IInv, Injective, ~MappingWritesFail, Requested, Take
  PROVE  Requested'
<1> DEFINE message == Head(mailbox)
           c == message.call
<1>1. mailbox # <<>> /\ mailbox' = Tail(mailbox) /\ Handle(Payload(c))
  BY DEF Take
<1>2. message \in Requests /\ c \in Calls
  BY <1>1, TakenIsOnly, FirstRequest
<1>3. CamListening /\ (Answered(c) \/ Stored(c))
  BY <1>1, <1>2, CallServed DEF IInv
<1>4. saving.step = "idle" /\ camProcess = "serving" /\ handling = {}
  BY <1>3 DEF CamListening, Requested
<1>5. mailbox' \in Seq(Requests)
  BY <1>1, TakenIsOnly
<1>6. ASSUME NEW v \in MappingUsers
      PROVE  /\ \A i \in DOMAIN mailbox' : mailbox'[i].from = v =>
                  i + 1 \in DOMAIN mailbox /\ mailbox[i + 1].from = v /\ mailbox[i + 1].call = mailbox'[i].call
             /\ InMail(v)' => InMail(v) /\ message.from # v
             /\ \A i, j \in DOMAIN mailbox' : mailbox'[i].from = v /\ mailbox'[j].from = v => i = j
             /\ message.from = v =>
                  /\ InMail(v) /\ ~InMail(v)' /\ user[v].step = "waiting" /\ user[v].reply = {}
                  /\ user[v].calls = {c}
  BY <1>1, MailTaken
<1>7. CASE Stored(c)
  <2>1. camAnswer'.status = "none" /\ UNCHANGED camProcess /\ saving'.step = "open"
    BY <1>7 DEF Stored
  <2>2. handling' = {message} /\ UNCHANGED user
    BY <2>1 DEF Take
  <2>3. ASSUME NEW v \in MappingUsers
        PROVE  OneRequest(v)'
    <3>1. OneRequest(v) /\ user[v].step \in {"idle", "waiting"}
      BY DEF Requested
    <3>2. InHand(v)' <=> message.from = v
      BY <2>2 DEF InHand
    <3> HIDE DEF message, c
    <3>3. user[v].step = "waiting" => \E d \in UserCalls[v] :
            /\ user[v].calls = {d}
            /\ \A i \in DOMAIN mailbox : mailbox[i].from = v => mailbox[i].call = d
      BY <3>1 DEF OneRequest
    <3>4. user'[v].step = "waiting" => \E d \in UserCalls[v] :
            /\ user'[v].calls = {d}
            /\ \A i \in DOMAIN mailbox' : mailbox'[i].from = v => mailbox'[i].call = d
            /\ \A m \in handling' : m.from = v => m.call = d
      BY <1>6, <2>2, <3>3 DEF c
    <3>5. user'[v].step = "idle" => user'[v] = NoUser /\ ~InMail(v)' /\ ~InHand(v)'
      BY <1>6, <2>2, <3>1, <3>2 DEF OneRequest
    <3>6. user'[v].reply # {} => ~InMail(v)' /\ ~InHand(v)'
      BY <1>6, <2>2, <3>1, <3>2 DEF OneRequest
    <3>. QED
      BY <1>6, <2>2, <3>2, <3>4, <3>5, <3>6 DEF OneRequest, NoUser
  <2>. QED
    BY <1>2, <1>4, <1>5, <2>1, <2>2, <2>3 DEF Requested
<1>8. CASE Answered(c)
  <2>1. camAnswer'.status # "none" /\ UNCHANGED <<saving, camProcess>> /\ ReplyFrames(camAnswer') \in Replies
    BY <1>8 DEF Answered
  <2>2. ReplyTo(message.from) /\ UNCHANGED handling
    BY <2>1 DEF Take
  <2>3. message.from \in MappingUsers \cup {Nobody}
    BY <1>2 DEF Requests
  <2>4. user' \in [MappingUsers -> [step : {"idle", "waiting"}, calls : SUBSET AllCalls, reply : SUBSET Replies]]
    BY <2>1, <2>2, <2>3, ReplySent
  <2>5. ASSUME NEW v \in MappingUsers
        PROVE  OneRequest(v)'
    <3>1. OneRequest(v) /\ user[v].step \in {"idle", "waiting"}
      BY DEF Requested
    <3>2. ~InHand(v) /\ ~InHand(v)' /\ handling' = {}
      BY <1>4, <2>2 DEF InHand
    <3>3. /\ v # message.from => user'[v] = user[v]
          /\ user'[v].step = user[v].step /\ user'[v].calls = user[v].calls
      BY <2>1, <2>2, <2>3, ReplySent
    <3> HIDE DEF message, c
    <3>4. user[v].step = "waiting" => \E d \in UserCalls[v] :
            /\ user[v].calls = {d}
            /\ \A i \in DOMAIN mailbox : mailbox[i].from = v => mailbox[i].call = d
      BY <3>1 DEF OneRequest
    <3>5. user'[v].step = "waiting" => \E d \in UserCalls[v] :
            /\ user'[v].calls = {d}
            /\ \A i \in DOMAIN mailbox' : mailbox'[i].from = v => mailbox'[i].call = d
      BY <1>6, <3>3, <3>4
    <3>6. user'[v].step = "idle" => user'[v] = NoUser /\ ~InMail(v)'
      BY <1>6, <3>1, <3>3 DEF OneRequest
    <3>7. user'[v].reply # {} => ~InMail(v)'
      BY <1>6, <3>1, <3>3 DEF OneRequest
    <3>. QED
      BY <1>6, <3>2, <3>5, <3>6, <3>7 DEF OneRequest, NoUser
  <2>. QED
    BY <1>4, <1>5, <2>1, <2>2, <2>4, <2>5 DEF Requested
<1>. QED
  BY <1>3, <1>7, <1>8

\* A request that leaves the hands of the server, answered or lost.
LEMMA HandEmptied ==
  ASSUME Requested, UNCHANGED mailbox, handling' = {}, NEW v \in MappingUsers,
         user'[v].step = user[v].step, user'[v].calls = user[v].calls,
         user'[v] = user[v] \/ InHand(v)
  PROVE  OneRequest(v)'
<1>1. OneRequest(v) /\ user[v].step \in {"idle", "waiting"}
  BY DEF Requested
<1>2. InMail(v)' = InMail(v) /\ ~InHand(v)'
  BY DEF InMail, InHand
<1>. QED
  BY <1>1, <1>2 DEF OneRequest

LEMMA WriteRequested ==
  ASSUME IInv, Requested, Write
  PROVE  Requested'
<1>1. UNCHANGED mailbox /\ handling' = {} /\ mailbox \in Seq(Requests)
  BY DEF Write, AnswerHandled, Requested
<1>2. CASE handling = {} /\ UNCHANGED user
  BY <1>1, <1>2, HandEmptied DEF Requested
<1>3. ASSUME NEW message \in handling, ReplyTo(message.from)
      PROVE  Requested'
  <2>1. camAnswer' = [status |-> "OK", asked |-> {}, found |-> {}]
    BY <1>3 DEF Write, WriteMappings, SaveEnds, Requested, NoCamAnswer
  <2>2. ReplyFrames(camAnswer') = [frame |-> "data", code |-> GENERIC, found |-> {}]
    BY <2>1 DEF ReplyFrames
  <2>3. ReplyFrames(camAnswer') \in Replies
    BY <2>2 DEF Replies, GENERIC
  <2>4. message \in Requests /\ message.from \in MappingUsers \cup {Nobody}
    BY <1>3 DEF Requested, Requests
  <2>5. user' \in [MappingUsers -> [step : {"idle", "waiting"}, calls : SUBSET AllCalls, reply : SUBSET Replies]]
    BY <1>3, <2>3, <2>4, ReplySent
  <2>6. ASSUME NEW v \in MappingUsers
        PROVE  OneRequest(v)'
    <3>1. /\ v # message.from => user'[v] = user[v]
          /\ user'[v].step = user[v].step /\ user'[v].calls = user[v].calls
      BY <1>3, <2>3, <2>4, ReplySent
    <3>2. v = message.from => InHand(v)
      BY <1>3 DEF InHand
    <3>. QED
      BY <1>1, <3>1, <3>2, HandEmptied
  <2>. QED
    BY <1>1, <2>5, <2>6 DEF Requested
<1>. QED
  BY <1>2, <1>3 DEF Write, AnswerHandled

LEMMA RequestedStep ==
  ASSUME IInv, Injective, ~MappingWritesFail, Requested, [ClientsNext]_clientVars
  PROVE  Requested'
<1>1. CASE UNCHANGED <<user, mailbox, handling>> /\ (handling # {} => saving'.step # "idle" /\ camProcess' = "serving")
  BY <1>1 DEF Requested, OneRequest, InMail, InHand, NoUser
<1>2. ASSUME NEW u \in MappingUsers, Call(u) \/ Receive(u) \/ TimeOut(u)
      PROVE  Requested'
  BY <1>2, CallRequested, ReceiveRequested, TimeOutRequested
<1>3. CASE Take
  BY <1>3, TakeRequested
<1>4. CASE Open
  BY <1>1, <1>4, WritesSucceed DEF OpensWell, Requested
<1>5. CASE Write
  BY <1>5, WriteRequested
<1>6. CASE Serve
  <2>1. handling = {}
    BY <1>6 DEF Serve, StartCam, Requested
  <2>. QED
    BY <1>1, <1>6, <2>1 DEF Serve
<1>7. CASE Shut
  <2>1. handling = {}
    BY <1>7 DEF Shut, StopCam, Requested
  <2>. QED
    BY <1>1, <1>7, <2>1 DEF Shut
<1>8. CASE Die
  <2>1. UNCHANGED <<user, mailbox>> /\ handling' = {}
    BY <1>8 DEF Die
  <2>. QED
    BY <2>1, HandEmptied DEF Requested
<1>9. CASE UNCHANGED clientVars
  BY <1>1, <1>9 DEF clientVars, reportedVars, camVars, Requested
<1>. QED
  BY <1>2, <1>3, <1>4, <1>5, <1>6, <1>7, <1>8, <1>9 DEF ClientsNext

LEMMA ServiceInvariance ==
  ASSUME Injective, ~MappingWritesFail
  PROVE  ClientsSpec => []ServiceInv
<1>1. ClientsInit => ServiceInv
  <2> SUFFICES ASSUME ClientsInit PROVE ServiceInv
    OBVIOUS
  <2>1. WholeFile /\ Underway
    BY DEF ClientsInit, ReportedInit, CamInit, NotSaving, WholeFile, Sound, Underway
  <2>2. ASSUME NEW u \in MappingUsers
        PROVE  OneRequest(u)
    BY DEF ClientsInit, OneRequest, NoUser, InMail, InHand
  <2>3. Requested
    BY <2>2 DEF ClientsInit, Requested, NoUser
  <2>. QED
    BY <2>1, <2>3, ClientsInitCorrect DEF ServiceInv
<1>2. ServiceInv /\ [ClientsNext]_clientVars => ServiceInv'
  BY ClientsNextCorrect, WholeFileStep, UnderwayStep, RequestedStep DEF ServiceInv
<1>. QED
  BY <1>1, <1>2, PTL DEF ClientsSpec

-----------------------------------------------------------------------------
(* Each step is a step of the service, or none *)

Lost  == camDatabase.file = "torn" /\ saving.step # "write"
Waits == [u \in MappingUsers |-> Awaited(u)]

\* What a client waits for, by where its request is.
Finished(u) == user[u].reply # {} \/ (InHand(u) /\ saving.step = "write")

Place(u) ==
  [step   |-> IF user[u].step = "idle" THEN "idle" ELSE IF Finished(u) THEN "done"
              ELSE IF InMail(u) \/ InHand(u) THEN "pending" ELSE "unanswered",
   calls  |-> user[u].calls,
   answer |-> IF InHand(u) /\ saving.step = "write" THEN {Done}
              ELSE {Outcome(c, reply) : c \in user[u].calls, reply \in user[u].reply}]

LEMMA AwaitedIsPlace == \A u : Awaited(u) = Place(u)
<1> SUFFICES ASSUME NEW u PROVE Awaited(u) = Place(u)
  OBVIOUS
<1> DEFINE own(messages) == {message \in messages : message.from = u}
<1>1. (own(Effective) # {}) <=> (InHand(u) /\ saving.step = "write")
  BY DEF Effective, InHand
<1>2. (own(InMailbox \cup handling) # {}) <=> (InMail(u) \/ InHand(u))
  BY DEF InMailbox, InMail, InHand
<1>3. Awaited(u) =
        [step   |-> IF user[u].step = "idle" THEN "idle"
                    ELSE IF own(Effective) # {} \/ user[u].reply # {} THEN "done"
                    ELSE IF own(InMailbox \cup handling) # {} THEN "pending" ELSE "unanswered",
         calls  |-> user[u].calls,
         answer |-> IF own(Effective) # {} THEN {Done}
                    ELSE {Outcome(c, reply) : c \in user[u].calls, reply \in user[u].reply}]
  BY DEF Awaited, Done
<1> HIDE DEF own
<1>. QED
  BY <1>1, <1>2, <1>3 DEF Place, Finished

LEMMA AwaitedIsPlaceNext == (\A u : Awaited(u) = Place(u))'
BY AwaitedIsPlace, PTL

\* A client whose request stays where it is waits for what it did.
LEMMA SamePlace ==
  ASSUME NEW u, user'[u] = user[u], InMail(u)' <=> InMail(u), InHand(u)' <=> InHand(u),
         InHand(u) => (saving'.step = "write" <=> saving.step = "write")
  PROVE  Place(u)' = Place(u)
<1> DEFINE outcomes == {Outcome(c, reply) : c \in user[u].calls, reply \in user[u].reply}
           step     == IF user[u].step = "idle" THEN "idle" ELSE IF Finished(u) THEN "done"
                       ELSE IF InMail(u) \/ InHand(u) THEN "pending" ELSE "unanswered"
           answer   == IF InHand(u) /\ saving.step = "write" THEN {Done} ELSE outcomes
<1>1. Finished(u)' <=> Finished(u)
  BY DEF Finished
<1>2. outcomes' = outcomes
  BY DEF Outcome, ThrownFor
<1>3. step' = step
  BY <1>1
<1>4. answer' = answer
  <2> HIDE DEF outcomes
  <2>. QED
    BY <1>2 DEF Done
<1>5. Place(u) = [step |-> step, calls |-> user[u].calls, answer |-> answer]
  BY DEF Place
<1>6. Place(u)' = [step |-> step', calls |-> user'[u].calls, answer |-> answer']
  BY DEF Place
<1> HIDE DEF step, answer
<1>. QED
  BY <1>3, <1>4, <1>5, <1>6

LEMMA PlaceOf ==
  ASSUME NEW u \in MappingUsers, OneRequest(u), user[u].step \in {"idle", "waiting"}
  PROVE  /\ user[u].step = "idle" => Place(u) = Service!NotCalling
         /\ user[u].step = "waiting" /\ InMail(u) => Place(u).step = "pending" /\ Place(u).answer = {}
         /\ user[u].step = "waiting" /\ InHand(u) /\ saving.step # "write"
              => Place(u).step = "pending" /\ Place(u).answer = {}
         /\ user[u].step = "waiting" /\ InHand(u) /\ saving.step = "write"
              => Place(u).step = "done" /\ Place(u).answer = {Done}
         /\ user[u].step = "waiting" /\ user[u].reply # {} => Place(u).step = "done"
         /\ Place(u).calls = user[u].calls
<1>1. Place(u).calls = user[u].calls
  BY DEF Place
<1>2. user[u].step = "idle" => Place(u) = Service!NotCalling
  BY DEF Place, OneRequest, NoUser, Service!NotCalling
<1>3. user[u].step = "waiting" /\ InMail(u) => Place(u).step = "pending" /\ Place(u).answer = {}
  BY DEF Place, OneRequest, Finished
<1>4. user[u].step = "waiting" /\ InHand(u) /\ saving.step # "write"
        => Place(u).step = "pending" /\ Place(u).answer = {}
  BY DEF Place, OneRequest, Finished
<1>5. user[u].step = "waiting" /\ InHand(u) /\ saving.step = "write"
        => Place(u).step = "done" /\ Place(u).answer = {Done}
  BY DEF Place, OneRequest, Finished
<1>6. user[u].step = "waiting" /\ user[u].reply # {} => Place(u).step = "done"
  BY DEF Place, Finished
<1>. QED
  BY <1>1, <1>2, <1>3, <1>4, <1>5, <1>6

\* The calls of the clients that a step does not touch.
LEMMA OneWaits ==
  ASSUME NEW u \in MappingUsers, \A v \in MappingUsers : v # u => Place(v)' = Place(v)
  PROVE  Waits' = [Waits EXCEPT ![u] = Place(u)'] /\ Waits[u] = Place(u)
<1>1. \A v \in MappingUsers : Awaited(v) = Place(v) /\ Awaited(v)' = Place(v)'
  BY AwaitedIsPlace, AwaitedIsPlaceNext
<1>2. Waits = [v \in MappingUsers |-> Place(v)] /\ Waits' = [v \in MappingUsers |-> Place(v)']
  BY <1>1 DEF Waits
<1>. QED
  BY <1>2

LEMMA NobodyWaits ==
  ASSUME \A v \in MappingUsers : Place(v)' = Place(v)
  PROVE  Waits' = Waits
<1>1. \A v \in MappingUsers : Awaited(v) = Place(v) /\ Awaited(v)' = Place(v)'
  BY AwaitedIsPlace, AwaitedIsPlaceNext
<1>. QED
  BY <1>1 DEF Waits

LateOf(c) == Cardinality(LateIn(mailbox, c)) + LateInHand(handling, saving.step, c)

LEMMA LateIsLateOf == LateCalls = [c \in AllCalls |-> LateOf(c)]
BY LateCounted DEF LateOf

LEMMA LateIsLateOfNext == (LateCalls = [c \in AllCalls |-> LateOf(c)])'
BY LateIsLateOf, PTL

LEMMA LateOfType ==
  ASSUME Requested, NEW c
  PROVE  LateOf(c) \in Nat
BY LateFinite DEF LateOf, LateInHand, Requested

LEMMA SameLate ==
  ASSUME \A c \in AllCalls : LateOf(c)' = LateOf(c)
  PROVE  LateCalls' = LateCalls
BY LateIsLateOf, LateIsLateOfNext

LEMMA OneMoreLate ==
  ASSUME Requested, NEW d \in AllCalls, \A c \in AllCalls : LateOf(c)' = LateOf(c) + IF c = d THEN 1 ELSE 0
  PROVE  LateCalls' = [LateCalls EXCEPT ![d] = @ + 1]
<1> DEFINE L == [c \in AllCalls |-> LateOf(c)]
<1>1. LateOf(d) + 1 = L[d] + 1 /\ \A c \in AllCalls : c # d => LateOf(c)' = LateOf(c)
  BY LateOfType
<1>2. LateCalls' = [L EXCEPT ![d] = L[d] + 1]
  BY <1>1, LateIsLateOfNext
<1>. QED
  BY <1>2, LateIsLateOf

LEMMA OneLessLate ==
  ASSUME Requested, NEW d \in AllCalls, \A c \in AllCalls : LateOf(c) = LateOf(c)' + IF c = d THEN 1 ELSE 0,
         \A c \in AllCalls : LateOf(c)' \in Nat
  PROVE  LateCalls' = [LateCalls EXCEPT ![d] = @ - 1] /\ LateCalls[d] > 0
<1>1. \A c \in AllCalls : LateOf(c)' = IF c = d THEN LateOf(c) - 1 ELSE LateOf(c)
  BY LateOfType
<1>. QED
  BY <1>1, LateIsLateOf, LateIsLateOfNext

LEMMA SameTable ==
  ASSUME UNCHANGED <<camDatabase, saving>>
  PROVE  DurableTable' = DurableTable /\ Lost' = Lost
BY DEF DurableTable, DurableMappings, Lost

\* The service, over what the clients see of the server.
LEMMA InvokeSeen ==
  ASSUME DurableTable' = DurableTable, Lost' = Lost, LateCalls' = LateCalls,
         NEW u \in MappingUsers, Waits[u] = Service!NotCalling, NEW c \in AllCalls,
         Waits' = [Waits EXCEPT ![u] = [step |-> "pending", calls |-> {c}, answer |-> {}]]
  PROVE  Service!Invoke(u)
BY DEF Service!Invoke, Waits, Lost

LEMMA CallImplements ==
  ASSUME Requested, NEW u \in MappingUsers, Call(u)
  PROVE  Service!Invoke(u)
<1>1. PICK c \in UserCalls[u] :
        /\ user' = [user EXCEPT ![u] = [step |-> "waiting", calls |-> {c}, reply |-> {}]]
        /\ mailbox' = Append(mailbox, [from |-> u, call |-> c])
  BY DEF Call
<1> DEFINE message == [from |-> u, call |-> c]
<1>2. c \in AllCalls /\ user[u] = NoUser /\ UNCHANGED <<handling, saving, camDatabase>> /\ message \in Requests
      /\ mailbox \in Seq(Requests)
  BY CallsTyped DEF Call, QuietServer, Requests, Requested
<1>3. /\ DOMAIN mailbox' = 1 .. Len(mailbox) + 1 /\ DOMAIN mailbox = 1 .. Len(mailbox) /\ Len(mailbox) \in Nat
      /\ \A i \in DOMAIN mailbox : mailbox'[i] = mailbox[i]
      /\ mailbox'[Len(mailbox) + 1] = message
  BY <1>1, <1>2
<1>4. ASSUME NEW v \in MappingUsers
      PROVE  InMail(v)' <=> v = u \/ InMail(v)
  BY <1>3 DEF InMail
<1>5. LateCalls' = LateCalls
  <2>1. message.from # Nobody
    BY UsersAssumption
  <2>2. \A d \in AllCalls : LateOf(d)' = LateOf(d)
    BY <1>1, <1>2, <2>1, LateAppended DEF LateOf
  <2>. QED
    BY <2>2, SameLate
<1>6. ASSUME NEW v \in MappingUsers, v # u
      PROVE  Place(v)' = Place(v)
  <2>1. user'[v] = user[v]
    BY <1>1, <1>6 DEF Requested
  <2>2. InHand(v)' <=> InHand(v)
    BY <1>2 DEF InHand
  <2>. QED
    BY <1>2, <1>4, <1>6, <2>1, <2>2, SamePlace
<1>7. Place(u)' = [step |-> "pending", calls |-> {c}, answer |-> {}]
  <2>1. user'[u] = [step |-> "waiting", calls |-> {c}, reply |-> {}]
    BY <1>1 DEF Requested
  <2>2. ~InHand(u)' /\ InMail(u)'
    BY <1>2, <1>4 DEF InHand, Requested, OneRequest, NoUser
  <2>. QED
    BY <2>1, <2>2 DEF Place, Finished
<1>8. Place(u) = Service!NotCalling
  BY <1>2, PlaceOf DEF Requested, NoUser
<1>9. Waits' = [Waits EXCEPT ![u] = [step |-> "pending", calls |-> {c}, answer |-> {}]] /\ Waits[u] = Service!NotCalling
  BY <1>6, <1>7, <1>8, OneWaits
<1>. QED
  BY <1>2, <1>5, <1>9, SameTable, InvokeSeen

LEMMA LeavesNothing ==
  ASSUME NEW u \in MappingUsers, user'[u] = NoUser, ~InHand(u)'
  PROVE  Place(u)' = Service!NotCalling
BY DEF Place, NoUser, Service!NotCalling

LEMMA ReceiveImplements ==
  ASSUME Requested, NEW u \in MappingUsers, Receive(u)
  PROVE  Service!Return(u)
<1>1. user[u].reply # {} /\ user' = [user EXCEPT ![u] = NoUser]
      /\ UNCHANGED <<mailbox, handling, saving, camDatabase>>
  BY DEF Receive, QuietServer
<1>2. LateCalls' = LateCalls
  <2>1. \A c \in AllCalls : LateOf(c)' = LateOf(c)
    BY <1>1 DEF LateOf, LateIn, LateInHand
  <2>. QED
    BY <2>1, SameLate
<1>3. ASSUME NEW v \in MappingUsers
      PROVE  (InMail(v)' <=> InMail(v)) /\ (InHand(v)' <=> InHand(v))
  BY <1>1 DEF InMail, InHand
<1>4. ASSUME NEW v \in MappingUsers, v # u
      PROVE  Place(v)' = Place(v)
  <2>1. user'[v] = user[v]
    BY <1>1, <1>4 DEF Requested
  <2>. QED
    BY <1>1, <1>3, <2>1, SamePlace
<1>5. OneRequest(u) /\ user[u].step \in {"idle", "waiting"} /\ user'[u] = NoUser
  BY <1>1 DEF Requested
<1>6. Place(u)' = Service!NotCalling
  BY <1>1, <1>3, <1>5, LeavesNothing DEF OneRequest
<1>7. Place(u).step = "done"
  BY <1>1, <1>5, PlaceOf DEF OneRequest, NoUser
<1>8. Waits' = [Waits EXCEPT ![u] = Service!NotCalling] /\ Waits[u].step = "done"
  BY <1>4, <1>6, <1>7, OneWaits
<1>9. DurableTable' = DurableTable /\ Lost' = Lost
  BY <1>1, SameTable
<1>. QED
  BY <1>2, <1>8, <1>9 DEF Service!Return, Waits, Lost

\* The request of a client that gives up stays, and is nobody's.
LEMMA GivenUp ==
  ASSUME Requested, NEW u \in MappingUsers, TimeOut(u)
  PROVE  /\ \A v \in MappingUsers : /\ InMail(v)' <=> v # u /\ InMail(v)
                                    /\ InHand(v)' <=> v # u /\ InHand(v)
         /\ ~InMail(u) => UNCHANGED mailbox
         /\ ~InHand(u) => UNCHANGED handling
         /\ InHand(u) => \E message \in Requests :
              message.from = u /\ handling = {message} /\ handling' = {Late(message.call)}
<1>1. /\ mailbox' = [i \in DOMAIN mailbox |-> From(u, mailbox[i])]
      /\ handling' = {From(u, message) : message \in handling}
  BY DEF TimeOut
<1>2. ASSUME NEW message \in Requests
      PROVE  /\ message.from # u => From(u, message) = message
             /\ message.from = u => From(u, message) = Late(message.call)
             /\ From(u, message).from = IF message.from = u THEN Nobody ELSE message.from
  BY DEF From, Requests, Late
<1>3. mailbox \in Seq(Requests) /\ handling \subseteq Requests
  BY DEF Requested
<1>4. \A i \in DOMAIN mailbox : mailbox[i] \in Requests /\ mailbox'[i] = From(u, mailbox[i])
  BY <1>1, <1>3
<1>5. DOMAIN mailbox' = DOMAIN mailbox
  BY <1>1
<1>6. ASSUME NEW v \in MappingUsers
      PROVE  InMail(v)' <=> v # u /\ InMail(v)
  <2>1. \A i \in DOMAIN mailbox : mailbox'[i].from = v <=> v # u /\ mailbox[i].from = v
    BY <1>2, <1>4, UsersAssumption
  <2>. QED
    BY <1>5, <2>1 DEF InMail
<1>7. ASSUME NEW v \in MappingUsers
      PROVE  InHand(v)' <=> v # u /\ InHand(v)
  <2>1. \A message \in handling : From(u, message).from = v <=> v # u /\ message.from = v
    BY <1>2, <1>3, UsersAssumption
  <2>. QED
    BY <1>1, <2>1 DEF InHand
<1>8. ASSUME ~InMail(u)
      PROVE  UNCHANGED mailbox
  <2>1. \A i \in DOMAIN mailbox : mailbox'[i] = mailbox[i]
    BY <1>2, <1>4, <1>8 DEF InMail
  <2>2. mailbox = [i \in DOMAIN mailbox |-> mailbox[i]] /\ mailbox' = [i \in DOMAIN mailbox |-> mailbox'[i]]
    BY <1>1, <1>3
  <2>. QED
    BY <2>1, <2>2
<1>9. ASSUME ~InHand(u)
      PROVE  UNCHANGED handling
  BY <1>1, <1>2, <1>3, <1>9 DEF InHand
<1>10. ASSUME InHand(u)
       PROVE  \E message \in Requests :
                message.from = u /\ handling = {message} /\ handling' = {Late(message.call)}
  <2>1. PICK message \in Requests : handling = {message}
    BY <1>10 DEF InHand, Requested
  <2>2. message.from = u
    BY <1>10, <2>1 DEF InHand
  <2>. QED
    BY <1>1, <1>2, <2>1, <2>2
<1>. QED
  BY <1>6, <1>7, <1>8, <1>9, <1>10

LEMMA TimeOutImplements ==
  ASSUME Requested, NEW u \in MappingUsers, TimeOut(u)
  PROVE  Service!GiveUp(u)
<1>1. user[u].step = "waiting" /\ user' = [user EXCEPT ![u] = NoUser] /\ UNCHANGED <<saving, camDatabase>>
      /\ mailbox' = [i \in DOMAIN mailbox |-> From(u, mailbox[i])]
  BY DEF TimeOut
<1>2. OneRequest(u) /\ user[u].step \in {"idle", "waiting"} /\ user'[u] = NoUser
      /\ mailbox \in Seq(Requests) /\ (handling = {} \/ \E message \in Requests : handling = {message})
  BY <1>1 DEF Requested
<1>3. ASSUME NEW v \in MappingUsers, v # u
      PROVE  Place(v)' = Place(v)
  <2>1. user'[v] = user[v]
    BY <1>1, <1>3 DEF Requested
  <2>2. (InMail(v)' <=> InMail(v)) /\ (InHand(v)' <=> InHand(v))
    BY <1>3, GivenUp
  <2>. QED
    BY <1>1, <2>1, <2>2, SamePlace
<1>4. Place(u)' = Service!NotCalling
  <2>1. ~InHand(u)'
    BY GivenUp
  <2>. QED
    BY <1>2, <2>1, LeavesNothing
<1>5. Waits' = [Waits EXCEPT ![u] = Service!NotCalling] /\ Waits[u] = Place(u)
  BY <1>3, <1>4, OneWaits
<1>6. Place(u).step # "idle" /\ Place(u).calls = user[u].calls
  BY <1>1 DEF Place
<1>7. \/ LateCalls' = LateCalls
      \/ Place(u).step = "pending" /\ \E c \in user[u].calls : LateCalls' = [LateCalls EXCEPT ![c] = @ + 1]
  <2>1. CASE InMail(u)
    <3>1. PICK j \in DOMAIN mailbox : mailbox[j].from = u
      BY <2>1 DEF InMail
    <3>2. \A i \in DOMAIN mailbox : mailbox[i].from = u <=> i = j
      BY <1>2, <3>1 DEF OneRequest
    <3> DEFINE d == mailbox[j].call
    <3>3. d \in AllCalls /\ d \in user[u].calls
      <4>1. mailbox[j] \in Requests
        BY <1>2, <3>1
      <4>. QED
        BY <1>1, <1>2, <3>1, <4>1 DEF OneRequest, Requests
    <3>4. ~InHand(u) /\ UNCHANGED handling
      BY <1>2, <2>1, GivenUp DEF OneRequest
    <3>5. ASSUME NEW c \in AllCalls
          PROVE  LateOf(c)' = LateOf(c) + IF c = d THEN 1 ELSE 0
      <4>1. Cardinality(LateIn(mailbox', c)) = Cardinality(LateIn(mailbox, c)) + IF d = c THEN 1 ELSE 0
        BY <1>1, <1>2, <3>2, LateRenamed
      <4>2. LateInHand(handling, saving.step, c)' = LateInHand(handling, saving.step, c)
        BY <1>1, <3>4 DEF LateInHand
      <4>3. Cardinality(LateIn(mailbox, c)) \in Nat /\ LateInHand(handling, saving.step, c) \in Nat
        BY <1>2, LateFinite DEF LateInHand
      <4>4. LateOf(c)' = Cardinality(LateIn(mailbox', c)) + LateInHand(handling, saving.step, c)'
        BY DEF LateOf, LateIn
      <4> HIDE DEF d
      <4>. QED
        BY <4>1, <4>2, <4>3, <4>4 DEF LateOf
    <3> HIDE DEF d
    <3>6. LateCalls' = [LateCalls EXCEPT ![d] = @ + 1]
      BY <3>3, <3>5, OneMoreLate
    <3>. QED
      BY <1>1, <1>2, <2>1, <3>3, <3>6, PlaceOf
  <2>2. CASE ~InMail(u) /\ InHand(u) /\ saving.step # "write"
    <3>1. UNCHANGED mailbox
      BY <2>2, GivenUp
    <3>2. PICK message \in Requests :
            message.from = u /\ handling = {message} /\ handling' = {Late(message.call)}
      BY <2>2, GivenUp
    <3> DEFINE d == message.call
    <3>3. d \in AllCalls /\ d \in user[u].calls
      BY <1>1, <1>2, <3>2 DEF OneRequest, Requests
    <3>4. ASSUME NEW c \in AllCalls
          PROVE  LateOf(c)' = LateOf(c) + IF c = d THEN 1 ELSE 0
      <4>1. LateIn(mailbox, c)' = LateIn(mailbox, c)
        BY <3>1 DEF LateIn
      <4>2. Late(c) \notin handling
        BY <3>2, UsersAssumption DEF Late
      <4>3. Late(c) \in handling' <=> c = d
        BY <3>2 DEF Late
      <4>4. LateInHand(handling, saving.step, c) = 0
            /\ LateInHand(handling, saving.step, c)' = IF c = d THEN 1 ELSE 0
        BY <1>1, <2>2, <4>2, <4>3 DEF LateInHand, Late
      <4>5. Cardinality(LateIn(mailbox, c)) \in Nat
        BY <1>2, LateFinite
      <4>6. LateOf(c)' = Cardinality(LateIn(mailbox, c)') + LateInHand(handling, saving.step, c)'
        BY DEF LateOf
      <4> HIDE DEF d
      <4>. QED
        BY <4>1, <4>4, <4>5, <4>6 DEF LateOf
    <3> HIDE DEF d
    <3>5. LateCalls' = [LateCalls EXCEPT ![d] = @ + 1]
      BY <3>3, <3>4, OneMoreLate
    <3>. QED
      BY <1>1, <1>2, <2>2, <3>3, <3>5, PlaceOf
  <2>3. CASE ~InMail(u) /\ (~InHand(u) \/ saving.step = "write")
    <3>1. UNCHANGED mailbox
      BY <2>3, GivenUp
    <3>2. saving.step = "write" \/ UNCHANGED handling
      BY <2>3, GivenUp
    <3>3. \A c \in AllCalls : LateOf(c)' = LateOf(c)
      BY <1>1, <3>1, <3>2 DEF LateOf, LateIn, LateInHand, Late
    <3>. QED
      BY <3>3, SameLate
  <2>. QED
    BY <2>1, <2>2, <2>3
<1>8. DurableTable' = DurableTable /\ Lost' = Lost
  BY <1>1, SameTable
<1>9. \/ LateCalls' = LateCalls
      \/ Waits[u].step = "pending" /\ \E c \in Waits[u].calls : LateCalls' = [LateCalls EXCEPT ![c] = @ + 1]
  BY <1>5, <1>6, <1>7
<1>. QED
  BY <1>5, <1>6, <1>8, <1>9 DEF Service!GiveUp, Waits, Lost

\* A step that the callers do not notice.
LEMMA Unnoticed ==
  ASSUME DurableTable' = DurableTable, Lost' = Lost, LateCalls' = LateCalls,
         \A v \in MappingUsers : Place(v)' = Place(v)
  PROVE  [Service!ServiceNext]_(Service!serviceVars)
<1>1. Waits' = Waits
  BY NobodyWaits
<1>. QED
  BY <1>1 DEF Service!serviceVars, Waits, Lost

LEMMA DoneRecord ==
  ASSUME NEW r, \E step, calls, answer : r = [step |-> step, calls |-> calls, answer |-> answer], NEW given
  PROVE  [r EXCEPT !.step = "done", !.answer = given] = [step |-> "done", calls |-> r.calls, answer |-> given]
<1> DEFINE As(step, calls, answer) == [x \in {"step", "calls", "answer"} |->
             IF x = "step" THEN step ELSE IF x = "calls" THEN calls ELSE answer]
<1>1. PICK step, calls, answer : r = [step |-> step, calls |-> calls, answer |-> answer]
  OBVIOUS
<1>2. r = As(step, calls, answer) /\ [step |-> "done", calls |-> calls, answer |-> given] = As("done", calls, given)
  BY <1>1
<1>3. [r EXCEPT !.step = "done", !.answer = given] = As("done", calls, given)
  BY <1>2
<1>. QED
  BY <1>1, <1>2, <1>3

\* A call that takes effect and is answered ...
LEMMA AnsweredExecutes ==
  ASSUME NEW u \in MappingUsers, NEW c, Service!Execute(c), LateCalls' = LateCalls,
         Place(u).step = "pending", Place(u).calls = {c},
         Place(u)' = [step |-> "done", calls |-> {c}, answer |-> {Service!AnswerTo(c)}],
         \A v \in MappingUsers : v # u => Place(v)' = Place(v)
  PROVE  Service!ExecuteCall(u)
<1>1. Waits' = [Waits EXCEPT ![u] = [step |-> "done", calls |-> {c}, answer |-> {Service!AnswerTo(c)}]]
      /\ Waits[u] = Place(u)
  BY OneWaits
<1>2. \E step, calls, answer : Place(u) = [step |-> step, calls |-> calls, answer |-> answer]
  <2>1. Place(u) = [step |-> Place(u).step, calls |-> Place(u).calls, answer |-> Place(u).answer]
    BY DEF Place
  <2>. QED
    BY <2>1
<1>3. Waits' = [Waits EXCEPT ![u] = [Waits[u] EXCEPT !.step = "done", !.answer = {Service!AnswerTo(c)}]]
  <2> DEFINE a == {Service!AnswerTo(c)}
  <2> HIDE DEF a
  <2>1. [Place(u) EXCEPT !.step = "done", !.answer = a] = [step |-> "done", calls |-> {c}, answer |-> a]
    <3> DEFINE p == Place(u)
    <3>1. p.calls = {c} /\ \E step, calls, answer : p = [step |-> step, calls |-> calls, answer |-> answer]
      BY <1>2
    <3> HIDE DEF p
    <3>2. [p EXCEPT !.step = "done", !.answer = a] = [step |-> "done", calls |-> p.calls, answer |-> a]
      BY <3>1, DoneRecord
    <3>3. [p EXCEPT !.step = "done", !.answer = a] = [step |-> "done", calls |-> {c}, answer |-> a]
      BY <3>1, <3>2
    <3>. QED
      BY <3>3 DEF p
  <2>2. Waits' = [Waits EXCEPT ![u] = [step |-> "done", calls |-> {c}, answer |-> a]] /\ Waits[u] = Place(u)
    BY <1>1 DEF a
  <2>3. Waits' = [Waits EXCEPT ![u] = [Waits[u] EXCEPT !.step = "done", !.answer = a]]
    BY <2>1, <2>2
  <2>. QED
    BY <2>3 DEF a
<1>4. Waits' = [Waits EXCEPT ![u].step = "done", ![u].answer = {Service!AnswerTo(c)}]
  <2> DEFINE a == {Service!AnswerTo(c)}
  <2> HIDE DEF a
  <2>1. Waits = [v \in MappingUsers |-> Waits[v]]
    BY DEF Waits
  <2>2. Waits' = [Waits EXCEPT ![u] = [Waits[u] EXCEPT !.step = "done", !.answer = a]]
    BY <1>3 DEF a
  <2>3. Waits' = [Waits EXCEPT ![u].step = "done", ![u].answer = a]
    BY <2>1, <2>2
  <2>. QED
    BY <2>3 DEF a
<1>. QED
  BY <1>1, <1>4 DEF Service!ExecuteCall, Waits

\* ... and one whose caller has given up.
LEMMA LateExecutes ==
  ASSUME Requested, NEW c \in AllCalls, Service!Execute(c),
         \A d \in AllCalls : LateOf(d) = LateOf(d)' + IF d = c THEN 1 ELSE 0,
         \A d \in AllCalls : LateOf(d)' \in Nat,
         \A v \in MappingUsers : Place(v)' = Place(v)
  PROVE  Service!ExecuteLate(c)
<1>1. LateCalls' = [LateCalls EXCEPT ![c] = @ - 1] /\ LateCalls[c] > 0
  BY OneLessLate
<1>2. Waits' = Waits
  BY NobodyWaits
<1>. QED
  BY <1>1, <1>2 DEF Service!ExecuteLate, Waits

LEMMA RepliedPlace ==
  ASSUME NEW u \in MappingUsers, NEW c, NEW reply, ~InHand(u)',
         user'[u].step = "waiting", user'[u].calls = {c}, user'[u].reply = {reply}
  PROVE  Place(u)' = [step |-> "done", calls |-> {c}, answer |-> {Outcome(c, reply)}]
<1> DEFINE outcomes == {Outcome(d, r) : d \in user[u].calls, r \in user[u].reply}
<1>1. \A d, r : Outcome(d, r)' = Outcome(d, r)
  BY DEF Outcome, ThrownFor
<1>2. outcomes' = {Outcome(c, reply)}
  BY <1>1
<1>3. Place(u) = [step |-> IF user[u].step = "idle" THEN "idle" ELSE IF Finished(u) THEN "done"
                           ELSE IF InMail(u) \/ InHand(u) THEN "pending" ELSE "unanswered",
                  calls  |-> user[u].calls,
                  answer |-> IF InHand(u) /\ saving.step = "write" THEN {Done} ELSE outcomes]
  BY DEF Place
<1> HIDE DEF outcomes
<1>4. Finished(u)'
  BY DEF Finished
<1>5. Place(u)' = [step |-> "done", calls |-> {c}, answer |-> outcomes']
  BY <1>4 DEF Place, outcomes
<1>. QED
  BY <1>2, <1>5

LEMMA TakeImplements ==
  ASSUME IInv, Injective, ~MappingWritesFail, Requested, Take
  PROVE  [Service!ServiceNext]_(Service!serviceVars)
<1> DEFINE message == Head(mailbox)
           c == message.call
<1>1. mailbox # <<>> /\ mailbox' = Tail(mailbox) /\ Handle(Payload(c))
  BY DEF Take
<1>2. message \in Requests /\ c \in Calls /\ c \in AllCalls /\ message.from \in MappingUsers \cup {Nobody}
      /\ mailbox \in Seq(Requests) /\ mailbox' \in Seq(Requests)
  BY <1>1, TakenIsOnly, FirstRequest DEF Requests
<1>3. CamListening /\ (Answered(c) \/ Stored(c))
  BY <1>1, <1>2, CallServed DEF IInv
<1>4. saving.step = "idle" /\ camDatabase.file = "written" /\ handling = {} /\ ~Lost
  BY <1>3 DEF CamListening, IInv, CamIInv, Flushed, Requested, Lost
<1>5. ASSUME NEW v \in MappingUsers
      PROVE  /\ OneRequest(v) /\ user[v].step \in {"idle", "waiting"}
             /\ ~InHand(v) /\ (InMail(v)' <=> InMail(v) /\ message.from # v)
             /\ message.from = v => InMail(v) /\ user[v].step = "waiting" /\ user[v].reply = {}
                                    /\ user[v].calls = {c}
  <2>1. OneRequest(v) /\ user[v].step \in {"idle", "waiting"} /\ ~InHand(v)
    BY <1>4 DEF Requested, InHand
  <2>. QED
    BY <1>1, <2>1, MailTaken
<1>6. ASSUME NEW d \in AllCalls
      PROVE  /\ Cardinality(LateIn(mailbox, d))
                  = Cardinality(LateIn(mailbox, d)') + IF message = Late(d) THEN 1 ELSE 0
             /\ Cardinality(LateIn(mailbox, d)') \in Nat /\ LateInHand(handling, saving.step, d) = 0
  <2>1. LateIn(mailbox, d)' = LateIn(mailbox', d)
    BY DEF LateIn
  <2>2. Cardinality(LateIn(mailbox, d)) = Cardinality(LateIn(mailbox', d)) + IF message = Late(d) THEN 1 ELSE 0
    BY <1>1, <1>2, LateTaken
  <2>3. Cardinality(LateIn(mailbox', d)) \in Nat
    BY <1>2, LateFinite
  <2>. QED
    BY <1>4, <2>1, <2>2, <2>3 DEF LateInHand
<1> HIDE DEF message, c
<1>7. CASE Stored(c)
  <2>1. camAnswer'.status = "none" /\ UNCHANGED camDatabase /\ saving'.step = "open"
    BY <1>7 DEF Stored
  <2>2. handling' = {message} /\ UNCHANGED user
    BY <2>1 DEF Take, message
  <2>3. DurableTable' = DurableTable /\ Lost' = Lost
    BY <1>4, <2>1 DEF DurableTable, DurableMappings, Lost
  <2>4. ASSUME NEW v \in MappingUsers
        PROVE  Place(v)' = Place(v)
    <3>1. CASE message.from # v
      <4>1. (InMail(v)' <=> InMail(v)) /\ (InHand(v)' <=> InHand(v)) /\ user'[v] = user[v]
        BY <1>5, <2>2, <3>1 DEF InHand
      <4>. QED
        BY <1>5, <4>1, SamePlace
    <3>2. CASE message.from = v
      <4>1. InMail(v) /\ InHand(v)' /\ user[v].step = "waiting" /\ user[v].reply = {} /\ user'[v] = user[v]
        BY <1>5, <2>2, <3>2 DEF InHand
      <4>2. Place(v) = [step |-> "pending", calls |-> user[v].calls, answer |-> {}]
        BY <1>4, <4>1 DEF Place, Finished
      <4>3. Place(v)' = [step |-> "pending", calls |-> user[v].calls, answer |-> {}]
        BY <2>1, <4>1 DEF Place, Finished
      <4>. QED
        BY <4>2, <4>3
    <3>. QED
      BY <3>1, <3>2
  <2>5. ASSUME NEW d \in AllCalls
        PROVE  LateOf(d)' = LateOf(d)
    <3>1. LateInHand(handling, saving.step, d)' = IF message = Late(d) THEN 1 ELSE 0
      BY <2>1, <2>2 DEF LateInHand, Late
    <3>2. LateOf(d)' = Cardinality(LateIn(mailbox, d)') + LateInHand(handling, saving.step, d)'
      BY DEF LateOf
    <3>. QED
      BY <1>6, <3>1, <3>2 DEF LateOf
  <2>. QED
    BY <2>3, <2>4, <2>5, SameLate, Unnoticed
<1>8. CASE Answered(c)
  <2> DEFINE reply == ReplyFrames(camAnswer')
  <2>1. /\ camAnswer'.status # "none" /\ UNCHANGED <<saving, camDatabase>> /\ reply \in Replies
        /\ c.method \in Service!Changing => Service!AnswerTo(c).status # "OK"
        /\ Outcome(c, reply) = Service!AnswerTo(c)
    BY <1>8 DEF Answered
  <2>2. ReplyTo(message.from) /\ UNCHANGED handling
    BY <2>1 DEF Take, message
  <2>3. DurableTable' = DurableTable /\ Lost' = Lost
    BY <2>1, SameTable
  <2>4. Service!Execute(c)
    BY <1>4, <2>1, <2>3 DEF Service!Execute, Lost
  <2>5. ASSUME NEW v \in MappingUsers
        PROVE  /\ v # message.from => user'[v] = user[v]
               /\ user'[v].step = user[v].step /\ user'[v].calls = user[v].calls
               /\ v = message.from => user'[v].reply = {reply}
    BY <1>2, <2>1, <2>2, ReplySent
  <2>6. ASSUME NEW v \in MappingUsers, v # message.from
        PROVE  Place(v)' = Place(v)
    <3>1. (InMail(v)' <=> InMail(v)) /\ (InHand(v)' <=> InHand(v)) /\ user'[v] = user[v]
      BY <1>5, <2>2, <2>5, <2>6 DEF InHand
    <3>. QED
      BY <1>5, <3>1, SamePlace
  <2>7. ASSUME NEW d \in AllCalls
        PROVE  /\ LateOf(d) = LateOf(d)' + IF message = Late(d) THEN 1 ELSE 0
               /\ LateOf(d)' \in Nat
    <3>1. LateInHand(handling, saving.step, d)' = 0
      BY <1>4, <2>2 DEF LateInHand
    <3>2. LateOf(d)' = Cardinality(LateIn(mailbox, d)') + LateInHand(handling, saving.step, d)'
      BY DEF LateOf
    <3>. QED
      BY <1>6, <3>1, <3>2 DEF LateOf
  <2>8. CASE message.from \in MappingUsers
    <3> PICK u \in MappingUsers : u = message.from
      BY <2>8
    <3>1. Place(u).step = "pending" /\ Place(u).calls = {c}
      BY <1>5, <2>8, PlaceOf
    <3>2. ~InHand(u)' /\ user'[u].step = "waiting" /\ user'[u].calls = {c} /\ user'[u].reply = {reply}
      BY <1>4, <1>5, <2>2, <2>5, <2>8 DEF InHand
    <3>3. Place(u)' = [step |-> "done", calls |-> {c}, answer |-> {Outcome(c, reply)}]
      <4> HIDE DEF reply
      <4>. QED
        BY <3>2, RepliedPlace
    <3>4. \A d \in AllCalls : message # Late(d)
      BY <2>8, UsersAssumption DEF Late
    <3>5. LateCalls' = LateCalls
      BY <2>7, <3>4, SameLate
    <3> HIDE DEF reply
    <3>6. Service!ExecuteCall(u)
      BY <2>1, <2>4, <2>6, <2>8, <3>1, <3>3, <3>5, AnsweredExecutes
    <3>. QED
      BY <2>8, <3>6 DEF Service!ServiceNext
  <2>9. CASE message.from = Nobody
    <3>1. \A v \in MappingUsers : Place(v)' = Place(v)
      BY <2>6, <2>9, UsersAssumption
    <3>2. \A d \in AllCalls : message = Late(d) <=> d = c
      BY <1>2, <2>9 DEF Late, Requests, c
    <3>3. \A d \in AllCalls : LateOf(d)' \in Nat /\ LateOf(d) = LateOf(d)' + IF d = c THEN 1 ELSE 0
      BY <2>7, <3>2
    <3>4. Service!ExecuteLate(c)
      BY <1>2, <2>4, <3>1, <3>3, LateExecutes
    <3>. QED
      BY <1>2, <3>4 DEF Service!ServiceNext
  <2>. QED
    BY <1>2, <2>8, <2>9
<1>. QED
  BY <1>3, <1>7, <1>8

\* The requests in the mailbox stay; one that leaves the hands of the server was late.
LEMMA LateInHandOnly ==
  ASSUME Requested, UNCHANGED mailbox, NEW c \in AllCalls
  PROVE  /\ Cardinality(LateIn(mailbox, c)) \in Nat
         /\ LateOf(c) = Cardinality(LateIn(mailbox, c)) + LateInHand(handling, saving.step, c)
         /\ LateOf(c)' = Cardinality(LateIn(mailbox, c)) + LateInHand(handling, saving.step, c)'
<1>1. Cardinality(LateIn(mailbox, c)) \in Nat
  BY LateFinite DEF Requested
<1>2. LateIn(mailbox, c)' = LateIn(mailbox, c)
  BY DEF LateIn
<1>. QED
  BY <1>1, <1>2 DEF LateOf

LEMMA WaitingInHand ==
  ASSUME Requested, NEW u \in MappingUsers, NEW message \in handling, message.from = u
  PROVE  /\ user[u].step = "waiting" /\ user[u].calls = {message.call} /\ user[u].reply = {}
         /\ InHand(u) /\ ~InMail(u) /\ handling = {message} /\ message \in Requests
         /\ \A c \in AllCalls : Late(c) \notin handling
         /\ \A v \in MappingUsers : v # u => ~InHand(v)
<1>1. OneRequest(u) /\ user[u].step \in {"idle", "waiting"} /\ handling = {message} /\ message \in Requests
  BY DEF Requested
<1>2. InHand(u)
  BY DEF InHand
<1>3. user[u].step = "waiting" /\ user[u].calls = {message.call} /\ user[u].reply = {} /\ ~InMail(u)
  BY <1>1, <1>2 DEF OneRequest
<1>4. \A c \in AllCalls : Late(c) \notin handling
  BY <1>1, UsersAssumption DEF Late
<1>5. \A v \in MappingUsers : v # u => ~InHand(v)
  BY <1>1 DEF InHand
<1>. QED
  BY <1>1, <1>2, <1>3, <1>4, <1>5

LEMMA LateInHandIs ==
  ASSUME Requested, NEW message \in handling, message.from = Nobody
  PROVE  /\ message.call \in AllCalls /\ handling = {Late(message.call)}
         /\ \A c \in AllCalls : Late(c) \in handling <=> c = message.call
         /\ \A v \in MappingUsers : ~InHand(v)
<1>1. handling = {message} /\ message \in Requests
  BY DEF Requested
<1>2. message = Late(message.call) /\ message.call \in AllCalls
  BY <1>1 DEF Requests, Late
<1>3. \A c \in AllCalls : Late(c) \in handling <=> c = message.call
  BY <1>1, <1>2 DEF Late
<1>4. \A v \in MappingUsers : ~InHand(v)
  BY <1>1, UsersAssumption DEF InHand
<1>. QED
  BY <1>1, <1>2, <1>3, <1>4

\* Those whose request is not in the hands of the server do not notice what it saves.
LEMMA NotInHand ==
  ASSUME UNCHANGED mailbox, NEW v \in MappingUsers, user'[v] = user[v], ~InHand(v),
         handling' = handling \/ handling' = {}
  PROVE  Place(v)' = Place(v)
<1>1. (InMail(v)' <=> InMail(v)) /\ (InHand(v)' <=> InHand(v))
  BY DEF InMail, InHand
<1>. QED
  BY <1>1, SamePlace

LEMMA OpenImplements ==
  ASSUME IInv, ~MappingWritesFail, WholeFile, Underway, Requested, Open
  PROVE  [Service!ServiceNext]_(Service!serviceVars)
<1>1. /\ saving.step = "open" /\ saving'.step = "write" /\ saving'.list = saving.list
      /\ UNCHANGED <<user, mailbox, handling>>
  BY WritesSucceed DEF OpensWell
<1>2. DurableTable' = TableOf(saving.list) /\ Lost' = FALSE /\ Lost = FALSE
  BY <1>1 DEF DurableTable, DurableMappings, TableOf, Lost, WholeFile
<1>3. ASSUME NEW v \in MappingUsers, ~InHand(v)
      PROVE  Place(v)' = Place(v)
  BY <1>1, <1>3, NotInHand
<1>4. ASSUME NEW c \in AllCalls
      PROVE  /\ LateOf(c)' \in Nat
             /\ LateOf(c) = LateOf(c)' + IF Late(c) \in handling THEN 1 ELSE 0
  BY <1>1, LateInHandOnly DEF LateInHand
<1>5. CASE handling = {}
  <2>1. DurableTable' = DurableTable
    BY <1>1, <1>2, <1>5 DEF Underway
  <2>2. \A v \in MappingUsers : Place(v)' = Place(v)
    BY <1>3, <1>5 DEF InHand
  <2>3. \A c \in AllCalls : LateOf(c)' = LateOf(c)
    BY <1>4, <1>5
  <2>. QED
    BY <1>2, <2>1, <2>2, <2>3, SameLate, Unnoticed
<1>6. ASSUME NEW message \in handling
      PROVE  Service!ServiceNext
  <2> DEFINE c == message.call
  <2>1. message.from \in MappingUsers \cup {Nobody} /\ c \in AllCalls
    BY <1>6 DEF Requested, Requests
  <2>2. /\ c.method \in Service!Changing /\ Service!AnswerTo(c) = Done
        /\ DurableTable' = [DurableTable EXCEPT ![Service!KeyOfCall(c)] = Service!Entry(c)]
    BY <1>1, <1>2, <1>6 DEF Underway
  <2> HIDE DEF c
  <2>3. Service!Execute(c)
    BY <1>2, <2>2 DEF Service!Execute, Done, Lost
  <2>4. CASE message.from \in MappingUsers
    <3> PICK u \in MappingUsers : message.from = u
      BY <2>4
    <3>1. /\ user[u].step = "waiting" /\ user[u].calls = {c} /\ user[u].reply = {} /\ InHand(u) /\ ~InMail(u)
          /\ \A d \in AllCalls : Late(d) \notin handling
          /\ \A v \in MappingUsers : v # u => ~InHand(v)
      BY <1>6, WaitingInHand DEF c
    <3>2. Place(u).step = "pending" /\ Place(u).calls = {c}
      BY <1>1, <3>1 DEF Place, Finished
    <3>3. Place(u)' = [step |-> "done", calls |-> {c}, answer |-> {Done}]
      <4>1. InHand(u)' /\ user'[u] = user[u]
        BY <1>1, <3>1 DEF InHand
      <4>2. Finished(u)'
        BY <1>1, <4>1 DEF Finished
      <4>. QED
        BY <1>1, <3>1, <4>1, <4>2 DEF Place, Done
    <3>4. LateCalls' = LateCalls
      BY <1>4, <3>1, SameLate
    <3>5. Service!ExecuteCall(u)
      BY <1>3, <2>2, <2>3, <3>1, <3>2, <3>3, <3>4, AnsweredExecutes
    <3>. QED
      BY <3>5 DEF Service!ServiceNext
  <2>5. CASE message.from = Nobody
    <3>1. /\ \A d \in AllCalls : Late(d) \in handling <=> d = c
          /\ \A v \in MappingUsers : ~InHand(v)
      BY <1>6, <2>5, LateInHandIs DEF c
    <3>2. Service!ExecuteLate(c)
      BY <1>3, <1>4, <2>1, <2>3, <3>1, LateExecutes
    <3>. QED
      BY <2>1, <3>2 DEF Service!ServiceNext
  <2>. QED
    BY <2>1, <2>4, <2>5
<1>. QED
  BY <1>5, <1>6

LEMMA WriteImplements ==
  ASSUME IInv, ~MappingWritesFail, Requested, Write
  PROVE  [Service!ServiceNext]_(Service!serviceVars)
<1>1. /\ saving.step = "write" /\ saving'.step = "idle" /\ handling' = {} /\ UNCHANGED mailbox
      /\ camDatabase' = [file |-> "written", content |-> saving.list]
  BY WritesSucceed DEF WritesWell
<1>2. DurableTable' = DurableTable /\ Lost' = Lost
  BY <1>1 DEF DurableTable, DurableMappings, Lost
<1>3. LateCalls' = LateCalls
  <2>1. \A c \in AllCalls : LateOf(c)' = LateOf(c)
    BY <1>1, LateInHandOnly DEF LateInHand, Late
  <2>. QED
    BY <2>1, SameLate
<1>4. CASE handling = {} /\ UNCHANGED user
  <2>1. \A v \in MappingUsers : Place(v)' = Place(v)
    BY <1>1, <1>4, NotInHand DEF InHand
  <2>. QED
    BY <1>2, <1>3, <2>1, Unnoticed
<1>5. ASSUME NEW message \in handling, ReplyTo(message.from)
      PROVE  [Service!ServiceNext]_(Service!serviceVars)
  <2>1. camAnswer' = [status |-> "OK", asked |-> {}, found |-> {}]
    BY <1>5 DEF Write, WriteMappings, SaveEnds, Requested, NoCamAnswer
  <2> DEFINE reply == ReplyFrames(camAnswer')
  <2>2. reply = [frame |-> "data", code |-> GENERIC, found |-> {}]
    BY <2>1 DEF ReplyFrames
  <2>3. reply \in Replies /\ \A c : Outcome(c, reply) = Done
    BY <2>2 DEF Replies, GENERIC, Outcome, Done
  <2>4. message.from \in MappingUsers \cup {Nobody}
    BY <1>5 DEF Requested, Requests
  <2> HIDE DEF reply
  <2>5. ASSUME NEW v \in MappingUsers
        PROVE  /\ v # message.from => user'[v] = user[v]
               /\ user'[v].step = user[v].step /\ user'[v].calls = user[v].calls
               /\ v = message.from => user'[v].reply = {reply}
    BY <1>5, <2>3, <2>4, ReplySent DEF reply
  <2>6. ASSUME NEW v \in MappingUsers, v # message.from
        PROVE  Place(v)' = Place(v)
    <3>1. ~InHand(v)
      BY <1>5, <2>6 DEF InHand, Requested
    <3>. QED
      BY <1>1, <2>5, <2>6, <3>1, NotInHand
  <2>7. ASSUME NEW v \in MappingUsers, v = message.from
        PROVE  Place(v)' = Place(v)
    <3> DEFINE c == message.call
    <3>1. user[v].step = "waiting" /\ user[v].calls = {c} /\ InHand(v)
      BY <1>5, <2>7, WaitingInHand
    <3>2. Place(v) = [step |-> "done", calls |-> {c}, answer |-> {Done}]
      BY <1>1, <3>1 DEF Place, Finished
    <3> HIDE DEF c
    <3>3. ~InHand(v)' /\ user'[v].step = "waiting" /\ user'[v].calls = {c} /\ user'[v].reply = {reply}
      BY <1>1, <2>5, <2>7, <3>1 DEF InHand
    <3>4. Place(v)' = [step |-> "done", calls |-> {c}, answer |-> {Outcome(c, reply)}]
      BY <3>3, RepliedPlace
    <3>. QED
      BY <2>3, <3>2, <3>4
  <2>. QED
    BY <1>2, <1>3, <2>6, <2>7, Unnoticed
<1>. QED
  BY <1>4, <1>5 DEF Write, AnswerHandled

\* Between two requests a start or a stop changes nothing that a caller sees.
LEMMA RestImplements ==
  ASSUME handling = {}, UNCHANGED <<user, mailbox, handling, camDatabase>>,
         saving.step = "idle", saving'.step # "write"
  PROVE  [Service!ServiceNext]_(Service!serviceVars)
<1>1. DurableTable' = DurableTable /\ Lost' = Lost
  BY DEF DurableTable, DurableMappings, Lost
<1>2. \A v \in MappingUsers : Place(v)' = Place(v)
  BY NotInHand DEF InHand
<1>3. \A c \in AllCalls : LateOf(c)' = LateOf(c)
  BY DEF LateOf, LateIn, LateInHand, Late
<1>. QED
  BY <1>1, <1>2, <1>3, SameLate, Unnoticed

LEMMA ServeShutImplement ==
  ASSUME IInv, Requested, Serve \/ Shut
  PROVE  [Service!ServiceNext]_(Service!serviceVars)
<1>1. CASE Serve
  <2>1. saving.step = "idle" /\ handling = {}
    BY <1>1 DEF Serve, StartCam, IInv, CamIInv, Running, Requested
  <2>2. saving'.step # "write"
    BY <1>1, <2>1 DEF Serve, StartCam
  <2>. QED
    BY <1>1, <2>1, <2>2, RestImplements DEF Serve, StartCam
<1>2. CASE Shut
  <2>1. saving.step = "idle" /\ handling = {} /\ saving'.step = "idle"
    BY <1>2 DEF Shut, StopCam, HaltCam, NotSaving, Requested
  <2>. QED
    BY <1>2, <2>1, RestImplements DEF Shut, StopCam
<1>. QED
  BY <1>1, <1>2

LEMMA DieImplements ==
  ASSUME IInv, WholeFile, Requested, Die
  PROVE  Service!Fail
<1>1. UNCHANGED <<user, mailbox>> /\ handling' = {} /\ saving'.step = "idle"
  BY DEF Die, CrashCam, HaltCam, NotSaving
<1>2. \/ DurableTable' = DurableTable /\ Lost' = Lost
      \/ DurableTable' = Service!NoTable /\ Lost' = TRUE
  <2>1. CASE saving.step # "write"
    <3>1. UNCHANGED camDatabase
      BY <2>1 DEF Die, CrashCam
    <3>. QED
      BY <1>1, <2>1, <3>1 DEF DurableTable, DurableMappings, Lost
  <2>2. CASE saving.step = "write" /\ camDatabase' = [file |-> "written", content |-> saving.list]
    BY <1>1, <2>2 DEF DurableTable, DurableMappings, Lost
  <2>3. CASE saving.step = "write" /\ UNCHANGED camDatabase
    <3>1. camDatabase.file = "torn" /\ camDatabase.content = {}
      BY <2>3 DEF WholeFile
    <3>2. DurableMappings' = {}
      BY <1>1, <2>3, <3>1 DEF DurableMappings
    <3>. QED
      BY <1>1, <2>3, <3>1, <3>2 DEF DurableTable, Lost, Service!NoTable
  <2>. QED
    BY <2>1, <2>2, <2>3 DEF Die, CrashCam
<1>3. ASSUME NEW v \in MappingUsers, ~InHand(v)
      PROVE  Place(v)' = Place(v)
  BY <1>1, <1>3, NotInHand
<1>4. ASSUME NEW c \in AllCalls
      PROVE  /\ LateOf(c)' \in Nat
             /\ LateOf(c) = LateOf(c)' + IF Late(c) \in handling /\ saving.step # "write" THEN 1 ELSE 0
  BY <1>1, LateInHandOnly DEF LateInHand
<1>5. ASSUME \A v \in MappingUsers : ~InHand(v), \A c \in AllCalls : LateOf(c)' = LateOf(c)
      PROVE  Service!Fail
  <2>1. Waits' = Waits /\ LateCalls' = LateCalls
    BY <1>3, <1>5, NobodyWaits, SameLate
  <2>. QED
    BY <1>2, <2>1 DEF Service!Fail, Waits, Lost
<1>6. ASSUME NEW message \in handling, NEW u \in MappingUsers, message.from = u
      PROVE  Service!Fail
  <2>1. /\ user[u].step = "waiting" /\ user[u].reply = {} /\ ~InMail(u)
        /\ \A d \in AllCalls : Late(d) \notin handling
        /\ \A v \in MappingUsers : v # u => ~InHand(v)
    BY <1>6, WaitingInHand
  <2>2. Waits' = [Waits EXCEPT ![u] = Place(u)'] /\ Waits[u] = Place(u)
    BY <1>3, <2>1, OneWaits
  <2>3. ~InMail(u)' /\ ~InHand(u)' /\ user'[u] = user[u]
    BY <1>1, <2>1 DEF InMail, InHand
  <2>4. Place(u)' = [step |-> "unanswered", calls |-> user[u].calls, answer |-> {}]
    BY <2>1, <2>3 DEF Place, Finished
  <2>5. Place(u).step # "idle" /\ Place(u).calls = user[u].calls
    BY <2>1 DEF Place
  <2>6. LateCalls' = LateCalls
    BY <1>4, <2>1, SameLate
  <2>7. /\ Waits[u].step # "idle"
        /\ Waits' = [Waits EXCEPT ![u] = [step |-> "unanswered", calls |-> Waits[u].calls, answer |-> {}]]
    BY <2>2, <2>4, <2>5
  <2>. QED
    BY <1>2, <2>6, <2>7 DEF Service!Fail, Waits, Lost
<1>7. ASSUME NEW message \in handling, message.from = Nobody, saving.step # "write"
      PROVE  Service!Fail
  <2>1. /\ message.call \in AllCalls
        /\ \A d \in AllCalls : Late(d) \in handling <=> d = message.call
        /\ \A v \in MappingUsers : ~InHand(v)
    BY <1>7, LateInHandIs
  <2>2. LateCalls' = [LateCalls EXCEPT ![message.call] = @ - 1] /\ LateCalls[message.call] > 0
    BY <1>4, <1>7, <2>1, OneLessLate
  <2>3. Waits' = Waits
    BY <1>3, <2>1, NobodyWaits
  <2>. QED
    BY <1>2, <2>1, <2>2, <2>3 DEF Service!Fail, Waits, Lost
<1>8. handling # {} =>
        \E message \in handling : message.from = Nobody \/ message.from \in MappingUsers
  BY DEF Requested, Requests
<1>9. ASSUME NEW message \in handling, message.from = Nobody
      PROVE  \A v \in MappingUsers : ~InHand(v)
  BY <1>9, LateInHandIs
<1>10. ASSUME NEW message \in handling, message.from = Nobody
       PROVE  Service!Fail
  <2>1. CASE saving.step = "write"
    <3>1. \A c \in AllCalls : LateOf(c)' = LateOf(c)
      BY <1>4, <2>1
    <3>. QED
      BY <1>5, <1>9, <1>10, <3>1
  <2>. QED
    BY <1>7, <1>10, <2>1
<1>11. ASSUME handling # {}
       PROVE  Service!Fail
  <2>1. PICK message \in handling : message.from = Nobody \/ message.from \in MappingUsers
    BY <1>8, <1>11
  <2>2. CASE message.from = Nobody
    BY <1>10, <2>2
  <2>3. CASE message.from \in MappingUsers
    <3> PICK u \in MappingUsers : message.from = u
      BY <2>3
    <3>. QED
      BY <1>6
  <2>. QED
    BY <2>1, <2>2, <2>3
<1>12. CASE handling = {}
  <2>1. \A v \in MappingUsers : ~InHand(v)
    BY <1>12 DEF InHand
  <2>2. \A c \in AllCalls : LateOf(c)' = LateOf(c)
    BY <1>4, <1>12
  <2>. QED
    BY <1>5, <2>1, <2>2
<1>. QED
  BY <1>11, <1>12

LEMMA ServiceStep ==
  ASSUME ServiceInv, Injective, ~MappingWritesFail, [ClientsNext]_clientVars
  PROVE  [Service!ServiceNext]_(Service!serviceVars)
<1>1. IInv /\ WholeFile /\ Underway /\ Requested
  BY DEF ServiceInv
<1>2. ASSUME NEW u \in MappingUsers, Call(u) \/ Receive(u) \/ TimeOut(u)
      PROVE  Service!ServiceNext
  <2>1. Service!Invoke(u) \/ Service!Return(u) \/ Service!GiveUp(u)
    BY <1>1, <1>2, CallImplements, ReceiveImplements, TimeOutImplements
  <2>. QED
    BY <2>1 DEF Service!ServiceNext
<1>3. CASE Take
  BY <1>1, <1>3, TakeImplements
<1>4. CASE Open
  BY <1>1, <1>4, OpenImplements
<1>5. CASE Write
  BY <1>1, <1>5, WriteImplements
<1>6. CASE Serve \/ Shut
  BY <1>1, <1>6, ServeShutImplement
<1>7. CASE Die
  BY <1>1, <1>7, DieImplements DEF Service!ServiceNext
<1>8. CASE UNCHANGED clientVars
  <2>1. UNCHANGED <<user, mailbox, handling, saving, camDatabase>>
    BY <1>8 DEF clientVars, reportedVars, camVars
  <2>2. DurableTable' = DurableTable /\ Lost' = Lost
    BY <2>1, SameTable
  <2>3. \A v \in MappingUsers : Place(v)' = Place(v)
    <3>1. \A v \in MappingUsers : (InMail(v)' <=> InMail(v)) /\ (InHand(v)' <=> InHand(v))
      BY <2>1 DEF InMail, InHand
    <3>. QED
      BY <2>1, <3>1, SamePlace
  <2>4. \A c \in AllCalls : LateOf(c)' = LateOf(c)
    BY <2>1 DEF LateOf, LateIn, LateInHand
  <2>. QED
    BY <2>2, <2>3, <2>4, SameLate, Unnoticed
<1>. QED
  BY <1>2, <1>3, <1>4, <1>5, <1>6, <1>7, <1>8 DEF ClientsNext

LEMMA ServiceStarts ==
  ASSUME ClientsInit
  PROVE  Service!ServiceInit
<1>1. /\ camDatabase = [file |-> "missing", content |-> {}] /\ saving.step = "idle"
      /\ user = [u \in MappingUsers |-> NoUser] /\ mailbox = <<>> /\ handling = {}
  BY DEF ClientsInit, ReportedInit, CamInit, NotSaving
<1>2. DurableTable = Service!NoTable /\ Lost = FALSE
  BY <1>1 DEF DurableTable, DurableMappings, Service!NoTable, Lost
<1>3. Waits = [u \in MappingUsers |-> Service!NotCalling]
  <2>1. ASSUME NEW u \in MappingUsers
        PROVE  Place(u) = Service!NotCalling
    <3>1. user[u] = NoUser /\ user[u].step = "idle" /\ ~InHand(u)
      BY <1>1 DEF NoUser, InHand
    <3>2. {Outcome(c, reply) : c \in user[u].calls, reply \in user[u].reply} = {}
      BY <3>1 DEF NoUser
    <3>. QED
      BY <3>1, <3>2 DEF Place, NoUser, Service!NotCalling
  <2>. QED
    BY <2>1, AwaitedIsPlace DEF Waits
<1>4. LateCalls = [c \in AllCalls |-> 0]
  <2>1. ASSUME NEW c \in AllCalls
        PROVE  LateOf(c) = 0
    <3>1. LateIn(mailbox, c) = {} /\ LateInHand(handling, saving.step, c) = 0
      BY <1>1 DEF LateIn, LateInHand
    <3>. QED
      BY <3>1, FS_EmptySet DEF LateOf
  <2>. QED
    BY <2>1, LateIsLateOf
<1>. QED
  BY <1>2, <1>3, <1>4 DEF Service!ServiceInit, Waits, Lost

\* The credential asset mapping server with its accessors is the service that the
\* callers rely on, when no two keys have one hash and the writes to the mapping
\* file, which save does not look at, succeed: whatever the order in which
\* sendCommand sends its requests and gives up on them, handleRequest takes them,
\* save writes the file, and the process stops, crashes and starts again, each
\* call that is answered has taken effect once, on the mappings that are saved,
\* each call that timed out takes effect once at most, and only a crash in the
\* middle of save loses what was saved.
THEOREM ServerImplementsService ==
  ASSUME Injective, ~MappingWritesFail
  PROVE  ClientsSpec => ImplementsService
<1>1. ClientsInit => Service!ServiceInit
  BY ServiceStarts
<1>2. ServiceInv /\ [ClientsNext]_clientVars => [Service!ServiceNext]_(Service!serviceVars)
  BY ServiceStep
<1>. QED
  BY <1>1, <1>2, ServiceInvariance, PTL DEF ClientsSpec, ImplementsService, Service!ServiceSpec

=============================================================================
