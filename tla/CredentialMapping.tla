-------------------------- MODULE CredentialMapping --------------------------
(***************************************************************************)
(* The credential asset mapping (CAM) server: which credential is used for *)
(* a service of an asset over a protocol, and what is known of it.  It     *)
(* handles one mailbox request at a time, and saves every mapping after    *)
(* each change.                                                            *)
(*                                                                         *)
(* An asset, service or protocol id is a sequence of pieces of text, as    *)
(* computeHash concatenates them; a port, a credential and an extended     *)
(* info are values nothing looks into.                                     *)
(***************************************************************************)
EXTENDS Naturals, Sequences

CONSTANTS
  Assets, Services, Protocols,  \* ids; the empty sequence is the empty id
  Ports, Credentials, Infos,
  NoMapping,   \* no mapping under a hash
  MappingCrashes,    \* whether the process may crash
  MappingWritesFail  \* whether a write to the mapping file may fail

UNKNOWN == 0
VALID   == 1
ERROR   == 2

Key == [assetId : Assets, serviceId : Services, protocol : Protocols]

Mapping ==
  [assetId : Assets, serviceId : Services, protocol : Protocols, port : Ports,
   credentialId : Credentials, status : {UNKNOWN, VALID, ERROR}, extendedInfo : Infos]

ASSUME NoMappingAssumption == NoMapping \notin Mapping
ASSUME FailureAssumption == MappingCrashes \in BOOLEAN /\ MappingWritesFail \in BOOLEAN

\* What computeHash writes before the service and before the protocol.
ServiceMark  == "|S"
ProtocolMark == "|P:"

\* Variant used to test the properties: the hash leaves the protocol out.
ComputeHashOfService(key) == <<"A">> \o key.assetId \o <<ServiceMark>> \o key.serviceId

ComputeHash(key) ==
  <<"A">> \o key.assetId \o <<ServiceMark>> \o key.serviceId \o <<ProtocolMark>> \o key.protocol

Hashes == {ComputeHash(k) : k \in Key}

VARIABLES
  camProcess,   \* the life of the process
  camDatabase,  \* the mapping file: the list of mappings it holds
  mappings,     \* m_mappings
  saving,       \* how far save() is, the list it writes, and the request's key
  camAnswer     \* the reply given by the last step, if it gave one

camVars == <<camProcess, camDatabase, mappings, saving, camAnswer>>

NoMappings  == [h \in Hashes |-> NoMapping]
NotSaving   == [step |-> "idle", list |-> {}]
NoCamAnswer == [status |-> "none", asked |-> {}, found |-> {}]

CamTypeOK ==
  /\ camProcess \in {"down", "starting", "serving", "exited"}
  /\ camDatabase \in [file : {"missing", "torn", "written"}, content : SUBSET Mapping]
  /\ mappings \in [Hashes -> Mapping \cup {NoMapping}]
  /\ saving \in [step : {"idle", "open", "write"}, list : SUBSET Mapping]
  /\ camAnswer \in [status : {"none", "OK", "BAD_FORMAT", "DOES_NOT_EXIST", "ALREADY_EXISTS"},
                    asked : SUBSET Key, found : SUBSET Mapping]

CamInit ==
  /\ camProcess = "down"
  /\ camDatabase = [file |-> "missing", content |-> {}]
  /\ mappings = NoMappings
  /\ saving = NotSaving
  /\ camAnswer = NoCamAnswer

-----------------------------------------------------------------------------
(* CredentialAssetMappingStorage *)

KeyOf(mapping) ==
  [assetId |-> mapping.assetId, serviceId |-> mapping.serviceId, protocol |-> mapping.protocol]

\* getAllMappings
AllMappings == {mappings[h] : h \in {k \in Hashes : mappings[k] # NoMapping}}

\* setMapping refuses an empty id.
Settable(mapping) ==
  mapping.assetId # <<>> /\ mapping.serviceId # <<>> /\ mapping.protocol # <<>>

SetMapping(mapping) == [mappings EXCEPT ![ComputeHash(KeyOf(mapping))] = mapping]

\* The constructor enters each mapping of the list; no two of them have one hash.
LoadMappings(list) ==
  [h \in Hashes |->
     IF \E m \in list : Settable(m) /\ ComputeHash(KeyOf(m)) = h
       THEN CHOOSE m \in list : Settable(m) /\ ComputeHash(KeyOf(m)) = h
       ELSE NoMapping]

\* The constructor of the storage ends with a save; a file that cannot be read
\* ends the process, which is restarted.
StartCam ==
  /\ camProcess \in {"down", "exited"}
  /\ \/ /\ camDatabase.file # "torn"
        /\ camProcess' = "starting"
        /\ mappings' = LoadMappings(camDatabase.content)
        /\ saving' = [step |-> "open", list |-> AllMappings']
     \/ /\ camDatabase.file = "torn"
        /\ camProcess' = "exited"
        /\ UNCHANGED <<mappings, saving>>
  /\ camAnswer' = NoCamAnswer
  /\ UNCHANGED camDatabase

\* save() returns: the request is answered OK, or the server has started.
SaveEnds ==
  /\ saving' = NotSaving
  /\ camProcess' = "serving"
  /\ camAnswer' = IF camProcess = "serving" THEN [NoCamAnswer EXCEPT !.status = "OK"]
                                            ELSE NoCamAnswer
  /\ UNCHANGED mappings

\* save(): std::ofstream truncates the file.  Nothing looks at the state of the
\* stream, so a failure to open goes unnoticed ...
OpenMappings ==
  /\ saving.step = "open"
  /\ \/ /\ camDatabase' = [file |-> "torn", content |-> {}]
        /\ saving' = [saving EXCEPT !.step = "write"]
        /\ camAnswer' = NoCamAnswer
        /\ UNCHANGED <<camProcess, mappings>>
     \/ MappingWritesFail /\ SaveEnds /\ UNCHANGED camDatabase

\* ... and the list is written; a failed write goes unnoticed too.
WriteMappings ==
  /\ saving.step = "write"
  /\ \/ camDatabase' = [file |-> "written", content |-> saving.list]
     \/ MappingWritesFail /\ UNCHANGED camDatabase
  /\ SaveEnds

HaltCam ==
  /\ camProcess' = "down"
  /\ mappings' = NoMappings
  /\ saving' = NotSaving
  /\ camAnswer' = NoCamAnswer

StopCam == camProcess = "serving" /\ saving.step = "idle" /\ HaltCam /\ UNCHANGED camDatabase

\* A crash during the save leaves a torn file, or comes between the write and the
\* reply.
CrashCam ==
  /\ MappingCrashes
  /\ camProcess \in {"starting", "serving"}
  /\ \/ UNCHANGED camDatabase
     \/ saving.step = "write" /\ camDatabase' = [file |-> "written", content |-> saving.list]
  /\ HaltCam

-----------------------------------------------------------------------------
(* The requests of the server *)

CamListening == camProcess = "serving" /\ saving.step = "idle"

CamReply(status, asked, found) ==
  /\ camAnswer' = [status |-> status, asked |-> asked, found |-> found]
  /\ UNCHANGED <<camProcess, camDatabase, mappings, saving>>

\* Variant used to test the properties: the list is made before the change.
StoreBefore(changed) ==
  /\ mappings' = changed
  /\ saving' = [step |-> "open", list |-> AllMappings]
  /\ camAnswer' = NoCamAnswer
  /\ UNCHANGED <<camProcess, camDatabase>>

\* setMapping or removeMapping, then save.
Store(changed) ==
  /\ mappings' = changed
  /\ saving' = [step |-> "open", list |-> AllMappings']
  /\ camAnswer' = NoCamAnswer
  /\ UNCHANGED <<camProcess, camDatabase>>

Exists(key) == mappings[ComputeHash(key)] # NoMapping

CreateMapping(m) ==
  /\ CamListening
  /\ \/ ~Exists(KeyOf(m)) /\ Settable(m) /\ Store(SetMapping(m))
     \/ ~Exists(KeyOf(m)) /\ ~Settable(m) /\ CamReply("BAD_FORMAT", {KeyOf(m)}, {})
     \/ Exists(KeyOf(m)) /\ CamReply("ALREADY_EXISTS", {KeyOf(m)}, {})

\* The handlers that change an existing mapping.
Change(key, changed) ==
  /\ CamListening
  /\ LET accepted == Exists(key) /\ Settable(changed)
     IN  \/ accepted /\ Store(SetMapping(changed))
         \/ ~accepted /\ CamReply(IF Exists(key) THEN "BAD_FORMAT" ELSE "DOES_NOT_EXIST", {key}, {})

UpdateMapping(m) == Change(KeyOf(m), m)

\* Variant used to test the properties: the port is stored as the credential.
UpdatePortMisplaced(key, port) ==
  Change(key, [mappings[ComputeHash(key)] EXCEPT !.credentialId = port, !.status = UNKNOWN])

\* What is known of the credential no longer holds for another port ...
UpdatePort(key, port) ==
  Change(key, [mappings[ComputeHash(key)] EXCEPT !.port = port, !.status = UNKNOWN])

\* Variant used to test the properties: the status is kept.
UpdateCredentialOnly(key, credentialId) ==
  Change(key, [mappings[ComputeHash(key)] EXCEPT !.credentialId = credentialId])

\* ... nor for another credential.
UpdateCredential(key, credentialId) ==
  Change(key, [mappings[ComputeHash(key)] EXCEPT !.credentialId = credentialId,
                                                 !.status = UNKNOWN])

UpdateStatus(key, status) ==
  Change(key, [mappings[ComputeHash(key)] EXCEPT !.status = status])

UpdateInfo(key, extendedInfo) ==
  Change(key, [mappings[ComputeHash(key)] EXCEPT !.extendedInfo = extendedInfo])

RemoveMapping(key) ==
  /\ CamListening
  /\ \/ Exists(key) /\ Store([mappings EXCEPT ![ComputeHash(key)] = NoMapping])
     \/ ~Exists(key) /\ CamReply("DOES_NOT_EXIST", {key}, {})

GetMapping(key) ==
  /\ CamListening
  /\ \/ Exists(key) /\ CamReply("OK", {key}, {mappings[ComputeHash(key)]})
     \/ ~Exists(key) /\ CamReply("DOES_NOT_EXIST", {key}, {})

\* The lists, and the count of the last of them.
GetAssetMappings(assetId) ==
  CamListening /\ CamReply("OK", {}, {m \in AllMappings : m.assetId = assetId})

GetMappings(assetId, serviceId) ==
  CamListening /\ CamReply("OK", {}, {m \in AllMappings : m.assetId = assetId /\ m.serviceId = serviceId})

GetCredentialMappings(credentialId) ==
  CamListening /\ CamReply("OK", {}, {m \in AllMappings : m.credentialId = credentialId})

GetAllMappings == CamListening /\ CamReply("OK", {}, AllMappings)

=============================================================================
