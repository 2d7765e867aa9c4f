----------------------------- MODULE Documents -----------------------------
(***************************************************************************)
(* The documents of the security wallet: what a document holds, how it is  *)
(* written to and read from its serialised form, what an update keeps of   *)
(* the stored document, and when each type of document is valid.           *)
(*                                                                         *)
(* Abstractions.  A text (a name, a password, a community, a PEM) is a     *)
(* member of Texts or Empty.  Of the public part only the fields that      *)
(* validate() reads are kept: the level of an Snmpv3 document, and the one *)
(* text every type requires (security name, community, user name or PEM).  *)
(* A private key is named by the certificate it belongs to.  Tags are left *)
(* out: the server stores them and never reads them.                       *)
(***************************************************************************)
EXTENDS Naturals

CONSTANTS
  Ids,         \* document ids (UUIDs drawn by Portfolio::add)
  Names,       \* document names
  Usages,      \* usage ids, as listed by the configuration
  Texts,       \* the non-empty texts of the public and secret fields
  Pems,        \* the texts that parse as a certificate
  Empty,       \* the empty text
  Absent,      \* a member that a serialised form does not have
  NoDocument   \* no document (a null pointer, a missing map entry)

ASSUME PemsAssumption  == Pems \subseteq Texts
ASSUME TextsAssumption == Empty \notin Texts /\ Absent \notin Texts \cup {Empty}

Types == {"Snmpv3", "Snmpv1", "UserAndPassword",
          "ExternalCertificate", "InternalCertificate"}

Fields == {"authPassword", "privPassword", "password", "privateKeyPem"}

\* The fields of the private part of each type.
SecretFields(type) ==
  CASE type = "Snmpv3"              -> {"authPassword", "privPassword"}
    [] type = "UserAndPassword"     -> {"password"}
    [] type = "InternalCertificate" -> {"privateKeyPem"}
    [] OTHER                        -> {}

\* Snmpv3SecurityLevel.
NO_AUTH_NO_PRIV == 0
AUTH_NO_PRIV    == 1
AUTH_PRIV       == 2

Values == Texts \cup {Empty}
Public == [level : {NO_AUTH_NO_PRIV, AUTH_NO_PRIV, AUTH_PRIV}, text : Values]
Secret == [Fields -> Values]
NoSecret == [f \in Fields |-> Empty]

Document ==
  [id : Ids, name : Names, type : Types, usages : SUBSET Usages,
   pub : Public, sec : Secret, containPrivateData : BOOLEAN]

\* A serialised document: the header, the public entry, whether there is a
\* private entry, and what that entry says of each field.
Form ==
  [id : Ids, name : Names, type : Types \cup {"Unsupported"},
   usages : SUBSET Usages, pub : Public, private : BOOLEAN,
   sent : [Fields -> Values \cup {Absent}]]

ASSUME NoDocumentAssumption == NoDocument \notin Document /\ NoDocument \notin Form

-----------------------------------------------------------------------------
(* Reading and writing a document. *)

\* updatePrivateDocFromSerializationInfo of the document's type: a field that
\* is not sent keeps its value.
UpdatePrivate(type, sec, form) ==
  [f \in Fields |->
     IF form.private /\ f \in SecretFields(type) /\ form.sent[f] # Absent
       THEN form.sent[f] ELSE sec[f]]

\* Variant used to test the properties: the factory takes any type.
ParseableAnyType(form) == form.type \in Types \cup {"Unsupported"}

\* operator>>= into a null pointer creates the document through the factory
\* of its type, which fails for a type without one.
Parseable(form) == form.type \in Types

Parse(form) ==
  [id |-> form.id, name |-> form.name, type |-> form.type,
   usages |-> form.usages, pub |-> form.pub,
   sec |-> UpdatePrivate(form.type, NoSecret, form),
   containPrivateData |-> form.private]

\* operator>>= into an existing document: it must have the form's type and id;
\* whether it contains private data is left as it was.
Overwritable(doc, form) == doc.type = form.type /\ doc.id = form.id

Overwrite(doc, form) ==
  [doc EXCEPT !.name = form.name, !.usages = form.usages, !.pub = form.pub,
              !.sec = UpdatePrivate(doc.type, doc.sec, form)]

\* fillSerializationInfoPrivateDoc: empty secrets are left out.
FillPrivate(doc) ==
  [f \in Fields |->
     IF f \in SecretFields(doc.type) /\ doc.sec[f] # Empty
       THEN doc.sec[f] ELSE Absent]

WithSecret(doc) ==
  [id |-> doc.id, name |-> doc.name, type |-> doc.type, usages |-> doc.usages,
   pub |-> doc.pub, private |-> TRUE, sent |-> FillPrivate(doc)]

WithoutSecret(doc) ==
  [WithSecret(doc) EXCEPT !.private = FALSE, !.sent = [f \in Fields |-> Absent]]

-----------------------------------------------------------------------------
(* Comparing two documents, for the update notification. *)

IsNonSecretEquals(doc, other) == doc.pub = other.pub

IsSecretEquals(doc, other) ==
  /\ doc.type = other.type
  /\ doc.containPrivateData /\ other.containPrivateData
  /\ FillPrivate(doc) = FillPrivate(other)

-----------------------------------------------------------------------------
(* validate() *)

Snmpv3Valid(doc) ==
  LET auth == doc.sec["authPassword"] # Empty
      priv == doc.sec["privPassword"] # Empty
  IN  /\ ~doc.containPrivateData => auth /\ priv
      /\ doc.pub.text # Empty
      /\ doc.pub.level = AUTH_PRIV => auth /\ priv
      /\ doc.pub.level = AUTH_NO_PRIV => auth

Snmpv1Valid(doc) == doc.pub.text # Empty

UserAndPasswordValid(doc) ==
  /\ doc.containPrivateData
  /\ doc.pub.text # Empty
  /\ doc.sec["password"] # Empty

ExternalCertificateValid(doc) == doc.pub.text \in Pems

InternalCertificateValid(doc) ==
  /\ doc.containPrivateData
  /\ doc.pub.text \in Pems
  /\ doc.sec["privateKeyPem"] = doc.pub.text

Valid(doc) ==
  /\ doc.type = "Snmpv3" => Snmpv3Valid(doc)
  /\ doc.type = "Snmpv1" => Snmpv1Valid(doc)
  /\ doc.type = "UserAndPassword" => UserAndPasswordValid(doc)
  /\ doc.type = "ExternalCertificate" => ExternalCertificateValid(doc)
  /\ doc.type = "InternalCertificate" => InternalCertificateValid(doc)

=============================================================================
