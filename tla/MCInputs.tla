------------------------------ MODULE MCInputs ------------------------------
(***************************************************************************)
(* The inputs of the small instances of the wallet that TLC checks: the    *)
(* configuration files and the documents that clients send.                *)
(***************************************************************************)
EXTENDS Configuration

CONSTANTS i1, i2, n1, n2, u1, u2, t1, t2, p1, p2, c1, c2

\* Client c1 produces and consumes u1, client c2 produces and consumes u2.
Own(c, u) == [clients |-> {c}, usages |-> {u}]
Both == {Own(c1, u1), Own(c2, u2)}
Shared1 == [usages |-> {u1, u2}, consumers |-> Both,
            producers |-> Both \cup {[clients |-> {c2}, usages |-> {u1}]}]
Separate == [usages |-> {u1, u2}, consumers |-> Both, producers |-> Both]

File(good, entries) == [wellFormed |-> good, entries |-> entries]

MCOneFile == {File(TRUE, [p \in Portfolios |-> Separate])}

\* The second portfolio leaves the configuration; the file is faulty.
MCThreeFiles ==
  {File(TRUE, [p \in Portfolios |-> Shared1]),
   File(TRUE, [p \in Portfolios |-> IF p = p1 THEN Shared1 ELSE NoAccess]),
   File(FALSE, NoConfigurations)}

SendForm(name, type, usages, text, private, field, value) ==
  [id |-> i1, name |-> name, type |-> type, usages |-> usages,
   pub |-> [level |-> NO_AUTH_NO_PRIV, text |-> text], private |-> private,
   sent |-> [f \in Fields |-> IF f = field THEN value ELSE Absent]]

\* An Snmpv3 document of a level that needs the authentication password.
Authenticated(name, usages, value) ==
  [SendForm(name, "Snmpv3", usages, t1, TRUE, "authPassword", value)
     EXCEPT !.pub.level = AUTH_NO_PRIV]

\* Passwords with their secret, with no secret (an update that keeps it, a
\* creation that is refused) and with an empty one, under two names, an Snmpv3
\* document with its secret and without, and a type the factory does not know.
MCPasswords ==
  {SendForm(n, "UserAndPassword", us, t1, TRUE, "password", s) :
     n \in Names, us \in {{u1}, {u1, u2}}, s \in {t1, Absent}}
  \cup {SendForm(n1, "UserAndPassword", {u2}, t1, FALSE, "password", Absent),
        SendForm(n2, "UserAndPassword", {u2}, t1, TRUE, "password", Empty),
        Authenticated(n2, {}, t1), Authenticated(n1, {u2}, Absent),
        SendForm(n1, "Unsupported", {u1}, t1, FALSE, "password", Absent)}

\* A password, and a certificate without and with its key.
MCMixed ==
  {SendForm(n1, "UserAndPassword", {u1}, t1, TRUE, "password", t1),
   SendForm(n1, "ExternalCertificate", {}, t1, FALSE, "password", Absent),
   SendForm(n1, "InternalCertificate", {u1}, t1, TRUE, "privateKeyPem", t1)}

=============================================================================
