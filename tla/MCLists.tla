------------------------------ MODULE MCLists ------------------------------
(* Instances of the wallet with clients that read lists for TLC. *)
EXTENDS ListedDocuments, MCInputs

\* A document of either usage, and a second one that only client c1 can read.
MCThreePasswords ==
  {SendForm(n1, "UserAndPassword", {u}, t1, TRUE, "password", t1) : u \in Usages}
  \cup {SendForm(n2, "UserAndPassword", {u1}, t1, TRUE, "password", t1)}

\* The second portfolio is not configured.
MCFirstOnly == {File(TRUE, [p \in Portfolios |-> IF p = p1 THEN Separate ELSE NoAccess])}

=============================================================================
