------------------------------ MODULE MCAgent ------------------------------
(* Instances of the whole process for TLC. *)
EXTENDS Agent, MCInputs

CONSTANTS k1, r1, f1

MCMappings ==
  {[assetId |-> <<"a">>, serviceId |-> <<"s">>, protocol |-> <<"p">>, port |-> r1,
    credentialId |-> k1, status |-> 0, extendedInfo |-> f1]}

MCAssets    == {<<"a">>}
MCServices  == {<<"s">>}
MCProtocols == {<<"p">>}

MCOneDocument == {SendForm(n1, "UserAndPassword", {u1}, t1, TRUE, "password", t1)}

\* One client; the file is faulty.
MCSolo == [usages |-> {u1}, consumers |-> {Own(c1, u1)}, producers |-> {Own(c1, u1)}]
MCTwoFiles == {File(TRUE, [p \in Portfolios |-> MCSolo]), File(FALSE, NoConfigurations)}

=============================================================================
