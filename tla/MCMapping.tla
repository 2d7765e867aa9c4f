------------------------------ MODULE MCMapping ------------------------------
(* Instances of the mapping server and its clients for TLC. *)
EXTENDS MappingRefinement

CONSTANTS k1, k2, r1, f1, m1, m2

\* Two protocols of one service of one asset, and the empty asset id.
MCAssets    == {<<>>, <<"a">>}
MCServices  == {<<"s">>}
MCProtocols == {<<"p">>, <<"q">>}

\* Ids that hold the separator of computeHash: "x" with service "y|Sz" has the
\* hash of "x|Sy" with service "z".
MCSplitAssets   == {<<"x">>, <<"x", "|S", "y">>}
MCSplitServices == {<<"z">>, <<"y", "|S", "z">>}
MCOneProtocol   == {<<"p">>}

MapOf(a, s, p, r, k, status) ==
  [assetId |-> a, serviceId |-> s, protocol |-> p, port |-> r, credentialId |-> k,
   status |-> status, extendedInfo |-> f1]

On(p, r, k, status) == MapOf(<<"a">>, <<"s">>, p, r, k, status)

Calling(methods, m) == {[method |-> method, mapping |-> m] : method \in methods}

\* An administrator, who creates, changes, removes and lists ...
MCAdministrator ==
  Calling({"createMapping"}, On(<<"p">>, r1, k1, VALID))
  \cup Calling({"updateMapping", "updateCredentialId", "updatePort", "removeMapping"},
               On(<<"p">>, r1, k2, UNKNOWN))
  \cup Calling({"updateExtendedInfo", "getMapping"}, On(<<"q">>, r1, k1, UNKNOWN))
  \cup Calling({"createMapping"}, MapOf(<<>>, <<"s">>, <<"p">>, r1, k1, UNKNOWN))
  \cup Calling({"getAssetMappings", "getMappings", "getAllMappings", "getCredentialMappings"},
               On(<<"p">>, r1, k2, UNKNOWN))

\* ... and a user of the credentials, who reports which of them work.
MCTester ==
  Calling({"isMappingExisting", "updateStatus"}, On(<<"p">>, r1, k1, VALID))
  \cup Calling({"createMapping"}, On(<<"q">>, r1, k2, UNKNOWN))

MCCalls == [u \in {m1, m2} |-> IF u = m1 THEN MCAdministrator ELSE MCTester]

\* One mapping: requests that save, that are refused, and that read.
MCFewCalls ==
  [u \in {m1, m2} |->
     IF u = m1 THEN Calling({"createMapping", "getAllMappings"}, On(<<"p">>, r1, k1, VALID))
               ELSE Calling({"removeMapping", "updateStatus", "isMappingExisting"}, On(<<"p">>, r1, k1, VALID))]

MCSplitCalls ==
  [u \in {m1, m2} |-> UNION {Calling({"createMapping"}, MapOf(a, s, <<"p">>, r1, k1, UNKNOWN)) :
                              a \in MCSplitAssets, s \in MCSplitServices}]

===============================================================================
