-------------------------- MODULE MappingProperties --------------------------
(***************************************************************************)
(* What the credential asset mapping server promises.                      *)
(***************************************************************************)
EXTENDS CredentialMapping

\* Whenever a request may come, a restart would give back exactly the mappings in
\* memory, as long as writes succeed (every handler saves before it replies, and no
\* two mappings that were saved come back under one hash).
RestartKeepsMappings ==
  CamListening => /\ camDatabase.file = "written"
                  /\ LoadMappings(camDatabase.content) = mappings

\* A mapping that is found has the asset, service and protocol that were asked
\* for, and one that is said not to exist is stored under no hash at all.
AnswersAreAboutAsked ==
  \A key \in camAnswer.asked :
    /\ \A m \in camAnswer.found : KeyOf(m) = key
    /\ camAnswer.status = "DOES_NOT_EXIST" => \A m \in AllMappings : KeyOf(m) # key

\* A creation is refused because the asset, service and protocol already have a
\* mapping.
RefusedExists ==
  camAnswer.status = "ALREADY_EXISTS" =>
    \A key \in camAnswer.asked : \E m \in AllMappings : KeyOf(m) = key

=============================================================================
