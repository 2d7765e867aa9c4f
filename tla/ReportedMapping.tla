--------------------------- MODULE ReportedMapping ---------------------------
(***************************************************************************)
(* The mapping server with a record of the status reports it has handled:  *)
(* for each hash, the port and the credential that were in the mapping     *)
(* when a report last gave it its status.                                  *)
(***************************************************************************)
EXTENDS MappingProperties

VARIABLE reported

reportedVars == <<camVars, reported>>

PortAndCredential(mapping) == IF mapping = NoMapping THEN {} ELSE {<<mapping.port, mapping.credentialId>>}

ReportedInit == CamInit /\ reported = [h \in Hashes |-> {}]

\* A status is given with a whole mapping or on its own; the mappings that are
\* loaded bring theirs, as reported for the port and credential they come with.
Reports ==
  [h \in Hashes |-> IF mappings'[h] # mappings[h] THEN PortAndCredential(mappings'[h]) ELSE reported[h]]

\* A status other than UNKNOWN was given, or loaded, while the mapping had the port
\* and the credential it has now: a status that was given earlier does not survive
\* a change of either, whichever clients make the changes and however their requests
\* interleave (handleUpdatePortMapping and handleUpdateCredentialMapping forget it).
\* It does not say that the client who reported had tested that credential: the
\* report names none (handleUpdateStatusMapping).
StatusIsReported ==
  \A h \in Hashes :
    mappings[h] # NoMapping /\ mappings[h].status # UNKNOWN =>
      reported[h] = PortAndCredential(mappings[h])

=============================================================================
