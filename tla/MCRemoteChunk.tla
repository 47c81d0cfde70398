---------------------------- MODULE MCRemoteChunk ----------------------------
(* Instance of RemoteChunk for TLC.                                        *)
EXTENDS RemoteChunk

CONSTANTS l1, l2

\* Two chunks of a Backed device on one Provider, each with its I/O, or with
\* a second report of the Provider.
OneProvider ==
  /\ mode = "BACKED"
  /\ observation_sequence[1] = None /\ ~failed[1]
  /\ lease_chunk[l1] # 1 /\ lease_chunk[l2] # 0
  /\ observation_sequence[0] <= 0 \/ active_io_leases = 0

\* A chunk of a Backed device that moves between two Providers while I/O on
\* its earlier mappings is outstanding.
OneChunk ==
  /\ mode = "BACKED"
  /\ activity[1] = 0 /\ state[1] = "UNMAPPED"
  /\ \A p \in Provider :
       observation_sequence[p] <= 0 /\ reported_available[p] <= 1
  /\ provider_chunk[0] # 1

\* Two chunks of a Remote-Only device on two Providers.
Committed ==
  /\ mode = "REMOTE_ONLY"
  /\ \A p \in Provider : observation_sequence[p] <= 0
  /\ lease_phase[l2] = "none"

Affordable == OneProvider \/ OneChunk \/ Committed

MCSpec == Init /\ [][Next /\ Affordable']_vars /\ Fairness
=============================================================================
