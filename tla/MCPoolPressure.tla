--------------------------- MODULE MCPoolPressure ---------------------------
(***************************************************************************)
(* An instance of PoolPressure: two Consumers, of which the second has two *)
(* chunks, uses one of them and may send a request.                        *)
(***************************************************************************)
EXTENDS PoolPressure

MCGranted == <<{0}, {1, 2}>>
MCMaxRequests == <<0, 1>>

\* The operations of one Consumer on one chunk, and either two rounds or a
\* round and a request; no operation in a second round.  Only IoStart, EvictMem,
\* HeartbeatWork and MappingWork are blocked, which are not fair.
Affordable ==
  /\ sess[1].lease' = {} /\ sess[2].lease' \subseteq {1}
  /\ evict.rounds' + sess[2].next_request_id' <= MaxRounds + 1
  /\ sess[2].lease' # {} => evict.rounds' < MaxRounds

MCSpec == Init /\ [][Next /\ Affordable]_vars /\ Fairness

=============================================================================
