------------------------- MODULE RemoteChunk_proofs -------------------------
(***************************************************************************)
(* What RemoteChunk guarantees for any number of chunks, Providers and     *)
(* leases: no remote memory is shared, a current lease pins its mapping,   *)
(* valid sectors were written through the current mapping, evictions are   *)
(* atomic, placement keeps to the Providers' reports, and the counters     *)
(* agree with what they count.                                             *)
(***************************************************************************)
EXTENDS RemoteChunk, FiniteSetTheorems, TLAPS

MappingType ==
  /\ state \in [Chunk -> ChunkState]
  /\ provider \in [Chunk -> Provider \cup {None}]
  /\ provider_chunk \in [Chunk -> ProviderChunk \cup {None}]
  /\ mapping_generation \in [Chunk -> Nat]
  /\ next_mapping_generation \in Nat
  /\ valid \in [Chunk -> BOOLEAN]
  /\ failed \in [Provider -> BOOLEAN]

LeaseType ==
  /\ lease_phase \in [Lease -> {"none", "active", "resolved"}]
  /\ lease_chunk \in [Lease -> Chunk \cup {None}]
  /\ lease_generation \in [Lease -> Nat]
  /\ lease_write \in [Lease -> BOOLEAN]
  /\ lease_provider \in [Lease -> Provider \cup {None}]
  /\ lease_provider_chunk \in [Lease -> ProviderChunk \cup {None}]

EvictionType ==
  /\ eviction_claim_id \in [Chunk -> Nat]
  /\ eviction_claim \in [Provider -> Nat]
  /\ next_eviction_claim_id \in Nat

\* A chunk that is not UNMAPPED is with a Provider that has not failed.
Placed ==
  \A c \in Chunk :
    state[c] # "UNMAPPED" => provider[c] \in Provider /\ ~failed[provider[c]]

Unshared ==
  \A c \in Chunk, d \in Chunk :
    c # d /\ Assigned(c) /\ Assigned(d) /\ provider[c] = provider[d] =>
      provider_chunk[c] # provider_chunk[d]

\* No generation is ahead of the module's counter, so that the next one is new
\* to every chunk and to every lease.
GenerationsUsed ==
  /\ \A c \in Chunk : mapping_generation[c] <= next_mapping_generation
  /\ \A l \in Lease :
       Held(l) => /\ lease_chunk[l] \in Chunk
                  /\ lease_generation[l] <= next_mapping_generation

\* The chunks that carry the identifier of a session's claim are EVICTING and
\* with its Provider, and every EVICTING chunk carries one.
ClaimsMatch ==
  /\ \A c \in Chunk : eviction_claim_id[c] # 0 <=> state[c] = "EVICTING"
  /\ \A c \in Chunk :
       state[c] = "EVICTING" => eviction_claim_id[c] = eviction_claim[provider[c]]
  /\ \A p \in Provider : eviction_claim[p] <= next_eviction_claim_id
  /\ \A p \in Provider, q \in Provider :
       p # q /\ eviction_claim[p] = eviction_claim[q] => eviction_claim[p] = 0

MappingInv ==
  /\ MappingType
  /\ LeaseType
  /\ Placed
  /\ Unshared
  /\ GenerationsUsed
  /\ LeasePinsMapping
  /\ ValidWrittenHere

EvictionInv == EvictionType /\ ClaimsMatch

\* What MappingInv reads.
mappingVars == <<state, provider, provider_chunk, mapping_generation,
                 next_mapping_generation, valid, written, failed>>
tokenVars == <<lease_phase, lease_chunk, lease_generation, lease_write,
               lease_provider, lease_provider_chunk>>
evictionVars == <<eviction_claim_id, eviction_claim, next_eviction_claim_id>>

\* An eviction leaves a chunk EVICTING only with its whole batch.
AtomicStep ==
  \A c \in Chunk :
    (state[c] = "EVICTING" /\ state'[c] # "EVICTING") =>
      \A d \in Batch(provider[c]) :
        /\ state'[d] = "UNMAPPED"
        /\ failed'[provider[c]] \/ chunk_leases[d] = 0
-----------------------------------------------------------------------------
\* A new module holds no mapping and no lease.
LEMMA InitMapping == Init => MappingInv
  BY RemoteChunkAssumption
  DEF Init, MappingInv, MappingType, LeaseType, Placed, Unshared, Assigned,
      GenerationsUsed, LeasePinsMapping, ValidWrittenHere, Held, ChunkState,
      None

\* A new module holds no eviction claim.
LEMMA InitEviction == Init => EvictionInv
  BY RemoteChunkAssumption
  DEF Init, EvictionInv, EvictionType, ClaimsMatch

\* Nothing that the invariant reads is changed by reports, activity, policy,
\* the steps of is_release_work between its calls, and shutdown.
LEMMA MappingFrame ==
  MappingInv /\ UNCHANGED <<mappingVars, tokenVars>> => MappingInv'
  BY DEF MappingInv, mappingVars, tokenVars, MappingType, LeaseType, Placed,
         Unshared, Assigned, GenerationsUsed, LeasePinsMapping, MappingCurrent,
         ValidWrittenHere, Held

\* The claims are judged by these variables only.
LEMMA EvictionFrame ==
  EvictionInv /\ UNCHANGED <<state, provider, evictionVars>> => EvictionInv'
  BY ZenonT(120) DEF EvictionInv, evictionVars, EvictionType, ClaimsMatch

\* The generations that is_remote_chunk_reset_mapping_locked gives out are new
\* and the counter is not behind them.
LEMMA FreshGenerations ==
  ASSUME MappingType, NEW chunks \in SUBSET Chunk, NEW c \in chunks
  PROVE  /\ NewGeneration(c, chunks) \in Nat
         /\ NewGeneration(c, chunks) > next_mapping_generation
         /\ NewGeneration(c, chunks) <= next_mapping_generation + Cardinality(chunks)
<1> DEFINE below == {d \in chunks : d <= c}
<1>1. IsFiniteSet(chunks)
  BY Zenon, RemoteChunkAssumption, FS_Subset
<1>2. IsFiniteSet(below) /\ Cardinality(below) <= Cardinality(chunks)
  BY Zenon, <1>1, FS_Subset
<1>3. Cardinality(below) \in Nat /\ Cardinality(chunks) \in Nat
  BY Zenon, <1>1, <1>2, FS_CardinalityType
<1>4. c \in below
  BY RemoteChunkAssumption
<1>5. Cardinality(below) # 0
  BY Zenon, <1>2, <1>4, FS_EmptySet
<1> QED
  BY <1>2, <1>3, <1>5 DEF NewGeneration, MappingType

\* The module's counter only grows when mappings are reset.
LEMMA ResetCounter ==
  ASSUME MappingType, NEW chunks \in SUBSET Chunk, ResetMapping(chunks)
  PROVE  /\ next_mapping_generation' \in Nat
         /\ next_mapping_generation' >= next_mapping_generation
<1>1. Cardinality(chunks) \in Nat
  BY Zenon, RemoteChunkAssumption, FS_Subset, FS_CardinalityType
<1> QED
  BY <1>1 DEF ResetMapping, MappingType
-----------------------------------------------------------------------------
(* Resetting a set of chunks: an eviction that finishes, or a failure.     *)

\* Any set of chunks may be reset, and a Provider that fails in the same step
\* must have no other chunk.
LEMMA ResetKeeps ==
  ASSUME MappingInv, NEW chunks \in SUBSET Chunk, ResetMapping(chunks),
         UNCHANGED <<written, tokenVars>>,
         failed' \in [Provider -> BOOLEAN],
         \A c \in Chunk \ chunks : state[c] # "UNMAPPED" =>
           failed'[provider[c]] = failed[provider[c]]
  PROVE  MappingInv'
<1>1. next_mapping_generation' \in Nat
      /\ next_mapping_generation' >= next_mapping_generation
  BY Zenon, ResetCounter DEF MappingInv
<1>2. \A c \in chunks :
        /\ mapping_generation'[c] \in Nat
        /\ mapping_generation'[c] > next_mapping_generation
        /\ mapping_generation'[c] <= next_mapping_generation'
  BY Zenon, FreshGenerations DEF MappingInv, ResetMapping
<1>3. \A c \in Chunk \ chunks :
        /\ state'[c] = state[c] /\ provider'[c] = provider[c]
        /\ provider_chunk'[c] = provider_chunk[c]
        /\ mapping_generation'[c] = mapping_generation[c]
        /\ valid'[c] = valid[c]
  BY Zenon DEF ResetMapping, MappingInv, MappingType
<1>4. \A c \in chunks : state'[c] = "UNMAPPED" /\ ~valid'[c]
  BY Zenon DEF ResetMapping
<1>5. MappingType'
  BY Zenon, <1>1, <1>2, <1>3
  DEF ResetMapping, MappingInv, MappingType, ChunkState
<1>6. LeaseType'
  BY Zenon DEF MappingInv, LeaseType, tokenVars
<1>7. Placed'
  BY <1>3, <1>4 DEF MappingInv, Placed
<1>8. Unshared'
  BY <1>3, <1>4 DEF MappingInv, Unshared, Assigned
<1>9. GenerationsUsed'
  BY SMTT(60), Z3T(60), ZenonT(120), <1>1, <1>2, <1>3
  DEF MappingInv, GenerationsUsed, MappingType, LeaseType, Held, tokenVars
<1>10. LeasePinsMapping'
  BY <1>1, <1>2, <1>3, <1>4
  DEF MappingInv, LeasePinsMapping, MappingCurrent, GenerationsUsed, Held,
      Assigned, MappingType, LeaseType, tokenVars
<1>11. ValidWrittenHere'
  BY Zenon, <1>3, <1>4 DEF MappingInv, ValidWrittenHere, Assigned
<1> QED
  BY Zenon, <1>5, <1>6, <1>7, <1>8, <1>9, <1>10, <1>11 DEF MappingInv

\* A reset takes its chunks out of their eviction claim and starts none.
LEMMA ResetKeepsClaims ==
  ASSUME EvictionInv, MappingType, NEW chunks \in SUBSET Chunk,
         ResetMapping(chunks), UNCHANGED <<eviction_claim, next_eviction_claim_id>>
  PROVE  EvictionInv'
<1>1. EvictionType'
  BY Zenon DEF EvictionInv, EvictionType, ResetMapping
<1>2. ClaimsMatch'
  BY Zenon DEF EvictionInv, EvictionType, ClaimsMatch, ResetMapping, MappingType
<1> QED
  BY Zenon, <1>1, <1>2 DEF EvictionInv

\* is_remote_chunk_eviction_finish resets the whole batch of a drained claim.
LEMMA EvictionFinishKeeps ==
  ASSUME MappingInv, NEW p \in Provider, EvictionFinish(p)
  PROVE  MappingInv'
<1>1. Batch(p) \in SUBSET Chunk
  BY Zenon DEF Batch
<1>2. ResetMapping(Batch(p)) /\ UNCHANGED <<written, tokenVars, failed>>
  BY Zenon DEF EvictionFinish, leaseVars, tokenVars, providerVars
<1> QED
  BY Zenon, <1>1, <1>2, ResetKeeps DEF MappingInv, MappingType

\* is_remote_chunk_provider_failed resets every chunk of the Provider.
LEMMA ProviderFailedKeeps ==
  ASSUME MappingInv, NEW p \in Provider, ProviderFailed(p)
  PROVE  MappingInv'
<1> DEFINE lost == Affected(p, {"MAPPING", "MAPPED", "EVICTING"})
<1>1. lost \in SUBSET Chunk
  BY Zenon DEF Affected
<1>2. ResetMapping(lost) /\ UNCHANGED <<written, tokenVars>>
  BY Zenon DEF ProviderFailed, leaseVars, tokenVars
<1>3. failed' = [failed EXCEPT ![p] = TRUE]
  BY Zenon DEF ProviderFailed
<1>4. failed' \in [Provider -> BOOLEAN]
  BY Zenon, <1>3 DEF MappingInv, MappingType
<1>5. ASSUME NEW c \in Chunk \ lost, state[c] # "UNMAPPED"
      PROVE  failed'[provider[c]] = failed[provider[c]]
  <2>1. provider[c] # p
    BY Zenon, <1>5 DEF Affected, MappingInv, MappingType, ChunkState
  <2> QED
    BY Zenon, <1>3, <1>5, <2>1 DEF MappingInv, MappingType, Placed
<1> HIDE DEF lost
<1> QED
  BY Zenon, <1>1, <1>2, <1>4, <1>5, ResetKeeps
-----------------------------------------------------------------------------
(* Mapping and eviction claims.                                            *)

\* Placement never chooses a failed Provider.
LEMMA ChosenAlive ==
  ASSUME NEW p \in Provider, ChooseProvider(p)
  PROVE  ~failed[p]
<1>1. EffectiveAvailable(p) > 0
  BY Zenon DEF ChooseProvider, Best, Eligible
<1> QED
  BY <1>1 DEF EffectiveAvailable

\* A mapping claim takes an UNMAPPED chunk to a Provider that is alive.
LEMMA NextMappingKeeps ==
  ASSUME MappingInv, NEW p \in Provider, NEW c \in Chunk, NextMapping(c, p)
  PROVE  MappingInv'
<1>1. ~failed[p]
  BY Zenon, ChosenAlive DEF NextMapping
<1>2. state[c] = "UNMAPPED"
  BY Zenon DEF NextMapping, Candidate
<1>3. /\ state' = [state EXCEPT ![c] = "MAPPING"]
      /\ provider' = [provider EXCEPT ![c] = p]
      /\ UNCHANGED <<provider_chunk, mapping_generation, next_mapping_generation,
                     valid, written, failed, tokenVars>>
  BY Zenon DEF NextMapping, providerVars, leaseVars, dataVars, tokenVars
<1>4. MappingType' /\ LeaseType'
  BY Zenon, <1>3 DEF MappingInv, MappingType, LeaseType, ChunkState, tokenVars
<1>5. Placed'
  BY Zenon, <1>1, <1>3 DEF MappingInv, MappingType, Placed
<1>6. Unshared'
  BY Zenon, <1>3 DEF MappingInv, MappingType, Unshared, Assigned
<1>7. GenerationsUsed'
  BY Zenon, <1>3 DEF MappingInv, GenerationsUsed, Held, tokenVars
<1>8. LeasePinsMapping'
  BY Zenon, <1>2, <1>3
  DEF MappingInv, MappingType, LeasePinsMapping, MappingCurrent,
                    GenerationsUsed, Held, Assigned, tokenVars
<1>9. ValidWrittenHere'
  BY Zenon, <1>2, <1>3 DEF MappingInv, MappingType, ValidWrittenHere, Assigned
<1> QED
  BY Zenon, <1>4, <1>5, <1>6, <1>7, <1>8, <1>9 DEF MappingInv

\* A grant is accepted only for Provider memory no other chunk holds.
LEMMA MappingCommitKeeps ==
  ASSUME MappingInv, NEW p \in Provider, NEW c \in Chunk,
         NEW pc \in ProviderChunk, MappingCommit(p, c, pc)
  PROVE  MappingInv'
<1>1. /\ state[c] = "MAPPING" /\ provider[c] = p /\ ~failed[p]
      /\ GrantAvailable(p, pc)
  BY Zenon DEF MappingCommit, MappingClaimed
<1>2. /\ state' = [state EXCEPT ![c] = "MAPPED"]
      /\ provider_chunk' = [provider_chunk EXCEPT ![c] = pc]
      /\ next_mapping_generation' = next_mapping_generation + 1
      /\ mapping_generation' =
           [mapping_generation EXCEPT ![c] = next_mapping_generation + 1]
      /\ valid' = [valid EXCEPT ![c] = FALSE]
      /\ UNCHANGED <<provider, written, failed, tokenVars>>
  BY Zenon DEF MappingCommit, providerVars, leaseVars, tokenVars
<1>3. MappingType' /\ LeaseType'
  BY <1>2 DEF MappingInv, MappingType, LeaseType, ChunkState, tokenVars
<1>4. Placed'
  BY Zenon, <1>1, <1>2 DEF MappingInv, MappingType, Placed
<1>5. Unshared'
  BY SMTT(60), <1>1, <1>2
  DEF MappingInv, MappingType, Unshared, Assigned, GrantAvailable
<1>6. GenerationsUsed'
  BY SMTT(60), <1>2
  DEF MappingInv, MappingType, LeaseType, GenerationsUsed, Held, tokenVars
<1>7. LeasePinsMapping'
  BY <1>2 DEF MappingInv, MappingType, LeaseType, LeasePinsMapping,
              MappingCurrent, GenerationsUsed, Held, Assigned, tokenVars
<1>8. ValidWrittenHere'
  BY Zenon, <1>1, <1>2 DEF MappingInv, MappingType, ValidWrittenHere, Assigned
<1> QED
  BY Zenon, <1>3, <1>4, <1>5, <1>6, <1>7, <1>8 DEF MappingInv

\* An aborted mapping claim leaves the chunk UNMAPPED.
LEMMA MappingAbortKeeps ==
  ASSUME MappingInv, NEW p \in Provider, NEW c \in Chunk, MappingAbort(p, c)
  PROVE  MappingInv'
<1>1. state[c] = "MAPPING"
  BY Zenon DEF MappingAbort, MappingClaimed
<1>2. /\ state' = [state EXCEPT ![c] = "UNMAPPED"]
      /\ provider' = [provider EXCEPT ![c] = None]
      /\ UNCHANGED <<provider_chunk, mapping_generation, next_mapping_generation,
                     valid, written, failed, tokenVars>>
  BY Zenon DEF MappingAbort, providerVars, leaseVars, dataVars, tokenVars
<1>3. MappingType' /\ LeaseType'
  BY Zenon, <1>2 DEF MappingInv, MappingType, LeaseType, ChunkState, tokenVars
<1>4. Placed' /\ Unshared'
  BY ZenonT(120), <1>2 DEF MappingInv, MappingType, Placed, Unshared, Assigned
<1>5. GenerationsUsed'
  BY Zenon, <1>2 DEF MappingInv, GenerationsUsed, Held, tokenVars
<1>6. LeasePinsMapping'
  BY ZenonT(120), <1>1, <1>2
  DEF MappingInv, MappingType, LeasePinsMapping, MappingCurrent,
                    GenerationsUsed, Held, Assigned, tokenVars
<1>7. ValidWrittenHere'
  BY Zenon, <1>1, <1>2 DEF MappingInv, MappingType, ValidWrittenHere, Assigned
<1> QED
  BY Zenon, <1>3, <1>4, <1>5, <1>6, <1>7 DEF MappingInv

\* An eviction claim moves MAPPED chunks to EVICTING and touches no mapping.
LEMMA EvictionBeginKeeps ==
  ASSUME MappingInv, NEW p \in Provider, NEW ids \in SUBSET ProviderChunk,
         EvictionBegin(p, ids)
  PROVE  MappingInv'
<1>1. /\ \A c \in Chunk :
            \/ state'[c] = state[c]
            \/ state[c] = "MAPPED" /\ state'[c] = "EVICTING"
      /\ state' \in [Chunk -> ChunkState]
      /\ UNCHANGED <<provider, provider_chunk, mapping_generation,
                     next_mapping_generation, valid, written, failed, tokenVars>>
  BY Zenon DEF EvictionBegin, Named, providerVars, leaseVars, dataVars, tokenVars,
         MappingInv, MappingType, ChunkState
<1>2. \A c \in Chunk : Assigned(c)' <=> Assigned(c)
  BY Zenon, <1>1 DEF Assigned
<1>3. MappingType' /\ LeaseType'
  BY Zenon, <1>1 DEF MappingInv, MappingType, LeaseType, tokenVars
<1>4. Placed'
  BY Zenon, <1>1 DEF MappingInv, Placed
<1>5. Unshared'
  BY Zenon, <1>1, <1>2 DEF MappingInv, Unshared
<1>6. GenerationsUsed'
  BY Zenon, <1>1 DEF MappingInv, GenerationsUsed, Held, tokenVars
<1>7. LeasePinsMapping'
  BY Zenon, <1>1, <1>2 DEF MappingInv, LeasePinsMapping, MappingCurrent,
                    GenerationsUsed, Held, tokenVars
<1>8. ValidWrittenHere'
  BY Zenon, <1>1, <1>2 DEF MappingInv, ValidWrittenHere
<1> QED
  BY ZenonT(120), <1>3, <1>4, <1>5, <1>6, <1>7, <1>8 DEF MappingInv
-----------------------------------------------------------------------------
(* Leases.                                                                 *)

\* A lease records the chunk's mapping and generation of the moment.
LEMMA LeaseAcquireKeeps ==
  ASSUME MappingInv, NEW l \in Lease, NEW c \in Chunk, NEW write \in BOOLEAN,
         LeaseAcquire(l, c, write)
  PROVE  MappingInv'
<1>1. state[c] = "MAPPED"
  BY Zenon DEF LeaseAcquire, Admits
<1>2. /\ lease_phase' = [lease_phase EXCEPT ![l] = "active"]
      /\ lease_chunk' = [lease_chunk EXCEPT ![l] = c]
      /\ lease_generation' = [lease_generation EXCEPT ![l] = mapping_generation[c]]
      /\ lease_write' = [lease_write EXCEPT ![l] = write]
      /\ lease_provider' = [lease_provider EXCEPT ![l] = provider[c]]
      /\ lease_provider_chunk' =
           [lease_provider_chunk EXCEPT ![l] = provider_chunk[c]]
      /\ valid' \in [Chunk -> BOOLEAN]
      /\ \A d \in Chunk : valid'[d] => valid[d]
      /\ UNCHANGED <<state, provider, provider_chunk, mapping_generation,
                     next_mapping_generation, written, failed>>
  BY Zenon DEF LeaseAcquire, chunkVars, providerVars, MappingInv, MappingType
<1>3. MappingType' /\ LeaseType'
  BY Zenon, <1>2 DEF MappingInv, MappingType, LeaseType
<1>4. Placed' /\ Unshared'
  BY Zenon, <1>2 DEF MappingInv, Placed, Unshared, Assigned
<1>5. GenerationsUsed'
  BY Zenon, <1>2
  DEF MappingInv, MappingType, LeaseType, GenerationsUsed, Held
<1>6. LeasePinsMapping'
  BY ZenonT(120), <1>1, <1>2
  DEF MappingInv, MappingType, LeaseType, LeasePinsMapping, MappingCurrent,
      Held, Assigned
<1>7. ValidWrittenHere'
  BY Zenon, <1>2 DEF MappingInv, ValidWrittenHere, Assigned
<1> QED
  BY ZenonT(120), <1>3, <1>4, <1>5, <1>6, <1>7 DEF MappingInv

\* A resolved write makes its sectors valid only if its mapping is current.
LEMMA LeaseResolveKeeps ==
  ASSUME MappingInv, NEW l \in Lease, NEW success \in BOOLEAN,
         LeaseResolve(l, success)
  PROVE  MappingInv'
<1>1. /\ lease_phase[l] = "active"
      /\ lease_phase' = [lease_phase EXCEPT ![l] = "resolved"]
      /\ valid' = [c \in Chunk |->
            IF c = lease_chunk[l] /\ lease_write[l] /\ MappingCurrent(l)
            THEN success ELSE valid[c]]
      /\ written' = IF lease_write[l] /\ success
                    THEN written \cup {lease_generation[l]} ELSE written
      /\ UNCHANGED <<state, provider, provider_chunk, mapping_generation,
                     next_mapping_generation, failed, lease_chunk,
                     lease_generation, lease_write, lease_provider,
                     lease_provider_chunk>>
  BY Zenon DEF LeaseResolve, chunkVars, providerVars
<1>2. MappingType' /\ LeaseType'
  BY Zenon, <1>1 DEF MappingInv, MappingType, LeaseType
<1>3. Placed' /\ Unshared'
  BY Zenon, <1>1 DEF MappingInv, Placed, Unshared, Assigned
<1>4. \A k \in Lease : Held(k)' <=> Held(k)
  BY Zenon, <1>1 DEF Held, MappingInv, LeaseType
<1>5. GenerationsUsed'
  BY Zenon, <1>1, <1>4 DEF MappingInv, GenerationsUsed
<1>6. LeasePinsMapping'
  BY Zenon, <1>1, <1>4
  DEF MappingInv, LeasePinsMapping, MappingCurrent, Assigned
<1>7. ASSUME NEW c \in Chunk, valid'[c]
      PROVE  Assigned(c)' /\ mapping_generation'[c] \in written'
  <2>1. CASE c = lease_chunk[l] /\ lease_write[l] /\ MappingCurrent(l)
    <3>1. success
      BY Zenon, <1>1, <1>7, <2>1
    <3>2. Held(l)
      BY Zenon, <1>1 DEF Held
    <3>3. Assigned(c)
      BY Zenon, <2>1, <3>2 DEF MappingInv, LeasePinsMapping
    <3>4. mapping_generation[c] \in written'
      BY Zenon, <1>1, <2>1, <3>1 DEF MappingCurrent
    <3> QED
      BY Zenon, <1>1, <3>3, <3>4 DEF Assigned
  <2>2. CASE ~(c = lease_chunk[l] /\ lease_write[l] /\ MappingCurrent(l))
    <3>1. valid[c]
      BY Zenon, <1>1, <1>7, <2>2
    <3> QED
      BY Zenon, <1>1, <3>1 DEF MappingInv, ValidWrittenHere, Assigned
  <2> QED
    BY Zenon, <2>1, <2>2
<1>8. ValidWrittenHere'
  BY Zenon, <1>7 DEF ValidWrittenHere
<1> QED
  BY Zenon, <1>2, <1>3, <1>5, <1>6, <1>8 DEF MappingInv

\* A released lease constrains nothing any more.
LEMMA LeaseReleaseKeeps ==
  ASSUME MappingInv, NEW l \in Lease, LeaseRelease(l)
  PROVE  MappingInv'
<1>1. /\ lease_phase' = [lease_phase EXCEPT ![l] = "none"]
      /\ lease_chunk' = [lease_chunk EXCEPT ![l] = None]
      /\ lease_generation' = [lease_generation EXCEPT ![l] = 0]
      /\ lease_write' = [lease_write EXCEPT ![l] = FALSE]
      /\ lease_provider' = [lease_provider EXCEPT ![l] = None]
      /\ lease_provider_chunk' = [lease_provider_chunk EXCEPT ![l] = None]
      /\ UNCHANGED mappingVars
  BY Zenon DEF LeaseRelease, chunkVars, providerVars, dataVars, mappingVars
<1>2. MappingType' /\ LeaseType' /\ Placed' /\ Unshared' /\ ValidWrittenHere'
  BY Zenon, <1>1
  DEF MappingInv, MappingType, LeaseType, Placed, Unshared, Assigned,
      ValidWrittenHere, mappingVars
<1>3. GenerationsUsed'
  BY Zenon, <1>1
  DEF MappingInv, LeaseType, GenerationsUsed, Held, mappingVars
<1>4. LeasePinsMapping'
  BY ZenonT(120), <1>1
  DEF MappingInv, LeaseType, LeasePinsMapping, MappingCurrent, Held,
              Assigned, mappingVars
<1> QED
  BY Zenon, <1>2, <1>3, <1>4 DEF MappingInv
-----------------------------------------------------------------------------
(* The step.                                                               *)

\* Every step of the module keeps the mapping invariant.
LEMMA MappingStep == MappingInv /\ [Next]_vars => MappingInv'
<1> SUFFICES ASSUME MappingInv, [Next]_vars PROVE MappingInv'
  BY Zenon
<1>1. CASE Mapping
  BY Zenon, <1>1, NextMappingKeeps, MappingCommitKeeps, MappingAbortKeeps
  DEF Mapping
<1>2. CASE Observing \/ Heating
  <2>1. UNCHANGED <<mappingVars, tokenVars>>
    BY ZenonT(120), <1>2
    DEF Observing, Heating, ProviderObserve, NoteActivity, HotPolicySet,
                mappingVars, tokenVars, chunkVars, leaseVars, dataVars, providerVars
  <2> QED
    BY Zenon, <2>1, MappingFrame
<1>3. CASE Evicting
  <2> PICK p \in Provider :
        \/ \E ids \in SUBSET ProviderChunk : EvictionBegin(p, ids)
        \/ EvictionWait(p) \/ EvictionWaitEnds(p) \/ EvictionWaitExpires(p)
        \/ EvictionFinish(p) \/ EvictionFinishRefused(p) \/ ProviderFailed(p)
    BY Zenon, <1>3 DEF Evicting
  <2>1. CASE \E ids \in SUBSET ProviderChunk : EvictionBegin(p, ids)
    BY Zenon, <2>1, EvictionBeginKeeps
  <2>2. CASE \/ EvictionWait(p) \/ EvictionWaitEnds(p)
             \/ EvictionWaitExpires(p) \/ EvictionFinishRefused(p)
    <3>1. UNCHANGED <<mappingVars, tokenVars>>
      BY Zenon, <2>2
      DEF EvictionWait, EvictionWaitEnds, EvictionWaitExpires,
          EvictionFinishRefused, ReleaseStep, mappingVars, tokenVars,
          chunkVars, leaseVars, dataVars, providerVars
    <3> QED
      BY Zenon, <3>1, MappingFrame
  <2>3. CASE EvictionFinish(p)
    BY Zenon, <2>3, EvictionFinishKeeps
  <2>4. CASE ProviderFailed(p)
    BY Zenon, <2>4, ProviderFailedKeeps
  <2> QED
    BY Zenon, <2>1, <2>2, <2>3, <2>4
<1>4. CASE Leasing
  BY Zenon, <1>4, LeaseAcquireKeeps, LeaseResolveKeeps, LeaseReleaseKeeps
  DEF Leasing
<1>5. CASE Quiesce \/ Destroy \/ UNCHANGED vars
  <2>1. UNCHANGED <<mappingVars, tokenVars>>
    BY Zenon, <1>5
    DEF Quiesce, Destroy, vars, mappingVars, tokenVars, chunkVars, leaseVars,
        dataVars, providerVars
  <2> QED
    BY <2>1, MappingFrame
<1> QED
  BY Zenon, <1>1, <1>2, <1>3, <1>4, <1>5 DEF Next
-----------------------------------------------------------------------------
(* Eviction claims.                                                        *)

\* An EVICTING chunk belongs to the claim that its Provider's session holds.
LEMMA EvictingClaimed ==
  ASSUME MappingInv, EvictionInv, NEW c \in Chunk, state[c] = "EVICTING"
  PROVE  provider[c] \in Provider /\ EvictionClaimed(provider[c])
<1>1. /\ provider[c] \in Provider /\ ~failed[provider[c]]
      /\ eviction_claim[provider[c]] # 0
      /\ c \in Batch(provider[c])
  BY Zenon DEF MappingInv, Placed, EvictionInv, ClaimsMatch, Batch
<1>2. ASSUME NEW d \in Batch(provider[c])
      PROVE  state[d] = "EVICTING" /\ provider[d] = provider[c]
  <2>1. d \in Chunk /\ eviction_claim_id[d] = eviction_claim[provider[c]]
    BY Zenon DEF Batch
  <2>2. state[d] = "EVICTING"
    BY Zenon, <1>1, <2>1 DEF EvictionInv, ClaimsMatch
  <2>3. provider[d] \in Provider
    BY Zenon, <2>1, <2>2 DEF MappingInv, Placed
  <2> QED
    BY Zenon, <1>1, <2>1, <2>2, <2>3 DEF EvictionInv, ClaimsMatch
<1> QED
  BY Zenon, <1>1, <1>2 DEF EvictionClaimed

\* A new claim has a new identifier, on exactly the chunks it names.
LEMMA EvictionBeginClaims ==
  ASSUME MappingInv, EvictionInv, NEW p \in Provider,
         NEW ids \in SUBSET ProviderChunk, EvictionBegin(p, ids)
  PROVE  EvictionInv'
<1> DEFINE named == Named(p, ids)
<1>1. \A c \in named : c \in Chunk /\ state[c] = "MAPPED" /\ provider[c] = p
  BY Zenon DEF Named
<1>2. /\ next_eviction_claim_id' = next_eviction_claim_id + 1
      /\ state' = [c \in Chunk |-> IF c \in named THEN "EVICTING" ELSE state[c]]
      /\ eviction_claim_id' = [c \in Chunk |->
           IF c \in named THEN next_eviction_claim_id + 1 ELSE eviction_claim_id[c]]
      /\ eviction_claim' = [eviction_claim EXCEPT ![p] = next_eviction_claim_id + 1]
      /\ UNCHANGED provider
  BY Zenon DEF EvictionBegin
<1>3. \A c \in Chunk : state[c] = "EVICTING" => provider[c] \in Provider \ {p}
  BY Zenon, EvictingClaimed DEF EvictionBegin
<1> HIDE DEF named
<1>4. EvictionType'
  BY SMTT(60), <1>2 DEF EvictionInv, EvictionType
<1>5. ClaimsMatch'
  <2> USE DEF EvictionInv, EvictionType, ClaimsMatch
  <2>1. \A c \in Chunk : eviction_claim_id'[c] # 0 <=> state'[c] = "EVICTING"
    BY SMTT(60), <1>1, <1>2
  <2>2. \A c \in Chunk : state'[c] = "EVICTING" =>
          eviction_claim_id'[c] = eviction_claim'[provider'[c]]
    BY ZenonT(120), <1>1, <1>2, <1>3
  <2>3. \A q \in Provider : eviction_claim'[q] <= next_eviction_claim_id'
    BY SMTT(60), <1>2
  <2>4. \A q \in Provider, r \in Provider :
          q # r /\ eviction_claim'[q] = eviction_claim'[r] => eviction_claim'[q] = 0
    BY SMTT(60), <1>2
  <2> QED
    BY ZenonT(120), <2>1, <2>2, <2>3, <2>4
<1> QED
  BY Zenon, <1>4, <1>5 DEF EvictionInv

\* Mapping steps leave EVICTING chunks and eviction claims alone.
LEMMA MappingClaims ==
  ASSUME MappingInv, EvictionInv, Mapping
  PROVE  EvictionInv'
<1>1. PICK p \in Provider, c \in Chunk :
        \/ NextMapping(c, p)
        \/ MappingAbort(p, c)
        \/ \E pc \in ProviderChunk : MappingCommit(p, c, pc)
  BY Zenon DEF Mapping
<1>2. /\ state[c] # "EVICTING"
      /\ state' \in [Chunk -> ChunkState] /\ state'[c] # "EVICTING"
      /\ \A d \in Chunk \ {c} : state'[d] = state[d] /\ provider'[d] = provider[d]
      /\ UNCHANGED evictionVars
  BY ZenonT(120), <1>1
  DEF NextMapping, MappingAbort, MappingCommit, MappingClaimed, Candidate,
      claimVars, evictionVars, MappingInv, MappingType, ChunkState
<1> QED
  BY ZenonT(120), <1>2 DEF EvictionInv, EvictionType, ClaimsMatch, evictionVars

\* Every step of the module keeps the claims and the chunks in agreement.
LEMMA EvictionStep ==
  MappingInv /\ EvictionInv /\ [Next]_vars => EvictionInv'
<1> SUFFICES ASSUME MappingInv, EvictionInv, [Next]_vars PROVE EvictionInv'
  BY Zenon
<1>1. CASE Mapping
  BY Zenon, <1>1, MappingClaims
<1>2. CASE Observing \/ Heating \/ Leasing \/ Quiesce \/ Destroy \/ UNCHANGED vars
  <2>1. UNCHANGED <<state, provider, evictionVars>>
    BY ZenonT(120), <1>2 DEF Observing, Heating, Leasing, Quiesce, Destroy, vars,
                ProviderObserve, NoteActivity, HotPolicySet, LeaseAcquire,
                LeaseResolve, LeaseRelease, evictionVars, chunkVars, claimVars
  <2> QED
    BY Zenon, <2>1, EvictionFrame
<1>3. CASE Evicting
  <2> PICK p \in Provider :
        \/ \E ids \in SUBSET ProviderChunk : EvictionBegin(p, ids)
        \/ EvictionWait(p) \/ EvictionWaitEnds(p) \/ EvictionWaitExpires(p)
        \/ EvictionFinish(p) \/ EvictionFinishRefused(p) \/ ProviderFailed(p)
    BY Zenon, <1>3 DEF Evicting
  <2>1. CASE \E ids \in SUBSET ProviderChunk : EvictionBegin(p, ids)
    BY Zenon, <2>1, EvictionBeginClaims
  <2>2. CASE \/ EvictionWait(p) \/ EvictionWaitEnds(p)
             \/ EvictionWaitExpires(p) \/ EvictionFinishRefused(p)
    <3>1. UNCHANGED <<state, provider, evictionVars>>
      BY Zenon, <2>2 DEF EvictionWait, EvictionWaitEnds, EvictionWaitExpires,
                  EvictionFinishRefused, ReleaseStep, evictionVars, chunkVars,
                  claimVars
    <3> QED
      BY Zenon, <3>1, EvictionFrame
  <2>3. CASE EvictionFinish(p) \/ ProviderFailed(p)
    <3>1. PICK chunks \in SUBSET Chunk : ResetMapping(chunks)
      BY Zenon, <2>3 DEF EvictionFinish, ProviderFailed, Batch, Affected
    <3>2. UNCHANGED <<eviction_claim, next_eviction_claim_id>>
      BY Zenon, <2>3 DEF EvictionFinish, ProviderFailed, claimVars
    <3> QED
      BY Zenon, <3>1, <3>2, ResetKeepsClaims DEF MappingInv
  <2> QED
    BY Zenon, <2>1, <2>2, <2>3
<1> QED
  BY Zenon, <1>1, <1>2, <1>3 DEF Next

\* No step takes part of a batch out of EVICTING.
LEMMA EvictionIsAtomic ==
  MappingInv /\ EvictionInv /\ [Next]_vars => [AtomicStep]_vars
<1> SUFFICES ASSUME MappingInv, EvictionInv, Next,
                    NEW c \in Chunk, state[c] = "EVICTING", state'[c] # "EVICTING",
                    NEW d \in Batch(provider[c])
             PROVE  /\ state'[d] = "UNMAPPED"
                    /\ failed'[provider[c]] \/ chunk_leases[d] = 0
  BY Zenon DEF AtomicStep
<1>1. /\ d \in Chunk
      /\ EvictionClaimed(provider[c]) /\ provider[c] \in Provider
      /\ state[d] = "EVICTING" /\ provider[d] = provider[c]
  BY Zenon, EvictingClaimed DEF EvictionClaimed, Batch
<1>2. PICK p \in Provider : EvictionFinish(p) \/ ProviderFailed(p)
  <2>1. \E q \in Provider :
          EvictionFinish(q) \/ ProviderFailed(q)
          \/ state'[c] = state[c] \/ state'[c] = "EVICTING"
    <3>1. CASE Mapping
      BY SMTT(60), <3>1, <1>1
      DEF Mapping, NextMapping, MappingAbort, MappingCommit, MappingClaimed,
          Candidate, MappingInv, MappingType
    <3>2. CASE Observing \/ Heating \/ Leasing \/ Quiesce \/ Destroy
      BY ZenonT(120), <3>2, <1>1
      DEF Observing, Heating, Leasing, Quiesce, Destroy, ProviderObserve,
          NoteActivity, HotPolicySet, LeaseAcquire, LeaseResolve, LeaseRelease,
          chunkVars
    <3>3. CASE Evicting
      BY <3>3 DEF Evicting, EvictionBegin, EvictionWait, EvictionWaitEnds,
                  EvictionWaitExpires, EvictionFinishRefused, ReleaseStep, chunkVars
    <3> QED
      BY ZenonT(120), <3>1, <3>2, <3>3 DEF Next
  <2> QED
    BY Zenon, <2>1
<1>3. CASE EvictionFinish(p)
  <2>1. c \in Batch(p) /\ EvictionClaimed(p) /\ Drained(p)
    BY Zenon, <1>3 DEF EvictionFinish, ResetMapping
  <2>2. provider[c] = p
    BY Zenon, <2>1 DEF EvictionClaimed
  <2> QED
    BY Zenon, <1>1, <1>3, <2>1, <2>2
    DEF EvictionFinish, ResetMapping, Drained
<1>4. CASE ProviderFailed(p)
  <2>1. c \in Affected(p, {"MAPPING", "MAPPED", "EVICTING"})
    BY Zenon, <1>4 DEF ProviderFailed, ResetMapping
  <2>2. provider[c] = p /\ d \in Affected(p, {"MAPPING", "MAPPED", "EVICTING"})
    BY Zenon, <1>1, <2>1 DEF Affected
  <2> QED
    BY Zenon, <1>1, <1>4, <2>2
    DEF ProviderFailed, ResetMapping, MappingInv, MappingType
<1> QED
  BY Zenon, <1>2, <1>3, <1>4
-----------------------------------------------------------------------------
(* Placement.                                                              *)

PlacementType ==
  /\ reported_available \in [Provider -> Nat]
  /\ observation_debited \in [Provider -> Nat]

\* The chunks that is_remote_chunk_provider_debits_locked counts.
DebitedTo(p) == {c \in Chunk : state[c] # "UNMAPPED" /\ provider[c] = p}

\* Debits are natural numbers, and fewer chunks are fewer debits.
LEMMA DebitsCounted ==
  ASSUME NEW S \in SUBSET Chunk, NEW T \in SUBSET S
  PROVE  /\ Cardinality(S) \in Nat /\ Cardinality(T) \in Nat
         /\ Cardinality(T) <= Cardinality(S)
<1>1. IsFiniteSet(S)
  BY Zenon, RemoteChunkAssumption, FS_Subset
<1>2. IsFiniteSet(T)
  BY Zenon, <1>1, FS_Subset
<1> QED
  BY Zenon, <1>1, <1>2, FS_Subset, FS_CardinalityType

\* A step that places no chunk and applies no report keeps to the reports.
LEMMA PlacementKept ==
  ASSUME PlacementType, NoOverplacement,
         UNCHANGED <<reported_available, observation_debited>>,
         \A p \in Provider : ~failed'[p] => ~failed[p],
         \A c \in Chunk : state'[c] # "UNMAPPED" =>
           state[c] # "UNMAPPED" /\ provider'[c] = provider[c]
  PROVE  PlacementType' /\ NoOverplacement'
<1>1. PlacementType'
  BY Zenon DEF PlacementType
<1>2. ASSUME NEW p \in Provider, ~failed'[p]
      PROVE  Debits(p)' <= observation_debited'[p] + reported_available'[p]
  <2>1. DebitedTo(p) \in SUBSET Chunk /\ DebitedTo(p)' \in SUBSET DebitedTo(p)
    BY Zenon DEF DebitedTo
  <2>2. /\ Debits(p) \in Nat /\ Debits(p)' \in Nat /\ Debits(p)' <= Debits(p)
    BY Zenon, <2>1, DebitsCounted DEF Debits, DebitedTo
  <2>3. Debits(p) <= observation_debited[p] + reported_available[p]
    BY Zenon, <1>2 DEF NoOverplacement
  <2>4. observation_debited[p] \in Nat /\ reported_available[p] \in Nat
    BY Zenon DEF PlacementType
  <2> QED
    BY <2>2, <2>3, <2>4
<1> QED
  BY Zenon, <1>1, <1>2 DEF NoOverplacement

\* The Provider that is_remote_chunk_choose_provider_locked chooses has room.
LEMMA ChosenHasRoom ==
  ASSUME PlacementType, NEW p \in Provider, ChooseProvider(p)
  PROVE  Debits(p) < observation_debited[p] + reported_available[p]
<1>1. EffectiveAvailable(p) > 0
  BY Zenon DEF ChooseProvider, Best, Eligible
<1>2. Debits(p) \in Nat
  <2>1. DebitedTo(p) \in SUBSET Chunk
    BY Zenon DEF DebitedTo
  <2> QED
    BY Zenon, <2>1, DebitsCounted DEF Debits, DebitedTo
<1> QED
  BY <1>1, <1>2 DEF EffectiveAvailable, Reconcile, PlacementType

\* Placement takes one chunk of what the report leaves.
LEMMA NextMappingPlaced ==
  ASSUME MappingInv, PlacementType, NoOverplacement,
         NEW p \in Provider, NEW c \in Chunk, NextMapping(c, p)
  PROVE  PlacementType' /\ NoOverplacement'
<1>1. /\ state[c] = "UNMAPPED" /\ ChooseProvider(p)
      /\ state' = [state EXCEPT ![c] = "MAPPING"]
      /\ provider' = [provider EXCEPT ![c] = p]
      /\ UNCHANGED <<reported_available, observation_debited, failed>>
  BY Zenon DEF NextMapping, Candidate, providerVars
<1>2. PlacementType'
  BY Zenon, <1>1 DEF PlacementType
<1>3. \A d \in Chunk : d # c => state'[d] = state[d] /\ provider'[d] = provider[d]
  BY Zenon, <1>1 DEF MappingInv, MappingType
<1>4. state'[c] = "MAPPING" /\ provider'[c] = p
  BY Zenon, <1>1 DEF MappingInv, MappingType
<1>5. ASSUME NEW q \in Provider, ~failed'[q]
      PROVE  Debits(q)' <= observation_debited'[q] + reported_available'[q]
  <2>1. IsFiniteSet(DebitedTo(q)) /\ c \notin DebitedTo(q)
    <3>1. DebitedTo(q) \in SUBSET Chunk
      BY Zenon DEF DebitedTo
    <3> QED
      BY ZenonT(120), <1>1, <3>1, RemoteChunkAssumption, FS_Subset DEF DebitedTo
  <2>2. /\ Debits(q) \in Nat
        /\ observation_debited[q] \in Nat /\ reported_available[q] \in Nat
        /\ Debits(q) <= observation_debited[q] + reported_available[q]
    BY Zenon, <1>1, <1>5, <2>1, FS_CardinalityType
    DEF Debits, DebitedTo, PlacementType, NoOverplacement
  <2>3. CASE q # p
    <3>1. DebitedTo(q)' = DebitedTo(q)
      BY SMTT(60), Z3T(60), ZenonT(120), <1>1, <1>3, <1>4, <2>3 DEF DebitedTo
    <3> QED
      BY Zenon, <1>1, <2>2, <3>1 DEF Debits, DebitedTo
  <2>4. CASE q = p
    <3>1. DebitedTo(q)' = DebitedTo(q) \cup {c}
      BY <1>1, <1>3, <1>4, <2>4 DEF DebitedTo
    <3>2. Debits(q)' = Debits(q) + 1
      BY Zenon, <2>1, <3>1, FS_AddElement DEF Debits, DebitedTo
    <3>3. Debits(q) < observation_debited[q] + reported_available[q]
      BY Zenon, <1>1, <2>4, ChosenHasRoom
    <3> QED
      BY SMTT(60), Z3T(60), ZenonT(120), <1>1, <2>2, <3>2, <3>3
  <2> QED
    BY Zenon, <2>3, <2>4
<1> QED
  BY Zenon, <1>2, <1>5 DEF NoOverplacement

\* A report is taken together with the debits it was made with.
LEMMA ProviderObserved ==
  ASSUME PlacementType, NoOverplacement, NEW p \in Provider,
         NEW sequence, NEW available \in 0 .. MaxAvailable, NEW eligible,
         ProviderObserve(p, sequence, available, eligible)
  PROVE  PlacementType' /\ NoOverplacement'
<1>1. /\ reported_available' = [reported_available EXCEPT ![p] = available]
      /\ observation_debited' = [observation_debited EXCEPT ![p] = Debits(p)]
      /\ UNCHANGED <<state, provider, failed>>
  BY Zenon DEF ProviderObserve, chunkVars
<1>2. \A q \in Provider : Debits(q) \in Nat /\ Debits(q)' = Debits(q)
  <2>1. \A q \in Provider : DebitedTo(q) \in SUBSET Chunk
    BY Zenon DEF DebitedTo
  <2> QED
    BY Zenon, <1>1, <2>1, DebitsCounted DEF Debits, DebitedTo
<1>3. available \in Nat
  BY RemoteChunkAssumption
<1> HIDE DEF Debits
<1>4. PlacementType'
  BY SMTT(60), Z3T(60), ZenonT(120), <1>1, <1>2, <1>3 DEF PlacementType
<1>5. \A q \in Provider : ~failed'[q] =>
        Debits(q) <= observation_debited'[q] + reported_available'[q]
  BY SMTT(60), Z3T(60), ZenonT(120), <1>1, <1>2, <1>3 DEF PlacementType, NoOverplacement
<1> QED
  BY Zenon, <1>2, <1>4, <1>5 DEF NoOverplacement

\* Mappings that are reset leave no chunk placed that was not.
LEMMA ResetPlaces ==
  ASSUME NEW chunks \in SUBSET Chunk, ResetMapping(chunks), NEW c \in Chunk,
         state'[c] # "UNMAPPED"
  PROVE  state[c] # "UNMAPPED" /\ provider'[c] = provider[c]
  BY Zenon DEF ResetMapping

\* Every step of the module keeps to the reports.
LEMMA PlacementStep ==
  MappingInv /\ PlacementType /\ NoOverplacement /\ [Next]_vars
    => PlacementType' /\ NoOverplacement'
<1> SUFFICES ASSUME MappingInv, PlacementType, NoOverplacement, [Next]_vars
             PROVE  PlacementType' /\ NoOverplacement'
  BY Zenon
<1>1. CASE Mapping
  <2>1. PICK p \in Provider, c \in Chunk :
          \/ NextMapping(c, p)
          \/ MappingAbort(p, c)
          \/ \E pc \in ProviderChunk : MappingCommit(p, c, pc)
    BY Zenon, <1>1 DEF Mapping
  <2>2. CASE MappingAbort(p, c) \/ \E pc \in ProviderChunk : MappingCommit(p, c, pc)
    <3>1. /\ state[c] = "MAPPING"
          /\ state'[c] = "UNMAPPED" \/ provider' = provider
          /\ \A d \in Chunk : d # c =>
               state'[d] = state[d] /\ provider'[d] = provider[d]
      BY ZenonT(60), <2>2
      DEF MappingAbort, MappingCommit, MappingClaimed, MappingInv, MappingType
    <3>2. \A d \in Chunk : state'[d] # "UNMAPPED" =>
            state[d] # "UNMAPPED" /\ provider'[d] = provider[d]
      BY <3>1
    <3>3. UNCHANGED <<reported_available, observation_debited, failed>>
      BY Zenon, <2>2 DEF MappingAbort, MappingCommit, providerVars
    <3> QED
      BY Zenon, <3>2, <3>3, PlacementKept
  <2> QED
    BY Zenon, <2>1, <2>2, NextMappingPlaced
<1>2. CASE Observing
  BY Zenon, <1>2, ProviderObserved DEF Observing
<1>3. CASE Evicting
  <2> PICK p \in Provider :
        \/ \E ids \in SUBSET ProviderChunk : EvictionBegin(p, ids)
        \/ EvictionWait(p) \/ EvictionWaitEnds(p) \/ EvictionWaitExpires(p)
        \/ EvictionFinish(p) \/ EvictionFinishRefused(p) \/ ProviderFailed(p)
    BY Zenon, <1>3 DEF Evicting
  <2>1. CASE \E ids \in SUBSET ProviderChunk : EvictionBegin(p, ids)
    <3> PICK ids \in SUBSET ProviderChunk : EvictionBegin(p, ids)
      BY Zenon, <2>1
    <3>1. /\ UNCHANGED <<provider, reported_available, observation_debited, failed>>
          /\ state' = [c \in Chunk |->
               IF c \in Named(p, ids) THEN "EVICTING" ELSE state[c]]
      BY Zenon DEF EvictionBegin, providerVars
    <3>2. \A c \in Chunk : state'[c] # "UNMAPPED" => state[c] # "UNMAPPED"
      BY <3>1 DEF Named
    <3> QED
      BY Zenon, <3>1, <3>2, PlacementKept
  <2>2. CASE \/ EvictionWait(p) \/ EvictionWaitEnds(p)
             \/ EvictionWaitExpires(p) \/ EvictionFinishRefused(p)
    <3>1. UNCHANGED <<state, provider, reported_available, observation_debited,
                      failed>>
      BY Zenon, <2>2
      DEF EvictionWait, EvictionWaitEnds, EvictionWaitExpires,
          EvictionFinishRefused, ReleaseStep, chunkVars, providerVars
    <3> QED
      BY Zenon, <3>1, PlacementKept
  <2>3. CASE EvictionFinish(p) \/ ProviderFailed(p)
    <3>1. PICK chunks \in SUBSET Chunk : ResetMapping(chunks)
      BY Zenon, <2>3 DEF EvictionFinish, ProviderFailed, Batch, Affected
    <3>2. /\ UNCHANGED <<reported_available, observation_debited>>
          /\ \A q \in Provider : ~failed'[q] => ~failed[q]
      BY ZenonT(60), <2>3
      DEF EvictionFinish, ProviderFailed, providerVars, MappingInv, MappingType
    <3> QED
      BY Zenon, <3>1, <3>2, ResetPlaces, PlacementKept
  <2> QED
    BY Zenon, <2>1, <2>2, <2>3
<1>4. CASE Heating \/ Leasing \/ Quiesce \/ Destroy \/ UNCHANGED vars
  <2>1. UNCHANGED <<state, provider, reported_available, observation_debited,
                    failed>>
    BY ZenonT(60), <1>4
    DEF Heating, Leasing, Quiesce, Destroy, vars, NoteActivity, HotPolicySet,
        LeaseAcquire, LeaseResolve, LeaseRelease, chunkVars, providerVars
  <2> QED
    BY Zenon, <2>1, PlacementKept
<1> QED
  BY Zenon, <1>1, <1>2, <1>3, <1>4 DEF Next

\* A new module has placed nothing.
LEMMA InitPlacement == Init => PlacementType /\ NoOverplacement
<1> SUFFICES ASSUME Init PROVE PlacementType /\ NoOverplacement
  BY Zenon
<1>1. PlacementType
  BY DEF Init, PlacementType
<1>2. \A p \in Provider : Debits(p) = 0
  <2>1. \A p \in Provider : DebitedTo(p) = {}
    BY DEF Init, DebitedTo
  <2> QED
    BY Zenon, <2>1, FS_EmptySet DEF Debits, DebitedTo
<1> HIDE DEF Debits
<1> QED
  BY <1>1, <1>2 DEF PlacementType, NoOverplacement
-----------------------------------------------------------------------------
(* The counters.                                                           *)

AssignedChunks == {c \in Chunk : Assigned(c)}
UsableChunks == {c \in Chunk : state[c] = "MAPPED"}
MappingChunks == {c \in Chunk : state[c] = "MAPPING"}

\* The Providers that an eviction claim is open with.
Evicters ==
  {p \in Provider : \E c \in Chunk : state[c] = "EVICTING" /\ provider[c] = p}

HeldLeases == {l \in Lease : Held(l)}
LeasesOn(c) == {l \in Lease : Held(l) /\ lease_chunk[l] = c}

ChunksCounted ==
  /\ assigned_chunks = Cardinality(AssignedChunks)
  /\ usable_chunks = Cardinality(UsableChunks)
  /\ active_mapping_claims = Cardinality(MappingChunks)
  /\ active_eviction_claims = Cardinality(Evicters)

LeasesCounted ==
  /\ active_io_leases = Cardinality(HeldLeases)
  /\ chunk_leases \in [Chunk -> Int]
  /\ \A c \in Chunk : chunk_leases[c] = Cardinality(LeasesOn(c))

\* next_mapping waits for the mapping claim that is open.
OneMapping ==
  \A c \in Chunk, d \in Chunk : state[c] = "MAPPING" /\ state[d] = "MAPPING" => c = d

CounterInv == ChunksCounted /\ LeasesCounted /\ OneMapping

\* What is counted is finite.
LEMMA CountedFinite ==
  /\ IsFiniteSet(AssignedChunks) /\ IsFiniteSet(UsableChunks)
  /\ IsFiniteSet(MappingChunks) /\ IsFiniteSet(Evicters)
  /\ IsFiniteSet(HeldLeases) /\ \A c : IsFiniteSet(LeasesOn(c))
<1>1. /\ AssignedChunks \in SUBSET Chunk /\ UsableChunks \in SUBSET Chunk
      /\ MappingChunks \in SUBSET Chunk /\ Evicters \in SUBSET Provider
      /\ HeldLeases \in SUBSET Lease /\ \A c : LeasesOn(c) \in SUBSET Lease
  BY Zenon DEF AssignedChunks, UsableChunks, MappingChunks, Evicters, HeldLeases,
               LeasesOn
<1> QED
  BY Zenon, <1>1, RemoteChunkAssumption, FS_Subset

\* One element more, ...
LEMMA OneMore ==
  ASSUME NEW S, IsFiniteSet(S), NEW x, x \notin S
  PROVE  Cardinality(S \cup {x}) = Cardinality(S) + 1
  BY Zenon, FS_AddElement

\* ... one less, ...
LEMMA OneLess ==
  ASSUME NEW S, IsFiniteSet(S), NEW x \in S
  PROVE  Cardinality(S \ {x}) = Cardinality(S) - 1
  BY Zenon, FS_RemoveElement

\* ... or as many less as are taken away.
LEMMA SomeLess ==
  ASSUME NEW S, IsFiniteSet(S), NEW T \in SUBSET S
  PROVE  Cardinality(S \ T) = Cardinality(S) - Cardinality(T)
<1>1. S \cap T = T
  BY Zenon
<1> QED
  BY ZenonT(120), <1>1, FS_Difference

\* A step that moves no chunk keeps the counters of the chunks, ...
LEMMA ChunksKept ==
  ASSUME ChunksCounted, OneMapping, UNCHANGED <<state, provider, counterVars>>
  PROVE  ChunksCounted' /\ OneMapping'
<1>1. /\ AssignedChunks' = AssignedChunks /\ UsableChunks' = UsableChunks
      /\ MappingChunks' = MappingChunks /\ Evicters' = Evicters
  BY Zenon DEF AssignedChunks, UsableChunks, MappingChunks, Evicters, Assigned
<1> QED
  BY Zenon, <1>1 DEF ChunksCounted, OneMapping, counterVars

\* ... and one that moves no lease keeps those of the leases.
LEMMA LeasesKept ==
  ASSUME LeasesCounted,
         UNCHANGED <<lease_phase, lease_chunk, chunk_leases, active_io_leases>>
  PROVE  LeasesCounted'
<1>1. HeldLeases' = HeldLeases /\ \A c : LeasesOn(c)' = LeasesOn(c)
  BY Zenon DEF HeldLeases, LeasesOn, Held
<1> QED
  BY Zenon, <1>1 DEF LeasesCounted

\* A mapping claim is created when there is none, ...
LEMMA NextMappingCounted ==
  ASSUME MappingInv, ChunksCounted, OneMapping,
         NEW p \in Provider, NEW c \in Chunk, NextMapping(c, p)
  PROVE  ChunksCounted' /\ OneMapping'
<1>1. /\ state[c] = "UNMAPPED" /\ active_mapping_claims = 0
      /\ state' = [state EXCEPT ![c] = "MAPPING"]
      /\ provider' = [provider EXCEPT ![c] = p]
      /\ active_mapping_claims' = active_mapping_claims + 1
      /\ UNCHANGED <<assigned_chunks, usable_chunks, active_eviction_claims>>
  BY Zenon DEF NextMapping, Candidate, MayMap
<1>2. /\ state'[c] = "MAPPING"
      /\ \A d \in Chunk : d # c => state'[d] = state[d] /\ provider'[d] = provider[d]
  BY Zenon, <1>1 DEF MappingInv, MappingType
<1>3. MappingChunks = {}
  BY Zenon, <1>1, CountedFinite, FS_EmptySet DEF ChunksCounted
<1>4. /\ AssignedChunks' = AssignedChunks /\ UsableChunks' = UsableChunks
      /\ MappingChunks' = MappingChunks \cup {c} /\ c \notin MappingChunks
  BY SMTT(60), Z3T(60), ZenonT(120), <1>1, <1>2 DEF AssignedChunks, UsableChunks, MappingChunks, Assigned
<1>5. Evicters' = Evicters
  BY <1>1, <1>2 DEF Evicters
<1>6. Cardinality(MappingChunks \cup {c}) = Cardinality(MappingChunks) + 1
  BY Zenon, <1>4, CountedFinite, OneMore
<1>7. OneMapping'
  BY Zenon, <1>2, <1>3 DEF OneMapping, MappingChunks
<1> QED
  BY Zenon, <1>1, <1>4, <1>5, <1>6, <1>7 DEF ChunksCounted

\* ... and committed or aborted once.
LEMMA MappingEndCounted ==
  ASSUME MappingInv, ChunksCounted, OneMapping,
         NEW p \in Provider, NEW c \in Chunk,
         MappingAbort(p, c) \/ \E pc \in ProviderChunk : MappingCommit(p, c, pc)
  PROVE  ChunksCounted' /\ OneMapping'
<1>1. /\ state[c] = "MAPPING" /\ UNCHANGED active_eviction_claims
      /\ active_mapping_claims' = active_mapping_claims - 1
      /\ \A d \in Chunk : d # c => state'[d] = state[d] /\ provider'[d] = provider[d]
      /\ \/ /\ state'[c] = "UNMAPPED"
            /\ UNCHANGED <<assigned_chunks, usable_chunks>>
         \/ /\ state'[c] = "MAPPED"
            /\ assigned_chunks' = assigned_chunks + 1
            /\ usable_chunks' = usable_chunks + 1
  BY ZenonT(60)
  DEF MappingAbort, MappingCommit, MappingClaimed, MappingInv, MappingType
<1>2. /\ c \notin AssignedChunks /\ c \notin UsableChunks /\ c \in MappingChunks
      /\ MappingChunks' = MappingChunks \ {c} /\ Evicters' = Evicters
  BY SMTT(60), Z3T(60), ZenonT(120), <1>1 DEF AssignedChunks, UsableChunks, MappingChunks, Evicters, Assigned
<1>3. OneMapping'
  BY <1>1 DEF OneMapping
<1>4. Cardinality(MappingChunks \ {c}) = Cardinality(MappingChunks) - 1
  BY ZenonT(120), <1>2, CountedFinite, OneLess
<1>5. CASE state'[c] = "UNMAPPED"
  <2>1. AssignedChunks' = AssignedChunks /\ UsableChunks' = UsableChunks
    BY SMTT(60), Z3T(60), ZenonT(120), <1>1, <1>5 DEF AssignedChunks, UsableChunks, Assigned
  <2>2. UNCHANGED <<assigned_chunks, usable_chunks>>
    BY <1>1, <1>5
  <2> QED
    BY ZenonT(120), <1>1, <1>2, <1>3, <1>4, <2>1, <2>2 DEF ChunksCounted
<1>6. CASE state'[c] = "MAPPED"
  <2>1. /\ AssignedChunks' = AssignedChunks \cup {c}
        /\ UsableChunks' = UsableChunks \cup {c}
    BY SMTT(60), Z3T(60), ZenonT(120), <1>1, <1>6 DEF AssignedChunks, UsableChunks, Assigned
  <2>2. /\ assigned_chunks' = assigned_chunks + 1
        /\ usable_chunks' = usable_chunks + 1
    BY <1>1, <1>6
  <2>3. /\ Cardinality(AssignedChunks \cup {c}) = Cardinality(AssignedChunks) + 1
        /\ Cardinality(UsableChunks \cup {c}) = Cardinality(UsableChunks) + 1
    BY Zenon, <1>2, CountedFinite, OneMore
  <2> QED
    BY ZenonT(120), <1>1, <1>2, <1>3, <1>4, <2>1, <2>2, <2>3 DEF ChunksCounted
<1> QED
  BY Zenon, <1>1, <1>5, <1>6

\* A batch has as many chunks as identifiers, as no two chunks share one.
LEMMA BatchSize ==
  ASSUME MappingInv, NEW p \in Provider, NEW ids \in SUBSET ProviderChunk,
         EvictionBegin(p, ids)
  PROVE  Cardinality(Named(p, ids)) = Cardinality(ids)
<1> DEFINE named == Named(p, ids)
           f == [c \in named |-> provider_chunk[c]]
<1>1. /\ named \in SUBSET Chunk
      /\ \A c \in named : /\ state[c] = "MAPPED" /\ provider[c] = p
                          /\ provider_chunk[c] \in ids
  BY Zenon DEF Named
<1>2. \A id \in ids : \E c \in named : provider_chunk[c] = id
  BY Zenon DEF EvictionBegin
<1>3. \A c \in named, d \in named : provider_chunk[c] = provider_chunk[d] => c = d
  BY <1>1 DEF MappingInv, Unshared, Assigned
<1> HIDE DEF named
<1>4. f \in Bijection(named, ids)
  BY Zenon, <1>1, <1>2, <1>3 DEF Bijection, Injection, Surjection, IsInjective
<1>5. IsFiniteSet(named)
  BY Zenon, <1>1, RemoteChunkAssumption, FS_Subset
<1>6. ExistsBijection(named, ids)
  BY Zenon, <1>4 DEF ExistsBijection
<1>7. Cardinality(ids) = Cardinality(named)
  BY Zenon, <1>5, <1>6, FS_Bijection
<1> QED
  BY Zenon, <1>7 DEF named

\* An eviction claim takes its batch from the usable chunks.
LEMMA EvictionBeginCounted ==
  ASSUME MappingInv, EvictionInv, ChunksCounted, OneMapping,
         NEW p \in Provider, NEW ids \in SUBSET ProviderChunk,
         EvictionBegin(p, ids)
  PROVE  ChunksCounted' /\ OneMapping'
<1> DEFINE named == Named(p, ids)
<1>1. /\ ~EvictionClaimed(p)
      /\ state' = [c \in Chunk |-> IF c \in named THEN "EVICTING" ELSE state[c]]
      /\ usable_chunks' = usable_chunks - Cardinality(ids)
      /\ active_eviction_claims' = active_eviction_claims + 1
      /\ UNCHANGED <<assigned_chunks, active_mapping_claims, provider>>
      /\ ids # {} /\ \A id \in ids : \E c \in named : provider_chunk[c] = id
  BY Zenon DEF EvictionBegin
<1>2. \A c \in named : c \in Chunk /\ state[c] = "MAPPED" /\ provider[c] = p
  BY Zenon DEF Named
<1>3. PICK e \in named : TRUE
  BY Zenon, <1>1
<1>4. Cardinality(named) = Cardinality(ids)
  BY Zenon, BatchSize
<1>5. \A c \in Chunk : state[c] = "EVICTING" => provider[c] # p
  BY Zenon, <1>1, EvictingClaimed
<1> HIDE DEF named
<1>6. \A c \in Chunk : state'[c] = IF c \in named THEN "EVICTING" ELSE state[c]
  BY Zenon, <1>1
<1>7. AssignedChunks' = AssignedChunks /\ MappingChunks' = MappingChunks
  BY SMTT(60), Z3T(60), ZenonT(120), <1>2, <1>6 DEF AssignedChunks, MappingChunks, Assigned
<1>8. UsableChunks' = UsableChunks \ named /\ named \in SUBSET UsableChunks
  BY SMTT(60), Z3T(60), ZenonT(120), <1>2, <1>6 DEF UsableChunks
<1>9. Evicters' = Evicters \cup {p} /\ p \notin Evicters
  BY SMTT(60), Z3T(60), ZenonT(120), <1>1, <1>2, <1>3, <1>5, <1>6 DEF Evicters
<1>10. /\ Cardinality(UsableChunks \ named)
            = Cardinality(UsableChunks) - Cardinality(named)
       /\ Cardinality(Evicters \cup {p}) = Cardinality(Evicters) + 1
  BY ZenonT(120), <1>8, <1>9, CountedFinite, SomeLess, OneMore
<1>11. OneMapping'
  BY <1>2, <1>6 DEF OneMapping
<1> QED
  BY ZenonT(120), <1>1, <1>4, <1>7, <1>8, <1>9, <1>10, <1>11 DEF ChunksCounted

\* The chunks of a finished batch are all of its Provider's EVICTING chunks.
LEMMA EvictionFinishCounted ==
  ASSUME MappingInv, EvictionInv, ChunksCounted, OneMapping,
         NEW p \in Provider, EvictionFinish(p)
  PROVE  ChunksCounted' /\ OneMapping'
<1>1. /\ EvictionClaimed(p) /\ ResetMapping(Batch(p))
      /\ assigned_chunks' = assigned_chunks - Cardinality(Batch(p))
      /\ active_eviction_claims' = active_eviction_claims - 1
      /\ UNCHANGED <<usable_chunks, active_mapping_claims>>
  BY Zenon DEF EvictionFinish
<1>2. /\ \A c \in Batch(p) : c \in Chunk /\ state[c] = "EVICTING" /\ provider[c] = p
      /\ Batch(p) # {}
  BY Zenon, <1>1 DEF EvictionClaimed, Batch
<1>3. \A c \in Chunk : state[c] = "EVICTING" /\ provider[c] = p => c \in Batch(p)
  BY Zenon DEF EvictionInv, ClaimsMatch, Batch
<1>4. \A c \in Chunk :
        /\ state'[c] = IF c \in Batch(p) THEN "UNMAPPED" ELSE state[c]
        /\ provider'[c] = IF c \in Batch(p) THEN None ELSE provider[c]
  BY ZenonT(120), <1>1 DEF ResetMapping
<1>5. UsableChunks' = UsableChunks /\ MappingChunks' = MappingChunks
  BY SMTT(60), Z3T(60), ZenonT(120), <1>2, <1>4 DEF UsableChunks, MappingChunks
<1>6. /\ AssignedChunks' = AssignedChunks \ Batch(p)
      /\ Batch(p) \in SUBSET AssignedChunks
  BY SMTT(60), Z3T(60), ZenonT(120), <1>2, <1>4 DEF AssignedChunks, Assigned
<1>7. Evicters' = Evicters \ {p} /\ p \in Evicters
  BY <1>2, <1>3, <1>4 DEF Evicters
<1>8. /\ Cardinality(AssignedChunks \ Batch(p))
           = Cardinality(AssignedChunks) - Cardinality(Batch(p))
      /\ Cardinality(Evicters \ {p}) = Cardinality(Evicters) - 1
  BY ZenonT(120), <1>6, <1>7, CountedFinite, SomeLess, OneLess
<1>9. OneMapping'
  BY <1>2, <1>4 DEF OneMapping
<1> QED
  BY ZenonT(120), <1>1, <1>5, <1>6, <1>7, <1>8, <1>9 DEF ChunksCounted

\* The claims of a set of chunks that all carry the same identifier.
LEMMA OneClaim ==
  ASSUME NEW ids, NEW chunks, \A c \in chunks, d \in chunks : ids[c] = ids[d]
  PROVE  ClaimCount(ids, chunks) = IF chunks = {} THEN 0 ELSE 1
<1>1. CASE chunks = {}
  <2>1. {ids[c] : c \in chunks} = {}
    BY Zenon, <1>1
  <2> QED
    BY Zenon, <1>1, <2>1, FS_EmptySet DEF ClaimCount
<1>2. CASE chunks # {}
  <2>1. PICK e \in chunks : TRUE
    BY Zenon, <1>2
  <2>2. {ids[c] : c \in chunks} = {ids[e]}
    BY Zenon, <2>1
  <2> QED
    BY Zenon, <1>2, <2>2, FS_Singleton DEF ClaimCount
<1> QED
  BY Zenon, <1>1, <1>2

\* A failure takes away what the Provider had in each state.
LEMMA ProviderFailedCounted ==
  ASSUME MappingInv, EvictionInv, ChunksCounted, OneMapping,
         NEW p \in Provider, ProviderFailed(p)
  PROVE  ChunksCounted' /\ OneMapping'
<1> DEFINE lost == Affected(p, {"MAPPING", "MAPPED", "EVICTING"})
           held == Affected(p, {"MAPPED", "EVICTING"})
           usable == Affected(p, {"MAPPED"})
           claimed == Affected(p, {"MAPPING"})
           evicting == Affected(p, {"EVICTING"})
<1>1. /\ ResetMapping(lost)
      /\ assigned_chunks' = assigned_chunks - Cardinality(held)
      /\ usable_chunks' = usable_chunks - Cardinality(usable)
      /\ active_mapping_claims'
           = active_mapping_claims - ClaimCount(mapping_claim_id, claimed)
      /\ active_eviction_claims'
           = active_eviction_claims - ClaimCount(eviction_claim_id, evicting)
  BY Zenon DEF ProviderFailed
<1>2. \A c \in Chunk :
        /\ state'[c] = IF c \in lost THEN "UNMAPPED" ELSE state[c]
        /\ provider'[c] = IF c \in lost THEN None ELSE provider[c]
  BY Zenon, <1>1 DEF ResetMapping
<1>3. \A c \in Chunk : state[c] \in ChunkState
  BY Zenon DEF MappingInv, MappingType
<1>4. AssignedChunks' = AssignedChunks \ held /\ held \in SUBSET AssignedChunks
  BY SMTT(60), Z3T(60), ZenonT(120), <1>2, <1>3 DEF AssignedChunks, Assigned, Affected, ChunkState
<1>5. UsableChunks' = UsableChunks \ usable /\ usable \in SUBSET UsableChunks
  BY SMTT(60), Z3T(60), ZenonT(120), <1>2, <1>3 DEF UsableChunks, Affected, ChunkState
<1>6. MappingChunks' = MappingChunks \ claimed /\ claimed \in SUBSET MappingChunks
  BY SMTT(60), Z3T(60), ZenonT(120), <1>2, <1>3 DEF MappingChunks, Affected, ChunkState
<1>7. Evicters' = Evicters \ {p} /\ (p \in Evicters <=> evicting # {})
  BY <1>2, <1>3 DEF Evicters, Affected, ChunkState
<1>8. ClaimCount(mapping_claim_id, claimed) = Cardinality(claimed)
  <2>1. \A c \in claimed, d \in claimed : c = d
    BY Zenon, <1>6 DEF OneMapping, MappingChunks
  <2> HIDE DEF claimed
  <2>2. ClaimCount(mapping_claim_id, claimed) = IF claimed = {} THEN 0 ELSE 1
    BY Zenon, <2>1, OneClaim
  <2>3. CASE claimed = {}
    BY Zenon, <2>2, <2>3, FS_EmptySet
  <2>4. CASE claimed # {}
    <3>1. PICK e \in claimed : claimed = {e}
      BY Zenon, <2>1, <2>4
    <3> QED
      BY Zenon, <2>2, <2>4, <3>1, FS_Singleton
  <2> QED
    BY Zenon, <2>3, <2>4
<1>9. ClaimCount(eviction_claim_id, evicting) = IF p \in Evicters THEN 1 ELSE 0
  <2>1. \A c \in evicting : eviction_claim_id[c] = eviction_claim[p]
    BY DEF EvictionInv, ClaimsMatch, Affected
  <2> HIDE DEF evicting
  <2>2. ClaimCount(eviction_claim_id, evicting) = IF evicting = {} THEN 0 ELSE 1
    BY Zenon, <2>1, OneClaim
  <2> QED
    BY Zenon, <1>7, <2>2
<1>10. Cardinality(Evicters \ {p})
         = Cardinality(Evicters) - IF p \in Evicters THEN 1 ELSE 0
  <2>1. CASE p \in Evicters
    BY Zenon, <2>1, CountedFinite, OneLess
  <2>2. CASE p \notin Evicters
    <3>1. Evicters \ {p} = Evicters
      BY Zenon, <2>2
    <3>2. Cardinality(Evicters) \in Nat
      BY ZenonT(120), CountedFinite, FS_CardinalityType
    <3> QED
      BY SMTT(60), Z3T(60), ZenonT(120), <2>2, <3>1, <3>2
  <2> QED
    BY Zenon, <2>1, <2>2
<1>11. OneMapping'
  BY <1>2 DEF OneMapping
<1> HIDE DEF held, usable, claimed
<1>12. /\ Cardinality(AssignedChunks \ held)
            = Cardinality(AssignedChunks) - Cardinality(held)
       /\ Cardinality(UsableChunks \ usable)
            = Cardinality(UsableChunks) - Cardinality(usable)
       /\ Cardinality(MappingChunks \ claimed)
            = Cardinality(MappingChunks) - Cardinality(claimed)
  BY ZenonT(120), <1>4, <1>5, <1>6, CountedFinite, SomeLess
<1> QED
  BY ZenonT(120), <1>1, <1>4, <1>5, <1>6, <1>7, <1>8, <1>9, <1>10, <1>11, <1>12
  DEF ChunksCounted

\* A lease is counted when it is acquired, ...
LEMMA LeaseAcquireCounted ==
  ASSUME MappingInv, LeasesCounted, NEW l \in Lease, NEW c \in Chunk, NEW write,
         LeaseAcquire(l, c, write)
  PROVE  LeasesCounted'
<1>1. /\ lease_phase[l] = "none"
      /\ lease_phase' = [lease_phase EXCEPT ![l] = "active"]
      /\ lease_chunk' = [lease_chunk EXCEPT ![l] = c]
      /\ chunk_leases' = [chunk_leases EXCEPT ![c] = @ + 1]
      /\ active_io_leases' = active_io_leases + 1
  BY Zenon DEF LeaseAcquire
<1>2. /\ lease_phase'[l] = "active" /\ lease_chunk'[l] = c
      /\ \A m \in Lease : m # l =>
           lease_phase'[m] = lease_phase[m] /\ lease_chunk'[m] = lease_chunk[m]
  BY Zenon, <1>1 DEF MappingInv, LeaseType
<1>3. /\ HeldLeases' = HeldLeases \cup {l} /\ l \notin HeldLeases
      /\ LeasesOn(c)' = LeasesOn(c) \cup {l} /\ l \notin LeasesOn(c)
      /\ \A d \in Chunk : d # c => LeasesOn(d)' = LeasesOn(d)
  BY <1>1, <1>2 DEF HeldLeases, LeasesOn, Held
<1>4. /\ Cardinality(HeldLeases \cup {l}) = Cardinality(HeldLeases) + 1
      /\ Cardinality(LeasesOn(c) \cup {l}) = Cardinality(LeasesOn(c)) + 1
  BY ZenonT(120), <1>3, CountedFinite, OneMore
<1>5. chunk_leases' \in [Chunk -> Int] /\ chunk_leases'[c] = chunk_leases[c] + 1
  BY <1>1 DEF LeasesCounted
<1>6. \A d \in Chunk : d # c => chunk_leases'[d] = chunk_leases[d]
  BY Zenon, <1>1 DEF LeasesCounted
<1>7. ASSUME NEW d \in Chunk PROVE chunk_leases'[d] = Cardinality(LeasesOn(d)')
  BY Zenon, <1>3, <1>4, <1>5, <1>6 DEF LeasesCounted
<1> QED
  BY ZenonT(120), <1>1, <1>3, <1>4, <1>5, <1>7 DEF LeasesCounted

\* ... until its operation releases it, whatever became of the mapping.
LEMMA LeaseReleaseCounted ==
  ASSUME MappingInv, LeasesCounted, NEW l \in Lease, LeaseRelease(l)
  PROVE  LeasesCounted'
<1> DEFINE c == lease_chunk[l]
<1>1. /\ lease_phase[l] = "resolved"
      /\ lease_phase' = [lease_phase EXCEPT ![l] = "none"]
      /\ lease_chunk' = [lease_chunk EXCEPT ![l] = None]
      /\ chunk_leases' = [chunk_leases EXCEPT ![c] = @ - 1]
      /\ active_io_leases' = active_io_leases - 1
  BY Zenon DEF LeaseRelease
<1>2. Held(l) /\ c \in Chunk
  <2>1. Held(l)
    BY <1>1 DEF Held
  <2> QED
    BY Zenon, <2>1 DEF MappingInv, GenerationsUsed
<1>3. /\ lease_phase'[l] = "none"
      /\ \A m \in Lease : m # l =>
           lease_phase'[m] = lease_phase[m] /\ lease_chunk'[m] = lease_chunk[m]
  BY Zenon, <1>1 DEF MappingInv, LeaseType
<1>4. l \in HeldLeases /\ l \in LeasesOn(c) /\ \A d : d # c => l \notin LeasesOn(d)
  BY ZenonT(120), <1>2 DEF HeldLeases, LeasesOn
<1>5. /\ HeldLeases' = HeldLeases \ {l}
      /\ \A d : {m \in Lease : Held(m)' /\ lease_chunk'[m] = d} = LeasesOn(d) \ {l}
  BY <1>3 DEF HeldLeases, LeasesOn, Held
<1>6. /\ Cardinality(HeldLeases \ {l}) = Cardinality(HeldLeases) - 1
      /\ Cardinality(LeasesOn(c) \ {l}) = Cardinality(LeasesOn(c)) - 1
  BY ZenonT(120), <1>4, CountedFinite, OneLess
<1>7. chunk_leases' \in [Chunk -> Int] /\ chunk_leases'[c] = chunk_leases[c] - 1
  BY <1>1, <1>2 DEF LeasesCounted
<1>8. \A d \in Chunk : d # c => chunk_leases'[d] = chunk_leases[d]
  BY Zenon, <1>1, <1>2 DEF LeasesCounted
<1>9. ASSUME NEW d \in Chunk
      PROVE  chunk_leases'[d] = Cardinality(LeasesOn(d)')
  <2>1. LeasesOn(d)' = LeasesOn(d) \ {l}
    BY Zenon, <1>5 DEF LeasesOn
  <2>2. CASE d = c
    BY ZenonT(120), <1>2, <1>6, <1>7, <2>1, <2>2 DEF LeasesCounted
  <2>3. CASE d # c
    <3>1. LeasesOn(d) \ {l} = LeasesOn(d)
      BY Zenon, <1>4, <2>3
    <3> QED
      BY Zenon, <1>8, <2>1, <2>3, <3>1 DEF LeasesCounted
  <2> QED
    BY Zenon, <2>2, <2>3
<1> QED
  BY Zenon, <1>1, <1>5, <1>6, <1>7, <1>9 DEF LeasesCounted

\* Every step of the module keeps its counters.
LEMMA CounterStep ==
  MappingInv /\ EvictionInv /\ CounterInv /\ [Next]_vars => CounterInv'
<1> SUFFICES ASSUME MappingInv, EvictionInv, CounterInv, [Next]_vars
             PROVE  CounterInv'
  BY Zenon
<1> USE DEF CounterInv
<1>1. CASE Mapping
  <2>1. ChunksCounted' /\ OneMapping'
    BY ZenonT(120), <1>1, NextMappingCounted, MappingEndCounted DEF Mapping
  <2>2. UNCHANGED leaseVars
    BY ZenonT(120), <1>1 DEF Mapping, NextMapping, MappingAbort, MappingCommit
  <2> QED
    BY Zenon, <2>1, <2>2, LeasesKept DEF leaseVars
<1>2. CASE Evicting
  <2> PICK p \in Provider :
        \/ \E ids \in SUBSET ProviderChunk : EvictionBegin(p, ids)
        \/ EvictionWait(p) \/ EvictionWaitEnds(p) \/ EvictionWaitExpires(p)
        \/ EvictionFinish(p) \/ EvictionFinishRefused(p) \/ ProviderFailed(p)
    BY Zenon, <1>2 DEF Evicting
  <2>1. CASE \/ EvictionWait(p) \/ EvictionWaitEnds(p)
             \/ EvictionWaitExpires(p) \/ EvictionFinishRefused(p)
    <3>1. UNCHANGED <<state, provider, counterVars>>
      BY Zenon, <2>1
      DEF EvictionWait, EvictionWaitEnds, EvictionWaitExpires,
          EvictionFinishRefused, ReleaseStep, chunkVars
    <3> QED
      BY ZenonT(120), <2>1, <3>1, ChunksKept, LeasesKept
      DEF EvictionWait, EvictionWaitEnds, EvictionWaitExpires,
          EvictionFinishRefused, ReleaseStep, leaseVars
  <2>2. CASE \/ \E ids \in SUBSET ProviderChunk : EvictionBegin(p, ids)
             \/ EvictionFinish(p) \/ ProviderFailed(p)
    <3>1. ChunksCounted' /\ OneMapping'
      BY ZenonT(120), <2>2, EvictionBeginCounted, EvictionFinishCounted,
         ProviderFailedCounted
    <3>2. UNCHANGED leaseVars
      BY ZenonT(120), <2>2 DEF EvictionBegin, EvictionFinish, ProviderFailed
    <3> QED
      BY Zenon, <3>1, <3>2, LeasesKept DEF leaseVars
  <2> QED
    BY Zenon, <2>1, <2>2
<1>3. CASE Leasing
  <2> PICK l \in Lease :
        \/ \E c \in Chunk, write \in BOOLEAN : LeaseAcquire(l, c, write)
        \/ \E success \in BOOLEAN : LeaseResolve(l, success)
        \/ LeaseRelease(l)
    BY Zenon, <1>3 DEF Leasing
  <2>1. UNCHANGED <<state, provider, counterVars>>
    BY Zenon DEF LeaseAcquire, LeaseResolve, LeaseRelease, chunkVars
  <2>2. CASE \E success \in BOOLEAN : LeaseResolve(l, success)
    <3>1. PICK success \in BOOLEAN : LeaseResolve(l, success)
      BY Zenon, <2>2
    <3>2. /\ lease_phase[l] = "active"
          /\ lease_phase' = [lease_phase EXCEPT ![l] = "resolved"]
          /\ UNCHANGED <<lease_chunk, chunk_leases, active_io_leases>>
      BY Zenon, <3>1 DEF LeaseResolve
    <3>3. \A m \in Lease : Held(m)' <=> Held(m)
      BY <3>2 DEF Held, MappingInv, LeaseType
    <3>4. HeldLeases' = HeldLeases /\ \A c \in Chunk : LeasesOn(c)' = LeasesOn(c)
      BY Zenon, <3>2, <3>3 DEF HeldLeases, LeasesOn
    <3>5. LeasesCounted'
      BY Zenon, <3>2, <3>4 DEF LeasesCounted
    <3> QED
      BY Zenon, <2>1, <3>5, ChunksKept
  <2> QED
    BY ZenonT(120), <2>1, <2>2, ChunksKept, LeaseAcquireCounted, LeaseReleaseCounted
<1>4. CASE Observing \/ Heating \/ Quiesce \/ Destroy \/ UNCHANGED vars
  <2>1. UNCHANGED <<state, provider, counterVars, leaseVars>>
    BY ZenonT(60), <1>4
    DEF Observing, Heating, Quiesce, Destroy, vars, ProviderObserve, NoteActivity,
        HotPolicySet, chunkVars
  <2> QED
    BY Zenon, <2>1, ChunksKept, LeasesKept DEF leaseVars
<1> QED
  BY ZenonT(120), <1>1, <1>2, <1>3, <1>4 DEF Next

\* A new module counts nothing.
LEMMA InitCounters == Init => CounterInv
<1> SUFFICES ASSUME Init PROVE CounterInv
  BY Zenon
<1>1. /\ AssignedChunks = {} /\ UsableChunks = {} /\ MappingChunks = {}
      /\ Evicters = {} /\ HeldLeases = {} /\ \A c : LeasesOn(c) = {}
  BY DEF Init, AssignedChunks, UsableChunks, MappingChunks, Evicters, HeldLeases,
         LeasesOn, Assigned, Held
<1>2. ChunksCounted
  BY ZenonT(120), <1>1, FS_EmptySet DEF Init, ChunksCounted
<1>3. \A c \in Chunk : chunk_leases[c] = 0
  BY ZenonT(120) DEF Init
<1>4. chunk_leases \in [Chunk -> Int]
  BY DEF Init
<1>5. LeasesCounted
  BY ZenonT(120), <1>1, <1>3, <1>4, FS_EmptySet DEF Init, LeasesCounted
<1>6. OneMapping
  BY Zenon, <1>1 DEF OneMapping, MappingChunks
<1> QED
  BY Zenon, <1>2, <1>5, <1>6 DEF CounterInv
-----------------------------------------------------------------------------
\* The inductive invariant of the module: where a chunk may be, which
\* generations and claims may be about, and what a lease or a valid sector says
\* of the mapping.
THEOREM ChunksCorrect == Spec => [](MappingInv /\ EvictionInv)
<1>1. Init => MappingInv /\ EvictionInv
  BY Zenon, InitMapping, InitEviction
<1>2. MappingInv /\ EvictionInv /\ [Next]_vars => (MappingInv /\ EvictionInv)'
  BY Zenon, MappingStep, EvictionStep
<1> QED
  BY <1>1, <1>2, PTL DEF Spec

\* However mappings, evictions and failures interleave, no chunk of a Provider
\* backs two logical chunks, and no chunk is left with a failed Provider.
THEOREM MemoryUnshared == Spec => []NoSharedProviderChunk
<1>1. MappingInv => NoSharedProviderChunk
  BY Zenon DEF MappingInv, Placed, Unshared, NoSharedProviderChunk, Assigned
<1> QED
  BY <1>1, ChunksCorrect, PTL

\* is_remote_chunk_io_lease_resolve compares generations only: this suffices to
\* tell a lease on the present mapping from one on an earlier mapping.
THEOREM LeasesPin == Spec => []LeasePinsMapping
<1>1. MappingInv => LeasePinsMapping
  BY Zenon DEF MappingInv
<1> QED
  BY <1>1, ChunksCorrect, PTL

\* Valid sectors were written through the mapping the chunk has now, however
\* late the completions of earlier mappings arrive.
THEOREM ValidOnlyWritten == Spec => []ValidWrittenHere
<1>1. MappingInv => ValidWrittenHere
  BY Zenon DEF MappingInv
<1> QED
  BY <1>1, ChunksCorrect, PTL

\* A batch leaves EVICTING as a whole and to UNMAPPED, drained unless its
\* Provider failed.
THEOREM EvictionsAtomic == Spec => EvictionAtomic
<1>1. MappingInv /\ EvictionInv /\ [Next]_vars => [AtomicStep]_vars
  BY Zenon, EvictionIsAtomic
<1> QED
  BY <1>1, ChunksCorrect, PTL DEF Spec, EvictionAtomic, AtomicStep

\* However late and in whatever order reports arrive, placement never takes more
\* of a Provider than its latest report offered.
THEOREM WithinReports == Spec => []NoOverplacement
  BY InitPlacement, PlacementStep, ChunksCorrect, PTL DEF Spec

\* Whatever order commits, aborts, evictions, failures and late releases come
\* in, the six kinds of counters agree with what they count.
THEOREM CountersAgree == Spec => []CountersDerived
<1>1. MappingInv /\ EvictionInv /\ CounterInv => CountersDerived
  <2> SUFFICES ASSUME MappingInv, EvictionInv, CounterInv PROVE CountersDerived
    BY Zenon
  <2>1. {p \in Provider : EvictionClaimed(p)} = Evicters
    <3>1. ASSUME NEW p \in Provider, EvictionClaimed(p) PROVE p \in Evicters
      BY Zenon, <3>1 DEF EvictionClaimed, Evicters, Batch
    <3>2. ASSUME NEW p \in Evicters PROVE EvictionClaimed(p)
      BY Zenon, EvictingClaimed DEF Evicters
    <3> QED
      BY Zenon, <3>1, <3>2 DEF Evicters
  <2> QED
    BY Zenon, <2>1
    DEF CounterInv, ChunksCounted, LeasesCounted, CountersDerived, AssignedChunks,
        UsableChunks, MappingChunks, HeldLeases, LeasesOn
<1> QED
  BY <1>1, InitCounters, CounterStep, ChunksCorrect, PTL DEF Spec
=============================================================================
