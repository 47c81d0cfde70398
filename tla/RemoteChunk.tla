----------------------------- MODULE RemoteChunk -----------------------------
(***************************************************************************)
(* The Remote Chunk module of a Memory Consumer's device,                  *)
(* is_remote_chunk.c: which Provider holds each logical chunk, which       *)
(* sectors of it are valid there, and who may still use the mapping.       *)
(*                                                                         *)
(* Every operation runs under module->lock and is one action; a call the   *)
(* code refuses changes nothing and is a step that is not enabled.  The    *)
(* callers keep claims and leases and present them later, when the chunk   *)
(* may have been remapped, evicted or lost: the tokens below are what the  *)
(* sessions of is_rdma.c store.  A chunk's sectors are one unit.           *)
(* transition_generation, batch_digest and the magic numbers are functions *)
(* of a claim's identifier and are not repeated; nor are lease identifiers *)
(* and the record of the last finished claim, which only choose among      *)
(* results of calls that change nothing.                                   *)
(***************************************************************************)
EXTENDS Integers, FiniteSets, Functions

CONSTANTS
  Chunk,            \* logical chunk indices
  Provider,         \* roster indices
  ProviderChunk,    \* chunk identifiers a Provider may grant
  Lease,            \* I/O lease storages
  SampleSize,       \* placement_sample_size
  MaxActivity,      \* bound: IS_REMOTE_CHUNK_ACTIVITY_MAX
  MaxAvailable,     \* bound on the chunks a Provider reports
  MaxSequence,      \* bound on observation sequence numbers
  MaxClaims         \* bound on the mapping claims and on the eviction claims

None == -1          \* a zeroed Provider handle

ASSUME RemoteChunkAssumption ==
  /\ Chunk \subseteq Nat /\ IsFiniteSet(Chunk) /\ Chunk # {}
  /\ Provider \subseteq Nat /\ IsFiniteSet(Provider)
  /\ IsFiniteSet(Lease)
  /\ {SampleSize, MaxActivity} \subseteq Nat \ {0}
  /\ {MaxAvailable, MaxSequence, MaxClaims} \subseteq Nat

VARIABLES
  \* struct is_remote_chunk_module
  mode, quiescing, destroyed, threshold,
  next_mapping_claim_id, next_eviction_claim_id, next_mapping_generation,
  assigned_chunks, usable_chunks,
  active_mapping_claims, active_eviction_claims, active_io_leases,
  \* struct is_remote_chunk, by logical chunk
  state, provider, provider_chunk, mapping_generation, mapping_claim_id,
  eviction_claim_id, chunk_leases, activity,
  valid,                    \* valid_sectors
  \* struct is_remote_chunk_provider, by Provider
  failed, observation_sequence, reported_available, observation_debited,
  placement_eligible,
  \* what the callers hold: the claims of struct is_rdma_session, by Provider,
  mapping_claim, eviction_claim,
  release_pc,               \* and where its is_release_work is,
  \* and the leases of the RDMA operations
  lease_phase, lease_chunk, lease_generation, lease_write, lease_provider,
  lease_provider_chunk,
  \* history: the mapping generations an RDMA write has reached
  written

counterVars == <<assigned_chunks, usable_chunks, active_mapping_claims,
                 active_eviction_claims>>
chunkVars == <<state, provider, provider_chunk, mapping_generation,
               mapping_claim_id, eviction_claim_id, next_mapping_generation>>
providerVars == <<failed, observation_sequence, reported_available,
                  observation_debited, placement_eligible>>
claimVars == <<mapping_claim, eviction_claim, next_mapping_claim_id,
               next_eviction_claim_id>>
leaseVars == <<lease_phase, lease_chunk, lease_generation, lease_write,
               lease_provider, lease_provider_chunk, chunk_leases,
               active_io_leases>>
hotVars == <<activity, threshold>>
dataVars == <<valid, written>>
lifeVars == <<mode, quiescing, destroyed>>
vars == <<counterVars, chunkVars, providerVars, claimVars, leaseVars, hotVars,
          dataVars, lifeVars, release_pc>>

ChunkState == {"UNMAPPED", "MAPPING", "MAPPED", "EVICTING"}

Init ==
  /\ mode \in {"BACKED", "REMOTE_ONLY"}
  /\ quiescing = FALSE /\ destroyed = FALSE
  /\ threshold \in 1..MaxActivity
  /\ next_mapping_claim_id = 0 /\ next_eviction_claim_id = 0
  /\ next_mapping_generation = 0
  /\ assigned_chunks = 0 /\ usable_chunks = 0 /\ active_io_leases = 0
  /\ active_mapping_claims = 0 /\ active_eviction_claims = 0
  /\ state = [c \in Chunk |-> "UNMAPPED"]
  /\ provider = [c \in Chunk |-> None]
  /\ provider_chunk = [c \in Chunk |-> None]
  /\ mapping_generation = [c \in Chunk |-> 0]
  /\ mapping_claim_id = [c \in Chunk |-> 0]
  /\ eviction_claim_id = [c \in Chunk |-> 0]
  /\ chunk_leases = [c \in Chunk |-> 0]
  /\ activity = [c \in Chunk |-> 0]
  /\ valid = [c \in Chunk |-> FALSE]
  /\ failed = [p \in Provider |-> FALSE]
  /\ observation_sequence = [p \in Provider |-> None]
  /\ reported_available = [p \in Provider |-> 0]
  /\ observation_debited = [p \in Provider |-> 0]
  /\ placement_eligible = [p \in Provider |-> FALSE]
  /\ mapping_claim = [p \in Provider |-> 0]
  /\ eviction_claim = [p \in Provider |-> 0]
  /\ release_pc = [p \in Provider |-> "idle"]
  /\ lease_phase = [l \in Lease |-> "none"]
  /\ lease_chunk = [l \in Lease |-> None]
  /\ lease_generation = [l \in Lease |-> 0]
  /\ lease_write = [l \in Lease |-> FALSE]
  /\ lease_provider = [l \in Lease |-> None]
  /\ lease_provider_chunk = [l \in Lease |-> None]
  /\ written = {}
-----------------------------------------------------------------------------
(* Placement.                                                              *)

Assigned(c) == state[c] \in {"MAPPED", "EVICTING"}

\* is_remote_chunk_provider_debits_locked: assigned and mapping chunks.
Debits(p) == Cardinality({c \in Chunk : state[c] # "UNMAPPED" /\ provider[c] = p})

\* Fault: chunks taken since the report are not deducted.
ReconcileStale(reported, observed, current) == reported

\* is_remote_chunk_reconcile_available.  A 32-bit overflow needs more chunks
\* than the module accepts, so only the clip at zero is kept.
Reconcile(reported, observed, current) ==
  IF reported + observed > current THEN reported + observed - current ELSE 0

HasObservation(p) == observation_sequence[p] # None

EffectiveAvailable(p) ==
  IF failed[p] \/ ~HasObservation(p) \/ ~placement_eligible[p] THEN 0
  ELSE Reconcile(reported_available[p], observation_debited[p], Debits(p))

\* The best of a sample, the lowest index on a tie.
Best(sample, p) ==
  /\ p \in sample
  /\ \A q \in sample :
       \/ EffectiveAvailable(q) < EffectiveAvailable(p)
       \/ EffectiveAvailable(q) = EffectiveAvailable(p) /\ p <= q

Eligible == {p \in Provider : EffectiveAvailable(p) > 0}

\* is_remote_chunk_choose_provider_locked: every subset of the sample's size
\* has a positive weight, so the sample may be any of them.
ChooseProvider(p) ==
  \E sample \in SUBSET Eligible :
    /\ \/ Cardinality(sample) = SampleSize
       \/ Cardinality(Eligible) < SampleSize /\ sample = Eligible
    /\ Best(sample, p)

Hot(c) == activity[c] >= threshold

\* A chunk that next_mapping may select; it takes the first.
Candidate(c) == state[c] = "UNMAPPED" /\ (mode = "REMOTE_ONLY" \/ Hot(c))

AggregateAvailable ==
  SumFunction([p \in Provider |-> EffectiveAvailable(p)])

\* The conditions on which is_remote_chunk_next_mapping returns a request.
MayMap ==
  /\ ~quiescing /\ active_mapping_claims = 0
  /\ mode = "REMOTE_ONLY" =>
       /\ \A p \in Provider : failed[p] \/ HasObservation(p)
       /\ assigned_chunks = 0 => AggregateAvailable >= Cardinality(Chunk)

\* is_remote_chunk_next_mapping with is_remote_chunk_mapping_claim_create_locked;
\* the chosen session keeps the claim.
NextMapping(c, p) ==
  /\ MayMap
  /\ Candidate(c) /\ \A d \in Chunk : Candidate(d) => c <= d
  /\ ChooseProvider(p)
  /\ next_mapping_claim_id < MaxClaims
  /\ next_mapping_claim_id' = next_mapping_claim_id + 1
  /\ state' = [state EXCEPT ![c] = "MAPPING"]
  /\ provider' = [provider EXCEPT ![c] = p]
  /\ mapping_claim_id' = [mapping_claim_id EXCEPT ![c] = next_mapping_claim_id']
  /\ mapping_claim' = [mapping_claim EXCEPT ![p] = next_mapping_claim_id']
  /\ active_mapping_claims' = active_mapping_claims + 1
  /\ UNCHANGED <<assigned_chunks, usable_chunks, active_eviction_claims,
                 provider_chunk, mapping_generation, eviction_claim_id,
                 next_mapping_generation, eviction_claim,
                 next_eviction_claim_id, providerVars, leaseVars, hotVars,
                 dataVars, lifeVars, release_pc>>

\* is_remote_chunk_mapping_claim_active_locked for the claim p's session holds.
MappingClaimed(p, c) ==
  /\ ~failed[p] /\ mapping_claim[p] # 0
  /\ mapping_claim_id[c] = mapping_claim[p]
  /\ state[c] = "MAPPING" /\ provider[c] = p

\* Fault: a chunk that is being evicted may be granted again.
GrantAvailableEvicting(p, pc) ==
  \A c \in Chunk :
    ~(state[c] = "MAPPED" /\ provider_chunk[c] = pc /\ provider[c] = p)

\* is_remote_chunk_mapping_grants_available_locked.
GrantAvailable(p, pc) ==
  \A c \in Chunk : ~(Assigned(c) /\ provider_chunk[c] = pc /\ provider[c] = p)

\* is_remote_chunk_mapping_finish, COMMIT, with a grant of p's chunk pc.
MappingCommit(p, c, pc) ==
  /\ MappingClaimed(p, c) /\ ~quiescing /\ active_mapping_claims # 0
  /\ GrantAvailable(p, pc)
  /\ next_mapping_generation' = next_mapping_generation + 1
  /\ state' = [state EXCEPT ![c] = "MAPPED"]
  /\ provider_chunk' = [provider_chunk EXCEPT ![c] = pc]
  /\ mapping_generation' =
       [mapping_generation EXCEPT ![c] = next_mapping_generation']
  /\ mapping_claim_id' = [mapping_claim_id EXCEPT ![c] = 0]
  /\ valid' = [valid EXCEPT ![c] = FALSE]
  /\ assigned_chunks' = assigned_chunks + 1
  /\ usable_chunks' = usable_chunks + 1
  /\ active_mapping_claims' = active_mapping_claims - 1
  /\ UNCHANGED <<active_eviction_claims, provider, eviction_claim_id, written,
                 providerVars, claimVars, leaseVars, hotVars, lifeVars, release_pc>>

\* is_remote_chunk_mapping_finish, ABORT: the activity is kept.
MappingAbort(p, c) ==
  /\ MappingClaimed(p, c) /\ active_mapping_claims # 0
  /\ state' = [state EXCEPT ![c] = "UNMAPPED"]
  /\ provider' = [provider EXCEPT ![c] = None]
  /\ mapping_claim_id' = [mapping_claim_id EXCEPT ![c] = 0]
  /\ active_mapping_claims' = active_mapping_claims - 1
  /\ UNCHANGED <<assigned_chunks, usable_chunks, active_eviction_claims,
                 provider_chunk, mapping_generation, eviction_claim_id,
                 next_mapping_generation, providerVars, claimVars, leaseVars,
                 hotVars, dataVars, lifeVars, release_pc>>

\* is_remote_chunk_provider_observe.  Reports may come late or twice: only one
\* with a higher sequence number is applied.
ProviderObserve(p, sequence, available, eligible) ==
  /\ ~quiescing /\ ~failed[p]
  /\ eligible => available > 0
  /\ sequence > observation_sequence[p]
  /\ observation_sequence' = [observation_sequence EXCEPT ![p] = sequence]
  /\ reported_available' = [reported_available EXCEPT ![p] = available]
  /\ observation_debited' = [observation_debited EXCEPT ![p] = Debits(p)]
  /\ placement_eligible' = [placement_eligible EXCEPT ![p] = eligible]
  /\ UNCHANGED <<failed, counterVars, chunkVars, claimVars, leaseVars, hotVars,
                 dataVars, lifeVars, release_pc>>

\* is_remote_chunk_note_activity, a weight of one.
NoteActivity(c) ==
  /\ ~quiescing /\ mode = "BACKED"
  /\ activity[c] < MaxActivity
  /\ activity' = [activity EXCEPT ![c] = @ + 1]
  /\ UNCHANGED <<threshold, counterVars, chunkVars, providerVars, claimVars,
                 leaseVars, dataVars, lifeVars, release_pc>>

\* is_remote_chunk_hot_policy_set.
HotPolicySet(value) ==
  /\ ~quiescing
  /\ threshold' = value
  /\ UNCHANGED <<activity, counterVars, chunkVars, providerVars, claimVars,
                 leaseVars, dataVars, lifeVars, release_pc>>
-----------------------------------------------------------------------------
(* Eviction and Provider failure.                                          *)

\* is_remote_chunk_eviction_claim_validate_locked for the claim p's session
\* holds, and the batch it covers.
Batch(p) == {c \in Chunk : eviction_claim_id[c] = eviction_claim[p]}

EvictionClaimed(p) ==
  /\ ~failed[p] /\ eviction_claim[p] # 0 /\ Batch(p) # {}
  /\ \A c \in Batch(p) : state[c] = "EVICTING" /\ provider[c] = p

\* Fault: one idle chunk is enough.
DrainedAny(p) == \E c \in Batch(p) : chunk_leases[c] = 0

\* is_remote_chunk_eviction_drained_locked.
Drained(p) == \A c \in Batch(p) : chunk_leases[c] = 0

\* The chunks p's identifiers name; a batch with one that is not MAPPED, or
\* named twice, is refused whole.
Named(p, ids) ==
  {c \in Chunk : state[c] = "MAPPED" /\ provider[c] = p /\ provider_chunk[c] \in ids}

EvictionAllowed(p) == mode = "BACKED" /\ ~quiescing /\ ~failed[p]

\* is_remote_chunk_eviction_begin, from is_handle_release, which queues
\* is_release_work.
EvictionBegin(p, ids) ==
  /\ release_pc[p] = "idle"
  /\ EvictionAllowed(p)
  /\ ~EvictionClaimed(p)
  /\ ids # {} /\ \A id \in ids : \E c \in Named(p, ids) : provider_chunk[c] = id
  /\ next_eviction_claim_id < MaxClaims
  /\ next_eviction_claim_id' = next_eviction_claim_id + 1
  /\ state' = [c \in Chunk |-> IF c \in Named(p, ids) THEN "EVICTING" ELSE state[c]]
  /\ eviction_claim_id' = [c \in Chunk |->
       IF c \in Named(p, ids) THEN next_eviction_claim_id' ELSE eviction_claim_id[c]]
  /\ eviction_claim' = [eviction_claim EXCEPT ![p] = next_eviction_claim_id']
  /\ release_pc' = [release_pc EXCEPT ![p] = "queued"]
  /\ usable_chunks' = usable_chunks - Cardinality(ids)
  /\ active_eviction_claims' = active_eviction_claims + 1
  /\ UNCHANGED <<assigned_chunks, active_mapping_claims, provider,
                 provider_chunk, mapping_generation, mapping_claim_id,
                 next_mapping_generation, mapping_claim, next_mapping_claim_id,
                 providerVars, leaseVars, hotVars, dataVars, lifeVars>>

ReleaseStep(p, from, to) ==
  /\ release_pc[p] = from
  /\ release_pc' = [release_pc EXCEPT ![p] = to]
  /\ UNCHANGED <<counterVars, chunkVars, providerVars, claimVars, leaseVars,
                 hotVars, dataVars, lifeVars>>

\* is_remote_chunk_eviction_wait up to its sleep, from is_release_work; an
\* error makes is_release_work call is_rdma_fail.
EvictionWait(p) ==
  ReleaseStep(p, "queued", IF EvictionClaimed(p) THEN "waiting" ELSE "failing")

\* It returns when the claim is stale, or drained,
EvictionWaitEnds(p) ==
  /\ EvictionClaimed(p) => Drained(p)
  /\ ReleaseStep(p, "waiting", IF EvictionClaimed(p) THEN "finishing" ELSE "failing")

\* Fault: the error of the wait is lost.
EvictionWaitGivesUp(p) ==
  /\ EvictionClaimed(p) /\ ~Drained(p)
  /\ ReleaseStep(p, "waiting", "idle")

\* or at its deadline.
EvictionWaitExpires(p) ==
  /\ EvictionClaimed(p) /\ ~Drained(p)
  /\ ReleaseStep(p, "waiting", "failing")

\* Fault: the generation of the lost mapping is kept.
NewGenerationKept(c, chunks) == mapping_generation[c]

\* The generation that the reset of some chunks, in index order, gives to c.
NewGeneration(c, chunks) ==
  next_mapping_generation + Cardinality({d \in chunks : d <= c})

\* is_remote_chunk_reset_mapping_locked for a set of chunks.
ResetMapping(chunks) ==
  /\ next_mapping_generation' = next_mapping_generation + Cardinality(chunks)
  /\ mapping_generation' = [c \in Chunk |->
       IF c \in chunks THEN NewGeneration(c, chunks) ELSE mapping_generation[c]]
  /\ state' = [c \in Chunk |-> IF c \in chunks THEN "UNMAPPED" ELSE state[c]]
  /\ provider' = [c \in Chunk |-> IF c \in chunks THEN None ELSE provider[c]]
  /\ provider_chunk' =
       [c \in Chunk |-> IF c \in chunks THEN None ELSE provider_chunk[c]]
  /\ mapping_claim_id' =
       [c \in Chunk |-> IF c \in chunks THEN 0 ELSE mapping_claim_id[c]]
  /\ eviction_claim_id' =
       [c \in Chunk |-> IF c \in chunks THEN 0 ELSE eviction_claim_id[c]]
  /\ valid' = [c \in Chunk |-> c \notin chunks /\ valid[c]]

\* is_remote_chunk_eviction_finish.  The claim may have become stale since the
\* wait returned.
EvictionFinish(p) ==
  /\ release_pc[p] = "finishing"
  /\ EvictionClaimed(p) /\ Drained(p)
  /\ ResetMapping(Batch(p))
  /\ activity' = [c \in Chunk |-> IF c \in Batch(p) THEN 0 ELSE activity[c]]
  /\ assigned_chunks' = assigned_chunks - Cardinality(Batch(p))
  /\ active_eviction_claims' = active_eviction_claims - 1
  /\ release_pc' = [release_pc EXCEPT ![p] = "idle"]
  /\ UNCHANGED <<usable_chunks, active_mapping_claims, threshold, written,
                 providerVars, claimVars, leaseVars, lifeVars>>

EvictionFinishRefused(p) ==
  /\ ~(EvictionClaimed(p) /\ Drained(p))
  /\ ReleaseStep(p, "finishing", "failing")

\* Fault: chunks that are not usable are counted as usable.
AffectedAll(p, states) ==
  {c \in Chunk : state[c] # "UNMAPPED" /\ provider[c] = p}

\* The chunks the failure of p takes away, in some states.
Affected(p, states) == {c \in Chunk : state[c] \in states /\ provider[c] = p}

ClaimCount(ids, chunks) == Cardinality({ids[c] : c \in chunks})

\* is_remote_chunk_provider_failed, at most once.  The leases on its chunks
\* stay counted until their operations release them.
ProviderFailed(p) ==
  /\ ~failed[p]
  /\ ResetMapping(Affected(p, {"MAPPING", "MAPPED", "EVICTING"}))
  /\ assigned_chunks' =
       assigned_chunks - Cardinality(Affected(p, {"MAPPED", "EVICTING"}))
  /\ usable_chunks' = usable_chunks - Cardinality(Affected(p, {"MAPPED"}))
  /\ active_mapping_claims' =
       active_mapping_claims - ClaimCount(mapping_claim_id, Affected(p, {"MAPPING"}))
  /\ active_eviction_claims' =
       active_eviction_claims - ClaimCount(eviction_claim_id, Affected(p, {"EVICTING"}))
  /\ failed' = [failed EXCEPT ![p] = TRUE]
  /\ placement_eligible' = [placement_eligible EXCEPT ![p] = FALSE]
  /\ UNCHANGED <<observation_sequence, reported_available, observation_debited,
                 written, claimVars, leaseVars, hotVars, lifeVars, release_pc>>
-----------------------------------------------------------------------------
(* I/O leases.                                                             *)

Admits(c) == state[c] = "MAPPED"

\* is_remote_chunk_io_lease_acquire.  A write makes its sectors invalid.
LeaseAcquire(l, c, write) ==
  /\ ~quiescing
  /\ lease_phase[l] = "none"
  /\ Admits(c)
  /\ write \/ valid[c]
  /\ lease_phase' = [lease_phase EXCEPT ![l] = "active"]
  /\ lease_chunk' = [lease_chunk EXCEPT ![l] = c]
  /\ lease_generation' = [lease_generation EXCEPT ![l] = mapping_generation[c]]
  /\ lease_write' = [lease_write EXCEPT ![l] = write]
  /\ lease_provider' = [lease_provider EXCEPT ![l] = provider[c]]
  /\ lease_provider_chunk' = [lease_provider_chunk EXCEPT ![l] = provider_chunk[c]]
  /\ valid' = [valid EXCEPT ![c] = @ /\ ~write]
  /\ chunk_leases' = [chunk_leases EXCEPT ![c] = @ + 1]
  /\ active_io_leases' = active_io_leases + 1
  /\ UNCHANGED <<written, counterVars, chunkVars, providerVars, claimVars,
                 hotVars, lifeVars, release_pc>>

\* Fault: a completion of an earlier mapping counts.
MappingCurrentAlways(l) == TRUE

MappingCurrent(l) == mapping_generation[lease_chunk[l]] = lease_generation[l]

\* is_remote_chunk_io_lease_resolve with IS_REMOTE_CHUNK_IO_SUCCESS or another
\* outcome: a write of the current mapping sets its sectors' validity.
LeaseResolve(l, success) ==
  /\ lease_phase[l] = "active"
  /\ lease_phase' = [lease_phase EXCEPT ![l] = "resolved"]
  /\ valid' = [c \in Chunk |->
       IF c = lease_chunk[l] /\ lease_write[l] /\ MappingCurrent(l)
       THEN success ELSE valid[c]]
  /\ written' = IF lease_write[l] /\ success
                THEN written \cup {lease_generation[l]} ELSE written
  /\ UNCHANGED <<counterVars, chunkVars, providerVars, claimVars, hotVars,
                 lifeVars, release_pc, lease_chunk, lease_generation, lease_write,
                 lease_provider, lease_provider_chunk, chunk_leases,
                 active_io_leases>>

\* is_remote_chunk_io_lease_release; the storage goes with its operation.
LeaseRelease(l) ==
  /\ lease_phase[l] = "resolved"
  /\ chunk_leases[lease_chunk[l]] # 0 /\ active_io_leases # 0
  /\ lease_phase' = [lease_phase EXCEPT ![l] = "none"]
  /\ lease_chunk' = [lease_chunk EXCEPT ![l] = None]
  /\ lease_generation' = [lease_generation EXCEPT ![l] = 0]
  /\ lease_write' = [lease_write EXCEPT ![l] = FALSE]
  /\ lease_provider' = [lease_provider EXCEPT ![l] = None]
  /\ lease_provider_chunk' = [lease_provider_chunk EXCEPT ![l] = None]
  /\ chunk_leases' = [chunk_leases EXCEPT ![lease_chunk[l]] = @ - 1]
  /\ active_io_leases' = active_io_leases - 1
  /\ UNCHANGED <<counterVars, chunkVars, providerVars,
                 claimVars, hotVars, dataVars, lifeVars, release_pc>>
-----------------------------------------------------------------------------
(* Shutdown.                                                               *)

\* is_remote_chunk_module_quiesce.
Quiesce ==
  /\ ~quiescing
  /\ quiescing' = TRUE
  /\ UNCHANGED <<mode, destroyed, counterVars, chunkVars, providerVars,
                 claimVars, leaseVars, hotVars, dataVars, release_pc>>

\* is_remote_chunk_module_destroy: refused while anything is active.
Idle ==
  /\ active_mapping_claims = 0 /\ active_eviction_claims = 0
  /\ \A p \in Provider : release_pc[p] # "waiting"
  /\ active_io_leases = 0

Destroy ==
  /\ quiescing' = TRUE
  /\ destroyed' = Idle
  /\ UNCHANGED <<mode, counterVars, chunkVars, providerVars, claimVars,
                 leaseVars, hotVars, dataVars, release_pc>>
-----------------------------------------------------------------------------
Mapping ==
  \E p \in Provider, c \in Chunk :
    \/ NextMapping(c, p)
    \/ MappingAbort(p, c)
    \/ \E pc \in ProviderChunk : MappingCommit(p, c, pc)

Observing ==
  \E p \in Provider, sequence \in 0..MaxSequence, available \in 0..MaxAvailable,
     eligible \in BOOLEAN : ProviderObserve(p, sequence, available, eligible)

Heating ==
  \/ \E c \in Chunk : NoteActivity(c)
  \/ \E value \in 1..MaxActivity : HotPolicySet(value)

Evicting ==
  \E p \in Provider :
    \/ \E ids \in SUBSET ProviderChunk : EvictionBegin(p, ids)
    \/ EvictionWait(p)
    \/ EvictionWaitEnds(p)
    \/ EvictionWaitExpires(p)
    \/ EvictionFinish(p)
    \/ EvictionFinishRefused(p)
    \/ ProviderFailed(p)

Leasing ==
  \E l \in Lease :
    \/ \E c \in Chunk, write \in BOOLEAN : LeaseAcquire(l, c, write)
    \/ \E success \in BOOLEAN : LeaseResolve(l, success)
    \/ LeaseRelease(l)

Next ==
  /\ ~destroyed
  /\ Mapping \/ Observing \/ Heating \/ Evicting \/ Leasing \/ Quiesce \/ Destroy

Spec == Init /\ [][Next]_vars

\* A queued is_release_work runs to its end, and the wait in it has a deadline.
\* Nothing is assumed of the leases: is_release_work holds control_lock while it
\* waits, and a completion with an error needs that lock in is_rdma_fail before
\* it returns its lease, so that a batch may be drained only after the deadline.
Fairness ==
  \A p \in Provider :
    /\ WF_vars(~destroyed /\ EvictionWait(p))
    /\ WF_vars(~destroyed /\ (EvictionWaitEnds(p) \/ EvictionWaitExpires(p)))
    /\ WF_vars(~destroyed /\ (EvictionFinish(p) \/ EvictionFinishRefused(p)))
    /\ WF_vars(~destroyed /\ release_pc[p] = "failing" /\ ProviderFailed(p))

-----------------------------------------------------------------------------
(* Properties.                                                             *)

\* Every variable stays in its type.
TypeOK ==
  /\ mode \in {"BACKED", "REMOTE_ONLY"}
  /\ quiescing \in BOOLEAN /\ destroyed \in BOOLEAN
  /\ threshold \in 1..MaxActivity
  /\ {next_mapping_claim_id, next_eviction_claim_id} \subseteq 0..MaxClaims
  /\ next_mapping_generation \in Nat
  /\ {assigned_chunks, usable_chunks, active_io_leases, active_mapping_claims,
      active_eviction_claims} \subseteq Nat
  /\ state \in [Chunk -> ChunkState]
  /\ provider \in [Chunk -> Provider \cup {None}]
  /\ provider_chunk \in [Chunk -> ProviderChunk \cup {None}]
  /\ mapping_generation \in [Chunk -> Nat]
  /\ mapping_claim_id \in [Chunk -> 0..MaxClaims]
  /\ eviction_claim_id \in [Chunk -> 0..MaxClaims]
  /\ chunk_leases \in [Chunk -> Nat]
  /\ activity \in [Chunk -> 0..MaxActivity]
  /\ valid \in [Chunk -> BOOLEAN]
  /\ failed \in [Provider -> BOOLEAN]
  /\ observation_sequence \in [Provider -> (0..MaxSequence) \cup {None}]
  /\ reported_available \in [Provider -> 0..MaxAvailable]
  /\ observation_debited \in [Provider -> Nat]
  /\ placement_eligible \in [Provider -> BOOLEAN]
  /\ mapping_claim \in [Provider -> 0..MaxClaims]
  /\ eviction_claim \in [Provider -> 0..MaxClaims]
  /\ release_pc \in
       [Provider -> {"idle", "queued", "waiting", "finishing", "failing"}]
  /\ lease_phase \in [Lease -> {"none", "active", "resolved"}]
  /\ lease_chunk \in [Lease -> Chunk \cup {None}]
  /\ lease_generation \in [Lease -> Nat]
  /\ lease_write \in [Lease -> BOOLEAN]
  /\ lease_provider \in [Lease -> Provider \cup {None}]
  /\ lease_provider_chunk \in [Lease -> ProviderChunk \cup {None}]
  /\ written \subseteq Nat

Held(l) == lease_phase[l] # "none"

\* The counters the module keeps by increments agree with the chunks, claims
\* and leases they count, in every interleaving of commits, evictions, failures
\* and releases; is_remote_chunk_snapshot_take fails when they do not.
CountersDerived ==
  /\ assigned_chunks = Cardinality({c \in Chunk : Assigned(c)})
  /\ usable_chunks = Cardinality({c \in Chunk : state[c] = "MAPPED"})
  /\ active_mapping_claims = Cardinality({c \in Chunk : state[c] = "MAPPING"})
  /\ active_eviction_claims =
       Cardinality({p \in Provider : EvictionClaimed(p)})
  /\ active_io_leases = Cardinality({l \in Lease : Held(l)})
  /\ \A c \in Chunk :
       chunk_leases[c] = Cardinality({l \in Lease : Held(l) /\ lease_chunk[l] = c})

\* A chunk of a Provider backs at most one logical chunk, so two ranges of the
\* device never share remote memory, and a failed Provider backs none.
NoSharedProviderChunk ==
  \A c \in Chunk :
    Assigned(c) =>
      /\ ~failed[provider[c]]
      /\ \A d \in Chunk \ {c} :
           Assigned(d) => <<provider[c], provider_chunk[c]>> #
                          <<provider[d], provider_chunk[d]>>

\* A lease whose generation is its chunk's is a lease on the memory the chunk
\* still has: the Provider chunk was neither given back by an eviction, nor
\* lost, nor replaced while the RDMA operation may touch it.
LeasePinsMapping ==
  \A l \in Lease :
    Held(l) /\ MappingCurrent(l) =>
      /\ Assigned(lease_chunk[l])
      /\ provider[lease_chunk[l]] = lease_provider[l]
      /\ provider_chunk[lease_chunk[l]] = lease_provider_chunk[l]

\* Sectors are valid only where a write of the current mapping succeeded: a
\* completion of an earlier mapping never makes a later one readable.
ValidWrittenHere ==
  \A c \in Chunk : valid[c] => Assigned(c) /\ mapping_generation[c] \in written

\* Placement never takes more chunks of a Provider than its latest report
\* offered on top of what the Consumer had when the report came.
NoOverplacement ==
  \A p \in Provider :
    ~failed[p] => Debits(p) <= observation_debited[p] + reported_available[p]

\* An eviction is all or nothing: the chunks of a batch leave EVICTING in one
\* step, to UNMAPPED, and while their Provider lives without a lease on them.
EvictionAtomic ==
  [][\A c \in Chunk :
       (state[c] = "EVICTING" /\ state'[c] # "EVICTING") =>
         \A d \in Batch(provider[c]) :
           /\ state'[d] = "UNMAPPED"
           /\ failed'[provider[c]] \/ chunk_leases[d] = 0]_vars

\* An eviction ends, whatever becomes of the leases on its chunks: the batch is
\* drained and given back, or the deadline of the wait fails the Provider, which
\* takes its chunks away.  A claim that another failure made stale in between
\* does not leave a chunk EVICTING.
EvictionProgress ==
  \A c \in Chunk : state[c] = "EVICTING" ~> state[c] # "EVICTING"
=============================================================================
