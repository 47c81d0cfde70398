---------------------------- MODULE MemoryManager ----------------------------
(***************************************************************************)
(* The Provider's memory manager, infiniswap_memory_manager.c: the         *)
(* Opportunistic and Committed pools, the chunks assigned from them to the *)
(* connections of authenticated Consumers, and the Host Reserve they must  *)
(* not eat into.                                                           *)
(*                                                                         *)
(* Every operation runs under manager->lock and is one action.  A refused  *)
(* call only counts a rejection, which is not modelled, and is a step that *)
(* is not enabled; a call whose adapters fail half way is an action of its *)
(* own.  Memory is counted in chunks.  Which of several equal slots the    *)
(* code's index order takes does not matter and is left open.              *)
(***************************************************************************)
EXTENDS Integers, FiniteSets, Functions

CONSTANTS
  Slot,              \* manager->chunks
  Connection,        \* owners
  Consumer,          \* consumer identifiers
  Policy,            \* limit sets an allowlist entry may carry
  PolicyChunks,      \* [Policy \X Pool -> Nat]: the quota of each pool
  PolicyConnections, \* [Policy -> Nat]: max_connections
  MaxPool,           \* [Pool -> Nat]: max_opportunistic_gib, max_committed_gib
  HostReserve,       \* host_reserve_gib
  HostChunks         \* bound: the host's memory

None == "none"       \* a NULL owner or address
OPPORTUNISTIC == "opportunistic"
COMMITTED == "committed"
Pool == {OPPORTUNISTIC, COMMITTED}

\* is_memory_manager_create: chunk_capacity is the sum of the pool limits.
ASSUME MemoryManagerAssumption ==
  /\ IsFiniteSet(Slot) /\ IsFiniteSet(Connection)
  /\ None \notin Connection \cup Consumer \cup Policy
  /\ MaxPool \in [Pool -> Nat]
  /\ PolicyChunks \in [Policy \X Pool -> Nat]
  /\ PolicyConnections \in [Policy -> Nat \ {0}]
  /\ HostReserve \in Nat /\ HostChunks \in Nat
  /\ Cardinality(Slot) = MaxPool[OPPORTUNISTIC] + MaxPool[COMMITTED]

VARIABLES
  \* struct is_memory_chunk, by slot
  pool,              \* None where address is NULL
  owner, registered, quarantined,
  \* struct is_memory_connection, by owner
  consumer,          \* None for an owner that is not connected
  policy, held,      \* its limits; chunks assigned to it from each pool
  \* struct is_memory_manager
  allocated, assigned, quarantined_chunks, healthy,
  destroyed,
  \* what read_available_bytes returns
  available,
  \* the RDMA device: slots whose memory it can reach
  exposed

chunkVars == <<pool, owner, registered, quarantined, exposed>>
connectionVars == <<consumer, policy>>
countVars == <<held, allocated, assigned, quarantined_chunks>>
vars == <<chunkVars, connectionVars, countVars, healthy, destroyed, available>>

Init ==
  /\ pool = [s \in Slot |-> None]
  /\ owner = [s \in Slot |-> None]
  /\ registered = [s \in Slot |-> FALSE]
  /\ quarantined = [s \in Slot |-> FALSE]
  /\ consumer = [c \in Connection |-> None]
  /\ policy = [c \in Connection |-> None]
  /\ held = [x \in Connection \X Pool |-> 0]
  /\ allocated = [p \in Pool |-> 0]
  /\ assigned = [p \in Pool |-> 0]
  /\ quarantined_chunks = 0
  /\ healthy = TRUE
  /\ destroyed = FALSE
  /\ available = HostChunks
  /\ exposed = {}

Lesser(m, n) == IF m < n THEN m ELSE n

Connected == {c \in Connection : consumer[c] # None}

ConnectionsOf(k) == {c \in Connection : consumer[c] = k}

AssignedTo(k, p) ==
  SumFunction([c \in ConnectionsOf(k) |-> held[<<c, p>>]])

Empty == {s \in Slot : pool[s] = None}

\* Memory the manager holds for pool p and nobody uses.
Unassigned(p) ==
  {s \in Slot : pool[s] = p /\ owner[s] = None /\ ~registered[s]
                /\ ~quarantined[s]}

\* Fault: the reclaim in reconcile forgets the quarantine.
ReclaimableQuarantined ==
  {s \in Slot : pool[s] = OPPORTUNISTIC /\ owner[s] = None}

\* What reconcile may free; it does not look at the registration.
Reclaimable ==
  {s \in Slot : pool[s] = OPPORTUNISTIC /\ owner[s] = None /\ ~quarantined[s]}

-----------------------------------------------------------------------------
(* Connections.                                                            *)

\* The Consumer has a connection left and all of its connections agree on
\* the limits.
AdmitsConnection(k, l) ==
  /\ Cardinality(ConnectionsOf(k)) < PolicyConnections[l]
  /\ \A c \in ConnectionsOf(k) : policy[c] = l

Connect(c, k, l) ==
  /\ ~destroyed
  /\ c \notin Connected
  /\ \E p \in Pool : PolicyChunks[<<l, p>>] # 0
  /\ AdmitsConnection(k, l)
  /\ consumer' = [consumer EXCEPT ![c] = k]
  /\ policy' = [policy EXCEPT ![c] = l]
  /\ UNCHANGED <<chunkVars, countVars, healthy, destroyed, available>>

Owned(c) == {s \in Slot : owner[s] = c}

\* Chunks whose memory release_chunk_locked gives back to the host.
Freed(S, cause) ==
  {s \in S : cause = "PRESSURE" \/ pool[s] = COMMITTED}

\* release_chunk_locked for each chunk of S, all owned by c.
ReleaseChunks(c, S, cause) ==
  LET In(p) == Cardinality({s \in S : pool[s] = p})
      Gone(p) == Cardinality({s \in Freed(S, cause) : pool[s] = p})
  IN /\ registered' = [s \in Slot |-> registered[s] /\ s \notin S]
     /\ exposed' = exposed \ S
     /\ owner' = [s \in Slot |-> IF s \in S THEN None ELSE owner[s]]
     /\ pool' = [s \in Slot |-> IF s \in Freed(S, cause) THEN None
                                ELSE pool[s]]
     /\ assigned' = [p \in Pool |-> assigned[p] - In(p)]
     /\ held' = [x \in Connection \X Pool |->
                   IF x[1] = c THEN held[x] - In(x[2]) ELSE held[x]]
     /\ allocated' = [p \in Pool |-> allocated[p] - Gone(p)]
     /\ available' = available + Cardinality(Freed(S, cause))
     /\ UNCHANGED <<quarantined, quarantined_chunks, destroyed>>

Disconnect(c) ==
  /\ ~destroyed
  /\ c \in Connected
  /\ ReleaseChunks(c, Owned(c), "DISCONNECT")
  /\ consumer' = [consumer EXCEPT ![c] = None]
  /\ policy' = [policy EXCEPT ![c] = None]
  /\ UNCHANGED healthy

\* A deregistration fails after those of S: the connection stays.
DisconnectFails(c, S) ==
  /\ ~destroyed
  /\ c \in Connected
  /\ S # Owned(c)
  /\ ReleaseChunks(c, S, "DISCONNECT")
  /\ healthy' = FALSE
  /\ UNCHANGED connectionVars

ReleaseAllowed(S, cause) ==
  /\ S # {}
  /\ cause = "PRESSURE" => \A s \in S : pool[s] # COMMITTED

Release(c, S, cause) ==
  /\ ~destroyed
  /\ c \in Connected
  /\ ReleaseAllowed(S, cause)
  /\ ReleaseChunks(c, S, cause)
  /\ UNCHANGED <<connectionVars, healthy>>

\* Of the batch S only the chunks of D are released when one
\* deregistration fails.
ReleaseFails(c, S, D, cause) ==
  /\ ~destroyed
  /\ c \in Connected
  /\ ReleaseAllowed(S, cause)
  /\ D # S
  /\ ReleaseChunks(c, D, cause)
  /\ healthy' = FALSE
  /\ UNCHANGED connectionVars

-----------------------------------------------------------------------------
(* Admission.                                                              *)

\* Fault: the quota is compared with this connection's chunks only.
WithinQuotaAlone(c, p, n) ==
  held[<<c, p>>] + n <= PolicyChunks[<<policy[c], p>>]

\* validate_acquire_locked: the quota bounds all of the Consumer's
\* connections together.
WithinQuota(c, p, n) ==
  AssignedTo(consumer[c], p) + n <= PolicyChunks[<<policy[c], p>>]

\* How many of n chunks acquire takes from each source, in its order.
SameCount(p, n) == Lesser(n, Cardinality(Unassigned(p)))

ConvertedCount(p, n) ==
  IF p = COMMITTED
  THEN Lesser(n - SameCount(p, n), Cardinality(Unassigned(OPPORTUNISTIC)))
  ELSE 0

NewCount(p, n) == n - SameCount(p, n) - ConvertedCount(p, n)

\* Fault: only fresh memory counts against the pool's limit.
WithinPoolFresh(p, n) ==
  /\ NewCount(p, n) <= Cardinality(Empty)
  /\ NewCount(p, n) <= MaxPool[p] - allocated[p]

\* There are slots, and the pool does not outgrow its limit.
WithinPool(p, n) ==
  /\ NewCount(p, n) <= Cardinality(Empty)
  /\ n - SameCount(p, n) <= MaxPool[p] - allocated[p]

WithinReserve(p, n) ==
  NewCount(p, n) # 0 => available >= HostReserve + NewCount(p, n)

Admissible(c, p, n) ==
  /\ WithinQuota(c, p, n)
  /\ WithinPool(p, n)
  /\ WithinReserve(p, n)

\* S, V and E: chunks of the pool itself, Opportunistic ones converted to
\* Committed, and empty slots.
Selected(p, n, S, V, E) ==
  /\ Cardinality(S) = SameCount(p, n)
  /\ Cardinality(V) = ConvertedCount(p, n)
  /\ Cardinality(E) = NewCount(p, n)

Allocated(p, V, E) ==
  [q \in Pool |->
     allocated[q] + (IF q = p THEN Cardinality(V \cup E)
                     ELSE - Cardinality(V))]

Acquire(c, p, n, S, V, E) ==
  /\ ~destroyed
  /\ c \in Connected
  /\ Admissible(c, p, n)
  /\ Selected(p, n, S, V, E)
  /\ LET All == S \cup V \cup E
     IN /\ pool' = [s \in Slot |-> IF s \in All THEN p ELSE pool[s]]
        /\ owner' = [s \in Slot |-> IF s \in All THEN c ELSE owner[s]]
        /\ registered' = [s \in Slot |-> registered[s] \/ s \in All]
        /\ exposed' = exposed \cup All
  /\ allocated' = Allocated(p, V, E)
  /\ assigned' = [assigned EXCEPT ![p] = @ + n]
  /\ held' = [held EXCEPT ![<<c, p>>] = @ + n]
  /\ available' = available - Cardinality(E)
  /\ UNCHANGED <<connectionVars, quarantined, quarantined_chunks, healthy,
                 destroyed>>

\* rollback_pending: fresh memory that cannot be deregistered stays.
RollbackPool(p, E, Q) ==
  [s \in Slot |-> IF s \in E \cap Q THEN p ELSE pool[s]]

\* One registration of the batch fails, and then the deregistration of the
\* chunks of Q, some of those already registered: they are quarantined.
AcquireFails(c, p, n, S, V, E, Q) ==
  /\ ~destroyed
  /\ c \in Connected
  /\ Admissible(c, p, n)
  /\ Selected(p, n, S, V, E)
  /\ Q # {}
  /\ Cardinality(Q) < n
  /\ pool' = RollbackPool(p, E, Q)
  /\ registered' = [s \in Slot |-> registered[s] \/ s \in Q]
  /\ exposed' = exposed \cup Q
  /\ quarantined' = [s \in Slot |-> quarantined[s] \/ s \in Q]
  /\ quarantined_chunks' = quarantined_chunks + Cardinality(Q)
  /\ allocated' = [allocated EXCEPT ![p] = @ + Cardinality(E \cap Q)]
  /\ available' = available - Cardinality(E \cap Q)
  /\ healthy' = FALSE
  /\ UNCHANGED <<connectionVars, owner, held, assigned, destroyed>>

\* is_memory_manager_get_status: what a connection is told it may acquire.
Available(c, p) ==
  LET safe_new == IF available > HostReserve THEN available - HostReserve
                  ELSE 0
      quarantined_opportunistic ==
        Cardinality({s \in Slot : quarantined[s] /\ pool[s] = OPPORTUNISTIC})
      unassigned_opportunistic ==
        allocated[OPPORTUNISTIC] - assigned[OPPORTUNISTIC]
          - quarantined_opportunistic
      room == MaxPool[p] - allocated[p]
      remaining == PolicyChunks[<<policy[c], p>>] - AssignedTo(consumer[c], p)
  IN Lesser(remaining,
            IF p = COMMITTED
            THEN Lesser(unassigned_opportunistic + safe_new, room)
            ELSE unassigned_opportunistic + Lesser(safe_new, room))

-----------------------------------------------------------------------------
(* Reconciliation with the host's memory, once a second, and shutdown.     *)

Effective == available + allocated[OPPORTUNISTIC]

Target ==
  IF Effective <= HostReserve THEN 0
  ELSE Lesser(Effective - HostReserve, MaxPool[OPPORTUNISTIC])

\* The pool grows to its target, all or nothing.
ReconcileGrow(E) ==
  /\ ~destroyed
  /\ Target > allocated[OPPORTUNISTIC]
  /\ Cardinality(E) = Target - allocated[OPPORTUNISTIC]
  /\ pool' = [s \in Slot |-> IF s \in E THEN OPPORTUNISTIC ELSE pool[s]]
  /\ allocated' = [allocated EXCEPT ![OPPORTUNISTIC] = Target]
  /\ available' = available - Cardinality(E)
  /\ UNCHANGED <<owner, registered, quarantined, exposed, connectionVars,
                 held, assigned, quarantined_chunks, healthy, destroyed>>

\* Fault: one chunk short.
ReclaimLess ==
  Lesser(Cardinality(Reclaimable),
         allocated[OPPORTUNISTIC] - assigned[OPPORTUNISTIC] - 1)

\* How many chunks the loop of reconcile frees.
Reclaim ==
  LET desired == IF Target < assigned[OPPORTUNISTIC]
                 THEN assigned[OPPORTUNISTIC] ELSE Target
  IN Lesser(Cardinality(Reclaimable), allocated[OPPORTUNISTIC] - desired)

ReconcileReclaim(R) ==
  /\ ~destroyed
  /\ Target <= allocated[OPPORTUNISTIC]
  /\ R # {}
  /\ Cardinality(R) = Reclaim
  /\ pool' = [s \in Slot |-> IF s \in R THEN None ELSE pool[s]]
  /\ registered' = [s \in Slot |-> registered[s] /\ s \notin R]
  /\ quarantined' = [s \in Slot |-> quarantined[s] /\ s \notin R]
  /\ allocated' = [allocated EXCEPT ![OPPORTUNISTIC] = @ - Cardinality(R)]
  /\ available' = available + Cardinality(R)
  /\ UNCHANGED <<owner, exposed, connectionVars, held, assigned,
                 quarantined_chunks, healthy, destroyed>>

\* The daemon destroys the manager once no connection is left.  F are the
\* registrations that cannot be undone; if there are any, nothing is freed.
Destroy(F) ==
  /\ ~destroyed
  /\ Connected = {}
  /\ destroyed' = TRUE
  /\ registered' = [s \in Slot |-> s \in F]
  /\ exposed' = exposed \cap F
  /\ owner' = [s \in Slot |-> IF s \in F THEN owner[s] ELSE None]
  /\ healthy' = (healthy /\ F = {})
  /\ pool' = IF F = {} THEN [s \in Slot |-> None] ELSE pool
  /\ available' = IF F = {} THEN available + Cardinality(Slot \ Empty)
                  ELSE available
  /\ UNCHANGED <<connectionVars, countVars, quarantined>>

\* Memory the rest of the host takes or gives back.
HostMemory(n) ==
  /\ ~destroyed
  /\ n + Cardinality(Slot \ Empty) <= HostChunks
  /\ available' = n
  /\ UNCHANGED <<chunkVars, connectionVars, countVars, healthy, destroyed>>

-----------------------------------------------------------------------------

Reconcile ==
  \/ \E E \in SUBSET Empty : ReconcileGrow(E)
  \/ \E R \in SUBSET Reclaimable : ReconcileReclaim(R)

Admission ==
  \E c \in Connected, p \in Pool, n \in 1 .. Cardinality(Slot) :
  \E S \in SUBSET Unassigned(p), E \in SUBSET Empty,
     V \in SUBSET (IF p = COMMITTED THEN Unassigned(OPPORTUNISTIC) ELSE {}) :
    \/ Acquire(c, p, n, S, V, E)
    \/ \E Q \in SUBSET (S \cup V \cup E) : AcquireFails(c, p, n, S, V, E, Q)

Returning ==
  \E c \in Connection, cause \in {"CONSUMER", "PRESSURE"} :
  \E S \in SUBSET Owned(c) :
    \/ Release(c, S, cause)
    \/ \E D \in SUBSET S : ReleaseFails(c, S, D, cause)

Disconnecting ==
  \E c \in Connection :
    \/ Disconnect(c)
    \/ \E S \in SUBSET Owned(c) : DisconnectFails(c, S)

Next ==
  \/ \E c \in Connection, k \in Consumer, l \in Policy : Connect(c, k, l)
  \/ Disconnecting
  \/ Returning
  \/ Admission
  \/ Reconcile
  \/ \E F \in SUBSET {s \in Slot : registered[s]} : Destroy(F)
  \/ \E n \in 0 .. HostChunks : HostMemory(n)

Spec == Init /\ [][Next]_vars

\* free_mem reconciles every second for as long as the daemon runs.
FairSpec == Spec /\ WF_vars(Reconcile)
-----------------------------------------------------------------------------
(* Properties.                                                             *)

TypeOK ==
  /\ pool \in [Slot -> Pool \cup {None}]
  /\ owner \in [Slot -> Connection \cup {None}]
  /\ registered \in [Slot -> BOOLEAN]
  /\ quarantined \in [Slot -> BOOLEAN]
  /\ consumer \in [Connection -> Consumer \cup {None}]
  /\ policy \in [Connection -> Policy \cup {None}]
  /\ held \in [Connection \X Pool -> Nat]
  /\ allocated \in [Pool -> Nat]
  /\ assigned \in [Pool -> Nat]
  /\ quarantined_chunks \in Nat
  /\ healthy \in BOOLEAN
  /\ destroyed \in BOOLEAN
  /\ available \in 0 .. HostChunks
  /\ exposed \subseteq Slot

\* The limits hold for the chunks themselves and not only for the counters
\* that admission compares: no pool outgrows its limit, quarantined memory
\* included, and no Consumer holds more than its quota over all of its
\* connections, whichever adapter call failed before.
WithinLimits ==
  /\ \A p \in Pool : Cardinality({s \in Slot : pool[s] = p}) <= MaxPool[p]
  /\ \A c \in Connected, p \in Pool :
       Cardinality({s \in Slot :
                      pool[s] = p /\ owner[s] \in ConnectionsOf(consumer[c])})
         <= PolicyChunks[<<policy[c], p>>]

\* Memory the RDMA device can still reach is neither forgotten nor given
\* back to the host: it belongs to a live connection or is quarantined, and
\* then the Provider reports itself unhealthy.
ExposedHeld ==
  \A s \in exposed :
    /\ pool[s] # None /\ registered[s]
    /\ \/ owner[s] \in Connected /\ ~quarantined[s]
       \/ owner[s] = None /\ quarantined[s] /\ ~healthy

\* get_status and acquire agree: a connection may acquire exactly as many
\* chunks as it is told are available.
StatusHonoured ==
  ~destroyed =>
    \A c \in Connected, p \in Pool, n \in 1 .. Cardinality(Slot) :
      n <= Available(c, p) <=> Admissible(c, p, n)

\* Reconciliation does what it can for the Host Reserve, again and again:
\* either the reserve is free or no unassigned memory is left to give back.
ReservePursued ==
  []<>(destroyed \/ available >= HostReserve \/ Reclaimable = {})
=============================================================================
