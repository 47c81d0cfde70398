------------------------ MODULE MemoryManager_proofs ------------------------
(***************************************************************************)
(* What MemoryManager guarantees for any number of slots, connections and  *)
(* policies: memory that the RDMA device can reach is accounted for, and   *)
(* the pools stay within their limits.                                     *)
(***************************************************************************)
EXTENDS MemoryManager, FiniteSetTheorems, TLAPS

\* The types of what the proofs read.
SlotType ==
  /\ pool \in [Slot -> Pool \cup {None}]
  /\ owner \in [Slot -> Connection \cup {None}]
  /\ registered \in [Slot -> BOOLEAN]
  /\ quarantined \in [Slot -> BOOLEAN]
  /\ consumer \in [Connection -> Consumer \cup {None}]
  /\ allocated \in [Pool -> Int] /\ available \in Int
  /\ exposed \in SUBSET Slot
  /\ healthy \in BOOLEAN

\* Until shutdown, exactly the chunks that are owned or quarantined are
\* registered and reachable, and every owner is connected.
Exposure ==
  ~destroyed =>
    \A s \in Slot :
      /\ owner[s] # None => /\ owner[s] \in Connected
                            /\ pool[s] # None /\ ~quarantined[s]
      /\ quarantined[s] => pool[s] # None /\ ~healthy
      /\ s \in exposed <=> owner[s] # None \/ quarantined[s]
      /\ registered[s] <=> s \in exposed

ExposureInv == SlotType /\ Exposure /\ ExposedHeld

\* The memory a pool has.
Backing(p) == {s \in Slot : pool[s] = p}

\* Until shutdown, the counters of the pools count their memory.
PoolCounted ==
  /\ ~destroyed => \A p \in Pool : allocated[p] = Cardinality(Backing(p))
  /\ \A p \in Pool : Cardinality(Backing(p)) <= MaxPool[p]
-----------------------------------------------------------------------------
(* Exposure.                                                               *)

\* A new manager has no memory.
LEMMA ExposureInit == Init => ExposureInv
  BY MemoryManagerAssumption
  DEF Init, ExposureInv, SlotType, Exposure, ExposedHeld, Pool, None

\* Nothing that the invariant reads is changed.
LEMMA ExposureFrame ==
  ASSUME ExposureInv,
         UNCHANGED <<pool, owner, registered, quarantined, consumer, allocated,
                     exposed, healthy, destroyed>>, available' \in Int
  PROVE  ExposureInv'
  BY Zenon DEF ExposureInv, SlotType, Exposure, ExposedHeld, Connected

\* After a step that is not shutdown, ExposedHeld follows from Exposure.
LEMMA ExposureHolds ==
  ASSUME SlotType', Exposure', ~destroyed'
  PROVE  ExposureInv'
  BY Zenon DEF SlotType, Exposure, ExposedHeld, ExposureInv

\* The counters stay integers.
LEMMA SlotsCounted ==
  ASSUME NEW A \in SUBSET Slot
  PROVE  IsFiniteSet(A) /\ Cardinality(A) \in Nat
  BY Zenon, MemoryManagerAssumption, FS_Subset, FS_CardinalityType

\* Releasing some of a connection's chunks ends their exposure.  If the
\* connection is removed, none of its chunks may be left.
LEMMA ReleaseKeeps ==
  ASSUME ExposureInv, ~destroyed, NEW c \in Connection, NEW cause,
         NEW S \in SUBSET Owned(c), ReleaseChunks(c, S, cause),
         consumer' \in [Connection -> Consumer \cup {None}],
         healthy' \in BOOLEAN, healthy' => healthy,
         \A s \in Slot \ S : owner[s] # None => owner[s] \in Connected'
  PROVE  ExposureInv'
<1>1. /\ ~destroyed'
      /\ registered' = [s \in Slot |-> registered[s] /\ s \notin S]
      /\ exposed' = exposed \ S
      /\ owner' = [s \in Slot |-> IF s \in S THEN None ELSE owner[s]]
      /\ UNCHANGED quarantined
  BY Zenon DEF ReleaseChunks
<1>2. /\ pool' \in [Slot -> Pool \cup {None}]
      /\ \A s \in Slot \ S : pool'[s] = pool[s]
  BY Zenon DEF ReleaseChunks, Freed, ExposureInv, SlotType
<1>3. S \in SUBSET Slot /\ \A s \in S : owner[s] = c
  BY Zenon DEF Owned
<1>4. allocated' \in [Pool -> Int] /\ available' \in Int
  <2>1. ASSUME NEW p \in Pool
        PROVE  Cardinality({s \in Freed(S, cause) : pool[s] = p}) \in Nat
    <3>1. {s \in Freed(S, cause) : pool[s] = p} \in SUBSET Slot
      BY Zenon, <1>3 DEF Freed
    <3> QED
      BY Zenon, <3>1, SlotsCounted
  <2>2. /\ available' = available + Cardinality(Freed(S, cause))
        /\ allocated' = [p \in Pool |-> allocated[p] -
             Cardinality({s \in Freed(S, cause) : pool[s] = p})]
    BY Zenon DEF ReleaseChunks
  <2>3. Freed(S, cause) \in SUBSET Slot
    BY Zenon, <1>3 DEF Freed
  <2>4. Cardinality(Freed(S, cause)) \in Nat
    BY Zenon, <2>3, SlotsCounted
  <2>5. allocated \in [Pool -> Int] /\ available \in Int
    BY Zenon DEF ExposureInv, SlotType
  <2> QED
    BY <2>1, <2>2, <2>4, <2>5
<1>5. SlotType'
  BY Zenon, <1>1, <1>2, <1>3, <1>4 DEF ExposureInv, SlotType
<1>6. Exposure'
  <2> SUFFICES ASSUME NEW s \in Slot
               PROVE  /\ owner'[s] # None => /\ owner'[s] \in Connected'
                                             /\ pool'[s] # None /\ ~quarantined'[s]
                      /\ quarantined'[s] => pool'[s] # None /\ ~healthy'
                      /\ s \in exposed' <=> owner'[s] # None \/ quarantined'[s]
                      /\ registered'[s] <=> s \in exposed'
    BY Zenon DEF Exposure
  <2>1. CASE s \in S
    BY ZenonT(120), <1>1, <1>2, <1>3, <2>1, MemoryManagerAssumption
    DEF ExposureInv, SlotType, Exposure
  <2>2. CASE s \notin S
    BY Zenon, <1>1, <1>2, <2>2 DEF ExposureInv, SlotType, Exposure
  <2> QED
    BY Zenon, <2>1, <2>2
<1> QED
  BY Zenon, <1>1, <1>5, <1>6, ExposureHolds

\* What an allocation starts from: the chunks it selects are nobody's and the
\* RDMA device cannot reach them.
LEMMA SelectedFree ==
  ASSUME ExposureInv, ~destroyed, NEW p \in Pool, NEW S \in SUBSET Unassigned(p),
         NEW E \in SUBSET Empty,
         NEW V \in SUBSET (IF p = COMMITTED THEN Unassigned(OPPORTUNISTIC) ELSE {})
  PROVE  /\ S \cup V \cup E \in SUBSET Slot
         /\ \A s \in S \cup V \cup E : owner[s] = None /\ ~quarantined[s]
         /\ \A s \in S \cup V : pool[s] # None
<1>1. \A s \in Empty : owner[s] = None /\ ~quarantined[s] /\ s \in Slot
  BY Zenon DEF Empty, ExposureInv, Exposure, SlotType
<1>2. \A q \in Pool : \A s \in Unassigned(q) :
        s \in Slot /\ owner[s] = None /\ ~quarantined[s] /\ pool[s] # None
  BY Zenon DEF Unassigned, Pool, OPPORTUNISTIC, COMMITTED, None
<1>3. \A s \in V : s \in Unassigned(OPPORTUNISTIC)
  BY Zenon
<1> QED
  BY Zenon, <1>1, <1>2, <1>3 DEF Pool

\* A connection that acquires chunks owns them from then on.
LEMMA AcquireKeeps ==
  ASSUME ExposureInv, NEW c \in Connected, NEW p \in Pool, NEW n \in Nat,
         NEW S \in SUBSET Unassigned(p), NEW E \in SUBSET Empty,
         NEW V \in SUBSET (IF p = COMMITTED THEN Unassigned(OPPORTUNISTIC) ELSE {}),
         Acquire(c, p, n, S, V, E)
  PROVE  ExposureInv'
<1> DEFINE All == S \cup V \cup E
<1>1. /\ ~destroyed /\ UNCHANGED <<quarantined, consumer, healthy, destroyed>>
      /\ pool' = [s \in Slot |-> IF s \in All THEN p ELSE pool[s]]
      /\ owner' = [s \in Slot |-> IF s \in All THEN c ELSE owner[s]]
      /\ registered' = [s \in Slot |-> registered[s] \/ s \in All]
      /\ exposed' = exposed \cup All
  BY Zenon DEF Acquire, connectionVars
<1>2. All \in SUBSET Slot /\ \A s \in All : owner[s] = None /\ ~quarantined[s]
  BY ZenonT(120), <1>1, SelectedFree
<1>3. allocated' \in [Pool -> Int] /\ available' \in Int
  <2>1. V \cup E \in SUBSET Slot /\ V \in SUBSET Slot /\ E \in SUBSET Slot
    BY Zenon, <1>2
  <2>2. /\ Cardinality(V \cup E) \in Nat /\ Cardinality(V) \in Nat
        /\ Cardinality(E) \in Nat
    BY Zenon, <2>1, SlotsCounted
  <2> QED
    BY <2>2 DEF Acquire, Allocated, ExposureInv, SlotType
<1>4. c \in Connection /\ c # None /\ p # None
  BY Zenon, MemoryManagerAssumption
  DEF Connected, Pool, OPPORTUNISTIC, COMMITTED, None
<1> HIDE DEF All
<1>5. SlotType'
  BY Zenon, <1>1, <1>2, <1>3, <1>4 DEF ExposureInv, SlotType
<1>6. Exposure'
  BY Zenon, <1>1, <1>2, <1>4 DEF ExposureInv, SlotType, Exposure, Connected
<1> QED
  BY Zenon, <1>1, <1>5, <1>6, ExposureHolds

\* Chunks that a failed acquisition cannot deregister are quarantined.
LEMMA AcquireFailsKeeps ==
  ASSUME ExposureInv, NEW c \in Connected, NEW p \in Pool, NEW n \in Nat,
         NEW S \in SUBSET Unassigned(p), NEW E \in SUBSET Empty,
         NEW V \in SUBSET (IF p = COMMITTED THEN Unassigned(OPPORTUNISTIC) ELSE {}),
         NEW Q \in SUBSET (S \cup V \cup E), AcquireFails(c, p, n, S, V, E, Q)
  PROVE  ExposureInv'
<1>1. /\ ~destroyed /\ UNCHANGED <<owner, consumer, destroyed>> /\ ~healthy'
      /\ pool' = [s \in Slot |-> IF s \in E \cap Q THEN p ELSE pool[s]]
      /\ registered' = [s \in Slot |-> registered[s] \/ s \in Q]
      /\ quarantined' = [s \in Slot |-> quarantined[s] \/ s \in Q]
      /\ exposed' = exposed \cup Q
      /\ healthy' = FALSE
  BY Zenon DEF AcquireFails, RollbackPool, connectionVars
<1>2. /\ Q \in SUBSET Slot /\ \A s \in Q : owner[s] = None /\ ~quarantined[s]
      /\ \A s \in Q \ E : pool[s] # None
  <2>1. /\ S \cup V \cup E \in SUBSET Slot
        /\ \A s \in S \cup V \cup E : owner[s] = None /\ ~quarantined[s]
        /\ \A s \in S \cup V : pool[s] # None
    <3>1. ~destroyed
      BY Zenon, <1>1
    <3>2. S \cup V \cup E \in SUBSET Slot
      BY Zenon, <3>1, SelectedFree
    <3>3. ASSUME NEW s \in S \cup V \cup E PROVE owner[s] = None /\ ~quarantined[s]
      BY ZenonT(120), <3>1, SelectedFree
    <3>4. \A s \in S \cup V : pool[s] # None
      BY ZenonT(120), <3>1, SelectedFree
    <3> QED
      BY Zenon, <3>2, <3>3, <3>4
  <2> QED
    BY Zenon, <2>1
<1>3. allocated' \in [Pool -> Int] /\ available' \in Int
  <2>1. E \cap Q \in SUBSET Slot
    BY Zenon, <1>2
  <2>2. Cardinality(E \cap Q) \in Nat
    BY Zenon, <2>1, SlotsCounted
  <2> QED
    BY <2>2 DEF AcquireFails, ExposureInv, SlotType
<1>4. p # None
  BY Zenon DEF Pool, OPPORTUNISTIC, COMMITTED, None
<1>5. SlotType'
  BY Zenon, <1>1, <1>2, <1>3, <1>4 DEF ExposureInv, SlotType
<1>6. Exposure'
  BY Zenon, <1>1, <1>2, <1>4 DEF ExposureInv, SlotType, Exposure, Connected
<1> QED
  BY Zenon, <1>1, <1>5, <1>6, ExposureHolds

\* Reconciliation takes empty slots and gives back chunks nobody can reach.
LEMMA ReconcileKeeps ==
  ASSUME ExposureInv, Reconcile
  PROVE  ExposureInv'
<1>1. CASE \E E \in SUBSET Empty : ReconcileGrow(E)
  <2> PICK E \in SUBSET Empty : ReconcileGrow(E)
    BY Zenon, <1>1
  <2>1. /\ ~destroyed
        /\ UNCHANGED <<owner, registered, quarantined, exposed, consumer, healthy,
                       destroyed>>
        /\ pool' = [s \in Slot |-> IF s \in E THEN OPPORTUNISTIC ELSE pool[s]]
    BY Zenon DEF ReconcileGrow, connectionVars
  <2>2. allocated' \in [Pool -> Int] /\ available' \in Int
    <3>1. E \in SUBSET Slot
      BY Zenon DEF Empty
    <3>2. Cardinality(E) \in Nat
      BY Zenon, <3>1, SlotsCounted
    <3>3. Target \in Int
      BY MemoryManagerAssumption DEF Target, Effective, Lesser, Pool, ExposureInv,
                                     SlotType
    <3>4. /\ allocated' = [allocated EXCEPT ![OPPORTUNISTIC] = Target]
          /\ available' = available - Cardinality(E)
      BY Zenon DEF ReconcileGrow
    <3>5. allocated \in [Pool -> Int] /\ available \in Int
      BY Zenon DEF ExposureInv, SlotType
    <3>6. available' \in Int
      BY <3>2, <3>4, <3>5
    <3>7. allocated' \in [Pool -> Int]
      BY Zenon, <3>3, <3>4, <3>5
    <3> QED
      BY Zenon, <3>6, <3>7
  <2>3. SlotType'
    BY Zenon, <2>1, <2>2 DEF ExposureInv, SlotType, Pool
  <2>4. Exposure'
    BY Zenon, <2>1
    DEF ExposureInv, SlotType, Exposure, Connected, OPPORTUNISTIC, None
  <2> QED
    BY Zenon, <2>1, <2>3, <2>4, ExposureHolds
<1>2. CASE \E R \in SUBSET Reclaimable : ReconcileReclaim(R)
  <2> PICK R \in SUBSET Reclaimable : ReconcileReclaim(R)
    BY <1>2
  <2>1. /\ ~destroyed /\ UNCHANGED <<owner, exposed, consumer, healthy, destroyed>>
        /\ pool' = [s \in Slot |-> IF s \in R THEN None ELSE pool[s]]
        /\ registered' = [s \in Slot |-> registered[s] /\ s \notin R]
        /\ quarantined' = [s \in Slot |-> quarantined[s] /\ s \notin R]
    BY Zenon DEF ReconcileReclaim, connectionVars
  <2>2. R \in SUBSET Slot /\ \A s \in R : owner[s] = None /\ ~quarantined[s]
    BY Zenon DEF Reclaimable
  <2>3. allocated' \in [Pool -> Int] /\ available' \in Int
    <3>1. Cardinality(R) \in Nat
      BY Zenon, <2>2, SlotsCounted
    <3>2. /\ allocated' = [allocated EXCEPT ![OPPORTUNISTIC] = @ - Cardinality(R)]
          /\ available' = available + Cardinality(R)
      BY Zenon DEF ReconcileReclaim
    <3> QED
      BY <3>1, <3>2 DEF ExposureInv, SlotType, Pool
  <2>4. SlotType'
    BY Zenon, <2>1, <2>3 DEF ExposureInv, SlotType
  <2>5. Exposure'
    BY Zenon, <2>1, <2>2 DEF ExposureInv, SlotType, Exposure, Connected
  <2> QED
    BY Zenon, <2>1, <2>4, <2>5, ExposureHolds
<1> QED
  BY Zenon, <1>1, <1>2 DEF Reconcile

\* Shutdown leaves exposed only what it could not deregister, and keeps that
\* memory.
LEMMA DestroyKeeps ==
  ASSUME ExposureInv, NEW F \in SUBSET {s \in Slot : registered[s]}, Destroy(F)
  PROVE  ExposureInv'
<1>1. /\ ~destroyed /\ destroyed' /\ Connected = {}
      /\ UNCHANGED <<consumer, quarantined, allocated>>
      /\ registered' = [s \in Slot |-> s \in F]
      /\ exposed' = exposed \cap F
      /\ owner' = [s \in Slot |-> IF s \in F THEN owner[s] ELSE None]
      /\ healthy' = (healthy /\ F = {})
      /\ pool' = IF F = {} THEN [s \in Slot |-> None] ELSE pool
  BY Zenon DEF Destroy, connectionVars, countVars
<1>2. SlotType'
  <2>1. Slot \ Empty \in SUBSET Slot
    BY Zenon
  <2>2. Cardinality(Slot \ Empty) \in Nat
    BY Zenon, <2>1, SlotsCounted
  <2>3. available' \in Int
    BY <2>2 DEF Destroy, ExposureInv, SlotType
  <2> QED
    BY <1>1, <2>3 DEF ExposureInv, SlotType
<1>3. ASSUME NEW s \in exposed'
      PROVE  /\ pool'[s] # None /\ registered'[s]
             /\ owner'[s] = None /\ quarantined'[s] /\ ~healthy'
  <2>1. s \in Slot /\ s \in exposed /\ s \in F
    BY Zenon, <1>1 DEF ExposureInv, SlotType
  <2>2. owner[s] = None /\ quarantined[s] /\ pool[s] # None
    BY Zenon, <1>1, <2>1 DEF ExposureInv, Exposure
  <2>3. pool'[s] = pool[s] /\ owner'[s] = None /\ registered'[s] /\ ~healthy'
    BY Zenon, <1>1, <2>1, <2>2
  <2> QED
    BY Zenon, <1>1, <2>2, <2>3
<1> QED
  BY Zenon, <1>1, <1>2, <1>3 DEF ExposureInv, Exposure, ExposedHeld

\* Every step of the manager keeps the exposure invariant.
LEMMA ExposureStep == ExposureInv /\ [Next]_vars => ExposureInv'
<1> SUFFICES ASSUME ExposureInv, [Next]_vars PROVE ExposureInv'
  BY Zenon
<1>1. ASSUME NEW c \in Connection, NEW k \in Consumer, NEW l \in Policy,
             Connect(c, k, l)
      PROVE  ExposureInv'
  <2>1. /\ ~destroyed /\ c \notin Connected
        /\ consumer' = [consumer EXCEPT ![c] = k]
        /\ UNCHANGED <<pool, owner, registered, quarantined, allocated, exposed,
                       healthy, destroyed, available>>
    BY Zenon, <1>1 DEF Connect, chunkVars, countVars
  <2>2. SlotType' /\ Connected \in SUBSET Connected'
    BY Zenon, <2>1, MemoryManagerAssumption DEF ExposureInv, SlotType, Connected
  <2>3. Exposure'
    BY Zenon, <2>1, <2>2 DEF ExposureInv, Exposure
  <2> QED
    BY Zenon, <2>1, <2>2, <2>3, ExposureHolds
<1>2. CASE Disconnecting
  <2> PICK c \in Connection :
        Disconnect(c) \/ \E S \in SUBSET Owned(c) : DisconnectFails(c, S)
    BY Zenon, <1>2 DEF Disconnecting
  <2>1. CASE Disconnect(c)
    <3>1. /\ ~destroyed /\ ReleaseChunks(c, Owned(c), "DISCONNECT")
          /\ consumer' = [consumer EXCEPT ![c] = None] /\ healthy' = healthy
      BY Zenon, <2>1 DEF Disconnect
    <3>2. \A s \in Slot \ Owned(c) : owner[s] # None => owner[s] \in Connected'
      BY Zenon, <3>1 DEF Owned, Connected, ExposureInv, Exposure, SlotType
    <3>3. consumer' \in [Connection -> Consumer \cup {None}]
      BY Zenon, <3>1 DEF ExposureInv, SlotType
    <3>4. healthy' \in BOOLEAN /\ (healthy' => healthy)
      BY Zenon, <3>1 DEF ExposureInv, SlotType
    <3> QED
      BY Zenon, <3>1, <3>2, <3>3, <3>4, ReleaseKeeps
  <2>2. CASE \E S \in SUBSET Owned(c) : DisconnectFails(c, S)
    <3> PICK S \in SUBSET Owned(c) : DisconnectFails(c, S)
      BY Zenon, <2>2
    <3>1. /\ ~destroyed /\ ReleaseChunks(c, S, "DISCONNECT")
          /\ UNCHANGED consumer /\ healthy' = FALSE
      BY Zenon DEF DisconnectFails, connectionVars
    <3>2. \A s \in Slot \ S : owner[s] # None => owner[s] \in Connected'
      BY Zenon, <3>1 DEF Connected, ExposureInv, Exposure, SlotType
    <3>3. consumer' \in [Connection -> Consumer \cup {None}]
      BY Zenon, <3>1 DEF ExposureInv, SlotType
    <3> QED
      BY Zenon, <3>1, <3>2, <3>3, ReleaseKeeps
  <2> QED
    BY Zenon, <2>1, <2>2
<1>3. CASE Returning
  <2> PICK c \in Connection, cause \in {"CONSUMER", "PRESSURE"} :
        \E S \in SUBSET Owned(c) :
          Release(c, S, cause) \/ \E D \in SUBSET S : ReleaseFails(c, S, D, cause)
    BY Zenon, <1>3 DEF Returning
  <2> PICK D \in SUBSET Owned(c) :
        Release(c, D, cause) \/ \E S \in SUBSET Owned(c) : ReleaseFails(c, S, D, cause)
    BY Zenon
  <2>1. /\ ~destroyed /\ ReleaseChunks(c, D, cause) /\ UNCHANGED consumer
        /\ healthy' = healthy \/ healthy' = FALSE
    BY Zenon DEF Release, ReleaseFails, connectionVars
  <2>4. healthy' \in BOOLEAN /\ (healthy' => healthy)
    <3>1. healthy \in BOOLEAN
      BY Zenon DEF ExposureInv, SlotType
    <3>2. CASE healthy' = healthy
      BY Zenon, <3>1, <3>2
    <3>3. CASE healthy' = FALSE
      BY Zenon, <3>3
    <3> QED
      BY Zenon, <2>1, <3>2, <3>3
  <2>2. \A s \in Slot \ D : owner[s] # None => owner[s] \in Connected'
    BY Zenon, <2>1 DEF Connected, ExposureInv, Exposure, SlotType
  <2>3. consumer' \in [Connection -> Consumer \cup {None}]
    BY Zenon, <2>1 DEF ExposureInv, SlotType
  <2> QED
    BY Zenon, <2>1, <2>2, <2>3, <2>4, ReleaseKeeps
<1>4. CASE Admission
  <2>1. 1 .. Cardinality(Slot) \subseteq Nat
    BY SlotsCounted
  <2> QED
    BY <1>4, <2>1, AcquireKeeps, AcquireFailsKeeps DEF Admission
<1>5. CASE Reconcile
  BY Zenon, <1>5, ReconcileKeeps
<1>6. CASE \E F \in SUBSET {s \in Slot : registered[s]} : Destroy(F)
  BY Zenon, <1>6, DestroyKeeps
<1>7. CASE (\E n \in 0 .. HostChunks : HostMemory(n)) \/ UNCHANGED vars
  <2>1. UNCHANGED <<pool, owner, registered, quarantined, consumer, allocated,
                    exposed, healthy, destroyed>>
    BY Zenon, <1>7 DEF HostMemory, vars, chunkVars, connectionVars, countVars
  <2>2. available' \in Int
    BY <1>7, MemoryManagerAssumption DEF HostMemory, vars, ExposureInv, SlotType
  <2> QED
    BY Zenon, <2>1, <2>2, ExposureFrame
<1> QED
  BY Zenon, <1>1, <1>2, <1>3, <1>4, <1>5, <1>6, <1>7 DEF Next
-----------------------------------------------------------------------------
(* Pool limits.                                                            *)

\* Memory that a pool gains or loses is counted.
LEMMA CountChange ==
  ASSUME NEW A \in SUBSET Slot, NEW B \in SUBSET Slot
  PROVE  /\ Cardinality(A) \in Nat /\ Cardinality(B) \in Nat
         /\ A \cap B = {} => Cardinality(A \cup B) = Cardinality(A) + Cardinality(B)
         /\ B \subseteq A => Cardinality(A \ B) = Cardinality(A) - Cardinality(B)
         /\ B \subseteq A => Cardinality(B) <= Cardinality(A)
<1>1. IsFiniteSet(A) /\ IsFiniteSet(B)
  BY Zenon, SlotsCounted
<1>2. Cardinality(A) \in Nat /\ Cardinality(B) \in Nat
  BY Zenon, SlotsCounted
<1>3. A \cap B = {} => Cardinality(A \cup B) = Cardinality(A) + Cardinality(B)
  <2> SUFFICES ASSUME A \cap B = {}
               PROVE  Cardinality(A \cup B) = Cardinality(A) + Cardinality(B)
    BY Zenon
  <2>1. Cardinality(A \cap B) = 0
    BY Zenon, FS_EmptySet
  <2>2. Cardinality(A \cup B) =
          Cardinality(A) + Cardinality(B) - Cardinality(A \cap B)
    BY Zenon, <1>1, FS_Union
  <2> QED
    BY <1>2, <2>1, <2>2
<1>4. ASSUME B \subseteq A PROVE Cardinality(A \ B) = Cardinality(A) - Cardinality(B)
  <2>1. A \cap B = B
    BY Zenon, <1>4
  <2> QED
    BY ZenonT(120), <1>1, <2>1, FS_Difference
<1>5. ASSUME B \subseteq A PROVE Cardinality(B) <= Cardinality(A)
  BY Zenon, <1>1, <1>5, FS_Subset
<1> QED
  BY Zenon, <1>2, <1>3, <1>4, <1>5

\* Every pool starts empty.
LEMMA PoolInit == Init => PoolCounted
<1> SUFFICES ASSUME Init PROVE PoolCounted
  BY Zenon
<1>1. \A p \in Pool : Backing(p) = {} /\ allocated[p] = 0
  BY Zenon DEF Init, Backing, Pool, OPPORTUNISTIC, COMMITTED, None
<1>2. Cardinality({}) = 0
  BY Zenon, FS_EmptySet
<1>3. \A p \in Pool : 0 <= MaxPool[p]
  BY MemoryManagerAssumption
<1> QED
  BY Zenon, <1>1, <1>2, <1>3 DEF PoolCounted

\* A pool that changed by the set G of chunks it gained or lost, and whose
\* counter changed as much, is counted.
LEMMA Gained ==
  ASSUME PoolCounted, ~destroyed, NEW p \in Pool, NEW G \in SUBSET Slot,
         G \cap Backing(p) = {}, Backing(p)' = Backing(p) \cup G,
         allocated'[p] = allocated[p] + Cardinality(G),
         Cardinality(G) <= MaxPool[p] - allocated[p]
  PROVE  /\ allocated'[p] = Cardinality(Backing(p)')
         /\ Cardinality(Backing(p)') <= MaxPool[p]
<1>1. Backing(p) \in SUBSET Slot
  BY Zenon DEF Backing
<1>2. Cardinality(Backing(p) \cup G) = Cardinality(Backing(p)) + Cardinality(G)
  BY Zenon, <1>1, CountChange
<1>3. Cardinality(Backing(p)) \in Nat /\ Cardinality(G) \in Nat
      /\ MaxPool[p] \in Nat
  BY Zenon, <1>1, CountChange, MemoryManagerAssumption
<1>4. allocated[p] = Cardinality(Backing(p))
  BY Zenon DEF PoolCounted
<1> QED
  BY <1>2, <1>3, <1>4

\* The same for a loss.
LEMMA GivenBack ==
  ASSUME PoolCounted, ~destroyed, NEW p \in Pool, NEW G \in SUBSET Slot,
         G \subseteq Backing(p), Backing(p)' = Backing(p) \ G,
         allocated'[p] = allocated[p] - Cardinality(G)
  PROVE  /\ allocated'[p] = Cardinality(Backing(p)')
         /\ Cardinality(Backing(p)') <= MaxPool[p]
<1>1. Backing(p) \in SUBSET Slot
  BY Zenon DEF Backing
<1>2. Cardinality(Backing(p) \ G) = Cardinality(Backing(p)) - Cardinality(G)
  BY Zenon, <1>1, CountChange
<1>3. Cardinality(Backing(p)) \in Nat /\ Cardinality(G) \in Nat
      /\ MaxPool[p] \in Nat
  BY Zenon, <1>1, CountChange, MemoryManagerAssumption
<1>4. /\ allocated[p] = Cardinality(Backing(p))
      /\ Cardinality(Backing(p)) <= MaxPool[p]
  BY Zenon DEF PoolCounted
<1> QED
  BY SMTT(60), Z3T(60), ZenonT(120), <1>2, <1>3, <1>4

\* Memory given back to the host leaves its pool.
LEMMA ReleaseCounted ==
  ASSUME ExposureInv, PoolCounted, ~destroyed, NEW c \in Connection, NEW cause,
         NEW S \in SUBSET Owned(c), ReleaseChunks(c, S, cause)
  PROVE  PoolCounted'
<1> SUFFICES ASSUME NEW p \in Pool
             PROVE  /\ allocated'[p] = Cardinality(Backing(p)')
                    /\ Cardinality(Backing(p)') <= MaxPool[p]
  BY Zenon DEF PoolCounted
<1> DEFINE G == {s \in Freed(S, cause) : pool[s] = p}
<1>1. G \in SUBSET Slot /\ G \subseteq Backing(p)
  BY Zenon DEF Freed, Owned, Backing
<1>2. allocated'[p] = allocated[p] - Cardinality(G)
  BY Zenon DEF ReleaseChunks
<1>3. Backing(p)' = Backing(p) \ G
  BY Zenon
  DEF ReleaseChunks, Backing, Freed, Pool, OPPORTUNISTIC, COMMITTED, None,
         ExposureInv, SlotType
<1> HIDE DEF G
<1> QED
  BY Zenon, <1>1, <1>2, <1>3, GivenBack

\* The sources of an acquisition, and that together with what the pool has
\* already they fit its limit.
LEMMA AcquireFits ==
  ASSUME ExposureInv, PoolCounted, ~destroyed, NEW c, NEW p \in Pool, NEW n \in Nat,
         NEW S \in SUBSET Unassigned(p), NEW E \in SUBSET Empty,
         NEW V \in SUBSET (IF p = COMMITTED THEN Unassigned(OPPORTUNISTIC) ELSE {}),
         Admissible(c, p, n), Selected(p, n, S, V, E)
  PROVE  /\ S \subseteq Backing(p) /\ E \in SUBSET Slot /\ V \in SUBSET Slot
         /\ \A s \in E : pool[s] = None
         /\ \A s \in V : pool[s] = OPPORTUNISTIC /\ p = COMMITTED
         /\ Cardinality(V \cup E) <= MaxPool[p] - allocated[p]
         /\ Cardinality(E) <= MaxPool[p] - allocated[p]
<1>1. /\ S \subseteq Backing(p) /\ E \in SUBSET Slot /\ V \in SUBSET Slot
      /\ \A s \in E : pool[s] = None
      /\ \A s \in V : pool[s] = OPPORTUNISTIC /\ p = COMMITTED
  BY Zenon DEF Unassigned, Empty, Backing
<1>2. V \cap E = {}
  BY Zenon, <1>1 DEF OPPORTUNISTIC, None
<1>3. /\ Cardinality(V \cup E) = Cardinality(V) + Cardinality(E)
      /\ Cardinality(V) \in Nat /\ Cardinality(E) \in Nat
  BY Zenon, <1>1, <1>2, CountChange
<1>4. Cardinality(Unassigned(p)) \in Nat
  BY Zenon, SlotsCounted DEF Unassigned
<1>5. SameCount(p, n) \in Int
  BY SMTT(60), Z3T(60), ZenonT(120), <1>4 DEF SameCount, Lesser
<1>6. Cardinality(V) + Cardinality(E) = n - SameCount(p, n)
  BY <1>3, <1>5 DEF Selected, NewCount
<1>7. n - SameCount(p, n) <= MaxPool[p] - allocated[p]
  BY Zenon DEF Admissible, WithinPool
<1>8. MaxPool[p] - allocated[p] \in Int
  BY MemoryManagerAssumption DEF ExposureInv, SlotType
<1> QED
  BY SMTT(60), Z3T(60), ZenonT(120), <1>1, <1>3, <1>5, <1>6, <1>7, <1>8

\* Converted and fresh chunks move the counters of the two pools.
LEMMA AcquireCounted ==
  ASSUME ExposureInv, PoolCounted, NEW c, NEW p \in Pool, NEW n \in Nat,
         NEW S \in SUBSET Unassigned(p), NEW E \in SUBSET Empty,
         NEW V \in SUBSET (IF p = COMMITTED THEN Unassigned(OPPORTUNISTIC) ELSE {}),
         Acquire(c, p, n, S, V, E)
  PROVE  PoolCounted'
<1>1. ~destroyed /\ Admissible(c, p, n) /\ Selected(p, n, S, V, E)
  BY Zenon DEF Acquire
<1>2. /\ S \subseteq Backing(p) /\ E \in SUBSET Slot /\ V \in SUBSET Slot
      /\ \A s \in E : pool[s] = None
      /\ \A s \in V : pool[s] = OPPORTUNISTIC /\ p = COMMITTED
      /\ Cardinality(V \cup E) <= MaxPool[p] - allocated[p]
  BY ZenonT(120), <1>1, AcquireFits
<1>3. /\ pool' = [s \in Slot |-> IF s \in S \cup V \cup E THEN p ELSE pool[s]]
      /\ allocated' = [q \in Pool |-> allocated[q] +
           (IF q = p THEN Cardinality(V \cup E) ELSE - Cardinality(V))]
  BY Zenon DEF Acquire, Allocated
<1>4. /\ allocated'[p] = Cardinality(Backing(p)')
      /\ Cardinality(Backing(p)') <= MaxPool[p]
  <2>1. V \cup E \in SUBSET Slot /\ (V \cup E) \cap Backing(p) = {}
    BY Zenon, <1>2 DEF Backing, Pool, OPPORTUNISTIC, COMMITTED, None
  <2>2. Backing(p)' = Backing(p) \cup (V \cup E)
    BY Zenon, <1>2, <1>3 DEF Backing
  <2>3. allocated'[p] = allocated[p] + Cardinality(V \cup E)
    BY Zenon, <1>3
  <2> QED
    BY Zenon, <1>1, <1>2, <2>1, <2>2, <2>3, Gained
<1>5. ASSUME NEW q \in Pool, q # p
      PROVE  /\ allocated'[q] = Cardinality(Backing(q)')
             /\ Cardinality(Backing(q)') <= MaxPool[q]
  <2>1. V \subseteq Backing(q)
    BY Zenon, <1>2, <1>5 DEF Backing, Pool
  <2>2. Backing(q)' = Backing(q) \ V
    BY Zenon, <1>2, <1>3, <1>5 DEF Backing, Pool, OPPORTUNISTIC, COMMITTED, None
  <2>3. allocated'[q] = allocated[q] - Cardinality(V)
    <3>1. Cardinality(V) \in Nat /\ allocated[q] \in Int
      BY Zenon, <1>2, CountChange DEF ExposureInv, SlotType
    <3> QED
      BY Zenon, <1>3, <1>5, <3>1
  <2> QED
    BY Zenon, <1>1, <1>2, <2>1, <2>2, <2>3, GivenBack
<1> QED
  BY Zenon, <1>4, <1>5 DEF PoolCounted

\* Quarantined fresh memory counts against the pool it was meant for.
LEMMA AcquireFailsCounted ==
  ASSUME ExposureInv, PoolCounted, NEW c, NEW p \in Pool, NEW n \in Nat,
         NEW S \in SUBSET Unassigned(p), NEW E \in SUBSET Empty,
         NEW V \in SUBSET (IF p = COMMITTED THEN Unassigned(OPPORTUNISTIC) ELSE {}),
         NEW Q \in SUBSET (S \cup V \cup E), AcquireFails(c, p, n, S, V, E, Q)
  PROVE  PoolCounted'
<1>1. ~destroyed /\ Admissible(c, p, n) /\ Selected(p, n, S, V, E)
  BY Zenon DEF AcquireFails
<1>2. /\ E \in SUBSET Slot /\ \A s \in E : pool[s] = None
      /\ Cardinality(E) <= MaxPool[p] - allocated[p]
  BY ZenonT(120), <1>1, AcquireFits
<1> DEFINE G == E \cap Q
<1>3. /\ pool' = [s \in Slot |-> IF s \in G THEN p ELSE pool[s]]
      /\ allocated' = [allocated EXCEPT ![p] = @ + Cardinality(G)]
  BY Zenon DEF AcquireFails, RollbackPool
<1>4. /\ G \in SUBSET Slot /\ \A s \in G : pool[s] = None
      /\ Cardinality(G) <= MaxPool[p] - allocated[p]
  <2>1. G \in SUBSET Slot /\ G \subseteq E
    BY Zenon, <1>2
  <2>2. Cardinality(G) <= Cardinality(E) /\ Cardinality(G) \in Nat
        /\ Cardinality(E) \in Nat
    BY Zenon, <1>2, <2>1, CountChange
  <2>3. MaxPool[p] - allocated[p] \in Int
    BY MemoryManagerAssumption DEF ExposureInv, SlotType
  <2> HIDE DEF G
  <2> QED
    BY <1>2, <2>1, <2>2, <2>3
<1> HIDE DEF G
<1>5. /\ allocated'[p] = Cardinality(Backing(p)')
      /\ Cardinality(Backing(p)') <= MaxPool[p]
  <2>1. G \cap Backing(p) = {} /\ Backing(p)' = Backing(p) \cup G
    BY Zenon, <1>3, <1>4 DEF Backing, Pool, OPPORTUNISTIC, COMMITTED, None
  <2>2. allocated'[p] = allocated[p] + Cardinality(G)
    BY Zenon, <1>3 DEF ExposureInv, SlotType
  <2> QED
    BY ZenonT(120), <1>1, <1>4, <2>1, <2>2, Gained
<1>6. ASSUME NEW q \in Pool, q # p
      PROVE  allocated'[q] = allocated[q] /\ Backing(q)' = Backing(q)
  BY Zenon, <1>3, <1>4, <1>6
  DEF Backing, Pool, OPPORTUNISTIC, COMMITTED, None, ExposureInv, SlotType
<1> QED
  BY Zenon, <1>1, <1>5, <1>6 DEF PoolCounted

\* Reconciliation grows the Opportunistic pool to a target within its limit and
\* shrinks it by what it frees.
LEMMA ReconcileCounted ==
  ASSUME ExposureInv, PoolCounted, Reconcile
  PROVE  PoolCounted'
<1>1. CASE \E E \in SUBSET Empty : ReconcileGrow(E)
  <2> PICK E \in SUBSET Empty : ReconcileGrow(E)
    BY Zenon, <1>1
  <2>1. /\ ~destroyed
        /\ Cardinality(E) = Target - allocated[OPPORTUNISTIC]
        /\ pool' = [s \in Slot |-> IF s \in E THEN OPPORTUNISTIC ELSE pool[s]]
        /\ allocated' = [allocated EXCEPT ![OPPORTUNISTIC] = Target]
        /\ E \in SUBSET Slot /\ \A s \in E : pool[s] = None
        /\ Target > allocated[OPPORTUNISTIC]
    BY Zenon DEF ReconcileGrow, Empty
  <2>2. OPPORTUNISTIC \in Pool
    BY Zenon DEF Pool
  <2>3. /\ Cardinality(E) \in Nat /\ allocated[OPPORTUNISTIC] \in Nat
        /\ MaxPool[OPPORTUNISTIC] \in Nat
    <3>1. Backing(OPPORTUNISTIC) \in SUBSET Slot
      BY ZenonT(120) DEF Backing
    <3> QED
      BY Zenon, <2>1, <2>2, <3>1, SlotsCounted, MemoryManagerAssumption
      DEF PoolCounted
  <2>4. Target <= MaxPool[OPPORTUNISTIC] /\ Target \in Int
    BY SMTT(60), Z3T(60), ZenonT(120), <2>2, <2>3, MemoryManagerAssumption
    DEF Target, Effective, Lesser, ExposureInv, SlotType
  <2>5. /\ allocated'[OPPORTUNISTIC] = Cardinality(Backing(OPPORTUNISTIC)')
        /\ Cardinality(Backing(OPPORTUNISTIC)') <= MaxPool[OPPORTUNISTIC]
    <3>1. /\ E \cap Backing(OPPORTUNISTIC) = {}
          /\ Backing(OPPORTUNISTIC)' = Backing(OPPORTUNISTIC) \cup E
      BY Zenon, <2>1 DEF Backing, OPPORTUNISTIC, None
    <3>2. allocated'[OPPORTUNISTIC] = allocated[OPPORTUNISTIC] + Cardinality(E)
      BY SMTT(60), Z3T(60), ZenonT(120), <2>1, <2>2, <2>3, <2>4 DEF ExposureInv, SlotType
    <3>3. Cardinality(E) <= MaxPool[OPPORTUNISTIC] - allocated[OPPORTUNISTIC]
      BY SMTT(60), Z3T(60), ZenonT(120), <2>1, <2>3, <2>4
    <3> QED
      BY ZenonT(120), <2>1, <2>2, <3>1, <3>2, <3>3, Gained
  <2>6. ASSUME NEW q \in Pool, q # OPPORTUNISTIC
        PROVE  allocated'[q] = allocated[q] /\ Backing(q)' = Backing(q)
    BY Zenon, <2>1, <2>6
    DEF Backing, Pool, OPPORTUNISTIC, COMMITTED, None, ExposureInv, SlotType
  <2> QED
    BY ZenonT(120), <2>1, <2>5, <2>6 DEF PoolCounted
<1>2. CASE \E R \in SUBSET Reclaimable : ReconcileReclaim(R)
  <2> PICK R \in SUBSET Reclaimable : ReconcileReclaim(R)
    BY <1>2
  <2>1. /\ ~destroyed
        /\ pool' = [s \in Slot |-> IF s \in R THEN None ELSE pool[s]]
        /\ allocated' = [allocated EXCEPT ![OPPORTUNISTIC] = @ - Cardinality(R)]
        /\ R \in SUBSET Slot /\ \A s \in R : pool[s] = OPPORTUNISTIC
    BY Zenon DEF ReconcileReclaim, Reclaimable
  <2>2. /\ allocated'[OPPORTUNISTIC] = Cardinality(Backing(OPPORTUNISTIC)')
        /\ Cardinality(Backing(OPPORTUNISTIC)') <= MaxPool[OPPORTUNISTIC]
    <3>1. /\ OPPORTUNISTIC \in Pool /\ R \subseteq Backing(OPPORTUNISTIC)
          /\ Backing(OPPORTUNISTIC)' = Backing(OPPORTUNISTIC) \ R
      BY Zenon, <2>1 DEF Backing, Pool, OPPORTUNISTIC, None
    <3>2. allocated'[OPPORTUNISTIC] = allocated[OPPORTUNISTIC] - Cardinality(R)
      BY Zenon, <2>1, <3>1 DEF ExposureInv, SlotType
    <3> QED
      BY Zenon, <2>1, <3>1, <3>2, GivenBack
  <2>3. ASSUME NEW q \in Pool, q # OPPORTUNISTIC
        PROVE  allocated'[q] = allocated[q] /\ Backing(q)' = Backing(q)
    BY ZenonT(120), <2>1, <2>3
    DEF Backing, Pool, OPPORTUNISTIC, COMMITTED, None, ExposureInv, SlotType
  <2> QED
    BY Zenon, <2>1, <2>2, <2>3 DEF PoolCounted
<1> QED
  BY Zenon, <1>1, <1>2 DEF Reconcile

\* Every step of the manager keeps the pools counted and within their limits.
LEMMA PoolStep ==
  ExposureInv /\ PoolCounted /\ [Next]_vars => PoolCounted'
<1> SUFFICES ASSUME ExposureInv, PoolCounted, [Next]_vars PROVE PoolCounted'
  BY Zenon
<1>1. CASE Disconnecting \/ Returning
  <2>1. PICK c \in Connection, cause \in {"CONSUMER", "PRESSURE", "DISCONNECT"} :
          \E S \in SUBSET Owned(c) : ~destroyed /\ ReleaseChunks(c, S, cause)
    BY ZenonT(120), <1>1
    DEF Disconnecting, Returning, Disconnect, DisconnectFails, Release,
                ReleaseFails
  <2> QED
    BY Zenon, <2>1, ReleaseCounted
<1>2. CASE Admission
  <2>1. 1 .. Cardinality(Slot) \subseteq Nat
    BY SlotsCounted
  <2> QED
    BY <1>2, <2>1, AcquireCounted, AcquireFailsCounted DEF Admission
<1>3. CASE Reconcile
  BY Zenon, <1>3, ReconcileCounted
<1>4. CASE \E F \in SUBSET {s \in Slot : registered[s]} : Destroy(F)
  <2> PICK F \in SUBSET {s \in Slot : registered[s]} : Destroy(F)
    BY Zenon, <1>4
  <2>1. destroyed' /\ (pool' = [s \in Slot |-> None] \/ pool' = pool)
    BY Zenon DEF Destroy
  <2>2. CASE pool' = [s \in Slot |-> None]
    <3>1. \A p \in Pool : Backing(p)' = {}
      BY Zenon, <2>2 DEF Backing, Pool, OPPORTUNISTIC, COMMITTED, None
    <3>2. Cardinality({}) = 0
      BY Zenon, FS_EmptySet
    <3>3. \A p \in Pool : 0 <= MaxPool[p]
      BY MemoryManagerAssumption
    <3> QED
      BY Zenon, <2>1, <3>1, <3>2, <3>3 DEF PoolCounted
  <2>3. CASE pool' = pool
    BY Zenon, <2>1, <2>3 DEF PoolCounted, Backing
  <2> QED
    BY Zenon, <2>1, <2>2, <2>3
<1>5. CASE \/ \E c \in Connection, k \in Consumer, l \in Policy : Connect(c, k, l)
           \/ \E n \in 0 .. HostChunks : HostMemory(n)
           \/ UNCHANGED vars
  <2>1. UNCHANGED <<pool, allocated, destroyed>>
    BY Zenon, <1>5 DEF Connect, HostMemory, vars, chunkVars, countVars
  <2> QED
    BY Zenon, <2>1 DEF PoolCounted, Backing
<1> QED
  BY Zenon, <1>1, <1>2, <1>3, <1>4, <1>5 DEF Next
-----------------------------------------------------------------------------
\* The inductive invariant: owned and quarantined chunks are the registered and
\* reachable ones, and the counters of the pools count their memory.
THEOREM ManagerCorrect == Spec => [](ExposureInv /\ PoolCounted)
<1>1. Init => ExposureInv /\ PoolCounted
  BY Zenon, ExposureInit, PoolInit
<1>2. ExposureInv /\ PoolCounted /\ [Next]_vars => (ExposureInv /\ PoolCounted)'
  BY Zenon, ExposureStep, PoolStep
<1> QED
  BY <1>1, <1>2, PTL DEF Spec

\* Whichever registrations and deregistrations fail, memory the RDMA device can
\* reach belongs to a live connection or is quarantined.
THEOREM ExposedAccounted == Spec => []ExposedHeld
<1>1. ExposureInv => ExposedHeld
  BY Zenon DEF ExposureInv
<1> QED
  BY <1>1, ManagerCorrect, PTL

\* No pool outgrows the operator's limit, quarantined memory included: the first
\* half of WithinLimits.
THEOREM PoolsWithinLimits ==
  Spec => [](\A p \in Pool : Cardinality({s \in Slot : pool[s] = p}) <= MaxPool[p])
<1>1. PoolCounted =>
        \A p \in Pool : Cardinality({s \in Slot : pool[s] = p}) <= MaxPool[p]
  BY Zenon DEF PoolCounted, Backing
<1> QED
  BY <1>1, ManagerCorrect, PTL
=============================================================================
