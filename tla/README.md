# Infiniswap in TLA+

This directory holds a verification development for Infiniswap: TLA+ modules
translated from the C sources, TLC configurations that check them on small
instances, and TLAPS proofs for every instance of the operation owner, the
Remote I/O Transaction with the acknowledgement it implements, the Remote Chunk
module, the data of a Backed device, the Provider's connections and its memory
manager.
`PROJECT.json` maps each definition to the lines it models.

## The system

A **Memory Consumer** is a Linux host with the block device module
`infiniswap_bd`. A **Memory Provider** is a host that runs the daemon
`infiniswap_daemon` and lends pinned memory in *Remote Chunks*. Data moves by
one-sided RDMA; everything else is a versioned control protocol over RDMA
sends. An operator drives both through `infiniswapctl`.

| Part | Source | State it keeps | Operations |
| --- | --- | --- | --- |
| Block device, lifecycle | `is_mq.c`, `is_configfs.c`, `is_main.c` | device state, mode, inflight requests, Backing-Degraded ranges, Remote-Lost | create, configure, activate, open, queue a request, drain, stop |
| Remote I/O Transaction | `is_remote_io_transaction.c`, `is_io_policy.h` | which sides of a request are pending, claims, whether it was completed | start, Backing Store ended, RDMA result, RDMA release |
| Remote Chunk module | `is_remote_chunk.c` | chunk states, claims, leases, validity, capacity reports | observe, next mapping, mapping finish, eviction begin/wait/finish, Provider failed, lease acquire/resolve/release, quiesce, destroy |
| RDMA operation owner | `is_rdma_operation_owner.c` | claims of submitter, completion and deadline on one operation | submit, post succeeded/failed, completion, deadline |
| Control session, fabric | `is_rdma.c` | session state, pending request, heartbeat, reconnection | HELLO...ACCEPT, STATUS, CHUNK_GRANT, EVICT, RELEASE, failure, stop |
| Control protocol | `common/infiniswap_protocol.c` | none (a codec) | encode, decode, negotiate |
| Provider session, allowlist | `infiniswap_provider_session.c`, `infiniswap_auth.c` | handshake state, last request, authorization version | HELLO, AUTH, authenticated requests, reload, revoke |
| Provider connections | `rdma-common.c`, `infiniswap_consumer_liveness.c`, `infiniswap-daemon.c` | references, closing, send slots, pending EVICT/RELEASE | completion handler, deadline monitor, pool pressure, destroy |
| Provider memory manager | `infiniswap_memory_manager.c` | pool memory, registrations, quarantine, quotas | connect, acquire, release, disconnect, reconcile, status, destroy |
| Operator tools | `infiniswapctl/` | files under `/etc`, configfs | configure, activate, drain, rollback, status |

How they interact: `is_mq.c` accepts a block request and starts a transaction;
the transaction submits to the Backing Store and, through `is_rdma.c`, to
Remote Memory; `is_rdma.c` takes a lease from the Remote Chunk module, gives
the operation to its owner and posts it; completion, deadline and teardown
report back through the owner. Control sessions feed the Remote Chunk module
with capacity reports, grants and RELEASE requests; on the other side the
daemon's sessions call the memory manager.

### What is hard about it

* Four contexts touch one request: the submitter, the Backing Store's
  completion, the RDMA completion queue and a deadline timer. Late RDMA
  completions are normal after a deadline.
* A remote mapping may be evicted, lost and replaced while RDMA operations
  posted for it are still in flight.
* Two copies of the data exist, and either may be missing or stale. Which one
  is current is decided by a validity bit per sector, a list of degraded
  ranges and a mapping generation, each under its own lock.
* A device is torn down, by its operator or by a failed activation, while its
  sessions shake hands, reserve memory, beat and fail on workqueues of their
  own, each of which may queue more work.
* The Provider takes memory back by a conversation with Consumers that are
  using it, may be gone, and answer on the connection they also ask on.
* Registering memory with the HCA can fail and so can deregistering it, in the
  middle of a request for several chunks.

### What each part must guarantee

* *Request*: completed exactly once, as the acknowledgement policy says, and
  its memory is released only when nothing can reach it any more.
* *Data*: a read returns the last acknowledged write.
* *Chunks*: no two ranges share remote memory; evictions are atomic; the
  counters are exact; the Provider takes nothing back that is in use.
* *Device*: serves only while its capacity is held, never again after
  Remote-Lost, and leaves nothing behind when it is removed.
* *Provider memory*: what the HCA may reach is neither freed nor granted to
  another Consumer; quotas and the Host Reserve hold.
* *Progress*: operations, transactions, evictions, rounds of pool pressure,
  activations, drains and reconciliation end.

## Modules

| Module | Models | Proved |
| --- | --- | --- |
| `RdmaOperationOwner` | `is_rdma_operation_owner.c` with the effects in `is_rdma.c` | yes, in `RdmaOperationOwner_proofs` |
| `RemoteIoTransaction` | `is_remote_io_transaction.c`, `is_io_policy.h`, adapters in `is_mq.c` | yes, in `RemoteIoTransaction_proofs` with the lemmas of `TransactionSteps_proofs`; `TransactionInvariant` has the invariant |
| `RequestAcknowledgement` | abstract: what a request's acknowledgement promises | yes: `RemoteIoTransaction` implements it |
| `RemoteChunk` | `is_remote_chunk.c` | yes, in `RemoteChunk_proofs` |
| `BackedData` | the data of one sector along `is_mq.c`, `is_io_policy.h`, `is_rdma.c`, `is_remote_chunk.c` | its Strict and remote-copy properties, in `BackedData_proofs` |
| `MemoryManager` | `infiniswap_memory_manager.c` | in part, in `MemoryManager_proofs` |
| `ProviderConnection` | `rdma-common.c`, `infiniswap_provider_session.c`, the loop of `infiniswap-daemon.c`, reload and subscription of `infiniswap_auth.c` | its safety, in `ProviderConnection_proofs` with the lemmas of `ConnectionEvents_proofs` |
| `PoolPressure` | `evict_mem` of `rdma-common.c` composed with the Consumers' half of the exchange in `is_rdma.c` | no |
| `ControlFabric` | the Consumer's sessions and fabric, `is_rdma.c`: start, handshake, reservation, heartbeats, deadlines, failure, stop | no |
| `DeviceLifecycle` | extends `ControlFabric` with the device of `is_mq.c` and `is_configfs.c` and its requests | no |

`MC*` modules hold only symmetry sets, constants and specifications restricted
to one mode or to the interleavings an instance can afford.

### RdmaOperationOwner

One action per stretch of a handler between two lock operations or calls that
other threads can see. The variables are the fields of
`struct is_rdma_operation_owner`, by operation; `claims` and `seen` are sets of
the flags that are set. The HCA delivers a completion any time after the post,
even before `post_succeeded` runs; the deadline fires any time after it is
armed. `wr` and `published` record what the rest of the system saw.

### RemoteIoTransaction and RequestAcknowledgement

A transaction is entered by up to five handler calls. Each is a locked
section, effects that run in a fixed order without the lock, and a locked
finish. A submission that fails at once makes its caller run the handler
itself. The refinement `ImplementsAcknowledgement` maps a transaction to the
abstract request: a side that ended is an ended side, and the request is
acknowledged when `blk_mq_end_request` is called. The abstract module says
which answers are justified by which sides, and nothing about locks or claims.

### RemoteChunk

Every operation holds `module->lock` and is one action, except
`eviction_wait`, whose sleep is a state of `release_pc`. The tokens that
callers keep (claims in sessions, leases in operations) are part of the state
because they come back when the chunk may have changed hands. A refused call
changes nothing and is therefore not a step. A chunk's sectors are one unit.

### BackedData

Writes carry version numbers. The module follows one sector: the Backing
Store's content, the remote copy, the validity bit, the degraded range, the
outstanding bios and the RDMA writes on the wire. `acceptable` is the set of
versions a read may return: the last acknowledged write and anything
concurrent with it. `failed` says that the chunk's Provider failed for good and
`connected` that `connection_state` is CONNECTED. They are separate because any
Provider's failure degrades the device (`ConnectionDegrades`), also while this
chunk stays mapped and valid: from then on requests go past Remote Memory, and
the copy there falls behind without being read. `ConnectionRestored` is a
heartbeat's refresh that counted the sessions before the failure and stores
CONNECTED after it; `restored` remembers it. A read that falls back on the
Backing Store tests the degraded range when it submits the bio (`Fallback`), not
when it is dispatched. `InOrder` chooses whether the Backing Store executes bios
in the order of submission; `MayFailAllocation` whether the submit path may
run out of memory.

### MemoryManager

Every operation holds `manager->lock` and is one action; the failing variants
(`AcquireFails`, `ReleaseFails`, `DisconnectFails`) leave what the code's
rollback leaves. `exposed` is a ghost variable: the slots the HCA can reach,
whatever the manager believes. `HostMemory` is the rest of the host, which
takes and returns memory at will.

### ProviderConnection

Five threads meet in a `struct connection`: the event loop, the one completion
thread, the connection's deadline monitor, the allowlist reload and the
observability server. `loop`, `poll` and `monitor` say where each stands; the
other variables are the fields of the connection, the queue pair with its
completions, and what the allowlist and the memory manager remember of it. A
step is what a thread does up to the next point at which another thread can
make a difference. `HandleFrame` is `is_provider_session_handle`: which frame
is acceptable in which state is exact, whether ids, capabilities, tag and key
lifetime are in order is a nondeterministic choice. While poll_cq serves a
request it holds the registry's lock (`RegistryLocked`), which keeps a reload
and the unsubscription of another connection out.

Left out: EVICT, ACTIVITY and RELEASE (in `PoolPressure`); connection
manager events other than the three that `on_event` knows, at which the daemon
dies; a failing `ibv_post_recv`; a second signal during the shutdown, which
would interrupt the draining loop.

### PoolPressure

The pool thread runs `evict_mem` against two Consumers: it asks each for the
activity of its chunks, chooses victims, sends RELEASE and frees the memory
when the answer comes, is refused or is given up. A CHUNK_REQUEST is granted or
refused, and a request that does not find the send slot free fails its session.
The Consumer's side is
`is_handle_evict`, `is_handle_release` and `is_release_work`, with the
CHUNK_REQUESTs and heartbeats it sends on the same connection and the RDMA
operations whose leases an eviction waits for. Frames are really received: all
posted receives of a Provider connection share one `recv_frame`, so a frame
that arrives early replaces the one before it, and `evict_mem` reads
`recv_message` without the lock that fills it. Both are in the model.

### ControlFabric and DeviceLifecycle

`dev`, `fab`, `sess` and `place` are records of the fields of `struct
is_device`, `is_rdma_fabric`, `is_rdma_session` and the Remote Chunk module
that these files read. `thr` says where each thread stands: the control
workqueue and the connection manager's callbacks of each session, the work
that starts sessions, the reservation work and the data completion queue. A
step ends where the code drops a lock, or where it has computed a value and not
yet stored it (`Refresh`, `Store`), or has tested one and not yet acted on it:
`is_fabric_schedule_next_session` tests `stopping` in one step and arms
`start_next_session_work` in the next (`ArmNext`). `is_rdma_fail` is four steps: what it does
under `control_lock`, the two of the connection state, and marking the device
Remote-Lost under `remote_state_lock`, for which it may have to wait.
`DeviceLifecycle` adds the operator (`op`: activation with its roll-back,
drain, stop, removal), the partition scan that `add_disk` waits for, openers
and requests (`io`). A completion decides its status from `remote_lost` under
the `operation_lock` of its session (`IoCompleted`) and acknowledges the request
later (`IoAcknowledged`); the session that marks the device takes the same lock,
and `lost_by` records which one it was. `faults` counts what goes wrong (`Fault`), and remembers
whether it was a Provider's loss: a broken connection (`Gone`) or a late answer
(`Late`).

Left out: flush requests; the stores of configfs attributes, which test the
state and copy a value; the mapping work of a Backed device, whose protocol is
in `RemoteChunk` and `PoolPressure`; RDMA resources, which are allocated and
freed with their session. The allocation of any session may fail; what
`start_next_session_work` does when it runs on a fabric that was freed
(finding 5) is undefined and has no step.

## Runs

| Run | Question | Instance |
| --- | --- | --- |
| `operation_owner` | one result, freed once and only when quiet; every operation is freed | two operations, fair |
| `lease_leak` | finding 1 | one operation |
| `transaction` | acknowledgement as a refinement, settlement, lost copies reported, the engine outlives its transactions; transactions settle | two transactions in all modes, fair |
| `remote_chunk` | counters, atomic eviction, no shared memory, no over-placement, stale leases; evictions end | two chunks, two Providers, two leases, both modes, fair |
| `backed_data` | Strict reads return the last acknowledged write and its Backing Store is current at every moment; the remote copy a device may read that has been CONNECTED all along is current (finding 6 is the exception) | four requests, four mappings, both policies |
| `local_only_stale`, `remote_first_retry` | findings 2 and 3 | three requests |
| `memory_manager` | limits, exposure, status agrees with admission; reconciliation restores the reserve | three chunks, two connections, two Consumers, two policies, fair |
| `provider_connection` | nothing reaches a freed connection, revocation and reclamation final; silent Consumers are reclaimed, connections that go down are destroyed, shutdown ends | two connections, three frames, one reload, fair |
| `pool_pressure` | no memory is pulled from under a working session, both ends agree when the channel is quiet; rounds end and sessions settle | two Consumers, fair |
| `device` | a removed device leaves nothing behind, the fabric is freed when quiet, capacity is held while requests are accepted, a device in use is lost only with a Provider (finding 4 is the exception), Remote-Lost is final; operations on the state attribute end, every Provider is tried | two Providers, one chunk, one fault, one request, one activation, both modes, fair |
| `start_work_left` | finding 5 | the same without heartbeats and requests |

### Bounds

Two operations suffice for the owner because operations share only the
session's counter. The transactions run one at a time in the Backed modes,
which have the most handlers, and two together in Remote-Only Mode, for the
engine and the inflight counter they share (`Affordable`). Two chunks make batches that are
partly drained and counters that differ from one; two Providers make a
remapping to another Provider; two leases make a stale and a current one.
`remote_chunk` takes these in turn (`OneProvider`, `OneChunk`, `Committed`):
two chunks of a Backed device on one Provider with their I/O or with a second
report, one chunk that moves between two Providers, and a Remote-Only device on both. A stale RDMA write needs three requests (the late write, the later write, the
read), and a fourth leaves room for an eviction and a remapping between them.
The memory manager has three slots in two pools, so that one chunk is
assigned, one free and one quarantined at the same time; the two connections
belong to one Consumer, and compete for its quota, or to two, and compete for
the pool. The policy `narrow` allows one chunk over two connections, `wide`
two chunks over one. The `Max...` constants bound counters the code does not
bound; their names and guards say so.
`provider_connection` follows one connection through HELLO, AUTH and one
request with one disturbance out of a reload, a crash of the Consumer, a signal
and a snapshot; or two connections without disturbance, of which the second
sends a frame, so that the completion thread waits for ESTABLISHED of one while
the event loop destroys the other (`Affordable`). The restriction never blocks
a step that fairness speaks of.

`pool_pressure` lets the pool thread run two rounds, or one that crosses a
heartbeat, a CHUNK_REQUEST or an RDMA operation. `device` has the smallest fabric in which the
sessions differ: the first Provider can serve the one chunk or fail, the second
can take over or hold nothing. One fault, wherever it strikes, is what the code
claims to survive; the races do not need it (finding 4 has none). Its
`Affordable` lets at most two threads be inside the fabric of a Remote-Only
device at once and one inside that of a Backed one, starts heartbeats and
operator commands when the fabric waits, lets a second deadline expire only
then, and has heartbeats or a request, not both. `Priority` lets a thread that
holds nothing anybody waits for go on at once, except where the interleaving
matters: between the reading and the storing of `connection_state`, and between
the test of `stopping` and the arming of the work. A Backed device takes no requests there: its data is
in `backed_data`.

`TypeOK` of `RemoteIoTransaction`, `RemoteChunk`, `BackedData` and
`MemoryManager` document the variables; no run lists them.

Deadlock checking is off in all runs: requests, connections and claims are
finite in number, so the instances stop when they are used up.

### Fairness

Weak fairness only. For the owner: a handler that has started runs on, the HCA
completes or flushes what was posted, an armed timer fires, a queued work item
runs. For the transaction: handlers run on, and bios and RDMA operations end
(an RDMA operation through completion or deadline). For eviction: the
queued work runs and a wait ends, because the leases are back or at its
deadline; nothing is assumed about RDMA operations, leases or new I/O. For the memory manager: the daemon's loop
(`free_mem`) calls `reconcile` every second. For the Provider's connections:
its threads run on, posted work completes or is flushed, the connection manager
reports what was asked of it, deadlines pass for a connection that does not
finish its handshake or whose Consumer is silent, and a Consumer gives up a
connection whose queue pair is broken. Nothing is assumed of frames, reloads
and signals. For pool pressure and for the device one weak fairness condition
on all the steps of the program together: its threads run, queued work is
executed, posted work completes and armed deadlines expire. These steps are
bounded in number between two steps of the environment, so the condition says
no more than that the kernel schedules what is runnable. Nothing is assumed of
operators, openers, requests, faults, heartbeats or Providers: a Provider need
not answer.

## Proofs

`RdmaOperationOwner_proofs` proves, for any finite set of
operations, `OwnerCorrect`: `Spec => []OwnerInv`, and from it `NeverIllegal`,
`FreedSafely`, `OneResult`, `LeaseComesBack` and `ObjectsCountedAlways`.

None of these is inductive alone: that an operation is freed only when quiet
depends on the claims, the claims on where each of the three handlers stands.
`OwnerInv` states, for each operation, which claims, which event count and
which effects go with every combination of the three program counters. It is
local to one operation, so the proof of a step has a frame lemma that says
nothing changes for the others and one lemma per handler: submitter,
completion, deadline, and the freeing. `ObjectsCounted` relates the session's
counter to the number of live operations and uses the cardinality theorems of
finite sets.

The one assumption is that `Operation` is finite, which the counter needs.
TLC was used to find `OwnerInv`; the runs list only the properties that follow
from it.

`RemoteChunk_proofs` proves, for any number of chunks, Providers, Provider
chunks and leases, `ChunksCorrect`: `Spec => [](MappingInv /\ EvictionInv)`,
and from it `MemoryUnshared` (`NoSharedProviderChunk`), `LeasesPin`
(`LeasePinsMapping`), `ValidOnlyWritten` (`ValidWrittenHere`),
`EvictionsAtomic` (the action property `EvictionAtomic`), `WithinReports`
(`NoOverplacement`) and `CountersAgree` (`CountersDerived`).

The argument is about generations and claims. A lease is judged by its
generation alone, so `MappingInv` says that no generation, of a chunk or of a
held lease, is ahead of `next_mapping_generation`: the ones a reset gives out
are new to every lease, and an old lease can never look current again. `Placed`
(a chunk that is not UNMAPPED is with a Provider that has not failed) is what
makes a failure reset every chunk it must. `EvictionInv` says that the chunks
that carry a claim's identifier are the EVICTING chunks of the Provider whose
session holds it, and that two sessions never hold the same one; so finishing a
claim, or failing a Provider, takes the whole batch. A reset gives each chunk
of its set the counter plus its rank in the set, and the proof that these are
new and the counter not behind them uses the cardinality theorems of finite
sets. `NoOverplacement` is inductive once its counters are known to be numbers
and the chosen Provider not failed; the step that needs care is a report that
arrives while placements it does not know of are open. `CountersDerived` needs
`CounterInv`: besides the counts themselves, that at most one mapping claim is
open (`OneMapping`): a failing Provider gives back as many claims as its chunks
carry identifiers, which must be as many as chunks. Each operation adds
or takes one element, or a batch, of the sets that are counted.
`RemoteChunkAssumption` is used for finiteness and for `Chunk` and `Provider`
being numbers.

`RemoteIoTransaction_proofs` proves, for any finite number of concurrent
transactions in every mode, `TransactionsCorrect`:
`Spec => [](TypeOK /\ TransactionsInv)`, and from it `EventsLegal`
(`NoIllegalEvent`), `FreedSafely` (`FreedWhenQuiet`), `LostCopyKnown`
(`LostCopyReported`), `PagesNotReused` (`BorrowedPages`), `EngineDrained`
(`EngineQuiet`) and `AcknowledgementImplemented`, that every step of a handler is
a step of `RequestAcknowledgement` or changes nothing it shows. The run checks
two transactions together only in Remote-Only Mode; the proof has no such limit.

`TransactionInv`, in `TransactionInvariant`, speaks of one transaction and has six
parts, because each property above rests on all of them:

* `FrameInv`: which effects each of the five handlers (frames) can still have to
  apply, and that only a handler that was called runs.
* `ClaimInv`: a claim is an outstanding handler. `rdma_result` and
  `rdma_transport` are claimed until their handlers begin; the Backing Store I/O
  is pending exactly while one effect will submit it or one handler that was
  triggered has not begun (`Outstanding` counts them, and is at most one). This
  makes every event legal.
* `BackingInv`: the Backing Store I/O is submitted once, and once more for a
  retry; a failed one was reported as degraded or is about to be.
* `PolicyInv`: `request_complete` is set exactly when the outcomes of the paths
  decide the request (`Decided`).
* `CompletionInv`: completions made and completions still in a handler's effects
  together are one if the request is complete and none before, and each has a
  status the paths justify.
* `EventInv`: `active_events` is the number of handlers inside, `settling` is
  set exactly when there are none and no claims, and one frame at most leaves.

A step of one transaction leaves the others alone, pointwise
(`SameTransaction`), so `TransactionSteps_proofs` has the lemmas on what such a
step keeps, the types, and one lemma per step: the start, its rejection, the
release, the Backing Store's end, the RDMA result, the effects and the last
event. `EngineInv` is separate: `inflight` and
`active_transactions` are the cardinalities of the sets of requests and of
transactions they count. The one assumption is that `Transaction` is finite.
TLC checked the parts of `TransactionInv` before they were proved.

`MemoryManager_proofs` proves, for any number of chunks, connections, Consumers
and policies, `ManagerCorrect`: `Spec => [](ExposureInv /\ PoolCounted)`, and
from it `ExposedAccounted` (`ExposedHeld`) and `PoolsWithinLimits` (the first
half of `WithinLimits`). `ExposedHeld` alone is not inductive: that a chunk given
back to the host is unreachable needs that reachable, registered, and owned or
quarantined are the same (`Exposure`). That a pool stays within its limit needs
that the counter it is compared with counts its memory, quarantined chunks
included (`PoolCounted`). `MemoryManagerAssumption` is used for finiteness and
for the limits being numbers.

`BackedData_proofs` proves, for any number of requests and mappings and both
policies, `StrictFallback` (`StrictBackingCurrent`, at every moment),
`RemoteCurrent`
(`ValidCurrent`) and `StrictReadsLatest` (`ReadsLatest`). The first needs the
invariant `Ordered`:

* `Sequenced`: requests are issued one after the other, RDMA results come before
  the answer, and only bios of acknowledged Remote-First writes come after it;
* `Stored`: the Backing Store of a Strict device holds acceptable data or the
  data of an unanswered write;
* `Leased`: a lease that is held is on the present mapping, unless the chunk's
  Provider failed for good, since evictions wait for leases;
* `Queued`: the queue pair executes operations in the order of their requests.
  This is where the reliable connection enters: an operation whose deadline
  passed is still executed before every later one.

The other two need `Tracked` as well: while the device has been CONNECTED all along and the
validity bit is set no write to the present mapping is left on the wire (`Copied`),
and a read that was posted
fetches, or has fetched, acceptable data (`Fetched`), unless an outdated CONNECTED
was stored. `Ordered` holds always;
`Tracked` assumes `~MayFailAllocation`, which is a hypothesis of the two
theorems and the setting of the run: a write that cannot take a lease for want of
memory leaves the older copy readable, which is finding 2. `InOrder` is free, so
the theorems hold for a Backing Store that reorders.

`ProviderConnection_proofs` proves, for any number of connections,
frames and reloads, `FreedUnreachable` (`NoUseAfterFree`),
`MembersAuthorized` (`AuthorizedMembers`) and `ReclaimedStays`
(`ReclaimedForGood`), and without the restriction `Affordable` of the run. The
invariant is `ConnectionInv`:

* `Counted`: `references` is the number of holders: posted receives, completions
  not yet taken, the completion thread (twice while it is about to post a send),
  a posted send, the observability server and the monitor. The completions are
  counted as places in the queue, and what arriving and taking one does to the
  count is a set of lemmas on sequences in `ConnectionEvents_proofs`.
* `QueueInv`: at most one send of a connection is about to be posted, posted or
  completed, and only while the session has a frame to send; otherwise a late
  send completion would find the queue of frames empty.
* `EventsInv`: the connection manager's events about a connection come in the
  order of its life, and there is none behind DISCONNECTED. So the event loop,
  which holds no reference, never finds an event of a connection it destroyed.
* `LivesInv`: a connection that is not built, freed or reclaimed has no
  references, and with `Counted` no holder (`LifeAt`); a member is subscribed to
  the allowlist, and is disconnected unless its credential is in force, from
  subscription on, through admission and every reload (`AdmittedAt`).

A step of one connection leaves the rest alone (`OthersApart`).
`ProviderConnectionAssumption` is used for `NoConnection`, the idle thread's
mark, not being a connection. `AdmittedAt` needs no lock between AUTH and
admission: the subscription compares the version again, and a reload after it
disconnects every subscriber, also one that is not yet a member.

Only model-checked, and why:

* Liveness and fairness (`EventuallySettled`, `ReservePursued`, `RoundEnds`,
  `SessionSettles` and the others): out of the prover's reach.
* The quota half of `WithinLimits`: it adds up the chunks of all of a Consumer's
  connections, and facts about a sum over a set need induction over its size.
  `StatusHonoured` compares the same sums.
* `LocalOnlyData` and `BackingCurrent` of `BackedData` are the violated
  statements of findings 2 and 3, `LeaseReturned` and `WorkStopped` those of
  findings 1 and 5.
* The safety properties of `PoolPressure` and `DeviceLifecycle` (with
  `ControlFabric`): no proof has been written. Their agreement between two ends of
  a channel, or between a device and its fabric, holds only at rest, so an
  inductive invariant has to describe every exchange in flight.
* That `InOrder`, the caps `Max...` and `Affordable` do not hide a behaviour of the
  code is an argument in *Bounds*, not a theorem; the proofs hold for every value
  of the caps.

## Findings

1. **A lease that is never returned** (`lease_leak`). The deadline sets
   `terminal` under the lock and resolves the lease after it. A completion in
   between skips publishing and releases an unresolved lease, which is
   refused; nobody tries again. `is_rdma.c:2343` warns if that ever happens.
2. **Local-Only Data with a valid remote copy** (`local_only_stale`). A write
   whose remote side fails before it takes a lease is acknowledged from the
   Backing Store, but the bit that makes the older remote copy readable stays
   set.
3. **A retry overtakes a later write** (`remote_first_retry`). The retry of an
   acknowledged Remote-First write's Backing Store bio puts old data over a
   later acknowledged write.
4. **Draining a healthy device makes it Remote-Lost** (`device`, whose
   `LostOnlyWithProvider` excepts the drained device for this reason).
   `is_device_drain_locked` quiesces the chunk
   module while the sessions go on. The answer to a heartbeat that is
   outstanding is then refused by `is_remote_chunk_provider_observe`, the
   session counts as failed, and a Remote-Only device becomes Remote-Lost with
   all its Providers alive.
5. **Work left on a freed fabric** (`start_work_left`). `is_rdma_stop` cancels
   `start_next_session_work` only if `session_count` is not zero
   (`is_rdma.c:2283`). A first session that cannot be allocated schedules the
   next and leaves none, so the fabric is freed with the work queued. With
   sessions the same happens when `is_fabric_schedule_next_session` tests
   `stopping` (`is_rdma.c:556`) before the stop and arms the work after the
   cancellation.
6. **An outdated CONNECTED** (`backed_data`, whose `ReadsLatest` and
   `ValidCurrent` except it). `is_fabric_refresh_connection_state`
   (`is_rdma.c:440`) counts the sessions and stores the result without a lock,
   and every heartbeat answer calls it. If another Provider fails in between,
   CONNECTED overwrites DEGRADED until the next refresh. A write dispatched
   meanwhile went past Remote Memory and left the older copy there valid, and
   the next read returns it. `local_only_stale` reaches this too when
   `MayFailAllocation` is FALSE.

### Known windows

Places that the runs leave aside or accept, and why:

* *A signal that does not wake the Provider.* The loop of
  `infiniswap-daemon.c:224` tests `running` and blocks in `rdma_get_cm_event`.
  A SIGTERM between the two, or one that another thread takes, only clears the
  flag; the daemon goes on until some connection event arrives. The model has
  this behaviour and `ShutdownDrains` excepts it by name.
* *A hole below `session_count`.* `is_fabric_mapping_work` dereferences
  `sessions[index]` (`is_rdma.c:1743`) where `is_fabric_reservation_work` tests
  it first.
* *A silent session before the reservation.* `is_heartbeat_work` of a
  Remote-Only session returns without scheduling itself until the reservation is
  complete (`is_rdma.c:891`), so the Provider may reclaim a healthy Consumer
  (`ProviderReclaims`). The activation still ends.
* *A chunk-less Provider.* Once the reservation is complete, a failure of any
  Provider of a Remote-Only device makes it Remote-Lost, also of one that holds
  none of its chunks (`is_rdma.c:646`). The documents disagree:
  `CONTEXT.md:76` speaks of Providers holding data,
  `docs/modernization-plan.md:128` of any Provider.
* *A stale `connection_state` of a Remote-Only device.* It is computed without a
  lock and stored later (`is_rdma.c:440`; for a Backed device see finding 6). The
  attribute, the dispatch of requests (`is_mq.c:1617`), the submission
  (`is_rdma.c:2512`) and the activation (`is_mq.c:2175`) read it. A request it
  lets through finds the failed Provider's chunk unmapped and is refused its
  lease; `accepting_io`, which Remote-Lost clears under a lock, does not depend
  on it.

## Not modelled

* Wire encoding, HMAC, file and argument parsing, metrics and logs.
* The byte-level content of requests: a request covers one sector or one chunk
  as a unit, so partial overlaps of requests are not seen.
* The kernel's block layer and the RDMA stack, except as nondeterministic
  environments: they complete what they were given, in any order.
* Memory ordering. A stretch under one lock, or one atomic operation, is one
  step; unlocked reads are separate steps where the code has them.

* Flush requests, configfs attribute stores, the CLI's staged commands, the
  negotiation of versions and capabilities: sequential code that its unit tests
  reach.
* A second activation of a stopped device, and more than one chunk per device,
  in `DeviceLifecycle`: the state space is at the limit of what a run can take.

## Plan

1. Version and capability negotiation as a pure function against a reference;
   the staged commands of the CLI.
2. Flush in `RemoteIoTransaction`, and a second activation in
   `DeviceLifecycle`.
3. Proofs: `MappedHeld` of `PoolPressure`, and the Remote-Lost and fabric
   properties of `DeviceLifecycle`.
