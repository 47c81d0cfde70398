----------------------------- MODULE BackedData ------------------------------
(***************************************************************************)
(* The data of a Backed device: one range of sectors, its copy in the      *)
(* Backing Store and its copy in Remote Memory, followed through the       *)
(* dispatch of is_mq.c, the acknowledgement policy of is_io_policy.h, the  *)
(* submission of is_rdma.c and the validity bit of is_remote_chunk.c.      *)
(*                                                                         *)
(* RemoteIoTransaction and RdmaOperationOwner look at the lifecycle of a   *)
(* request in every detail; here each of its handlers is one step, and     *)
(* what it does to the two copies is what counts.  Request t writes        *)
(* version t of the range, which starts as version 0.  As the kernel locks *)
(* the page, a request on the range is issued only when the one before has *)
(* been answered, but not when its transaction has settled.                *)
(***************************************************************************)
EXTENDS Integers, Sequences, FiniteSets

CONSTANTS
  MaxRequests,        \* bound on the requests
  MaxMappings,        \* bound on the mappings of the chunk
  MayFailAllocation,  \* the kernel may refuse memory to a request
  InOrder             \* the Backing Store executes bios as submitted

ASSUME BackedDataAssumption ==
  /\ MaxRequests \in Nat /\ MaxMappings \in Nat
  /\ MayFailAllocation \in BOOLEAN /\ InOrder \in BOOLEAN

Request == 1 .. MaxRequests

VARIABLES
  policy,             \* the device's acknowledgement policy
  \* the Backing Store
  backing, backing_invalid, backing_degraded,
  bios,               \* submitted and not ended, oldest first
  \* Remote Memory: the device is CONNECTED, the chunk's Provider has failed,
  \* state and generation of the mapping, its content, the bit of valid_sectors
  connected, failed, chunk, mapping_generation, remote_copy, valid,
  wire,               \* RDMA operations on the queue pair, oldest first
  \* the requests
  issued, direction, local, remote, answer, retried,
  lease,              \* mapping generation of an open lease, 0 without one
  buffer,             \* what an RDMA read has fetched
  \* history: versions a read may return, and whether one returned another
  acceptable, stale_read,
  restored            \* history: CONNECTED was stored over DEGRADED

storeVars == <<backing, backing_invalid, backing_degraded>>
requestVars == <<issued, direction, local, bios, remote, answer, retried>>
remoteVars ==
  <<connected, restored, failed, chunk, mapping_generation, remote_copy, valid>>
rdmaVars == <<wire, lease, buffer>>
clientVars == <<acceptable, stale_read>>
vars == <<policy, storeVars, remoteVars, requestVars, rdmaVars, clientVars>>

Status == {"none", "pending", "ok", "error"}

Init ==
  /\ policy \in {"STRICT", "REMOTE_FIRST"}
  /\ backing = 0 /\ backing_invalid = FALSE /\ backing_degraded = FALSE
  /\ bios = <<>>
  /\ connected = TRUE /\ restored = FALSE /\ failed = FALSE
  /\ chunk = "UNMAPPED" /\ mapping_generation = 0
  /\ remote_copy = 0 /\ valid = FALSE
  /\ wire = <<>>
  /\ issued = 0
  /\ direction = [t \in Request |-> "none"]
  /\ local = [t \in Request |-> "none"]
  /\ remote = [t \in Request |-> "none"]
  /\ answer = [t \in Request |-> "none"]
  /\ retried = [t \in Request |-> FALSE]
  /\ lease = [t \in Request |-> 0]
  /\ buffer = [t \in Request |-> 0]
  /\ acceptable = {0} /\ stale_read = FALSE

Done(status) == status \in {"ok", "error"}

IsWrite(t) == direction[t] = "WRITE"

-----------------------------------------------------------------------------
(* Acknowledgement.                                                        *)

\* Fault: a Strict write is answered by its remote copy.
WriteAnswerEager(t, l, r) ==
  IF r = "ok" THEN "ok" ELSE IF Done(l) /\ r # "pending" THEN l ELSE "none"

\* is_io_policy_finish_write, and the early acknowledgement of Remote-First;
\* a write that never went to Remote Memory has only its local status.
WriteAnswer(t, l, r) ==
  IF policy = "REMOTE_FIRST" /\ r = "ok" THEN "ok"
  ELSE IF Done(l) /\ r # "pending" THEN l
  ELSE "none"

\* The request is answered with a, and a read with version v; "none" leaves
\* it open.  A write that failed may or may not have left its data.
Answer(t, a, v) ==
  /\ answer' = [answer EXCEPT ![t] = IF @ = "none" THEN a ELSE @]
  /\ acceptable' = IF ~IsWrite(t) \/ a = "none" \/ answer[t] # "none"
                   THEN acceptable
                   ELSE IF a = "ok" THEN {t} ELSE acceptable \cup {t}
  /\ stale_read' = (stale_read \/ (~IsWrite(t) /\ a = "ok"
                                    /\ v \notin acceptable))

\* The local path of request t starts, if start holds.
SubmitBio(t, start) ==
  /\ local' = [local EXCEPT ![t] = IF start THEN "pending" ELSE @]
  /\ bios' = IF start THEN Append(bios, t) ELSE bios

\* is_degrade_backing, for the actions of is_io_policy_local_complete.
Degrade(error) ==
  /\ backing_invalid' = (backing_invalid \/ error)
  /\ backing_degraded' = (backing_degraded \/ error)

-----------------------------------------------------------------------------
(* Dispatch.                                                               *)

\* is_queue_rq and is_accept_request: a degraded device refuses writes.
Issue(t, d) ==
  /\ t = issued + 1
  /\ t > 1 => answer[t - 1] # "none"
  /\ d = "WRITE" => ~backing_degraded
  /\ issued' = t
  /\ direction' = [direction EXCEPT ![t] = d]
  /\ UNCHANGED <<policy, storeVars, remoteVars, local, bios, remote, answer,
                 retried, rdmaVars, clientVars>>

Undispatched(t) ==
  direction[t] # "none" /\ local[t] = "none" /\ remote[t] = "none"
    /\ answer[t] = "none"

\* is_dispatch_backing_work of a device that is not CONNECTED, whether or not
\* the chunk is still mapped: is_submit_to_backing_store, or an error for a read
\* of what the Backing Store no longer has.
DispatchBacking(t) ==
  /\ Undispatched(t)
  /\ ~connected
  /\ IF ~IsWrite(t) /\ backing_invalid
     THEN Answer(t, "error", 0) /\ UNCHANGED <<local, bios>>
     ELSE SubmitBio(t, TRUE) /\ UNCHANGED <<answer, clientVars>>
  /\ UNCHANGED <<policy, storeVars, remoteVars, issued, direction, remote,
                 retried, rdmaVars>>

\* is_remote_io_transaction_start: a write submits its Backing Store bio.
DispatchRemote(t) ==
  /\ Undispatched(t)
  /\ connected
  /\ remote' = [remote EXCEPT ![t] = "pending"]
  /\ SubmitBio(t, IsWrite(t))
  /\ UNCHANGED <<policy, storeVars, remoteVars, issued, direction, answer,
                 retried, rdmaVars, clientVars>>

\* is_transaction_reject_start, when the transaction cannot be allocated.
RejectStart(t) ==
  /\ Undispatched(t)
  /\ connected
  /\ MayFailAllocation
  /\ Answer(t, "error", 0)
  /\ UNCHANGED <<policy, storeVars, remoteVars, issued, direction, local,
                 bios, remote, retried, rdmaVars>>

\* is_submit_remote_local_work of a read: its bio is submitted, or the range is
\* found invalid.
Fallback(t) ==
  IF backing_invalid
  THEN local' = [local EXCEPT ![t] = "error"] /\ UNCHANGED bios
  ELSE SubmitBio(t, TRUE)

\* The effect of an RDMA status on the policy: is_io_policy_remote_terminal.
\* A read that failed goes on in the Backing Store.
RemoteTerminal(t, status, v) ==
  /\ remote' = [remote EXCEPT ![t] = status]
  /\ IF ~IsWrite(t) /\ status = "error" THEN Fallback(t)
     ELSE UNCHANGED <<local, bios>>
  /\ Answer(t, IF IsWrite(t) THEN WriteAnswer(t, local[t], status)
               ELSE IF status = "ok" THEN "ok"
               ELSE IF backing_invalid THEN "error" ELSE "none", v)

\* The operation of request t is posted and still to be executed.
OnWire(t) == \E i \in 1 .. Len(wire) : wire[i] = t

Submitting(t) == remote[t] = "pending" /\ lease[t] = 0 /\ ~OnWire(t)

\* Fault: reads do not ask for validity.
AdmitsInvalid(t) == chunk = "MAPPED"

\* is_remote_chunk_io_lease_acquire.
Admits(t) == chunk = "MAPPED" /\ (IsWrite(t) \/ valid)

\* is_rdma_submit or adapter_prepare fails before it has a lease: no
\* connection, no lease, or no memory.
SubmitRefused(t) ==
  /\ Submitting(t)
  /\ ~connected \/ ~Admits(t) \/ MayFailAllocation
  /\ RemoteTerminal(t, "error", 0)
  /\ UNCHANGED <<policy, storeVars, remoteVars, issued, direction, retried,
                 rdmaVars>>

\* Fault: the old copy stays valid while it is overwritten.
ValidAfterLeaseKept(t) == valid

\* A lease for a write takes the range's validity away.
ValidAfterLease(t) == valid /\ ~IsWrite(t)

\* is_rdma_submit with a lease: the operation is posted ...
SubmitPosted(t) ==
  /\ Submitting(t)
  /\ connected /\ Admits(t)
  /\ valid' = ValidAfterLease(t)
  /\ lease' = [lease EXCEPT ![t] = mapping_generation]
  /\ wire' = Append(wire, t)
  /\ UNCHANGED <<policy, storeVars, connected, restored, failed, chunk,
                 mapping_generation, remote_copy, requestVars, buffer, clientVars>>

\* ... or it fails (another read is in flight, DMA mapping, the post itself)
\* and the lease is settled as SUBMISSION_FAILURE.
SubmitFailed(t) ==
  /\ Submitting(t)
  /\ connected /\ Admits(t)
  /\ valid' = ValidAfterLease(t)
  /\ RemoteTerminal(t, "error", 0)
  /\ UNCHANGED <<policy, storeVars, connected, restored, failed, chunk,
                 mapping_generation, remote_copy, issued, direction, retried, rdmaVars>>

-----------------------------------------------------------------------------
(* RDMA operations.  The queue pair executes and completes them in order.  *)

Current(t) == lease[t] = mapping_generation

\* The Provider's adapter executes the oldest operation; one whose mapping is
\* gone no longer reaches this range.
Execute(t) ==
  /\ wire # <<>> /\ Head(wire) = t
  /\ buffer' = [buffer EXCEPT ![t] = IF IsWrite(t) THEN @ ELSE remote_copy]
  /\ remote_copy' = IF IsWrite(t) /\ Current(t) THEN t ELSE remote_copy
  /\ wire' = Tail(wire)
  /\ UNCHANGED <<policy, storeVars, connected, restored, failed, chunk,
                 mapping_generation, valid, requestVars, lease, clientVars>>

\* is_remote_chunk_io_lease_resolve.  The lease of an operation whose deadline
\* has passed is already resolved and only released.
ValidAfterResolve(t, success) ==
  IF IsWrite(t) /\ Current(t) /\ remote[t] = "pending" THEN success ELSE valid

\* The completion decides only where the deadline has not.
CompletionCounts(t) == remote[t] = "pending"

\* is_data_completion of an executed operation; the lease is released.
Completed(t) ==
  /\ lease[t] # 0 /\ ~OnWire(t)
  /\ valid' = ValidAfterResolve(t, TRUE)
  /\ IF CompletionCounts(t) THEN RemoteTerminal(t, "ok", buffer[t])
     ELSE UNCHANGED <<remote, local, bios, answer, clientVars>>
  /\ lease' = [lease EXCEPT ![t] = 0]
  /\ UNCHANGED <<policy, storeVars, connected, restored, failed, chunk,
                 mapping_generation, remote_copy, issued, direction, retried, wire, buffer>>

\* is_fail_session_chunks: the mapping is reset at once, whoever has a lease.
\* The connection state follows later, in ConnectionDegrades.
FailProvider ==
  /\ failed' = TRUE
  /\ chunk' = "UNMAPPED"
  /\ mapping_generation' = mapping_generation + 1
  /\ valid' = FALSE
  /\ UNCHANGED <<connected, restored, remote_copy>>

\* A completion with an error: is_rdma_fail in retire_posted, then the result.
\* The queue pair is in error and takes everything else down with it.
CompletedError(t) ==
  /\ lease[t] # 0
  /\ \A i \in 1 .. Len(wire) : wire[i] = t => i = 1
  /\ FailProvider
  /\ IF CompletionCounts(t) THEN RemoteTerminal(t, "error", 0)
     ELSE UNCHANGED <<remote, local, bios, answer, clientVars>>
  /\ lease' = [lease EXCEPT ![t] = 0]
  /\ wire' = IF OnWire(t) THEN Tail(wire) ELSE wire
  /\ UNCHANGED <<policy, storeVars, issued, direction, retried, buffer>>

\* is_operation_deadline: the lease is resolved as CANCELLED, the operation
\* stays with the hardware.  That the Provider is failed next is ProviderFails.
Deadline(t) ==
  /\ lease[t] # 0 /\ remote[t] = "pending"
  /\ valid' = ValidAfterResolve(t, FALSE)
  /\ RemoteTerminal(t, "error", 0)
  /\ UNCHANGED <<policy, storeVars, connected, restored, failed, chunk,
                 mapping_generation, remote_copy, issued, direction, retried, rdmaVars>>

\* is_rdma_fail: a deadline, a lost heartbeat, a disconnection.
ProviderFails ==
  /\ ~failed
  /\ FailProvider
  /\ UNCHANGED <<policy, storeVars, requestVars, rdmaVars, clientVars>>

\* is_fabric_refresh_connection_state after this or another Provider has failed:
\* the device is DEGRADED; a chunk of a healthy Provider stays mapped.
ConnectionDegrades ==
  /\ connected
  /\ connected' = FALSE
  /\ UNCHANGED <<policy, storeVars, restored, failed, chunk, mapping_generation,
                 remote_copy, valid, requestVars, rdmaVars, clientVars>>

\* is_fabric_refresh_connection_state of a heartbeat that counted the sessions
\* before the failure and stores CONNECTED after DEGRADED.  Once: every refresh
\* that starts later finds the failed session.
ConnectionRestored ==
  /\ ~connected /\ ~restored
  /\ connected' = TRUE /\ restored' = TRUE
  /\ UNCHANGED <<policy, storeVars, failed, chunk, mapping_generation,
                 remote_copy, valid, requestVars, rdmaVars, clientVars>>

-----------------------------------------------------------------------------
(* The mapping of the chunk.                                               *)

\* is_remote_chunk_mapping_finish; the Provider's memory holds anything.
Map ==
  /\ ~failed
  /\ chunk = "UNMAPPED"
  /\ mapping_generation < MaxMappings
  /\ chunk' = "MAPPED"
  /\ mapping_generation' = mapping_generation + 1
  /\ remote_copy' = -1
  /\ UNCHANGED <<policy, storeVars, connected, restored, failed, valid,
                 requestVars, rdmaVars, clientVars>>

EvictionBegin ==
  /\ chunk = "MAPPED"
  /\ chunk' = "EVICTING"
  /\ UNCHANGED <<policy, storeVars, connected, restored, failed,
                 mapping_generation, remote_copy, valid, requestVars, rdmaVars,
                 clientVars>>

\* is_remote_chunk_eviction_drained_locked.
Drained == \A t \in Request : lease[t] = 0

\* Fault: the validity bits survive the eviction.
ValidAfterResetKept == valid

\* is_remote_chunk_reset_mapping_locked.
ValidAfterReset == FALSE

EvictionFinish ==
  /\ chunk = "EVICTING"
  /\ Drained
  /\ chunk' = "UNMAPPED"
  /\ mapping_generation' = mapping_generation + 1
  /\ valid' = ValidAfterReset
  /\ UNCHANGED <<policy, storeVars, connected, restored, failed, remote_copy,
                 requestVars, rdmaVars, clientVars>>

-----------------------------------------------------------------------------
(* The Backing Store.                                                      *)

\* The bio of request t ends.
Ends(t) ==
  /\ local[t] = "pending"
  /\ InOrder => Head(bios) = t

\* The bios in flight once that of request t has ended.
BiosBut(t) == SelectSeq(bios, LAMBDA u : u # t)

\* is_remote_backing_end_io or is_backing_end_io of a write's bio.
BackingWritten(t) ==
  /\ IsWrite(t) /\ Ends(t)
  /\ backing' = t
  /\ local' = [local EXCEPT ![t] = "ok"]
  /\ bios' = BiosBut(t)
  /\ Answer(t, WriteAnswer(t, "ok", remote[t]), 0)
  /\ UNCHANGED <<policy, backing_invalid, backing_degraded, remoteVars, issued,
                 direction, remote, retried, rdmaVars>>

\* The bio failed, whatever it left on the disk.  A Remote-First write is
\* retried once, from its own copy of the pages.
BackingWriteFailed(t) ==
  /\ IsWrite(t) /\ Ends(t)
  /\ backing' \in {backing, t}
  /\ IF policy = "REMOTE_FIRST" /\ remote[t] # "none" /\ ~retried[t]
     THEN /\ retried' = [retried EXCEPT ![t] = TRUE]
          /\ bios' = Append(BiosBut(t), t)
          /\ UNCHANGED <<local, answer, clientVars, backing_invalid,
                         backing_degraded>>
     ELSE /\ local' = [local EXCEPT ![t] = "error"]
          /\ bios' = BiosBut(t)
          /\ Degrade(TRUE)
          /\ Answer(t, WriteAnswer(t, "error", remote[t]), 0)
          /\ UNCHANGED retried
  /\ UNCHANGED <<policy, remoteVars, issued, direction, remote, rdmaVars>>

\* The end of a read's bio.
BackingRead(t) ==
  /\ direction[t] = "READ" /\ Ends(t)
  /\ local' = [local EXCEPT ![t] = "ok"]
  /\ bios' = BiosBut(t)
  /\ Answer(t, "ok", backing)
  /\ UNCHANGED <<policy, storeVars, remoteVars, issued, direction, remote,
                 retried, rdmaVars>>

\* The bio of a read failed.
BackingReadFailed(t) ==
  /\ direction[t] = "READ" /\ Ends(t)
  /\ local' = [local EXCEPT ![t] = "error"]
  /\ bios' = BiosBut(t)
  /\ Degrade(TRUE)
  /\ Answer(t, "error", 0)
  /\ UNCHANGED <<policy, backing, remoteVars, issued, direction, remote,
                 retried, rdmaVars>>

-----------------------------------------------------------------------------

RequestStep(t) ==
  \/ \E d \in {"READ", "WRITE"} : Issue(t, d)
  \/ DispatchBacking(t) \/ DispatchRemote(t) \/ RejectStart(t)
  \/ SubmitRefused(t) \/ SubmitPosted(t) \/ SubmitFailed(t)
  \/ Execute(t) \/ Completed(t) \/ CompletedError(t) \/ Deadline(t)
  \/ BackingWritten(t) \/ BackingWriteFailed(t)
  \/ BackingRead(t) \/ BackingReadFailed(t)

Next ==
  \/ \E t \in Request : RequestStep(t)
  \/ ProviderFails \/ ConnectionDegrades \/ ConnectionRestored
  \/ Map \/ EvictionBegin \/ EvictionFinish

Spec == Init /\ [][Next]_vars

-----------------------------------------------------------------------------
(* Properties.                                                             *)

TypeOK ==
  /\ policy \in {"STRICT", "REMOTE_FIRST"}
  /\ backing \in 0 .. MaxRequests
  /\ {backing_invalid, backing_degraded, connected, restored, failed, valid,
      stale_read} \subseteq BOOLEAN
  /\ chunk \in {"UNMAPPED", "MAPPED", "EVICTING"}
  /\ mapping_generation \in Nat
  /\ remote_copy \in -1 .. MaxRequests
  /\ wire \in Seq(Request) /\ bios \in Seq(Request)
  /\ issued \in 0 .. MaxRequests
  /\ direction \in [Request -> {"none", "READ", "WRITE"}]
  /\ local \in [Request -> Status] /\ remote \in [Request -> Status]
  /\ answer \in [Request -> Status \ {"pending"}]
  /\ retried \in [Request -> BOOLEAN]
  /\ lease \in [Request -> Nat]
  /\ buffer \in [Request -> -1 .. MaxRequests]
  /\ acceptable \subseteq 0 .. MaxRequests

\* In Strict, a read that succeeds returns the last write that was acknowledged,
\* or one that failed since, wherever Remote Memory or the Backing Store served
\* it.  It needs memory for every request (MayFailAllocation = FALSE): without,
\* a write that gets none leaves an older copy readable (see LocalOnlyData).  So
\* does a write past Remote Memory once an outdated CONNECTED is stored, which is
\* excepted.
ReadsLatest == policy = "STRICT" /\ ~restored => ~stale_read

Outstanding == {t \in Request : IsWrite(t) /\ answer[t] = "none"}

\* While the device has been CONNECTED all along, a valid range of a mapped chunk
\* holds the last acknowledged data, or data of a write that is being answered:
\* eviction, remapping, deadlines and late completions never leave an older
\* version readable.  A DEGRADED device writes and reads past Remote Memory, and
\* a CONNECTED that is stored after that is excepted.
ValidCurrent ==
  connected /\ ~restored /\ valid /\ chunk = "MAPPED"
    => remote_copy \in acceptable \cup Outstanding

Settled ==
  \A t \in Request : /\ direction[t] # "none" => answer[t] # "none"
                     /\ local[t] # "pending" /\ remote[t] # "pending"

\* Once every transaction has settled, the Backing Store holds the last
\* acknowledged data or the device knows that it does not: what a Backed
\* device falls back to is a valid copy.
BackingCurrent == Settled => backing_invalid \/ backing \in acceptable

\* A Strict device promises more: at every moment, whatever Remote Memory does,
\* its Backing Store holds the last acknowledged data, that of a write that
\* failed since or that of the write being answered.
StrictBackingCurrent ==
  policy = "STRICT" => backing \in acceptable \cup Outstanding

\* Local-Only Data is in the Backing Store and not in Remote Memory: a write
\* that succeeded without its RDMA side leaves no older copy that a CONNECTED
\* device would read there.
LocalOnlyData ==
  \A t \in Request :
    IsWrite(t) /\ t = issued /\ answer[t] = "ok" /\ remote[t] # "ok"
      => ~(connected /\ valid /\ chunk = "MAPPED")
=============================================================================
