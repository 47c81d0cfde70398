--------------------------- MODULE DeviceLifecycle ---------------------------
(***************************************************************************)
(* The life of an Infiniswap Device (is_mq.c, is_configfs.c) around the    *)
(* control fabric it starts and stops: activation with its rollback, opens *)
(* and requests, drain, stop and the removal of the configfs directory,    *)
(* while the fabric's threads fail sessions and mark the device            *)
(* Remote-Lost.                                                            *)
(*                                                                         *)
(* configfs_lock and lifecycle_lock let one operation run at a time: op is *)
(* where it stands.  A step of it that waits for nobody is one action, so  *)
(* an activation that fails before it starts the fabric leaves no trace.   *)
(* Requests of a Remote-Only device are modelled down to their RDMA        *)
(* operation; those of a Backed device end at the Backing Store, what they *)
(* do is BackedData's and RemoteIoTransaction's.                           *)
(***************************************************************************)
EXTENDS ControlFabric

CONSTANTS
  MaxActivations,  \* bound: writes of "activate" to the state attribute
  MaxRequests      \* bound: requests of the application

ASSUME DeviceLifecycleAssumption == MaxActivations \in Nat /\ MaxRequests \in Nat

VARIABLES
  op,   \* the operation on the state attribute
  io    \* the read of the partition scan, and a request of the application

vars == <<fabricVars, op, io>>

NoOp == [pc |-> "idle", kind |-> "none", previous_state |-> "CREATED"]
NoIo == [state |-> "idle", p |-> 0, chunk |-> 0, status |-> "none", result |-> "none"]

NewDevice(mode) ==
  [mode |-> mode,
   state |-> "CREATED",
   connection_state |-> "NOT_CONNECTED",
   remote_lost |-> FALSE,
   lost_by |-> 0,                  \* the Provider whose session marked it
   accepting_opens |-> FALSE,
   accepting_io |-> FALSE,
   openers |-> {},
   remote_state_lock |-> FALSE,    \* held by the activation
   configfs_dependent |-> FALSE,
   disk |-> FALSE,
   disk_added |-> FALSE,
   engine |-> FALSE,               \* transaction_engine.initialized
   removed |-> FALSE,              \* is_device_release has run
   warned |-> FALSE,               \* WARN_ON(is_release_resources(device))
   activations |-> 0,
   requests |-> 0]

Init ==
  /\ \E mode \in {"backed", "remote_only"} : dev = NewDevice(mode)
  /\ fab = NoFabric
  /\ sess = [p \in Provider |-> NoSession]
  /\ place = NoPlace
  /\ thr = [t \in Thread |-> Idle]
  /\ faults = [count |-> 0, provider |-> FALSE]
  /\ op = NoOp
  /\ io = [r \in {"scan", "user"} |-> NoIo]

\* is_set_io_state.
SetIoState(d, state, accepting) ==
  [d EXCEPT !.state = state,
            !.accepting_opens = accepting /\ ~d.remote_lost,
            !.accepting_io = accepting /\ ~d.remote_lost]

Inflight == {r \in DOMAIN io : io[r].state # "idle"}
\* The requests the block layer waits for; a request whose deadline expired is
\* complete, although its RDMA operation is not.
Queued == {r \in DOMAIN io : io[r].state \notin {"idle", "late"}}

(***************************************************************************)
(* Releasing the resources.                                                *)
(***************************************************************************)

\* is_release_resources until is_rdma_stop has marked the fabric.  The engine
\* refuses to go while transactions are active.
ReleaseBegin(d) ==
  IF d.engine /\ Inflight # {}
    THEN /\ dev' = IF op.kind = "activate"
                     THEN [d EXCEPT !.warned = TRUE, !.configfs_dependent = FALSE] ELSE d
         /\ op' = NoOp /\ UNCHANGED fab
    ELSE /\ dev' = [d EXCEPT !.engine = FALSE,
                             !.connection_state = IF fab.phase # "up" THEN @
                               ELSE IF d.remote_lost THEN "REMOTE_LOST" ELSE "NOT_CONNECTED"]
         /\ fab' = IF fab.phase = "up" THEN [fab EXCEPT !.phase = "cancel"] ELSE fab
         /\ op' = [op EXCEPT !.pc = "release"]

\* The rest, after is_rdma_stop; is_remote_chunk_module_destroy refuses to go
\* while it has a claim or an I/O lease.  The engine is gone, so that only a
\* lease that was never returned is left.
ReleaseEnd ==
  /\ op.pc = "release"
  /\ fab.phase = "none"
  /\ IF place.claim # NoClaim \/ place.leaked
       THEN /\ dev' = IF op.kind = "activate"
                        THEN [dev EXCEPT !.warned = TRUE, !.configfs_dependent = FALSE] ELSE dev
            /\ UNCHANGED place
       ELSE /\ dev' = LET d == [dev EXCEPT !.disk = FALSE, !.disk_added = FALSE,
                                           !.configfs_dependent = FALSE]
                      IN IF op.kind = "activate" THEN d ELSE SetIoState(d, "STOPPED", FALSE)
            /\ place' = NoPlace
  /\ op' = NoOp
  /\ UNCHANGED <<fab, sess, thr, faults, io>>

(***************************************************************************)
(* Activation.                                                             *)
(***************************************************************************)

\* is_device_state_store "activate" and is_device_activate, as far as
\* is_rdma_start's first call of is_fabric_start_next_session.
Activate ==
  /\ op = NoOp /\ ~dev.removed
  /\ ~dev.configfs_dependent
  /\ dev.state \in {"CREATED", "STOPPED"} /\ ~dev.remote_lost
  /\ dev.activations < MaxActivations
  /\ dev' = [dev EXCEPT !.configfs_dependent = TRUE, !.connection_state = "CONNECTING",
                        !.activations = @ + 1]
  /\ place' = [NoPlace EXCEPT !.live = TRUE]
  /\ fab' = [NoFabric EXCEPT !.phase = "up", !.start_work = TRUE]
  /\ op' = [pc |-> "start", kind |-> "activate", previous_state |-> dev.state]
  /\ UNCHANGED <<sess, thr, faults, io>>

\* The error path: what was taken is released.
Rollback ==
  ReleaseBegin(SetIoState([dev EXCEPT !.remote_state_lock = FALSE], op.previous_state, FALSE))

\* is_rdma_start, when is_fabric_start_next_session has returned to it.  It stops
\* a fabric that has no session, which ends a Remote-Only activation.
FabricStarted ==
  /\ op.pc = "start"
  /\ fab.next_resolve_index > 1 /\ thr[Start].p # 1
  /\ IF \E p \in Provider : Exists(p)
       THEN op' = [op EXCEPT !.pc = IF RemoteOnly THEN "wait" ELSE "disk"] /\ UNCHANGED <<dev, fab>>
       ELSE \/ RemoteOnly /\ Rollback
            \/ /\ ~RemoteOnly
               /\ dev' = [dev EXCEPT !.connection_state = "NOT_CONNECTED"]
               /\ fab' = [fab EXCEPT !.phase = "cancel"]
               /\ op' = [op EXCEPT !.pc = "disk"]
  /\ UNCHANGED <<sess, place, thr, faults, io>>

\* wait_event_interruptible in is_rdma_start.
ReservationWait ==
  /\ op.pc = "wait"
  /\ \/ /\ fab.reservation_complete
        /\ op' = [op EXCEPT !.pc = "disk"]
        /\ UNCHANGED <<dev, fab>>
     \/ /\ ~fab.reservation_complete /\ fab.reservation_failed
        /\ Rollback
  /\ UNCHANGED <<sess, place, thr, faults, io>>

\* A signal ends the wait, or something cannot be allocated.
ActivationFails ==
  /\ op.pc \in {"wait", "disk"} /\ ~Stopping
  /\ Fault
  /\ Rollback
  /\ UNCHANGED <<sess, place, thr, io>>

\* The disk is allocated.  A Remote-Only device takes remote_state_lock, and
\* goes on only if it is still connected.
AllocateDisk ==
  /\ op.pc = "disk" /\ ~Stopping
  /\ IF RemoteOnly /\ (dev.remote_lost \/ dev.connection_state # "CONNECTED")
       THEN Rollback
       ELSE /\ dev' = SetIoState([dev EXCEPT !.disk = TRUE, !.engine = TRUE,
                                             !.remote_state_lock = RemoteOnly], "ACTIVE", TRUE)
            /\ op' = [op EXCEPT !.pc = "add_disk"]
            /\ UNCHANGED fab
  /\ UNCHANGED <<sess, place, thr, faults, io>>

\* add_disk opens the device and reads its first sectors, ...
ScanRead ==
  /\ op.pc = "add_disk"
  /\ IF dev.accepting_opens
       THEN /\ dev' = [dev EXCEPT !.openers = @ \cup {"scan"}]
            /\ \E c \in Chunk : io' = [io EXCEPT !["scan"] = [NoIo EXCEPT !.state = "accepted", !.chunk = c]]
       ELSE UNCHANGED <<dev, io>>
  /\ op' = [op EXCEPT !.pc = "scan"]
  /\ UNCHANGED <<fab, sess, place, thr, faults>>

\* ... waits for them, and returns.
AddDisk ==
  /\ op.pc = "scan" /\ io["scan"].state = "idle"
  /\ LET d == [dev EXCEPT !.openers = @ \ {"scan"}, !.remote_state_lock = FALSE]
     IN \/ /\ dev' = [d EXCEPT !.disk_added = TRUE]
           /\ op' = NoOp /\ UNCHANGED <<fab, faults>>
        \/ Fault /\ ReleaseBegin(SetIoState(d, op.previous_state, FALSE))
  /\ io' = [io EXCEPT !["scan"] = NoIo]
  /\ UNCHANGED <<sess, place, thr>>

(***************************************************************************)
(* Drain, stop and removal.                                                *)
(***************************************************************************)

\* Fault: the chunk module quiesces first.
DrainQuiesced(kind) ==
  /\ op = NoOp
  /\ dev.state = "ACTIVE" /\ dev.openers = {}
  /\ dev' = [dev EXCEPT !.accepting_opens = FALSE, !.state = "DRAINING"]
  /\ place' = [place EXCEPT !.quiescing = TRUE]
  /\ op' = [NoOp EXCEPT !.pc = "del_gendisk", !.kind = kind]
  /\ UNCHANGED <<fab, sess, thr, faults, io>>

\* is_device_drain_locked of an ACTIVE device, called by "drain" or by "stop".
\* Refused while the device is open.
DrainBegin(kind) ==
  /\ op = NoOp
  /\ dev.state = "ACTIVE" /\ dev.openers = {}
  /\ dev' = [dev EXCEPT !.accepting_opens = FALSE, !.state = "DRAINING"]
  /\ op' = [NoOp EXCEPT !.pc = "del_gendisk", !.kind = kind]
  /\ UNCHANGED <<fab, sess, place, thr, faults, io>>

\* del_gendisk waits for the requests; then none is accepted and the chunk
\* module quiesces.
DelGendisk ==
  /\ op.pc = "del_gendisk"
  /\ Queued = {}
  /\ dev' = SetIoState([dev EXCEPT !.disk_added = FALSE], "DRAINED", FALSE)
  /\ place' = [place EXCEPT !.quiescing = TRUE]
  /\ op' = [op EXCEPT !.pc = "drain_wait"]
  /\ UNCHANGED <<fab, sess, thr, faults, io>>

DrainWait ==
  /\ op.pc = "drain_wait"
  /\ Inflight = {}
  /\ op' = IF op.kind = "drain" THEN NoOp ELSE [op EXCEPT !.pc = "stop"]
  /\ UNCHANGED <<fabricVars, io>>

\* is_device_stop of a device that was never active, or is drained.
StopBegin ==
  /\ op = NoOp /\ ~dev.removed
  /\ \/ /\ dev.state = "CREATED"
        /\ dev' = SetIoState(dev, "STOPPED", FALSE)
        /\ UNCHANGED op
     \/ /\ dev.state = "DRAINED"
        /\ op' = [NoOp EXCEPT !.pc = "stop", !.kind = "stop"]
        /\ UNCHANGED dev
  /\ UNCHANGED <<fab, sess, place, thr, faults, io>>

StopRelease ==
  /\ op.pc = "stop"
  /\ ReleaseBegin(dev)
  /\ UNCHANGED <<sess, place, thr, faults, io>>

\* rmdir of the directory, which configfs refuses while it is depended upon:
\* is_drop_device stops the device and is_device_release frees it.
DropDevice ==
  /\ op = NoOp /\ ~dev.removed
  /\ ~dev.configfs_dependent
  /\ dev' = [SetIoState(dev, "STOPPED", FALSE) EXCEPT !.removed = TRUE]
  /\ UNCHANGED <<fab, sess, place, thr, faults, op, io>>

(***************************************************************************)
(* Opens and requests.                                                     *)
(***************************************************************************)

\* is_open and is_release.
OpenDevice ==
  /\ dev.disk_added /\ dev.accepting_opens
  /\ "user" \notin dev.openers
  /\ dev' = [dev EXCEPT !.openers = @ \cup {"user"}]
  /\ UNCHANGED <<fab, sess, place, thr, faults, op, io>>

CloseDevice ==
  /\ "user" \in dev.openers
  /\ dev' = [dev EXCEPT !.openers = @ \ {"user"}]
  /\ UNCHANGED <<fab, sess, place, thr, faults, op, io>>

\* is_queue_rq and is_accept_request: a write of the application, or writeback
\* after it has closed the device.
QueueRq ==
  /\ dev.disk_added /\ dev.accepting_io
  /\ io["user"].state = "idle" /\ dev.requests < MaxRequests
  /\ \E c \in Chunk :
       io' = [io EXCEPT !["user"] = [NoIo EXCEPT !.state = "accepted", !.chunk = c]]
  /\ dev' = [dev EXCEPT !.requests = @ + 1]
  /\ UNCHANGED <<fab, sess, place, thr, faults, op>>

EndIo(r, result) == [io EXCEPT ![r] = [NoIo EXCEPT !.result = result]]

\* Fault: sectors that were never written can be read.
LeaseOfMapped(r) == place.owner[io[r].chunk] # 0 /\ ~place.quiescing

\* is_remote_chunk_io_lease_acquire gives a lease on a mapped chunk.  Nothing
\* has been written yet when the partitions are scanned, and a read of sectors
\* that are not valid gets none.
LeaseAcquired(r) == place.owner[io[r].chunk] # 0 /\ ~place.quiescing /\ r # "scan"

\* is_dispatch_backing_work, is_dispatch_remote and is_rdma_submit.
Dispatch(r) ==
  /\ io[r].state = "accepted"
  /\ io' = CASE ~RemoteOnly -> [io EXCEPT ![r].state = "backing"]
             [] RemoteOnly /\ dev.connection_state = "CONNECTED" /\ LeaseAcquired(r)
                  -> [io EXCEPT ![r].state = "posted", ![r].p = place.owner[io[r].chunk]]
             [] OTHER -> EndIo(r, "error")
  /\ UNCHANGED <<fabricVars, op>>

BackingDone(r) ==
  /\ io[r].state = "backing"
  /\ io' = EndIo(r, "ok")
  /\ UNCHANGED <<fabricVars, op>>

\* Fault: only the lease decides.
PublishedByLease(r) == IF place.owner[io[r].chunk] # io[r].p THEN "error" ELSE "ok"

\* What publish_terminal makes of a completion without an error: the lease may
\* be stale, or the device lost.
PublishedResult(r) ==
  IF place.owner[io[r].chunk] # io[r].p \/ dev.remote_lost THEN "error" ELSE "ok"

\* is_data_completion without an error: publish_terminal takes the operation_lock
\* of its session and decides, ...
IoCompleted(r) ==
  LET p == io[r].p
  IN /\ io[r].state = "posted" /\ ~sess[p].operation_lock
     /\ io' = [io EXCEPT ![r].state = "publishing", ![r].status = PublishedResult(r)]
     /\ sess' = [sess EXCEPT ![p].operation_lock = TRUE]
     /\ UNCHANGED <<dev, fab, place, thr, faults, op>>

\* ... and acknowledges.  A session of another Provider does not share the lock.
IoAcknowledged(r) ==
  /\ io[r].state = "publishing"
  /\ io' = EndIo(r, io[r].status)
  /\ sess' = [sess EXCEPT ![io[r].p].operation_lock = FALSE]
  /\ UNCHANGED <<dev, fab, place, thr, faults, op>>

\* is_data_completion with an error: retire_posted runs is_rdma_fail, and only
\* then is the result published.  The queue pair of a session that has failed
\* flushes its operations.
IoError(r) ==
  LET p == io[r].p
  IN /\ io[r].state = "posted" /\ IsIdle(Cq)
     /\ \/ sess[p].failure_started /\ UNCHANGED faults
        \/ ~sess[p].failure_started /\ Gone
     /\ io' = [io EXCEPT ![r].state = "retiring"]
     /\ thr' = [thr EXCEPT ![Cq] = Failing(p)]
     /\ UNCHANGED <<dev, fab, sess, place, op>>

IoErrorPublished(r) ==
  /\ At(Cq, "publish") /\ io[r].state = "retiring"
  /\ io' = EndIo(r, "error")
  /\ thr' = [thr EXCEPT ![Cq] = Idle]
  /\ UNCHANGED <<dev, fab, sess, place, faults, op>>

\* The operation's Provider Failure Deadline: the request ends, then the session
\* fails.  A completion that comes between the deadline's decision and its
\* publication ends the operation and leaves the lease behind, because it
\* releases a lease that is not resolved yet (RdmaOperationOwner).
IoDeadline(r) ==
  LET p == io[r].p
  IN /\ io[r].state = "posted" /\ IsIdle(Evt(p))
     /\ \/ /\ io' = [io EXCEPT ![r].state = "late", ![r].result = "error"]
           /\ UNCHANGED place
        \/ /\ io' = EndIo(r, "error")
           /\ place' = [place EXCEPT !.leaked = TRUE]
     /\ thr' = [thr EXCEPT ![Evt(p)] = Failing(p)]
     /\ Late
     /\ UNCHANGED <<dev, fab, sess, op>>

LateCompletion(r) ==
  /\ io[r].state = "late"
  /\ io' = EndIo(r, "error")
  /\ UNCHANGED <<fabricVars, op>>

(***************************************************************************)
(* The next-state relation.                                                *)
(***************************************************************************)

\* Steps of the fabric that its threads and timers take by themselves.
FabricProgress ==
  \/ FailStep \/ StartNextSession
  \/ ReservationWork \/ ReservationComplete \/ ReservationSend
  \/ StopCancel \/ StopFree
  \/ \E p \in Provider :
       HelloWork(p) \/ ControlDeadline(p) \/ DeadlineFails(p) \/ StopSession(p)
         \/ (DestroySession(p) /\ \A r \in Inflight : io[r].p # p)

IoProgress ==
  \E r \in DOMAIN io :
    \/ Dispatch(r) \/ BackingDone(r) \/ IoAcknowledged(r) \/ IoErrorPublished(r)
    \/ IoDeadline(r) \/ LateCompletion(r)

OpProgress ==
  \/ FabricStarted \/ ReservationWait \/ AllocateDisk \/ ScanRead \/ AddDisk
  \/ DelGendisk \/ DrainWait \/ StopRelease \/ ReleaseEnd

Progress == (FabricProgress /\ UNCHANGED <<op, io>>) \/ IoProgress \/ OpProgress

\* Steps nobody has to take: what the Providers answer, failures, timers that
\* only repeat, the operator and the application.
Environment ==
  \/ /\ \E p \in Provider :
          \/ Established(p) \/ HandleChallengeOrAccept(p) \/ HandleChunkGrant(p)
          \/ HeartbeatWork(p) \/ SessionFault(p) \/ ReceiveFlushed(p) \/ ProviderReclaims(p)
          \/ \E n \in 0..MaxAvailable : HandleStatus(p, n) \/ HandleHeartbeat(p, n)
     /\ UNCHANGED <<op, io>>
  \/ \E r \in DOMAIN io : IoCompleted(r) \/ IoError(r)
  \/ Activate \/ ActivationFails \/ DropDevice \/ StopBegin
  \/ \E kind \in {"drain", "stop"} : DrainBegin(kind)
  \/ OpenDevice \/ CloseDevice \/ QueueRq

Next == Progress \/ Environment

\* A workqueue runs what is queued, a timer that is armed expires, and an
\* operation goes on when what it waits for is there.  The steps of Progress
\* are bounded and cannot follow each other for ever, so that one condition
\* stands for that of each thread.
Fairness == WF_vars(Progress)

Spec == Init /\ [][Next]_vars /\ Fairness

(***************************************************************************)
(* Properties.                                                             *)
(***************************************************************************)

\* The WARN_ONs of is_device_activate, is_drop_device and is_device_release:
\* when no operation runs and nothing keeps the configfs directory, the device
\* is CREATED or STOPPED and owns no disk, no chunks and no fabric, whatever
\* failed during its activations.  A fabric that is_rdma_stop has freed has no
\* session, no thread is inside it and reservation_work, which a late grant may
\* queue while the fabric stops, is not queued.
DropClean ==
  /\ ~dev.warned
  /\ op = NoOp /\ ~dev.configfs_dependent =>
       /\ dev.state \in {"CREATED", "STOPPED"}
       /\ ~dev.disk /\ ~place.live /\ fab.phase = "none"
  /\ fab.phase = "none" =>
       /\ ~fab.reservation_work
       /\ \A t \in Thread : IsIdle(t)
       /\ \A p \in Provider : sess[p] = NoSession

\* docs/modernization-plan.md:47: "Every error path unwinds memory registrations,
\* queue resources, threads, and state."  When is_rdma_stop has freed the fabric,
\* neither start_next_session_work nor reservation_work is queued or running.
WorkStopped ==
  fab.phase = "none" =>
    /\ ~fab.start_work /\ ~fab.reservation_work
    /\ IsIdle(Start) /\ IsIdle(Resv)

\* While a Remote-Only device accepts requests each of its chunks is with a
\* Provider, or a thread has found that Provider failed and is about to mark
\* the device Remote-Lost.
CapacityHeld ==
  RemoteOnly /\ dev.accepting_io =>
    \/ \A c \in Chunk : place.owner[c] # 0
    \/ \E t \in Thread : thr[t].terminal

\* Remote-Lost is final: from then on no request is accepted, nobody opens the
\* device, and no completion decides for success.  One that had decided before
\* may still acknowledge its request, but never one whose own Provider's session
\* marked the device: publish_terminal and is_mark_session_remote_lost exclude
\* each other by the operation_lock of the session.
LostIsFinal ==
  [][dev.remote_lost =>
       /\ dev'.remote_lost /\ ~dev'.accepting_io
       /\ dev'.openers \subseteq dev.openers
       /\ \A r \in DOMAIN io :
            /\ io'[r].status = "ok" => io[r].status = "ok"
            /\ io'[r].result = "ok" /\ io[r].result # "ok" => io[r].p # dev.lost_by]_vars

\* CONTEXT.md:76: a device in use becomes Remote-Lost only when a Provider is
\* lost: fails, loses or closes its connection or does not answer in time.  A
\* drained device is excepted: its chunk module refuses the answer to a heartbeat
\* that was sent before, and is_receive_work takes that for a failure.
LostOnlyWithProvider ==
  dev.remote_lost /\ dev.state \notin {"DRAINED", "STOPPED"} => faults.provider

\* An operation on the state attribute ends: a Remote-Only activation does not
\* wait for ever for Providers that do not answer or have failed, and holding
\* remote_state_lock during add_disk blocks nobody add_disk waits for.
OperationEnds == op.pc # "idle" ~> op.pc = "idle"

\* Every planned Provider is tried, whatever becomes of the ones before it,
\* unless the fabric is stopped.
EveryProviderTried ==
  fab.phase = "up" ~> fab.phase # "up" \/ fab.next_resolve_index > Providers

=============================================================================
