------------------------- MODULE RemoteIoTransaction -------------------------
(***************************************************************************)
(* The Remote I/O Transactions of one device: is_remote_io_transaction.c,  *)
(* the acknowledgement policy of is_io_policy.h and the adapters of        *)
(* is_mq.c.                                                                *)
(*                                                                         *)
(* A transaction is entered by up to five handler calls ("frames"): start, *)
(* the end of its first Backing Store I/O, the end of its retry, the RDMA  *)
(* result and the RDMA release.  A frame is a locked section, effects run  *)
(* without the lock in a fixed order, and a locked finish; each is one     *)
(* action.  A submission that fails at once makes its caller run the       *)
(* handler itself, and wait for it.                                        *)
(***************************************************************************)
EXTENDS Integers, FiniteSets

CONSTANT Transaction    \* the block requests dispatched to Remote Memory

ASSUME TransactionAssumption == IsFiniteSet(Transaction)

VARIABLES
  \* the engine and the device around it
  mode,                 \* engine->mode
  engine,               \* initialized, destroyed, or destroy refused as busy
  active_transactions,
  accepting_io, inflight,
  \* struct is_io_policy, statuses reduced to ok and error
  direction,            \* spec.direction
  local,                \* local_pending, local_done, local_status
  remote,               \* remote_pending, remote_done, remote_status
  request_complete,
  \* struct is_remote_io_transaction
  claims,               \* backing_claim, rdma_result_claim, rdma_transport_claim
  active_events, backing_retries, invariant_reported, settling,
  \* the frames
  pc, todo, caller,
  \* the adapter
  storage,              \* the allocation that holds the transaction
  prepared,             \* the pages were copied to pages of its own
  completions, result,  \* is_complete_request: how often, and what with
  degraded              \* is_degrade_backing was called for this range

engineVars == <<mode, engine, active_transactions, accepting_io, inflight>>
policyVars == <<direction, local, remote, request_complete>>
claimVars == <<claims, active_events, backing_retries, invariant_reported,
               settling>>
frameVars == <<pc, todo, caller>>
adapterVars == <<storage, prepared, completions, result, degraded>>
vars == <<engineVars, policyVars, claimVars, frameVars, adapterVars>>

Mode == {"BACKED_STRICT", "BACKED_REMOTE_FIRST", "REMOTE_ONLY"}

Frame == {"start", "backing", "retry", "result", "released"}

Claim == {"backing", "rdma_result", "rdma_transport"}

\* The actions of enum is_io_action, and what start does after them.
Effect == {"degraded", "local_only", "submit_local", "success", "error",
           "submit_rdma", "release_rdma", "fail_rdma"}

Rank(e) ==
  CASE e = "degraded" -> 1 [] e = "local_only" -> 2 [] e = "submit_local" -> 3
    [] e = "success" -> 4 [] e = "error" -> 4 [] e = "submit_rdma" -> 5
    [] e = "release_rdma" -> 6 [] e = "fail_rdma" -> 7

Init ==
  /\ mode \in Mode
  /\ engine = "initialized" /\ active_transactions = 0
  /\ accepting_io = TRUE /\ inflight = 0
  /\ direction = [t \in Transaction |-> "none"]
  /\ local = [t \in Transaction |-> "none"]
  /\ remote = [t \in Transaction |-> "none"]
  /\ request_complete = [t \in Transaction |-> 0]
  /\ claims = [t \in Transaction |-> {}]
  /\ active_events = [t \in Transaction |-> 0]
  /\ backing_retries = [t \in Transaction |-> 0]
  /\ invariant_reported = [t \in Transaction |-> 0]
  /\ settling = [t \in Transaction |-> 0]
  /\ pc = [t \in Transaction |-> [f \in Frame |-> "idle"]]
  /\ todo = [t \in Transaction |-> [f \in Frame |-> {}]]
  /\ caller = [t \in Transaction |-> [f \in Frame |-> "nobody"]]
  /\ storage = [t \in Transaction |-> "none"]
  /\ prepared = [t \in Transaction |-> 0]
  /\ completions = [t \in Transaction |-> 0]
  /\ result = [t \in Transaction |-> "none"]
  /\ degraded = [t \in Transaction |-> 0]

(***************************************************************************)
(* The acknowledgement policy.                                             *)
(***************************************************************************)

\* is_transaction_init_policy: the kind follows from mode and direction.
BackedWrite(t) == mode # "REMOTE_ONLY" /\ direction[t] = "WRITE"

BackedRead(t) == mode # "REMOTE_ONLY" /\ direction[t] = "READ"

Done(path) == path \in {"ok", "error"}

\* is_io_policy_complete_request: the first call only.
CompleteRequest(t, status) ==
  IF request_complete[t] = 1 THEN {}
  ELSE IF status = "ok" THEN {"success"} ELSE {"error"}

\* is_io_policy_finish_write, with both paths done.
FinishWrite(t, l, r) ==
  IF mode # "BACKED_STRICT" /\ r = "ok" THEN CompleteRequest(t, "ok")
  ELSE CompleteRequest(t, l) \cup
         (IF l = "ok" /\ r # "ok" THEN {"local_only"} ELSE {})

\* Fault: a Backing Store error after the acknowledgement is forgotten.
LocalActionsLate(t, status) ==
  (IF status = "error" /\ request_complete[t] = 0 THEN {"degraded"} ELSE {}) \cup
  (IF BackedRead(t) THEN CompleteRequest(t, status)
   ELSE IF Done(remote[t]) THEN FinishWrite(t, status, remote[t])
   ELSE {})

\* is_io_policy_local_complete: the actions that a Backing Store status takes.
LocalActions(t, status) ==
  (IF status = "error" THEN {"degraded"} ELSE {}) \cup
  (IF BackedRead(t) THEN CompleteRequest(t, status)
   ELSE IF Done(remote[t]) THEN FinishWrite(t, status, remote[t])
   ELSE {})

\* Fault: Remote-First reports the RDMA result, whatever it is.
RemoteActionsEager(t, status) ==
  IF mode # "BACKED_STRICT" THEN CompleteRequest(t, status)
  ELSE IF Done(local[t]) THEN FinishWrite(t, local[t], status)
  ELSE {}

\* Fault: a Strict write is acknowledged by its remote copy.
RemoteActionsUnordered(t, status) ==
  IF status = "ok" THEN CompleteRequest(t, "ok")
  ELSE IF BackedRead(t) THEN {"submit_local"}
  ELSE IF Done(local[t]) THEN FinishWrite(t, local[t], status)
  ELSE {}

\* is_io_policy_remote_terminal: the actions that an RDMA status takes.
RemoteActions(t, status) ==
  IF mode = "REMOTE_ONLY" THEN CompleteRequest(t, status)
  ELSE IF BackedRead(t)
    THEN IF status = "ok" THEN CompleteRequest(t, "ok") ELSE {"submit_local"}
  ELSE IF mode = "BACKED_REMOTE_FIRST" /\ status = "ok"
    THEN CompleteRequest(t, "ok")
  ELSE IF Done(local[t]) THEN FinishWrite(t, local[t], status)
  ELSE {}

\* is_transaction_completion_status, the status of an error completion; the
\* paths it reads are final once the policy has decided.
CompletionStatus(t) == IF Done(local[t]) THEN local[t] ELSE remote[t]

\* The policy completes the request by one of these actions.
Completing(actions) == "success" \in actions \/ "error" \in actions

\* Fault: a path that was never used keeps the transaction.
ReleasableBoth(t) ==
  request_complete[t] = 1 /\ Done(local[t]) /\ Done(remote[t])

\* is_io_policy_releasable.
Releasable(t) ==
  request_complete[t] = 1 /\ local[t] # "pending" /\ remote[t] # "pending"

(***************************************************************************)
(* Frames.                                                                 *)
(***************************************************************************)
Over(t, f) == pc[t][f] = "end"

\* A frame goes on when the handlers it called itself have returned.
Returned(t, f) == \A g \in Frame : caller[t][g] = f => Over(t, g)

\* Effect e is the next one of frame f.
Turn(t, f, e) ==
  /\ pc[t][f] = "apply"
  /\ Returned(t, f)
  /\ e \in todo[t][f]
  /\ \A d \in todo[t][f] : Rank(e) <= Rank(d)

DidEffect(t, f, e) == todo' = [todo EXCEPT ![t][f] = @ \ {e}]

\* A handler was triggered and has not begun.
Triggered(t, f) == caller[t][f] # "nobody" /\ pc[t][f] = "idle"

\* is_transaction_begin_event.
BeginEvent(t) == active_events' = [active_events EXCEPT ![t] = @ + 1]

\* is_transaction_note_invariant.
NoteInvariant(t, illegal) ==
  invariant_reported' =
    [invariant_reported EXCEPT ![t] = IF illegal THEN 1 ELSE @]

\* is_queue_rq with is_accept_request: the request is counted and queued.
AcceptRequest(t) ==
  /\ pc[t]["start"] = "idle" /\ caller[t]["start"] = "nobody"
  /\ accepting_io
  /\ inflight' = inflight + 1
  /\ caller' = [caller EXCEPT ![t]["start"] = "async"]
  /\ UNCHANGED <<mode, engine, active_transactions, accepting_io, policyVars,
                 claimVars, pc, todo, adapterVars>>

\* is_remote_io_transaction_start up to the submissions: the engine counts
\* the transaction, adapter_allocate and adapter_prepare may fail.
Start(t) ==
  \E d \in {"READ", "WRITE"}, copied \in {0, 1} :
    LET backed == mode # "REMOTE_ONLY" /\ d = "WRITE"
    IN  /\ Triggered(t, "start")
        /\ engine = "initialized"
        /\ active_transactions' = active_transactions + 1
        /\ direction' = [direction EXCEPT ![t] = d]
        /\ local' = [local EXCEPT ![t] = IF backed THEN "pending" ELSE "none"]
        /\ remote' = [remote EXCEPT ![t] = "pending"]
        /\ claims' = [claims EXCEPT ![t] =
             {"rdma_result", "rdma_transport"} \cup
             (IF backed THEN {"backing"} ELSE {})]
        /\ active_events' = [active_events EXCEPT ![t] = 1]
        /\ pc' = [pc EXCEPT ![t]["start"] = "apply"]
        /\ todo' = [todo EXCEPT ![t]["start"] =
             (IF backed THEN {"submit_local"} ELSE {}) \cup
             (IF copied = 1 THEN {"submit_rdma"}
              ELSE {"release_rdma", "fail_rdma"})]
        /\ storage' = [storage EXCEPT ![t] = "live"]
        /\ prepared' = [prepared EXCEPT ![t] = copied]
        /\ UNCHANGED <<mode, engine, accepting_io, inflight, request_complete,
                       backing_retries, invariant_reported, settling, caller,
                       completions, result, degraded>>

\* is_transaction_reject_start: adapter_allocate failed after the engine
\* counted the transaction; the request is completed with an error.
RejectStart(t) ==
  /\ Triggered(t, "start")
  /\ engine = "initialized"
  /\ active_transactions' = active_transactions + 1
  /\ completions' = [completions EXCEPT ![t] = @ + 1]
  /\ result' = [result EXCEPT ![t] = "error"]
  /\ pc' = [pc EXCEPT ![t]["start"] = "decrement"]
  /\ UNCHANGED <<mode, engine, accepting_io, inflight, policyVars, claimVars,
                 todo, caller, storage, prepared, degraded>>

\* The one retry of a Remote-First write whose Backing Store I/O failed.
Retry(t, status) ==
  /\ status = "error" /\ mode = "BACKED_REMOTE_FIRST"
  /\ direction[t] = "WRITE" /\ backing_retries[t] = 0

\* is_remote_io_transaction_backing_completed: one retry for a Remote-First
\* write, otherwise the policy decides.  A submission that the adapter refused
\* is reported by its caller, with an error.
BackingCompleted(t, f, status) ==
  LET claimed == "backing" \in claims[t]
      retry == claimed /\ Retry(t, status)
      decide == claimed /\ ~retry
      actions == IF local[t] = "pending" THEN LocalActions(t, status) ELSE {}
  IN  /\ f \in {"backing", "retry"}
      /\ Triggered(t, f)
      /\ caller[t][f] # "async" => status = "error"
      /\ BeginEvent(t)
      /\ NoteInvariant(t, ~claimed)
      /\ backing_retries' = [backing_retries EXCEPT ![t] =
                               IF retry THEN @ + 1 ELSE @]
      /\ local' = [local EXCEPT ![t] =
                     IF decide /\ @ = "pending" THEN status ELSE @]
      /\ request_complete' = [request_complete EXCEPT ![t] =
           IF decide /\ Completing(actions) THEN 1 ELSE @]
      /\ claims' = [claims EXCEPT ![t] = IF decide THEN @ \ {"backing"} ELSE @]
      /\ pc' = [pc EXCEPT ![t][f] = "apply"]
      /\ todo' = [todo EXCEPT ![t][f] =
                    IF retry THEN {"submit_local"}
                    ELSE IF decide THEN actions ELSE {}]
      /\ UNCHANGED <<engineVars, direction, remote, settling, caller,
                     adapterVars>>

\* is_remote_io_transaction_rdma_completed, for a result or a cancellation.
RdmaCompleted(t, status) ==
  LET claimed == "rdma_result" \in claims[t]
      actions == IF claimed /\ remote[t] = "pending"
                   THEN RemoteActions(t, status) ELSE {}
  IN  /\ Triggered(t, "result")
      /\ caller[t]["result"] # "async" => status = "error"
      /\ BeginEvent(t)
      /\ NoteInvariant(t, \/ ~claimed
                          \/ "submit_local" \in actions /\ "backing" \in claims[t])
      /\ remote' = [remote EXCEPT ![t] =
                      IF claimed /\ @ = "pending" THEN status ELSE @]
      /\ local' = [local EXCEPT ![t] =
                     IF "submit_local" \in actions THEN "pending" ELSE @]
      /\ request_complete' = [request_complete EXCEPT ![t] =
                                IF Completing(actions) THEN 1 ELSE @]
      /\ claims' = [claims EXCEPT ![t] =
           (@ \ {"rdma_result"}) \cup
           (IF "submit_local" \in actions THEN {"backing"} ELSE {})]
      /\ pc' = [pc EXCEPT ![t]["result"] = "apply"]
      /\ todo' = [todo EXCEPT ![t]["result"] = actions]
      /\ UNCHANGED <<engineVars, direction, backing_retries, settling, caller,
                     adapterVars>>

\* is_remote_io_transaction_rdma_released.
RdmaReleased(t) ==
  /\ Triggered(t, "released")
  /\ BeginEvent(t)
  /\ NoteInvariant(t, "rdma_transport" \notin claims[t])
  /\ claims' = [claims EXCEPT ![t] = @ \ {"rdma_transport"}]
  /\ pc' = [pc EXCEPT ![t]["released"] = "apply"]
  /\ UNCHANGED <<engineVars, policyVars, backing_retries, settling, todo,
                 caller, adapterVars>>

(***************************************************************************)
(* is_transaction_apply_action and the submissions of start.               *)
(***************************************************************************)

\* adapter_backing_degraded and adapter_mark_local_only.
MarkBacking(t, f) ==
  \E e \in {"degraded", "local_only"} :
    /\ Turn(t, f, e)
    /\ DidEffect(t, f, e)
    /\ degraded' = [degraded EXCEPT ![t] = IF e = "degraded" THEN 1 ELSE @]
    /\ UNCHANGED <<engineVars, policyVars, claimVars, pc, caller, storage,
                   prepared, completions, result>>

\* is_transaction_submit_backing: the adapter takes the I/O, or refuses it and
\* the same thread reports the failure.
SubmitBacking(t, f) ==
  LET g == IF caller[t]["backing"] = "nobody" THEN "backing" ELSE "retry"
  IN  /\ Turn(t, f, "submit_local")
      /\ DidEffect(t, f, "submit_local")
      /\ \E who \in {"async", f} : caller' = [caller EXCEPT ![t][g] = who]
      /\ UNCHANGED <<engineVars, policyVars, claimVars, pc, adapterVars>>

\* adapter_complete: the block request ends.
Complete(t, f) ==
  \E e \in {"success", "error"} :
    /\ Turn(t, f, e)
    /\ DidEffect(t, f, e)
    /\ completions' = [completions EXCEPT ![t] = @ + 1]
    /\ result' = [result EXCEPT ![t] =
                     IF e = "success" THEN "ok" ELSE CompletionStatus(t)]
    /\ UNCHANGED <<engineVars, policyVars, claimVars, pc, caller, storage,
                   prepared, degraded>>

\* adapter_submit_rdma: on success the operation owner will deliver one result
\* and one release, in either order.
SubmitRdma(t) ==
  /\ Turn(t, "start", "submit_rdma")
  /\ \/ /\ caller' = [caller EXCEPT ![t]["result"] = "async",
                                    ![t]["released"] = "async"]
        /\ todo' = [todo EXCEPT ![t]["start"] = {}]
     \/ /\ todo' = [todo EXCEPT ![t]["start"] = {"release_rdma", "fail_rdma"}]
        /\ UNCHANGED caller
  /\ UNCHANGED <<engineVars, policyVars, claimVars, pc, adapterVars>>

\* is_transaction_fail_rdma_submission: start itself delivers the release, and
\* then the failed result.
FailRdma(t) ==
  \E e \in {"release_rdma", "fail_rdma"} :
    LET g == IF e = "release_rdma" THEN "released" ELSE "result"
    IN  /\ Turn(t, "start", e)
        /\ DidEffect(t, "start", e)
        /\ caller' = [caller EXCEPT ![t][g] = "start"]
        /\ UNCHANGED <<engineVars, policyVars, claimVars, pc, adapterVars>>

\* Fault: outstanding claims are not looked at.
LastEventUnclaimed(t) == active_events[t] <= 1 /\ settling[t] = 0

\* Fault: the event that finishes is still counted.
LastEventCounted(t) ==
  active_events[t] = 0 /\ claims[t] = {} /\ settling[t] = 0

\* The claims, events and settling flag that make a finish the last one.
LastEvent(t) ==
  active_events[t] <= 1 /\ claims[t] = {} /\ settling[t] = 0

\* is_transaction_finish_event up to the unlock.
FinishEvent(t, f) ==
  /\ pc[t][f] = "apply" /\ todo[t][f] = {}
  /\ Returned(t, f)
  /\ active_events' = [active_events EXCEPT ![t] = IF @ > 0 THEN @ - 1 ELSE 0]
  /\ NoteInvariant(t, LastEvent(t) /\ ~Releasable(t))
  /\ settling' = [settling EXCEPT ![t] =
                    IF LastEvent(t) /\ Releasable(t) THEN 1 ELSE @]
  /\ pc' = [pc EXCEPT ![t][f] =
              IF LastEvent(t) /\ Releasable(t) THEN "release" ELSE "end"]
  /\ UNCHANGED <<engineVars, policyVars, claims, backing_retries, todo, caller,
                 adapterVars>>

\* Fault: the engine is not told.
ReleaseStorageUncounted(t, f) ==
  /\ pc[t][f] = "release"
  /\ storage' = [storage EXCEPT ![t] = "freed"]
  /\ pc' = [pc EXCEPT ![t][f] = "settle"]
  /\ UNCHANGED <<engineVars, policyVars, claimVars, todo, caller, prepared,
                 completions, result, degraded>>

\* adapter_release: frees the pages and the transaction.
ReleaseStorage(t, f) ==
  /\ pc[t][f] = "release"
  /\ storage' = [storage EXCEPT ![t] = "freed"]
  /\ pc' = [pc EXCEPT ![t][f] = "decrement"]
  /\ UNCHANGED <<engineVars, policyVars, claimVars, todo, caller, prepared,
                 completions, result, degraded>>

\* is_engine_counter_decrement.
DecrementEngine(t, f) ==
  /\ pc[t][f] = "decrement"
  /\ active_transactions' = active_transactions - 1
  /\ pc' = [pc EXCEPT ![t][f] = "settle"]
  /\ UNCHANGED <<mode, engine, accepting_io, inflight, policyVars, claimVars,
                 todo, caller, adapterVars>>

\* adapter_settle: is_finish_inflight.
Settle(t, f) ==
  /\ pc[t][f] = "settle"
  /\ inflight' = inflight - 1
  /\ pc' = [pc EXCEPT ![t][f] = "end"]
  /\ UNCHANGED <<mode, engine, active_transactions, accepting_io, policyVars,
                 claimVars, todo, caller, adapterVars>>

\* is_device_drain_locked stops accepting requests ...
StopAccepting ==
  /\ accepting_io
  /\ accepting_io' = FALSE
  /\ UNCHANGED <<mode, engine, active_transactions, inflight, policyVars,
                 claimVars, frameVars, adapterVars>>

\* ... waits for inflight to reach zero, and is_release_resources destroys the
\* engine, which refuses while transactions are active.
EngineDestroy ==
  /\ ~accepting_io /\ inflight = 0
  /\ engine = "initialized"
  /\ engine' = IF active_transactions # 0 THEN "busy" ELSE "destroyed"
  /\ UNCHANGED <<mode, active_transactions, accepting_io, inflight, policyVars,
                 claimVars, frameVars, adapterVars>>

Begin(t) ==
  \/ Start(t) \/ RejectStart(t) \/ RdmaReleased(t)
  \/ \E status \in {"ok", "error"} :
       \/ BackingCompleted(t, "backing", status)
       \/ BackingCompleted(t, "retry", status)
       \/ RdmaCompleted(t, status)

Apply(t) ==
  \/ SubmitRdma(t) \/ FailRdma(t)
  \/ \E f \in Frame :
       \/ MarkBacking(t, f) \/ SubmitBacking(t, f) \/ Complete(t, f)
       \/ FinishEvent(t, f) \/ ReleaseStorage(t, f) \/ DecrementEngine(t, f)
       \/ Settle(t, f)

Step(t) == AcceptRequest(t) \/ Begin(t) \/ Apply(t)

Next == (\E t \in Transaction : Step(t)) \/ StopAccepting \/ EngineDestroy

Spec == Init /\ [][Next]_vars

(***************************************************************************)
(* Fairness: the workqueues run, the Backing Store ends every bio, and the *)
(* operation owner delivers its result and its release                     *)
(* (RdmaOperationOwner!EventuallyFreed with OneTerminalResult).            *)
(***************************************************************************)
FairSpec ==
  Spec /\ \A t \in Transaction : WF_vars(Begin(t)) /\ WF_vars(Apply(t))

-----------------------------------------------------------------------------

\* The type of the state.
TypeOK ==
  /\ mode \in Mode
  /\ engine \in {"initialized", "destroyed", "busy"}
  /\ active_transactions \in Int /\ inflight \in Int
  /\ accepting_io \in BOOLEAN
  /\ direction \in [Transaction -> {"none", "READ", "WRITE"}]
  /\ local \in [Transaction -> {"none", "pending", "ok", "error"}]
  /\ remote \in [Transaction -> {"none", "pending", "ok", "error"}]
  /\ request_complete \in [Transaction -> {0, 1}]
  /\ claims \in [Transaction -> SUBSET Claim]
  /\ active_events \in [Transaction -> Nat]
  /\ backing_retries \in [Transaction -> 0..1]
  /\ invariant_reported \in [Transaction -> {0, 1}]
  /\ settling \in [Transaction -> {0, 1}]
  /\ pc \in [Transaction -> [Frame -> {"idle", "apply", "release", "decrement",
                                       "settle", "end"}]]
  /\ todo \in [Transaction -> [Frame -> SUBSET Effect]]
  /\ caller \in [Transaction -> [Frame -> Frame \cup {"nobody", "async"}]]
  /\ storage \in [Transaction -> {"none", "live", "freed"}]
  /\ prepared \in [Transaction -> {0, 1}]
  /\ completions \in [Transaction -> Nat]
  /\ result \in [Transaction -> {"none", "ok", "error"}]
  /\ degraded \in [Transaction -> {0, 1}]

\* No order of Backing Store completions, RDMA results, cancellations and
\* releases makes an event that adapter_invariant reports, and the last finish
\* always finds the policy releasable.
NoIllegalEvent == \A t \in Transaction : invariant_reported[t] = 0

\* adapter_release frees the transaction only when every handler that was
\* triggered has run: none is inside it, none is still to come.
FreedWhenQuiet ==
  \A t \in Transaction : storage[t] = "freed" =>
    \A f \in Frame :
      ~Triggered(t, f) /\ pc[t][f] \notin {"apply", "release"}

\* The transaction has left the device's inflight count.
Settled(t) ==
  /\ pc[t]["start"] = "end"
  /\ storage[t] \in {"none", "freed"}
  /\ \A f \in Frame : pc[t][f] \notin {"release", "decrement", "settle"}

\* A Backing Store copy that could not be written is never forgotten: when the
\* transaction settles, is_degrade_backing was called for its range exactly if
\* its (last) Backing Store I/O failed, even if the request had long succeeded.
LostCopyReported ==
  \A t \in Transaction :
    storage[t] = "freed" => (degraded[t] = 1 <=> local[t] = "error")

\* A Backing Store I/O that has no pages of its own (a fallback read, or a
\* write whose pages could not be copied) uses the pages of the block request:
\* it is never outstanding once the request was completed.
BorrowedPages ==
  \A t \in Transaction, f \in {"backing", "retry"} :
    Triggered(t, f) /\ (direction[t] = "READ" \/ prepared[t] = 0)
      => completions[t] = 0

\* Once the device is drained no transaction is active any more: is_device_stop
\* never meets a busy engine, and nothing uses the engine after its destroy.
EngineQuiet ==
  /\ engine # "busy"
  /\ engine = "destroyed" =>
       /\ active_transactions = 0
       /\ \A t \in Transaction :
            caller[t]["start"] # "nobody" =>
              Settled(t) /\ \A f \in Frame : ~Triggered(t, f)

\* Every accepted request is eventually completed and its transaction settled,
\* so that is_device_drain_locked stops waiting.
EventuallySettled ==
  \A t \in Transaction : caller[t]["start"] = "async" ~> Settled(t)

-----------------------------------------------------------------------------
(***************************************************************************)
(* The transactions implement the acknowledgement that the documents       *)
(* promise: a rejected start is the only acknowledgement without paths.    *)
(***************************************************************************)
Ack == INSTANCE RequestAcknowledgement WITH
         Request <- Transaction,
         ack <- result,
         settled <- [t \in Transaction |-> storage[t] = "freed"]

\* Every behaviour of the transactions, with all their handlers, is one of the
\* acknowledgement protocol of docs/adr/0004.
ImplementsAcknowledgement == Ack!Spec

=============================================================================
