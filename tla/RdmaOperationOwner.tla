------------------------- MODULE RdmaOperationOwner -------------------------
(***************************************************************************)
(* The lifetime of the RDMA operations of one Provider session             *)
(* (is_rdma_operation_owner.c, with its callers and adapters in is_rdma.c).*)
(*                                                                         *)
(* Three callers deliver events to the owner of an operation: the          *)
(* submitting thread (after ib_post_send), the completion queue, and the   *)
(* delayed work of the Provider Failure Deadline.  Every handler is a      *)
(* locked section (begin), effects run without the lock, and a locked      *)
(* finish; each of these is one action, so the handlers interleave exactly *)
(* where the owner's lock is dropped.                                      *)
(***************************************************************************)
EXTENDS Integers, FiniteSets

CONSTANT Operation      \* the operations the session submits

ASSUME OperationAssumption == IsFiniteSet(Operation)

VARIABLES
  \* struct is_rdma_operation_owner, one per operation
  active_events,        \* handlers between begin and finish
  claims,               \* submit_claim, completion_claim, deadline_claim
  post_state, deadline_state,
  seen,                 \* completion_seen, deadline_seen
  terminal, invariant_reported, destroying,
  \* where each handler is, and the claims its finish will release
  submit_pc, submit_release,
  cq_pc, cq_release,
  deadline_pc, deadline_release,
  \* the environment of the owner
  timer,                \* the delayed work deadline_work
  wr,                   \* the work request given to the HCA
  lease,                \* the Remote Chunk I/O lease taken before posting
  operation_objects,    \* session->operation_objects
  \* how often each adapter effect ran
  published, aborted, released, freed

ownerVars == <<active_events, claims, post_state, deadline_state, seen,
               terminal, invariant_reported, destroying>>
submitVars == <<submit_pc, submit_release>>
cqVars == <<cq_pc, cq_release>>
deadlineVars == <<deadline_pc, deadline_release>>
envVars == <<timer, wr, lease, operation_objects>>
effectVars == <<published, aborted, released, freed>>
vars == <<ownerVars, submitVars, cqVars, deadlineVars, envVars, effectVars>>

Claim == {"submit", "completion", "deadline"}

\* is_rdma_operation_owner_init, and a session without operations.
Init ==
  /\ active_events = [o \in Operation |-> 0]
  /\ claims = [o \in Operation |-> Claim]
  /\ post_state = [o \in Operation |-> "PENDING"]
  /\ deadline_state = [o \in Operation |-> "UNARMED"]
  /\ seen = [o \in Operation |-> {}]
  /\ terminal = [o \in Operation |-> "NONE"]
  /\ invariant_reported = [o \in Operation |-> 0]
  /\ destroying = [o \in Operation |-> 0]
  /\ submit_pc = [o \in Operation |-> "idle"]
  /\ cq_pc = [o \in Operation |-> "idle"]
  /\ deadline_pc = [o \in Operation |-> "idle"]
  /\ submit_release = [o \in Operation |-> {}]
  /\ cq_release = [o \in Operation |-> {}]
  /\ deadline_release = [o \in Operation |-> {}]
  /\ timer = [o \in Operation |-> "unset"]
  /\ wr = [o \in Operation |-> "unposted"]
  /\ lease = [o \in Operation |-> "held"]
  /\ operation_objects = 0
  /\ published = [o \in Operation |-> 0]
  /\ aborted = [o \in Operation |-> 0]
  /\ released = [o \in Operation |-> 0]
  /\ freed = [o \in Operation |-> 0]

(***************************************************************************)
(* Helpers of the handlers.                                                *)
(***************************************************************************)

\* is_owner_begin_event: taken with the lock at the start of every handler.
BeginEvent(o) == active_events' = [active_events EXCEPT ![o] = @ + 1]

\* is_owner_note_invariant, for an event the owner calls illegal.
NoteInvariant(o, illegal) ==
  invariant_reported' =
    [invariant_reported EXCEPT ![o] = IF illegal THEN 1 ELSE @]

\* The event count that is_owner_finish_event leaves.
EventsLeft(o) == IF active_events[o] > 0 THEN active_events[o] - 1 ELSE 0

\* is_owner_finish_event, up to the unlock.
FinishEvent(o, releases) ==
  /\ claims' = [claims EXCEPT ![o] = @ \ releases]
  /\ active_events' = [active_events EXCEPT ![o] = EventsLeft(o)]
  /\ destroying' = [destroying EXCEPT ![o] =
       IF EventsLeft(o) = 0 /\ claims[o] \ releases = {} THEN 1 ELSE @]
  /\ UNCHANGED <<post_state, deadline_state, seen, terminal,
                 invariant_reported>>

\* Fault: the claims of the other handlers are not looked at.
AfterFinishUnclaimed(o, releases) ==
  IF EventsLeft(o) = 0 /\ destroying[o] = 0 THEN "destroy" ELSE "end"

\* The handler that turned destroying on goes on to destroy the operation.
AfterFinish(o, releases) ==
  IF EventsLeft(o) = 0 /\ claims[o] \ releases = {} /\ destroying[o] = 0
    THEN "destroy" ELSE "end"

\* is_remote_chunk_io_lease_resolve and _release, as far as the caller sees:
\* a release is refused, and leaves the lease counted, until it is resolved.
Resolve(l) == IF l = "held" THEN "resolved" ELSE l
Release(l) == IF l = "resolved" THEN "released" ELSE l

\* cancel_delayed_work: true only while the work has not started running.
Cancels(o) == timer[o] = "pending"

(***************************************************************************)
(* The submitting thread: the tail of is_rdma_submit.                      *)
(***************************************************************************)

\* operation_objects++ and ib_post_send; once it is posted the completion may
\* arrive before the submitter runs again.
PostSend(o) ==
  /\ submit_pc[o] = "idle"
  /\ operation_objects' = operation_objects + 1
  /\ \/ /\ wr' = [wr EXCEPT ![o] = "inflight"]
        /\ submit_pc' = [submit_pc EXCEPT ![o] = "post_succeeded"]
     \/ /\ wr' = [wr EXCEPT ![o] = "refused"]
        /\ submit_pc' = [submit_pc EXCEPT ![o] = "post_failed"]
  /\ UNCHANGED <<ownerVars, submit_release, cqVars, deadlineVars, timer, lease,
                 effectVars>>

\* post_succeeded, first locked section.
PostSucceeded(o) ==
  LET legal == post_state[o] = "PENDING"
      arm == legal /\ "completion" \notin seen[o]
  IN  /\ submit_pc[o] = "post_succeeded"
      /\ BeginEvent(o)
      /\ NoteInvariant(o, ~legal)
      /\ post_state' = [post_state EXCEPT ![o] = IF legal THEN "SUCCEEDED" ELSE @]
      /\ deadline_state' = [deadline_state EXCEPT ![o] =
           IF arm THEN "ARMING" ELSE IF legal THEN "CANCELLED" ELSE @]
      /\ submit_pc' = [submit_pc EXCEPT ![o] = IF arm THEN "arm" ELSE "finish"]
      /\ submit_release' = [submit_release EXCEPT ![o] =
           IF arm THEN {"submit"}
           ELSE IF legal THEN {"submit", "deadline"} ELSE {}]
      /\ UNCHANGED <<claims, seen, terminal, destroying, cqVars, deadlineVars,
                     envVars, effectVars>>

\* adapter_arm_deadline: schedule_delayed_work.
ArmDeadline(o) ==
  /\ submit_pc[o] = "arm"
  /\ timer' = [timer EXCEPT ![o] = "pending"]
  /\ submit_pc' = [submit_pc EXCEPT ![o] = "armed"]
  /\ UNCHANGED <<ownerVars, submit_release, cqVars, deadlineVars, wr, lease,
                 operation_objects, effectVars>>

\* post_succeeded, second locked section: what happened while arming.
DeadlineArmed(o) ==
  LET state == IF "deadline" \in seen[o] THEN "FIRED"
               ELSE IF "completion" \in seen[o] THEN "CANCELLING" ELSE "ARMED"
  IN  /\ submit_pc[o] = "armed"
      /\ deadline_state' = [deadline_state EXCEPT ![o] = state]
      /\ submit_pc' = [submit_pc EXCEPT ![o] =
                         IF state = "CANCELLING" THEN "cancel" ELSE "finish"]
      /\ UNCHANGED <<active_events, claims, post_state, seen, terminal,
                     invariant_reported, destroying, submit_release, cqVars,
                     deadlineVars, envVars, effectVars>>

\* post_succeeded: adapter_cancel_deadline.
SubmitCancel(o) ==
  /\ submit_pc[o] = "cancel"
  /\ timer' = [timer EXCEPT ![o] = IF Cancels(o) THEN "cancelled" ELSE @]
  /\ submit_pc' = [submit_pc EXCEPT ![o] =
                     IF Cancels(o) THEN "cancelled" ELSE "finish"]
  /\ UNCHANGED <<ownerVars, submit_release, cqVars, deadlineVars, wr, lease,
                 operation_objects, effectVars>>

\* post_succeeded, third locked section.
SubmitCancelled(o) ==
  LET quiet == "deadline" \notin seen[o]
  IN  /\ submit_pc[o] = "cancelled"
      /\ deadline_state' = [deadline_state EXCEPT ![o] =
                              IF quiet THEN "CANCELLED" ELSE @]
      /\ submit_pc' = [submit_pc EXCEPT ![o] = "finish"]
      /\ submit_release' = [submit_release EXCEPT ![o] =
                              IF quiet THEN @ \cup {"deadline"} ELSE @]
      /\ UNCHANGED <<active_events, claims, post_state, seen, terminal,
                     invariant_reported, destroying, cqVars, deadlineVars,
                     envVars, effectVars>>

\* post_failed, locked section.
PostFailed(o) ==
  LET legal == post_state[o] = "PENDING"
      abort == legal /\ "completion" \notin seen[o]
  IN  /\ submit_pc[o] = "post_failed"
      /\ BeginEvent(o)
      /\ NoteInvariant(o, ~abort)
      /\ post_state' = [post_state EXCEPT ![o] = IF legal THEN "FAILED" ELSE @]
      /\ deadline_state' = [deadline_state EXCEPT ![o] =
                              IF legal THEN "CANCELLED" ELSE @]
      /\ submit_pc' = [submit_pc EXCEPT ![o] = IF abort THEN "abort" ELSE "finish"]
      /\ submit_release' = [submit_release EXCEPT ![o] =
                              IF legal THEN Claim ELSE {}]
      /\ UNCHANGED <<claims, seen, terminal, destroying, cqVars, deadlineVars,
                     envVars, effectVars>>

\* adapter_abort_unposted: unmap, resolve and release the lease.
AbortUnposted(o) ==
  /\ submit_pc[o] = "abort"
  /\ lease' = [lease EXCEPT ![o] = Release(Resolve(@))]
  /\ aborted' = [aborted EXCEPT ![o] = @ + 1]
  /\ submit_pc' = [submit_pc EXCEPT ![o] = "finish"]
  /\ UNCHANGED <<ownerVars, submit_release, cqVars, deadlineVars, timer, wr,
                 operation_objects, published, released, freed>>

\* The finish of post_succeeded and of post_failed.
SubmitFinish(o) ==
  /\ submit_pc[o] = "finish"
  /\ FinishEvent(o, submit_release[o])
  /\ submit_pc' = [submit_pc EXCEPT ![o] = AfterFinish(o, submit_release[o])]
  /\ UNCHANGED <<submit_release, cqVars, deadlineVars, envVars, effectVars>>

(***************************************************************************)
(* The completion queue: is_data_completion -> rdma_completed.             *)
(***************************************************************************)

\* The HCA completes the work request; first locked section.
RdmaCompleted(o) ==
  LET legal == "completion" \notin seen[o] /\ post_state[o] # "FAILED"
  IN  /\ wr[o] = "inflight"
      /\ wr' = [wr EXCEPT ![o] = "completed"]
      /\ BeginEvent(o)
      /\ NoteInvariant(o, ~legal)
      /\ seen' = [seen EXCEPT ![o] = IF legal THEN @ \cup {"completion"} ELSE @]
      /\ terminal' = [terminal EXCEPT ![o] =
                        IF legal /\ @ = "NONE" THEN "COMPLETION" ELSE @]
      /\ cq_pc' = [cq_pc EXCEPT ![o] =
                     IF ~legal THEN "finish"
                     ELSE IF deadline_state[o] = "ARMED" THEN "cancel"
                     ELSE "retire"]
      /\ cq_release' = [cq_release EXCEPT ![o] =
                          IF legal THEN {"completion"} ELSE {}]
      /\ UNCHANGED <<claims, post_state, deadline_state, destroying, submitVars,
                     deadlineVars, timer, lease, operation_objects, effectVars>>

\* Fault: the claim of the cancelled deadline is kept.
CqCancelKeepsClaim(o) ==
  /\ cq_pc[o] = "cancel"
  /\ timer' = [timer EXCEPT ![o] = IF Cancels(o) THEN "cancelled" ELSE @]
  /\ cq_pc' = [cq_pc EXCEPT ![o] = IF Cancels(o) THEN "cancelled" ELSE "retire"]
  /\ UNCHANGED <<ownerVars, submitVars, cq_release, deadlineVars, wr, lease,
                 operation_objects, effectVars>>

\* rdma_completed: adapter_cancel_deadline.
CqCancel(o) ==
  /\ cq_pc[o] = "cancel"
  /\ timer' = [timer EXCEPT ![o] = IF Cancels(o) THEN "cancelled" ELSE @]
  /\ cq_pc' = [cq_pc EXCEPT ![o] = IF Cancels(o) THEN "cancelled" ELSE "retire"]
  /\ cq_release' = [cq_release EXCEPT ![o] =
                      IF Cancels(o) THEN @ \cup {"deadline"} ELSE @]
  /\ UNCHANGED <<ownerVars, submitVars, deadlineVars, wr, lease,
                 operation_objects, effectVars>>

\* rdma_completed, second locked section.
CqCancelled(o) ==
  /\ cq_pc[o] = "cancelled"
  /\ deadline_state' = [deadline_state EXCEPT ![o] = "CANCELLED"]
  /\ cq_pc' = [cq_pc EXCEPT ![o] = "retire"]
  /\ UNCHANGED <<active_events, claims, post_state, seen, terminal,
                 invariant_reported, destroying, submitVars, cq_release,
                 deadlineVars, envVars, effectVars>>

\* Fault: a completion after the deadline publishes a result as well.
RetirePostedPublishes(o) ==
  /\ cq_pc[o] = "retire"
  /\ cq_pc' = [cq_pc EXCEPT ![o] = "publish"]
  /\ UNCHANGED <<ownerVars, submitVars, cq_release, deadlineVars, envVars,
                 effectVars>>

\* adapter_retire_posted: unmap the pages, leave the session's list.  The
\* handler publishes if it was the one that set terminal.
RetirePosted(o) ==
  /\ cq_pc[o] = "retire"
  /\ cq_pc' = [cq_pc EXCEPT ![o] =
                 IF terminal[o] = "COMPLETION" THEN "publish" ELSE "release"]
  /\ UNCHANGED <<ownerVars, submitVars, cq_release, deadlineVars, envVars,
                 effectVars>>

\* adapter_publish_terminal(COMPLETION): resolve the lease, io->complete.
CqPublish(o) ==
  /\ cq_pc[o] = "publish"
  /\ lease' = [lease EXCEPT ![o] = Resolve(@)]
  /\ published' = [published EXCEPT ![o] = @ + 1]
  /\ cq_pc' = [cq_pc EXCEPT ![o] = "release"]
  /\ UNCHANGED <<ownerVars, submitVars, cq_release, deadlineVars, timer, wr,
                 operation_objects, aborted, released, freed>>

\* adapter_release_transferred_io: release the lease, io->release.
ReleaseTransferredIo(o) ==
  /\ cq_pc[o] = "release"
  /\ lease' = [lease EXCEPT ![o] = Release(@)]
  /\ released' = [released EXCEPT ![o] = @ + 1]
  /\ cq_pc' = [cq_pc EXCEPT ![o] = "finish"]
  /\ UNCHANGED <<ownerVars, submitVars, cq_release, deadlineVars, timer, wr,
                 operation_objects, published, aborted, freed>>

\* The finish of rdma_completed.
CqFinish(o) ==
  /\ cq_pc[o] = "finish"
  /\ FinishEvent(o, cq_release[o])
  /\ cq_pc' = [cq_pc EXCEPT ![o] = AfterFinish(o, cq_release[o])]
  /\ UNCHANGED <<submitVars, cq_release, deadlineVars, envVars, effectVars>>

(***************************************************************************)
(* The delayed work: is_operation_deadline -> provider_deadline.           *)
(***************************************************************************)

\* The work starts to run: from here on it can no longer be cancelled.
DeadlineFires(o) ==
  /\ timer[o] = "pending"
  /\ timer' = [timer EXCEPT ![o] = "running"]
  /\ deadline_pc' = [deadline_pc EXCEPT ![o] = "provider_deadline"]
  /\ UNCHANGED <<ownerVars, submitVars, cqVars, deadline_release, wr, lease,
                 operation_objects, effectVars>>

\* provider_deadline, locked section.
ProviderDeadline(o) ==
  LET legal == /\ "deadline" \notin seen[o]
               /\ post_state[o] = "SUCCEEDED"
               /\ deadline_state[o] # "CANCELLED"
      publish == legal /\ "completion" \notin seen[o] /\ terminal[o] = "NONE"
  IN  /\ deadline_pc[o] = "provider_deadline"
      /\ BeginEvent(o)
      /\ NoteInvariant(o, ~legal)
      /\ seen' = [seen EXCEPT ![o] = IF legal THEN @ \cup {"deadline"} ELSE @]
      /\ deadline_state' = [deadline_state EXCEPT ![o] =
                              IF legal THEN "FIRED" ELSE @]
      /\ terminal' = [terminal EXCEPT ![o] = IF publish THEN "DEADLINE" ELSE @]
      /\ deadline_pc' = [deadline_pc EXCEPT ![o] =
                           IF publish THEN "publish" ELSE "finish"]
      /\ deadline_release' = [deadline_release EXCEPT ![o] =
                                IF legal THEN {"deadline"} ELSE {}]
      /\ UNCHANGED <<claims, post_state, destroying, submitVars, cqVars,
                     envVars, effectVars>>

\* adapter_publish_terminal(DEADLINE): resolve the lease as cancelled,
\* io->complete(cancelled), fail the session.
DeadlinePublish(o) ==
  /\ deadline_pc[o] = "publish"
  /\ lease' = [lease EXCEPT ![o] = Resolve(@)]
  /\ published' = [published EXCEPT ![o] = @ + 1]
  /\ deadline_pc' = [deadline_pc EXCEPT ![o] = "finish"]
  /\ UNCHANGED <<ownerVars, submitVars, cqVars, deadline_release, timer, wr,
                 operation_objects, aborted, released, freed>>

\* The finish of provider_deadline.
DeadlineFinish(o) ==
  /\ deadline_pc[o] = "finish"
  /\ FinishEvent(o, deadline_release[o])
  /\ deadline_pc' = [deadline_pc EXCEPT ![o] =
                       AfterFinish(o, deadline_release[o])]
  /\ UNCHANGED <<submitVars, cqVars, deadline_release, envVars, effectVars>>

\* adapter_destroy, by the handler whose finish turned destroying on.
Destroy(o) ==
  /\ \/ /\ submit_pc[o] = "destroy"
        /\ submit_pc' = [submit_pc EXCEPT ![o] = "end"]
        /\ UNCHANGED <<cq_pc, deadline_pc>>
     \/ /\ cq_pc[o] = "destroy"
        /\ cq_pc' = [cq_pc EXCEPT ![o] = "end"]
        /\ UNCHANGED <<submit_pc, deadline_pc>>
     \/ /\ deadline_pc[o] = "destroy"
        /\ deadline_pc' = [deadline_pc EXCEPT ![o] = "end"]
        /\ UNCHANGED <<submit_pc, cq_pc>>
  /\ freed' = [freed EXCEPT ![o] = @ + 1]
  /\ operation_objects' = operation_objects - 1
  /\ UNCHANGED <<ownerVars, submit_release, cq_release, deadline_release,
                 timer, wr, lease, published, aborted, released>>

Submitter(o) ==
  \/ PostSend(o) \/ PostSucceeded(o) \/ ArmDeadline(o) \/ DeadlineArmed(o)
  \/ SubmitCancel(o) \/ SubmitCancelled(o)
  \/ PostFailed(o) \/ AbortUnposted(o) \/ SubmitFinish(o)

Completion(o) ==
  \/ RdmaCompleted(o) \/ CqCancel(o) \/ CqCancelled(o) \/ RetirePosted(o)
  \/ CqPublish(o) \/ ReleaseTransferredIo(o) \/ CqFinish(o)

Deadline(o) ==
  \/ DeadlineFires(o) \/ ProviderDeadline(o) \/ DeadlinePublish(o)
  \/ DeadlineFinish(o)

Step(o) == Submitter(o) \/ Completion(o) \/ Deadline(o) \/ Destroy(o)

Next == \E o \in Operation : Step(o)

Spec == Init /\ [][Next]_vars

(***************************************************************************)
(* Fairness: the submitting thread, the completion context and the         *)
(* workqueue keep running; the HCA completes every posted work request     *)
(* (with a flush error once the queue pair is in the error state, which    *)
(* the deadline and session teardown force).                               *)
(***************************************************************************)
FairSpec ==
  /\ Spec
  /\ \A o \in Operation :
       /\ WF_vars(submit_pc[o] # "idle" /\ Submitter(o))
       /\ WF_vars(Completion(o))
       /\ WF_vars(Deadline(o))
       /\ WF_vars(Destroy(o))

-----------------------------------------------------------------------------

\* The type of the state.
TypeOK ==
  /\ active_events \in [Operation -> Nat]
  /\ claims \in [Operation -> SUBSET Claim]
  /\ post_state \in [Operation -> {"PENDING", "SUCCEEDED", "FAILED"}]
  /\ deadline_state \in [Operation -> {"UNARMED", "ARMING", "ARMED",
                                       "CANCELLING", "CANCELLED", "FIRED"}]
  /\ seen \in [Operation -> SUBSET {"completion", "deadline"}]
  /\ terminal \in [Operation -> {"NONE", "COMPLETION", "DEADLINE"}]
  /\ invariant_reported \in [Operation -> {0, 1}]
  /\ destroying \in [Operation -> {0, 1}]
  /\ submit_pc \in [Operation -> {"idle", "post_succeeded", "arm", "armed",
                                  "cancel", "cancelled", "post_failed",
                                  "abort", "finish", "destroy", "end"}]
  /\ cq_pc \in [Operation -> {"idle", "cancel", "cancelled", "retire",
                              "publish", "release", "finish", "destroy",
                              "end"}]
  /\ deadline_pc \in [Operation -> {"idle", "provider_deadline", "publish",
                                    "finish", "destroy", "end"}]
  /\ submit_release \in [Operation -> SUBSET Claim]
  /\ cq_release \in [Operation -> SUBSET Claim]
  /\ deadline_release \in [Operation -> SUBSET Claim]
  /\ timer \in [Operation -> {"unset", "pending", "running", "cancelled"}]
  /\ wr \in [Operation -> {"unposted", "inflight", "completed", "refused"}]
  /\ lease \in [Operation -> {"held", "resolved", "released"}]
  /\ operation_objects \in Int
  /\ published \in [Operation -> Nat]
  /\ aborted \in [Operation -> Nat]
  /\ released \in [Operation -> Nat]
  /\ freed \in [Operation -> Nat]

\* No interleaving of the real callers delivers an event that the owner
\* classifies as illegal: a deadline after its cancellation was accounted
\* for, a completion of a refused post, a second completion.
NoIllegalEvent == \A o \in Operation : invariant_reported[o] = 0

\* adapter_destroy frees the operation once, when no handler is inside it,
\* the delayed work can no longer run and the HCA no longer owns its pages.
FreedWhenQuiet ==
  \A o \in Operation :
    freed[o] # 0 =>
      /\ freed[o] = 1
      /\ submit_pc[o] = "end"
      /\ cq_pc[o] \in {"idle", "end"}
      /\ deadline_pc[o] \in {"idle", "end"}
      /\ timer[o] # "pending"
      /\ wr[o] # "inflight"

\* "A block request is never completed twice" (docs/adr/0014): completion and
\* deadline together publish one result, and an operation that was posted is
\* not freed before its result was published and its pages were given back.
OneTerminalResult ==
  \A o \in Operation :
    /\ published[o] + aborted[o] <= 1
    /\ released[o] <= 1
    /\ freed[o] # 0 =>
         /\ published[o] + aborted[o] = 1
         /\ released[o] = published[o]

\* An operation that finished before its deadline has returned its lease, so
\* it never holds up an eviction that waits for the leases of its chunk.
LeaseReturnedOnCompletion ==
  \A o \in Operation :
    freed[o] = 1 /\ terminal[o] # "DEADLINE" => lease[o] = "released"

\* What is_operation_release_lease asserts (WARN_ON_ONCE of a failing
\* is_remote_chunk_io_lease_release): every operation that is freed has given
\* its lease back, after a deadline as well.
LeaseReturned ==
  \A o \in Operation : freed[o] = 1 => lease[o] = "released"

\* The operations that is_rdma_submit created and adapter_destroy did not free.
Live == {o \in Operation : submit_pc[o] # "idle" /\ freed[o] = 0}

\* session->operation_objects, which session teardown waits on, counts the
\* operations that still exist.
ObjectsCounted == operation_objects = Cardinality(Live)

\* Whatever the order of completion, deadline and cancellation, an operation
\* given to the HCA is eventually freed, so session teardown can finish.
EventuallyFreed ==
  \A o \in Operation : submit_pc[o] # "idle" ~> freed[o] = 1

-----------------------------------------------------------------------------
(***************************************************************************)
(* The inductive invariant: where the three handlers are determines the    *)
(* claims, the event count, the deadline state and the effects run so far. *)
(***************************************************************************)
Flag(b) == IF b THEN 1 ELSE 0

SubmitBefore(o) == submit_pc[o] \in {"idle", "post_succeeded", "post_failed"}

SubmitOver(o) == submit_pc[o] \in {"destroy", "end"}

SubmitInside(o) == ~SubmitBefore(o) /\ ~SubmitOver(o)

CqOver(o) == cq_pc[o] \in {"destroy", "end"}

CqInside(o) == cq_pc[o] # "idle" /\ ~CqOver(o)

DeadlineBefore(o) == deadline_pc[o] \in {"idle", "provider_deadline"}

DeadlineOver(o) == deadline_pc[o] \in {"destroy", "end"}

DeadlineInside(o) == ~DeadlineBefore(o) /\ ~DeadlineOver(o)

\* The submitter, or the completion, releases the claim of the deadline work:
\* it was never armed, or that handler cancelled it.
SubmitDropsDeadline(o) == "deadline" \in submit_release[o]

CqDropsDeadline(o) == "deadline" \in cq_release[o]

\* What each handler will release follows from where it is.
ReleaseInv(o) ==
  /\ "submit" \in submit_release[o] <=> ~SubmitBefore(o)
  /\ "completion" \in submit_release[o] <=>
       ~SubmitBefore(o) /\ wr[o] = "refused"
  /\ "submit" \notin cq_release[o]
  /\ "completion" \in cq_release[o] <=> cq_pc[o] # "idle"
  /\ "submit" \notin deadline_release[o]
  /\ "completion" \notin deadline_release[o]
  /\ "deadline" \in deadline_release[o] <=> ~DeadlineBefore(o)

\* Claims and active_events follow from where the three handlers are.
ClaimInv(o) ==
  /\ "submit" \in claims[o] <=> ~SubmitOver(o)
  /\ "completion" \in claims[o] <=>
       ~CqOver(o) /\ ~(wr[o] = "refused" /\ SubmitOver(o))
  /\ "deadline" \in claims[o] <=>
       /\ ~(SubmitDropsDeadline(o) /\ SubmitOver(o))
       /\ ~(CqDropsDeadline(o) /\ CqOver(o))
       /\ ~DeadlineOver(o)
  /\ active_events[o] = Flag(SubmitInside(o)) + Flag(CqInside(o))
                          + Flag(DeadlineInside(o))
  /\ destroying[o] = Flag(active_events[o] = 0 /\ claims[o] = {})

\* What the owner has seen follows from where the three handlers are.
SeenInv(o) ==
  /\ invariant_reported[o] = 0
  /\ wr[o] = "unposted" <=> submit_pc[o] = "idle"
  /\ wr[o] = "refused" =>
       submit_pc[o] \in {"post_failed", "abort", "finish", "destroy", "end"}
  /\ submit_pc[o] \in {"post_failed", "abort"} => wr[o] = "refused"
  /\ post_state[o] = IF SubmitBefore(o) THEN "PENDING"
                     ELSE IF wr[o] = "refused" THEN "FAILED" ELSE "SUCCEEDED"
  /\ "completion" \in seen[o] <=> wr[o] = "completed"
  /\ cq_pc[o] # "idle" <=> wr[o] = "completed"
  /\ "deadline" \in seen[o] <=> ~DeadlineBefore(o)
  /\ terminal[o] = "NONE" <=>
       "completion" \notin seen[o] /\ "deadline" \notin seen[o]
  /\ terminal[o] = "COMPLETION" => "completion" \in seen[o]
  /\ terminal[o] = "DEADLINE" => "deadline" \in seen[o]
  /\ deadline_pc[o] = "publish" => terminal[o] = "DEADLINE"
  /\ cq_pc[o] = "publish" => terminal[o] = "COMPLETION"

\* The deadline work is pending or running only while its claim stands, and
\* at most one handler cancels it.
DeadlineInv(o) ==
  /\ timer[o] = "running" <=> deadline_pc[o] # "idle"
  /\ deadline_state[o] = "UNARMED" <=> SubmitBefore(o)
  /\ timer[o] = "unset" <=>
       SubmitBefore(o) \/ submit_pc[o] \in {"arm", "abort"}
         \/ (SubmitDropsDeadline(o) /\ timer[o] # "cancelled")
  /\ submit_pc[o] = "arm" => deadline_state[o] = "ARMING"
  /\ submit_pc[o] = "armed" => deadline_state[o] \in {"ARMING", "FIRED"}
  /\ submit_pc[o] = "cancel" =>
       /\ deadline_state[o] \in {"CANCELLING", "FIRED"}
       /\ timer[o] \in {"pending", "running"}
       /\ "completion" \in seen[o]
  /\ submit_pc[o] = "cancelled" =>
       /\ deadline_state[o] = "CANCELLING"
       /\ timer[o] = "cancelled"
       /\ "completion" \in seen[o]
  /\ SubmitBefore(o) \/ submit_pc[o] \in {"arm", "armed"} =>
       timer[o] # "cancelled"
  /\ SubmitBefore(o) \/ submit_pc[o] \in {"arm", "armed", "cancel", "cancelled"} =>
       ~SubmitDropsDeadline(o)
  /\ wr[o] = "refused" /\ ~SubmitBefore(o) =>
       SubmitDropsDeadline(o) /\ timer[o] = "unset"
  /\ SubmitDropsDeadline(o) =>
       /\ deadline_state[o] = "CANCELLED"
       /\ timer[o] \in {"unset", "cancelled"}
       /\ ~CqDropsDeadline(o)
       /\ cq_pc[o] \notin {"cancel", "cancelled"}
  /\ submit_pc[o] = "finish" \/ SubmitOver(o) =>
       \/ SubmitDropsDeadline(o)
       \/ /\ timer[o] # "unset"
          /\ deadline_state[o] # "ARMING"
          /\ deadline_state[o] = "CANCELLING" => timer[o] = "running"
          /\ deadline_state[o] = "CANCELLED" => CqDropsDeadline(o)
          /\ timer[o] = "cancelled" => CqDropsDeadline(o)
          /\ wr[o] # "refused"
  /\ deadline_state[o] = "FIRED" <=> "deadline" \in seen[o]
  /\ deadline_state[o] = "CANCELLED" => timer[o] \in {"unset", "cancelled"}
  /\ deadline_state[o] = "ARMED" =>
       submit_pc[o] = "finish" \/ SubmitOver(o)
  /\ cq_pc[o] = "cancel" =>
       /\ deadline_state[o] \in {"ARMED", "FIRED"}
       /\ submit_pc[o] = "finish" \/ SubmitOver(o)
       /\ timer[o] \in {"pending", "running"}
       /\ ~CqDropsDeadline(o)
  /\ cq_pc[o] = "cancelled" =>
       deadline_state[o] = "ARMED" /\ CqDropsDeadline(o)
  /\ CqDropsDeadline(o) =>
       /\ cq_pc[o] # "idle"
       /\ timer[o] = "cancelled"
       /\ submit_pc[o] = "finish" \/ SubmitOver(o)
       /\ cq_pc[o] = "cancelled" \/ deadline_state[o] = "CANCELLED"

\* The adapter effects run so far follow from where the handlers are.
EffectInv(o) ==
  /\ published[o] =
       Flag(\/ /\ terminal[o] = "COMPLETION"
               /\ cq_pc[o] \in {"release", "finish", "destroy", "end"}
            \/ /\ terminal[o] = "DEADLINE"
               /\ deadline_pc[o] # "publish")
  /\ aborted[o] =
       Flag(/\ wr[o] = "refused"
            /\ submit_pc[o] \in {"finish", "destroy", "end"})
  /\ released[o] = Flag(cq_pc[o] \in {"finish", "destroy", "end"})
  /\ freed[o] =
       Flag(/\ destroying[o] = 1 /\ submit_pc[o] # "destroy"
            /\ cq_pc[o] # "destroy" /\ deadline_pc[o] # "destroy")
  /\ submit_pc[o] = "destroy" =>
       cq_pc[o] # "destroy" /\ deadline_pc[o] # "destroy"
  /\ cq_pc[o] = "destroy" => deadline_pc[o] # "destroy"
  /\ submit_pc[o] = "destroy" \/ cq_pc[o] = "destroy"
       \/ deadline_pc[o] = "destroy" => destroying[o] = 1
  /\ terminal[o] # "DEADLINE" =>
       lease[o] = IF aborted[o] = 1 \/ released[o] = 1 THEN "released"
                  ELSE IF published[o] = 1 THEN "resolved" ELSE "held"

\* All that is known of one operation.
OperationInv(o) ==
  /\ ReleaseInv(o) /\ ClaimInv(o) /\ SeenInv(o) /\ DeadlineInv(o)
  /\ EffectInv(o)

\* The owner's inductive invariant: every handler's position is consistent
\* with the claims, the event count and the effects of the operation.
OwnerInv == \A o \in Operation : OperationInv(o)

=============================================================================
