---------------------- MODULE RdmaOperationOwner_proofs ----------------------
(*****************************************************************************)
(* The invariants of RdmaOperationOwner, for any finite set of operations.   *)
(* Every handler of an operation (the submitting thread, the completion      *)
(* handler, the deadline work and the final free) keeps the invariant of its *)
(* operation and leaves every other operation alone; what holds of the whole *)
(* session follows.                                                          *)
(*****************************************************************************)
EXTENDS RdmaOperationOwner, TLAPS

(* The handlers of one operation.                                            *)

\* While an event is inside an operation, the operation is neither being
\* destroyed nor freed.
LEMMA EventHeld ==
  ASSUME NEW o \in Operation, OperationInv(o),
         SubmitInside(o) \/ CqInside(o) \/ DeadlineInside(o)
  PROVE  /\ destroying[o] = 0 /\ freed[o] = 0
         /\ submit_pc[o] # "destroy" /\ cq_pc[o] # "destroy"
         /\ deadline_pc[o] # "destroy"
<1> DEFINE S == Flag(SubmitInside(o))
           C == Flag(CqInside(o))
           D == Flag(DeadlineInside(o))
<1>1. active_events[o] = S + C + D
  BY ZenonT(60) DEF OperationInv, ClaimInv
<1>2. /\ S \in {0, 1} /\ C \in {0, 1} /\ D \in {0, 1}
      /\ S = 1 \/ C = 1 \/ D = 1
  BY Zenon DEF Flag
<1>3. active_events[o] # 0
  <2> HIDE DEF S, C, D
  <2> QED
    BY <1>1, <1>2
<1>4. destroying[o] = 0
  BY ZenonT(60), <1>3 DEF OperationInv, ClaimInv, Flag
<1>5. freed[o] = 0
  BY <1>4 DEF OperationInv, EffectInv, Flag
<1>6. /\ submit_pc[o] # "destroy" /\ cq_pc[o] # "destroy"
      /\ deadline_pc[o] # "destroy"
  BY <1>4 DEF OperationInv, EffectInv
<1> QED
  BY Zenon, <1>4, <1>5, <1>6

\* Freeing the operation keeps its invariant: only the handler that turned
\* destroying on frees it.
LEMMA DestroyStep ==
  ASSUME TypeOK, NEW o \in Operation, Destroy(o), OperationInv(o)
  PROVE  OperationInv(o)'
<1> USE DEF TypeOK, Claim, ownerVars, submitVars, cqVars, deadlineVars, envVars,
            effectVars, OperationInv, SubmitBefore, SubmitInside, SubmitOver,
            CqInside, CqOver, DeadlineBefore, DeadlineInside, DeadlineOver,
            SubmitDropsDeadline, CqDropsDeadline, Flag
<1> USE DEF Destroy
<1>1. ReleaseInv(o)'
  BY SMTT(60), Z3T(60), ZenonT(120) DEF ReleaseInv
<1>2. ClaimInv(o)'
  BY SMTT(60), Z3T(60), ZenonT(120) DEF ClaimInv
<1>3. SeenInv(o)'
  BY SMTT(60), Z3T(60), ZenonT(120) DEF SeenInv
<1>4. DeadlineInv(o)'
  BY SMTT(60), Z3T(60), ZenonT(120) DEF ReleaseInv, DeadlineInv
<1>5. EffectInv(o)'
  BY DEF EffectInv
<1> QED
  BY ZenonT(120), <1>1, <1>2, <1>3, <1>4, <1>5

\* Every step of the deadline work keeps its operation's invariant.
LEMMA DeadlineStep ==
  ASSUME TypeOK, NEW o \in Operation, Deadline(o), OperationInv(o)
  PROVE  OperationInv(o)'
<1> USE DEF TypeOK, Claim, ownerVars, submitVars, cqVars, deadlineVars, envVars,
            effectVars, OperationInv, SubmitBefore, SubmitInside, SubmitOver,
            CqInside, CqOver, DeadlineBefore, DeadlineInside, DeadlineOver,
            SubmitDropsDeadline, CqDropsDeadline, Flag
<1>1. CASE DeadlineFires(o)
  <2> USE <1>1 DEF DeadlineFires
  <2>1. ReleaseInv(o)'
    BY SMTT(60), Z3T(60), ZenonT(120) DEF ReleaseInv, DeadlineInv
  <2>2. ClaimInv(o)'
    BY SMTT(60), Z3T(60), ZenonT(120) DEF ClaimInv, DeadlineInv
  <2>3. SeenInv(o)'
    BY SMTT(60), Z3T(60), ZenonT(120) DEF SeenInv, DeadlineInv
  <2>4. DeadlineInv(o)'
    BY SMTT(60), Z3T(60), ZenonT(120) DEF DeadlineInv
  <2>5. EffectInv(o)'
    BY SMTT(60), Z3T(60), ZenonT(120) DEF DeadlineInv, EffectInv
  <2> QED
    BY Zenon, <2>1, <2>2, <2>3, <2>4, <2>5
<1>2. CASE ProviderDeadline(o)
  <2> USE <1>2 DEF ProviderDeadline, BeginEvent, NoteInvariant
  <2>1. ReleaseInv(o)'
    BY SMTT(60), Z3T(60), ZenonT(120) DEF ReleaseInv, SeenInv, DeadlineInv
  <2>2. ClaimInv(o)'
    BY SMTT(60), Z3T(60), ZenonT(120) DEF ClaimInv, DeadlineInv
  <2>3. SeenInv(o)'
    BY SMTT(60), Z3T(60), ZenonT(120) DEF SeenInv, DeadlineInv
  <2>4. DeadlineInv(o)'
    BY SMTT(60), Z3T(60), ZenonT(120) DEF DeadlineInv
  <2>5. EffectInv(o)'
    BY SMTT(60), Z3T(60), ZenonT(120) DEF EffectInv
  <2> QED
    BY ZenonT(120), <2>1, <2>2, <2>3, <2>4, <2>5
<1>3. CASE DeadlinePublish(o)
  <2> USE <1>3 DEF DeadlinePublish, Resolve
  <2>1. ReleaseInv(o)'
    BY SMTT(60), Z3T(60), ZenonT(120) DEF ReleaseInv
  <2>2. ClaimInv(o)'
    BY SMTT(60), Z3T(60), ZenonT(120) DEF ClaimInv
  <2>3. SeenInv(o)'
    BY SMTT(60), Z3T(60), ZenonT(120) DEF SeenInv
  <2>4. DeadlineInv(o)'
    BY SMTT(60), Z3T(60), ZenonT(120) DEF DeadlineInv
  <2>5. EffectInv(o)'
    BY DEF SeenInv, EffectInv
  <2> QED
    BY ZenonT(120), <2>1, <2>2, <2>3, <2>4, <2>5
<1>4. CASE DeadlineFinish(o)
  <2> USE <1>4 DEF DeadlineFinish, FinishEvent, AfterFinish, EventsLeft
  <2>1. ReleaseInv(o)'
    BY SMTT(60), Z3T(60), ZenonT(120) DEF ReleaseInv
  <2>2. ClaimInv(o)'
    BY SMTT(60), Z3T(60), ZenonT(120) DEF ReleaseInv, ClaimInv
  <2>3. SeenInv(o)'
    BY SMTT(60), Z3T(60), ZenonT(120) DEF SeenInv
  <2>4. DeadlineInv(o)'
    BY DEF DeadlineInv
  <2>5. EffectInv(o)'
    <3>1. destroying[o] = 0 /\ freed[o] = 0
      BY ZenonT(60), EventHeld DEF DeadlineInside, DeadlineBefore, DeadlineOver
    <3>2. submit_pc[o] # "destroy" /\ cq_pc[o] # "destroy"
            /\ deadline_pc[o] # "destroy"
      BY ZenonT(60), EventHeld DEF DeadlineInside, DeadlineBefore, DeadlineOver
    <3>3. destroying'[o] = 1 <=> deadline_pc'[o] = "destroy"
      BY SMTT(60), <3>1
    <3> QED
      BY ZenonT(120), <3>1, <3>2, <3>3 DEF EffectInv, SeenInv
  <2> QED
    BY ZenonT(120), <2>1, <2>2, <2>3, <2>4, <2>5
<1> QED
  BY Zenon, <1>1, <1>2, <1>3, <1>4 DEF Deadline

\* Every step of the completion handler keeps its operation's invariant.
LEMMA CompletionStep ==
  ASSUME TypeOK, NEW o \in Operation, Completion(o), OperationInv(o)
  PROVE  OperationInv(o)'
<1> USE DEF TypeOK, Claim, ownerVars, submitVars, cqVars, deadlineVars, envVars,
            effectVars, OperationInv, SubmitBefore, SubmitInside, SubmitOver,
            CqInside, CqOver, DeadlineBefore, DeadlineInside, DeadlineOver,
            SubmitDropsDeadline, CqDropsDeadline, Flag
<1>1. CASE RdmaCompleted(o)
  <2> DEFINE Before ==
        /\ submit_pc'[o] = submit_pc[o] /\ submit_release'[o] = submit_release[o]
        /\ deadline_pc'[o] = deadline_pc[o]
        /\ deadline_release'[o] = deadline_release[o]
        /\ timer'[o] = timer[o] /\ lease'[o] = lease[o]
        /\ claims'[o] = claims[o] /\ post_state'[o] = post_state[o]
        /\ deadline_state'[o] = deadline_state[o]
        /\ destroying'[o] = destroying[o]
        /\ invariant_reported'[o] = invariant_reported[o]
        /\ published'[o] = published[o] /\ aborted'[o] = aborted[o]
        /\ released'[o] = released[o] /\ freed'[o] = freed[o]
  <2>1. /\ "completion" \notin seen[o] /\ post_state[o] # "FAILED"
        /\ cq_pc[o] = "idle" /\ wr[o] = "inflight"
    BY ZenonT(120), <1>1 DEF RdmaCompleted, SeenInv
  <2>2. Before
    BY <1>1, <2>1 DEF RdmaCompleted, NoteInvariant
  <2>3. /\ seen'[o] = seen[o] \cup {"completion"} /\ wr'[o] = "completed"
        /\ cq_release'[o] = {"completion"}
        /\ active_events'[o] = active_events[o] + 1
        /\ terminal'[o] = IF terminal[o] = "NONE" THEN "COMPLETION"
                          ELSE terminal[o]
        /\ cq_pc'[o] = IF deadline_state[o] = "ARMED" THEN "cancel"
                       ELSE "retire"
    BY <1>1, <2>1 DEF RdmaCompleted, BeginEvent
  <2> HIDE DEF TypeOK, ownerVars, submitVars, cqVars, deadlineVars, envVars,
              effectVars
  <2>4. ReleaseInv(o)'
    BY ZenonT(120), <2>1, <2>2, <2>3 DEF ReleaseInv, SeenInv
  <2>5. ClaimInv(o)'
    BY SMTT(60), <2>1, <2>2, <2>3 DEF ClaimInv
  <2>6. SeenInv(o)'
    BY ZenonT(120), <2>1, <2>2, <2>3 DEF SeenInv
  <2>7. DeadlineInv(o)'
    <3>1. timer[o] \in {"unset", "pending", "running", "cancelled"}
      BY Zenon DEF TypeOK
    <3>2. ~CqDropsDeadline(o) /\ wr[o] # "refused"
      BY ZenonT(60), <2>1 DEF DeadlineInv
    <3> QED
      BY SMTT(60), Z3T(60), ZenonT(120), <2>1, <2>2, <2>3, <3>1, <3>2
      DEF DeadlineInv
  <2>8. EffectInv(o)'
    BY SMTT(60), Z3T(60), ZenonT(120), <2>1, <2>2, <2>3 DEF EffectInv, SeenInv
  <2> QED
    BY ZenonT(120), <2>4, <2>5, <2>6, <2>7, <2>8
<1>2. CASE CqCancel(o)
  <2> USE <1>2 DEF CqCancel, Cancels
  <2>1. ReleaseInv(o)'
    BY SMTT(60), Z3T(60), ZenonT(120) DEF ReleaseInv
  <2>2. ClaimInv(o)'
    BY SMTT(60), Z3T(60), ZenonT(120) DEF ClaimInv
  <2>3. SeenInv(o)'
    BY SMTT(60), Z3T(60), ZenonT(120) DEF SeenInv
  <2>4. DeadlineInv(o)'
    BY SMTT(60), Z3T(60), ZenonT(120) DEF SeenInv, DeadlineInv
  <2>5. EffectInv(o)'
    BY DEF EffectInv
  <2> QED
    BY ZenonT(120), <2>1, <2>2, <2>3, <2>4, <2>5
<1>3. CASE CqCancelled(o)
  <2> USE <1>3 DEF CqCancelled
  <2>1. ReleaseInv(o)'
    BY SMTT(60), Z3T(60), ZenonT(120) DEF ReleaseInv
  <2>2. ClaimInv(o)'
    BY SMTT(60), Z3T(60), ZenonT(120) DEF ClaimInv
  <2>3. SeenInv(o)'
    BY SMTT(60), Z3T(60), ZenonT(120) DEF SeenInv
  <2>4. DeadlineInv(o)'
    BY SMTT(60), Z3T(60), ZenonT(120) DEF DeadlineInv
  <2>5. EffectInv(o)'
    BY SMTT(60), Z3T(60), ZenonT(120) DEF EffectInv
  <2> QED
    BY ZenonT(120), <2>1, <2>2, <2>3, <2>4, <2>5
<1>4. CASE RetirePosted(o)
  <2> USE <1>4 DEF RetirePosted
  <2>1. ReleaseInv(o)'
    BY DEF ReleaseInv
  <2>2. ClaimInv(o)'
    BY SMTT(60), Z3T(60), ZenonT(120) DEF ClaimInv
  <2>3. SeenInv(o)'
    BY SMTT(60), Z3T(60), ZenonT(120) DEF SeenInv
  <2>4. DeadlineInv(o)'
    BY SMTT(60), Z3T(60), ZenonT(120) DEF DeadlineInv
  <2>5. EffectInv(o)'
    BY DEF EffectInv
  <2> QED
    BY ZenonT(120), <2>1, <2>2, <2>3, <2>4, <2>5
<1>5. CASE CqPublish(o)
  <2> USE <1>5 DEF CqPublish, Resolve
  <2>1. ReleaseInv(o)'
    BY SMTT(60), Z3T(60), ZenonT(120) DEF ReleaseInv
  <2>2. ClaimInv(o)'
    BY SMTT(60), Z3T(60), ZenonT(120) DEF ClaimInv
  <2>3. SeenInv(o)'
    BY SMTT(60), Z3T(60), ZenonT(120) DEF SeenInv
  <2>4. DeadlineInv(o)'
    BY SMTT(60), Z3T(60), ZenonT(120) DEF DeadlineInv
  <2>5. EffectInv(o)'
    BY DEF SeenInv, EffectInv
  <2> QED
    BY ZenonT(120), <2>1, <2>2, <2>3, <2>4, <2>5
<1>6. CASE ReleaseTransferredIo(o)
  <2> USE <1>6 DEF ReleaseTransferredIo, Release
  <2>1. ReleaseInv(o)'
    BY SMTT(60), Z3T(60), ZenonT(120) DEF ReleaseInv
  <2>2. ClaimInv(o)'
    BY SMTT(60), Z3T(60), ZenonT(120) DEF ClaimInv
  <2>3. SeenInv(o)'
    BY SMTT(60), Z3T(60), ZenonT(120) DEF SeenInv
  <2>4. DeadlineInv(o)'
    BY SMTT(60), Z3T(60), ZenonT(120) DEF DeadlineInv
  <2>5. EffectInv(o)'
    BY DEF SeenInv, EffectInv
  <2> QED
    BY ZenonT(120), <2>1, <2>2, <2>3, <2>4, <2>5
<1>7. CASE CqFinish(o)
  <2> USE <1>7 DEF CqFinish, FinishEvent, AfterFinish, EventsLeft
  <2>1. ReleaseInv(o)'
    BY SMTT(60), Z3T(60), ZenonT(120) DEF ReleaseInv
  <2>2. ClaimInv(o)'
    BY SMTT(60), Z3T(60), ZenonT(120) DEF ReleaseInv, ClaimInv
  <2>3. SeenInv(o)'
    BY SMTT(60), Z3T(60), ZenonT(120) DEF SeenInv
  <2>4. DeadlineInv(o)'
    BY SMTT(60), Z3T(60), ZenonT(120) DEF DeadlineInv
  <2>5. EffectInv(o)'
    <3>1. destroying[o] = 0 /\ freed[o] = 0
      BY ZenonT(60), EventHeld DEF CqInside, CqOver
    <3>2. submit_pc[o] # "destroy" /\ cq_pc[o] # "destroy"
            /\ deadline_pc[o] # "destroy"
      BY ZenonT(60), EventHeld DEF CqInside, CqOver
    <3>3. destroying'[o] = 1 <=> cq_pc'[o] = "destroy"
      BY <3>1
    <3> QED
      BY ZenonT(120), <3>1, <3>2, <3>3 DEF EffectInv, SeenInv
  <2> QED
    BY ZenonT(120), <2>1, <2>2, <2>3, <2>4, <2>5
<1> QED
  BY ZenonT(120), <1>1, <1>2, <1>3, <1>4, <1>5, <1>6, <1>7 DEF Completion

\* Every step of the submitting thread keeps its operation's invariant: arming,
\* cancelling or aborting leaves exactly the claims that are still needed.
LEMMA SubmitterStep ==
  ASSUME TypeOK, NEW o \in Operation, Submitter(o), OperationInv(o)
  PROVE  OperationInv(o)'
<1> USE DEF TypeOK, Claim, ownerVars, submitVars, cqVars, deadlineVars, envVars,
            effectVars, OperationInv, SubmitBefore, SubmitInside, SubmitOver,
            CqInside, CqOver, DeadlineBefore, DeadlineInside, DeadlineOver,
            SubmitDropsDeadline, CqDropsDeadline, Flag
<1>1. CASE PostSend(o)
  <2> USE <1>1 DEF PostSend
  <2>1. ReleaseInv(o)'
    BY SMTT(60), Z3T(60), ZenonT(120) DEF ReleaseInv
  <2>2. ClaimInv(o)'
    BY SMTT(60), Z3T(60), ZenonT(120) DEF ClaimInv
  <2>3. SeenInv(o)'
    BY SMTT(60), Z3T(60), ZenonT(120) DEF SeenInv
  <2>4. DeadlineInv(o)'
    BY SMTT(60), Z3T(60), ZenonT(120) DEF DeadlineInv
  <2>5. EffectInv(o)'
    BY DEF EffectInv
  <2> QED
    BY Zenon, <2>1, <2>2, <2>3, <2>4, <2>5
<1>2. CASE PostSucceeded(o)
  <2> USE <1>2 DEF PostSucceeded, BeginEvent, NoteInvariant
  <2>1. ReleaseInv(o)'
    BY SMTT(60), Z3T(60), ZenonT(120) DEF ReleaseInv, SeenInv
  <2>2. ClaimInv(o)'
    BY SMTT(60), Z3T(60), ZenonT(120) DEF ClaimInv
  <2>3. SeenInv(o)'
    BY SMTT(60), Z3T(60), ZenonT(120) DEF SeenInv
  <2>4. DeadlineInv(o)'
    BY SMTT(60), Z3T(60), ZenonT(120) DEF SeenInv, DeadlineInv
  <2>5. EffectInv(o)'
    BY SMTT(60), Z3T(60), ZenonT(120) DEF SeenInv, EffectInv
  <2> QED
    BY ZenonT(120), <2>1, <2>2, <2>3, <2>4, <2>5
<1>3. CASE ArmDeadline(o)
  <2> USE <1>3 DEF ArmDeadline
  <2>1. ReleaseInv(o)'
    BY SMTT(60), Z3T(60), ZenonT(120) DEF ReleaseInv
  <2>2. ClaimInv(o)'
    BY SMTT(60), Z3T(60), ZenonT(120) DEF ClaimInv
  <2>3. SeenInv(o)'
    BY SMTT(60), Z3T(60), ZenonT(120) DEF SeenInv
  <2>4. DeadlineInv(o)'
    BY SMTT(60), Z3T(60), ZenonT(120) DEF DeadlineInv
  <2>5. EffectInv(o)'
    BY DEF EffectInv
  <2> QED
    BY Zenon, <2>1, <2>2, <2>3, <2>4, <2>5
<1>4. CASE DeadlineArmed(o)
  <2> USE <1>4 DEF DeadlineArmed
  <2>1. ReleaseInv(o)'
    BY SMTT(60), Z3T(60), ZenonT(120) DEF ReleaseInv
  <2>2. ClaimInv(o)'
    BY SMTT(60), Z3T(60), ZenonT(120) DEF ClaimInv
  <2>3. SeenInv(o)'
    BY SMTT(60), Z3T(60), ZenonT(120) DEF SeenInv
  <2>4. DeadlineInv(o)'
    BY SMTT(60), Z3T(60), ZenonT(120) DEF DeadlineInv
  <2>5. EffectInv(o)'
    BY SMTT(60), Z3T(60), ZenonT(120) DEF DeadlineInv, EffectInv
  <2> QED
    BY ZenonT(120), <2>1, <2>2, <2>3, <2>4, <2>5
<1>5. CASE SubmitCancel(o)
  <2> USE <1>5 DEF SubmitCancel, Cancels
  <2>1. ReleaseInv(o)'
    BY SMTT(60), Z3T(60), ZenonT(120) DEF ReleaseInv
  <2>2. ClaimInv(o)'
    BY SMTT(60), Z3T(60), ZenonT(120) DEF ClaimInv
  <2>3. SeenInv(o)'
    BY SMTT(60), Z3T(60), ZenonT(120) DEF SeenInv
  <2>4. DeadlineInv(o)'
    BY SMTT(60), Z3T(60), ZenonT(120) DEF SeenInv, DeadlineInv
  <2>5. EffectInv(o)'
    BY DEF SeenInv, EffectInv
  <2> QED
    BY Zenon, <2>1, <2>2, <2>3, <2>4, <2>5
<1>6. CASE SubmitCancelled(o)
  <2> USE <1>6 DEF SubmitCancelled
  <2>1. ReleaseInv(o)'
    BY SMTT(60), Z3T(60), ZenonT(120) DEF ReleaseInv
  <2>2. ClaimInv(o)'
    BY SMTT(60), Z3T(60), ZenonT(120) DEF ClaimInv
  <2>3. SeenInv(o)'
    BY SMTT(60), Z3T(60), ZenonT(120) DEF SeenInv
  <2>4. DeadlineInv(o)'
    BY SMTT(60), Z3T(60), ZenonT(120) DEF DeadlineInv
  <2>5. EffectInv(o)'
    BY SMTT(60), Z3T(60), ZenonT(120) DEF SeenInv, EffectInv
  <2> QED
    BY Zenon, <2>1, <2>2, <2>3, <2>4, <2>5
<1>7. CASE PostFailed(o)
  <2> USE <1>7 DEF PostFailed, BeginEvent, NoteInvariant
  <2>1. ReleaseInv(o)'
    BY SMTT(60), Z3T(60), ZenonT(120) DEF ReleaseInv, SeenInv
  <2>2. ClaimInv(o)'
    BY SMTT(60), Z3T(60), ZenonT(120) DEF ClaimInv
  <2>3. SeenInv(o)'
    BY SMTT(60), Z3T(60), ZenonT(120) DEF SeenInv
  <2>4. DeadlineInv(o)'
    BY SMTT(60), Z3T(60), ZenonT(120) DEF SeenInv, DeadlineInv
  <2>5. EffectInv(o)'
    BY DEF SeenInv, EffectInv
  <2> QED
    BY ZenonT(120), <2>1, <2>2, <2>3, <2>4, <2>5
<1>8. CASE AbortUnposted(o)
  <2> USE <1>8 DEF AbortUnposted, Resolve, Release
  <2>1. ReleaseInv(o)'
    BY SMTT(60), Z3T(60), ZenonT(120) DEF ReleaseInv
  <2>2. ClaimInv(o)'
    BY SMTT(60), Z3T(60), ZenonT(120) DEF ClaimInv
  <2>3. SeenInv(o)'
    BY SMTT(60), Z3T(60), ZenonT(120) DEF SeenInv
  <2>4. DeadlineInv(o)'
    BY SMTT(60), Z3T(60), ZenonT(120) DEF SeenInv, DeadlineInv
  <2>5. EffectInv(o)'
    BY DEF SeenInv, EffectInv
  <2> QED
    BY ZenonT(120), <2>1, <2>2, <2>3, <2>4, <2>5
<1>9. CASE SubmitFinish(o)
  <2> USE <1>9 DEF SubmitFinish, FinishEvent, AfterFinish, EventsLeft
  <2>1. ReleaseInv(o)'
    BY SMTT(60), Z3T(60), ZenonT(120) DEF ReleaseInv
  <2>2. ClaimInv(o)'
    BY SMTT(60), Z3T(60), ZenonT(120) DEF ReleaseInv, ClaimInv
  <2>3. SeenInv(o)'
    BY SMTT(60), Z3T(60), ZenonT(120) DEF SeenInv
  <2>4. DeadlineInv(o)'
    BY SMTT(60), Z3T(60), ZenonT(120) DEF DeadlineInv
  <2>5. EffectInv(o)'
    BY SMTT(60), Z3T(60), ZenonT(120) DEF EffectInv
  <2> QED
    BY ZenonT(120), <2>1, <2>2, <2>3, <2>4, <2>5
<1> QED
  BY Zenon, <1>1, <1>2, <1>3, <1>4, <1>5, <1>6, <1>7, <1>8, <1>9 DEF Submitter

-----------------------------------------------------------------------------
(* The session.                                                              *)

\* Initially every variable has its type.
LEMMA InitType == Init => TypeOK
  BY SMTT(60) DEF Init, TypeOK, Claim

\* Every step of an operation's handlers keeps the types.
LEMMA TypeStep ==
  ASSUME TypeOK, NEW o \in Operation, Step(o)
  PROVE  TypeOK'
<1> USE DEF TypeOK, Claim, ownerVars, submitVars, cqVars, deadlineVars, envVars,
            effectVars
<1>1. CASE PostSend(o)
  BY SMTT(60), Z3T(60), ZenonT(120), <1>1 DEF PostSend
<1>2. CASE PostSucceeded(o)
  BY <1>2 DEF PostSucceeded, BeginEvent, NoteInvariant
<1>3. CASE ArmDeadline(o)
  BY Zenon, <1>3 DEF ArmDeadline
<1>4. CASE DeadlineArmed(o)
  BY Zenon, <1>4 DEF DeadlineArmed
<1>5. CASE SubmitCancel(o)
  BY Zenon, <1>5 DEF SubmitCancel
<1>6. CASE SubmitCancelled(o)
  BY ZenonT(120), <1>6 DEF SubmitCancelled
<1>7. CASE PostFailed(o)
  BY <1>7 DEF PostFailed, BeginEvent, NoteInvariant
<1>8. CASE AbortUnposted(o)
  BY SMTT(60), Z3T(60), ZenonT(120), <1>8 DEF AbortUnposted, Resolve, Release
<1>9. CASE SubmitFinish(o)
  BY SMTT(60), Z3T(60), ZenonT(120), <1>9
  DEF SubmitFinish, FinishEvent, AfterFinish, EventsLeft
<1>10. CASE RdmaCompleted(o)
  BY <1>10 DEF RdmaCompleted, BeginEvent, NoteInvariant
<1>11. CASE CqCancel(o)
  BY Zenon, <1>11 DEF CqCancel
<1>12. CASE CqCancelled(o)
  BY Zenon, <1>12 DEF CqCancelled
<1>13. CASE RetirePosted(o)
  BY ZenonT(120), <1>13 DEF RetirePosted
<1>14. CASE CqPublish(o)
  BY SMTT(60), Z3T(60), ZenonT(120), <1>14 DEF CqPublish, Resolve
<1>15. CASE ReleaseTransferredIo(o)
  BY SMTT(60), Z3T(60), ZenonT(120), <1>15 DEF ReleaseTransferredIo, Release
<1>16. CASE CqFinish(o)
  BY SMTT(60), Z3T(60), ZenonT(120), <1>16 DEF CqFinish, FinishEvent, AfterFinish, EventsLeft
<1>17. CASE DeadlineFires(o)
  BY ZenonT(120), <1>17 DEF DeadlineFires
<1>18. CASE ProviderDeadline(o)
  BY SMTT(60), Z3T(60), ZenonT(120), <1>18 DEF ProviderDeadline, BeginEvent, NoteInvariant
<1>19. CASE DeadlinePublish(o)
  BY SMTT(60), Z3T(60), ZenonT(120), <1>19 DEF DeadlinePublish, Resolve
<1>20. CASE DeadlineFinish(o)
  BY SMTT(60), Z3T(60), ZenonT(120), <1>20
  DEF DeadlineFinish, FinishEvent, AfterFinish, EventsLeft
<1>21. CASE Destroy(o)
  BY SMTT(60), Z3T(60), ZenonT(120), <1>21 DEF Destroy
<1> QED
  BY ZenonT(120), <1>1, <1>2, <1>3, <1>4, <1>5, <1>6, <1>7, <1>8, <1>9, <1>10,
     <1>11, <1>12,
     <1>13, <1>14, <1>15, <1>16, <1>17, <1>18, <1>19, <1>20, <1>21
     DEF Step, Submitter, Completion, Deadline

\* A step leaves the state of operation p alone.
SameOperation(p) ==
  /\ active_events'[p] = active_events[p] /\ claims'[p] = claims[p]
  /\ post_state'[p] = post_state[p] /\ deadline_state'[p] = deadline_state[p]
  /\ seen'[p] = seen[p] /\ terminal'[p] = terminal[p]
  /\ invariant_reported'[p] = invariant_reported[p]
  /\ destroying'[p] = destroying[p]
  /\ submit_pc'[p] = submit_pc[p] /\ submit_release'[p] = submit_release[p]
  /\ cq_pc'[p] = cq_pc[p] /\ cq_release'[p] = cq_release[p]
  /\ deadline_pc'[p] = deadline_pc[p]
  /\ deadline_release'[p] = deadline_release[p]
  /\ timer'[p] = timer[p] /\ wr'[p] = wr[p] /\ lease'[p] = lease[p]
  /\ published'[p] = published[p] /\ aborted'[p] = aborted[p]
  /\ released'[p] = released[p] /\ freed'[p] = freed[p]

\* The invariant speaks of one operation only.
LEMMA SameInv ==
  ASSUME NEW p \in Operation, OperationInv(p), SameOperation(p)
  PROVE  OperationInv(p)'
<1> USE DEF SameOperation, SubmitBefore, SubmitInside, SubmitOver, CqInside,
            CqOver, DeadlineBefore, DeadlineInside, DeadlineOver,
            SubmitDropsDeadline, CqDropsDeadline, Flag
<1>1. ReleaseInv(p)'
  BY ZenonT(120) DEF OperationInv, ReleaseInv
<1>2. ClaimInv(p)'
  BY ZenonT(120) DEF OperationInv, ClaimInv
<1>3. SeenInv(p)'
  BY ZenonT(120) DEF OperationInv, SeenInv
<1>4. DeadlineInv(p)'
  <2>1. DeadlineInv(p)
    BY ZenonT(60) DEF OperationInv
  <2> QED
    BY SMTT(60), ZenonT(120), <2>1 DEF DeadlineInv
<1>5. EffectInv(p)'
  <2>1. EffectInv(p)
    BY Zenon DEF OperationInv
  <2> QED
    BY SMTT(60), Z3T(60), ZenonT(120), <2>1 DEF EffectInv
<1> QED
  BY Zenon, <1>1, <1>2, <1>3, <1>4, <1>5 DEF OperationInv

\* The handlers of one operation do not touch another.
LEMMA Frame ==
  ASSUME TypeOK, NEW o \in Operation, Step(o), NEW p \in Operation, p # o
  PROVE  SameOperation(p)
<1> USE DEF TypeOK, ownerVars, submitVars, cqVars, deadlineVars, envVars,
            effectVars, SameOperation
<1>1. ASSUME Submitter(o) PROVE SameOperation(p)
  <2>1. CASE PostSend(o)
    BY SMTT(60), ZenonT(120), <2>1 DEF PostSend
  <2>2. CASE PostSucceeded(o)
    BY SMTT(60), ZenonT(120), <2>2 DEF PostSucceeded, BeginEvent, NoteInvariant
  <2>3. CASE ArmDeadline(o)
    BY SMTT(60), ZenonT(120), <2>3 DEF ArmDeadline
  <2>4. CASE DeadlineArmed(o)
    BY SMTT(60), ZenonT(120), <2>4 DEF DeadlineArmed
  <2>5. CASE SubmitCancel(o)
    BY SMTT(60), ZenonT(120), <2>5 DEF SubmitCancel
  <2>6. CASE SubmitCancelled(o)
    BY SMTT(60), ZenonT(120), <2>6 DEF SubmitCancelled
  <2>7. CASE PostFailed(o)
    BY SMTT(60), ZenonT(120), <2>7 DEF PostFailed, BeginEvent, NoteInvariant
  <2>8. CASE AbortUnposted(o)
    BY SMTT(60), ZenonT(120), <2>8 DEF AbortUnposted
  <2>9. CASE SubmitFinish(o)
    BY SMTT(60), ZenonT(120), <2>9 DEF SubmitFinish, FinishEvent
  <2> QED
    BY ZenonT(120), <1>1, <2>1, <2>2, <2>3, <2>4, <2>5, <2>6, <2>7, <2>8, <2>9
    DEF Submitter
<1>2. ASSUME Completion(o) PROVE SameOperation(p)
  <2>1. CASE RdmaCompleted(o)
    BY SMTT(60), ZenonT(120), <2>1 DEF RdmaCompleted, BeginEvent, NoteInvariant
  <2>2. CASE CqCancel(o)
    BY SMTT(60), ZenonT(120), <2>2 DEF CqCancel
  <2>3. CASE CqCancelled(o)
    BY SMTT(60), ZenonT(120), <2>3 DEF CqCancelled
  <2>4. CASE RetirePosted(o)
    BY SMTT(60), ZenonT(120), <2>4 DEF RetirePosted
  <2>5. CASE CqPublish(o)
    BY SMTT(60), ZenonT(120), <2>5 DEF CqPublish
  <2>6. CASE ReleaseTransferredIo(o)
    BY SMTT(60), ZenonT(120), <2>6 DEF ReleaseTransferredIo
  <2>7. CASE CqFinish(o)
    BY SMTT(60), Z3T(60), ZenonT(120), <2>7 DEF CqFinish, FinishEvent
  <2> QED
    BY ZenonT(120), <1>2, <2>1, <2>2, <2>3, <2>4, <2>5, <2>6, <2>7 DEF Completion
<1>3. ASSUME Deadline(o) PROVE SameOperation(p)
  BY SMTT(60), Z3T(60), ZenonT(120), <1>3 DEF Deadline, DeadlineFires, ProviderDeadline, DeadlinePublish,
     DeadlineFinish, BeginEvent, NoteInvariant, FinishEvent
<1>4. ASSUME Destroy(o) PROVE SameOperation(p)
  BY <1>4 DEF Destroy
<1> QED
  BY ZenonT(120), <1>1, <1>2, <1>3, <1>4 DEF Step

------------------------------------------------------------------------------
\* The invariant of every operation survives every step.
LEMMA OwnerStep == TypeOK /\ OwnerInv /\ [Next]_vars => OwnerInv'
<1> SUFFICES ASSUME TypeOK, OwnerInv, [Next]_vars PROVE OwnerInv'
  BY Zenon
<1>1. ASSUME NEW o \in Operation, Step(o) PROVE OwnerInv'
  <2>1. OperationInv(o)'
    BY Zenon, <1>1, SubmitterStep, CompletionStep, DeadlineStep, DestroyStep
       DEF OwnerInv, Step
  <2>2. ASSUME NEW p \in Operation, p # o PROVE OperationInv(p)'
    BY Zenon, <1>1, <2>2, Frame, SameInv DEF OwnerInv
  <2> QED
    BY Zenon, <2>1, <2>2 DEF OwnerInv
<1>2. CASE UNCHANGED vars
  <2>1. ASSUME NEW p \in Operation PROVE SameOperation(p)
    BY ZenonT(120), <1>2 DEF SameOperation, vars, ownerVars, submitVars, cqVars,
       deadlineVars, envVars, effectVars
  <2> QED
    BY Zenon, <2>1, SameInv DEF OwnerInv
<1> QED
  BY Zenon, <1>1, <1>2 DEF Next

\* A new operation holds all three claims and no handler is inside it.
LEMMA OwnerInit == Init => OwnerInv
<1> SUFFICES ASSUME Init, NEW o \in Operation PROVE OperationInv(o)
  BY Zenon DEF OwnerInv
<1>1. /\ submit_pc[o] = "idle" /\ cq_pc[o] = "idle" /\ deadline_pc[o] = "idle"
      /\ submit_release[o] = {} /\ cq_release[o] = {} /\ deadline_release[o] = {}
      /\ claims[o] = Claim /\ seen[o] = {} /\ active_events[o] = 0
      /\ destroying[o] = 0 /\ invariant_reported[o] = 0
      /\ post_state[o] = "PENDING" /\ deadline_state[o] = "UNARMED"
      /\ terminal[o] = "NONE"
  BY Zenon DEF Init
<1>2. /\ timer[o] = "unset" /\ wr[o] = "unposted" /\ lease[o] = "held"
      /\ published[o] = 0 /\ aborted[o] = 0 /\ released[o] = 0 /\ freed[o] = 0
  BY ZenonT(120) DEF Init
<1> USE <1>1, <1>2 DEF SubmitBefore, SubmitInside, SubmitOver, CqInside, CqOver,
        DeadlineBefore, DeadlineInside, DeadlineOver, SubmitDropsDeadline,
        CqDropsDeadline, Flag, Claim
<1>3. ReleaseInv(o)
  BY SMTT(60), Z3T(60), ZenonT(120) DEF ReleaseInv
<1>4. ClaimInv(o)
  BY SMTT(60), Z3T(60), ZenonT(120) DEF ClaimInv
<1>5. SeenInv(o)
  BY SMTT(60), Z3T(60), ZenonT(120) DEF SeenInv
<1>6. DeadlineInv(o)
  BY SMTT(60), Z3T(60), ZenonT(120) DEF DeadlineInv
<1>7. EffectInv(o)
  BY SMTT(60), Z3T(60), ZenonT(120) DEF EffectInv
<1> QED
  BY Zenon, <1>3, <1>4, <1>5, <1>6, <1>7 DEF OperationInv

\* In every reachable state the handlers' positions determine the claims, the
\* event count, the deadline state and the effects of every operation.
THEOREM OwnerCorrect == Spec => [](TypeOK /\ OwnerInv)
<1>1. Init => TypeOK /\ OwnerInv
  BY Zenon, InitType, OwnerInit
<1>2. TypeOK /\ OwnerInv /\ [Next]_vars => (TypeOK /\ OwnerInv)'
  <2>1. TypeOK /\ [Next]_vars => TypeOK'
    <3>1. TypeOK /\ UNCHANGED vars => TypeOK'
      BY SMTT(60), Z3T(60), ZenonT(120) DEF TypeOK, vars, ownerVars, submitVars, cqVars, deadlineVars,
         envVars, effectVars
    <3> QED
      BY ZenonT(120), <3>1, TypeStep DEF Next
  <2> QED
    BY Zenon, <2>1, OwnerStep
<1> QED
  BY <1>1, <1>2, PTL DEF Spec

\* The owner never reports an illegal event, for any number of operations.
THEOREM NeverIllegal == Spec => []NoIllegalEvent
<1>1. OwnerInv => NoIllegalEvent
  BY Zenon DEF OwnerInv, OperationInv, SeenInv, NoIllegalEvent
<1> QED
  BY <1>1, OwnerCorrect, PTL

\* An operation that was freed has no event inside it and no claim left.
LEMMA FreedDone ==
  ASSUME NEW o \in Operation, OperationInv(o), freed[o] # 0
  PROVE  /\ ~SubmitInside(o) /\ ~CqInside(o) /\ ~DeadlineInside(o)
         /\ SubmitOver(o) /\ (CqOver(o) \/ wr[o] = "refused")
         /\ active_events[o] = 0 /\ claims[o] = {}
<1> DEFINE S == Flag(SubmitInside(o))
           C == Flag(CqInside(o))
           D == Flag(DeadlineInside(o))
<1>1. destroying[o] = 1
  BY ZenonT(60) DEF OperationInv, EffectInv, Flag
<1>2. active_events[o] = 0 /\ claims[o] = {}
  <2>1. destroying[o] = Flag(active_events[o] = 0 /\ claims[o] = {})
    BY Zenon DEF OperationInv, ClaimInv
  <2> QED
    BY <1>1, <2>1 DEF Flag
<1>3. S + C + D = 0
  BY ZenonT(60), <1>2 DEF OperationInv, ClaimInv
<1>4. S \in {0, 1} /\ C \in {0, 1} /\ D \in {0, 1}
  BY Zenon DEF Flag
<1>5. S = 0 /\ C = 0 /\ D = 0
  <2> HIDE DEF S, C, D
  <2> QED
    BY <1>3, <1>4
<1>6. ~SubmitInside(o) /\ ~CqInside(o) /\ ~DeadlineInside(o)
  BY <1>5 DEF Flag
<1>7. SubmitOver(o) /\ (CqOver(o) \/ wr[o] = "refused")
  BY ZenonT(60), <1>2 DEF OperationInv, ClaimInv
<1> QED
  BY Zenon, <1>2, <1>6, <1>7

\* An operation is freed once, with no handler inside it, no delayed work that
\* can still run and no work request outstanding.
THEOREM FreedSafely == Spec => []FreedWhenQuiet
<1>1. TypeOK /\ OwnerInv => FreedWhenQuiet
  <2> SUFFICES ASSUME TypeOK, OwnerInv, NEW o \in Operation, freed[o] # 0
      PROVE /\ freed[o] = 1 /\ submit_pc[o] = "end"
            /\ cq_pc[o] \in {"idle", "end"} /\ deadline_pc[o] \in {"idle", "end"}
            /\ timer[o] # "pending" /\ wr[o] # "inflight"
    BY Zenon DEF FreedWhenQuiet
  <2>1. OperationInv(o)
    BY Zenon DEF OwnerInv
  <2>2. /\ freed[o] = 1 /\ destroying[o] = 1 /\ submit_pc[o] # "destroy"
        /\ cq_pc[o] # "destroy" /\ deadline_pc[o] # "destroy"
    BY Zenon, <2>1 DEF OperationInv, EffectInv, Flag
  <2>3. active_events[o] = 0 /\ claims[o] = {}
    BY Zenon, <2>1, FreedDone
  <2>4. ~SubmitInside(o) /\ ~CqInside(o) /\ ~DeadlineInside(o)
    BY Zenon, <2>1, FreedDone
  <2>5. SubmitOver(o)
    BY Zenon, <2>1, FreedDone
  <2>6. submit_pc[o] = "end" /\ cq_pc[o] \in {"idle", "end"}
    BY Zenon, <2>2, <2>4, <2>5 DEF SubmitOver, CqInside, CqOver, TypeOK
  <2>7. wr[o] # "inflight"
    BY ZenonT(120), <2>1, <2>3, <2>5 DEF OperationInv, ClaimInv, SeenInv, CqOver
  <2>8. timer[o] # "pending" /\ deadline_pc[o] \in {"idle", "end"}
    BY ZenonT(120), <2>1, <2>2, <2>3, <2>4
    DEF OperationInv, ClaimInv, DeadlineInv,
       DeadlineInside, DeadlineBefore, DeadlineOver, TypeOK
  <2> QED
    BY Zenon, <2>2, <2>6, <2>7, <2>8
<1> QED
  BY <1>1, OwnerCorrect, PTL

\* The effects of an operation happen at most once, and the result of an
\* operation whose post was refused is its abort alone.
LEMMA EffectsOnce ==
  ASSUME TypeOK, NEW o \in Operation, OperationInv(o)
  PROVE  /\ published[o] \in {0, 1} /\ aborted[o] \in {0, 1}
         /\ released[o] \in {0, 1}
         /\ aborted[o] = 1 => published[o] = 0 /\ released[o] = 0
<1>1. /\ published[o] \in {0, 1} /\ aborted[o] \in {0, 1}
      /\ released[o] \in {0, 1}
  BY ZenonT(60) DEF OperationInv, EffectInv, Flag
<1>2. ASSUME aborted[o] = 1 PROVE published[o] = 0 /\ released[o] = 0
  <2>1. wr[o] = "refused" /\ submit_pc[o] \in {"finish", "destroy", "end"}
    <3> DEFINE refused == /\ wr[o] = "refused"
                          /\ submit_pc[o] \in {"finish", "destroy", "end"}
    <3>1. aborted[o] = Flag(refused)
      BY Zenon DEF OperationInv, EffectInv
    <3>2. refused \/ aborted[o] = 0
      BY Zenon, <3>1 DEF Flag
    <3> HIDE DEF refused
    <3>3. refused
      BY SMT, <1>2, <3>2
    <3> QED
      BY Zenon, <3>3 DEF refused
  <2>2. cq_pc[o] = "idle" /\ "completion" \notin seen[o]
    BY ZenonT(60), <2>1 DEF OperationInv, SeenInv
  <2>3. timer[o] = "unset"
    BY ZenonT(60), <2>1 DEF OperationInv, DeadlineInv, SubmitBefore
  <2>4. "deadline" \notin seen[o]
    BY ZenonT(60), <2>3 DEF OperationInv, DeadlineInv, SeenInv, DeadlineBefore
  <2>5. terminal[o] = "NONE"
    BY ZenonT(60), <2>2, <2>4 DEF OperationInv, SeenInv
  <2> QED
    BY ZenonT(60), <2>2, <2>5 DEF OperationInv, EffectInv, Flag
<1> QED
  BY Zenon, <1>1, <1>2

\* The invariant implies one published result.
LEMMA OneResultState == TypeOK /\ OwnerInv => OneTerminalResult
<1> SUFFICES ASSUME TypeOK, OwnerInv, NEW o \in Operation
    PROVE /\ published[o] + aborted[o] <= 1
          /\ released[o] <= 1
          /\ freed[o] # 0 => /\ published[o] + aborted[o] = 1
                             /\ released[o] = published[o]
  BY Zenon DEF OneTerminalResult
<1>1. OperationInv(o)
  BY ZenonT(60) DEF OwnerInv
<1>2. published[o] + aborted[o] <= 1 /\ released[o] <= 1
  BY <1>1, EffectsOnce
<1>3. ASSUME freed[o] # 0
      PROVE published[o] + aborted[o] = 1 /\ released[o] = published[o]
  <2>1. SubmitOver(o) /\ ~DeadlineInside(o) /\ (CqOver(o) \/ wr[o] = "refused")
    BY Zenon, <1>1, <1>3, FreedDone
  <2>2. CASE wr[o] = "refused"
    <3>1. aborted[o] = 1
      BY ZenonT(60), <1>1, <2>1, <2>2 DEF OperationInv, EffectInv, SubmitOver,
         Flag
    <3> QED
      BY <1>1, <3>1, EffectsOnce
  <2>3. CASE wr[o] # "refused"
    <3>1. aborted[o] = 0 /\ released[o] = 1
      BY ZenonT(60), <1>1, <2>1, <2>3 DEF OperationInv, EffectInv, CqOver, Flag
    <3>2. "completion" \in seen[o]
      BY ZenonT(60), <1>1, <2>1, <2>3 DEF OperationInv, SeenInv, CqOver
    <3>3. terminal[o] \in {"COMPLETION", "DEADLINE"}
      BY ZenonT(60), <1>1, <3>2 DEF OperationInv, SeenInv, TypeOK
    <3>4. deadline_pc[o] # "publish"
      BY ZenonT(60), <2>1 DEF DeadlineInside, DeadlineBefore, DeadlineOver
    <3>5. published[o] = 1
      BY ZenonT(60), <1>1, <2>1, <2>3, <3>3, <3>4
      DEF OperationInv, EffectInv, CqOver, Flag
    <3> QED
      BY <3>1, <3>5
  <2> QED
    BY Zenon, <2>2, <2>3
<1> QED
  BY Zenon, <1>2, <1>3

\* Completion, deadline and refused post publish one result between them.
THEOREM OneResult == Spec => []OneTerminalResult
  BY OneResultState, OwnerCorrect, PTL

\* Without a deadline, a freed operation has returned its chunk's lease.
THEOREM LeaseComesBack == Spec => []LeaseReturnedOnCompletion
<1>1. TypeOK /\ OwnerInv => LeaseReturnedOnCompletion
  <2> SUFFICES ASSUME TypeOK, OwnerInv, NEW o \in Operation, freed[o] = 1,
                      terminal[o] # "DEADLINE"
      PROVE lease[o] = "released"
    BY Zenon DEF LeaseReturnedOnCompletion
  <2>1. OperationInv(o)
    BY Zenon DEF OwnerInv
  <2>2. OneTerminalResult
    BY Zenon, OneResultState
  <2> QED
    BY SMTT(60), Z3T(60), ZenonT(120), <2>1, <2>2
    DEF OperationInv, EffectInv, OneTerminalResult, Flag, TypeOK
<1> QED
  BY <1>1, OwnerCorrect, PTL

-----------------------------------------------------------------------------
(* The objects of the session.                                               *)

INSTANCE FiniteSetTheorems

\* A submitter that goes from one step of its work to another neither begins
\* nor stops being one.
LEMMA StaysActive ==
  ASSUME NEW o \in Operation, \E S : submit_pc \in [Operation -> S],
         submit_pc[o] # "idle", NEW s, s # "idle",
         submit_pc' = [submit_pc EXCEPT ![o] = s]
  PROVE  \A p \in Operation : submit_pc'[p] = "idle" <=> submit_pc[p] = "idle"
<1>1. PICK S : submit_pc \in [Operation -> S]
  BY Zenon
<1> QED
  BY Zenon, <1>1

\* session->operation_objects counts the operations that still exist, so that
\* session teardown, which waits for zero, never outruns a handler.
THEOREM ObjectsCountedAlways == Spec => []ObjectsCounted
<1>1. Init => ObjectsCounted
  <2> SUFFICES ASSUME Init PROVE ObjectsCounted
    BY Zenon
  <2>1. Live = {}
    BY Zenon DEF Init, Live
  <2> QED
    BY Zenon, <2>1, FS_EmptySet DEF Init, ObjectsCounted
<1>2. ASSUME TypeOK, OwnerInv, ObjectsCounted, [Next]_vars
      PROVE  ObjectsCounted'
  <2>0. IsFiniteSet(Live)
    BY Zenon, FS_Subset, OperationAssumption DEF Live
  <2>1. ASSUME Live' = Live, operation_objects' = operation_objects
        PROVE  ObjectsCounted'
    BY Zenon, <1>2, <2>1 DEF ObjectsCounted
  <2>2. ASSUME NEW o \in Operation, PostSend(o) PROVE ObjectsCounted'
    <3>1. submit_pc[o] = "idle" /\ freed[o] = 0
      BY ZenonT(120), <1>2, <2>2
      DEF PostSend, OwnerInv, OperationInv, EffectInv, ClaimInv,
         SubmitOver, Flag
    <3>2. Live' = Live \cup {o} /\ o \notin Live
      BY SMTT(60), <1>2, <2>2, <3>1 DEF PostSend, Live, TypeOK, effectVars
    <3> QED
      BY ZenonT(120), <1>2, <2>0, <2>2, <3>2, FS_AddElement DEF PostSend,
         ObjectsCounted
  <2>3. ASSUME NEW o \in Operation, Destroy(o) PROVE ObjectsCounted'
    <3>1. submit_pc[o] # "idle" /\ freed[o] = 0
      BY ZenonT(120), <1>2, <2>3
      DEF Destroy, OwnerInv, OperationInv, EffectInv, SeenInv,
         DeadlineInv, SubmitBefore, DeadlineBefore, Flag
    <3>2. Live' = Live \ {o} /\ o \in Live
      BY SMTT(60), Z3T(60), ZenonT(120), <1>2, <2>3, <3>1 DEF Destroy, Live, TypeOK
    <3> QED
      BY ZenonT(120), <1>2, <2>0, <2>3, <3>2, FS_RemoveElement DEF Destroy,
         ObjectsCounted
  <2>4. ASSUME NEW o \in Operation, Step(o), ~PostSend(o), ~Destroy(o)
        PROVE  ObjectsCounted'
    <3>0. \E S : submit_pc \in [Operation -> S]
      BY ZenonT(120), <1>2 DEF TypeOK
    <3>1. /\ freed' = freed /\ operation_objects' = operation_objects
          /\ \A p \in Operation : submit_pc'[p] = "idle" <=> submit_pc[p] = "idle"
      <4> USE DEF TypeOK, envVars, effectVars, submitVars
      <4>1. CASE Submitter(o)
        <5>0. ASSUME submit_pc[o] # "idle", NEW s, s # "idle",
                     submit_pc' = [submit_pc EXCEPT ![o] = s]
              PROVE  \A p \in Operation :
                       submit_pc'[p] = "idle" <=> submit_pc[p] = "idle"
          BY ZenonT(120), <3>0, <5>0, StaysActive
        <5>1. CASE PostSucceeded(o)
          BY ZenonT(120), <5>0, <5>1 DEF PostSucceeded
        <5>2. CASE ArmDeadline(o)
          BY Zenon, <5>0, <5>2 DEF ArmDeadline
        <5>3. CASE DeadlineArmed(o)
          BY ZenonT(120), <5>0, <5>3 DEF DeadlineArmed
        <5>4. CASE SubmitCancel(o)
          BY Zenon, <5>0, <5>4 DEF SubmitCancel
        <5>5. CASE SubmitCancelled(o)
          BY Zenon, <5>0, <5>5 DEF SubmitCancelled
        <5>6. CASE PostFailed(o)
          BY Zenon, <5>0, <5>6 DEF PostFailed
        <5>7. CASE AbortUnposted(o)
          BY Zenon, <5>0, <5>7 DEF AbortUnposted
        <5>8. CASE SubmitFinish(o)
          BY Zenon, <5>0, <5>8 DEF SubmitFinish, AfterFinish
        <5> QED
          BY ZenonT(120), <2>4, <4>1, <5>1, <5>2, <5>3, <5>4, <5>5, <5>6, <5>7, <5>8
          DEF Submitter
      <4>2. CASE Completion(o)
        BY ZenonT(120), <1>2, <4>2
        DEF Completion, RdmaCompleted, CqCancel, CqCancelled,
           RetirePosted, CqPublish, ReleaseTransferredIo, CqFinish
      <4>3. CASE Deadline(o)
        BY Zenon, <1>2, <4>3 DEF Deadline, DeadlineFires, ProviderDeadline,
           DeadlinePublish, DeadlineFinish
      <4> QED
        BY ZenonT(120), <2>4, <4>1, <4>2, <4>3 DEF Step
    <3> QED
      BY Zenon, <2>1, <3>1 DEF Live
  <2>5. CASE UNCHANGED vars
    BY Zenon, <2>1, <2>5 DEF vars, envVars, submitVars, effectVars, Live
  <2> QED
    BY ZenonT(120), <1>2, <2>2, <2>3, <2>4, <2>5 DEF Next
<1> QED
  BY <1>1, <1>2, OwnerCorrect, PTL DEF Spec
==============================================================================
