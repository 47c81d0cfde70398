----------------------- MODULE TransactionSteps_proofs ------------------------
(*****************************************************************************)
(* The steps of RemoteIoTransaction keep TransactionInv: what a step leaves  *)
(* alone; the request that starts a transaction and the RDMA operation that  *)
(* start submits or fails; the Backing Store's and the RDMA engine's         *)
(* answers, the effects they have, and the way out of a transaction that is  *)
(* done.                                                                     *)
(*****************************************************************************)
EXTENDS TransactionInvariant, TLAPS


\* The type invariant, for one transaction.
LEMMA TypesAt ==
  ASSUME TypeOK, NEW t \in Transaction
  PROVE  TypeAt(t)
  BY DEF TypeOK, TypeAt

\* Initially every variable has its type.
LEMMA InitType == Init => TypeOK
  BY SMTT(60) DEF Init, TypeOK, Mode

\* The five frames.
LEMMA FrameNames ==
  /\ "start" \in Frame /\ "backing" \in Frame /\ "retry" \in Frame
  /\ "result" \in Frame /\ "released" \in Frame
  BY ZenonT(120) DEF Frame

\* What keeps the claims, the events and where the frames are keeps EventInv.
LEMMA SameEvent ==
  ASSUME NEW t \in Transaction, EventInv(t), SameClaims(t), SamePc(t),
         storage'[t] = storage[t]
  PROVE  EventInv(t)'
  BY SMTT(60), Z3T(60), ZenonT(120)
  DEF EventInv, Inside, SameClaims, SamePc, Started, Leaving, Flag, Frame

\* What keeps the paths, the completions and those still to do keeps
\* CompletionInv.
LEMMA SameCompletion ==
  ASSUME NEW t \in Transaction, CompletionInv(t), SamePolicy(t), SameAnswers(t),
         completions'[t] = completions[t], result'[t] = result[t],
         Started(t)' <=> Started(t),
         pc'[t]["start"] = "idle" <=> pc[t]["start"] = "idle"
  PROVE  CompletionInv(t)'
<1> USE DEF SamePolicy, SameAnswers, CompletionInv, Completing, CompletionStatus,
            Frame, Flag, Done, Ack!Justified, Ack!Status
<1>1. \A f \in Frame :
        ("success" \in todo'[t][f] =>
           "error" \notin todo'[t][f] /\ Ack!Justified(t, "ok")')
  BY Zenon 
<1>2. \A f \in Frame :
        ("error" \in todo'[t][f] =>
           CompletionStatus(t)' = "error" /\ Ack!Justified(t, "error")')
  BY ZenonT(120) 
<1>3. result'[t] = "none" <=> completions'[t] = 0
  BY Zenon 
<1> QED
  BY <1>1, <1>2, <1>3 DEF Started

\* One handler more, or one less, is inside.
LEMMA InsideMoves ==
  ASSUME NEW t \in Transaction, NEW f \in Frame,
         \A g \in Frame \ {f} : pc'[t][g] = pc[t][g]
  PROVE  /\ Inside(t) \in Nat
         /\ pc[t][f] = "apply" =>
              Inside(t) > 0 /\ (pc'[t][f] # "apply" => Inside(t)' = Inside(t) - 1)
         /\ pc[t][f] # "apply" /\ pc'[t][f] = "apply" =>
              Inside(t)' = Inside(t) + 1
         /\ (pc'[t][f] = "apply" <=> pc[t][f] = "apply") =>
              Inside(t)' = Inside(t)
         /\ Inside(t) = 0 => \A g \in Frame : pc[t][g] # "apply"
         /\ Inside(t) = 1 /\ pc[t][f] = "apply" =>
              \A g \in Frame \ {f} : pc[t][g] # "apply"
<1> USE DEF Inside, Flag
<1>1. CASE f = "start"
  BY <1>1 DEF Frame
<1>2. CASE f = "backing"
  BY <1>2 DEF Frame
<1>3. CASE f = "retry"
  BY <1>3 DEF Frame
<1>4. CASE f = "result"
  BY <1>4 DEF Frame
<1>5. CASE f = "released"
  BY <1>5 DEF Frame
<1> QED
  BY Zenon, <1>1, <1>2, <1>3, <1>4, <1>5 DEF Frame

\* A handler that begins while a claim is outstanding finds the transaction
\* alive, and keeps it alive.
LEMMA EventBegins ==
  ASSUME NEW t \in Transaction, NEW f \in Frame, TypeAt(t), EventInv(t),
         Started(t), claims[t] # {}, pc[t][f] = "idle", PcMoves(t, f, "apply"),
         active_events'[t] = active_events[t] + 1, settling'[t] = settling[t],
         storage'[t] = storage[t]
  PROVE  EventInv(t)'
<1>1. settling[t] = 0 /\ active_events[t] \in Nat
  BY Zenon DEF EventInv, TypeAt
<1>2. active_events'[t] = Inside(t)' /\ active_events'[t] # 0
  BY <1>1, InsideMoves DEF EventInv, PcMoves
<1>3. storage'[t] = "live" /\ \A g \in Frame : ~Leaving(t, g)
  BY Zenon, <1>1 DEF EventInv
<1>4. \A g \in Frame : ~Leaving(t, g)'
  BY Zenon, <1>3 DEF Leaving, PcMoves
<1>5. \A g \in Frame : pc'[t][g] # "release"
  BY Zenon, <1>4 DEF Leaving
<1>6. settling'[t] = 0
  BY Zenon, <1>1
<1> QED
  BY Zenon, <1>2, <1>3, <1>4, <1>5, <1>6 DEF EventInv

\* A frame advances, effects are done: FrameInv is kept.
LEMMA FrameKept ==
  ASSUME NEW t \in Transaction, FrameInv(t), SamePolicy(t), SameCaller(t),
         Started(t)' <=> Started(t), FramesAdvance(t),
         \A g \in Frame : todo'[t][g] \subseteq todo[t][g],
         \/ Started(t)
         \/ /\ SameClaims(t) /\ degraded'[t] = degraded[t]
            /\ \/ pc'[t]["start"] = pc[t]["start"]
               \/ pc'[t]["start"] \in {"decrement", "settle", "end"}
  PROVE  FrameInv(t)'
<1>1. /\ \A f \in Frame : caller'[t][f] = "nobody" => pc'[t][f] = "idle"
      /\ \A f \in Frame : pc'[t][f] # "apply" => todo'[t][f] = {}
      /\ caller'[t]["start"] \in {"nobody", "async"}
  <2>1. \A f \in Frame : caller'[t][f] = "nobody" => pc'[t][f] = "idle"
    <3>1. \A f \in Frame : caller[t][f] = "nobody" => pc[t][f] = "idle"
      BY Zenon DEF FrameInv
    <3> QED
      BY Zenon, <3>1 DEF SameCaller, FramesAdvance
  <2>2. \A f \in Frame : pc'[t][f] # "apply" => todo[t][f] = {}
    BY ZenonT(120) DEF FrameInv, FramesAdvance
  <2>3. \A f \in Frame : pc'[t][f] # "apply" => todo'[t][f] = {}
    BY Zenon, <2>2
  <2>4. caller'[t]["start"] = caller[t]["start"]
    BY Zenon, FrameNames DEF SameCaller
  <2> QED
    BY Zenon, <2>1, <2>3, <2>4 DEF FrameInv
<1>2. /\ todo'[t]["start"] \subseteq
           {"submit_local", "submit_rdma", "release_rdma", "fail_rdma"}
      /\ "submit_rdma" \in todo'[t]["start"] =>
           /\ "release_rdma" \notin todo'[t]["start"]
           /\ "fail_rdma" \notin todo'[t]["start"]
      /\ todo'[t]["backing"] \subseteq
           {"degraded", "local_only", "submit_local", "success", "error"}
  BY Zenon, FrameNames DEF FrameInv
<1>3. /\ todo'[t]["retry"] \subseteq
           {"degraded", "local_only", "success", "error"}
      /\ todo'[t]["result"] \subseteq
           {"local_only", "submit_local", "success", "error"}
      /\ todo'[t]["released"] = {}
  BY ZenonT(120), FrameNames DEF FrameInv
<1>4. Started(t)' => pc'[t]["start"] # "idle" /\ direction'[t] # "none"
  BY Zenon, FrameNames DEF FrameInv, SamePolicy, FramesAdvance
<1>5. ~Started(t)' =>
        /\ pc'[t]["start"] \in {"idle", "decrement", "settle", "end"}
        /\ \A f \in Frame \ {"start"} : caller'[t][f] = "nobody"
        /\ claims'[t] = {} /\ settling'[t] = 0
        /\ direction'[t] = "none" /\ local'[t] = "none" /\ remote'[t] = "none"
        /\ request_complete'[t] = 0 /\ backing_retries'[t] = 0
        /\ degraded'[t] = 0
  <2>1. ~Started(t) => pc'[t]["start"] \in {"idle", "decrement", "settle", "end"}
    BY Zenon DEF FrameInv
  <2>2. ~Started(t) => \A f \in Frame \ {"start"} : caller'[t][f] = "nobody"
    <3>1. ~Started(t) => \A f \in Frame \ {"start"} : caller[t][f] = "nobody"
      BY Zenon DEF FrameInv
    <3> QED
      BY Zenon, <3>1 DEF SameCaller
  <2>3. ~Started(t) => SameClaims(t) /\ degraded'[t] = degraded[t]
    BY Zenon 
  <2> QED
    BY Zenon, <2>1, <2>2, <2>3 DEF FrameInv, SamePolicy, SameClaims
<1> QED
  BY Zenon, <1>1, <1>2, <1>3, <1>4, <1>5 DEF FrameInv

\* No submission moves: what is outstanding is kept.
LEMMA OutstandingKept ==
  ASSUME NEW t \in Transaction, SameSubmits(t),
         Triggered(t, "backing")' <=> Triggered(t, "backing"),
         Triggered(t, "retry")' <=> Triggered(t, "retry")
  PROVE  Outstanding(t)' = Outstanding(t)
<1>1. /\ Flag("submit_local" \in todo'[t]["start"]) =
           Flag("submit_local" \in todo[t]["start"])
      /\ Flag("submit_local" \in todo'[t]["result"]) =
           Flag("submit_local" \in todo[t]["result"])
      /\ Flag("submit_local" \in todo'[t]["backing"]) =
           Flag("submit_local" \in todo[t]["backing"])
      /\ Flag(Triggered(t, "backing")') = Flag(Triggered(t, "backing"))
      /\ Flag(Triggered(t, "retry")') = Flag(Triggered(t, "retry"))
  BY Zenon, FrameNames DEF SameSubmits, Flag
<1> HIDE DEF Flag, Triggered
<1> QED
  BY Zenon, <1>1 DEF Outstanding

\* No claim is taken or given up, and no submission moves: ClaimInv is kept.
LEMMA ClaimKept ==
  ASSUME NEW t \in Transaction, ClaimInv(t), SamePolicy(t), SameIdle(t),
         SameSubmits(t), Started(t)' <=> Started(t), claims'[t] = claims[t],
         invariant_reported'[t] = invariant_reported[t],
         \A g \in Frame \ {"start"} :
           caller'[t][g] = "nobody" <=> caller[t][g] = "nobody",
         \A e \in {"submit_rdma", "release_rdma", "fail_rdma"} :
           e \in todo'[t]["start"] <=> e \in todo[t]["start"]
  PROVE  ClaimInv(t)'
<1>1. /\ Triggered(t, "backing")' <=> Triggered(t, "backing")
      /\ Triggered(t, "retry")' <=> Triggered(t, "retry")
  BY Zenon, FrameNames DEF Triggered, SameIdle
<1>2. /\ invariant_reported'[t] = 0
      /\ "rdma_result" \in claims'[t] <=> Started(t)' /\ pc'[t]["result"] = "idle"
      /\ "rdma_transport" \in claims'[t] <=>
           Started(t)' /\ pc'[t]["released"] = "idle"
      /\ "backing" \in claims'[t] <=> local'[t] = "pending"
  BY Zenon, FrameNames DEF ClaimInv, SameIdle, SamePolicy
<1>3. Started(t)' =>
        /\ remote'[t] = "pending" <=> pc'[t]["result"] = "idle"
        /\ remote'[t] # "none"
        /\ caller'[t]["result"] = "nobody" <=>
             \/ "submit_rdma" \in todo'[t]["start"]
             \/ "fail_rdma" \in todo'[t]["start"]
        /\ caller'[t]["released"] = "nobody" <=>
             \/ "submit_rdma" \in todo'[t]["start"]
             \/ "release_rdma" \in todo'[t]["start"]
  BY ZenonT(120), FrameNames DEF ClaimInv, SameIdle, SamePolicy
<1>4. Outstanding(t)' = Flag(local'[t] = "pending")
  BY Zenon, <1>1, OutstandingKept DEF ClaimInv, SamePolicy
<1> QED
  BY Zenon, <1>2, <1>3, <1>4 DEF ClaimInv

\* The Backing Store I/O is where it was: BackingInv is kept.
LEMMA BackingKept ==
  ASSUME NEW t \in Transaction, BackingInv(t), SamePolicy(t), SameIdle(t),
         SameSubmits(t), backing_retries'[t] = backing_retries[t],
         \A g \in {"backing", "retry"} :
           /\ caller'[t][g] = "nobody" <=> caller[t][g] = "nobody"
           /\ "degraded" \in todo'[t][g] <=> "degraded" \in todo[t][g],
         degraded'[t] = degraded[t]
  PROVE  BackingInv(t)'
<1> USE DEF SamePolicy, SameIdle, SameSubmits
<1>1. /\ "submit_local" \in todo'[t]["start"] =>
           caller'[t]["backing"] = "nobody" /\ BackedWrite(t)'
      /\ "submit_local" \in todo'[t]["result"] =>
           caller'[t]["backing"] = "nobody" /\ BackedRead(t)'
      /\ caller'[t]["backing"] = "nobody" => caller'[t]["retry"] = "nobody"
  BY Zenon, FrameNames DEF BackingInv, BackedRead, BackedWrite
<1>2. /\ backing_retries'[t] = 1 <=>
           "submit_local" \in todo'[t]["backing"] \/ caller'[t]["retry"] # "nobody"
      /\ "submit_local" \in todo'[t]["backing"] => caller'[t]["retry"] = "nobody"
  BY Zenon, FrameNames DEF BackingInv
<1>3. /\ pc'[t]["backing"] # "idle" => Done(local'[t]) \/ backing_retries'[t] = 1
      /\ backing_retries'[t] = 1 => pc'[t]["backing"] # "idle"
      /\ pc'[t]["retry"] # "idle" => Done(local'[t])
  BY Zenon, FrameNames DEF BackingInv
<1>4. local'[t] = "error" <=>
        \/ degraded'[t] = 1
        \/ "degraded" \in todo'[t]["backing"] \/ "degraded" \in todo'[t]["retry"]
  BY Zenon DEF BackingInv
<1> QED
  BY Zenon, <1>1, <1>2, <1>3, <1>4 DEF BackingInv

\* The paths are where they were: PolicyInv is kept.
LEMMA PolicyKept ==
  ASSUME NEW t \in Transaction, PolicyInv(t), SamePolicy(t),
         Started(t)' <=> Started(t), prepared'[t] = prepared[t],
         "submit_rdma" \in todo'[t]["start"] => "submit_rdma" \in todo[t]["start"],
         caller'[t]["result"] = "async" =>
           caller[t]["result"] = "async" \/ "submit_rdma" \in todo[t]["start"]
  PROVE  PolicyInv(t)'
<1>1. /\ Decided(t)' <=> Decided(t)
      /\ BackedRead(t)' <=> BackedRead(t)
      /\ BackedWrite(t)' <=> BackedWrite(t)
  BY Zenon DEF SamePolicy, Decided, BackedRead, BackedWrite, Done
<1>2. Flag(Decided(t)') = Flag(Decided(t))
  BY Zenon, <1>1 DEF Flag
<1> HIDE DEF Decided, BackedRead, BackedWrite, Flag
<1> QED
  BY Zenon, <1>1, <1>2 DEF PolicyInv, SamePolicy

\* A transaction that is leaving goes on leaving, alone: EventInv is kept.
LEMMA LeavingKept ==
  ASSUME NEW t \in Transaction, NEW f \in Frame, EventInv(t), Leaving(t, f),
         SameClaims(t), NEW v \in {"decrement", "settle", "end"},
         PcMoves(t, f, v),
         IF pc[t][f] = "release" THEN storage'[t] = "freed"
         ELSE storage'[t] = storage[t]
  PROVE  EventInv(t)'
<1>1. \A g \in Frame \ {f} : ~Leaving(t, g) /\ ~Leaving(t, g)'
  BY Zenon DEF EventInv, PcMoves, Leaving
<1>2. Inside(t)' = Inside(t)
  BY Zenon, InsideMoves DEF PcMoves, Leaving
<1>3. pc'[t][f] # "release"
  BY Zenon DEF PcMoves
<1>4. /\ active_events'[t] = Inside(t)'
      /\ Started(t)' =>
           (settling'[t] = 1 <=> active_events'[t] = 0 /\ claims'[t] = {})
      /\ Started(t)' => settling'[t] # 0
  BY Zenon, <1>2 DEF EventInv, SameClaims, Started
<1>5. storage'[t] = "live" => settling'[t] # 1
  <2> SUFFICES ASSUME storage'[t] = "live", settling'[t] = 1 PROVE FALSE
    BY Zenon 
  <2>1. storage[t] = "live" /\ settling[t] = 1 /\ pc[t][f] # "release"
    BY Zenon DEF SameClaims
  <2> QED
    BY Zenon, <1>1, <2>1 DEF EventInv, Leaving
<1>6. \A g \in Frame : pc'[t][g] # "release"
  BY Zenon, <1>1, <1>3 DEF Leaving
<1>7. \A g \in Frame, h \in Frame : Leaving(t, g)' /\ Leaving(t, h)' => g = h
  BY Zenon, <1>1
<1> QED
  BY Zenon, <1>4, <1>5, <1>6, <1>7 DEF EventInv

\* The handlers of one transaction do not touch another.
LEMMA OtherTransaction ==
  ASSUME TypeOK, NEW t \in Transaction, Step(t), NEW u \in Transaction, u # t
  PROVE  SameTransaction(u)
<1> USE DEF TypeOK, engineVars, policyVars, claimVars, frameVars, adapterVars,
            SameTransaction, SamePolicy, SameClaims, SameAdapter, SamePc,
            SameTodo, SameCaller
<1>1. CASE AcceptRequest(t)
  BY Zenon, <1>1 DEF AcceptRequest
<1>2. CASE Start(t)
  BY <1>2 DEF Start
<1>3. CASE RejectStart(t)
  BY ZenonT(120), <1>3 DEF RejectStart
<1>4. CASE RdmaReleased(t)
  BY ZenonT(120), <1>4 DEF RdmaReleased, BeginEvent, NoteInvariant
<1>5. ASSUME NEW f \in {"backing", "retry"}, NEW status \in {"ok", "error"},
             BackingCompleted(t, f, status)
      PROVE  SameTransaction(u)
  BY <1>5 DEF BackingCompleted, BeginEvent, NoteInvariant
<1>6. ASSUME NEW status \in {"ok", "error"}, RdmaCompleted(t, status)
      PROVE  SameTransaction(u)
  BY <1>6 DEF RdmaCompleted, BeginEvent, NoteInvariant
<1>7. CASE SubmitRdma(t)
  BY <1>7 DEF SubmitRdma
<1>8. CASE FailRdma(t)
  BY <1>8 DEF FailRdma, DidEffect
<1>9. ASSUME NEW f \in Frame, MarkBacking(t, f) PROVE SameTransaction(u)
  BY SMTT(60), Z3T(60), ZenonT(120), <1>9 DEF MarkBacking, DidEffect
<1>10. ASSUME NEW f \in Frame, SubmitBacking(t, f) PROVE SameTransaction(u)
  BY SMTT(60), Z3T(60), ZenonT(120), <1>10 DEF SubmitBacking, DidEffect
<1>11. ASSUME NEW f \in Frame, Complete(t, f) PROVE SameTransaction(u)
  BY <1>11 DEF Complete, DidEffect
<1>12. ASSUME NEW f \in Frame, FinishEvent(t, f) PROVE SameTransaction(u)
  BY ZenonT(120), <1>12 DEF FinishEvent, NoteInvariant
<1>13. ASSUME NEW f \in Frame, ReleaseStorage(t, f) PROVE SameTransaction(u)
  BY ZenonT(120), <1>13 DEF ReleaseStorage
<1>14. ASSUME NEW f \in Frame, DecrementEngine(t, f) PROVE SameTransaction(u)
  BY Zenon, <1>14 DEF DecrementEngine
<1>15. ASSUME NEW f \in Frame, Settle(t, f) PROVE SameTransaction(u)
  BY Zenon, <1>15 DEF Settle
<1> QED
  BY ZenonT(120), <1>1, <1>2, <1>3, <1>4, <1>5, <1>6, <1>7, <1>8, <1>9, <1>10,
     <1>11, <1>12, <1>13, <1>14, <1>15 DEF Step, Begin, Apply

\* Every step of a transaction's handlers keeps the types.
LEMMA TypeStep ==
  ASSUME TypeOK, NEW t \in Transaction, Step(t), TransactionInv(t)
  PROVE  TypeOK'
<1> USE DEF TypeOK, Claim, Effect, Frame, engineVars, policyVars, claimVars,
            frameVars, adapterVars
<1>1. CASE AcceptRequest(t)
  BY <1>1 DEF AcceptRequest
<1>2. CASE Start(t)
  BY <1>2 DEF Start
<1>3. CASE RejectStart(t)
  BY <1>3 DEF RejectStart
<1>4. CASE RdmaReleased(t)
  BY SMTT(60), Z3T(60), ZenonT(120), <1>4
  DEF RdmaReleased, BeginEvent, NoteInvariant
<1>5. ASSUME NEW f \in {"backing", "retry"}, NEW status \in {"ok", "error"},
             BackingCompleted(t, f, status)
      PROVE  TypeOK'
  <2>1. LocalActions(t, status) \in SUBSET Effect
    BY DEF LocalActions, FinishWrite, CompleteRequest
  <2> QED
    BY SMTT(60), Z3T(60), ZenonT(120), <1>5, <2>1
    DEF BackingCompleted, BeginEvent, NoteInvariant, Retry
<1>6. ASSUME NEW status \in {"ok", "error"}, RdmaCompleted(t, status)
      PROVE  TypeOK'
  <2>1. RemoteActions(t, status) \in SUBSET Effect
    BY DEF RemoteActions, FinishWrite, CompleteRequest
  <2> QED
    BY SMTT(60), Z3T(60), ZenonT(120), <1>6, <2>1
    DEF RdmaCompleted, BeginEvent, NoteInvariant
<1>7. CASE SubmitRdma(t)
  <2>0. {"release_rdma", "fail_rdma"} \in SUBSET Effect
    BY Zenon 
  <2>1. /\ caller' \in [Transaction -> [Frame -> Frame \cup {"nobody", "async"}]]
        /\ todo' \in [Transaction -> [Frame -> SUBSET Effect]]
    <3> HIDE DEF Frame, Effect
    <3>1. CASE /\ caller' = [caller EXCEPT ![t]["result"] = "async",
                                           ![t]["released"] = "async"]
               /\ todo' = [todo EXCEPT ![t]["start"] = {}]
      <4> DEFINE c == [caller EXCEPT ![t]["result"] = "async"]
      <4>1. c \in [Transaction -> [Frame -> Frame \cup {"nobody", "async"}]]
        BY Zenon, FrameNames
      <4>2. caller' = [c EXCEPT ![t]["released"] = "async"]
        BY Zenon, <3>1, FrameNames
      <4> HIDE DEF c
      <4>3. caller' \in [Transaction -> [Frame -> Frame \cup {"nobody", "async"}]]
        BY Zenon, <4>1, <4>2, FrameNames
      <4>4. todo' \in [Transaction -> [Frame -> SUBSET Effect]]
        BY Zenon, <3>1, FrameNames
      <4> QED
        BY Zenon, <4>3, <4>4
    <3>2. CASE /\ todo' = [todo EXCEPT ![t]["start"] =
                             {"release_rdma", "fail_rdma"}]
               /\ UNCHANGED caller
      BY ZenonT(120), <2>0, <3>2, FrameNames
    <3> QED
      BY Zenon, <1>7, <3>1, <3>2 DEF SubmitRdma
  <2> QED
    BY Zenon, <1>7, <2>1 DEF SubmitRdma
<1>8. CASE FailRdma(t)
  BY SMTT(60), Z3T(60), ZenonT(120), <1>8 DEF FailRdma, DidEffect
<1>9. ASSUME NEW f \in Frame, MarkBacking(t, f) PROVE TypeOK'
  BY SMTT(60), Z3T(60), ZenonT(120), <1>9 DEF MarkBacking, DidEffect
<1>10. ASSUME NEW f \in Frame, SubmitBacking(t, f) PROVE TypeOK'
  BY SMTT(60), Z3T(60), ZenonT(120), <1>10 DEF SubmitBacking, DidEffect
<1>11. ASSUME NEW f \in Frame, Complete(t, f) PROVE TypeOK'
  <2>1. result' \in [Transaction -> {"none", "ok", "error"}]
    <3>1. PICK e \in {"success", "error"} :
            /\ e \in todo[t][f]
            /\ result' = [result EXCEPT ![t] =
                            IF e = "success" THEN "ok" ELSE CompletionStatus(t)]
      BY ZenonT(120), <1>11 DEF Complete, Turn
    <3>2. e = "error" => CompletionStatus(t) = "error"
      BY ZenonT(120), <1>11, <3>1 DEF TransactionInv, CompletionInv
    <3> HIDE DEF CompletionStatus
    <3> QED
      BY Zenon, <3>1, <3>2
  <2> QED
    BY <1>11, <2>1 DEF Complete, DidEffect
<1>12. ASSUME NEW f \in Frame, FinishEvent(t, f) PROVE TypeOK'
  BY <1>12 DEF FinishEvent, NoteInvariant
<1>13. ASSUME NEW f \in Frame, ReleaseStorage(t, f) PROVE TypeOK'
  BY Zenon, <1>13 DEF ReleaseStorage
<1>14. ASSUME NEW f \in Frame, DecrementEngine(t, f) PROVE TypeOK'
  BY <1>14 DEF DecrementEngine
<1>15. ASSUME NEW f \in Frame, Settle(t, f) PROVE TypeOK'
  BY <1>15 DEF Settle
<1> QED
  BY ZenonT(120), <1>1, <1>2, <1>3, <1>4, <1>5, <1>6, <1>7, <1>8, <1>9, <1>10,
     <1>11, <1>12, <1>13, <1>14, <1>15 DEF Step, Begin, Apply

\* The invariant of a transaction speaks of that transaction only.
LEMMA SameInv ==
  ASSUME NEW t \in Transaction, TransactionInv(t), SameTransaction(t)
  PROVE  TransactionInv(t)'
<1> USE DEF SameTransaction, SameAdapter, TransactionInv
<1>1. Started(t)' <=> Started(t)
  BY Zenon DEF Started
<1>2. SameIdle(t) /\ SameSubmits(t) /\ SameAnswers(t)
  BY Zenon DEF SameIdle, SameSubmits, SameAnswers, SamePc, SameTodo
<1>3. FrameInv(t)'
  BY Zenon, <1>1, FrameKept, FrameNames DEF FramesAdvance, SamePc, SameTodo
<1>4. ClaimInv(t)'
  BY Zenon, <1>1, <1>2, ClaimKept, FrameNames
  DEF SameClaims, SameTodo, SameCaller
<1>5. BackingInv(t)'
  BY Zenon, <1>2, BackingKept, FrameNames DEF SameClaims, SameTodo, SameCaller
<1>6. PolicyInv(t)'
  BY Zenon, <1>1, PolicyKept, FrameNames DEF SameTodo, SameCaller
<1>7. CompletionInv(t)'
  BY Zenon, <1>1, <1>2, SameCompletion, FrameNames DEF SamePc
<1>8. EventInv(t)'
  BY Zenon, SameEvent
<1> QED
  BY Zenon, <1>3, <1>4, <1>5, <1>6, <1>7, <1>8

\* A request that is accepted changes nothing for its transaction yet.
LEMMA AcceptStep ==
  ASSUME TypeOK, NEW t \in Transaction, TransactionInv(t), AcceptRequest(t)
  PROVE  TransactionInv(t)'
<1>1. /\ SamePolicy(t) /\ SameClaims(t) /\ SameAdapter(t)
      /\ SamePc(t) /\ SameTodo(t) /\ CallerMoves(t, "start", "async")
  BY ZenonT(120), FrameNames DEF AcceptRequest, TypeOK, SamePolicy, SameClaims,
     SameAdapter, SamePc, SameTodo, CallerMoves, engineVars, policyVars,
     claimVars, adapterVars
<1> USE DEF TransactionInv, SameAdapter
<1>2. Started(t)' <=> Started(t)
  BY Zenon, <1>1 DEF Started
<1>3. SameIdle(t) /\ SameSubmits(t) /\ SameAnswers(t)
  BY Zenon, <1>1 DEF SameIdle, SameSubmits, SameAnswers, SamePc, SameTodo
<1>4. FrameInv(t)'
  BY <1>1, FrameNames DEF FrameInv, Started, SamePolicy, SameClaims, SamePc,
     SameTodo, CallerMoves
<1>5. ClaimInv(t)'
  BY Zenon, <1>1, <1>2, <1>3, ClaimKept, FrameNames
  DEF SameClaims, SameTodo, CallerMoves
<1>6. BackingInv(t)'
  BY Zenon, <1>1, <1>3, BackingKept, FrameNames
  DEF SameClaims, SameTodo, CallerMoves
<1>7. PolicyInv(t)'
  BY Zenon, <1>1, <1>2, PolicyKept, FrameNames DEF SameTodo, CallerMoves
<1>8. CompletionInv(t)'
  BY Zenon, <1>1, <1>2, <1>3, SameCompletion, FrameNames DEF SamePc
<1>9. EventInv(t)'
  BY Zenon, <1>1, SameEvent
<1> QED
  BY Zenon, <1>4, <1>5, <1>6, <1>7, <1>8, <1>9

\* Before start ran, the transaction is as it was initially.
LEMMA FreshTransaction ==
  ASSUME TypeOK, NEW t \in Transaction, TransactionInv(t), Triggered(t, "start")
  PROVE  /\ ~Started(t) /\ request_complete[t] = 0 /\ backing_retries[t] = 0
         /\ settling[t] = 0 /\ degraded[t] = 0 /\ caller[t]["start"] = "async"
         /\ invariant_reported[t] = 0 /\ pc[t]["start"] = "idle"
         /\ completions[t] = 0 /\ result[t] = "none"
         /\ active_events[t] = 0 /\ todo[t]["start"] = {}
         /\ \A g \in Frame \ {"start"} :
              caller[t][g] = "nobody" /\ pc[t][g] = "idle" /\ todo[t][g] = {}
<1> USE DEF TransactionInv, Started, Flag, Frame, Triggered
<1>1. TypeAt(t)
  BY Zenon, TypesAt
<1>2. /\ ~Started(t) /\ request_complete[t] = 0 /\ backing_retries[t] = 0
      /\ settling[t] = 0 /\ degraded[t] = 0 /\ caller[t]["start"] = "async"
      /\ invariant_reported[t] = 0 /\ pc[t]["start"] = "idle"
      /\ todo[t]["start"] = {}
  BY Zenon DEF FrameInv, ClaimInv
<1>3. \A g \in Frame \ {"start"} :
        caller[t][g] = "nobody" /\ pc[t][g] = "idle" /\ todo[t][g] = {}
  BY ZenonT(120), <1>2 DEF FrameInv
<1>4. completions[t] = 0
  <2>1. completions[t] \in Nat
    BY Zenon, <1>1 DEF TypeAt
  <2>2. \A g \in Frame : ~Completing(todo[t][g])
    BY ZenonT(120), <1>2, <1>3 DEF Completing
  <2> QED
    BY SMTT(60), Z3T(60), <1>2, <2>1, <2>2 DEF CompletionInv
<1>5. result[t] = "none"
  BY ZenonT(120), <1>4 DEF CompletionInv
<1>6. active_events[t] = 0
  BY <1>2, <1>3 DEF EventInv, Inside
<1> QED
  BY Zenon, <1>2, <1>3, <1>4, <1>5, <1>6

\* Start hands out the claims and the submissions that they stand for.
LEMMA StartStep ==
  ASSUME TypeOK, NEW t \in Transaction, TransactionInv(t), Start(t)
  PROVE  TransactionInv(t)'
<1>1. PICK d \in {"READ", "WRITE"}, copied \in {0, 1} :
        /\ direction'[t] = d /\ mode' = mode
        /\ local'[t] = IF mode # "REMOTE_ONLY" /\ d = "WRITE" THEN "pending"
                       ELSE "none"
        /\ remote'[t] = "pending" /\ request_complete'[t] = request_complete[t]
        /\ claims'[t] = {"rdma_result", "rdma_transport"} \cup
             (IF mode # "REMOTE_ONLY" /\ d = "WRITE" THEN {"backing"} ELSE {})
        /\ active_events'[t] = 1 /\ backing_retries'[t] = backing_retries[t]
        /\ invariant_reported'[t] = invariant_reported[t]
        /\ settling'[t] = settling[t]
        /\ storage'[t] = "live" /\ prepared'[t] = copied
        /\ completions'[t] = completions[t] /\ result'[t] = result[t]
        /\ degraded'[t] = degraded[t]
        /\ PcMoves(t, "start", "apply")
        /\ TodoMoves(t, "start",
             (IF mode # "REMOTE_ONLY" /\ d = "WRITE" THEN {"submit_local"}
              ELSE {}) \cup
             (IF copied = 1 THEN {"submit_rdma"}
              ELSE {"release_rdma", "fail_rdma"}))
        /\ SameCaller(t)
        /\ Triggered(t, "start")
  BY SMTT(60), FrameNames DEF Start, TypeOK, SameCaller, PcMoves, TodoMoves
<1>2. /\ ~Started(t) /\ request_complete[t] = 0 /\ backing_retries[t] = 0
      /\ settling[t] = 0 /\ degraded[t] = 0 /\ caller[t]["start"] = "async"
      /\ invariant_reported[t] = 0 /\ pc[t]["start"] = "idle"
      /\ completions[t] = 0 /\ result[t] = "none"
      /\ \A g \in Frame \ {"start"} :
           caller[t][g] = "nobody" /\ pc[t][g] = "idle" /\ todo[t][g] = {}
  BY Zenon, <1>1, FreshTransaction
<1> DEFINE write == mode # "REMOTE_ONLY" /\ d = "WRITE"
<1>3. /\ "submit_local" \in todo'[t]["start"] <=> write
      /\ "submit_rdma" \in todo'[t]["start"] <=> copied = 1
      /\ "release_rdma" \in todo'[t]["start"] <=> copied # 1
      /\ "fail_rdma" \in todo'[t]["start"] <=> copied # 1
      /\ todo'[t]["start"] \subseteq
           {"submit_local", "submit_rdma", "release_rdma", "fail_rdma"}
  BY Zenon, <1>1 DEF TodoMoves
<1>4. /\ "backing" \in claims'[t] <=> write
      /\ "rdma_result" \in claims'[t] /\ "rdma_transport" \in claims'[t]
      /\ local'[t] = "pending" <=> write
      /\ ~write => local'[t] = "none"
  BY Zenon, <1>1
<1>5. /\ \A g \in Frame \ {"start"} :
           caller'[t][g] = "nobody" /\ pc'[t][g] = "idle" /\ todo'[t][g] = {}
      /\ pc'[t]["start"] = "apply" /\ caller'[t]["start"] = "async"
  <2>1. PcMoves(t, "start", "apply") /\ SameCaller(t)
    BY Zenon, <1>1
  <2>2. \A g \in Frame \ {"start"} : todo'[t][g] = todo[t][g]
    BY Zenon, <1>1 DEF TodoMoves
  <2> QED
    BY ZenonT(120), <1>2, <2>1, <2>2, FrameNames DEF PcMoves, SameCaller
<1>6. Started(t)' /\ direction'[t] # "none"
  BY Zenon, <1>1 DEF Started
<1> HIDE DEF write
<1>7. FrameInv(t)'
  <2>1. /\ \A g \in Frame : caller'[t][g] = "nobody" => pc'[t][g] = "idle"
        /\ \A g \in Frame : pc'[t][g] # "apply" => todo'[t][g] = {}
    BY Zenon, <1>5
  <2>2. /\ todo'[t]["backing"] = {} /\ todo'[t]["retry"] = {}
        /\ todo'[t]["result"] = {} /\ todo'[t]["released"] = {}
    BY Zenon, <1>5, FrameNames
  <2>3. caller'[t]["start"] \in {"nobody", "async"} /\ pc'[t]["start"] # "idle"
    BY Zenon, <1>5
  <2>4. "submit_rdma" \in todo'[t]["start"] =>
          /\ "release_rdma" \notin todo'[t]["start"]
          /\ "fail_rdma" \notin todo'[t]["start"]
    BY Zenon, <1>3
  <2> QED
    BY Zenon, <1>3, <1>6, <2>1, <2>2, <2>3, <2>4 DEF FrameInv
<1>8. ClaimInv(t)'
  <2>1. /\ Flag("submit_local" \in todo'[t]["start"]) = Flag(local'[t] = "pending")
        /\ Flag("submit_local" \in todo'[t]["result"]) = 0
        /\ Flag("submit_local" \in todo'[t]["backing"]) = 0
        /\ Flag(Triggered(t, "backing")') = 0 /\ Flag(Triggered(t, "retry")') = 0
    BY Zenon, <1>3, <1>4, <1>5, FrameNames DEF Flag, Triggered
  <2>2. Flag(local'[t] = "pending") \in Nat
    BY Zenon DEF Flag
  <2> HIDE DEF Flag, Triggered
  <2>3. Outstanding(t)' = Flag(local'[t] = "pending")
    BY <2>1, <2>2 DEF Outstanding
  <2> QED
    BY ZenonT(120), <1>1, <1>2, <1>3, <1>4, <1>5, <1>6, <2>3, FrameNames
    DEF ClaimInv
<1>9. BackingInv(t)'
  <2>1. write => BackedWrite(t)'
    BY Zenon, <1>1 DEF write, BackedWrite
  <2>2. local'[t] # "error" /\ backing_retries'[t] = 0 /\ degraded'[t] = 0
    BY ZenonT(120), <1>1, <1>2, <1>4
  <2>3. backing_retries'[t] # 1 /\ degraded'[t] # 1
    BY SMTT(60), Z3T(60), ZenonT(120), <2>2
  <2> QED
    BY Zenon, <1>3, <1>5, <2>1, <2>2, <2>3, FrameNames DEF BackingInv
<1>10. PolicyInv(t)'
  <2>1. /\ mode' = mode /\ direction'[t] = d /\ remote'[t] = "pending"
        /\ request_complete'[t] = 0 /\ prepared'[t] = copied
    BY Zenon, <1>1, <1>2
  <2>2. /\ mode = "REMOTE_ONLY" => local'[t] = "none"
        /\ d = "READ" => local'[t] = "none"
        /\ mode # "REMOTE_ONLY" /\ d = "WRITE" => local'[t] # "none"
    BY Zenon, <1>4 DEF write
  <2>3. local'[t] \in {"none", "pending"}
    BY Zenon, <1>4
  <2>4. ~Decided(t)'
    BY Zenon, <2>1, <2>3 DEF Decided, Done
  <2>5. request_complete'[t] = Flag(Decided(t)')
    BY Zenon, <2>1, <2>4 DEF Flag
  <2>6. prepared'[t] = 0 => "submit_rdma" \notin todo'[t]["start"]
    BY SMT, <1>3, <2>1
  <2>7. caller'[t]["result"] # "async"
    BY Zenon, <1>5, FrameNames
  <2> QED
    BY Zenon, <2>1, <2>2, <2>5, <2>6, <2>7 DEF PolicyInv, BackedRead, BackedWrite
<1>11. CompletionInv(t)'
  <2>1. \A g \in Frame : "success" \notin todo'[t][g] /\ "error" \notin todo'[t][g]
    <3>1. "success" \notin todo'[t]["start"] /\ "error" \notin todo'[t]["start"]
      BY Zenon, <1>3
    <3> QED
      BY Zenon, <1>5, <3>1
  <2>2. /\ Flag(Completing(todo'[t]["backing"])) = 0
        /\ Flag(Completing(todo'[t]["retry"])) = 0
        /\ Flag(Completing(todo'[t]["result"])) = 0
    BY Zenon, <2>1, FrameNames DEF Flag, Completing
  <2>3. completions'[t] = 0 /\ request_complete'[t] = 0 /\ result'[t] = "none"
    BY Zenon, <1>1, <1>2
  <2> HIDE DEF Flag, Completing
  <2>4. completions'[t] + Flag(Completing(todo'[t]["backing"]))
          + Flag(Completing(todo'[t]["retry"]))
          + Flag(Completing(todo'[t]["result"])) = request_complete'[t]
    BY <2>2, <2>3
  <2> QED
    BY Zenon, <1>6, <2>1, <2>3, <2>4 DEF CompletionInv
<1>12. EventInv(t)'
  <2>1. Inside(t)' = 1
    BY <1>5, FrameNames DEF Inside, Flag
  <2>2. \A g \in Frame : ~Leaving(t, g)' /\ pc'[t][g] # "release"
    BY Zenon, <1>5 DEF Leaving
  <2>3. /\ active_events'[t] = 1 /\ settling'[t] = 0 /\ storage'[t] = "live"
        /\ claims'[t] # {}
    BY Zenon, <1>1, <1>2, <1>4
  <2>4. active_events'[t] # 0 /\ settling'[t] # 1
    BY SMTT(60), Z3T(60), ZenonT(120), <2>3
  <2> QED
    BY Zenon, <2>1, <2>2, <2>3, <2>4 DEF EventInv
<1> QED
  BY ZenonT(120), <1>7, <1>8, <1>9, <1>10, <1>11, <1>12 DEF TransactionInv

\* A rejected start completes the request and never was a transaction.
LEMMA RejectStep ==
  ASSUME TypeOK, NEW t \in Transaction, TransactionInv(t), RejectStart(t)
  PROVE  TransactionInv(t)'
<1> USE DEF TransactionInv
<1>1. /\ SamePolicy(t) /\ SameClaims(t)
      /\ storage'[t] = storage[t] /\ prepared'[t] = prepared[t]
      /\ completions'[t] = completions[t] + 1 /\ result'[t] = "error"
      /\ degraded'[t] = degraded[t]
      /\ PcMoves(t, "start", "decrement") /\ SameTodo(t) /\ SameCaller(t)
  BY SMTT(60), FrameNames DEF RejectStart, TypeOK, SamePolicy, SameClaims,
     SameTodo, SameCaller, PcMoves, policyVars, claimVars
<1>2. /\ ~Started(t) /\ request_complete[t] = 0 /\ backing_retries[t] = 0
      /\ settling[t] = 0 /\ degraded[t] = 0 /\ caller[t]["start"] = "async"
      /\ invariant_reported[t] = 0 /\ pc[t]["start"] = "idle"
      /\ completions[t] = 0 /\ active_events[t] = 0 /\ todo[t]["start"] = {}
      /\ \A g \in Frame \ {"start"} :
           caller[t][g] = "nobody" /\ pc[t][g] = "idle" /\ todo[t][g] = {}
  BY ZenonT(120), FreshTransaction DEF RejectStart
<1>3. /\ claims[t] = {} /\ storage[t] = "none"
      /\ direction[t] = "none" /\ local[t] = "none" /\ remote[t] = "none"
  BY Zenon, <1>2 DEF FrameInv, Started
<1>4. /\ Started(t)' <=> Started(t)
      /\ SameIdle(t) /\ SameSubmits(t)
  BY Zenon, <1>1 DEF Started, SameIdle, SameSubmits, PcMoves, SameTodo
<1>5. FrameInv(t)'
  <2>1. FramesAdvance(t)
    BY Zenon, <1>1, <1>2 DEF FramesAdvance, PcMoves
  <2>2. pc'[t]["start"] \in {"decrement", "settle", "end"}
    BY Zenon, <1>1 DEF PcMoves
  <2> QED
    BY Zenon, <1>1, <1>4, <2>1, <2>2, FrameKept DEF SameTodo
<1>6. ClaimInv(t)'
  BY Zenon, <1>1, <1>4, ClaimKept, FrameNames
  DEF SameClaims, SameTodo, SameCaller
<1>7. BackingInv(t)'
  BY ZenonT(120), <1>1, <1>4, BackingKept, FrameNames
  DEF SameClaims, SameTodo, SameCaller
<1>8. PolicyInv(t)'
  BY Zenon, <1>1, <1>4, PolicyKept, FrameNames DEF SameTodo, SameCaller
<1>9. CompletionInv(t)'
  <2>1. \A g \in Frame : todo'[t][g] = {}
    BY Zenon, <1>1, <1>2 DEF SameTodo
  <2>2. completions'[t] = 1
    BY <1>1, <1>2
  <2>3. ~Started(t)' /\ pc'[t]["start"] = "decrement" /\ result'[t] = "error"
    BY Zenon, <1>1, <1>2, <1>4 DEF PcMoves
  <2> QED
    BY <2>1, <2>2, <2>3, FrameNames DEF CompletionInv, Completing, Flag
<1>10. EventInv(t)'
  <2>1. \A g \in Frame \ {"start"} : pc'[t][g] = "idle"
    BY Zenon, <1>1, <1>2 DEF PcMoves
  <2>2. pc'[t]["start"] = "decrement" /\ storage'[t] = "none"
    BY Zenon, <1>1, <1>3 DEF PcMoves
  <2>3. active_events'[t] = 0
    BY Zenon, <1>1, <1>2 DEF SameClaims
  <2>4. Inside(t)' = 0
    BY <2>1, <2>2, FrameNames DEF Inside, Flag
  <2> QED
    BY Zenon, <2>1, <2>2, <2>3, <2>4 DEF EventInv, Started, Leaving
<1> QED
  BY Zenon, <1>5, <1>6, <1>7, <1>8, <1>9, <1>10

\* The RDMA release gives up its claim.
LEMMA ReleasedStep ==
  ASSUME TypeOK, NEW t \in Transaction, TransactionInv(t), RdmaReleased(t)
  PROVE  TransactionInv(t)'
<1>1. /\ SamePolicy(t) /\ SameAdapter(t)
      /\ claims'[t] = claims[t] \ {"rdma_transport"}
      /\ active_events'[t] = active_events[t] + 1
      /\ backing_retries'[t] = backing_retries[t]
      /\ settling'[t] = settling[t]
      /\ "rdma_transport" \in claims[t] =>
           invariant_reported'[t] = invariant_reported[t]
  BY ZenonT(120) DEF RdmaReleased, BeginEvent, NoteInvariant, TypeOK, SamePolicy,
     SameAdapter, engineVars, policyVars, adapterVars
<1>2. /\ PcMoves(t, "released", "apply") /\ SameTodo(t) /\ SameCaller(t)
      /\ caller[t]["released"] # "nobody" /\ pc[t]["released"] = "idle"
  BY ZenonT(120), FrameNames
  DEF RdmaReleased, Triggered, TypeOK, SameTodo, SameCaller,
     PcMoves
<1> USE DEF TransactionInv, SameAdapter
<1>3. Started(t) /\ TypeAt(t)
  BY Zenon, <1>2, TypesAt, FrameNames DEF FrameInv
<1>4. "rdma_transport" \in claims[t]
  BY Zenon, <1>2, <1>3 DEF ClaimInv
<1>5. Started(t)' <=> Started(t)
  BY Zenon, <1>1 DEF Started
<1>6. FrameInv(t)'
  <2>1. todo[t]["released"] = {}
    BY Zenon, <1>2, FrameNames DEF FrameInv
  <2>2. FramesAdvance(t)
    BY Zenon, <1>2, <2>1 DEF FramesAdvance, PcMoves
  <2> QED
    BY Zenon, <1>1, <1>2, <1>3, <1>5, <2>2, FrameKept DEF SameTodo
<1>7. ClaimInv(t)'
  <2>1. Outstanding(t)' = Outstanding(t)
    BY Zenon, <1>2, OutstandingKept, FrameNames
    DEF SameSubmits, Triggered, PcMoves, SameTodo, SameCaller
  <2>2. pc'[t]["released"] = "apply" /\ pc'[t]["result"] = pc[t]["result"]
    BY ZenonT(120), <1>2, FrameNames DEF PcMoves
  <2> QED
    BY ZenonT(120), <1>1, <1>2, <1>4, <1>5, <2>1, <2>2, FrameNames
    DEF ClaimInv, SameTodo, SameCaller, SamePolicy
<1>8. BackingInv(t)'
  BY <1>1, <1>2, FrameNames DEF BackingInv, BackedRead, BackedWrite, Done,
     PcMoves, SameTodo, SameCaller, SamePolicy
<1>9. PolicyInv(t)'
  BY Zenon, <1>1, <1>2, <1>5, PolicyKept, FrameNames DEF SameTodo, SameCaller
<1>10. CompletionInv(t)'
  <2>1. SameAnswers(t)
    BY Zenon, <1>2 DEF SameAnswers, SameTodo
  <2> QED
    BY Zenon, <1>1, <1>2, <1>5, <2>1, SameCompletion, FrameNames DEF PcMoves
<1>11. EventInv(t)'
  BY ZenonT(120), <1>1, <1>2, <1>3, <1>4, EventBegins, FrameNames
<1> QED
  BY Zenon, <1>6, <1>7, <1>8, <1>9, <1>10, <1>11

\* Start submits the RDMA operation, or learns that it has to fail it.
LEMMA SubmitRdmaStep ==
  ASSUME TypeOK, NEW t \in Transaction, TransactionInv(t), SubmitRdma(t)
  PROVE  TransactionInv(t)'
<1>1. SamePolicy(t) /\ SameClaims(t) /\ SameAdapter(t) /\ SamePc(t)
  BY Zenon DEF SubmitRdma, SamePolicy, SameClaims, SameAdapter, SamePc,
     engineVars, policyVars, claimVars, adapterVars
<1>2. /\ \A g \in Frame \ {"start"} : todo'[t][g] = todo[t][g]
      /\ \A g \in Frame \ {"result", "released"} : caller'[t][g] = caller[t][g]
      /\ \/ /\ caller'[t]["result"] = "async" /\ caller'[t]["released"] = "async"
            /\ todo'[t]["start"] = {}
         \/ /\ caller'[t]["result"] = caller[t]["result"]
            /\ caller'[t]["released"] = caller[t]["released"]
            /\ todo'[t]["start"] = {"release_rdma", "fail_rdma"}
  BY FrameNames DEF SubmitRdma, TypeOK
<1>3. /\ pc[t]["start"] = "apply" /\ "submit_rdma" \in todo[t]["start"]
      /\ "submit_local" \notin todo[t]["start"]
  BY DEF SubmitRdma, Turn, Rank
<1> USE DEF TransactionInv, SameAdapter
<1>4. Started(t) /\ TypeAt(t)
  BY Zenon, <1>3, TypesAt DEF FrameInv
<1>5. /\ caller[t]["result"] = "nobody" /\ caller[t]["released"] = "nobody"
      /\ pc[t]["result"] = "idle" /\ pc[t]["released"] = "idle"
  BY Zenon, <1>3, <1>4, FrameNames DEF ClaimInv, FrameInv
<1>6. /\ Started(t)' <=> Started(t)
      /\ SameIdle(t) /\ SameSubmits(t) /\ SameAnswers(t)
  <2>1. /\ Started(t)' <=> Started(t)
        /\ SameIdle(t)
    BY Zenon, <1>1 DEF Started, SameIdle, SamePc
  <2>2. "success" \notin todo[t]["start"] /\ "error" \notin todo[t]["start"]
    BY Zenon DEF FrameInv
  <2>3. \A e \in {"submit_local", "success", "error"} : e \notin todo'[t]["start"]
    BY Zenon, <1>2
  <2> QED
    BY Zenon, <1>2, <1>3, <2>1, <2>2, <2>3 DEF SameSubmits, SameAnswers
<1>7. FrameInv(t)'
  <2>1. CASE todo'[t]["start"] = {}
    BY SMTT(60), Z3T(60), ZenonT(120), <1>1, <1>2, <1>3, <1>4, <2>1
    DEF FrameInv, Started, Frame, SamePc, SamePolicy
  <2>2. CASE todo'[t]["start"] = {"release_rdma", "fail_rdma"}
    BY SMTT(60), Z3T(60), ZenonT(120), <1>1, <1>2, <1>3, <1>4, <1>5, <2>2
    DEF FrameInv, Started, Frame, SamePc, SamePolicy
  <2> QED
    BY ZenonT(120), <1>2, <2>1, <2>2
<1>8. ClaimInv(t)'
  <2>1. Outstanding(t)' = Outstanding(t)
    BY Zenon, <1>1, <1>2, <1>6, OutstandingKept, FrameNames
    DEF Triggered, SamePc
  <2>2. /\ caller'[t]["result"] = "nobody" <=>
             \/ "submit_rdma" \in todo'[t]["start"]
             \/ "fail_rdma" \in todo'[t]["start"]
        /\ caller'[t]["released"] = "nobody" <=>
             \/ "submit_rdma" \in todo'[t]["start"]
             \/ "release_rdma" \in todo'[t]["start"]
    BY Zenon, <1>2, <1>5
  <2> QED
    BY ZenonT(120), <1>1, <1>6, <2>1, <2>2, FrameNames
    DEF ClaimInv, SamePc, SamePolicy, SameClaims
<1>9. BackingInv(t)'
  BY ZenonT(120), <1>1, <1>2, <1>6, BackingKept, FrameNames DEF SameClaims
<1>10. PolicyInv(t)'
  BY Zenon, <1>1, <1>2, <1>3, <1>6, PolicyKept
<1>11. CompletionInv(t)'
  BY Zenon, <1>1, <1>6, SameCompletion, FrameNames DEF SamePc
<1>12. EventInv(t)'
  BY Zenon, <1>1, SameEvent
<1> QED
  BY Zenon, <1>7, <1>8, <1>9, <1>10, <1>11, <1>12

\* Start delivers the release and the failed result itself.
LEMMA FailRdmaStep ==
  ASSUME TypeOK, NEW t \in Transaction, TransactionInv(t), FailRdma(t)
  PROVE  TransactionInv(t)'
<1>1. SamePolicy(t) /\ SameClaims(t) /\ SameAdapter(t) /\ SamePc(t)
  BY ZenonT(120) DEF FailRdma, SamePolicy, SameClaims, SameAdapter, SamePc,
     engineVars, policyVars, claimVars, adapterVars
<1>2. \/ /\ TodoMoves(t, "start", todo[t]["start"] \ {"release_rdma"})
         /\ CallerMoves(t, "released", "start")
         /\ pc[t]["start"] = "apply" /\ "release_rdma" \in todo[t]["start"]
      \/ /\ TodoMoves(t, "start", todo[t]["start"] \ {"fail_rdma"})
         /\ CallerMoves(t, "result", "start")
         /\ pc[t]["start"] = "apply" /\ "fail_rdma" \in todo[t]["start"]
  BY SMTT(60), FrameNames DEF FailRdma, Turn, DidEffect, TypeOK, TodoMoves,
     CallerMoves
<1> USE DEF TransactionInv, SameAdapter
<1>3. Started(t) /\ (Started(t)' <=> Started(t))
  BY Zenon, <1>1, <1>2 DEF FrameInv, Started
<1>4. "submit_rdma" \notin todo[t]["start"]
  BY Zenon, <1>2 DEF FrameInv
<1>5. EventInv(t)'
  BY Zenon, <1>1, SameEvent
<1>5a. SameIdle(t) /\ SameSubmits(t) /\ SameAnswers(t)
  BY Zenon, <1>1, <1>2 DEF SameIdle, SameSubmits, SameAnswers, SamePc, TodoMoves
<1>5b. CompletionInv(t)'
  BY Zenon, <1>1, <1>3, <1>5a, SameCompletion, FrameNames DEF SamePc
<1>6. CASE /\ TodoMoves(t, "start", todo[t]["start"] \ {"release_rdma"})
           /\ CallerMoves(t, "released", "start")
           /\ pc[t]["start"] = "apply" /\ "release_rdma" \in todo[t]["start"]
  <2>1. caller[t]["released"] = "nobody" /\ pc[t]["released"] = "idle"
    BY ZenonT(120), <1>3, <1>6, FrameNames DEF ClaimInv, FrameInv
  <2>2. FrameInv(t)'
    BY SMTT(60), Z3T(60), ZenonT(120), <1>1, <1>3, <1>4, <1>6, <2>1, FrameNames
    DEF FrameInv, Started, SamePc, SamePolicy, TodoMoves, CallerMoves
  <2>3. ClaimInv(t)'
    <3>1. Outstanding(t)' = Outstanding(t)
      BY Zenon, <1>1, <1>5a, <1>6, OutstandingKept, FrameNames
      DEF Triggered, SamePc, CallerMoves
    <3>2. /\ caller'[t]["released"] = "start"
          /\ caller'[t]["result"] = caller[t]["result"]
          /\ "submit_rdma" \notin todo'[t]["start"]
          /\ "release_rdma" \notin todo'[t]["start"]
          /\ "fail_rdma" \in todo'[t]["start"] <=>
               "fail_rdma" \in todo[t]["start"]
      BY Zenon, <1>4, <1>6, FrameNames DEF TodoMoves, CallerMoves
    <3> QED
      BY ZenonT(120), <1>1, <1>3, <1>4, <3>1, <3>2, FrameNames
      DEF ClaimInv, SamePc, SamePolicy, SameClaims
  <2>4. BackingInv(t)'
    BY ZenonT(120), <1>1, <1>5a, <1>6, BackingKept, FrameNames
    DEF SameClaims, TodoMoves, CallerMoves
  <2>5. PolicyInv(t)'
    BY Zenon, <1>1, <1>3, <1>6, PolicyKept, FrameNames
    DEF TodoMoves, CallerMoves
  <2> QED
    BY Zenon, <1>5, <1>5b, <2>2, <2>3, <2>4, <2>5
<1>7. CASE /\ TodoMoves(t, "start", todo[t]["start"] \ {"fail_rdma"})
           /\ CallerMoves(t, "result", "start")
           /\ pc[t]["start"] = "apply" /\ "fail_rdma" \in todo[t]["start"]
  <2>1. caller[t]["result"] = "nobody" /\ pc[t]["result"] = "idle"
    BY Zenon, <1>3, <1>7, FrameNames DEF ClaimInv, FrameInv
  <2>2. FrameInv(t)'
    BY SMTT(60), Z3T(60), ZenonT(120), <1>1, <1>3, <1>4, <1>7, <2>1, FrameNames
    DEF FrameInv, Started, SamePc, SamePolicy, TodoMoves, CallerMoves
  <2>3. ClaimInv(t)'
    <3>1. Outstanding(t)' = Outstanding(t)
      BY ZenonT(120), <1>1, <1>5a, <1>7, OutstandingKept, FrameNames
      DEF Triggered, SamePc, CallerMoves
    <3>2. /\ caller'[t]["result"] = "start"
          /\ caller'[t]["released"] = caller[t]["released"]
          /\ "submit_rdma" \notin todo'[t]["start"]
          /\ "fail_rdma" \notin todo'[t]["start"]
          /\ "release_rdma" \in todo'[t]["start"] <=>
               "release_rdma" \in todo[t]["start"]
      BY Zenon, <1>4, <1>7, FrameNames DEF TodoMoves, CallerMoves
    <3> QED
      BY ZenonT(120), <1>1, <1>3, <1>4, <3>1, <3>2, FrameNames
      DEF ClaimInv, SamePc, SamePolicy, SameClaims
  <2>4. BackingInv(t)'
    BY ZenonT(120), <1>1, <1>5a, <1>7, BackingKept, FrameNames
    DEF SameClaims, TodoMoves, CallerMoves
  <2>5. PolicyInv(t)'
    BY Zenon, <1>1, <1>3, <1>7, PolicyKept, FrameNames
    DEF TodoMoves, CallerMoves
  <2> QED
    BY Zenon, <1>5, <1>5b, <2>2, <2>3, <2>4, <2>5
<1> QED
  BY Zenon, <1>2, <1>6, <1>7

-----------------------------------------------------------------------------
(* The answers, their effects and the way out.                               *)

\* A handler that was triggered begins: FrameInv is kept.
LEMMA FrameBegins ==
  ASSUME NEW t \in Transaction, NEW f \in {"backing", "retry", "result"}, NEW s,
         FrameInv(t), Started(t), Started(t)', direction'[t] = direction[t],
         SameCaller(t), caller[t][f] # "nobody", PcMoves(t, f, "apply"),
         TodoMoves(t, f, s),
         f = "backing" =>
           s \subseteq
             {"degraded", "local_only", "submit_local", "success", "error"},
         f = "retry" =>
           s \subseteq {"degraded", "local_only", "success", "error"},
         f = "result" =>
           s \subseteq {"local_only", "submit_local", "success", "error"}
  PROVE  FrameInv(t)'
<1>1. /\ \A g \in Frame : caller'[t][g] = "nobody" => pc'[t][g] = "idle"
      /\ \A g \in Frame : pc'[t][g] # "apply" => todo'[t][g] = {}
  <2>1. /\ \A g \in Frame : caller[t][g] = "nobody" => pc[t][g] = "idle"
        /\ \A g \in Frame : pc[t][g] # "apply" => todo[t][g] = {}
    BY Zenon DEF FrameInv
  <2> QED
    BY ZenonT(120), <2>1 DEF SameCaller, PcMoves, TodoMoves
<1>2. /\ todo'[t]["start"] = todo[t]["start"]
      /\ todo'[t]["released"] = todo[t]["released"]
      /\ pc'[t]["start"] = pc[t]["start"]
      /\ caller'[t]["start"] = caller[t]["start"]
  BY Zenon, FrameNames DEF SameCaller, PcMoves, TodoMoves
<1>3. /\ todo'[t]["backing"] \subseteq
           {"degraded", "local_only", "submit_local", "success", "error"}
      /\ todo'[t]["retry"] \subseteq
           {"degraded", "local_only", "success", "error"}
      /\ todo'[t]["result"] \subseteq
           {"local_only", "submit_local", "success", "error"}
  <2>1. CASE f = "backing"
    BY Zenon, <2>1, FrameNames DEF TodoMoves, FrameInv
  <2>2. CASE f = "retry"
    BY Zenon, <2>2, FrameNames DEF TodoMoves, FrameInv
  <2>3. CASE f = "result"
    BY Zenon, <2>3, FrameNames DEF TodoMoves, FrameInv
  <2> QED
    BY Zenon, <2>1, <2>2, <2>3
<1> QED
  BY Zenon, <1>1, <1>2, <1>3 DEF FrameInv

\* A policy decision that completes the request is the first one:
\* CompletionInv is kept.
LEMMA CompletionAdds ==
  ASSUME NEW t \in Transaction, NEW f \in {"backing", "retry", "result"}, NEW a,
         TypeAt(t), CompletionInv(t), Started(t), Started(t)',
         completions'[t] = completions[t], result'[t] = result[t],
         todo[t][f] = {}, TodoMoves(t, f, a),
         Completing(a) => request_complete[t] = 0,
         request_complete'[t] =
           IF Completing(a) THEN 1 ELSE request_complete[t],
         \A g \in Frame :
           /\ "success" \in todo'[t][g] =>
                "error" \notin todo'[t][g] /\ Ack!Justified(t, "ok")'
           /\ "error" \in todo'[t][g] =>
                CompletionStatus(t)' = "error" /\ Ack!Justified(t, "error")'
  PROVE  CompletionInv(t)'
<1>1. completions[t] \in Nat /\ request_complete[t] \in {0, 1}
  BY Zenon DEF TypeAt
<1>2. completions[t] + Flag(Completing(todo[t]["backing"]))
        + Flag(Completing(todo[t]["retry"]))
        + Flag(Completing(todo[t]["result"])) = request_complete[t]
  BY Zenon DEF CompletionInv
<1>3. Flag(Completing(todo[t][f])) = 0 /\ todo'[t][f] = a
  BY Zenon DEF Completing, TodoMoves, Flag
<1>4. request_complete'[t] = request_complete[t] + Flag(Completing(a))
  BY <1>1 DEF Flag
<1>5. /\ Flag(Completing(a)) \in Nat
      /\ Flag(Completing(todo[t]["backing"])) \in Nat
      /\ Flag(Completing(todo[t]["retry"])) \in Nat
      /\ Flag(Completing(todo[t]["result"])) \in Nat
  BY Zenon DEF Flag
<1> HIDE DEF Flag, Completing
<1>6. completions'[t] + Flag(Completing(todo'[t]["backing"]))
        + Flag(Completing(todo'[t]["retry"]))
        + Flag(Completing(todo'[t]["result"])) = request_complete'[t]
  <2>1. CASE f = "backing"
    <3>1. /\ Flag(Completing(todo[t]["backing"])) = 0
          /\ Flag(Completing(todo'[t]["backing"])) = Flag(Completing(a))
          /\ todo'[t]["retry"] = todo[t]["retry"]
          /\ todo'[t]["result"] = todo[t]["result"]
      BY ZenonT(60), <1>3, <2>1, FrameNames DEF TodoMoves
    <3> QED
      BY <1>1, <1>2, <1>4, <1>5, <3>1
  <2>2. CASE f = "retry"
    <3>1. /\ Flag(Completing(todo[t]["retry"])) = 0
          /\ Flag(Completing(todo'[t]["retry"])) = Flag(Completing(a))
          /\ todo'[t]["backing"] = todo[t]["backing"]
          /\ todo'[t]["result"] = todo[t]["result"]
      BY Zenon, <1>3, <2>2, FrameNames DEF TodoMoves
    <3> QED
      BY <1>1, <1>2, <1>4, <1>5, <3>1
  <2>3. CASE f = "result"
    <3>1. /\ Flag(Completing(todo[t]["result"])) = 0
          /\ Flag(Completing(todo'[t]["result"])) = Flag(Completing(a))
          /\ todo'[t]["backing"] = todo[t]["backing"]
          /\ todo'[t]["retry"] = todo[t]["retry"]
      BY Zenon, <1>3, <2>3, FrameNames DEF TodoMoves
    <3> QED
      BY <1>1, <1>2, <1>4, <1>5, <3>1
  <2> QED
    BY ZenonT(60), <2>1, <2>2, <2>3
<1>7. result'[t] = "none" <=> completions'[t] = 0
  BY Zenon DEF CompletionInv
<1> QED
  BY Zenon, <1>6, <1>7 DEF CompletionInv

\* What is_io_policy_local_complete does with the end of the Backing Store I/O.
LEMMA LocalActionsMean ==
  ASSUME NEW t \in Transaction, TypeAt(t), NEW status \in {"ok", "error"},
         BackedRead(t) \/ BackedWrite(t)
  PROVE  LET a == LocalActions(t, status)
         IN  /\ a \subseteq {"degraded", "local_only", "success", "error"}
             /\ "degraded" \in a <=> status = "error"
             /\ Completing(a) <=> /\ request_complete[t] = 0
                                  /\ BackedRead(t) \/ Done(remote[t])
             /\ "success" \in a =>
                  /\ "error" \notin a
                  /\ \/ status = "ok"
                     \/ BackedWrite(t) /\ mode # "BACKED_STRICT"
                          /\ remote[t] = "ok"
             /\ "error" \in a =>
                  /\ status = "error"
                  /\ BackedRead(t) \/ mode = "BACKED_STRICT" \/ remote[t] = "error"
<1> USE DEF TypeAt, Mode, BackedRead, BackedWrite, Completing, Done
<1>1. CASE BackedRead(t)
  BY <1>1 DEF LocalActions, CompleteRequest
<1>2. CASE BackedWrite(t) /\ ~Done(remote[t])
  BY Zenon, <1>2 DEF LocalActions
<1>3. CASE BackedWrite(t) /\ Done(remote[t])
  BY <1>3 DEF LocalActions, FinishWrite, CompleteRequest
<1> QED
  BY Zenon, <1>1, <1>2, <1>3

\* What is_io_policy_remote_terminal does with the end of the RDMA operation.
LEMMA RemoteActionsMean ==
  ASSUME NEW t \in Transaction, TypeAt(t), NEW status \in {"ok", "error"},
         direction[t] # "none"
  PROVE  LET a == RemoteActions(t, status)
         IN  /\ a \subseteq {"local_only", "submit_local", "success", "error"}
             /\ "submit_local" \in a <=> BackedRead(t) /\ status = "error"
             /\ Completing(a) <=>
                  /\ request_complete[t] = 0
                  /\ \/ mode = "REMOTE_ONLY"
                     \/ BackedRead(t) /\ status = "ok"
                     \/ /\ BackedWrite(t)
                        /\ \/ mode = "BACKED_REMOTE_FIRST" /\ status = "ok"
                           \/ Done(local[t])
             /\ "success" \in a =>
                  /\ "error" \notin a
                  /\ \/ status = "ok" /\ ~(BackedWrite(t) /\ mode = "BACKED_STRICT")
                     \/ BackedWrite(t) /\ local[t] = "ok"
             /\ "error" \in a =>
                  \/ mode = "REMOTE_ONLY" /\ status = "error"
                  \/ /\ BackedWrite(t) /\ local[t] = "error"
                     /\ mode = "BACKED_STRICT" \/ status = "error"
<1> USE DEF TypeAt, Mode, BackedRead, BackedWrite, Completing, Done
<1>1. CASE mode = "REMOTE_ONLY"
  BY <1>1 DEF RemoteActions, CompleteRequest
<1>2. CASE BackedRead(t)
  BY SMTT(60), Z3T(60), ZenonT(120), <1>2 DEF RemoteActions, CompleteRequest
<1>3. CASE BackedWrite(t) /\ mode = "BACKED_REMOTE_FIRST"
  BY SMTT(60), Z3T(60), ZenonT(120), <1>3
  DEF RemoteActions, FinishWrite, CompleteRequest
<1>4. CASE BackedWrite(t) /\ mode = "BACKED_STRICT"
  BY SMTT(60), Z3T(60), ZenonT(120), <1>4
  DEF RemoteActions, FinishWrite, CompleteRequest
<1> QED
  BY Zenon, <1>1, <1>2, <1>3, <1>4

\* The end of a Backing Store I/O is retried once or decided by the policy.
LEMMA BackingStep ==
  ASSUME TypeOK, NEW t \in Transaction, TransactionInv(t),
         NEW f \in {"backing", "retry"}, NEW status \in {"ok", "error"},
         BackingCompleted(t, f, status)
  PROVE  TransactionInv(t)'
<1> DEFINE a == LocalActions(t, status)
<1>1. /\ mode' = mode /\ direction'[t] = direction[t] /\ remote'[t] = remote[t]
      /\ settling'[t] = settling[t] /\ SameCaller(t) /\ SameAdapter(t)
  BY Zenon DEF BackingCompleted, SameCaller, SameAdapter, engineVars, adapterVars
<1>2. /\ caller[t][f] # "nobody" /\ pc[t][f] = "idle" /\ f \in Frame
      /\ active_events'[t] = active_events[t] + 1
      /\ PcMoves(t, f, "apply")
  BY FrameNames DEF BackingCompleted, Triggered, BeginEvent, TypeOK, PcMoves
<1>3. Started(t) /\ TypeAt(t)
  BY ZenonT(120), <1>2, TypesAt, FrameNames DEF TransactionInv, FrameInv
<1>4. /\ local[t] = "pending"
      /\ \A h \in {"start", "result", "backing"} :
           "submit_local" \notin todo[t][h]
      /\ \A h \in {"backing", "retry"} : Triggered(t, h) => h = f
  BY <1>2 DEF TransactionInv, ClaimInv, Outstanding, Triggered, Flag
<1>5. "backing" \in claims[t]
  BY Zenon, <1>4 DEF TransactionInv, ClaimInv
<1>6. invariant_reported'[t] = invariant_reported[t]
  BY Zenon, <1>5 DEF BackingCompleted, NoteInvariant, TypeOK
<1>7. todo[t][f] = {}
  BY Zenon, <1>2 DEF TransactionInv, FrameInv
<1>8. CASE Retry(t, status)
  <2>1. /\ SamePolicy(t) /\ claims'[t] = claims[t]
        /\ backing_retries[t] = 0 /\ backing_retries'[t] = 1
    BY <1>1, <1>5, <1>8 DEF BackingCompleted, SamePolicy, Retry, TypeOK
  <2>2. TodoMoves(t, f, {"submit_local"})
    BY ZenonT(120), <1>2, <1>5, <1>8 DEF BackingCompleted, TodoMoves, TypeOK
  <2>3. /\ f = "backing" /\ caller[t]["retry"] = "nobody"
        /\ pc[t]["retry"] = "idle"
    <3>1. f = "backing" /\ caller[t]["retry"] = "nobody"
      BY <1>2, <2>1 DEF TransactionInv, BackingInv
    <3> QED
      BY Zenon, <3>1, FrameNames DEF TransactionInv, FrameInv
  <2>3a. Started(t)' <=> Started(t)
    BY Zenon, <1>1 DEF Started, SameAdapter
  <2> USE DEF TransactionInv
  <2>4. FrameInv(t)'
    BY Zenon, <1>1, <1>2, <1>3, <2>2, <2>3, <2>3a, FrameBegins
  <2>5. ClaimInv(t)'
    <3>1. Outstanding(t)' = Outstanding(t)
      BY <1>1, <1>2, <1>4, <2>2, <2>3, FrameNames
      DEF Outstanding, Flag, Triggered, PcMoves, TodoMoves, SameCaller
    <3>2. /\ pc'[t]["result"] = pc[t]["result"]
          /\ pc'[t]["released"] = pc[t]["released"]
          /\ todo'[t]["start"] = todo[t]["start"]
      BY ZenonT(120), <1>2, <2>2, <2>3, FrameNames DEF PcMoves, TodoMoves
    <3> QED
      BY ZenonT(120), <1>1, <1>6, <2>1, <2>3a, <3>1, <3>2, FrameNames
      DEF ClaimInv, SameCaller, SamePolicy
  <2>6. BackingInv(t)'
    BY SMTT(60), Z3T(60), ZenonT(120), <1>1, <1>2, <1>4, <1>7, <2>1, <2>2,
       <2>3, FrameNames
    DEF BackingInv, BackedRead, BackedWrite, PcMoves, TodoMoves, SameCaller,
        SamePolicy, SameAdapter
  <2>7. PolicyInv(t)'
    BY Zenon, <1>1, <2>1, <2>2, <2>3, <2>3a, PolicyKept, FrameNames
    DEF SameAdapter, TodoMoves, SameCaller
  <2>8. CompletionInv(t)'
    <3>1. SameAnswers(t)
      <4>1. /\ "success" \notin todo'[t][f] /\ "error" \notin todo'[t][f]
            /\ "success" \notin todo[t][f] /\ "error" \notin todo[t][f]
        BY Zenon, <1>7, <2>2 DEF TodoMoves
      <4> QED
        BY Zenon, <2>2, <4>1 DEF SameAnswers, TodoMoves
    <3>2. pc'[t]["start"] = pc[t]["start"]
      BY Zenon, <1>2, <2>3, FrameNames DEF PcMoves
    <3> QED
      BY Zenon, <1>1, <2>1, <2>3a, <3>1, <3>2, SameCompletion DEF SameAdapter
  <2>9. EventInv(t)'
    BY ZenonT(120), <1>1, <1>2, <1>3, <1>5, EventBegins DEF SameAdapter
  <2> QED
    BY ZenonT(120), <2>4, <2>5, <2>6, <2>7, <2>8, <2>9
<1>9. CASE ~Retry(t, status)
  <2>1. /\ local'[t] = status /\ claims'[t] = claims[t] \ {"backing"}
        /\ backing_retries'[t] = backing_retries[t]
        /\ request_complete'[t] =
             IF Completing(a) THEN 1 ELSE request_complete[t]
    BY ZenonT(120), <1>4, <1>5, <1>9, FrameNames DEF BackingCompleted, TypeOK
  <2>2. TodoMoves(t, f, a)
    BY ZenonT(120), <1>2, <1>4, <1>5, <1>9, FrameNames
    DEF BackingCompleted, TodoMoves, TypeOK
  <2>3. BackedRead(t) \/ BackedWrite(t)
    BY Zenon, <1>3, <1>4 DEF TransactionInv, PolicyInv, FrameInv, BackedRead,
       BackedWrite, TypeAt
  <2>4. /\ a \subseteq {"degraded", "local_only", "success", "error"}
        /\ "degraded" \in a <=> status = "error"
        /\ Completing(a) <=> /\ request_complete[t] = 0
                             /\ BackedRead(t) \/ Done(remote[t])
        /\ "success" \in a =>
             /\ "error" \notin a
             /\ \/ status = "ok"
                \/ BackedWrite(t) /\ mode # "BACKED_STRICT" /\ remote[t] = "ok"
        /\ "error" \in a =>
             /\ status = "error"
             /\ BackedRead(t) \/ mode = "BACKED_STRICT" \/ remote[t] = "error"
    BY Zenon, <1>3, <2>3, LocalActionsMean
  <2> HIDE DEF a
  <2> USE DEF TransactionInv
  <2>4a. Started(t)'
    BY Zenon, <1>1, <1>3 DEF Started, SameAdapter
  <2>5. FrameInv(t)'
    BY ZenonT(120), <1>1, <1>2, <1>3, <2>2, <2>4, <2>4a, FrameBegins
  <2>6. ClaimInv(t)'
    <3>1. /\ pc'[t]["result"] = pc[t]["result"]
          /\ pc'[t]["released"] = pc[t]["released"]
          /\ todo'[t]["start"] = todo[t]["start"]
          /\ todo'[t]["result"] = todo[t]["result"]
      BY Zenon, <1>2, <2>2, FrameNames DEF PcMoves, TodoMoves
    <3>2. "submit_local" \notin todo'[t]["backing"]
      <4>1. "submit_local" \notin a
        BY Zenon, <2>4
      <4> QED
        BY Zenon, <1>4, <2>2, <4>1, FrameNames DEF TodoMoves
    <3>3. ~Triggered(t, "backing")' /\ ~Triggered(t, "retry")'
      BY Zenon, <1>1, <1>2, <1>4, FrameNames DEF Triggered, PcMoves, SameCaller
    <3>4. /\ Flag("submit_local" \in todo'[t]["start"]) = 0
          /\ Flag("submit_local" \in todo'[t]["result"]) = 0
          /\ Flag("submit_local" \in todo'[t]["backing"]) = 0
          /\ Flag(Triggered(t, "backing")') = 0 /\ Flag(Triggered(t, "retry")') = 0
          /\ Flag(local'[t] = "pending") = 0
      BY ZenonT(120), <1>4, <2>1, <3>1, <3>2, <3>3 DEF Flag
    <3> HIDE DEF Flag, Triggered
    <3>5. Outstanding(t)' = Flag(local'[t] = "pending")
      BY <3>4 DEF Outstanding
    <3> QED
      BY ZenonT(120), <1>1, <1>3, <1>6, <2>1, <2>4a, <3>1, <3>5, FrameNames
      DEF ClaimInv, SameCaller
  <2>7. BackingInv(t)'
    <3>1. CASE f = "backing"
      BY SMTT(60), Z3T(60), ZenonT(120), <1>1, <1>2, <1>3, <1>4, <1>7, <2>1,
         <2>2, <2>4, <3>1, FrameNames
      DEF BackingInv, TypeAt, BackedRead, BackedWrite, Done, PcMoves, TodoMoves,
          SameCaller, SameAdapter
    <3>2. CASE f = "retry"
      BY SMTT(60), Z3T(60), ZenonT(120), <1>1, <1>2, <1>3, <1>4, <1>7, <2>1,
         <2>2, <2>4, <3>2, FrameNames
      DEF BackingInv, TypeAt, BackedRead, BackedWrite, Done, PcMoves, TodoMoves,
          SameCaller, SameAdapter
    <3> QED
      BY ZenonT(120), <3>1, <3>2
  <2>8. PolicyInv(t)'
    <3>1. /\ mode' = "REMOTE_ONLY" => local'[t] = "none"
          /\ BackedRead(t)' => (local'[t] # "none" <=> remote'[t] = "error")
          /\ BackedWrite(t)' => local'[t] # "none"
      BY ZenonT(120), <1>1, <1>4, <2>1, <2>3
      DEF PolicyInv, BackedRead, BackedWrite
    <3>2. prepared'[t] = 0 =>
            /\ remote'[t] # "ok" /\ "submit_rdma" \notin todo'[t]["start"]
            /\ caller'[t]["result"] # "async"
      BY ZenonT(120), <1>1, <1>3, <2>2, FrameNames
      DEF PolicyInv, TodoMoves, SameCaller, SameAdapter
    <3>3. request_complete[t] = Flag(Decided(t)) /\ request_complete[t] \in {0, 1}
      BY Zenon, <1>3 DEF PolicyInv, TypeAt
    <3>4. Decided(t)' <=> Decided(t) \/ Completing(a)
      BY ZenonT(120), <1>1, <1>3, <1>4, <2>1, <2>3, <2>4, <3>3
      DEF Decided, Flag, Done,
         TypeAt, Mode, BackedRead, BackedWrite
    <3>5. request_complete'[t] = Flag(Decided(t)')
      BY Zenon, <2>1, <3>3, <3>4 DEF Flag
    <3> QED
      BY ZenonT(120), <2>4a, <3>1, <3>2, <3>5 DEF PolicyInv
  <2>9. CompletionInv(t)'
    <3>1. ASSUME NEW g \in Frame
          PROVE /\ "success" \in todo'[t][g] =>
                     "error" \notin todo'[t][g] /\ Ack!Justified(t, "ok")'
                /\ "error" \in todo'[t][g] =>
                     CompletionStatus(t)' = "error" /\ Ack!Justified(t, "error")'
      <4>1. CASE g = f
        <5>1. todo'[t][g] = a
          BY Zenon, <2>2, <4>1 DEF TodoMoves
        <5> QED
          BY ZenonT(120), <1>1, <1>3, <2>1, <2>3, <2>4, <5>1 DEF CompletionStatus,
             Ack!Justified, Ack!Status, Completing, PolicyInv, TypeAt, Mode,
             BackedRead, BackedWrite, Done
      <4>2. CASE g # f
        <5>1. todo'[t][g] = todo[t][g]
          BY Zenon, <2>2, <4>2 DEF TodoMoves
        <5>2. ~Ack!Justified(t, "error")
          BY Zenon, <1>4, <2>3
          DEF Ack!Justified, PolicyInv, BackedRead, BackedWrite
        <5>3. Ack!Justified(t, "ok") => Ack!Justified(t, "ok")'
          BY ZenonT(120), <1>1, <1>3, <1>4, <2>1, <2>3
          DEF Ack!Justified, Ack!Status,
             PolicyInv, TypeAt, Mode, BackedRead, BackedWrite
        <5> QED
          BY Zenon, <5>1, <5>2, <5>3 DEF CompletionInv
      <4> QED
        BY Zenon, <4>1, <4>2
    <3> QED
      <4>1. /\ f \in {"backing", "retry", "result"}
            /\ Completing(a) => request_complete[t] = 0
            /\ completions'[t] = completions[t] /\ result'[t] = result[t]
        BY Zenon, <1>1, <2>4 DEF SameAdapter
      <4> QED
        BY ZenonT(120), <1>3, <1>7, <2>1, <2>2, <2>4a, <3>1, <4>1, CompletionAdds
  <2>10. EventInv(t)'
    BY Zenon, <1>1, <1>2, <1>3, <1>5, EventBegins DEF SameAdapter
  <2> QED
    BY Zenon, <2>5, <2>6, <2>7, <2>8, <2>9, <2>10
<1> QED
  BY Zenon, <1>8, <1>9

\* While the Backing Store path is not pending, nothing will submit its I/O and
\* no handler of its end is about to run.
LEMMA NoneOutstanding ==
  ASSUME NEW t, ClaimInv(t), local[t] # "pending"
  PROVE  /\ "backing" \notin claims[t]
         /\ \A h \in {"start", "result", "backing"} :
              "submit_local" \notin todo[t][h]
         /\ \A h \in {"backing", "retry"} : ~Triggered(t, h)
<1> DEFINE start == Flag("submit_local" \in todo[t]["start"])
           result_ == Flag("submit_local" \in todo[t]["result"])
           again == Flag("submit_local" \in todo[t]["backing"])
           ended == Flag(Triggered(t, "backing"))
           retried == Flag(Triggered(t, "retry"))
<1>1. "backing" \notin claims[t] /\ Outstanding(t) = 0
  BY Zenon DEF ClaimInv, Flag
<1>2. start + result_ + again + ended + retried = 0
  BY Zenon, <1>1 DEF Outstanding
<1>3. /\ start \in {0, 1} /\ result_ \in {0, 1} /\ again \in {0, 1}
      /\ ended \in {0, 1} /\ retried \in {0, 1}
  BY Zenon DEF Flag
<1>4. /\ start = 1 \/ "submit_local" \notin todo[t]["start"]
      /\ result_ = 1 \/ "submit_local" \notin todo[t]["result"]
      /\ again = 1 \/ "submit_local" \notin todo[t]["backing"]
      /\ ended = 1 \/ ~Triggered(t, "backing")
      /\ retried = 1 \/ ~Triggered(t, "retry")
  BY Zenon DEF Flag
<1> HIDE DEF start, result_, again, ended, retried
<1>5. start # 1 /\ result_ # 1 /\ again # 1 /\ ended # 1 /\ retried # 1
  BY SMT, <1>2, <1>3
<1> QED
  BY Zenon, <1>1, <1>4, <1>5

\* The RDMA result ends the remote path: the policy decides, or a failed read
\* goes on to the Backing Store.
LEMMA ResultStep ==
  ASSUME TypeOK, NEW t \in Transaction, TransactionInv(t),
         NEW status \in {"ok", "error"}, RdmaCompleted(t, status)
  PROVE  TransactionInv(t)'
<1> DEFINE a == RemoteActions(t, status)
<1>1. /\ mode' = mode /\ direction'[t] = direction[t]
      /\ backing_retries'[t] = backing_retries[t] /\ settling'[t] = settling[t]
      /\ SameCaller(t) /\ SameAdapter(t)
  BY Zenon DEF RdmaCompleted, SameCaller, SameAdapter, engineVars, adapterVars
<1>2. /\ caller[t]["result"] # "nobody" /\ pc[t]["result"] = "idle"
      /\ active_events'[t] = active_events[t] + 1
      /\ PcMoves(t, "result", "apply")
      /\ caller[t]["result"] # "async" => status = "error"
  BY FrameNames DEF RdmaCompleted, Triggered, BeginEvent, TypeOK, PcMoves
<1>3. Started(t) /\ TypeAt(t)
  BY Zenon, <1>2, TypesAt, FrameNames DEF TransactionInv, FrameInv
<1>4. remote[t] = "pending" /\ "rdma_result" \in claims[t]
  BY Zenon, <1>2, <1>3 DEF TransactionInv, ClaimInv
<1>5. todo[t]["result"] = {} /\ direction[t] # "none"
  BY Zenon, <1>2, <1>3, FrameNames DEF TransactionInv, FrameInv
<1>6. /\ a \subseteq {"local_only", "submit_local", "success", "error"}
      /\ "submit_local" \in a <=> BackedRead(t) /\ status = "error"
      /\ Completing(a) <=>
           /\ request_complete[t] = 0
           /\ \/ mode = "REMOTE_ONLY"
              \/ BackedRead(t) /\ status = "ok"
              \/ /\ BackedWrite(t)
                 /\ \/ mode = "BACKED_REMOTE_FIRST" /\ status = "ok"
                    \/ Done(local[t])
      /\ "success" \in a =>
           /\ "error" \notin a
           /\ \/ status = "ok" /\ ~(BackedWrite(t) /\ mode = "BACKED_STRICT")
              \/ BackedWrite(t) /\ local[t] = "ok"
      /\ "error" \in a =>
           \/ mode = "REMOTE_ONLY" /\ status = "error"
           \/ /\ BackedWrite(t) /\ local[t] = "error"
              /\ mode = "BACKED_STRICT" \/ status = "error"
  BY Zenon, <1>3, <1>5, RemoteActionsMean
<1>7. BackedRead(t) => local[t] = "none"
  BY ZenonT(120), <1>4 DEF TransactionInv, PolicyInv
<1>8. BackedRead(t) =>
        /\ "backing" \notin claims[t]
        /\ \A h \in {"start", "result", "backing"} :
             "submit_local" \notin todo[t][h]
        /\ \A h \in {"backing", "retry"} : ~Triggered(t, h)
  BY Zenon, <1>7, NoneOutstanding DEF TransactionInv
<1>9. /\ remote'[t] = status
      /\ local'[t] = IF "submit_local" \in a THEN "pending" ELSE local[t]
      /\ request_complete'[t] =
           IF Completing(a) THEN 1 ELSE request_complete[t]
      /\ claims'[t] = (claims[t] \ {"rdma_result"}) \cup
                      (IF "submit_local" \in a THEN {"backing"} ELSE {})
  BY ZenonT(120), <1>4 DEF RdmaCompleted, TypeOK
<1>10. invariant_reported'[t] = invariant_reported[t]
  <2>1. ~("submit_local" \in a /\ "backing" \in claims[t])
    BY Zenon, <1>6, <1>8
  <2> HIDE DEF a
  <2>2. invariant_reported' = [invariant_reported EXCEPT ![t] =
           IF \/ "rdma_result" \notin claims[t]
              \/ "submit_local" \in a /\ "backing" \in claims[t] THEN 1 ELSE @]
    BY ZenonT(120), <1>4 DEF RdmaCompleted, NoteInvariant, a
  <2> QED
    BY Zenon, <1>4, <2>1, <2>2 DEF TypeOK
<1>11. TodoMoves(t, "result", a)
  BY <1>4, FrameNames DEF RdmaCompleted, TodoMoves, TypeOK
<1> HIDE DEF a
<1>12. EventInv(t)'
  BY Zenon, <1>1, <1>2, <1>3, <1>4, FrameNames, EventBegins
     DEF TransactionInv, SameAdapter
<1> USE DEF TransactionInv
<1>13. Started(t)'
  BY Zenon, <1>1, <1>3 DEF Started, SameAdapter
<1>14. FrameInv(t)'
  BY Zenon, <1>1, <1>2, <1>3, <1>6, <1>11, <1>13, FrameBegins
<1>15. ClaimInv(t)'
  <2>1. /\ pc'[t]["result"] = "apply" /\ pc'[t]["released"] = pc[t]["released"]
        /\ todo'[t]["result"] = a
        /\ \A h \in {"start", "backing"} : todo'[t][h] = todo[t][h]
    BY Zenon, <1>2, <1>11, FrameNames DEF PcMoves, TodoMoves
  <2>2. /\ Triggered(t, "backing")' <=> Triggered(t, "backing")
        /\ Triggered(t, "retry")' <=> Triggered(t, "retry")
    BY Zenon, <1>1, <1>2, FrameNames DEF Triggered, PcMoves, SameCaller
  <2>3. Outstanding(t)' = Flag(local'[t] = "pending")
    <3>1. CASE "submit_local" \in a
      <4>1. /\ Flag("submit_local" \in todo'[t]["start"]) = 0
            /\ Flag("submit_local" \in todo'[t]["result"]) = 1
            /\ Flag("submit_local" \in todo'[t]["backing"]) = 0
            /\ Flag(Triggered(t, "backing")') = 0
            /\ Flag(Triggered(t, "retry")') = 0
            /\ Flag(local'[t] = "pending") = 1
        BY Zenon, <1>6, <1>8, <1>9, <2>1, <2>2, <3>1 DEF Flag
      <4> HIDE DEF Flag, Triggered
      <4> QED
        BY <4>1 DEF Outstanding
    <3>2. CASE "submit_local" \notin a
      <4>1. SameSubmits(t)
        BY Zenon, <1>5, <1>11, <2>1, <3>2 DEF SameSubmits, TodoMoves
      <4>2. local'[t] = local[t]
        BY Zenon, <1>9, <3>2
      <4> QED
        BY Zenon, <2>2, <4>1, <4>2, OutstandingKept DEF ClaimInv
    <3> QED
      BY ZenonT(120), <3>1, <3>2
  <2>4. /\ "rdma_result" \notin claims'[t]
        /\ "rdma_transport" \in claims'[t] <=> "rdma_transport" \in claims[t]
        /\ "backing" \in claims'[t] <=> local'[t] = "pending"
        /\ remote'[t] # "pending" /\ remote'[t] # "none"
    BY Zenon, <1>9 DEF ClaimInv
  <2> QED
    BY ZenonT(120), <1>1, <1>3, <1>10, <1>13, <2>1, <2>3, <2>4, FrameNames
    DEF ClaimInv, SameCaller
<1>16. BackingInv(t)'
  <2> USE DEF BackedRead, BackedWrite, Done, PcMoves, TodoMoves, SameCaller,
              SameAdapter
  <2>1. CASE "submit_local" \in a
    <3>1. caller[t]["backing"] = "nobody" /\ local'[t] = "pending"
      BY ZenonT(120), <1>6, <1>7, <1>8, <1>9, <2>1 DEF BackingInv, Triggered
    <3> QED
      BY ZenonT(120), <1>1, <1>2, <1>5, <1>6, <1>7, <1>8, <1>11, <2>1, <3>1,
         FrameNames
      DEF BackingInv, FrameInv
  <2>2. CASE "submit_local" \notin a
    BY ZenonT(120), <1>1, <1>2, <1>5, <1>9, <1>11, <2>2, FrameNames DEF BackingInv
  <2> QED
    BY ZenonT(120), <2>1, <2>2
<1>17. PolicyInv(t)'
  <2> USE DEF BackedRead, BackedWrite
  <2>1. /\ mode' = "REMOTE_ONLY" => local'[t] = "none"
        /\ BackedRead(t)' => (local'[t] # "none" <=> remote'[t] = "error")
        /\ BackedWrite(t)' => local'[t] # "none"
    BY Zenon, <1>1, <1>6, <1>7, <1>9 DEF PolicyInv
  <2>2. prepared'[t] = 0 =>
          /\ remote'[t] # "ok" /\ "submit_rdma" \notin todo'[t]["start"]
          /\ caller'[t]["result"] # "async"
    BY ZenonT(120), <1>1, <1>2, <1>3, <1>9, <1>11, FrameNames
    DEF PolicyInv, TodoMoves, SameCaller, SameAdapter
  <2>3. request_complete[t] = Flag(Decided(t)) /\ request_complete[t] \in {0, 1}
    BY Zenon, <1>3 DEF PolicyInv, TypeAt
  <2>4. Decided(t)' <=> Decided(t) \/ Completing(a)
    <3> USE DEF Decided, Flag, Done
    <3>1. CASE mode = "REMOTE_ONLY"
      BY Zenon, <1>1, <1>4, <1>6, <1>9, <2>3, <3>1
    <3>2. CASE BackedRead(t)
      BY Zenon, <1>1, <1>4, <1>6, <1>7, <1>9, <2>3, <3>2
    <3>3. CASE BackedWrite(t)
      BY ZenonT(120), <1>1, <1>3, <1>4, <1>6, <1>9, <2>3, <3>3 DEF TypeAt, Mode
    <3> QED
      BY Zenon, <1>3, <1>5, <3>1, <3>2, <3>3 DEF TypeAt
  <2>5. request_complete'[t] = Flag(Decided(t)')
    BY Zenon, <1>9, <2>3, <2>4 DEF Flag
  <2> QED
    BY Zenon, <1>13, <2>1, <2>2, <2>5 DEF PolicyInv
<1>18. CompletionInv(t)'
  <2>1. ASSUME NEW g \in Frame
        PROVE /\ "success" \in todo'[t][g] =>
                   "error" \notin todo'[t][g] /\ Ack!Justified(t, "ok")'
              /\ "error" \in todo'[t][g] =>
                   CompletionStatus(t)' = "error" /\ Ack!Justified(t, "error")'
    <3> USE DEF BackedRead, BackedWrite
    <3>1. CASE g = "result"
      <4>1. todo'[t][g] = a
        BY Zenon, <1>11, <3>1 DEF TodoMoves
      <4> QED
        BY ZenonT(120), <1>1, <1>3, <1>5, <1>6, <1>7, <1>9, <4>1
        DEF CompletionStatus, Ack!Justified, Ack!Status, Completing, PolicyInv,
            TypeAt, Mode, Done
    <3>2. CASE g # "result"
      <4>1. todo'[t][g] = todo[t][g]
        BY Zenon, <1>11, <3>2 DEF TodoMoves
      <4>2. ~Ack!Justified(t, "error") /\ ~Ack!Justified(t, "ok")
        BY Zenon, <1>3, <1>4, <1>5, <1>7
        DEF Ack!Justified, Ack!Status, TypeAt, Mode
      <4> QED
        BY Zenon, <4>1, <4>2 DEF CompletionInv
    <3> QED
      BY Zenon, <3>1, <3>2
  <2> QED
    BY Zenon, <1>1, <1>3, <1>5, <1>6, <1>9, <1>11, <1>13, <2>1, CompletionAdds
    DEF SameAdapter
<1> QED
  BY Zenon, <1>12, <1>14, <1>15, <1>16, <1>17, <1>18

\* Degrading the Backing Store or marking a range is noted once.
LEMMA MarkStep ==
  ASSUME TypeOK, NEW t \in Transaction, TransactionInv(t), NEW f \in Frame,
         MarkBacking(t, f)
  PROVE  TransactionInv(t)'
<1>1. /\ SamePolicy(t) /\ SameClaims(t) /\ SamePc(t) /\ SameCaller(t)
      /\ storage'[t] = storage[t] /\ prepared'[t] = prepared[t]
      /\ completions'[t] = completions[t] /\ result'[t] = result[t]
  BY Zenon DEF MarkBacking, SamePolicy, SameClaims, SamePc, SameCaller,
     engineVars, policyVars, claimVars
<1>2. PICK e \in {"degraded", "local_only"} :
        Turn(t, f, e) /\ DidEffect(t, f, e) /\
        degraded' = [degraded EXCEPT ![t] = IF e = "degraded" THEN 1 ELSE @]
  BY Zenon DEF MarkBacking
<1>3. /\ TodoMoves(t, f, todo[t][f] \ {e})
      /\ pc[t][f] = "apply" /\ e \in todo[t][f]
      /\ degraded'[t] = IF e = "degraded" THEN 1 ELSE degraded[t]
  BY ZenonT(120), <1>2 DEF Turn, DidEffect, TypeOK, TodoMoves
<1> USE DEF TransactionInv
<1>4. f \in {"backing", "retry", "result"} /\ (e = "degraded" => f # "result")
  BY Zenon, <1>2, <1>3 DEF FrameInv, Frame
<1>5. Started(t) /\ (Started(t)' <=> Started(t))
  BY Zenon, <1>1, <1>3, <1>4 DEF FrameInv, Started
<1>6. /\ SameIdle(t) /\ SameSubmits(t) /\ SameAnswers(t)
      /\ \A g \in Frame : todo'[t][g] \subseteq todo[t][g]
      /\ \A g \in {"start", "released"} : todo'[t][g] = todo[t][g]
  BY Zenon, <1>1, <1>2, <1>3, <1>4, FrameNames
  DEF SameIdle, SameSubmits, SameAnswers, SamePc, TodoMoves
<1>7. FrameInv(t)'
  BY Zenon, <1>1, <1>5, <1>6, FrameKept DEF FramesAdvance, SamePc
<1>8. ClaimInv(t)'
  BY Zenon, <1>1, <1>5, <1>6, ClaimKept, FrameNames DEF SameClaims, SameCaller
<1>9. BackingInv(t)'
  <2>1. CASE e = "degraded"
    <3>1. local[t] = "error" /\ degraded'[t] = 1
      BY Zenon, <1>3, <1>4, <2>1 DEF BackingInv
    <3> QED
      BY ZenonT(120), <1>1, <1>6, <3>1, FrameNames
      DEF BackingInv, BackedRead, BackedWrite,
         Done, SamePc, SamePolicy, SameCaller, SameClaims, SameSubmits
  <2>2. CASE e # "degraded"
    BY ZenonT(120), <1>1, <1>3, <1>6, <2>2, BackingKept, FrameNames
    DEF SameClaims, SameCaller, TodoMoves
  <2> QED
    BY Zenon, <2>1, <2>2
<1>10. PolicyInv(t)'
  BY Zenon, <1>1, <1>5, <1>6, PolicyKept, FrameNames DEF SameCaller
<1>11. CompletionInv(t)'
  BY Zenon, <1>1, <1>5, <1>6, SameCompletion, FrameNames DEF SamePc
<1>12. EventInv(t)'
  BY Zenon, <1>1, SameEvent
<1> QED
  BY Zenon, <1>7, <1>8, <1>9, <1>10, <1>11, <1>12

\* The request is completed with a status that the paths justify.
LEMMA CompleteStep ==
  ASSUME TypeOK, NEW t \in Transaction, TransactionInv(t), NEW f \in Frame,
         Complete(t, f)
  PROVE  TransactionInv(t)'
<1>1. /\ SamePolicy(t) /\ SameClaims(t) /\ SamePc(t) /\ SameCaller(t)
      /\ storage'[t] = storage[t] /\ prepared'[t] = prepared[t]
      /\ degraded'[t] = degraded[t]
  BY Zenon DEF Complete, SamePolicy, SameClaims, SamePc, SameCaller,
     engineVars, policyVars, claimVars
<1>2. PICK e \in {"success", "error"} :
        /\ Turn(t, f, e) /\ DidEffect(t, f, e)
        /\ completions' = [completions EXCEPT ![t] = @ + 1]
        /\ result' = [result EXCEPT ![t] =
                        IF e = "success" THEN "ok" ELSE CompletionStatus(t)]
  BY Zenon DEF Complete
<1>3. /\ TodoMoves(t, f, todo[t][f] \ {e})
      /\ pc[t][f] = "apply" /\ e \in todo[t][f]
      /\ completions'[t] = completions[t] + 1
      /\ result'[t] = IF e = "success" THEN "ok" ELSE CompletionStatus(t)
  BY <1>2 DEF Turn, DidEffect, TypeOK, TodoMoves
<1> USE DEF TransactionInv
<1>4. f \in {"backing", "retry", "result"}
  BY Zenon, <1>2, <1>3 DEF FrameInv, Frame
<1>5. Completing(todo[t][f]) /\ ~Completing(todo[t][f] \ {e})
  BY Zenon, <1>2, <1>3 DEF CompletionInv, Completing
<1>6. result'[t] # "none" /\ Started(t)
  <2>1. e = "error" => CompletionStatus(t) = "error"
    BY Zenon, <1>3 DEF CompletionInv
  <2>2. Started(t)
    BY Zenon, <1>3, <1>4 DEF FrameInv
  <2>3. CASE e = "success"
    BY Zenon, <1>3, <2>2, <2>3
  <2>4. CASE e = "error"
    BY Zenon, <1>3, <2>1, <2>2, <2>4
  <2> QED
    BY Zenon, <1>2, <2>3, <2>4
<1>7. TypeAt(t)
  BY Zenon, TypesAt
<1>8. /\ SameIdle(t) /\ SameSubmits(t) /\ (Started(t)' <=> Started(t))
      /\ \A g \in Frame : todo'[t][g] \subseteq todo[t][g]
      /\ \A g \in {"start", "released"} : todo'[t][g] = todo[t][g]
  BY Zenon, <1>1, <1>2, <1>3, <1>4, FrameNames
  DEF Started, SameIdle, SameSubmits, SamePc, TodoMoves
<1>9. FrameInv(t)'
  BY Zenon, <1>1, <1>6, <1>8, FrameKept DEF FramesAdvance, SamePc
<1>10. ClaimInv(t)'
  BY Zenon, <1>1, <1>8, ClaimKept, FrameNames DEF SameClaims, SameCaller
<1>11. BackingInv(t)'
  BY ZenonT(120), <1>1, <1>2, <1>3, <1>8, BackingKept, FrameNames
  DEF SameClaims, SameCaller, TodoMoves
<1>12. PolicyInv(t)'
  BY Zenon, <1>1, <1>8, PolicyKept, FrameNames DEF SameCaller
<1>13. CompletionInv(t)'
  <2>1. \A g \in Frame :
          /\ "success" \in todo'[t][g] =>
               "error" \notin todo'[t][g] /\ Ack!Justified(t, "ok")'
          /\ "error" \in todo'[t][g] =>
               CompletionStatus(t)' = "error" /\ Ack!Justified(t, "error")'
    <3>1. \A g \in Frame : todo'[t][g] \subseteq todo[t][g]
      BY Zenon, <1>8
    <3>2. /\ Ack!Justified(t, "ok")' <=> Ack!Justified(t, "ok")
          /\ Ack!Justified(t, "error")' <=> Ack!Justified(t, "error")
          /\ CompletionStatus(t)' = CompletionStatus(t)
      BY Zenon, <1>1 DEF CompletionStatus, Ack!Justified, Ack!Status,
         SamePolicy, BackedRead, BackedWrite, Done
    <3> HIDE DEF CompletionStatus
    <3> QED
      BY Zenon, <3>1, <3>2 DEF CompletionInv
  <2>2. completions'[t] + Flag(Completing(todo'[t]["backing"]))
          + Flag(Completing(todo'[t]["retry"]))
          + Flag(Completing(todo'[t]["result"])) = request_complete[t]
    <3> HIDE DEF Completing
    <3>1. \A g \in Frame \ {f} : todo'[t][g] = todo[t][g]
      BY Zenon, <1>3 DEF TodoMoves
    <3>2. ~Completing(todo'[t][f])
      BY Zenon, <1>3, <1>5 DEF TodoMoves
    <3>3. completions[t] \in Nat /\ request_complete[t] \in {0, 1}
      BY Zenon, <1>7 DEF TypeAt
    <3>4. completions[t] + Flag(Completing(todo[t]["backing"]))
            + Flag(Completing(todo[t]["retry"]))
            + Flag(Completing(todo[t]["result"])) = request_complete[t]
      BY Zenon, <1>6 DEF CompletionInv
    <3>5. completions'[t] = completions[t] + 1
      BY ZenonT(120), <1>3
    <3>6. CASE f = "backing"
      BY SMTT(60), Z3T(60), ZenonT(120), <1>5, <3>1, <3>2, <3>3, <3>4, <3>5,
         <3>6, FrameNames
      DEF Flag
    <3>7. CASE f = "retry"
      BY SMTT(60), Z3T(60), ZenonT(120), <1>5, <3>1, <3>2, <3>3, <3>4, <3>5,
         <3>7, FrameNames
      DEF Flag
    <3>8. CASE f = "result"
      BY SMTT(60), Z3T(60), ZenonT(120), <1>5, <3>1, <3>2, <3>3, <3>4, <3>5,
         <3>8, FrameNames
      DEF Flag
    <3> QED
      BY Zenon, <1>4, <3>6, <3>7, <3>8
  <2>3. completions'[t] # 0 /\ storage'[t] = storage[t]
           /\ request_complete'[t] = request_complete[t]
    BY <1>1, <1>3, <1>7 DEF TypeAt, SamePolicy
  <2> QED
    BY Zenon, <1>6, <1>8, <2>1, <2>2, <2>3 DEF CompletionInv
<1>14. EventInv(t)'
  BY Zenon, <1>1, SameEvent
<1> QED
  BY Zenon, <1>9, <1>10, <1>11, <1>12, <1>13, <1>14

\* The Backing Store I/O is submitted, or reported as failed by its caller.
LEMMA SubmitBackingStep ==
  ASSUME TypeOK, NEW t \in Transaction, TransactionInv(t), NEW f \in Frame,
         SubmitBacking(t, f)
  PROVE  TransactionInv(t)'
<1> DEFINE g == IF caller[t]["backing"] = "nobody" THEN "backing" ELSE "retry"
<1>1. SamePolicy(t) /\ SameClaims(t) /\ SamePc(t) /\ SameAdapter(t)
  BY Zenon DEF SubmitBacking, SamePolicy, SameClaims, SamePc, SameAdapter,
     engineVars, policyVars, claimVars, adapterVars
<1>2. PICK who \in {"async", f} : caller' = [caller EXCEPT ![t][g] = who]
  BY Zenon DEF SubmitBacking
<1>3. g \in Frame
  BY Zenon, FrameNames
<1>4. /\ TodoMoves(t, f, todo[t][f] \ {"submit_local"})
      /\ pc[t][f] = "apply" /\ "submit_local" \in todo[t][f]
  BY DEF SubmitBacking, Turn, DidEffect, TypeOK, TodoMoves
<1> HIDE DEF g
<1>5. CallerMoves(t, g, who)
  BY ZenonT(120), <1>2, <1>3 DEF TypeOK, CallerMoves
<1> USE DEF TransactionInv
<1>6. f \in {"start", "backing", "result"} /\ who # "nobody"
  <2>1. f \in {"start", "backing", "result"}
    BY ZenonT(120), <1>4 DEF FrameInv, Frame
  <2> QED
    BY Zenon, <1>2, <2>1
<1>7. Started(t) /\ (Started(t)' <=> Started(t))
  BY ZenonT(120), <1>1, <1>4 DEF FrameInv, Started, SameAdapter
<1>8. /\ (g = "retry" /\ f = "backing") \/ (g = "backing" /\ f # "backing")
      /\ caller[t][g] = "nobody"
  BY ZenonT(120), <1>4, <1>6, FrameNames DEF g, BackingInv, FrameInv
<1>9. pc[t][g] = "idle"
  BY ZenonT(120), <1>3, <1>8 DEF FrameInv
<1>10. \A h \in Frame : todo'[t][h] \subseteq todo[t][h]
  BY Zenon, <1>4 DEF TodoMoves
<1>11. FrameInv(t)'
  <2>1. \A h \in Frame : caller'[t][h] = "nobody" => pc'[t][h] = "idle"
    <3>1. \A h \in Frame : caller[t][h] = "nobody" => pc[t][h] = "idle"
      BY Zenon DEF FrameInv
    <3> QED
      BY Zenon, <1>1, <1>5, <1>6, <3>1 DEF SamePc, CallerMoves
  <2>2. \A h \in Frame : pc'[t][h] # "apply" => todo'[t][h] = {}
    <3>1. \A h \in Frame : pc[t][h] # "apply" => todo[t][h] = {}
      BY Zenon DEF FrameInv
    <3> QED
      BY Zenon, <1>1, <1>10, <3>1 DEF SamePc
  <2>3. /\ caller'[t]["start"] = caller[t]["start"]
        /\ pc'[t]["start"] = pc[t]["start"]
    BY Zenon, <1>1, <1>5, <1>8, FrameNames DEF SamePc, CallerMoves
  <2>4. /\ todo'[t]["start"] \subseteq todo[t]["start"]
        /\ todo'[t]["backing"] \subseteq todo[t]["backing"]
        /\ todo'[t]["retry"] \subseteq todo[t]["retry"]
        /\ todo'[t]["result"] \subseteq todo[t]["result"]
        /\ todo'[t]["released"] = {}
    BY ZenonT(120), <1>10, FrameNames DEF FrameInv
  <2> QED
    BY ZenonT(120), <1>1, <1>7, <2>1, <2>2, <2>3, <2>4 DEF FrameInv, SamePolicy
<1>12. ClaimInv(t)'
  <2>1. Outstanding(t)' = Outstanding(t)
    BY <1>1, <1>4, <1>5, <1>6, <1>8, <1>9, FrameNames
    DEF Outstanding, Flag, Triggered, SamePc, TodoMoves, CallerMoves
  <2>2. \A h \in {"result", "released"} : caller'[t][h] = caller[t][h]
    BY Zenon, <1>5, <1>8, FrameNames DEF CallerMoves
  <2>3. \A e \in {"submit_rdma", "release_rdma", "fail_rdma"} :
          e \in todo'[t]["start"] <=> e \in todo[t]["start"]
    BY Zenon, <1>4, FrameNames DEF TodoMoves
  <2> QED
    BY ZenonT(120), <1>1, <1>7, <2>1, <2>2, <2>3, FrameNames
    DEF ClaimInv, SamePc, SamePolicy, SameClaims
<1>13. BackingInv(t)'
  <2>1. \A h \in {"start", "result", "backing"} :
          "submit_local" \in todo[t][h] => h = f
    BY <1>4, <1>6 DEF ClaimInv, Outstanding, Flag
  <2>2. /\ "submit_local" \notin todo'[t]["start"]
        /\ "submit_local" \notin todo'[t]["result"]
        /\ "submit_local" \notin todo'[t]["backing"]
    BY Zenon, <1>4, <2>1, FrameNames DEF TodoMoves
  <2>3. /\ "degraded" \in todo'[t]["backing"] <=> "degraded" \in todo[t]["backing"]
        /\ "degraded" \in todo'[t]["retry"] <=> "degraded" \in todo[t]["retry"]
    BY Zenon, <1>4, FrameNames DEF TodoMoves
  <2>4. /\ pc'[t]["backing"] = pc[t]["backing"] /\ pc'[t]["retry"] = pc[t]["retry"]
        /\ local'[t] = local[t] /\ degraded'[t] = degraded[t]
        /\ backing_retries'[t] = backing_retries[t]
    BY Zenon, <1>1, FrameNames DEF SamePc, SamePolicy, SameClaims, SameAdapter
  <2>5. CASE g = "retry" /\ f = "backing"
    <3>1. /\ caller'[t]["retry"] # "nobody" /\ caller'[t]["backing"] # "nobody"
          /\ backing_retries[t] = 1
      BY ZenonT(120), <1>4, <1>5, <1>6, <2>5, FrameNames
      DEF BackingInv, FrameInv, CallerMoves
    <3> QED
      BY ZenonT(120), <2>2, <2>3, <2>4, <3>1 DEF BackingInv
  <2>6. CASE g = "backing" /\ f # "backing"
    <3>1. /\ caller'[t]["backing"] # "nobody" /\ caller'[t]["retry"] = "nobody"
          /\ backing_retries[t] # 1 /\ pc[t]["backing"] = "idle"
      BY ZenonT(120), <1>5, <1>6, <1>8, <1>9, <2>1, <2>6, FrameNames
      DEF BackingInv, CallerMoves
    <3> QED
      BY ZenonT(120), <2>2, <2>3, <2>4, <3>1 DEF BackingInv
  <2> QED
    BY ZenonT(120), <1>8, <2>5, <2>6
<1>14. PolicyInv(t)'
  BY Zenon, <1>1, <1>5, <1>7, <1>8, <1>10, PolicyKept, FrameNames
  DEF SameAdapter, CallerMoves
<1>15. CompletionInv(t)'
  <2>1. SameAnswers(t)
    BY Zenon, <1>4 DEF SameAnswers, TodoMoves
  <2> QED
    BY Zenon, <1>1, <1>7, <2>1, SameCompletion, FrameNames
    DEF SameAdapter, SamePc
<1>16. EventInv(t)'
  BY Zenon, <1>1, SameEvent DEF SameAdapter
<1> QED
  BY Zenon, <1>11, <1>12, <1>13, <1>14, <1>15, <1>16

\* Freeing the transaction is the last thing that happens to it.
LEMMA ReleaseStep ==
  ASSUME TypeOK, NEW t \in Transaction, TransactionInv(t), NEW f \in Frame,
         ReleaseStorage(t, f)
  PROVE  TransactionInv(t)'
<1>1. /\ SamePolicy(t) /\ SameClaims(t) /\ SameTodo(t) /\ SameCaller(t)
      /\ storage'[t] = "freed" /\ prepared'[t] = prepared[t]
      /\ completions'[t] = completions[t] /\ result'[t] = result[t]
      /\ degraded'[t] = degraded[t]
  BY ZenonT(120) DEF ReleaseStorage, SamePolicy, SameClaims, SameTodo, SameCaller,
     engineVars, policyVars, claimVars, TypeOK
<1>2. PcMoves(t, f, "decrement") /\ pc[t][f] = "release"
  BY DEF ReleaseStorage, TypeOK, PcMoves
<1> USE DEF TransactionInv, SameAdapter
<1>3. Started(t) /\ Started(t)'
  BY Zenon, <1>1, <1>2 DEF EventInv, Started
<1>4. caller[t][f] # "nobody" /\ todo[t][f] = {}
  BY Zenon, <1>2 DEF FrameInv
<1>5. SameIdle(t) /\ SameSubmits(t) /\ SameAnswers(t)
  BY Zenon, <1>1, <1>2
  DEF SameIdle, SameSubmits, SameAnswers, PcMoves, SameTodo
<1>6. FrameInv(t)'
  <2>1. FramesAdvance(t)
    BY Zenon, <1>2, <1>4 DEF FramesAdvance, PcMoves
  <2> QED
    BY Zenon, <1>1, <1>3, <2>1, FrameKept DEF SameTodo
<1>7. ClaimInv(t)'
  BY ZenonT(120), <1>1, <1>3, <1>5, ClaimKept, FrameNames
  DEF SameClaims, SameTodo, SameCaller
<1>8. BackingInv(t)'
  BY Zenon, <1>1, <1>5, BackingKept, FrameNames
  DEF SameClaims, SameTodo, SameCaller
<1>9. PolicyInv(t)'
  BY Zenon, <1>1, <1>3, PolicyKept, FrameNames DEF SameTodo, SameCaller
<1>10. CompletionInv(t)'
  <2>1. pc'[t]["start"] = "idle" <=> pc[t]["start"] = "idle"
    BY Zenon, <1>2, FrameNames DEF PcMoves
  <2> QED
    BY Zenon, <1>1, <1>3, <1>5, <2>1, SameCompletion
<1>11. EventInv(t)'
  BY ZenonT(120), <1>1, <1>2, LeavingKept DEF Leaving
<1> QED
  BY Zenon, <1>6, <1>7, <1>8, <1>9, <1>10, <1>11

\* The engine's count goes down after the transaction was freed.
LEMMA DecrementStep ==
  ASSUME TypeOK, NEW t \in Transaction, TransactionInv(t), NEW f \in Frame,
         DecrementEngine(t, f)
  PROVE  TransactionInv(t)'
<1>1. /\ SamePolicy(t) /\ SameClaims(t) /\ SameTodo(t) /\ SameCaller(t)
      /\ SameAdapter(t)
  BY Zenon DEF DecrementEngine, SamePolicy, SameClaims, SameTodo, SameCaller,
     SameAdapter, engineVars, policyVars, claimVars, adapterVars
<1>2. PcMoves(t, f, "settle") /\ pc[t][f] = "decrement"
  BY DEF DecrementEngine, TypeOK, PcMoves
<1> USE DEF TransactionInv, SameAdapter
<1>3. /\ Started(t)' <=> Started(t)
      /\ ~Started(t) => f = "start"
  BY ZenonT(120), <1>1, <1>2, FrameNames DEF FrameInv, Started
<1>4. caller[t][f] # "nobody" /\ todo[t][f] = {}
  BY Zenon, <1>2 DEF FrameInv
<1>5. SameIdle(t) /\ SameSubmits(t) /\ SameAnswers(t)
  BY Zenon, <1>1, <1>2
  DEF SameIdle, SameSubmits, SameAnswers, PcMoves, SameTodo
<1>6. FrameInv(t)'
  <2>1. FramesAdvance(t)
    BY Zenon, <1>2, <1>4 DEF FramesAdvance, PcMoves
  <2>2. f = "start" => pc'[t]["start"] \in {"decrement", "settle", "end"}
    BY Zenon, <1>2 DEF PcMoves
  <2> QED
    BY Zenon, <1>1, <1>3, <2>1, <2>2, FrameKept DEF SameTodo
<1>7. ClaimInv(t)'
  BY Zenon, <1>1, <1>3, <1>5, ClaimKept, FrameNames
  DEF SameClaims, SameTodo, SameCaller
<1>8. BackingInv(t)'
  BY Zenon, <1>1, <1>5, BackingKept, FrameNames
  DEF SameClaims, SameTodo, SameCaller
<1>9. PolicyInv(t)'
  BY Zenon, <1>1, <1>3, PolicyKept, FrameNames DEF SameTodo, SameCaller
<1>10. CompletionInv(t)'
  <2>1. pc'[t]["start"] = "idle" <=> pc[t]["start"] = "idle"
    BY Zenon, <1>2, FrameNames DEF PcMoves
  <2> QED
    BY Zenon, <1>1, <1>3, <1>5, <2>1, SameCompletion
<1>11. EventInv(t)'
  BY ZenonT(120), <1>1, <1>2, LeavingKept DEF Leaving
<1> QED
  BY Zenon, <1>6, <1>7, <1>8, <1>9, <1>10, <1>11

\* The device's count goes down last.
LEMMA SettleStep ==
  ASSUME TypeOK, NEW t \in Transaction, TransactionInv(t), NEW f \in Frame,
         Settle(t, f)
  PROVE  TransactionInv(t)'
<1>1. /\ SamePolicy(t) /\ SameClaims(t) /\ SameTodo(t) /\ SameCaller(t)
      /\ SameAdapter(t)
  BY Zenon DEF Settle, SamePolicy, SameClaims, SameTodo, SameCaller,
     SameAdapter, engineVars, policyVars, claimVars, adapterVars
<1>2. PcMoves(t, f, "end") /\ pc[t][f] = "settle"
  BY DEF Settle, TypeOK, PcMoves
<1> USE DEF TransactionInv, SameAdapter
<1>3. /\ Started(t)' <=> Started(t)
      /\ ~Started(t) => f = "start"
  BY ZenonT(120), <1>1, <1>2, FrameNames DEF FrameInv, Started
<1>4. caller[t][f] # "nobody" /\ todo[t][f] = {}
  BY Zenon, <1>2 DEF FrameInv
<1>5. SameIdle(t) /\ SameSubmits(t) /\ SameAnswers(t)
  BY ZenonT(120), <1>1, <1>2
  DEF SameIdle, SameSubmits, SameAnswers, PcMoves, SameTodo
<1>6. FrameInv(t)'
  <2>1. FramesAdvance(t)
    BY Zenon, <1>2, <1>4 DEF FramesAdvance, PcMoves
  <2>2. f = "start" => pc'[t]["start"] \in {"decrement", "settle", "end"}
    BY ZenonT(120), <1>2 DEF PcMoves
  <2> QED
    BY Zenon, <1>1, <1>3, <2>1, <2>2, FrameKept DEF SameTodo
<1>7. ClaimInv(t)'
  BY Zenon, <1>1, <1>3, <1>5, ClaimKept, FrameNames
  DEF SameClaims, SameTodo, SameCaller
<1>8. BackingInv(t)'
  BY Zenon, <1>1, <1>5, BackingKept, FrameNames
  DEF SameClaims, SameTodo, SameCaller
<1>9. PolicyInv(t)'
  BY Zenon, <1>1, <1>3, PolicyKept, FrameNames DEF SameTodo, SameCaller
<1>10. CompletionInv(t)'
  <2>1. pc'[t]["start"] = "idle" <=> pc[t]["start"] = "idle"
    BY Zenon, <1>2, FrameNames DEF PcMoves
  <2> QED
    BY Zenon, <1>1, <1>3, <1>5, <2>1, SameCompletion
<1>11. EventInv(t)'
  BY ZenonT(120), <1>1, <1>2, LeavingKept DEF Leaving
<1> QED
  BY Zenon, <1>6, <1>7, <1>8, <1>9, <1>10, <1>11

\* The last event finds the policy releasable, and settles the transaction.
LEMMA FinishStep ==
  ASSUME TypeOK, NEW t \in Transaction, TransactionInv(t), NEW f \in Frame,
         FinishEvent(t, f)
  PROVE  TransactionInv(t)'
<1>1. /\ SamePolicy(t) /\ SameAdapter(t) /\ SameTodo(t) /\ SameCaller(t)
      /\ claims'[t] = claims[t] /\ backing_retries'[t] = backing_retries[t]
  BY Zenon DEF FinishEvent, SamePolicy, SameAdapter, SameTodo, SameCaller,
     engineVars, policyVars, adapterVars
<1>2. /\ active_events'[t] =
           IF active_events[t] > 0 THEN active_events[t] - 1 ELSE 0
      /\ invariant_reported'[t] = IF LastEvent(t) /\ ~Releasable(t) THEN 1
                                  ELSE invariant_reported[t]
      /\ settling'[t] = IF LastEvent(t) /\ Releasable(t) THEN 1 ELSE settling[t]
  BY ZenonT(120) DEF FinishEvent, NoteInvariant, TypeOK
<1>3. /\ PcMoves(t, f, IF LastEvent(t) /\ Releasable(t) THEN "release"
                       ELSE "end")
      /\ pc[t][f] = "apply" /\ todo[t][f] = {}
  BY DEF FinishEvent, TypeOK, PcMoves
<1>3a. pc[t][f] = "apply" /\ todo[t][f] = {}
  BY Zenon, <1>3
<1>3b. \A g \in Frame \ {f} : pc'[t][g] = pc[t][g]
  BY Zenon, <1>3 DEF PcMoves
<1>3c. pc'[t][f] = IF LastEvent(t) /\ Releasable(t) THEN "release" ELSE "end"
  BY Zenon, <1>3 DEF PcMoves
<1> USE DEF TransactionInv, SameAdapter
<1>4. /\ Started(t) /\ TypeAt(t)
      /\ Started(t)' <=> Started(t)
  BY ZenonT(120), <1>1, <1>3a, TypesAt, FrameNames DEF FrameInv, Started
<1>5. active_events[t] \in Nat /\ active_events[t] > 0 /\ settling[t] = 0
  <2>1. active_events[t] > 0 /\ active_events[t] \in Nat
    BY ZenonT(120), <1>3a, <1>3b, InsideMoves DEF EventInv
  <2> QED
    BY SMTT(60), <1>4, <2>1 DEF EventInv, TypeAt
<1>6. LastEvent(t) => Releasable(t)
  <2>1. SUFFICES ASSUME LastEvent(t)
        PROVE request_complete[t] = 1 /\ local[t] # "pending"
                /\ remote[t] # "pending"
    BY Zenon DEF Releasable
  <2>2. local[t] # "pending" /\ remote[t] # "pending" /\ remote[t] # "none"
    BY ZenonT(120), <1>4, <2>1 DEF LastEvent, ClaimInv
  <2>3. Decided(t)
    BY ZenonT(120), <1>4, <2>2
    DEF Decided, PolicyInv, TypeAt, FrameInv, Mode, Done,
       BackedRead, BackedWrite
  <2> QED
    BY ZenonT(120), <1>4, <2>2, <2>3 DEF PolicyInv, Flag
<1>7. LastEvent(t) => /\ active_events[t] = 1 /\ claims[t] = {}
                      /\ \A g \in Frame \ {f} : pc[t][g] # "apply"
  <2>1. LastEvent(t) => active_events[t] = 1 /\ claims[t] = {}
    BY <1>5 DEF LastEvent
  <2> QED
    BY ZenonT(120), <1>3a, <1>3b, <2>1, InsideMoves DEF EventInv
<1>8. ~LastEvent(t) => active_events[t] > 1 \/ claims[t] # {}
  BY <1>5 DEF LastEvent
<1>9. storage[t] = "live" /\ \A g \in Frame : ~Leaving(t, g)
  BY ZenonT(120), <1>4, <1>5 DEF EventInv
<1>10. invariant_reported'[t] = invariant_reported[t] /\ caller[t][f] # "nobody"
  BY ZenonT(120), <1>2, <1>3a, <1>6 DEF FrameInv
<1>11. pc'[t][f] \in {"release", "end"}
  BY Zenon, <1>3c
<1>12. SameIdle(t) /\ SameSubmits(t) /\ SameAnswers(t) /\ FramesAdvance(t)
  BY Zenon, <1>1, <1>3a, <1>3b, <1>10, <1>11
  DEF SameIdle, SameSubmits, SameAnswers, FramesAdvance, SameTodo
<1>12a. active_events'[t] = Inside(t)'
  <2>1. /\ active_events[t] = Inside(t)
        /\ Inside(t)' = Inside(t) - 1
    BY ZenonT(120), <1>3a, <1>3b, <1>11, InsideMoves DEF EventInv
  <2> QED
    BY Zenon, <1>2, <1>5, <2>1
<1>13. FrameInv(t)'
  BY Zenon, <1>1, <1>4, <1>12, FrameKept DEF SameTodo
<1>14. ClaimInv(t)'
  BY Zenon, <1>1, <1>4, <1>10, <1>12, ClaimKept, FrameNames
  DEF SameTodo, SameCaller
<1>15. BackingInv(t)'
  BY Zenon, <1>1, <1>12, BackingKept, FrameNames DEF SameTodo, SameCaller
<1>16. PolicyInv(t)'
  BY Zenon, <1>1, <1>4, PolicyKept, FrameNames DEF SameTodo, SameCaller
<1>17. CompletionInv(t)'
  <2>1. pc'[t]["start"] = "idle" <=> pc[t]["start"] = "idle"
    BY Zenon, <1>3a, <1>3b, <1>11, FrameNames
  <2> QED
    BY Zenon, <1>1, <1>4, <1>12, <2>1, SameCompletion
<1>18. EventInv(t)'
  <2>1. CASE LastEvent(t)
    <3>1. /\ settling'[t] = 1 /\ claims'[t] = {} /\ pc'[t][f] = "release"
      BY ZenonT(120), <1>1, <1>2, <1>3c, <1>6, <1>7, <2>1
    <3>2. active_events'[t] = 0
      BY <1>2, <1>7, <2>1
    <3>3. \A g \in Frame \ {f} : ~Leaving(t, g)'
      BY Zenon, <1>3b, <1>9 DEF Leaving
    <3>4. \A g \in Frame : pc'[t][g] = "release" => storage'[t] = "live"
      BY Zenon, <1>1, <1>9
    <3>5. \A h \in Frame, g \in Frame : Leaving(t, h)' /\ Leaving(t, g)' => h = g
      BY Zenon, <3>3
    <3>6. settling'[t] # 0
      BY <3>1
    <3> QED
      BY ZenonT(120), <1>12a, <3>1, <3>2, <3>4, <3>5, <3>6 DEF EventInv
  <2>2. CASE ~LastEvent(t)
    <3>1. settling'[t] = 0 /\ claims'[t] = claims[t] /\ pc'[t][f] = "end"
      BY ZenonT(120), <1>1, <1>2, <1>3c, <1>5, <2>2
    <3>2. storage'[t] = "live" /\ settling'[t] # 1
      BY <1>1, <1>9, <3>1
    <3>3. \A g \in Frame : ~Leaving(t, g)'
      BY ZenonT(120), <1>3b, <1>9, <3>1 DEF Leaving
    <3>4. ~(active_events'[t] = 0 /\ claims'[t] = {})
      BY <1>2, <1>5, <1>8, <2>2, <3>1
    <3>5. \A g \in Frame : pc'[t][g] # "release"
      BY Zenon, <3>3 DEF Leaving
    <3> QED
      BY ZenonT(120), <1>12a, <3>1, <3>2, <3>3, <3>4, <3>5 DEF EventInv
  <2> QED
    BY Zenon, <2>1, <2>2
<1> QED
  BY Zenon, <1>13, <1>14, <1>15, <1>16, <1>17, <1>18

===============================================================================
