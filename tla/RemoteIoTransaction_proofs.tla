---------------------- MODULE RemoteIoTransaction_proofs ----------------------
(*****************************************************************************)
(* Proofs about RemoteIoTransaction: the inductive invariant holds of every  *)
(* transaction, what follows from it, the engine's counters, and the         *)
(* acknowledgement it implements.                                            *)
(*****************************************************************************)
EXTENDS TransactionSteps_proofs, FiniteSetTheorems

-----------------------------------------------------------------------------

\* Initially no request was accepted.
LEMMA InitTransactions == Init => TransactionsInv
<1> SUFFICES ASSUME Init, NEW t \in Transaction PROVE TransactionInv(t)
  BY Zenon DEF TransactionsInv
<1>1. /\ direction[t] = "none" /\ local[t] = "none" /\ remote[t] = "none"
      /\ request_complete[t] = 0 /\ claims[t] = {} /\ active_events[t] = 0
      /\ backing_retries[t] = 0 /\ invariant_reported[t] = 0 /\ settling[t] = 0
      /\ storage[t] = "none" /\ prepared[t] = 0 /\ completions[t] = 0
      /\ result[t] = "none" /\ degraded[t] = 0
      /\ \A f \in Frame :
           pc[t][f] = "idle" /\ todo[t][f] = {} /\ caller[t][f] = "nobody"
  BY Zenon DEF Init
<1> USE DEF Started, Leaving, Flag, Frame, Triggered, Done, BackedRead,
            BackedWrite
<1>2. FrameInv(t)
  BY Zenon, <1>1 DEF FrameInv
<1>3. ClaimInv(t)
  BY <1>1 DEF ClaimInv, Outstanding
<1>4. BackingInv(t)
  BY <1>1 DEF BackingInv
<1>5. PolicyInv(t)
  BY Zenon, <1>1 DEF PolicyInv
<1>6. CompletionInv(t)
  BY SMTT(60), Z3T(60), ZenonT(120), <1>1 DEF CompletionInv, Completing
<1>7. EventInv(t)
  BY <1>1 DEF EventInv, Inside
<1> QED
  BY ZenonT(120), <1>2, <1>3, <1>4, <1>5, <1>6, <1>7 DEF TransactionInv

\* Every handler keeps the invariant of its transaction.
LEMMA TransactionStep ==
  ASSUME TypeOK, NEW t \in Transaction, TransactionInv(t), Step(t)
  PROVE  TransactionInv(t)'
  BY ZenonT(120), AcceptStep, StartStep, RejectStep, ReleasedStep, BackingStep,
     ResultStep, SubmitRdmaStep, FailRdmaStep, MarkStep, SubmitBackingStep,
     CompleteStep, FinishStep, ReleaseStep, DecrementStep, SettleStep
     DEF Step, Begin, Apply

\* Draining the device touches no transaction.
LEMMA DeviceStep ==
  ASSUME TypeOK, StopAccepting \/ EngineDestroy \/ UNCHANGED vars,
         NEW t \in Transaction
  PROVE  SameTransaction(t)
  BY Zenon DEF StopAccepting, EngineDestroy, vars, engineVars, policyVars,
     claimVars, frameVars, adapterVars, SameTransaction, SamePolicy, SameClaims,
     SameAdapter, SamePc, SameTodo, SameCaller

\* Whatever the order of completions, cancellations and releases, every
\* transaction keeps its inductive invariant.
THEOREM TransactionsCorrect == Spec => [](TypeOK /\ TransactionsInv)
<1>1. Init => TypeOK /\ TransactionsInv
  BY Zenon, InitType, InitTransactions
<1>2. ASSUME TypeOK, TransactionsInv, [Next]_vars
      PROVE  TypeOK' /\ TransactionsInv'
  <2>1. CASE StopAccepting \/ EngineDestroy \/ UNCHANGED vars
    <3>1. TypeOK'
      <4> USE DEF TypeOK, engineVars, policyVars, claimVars, frameVars,
                  adapterVars
      <4>1. CASE StopAccepting
        BY ZenonT(120), <1>2, <4>1 DEF StopAccepting
      <4>2. CASE EngineDestroy
        BY ZenonT(120), <1>2, <4>2 DEF EngineDestroy
      <4>3. CASE UNCHANGED vars
        BY ZenonT(120), <1>2, <4>3 DEF vars
      <4> QED
        BY ZenonT(120), <2>1, <4>1, <4>2, <4>3
    <3>2. ASSUME NEW t \in Transaction PROVE TransactionInv(t)'
      BY Zenon, <1>2, <2>1, DeviceStep, SameInv DEF TransactionsInv
    <3> QED
      BY Zenon, <3>1, <3>2 DEF TransactionsInv
  <2>2. ASSUME NEW t \in Transaction, Step(t)
        PROVE  TypeOK' /\ TransactionsInv'
    <3>1. TypeOK'
      BY Zenon, <1>2, <2>2, TypeStep DEF TransactionsInv
    <3>2. ASSUME NEW u \in Transaction PROVE TransactionInv(u)'
      <4>1. CASE u = t
        BY Zenon, <1>2, <2>2, <4>1, TransactionStep DEF TransactionsInv
      <4>2. CASE u # t
        BY ZenonT(120), <1>2, <2>2, <4>2, OtherTransaction, SameInv
           DEF TransactionsInv
      <4> QED
        BY Zenon, <4>1, <4>2
    <3> QED
      BY Zenon, <3>1, <3>2 DEF TransactionsInv
  <2> QED
    BY Zenon, <1>2, <2>1, <2>2 DEF Next
<1> QED
  BY <1>1, <1>2, PTL DEF Spec

\* adapter_invariant is never reached: no order of Backing Store completions,
\* RDMA results, cancellations and releases makes an illegal event, and the
\* last finish finds the policy releasable.
THEOREM EventsLegal == Spec => []NoIllegalEvent
<1>1. TransactionsInv => NoIllegalEvent
  BY Zenon DEF TransactionsInv, TransactionInv, ClaimInv, NoIllegalEvent
<1> QED
  BY <1>1, TransactionsCorrect, PTL

\* A freed transaction has no handler inside, none to come, nothing to do.
LEMMA FreedState ==
  ASSUME TypeOK, NEW t \in Transaction, TransactionInv(t), storage[t] = "freed"
  PROVE  \A f \in Frame : /\ ~Triggered(t, f) /\ todo[t][f] = {}
                          /\ pc[t][f] \notin {"apply", "release"}
<1>1. Started(t) /\ settling[t] = 1 /\ TypeAt(t)
  BY ZenonT(120), TypesAt DEF TransactionInv, EventInv, Started, TypeAt
<1>2. active_events[t] = 0 /\ claims[t] = {}
  BY ZenonT(120), <1>1 DEF TransactionInv, EventInv
<1>3. \A f \in Frame : pc[t][f] # "apply"
  BY <1>2 DEF TransactionInv, EventInv, Inside, Flag, Frame
<1>4. \A f \in Frame : pc[t][f] # "release"
  BY ZenonT(120) DEF TransactionInv, EventInv
<1>5. \A f \in Frame : todo[t][f] = {}
  BY ZenonT(120), <1>3 DEF TransactionInv, FrameInv
<1>6. /\ pc[t]["start"] # "idle" /\ pc[t]["result"] # "idle"
      /\ pc[t]["released"] # "idle" /\ local[t] # "pending"
  BY ZenonT(120), <1>1, <1>2 DEF TransactionInv, FrameInv, ClaimInv
<1>7. ~Triggered(t, "backing") /\ ~Triggered(t, "retry")
  BY <1>6 DEF TransactionInv, ClaimInv, Outstanding, Flag
<1> QED
  BY ZenonT(120), <1>1, <1>2, <1>3, <1>4, <1>5, <1>6, <1>7 DEF Frame, Triggered

\* adapter_release frees the transaction when every handler that was triggered
\* has run: none is inside it, none is still to come.
THEOREM FreedSafely == Spec => []FreedWhenQuiet
<1>1. TypeOK /\ TransactionsInv => FreedWhenQuiet
  BY ZenonT(120), FreedState DEF TransactionsInv, FreedWhenQuiet
<1> QED
  BY <1>1, TransactionsCorrect, PTL

\* When a transaction settles, is_degrade_backing was called for its range
\* exactly if its last Backing Store I/O failed.
THEOREM LostCopyKnown == Spec => []LostCopyReported
<1>1. ASSUME TypeOK, TransactionsInv, NEW t \in Transaction,
             storage[t] = "freed"
      PROVE  degraded[t] = 1 <=> local[t] = "error"
  <2>1. TransactionInv(t)
    BY Zenon, <1>1 DEF TransactionsInv
  <2>2. todo[t]["backing"] = {} /\ todo[t]["retry"] = {}
    BY ZenonT(120), <1>1, <2>1, FreedState, FrameNames
  <2> QED
    BY ZenonT(120), <2>1, <2>2 DEF TransactionInv, BackingInv
<1>2. TypeOK /\ TransactionsInv => LostCopyReported
  BY ZenonT(120), <1>1 DEF LostCopyReported
<1> QED
  BY <1>2, TransactionsCorrect, PTL

\* A Backing Store I/O on the pages of the block request is never outstanding
\* once the request was completed.
THEOREM PagesNotReused == Spec => []BorrowedPages
<1>1. ASSUME TypeOK, TransactionsInv, NEW t \in Transaction,
             NEW f \in {"backing", "retry"}, Triggered(t, f),
             direction[t] = "READ" \/ prepared[t] = 0
      PROVE  completions[t] = 0
  <2>1. TransactionInv(t) /\ TypeAt(t)
    BY ZenonT(120), <1>1, TypesAt DEF TransactionsInv
  <2>2. Started(t) /\ direction[t] # "none"
    BY ZenonT(120), <1>1, <2>1, FrameNames DEF TransactionInv, FrameInv, Triggered
  <2>3. local[t] = "pending"
    BY SMTT(60), Z3T(60), ZenonT(120), <1>1, <2>1
    DEF TransactionInv, ClaimInv, Outstanding, Flag
  <2>4. request_complete[t] = 0
    <3>1. ~Decided(t)
      BY ZenonT(120), <1>1, <2>1, <2>2, <2>3
      DEF TransactionInv, PolicyInv, Decided, Done,
         BackedRead, BackedWrite, TypeAt
    <3> QED
      BY ZenonT(120), <2>1, <2>2, <3>1 DEF TransactionInv, PolicyInv, Flag
  <2> QED
    BY SMTT(60), Z3T(60), ZenonT(120), <2>1, <2>2, <2>4
    DEF TransactionInv, CompletionInv, Flag, TypeAt
<1>2. TypeOK /\ TransactionsInv => BorrowedPages
  BY Zenon, <1>1 DEF BorrowedPages
<1> QED
  BY <1>2, TransactionsCorrect, PTL

-----------------------------------------------------------------------------
(*****************************************************************************)
(* The counters of the engine and of the device.                             *)
(*****************************************************************************)

\* A step that keeps the transaction keeps it in the counts.
LEMMA SameCounted ==
  ASSUME NEW t \in Transaction, SameTransaction(t)
  PROVE  /\ t \in InFlight' <=> t \in InFlight
         /\ t \in Counted' <=> t \in Counted
<1>1. /\ storage'[t] = storage[t] /\ caller'[t]["start"] = caller[t]["start"]
      /\ \A f \in Frame : pc'[t][f] = pc[t][f]
      /\ pc'[t]["start"] = pc[t]["start"]
  BY Zenon, FrameNames DEF SameTransaction, SameAdapter, SamePc, SameCaller
<1>2. Settled(t)' <=> Settled(t)
  BY Zenon, <1>1 DEF Settled
<1> HIDE DEF Settled
<1>3. t \in InFlight' <=> t \in InFlight
  BY ZenonT(120), <1>1, <1>2 DEF InFlight
<1> QED
  BY ZenonT(120), <1>1, <1>3 DEF Counted

\* A handler that runs inside a live transaction keeps it in the counts.
LEMMA LiveCounted ==
  ASSUME NEW t \in Transaction, storage[t] = "live", storage'[t] = "live",
         caller'[t]["start"] = caller[t]["start"],
         pc'[t]["start"] = "idle" <=> pc[t]["start"] = "idle",
         \A f \in Frame : pc'[t][f] = "settle" <=> pc[t][f] = "settle"
  PROVE  /\ t \in InFlight' <=> t \in InFlight
         /\ t \in Counted' <=> t \in Counted
<1>1. ~Settled(t) /\ ~Settled(t)'
  BY Zenon DEF Settled
<1> HIDE DEF Settled
<1>2. t \in InFlight' <=> t \in InFlight
  BY ZenonT(120), <1>1 DEF InFlight
<1> QED
  BY Zenon, <1>2 DEF Counted

\* The handlers that leave the counts alone.
LEMMA InsideStep ==
  ASSUME TypeOK, NEW t \in Transaction, TransactionInv(t), Step(t),
         ~AcceptRequest(t), ~Start(t), ~RejectStart(t),
         \A f \in Frame : ~DecrementEngine(t, f) /\ ~Settle(t, f)
  PROVE  /\ UNCHANGED engineVars
         /\ t \in InFlight' <=> t \in InFlight
         /\ t \in Counted' <=> t \in Counted
<1>1. ASSUME NEW f \in Frame, ReleaseStorage(t, f)
      PROVE  /\ UNCHANGED engineVars
             /\ t \in InFlight' <=> t \in InFlight
             /\ t \in Counted' <=> t \in Counted
  <2>1. /\ PcMoves(t, f, "decrement") /\ pc[t][f] = "release"
        /\ caller'[t]["start"] = caller[t]["start"] /\ UNCHANGED engineVars
    BY <1>1 DEF ReleaseStorage, TypeOK, PcMoves
  <2>2. ~Settled(t) /\ ~Settled(t)'
    BY Zenon, <2>1 DEF Settled, PcMoves
  <2>3. /\ pc'[t]["start"] = "idle" <=> pc[t]["start"] = "idle"
        /\ \A g \in Frame : pc'[t][g] = "settle" <=> pc[t][g] = "settle"
    BY Zenon, <2>1, FrameNames DEF PcMoves
  <2> HIDE DEF Settled
  <2>4. t \in InFlight' <=> t \in InFlight
    BY Zenon, <2>1, <2>2 DEF InFlight
  <2> QED
    BY ZenonT(120), <2>1, <2>3, <2>4 DEF Counted
<1>2. ASSUME NEW f \in Frame, NEW v \in {"apply", "release", "end"},
             UNCHANGED engineVars, storage[t] = "live", storage'[t] = "live",
             caller'[t]["start"] = caller[t]["start"],
             \/ SamePc(t)
             \/ /\ PcMoves(t, f, v) /\ pc[t][f] \in {"idle", "apply"}
                /\ f = "start" => pc[t][f] = "apply"
      PROVE  /\ UNCHANGED engineVars
             /\ t \in InFlight' <=> t \in InFlight
             /\ t \in Counted' <=> t \in Counted
  <2>1. /\ pc'[t]["start"] = "idle" <=> pc[t]["start"] = "idle"
        /\ \A g \in Frame : pc'[t][g] = "settle" <=> pc[t][g] = "settle"
    BY ZenonT(120), <1>2, FrameNames DEF SamePc, PcMoves
  <2> QED
    BY ZenonT(120), <1>2, <2>1, LiveCounted
<1>3. \A f \in Frame : Triggered(t, f) /\ f # "start" => Started(t)
  BY ZenonT(120), FrameNames DEF TransactionInv, FrameInv, Triggered
<1>4. \A f \in Frame : pc[t][f] = "apply" => Started(t)
  BY ZenonT(120), FrameNames DEF TransactionInv, FrameInv
<1>5. \A f \in Frame : pc[t][f] = "apply" => storage[t] = "live"
  <2> SUFFICES ASSUME NEW f \in Frame, pc[t][f] = "apply"
      PROVE storage[t] = "live"
    BY Zenon 
  <2>1. Started(t) /\ TypeAt(t)
    BY Zenon, <1>4, TypesAt
  <2> QED
    BY Zenon, <2>1, FreedState DEF Started, TypeAt
<1>6. \A f \in Frame : Triggered(t, f) /\ f # "start" => storage[t] = "live"
  <2> SUFFICES ASSUME NEW f \in Frame, Triggered(t, f), f # "start"
      PROVE storage[t] = "live"
    BY Zenon 
  <2>1. Started(t) /\ TypeAt(t)
    BY Zenon, <1>3, TypesAt
  <2> QED
    BY Zenon, <2>1, FreedState DEF Started, TypeAt
<1>7. CASE RdmaReleased(t)
  <2>1. /\ UNCHANGED engineVars /\ UNCHANGED caller /\ UNCHANGED storage
        /\ PcMoves(t, "released", "apply") /\ Triggered(t, "released")
    BY ZenonT(120), <1>7, FrameNames
    DEF RdmaReleased, adapterVars, TypeOK, PcMoves
  <2> QED
    BY ZenonT(120), <1>2, <1>6, <2>1, FrameNames DEF Triggered
<1>8. ASSUME NEW f \in {"backing", "retry"}, NEW status \in {"ok", "error"},
             BackingCompleted(t, f, status)
      PROVE  /\ UNCHANGED engineVars
             /\ t \in InFlight' <=> t \in InFlight
             /\ t \in Counted' <=> t \in Counted
  <2>1. /\ UNCHANGED engineVars /\ UNCHANGED caller /\ UNCHANGED storage
        /\ PcMoves(t, f, "apply") /\ Triggered(t, f) /\ f \in Frame /\ f # "start"
    BY <1>8, FrameNames DEF BackingCompleted, adapterVars, TypeOK, PcMoves
  <2> QED
    BY Zenon, <1>2, <1>6, <2>1 DEF Triggered
<1>9. ASSUME NEW status \in {"ok", "error"}, RdmaCompleted(t, status)
      PROVE  /\ UNCHANGED engineVars
             /\ t \in InFlight' <=> t \in InFlight
             /\ t \in Counted' <=> t \in Counted
  <2>1. /\ UNCHANGED engineVars /\ UNCHANGED caller /\ UNCHANGED storage
        /\ PcMoves(t, "result", "apply") /\ Triggered(t, "result")
    BY ZenonT(120), <1>9, FrameNames
    DEF RdmaCompleted, adapterVars, TypeOK, PcMoves
  <2> QED
    BY ZenonT(120), <1>2, <1>6, <2>1, FrameNames DEF Triggered
<1>10. CASE SubmitRdma(t)
  <2>1. /\ UNCHANGED engineVars /\ UNCHANGED storage /\ SamePc(t)
        /\ pc[t]["start"] = "apply"
    BY ZenonT(120), <1>10 DEF SubmitRdma, adapterVars, SamePc, Turn
  <2>2. caller'[t]["start"] = caller[t]["start"]
    BY SMTT(60), <1>10, FrameNames DEF SubmitRdma, TypeOK
  <2> QED
    BY ZenonT(120), <1>2, <1>5, <2>1, <2>2, FrameNames
<1>11. CASE FailRdma(t)
  <2>1. /\ UNCHANGED engineVars /\ UNCHANGED storage /\ SamePc(t)
        /\ pc[t]["start"] = "apply"
    BY ZenonT(120), <1>11 DEF FailRdma, adapterVars, SamePc, Turn
  <2>2. caller'[t]["start"] = caller[t]["start"]
    BY SMTT(60), Z3T(60), ZenonT(120), <1>11, FrameNames DEF FailRdma, TypeOK
  <2> QED
    BY Zenon, <1>2, <1>5, <2>1, <2>2, FrameNames
<1>12. ASSUME NEW f \in Frame,
              MarkBacking(t, f) \/ Complete(t, f) \/ SubmitBacking(t, f)
       PROVE  /\ UNCHANGED engineVars
              /\ t \in InFlight' <=> t \in InFlight
              /\ t \in Counted' <=> t \in Counted
  <2>1. /\ UNCHANGED engineVars /\ UNCHANGED storage /\ SamePc(t)
        /\ pc[t][f] = "apply"
    BY ZenonT(120), <1>12 DEF MarkBacking, Complete, SubmitBacking, adapterVars,
       SamePc, Turn
  <2>2. caller'[t]["start"] = caller[t]["start"]
    BY SMTT(60), Z3T(60), ZenonT(120), <1>12, FrameNames
    DEF MarkBacking, Complete, SubmitBacking, TypeOK
  <2> QED
    BY ZenonT(120), <1>2, <1>5, <2>1, <2>2
<1>13. ASSUME NEW f \in Frame, FinishEvent(t, f)
       PROVE  /\ UNCHANGED engineVars
              /\ t \in InFlight' <=> t \in InFlight
              /\ t \in Counted' <=> t \in Counted
  <2>1. PICK v \in {"release", "end"} :
          /\ UNCHANGED engineVars /\ UNCHANGED caller /\ UNCHANGED storage
          /\ PcMoves(t, f, v) /\ pc[t][f] = "apply"
    BY <1>13 DEF FinishEvent, adapterVars, TypeOK, PcMoves
  <2> QED
    BY ZenonT(120), <1>2, <1>5, <2>1
<1> QED
  BY ZenonT(120), <1>1, <1>7, <1>8, <1>9, <1>10, <1>11, <1>12, <1>13
     DEF Step, Begin, Apply

\* Both counted sets are finite.
LEMMA CountedFinite == IsFiniteSet(InFlight) /\ IsFiniteSet(Counted)
  BY Zenon, FS_Subset, TransactionAssumption DEF InFlight, Counted

\* A frame that leaves: the transaction is accepted, and nothing else moves.
LEMMA LeavingState ==
  ASSUME TypeOK, NEW t \in Transaction, TransactionInv(t), NEW f \in Frame,
         pc[t][f] \in {"decrement", "settle"}
  PROVE  /\ caller[t]["start"] # "nobody" /\ pc[t]["start"] # "idle"
         /\ f # "start" => pc[t]["start"] = "end"
         /\ storage[t] \in {"none", "freed"}
         /\ \A g \in Frame \ {f} : ~Leaving(t, g)
<1>1. TypeAt(t) /\ Leaving(t, f)
  BY Zenon, TypesAt DEF Leaving
<1>2. \A g \in Frame \ {f} : ~Leaving(t, g)
  BY ZenonT(120), <1>1 DEF TransactionInv, EventInv
<1>3. CASE ~Started(t)
  <2>1. f = "start"
    BY ZenonT(120), <1>3 DEF TransactionInv, FrameInv
  <2> QED
    BY ZenonT(120), <1>2, <1>3, <2>1 DEF TransactionInv, FrameInv, Started
<1>4. CASE Started(t)
  <2>1. settling[t] = 1
    BY ZenonT(120), <1>1, <1>4 DEF TransactionInv, EventInv, TypeAt
  <2>2. active_events[t] = 0
    BY ZenonT(120), <1>4, <2>1 DEF TransactionInv, EventInv
  <2>3. pc[t]["start"] # "apply"
    BY SMTT(60), Z3T(60), ZenonT(120), <2>2, FrameNames
    DEF TransactionInv, EventInv, Inside, Flag
  <2>4. pc[t]["start"] # "idle"
    BY ZenonT(120), <1>4 DEF TransactionInv, FrameInv
  <2>5. caller[t]["start"] # "nobody"
    BY ZenonT(120), <2>4, FrameNames DEF TransactionInv, FrameInv
  <2>6. f # "start" => pc[t]["start"] = "end"
    BY ZenonT(120), <1>1, <1>2, <2>3, <2>4, FrameNames DEF Leaving, TypeAt
  <2>7. storage[t] # "live"
    <3>1. \A g \in Frame : pc[t][g] # "release"
      BY Zenon, <1>2 DEF Leaving
    <3> QED
      BY Zenon, <2>1, <3>1 DEF TransactionInv, EventInv
  <2> QED
    BY ZenonT(120), <1>1, <1>2, <2>4, <2>5, <2>6, <2>7 DEF TypeAt
<1> QED
  BY Zenon, <1>3, <1>4

\* Initially nothing is counted.
LEMMA InitEngine == Init => EngineInv
<1> SUFFICES ASSUME Init PROVE EngineInv
  BY Zenon 
<1>1. InFlight = {}
  BY Zenon, FrameNames DEF Init, InFlight
<1>2. Counted = {}
  BY Zenon, <1>1 DEF Counted
<1> QED
  BY ZenonT(120), <1>1, <1>2, FS_EmptySet DEF Init, EngineInv

\* The counters follow the transactions, and a drained engine stays drained.
LEMMA EngineStep ==
  ASSUME TypeOK, TransactionsInv, EngineInv, [Next]_vars
  PROVE  EngineInv'
<1>0. /\ IsFiniteSet(InFlight) /\ IsFiniteSet(Counted)
      /\ inflight = Cardinality(InFlight)
      /\ active_transactions = Cardinality(Counted)
  BY Zenon, CountedFinite DEF EngineInv
<1>1. ASSUME InFlight' = InFlight, Counted' = Counted, inflight' = inflight,
             active_transactions' = active_transactions, engine' = engine,
             accepting_io' = accepting_io
      PROVE  EngineInv'
  BY Zenon, <1>1 DEF EngineInv
<1>2. ASSUME NEW t \in Transaction, Step(t)
      PROVE  \A u \in Transaction \ {t} :
               /\ u \in InFlight' <=> u \in InFlight
               /\ u \in Counted' <=> u \in Counted
  BY ZenonT(120), <1>2, OtherTransaction, SameCounted
<1>3. ASSUME NEW t \in Transaction, AcceptRequest(t) PROVE EngineInv'
  <2>1. /\ caller[t]["start"] = "nobody" /\ caller'[t]["start"] = "async"
        /\ pc[t]["start"] = "idle" /\ pc' = pc /\ storage' = storage
        /\ inflight' = inflight + 1 /\ active_transactions' = active_transactions
        /\ accepting_io /\ accepting_io' = accepting_io /\ engine' = engine
    BY ZenonT(120), <1>3, FrameNames DEF AcceptRequest, adapterVars, TypeOK
  <2>2. t \notin InFlight /\ t \in InFlight'
    BY Zenon, <2>1 DEF InFlight, Settled
  <2>3. t \notin Counted /\ t \notin Counted'
    BY Zenon, <2>1 DEF Counted
  <2>4. InFlight' = InFlight \cup {t}
    BY ZenonT(120), <1>2, <1>3, <2>2 DEF Step, InFlight
  <2>5. Counted' = Counted
    BY ZenonT(120), <1>2, <1>3, <2>3 DEF Step, InFlight, Counted
  <2>6. inflight' = Cardinality(InFlight')
    BY ZenonT(120), <1>0, <2>1, <2>2, <2>4, FS_AddElement
  <2> QED
    BY ZenonT(120), <1>0, <2>1, <2>5, <2>6 DEF EngineInv
<1>4. ASSUME NEW t \in Transaction, Start(t) \/ RejectStart(t) PROVE EngineInv'
  <2>1. /\ pc'[t]["start"] \in {"apply", "decrement"} /\ caller' = caller
        /\ \A g \in Frame \ {"start"} : pc'[t][g] = pc[t][g]
        /\ active_transactions' = active_transactions + 1
        /\ inflight' = inflight /\ engine' = engine
        /\ accepting_io' = accepting_io
        /\ engine = "initialized" /\ Triggered(t, "start")
    BY SMTT(60), Z3T(60), ZenonT(120), <1>4, FrameNames
    DEF Start, RejectStart, TypeOK
  <2>2. /\ pc[t]["start"] = "idle" /\ caller[t]["start"] # "nobody"
        /\ \A g \in Frame \ {"start"} : pc[t][g] = "idle"
    <3>1. TransactionInv(t) /\ Triggered(t, "start")
      BY ZenonT(120), <2>1 DEF TransactionsInv
    <3>2. /\ pc[t]["start"] = "idle" /\ caller[t]["start"] = "async"
          /\ \A g \in Frame \ {"start"} : pc[t][g] = "idle"
      BY ZenonT(120), <3>1, FreshTransaction
    <3> QED
      BY Zenon, <3>2
  <2>3. ~Settled(t) /\ ~Settled(t)'
    BY Zenon, <2>1, <2>2 DEF Settled
  <2>4. \A g \in Frame : pc'[t][g] # "settle"
    BY ZenonT(120), <2>1, <2>2
  <2>5. t \in InFlight /\ t \in InFlight' /\ t \notin Counted
    BY ZenonT(120), <2>1, <2>2, <2>3 DEF InFlight, Counted
  <2>6. t \in Counted'
    BY ZenonT(120), <2>1, <2>4, <2>5 DEF Counted
  <2>7. InFlight' = InFlight
    BY ZenonT(120), <1>2, <1>4, <2>5 DEF Step, Begin, InFlight
  <2>8. Counted' = Counted \cup {t}
    BY ZenonT(120), <1>2, <1>4, <2>6 DEF Step, Begin, InFlight, Counted
  <2>9. active_transactions' = Cardinality(Counted')
    BY ZenonT(120), <1>0, <2>1, <2>5, <2>8, FS_AddElement
  <2> QED
    BY ZenonT(120), <1>0, <2>1, <2>7, <2>9 DEF EngineInv
<1>5. ASSUME NEW t \in Transaction, NEW f \in Frame, DecrementEngine(t, f)
      PROVE  EngineInv'
  <2>1. /\ PcMoves(t, f, "settle") /\ pc[t][f] = "decrement"
        /\ caller' = caller
        /\ active_transactions' = active_transactions - 1
        /\ inflight' = inflight /\ engine' = engine
        /\ accepting_io' = accepting_io
    BY ZenonT(120), <1>5 DEF DecrementEngine, TypeOK, PcMoves
  <2>2. /\ caller[t]["start"] # "nobody" /\ pc[t]["start"] # "idle"
        /\ \A g \in Frame \ {f} : ~Leaving(t, g)
    BY ZenonT(120), <2>1, LeavingState DEF TransactionsInv
  <2>3. ~Settled(t) /\ ~Settled(t)'
    BY ZenonT(120), <2>1 DEF Settled, PcMoves
  <2>4. \A g \in Frame : pc[t][g] # "settle"
    BY ZenonT(120), <2>1, <2>2 DEF Leaving
  <2>5. t \in InFlight /\ t \in InFlight'
    BY ZenonT(120), <2>1, <2>2, <2>3 DEF InFlight
  <2>6. t \in Counted /\ t \notin Counted'
    BY ZenonT(120), <2>1, <2>2, <2>4, <2>5 DEF Counted, PcMoves
  <2>7. InFlight' = InFlight
    BY ZenonT(120), <1>2, <1>5, <2>5 DEF Step, Apply, InFlight
  <2>8. Counted' = Counted \ {t}
    BY ZenonT(120), <1>2, <1>5, <2>6 DEF Step, Apply, InFlight, Counted
  <2>9. active_transactions' = Cardinality(Counted')
    BY ZenonT(120), <1>0, <2>1, <2>6, <2>8, FS_RemoveElement
  <2> QED
    BY ZenonT(120), <1>0, <2>1, <2>7, <2>9 DEF EngineInv
<1>6. ASSUME NEW t \in Transaction, NEW f \in Frame, Settle(t, f)
      PROVE  EngineInv'
  <2>1. /\ PcMoves(t, f, "end") /\ pc[t][f] = "settle"
        /\ caller' = caller /\ storage' = storage
        /\ active_transactions' = active_transactions
        /\ inflight' = inflight - 1 /\ engine' = engine
        /\ accepting_io' = accepting_io
    BY <1>6 DEF Settle, TypeOK, PcMoves, adapterVars
  <2>2. /\ caller[t]["start"] # "nobody"
        /\ f # "start" => pc[t]["start"] = "end"
        /\ storage[t] \in {"none", "freed"}
        /\ \A g \in Frame \ {f} : ~Leaving(t, g)
    BY ZenonT(120), <2>1, LeavingState DEF TransactionsInv
  <2>3. ~Settled(t)
    BY ZenonT(120), <2>1 DEF Settled
  <2>4. Settled(t)'
    <3>1. \A g \in Frame : pc'[t][g] \notin {"release", "decrement", "settle"}
      BY ZenonT(120), <2>1, <2>2 DEF Leaving, PcMoves
    <3>2. pc'[t]["start"] = "end"
      BY ZenonT(120), <2>1, <2>2, FrameNames DEF PcMoves
    <3>3. storage'[t] \in {"none", "freed"}
      BY ZenonT(120), <2>1, <2>2
    <3> QED
      BY ZenonT(120), <3>1, <3>2, <3>3 DEF Settled
  <2>5. t \in InFlight /\ t \notin InFlight'
    BY ZenonT(120), <2>2, <2>3, <2>4 DEF InFlight
  <2>6. t \notin Counted /\ t \notin Counted'
    BY ZenonT(120), <2>1, <2>5 DEF Counted
  <2>7. InFlight' = InFlight \ {t}
    BY ZenonT(120), <1>2, <1>6, <2>5 DEF Step, Apply, InFlight
  <2>8. Counted' = Counted
    BY ZenonT(120), <1>2, <1>6, <2>6 DEF Step, Apply, InFlight, Counted
  <2>9. inflight' = Cardinality(InFlight')
    BY ZenonT(120), <1>0, <2>1, <2>5, <2>7, FS_RemoveElement
  <2> QED
    BY ZenonT(120), <1>0, <2>1, <2>7, <2>8, <2>9 DEF EngineInv
<1>7. ASSUME NEW t \in Transaction, Step(t), ~AcceptRequest(t), ~Start(t),
             ~RejectStart(t),
             \A f \in Frame : ~DecrementEngine(t, f) /\ ~Settle(t, f)
      PROVE  EngineInv'
  <2>1. /\ UNCHANGED engineVars
        /\ t \in InFlight' <=> t \in InFlight
        /\ t \in Counted' <=> t \in Counted
    BY ZenonT(120), <1>7, InsideStep DEF TransactionsInv
  <2>2. InFlight' = InFlight
    BY ZenonT(120), <1>2, <1>7, <2>1 DEF InFlight
  <2>3. Counted' = Counted
    BY ZenonT(120), <1>2, <1>7, <2>1 DEF InFlight, Counted
  <2> QED
    BY ZenonT(120), <1>1, <2>1, <2>2, <2>3 DEF engineVars
<1>8. ASSUME StopAccepting \/ EngineDestroy \/ UNCHANGED vars PROVE EngineInv'
  <2>1. \A u \in Transaction : /\ u \in InFlight' <=> u \in InFlight
                               /\ u \in Counted' <=> u \in Counted
    BY ZenonT(120), <1>8, DeviceStep, SameCounted
  <2>2. InFlight' = InFlight
    BY ZenonT(120), <2>1 DEF InFlight
  <2>3. Counted' = Counted
    BY ZenonT(120), <2>1 DEF InFlight, Counted
  <2>4. CASE UNCHANGED vars
    BY ZenonT(120), <1>1, <2>2, <2>3, <2>4 DEF vars, engineVars
  <2>5. CASE StopAccepting
    BY ZenonT(120), <2>2, <2>3, <2>5 DEF StopAccepting, EngineInv
  <2>6. CASE EngineDestroy
    <3>1. InFlight = {}
      BY ZenonT(120), <1>0, <2>6, FS_EmptySet DEF EngineDestroy
    <3>2. Counted = {}
      BY ZenonT(120), <3>1 DEF Counted
    <3>3. active_transactions = 0
      BY ZenonT(120), <1>0, <3>2, FS_EmptySet
    <3> QED
      BY ZenonT(120), <1>0, <2>2, <2>3, <2>6, <3>1, <3>3
      DEF EngineDestroy, EngineInv
  <2> QED
    BY ZenonT(120), <1>8, <2>4, <2>5, <2>6
<1> QED
  BY ZenonT(120), <1>3, <1>4, <1>5, <1>6, <1>7, <1>8 DEF Next

\* A drained device destroys an engine without active transactions, and no
\* transaction uses the engine after its destroy.
THEOREM EngineDrained == Spec => []EngineQuiet
<1>1. ASSUME TypeOK, TransactionsInv, EngineInv PROVE EngineQuiet
  <2>1. engine # "busy"
    BY ZenonT(120), <1>1 DEF EngineInv
  <2>2. ASSUME engine = "destroyed" PROVE active_transactions = 0
    <3>1. Counted = {}
      BY ZenonT(120), <1>1, <2>2 DEF EngineInv, Counted
    <3> QED
      BY ZenonT(120), <1>1, <3>1, FS_EmptySet DEF EngineInv
  <2>3. ASSUME engine = "destroyed", NEW t \in Transaction,
               caller[t]["start"] # "nobody"
        PROVE  Settled(t) /\ \A f \in Frame : ~Triggered(t, f)
    <3>1. Settled(t)
      BY ZenonT(120), <1>1, <2>3 DEF EngineInv, InFlight
    <3>2. CASE storage[t] = "freed"
      BY ZenonT(120), <1>1, <3>1, <3>2, FreedState DEF TransactionsInv
    <3>3. CASE storage[t] = "none"
      <4>1. \A f \in Frame \ {"start"} : caller[t][f] = "nobody"
        BY ZenonT(120), <1>1, <3>3
           DEF TransactionsInv, TransactionInv, FrameInv, Started
      <4> QED
        BY ZenonT(120), <3>1, <4>1 DEF Settled, Triggered
    <3> QED
      BY ZenonT(120), <3>1, <3>2, <3>3 DEF Settled
  <2> QED
    BY ZenonT(120), <2>1, <2>2, <2>3 DEF EngineQuiet
<1> QED
  BY <1>1, InitEngine, EngineStep, TransactionsCorrect, PTL DEF Spec

-----------------------------------------------------------------------------
(*****************************************************************************)
(* The refinement of RequestAcknowledgement.                                 *)
(*****************************************************************************)

\* Steps that change nothing the block layer can see.
LEMMA HiddenStep ==
  ASSUME UNCHANGED <<mode, direction, local, remote, result>>,
         \A t \in Transaction : storage'[t] = "freed" <=> storage[t] = "freed"
  PROVE  UNCHANGED Ack!vars
<1>1. [t \in Transaction |-> storage[t] = "freed"]' =
        [t \in Transaction |-> storage[t] = "freed"]
  BY Zenon 
<1> QED
  BY ZenonT(120), <1>1 DEF Ack!vars

\* Every step of a transaction's handlers is one of the acknowledgement
\* protocol, or hidden from it.
LEMMA AcknowledgementStep ==
  ASSUME TypeOK, NEW t \in Transaction, TransactionInv(t), Step(t)
  PROVE  [Ack!Next]_(Ack!vars)
<1> USE DEF engineVars, policyVars, claimVars, frameVars, adapterVars
<1>0. TypeAt(t)
  BY ZenonT(120), TypesAt
<1>1. CASE AcceptRequest(t)
  BY ZenonT(120), <1>1, HiddenStep DEF AcceptRequest
<1>2. CASE Start(t)
  <2>1. PICK d \in {"READ", "WRITE"} :
          /\ direction' = [direction EXCEPT ![t] = d]
          /\ local' = [local EXCEPT ![t] =
                         IF mode # "REMOTE_ONLY" /\ d = "WRITE" THEN "pending"
                         ELSE "none"]
          /\ remote' = [remote EXCEPT ![t] = "pending"]
          /\ storage' = [storage EXCEPT ![t] = "live"]
          /\ mode' = mode /\ result' = result /\ Triggered(t, "start")
    BY ZenonT(120), <1>2 DEF Start
  <2>2. ~Started(t) /\ result[t] = "none"
    BY ZenonT(120), <2>1, FreshTransaction
  <2>3. direction[t] = "none"
    BY ZenonT(120), <2>2 DEF TransactionInv, FrameInv
  <2>4. [u \in Transaction |-> storage[u] = "freed"]' =
          [u \in Transaction |-> storage[u] = "freed"]
    <3>1. \A u \in Transaction : storage'[u] = "freed" <=> storage[u] = "freed"
      BY ZenonT(120), <2>1, <2>2 DEF Started, TypeOK
    <3> QED
      BY ZenonT(120), <3>1
  <2>5. Ack!Begin(t, d)
    BY ZenonT(120), <2>1, <2>2, <2>3, <2>4 DEF Ack!Begin
  <2> QED
    BY ZenonT(120), <2>1, <2>5 DEF Ack!Next
<1>3. CASE RejectStart(t)
  <2>1. ~Started(t) /\ result[t] = "none"
    BY ZenonT(120), <1>3, FreshTransaction DEF RejectStart
  <2>2. direction[t] = "none"
    BY ZenonT(120), <2>1 DEF TransactionInv, FrameInv
  <2>3. Ack!Reject(t)
    BY ZenonT(120), <1>3, <2>1, <2>2 DEF RejectStart, Ack!Reject
  <2> QED
    BY ZenonT(120), <2>3 DEF Ack!Next
<1>4. CASE RdmaReleased(t)
  BY ZenonT(120), <1>4, HiddenStep DEF RdmaReleased
<1>5. ASSUME NEW f \in {"backing", "retry"}, NEW status \in {"ok", "error"},
             BackingCompleted(t, f, status)
      PROVE  [Ack!Next]_(Ack!vars)
  <2>1. local[t] = "pending"
    BY SMTT(60), Z3T(60), ZenonT(120), <1>5
    DEF BackingCompleted, TransactionInv, ClaimInv, Outstanding,
       Triggered, Flag
  <2>2. "backing" \in claims[t]
    BY ZenonT(120), <2>1 DEF TransactionInv, ClaimInv
  <2>3. /\ mode' = mode /\ direction' = direction /\ remote' = remote
        /\ result' = result /\ storage' = storage
    BY ZenonT(120), <1>5 DEF BackingCompleted
  <2>4. CASE Retry(t, status)
    <3>1. local' = local
      BY ZenonT(120), <1>5, <2>4 DEF BackingCompleted, TypeOK
    <3> QED
      BY ZenonT(120), <2>3, <3>1, HiddenStep
  <2>5. CASE ~Retry(t, status)
    <3>1. local' = [local EXCEPT ![t] = status]
      <4>1. local' = [local EXCEPT ![t] =
              IF ("backing" \in claims[t]
                    /\ ~("backing" \in claims[t] /\ Retry(t, status)))
                   /\ local[t] = "pending"
                THEN status ELSE local[t]]
        BY ZenonT(120), <1>5 DEF BackingCompleted
      <4> HIDE DEF Retry
      <4> QED
        BY ZenonT(120), <2>1, <2>2, <2>5, <4>1
    <3>2. Ack!LocalEnds(t, status)
      BY ZenonT(120), <2>1, <2>3, <3>1 DEF Ack!LocalEnds
    <3> QED
      BY ZenonT(120), <3>2 DEF Ack!Next, Ack!Status
  <2> QED
    BY ZenonT(120), <2>4, <2>5
<1>6. ASSUME NEW status \in {"ok", "error"}, RdmaCompleted(t, status)
      PROVE  [Ack!Next]_(Ack!vars)
  <2>1. Started(t)
    BY ZenonT(120), <1>6, FrameNames
       DEF RdmaCompleted, Triggered, TransactionInv, FrameInv
  <2>2. remote[t] = "pending" /\ "rdma_result" \in claims[t]
    BY ZenonT(120), <1>6, <2>1
    DEF RdmaCompleted, Triggered, TransactionInv, ClaimInv
  <2>3. /\ mode' = mode /\ direction' = direction
        /\ result' = result /\ storage' = storage
    BY ZenonT(120), <1>6 DEF RdmaCompleted
  <2>4. "submit_local" \in RemoteActions(t, status) <=>
          mode # "REMOTE_ONLY" /\ direction[t] = "READ" /\ status = "error"
    <3>1. direction[t] # "none"
      BY ZenonT(120), <2>1 DEF TransactionInv, FrameInv
    <3> QED
      BY ZenonT(120), <1>0, <3>1, RemoteActionsMean DEF BackedRead
  <2>5. remote' = [remote EXCEPT ![t] = status]
    BY ZenonT(120), <1>6, <2>2 DEF RdmaCompleted, TypeOK
  <2>6. local' = [local EXCEPT ![t] =
                    IF "submit_local" \in RemoteActions(t, status)
                      THEN "pending" ELSE @]
    BY ZenonT(120), <1>6, <2>2 DEF RdmaCompleted
  <2>7. local' = [local EXCEPT ![t] =
                    IF mode # "REMOTE_ONLY" /\ direction[t] = "READ"
                         /\ status = "error" THEN "pending" ELSE @]
    BY ZenonT(120), <2>4, <2>6
  <2>8. Ack!RemoteEnds(t, status)
    BY ZenonT(120), <2>2, <2>3, <2>5, <2>7 DEF Ack!RemoteEnds
  <2> QED
    BY ZenonT(120), <2>8 DEF Ack!Next, Ack!Status
<1>7. CASE SubmitRdma(t)
  BY ZenonT(120), <1>7, HiddenStep DEF SubmitRdma
<1>8. CASE FailRdma(t)
  BY ZenonT(120), <1>8, HiddenStep DEF FailRdma
<1>9. ASSUME NEW f \in Frame,
             \/ MarkBacking(t, f) \/ SubmitBacking(t, f) \/ FinishEvent(t, f)
             \/ DecrementEngine(t, f) \/ Settle(t, f)
      PROVE  [Ack!Next]_(Ack!vars)
  <2>1. /\ UNCHANGED <<mode, direction, local, remote, result>>
        /\ storage' = storage
    BY ZenonT(120), <1>9
       DEF MarkBacking, SubmitBacking, FinishEvent, DecrementEngine, Settle
  <2> QED
    BY ZenonT(120), <2>1, HiddenStep
<1>10. ASSUME NEW f \in Frame, Complete(t, f) PROVE [Ack!Next]_(Ack!vars)
  <2>1. PICK e \in {"success", "error"} :
          /\ e \in todo[t][f] /\ pc[t][f] = "apply"
          /\ result' = [result EXCEPT ![t] =
                          IF e = "success" THEN "ok" ELSE CompletionStatus(t)]
    BY ZenonT(120), <1>10 DEF Complete, Turn
  <2>2. UNCHANGED <<mode, direction, local, remote, storage>>
    BY ZenonT(120), <1>10 DEF Complete
  <2>3. Started(t)
    BY ZenonT(120), <2>1, FrameNames DEF TransactionInv, FrameInv
  <2>4. direction[t] # "none" /\ f \in {"backing", "retry", "result"}
    BY ZenonT(120), <2>1, <2>3 DEF TransactionInv, FrameInv, Frame
  <2>5. completions[t] = 0
    <3>1. Completing(todo[t][f])
      BY ZenonT(120), <2>1 DEF Completing
    <3>2. completions[t] \in Nat /\ request_complete[t] \in {0, 1}
      BY ZenonT(120), <1>0 DEF TypeAt
    <3>3. completions[t] + Flag(Completing(todo[t]["backing"]))
            + Flag(Completing(todo[t]["retry"]))
            + Flag(Completing(todo[t]["result"])) = request_complete[t]
      BY ZenonT(120), <2>3 DEF TransactionInv, CompletionInv
    <3> QED
      BY SMTT(60), Z3T(60), ZenonT(120), <2>4, <3>1, <3>2, <3>3 DEF Flag
  <2>6. result[t] = "none"
    BY ZenonT(120), <2>5 DEF TransactionInv, CompletionInv
  <2>7. CASE e = "success"
    <3>1. Ack!Justified(t, "ok")
      BY ZenonT(120), <2>1, <2>7 DEF TransactionInv, CompletionInv
    <3>2. Ack!Acknowledge(t, "ok")
      BY ZenonT(120), <2>1, <2>2, <2>4, <2>6, <2>7, <3>1 DEF Ack!Acknowledge
    <3> QED
      BY ZenonT(120), <3>2 DEF Ack!Next, Ack!Status
  <2>8. CASE e = "error"
    <3>1. Ack!Justified(t, "error") /\ CompletionStatus(t) = "error"
      BY ZenonT(120), <2>1, <2>8 DEF TransactionInv, CompletionInv
    <3>2. result' = [result EXCEPT ![t] = "error"]
      BY ZenonT(120), <2>1, <2>8, <3>1
    <3>3. Ack!Acknowledge(t, "error")
      BY ZenonT(120), <2>2, <2>4, <2>6, <3>1, <3>2 DEF Ack!Acknowledge
    <3> QED
      BY ZenonT(120), <3>3 DEF Ack!Next, Ack!Status
  <2> QED
    BY ZenonT(120), <2>1, <2>7, <2>8
<1>11. ASSUME NEW f \in Frame, ReleaseStorage(t, f) PROVE [Ack!Next]_(Ack!vars)
  <2>1. /\ UNCHANGED <<mode, direction, local, remote, result>>
        /\ storage' = [storage EXCEPT ![t] = "freed"] /\ pc[t][f] = "release"
    BY ZenonT(120), <1>11 DEF ReleaseStorage
  <2>2. storage[t] = "live" /\ Leaving(t, f)
    BY ZenonT(120), <2>1 DEF TransactionInv, EventInv, Leaving
  <2>3. Started(t) /\ settling[t] = 1
    BY ZenonT(120), <1>0, <2>2 DEF TransactionInv, EventInv, Started, TypeAt
  <2>4. active_events[t] = 0 /\ claims[t] = {}
    BY ZenonT(120), <2>3 DEF TransactionInv, EventInv
  <2>5. /\ local[t] # "pending" /\ remote[t] # "pending" /\ remote[t] # "none"
        /\ direction[t] # "none"
    BY ZenonT(120), <2>3, <2>4 DEF TransactionInv, ClaimInv, FrameInv
  <2>6. request_complete[t] = 1
    <3>1. Decided(t)
      BY ZenonT(120), <1>0, <2>5
      DEF TransactionInv, PolicyInv, Decided, Done, BackedRead,
         BackedWrite, TypeAt, Mode
    <3> QED
      BY ZenonT(120), <2>3, <3>1 DEF TransactionInv, PolicyInv, Flag
  <2>7. \A g \in Frame : pc[t][g] # "apply"
    BY SMTT(60), Z3T(60), ZenonT(120), <2>4
    DEF TransactionInv, EventInv, Inside, Flag, Frame
  <2>8. \A g \in Frame : todo[t][g] = {}
    BY ZenonT(120), <2>7 DEF TransactionInv, FrameInv
  <2>9. completions[t] = 1
    <3>1. /\ ~Completing(todo[t]["backing"]) /\ ~Completing(todo[t]["retry"])
          /\ ~Completing(todo[t]["result"])
      BY ZenonT(120), <2>8, FrameNames DEF Completing
    <3>2. completions[t] + Flag(Completing(todo[t]["backing"]))
            + Flag(Completing(todo[t]["retry"]))
            + Flag(Completing(todo[t]["result"])) = request_complete[t]
      BY ZenonT(120), <2>3 DEF TransactionInv, CompletionInv
    <3>3. completions[t] \in Nat
      BY ZenonT(120), <1>0 DEF TypeAt
    <3> QED
      BY SMTT(60), Z3T(60), ZenonT(120), <2>6, <3>1, <3>2, <3>3 DEF Flag
  <2>10. result[t] # "none"
    BY SMTT(60), Z3T(60), ZenonT(120), <2>9 DEF TransactionInv, CompletionInv
  <2>11. [u \in Transaction |-> storage[u] = "freed"]' =
           [[u \in Transaction |-> storage[u] = "freed"] EXCEPT ![t] = TRUE]
    <3>1. \A u \in Transaction :
            storage'[u] = "freed" <=> (u = t \/ storage[u] = "freed")
      BY ZenonT(120), <2>1 DEF TypeOK
    <3> QED
      BY ZenonT(120), <3>1
  <2>12. ~[u \in Transaction |-> storage[u] = "freed"][t]
    BY ZenonT(120), <2>2
  <2>13. Ack!Settle(t)
    BY ZenonT(120), <2>1, <2>5, <2>10, <2>11, <2>12 DEF Ack!Settle
  <2> QED
    BY ZenonT(120), <2>13 DEF Ack!Next
<1> QED
  BY ZenonT(120), <1>1, <1>2, <1>3, <1>4, <1>5, <1>6, <1>7, <1>8, <1>9, <1>10,
     <1>11
     DEF Step, Begin, Apply

\* Every behaviour of the transactions, with all their handlers, is one of the
\* acknowledgement protocol of docs/adr/0004.
THEOREM AcknowledgementImplemented == Spec => ImplementsAcknowledgement
<1>1. Init => Ack!Init
  <2> SUFFICES ASSUME Init PROVE Ack!Init
    BY Zenon
  <2>1. [t \in Transaction |-> storage[t] = "freed"] =
          [t \in Transaction |-> FALSE]
    <3>1. \A t \in Transaction : ~(storage[t] = "freed")
      BY Zenon DEF Init
    <3> QED
      BY ZenonT(120), <3>1
  <2> QED
    BY ZenonT(120), <2>1 DEF Init, Ack!Init, Mode
<1>2. ASSUME TypeOK, TransactionsInv, [Next]_vars
      PROVE  [Ack!Next]_(Ack!vars)
  <2>1. CASE StopAccepting \/ EngineDestroy \/ UNCHANGED vars
    BY ZenonT(120), <2>1, HiddenStep DEF StopAccepting, EngineDestroy, vars,
       engineVars, policyVars, adapterVars
  <2>2. ASSUME NEW t \in Transaction, Step(t) PROVE [Ack!Next]_(Ack!vars)
    BY ZenonT(120), <1>2, <2>2, AcknowledgementStep DEF TransactionsInv
  <2> QED
    BY ZenonT(120), <1>2, <2>1, <2>2 DEF Next
<1> QED
  BY <1>1, <1>2, TransactionsCorrect, PTL
     DEF Spec, ImplementsAcknowledgement, Ack!Spec

===============================================================================
