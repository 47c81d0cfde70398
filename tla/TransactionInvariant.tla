------------------------- MODULE TransactionInvariant -------------------------
(*****************************************************************************)
(* The inductive invariant of one transaction of RemoteIoTransaction, and    *)
(* what a step may change of it, pointwise: the vocabulary of its proofs.    *)
(*****************************************************************************)
EXTENDS RemoteIoTransaction

\* The transaction exists: start has allocated it.
Started(t) == storage[t] # "none"

\* A handler that has run all its effects and frees the transaction, or the
\* start that was rejected.
Leaving(t, f) == pc[t][f] \in {"release", "decrement", "settle"}

Flag(b) == IF b THEN 1 ELSE 0

\* Which effects each frame can have left, and that only a frame that was
\* triggered runs.
FrameInv(t) ==
  /\ caller[t]["start"] \in {"nobody", "async"}
  /\ \A f \in Frame : caller[t][f] = "nobody" => pc[t][f] = "idle"
  /\ \A f \in Frame : pc[t][f] # "apply" => todo[t][f] = {}
  /\ todo[t]["start"] \subseteq
       {"submit_local", "submit_rdma", "release_rdma", "fail_rdma"}
  /\ "submit_rdma" \in todo[t]["start"] =>
       /\ "release_rdma" \notin todo[t]["start"]
       /\ "fail_rdma" \notin todo[t]["start"]
  /\ todo[t]["backing"] \subseteq
       {"degraded", "local_only", "submit_local", "success", "error"}
  /\ todo[t]["retry"] \subseteq {"degraded", "local_only", "success", "error"}
  /\ todo[t]["result"] \subseteq
       {"local_only", "submit_local", "success", "error"}
  /\ todo[t]["released"] = {}
  /\ ~Started(t) =>
       /\ pc[t]["start"] \in {"idle", "decrement", "settle", "end"}
       /\ \A f \in Frame \ {"start"} : caller[t][f] = "nobody"
       /\ claims[t] = {} /\ settling[t] = 0
       /\ direction[t] = "none" /\ local[t] = "none" /\ remote[t] = "none"
       /\ request_complete[t] = 0 /\ backing_retries[t] = 0
       /\ degraded[t] = 0
  /\ Started(t) => pc[t]["start"] # "idle" /\ direction[t] # "none"

\* What will end the Backing Store I/O: an effect that submits it, or a handler
\* that was triggered and has not begun.
Outstanding(t) ==
  Flag("submit_local" \in todo[t]["start"])
    + Flag("submit_local" \in todo[t]["result"])
    + Flag("submit_local" \in todo[t]["backing"])
    + Flag(Triggered(t, "backing")) + Flag(Triggered(t, "retry"))

\* A claim is an outstanding handler: an effect will still trigger it, or it was
\* triggered and has not begun.
ClaimInv(t) ==
  /\ invariant_reported[t] = 0
  /\ "rdma_result" \in claims[t] <=> Started(t) /\ pc[t]["result"] = "idle"
  /\ "rdma_transport" \in claims[t] <=> Started(t) /\ pc[t]["released"] = "idle"
  /\ "backing" \in claims[t] <=> local[t] = "pending"
  /\ Started(t) =>
       /\ remote[t] = "pending" <=> pc[t]["result"] = "idle"
       /\ remote[t] # "none"
       /\ caller[t]["result"] = "nobody" <=>
            \/ "submit_rdma" \in todo[t]["start"]
            \/ "fail_rdma" \in todo[t]["start"]
       /\ caller[t]["released"] = "nobody" <=>
            \/ "submit_rdma" \in todo[t]["start"]
            \/ "release_rdma" \in todo[t]["start"]
  /\ Outstanding(t) = Flag(local[t] = "pending")

\* The Backing Store I/O is submitted once, and once more for a retry.
BackingInv(t) ==
  /\ "submit_local" \in todo[t]["start"] =>
       caller[t]["backing"] = "nobody" /\ BackedWrite(t)
  /\ "submit_local" \in todo[t]["result"] =>
       caller[t]["backing"] = "nobody" /\ BackedRead(t)
  /\ caller[t]["backing"] = "nobody" => caller[t]["retry"] = "nobody"
  /\ backing_retries[t] = 1 <=>
       "submit_local" \in todo[t]["backing"] \/ caller[t]["retry"] # "nobody"
  /\ "submit_local" \in todo[t]["backing"] => caller[t]["retry"] = "nobody"
  /\ pc[t]["backing"] # "idle" => Done(local[t]) \/ backing_retries[t] = 1
  /\ backing_retries[t] = 1 => pc[t]["backing"] # "idle"
  /\ pc[t]["retry"] # "idle" => Done(local[t])
  /\ local[t] = "error" <=>
       \/ degraded[t] = 1
       \/ "degraded" \in todo[t]["backing"] \/ "degraded" \in todo[t]["retry"]

\* The paths decide: the request is complete for the policy.
Decided(t) ==
  IF mode = "REMOTE_ONLY" THEN Done(remote[t])
  ELSE IF direction[t] = "READ" THEN remote[t] = "ok" \/ Done(local[t])
  ELSE \/ Done(local[t]) /\ Done(remote[t])
       \/ mode = "BACKED_REMOTE_FIRST" /\ remote[t] = "ok"

\* What the policy knows, and that it acts on it once.
PolicyInv(t) ==
  /\ mode = "REMOTE_ONLY" => local[t] = "none"
  /\ BackedRead(t) => (local[t] # "none" <=> remote[t] = "error")
  /\ BackedWrite(t) => local[t] # "none"
  /\ Started(t) => request_complete[t] = Flag(Decided(t))
  /\ Started(t) /\ prepared[t] = 0 =>
       /\ remote[t] # "ok" /\ "submit_rdma" \notin todo[t]["start"]
       /\ caller[t]["result"] # "async"

\* The request is completed once, with a status that the paths justify.
CompletionInv(t) ==
  /\ completions[t] + Flag(Completing(todo[t]["backing"]))
       + Flag(Completing(todo[t]["retry"])) + Flag(Completing(todo[t]["result"]))
         = IF Started(t) THEN request_complete[t]
           ELSE Flag(pc[t]["start"] # "idle")
  /\ result[t] = "none" <=> completions[t] = 0
  /\ \A f \in Frame :
       /\ "success" \in todo[t][f] =>
            "error" \notin todo[t][f] /\ Ack!Justified(t, "ok")
       /\ "error" \in todo[t][f] =>
            CompletionStatus(t) = "error" /\ Ack!Justified(t, "error")

\* How many handlers are inside the transaction.
Inside(t) ==
  Flag(pc[t]["start"] = "apply") + Flag(pc[t]["backing"] = "apply")
    + Flag(pc[t]["retry"] = "apply") + Flag(pc[t]["result"] = "apply")
    + Flag(pc[t]["released"] = "apply")

\* The last event, and only that, makes the transaction leave.
EventInv(t) ==
  /\ active_events[t] = Inside(t)
  /\ Started(t) => (settling[t] = 1 <=> active_events[t] = 0 /\ claims[t] = {})
  /\ Started(t) /\ settling[t] = 0 =>
       storage[t] = "live" /\ \A f \in Frame : ~Leaving(t, f)
  /\ \A f \in Frame, g \in Frame : Leaving(t, f) /\ Leaving(t, g) => f = g
  /\ storage[t] = "live" /\ settling[t] = 1 =>
       \E f \in Frame : pc[t][f] = "release"
  /\ \A f \in Frame : pc[t][f] = "release" => storage[t] = "live"

\* All that is known of one transaction.
TransactionInv(t) ==
  /\ FrameInv(t) /\ ClaimInv(t) /\ BackingInv(t)
  /\ PolicyInv(t) /\ CompletionInv(t) /\ EventInv(t)

\* Accepted requests that have not left the device, and transactions that the
\* engine counts.
InFlight == {t \in Transaction : caller[t]["start"] # "nobody" /\ ~Settled(t)}

Counted ==
  {t \in InFlight :
     pc[t]["start"] # "idle" /\ \A f \in Frame : pc[t][f] # "settle"}

\* The counters count, and the engine is destroyed after the last request.
EngineInv ==
  /\ inflight = Cardinality(InFlight)
  /\ active_transactions = Cardinality(Counted)
  /\ engine # "initialized" =>
       engine = "destroyed" /\ ~accepting_io /\ InFlight = {}

TransactionsInv == \A t \in Transaction : TransactionInv(t)

-----------------------------------------------------------------------------
(*****************************************************************************)
(* What a step changes, pointwise.                                           *)
(*****************************************************************************)

SamePolicy(t) ==
  /\ mode' = mode
  /\ direction'[t] = direction[t] /\ local'[t] = local[t]
  /\ remote'[t] = remote[t] /\ request_complete'[t] = request_complete[t]

SameClaims(t) ==
  /\ claims'[t] = claims[t] /\ active_events'[t] = active_events[t]
  /\ backing_retries'[t] = backing_retries[t]
  /\ invariant_reported'[t] = invariant_reported[t]
  /\ settling'[t] = settling[t]

SameAdapter(t) ==
  /\ storage'[t] = storage[t] /\ prepared'[t] = prepared[t]
  /\ completions'[t] = completions[t] /\ result'[t] = result[t]
  /\ degraded'[t] = degraded[t]

SamePc(t) == \A g \in Frame : pc'[t][g] = pc[t][g]

SameTodo(t) == \A g \in Frame : todo'[t][g] = todo[t][g]

SameCaller(t) == \A g \in Frame : caller'[t][g] = caller[t][g]

\* A step leaves transaction t alone.
SameTransaction(t) ==
  /\ SamePolicy(t) /\ SameClaims(t) /\ SameAdapter(t)
  /\ SamePc(t) /\ SameTodo(t) /\ SameCaller(t)

\* Frame f of t goes to v, is left with effects s, is called by w.
PcMoves(t, f, v) ==
  pc'[t][f] = v /\ \A g \in Frame \ {f} : pc'[t][g] = pc[t][g]

TodoMoves(t, f, s) ==
  todo'[t][f] = s /\ \A g \in Frame \ {f} : todo'[t][g] = todo[t][g]

CallerMoves(t, f, w) ==
  caller'[t][f] = w /\ \A g \in Frame \ {f} : caller'[t][g] = caller[t][g]

\* The types of one transaction.
TypeAt(t) ==
  /\ mode \in Mode
  /\ direction[t] \in {"none", "READ", "WRITE"}
  /\ local[t] \in {"none", "pending", "ok", "error"}
  /\ remote[t] \in {"none", "pending", "ok", "error"}
  /\ request_complete[t] \in {0, 1} /\ claims[t] \subseteq Claim
  /\ active_events[t] \in Nat /\ backing_retries[t] \in 0..1
  /\ invariant_reported[t] \in {0, 1} /\ settling[t] \in {0, 1}
  /\ storage[t] \in {"none", "live", "freed"} /\ prepared[t] \in {0, 1}
  /\ completions[t] \in Nat /\ result[t] \in {"none", "ok", "error"}
  /\ degraded[t] \in {0, 1}
  /\ \A f \in Frame :
       /\ pc[t][f] \in {"idle", "apply", "release", "decrement", "settle", "end"}
       /\ todo[t][f] \subseteq Effect
       /\ caller[t][f] \in Frame \cup {"nobody", "async"}

\* No completion is added to what the frames have left, and none is dropped.
SameAnswers(t) ==
  \A f \in Frame : /\ "success" \in todo'[t][f] <=> "success" \in todo[t][f]
                   /\ "error" \in todo'[t][f] <=> "error" \in todo[t][f]

\* A frame that moves has been triggered and has no effect left.
FramesAdvance(t) ==
  \A g \in Frame : \/ pc'[t][g] = pc[t][g]
                   \/ /\ todo[t][g] = {} /\ caller[t][g] # "nobody"
                      /\ pc'[t][g] # "idle"

\* No handler begins.
SameIdle(t) ==
  \A g \in Frame \ {"start"} : pc'[t][g] = "idle" <=> pc[t][g] = "idle"

\* No Backing Store I/O is submitted, and none becomes due.
SameSubmits(t) ==
  \A g \in Frame :
    "submit_local" \in todo'[t][g] <=> "submit_local" \in todo[t][g]

===============================================================================
