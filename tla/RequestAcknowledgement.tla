----------------------- MODULE RequestAcknowledgement -----------------------
(***************************************************************************)
(* What a Remote I/O Transaction promises the block layer (docs/adr/0004,  *)
(* CONTEXT.md "Acknowledgement Policy"), without threads, claims or        *)
(* counters: two paths end, the request is acknowledged once by the rule   *)
(* of the mode, and the transaction settles when no path is left.          *)
(***************************************************************************)
CONSTANT Request

VARIABLES mode, direction,
          local, remote,   \* Backing Store path, Remote Memory path
          ack,             \* what the block layer was told
          settled

vars == <<mode, direction, local, remote, ack, settled>>

Status == {"ok", "error"}

Init ==
  /\ mode \in {"BACKED_STRICT", "BACKED_REMOTE_FIRST", "REMOTE_ONLY"}
  /\ direction = [r \in Request |-> "none"]
  /\ local = [r \in Request |-> "none"]
  /\ remote = [r \in Request |-> "none"]
  /\ ack = [r \in Request |-> "none"]
  /\ settled = [r \in Request |-> FALSE]

\* A write of a Backed device starts both paths, any other request only the
\* remote one.
Begin(r, d) ==
  /\ direction[r] = "none" /\ ack[r] = "none"
  /\ direction' = [direction EXCEPT ![r] = d]
  /\ remote' = [remote EXCEPT ![r] = "pending"]
  /\ local' = [local EXCEPT ![r] = IF mode # "REMOTE_ONLY" /\ d = "WRITE"
                                     THEN "pending" ELSE "none"]
  /\ UNCHANGED <<mode, ack, settled>>

\* A request that could not be started is acknowledged as failed.
Reject(r) ==
  /\ direction[r] = "none" /\ ack[r] = "none"
  /\ ack' = [ack EXCEPT ![r] = "error"]
  /\ UNCHANGED <<mode, direction, local, remote, settled>>

\* A Backed read whose remote path failed falls back to the Backing Store.
RemoteEnds(r, s) ==
  /\ remote[r] = "pending"
  /\ remote' = [remote EXCEPT ![r] = s]
  /\ local' = [local EXCEPT ![r] =
                 IF mode # "REMOTE_ONLY" /\ direction[r] = "READ" /\ s = "error"
                   THEN "pending" ELSE @]
  /\ UNCHANGED <<mode, direction, ack, settled>>

LocalEnds(r, s) ==
  /\ local[r] = "pending"
  /\ local' = [local EXCEPT ![r] = s]
  /\ UNCHANGED <<mode, direction, remote, ack, settled>>

\* The acknowledgement v is justified by the paths.
Justified(r, v) ==
  IF mode = "REMOTE_ONLY" THEN remote[r] = v
  ELSE IF direction[r] = "READ"
    THEN (remote[r] = "ok" /\ v = "ok") \/ local[r] = v
  ELSE IF mode = "BACKED_STRICT"
    THEN local[r] = v /\ remote[r] \in Status
  ELSE \/ remote[r] = "ok" /\ v = "ok"
       \/ remote[r] = "error" /\ local[r] = v

Acknowledge(r, v) ==
  /\ ack[r] = "none"
  /\ direction[r] # "none"
  /\ Justified(r, v)
  /\ ack' = [ack EXCEPT ![r] = v]
  /\ UNCHANGED <<mode, direction, local, remote, settled>>

\* Transaction-owned resources go when every path is over.
Settle(r) ==
  /\ ~settled[r]
  /\ direction[r] # "none"
  /\ ack[r] # "none"
  /\ local[r] # "pending" /\ remote[r] # "pending"
  /\ settled' = [settled EXCEPT ![r] = TRUE]
  /\ UNCHANGED <<mode, direction, local, remote, ack>>

Next ==
  \E r \in Request :
    \/ \E d \in {"READ", "WRITE"} : Begin(r, d)
    \/ Reject(r) \/ Settle(r)
    \/ \E s \in Status : RemoteEnds(r, s) \/ LocalEnds(r, s) \/ Acknowledge(r, s)

Spec == Init /\ [][Next]_vars

=============================================================================
