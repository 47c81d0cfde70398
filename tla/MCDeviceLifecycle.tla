-------------------------- MODULE MCDeviceLifecycle --------------------------
(***************************************************************************)
(* Two planned Providers and one chunk, so that one of them holds it and   *)
(* the other does not.  A deadline that expires although something else    *)
(* can still happen counts as a fault; when the faults are used up it      *)
(* expires only in a system that waits for it.                             *)
(***************************************************************************)
EXTENDS DeviceLifecycle

MCChunk == {1}
MCAllocFails == {1, 2}

\* Nothing but a deadline, an answer or the operator moves the system on.
Waiting ==
  /\ \A t \in Thread : IsIdle(t)
  /\ fab.start_work => fab.phase = "none"
  /\ ~fab.reservation_work /\ ~Stopping
  /\ \A p \in Provider : ~sess[p].hello_work /\ ~sess[p].failure_work
  /\ \A r \in DOMAIN io : io[r].state \in {"idle", "posted"}

Expires ==
  \/ \E p \in Provider : At(Evt(p), "timeout")' /\ ~At(Evt(p), "timeout")
  \/ \E r \in DOMAIN io : io[r].state = "posted" /\ io'[r].state = "late"

\* The operator or the application begins something.
Begins ==
  \/ op = NoOp /\ op' # NoOp
  \/ dev'.openers # dev.openers /\ op = NoOp
  \/ dev'.requests # dev.requests

\* A heartbeat timer runs.
Beats == \E p \in Provider : sess'[p].heartbeat # sess[p].heartbeat /\ HeartbeatWork(p)

\* No session is in its handshake.
Started ==
  /\ fab.next_resolve_index > Providers
  /\ \A p \in Provider : sess[p].control_state \notin {"CONNECTING", "WAIT_CHALLENGE", "WAIT_ACCEPT", "WAIT_STATUS"}

\* A session that has failed is failed again, by its events.
Refails ==
  \E p \in Provider, t \in Thread :
    /\ sess[p].failure_started \/ sess[p].control_state = "FAILED"
    /\ IsIdle(t) /\ thr'[t] = Failing(p) /\ t \notin {Resv, Cq}
    /\ sess'[p].hello_work = sess[p].hello_work /\ sess'[p].awaiting = sess[p].awaiting
    /\ io' = io

\* A deadline leaves a lease behind.
Leaks == place'.leaked /\ ~place.leaked

\* The threads that go on without waiting for anybody.
Urgent == {t \in Thread : thr[t].pc \in {"refresh", "schedule", "ready", "arm", "settle"}}

\* Some steps follow the one before them at once: a refresh reads the sessions
\* (what happens between the reading and the storing is left open), is_rdma_start
\* goes on.  Between the test of stopping and the arming of the work the operation
\* and is_rdma_stop may move, before the settling reservation_work.
Priority ==
  /\ op.pc = "start" /\ Exists(1) /\ thr[Start].p # 1 => op' # op
  /\ Urgent # {} =>
       \/ \E t \in Urgent : thr'[t] # thr[t]
       \/ \E t \in Urgent : At(t, "arm") /\ (op' # op \/ fab'.phase # fab.phase)
       \/ \E t \in Urgent : At(t, "settle") /\ thr'[Resv] # thr[Resv]

Busy == {t \in Thread : ~IsIdle(t)}

\* A behaviour has heartbeats of the first Provider, a request, or a session that
\* is failed once more; the last, or a lost lease, only when nothing else goes on.
\* Two threads at a time are inside the fabric of a Remote-Only device, one inside
\* that of a Backed one, and no more begin when the fabric stops.  Faults,
\* deadlines and the steps of the program are never withheld for good.
Affordable ==
  /\ Expires /\ faults.count = MaxFaults => Waiting
  /\ Begins => Waiting
  /\ dev'.requests > dev.requests => RemoteOnly
  /\ Beats => Waiting /\ Started /\ (op = NoOp \/ (RemoteOnly /\ ~fab.reservation_complete))
  /\ Cardinality(Busy') <= (IF RemoteOnly THEN 2 ELSE 1) \/ Busy' \subseteq Busy
  /\ fab.phase = "up" /\ fab'.phase = "cancel" =>
       Cardinality(Busy) <= 1 /\ \A t \in Busy : ~At(t, "store")
  /\ Refails => Waiting /\ op = NoOp /\ ~place.leaked /\ dev.requests = 0
  /\ Leaks => Waiting /\ op = NoOp /\ \A p \in Provider : ~sess[p].flushed
  /\ sess'[2].beats = 0
  /\ sess'[1].beats = 0 \/ (dev'.requests = 0 /\ \A p \in Provider : ~sess[p].flushed)

MCSpec ==
  /\ Init /\ [][Next /\ Affordable /\ Priority]_vars
  /\ WF_vars(Progress /\ Affordable /\ Priority)

=============================================================================
