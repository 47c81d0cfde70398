---------------------------- MODULE ControlFabric ----------------------------
(***************************************************************************)
(* The Consumer's control fabric (is_rdma.c): one session per planned      *)
(* Provider, started one after the other; the handshake of each session;   *)
(* the reservation of every chunk of a Remote-Only device; is_rdma_fail,   *)
(* which any thread that meets a failure runs to its end; heartbeats; and  *)
(* is_rdma_stop.                                                           *)
(*                                                                         *)
(* A session's receive_work and failure_work run on its ordered workqueue  *)
(* (the thread <<"ctl", p>>); its timers and connection events, which call *)
(* is_rdma_fail at any time, share the thread <<"evt", p>>.  The delayed   *)
(* start_next_session_work, reservation_work and the completion handler of *)
(* RDMA operations are threads of the whole fabric.  An action is what one *)
(* of them does under control_lock, or between two stores that another     *)
(* thread can see: is_fabric_refresh_connection_state reads the sessions   *)
(* in one step and stores connection_state in another, and                 *)
(* is_fabric_schedule_next_session tests stopping in one step and arms the *)
(* work in another, with no lock held.                                     *)
(*                                                                         *)
(* What a Provider answers and when is left open, within the frames the    *)
(* state accepts.  The Opportunistic chunks of a Backed device are         *)
(* PoolPressure's and RemoteChunk's.                                       *)
(***************************************************************************)
EXTENDS Naturals, FiniteSets, FiniteSetsExt

CONSTANTS
  Providers,     \* planned_count
  Chunk,         \* the chunks a Remote-Only device must reserve
  MaxAvailable,  \* bound: the capacity a Provider reports
  AllocFails,    \* the Providers whose session may fail to be allocated
  MaxFaults,     \* bound: what fails by itself, late answers apart
  MaxBeats       \* bound: heartbeats of each session

Provider == 1..Providers

ASSUME ControlFabricAssumption ==
  /\ Providers \in Nat \ {0} /\ IsFiniteSet(Chunk) /\ MaxAvailable \in Nat
  /\ AllocFails \subseteq Provider
  /\ MaxFaults \in Nat /\ MaxBeats \in Nat

VARIABLES
  dev,     \* struct is_device
  fab,     \* struct is_rdma_fabric
  sess,    \* its sessions
  place,   \* the chunk module: who holds what
  thr,     \* the threads
  faults   \* how much has failed by itself, and whether a Provider has

fabricVars == <<dev, fab, sess, place, thr, faults>>

Thread == {"ctl", "evt"} \X Provider \cup {<<"start", 0>>, <<"resv", 0>>, <<"cq", 0>>}
Ctl(p) == <<"ctl", p>>
Evt(p) == <<"evt", p>>
Start == <<"start", 0>>
Resv == <<"resv", 0>>
Cq == <<"cq", 0>>

Idle == [pc |-> "idle", p |-> 0, then |-> "idle", value |-> "none", terminal |-> FALSE]
IsIdle(t) == thr[t].pc = "idle"
At(t, pc) == thr[t].pc = pc
Failing(p) == [Idle EXCEPT !.pc = "fail", !.p = p]
\* t is about to refresh connection_state, and goes on with "then".
Refreshing(p, then) == [Idle EXCEPT !.pc = "refresh", !.p = p, !.then = then]

NoSession ==
  [control_state |-> "NONE",        \* sessions[index] is NULL; "UNSTARTED" when
                                    \* its failed_sessions bit is set
   healthy |-> FALSE,
   ever_connected |-> FALSE,
   failure_started |-> FALSE,
   reservation_complete |-> FALSE,
   control_deadline_armed |-> FALSE,
   operation_lock |-> FALSE,        \* held by a completion that publishes
   awaiting |-> FALSE,              \* the answer to pending_request_id can still come
   hello_work |-> FALSE,
   failure_work |-> FALSE,
   heartbeat |-> "off",             \* "scheduled", or "sent" (Backed: and scheduled)
   beats |-> 0,
   flushed |-> FALSE]               \* the receive of a broken queue pair has ended

NoFabric ==
  [phase |-> "none",                \* "up", then "cancel", "sessions" in is_rdma_stop
   next_resolve_index |-> 1,
   start_work |-> FALSE,            \* start_next_session_work is queued, or
                                    \* is_rdma_start is about to call it
   reservation_work |-> FALSE,
   reservation_complete |-> FALSE,
   reservation_failed |-> FALSE]

NoClaim == [chunk |-> 0, p |-> 0]

NoPlace ==
  [live |-> FALSE,                  \* device->remote_chunks
   quiescing |-> FALSE,
   owner |-> [c \in Chunk |-> 0],   \* 0: UNMAPPED or MAPPING
   claim |-> NoClaim,
   leaked |-> FALSE,                \* an I/O lease that nobody will release
   available |-> [p \in Provider |-> 0],
   observed |-> [p \in Provider |-> FALSE],
   failed |-> [p \in Provider |-> FALSE],
   facts |-> [p \in Provider |-> 0]]  \* failure_facts.assigned_chunks

RemoteOnly == dev.mode = "remote_only"
Stopping == fab.phase \in {"cancel", "sessions"}
Exists(p) == sess[p].control_state \notin {"NONE", "UNSTARTED"}
SessionStopping(p) == sess[p].control_state = "STOPPING"

\* The receive handler of p keeps control_lock while it refreshes.
Locked(p) == thr[Ctl(p)].then = "ready"

Held(p) == {c \in Chunk : place.owner[c] = p}
\* is_remote_chunk_provider_effective_available_locked.
Effective(p) ==
  IF place.available[p] > Cardinality(Held(p))
    THEN place.available[p] - Cardinality(Held(p)) ELSE 0

\* is_remote_chunk_provider_failed: the first call takes the Provider's chunks
\* and its claim away; later ones return the facts of the first.
ProviderFailed(p) ==
  IF place.failed[p] THEN place
  ELSE [place EXCEPT !.failed[p] = TRUE,
                     !.facts[p] = Cardinality(Held(p)),
                     !.owner = [c \in Chunk |-> IF @[c] = p THEN 0 ELSE @[c]],
                     !.claim = IF @.p = p THEN NoClaim ELSE @]

\* is_remote_chunk_provider_observe; a failed Provider or a quiescing module
\* makes it fail, and then the caller.
CanObserve(p) == ~place.quiescing /\ ~place.failed[p]
Observe(p, available) ==
  [place EXCEPT !.available[p] = available + Cardinality(Held(p)), !.observed[p] = TRUE]

(***************************************************************************)
(* What fails.                                                             *)
(***************************************************************************)

\* Something fails that need not.
Fault == faults' = [faults EXCEPT !.count = @ + 1] /\ faults.count < MaxFaults
\* A Provider, or the connection to it, fails.
Gone ==
  /\ faults.count < MaxFaults
  /\ faults' = [count |-> faults.count + 1, provider |-> TRUE]
\* A Provider has not answered in time; there is no bound on that.
Late ==
  faults' = [count |-> IF faults.count < MaxFaults THEN faults.count + 1 ELSE MaxFaults,
             provider |-> TRUE]

(***************************************************************************)
(* connection_state.                                                       *)
(***************************************************************************)

ConnectionState ==
  LET healthy == {p \in Provider : sess[p].healthy /\ sess[p].ever_connected}
      failed == {p \in Provider \ healthy :
                   sess[p].failure_started \/ sess[p].control_state \in {"UNSTARTED", "FAILED"}}
  IN CASE Provider \ (healthy \cup failed) # {} -> "CONNECTING"
       [] Provider = healthy -> "CONNECTED"
       [] healthy # {} /\ healthy # Provider /\ Provider = healthy \cup failed -> "DEGRADED"
       [] OTHER -> "NOT_CONNECTED"

\* is_fabric_refresh_connection_state reads ...
Refresh(t) ==
  /\ At(t, "refresh")
  /\ thr' = [thr EXCEPT ![t].pc = "store",
                        ![t].value = IF Stopping \/ dev.remote_lost THEN "none" ELSE ConnectionState]
  /\ UNCHANGED <<dev, fab, sess, place, faults>>

\* ... stores, and its caller goes on.
Store(t) ==
  LET value == thr[t].value
  IN /\ At(t, "store")
     /\ dev' = IF value = "none" THEN dev ELSE [dev EXCEPT !.connection_state = value]
     /\ thr' = [thr EXCEPT ![t].pc = thr[t].then]
     /\ UNCHANGED <<fab, sess, place, faults>>

\* What is left when the next session has been scheduled: is_mark_session_ready
\* schedules a heartbeat.
Scheduled(t) ==
  /\ thr' = [thr EXCEPT ![t] = Idle]
  /\ sess' = IF thr[t].then = "ready"
               THEN [sess EXCEPT ![thr[t].p].heartbeat = "scheduled"] ELSE sess

\* is_fabric_schedule_next_session tests, without a lock, ...
ScheduleNext(t) ==
  /\ thr[t].pc \in {"schedule", "ready"}
  /\ IF fab.phase = "up" /\ fab.next_resolve_index <= Providers
       THEN thr' = [thr EXCEPT ![t].pc = "arm"] /\ UNCHANGED sess
       ELSE Scheduled(t)
  /\ UNCHANGED <<dev, fab, place, faults>>

\* ... and arms start_next_session_work, whatever has happened since.
ArmNext(t) ==
  /\ At(t, "arm")
  /\ fab' = [fab EXCEPT !.start_work = TRUE]
  /\ Scheduled(t)
  /\ UNCHANGED <<dev, place, faults>>

(***************************************************************************)
(* is_rdma_fail, run by thread t on the session thr[t].p.                  *)
(***************************************************************************)

\* The sessions after the first n, one after the other.
FailSessionsAfter(n) ==
  LET rest == {p \in Provider : p > n /\ Exists(p)}
  IN IF rest = {} THEN Idle ELSE Failing(Min(rest))

\* Where t goes when is_rdma_fail returns: reservation_work fails every
\* session; the completion handler publishes the result.
AfterFail(t) ==
  CASE t = Resv -> FailSessionsAfter(thr[t].p)
    [] t = Cq -> [Idle EXCEPT !.pc = "publish", !.p = thr[t].p]
    [] OTHER -> Idle

QueueFailureWork(p) == [sess EXCEPT ![p].failure_work = TRUE]

\* Fault: only the failure of a complete reservation is terminal.
FailLockedComplete(t) ==
  LET p == thr[t].p
  IN /\ At(t, "fail")
     /\ ~Locked(p)
     /\ IF SessionStopping(p) \/ Stopping
          THEN thr' = [thr EXCEPT ![t] = AfterFail(t)] /\ UNCHANGED <<sess, place>>
          ELSE /\ sess' = [sess EXCEPT ![p].healthy = FALSE, ![p].failure_started = TRUE]
               /\ place' = ProviderFailed(p)
               /\ thr' = [thr EXCEPT ![t] = [Refreshing(p, "settle") EXCEPT !.terminal =
                            RemoteOnly /\ fab.reservation_complete]]
     /\ UNCHANGED <<dev, fab, faults>>

\* Under control_lock the session and its chunks fail; the failure is terminal
\* for a device that holds a reservation, or chunks of the Provider.
FailLocked(t) ==
  LET p == thr[t].p
  IN /\ At(t, "fail")
     /\ ~Locked(p)
     /\ IF SessionStopping(p) \/ Stopping
          THEN thr' = [thr EXCEPT ![t] = AfterFail(t)] /\ UNCHANGED <<sess, place>>
          ELSE /\ sess' = [sess EXCEPT ![p].healthy = FALSE, ![p].failure_started = TRUE]
               /\ place' = ProviderFailed(p)
               /\ thr' = [thr EXCEPT ![t] = [Refreshing(p, "settle") EXCEPT !.terminal =
                            RemoteOnly /\ (fab.reservation_complete \/ place'.facts[p] > 0)]]
     /\ UNCHANGED <<dev, fab, faults>>

\* is_session_status_done.
StatusDone(f) ==
  IF f.phase = "up" /\ ~f.reservation_complete /\ ~f.reservation_failed
    THEN [f EXCEPT !.reservation_work = TRUE] ELSE f

\* is_rdma_fail settles the reservation, and either queues failure_work or has
\* the device to mark first.
Settle(t) ==
  LET p == thr[t].p
  IN /\ At(t, "settle")
     /\ fab' = IF ~RemoteOnly \/ fab.reservation_complete THEN fab
               ELSE IF place.facts[p] > 0 THEN [fab EXCEPT !.reservation_failed = TRUE]
               ELSE StatusDone(fab)
     /\ IF thr[t].terminal
          THEN thr' = [thr EXCEPT ![t].pc = "lost"] /\ UNCHANGED sess
          ELSE thr' = [thr EXCEPT ![t] = AfterFail(t)] /\ sess' = QueueFailureWork(p)
     /\ UNCHANGED <<dev, place, faults>>

\* is_device_mark_remote_lost_locked.
MarkRemoteLost(p) ==
  IF dev.remote_lost THEN dev
  ELSE [dev EXCEPT !.remote_lost = TRUE, !.lost_by = p, !.accepting_opens = FALSE,
                   !.accepting_io = FALSE, !.connection_state = "REMOTE_LOST"]

\* is_mark_session_remote_lost, which waits for remote_state_lock and for the
\* operation_lock of its own session.
FailLost(t) ==
  /\ At(t, "lost")
  /\ ~dev.remote_state_lock /\ ~sess[thr[t].p].operation_lock
  /\ dev' = MarkRemoteLost(thr[t].p)
  /\ sess' = QueueFailureWork(thr[t].p)
  /\ thr' = [thr EXCEPT ![t] = AfterFail(t)]
  /\ UNCHANGED <<fab, place, faults>>

\* Fault: the next session is not scheduled.
FailureWorkAlone(p) ==
  /\ sess[p].failure_work
  /\ IsIdle(Ctl(p))
  /\ sess' = [sess EXCEPT ![p].failure_work = FALSE,
                          ![p].control_state = IF @ = "STOPPING" THEN @ ELSE "FAILED",
                          ![p].control_deadline_armed = FALSE,
                          ![p].heartbeat = "off"]
  /\ UNCHANGED <<dev, fab, place, thr, faults>>

\* is_failure_work, on the session's ordered workqueue.
FailureWork(p) ==
  /\ sess[p].failure_work
  /\ IsIdle(Ctl(p))
  /\ sess' = [sess EXCEPT ![p].failure_work = FALSE,
                          ![p].control_state = IF @ = "STOPPING" THEN @ ELSE "FAILED",
                          ![p].control_deadline_armed = FALSE,
                          ![p].heartbeat = "off"]
  /\ thr' = [thr EXCEPT ![Ctl(p)] = Refreshing(p, "schedule")]
  /\ UNCHANGED <<dev, fab, place, faults>>

\* A step of a thread that is inside is_rdma_fail, a refresh or failure_work.
FailStep ==
  \/ \E t \in Thread :
       \/ Refresh(t) \/ Store(t) \/ ScheduleNext(t) \/ ArmNext(t)
       \/ FailLocked(t) \/ Settle(t) \/ FailLost(t)
  \/ \E p \in Provider : FailureWork(p)

(***************************************************************************)
(* Starting the sessions and the handshake.                                *)
(***************************************************************************)

\* is_fabric_start_next_session: is_rdma_start calls it once, afterwards
\* start_next_session_work does.
StartNextSession ==
  LET p == fab.next_resolve_index
  IN /\ fab.start_work /\ fab.phase # "none"
     /\ IsIdle(Start)
     /\ IF Stopping \/ p > Providers
          THEN fab' = [fab EXCEPT !.start_work = FALSE] /\ UNCHANGED <<sess, place, thr, faults>>
          ELSE \/ /\ fab' = [fab EXCEPT !.start_work = FALSE, !.next_resolve_index = p + 1]
                  /\ \E resolving \in BOOLEAN :  \* is_resolve_provider
                       /\ sess' = [sess EXCEPT ![p] = [NoSession EXCEPT
                                     !.control_state = "CONNECTING",
                                     !.control_deadline_armed = TRUE, !.awaiting = resolving]]
                       /\ \/ resolving /\ UNCHANGED <<thr, faults>>
                          \/ ~resolving /\ Gone /\ thr' = [thr EXCEPT ![Start] = Failing(p)]
                  /\ UNCHANGED place
               \/ /\ p \in AllocFails /\ Fault
                  /\ fab' = [fab EXCEPT !.start_work = FALSE, !.next_resolve_index = p + 1,
                                        !.reservation_work = @ \/ RemoteOnly]
                  /\ sess' = [sess EXCEPT ![p].control_state = "UNSTARTED"]
                  /\ place' = IF RemoteOnly THEN ProviderFailed(p) ELSE place
                  /\ thr' = [thr EXCEPT ![Start] = Refreshing(p, "schedule")]
     /\ UNCHANGED dev

\* The connection is ESTABLISHED (is_rdma_cm_event), after the events that
\* resolve the address and the route and after connect_work.
Established(p) ==
  /\ sess[p].control_state = "CONNECTING" /\ sess[p].awaiting
  /\ sess' = [sess EXCEPT ![p].hello_work = TRUE, ![p].awaiting = FALSE]
  /\ UNCHANGED <<dev, fab, place, thr, faults>>

\* A request is sent and its deadline armed; it is answered at most once.
Awaits(s, state) ==
  [s EXCEPT !.control_state = state, !.control_deadline_armed = TRUE, !.awaiting = TRUE]

\* is_hello_work; by now the session may have failed.
HelloWork(p) ==
  /\ sess[p].hello_work
  /\ ~Locked(p) /\ IsIdle(Evt(p))
  /\ IF sess[p].control_state = "CONNECTING"
       THEN /\ sess' = [sess EXCEPT ![p] = [Awaits(@, "WAIT_CHALLENGE") EXCEPT !.hello_work = FALSE]]
            /\ UNCHANGED thr
       ELSE /\ sess' = [sess EXCEPT ![p].hello_work = FALSE]
            /\ thr' = [thr EXCEPT ![Evt(p)] = Failing(p)]
  /\ UNCHANGED <<dev, fab, place, faults>>

\* is_receive_work: the handlers of the control states.  Each answers the
\* pending request, which cancels the deadline of that request.
Receives(p, state) ==
  IsIdle(Ctl(p)) /\ sess[p].control_state = state /\ sess[p].awaiting

\* is_handle_challenge and is_handle_accept send the next request.
HandleChallengeOrAccept(p) ==
  /\ \/ Receives(p, "WAIT_CHALLENGE") /\ sess' = [sess EXCEPT ![p] = Awaits(@, "WAIT_ACCEPT")]
     \/ Receives(p, "WAIT_ACCEPT") /\ sess' = [sess EXCEPT ![p] = Awaits(@, "WAIT_STATUS")]
  /\ UNCHANGED <<dev, fab, place, thr, faults>>

\* A frame is refused: an ERROR, the wrong type, a field that does not match,
\* or one the chunk module refuses.  receive_work calls is_rdma_fail.
Refuse(p) ==
  /\ sess' = [sess EXCEPT ![p].control_deadline_armed = FALSE, ![p].awaiting = FALSE,
                          ![p].heartbeat = IF @ = "sent" THEN "scheduled" ELSE @]
  /\ thr' = [thr EXCEPT ![Ctl(p)] = Failing(p)]
  /\ UNCHANGED <<dev, fab, place>>

\* is_mark_session_ready.  failure_started is false: is_rdma_fail sets it with
\* the Provider's failure, and then CanObserve is false.
Ready(p, healthy) ==
  /\ sess' = [sess EXCEPT ![p].healthy = healthy, ![p].ever_connected = TRUE,
                          ![p].control_state = "READY", ![p].control_deadline_armed = FALSE,
                          ![p].awaiting = FALSE]
  /\ fab' = IF RemoteOnly THEN StatusDone(fab) ELSE fab
  /\ thr' = [thr EXCEPT ![Ctl(p)] = Refreshing(p, "ready")]

\* is_handle_status: a Backed session whose Provider has nothing to give stays
\* out of the healthy ones.  A Provider that reports itself unhealthy is made
\* ready nevertheless.
HandleStatus(p, available) ==
  /\ Receives(p, "WAIT_STATUS")
  /\ IF CanObserve(p)
       THEN /\ place' = Observe(p, available)
            /\ Ready(p, RemoteOnly \/ available > 0)
            /\ UNCHANGED dev
       ELSE Refuse(p)
  /\ UNCHANGED faults

\* is_handle_chunk_grant of a Remote-Only session: is_remote_chunk_mapping_finish
\* refuses a claim the Provider's failure has ended.
HandleChunkGrant(p) ==
  /\ Receives(p, "WAIT_RESERVATION")
  /\ IF place.claim.p = p /\ ~place.quiescing
       THEN /\ place' = [place EXCEPT !.owner[place.claim.chunk] = p, !.claim = NoClaim]
            /\ sess' = [sess EXCEPT ![p].control_state = "READY", ![p].control_deadline_armed = FALSE,
                                    ![p].awaiting = FALSE]
            /\ fab' = [fab EXCEPT !.reservation_work = TRUE]
            /\ UNCHANGED <<dev, thr>>
       ELSE Refuse(p)
  /\ UNCHANGED faults

(***************************************************************************)
(* Heartbeats.                                                             *)
(***************************************************************************)

\* is_heartbeat_work.  In another state than READY it only reschedules itself,
\* which is no step.
HeartbeatWork(p) ==
  /\ sess[p].heartbeat # "off"
  /\ sess[p].control_state \in {"READY", "FAILED"}
  /\ ~Locked(p) /\ IsIdle(Evt(p))
  /\ sess[p].heartbeat = "sent" \/ sess[p].beats < MaxBeats
  /\ sess' = [sess EXCEPT ![p] =
       CASE @.control_state = "FAILED" -> [@ EXCEPT !.heartbeat = "off"]
         [] RemoteOnly /\ ~@.reservation_complete -> [@ EXCEPT !.heartbeat = "off"]
         [] RemoteOnly -> [Awaits(@, "WAIT_HEARTBEAT") EXCEPT !.heartbeat = "off", !.beats = @ + 1]
         [] ~RemoteOnly /\ @.heartbeat = "sent" -> [@ EXCEPT !.heartbeat = "off"]
         [] OTHER -> [@ EXCEPT !.heartbeat = "sent", !.beats = @ + 1]]
  /\ thr' = IF sess[p].heartbeat = "sent" /\ sess[p].control_state = "READY"
              THEN [thr EXCEPT ![Evt(p)] = Failing(p)] ELSE thr
  /\ UNCHANGED <<dev, fab, place, faults>>

\* is_handle_heartbeat and is_handle_backed_heartbeat.  The second one stores
\* healthy and does not refresh connection_state.
HandleHeartbeat(p, available) ==
  /\ \/ Receives(p, "WAIT_HEARTBEAT")
     \/ IsIdle(Ctl(p)) /\ sess[p].control_state = "READY" /\ sess[p].heartbeat = "sent"
  /\ IF ~CanObserve(p) THEN Refuse(p)
     ELSE /\ place' = Observe(p, available)
          /\ UNCHANGED dev
          /\ IF RemoteOnly THEN Ready(p, TRUE)
             ELSE /\ sess' = [sess EXCEPT ![p].heartbeat = "scheduled",
                                          ![p].healthy = available > 0]
                  /\ UNCHANGED <<fab, thr>>
  /\ UNCHANGED faults

(***************************************************************************)
(* Failures.                                                               *)
(***************************************************************************)

\* is_control_deadline finds the deadline armed; only then it takes the lock
\* again and fails the session.
ControlDeadline(p) ==
  /\ sess[p].control_deadline_armed
  /\ ~Locked(p) /\ IsIdle(Evt(p))
  /\ sess' = [sess EXCEPT ![p].control_deadline_armed = FALSE]
  /\ thr' = [thr EXCEPT ![Evt(p)] = [Idle EXCEPT !.pc = "timeout", !.p = p]]
  /\ Late
  /\ UNCHANGED <<dev, fab, place>>

DeadlineFails(p) ==
  /\ At(Evt(p), "timeout")
  /\ ~Locked(p)
  /\ sess' = [sess EXCEPT ![p].control_state = IF @ = "STOPPING" THEN @ ELSE "FAILED"]
  /\ thr' = [thr EXCEPT ![Evt(p)] = Failing(p)]
  /\ UNCHANGED <<dev, fab, place, faults>>

\* The Provider or the connection fails (is_rdma_cm_event, or a completion with
\* an error), or a frame that is refused arrives.
SessionFault(p) ==
  /\ Exists(p)
  /\ Gone
  /\ ~SessionStopping(p)
  /\ \/ IsIdle(Evt(p)) /\ thr' = [thr EXCEPT ![Evt(p)] = Failing(p)] /\ UNCHANGED sess
     \/ /\ IsIdle(Ctl(p)) /\ sess[p].control_state # "CONNECTING"
        /\ thr' = [thr EXCEPT ![Ctl(p)] = Failing(p)]
        /\ \/ UNCHANGED sess
           \/ sess' = [sess EXCEPT ![p].control_deadline_armed = FALSE]
  /\ UNCHANGED <<dev, fab, place>>

\* The queue pair of a session that was ready and has failed flushes its posted
\* receive, and is_control_receive_done fails the session again.
ReceiveFlushed(p) ==
  /\ Exists(p) /\ ~SessionStopping(p)
  /\ sess[p].ever_connected /\ sess[p].failure_started /\ ~sess[p].flushed
  /\ IsIdle(Evt(p))
  /\ sess' = [sess EXCEPT ![p].flushed = TRUE]
  /\ thr' = [thr EXCEPT ![Evt(p)] = Failing(p)]
  /\ UNCHANGED <<dev, fab, place, faults>>

\* The Provider closes the connection of a Consumer it has not heard of for a
\* whole Provider Failure Deadline: nothing is pending and no heartbeat is due.
ProviderReclaims(p) ==
  /\ sess[p].control_state = "READY" /\ sess[p].heartbeat = "off"
  /\ ~Locked(p) /\ IsIdle(Evt(p)) /\ IsIdle(Ctl(p)) /\ ~sess[p].failure_started
  /\ Gone
  /\ thr' = [thr EXCEPT ![Evt(p)] = Failing(p)]
  /\ UNCHANGED <<dev, fab, sess, place>>

(***************************************************************************)
(* The reservation of a Remote-Only device.                                *)
(***************************************************************************)

\* is_remote_chunk_next_mapping in Remote-Only mode.
NextMapping ==
  LET up == {p \in Provider : ~place.failed[p]}
      unmapped == {c \in Chunk : place.owner[c] = 0}
      eligible == {p \in up : Effective(p) > 0}
  IN CASE place.quiescing -> "SHUTDOWN"
       [] place.claim # NoClaim -> "CLAIM_ACTIVE"
       [] \E p \in up : ~place.observed[p] -> "PENDING_PROVIDER_FACTS"
       [] unmapped = {} -> "COMPLETE"
       [] unmapped = Chunk /\ MapThenSumSet(Effective, up) < Cardinality(Chunk)
            -> "INSUFFICIENT_CAPACITY"
       [] eligible = {} -> "NO_ELIGIBLE_CAPACITY"
       [] OTHER -> "REQUEST"

\* fail_reservation: complete with an error, then fail every session.
FailReservation ==
  /\ fab' = [fab EXCEPT !.reservation_failed = TRUE, !.reservation_work = FALSE]
  /\ thr' = [thr EXCEPT ![Resv] = FailSessionsAfter(0)]

\* is_fabric_reservation_work up to its locks.  Power-of-d placement chooses
\* the Provider; chunks are taken in order.
ReservationWork ==
  /\ fab.reservation_work /\ IsIdle(Resv)
  /\ IF fab.reservation_complete \/ fab.reservation_failed \/ Stopping
        \/ NextMapping \in {"CLAIM_ACTIVE", "PENDING_PROVIDER_FACTS"}
       THEN fab' = [fab EXCEPT !.reservation_work = FALSE] /\ UNCHANGED <<place, thr>>
       ELSE \/ /\ NextMapping = "REQUEST"
               /\ \E p \in Provider, c \in Chunk :
                    /\ ~place.failed[p] /\ Effective(p) > 0
                    /\ place.owner[c] = 0 /\ \A d \in Chunk : d < c => place.owner[d] # 0
                    /\ place' = [place EXCEPT !.claim = [chunk |-> c, p |-> p]]
                    /\ thr' = [thr EXCEPT ![Resv] = [Idle EXCEPT !.pc = "send", !.p = p]]
               /\ fab' = [fab EXCEPT !.reservation_work = FALSE]
            \/ /\ NextMapping = "COMPLETE"
               /\ thr' = [thr EXCEPT ![Resv].pc = "complete"]
               /\ fab' = [fab EXCEPT !.reservation_work = FALSE]
               /\ UNCHANGED place
            \/ /\ NextMapping \in {"SHUTDOWN", "INSUFFICIENT_CAPACITY", "NO_ELIGIBLE_CAPACITY"}
               /\ FailReservation
               /\ UNCHANGED place
  /\ UNCHANGED <<dev, sess, faults>>

\* is_device_mark_remote_connected, which waits for remote_state_lock; then
\* the sessions and the fabric are marked.
ReservationComplete ==
  /\ At(Resv, "complete")
  /\ ~dev.remote_state_lock
  /\ IF dev.remote_lost THEN FailReservation /\ UNCHANGED <<dev, sess>>
     ELSE /\ dev' = [dev EXCEPT !.connection_state = "CONNECTED"]
          /\ sess' = [p \in Provider |->
                        IF Exists(p) THEN [sess[p] EXCEPT !.reservation_complete = TRUE] ELSE sess[p]]
          /\ fab' = [fab EXCEPT !.reservation_complete = TRUE]
          /\ thr' = [thr EXCEPT ![Resv] = Idle]
  /\ UNCHANGED <<place, faults>>

\* is_request_remote_only_reservation under control_lock, which may fail.  A
\* session that is no longer ready is not asked: the claim is aborted, its
\* Provider observed as not eligible and the work queued again.
ReservationSend ==
  LET p == thr[Resv].p
      s == sess[p]
      aborted == [place EXCEPT !.claim = IF @.p = p THEN NoClaim ELSE @]
  IN /\ At(Resv, "send")
     /\ ~Locked(p)
     /\ IF s.healthy /\ ~s.failure_started /\ s.control_state = "READY"
          THEN \/ /\ sess' = [sess EXCEPT ![p] = Awaits(@, "WAIT_RESERVATION")]
                  /\ thr' = [thr EXCEPT ![Resv] = Idle]
                  /\ UNCHANGED <<fab, place, faults>>
               \/ /\ Gone
                  /\ place' = aborted
                  /\ FailReservation
                  /\ UNCHANGED sess
          ELSE /\ place' = IF CanObserve(p) /\ (~s.healthy \/ s.failure_started \/ s.control_state = "FAILED")
                            THEN [aborted EXCEPT !.available[p] = 0] ELSE aborted
               /\ fab' = [fab EXCEPT !.reservation_work = TRUE]
               /\ thr' = [thr EXCEPT ![Resv] = Idle]
               /\ UNCHANGED <<sess, faults>>
     /\ UNCHANGED dev

(***************************************************************************)
(* is_rdma_stop, from the point where it marks the fabric stopping.        *)
(***************************************************************************)

\* cancel_delayed_work_sync and cancel_work_sync of the fabric's works, skipped
\* when session_count is zero.
StopCancel ==
  /\ fab.phase = "cancel"
  /\ IF \E p \in Provider : Exists(p)
       THEN /\ IsIdle(Start) /\ IsIdle(Resv)
            /\ fab' = [fab EXCEPT !.phase = "sessions", !.start_work = FALSE,
                                  !.reservation_work = FALSE]
       ELSE fab' = [fab EXCEPT !.phase = "sessions"]
  /\ UNCHANGED <<dev, sess, place, thr, faults>>

\* Fault: the session goes without is_fail_session_chunks.
StopSessionOnly(p) ==
  /\ fab.phase = "sessions"
  /\ Exists(p) /\ ~SessionStopping(p)
  /\ \A q \in Provider : q < p => ~Exists(q)
  /\ ~Locked(p)
  /\ sess' = [sess EXCEPT ![p].control_state = "STOPPING", ![p].control_deadline_armed = FALSE]
  /\ UNCHANGED <<dev, fab, place, thr, faults>>

\* is_fail_session_chunks and the first half of is_session_destroy.
StopSession(p) ==
  /\ fab.phase = "sessions"
  /\ Exists(p) /\ ~SessionStopping(p)
  /\ \A q \in Provider : q < p => ~Exists(q)
  /\ ~Locked(p)
  /\ place' = ProviderFailed(p)
  /\ sess' = [sess EXCEPT ![p].control_state = "STOPPING", ![p].control_deadline_armed = FALSE]
  /\ UNCHANGED <<dev, fab, thr, faults>>

\* Every work of the session is cancelled or waited for, the queue pair is
\* drained, and the session is freed.
DestroySession(p) ==
  /\ SessionStopping(p)
  /\ IsIdle(Ctl(p)) /\ IsIdle(Evt(p)) /\ (IsIdle(Cq) \/ thr[Cq].p # p)
  /\ sess' = [sess EXCEPT ![p] = NoSession]
  /\ UNCHANGED <<dev, fab, place, thr, faults>>

\* The sessions are gone: mapping_work and reservation_work are cancelled again
\* and the fabric is freed.  A start_next_session_work that was armed after
\* StopCancel stays queued; what its timer then runs on is no longer modelled.
StopFree ==
  /\ fab.phase = "sessions"
  /\ \A p \in Provider : ~Exists(p)
  /\ IsIdle(Resv)
  /\ fab' = [NoFabric EXCEPT !.start_work = fab.start_work]
  /\ sess' = [p \in Provider |-> NoSession]
  /\ UNCHANGED <<dev, place, thr, faults>>

=============================================================================
