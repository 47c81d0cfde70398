---------------------------- MODULE PoolPressure ----------------------------
(***************************************************************************)
(* Pool pressure: how a Provider takes Opportunistic Remote Chunks back    *)
(* from the Consumers that use them.  evict_mem asks every Consumer how    *)
(* active its chunks are (EVICT, answered by ACTIVITY), chooses chunks,    *)
(* and has them given up (RELEASE, answered by RELEASE).  rdma-common.c    *)
(* and the READY state of is_rdma.c, joined by the two directions of the   *)
(* control channel.                                                        *)
(*                                                                         *)
(* The Provider's pool thread (free_mem) and its completion thread         *)
(* (poll_cq) share a struct connection; on the Consumer a struct           *)
(* is_rdma_session is shared by the workqueue (receive_work, release_work, *)
(* mapping_work), the heartbeat and deadline timers and the completion     *)
(* handler of the RDMA operations.  An action is what one of them does     *)
(* while it holds control_lock, or between two points where it waits.      *)
(*                                                                         *)
(* The sessions are established and Backed.  How active a chunk is decides *)
(* which one is chosen and nothing else, so the choice is left open.       *)
(***************************************************************************)
EXTENDS Naturals, Sequences, FiniteSets

CONSTANTS
  Connections,  \* how many connections session.conns holds
  Chunk,        \* the Provider's Opportunistic chunks
  Granted,      \* the chunks each connection has at first
  MaxRounds,    \* bound: the calls of evict_mem
  MaxRequests   \* bound: the requests of each Consumer

Connection == 1..Connections

ASSUME PoolPressureAssumption ==
  /\ Connections \in Nat /\ Chunk \subseteq Nat /\ IsFiniteSet(Chunk)
  /\ Granted \in [Connection -> SUBSET Chunk]
  /\ \A c, d \in Connection : c # d => Granted[c] \cap Granted[d] = {}
  /\ MaxRounds \in Nat /\ MaxRequests \in [Connection -> Nat]

VARIABLES
  conn,   \* the Provider's struct connection
  sess,   \* the Consumer's struct is_rdma_session
  evict   \* the pool thread

vars == <<conn, sess, evict>>

Frame(type, id, chunks) == [type |-> type, id |-> id, chunks |-> chunks]
NoFrame == Frame("none", 0, {})
Pending(id, chunks) == [id |-> id, chunks |-> chunks]
NotPending == Pending(0, {})
IsResponse(f) == f.type \in {"STATUS_RESPONSE", "CHUNK_GRANT"}

\* is_payload_size of a frame from the Consumer.
PayloadSize(f) ==
  CASE f.type = "STATUS_REQUEST" -> 0
    [] f.type = "CHUNK_REQUEST" -> 12
    [] f.type = "RELEASE" -> 4 + 4 * Cardinality(f.chunks)
    [] f.type = "ACTIVITY" -> 4 + 12 * Cardinality(f.chunks)

NewConnection(c) ==
  [phase |-> "live",       \* "live", "closing" (conn->closing) or "gone"
   qp_error |-> FALSE,
   closed |-> FALSE,       \* protocol_session.state is CLOSED
   last_request_id |-> 0,  \* protocol_session.last_request_id
   sess_chunk_map |-> Granted[c],
   next_provider_request_id |-> 1,
   pending_evict |-> NotPending,
   pending_release |-> NotPending,
   release_chunks |-> {},
   recv_message |-> {},    \* the chunks recv_message.rkey marks
   evict_sem |-> 0,
   stop_sem |-> 0,
   sends |-> <<>>,         \* send_frame and pending_send_frame
   sent |-> FALSE,         \* the first of them has arrived
   receives |-> 2,         \* posted by build_connection and on_connect
   recv_frame |-> NoFrame, \* the one buffer of all of them
   cq |-> <<>>]            \* byte_len of the receives that completed

NewSession(c) ==
  [ready |-> TRUE,         \* READY, and is_rdma_fail has not been called
   qp_error |-> FALSE,
   mapped |-> Granted[c],  \* chunks that are MAPPED or EVICTING
   evicting |-> {},        \* release_provider_ids, claimed by eviction_claim
   next_request_id |-> 1,
   pending_request_id |-> 0,
   heartbeat_request_id |-> 0,
   mapping_claim |-> FALSE,
   deadline_armed |-> FALSE,
   waiting |-> FALSE,      \* release_work sleeps in is_remote_chunk_eviction_wait
   sending |-> NoFrame,    \* send_busy, and the frame in send_frame
   posted |-> TRUE,        \* the control receive
   received |-> NoFrame,   \* received_frame, with receive_work queued
   lease |-> {},           \* the chunk an RDMA operation uses
   failing |-> FALSE]      \* it failed, and retire_posted is in is_rdma_fail

NoRound(n) ==
  [step |-> "idle", held |-> <<>>, at |-> 1, activities |-> {}, rounds |-> n]

Init ==
  /\ conn = [c \in Connection |-> NewConnection(c)]
  /\ sess = [c \in Connection |-> NewSession(c)]
  /\ evict = NoRound(0)

\* The queue pairs still carry frames and RDMA operations.
Connected(c) == ~conn[c].qp_error /\ ~sess[c].qp_error

\* Nobody sleeps with the session's control_lock.
Unlocked(c) == ~sess[c].waiting

(***************************************************************************)
(* Sending on the Provider, as updates of a struct connection.             *)
(***************************************************************************)

\* rdma_disconnect: what was posted to the queue pair is flushed.
Disconnect(r) == [r EXCEPT !.qp_error = TRUE, !.sends = <<>>, !.sent = FALSE]

\* submit_encoded_message: one frame is sent, one may wait, and a third is
\* refused, which disconnects.
Submit(r, frame, close, repost) ==
  IF Len(r.sends) < 2 /\ ~r.qp_error
  THEN [r EXCEPT !.sends =
         Append(@, [frame |-> frame, close |-> close, repost |-> repost])]
  ELSE Disconnect(r)

\* send_protocol_error, and the error responses of is_provider_session_handle.
SendProtocolError(r) ==
  Submit([r EXCEPT !.closed = TRUE], Frame("ERROR", 0, {}), TRUE, FALSE)

\* init_outbound_message numbers a request of the Provider.
Numbered(r) ==
  [r EXCEPT !.next_provider_request_id = @ + 1]

\* send_evict: every chunk of the connection is listed.
SendEvict(r) ==
  LET id == r.next_provider_request_id
      chunks == r.sess_chunk_map
      pending == [Numbered(r) EXCEPT !.pending_evict = Pending(id, chunks)]
  IN  CASE r.pending_evict.id # 0 -> SendProtocolError(r)
        [] r.pending_evict.id = 0 /\ chunks = {} -> SendProtocolError(pending)
        [] OTHER -> Submit(pending, Frame("EVICT", id, chunks), FALSE, FALSE)

\* send_stop, until it waits.
SendRelease(r) ==
  LET id == r.next_provider_request_id
  IN  IF r.pending_release.id # 0 THEN SendProtocolError(r)
      ELSE Submit([Numbered(r) EXCEPT
                    !.pending_release = Pending(id, r.release_chunks)],
                  Frame("RELEASE", id, r.release_chunks), FALSE, FALSE)

PostReceives(r) ==
  IF r.phase = "live" THEN [r EXCEPT !.receives = @ + 1] ELSE r

(***************************************************************************)
(* The pool thread: evict_mem.                                             *)
(***************************************************************************)

Held == {evict.held[i] : i \in 1..Len(evict.held)}
Current == evict.held[evict.at]

\* Where a loop over held_connections goes on.
Advance(next) ==
  IF evict.at < Len(evict.held)
  THEN [evict EXCEPT !.at = @ + 1]
  ELSE [evict EXCEPT !.at = 1, !.step = next]

\* The label out.
Out == NoRound(evict.rounds)

\* free_mem calls evict_mem; the connections that are mapped and not closing
\* are referenced.
EvictMem ==
  LET chosen(c) == conn[c].phase = "live" /\ conn[c].sess_chunk_map # {}
      all == [i \in 1..Connections |-> i]
  IN  /\ evict.step = "idle" /\ evict.rounds < MaxRounds
      /\ \E c \in Connection : chosen(c)
      /\ evict' = [NoRound(evict.rounds + 1) EXCEPT
                    !.step = "evict", !.held = SelectSeq(all, chosen)]
      /\ UNCHANGED <<conn, sess>>

AskActivity ==
  /\ evict.step = "evict"
  /\ conn' = [conn EXCEPT ![Current] = SendEvict(@)]
  /\ evict' = Advance("activity")
  /\ UNCHANGED sess

\* wait_for_control_response gives up: its deadline has passed.
GiveUp(r) == IF r.phase = "live" THEN Disconnect(r) ELSE r

ActivityTimeout ==
  /\ evict.step = "activity" /\ conn[Current].evict_sem = 0
  /\ conn' = [conn EXCEPT ![Current] = GiveUp(@)]
  /\ evict' = Out
  /\ UNCHANGED sess

\* Which chunks the loop over recv_message.rkey finds.  It holds no lock: when
\* another frame has arrived, translate_request may clear recv_message under it.
Readable(r) ==
  IF r.cq = <<>> THEN {r.recv_message} ELSE SUBSET r.recv_message

\* The chunks chosen from all answers, to be marked in release_chunks: as many
\* as requested_chunks, at least one, if the answers have so many.
Marks(activities) ==
  {[c \in Connection |-> {a[2] : a \in {b \in S : b[1] = c}}] :
     S \in {T \in SUBSET activities : T # {} \/ activities = {}}}

\* The answer of one connection is read and, after the last, chunks are chosen.
ReadActivity ==
  LET c == Current
      r == [conn[c] EXCEPT !.evict_sem = @ - 1]
      last == evict.at = Len(evict.held)
  IN  /\ evict.step = "activity" /\ conn[c].evict_sem > 0
      /\ IF r.phase # "live"
         THEN /\ conn' = [conn EXCEPT ![c] = r]
              /\ evict' = Out
         ELSE \E found \in Readable(r) :
                LET seen == evict.activities \cup {<<c, k>> : k \in found}
                    read == [conn EXCEPT ![c] = PostReceives(r)]
                IN  IF last
                    THEN \E marks \in Marks(seen) :
                           /\ conn' = [d \in Connection |->
                                        [read[d] EXCEPT
                                          !.release_chunks = @ \cup marks[d]]]
                           /\ evict' = [evict EXCEPT !.step = "stop", !.at = 1]
                    ELSE /\ conn' = read
                         /\ evict' = [evict EXCEPT !.at = @ + 1,
                                                   !.activities = seen]
      /\ UNCHANGED sess

\* The loop that calls send_stop: a connection without marks is passed over,
\* one that is closing ends the round.
SendStop ==
  LET r == conn[Current]
      done == evict.at = Len(evict.held)
  IN  /\ evict.step = "stop"
      /\ IF r.release_chunks = {} \/ r.phase # "live"
         THEN /\ evict' = IF done \/ r.release_chunks # {} THEN Out
                          ELSE [evict EXCEPT !.at = @ + 1]
              /\ UNCHANGED conn
         ELSE /\ conn' = [conn EXCEPT ![Current] = SendRelease(@)]
              /\ evict' = [evict EXCEPT !.step = "stopping"]
      /\ UNCHANGED sess

StopDone ==
  LET r == conn[Current]
  IN  /\ evict.step = "stopping" /\ r.stop_sem > 0
      /\ conn' = [conn EXCEPT ![Current].stop_sem = @ - 1,
                              ![Current].release_chunks = {}]
      /\ evict' = IF r.phase # "live" \/ evict.at = Len(evict.held) THEN Out
                  ELSE [evict EXCEPT !.step = "stop", !.at = @ + 1]
      /\ UNCHANGED sess

\* Fault: the round is given up without putting its references.
StopTimeoutLeaks ==
  /\ evict.step = "stopping" /\ conn[Current].stop_sem = 0
  /\ conn' = [conn EXCEPT ![Current] =
               [GiveUp(@) EXCEPT !.release_chunks = {}]]
  /\ evict' = [Out EXCEPT !.held = evict.held]
  /\ UNCHANGED sess

StopTimeout ==
  /\ evict.step = "stopping" /\ conn[Current].stop_sem = 0
  /\ conn' = [conn EXCEPT ![Current] =
               [GiveUp(@) EXCEPT !.release_chunks = {}]]
  /\ evict' = Out
  /\ UNCHANGED sess

EvictStep ==
  \/ AskActivity \/ ActivityTimeout \/ ReadActivity
  \/ SendStop \/ StopDone \/ StopTimeout

(***************************************************************************)
(* The completion thread: on_completion.                                   *)
(***************************************************************************)

Free == Chunk \ UNION {conn[c].sess_chunk_map : c \in Connection}

\* An answer of the Consumer is to the request that is pending.
Answers(r, f) ==
  LET pending == IF f.type = "ACTIVITY" THEN r.pending_evict
                 ELSE r.pending_release
  IN  pending.id # 0 /\ f.id = pending.id /\ f.chunks = pending.chunks

\* What translate_request marks in recv_message: it stops at the first chunk
\* the connection no longer has.
Marked(r, f) ==
  IF f.type \in {"ACTIVITY", "RELEASE"} /\ Answers(r, f)
  THEN {k \in f.chunks : \A j \in f.chunks : j <= k => j \in r.sess_chunk_map}
  ELSE {}

\* handle_authenticated and translate_request accept a frame.
Accepted(r, f) ==
  IF f.type \in {"ACTIVITY", "RELEASE"}
  THEN Answers(r, f) /\ Marked(r, f) = f.chunks
  ELSE f.id > r.last_request_id

\* send_free_mem_size.
SendFreeMemSize(r, f) ==
  {Submit([r EXCEPT !.last_request_id = f.id, !.recv_message = {}],
          Frame("STATUS_RESPONSE", f.id, {}), FALSE, TRUE)}

\* send_mr: a chunk is acquired and granted, or the request is refused, which a
\* quota, a reserve or a failed registration does while chunks are free too.
SendMr(r, f) ==
  LET t == [r EXCEPT !.last_request_id = f.id, !.recv_message = {}]
  IN  {SendProtocolError(t)} \cup
        {Submit([t EXCEPT !.sess_chunk_map = @ \cup {k}],
                Frame("CHUNK_GRANT", f.id, {k}), FALSE, TRUE) : k \in Free}

\* The answer to EVICT is left to the pool thread, which posts the receive.
ReceiveActivity(r, f) ==
  {[r EXCEPT !.recv_message = f.chunks, !.pending_evict = NotPending,
             !.evict_sem = @ + 1]}

\* recv_done: the memory manager takes the chunks back, or cannot.
RecvDone(r, f) ==
  LET t == PostReceives([r EXCEPT !.recv_message = f.chunks,
                                  !.pending_release = NotPending,
                                  !.stop_sem = @ + 1])
  IN  {[t EXCEPT !.sess_chunk_map = @ \ f.chunks], Disconnect(t)}

\* A receive completes with the length of its own frame, but the buffer holds
\* the last one that arrived: is_protocol_decode compares the two.
OnReceive(r) ==
  LET f == r.recv_frame
      t == [r EXCEPT !.cq = Tail(@),
                     !.recv_frame = IF Len(r.cq) = 1 THEN NoFrame ELSE f]
      refused == [t EXCEPT !.recv_message =
                   IF f.type \in {"ACTIVITY", "RELEASE"} THEN Marked(t, f) ELSE @]
  IN  IF Head(r.cq) # PayloadSize(f) \/ r.closed THEN {SendProtocolError(t)}
      ELSE IF ~Accepted(t, f) THEN {SendProtocolError(refused)}
      ELSE CASE f.type = "STATUS_REQUEST" -> SendFreeMemSize(t, f)
             [] f.type = "CHUNK_REQUEST" -> SendMr(t, f)
             [] f.type = "ACTIVITY" -> ReceiveActivity(t, f)
             [] f.type = "RELEASE" -> RecvDone(t, f)

ReceiveCompletion(c) ==
  /\ conn[c].cq # <<>>
  /\ \E r \in OnReceive(conn[c]) : conn' = [conn EXCEPT ![c] = r]
  /\ UNCHANGED <<sess, evict>>

\* finish_send, and what on_completion does after it.
SendCompletion(c) ==
  LET first == Head(conn[c].sends)
      r == [conn[c] EXCEPT !.sent = FALSE, !.sends = Tail(@)]
  IN  /\ conn[c].sent
      /\ conn' = [conn EXCEPT ![c] =
                   IF first.close THEN Disconnect(r)
                   ELSE IF first.repost THEN PostReceives(r) ELSE r]
      /\ UNCHANGED <<sess, evict>>

\* The event loop learns of the disconnection, or the connection's monitor
\* finds the Consumer silent: prepare_connection_close.  Completions are only
\* counted from here on.
PrepareClose(c) ==
  /\ conn[c].phase = "live" /\ ~Connected(c)
  /\ conn' = [conn EXCEPT ![c] = [Disconnect(@) EXCEPT
               !.phase = "closing", !.cq = <<>>, !.recv_frame = NoFrame,
               !.evict_sem = @ + 1, !.stop_sem = @ + 1]]
  /\ UNCHANGED <<sess, evict>>

\* reclaim_connection_memory, once the pool thread has put its reference.
Reclaim(c) ==
  /\ conn[c].phase = "closing" /\ c \notin Held
  /\ conn' = [conn EXCEPT ![c] = [NewConnection(c) EXCEPT
               !.phase = "gone", !.qp_error = TRUE, !.sess_chunk_map = {}]]
  /\ UNCHANGED <<sess, evict>>

(***************************************************************************)
(* The control channel (external): reliable and in order, and a frame      *)
(* waits for a posted receive.                                             *)
(***************************************************************************)

DeliverToConsumer(c) ==
  /\ Connected(c) /\ sess[c].posted
  /\ conn[c].sends # <<>> /\ ~conn[c].sent
  /\ sess' = [sess EXCEPT ![c].posted = FALSE,
                          ![c].received = Head(conn[c].sends).frame]
  /\ conn' = [conn EXCEPT ![c].sent = TRUE]
  /\ UNCHANGED evict

DeliverToProvider(c) ==
  LET f == sess[c].sending
  IN  /\ Connected(c) /\ f # NoFrame /\ conn[c].receives > 0
      /\ conn' = [conn EXCEPT ![c].receives = @ - 1, ![c].recv_frame = f,
                              ![c].cq = Append(@, PayloadSize(f))]
      /\ sess' = [sess EXCEPT ![c].sending = NoFrame]
      /\ UNCHANGED evict

(***************************************************************************)
(* The Consumer's session, as updates of a struct is_rdma_session.         *)
(***************************************************************************)

\* Fault: is_remote_chunk_provider_failed leaves the mapping claim open.
FailedKeepsClaim(s) ==
  [s EXCEPT !.ready = FALSE, !.qp_error = TRUE, !.mapped = {}, !.evicting = {},
            !.pending_request_id = 0, !.heartbeat_request_id = 0,
            !.deadline_armed = FALSE, !.waiting = FALSE, !.posted = FALSE,
            !.sending = NoFrame, !.received = NoFrame]

\* is_rdma_fail and is_failure_work: the Provider's chunks and claims are given
\* up (is_remote_chunk_provider_failed) and the connection is broken.
Failed(s) ==
  [s EXCEPT !.ready = FALSE, !.qp_error = TRUE, !.mapped = {}, !.evicting = {},
            !.pending_request_id = 0, !.heartbeat_request_id = 0,
            !.mapping_claim = FALSE, !.deadline_armed = FALSE,
            !.waiting = FALSE, !.posted = FALSE, !.sending = NoFrame,
            !.received = NoFrame]

Fail(c) ==
  /\ sess' = [sess EXCEPT ![c] = Failed(@)]
  /\ UNCHANGED <<conn, evict>>

\* The disconnection is reported, or an operation on the queue pair is flushed.
LinkFails(c) ==
  /\ sess[c].ready /\ Unlocked(c) /\ conn[c].qp_error
  /\ Fail(c)

\* is_control_deadline.
ControlDeadline(c) ==
  /\ sess[c].ready /\ Unlocked(c) /\ sess[c].deadline_armed
  /\ Fail(c)

\* is_heartbeat_work, when it is not put off.  An unanswered heartbeat is a
\* timeout, and a send that has not completed fails the session too.
HeartbeatWork(c) ==
  LET s == sess[c]
      id == s.next_request_id
  IN  /\ s.ready /\ Unlocked(c)
      /\ s.heartbeat_request_id # 0 \/ id <= MaxRequests[c]
      /\ s.pending_request_id = 0 /\ s.evicting = {}
      /\ sess' = [sess EXCEPT ![c] =
                   IF s.heartbeat_request_id # 0 \/ s.sending # NoFrame
                   THEN Failed(s)
                   ELSE [s EXCEPT !.next_request_id = id + 1,
                                  !.heartbeat_request_id = id,
                                  !.sending = Frame("STATUS_REQUEST", id, {})]]
      /\ UNCHANGED <<conn, evict>>

\* is_fabric_mapping_work has a claim for a chunk of this Provider, and keeps it
\* if the request can be sent.  A send slot that stays busy fails the session.
MappingWork(c) ==
  LET s == sess[c]
      id == s.next_request_id
  IN  /\ s.ready /\ Unlocked(c) /\ id <= MaxRequests[c]
      /\ s.pending_request_id = 0 /\ s.heartbeat_request_id = 0
      /\ s.evicting = {}
      /\ sess' = [sess EXCEPT ![c] =
                   IF s.sending # NoFrame THEN Failed(s)
                   ELSE [s EXCEPT !.next_request_id = id + 1,
                                  !.pending_request_id = id,
                                  !.mapping_claim = TRUE,
                                  !.deadline_armed = TRUE,
                                  !.sending = Frame("CHUNK_REQUEST", id, {})]]
      /\ UNCHANGED <<conn, evict>>

\* is_handle_backed_heartbeat: an unhealthy Provider fails the session.
HandleBackedHeartbeat(s, f) ==
  IF s.heartbeat_request_id = 0 \/ f.id # s.heartbeat_request_id
  THEN {Failed(s)}
  ELSE {[s EXCEPT !.heartbeat_request_id = 0], Failed(s)}

\* Fault: a grant that does not answer the pending request is passed over.
GrantDropped(s, f) ==
  IF f.id # s.pending_request_id THEN {[s EXCEPT !.mapping_claim = FALSE]}
  ELSE {[s EXCEPT !.pending_request_id = 0, !.mapping_claim = FALSE,
                  !.mapped = @ \cup f.chunks]}

\* is_handle_chunk_grant.
HandleChunkGrant(s, f) ==
  IF f.id # s.pending_request_id THEN {Failed(s)}
  ELSE {[s EXCEPT !.pending_request_id = 0, !.mapping_claim = FALSE,
                  !.mapped = @ \cup f.chunks]}

\* is_handle_evict, with is_remote_chunk_provider_activity_query.
HandleEvict(s, f) ==
  IF ~(f.chunks \subseteq s.mapped) THEN {Failed(s)}
  ELSE {[s EXCEPT !.sending = Frame("ACTIVITY", f.id, f.chunks)]}

\* Fault: the answer is sent while RDMA operations still use the chunks.
ReleaseAtOnce(s, f) ==
  IF s.evicting # {} \/ ~(f.chunks \subseteq s.mapped) THEN {Failed(s)}
  ELSE {[s EXCEPT !.sending = Frame("RELEASE", f.id, f.chunks)]}

\* is_handle_release, with is_remote_chunk_eviction_begin.
HandleRelease(s, f) ==
  IF s.evicting # {} \/ ~(f.chunks \subseteq s.mapped) THEN {Failed(s)}
  ELSE {[s EXCEPT !.evicting = f.chunks, !.pending_request_id = f.id]}

\* is_receive_work decodes the frame, may cancel the control deadline, handles
\* it and posts the receive again, which after a RELEASE is left to
\* release_work.
OnFrame(s) ==
  LET f == s.received
      t == [s EXCEPT !.received = NoFrame,
                     !.deadline_armed =
                       @ /\ ~(IsResponse(f) /\ f.id = s.pending_request_id)]
      repost(S) == {IF r.ready THEN [r EXCEPT !.posted = TRUE] ELSE r : r \in S}
  IN  CASE f.type = "ERROR" -> {Failed(t)}
        [] f.type = "STATUS_RESPONSE" -> repost(HandleBackedHeartbeat(t, f))
        [] f.type = "CHUNK_GRANT" -> repost(HandleChunkGrant(t, f))
        [] f.type = "EVICT" -> repost(HandleEvict(t, f))
        [] f.type = "RELEASE" -> HandleRelease(t, f)

\* The answer to EVICT needs the send slot, and the wait for it is bounded.
ReceiveWork(c) ==
  LET s == sess[c]
      busy == s.received.type = "EVICT" /\ s.sending # NoFrame
  IN  /\ s.ready /\ Unlocked(c) /\ s.received # NoFrame
      /\ \E r \in IF busy THEN {Failed(s)} ELSE OnFrame(s) :
           sess' = [sess EXCEPT ![c] = r]
      /\ UNCHANGED <<conn, evict>>

\* is_release_work takes control_lock and keeps it while it sleeps.
ReleaseWork(c) ==
  /\ sess[c].ready /\ sess[c].evicting # {} /\ Unlocked(c)
  /\ sess' = [sess EXCEPT ![c].waiting = TRUE]
  /\ UNCHANGED <<conn, evict>>

Drained(s) == s.lease \cap s.evicting = {}

\* The leases are gone: is_remote_chunk_eviction_finish, the answer, and the
\* receive that is_receive_work did not post.
ReleaseWorkFinish(c) ==
  LET s == sess[c]
      id == s.pending_request_id
  IN  /\ s.waiting /\ Drained(s)
      /\ sess' = [sess EXCEPT ![c] =
                   IF s.sending # NoFrame THEN Failed(s)
                   ELSE [s EXCEPT !.mapped = @ \ s.evicting, !.evicting = {},
                                  !.pending_request_id = 0, !.waiting = FALSE,
                                  !.posted = TRUE,
                                  !.sending = Frame("RELEASE", id, s.evicting)]]
      /\ UNCHANGED <<conn, evict>>

\* The wait reaches its deadline.
ReleaseWorkTimeout(c) ==
  /\ sess[c].waiting /\ ~Drained(sess[c])
  /\ Fail(c)

(***************************************************************************)
(* RDMA operations on the Consumer's chunks.                               *)
(***************************************************************************)

IoStart(c, k) ==
  /\ sess[c].ready /\ sess[c].lease = {}
  /\ k \in sess[c].mapped \ sess[c].evicting
  /\ sess' = [sess EXCEPT ![c].lease = {k}]
  /\ UNCHANGED <<conn, evict>>

IoDone(c) ==
  /\ sess[c].lease # {} /\ ~sess[c].failing /\ Connected(c)
  /\ sess' = [sess EXCEPT ![c].lease = {}]
  /\ UNCHANGED <<conn, evict>>

IoError(c) ==
  /\ sess[c].lease # {} /\ ~sess[c].failing
  /\ sess' = [sess EXCEPT ![c].failing = TRUE]
  /\ UNCHANGED <<conn, evict>>

\* retire_posted reports the error (is_rdma_fail takes control_lock), and only
\* then is the lease returned.
IoFail(c) ==
  LET s == [sess[c] EXCEPT !.lease = {}, !.failing = FALSE]
  IN  /\ sess[c].failing /\ Unlocked(c)
      /\ sess' = [sess EXCEPT ![c] = IF s.ready THEN Failed(s) ELSE s]
      /\ UNCHANGED <<conn, evict>>

(***************************************************************************)
(* The specification.                                                      *)
(***************************************************************************)

PollCq(c) == ReceiveCompletion(c) \/ SendCompletion(c)

ControlWork(c) ==
  \/ ReceiveWork(c) \/ ReleaseWork(c)
  \/ ReleaseWorkFinish(c) \/ ReleaseWorkTimeout(c)

\* What threads, workqueues, timers and the fabric do by themselves.
Progress ==
  \/ EvictStep
  \/ \E c \in Connection :
       \/ PollCq(c) \/ PrepareClose(c) \/ Reclaim(c)
       \/ DeliverToConsumer(c) \/ DeliverToProvider(c)
       \/ LinkFails(c) \/ ControlDeadline(c) \/ ControlWork(c) \/ IoFail(c)

Next ==
  \/ Progress \/ EvictMem
  \/ \E c \in Connection :
       \/ HeartbeatWork(c) \/ MappingWork(c) \/ IoDone(c) \/ IoError(c)
       \/ \E k \in Chunk : IoStart(c, k)

\* Threads and workqueues run, timers fire, the fabric carries a frame for
\* which a receive is posted, and every RDMA operation completes.  Nothing makes
\* memory short, a Consumer busy or a heartbeat due.  Progress is a finite
\* matter between two rounds and requests, so that it is enough to say that it
\* is made, and not by whom.
Fairness ==
  /\ WF_vars(Progress)
  /\ \A c \in Connection : WF_vars(IoDone(c) \/ IoError(c))

Spec == Init /\ [][Next]_vars /\ Fairness

(***************************************************************************)
(* Properties.                                                             *)
(***************************************************************************)

\* Memory is never pulled out from under a Consumer: as long as the queue pairs
\* can carry an RDMA operation, the Provider holds for the connection every
\* chunk the Consumer believes mapped, and every chunk an operation still uses.
\* is_release_work answers only after the leases are gone and the mappings
\* dropped, and recv_done trusts only the answer to the RELEASE it waits for.
MappedHeld ==
  \A c \in Connection :
    Connected(c) =>
      /\ sess[c].mapped \subseteq conn[c].sess_chunk_map
      /\ sess[c].lease \subseteq conn[c].sess_chunk_map

\* Nothing is on its way between the two ends of a working session.
Quiet(c) ==
  /\ Connected(c) /\ ~conn[c].closed
  /\ conn[c].sends = <<>> /\ conn[c].cq = <<>>
  /\ sess[c].sending = NoFrame /\ sess[c].received = NoFrame
  /\ sess[c].evicting = {} /\ ~sess[c].mapping_claim

\* The two ends agree on the chunks when nothing is on its way: no grant is
\* lost while the Provider keeps its chunk assigned, and no frame is acted upon
\* twice, although two receives share recv_frame and a frame can overwrite the
\* one before it, and although a RELEASE overwrites the pending_request_id a
\* CHUNK_GRANT is matched with.
QuietAgree ==
  \A c \in Connection :
    Quiet(c) => sess[c].mapped = conn[c].sess_chunk_map

\* evict_mem always comes to an end and puts its references, whatever its
\* connections do: a Consumer that does not answer costs a round its deadline,
\* never the pool thread, and its own connection can then be reclaimed.
RoundEnds == evict.held # <<>> ~> evict.held = <<>>

\* A session gets over what may block it: a claim for a chunk is settled by a
\* grant or with the session, even when a RELEASE crosses the CHUNK_REQUEST, and
\* is_release_work gives control_lock back, although it sleeps with the lock
\* that an operation that failed needs before it returns its lease.
SessionSettles ==
  \A c \in Connection :
    sess[c].mapping_claim \/ sess[c].waiting
      ~> ~sess[c].mapping_claim /\ ~sess[c].waiting

=============================================================================
