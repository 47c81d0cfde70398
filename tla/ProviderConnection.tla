------------------------- MODULE ProviderConnection -------------------------
(***************************************************************************)
(* The life of a Provider's control connections: rdma-common.c with        *)
(* infiniswap_provider_session.c, infiniswap_auth.c,                       *)
(* infiniswap_consumer_liveness.c and the event loop of                    *)
(* infiniswap-daemon.c.                                                    *)
(*                                                                         *)
(* Five threads meet in a struct connection: the event loop (main) builds, *)
(* connects and destroys it, the completion thread (poll_cq) runs the      *)
(* session and answers, the connection's own monitor ends it when its      *)
(* deadlines pass, a reload of the allowlist disconnects it, and the       *)
(* observability server reads it.  Nobody but the event loop frees it.     *)
(*                                                                         *)
(* A step is what a thread does between two points where another thread    *)
(* can make a difference.  The connections belong to one Consumer of the   *)
(* allowlist.  Pool pressure (EVICT and RELEASE) is not part of this       *)
(* module.                                                                 *)
(***************************************************************************)
EXTENDS Integers, Sequences, FiniteSets

CONSTANTS
  Connection,      \* the connections the Consumer makes, each once
  MaxClient,       \* MAX_CLIENT, the size of session.conns
  MaxConnections,  \* max_connections of the Consumer's credential
  MaxMessages,     \* bound: the frames the Consumer sends on a connection
  MaxReloads       \* bound: the times the operator changes the credential

NoConnection == "no connection"

ASSUME ProviderConnectionAssumption ==
  /\ IsFiniteSet(Connection) /\ NoConnection \notin Connection
  /\ MaxClient \in Nat /\ MaxConnections \in Nat \ {0} /\ MaxReloads \in Nat
  /\ MaxMessages \in [Connection -> Nat]

VARIABLES
  \* the Consumer and the RDMA connection manager (external)
  link,                  \* "none", "requested", "rejected", "accepted",
                         \* "established", "disconnecting" or "down"
  silent,                \* the Consumer crashed
  sent,                  \* the frames it sent
  events,                \* the event channel
  \* the event loop
  running,               \* cleared by SIGTERM
  loop,                  \* "check", "blocked", and after it has seen the
                         \* signal "sweep", "drain" and "stopped"
  destroying,            \* the connection in destroy_connection, or NoConnection
  \* struct connection
  object,                \* "none", "live" (and in session.conns) or "freed"
  references,
  closing,
  connected,
  handshake_complete,
  state,                 \* protocol_session.state
  authorization_version, \* protocol_session.authorization_version
  auth_subscribed,
  memory_connected,
  recv_frame,            \* the one buffer of all posted receives
  sends,                 \* send_frame and pending_send_frame: whether the
                         \* connection closes after it, or a receive is posted
  \* the queue pair and the completion queue (external)
  qp_error,              \* the queue pair is in IBV_QPS_ERR
  receives,              \* posted receives
  posted,                \* a send is posted
  cq,                    \* completions
  \* the threads
  poll,                  \* what poll_cq is doing
  monitor,               \* the deadline thread: "none", "waiting", "draining",
                         \* "reclaimed" or "done"
  retained,              \* connections the observability server holds
  \* the allowlist and the memory manager
  version,               \* the credential's authorization_version
  allowed,               \* the credential exists and is not revoked
  listeners,             \* subscribed connections
  members,               \* connections the memory manager knows
  granted                \* members that were granted Remote Chunks

peerVars == <<silent, sent, events>>
loopVars == <<running, loop, destroying>>
lifetimeVars == <<object, closing, connected>>
sessionVars == <<state, authorization_version, recv_frame>>
admissionVars == <<auth_subscribed, memory_connected, handshake_complete>>
queueVars == <<receives, posted>>
memoryVars == <<members, granted>>
connectionVars == <<lifetimeVars, sessionVars, admissionVars, sends>>
registryVars == <<version, allowed, listeners>>
vars == <<link, qp_error, peerVars, loopVars, connectionVars, references,
          queueVars, cq, poll, monitor, retained, registryVars, memoryVars>>

\* The n-th frame of a Consumer.  BAD stands for every frame that is out of
\* order or that is_protocol_decode and the checks of ids, versions and
\* capabilities refuse.
Frame(n) ==
  {"BAD", "ERROR"} \cup
  CASE n = 1 -> {"HELLO"}
    [] n = 2 -> {"AUTH"}
    [] OTHER -> {"STATUS_REQUEST", "CHUNK_REQUEST", "GOODBYE"}

At(step, c, m, close) ==
  [step |-> step, conn |-> c, message |-> m, close |-> close]

Idle == At("idle", NoConnection, "BAD", FALSE)

\* poll_cq answers a request it was authorized to serve: from
\* is_auth_registry_begin_authorized_operation until the answer is on its way
\* it holds the registry's lock.
RegistryLocked == poll.step \in {"submit", "post"} /\ poll.message # "BAD"

Init ==
  /\ link = [c \in Connection |-> "none"]
  /\ silent = {}
  /\ sent = [c \in Connection |-> 0]
  /\ events = <<>>
  /\ running = TRUE /\ loop = "check" /\ destroying = NoConnection
  /\ object = [c \in Connection |-> "none"]
  /\ references = [c \in Connection |-> 0]
  /\ closing = {} /\ connected = {} /\ handshake_complete = {}
  /\ state = [c \in Connection |-> "WAIT_HELLO"]
  /\ authorization_version = [c \in Connection |-> 0]
  /\ auth_subscribed = {} /\ memory_connected = {}
  /\ recv_frame = [c \in Connection |-> "BAD"]
  /\ sends = [c \in Connection |-> <<>>]
  /\ qp_error = {}
  /\ receives = [c \in Connection |-> 0]
  /\ posted = {}
  /\ cq = <<>>
  /\ poll = Idle
  /\ monitor = [c \in Connection |-> "none"]
  /\ retained = {}
  /\ version = 1 /\ allowed = TRUE /\ listeners = {}
  /\ members = {} /\ granted = {}

Live == {c \in Connection : object[c] = "live"}

(***************************************************************************)
(* The Consumer, the connection manager and the queue pair.                *)
(***************************************************************************)

\* rdma_disconnect: the queue pair goes to the error state, and the peer of
\* an established connection is told.
Disconnect(S) ==
  /\ qp_error' = qp_error \cup S
  /\ link' = [c \in Connection |->
               IF c \in S /\ link[c] = "established" THEN "disconnecting"
               ELSE link[c]]

PeerConnect(c) ==
  /\ link[c] = "none"
  /\ link' = [link EXCEPT ![c] = "requested"]
  /\ events' = Append(events, <<"CONNECT_REQUEST", c>>)
  /\ UNCHANGED <<silent, sent, qp_error, loopVars, connectionVars, references,
                 queueVars, cq, poll, monitor, retained, registryVars,
                 memoryVars>>

\* The Consumer may send from here on, before the event is handled.
PeerEstablish(c) ==
  /\ link[c] = "accepted"
  /\ link' = [link EXCEPT ![c] = "established"]
  /\ events' = Append(events, <<"ESTABLISHED", c>>)
  /\ UNCHANGED <<silent, sent, qp_error, loopVars, connectionVars, references,
                 queueVars, cq, poll, monitor, retained, registryVars,
                 memoryVars>>

\* A frame takes a posted receive and overwrites the buffer they share (whose
\* content is "BAD" when it no longer matters).
PeerSend(c, m) ==
  /\ link[c] = "established" /\ c \notin silent /\ c \notin qp_error
  /\ receives[c] > 0 /\ sent[c] < MaxMessages[c]
  /\ sent' = [sent EXCEPT ![c] = @ + 1]
  /\ recv_frame' = [recv_frame EXCEPT ![c] = m]
  /\ receives' = [receives EXCEPT ![c] = @ - 1]
  /\ cq' = Append(cq, [conn |-> c, opcode |-> "RECV", ok |-> TRUE])
  /\ UNCHANGED <<link, qp_error, silent, events, loopVars, lifetimeVars, state,
                 authorization_version, admissionVars, sends, references,
                 posted, poll, monitor, retained, registryVars, memoryVars>>

PeerDisconnect(c) ==
  /\ link[c] = "established" /\ c \notin silent
  /\ link' = [link EXCEPT ![c] = "disconnecting"]
  /\ UNCHANGED <<qp_error, peerVars, loopVars, connectionVars, references,
                 queueVars, cq, poll, monitor, retained, registryVars,
                 memoryVars>>

PeerCrash(c) ==
  /\ link[c] = "established" /\ c \notin silent /\ c \notin qp_error
  /\ silent' = silent \cup {c}
  /\ UNCHANGED <<link, qp_error, sent, events, loopVars, connectionVars,
                 references, queueVars, cq, poll, monitor, retained,
                 registryVars, memoryVars>>

\* The disconnection is acknowledged, or not in time.
LinkDown(c) ==
  /\ link[c] = "disconnecting"
  /\ link' = [link EXCEPT ![c] = "down"]
  /\ events' = Append(events, <<"DISCONNECTED", c>>)
  /\ UNCHANGED <<silent, sent, qp_error, loopVars, connectionVars, references,
                 queueVars, cq, poll, monitor, retained, registryVars,
                 memoryVars>>

\* A queue pair in the error state completes what was posted to it.
Flush(c) ==
  LET failed(op) == [conn |-> c, opcode |-> op, ok |-> FALSE]
  IN  /\ c \in qp_error
      /\ receives[c] > 0 \/ c \in posted
      /\ cq' = cq \o [i \in 1..receives[c] |-> failed("RECV")]
                  \o IF c \in posted THEN <<failed("SEND")>> ELSE <<>>
      /\ receives' = [receives EXCEPT ![c] = 0]
      /\ posted' = posted \ {c}
      /\ UNCHANGED <<link, qp_error, peerVars, loopVars, connectionVars,
                     references, poll, monitor, retained, registryVars,
                     memoryVars>>

\* A send is acknowledged by the Consumer, or the queue pair breaks.
SendEnds(c) ==
  /\ c \in posted /\ c \notin qp_error
  /\ \/ /\ link[c] = "established" /\ c \notin silent
        /\ cq' = Append(cq, [conn |-> c, opcode |-> "SEND", ok |-> TRUE])
        /\ posted' = posted \ {c}
        /\ UNCHANGED qp_error
     \/ /\ link[c] # "established" \/ c \in silent
        /\ qp_error' = qp_error \cup {c}
        /\ UNCHANGED <<cq, posted>>
  /\ UNCHANGED <<link, peerVars, loopVars, connectionVars, references,
                 receives, poll, monitor, retained, registryVars, memoryVars>>

(***************************************************************************)
(* The event loop: main and on_event.                                      *)
(***************************************************************************)

\* The loop tests running and then blocks in rdma_get_cm_event.
LoopCheck ==
  /\ loop = "check"
  /\ loop' = IF running THEN "blocked" ELSE "sweep"
  /\ UNCHANGED <<running, destroying, link, qp_error, peerVars, connectionVars,
                 references, queueVars, cq, poll, monitor, retained,
                 registryVars, memoryVars>>

\* request_shutdown.  The signal interrupts a loop that sleeps in
\* rdma_get_cm_event, but not one that is about to.
RequestShutdown ==
  /\ running
  /\ running' = FALSE
  /\ \/ UNCHANGED loop
     \/ /\ loop = "blocked" /\ destroying = NoConnection
        /\ loop' = "sweep"
  /\ UNCHANGED <<destroying, link, qp_error, peerVars, connectionVars,
                 references, queueVars, cq, poll, monitor, retained,
                 registryVars, memoryVars>>

Take(type, c) ==
  /\ destroying = NoConnection /\ loop \in {"blocked", "drain"}
  /\ events # <<>> /\ Head(events) = <<type, c>>
  /\ events' = Tail(events)

AfterEvent == IF loop = "blocked" THEN "check" ELSE "sweep"

\* on_connect_request, with build_connection: the monitor and the first
\* receive hold a reference each.
ConnectRequest(c) ==
  LET accept == running /\ Cardinality(Live) < MaxClient
  IN  /\ Take("CONNECT_REQUEST", c)
      /\ loop' = AfterEvent
      /\ link' = [link EXCEPT ![c] = IF accept THEN "accepted" ELSE "rejected"]
      /\ IF accept
         THEN /\ object' = [object EXCEPT ![c] = "live"]
              /\ references' = [references EXCEPT ![c] = 2]
              /\ monitor' = [monitor EXCEPT ![c] = "waiting"]
              /\ receives' = [receives EXCEPT ![c] = 1]
         ELSE UNCHANGED <<object, references, monitor, receives>>
      /\ UNCHANGED <<running, destroying, qp_error, silent, sent, closing,
                     connected, sessionVars, admissionVars, sends, posted, cq,
                     poll, retained, registryVars, memoryVars>>

\* on_connect, with post_receives.
Established(c) ==
  LET more == IF c \in closing THEN 0 ELSE 1
  IN  /\ Take("ESTABLISHED", c)
      /\ loop' = AfterEvent
      /\ connected' = connected \cup {c}
      /\ references' = [references EXCEPT ![c] = @ + more]
      /\ receives' = [receives EXCEPT ![c] = @ + more]
      /\ UNCHANGED <<running, destroying, link, qp_error, silent, sent, object,
                     closing, sessionVars, admissionVars, sends, posted, cq,
                     poll, monitor, retained, registryVars, memoryVars>>

\* on_disconnect enters destroy_connection and prepare_connection_close.
Disconnected(c) ==
  /\ Take("DISCONNECTED", c)
  /\ destroying' = c
  /\ closing' = closing \cup {c}
  /\ qp_error' = qp_error \cup {c}
  /\ UNCHANGED <<running, loop, link, silent, sent, object, connected,
                 sessionVars, admissionVars, sends, references, queueVars, cq,
                 poll, monitor, retained, registryVars, memoryVars>>

\* Fault: the monitor's wait in the place of destroy_connection's.
UnreferencedButOne(c) == references[c] <= 1

\* What destroy_connection waits for: the references, and the monitor to end.
Unreferenced(c) == references[c] = 0

\* The rest of destroy_connection, which frees the connection.
DestroyConnection(c) ==
  /\ destroying = c
  /\ Unreferenced(c) /\ monitor[c] \in {"reclaimed", "done"}
  /\ c \in auth_subscribed => ~RegistryLocked
  /\ object' = [object EXCEPT ![c] = "freed"]
  /\ listeners' = IF c \in auth_subscribed THEN listeners \ {c} ELSE listeners
  /\ members' = IF c \in memory_connected THEN members \ {c} ELSE members
  /\ granted' = IF c \in memory_connected THEN granted \ {c} ELSE granted
  /\ auth_subscribed' = auth_subscribed \ {c}
  /\ memory_connected' = memory_connected \ {c}
  /\ destroying' = NoConnection
  /\ loop' = AfterEvent
  /\ UNCHANGED <<running, link, qp_error, peerVars, closing, connected,
                 sessionVars, handshake_complete, sends, references, queueVars,
                 cq, poll, monitor, retained, version, allowed>>

\* Fault: the connections are left to their Consumers.
DisconnectNone ==
  /\ loop = "sweep"
  /\ UNCHANGED <<link, qp_error>>
  /\ loop' = IF Live = {} THEN "stopped" ELSE "drain"
  /\ UNCHANGED <<running, destroying, peerVars, connectionVars, references,
                 queueVars, cq, poll, monitor, retained, registryVars,
                 memoryVars>>

\* disconnect_provider_connections, and the condition of the draining loop.
DisconnectProviderConnections ==
  /\ loop = "sweep"
  /\ Disconnect(Live \ closing)
  /\ loop' = IF Live = {} THEN "stopped" ELSE "drain"
  /\ UNCHANGED <<running, destroying, peerVars, connectionVars, references,
                 queueVars, cq, poll, monitor, retained, registryVars,
                 memoryVars>>

(***************************************************************************)
(* monitor_connection_deadlines.                                           *)
(***************************************************************************)

\* A deadline passes: five seconds without a handshake, the Consumer's
\* failure deadline without a frame, or the end of its key.  The connection
\* is disconnected and prepared for closing.
DeadlineExpires(c) ==
  /\ monitor[c] = "waiting" /\ c \notin closing
  /\ Disconnect({c})
  /\ closing' = closing \cup {c}
  /\ monitor' = [monitor EXCEPT ![c] = "draining"]
  /\ UNCHANGED <<peerVars, loopVars, object, connected, sessionVars,
                 admissionVars, sends, references, queueVars, cq, poll,
                 retained, registryVars, memoryVars>>

\* Fault: the monitor does not wait for those who use the connection.
DrainedAtOnce(c) == TRUE

\* Fault: the monitor forgets that it holds a reference itself.
DrainedCompletely(c) == references[c] = 0

\* What the monitor waits for: its own reference is the last.
Drained(c) == references[c] <= 1

\* reclaim_connection_memory.
MonitorReclaims(c) ==
  /\ monitor[c] = "draining" /\ Drained(c)
  /\ members' = IF c \in memory_connected THEN members \ {c} ELSE members
  /\ granted' = IF c \in memory_connected THEN granted \ {c} ELSE granted
  /\ memory_connected' = memory_connected \ {c}
  /\ references' = [references EXCEPT ![c] = @ - 1]
  /\ monitor' = [monitor EXCEPT ![c] = "reclaimed"]
  /\ UNCHANGED <<link, qp_error, peerVars, loopVars, lifetimeVars, sessionVars,
                 auth_subscribed, handshake_complete, sends, queueVars, cq,
                 poll, retained, registryVars>>

\* Somebody else closes the connection.
MonitorEnds(c) ==
  /\ monitor[c] = "waiting" /\ c \in closing
  /\ references' = [references EXCEPT ![c] = @ - 1]
  /\ monitor' = [monitor EXCEPT ![c] = "done"]
  /\ UNCHANGED <<link, qp_error, peerVars, loopVars, connectionVars, queueVars,
                 cq, poll, retained, registryVars, memoryVars>>

(***************************************************************************)
(* poll_cq and on_completion.                                              *)
(***************************************************************************)

\* on_completion: done.
Finish(c) ==
  /\ poll' = Idle
  /\ references' = [references EXCEPT ![c] = @ - 1]

Abort(c) == Finish(c) /\ Disconnect({c})

Continue(step, c, m, close) ==
  /\ poll' = At(step, c, m, close)
  /\ UNCHANGED <<references, link, qp_error>>

\* The credential the session was accepted with is still the one in force.
Authorized(c) == allowed /\ authorization_version[c] = version

\* Completions of a closing connection, and failed ones.
PollClosing(c) ==
  /\ poll.step = "idle" /\ cq # <<>> /\ Head(cq).conn = c
  /\ cq' = Tail(cq)
  /\ c \in closing \/ ~Head(cq).ok
  /\ IF c \in closing THEN Finish(c) /\ UNCHANGED <<link, qp_error>>
     ELSE Abort(c)
  /\ UNCHANGED <<peerVars, loopVars, connectionVars, queueVars, monitor,
                 retained, registryVars, memoryVars>>

\* is_provider_session_handle: the next state and what is to be done.  HELLO
\* may offer the wrong capabilities, AUTH a wrong tag, and the key of an
\* accepted session may have expired.
HandleFrame(c, m) ==
  CASE m = "ERROR" ->
         {<<"CLOSED", IF state[c] = "READY" THEN "serve" ELSE "abort">>}
    [] state[c] = "WAIT_HELLO" /\ m = "HELLO" ->
         {<<"WAIT_AUTH", "submit">>, <<"CLOSED", "submit">>}
    [] state[c] = "WAIT_AUTH" /\ m = "AUTH" /\ allowed ->
         {<<"READY", "subscribe">>, <<"CLOSED", "submit">>}
    [] /\ state[c] = "READY" /\ Authorized(c)
       /\ m \in {"STATUS_REQUEST", "CHUNK_REQUEST", "GOODBYE"} ->
         {<<"READY", "serve">>, <<"CLOSED", "submit">>}
    [] OTHER -> {<<"CLOSED", "submit">>}

PollReceive(c) ==
  LET m == recv_frame[c]
  IN  /\ poll.step = "idle" /\ cq # <<>> /\ c \notin closing
      /\ Head(cq) = [conn |-> c, opcode |-> "RECV", ok |-> TRUE]
      /\ cq' = Tail(cq)
      /\ \E o \in HandleFrame(c, m) :
           /\ state' = [state EXCEPT ![c] = o[1]]
           /\ authorization_version' =
                [authorization_version EXCEPT ![c] =
                   IF o[2] = "subscribe" THEN version ELSE @]
           /\ IF o[2] = "abort" THEN Abort(c)
              ELSE Continue(o[2], c, IF o[2] = "serve" THEN m ELSE "BAD",
                            o[1] = "CLOSED")
      /\ recv_frame' =
           [recv_frame EXCEPT ![c] =
              IF \E i \in 2..Len(cq) : cq[i] = Head(cq) THEN @ ELSE "BAD"]
      /\ UNCHANGED <<peerVars, loopVars, lifetimeVars, admissionVars, sends,
                     queueVars, monitor, retained, registryVars, memoryVars>>

\* Fault: the version verified by AUTH is not compared again.
MaySubscribeAnew(c) == allowed

\* What is_auth_registry_subscribe accepts.
MaySubscribe(c) == Authorized(c)

\* An accepted session subscribes to changes of its credential ...
Subscribe(c) ==
  /\ poll.step = "subscribe" /\ poll.conn = c
  /\ IF MaySubscribe(c)
     THEN /\ listeners' = listeners \cup {c}
          /\ Continue("admit", c, "BAD", FALSE)
     ELSE Abort(c) /\ UNCHANGED listeners
  /\ UNCHANGED <<peerVars, loopVars, connectionVars, queueVars, cq, monitor,
                 retained, version, allowed, memoryVars>>

\* ... and is admitted by the memory manager with the limits in force, and
\* start_connection_liveness.
Admit(c) ==
  LET admitted == allowed /\ Cardinality(members) < MaxConnections
  IN  /\ poll.step = "admit" /\ poll.conn = c
      /\ IF admitted
         THEN /\ members' = members \cup {c}
              /\ auth_subscribed' = auth_subscribed \cup {c}
              /\ memory_connected' = memory_connected \cup {c}
              /\ UNCHANGED listeners
         ELSE /\ listeners' = listeners \ {c}
              /\ UNCHANGED <<members, auth_subscribed, memory_connected>>
      /\ IF admitted /\ c \notin closing
         THEN /\ handshake_complete' = handshake_complete \cup {c}
              /\ Continue("submit", c, "BAD", FALSE)
         ELSE Abort(c) /\ UNCHANGED handshake_complete
      /\ UNCHANGED <<peerVars, loopVars, lifetimeVars, sessionVars, sends,
                     queueVars, cq, monitor, retained, version, allowed,
                     granted>>

\* refresh_connection_liveness, is_auth_registry_begin_authorized_operation,
\* translate_request and handle_authenticated_request.  A chunk request may be
\* rejected.
Serve(c) ==
  LET m == poll.message
      alive == c \notin closing /\ c \in handshake_complete
  IN  /\ poll.step = "serve" /\ poll.conn = c
      /\ \/ /\ ~alive \/ m = "ERROR" \/ (m = "GOODBYE" /\ Authorized(c))
           /\ Abort(c)
           /\ UNCHANGED <<state, granted>>
        \/ /\ alive /\ m # "ERROR"
           /\ Authorized(c) => m = "CHUNK_REQUEST"
           /\ state' = [state EXCEPT ![c] = "CLOSED"]
           /\ Continue("submit", c, IF Authorized(c) THEN m ELSE "BAD", TRUE)
           /\ UNCHANGED granted
        \/ /\ alive /\ Authorized(c)
           /\ m \in {"STATUS_REQUEST", "CHUNK_REQUEST"}
           /\ m = "CHUNK_REQUEST" => c \in members
           /\ granted' = IF m = "CHUNK_REQUEST" THEN granted \cup {c} ELSE granted
           /\ Continue("submit", c, m, FALSE)
           /\ UNCHANGED state
      /\ UNCHANGED <<peerVars, loopVars, lifetimeVars, authorization_version,
                     recv_frame, admissionVars, sends, queueVars, cq, monitor,
                     retained, registryVars, members>>

\* submit_encoded_message: one frame is sent at a time, one may wait, and a
\* third is refused.  post_encoded_message takes a reference.
Submit(c) ==
  /\ poll.step = "submit" /\ poll.conn = c
  /\ IF sends[c] = <<>> /\ c \notin closing
     THEN /\ sends' = [sends EXCEPT ![c] = <<poll.close>>]
          /\ references' = [references EXCEPT ![c] = @ + 1]
          /\ poll' = [poll EXCEPT !.step = "post"]
          /\ UNCHANGED <<link, qp_error>>
     ELSE IF Len(sends[c]) = 1
     THEN /\ sends' = [sends EXCEPT ![c] = Append(@, poll.close)]
          /\ Finish(c)
          /\ UNCHANGED <<link, qp_error>>
     ELSE Abort(c) /\ UNCHANGED sends
  /\ UNCHANGED <<peerVars, loopVars, lifetimeVars, sessionVars, admissionVars,
                 queueVars, cq, monitor, retained, registryVars, memoryVars>>

\* Fault: only ESTABLISHED ends the wait.
PostableConnected(c) == c \in connected

\* What post_encoded_message waits for.
Postable(c) == c \in connected \/ c \in closing

\* The rest of post_encoded_message.  ibv_post_send may fail.
Post(c) ==
  /\ poll.step = "post" /\ poll.conn = c /\ Postable(c)
  /\ \/ /\ c \notin closing
        /\ posted' = posted \cup {c}
        /\ Finish(c)
        /\ UNCHANGED <<sends, link, qp_error>>
     \/ /\ sends' = [sends EXCEPT ![c] = <<>>]
        /\ references' = [references EXCEPT ![c] = @ - 2]
        /\ poll' = Idle
        /\ Disconnect({c})
        /\ UNCHANGED posted
  /\ UNCHANGED <<peerVars, loopVars, lifetimeVars, sessionVars, admissionVars,
                 receives, cq, monitor, retained, registryVars, memoryVars>>

\* finish_send, with post_receives and the next frame's post_encoded_message.
PollSend(c) ==
  /\ poll.step = "idle" /\ cq # <<>> /\ c \notin closing
  /\ Head(cq) = [conn |-> c, opcode |-> "SEND", ok |-> TRUE]
  /\ cq' = Tail(cq)
  /\ IF Head(sends[c])
     THEN /\ sends' = [sends EXCEPT ![c] = <<>>]
          /\ Abort(c)
          /\ UNCHANGED receives
     ELSE LET next == Tail(sends[c])
          IN  /\ sends' = [sends EXCEPT ![c] = next]
              /\ receives' = [receives EXCEPT ![c] = @ + 1]
              /\ IF next = <<>>
                 THEN poll' = Idle /\ UNCHANGED references
                 ELSE /\ poll' = At("post", c, "BAD", next[1])
                      /\ references' = [references EXCEPT ![c] = @ + 2]
              /\ UNCHANGED <<link, qp_error>>
  /\ UNCHANGED <<peerVars, loopVars, lifetimeVars, sessionVars, admissionVars,
                 posted, monitor, retained, registryVars, memoryVars>>

(***************************************************************************)
(* Other threads.                                                          *)
(***************************************************************************)

\* is_auth_registry_load_file, of a file that changes the Consumer's
\* credential: who subscribed is disconnected.
ReloadAllowlist ==
  /\ version <= MaxReloads /\ ~RegistryLocked
  /\ \E a \in BOOLEAN : (allowed \/ a) /\ allowed' = a
  /\ version' = version + 1
  /\ Disconnect(listeners)
  /\ UNCHANGED <<peerVars, loopVars, connectionVars, references, queueVars, cq,
                 poll, monitor, retained, listeners, memoryVars>>

\* provider_observability_snapshot holds every connection that is not
\* closing, and lets go of one after the other.
SnapshotBegins ==
  /\ retained = {} /\ running
  /\ retained' = Live \ closing
  /\ references' = [c \in Connection |->
                     IF c \in Live \ closing THEN references[c] + 1
                     ELSE references[c]]
  /\ UNCHANGED <<link, qp_error, peerVars, loopVars, connectionVars, queueVars,
                 cq, poll, monitor, registryVars, memoryVars>>

SnapshotReads(c) ==
  /\ c \in retained
  /\ retained' = retained \ {c}
  /\ references' = [references EXCEPT ![c] = @ - 1]
  /\ UNCHANGED <<link, qp_error, peerVars, loopVars, connectionVars, queueVars,
                 cq, poll, monitor, registryVars, memoryVars>>

-----------------------------------------------------------------------------

Peer(c) ==
  \/ PeerConnect(c) \/ PeerEstablish(c) \/ PeerDisconnect(c) \/ PeerCrash(c)
  \/ \E m \in Frame(sent[c] + 1) : PeerSend(c, m)

Fabric(c) == LinkDown(c) \/ Flush(c) \/ SendEnds(c)

EventLoop ==
  \/ LoopCheck \/ DisconnectProviderConnections
  \/ \E c \in Connection :
       \/ ConnectRequest(c) \/ Established(c)
       \/ Disconnected(c) \/ DestroyConnection(c)

PollCq ==
  \E c \in Connection :
    \/ PollClosing(c) \/ PollReceive(c) \/ PollSend(c)
    \/ Subscribe(c) \/ Admit(c) \/ Serve(c) \/ Submit(c) \/ Post(c)

Monitor(c) == DeadlineExpires(c) \/ MonitorReclaims(c) \/ MonitorEnds(c)

Next ==
  \/ EventLoop \/ PollCq
  \/ RequestShutdown \/ ReloadAllowlist \/ SnapshotBegins
  \/ \E c \in Connection :
       Peer(c) \/ Fabric(c) \/ Monitor(c) \/ SnapshotReads(c)

Spec == Init /\ [][Next]_vars

(***************************************************************************)
(* Fairness.  The threads run on, posted work completes or is flushed, and *)
(* the connection manager reports what it was asked for.  The deadline of  *)
(* the handshake passes if it is not completed, that of a session if its   *)
(* Consumer is silent.  A Consumer gives up a connection that no longer    *)
(* answers.  Nothing is assumed of frames, reloads and signals.            *)
(***************************************************************************)
Fairness ==
  /\ WF_vars(EventLoop) /\ WF_vars(PollCq)
  /\ \A c \in Connection :
       /\ WF_vars(Fabric(c)) /\ WF_vars(PeerEstablish(c))
       /\ WF_vars(MonitorReclaims(c) \/ MonitorEnds(c))
       /\ WF_vars(SnapshotReads(c))
       /\ WF_vars(DeadlineExpires(c) /\ (c \notin handshake_complete \/ c \in silent))
       /\ WF_vars(PeerDisconnect(c) /\ c \in qp_error)

FairSpec == Spec /\ Fairness

-----------------------------------------------------------------------------
(* Properties.                                                             *)

\* A connection that was freed is out of everybody's reach: no completion, no
\* thread, no subscription to the allowlist and no event leads to it.
NoUseAfterFree ==
  \A c \in Connection : object[c] = "freed" =>
    /\ monitor[c] \in {"reclaimed", "done"} /\ poll.conn # c
    /\ receives[c] = 0 /\ c \notin posted
    /\ \A i \in DOMAIN cq : cq[i].conn # c
    /\ \A i \in DOMAIN events : events[i][2] # c
    /\ c \notin listeners /\ c \notin retained /\ c \notin members

\* "Removing, revoking, or changing an active Consumer's authorization
\* disconnects it immediately when the allowlist is reloaded": a session that
\* the memory manager serves under a superseded credential is disconnected,
\* wherever the reload met it in its handshake.
AuthorizedMembers ==
  \A c \in members : Authorized(c) \/ c \in qp_error

\* What the monitor reclaimed from a silent Consumer is not given out again:
\* no frame that was still being handled brings the session back.
ReclaimedForGood ==
  \A c \in Connection : monitor[c] = "reclaimed" => c \notin members \cup granted

\* The Remote Chunks of a Consumer that crashed return to the pool, also when
\* nobody acknowledges the disconnection.
SilentReclaimed ==
  \A c \in Connection : c \in members /\ c \in silent ~> c \notin members

\* A connection that goes down is destroyed.  The event loop waits there for
\* the completion thread, which may itself wait for the event loop to connect
\* another connection.
DownDestroyed ==
  \A c \in Connection :
    link[c] = "disconnecting" /\ loop # "stopped" ~>
      object[c] = "freed"

\* After SIGINT or SIGTERM the daemon drains every connection and ends, unless
\* the event loop sleeps in rdma_get_cm_event: a signal that another thread
\* took, or that came after running was tested, does not wake it.
ShutdownDrains ==
  ~running /\ (loop # "blocked" \/ destroying # NoConnection) ~>
    loop = "stopped"

=============================================================================
