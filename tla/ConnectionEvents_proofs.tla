---------------------- MODULE ConnectionEvents_proofs ------------------------
(*****************************************************************************)
(* What a step of the Provider does to one of its connections: the types,    *)
(* the one connection the poller is at, the connection manager's events      *)
(* about a connection, what the steps of another connection leave alone,     *)
(* how many completions of a connection are queued, and its one send.        *)
(*****************************************************************************)
EXTENDS ProviderConnection, TLAPS

Completion == [conn : Connection, opcode : {"RECV", "SEND"}, ok : BOOLEAN]

ConnectionType ==
  /\ link \in [Connection -> {"none", "requested", "rejected", "accepted",
                              "established", "disconnecting", "down"}]
  /\ object \in [Connection -> {"none", "live", "freed"}]
  /\ references \in [Connection -> Int] /\ receives \in [Connection -> Nat]
  /\ monitor \in [Connection ->
                    {"none", "waiting", "draining", "reclaimed", "done"}]
  /\ state \in [Connection -> {"WAIT_HELLO", "WAIT_AUTH", "READY", "CLOSED"}]
  /\ authorization_version \in [Connection -> Nat] /\ version \in Nat
  /\ members \in SUBSET Connection /\ memory_connected = members

\* What the completion thread works on.
PollType ==
  /\ poll = At(poll.step, poll.conn, poll.message, poll.close)
  /\ poll.conn \in Connection \cup {NoConnection} /\ poll.close \in BOOLEAN
  /\ poll.step = "idle" <=> poll.conn = NoConnection

QueueType ==
  /\ cq \in Seq(Completion) /\ sends \in [Connection -> Seq(BOOLEAN)] /\ PollType

\* The steps that concern one connection, and the others.
ConnectionStep(c) ==
  \/ Peer(c) \/ Fabric(c) \/ Monitor(c) \/ SnapshotReads(c)
  \/ ConnectRequest(c) \/ Established(c) \/ Disconnected(c)
  \/ DestroyConnection(c)
  \/ PollClosing(c) \/ PollReceive(c) \/ PollSend(c)
  \/ Subscribe(c) \/ Admit(c) \/ Serve(c) \/ Submit(c) \/ Post(c)

DaemonStep ==
  \/ LoopCheck \/ DisconnectProviderConnections \/ RequestShutdown
  \/ ReloadAllowlist \/ SnapshotBegins \/ UNCHANGED vars

\* Every step of the daemon and of its environment is one of these.
LEMMA Steps ==
  ASSUME [Next]_vars
  PROVE  DaemonStep \/ \E c \in Connection : ConnectionStep(c)
  BY Zenon DEF Next, EventLoop, PollCq, ConnectionStep, DaemonStep

LinkType ==
  [Connection -> {"none", "requested", "rejected", "accepted", "established",
                  "disconnecting", "down"}]

\* A step of the daemon leaves the links alone or disconnects established ones.
LinkKept ==
  /\ link' \in LinkType
  /\ \A q : q \in qp_error => q \in qp_error'
  /\ \A c \in Connection :
       link'[c] = link[c]
         \/ (link[c] = "established" /\ link'[c] = "disconnecting")

\* rdma_disconnect breaks queue pairs and takes established links down.
LEMMA Disconnects ==
  ASSUME ConnectionType, NEW S, Disconnect(S)
  PROVE  LinkKept
  BY DEF Disconnect, ConnectionType, LinkKept, LinkType

\* A completion that is done lets go of its reference.
LEMMA Finishes ==
  ASSUME ConnectionType, NEW c \in Connection, Finish(c)
  PROVE  /\ poll' = Idle
         /\ references' = [references EXCEPT ![c] = @ - 1]
         /\ references' \in [Connection -> Int]
  BY DEF Finish, ConnectionType

\* So does one that fails, which disconnects the connection.
LEMMA Aborts ==
  ASSUME ConnectionType, NEW c \in Connection, Abort(c)
  PROVE  /\ poll' = Idle /\ LinkKept
         /\ references' = [references EXCEPT ![c] = @ - 1]
         /\ references' \in [Connection -> Int]
  BY Zenon, Finishes, Disconnects DEF Abort

\* A link that does not change is kept.
LEMMA SameLink ==
  ASSUME ConnectionType, UNCHANGED <<link, qp_error>>
  PROVE  LinkKept
  BY DEF LinkKept, LinkType, ConnectionType

\* A completion that goes on keeps its reference.
LEMMA Continues ==
  ASSUME ConnectionType, NEW c \in Connection, NEW step, NEW m, NEW close,
         Continue(step, c, m, close)
  PROVE  /\ poll' = At(step, c, m, close) /\ LinkKept
         /\ references' = references
         /\ references' \in [Connection -> Int]
  BY Zenon, SameLink DEF Continue, ConnectionType

\* Initially every variable has its type.
LEMMA InitType == Init => ConnectionType /\ QueueType
<1> SUFFICES ASSUME Init PROVE ConnectionType /\ QueueType
  OBVIOUS
<1>1. ConnectionType
  BY DEF Init, ConnectionType
<1>2. PollType
  BY DEF Init, Idle, At, PollType
<1>3. sends \in [Connection -> Seq(BOOLEAN)] /\ cq \in Seq(Completion)
  <2>1. \A S : <<>> \in Seq(S)
    OBVIOUS
  <2> QED
    BY Zenon, <2>1 DEF Init
<1> QED
  BY Zenon, <1>1, <1>2, <1>3 DEF QueueType

\* Every step keeps the types of a connection's fields.
LEMMA TypeStep ==
  ASSUME ConnectionType, [Next]_vars
  PROVE  ConnectionType'
<1> USE DEF ConnectionType, peerVars, loopVars, connectionVars, lifetimeVars,
            sessionVars, admissionVars, queueVars, memoryVars, registryVars,
            LinkType
<1>1. CASE DaemonStep
  <2>1. CASE LoopCheck \/ RequestShutdown \/ UNCHANGED vars
    BY <2>1 DEF LoopCheck, RequestShutdown, vars
  <2>2. CASE DisconnectProviderConnections
    BY <2>2, Disconnects DEF DisconnectProviderConnections, LinkKept
  <2>3. CASE ReloadAllowlist
    BY <2>3, Disconnects DEF ReloadAllowlist, LinkKept
  <2>4. CASE SnapshotBegins
    BY <2>4 DEF SnapshotBegins
  <2> QED
    BY Zenon, <1>1, <2>1, <2>2, <2>3, <2>4 DEF DaemonStep
<1>2. ASSUME NEW c \in Connection, ConnectionStep(c)
      PROVE  ConnectionType'
  <2>1. CASE Peer(c)
    <3>1. CASE PeerConnect(c) \/ PeerEstablish(c) \/ PeerDisconnect(c)
      BY Zenon, <3>1 DEF PeerConnect, PeerEstablish, PeerDisconnect
    <3>2. CASE PeerCrash(c)
      BY Zenon, <3>2 DEF PeerCrash
    <3>3. CASE \E m \in Frame(sent[c] + 1) : PeerSend(c, m)
      BY <3>3 DEF PeerSend
    <3> QED
      BY Zenon, <2>1, <3>1, <3>2, <3>3 DEF Peer
  <2>2. CASE Fabric(c)
    <3>1. CASE LinkDown(c) \/ SendEnds(c)
      BY SMTT(60), Z3T(60), ZenonT(120), <3>1 DEF LinkDown, SendEnds
    <3>2. CASE Flush(c)
      <4>1. /\ receives' = [receives EXCEPT ![c] = 0]
            /\ UNCHANGED <<link, connectionVars, references, monitor,
                           registryVars, memoryVars>>
        BY Zenon, <3>2 DEF Flush
      <4> QED
        BY <4>1
    <3> QED
      BY Zenon, <2>2, <3>1, <3>2 DEF Fabric
  <2>3. CASE Monitor(c)
    <3>1. CASE DeadlineExpires(c)
      <4>1. LinkKept
        BY Zenon, <3>1, Disconnects DEF DeadlineExpires
      <4> QED
        BY Zenon, <3>1, <4>1 DEF DeadlineExpires, LinkKept
    <3>2. CASE MonitorReclaims(c)
      BY <3>2 DEF MonitorReclaims
    <3>3. CASE MonitorEnds(c)
      BY <3>3 DEF MonitorEnds
    <3> QED
      BY Zenon, <2>3, <3>1, <3>2, <3>3 DEF Monitor
  <2>4. CASE SnapshotReads(c)
    <3>1. /\ references' = [references EXCEPT ![c] = @ - 1]
          /\ UNCHANGED <<link, connectionVars, queueVars, monitor,
                         registryVars, memoryVars>>
      BY Zenon, <2>4 DEF SnapshotReads
    <3> QED
      BY <3>1
  <2>5. CASE ConnectRequest(c)
    BY <2>5 DEF ConnectRequest
  <2>6. CASE Established(c)
    BY <2>6 DEF Established
  <2>7. CASE Disconnected(c)
    BY Zenon, <2>7 DEF Disconnected
  <2>8. CASE DestroyConnection(c)
    BY <2>8 DEF DestroyConnection
  <2>9. CASE PollClosing(c)
    <3>1. LinkKept /\ references' \in [Connection -> Int]
      BY Zenon, <2>9, Aborts, Finishes, SameLink DEF PollClosing
    <3>2. UNCHANGED <<connectionVars, queueVars, monitor, registryVars,
                      memoryVars>>
      BY Zenon, <2>9 DEF PollClosing
    <3> QED
      BY <3>1, <3>2 DEF LinkKept
  <2>10. CASE PollReceive(c)
    <3>1. PICK o \in HandleFrame(c, recv_frame[c]) :
            /\ state' = [state EXCEPT ![c] = o[1]]
            /\ authorization_version' =
                 [authorization_version EXCEPT ![c] =
                    IF o[2] = "subscribe" THEN version ELSE @]
            /\ Abort(c) \/ Continue(o[2], c,
                             IF o[2] = "serve" THEN recv_frame[c] ELSE "BAD",
                             o[1] = "CLOSED")
      BY Zenon, <2>10 DEF PollReceive
    <3>2. o[1] \in {"WAIT_HELLO", "WAIT_AUTH", "READY", "CLOSED"}
      BY <3>1 DEF HandleFrame
    <3>3. LinkKept /\ references' \in [Connection -> Int]
      BY Zenon, <3>1, Aborts, Continues
    <3>4. UNCHANGED <<lifetimeVars, admissionVars, queueVars, monitor,
                      registryVars, memoryVars>>
      BY Zenon, <2>10 DEF PollReceive
    <3> QED
      BY Zenon, <3>1, <3>2, <3>3, <3>4 DEF LinkKept
  <2>11. CASE PollSend(c)
    <3>1. LinkKept
      BY Zenon, <2>11, Aborts, SameLink DEF PollSend
    <3>2. references' \in [Connection -> Int] /\ receives' \in [Connection -> Nat]
      <4>1. CASE Abort(c) /\ UNCHANGED receives
        BY Zenon, <4>1, Aborts
      <4>2. CASE /\ receives' = [receives EXCEPT ![c] = @ + 1]
                 /\ \/ UNCHANGED references
                    \/ references' = [references EXCEPT ![c] = @ + 2]
        BY <4>2
      <4> QED
        BY Zenon, <2>11, <4>1, <4>2 DEF PollSend
    <3>3. UNCHANGED <<lifetimeVars, sessionVars, admissionVars, monitor,
                      registryVars, memoryVars>>
      BY Zenon, <2>11 DEF PollSend
    <3> QED
      BY <3>1, <3>2, <3>3 DEF LinkKept
  <2>12. CASE Subscribe(c)
    <3>1. LinkKept /\ references' \in [Connection -> Int]
      BY Zenon, <2>12, Aborts, Continues DEF Subscribe
    <3>2. UNCHANGED <<connectionVars, queueVars, monitor, version, memoryVars>>
      BY Zenon, <2>12 DEF Subscribe
    <3> QED
      BY <3>1, <3>2 DEF LinkKept
  <2>13. CASE Admit(c)
    <3>1. LinkKept /\ references' \in [Connection -> Int]
      BY Zenon, <2>13, Aborts, Continues DEF Admit
    <3>2. /\ \/ /\ members' = members \cup {c}
                /\ memory_connected' = memory_connected \cup {c}
             \/ UNCHANGED <<members, memory_connected>>
          /\ UNCHANGED <<lifetimeVars, sessionVars, queueVars, monitor, version>>
      BY Zenon, <2>13 DEF Admit
    <3> QED
      BY <3>1, <3>2 DEF LinkKept
  <2>14. CASE Serve(c)
    <3>1. LinkKept /\ references' \in [Connection -> Int]
      BY Zenon, <2>14, Aborts, Continues DEF Serve
    <3>2. /\ state' = [state EXCEPT ![c] = "CLOSED"] \/ UNCHANGED state
          /\ UNCHANGED <<lifetimeVars, authorization_version, admissionVars,
                         queueVars, monitor, registryVars, members>>
      BY Zenon, <2>14 DEF Serve
    <3> QED
      BY <3>1, <3>2 DEF LinkKept
  <2>15. CASE Submit(c)
    <3>1. LinkKept
      BY Zenon, <2>15, Aborts, SameLink DEF Submit
    <3>2. references' \in [Connection -> Int]
      <4>1. CASE references' = [references EXCEPT ![c] = @ + 1]
        BY <4>1
      <4> QED
        BY Zenon, <2>15, <4>1, Aborts, Finishes DEF Submit
    <3>3. UNCHANGED <<lifetimeVars, sessionVars, admissionVars, queueVars,
                      monitor, registryVars, memoryVars>>
      BY Zenon, <2>15 DEF Submit
    <3> QED
      BY <3>1, <3>2, <3>3 DEF LinkKept
  <2>16. CASE Post(c)
    <3>1. LinkKept
      BY Zenon, <2>16, Disconnects, SameLink DEF Post
    <3>2. references' \in [Connection -> Int]
      <4>1. CASE references' = [references EXCEPT ![c] = @ - 2]
        BY <4>1
      <4> QED
        BY Zenon, <2>16, <4>1, Finishes DEF Post
    <3>3. UNCHANGED <<lifetimeVars, sessionVars, admissionVars, receives,
                      monitor, registryVars, memoryVars>>
      BY Zenon, <2>16 DEF Post
    <3> QED
      BY <3>1, <3>2, <3>3 DEF LinkKept
  <2> QED
    BY Zenon, <1>2, <2>1, <2>2, <2>3, <2>4, <2>5, <2>6, <2>7, <2>8, <2>9, <2>10,
       <2>11, <2>12, <2>13, <2>14, <2>15, <2>16 DEF ConnectionStep
<1> QED
  BY Zenon, <1>1, <1>2, Steps


\* The completion thread is about to post a send.
Posting(c) == poll.conn = c /\ poll.step = "post"

\* What the completion thread does next.
LEMMA PollIdle ==
  ASSUME poll' = Idle
  PROVE  /\ PollType' /\ poll'.step = "idle" /\ poll'.conn = NoConnection
         /\ \A d \in Connection : poll'.conn # d /\ ~Posting(d)'
<1>1. /\ poll'.conn = NoConnection /\ poll'.close = FALSE /\ poll'.step = "idle"
      /\ poll'.message = "BAD"
  BY Zenon DEF Idle, At
<1>2. poll' = At(poll'.step, poll'.conn, poll'.message, poll'.close)
  BY Zenon, <1>1 DEF Idle
<1>3. "idle" # "post"
  OBVIOUS
<1> QED
  BY Zenon, <1>1, <1>2, <1>3, ProviderConnectionAssumption DEF PollType, Posting

\* A completion thread that goes on is at the connection of its step.
LEMMA PollAt ==
  ASSUME NEW c \in Connection, NEW step, NEW m, NEW close \in BOOLEAN,
         step # "idle", poll' = At(step, c, m, close)
  PROVE  /\ PollType' /\ poll'.step = step /\ poll'.conn = c
         /\ \A d : Posting(d)' => d = c /\ step = "post"
<1>1. /\ poll'.step = step /\ poll'.conn = c /\ poll'.message = m
      /\ poll'.close = close
  BY Zenon DEF At
<1> QED
  BY Zenon, <1>1, ProviderConnectionAssumption DEF PollType, Posting

\* The completion thread works on a connection.
LEMMA PollBusy ==
  ASSUME PollType, NEW c \in Connection, poll.conn = c
  PROVE  poll.step # "idle" /\ \A d : poll.conn = d <=> d = c
  BY Zenon, ProviderConnectionAssumption DEF PollType

-----------------------------------------------------------------------------
(* The connection manager's events.                                          *)

Event == {"CONNECT_REQUEST", "ESTABLISHED", "DISCONNECTED"} \X Connection

EventOf(i, c) == i \in 1 .. Len(events) /\ events[i][2] = c

\* The events of a connection follow its link: a request, then at most one of
\* each of the others, and DISCONNECTED is the last.
ReportedAt(c) ==
  /\ \A i : EventOf(i, c) =>
       \/ events[i][1] = "CONNECT_REQUEST" /\ link[c] = "requested"
       \/ /\ events[i][1] = "ESTABLISHED"
          /\ link[c] \in {"established", "disconnecting", "down"}
       \/ events[i][1] = "DISCONNECTED" /\ link[c] = "down"
  /\ \A i, j : EventOf(i, c) /\ EventOf(j, c) /\ i < j =>
       events[i][1] = "ESTABLISHED" /\ events[j][1] = "DISCONNECTED"

\* A connection is built by its request and destroyed after its last event.
BuiltAt(c) ==
  /\ object[c] = "none" <=> link[c] \in {"none", "requested", "rejected"}
  /\ object[c] = "freed" \/ destroying = c =>
       link[c] = "down" /\ \A i : ~EventOf(i, c)
  /\ destroying = c => object[c] = "live"

EventsAt(c) == ReportedAt(c) /\ BuiltAt(c)

EventsInv == events \in Seq(Event) /\ \A c \in Connection : EventsAt(c)

\* The events of d were there, one place on when the oldest was taken.
Moved(k, d) ==
  \A i : EventOf(i, d)' =>
    i \in Nat \ {0} /\ EventOf(i + k, d) /\ events'[i] = events[i + k]

\* They were there, but for a last one.
Added(type, c, d) ==
  \A i : EventOf(i, d)' =>
    \/ EventOf(i, d) /\ events'[i] = events[i] /\ i \in Nat \ {0}
    \/ d = c /\ events'[i] = <<type, c>> /\ i = Len(events) + 1

\* A step that adds no event of connection d keeps what is known of d.
LEMMA EventsKept ==
  ASSUME NEW d, EventsAt(d), NEW k \in {0, 1},
         Moved(k, d),
         \/ link'[d] = link[d]
         \/ link[d] = "established" /\ link'[d] = "disconnecting",
         object'[d] = object[d], destroying' = d => destroying = d
  PROVE  EventsAt(d)'
<1>1. ASSUME NEW i, EventOf(i, d)'
      PROVE  \/ events'[i][1] = "CONNECT_REQUEST" /\ link'[d] = "requested"
             \/ /\ events'[i][1] = "ESTABLISHED"
                /\ link'[d] \in {"established", "disconnecting", "down"}
             \/ events'[i][1] = "DISCONNECTED" /\ link'[d] = "down"
  <2>1. EventOf(i + k, d) /\ events'[i] = events[i + k]
    BY Zenon, <1>1 DEF Moved
  <2>2. \/ events'[i][1] = "CONNECT_REQUEST" /\ link[d] = "requested"
        \/ /\ events'[i][1] = "ESTABLISHED"
           /\ link[d] \in {"established", "disconnecting", "down"}
        \/ events'[i][1] = "DISCONNECTED" /\ link[d] = "down"
    BY Zenon, <2>1 DEF EventsAt, ReportedAt
  <2> QED
    BY Zenon, <2>2
<1>2. ASSUME NEW i, NEW j, EventOf(i, d)', EventOf(j, d)', i < j
      PROVE  events'[i][1] = "ESTABLISHED" /\ events'[j][1] = "DISCONNECTED"
  <2>1. /\ i \in Nat \ {0} /\ EventOf(i + k, d) /\ events'[i] = events[i + k]
        /\ j \in Nat \ {0} /\ EventOf(j + k, d) /\ events'[j] = events[j + k]
    BY Zenon, <1>2 DEF Moved
  <2>2. i + k < j + k
    BY <1>2, <2>1
  <2> QED
    BY Zenon, <2>1, <2>2 DEF EventsAt, ReportedAt
<1>3. /\ link'[d] \in {"none", "requested", "rejected"} <=>
           link[d] \in {"none", "requested", "rejected"}
      /\ link[d] = "down" => link'[d] = "down"
  OBVIOUS
<1>4. BuiltAt(d)'
  BY Zenon, <1>3 DEF EventsAt, BuiltAt, Moved
<1> QED
  BY Zenon, <1>1, <1>2, <1>4 DEF EventsAt, ReportedAt

\* An event arrives.
LEMMA EventArrives ==
  ASSUME events \in Seq(Event), NEW c \in Connection,
         NEW type \in {"CONNECT_REQUEST", "ESTABLISHED", "DISCONNECTED"},
         events' = Append(events, <<type, c>>)
  PROVE  /\ events' \in Seq(Event)
         /\ \A d : Added(type, c, d)
<1>1. /\ Len(events') = Len(events) + 1 /\ Len(events) \in Nat
      /\ events'[Len(events) + 1] = <<type, c>>
      /\ \A i \in 1 .. Len(events) : events'[i] = events[i]
  OBVIOUS
<1>2. events' \in Seq(Event)
  <2>1. <<type, c>> \in Event
    BY DEF Event
  <2> QED
    BY <2>1
<1>3. ASSUME NEW d, NEW i, EventOf(i, d)'
      PROVE  \/ EventOf(i, d) /\ events'[i] = events[i] /\ i \in Nat \ {0}
             \/ d = c /\ events'[i] = <<type, c>> /\ i = Len(events) + 1
  <2>1. i \in 1 .. Len(events') /\ events'[i][2] = d
    BY Zenon, <1>3 DEF EventOf
  <2>2. i \in Nat \ {0} /\ (i \in 1 .. Len(events) \/ i = Len(events) + 1)
    BY <1>1, <2>1
  <2>3. CASE i \in 1 .. Len(events)
    BY Zenon, <1>1, <2>1, <2>2, <2>3 DEF EventOf
  <2>4. CASE i = Len(events) + 1
    <3>1. events'[i] = <<type, c>> /\ d = c
      BY <1>1, <2>1, <2>4
    <3> QED
      BY Zenon, <2>2, <2>4, <3>1
  <2> QED
    BY Zenon, <2>2, <2>3, <2>4
<1> QED
  BY Zenon, <1>2, <1>3 DEF Added

\* The oldest event is taken.
LEMMA EventTaken ==
  ASSUME events \in Seq(Event), NEW c, NEW type, Take(type, c)
  PROVE  /\ events' \in Seq(Event) /\ destroying = NoConnection
         /\ EventOf(1, c) /\ events[1][1] = type
         /\ \A d : Moved(1, d)
<1>1. /\ events # <<>> /\ Head(events) = <<type, c>> /\ events' = Tail(events)
      /\ destroying = NoConnection
  BY Zenon DEF Take
<1>2. /\ events' \in Seq(Event) /\ Len(events) \in Nat /\ Len(events) > 0
      /\ Len(events') = Len(events) - 1
      /\ events[1] = <<type, c>>
      /\ \A i \in 1 .. Len(events') : events'[i] = events[i + 1]
  BY <1>1
<1>3. EventOf(1, c) /\ events[1][1] = type
  BY <1>2 DEF EventOf
<1>4. ASSUME NEW d, NEW i, EventOf(i, d)'
      PROVE  /\ i \in Nat \ {0} /\ EventOf(i + 1, d)
             /\ events'[i] = events[i + 1]
  <2>1. i \in 1 .. Len(events') /\ events'[i][2] = d
    BY Zenon, <1>4 DEF EventOf
  <2>2. i \in Nat \ {0} /\ i + 1 \in 1 .. Len(events)
    BY <1>2, <2>1
  <2> QED
    BY Zenon, <1>2, <2>1, <2>2 DEF EventOf
<1> QED
  BY Zenon, <1>1, <1>2, <1>3, <1>4 DEF Moved

\* The steps that no event reports and that build or destroy no connection.
Unreported(c) ==
  \/ DaemonStep \/ PeerDisconnect(c) \/ PeerCrash(c)
  \/ (\E m \in Frame(sent[c] + 1) : PeerSend(c, m))
  \/ Flush(c) \/ SendEnds(c) \/ Monitor(c) \/ SnapshotReads(c)
  \/ PollClosing(c) \/ PollReceive(c) \/ PollSend(c)
  \/ Subscribe(c) \/ Admit(c) \/ Serve(c) \/ Submit(c) \/ Post(c)

\* They disconnect established links at most.
LEMMA UnreportedKeeps ==
  ASSUME ConnectionType, NEW c \in Connection, Unreported(c)
  PROVE  UNCHANGED <<events, object, destroying>> /\ LinkKept
<1> USE DEF peerVars, loopVars, connectionVars, lifetimeVars
<1>1. CASE DaemonStep
  <2>1. CASE LoopCheck \/ RequestShutdown \/ SnapshotBegins \/ UNCHANGED vars
    BY Zenon, <2>1, SameLink DEF LoopCheck, RequestShutdown, SnapshotBegins, vars
  <2>2. CASE DisconnectProviderConnections \/ ReloadAllowlist
    BY Zenon, <2>2, Disconnects DEF DisconnectProviderConnections, ReloadAllowlist
  <2> QED
    BY Zenon, <1>1, <2>1, <2>2 DEF DaemonStep
<1>2. CASE PeerDisconnect(c)
  <2>1. /\ UNCHANGED <<events, object, destroying, qp_error>>
        /\ link[c] = "established"
        /\ link' = [link EXCEPT ![c] = "disconnecting"]
    BY Zenon, <1>2 DEF PeerDisconnect
  <2> QED
    BY <2>1 DEF LinkKept, LinkType, ConnectionType
<1>3. CASE PeerCrash(c) \/ (\E m \in Frame(sent[c] + 1) : PeerSend(c, m)) \/ Flush(c)
  BY Zenon, <1>3, SameLink DEF PeerCrash, PeerSend, Flush
<1>4. CASE SendEnds(c)
  <2>1. /\ UNCHANGED <<events, object, destroying, link>>
        /\ qp_error' = qp_error \/ qp_error' = qp_error \cup {c}
    BY Zenon, <1>4 DEF SendEnds
  <2> QED
    BY Zenon, <2>1 DEF LinkKept, LinkType, ConnectionType
<1>5. CASE Monitor(c) \/ SnapshotReads(c)
  BY Zenon, <1>5, SameLink, Disconnects
  DEF Monitor, DeadlineExpires, MonitorReclaims, MonitorEnds, SnapshotReads
<1>6. CASE PollClosing(c) \/ PollSend(c) \/ Submit(c) \/ Post(c)
  BY Zenon, <1>6, SameLink, Disconnects
  DEF PollClosing, PollSend, Submit, Post, Abort
<1>7. CASE PollReceive(c) \/ Subscribe(c) \/ Admit(c) \/ Serve(c)
  BY Zenon, <1>7, Aborts, Continues DEF PollReceive, Subscribe, Admit, Serve
<1> QED
  BY Zenon, <1>1, <1>2, <1>3, <1>4, <1>5, <1>6, <1>7 DEF Unreported

\* Every step keeps what is known of the events.
LEMMA EventsStep ==
  ASSUME ConnectionType, EventsInv, [Next]_vars
  PROVE  EventsInv'
<1> USE DEF peerVars, loopVars, connectionVars, lifetimeVars
<1>1. /\ events \in Seq(Event)
      /\ \A d \in Connection : EventsAt(d)
      /\ object \in [Connection -> {"none", "live", "freed"}]
      /\ link \in LinkType
  BY Zenon DEF EventsInv, ConnectionType, LinkType
<1>2. ASSUME NEW c \in Connection, Unreported(c)
      PROVE  EventsInv'
  <2>1. UNCHANGED <<events, object, destroying>> /\ LinkKept
    BY Zenon, <1>2, UnreportedKeeps
  <2>2. ASSUME NEW d \in Connection
        PROVE  EventsAt(d)'
    <3>1. object'[d] = object[d] /\ (destroying' = d => destroying = d)
      BY Zenon, <2>1
    <3>2. \/ link'[d] = link[d]
          \/ link[d] = "established" /\ link'[d] = "disconnecting"
      BY Zenon, <2>1 DEF LinkKept
    <3>3. Moved(0, d)
      <4>1. \A i \in 1 .. Len(events) : i \in Nat \ {0} /\ i + 0 = i
        BY <1>1
      <4> QED
        BY Zenon, <2>1, <4>1 DEF EventOf, Moved
    <3>4. 0 \in {0, 1}
      OBVIOUS
    <3> QED
      BY Zenon, <1>1, <3>1, <3>2, <3>3, <3>4, EventsKept
  <2> QED
    BY Zenon, <1>1, <2>1, <2>2 DEF EventsInv
\* The other connections, when c is reported.
<1>3. ASSUME NEW c \in Connection, NEW d \in Connection, d # c,
             NEW type \in {"CONNECT_REQUEST", "ESTABLISHED", "DISCONNECTED"},
             events' = Append(events, <<type, c>>),
             link'[d] = link[d], UNCHANGED <<object, destroying>>
      PROVE  EventsAt(d)'
  <2>1. Added(type, c, d)
    BY Zenon, <1>1, <1>3, EventArrives
  <2>2. Moved(0, d)
    <3>1. \A i \in Nat \ {0} : i + 0 = i
      OBVIOUS
    <3> QED
      BY Zenon, <1>3, <2>1, <3>1 DEF Added, Moved
  <2>3. 0 \in {0, 1} /\ object'[d] = object[d]
    BY Zenon, <1>3
  <2> QED
    BY Zenon, <1>1, <1>3, <2>2, <2>3, EventsKept
\* A connection, when the oldest event is handled and it is not built by it.
<1>4. ASSUME NEW c \in Connection, NEW d \in Connection, NEW type, Take(type, c),
             link'[d] = link[d], object'[d] = object[d], destroying' # d
      PROVE  EventsAt(d)'
  <2>1. Moved(1, d)
    BY Zenon, <1>1, <1>4, EventTaken
  <2>2. 1 \in {0, 1}
    OBVIOUS
  <2> QED
    BY Zenon, <1>1, <1>4, <2>1, <2>2, EventsKept
<1>5. ASSUME NEW c \in Connection, PeerConnect(c) \/ PeerEstablish(c)
      PROVE  EventsInv'
  <2>1. PICK type \in {"CONNECT_REQUEST", "ESTABLISHED"} :
          /\ events' = Append(events, <<type, c>>)
          /\ UNCHANGED <<object, destroying>>
          /\ \/ /\ type = "CONNECT_REQUEST" /\ link[c] = "none"
                /\ link' = [link EXCEPT ![c] = "requested"]
             \/ /\ type = "ESTABLISHED" /\ link[c] = "accepted"
                /\ link' = [link EXCEPT ![c] = "established"]
    BY Zenon, <1>5 DEF PeerConnect, PeerEstablish
  <2>2. \A d \in Connection : d # c => link'[d] = link[d]
    BY Zenon, <1>1, <2>1 DEF LinkType
  <2>3. /\ type \in {"CONNECT_REQUEST", "ESTABLISHED", "DISCONNECTED"}
        /\ events' = Append(events, <<type, c>>)
    BY <2>1
  <2>4. events' \in Seq(Event) /\ Added(type, c, c)
    BY Zenon, <1>1, <2>3, EventArrives
  <2>5. \A i : ~EventOf(i, c)
    <3>1. ReportedAt(c)
      BY Zenon, <1>1 DEF EventsAt
    <3> QED
      BY <2>1, <3>1 DEF ReportedAt
  <2>6. /\ type = "CONNECT_REQUEST" => link'[c] = "requested"
        /\ type = "ESTABLISHED" => link'[c] = "established"
        /\ object[c] # "freed" /\ destroying # c
        /\ object[c] = "none" <=> link'[c] \in {"none", "requested", "rejected"}
    <3>1. BuiltAt(c)
      BY Zenon, <1>1 DEF EventsAt
    <3> QED
      BY <1>1, <2>1, <3>1 DEF BuiltAt, LinkType
  <2>7. ReportedAt(c)'
    <3>1. \A i : EventOf(i, c)' => events'[i] = <<type, c>> /\ i = Len(events) + 1
      BY Zenon, <2>4, <2>5 DEF Added
    <3>2. \A i, j : EventOf(i, c)' /\ EventOf(j, c)' => ~(i < j)
      BY <1>1, <3>1
    <3>3. <<type, c>>[1] = type
      OBVIOUS
    <3>4. ASSUME NEW i, EventOf(i, c)'
          PROVE  \/ events'[i][1] = "CONNECT_REQUEST" /\ link'[c] = "requested"
                 \/ events'[i][1] = "ESTABLISHED" /\ link'[c] = "established"
      <4>1. events'[i][1] = type
        BY Zenon, <3>1, <3>3, <3>4
      <4> QED
        BY Zenon, <2>1, <2>6, <4>1
    <3> QED
      BY Zenon, <3>2, <3>4 DEF ReportedAt
  <2>8. BuiltAt(c)'
    BY Zenon, <2>1, <2>6 DEF BuiltAt
  <2>9. \A d \in Connection : d # c => EventsAt(d)'
    BY Zenon, <1>3, <2>1, <2>2, <2>3
  <2> QED
    BY Zenon, <2>4, <2>7, <2>8, <2>9 DEF EventsInv, EventsAt
<1>6. ASSUME NEW c \in Connection, LinkDown(c)
      PROVE  EventsInv'
  <2>1. /\ events' = Append(events, <<"DISCONNECTED", c>>)
        /\ UNCHANGED <<object, destroying>>
        /\ link[c] = "disconnecting" /\ link' = [link EXCEPT ![c] = "down"]
    BY Zenon, <1>6 DEF LinkDown
  <2>2. link'[c] = "down" /\ \A d \in Connection : d # c => link'[d] = link[d]
    BY Zenon, <1>1, <2>1 DEF LinkType
  <2>3. events' \in Seq(Event) /\ Added("DISCONNECTED", c, c)
    <3>1. "DISCONNECTED" \in {"CONNECT_REQUEST", "ESTABLISHED", "DISCONNECTED"}
      OBVIOUS
    <3> QED
      BY Zenon, <1>1, <2>1, <3>1, EventArrives
  <2>4. \A i : EventOf(i, c) => events[i][1] = "ESTABLISHED"
    <3>1. ReportedAt(c)
      BY Zenon, <1>1 DEF EventsAt
    <3> QED
      BY <2>1, <3>1 DEF ReportedAt
  <2>5. object[c] # "freed" /\ object[c] # "none" /\ destroying # c
    <3>1. BuiltAt(c)
      BY Zenon, <1>1 DEF EventsAt
    <3> QED
      BY <2>1, <3>1 DEF BuiltAt
  <2>6. \A i, j : EventOf(i, c) /\ EventOf(j, c) => ~(i < j)
    <3>1. \A i, j : EventOf(i, c) /\ EventOf(j, c) /\ i < j =>
                      events[j][1] = "DISCONNECTED"
      BY Zenon, <1>1 DEF EventsAt, ReportedAt
    <3>2. "ESTABLISHED" # "DISCONNECTED"
      OBVIOUS
    <3> QED
      BY Zenon, <2>4, <3>1, <3>2
  <2>7. \A i : EventOf(i, c) => ~(Len(events) + 1 < i)
    BY <1>1 DEF EventOf
  <2>8. ASSUME NEW i, EventOf(i, c)'
        PROVE  \/ EventOf(i, c) /\ events'[i][1] = "ESTABLISHED"
               \/ events'[i][1] = "DISCONNECTED" /\ i = Len(events) + 1
    <3>1. <<"DISCONNECTED", c>>[1] = "DISCONNECTED"
      OBVIOUS
    <3> QED
      BY Zenon, <2>3, <2>4, <2>8, <3>1 DEF Added
  <2>9. ASSUME NEW i, NEW j, EventOf(i, c)', EventOf(j, c)', i < j
        PROVE  events'[i][1] = "ESTABLISHED" /\ events'[j][1] = "DISCONNECTED"
    <3>1. ~(Len(events) + 1 < Len(events) + 1)
      BY <1>1
    <3>2. CASE i = Len(events) + 1
      BY Zenon, <2>7, <2>8, <2>9, <3>1, <3>2
    <3>3. CASE EventOf(i, c) /\ events'[i][1] = "ESTABLISHED"
      <4>1. ~EventOf(j, c)
        BY Zenon, <2>6, <2>9, <3>3
      <4> QED
        BY Zenon, <2>8, <2>9, <3>3, <4>1
    <3>4. \/ EventOf(i, c) /\ events'[i][1] = "ESTABLISHED"
          \/ i = Len(events) + 1
      <4>1. EventOf(i, c)'
        BY Zenon, <2>9
      <4> QED
        BY Zenon, <2>8, <4>1
    <3> QED
      BY Zenon, <3>2, <3>3, <3>4
  <2>10. ReportedAt(c)'
    <3>1. link'[c] \in {"established", "disconnecting", "down"}
      BY <2>2
    <3> QED
      BY Zenon, <2>2, <2>8, <2>9, <3>1 DEF ReportedAt
  <2>11. BuiltAt(c)'
    <3>1. link'[c] \notin {"none", "requested", "rejected"}
      BY <2>2
    <3> QED
      BY Zenon, <2>1, <2>5, <3>1 DEF BuiltAt
  <2>12. \A d \in Connection : d # c => EventsAt(d)'
    <3>1. "DISCONNECTED" \in {"CONNECT_REQUEST", "ESTABLISHED", "DISCONNECTED"}
      OBVIOUS
    <3> QED
      BY Zenon, <1>3, <2>1, <2>2, <3>1
  <2> QED
    BY Zenon, <2>3, <2>10, <2>11, <2>12 DEF EventsInv, EventsAt
\* What c's oldest event leaves of its events.
<1>7. ASSUME NEW c \in Connection, NEW type, Take(type, c),
             type # "ESTABLISHED"
      PROVE  \A i : ~EventOf(i, c)'
  <2>1. /\ EventOf(1, c) /\ events[1][1] = type /\ Moved(1, c)
    BY Zenon, <1>1, <1>7, EventTaken
  <2>2. ASSUME NEW i, EventOf(i, c)'
        PROVE  FALSE
    <3>1. i \in Nat \ {0} /\ EventOf(i + 1, c)
      BY Zenon, <2>1, <2>2 DEF Moved
    <3>2. 1 < i + 1
      BY <3>1
    <3>3. events[1][1] = "ESTABLISHED"
      BY Zenon, <1>1, <2>1, <3>1, <3>2 DEF EventsAt, ReportedAt
    <3> QED
      BY Zenon, <1>7, <2>1, <3>3
  <2> QED
    BY Zenon, <2>2
<1>8. ASSUME NEW c \in Connection, NEW type, Take(type, c)
      PROVE  /\ events' \in Seq(Event) /\ destroying = NoConnection
             /\ type = "CONNECT_REQUEST" => link[c] = "requested"
             /\ type = "DISCONNECTED" => link[c] = "down" /\ object[c] = "live"
  <2>1. /\ EventOf(1, c) /\ events[1][1] = type
        /\ events' \in Seq(Event) /\ destroying = NoConnection
    BY Zenon, <1>1, <1>8, EventTaken
  <2>2. ReportedAt(c) /\ BuiltAt(c)
    BY Zenon, <1>1 DEF EventsAt
  <2>3. /\ type = "CONNECT_REQUEST" => link[c] = "requested"
        /\ type = "DISCONNECTED" => link[c] = "down"
    BY <2>1, <2>2 DEF ReportedAt
  <2>4. object[c] # "freed"
    BY Zenon, <2>1, <2>2 DEF BuiltAt
  <2>5. link[c] = "down" => object[c] = "live"
    BY <1>1, <2>2, <2>4 DEF BuiltAt
  <2> QED
    BY Zenon, <2>1, <2>3, <2>5
<1>9. ASSUME NEW c \in Connection, ConnectRequest(c)
      PROVE  EventsInv'
  <2>1. Take("CONNECT_REQUEST", c) /\ UNCHANGED destroying
    BY Zenon, <1>9 DEF ConnectRequest
  <2>2. "CONNECT_REQUEST" # "ESTABLISHED"
    OBVIOUS
  <2>3. \A i : ~EventOf(i, c)'
    BY Zenon, <1>7, <2>1, <2>2
  <2>4. /\ events' \in Seq(Event) /\ destroying = NoConnection
        /\ link[c] = "requested"
    BY Zenon, <1>8, <2>1
  <2>5. \A d \in Connection : destroying' # d
    BY Zenon, <2>1, <2>4, ProviderConnectionAssumption
  <2>6. object[c] = "none"
    <3>1. link[c] \in {"none", "requested", "rejected"}
      BY <2>4
    <3> QED
      BY Zenon, <1>1, <3>1 DEF EventsAt, BuiltAt
  <2>7. /\ \A d \in Connection : d # c => link'[d] = link[d] /\ object'[d] = object[d]
        /\ \/ link'[c] = "accepted" /\ object'[c] = "live"
           \/ link'[c] = "rejected" /\ object'[c] = "none"
    BY Zenon, <1>1, <1>9, <2>6 DEF ConnectRequest, LinkType
  <2>8. BuiltAt(c)'
    <3>1. /\ object'[c] = "none" <=> link'[c] \in {"none", "requested", "rejected"}
          /\ object'[c] # "freed"
      BY <2>7
    <3> QED
      BY Zenon, <2>5, <3>1 DEF BuiltAt
  <2>9. \A d \in Connection : d # c => EventsAt(d)'
    BY Zenon, <1>4, <2>1, <2>5, <2>7
  <2>10. EventsAt(c)'
    BY Zenon, <2>3, <2>8 DEF EventsAt, ReportedAt
  <2> QED
    BY Zenon, <2>4, <2>9, <2>10 DEF EventsInv
<1>10. ASSUME NEW c \in Connection, Established(c)
       PROVE  EventsInv'
  <2>1. Take("ESTABLISHED", c) /\ UNCHANGED <<destroying, link, object>>
    BY Zenon, <1>10 DEF Established
  <2>2. events' \in Seq(Event) /\ destroying = NoConnection
    BY Zenon, <1>8, <2>1
  <2>3. \A d \in Connection :
          link'[d] = link[d] /\ object'[d] = object[d] /\ destroying' # d
    BY Zenon, <2>1, <2>2, ProviderConnectionAssumption
  <2>4. \A d \in Connection : EventsAt(d)'
    BY Zenon, <1>4, <2>1, <2>3
  <2> QED
    BY Zenon, <2>2, <2>4 DEF EventsInv
<1>11. ASSUME NEW c \in Connection, Disconnected(c)
       PROVE  EventsInv'
  <2>1. Take("DISCONNECTED", c) /\ UNCHANGED <<link, object>> /\ destroying' = c
    BY Zenon, <1>11 DEF Disconnected
  <2>2. "DISCONNECTED" # "ESTABLISHED"
    OBVIOUS
  <2>3. \A i : ~EventOf(i, c)'
    BY Zenon, <1>7, <2>1, <2>2
  <2>4. events' \in Seq(Event) /\ link[c] = "down" /\ object[c] = "live"
    BY Zenon, <1>8, <2>1
  <2>5. \A d \in Connection : d # c => EventsAt(d)'
    <3>1. \A d \in Connection : d # c =>
            link'[d] = link[d] /\ object'[d] = object[d] /\ destroying' # d
      BY Zenon, <2>1
    <3> QED
      BY Zenon, <1>4, <2>1, <3>1
  <2>6. BuiltAt(c)'
    <3>1. object[c] # "none" /\ link[c] \notin {"none", "requested", "rejected"}
      BY <2>4
    <3> QED
      BY Zenon, <2>1, <2>3, <2>4, <3>1 DEF BuiltAt
  <2>7. EventsAt(c)'
    BY Zenon, <2>3, <2>6 DEF EventsAt, ReportedAt
  <2> QED
    BY Zenon, <2>4, <2>5, <2>7 DEF EventsInv
<1>12. ASSUME NEW c \in Connection, DestroyConnection(c)
       PROVE  EventsInv'
  <2>1. /\ destroying = c /\ destroying' = NoConnection
        /\ object' = [object EXCEPT ![c] = "freed"] /\ UNCHANGED <<link, events>>
    BY Zenon, <1>12 DEF DestroyConnection
  <2>2. \A i, d : EventOf(i, d)' <=> EventOf(i, d)
    BY Zenon, <2>1 DEF EventOf
  <2>3. object'[c] = "freed" /\ \A d \in Connection : d # c => object'[d] = object[d]
    BY Zenon, <1>1, <2>1
  <2>4. \A d \in Connection : destroying' # d
    BY Zenon, <2>1, ProviderConnectionAssumption
  <2>5. link[c] = "down" /\ \A i : ~EventOf(i, c)
    BY Zenon, <1>1, <2>1 DEF EventsAt, BuiltAt
  <2>6. BuiltAt(c)'
    <3>1. object'[c] # "none" /\ link[c] \notin {"none", "requested", "rejected"}
      BY <2>3, <2>5
    <3> QED
      BY Zenon, <2>1, <2>2, <2>4, <2>5, <3>1 DEF BuiltAt
  <2>7. ASSUME NEW d \in Connection
        PROVE  EventsAt(d)'
    <3>1. ReportedAt(d)'
      BY Zenon, <1>1, <2>1, <2>2 DEF EventsAt, ReportedAt
    <3>2. CASE d # c
      BY Zenon, <1>1, <2>1, <2>2, <2>3, <2>4, <3>1, <3>2 DEF EventsAt, BuiltAt
    <3> QED
      BY Zenon, <2>6, <3>1, <3>2 DEF EventsAt
  <2> QED
    BY Zenon, <1>1, <2>1, <2>7 DEF EventsInv
<1>13. ASSUME NEW c \in Connection, ConnectionStep(c)
       PROVE  EventsInv'
  BY Zenon, <1>2, <1>5, <1>6, <1>9, <1>10, <1>11, <1>12, <1>13
  DEF ConnectionStep, Peer, Fabric, Unreported
<1>14. CASE DaemonStep
  <2>1. CASE \E c \in Connection : TRUE
    BY Zenon, <1>2, <1>14, <2>1 DEF Unreported
  <2>2. CASE ~\E c \in Connection : TRUE
    <3>1. UNCHANGED events
      BY Zenon, <1>14
      DEF DaemonStep, LoopCheck, DisconnectProviderConnections, RequestShutdown,
          ReloadAllowlist, SnapshotBegins, vars
    <3> QED
      BY Zenon, <1>1, <2>2, <3>1 DEF EventsInv
  <2> QED
    BY Zenon, <2>1, <2>2
<1> QED
  BY Zenon, <1>13, <1>14, Steps

-----------------------------------------------------------------------------
(* The steps of one connection and the others.                               *)

\* The rest of the state of connection d, which a step of another leaves alone.
Apart(d) ==
  /\ object'[d] = object[d] /\ references'[d] = references[d]
  /\ monitor'[d] = monitor[d] /\ state'[d] = state[d]
  /\ authorization_version'[d] = authorization_version[d]
  /\ version' = version /\ allowed' = allowed
  /\ \A q : q \in qp_error => q \in qp_error'
  /\ d \in closing' <=> d \in closing
  /\ d \in listeners' <=> d \in listeners
  /\ d \in auth_subscribed' <=> d \in auth_subscribed
  /\ d \in members' <=> d \in members
  /\ d \in granted' <=> d \in granted
  /\ poll.conn = d \/ poll'.conn = d => poll' = poll

\* The steps of a connection leave the others alone.
LEMMA OthersApart ==
  ASSUME ConnectionType, PollType, NEW c \in Connection, NEW d \in Connection,
         d # c, ConnectionStep(c)
  PROVE  Apart(d)
<1> USE DEF peerVars, loopVars, connectionVars, lifetimeVars, sessionVars,
            admissionVars, queueVars, memoryVars, registryVars
<1>1. /\ object \in [Connection -> {"none", "live", "freed"}]
      /\ references \in [Connection -> Int]
      /\ monitor \in [Connection ->
                        {"none", "waiting", "draining", "reclaimed", "done"}]
      /\ state \in [Connection -> {"WAIT_HELLO", "WAIT_AUTH", "READY", "CLOSED"}]
      /\ authorization_version \in [Connection -> Nat]
  BY Zenon DEF ConnectionType
<1>2. ASSUME NEW S, Disconnect(S)
      PROVE  \A q : q \in qp_error => q \in qp_error'
  BY Zenon, <1>2 DEF Disconnect
<1>3. CASE PeerConnect(c) \/ PeerEstablish(c) \/ PeerDisconnect(c) \/ PeerCrash(c)
  BY Zenon, <1>3 DEF PeerConnect, PeerEstablish, PeerDisconnect, PeerCrash, Apart
<1>4. CASE (\E m \in Frame(sent[c] + 1) : PeerSend(c, m)) \/ LinkDown(c)
  BY Zenon, <1>4 DEF PeerSend, LinkDown, Apart
<1>5. CASE Flush(c) \/ SendEnds(c)
  <2>1. /\ UNCHANGED <<connectionVars, references, poll, monitor, registryVars,
                       memoryVars>>
        /\ \A q : q \in qp_error => q \in qp_error'
    BY Zenon, <1>5 DEF Flush, SendEnds
  <2> QED
    BY Zenon, <2>1 DEF Apart
<1>6. CASE DeadlineExpires(c)
  <2>1. \A q : q \in qp_error => q \in qp_error'
    BY Zenon, <1>2, <1>6 DEF DeadlineExpires
  <2> QED
    BY Zenon, <1>1, <1>6, <2>1 DEF DeadlineExpires, Apart
<1>7. CASE MonitorReclaims(c)
  BY Zenon, <1>1, <1>7 DEF MonitorReclaims, Apart
<1>8. CASE MonitorEnds(c) \/ SnapshotReads(c)
  BY Zenon, <1>1, <1>8 DEF MonitorEnds, SnapshotReads, Apart
<1>9. CASE ConnectRequest(c)
  BY Zenon, <1>1, <1>9 DEF ConnectRequest, Apart
<1>10. CASE Established(c) \/ Disconnected(c)
  BY Zenon, <1>1, <1>10 DEF Established, Disconnected, Apart
<1>11. CASE DestroyConnection(c)
  BY Zenon, <1>1, <1>11 DEF DestroyConnection, Apart
\* poll_cq works on c, or starts to.
<1>12. ASSUME \/ Finish(c)
              \/ \E step, m, close : Continue(step, c, m, close)
              \/ /\ poll' = Idle
                 /\ \/ references' = [references EXCEPT ![c] = @ - 2]
                    \/ UNCHANGED references
              \/ /\ references' = [references EXCEPT ![c] = @ + 2]
                 /\ \E close : poll' = At("post", c, "BAD", close),
              poll.step = "idle" \/ poll.conn = c
       PROVE  /\ references'[d] = references[d]
              /\ poll.conn = d \/ poll'.conn = d => poll' = poll
  <2>1. poll.conn # d
    BY Zenon, <1>12, ProviderConnectionAssumption DEF PollType
  <2>2. CASE poll' = Idle
    <3>1. poll'.conn # d
      BY Zenon, <2>2, PollIdle
    <3> QED
      BY Zenon, <1>1, <1>12, <2>1, <2>2, <3>1 DEF Finish, Continue
  <2>3. CASE /\ \E step, m, close : poll' = At(step, c, m, close)
             /\ \/ UNCHANGED references
                \/ references' = [references EXCEPT ![c] = @ + 2]
    <3>1. poll'.conn = c
      <4>1. PICK step, m, close : poll' = At(step, c, m, close)
        BY Zenon, <2>3
      <4> QED
        BY Zenon, <4>1 DEF At
    <3>2. references'[d] = references[d]
      BY Zenon, <1>1, <2>3
    <3> QED
      BY Zenon, <2>1, <3>1, <3>2
  <2> QED
    BY Zenon, <1>12, <2>2, <2>3 DEF Finish, Continue
<1>13. CASE PollClosing(c) \/ Subscribe(c)
  <2>1. /\ references'[d] = references[d]
        /\ poll.conn = d \/ poll'.conn = d => poll' = poll
    BY Zenon, <1>12, <1>13 DEF PollClosing, Subscribe, Abort
  <2>2. \A q : q \in qp_error => q \in qp_error'
    BY Zenon, <1>2, <1>13 DEF PollClosing, Subscribe, Abort, Continue
  <2>3. /\ UNCHANGED <<connectionVars, monitor, version, allowed, memoryVars>>
        /\ d \in listeners' <=> d \in listeners
    <3>1. CASE PollClosing(c)
      BY Zenon, <3>1 DEF PollClosing
    <3>2. CASE Subscribe(c)
      BY Zenon, <3>2 DEF Subscribe
    <3> QED
      BY Zenon, <1>13, <3>1, <3>2
  <2> QED
    BY Zenon, <2>1, <2>2, <2>3 DEF Apart
<1>14. CASE PollReceive(c)
  <2>1. /\ references'[d] = references[d]
        /\ poll.conn = d \/ poll'.conn = d => poll' = poll
    BY Zenon, <1>12, <1>14 DEF PollReceive, Abort
  <2>2. \A q : q \in qp_error => q \in qp_error'
    BY Zenon, <1>2, <1>14 DEF PollReceive, Abort, Continue
  <2>3. /\ UNCHANGED <<lifetimeVars, admissionVars, monitor, registryVars,
                       memoryVars>>
        /\ state'[d] = state[d]
        /\ authorization_version'[d] = authorization_version[d]
    BY Zenon, <1>1, <1>14 DEF PollReceive
  <2> QED
    BY Zenon, <2>1, <2>2, <2>3 DEF Apart
<1>15. CASE Admit(c)
  <2>1. /\ references'[d] = references[d]
        /\ poll.conn = d \/ poll'.conn = d => poll' = poll
    BY Zenon, <1>12, <1>15 DEF Admit, Abort
  <2>2. \A q : q \in qp_error => q \in qp_error'
    BY Zenon, <1>2, <1>15 DEF Admit, Abort, Continue
  <2>3. /\ UNCHANGED <<lifetimeVars, sessionVars, monitor, version, allowed,
                       granted>>
        /\ d \in members' <=> d \in members
        /\ d \in listeners' <=> d \in listeners
        /\ d \in auth_subscribed' <=> d \in auth_subscribed
    BY Zenon, <1>15 DEF Admit
  <2> QED
    BY Zenon, <2>1, <2>2, <2>3 DEF Apart
<1>16. CASE Serve(c)
  <2>1. /\ references'[d] = references[d]
        /\ poll.conn = d \/ poll'.conn = d => poll' = poll
    BY Zenon, <1>12, <1>16 DEF Serve, Abort
  <2>2. \A q : q \in qp_error => q \in qp_error'
    BY Zenon, <1>2, <1>16 DEF Serve, Abort, Continue
  <2>3. /\ UNCHANGED <<lifetimeVars, authorization_version, admissionVars,
                       monitor, registryVars, members>>
        /\ state'[d] = state[d] /\ (d \in granted' <=> d \in granted)
    BY Zenon, <1>1, <1>16 DEF Serve
  <2> QED
    BY Zenon, <2>1, <2>2, <2>3 DEF Apart
<1>17. CASE Submit(c) \/ Post(c) \/ PollSend(c)
  <2>1. /\ references'[d] = references[d]
        /\ poll.conn = d \/ poll'.conn = d => poll' = poll
    <3>1. CASE /\ references' = [references EXCEPT ![c] = @ + 1]
               /\ poll.conn = c /\ poll' = [poll EXCEPT !.step = "post"]
      <4>1. poll'.conn = c
        <5>1. poll = At(poll.step, poll.conn, poll.message, poll.close)
          BY Zenon DEF PollType
        <5> QED
          BY <3>1, <5>1 DEF At
      <4> QED
        BY Zenon, <1>1, <3>1, <4>1
    <3>2. CASE Submit(c)
      BY Zenon, <1>12, <3>1, <3>2 DEF Submit, Abort
    <3>3. CASE Post(c)
      BY Zenon, <1>12, <3>3 DEF Post
    <3>4. CASE PollSend(c)
      BY Zenon, <1>12, <3>4 DEF PollSend, Abort
    <3> QED
      BY Zenon, <1>17, <3>2, <3>3, <3>4
  <2>2. \A q : q \in qp_error => q \in qp_error'
    BY Zenon, <1>2, <1>17 DEF Submit, Post, PollSend, Abort
  <2>3. UNCHANGED <<lifetimeVars, sessionVars, admissionVars, monitor,
                    registryVars, memoryVars>>
    BY Zenon, <1>17 DEF Submit, Post, PollSend
  <2> QED
    BY Zenon, <2>1, <2>2, <2>3 DEF Apart
<1> QED
  BY Zenon, <1>3, <1>4, <1>5, <1>6, <1>7, <1>8, <1>9, <1>10, <1>11, <1>13,
     <1>14, <1>15, <1>16, <1>17 DEF ConnectionStep, Peer, Fabric, Monitor

-----------------------------------------------------------------------------
(* The completion queue.                                                     *)

LOCAL INSTANCE FiniteSetTheorems

\* The places of a sequence of completions that belong to connection c, and
\* those of them that end a send.
PlacesOf(s, c) == {i \in 1 .. Len(s) : s[i].conn = c}
SendsIn(s, c) == {i \in PlacesOf(s, c) : s[i].opcode = "SEND"}

\* There are finitely many completions of a connection.
LEMMA PlacesFinite ==
  ASSUME NEW s \in Seq(Completion), NEW c
  PROVE  /\ IsFiniteSet(PlacesOf(s, c))
         /\ Cardinality(PlacesOf(s, c)) \in Nat
         /\ Cardinality(PlacesOf(s, c)) = 0 <=> PlacesOf(s, c) = {}
<1>1. Len(s) \in Int /\ 1 \in Int
  OBVIOUS
<1>2. IsFiniteSet(1 .. Len(s))
  BY Zenon, <1>1, FS_Interval
<1>3. PlacesOf(s, c) \in SUBSET (1 .. Len(s))
  BY Zenon DEF PlacesOf
<1>4. IsFiniteSet(PlacesOf(s, c))
  BY Zenon, <1>2, <1>3, FS_Subset
<1> QED
  BY Zenon, <1>4, FS_CardinalityType, FS_EmptySet

\* Queue t has n more completions of connection c than s, and of the others the
\* same.
Grown(s, t, c, n) ==
  /\ t \in Seq(Completion)
  /\ Cardinality(PlacesOf(t, c)) = Cardinality(PlacesOf(s, c)) + n
  /\ \A d : d # c => PlacesOf(t, d) = PlacesOf(s, d) /\ SendsIn(t, d) = SendsIn(s, d)

\* Completions that are queued behind the others are counted for their
\* connection alone.
LEMMA QueuedBehind ==
  ASSUME NEW s \in Seq(Completion), NEW u \in Seq(Completion), NEW c,
         \A i \in 1 .. Len(u) : u[i].conn = c
  PROVE  Grown(s, s \o u, c, Len(u))
<1> DEFINE t == s \o u
           new == Len(s) + 1 .. Len(s) + Len(u)
<1>1. /\ t \in Seq(Completion) /\ Len(s) \in Nat /\ Len(u) \in Nat
      /\ Len(t) = Len(s) + Len(u)
      /\ \A i \in 1 .. Len(s) : t[i] = s[i]
      /\ \A i \in new : t[i] = u[i - Len(s)] /\ i - Len(s) \in 1 .. Len(u)
  OBVIOUS
<1>2. /\ \A i : i \in 1 .. Len(t) <=> i \in 1 .. Len(s) \/ i \in new
      /\ \A i \in new : i \notin 1 .. Len(s)
  BY <1>1
<1> HIDE DEF t, new
<1>3. \A i \in new : t[i].conn = c
  BY Zenon, <1>1
<1>4. \A d : d # c => PlacesOf(t, d) = PlacesOf(s, d)
  BY Zenon, <1>1, <1>2, <1>3 DEF PlacesOf
<1>5. \A d : d # c => SendsIn(t, d) = SendsIn(s, d)
  BY Zenon, <1>1, <1>4 DEF SendsIn, PlacesOf
<1>6. /\ PlacesOf(t, c) = PlacesOf(s, c) \cup new
      /\ PlacesOf(s, c) \cap new = {}
  BY Zenon, <1>1, <1>2, <1>3 DEF PlacesOf
<1>7. IsFiniteSet(new) /\ Cardinality(new) = Len(u)
  <2> DEFINE a == Len(s) + 1
             b == Len(s) + Len(u)
  <2>1. a \in Int /\ b \in Int
    BY <1>1
  <2>2. new = a .. b
    BY Zenon DEF new
  <2>3. (IF a > b THEN 0 ELSE b - a + 1) = Len(u)
    BY <1>1
  <2> HIDE DEF a, b
  <2>4. IsFiniteSet(a .. b) /\ Cardinality(a .. b) = IF a > b THEN 0 ELSE b - a + 1
    BY <2>1, FS_Interval
  <2> QED
    BY Zenon, <2>2, <2>3, <2>4
<1>8. Cardinality(PlacesOf(t, c)) =
        Cardinality(PlacesOf(s, c)) + Cardinality(new) - Cardinality({})
  <2>1. IsFiniteSet(PlacesOf(s, c))
    BY Zenon, PlacesFinite
  <2>2. Cardinality(PlacesOf(s, c) \cup new) = Cardinality(PlacesOf(s, c))
          + Cardinality(new) - Cardinality(PlacesOf(s, c) \cap new)
    BY Zenon, <1>7, <2>1, FS_Union
  <2> QED
    BY Zenon, <1>6, <2>2
<1>9. Cardinality(PlacesOf(t, c)) = Cardinality(PlacesOf(s, c)) + Len(u)
  <2>1. Cardinality({}) = 0 /\ Cardinality(PlacesOf(s, c)) \in Nat
    BY Zenon, FS_EmptySet, PlacesFinite
  <2> QED
    BY <1>1, <1>7, <1>8, <2>1
<1> QED
  BY Zenon, <1>1, <1>4, <1>5, <1>9 DEF t, Grown

\* One completion more.
LEMMA QueuedOne ==
  ASSUME NEW s \in Seq(Completion), NEW e \in Completion
  PROVE  Grown(s, Append(s, e), e.conn, 1)
<1>1. Append(s, e) = s \o <<e>> /\ <<e>> \in Seq(Completion) /\ Len(<<e>>) = 1
  OBVIOUS
<1>2. \A i \in 1 .. Len(<<e>>) : <<e>>[i].conn = e.conn
  OBVIOUS
<1>3. Grown(s, s \o <<e>>, e.conn, Len(<<e>>))
  BY Zenon, <1>1, <1>2, QueuedBehind
<1> QED
  BY Zenon, <1>1, <1>3

\* poll_cq takes the oldest completion.
LEMMA TakenFirst ==
  ASSUME NEW s \in Seq(Completion), s # <<>>, NEW c
  PROVE  /\ Tail(s) \in Seq(Completion) /\ Head(s) \in Completion
         /\ Head(s).conn = c =>
              Cardinality(PlacesOf(Tail(s), c)) = Cardinality(PlacesOf(s, c)) - 1
         /\ Head(s).conn # c =>
              Cardinality(PlacesOf(Tail(s), c)) = Cardinality(PlacesOf(s, c))
         /\ Head(s).conn = c => 1 \in PlacesOf(s, c)
<1> DEFINE t == Tail(s)
           rest == PlacesOf(s, c) \ {1}
           f == [i \in PlacesOf(t, c) |-> i + 1]
<1>1. /\ t \in Seq(Completion) /\ Head(s) \in Completion /\ Len(s) \in Nat
      /\ Len(s) >= 1 /\ Len(t) = Len(s) - 1 /\ Head(s) = s[1]
      /\ \A i \in 1 .. Len(t) : t[i] = s[i + 1]
  OBVIOUS
<1>2. 1 \in PlacesOf(s, c) <=> Head(s).conn = c
  BY <1>1 DEF PlacesOf
<1>3. \A i \in PlacesOf(t, c) : i \in Int /\ i + 1 \in rest
  BY <1>1 DEF PlacesOf
<1>4. \A j \in rest : j - 1 \in PlacesOf(t, c) /\ (j - 1) + 1 = j
  BY <1>1 DEF PlacesOf
<1>5. ExistsBijection(PlacesOf(t, c), rest)
  <2> HIDE DEF t, rest
  <2>1. f \in [PlacesOf(t, c) -> rest] /\ \A i \in PlacesOf(t, c) : f[i] = i + 1
    BY Zenon, <1>3
  <2>2. \A j \in rest : \E i \in PlacesOf(t, c) : f[i] = j
    BY Zenon, <1>4, <2>1
  <2>3. \A i, j \in PlacesOf(t, c) : f[i] = f[j] => i = j
    BY <1>3, <2>1
  <2> HIDE DEF f
  <2>4. f \in Bijection(PlacesOf(t, c), rest)
    BY Zenon, <2>1, <2>2, <2>3 DEF Bijection, Injection, Surjection, IsInjective
  <2> QED
    BY Zenon, <2>4 DEF ExistsBijection
<1>6. Cardinality(rest) = Cardinality(PlacesOf(t, c))
  <2> HIDE DEF t, rest
  <2>1. IsFiniteSet(PlacesOf(t, c))
    BY Zenon, <1>1, PlacesFinite
  <2> QED
    BY Zenon, <1>5, <2>1, FS_Bijection
<1>7. Cardinality(rest) = IF 1 \in PlacesOf(s, c)
                          THEN Cardinality(PlacesOf(s, c)) - 1
                          ELSE Cardinality(PlacesOf(s, c))
  BY Zenon, PlacesFinite, FS_RemoveElement
<1> HIDE DEF t, rest
<1> QED
  BY Zenon, <1>1, <1>2, <1>6, <1>7 DEF t

\* What remains of a connection's sends in the queue are those behind the
\* oldest completion.
LEMMA SendsBehind ==
  ASSUME NEW s \in Seq(Completion), s # <<>>, NEW c
  PROVE  \A i \in SendsIn(Tail(s), c) : i + 1 \in SendsIn(s, c) /\ i + 1 # 1
<1>1. /\ Tail(s) \in Seq(Completion) /\ Len(s) \in Nat
      /\ Len(Tail(s)) = Len(s) - 1
      /\ \A i \in 1 .. Len(Tail(s)) : Tail(s)[i] = s[i + 1]
  OBVIOUS
<1> QED
  BY <1>1 DEF SendsIn, PlacesOf

\* Two additions make one.
LEMMA GrownTwice ==
  ASSUME NEW s \in Seq(Completion), NEW t, NEW u, NEW c,
         NEW m \in Nat, NEW n \in Nat, Grown(s, t, c, m), Grown(t, u, c, n)
  PROVE  Grown(s, u, c, m + n)
<1>1. Cardinality(PlacesOf(s, c)) \in Nat
  BY Zenon, PlacesFinite
<1>2. Cardinality(PlacesOf(u, c)) = Cardinality(PlacesOf(s, c)) + (m + n)
  BY <1>1 DEF Grown
<1> QED
  BY Zenon, <1>2 DEF Grown

\* A new place of a send is that of a new completion.
LEMMA NewSends ==
  ASSUME NEW s \in Seq(Completion), NEW u \in Seq(Completion), NEW c,
         NEW i \in SendsIn(s \o u, c)
  PROVE  \/ i \in SendsIn(s, c)
         \/ i - Len(s) \in 1 .. Len(u) /\ u[i - Len(s)].opcode = "SEND"
<1> DEFINE t == s \o u
<1>1. /\ Len(s) \in Nat /\ Len(u) \in Nat /\ Len(t) = Len(s) + Len(u)
      /\ \A j \in 1 .. Len(t) :
           IF j <= Len(s) THEN t[j] = s[j]
           ELSE t[j] = u[j - Len(s)] /\ j - Len(s) \in 1 .. Len(u)
  OBVIOUS
<1>2. i \in 1 .. Len(t) /\ t[i].conn = c /\ t[i].opcode = "SEND"
  BY Zenon DEF SendsIn, PlacesOf
<1> HIDE DEF t
<1> QED
  BY <1>1, <1>2 DEF SendsIn, PlacesOf

\* n completions of connection c arrive, and that of its send if it is no
\* longer posted.
Arrived(c, n) ==
  /\ Grown(cq, cq', c, n)
  /\ \A i \in SendsIn(cq', c) :
       i \in SendsIn(cq, c) \/ (c \in posted /\ c \notin posted' /\ i = Len(cq'))

\* What c counts for as a member of S.
Hold(c, S) == IF c \in S THEN 1 ELSE 0

\* A completion arrives for a frame of the Consumer, and one for a send.
LEMMA OneArrives ==
  ASSUME QueueType, NEW c \in Connection, NEW op \in {"RECV", "SEND"},
         cq' = Append(cq, [conn |-> c, opcode |-> op, ok |-> TRUE]),
         op = "SEND" => c \in posted /\ c \notin posted'
  PROVE  Arrived(c, 1)
<1> DEFINE e == [conn |-> c, opcode |-> op, ok |-> TRUE]
<1>1. e \in Completion /\ e.conn = c /\ e.opcode = op /\ cq \in Seq(Completion)
  BY DEF Completion, QueueType
<1> HIDE DEF e
<1>2. Grown(cq, Append(cq, e), c, 1)
  <2>1. Grown(cq, Append(cq, e), e.conn, 1)
    BY Zenon, <1>1, QueuedOne
  <2> QED
    BY Zenon, <1>1, <2>1
<1>3. /\ Append(cq, e) = cq \o <<e>> /\ <<e>> \in Seq(Completion)
      /\ Len(<<e>>) = 1 /\ <<e>>[1] = e
      /\ Len(cq) \in Nat /\ Len(Append(cq, e)) = Len(cq) + 1
  BY <1>1
<1>4. ASSUME NEW i \in SendsIn(Append(cq, e), c)
      PROVE  i \in SendsIn(cq, c) \/ (op = "SEND" /\ i = Len(Append(cq, e)))
  <2>1. \/ i \in SendsIn(cq, c)
        \/ i - Len(cq) \in 1 .. Len(<<e>>) /\ <<e>>[i - Len(cq)].opcode = "SEND"
    BY Zenon, <1>1, <1>3, <1>4, NewSends
  <2>2. i \in 1 .. Len(Append(cq, e))
    BY Zenon, <1>4 DEF SendsIn, PlacesOf
  <2> QED
    BY <1>1, <1>3, <2>1, <2>2
<1> QED
  BY Zenon, <1>2, <1>4 DEF Arrived, e

\* A broken queue pair completes all its receives and its send.
LEMMA FlushArrives ==
  ASSUME ConnectionType, QueueType, NEW c \in Connection, Flush(c)
  PROVE  Arrived(c, receives[c] + Hold(c, posted))
<1> DEFINE failed(op) == [conn |-> c, opcode |-> op, ok |-> FALSE]
           a == [i \in 1 .. receives[c] |-> failed("RECV")]
           b == IF c \in posted THEN <<failed("SEND")>> ELSE <<>>
<1>1. cq' = (cq \o a) \o b /\ c \notin posted'
  BY Zenon DEF Flush
<1>2. cq \in Seq(Completion) /\ receives[c] \in Nat
  BY Zenon DEF ConnectionType, QueueType
<1>3. /\ a \in Seq(Completion) /\ Len(a) = receives[c]
      /\ \A i \in 1 .. Len(a) : a[i].conn = c /\ a[i].opcode # "SEND"
  <2>1. failed("RECV") \in Completion
    BY DEF Completion
  <2>2. failed("RECV").conn = c /\ failed("RECV").opcode # "SEND"
    OBVIOUS
  <2> HIDE DEF failed
  <2>3. a \in Seq(Completion) /\ Len(a) = receives[c]
    BY <1>2, <2>1
  <2>4. \A i \in 1 .. receives[c] : a[i] = failed("RECV")
    BY Zenon
  <2> QED
    BY Zenon, <2>2, <2>3, <2>4
<1>4. /\ b \in Seq(Completion) /\ Len(b) = Hold(c, posted)
      /\ \A i \in 1 .. Len(b) : b[i].conn = c
  <2>1. failed("SEND") \in Completion
    BY DEF Completion
  <2>2. CASE c \in posted
    BY <2>1, <2>2 DEF Hold
  <2>3. CASE c \notin posted
    BY <2>3 DEF Hold
  <2> QED
    BY Zenon, <2>2, <2>3
<1> HIDE DEF a, b
<1> DEFINE s == cq \o a
<1>5. Grown(cq, s, c, Len(a))
  BY Zenon, <1>2, <1>3, QueuedBehind
<1>6. s \in Seq(Completion)
  BY Zenon, <1>5 DEF Grown
<1> HIDE DEF s
<1>7. Grown(s, s \o b, c, Len(b))
  BY Zenon, <1>4, <1>6, QueuedBehind
<1>8. Grown(cq, s \o b, c, receives[c] + Hold(c, posted))
  <2>1. Hold(c, posted) \in Nat
    BY DEF Hold
  <2> QED
    BY Zenon, <1>2, <1>3, <1>4, <1>5, <1>7, <2>1, GrownTwice
<1>9. ASSUME NEW i \in SendsIn(s \o b, c)
      PROVE  i \in SendsIn(cq, c) \/ (c \in posted /\ i = Len(s \o b))
  <2>1. \/ i \in SendsIn(s, c)
        \/ i - Len(s) \in 1 .. Len(b) /\ b[i - Len(s)].opcode = "SEND"
    BY Zenon, <1>4, <1>6, <1>9, NewSends
  <2>2. CASE i \in SendsIn(s, c)
    <3>1. \/ i \in SendsIn(cq, c)
          \/ i - Len(cq) \in 1 .. Len(a) /\ a[i - Len(cq)].opcode = "SEND"
      BY Zenon, <1>2, <1>3, <2>2, NewSends DEF s
    <3> QED
      BY Zenon, <1>3, <3>1
  <2>3. CASE i - Len(s) \in 1 .. Len(b)
    <3>1. i \in 1 .. Len(s \o b)
      BY Zenon, <1>9 DEF SendsIn, PlacesOf
    <3>2. Len(s \o b) = Len(s) + Len(b) /\ Len(s) \in Nat
      BY <1>4, <1>6
    <3> QED
      BY <1>4, <2>3, <3>1, <3>2 DEF Hold
  <2> QED
    BY Zenon, <2>1, <2>2, <2>3
<1> QED
  BY Zenon, <1>1, <1>8, <1>9 DEF Arrived, s

-----------------------------------------------------------------------------
(* Sends.                                                                    *)

\* One send of a connection is about to be posted, posted or completed at a
\* time, and only while the session has a frame to send.
SendsAt(c) ==
  /\ sends[c] = <<>> => c \notin posted /\ ~Posting(c) /\ SendsIn(cq, c) = {}
  /\ c \in posted => ~Posting(c) /\ SendsIn(cq, c) = {}
  /\ Posting(c) => SendsIn(cq, c) = {}
  /\ \A i, j \in SendsIn(cq, c) : i = j

\* The frames to send are a sequence.
LEMMA FrameNone == \A S : <<>> \in Seq(S)
  OBVIOUS

\* A frame joins those that wait to be sent.
LEMMA FrameAppended ==
  ASSUME NEW S, NEW s \in Seq(S), NEW x \in S
  PROVE  Append(s, x) \in Seq(S) /\ Append(s, x) # <<>>
<1>1. Append(s, x) \in Seq(S)
  OBVIOUS
<1>2. Len(Append(s, x)) = Len(s) + 1 /\ Len(s) \in Nat /\ Len(<<>>) = 0
  OBVIOUS
<1>3. Len(Append(s, x)) # Len(<<>>)
  BY <1>2
<1> QED
  BY Zenon, <1>1, <1>3

\* The oldest frame was sent, and the next, if there is one, follows.
LEMMA FrameTaken ==
  ASSUME NEW S, NEW s \in Seq(S), s # <<>>
  PROVE  /\ Tail(s) \in Seq(S)
         /\ Tail(s) # <<>> => Tail(s)[1] \in S
<1>1. Tail(s) \in Seq(S)
  OBVIOUS
<1>2. \A t \in Seq(S) : t # <<>> => t[1] \in S
  OBVIOUS
<1> QED
  BY Zenon, <1>1, <1>2

QueueInv == QueueType /\ \A c \in Connection : SendsAt(c)

\* A connection that a step does not concern keeps its sends; completions move
\* up when the oldest is taken.
LEMMA SendsKept ==
  ASSUME QueueInv, NEW d \in Connection, NEW k \in {0, 1},
         sends'[d] = sends[d], d \in posted' => d \in posted,
         Posting(d)' => Posting(d),
         \A i \in SendsIn(cq', d) : i + k \in SendsIn(cq, d)
  PROVE  SendsAt(d)'
<1>1. SendsAt(d)
  BY Zenon DEF QueueInv
<1>2. \A i \in SendsIn(cq', d) : i \in Int
  BY DEF SendsIn, PlacesOf
<1>3. SendsIn(cq, d) = {} => SendsIn(cq', d) = {}
  BY Zenon
<1>4. ASSUME NEW i \in SendsIn(cq', d), NEW j \in SendsIn(cq', d)
      PROVE  i = j
  <2>1. i + k = j + k
    BY Zenon, <1>1, <1>4 DEF SendsAt
  <2>2. \A x, y, z \in Int : x + z = y + z => x = y
    OBVIOUS
  <2>3. k \in Int
    OBVIOUS
  <2> QED
    BY Zenon, <1>2, <1>4, <2>1, <2>2, <2>3
<1> QED
  BY Zenon, <1>1, <1>3, <1>4 DEF SendsAt

\* Taking a completion.
LEMMA Takes ==
  ASSUME QueueType, cq # <<>>, cq' = Tail(cq)
  PROVE  /\ cq' \in Seq(Completion)
         /\ \A d : \A i \in SendsIn(cq', d) :
              i \in Int /\ i + 1 \in SendsIn(cq, d) /\ i + 1 # 1
<1>1. cq \in Seq(Completion) /\ cq' \in Seq(Completion)
  BY DEF QueueType
<1>2. \A d : \A i \in SendsIn(cq', d) : i \in Int
  BY DEF SendsIn, PlacesOf
<1> QED
  BY Zenon, <1>1, <1>2, SendsBehind

\* The steps of the event loop, of the connection manager and of the monitors
\* leave the queues alone.
LEMMA QueuesUntouched ==
  ASSUME NEW c,
         \/ DaemonStep \/ PeerConnect(c) \/ PeerEstablish(c) \/ PeerDisconnect(c)
         \/ PeerCrash(c) \/ LinkDown(c) \/ Monitor(c) \/ SnapshotReads(c)
         \/ ConnectRequest(c) \/ Established(c) \/ Disconnected(c)
         \/ DestroyConnection(c)
  PROVE  UNCHANGED <<cq, poll, sends, posted>>
  BY ZenonT(60)
  DEF DaemonStep, LoopCheck, DisconnectProviderConnections, RequestShutdown,
      ReloadAllowlist, SnapshotBegins, vars, PeerConnect, PeerEstablish,
      PeerDisconnect, PeerCrash, LinkDown, Monitor, DeadlineExpires,
      MonitorReclaims, MonitorEnds, SnapshotReads, ConnectRequest, Established,
      Disconnected, DestroyConnection, connectionVars, queueVars

\* Every step keeps the queues and one send at a time.
LEMMA QueueStep ==
  ASSUME ConnectionType, QueueInv, [Next]_vars
  PROVE  QueueInv'
<1> USE DEF connectionVars, queueVars
<1>0. QueueType /\ PollType /\ \A d \in Connection : SendsAt(d)
  BY Zenon DEF QueueInv, QueueType
<1>1. ASSUME UNCHANGED <<cq, poll, sends, posted>>
      PROVE  QueueInv'
  BY Zenon, <1>1 DEF QueueInv, QueueType, PollType, SendsAt, Posting
<1>2. ASSUME NEW c \in Connection, NEW n, Arrived(c, n),
             UNCHANGED <<poll, sends>>, posted' = posted \/ posted' = posted \ {c}
      PROVE  QueueInv'
  <2>1. QueueType'
    BY Zenon, <1>0, <1>2 DEF QueueType, PollType, Arrived, Grown
  <2>2. ASSUME NEW d \in Connection, d # c
        PROVE  SendsAt(d)'
    <3>1. SendsIn(cq', d) = SendsIn(cq, d)
      BY Zenon, <1>2, <2>2 DEF Arrived, Grown
    <3> QED
      BY Zenon, <1>0, <1>2, <2>2, <3>1 DEF SendsAt, Posting
  <2>3. SendsAt(c)'
    <3>1. SendsAt(c) /\ (Posting(c)' <=> Posting(c))
      BY Zenon, <1>0, <1>2 DEF Posting
    <3>2. CASE c \in posted /\ c \notin posted'
      BY Zenon, <1>2, <3>1, <3>2 DEF SendsAt, Arrived
    <3>3. CASE ~(c \in posted /\ c \notin posted')
      BY Zenon, <1>2, <3>1, <3>3 DEF SendsAt, Arrived
    <3> QED
      BY Zenon, <3>2, <3>3
  <2> QED
    BY Zenon, <2>1, <2>2, <2>3 DEF QueueInv
<1>3. ASSUME PollType', UNCHANGED <<sends, posted>>,
             \A d \in Connection : Posting(d)' => Posting(d),
             UNCHANGED cq \/ (cq # <<>> /\ cq' = Tail(cq))
      PROVE  QueueInv'
  <2>1. QueueType'
    BY Zenon, <1>0, <1>3, Takes DEF QueueType
  <2>2. ASSUME NEW d \in Connection
        PROVE  SendsAt(d)'
    <3>1. CASE UNCHANGED cq
      BY Zenon, <1>0, <1>3, <3>1 DEF SendsAt
    <3>2. CASE cq # <<>> /\ cq' = Tail(cq)
      <4>1. \A i \in SendsIn(cq', d) : i + 1 \in SendsIn(cq, d)
        BY Zenon, <1>0, <3>2, Takes
      <4> QED
        BY Zenon, <1>3, <4>1, SendsKept
    <3> QED
      BY Zenon, <1>3, <3>1, <3>2
  <2> QED
    BY Zenon, <2>1, <2>2 DEF QueueInv
<1>4. ASSUME NEW c \in Connection, ConnectionStep(c)
      PROVE  QueueInv'
  <2>1. CASE \/ PeerConnect(c) \/ PeerEstablish(c) \/ PeerDisconnect(c)
             \/ PeerCrash(c) \/ LinkDown(c) \/ Monitor(c) \/ SnapshotReads(c)
             \/ ConnectRequest(c) \/ Established(c) \/ Disconnected(c)
             \/ DestroyConnection(c)
    BY Zenon, <1>1, <2>1, QueuesUntouched
  <2>2. CASE \E m \in Frame(sent[c] + 1) : PeerSend(c, m)
    <3>1. /\ cq' = Append(cq, [conn |-> c, opcode |-> "RECV", ok |-> TRUE])
          /\ UNCHANGED <<poll, sends, posted>>
      BY Zenon, <2>2 DEF PeerSend
    <3>2. "RECV" # "SEND" /\ "RECV" \in {"RECV", "SEND"}
      OBVIOUS
    <3>3. Arrived(c, 1)
      BY Zenon, <1>0, <3>1, <3>2, OneArrives
    <3> QED
      BY Zenon, <1>2, <3>1, <3>3
  <2>3. CASE Flush(c)
    <3>1. Arrived(c, receives[c] + Hold(c, posted))
      BY Zenon, <1>0, <2>3, FlushArrives
    <3>2. UNCHANGED <<poll, sends>> /\ posted' = posted \ {c}
      BY Zenon, <2>3 DEF Flush
    <3> QED
      BY Zenon, <1>2, <3>1, <3>2
  <2>4. CASE SendEnds(c)
    <3>1. UNCHANGED <<poll, sends>> /\ c \in posted
      BY Zenon, <2>4 DEF SendEnds
    <3>2. CASE UNCHANGED <<cq, posted>>
      BY Zenon, <1>1, <3>1, <3>2
    <3>3. CASE /\ cq' = Append(cq, [conn |-> c, opcode |-> "SEND", ok |-> TRUE])
               /\ posted' = posted \ {c}
      <4>1. Arrived(c, 1)
        BY Zenon, <1>0, <3>1, <3>3, OneArrives
      <4> QED
        BY Zenon, <1>2, <3>1, <3>3, <4>1
    <3> QED
      BY Zenon, <2>4, <3>2, <3>3 DEF SendEnds
  <2>5. CASE PollClosing(c)
    <3>1. /\ poll' = Idle /\ UNCHANGED <<sends, posted>>
          /\ cq # <<>> /\ cq' = Tail(cq)
      BY Zenon, <2>5 DEF PollClosing, Finish, Abort
    <3> QED
      BY Zenon, <1>3, <3>1, PollIdle
  <2>6. CASE PollReceive(c)
    <3>1. PICK o \in HandleFrame(c, recv_frame[c]) :
            Abort(c) \/ Continue(o[2], c,
                          IF o[2] = "serve" THEN recv_frame[c] ELSE "BAD",
                          o[1] = "CLOSED")
      BY Zenon, <2>6 DEF PollReceive
    <3>2. o[2] \in {"serve", "abort", "submit", "subscribe"}
      BY <3>1 DEF HandleFrame
    <3>3. o[2] # "idle" /\ o[2] # "post"
      BY <3>2
    <3>4. PollType' /\ \A d \in Connection : ~Posting(d)'
      <4>1. CASE Abort(c)
        BY Zenon, <4>1, PollIdle DEF Abort, Finish
      <4>2. CASE Continue(o[2], c, IF o[2] = "serve" THEN recv_frame[c] ELSE "BAD",
                          o[1] = "CLOSED")
        <5>1. (o[1] = "CLOSED") \in BOOLEAN
          OBVIOUS
        <5> QED
          BY ZenonT(60), <3>3, <4>2, <5>1, PollAt DEF Continue
      <4> QED
        BY Zenon, <3>1, <4>1, <4>2
    <3>5. UNCHANGED <<sends, posted>> /\ cq # <<>> /\ cq' = Tail(cq)
      BY Zenon, <2>6 DEF PollReceive
    <3> QED
      BY Zenon, <1>3, <3>4, <3>5
  <2>7. CASE Subscribe(c) \/ Admit(c) \/ Serve(c)
    <3>1. /\ UNCHANGED <<cq, sends, posted>>
          /\ \/ Abort(c)
             \/ \E step, m : \E close \in BOOLEAN :
                  step \in {"admit", "submit"} /\ Continue(step, c, m, close)
      BY Zenon, <2>7 DEF Subscribe, Admit, Serve
    <3>2. PollType' /\ \A d \in Connection : ~Posting(d)'
      <4>1. CASE Abort(c)
        BY Zenon, <4>1, PollIdle DEF Abort, Finish
      <4>2. CASE \E step, m : \E close \in BOOLEAN :
                   step \in {"admit", "submit"} /\ Continue(step, c, m, close)
        <5>1. \A step \in {"admit", "submit"} : step # "idle" /\ step # "post"
          OBVIOUS
        <5> QED
          BY Zenon, <4>2, <5>1, PollAt DEF Continue
      <4> QED
        BY Zenon, <3>1, <4>1, <4>2
    <3> QED
      BY Zenon, <1>3, <3>1, <3>2
  <2>8. CASE Submit(c)
    <3>1. /\ poll.conn = c /\ poll.step = "submit"
          /\ UNCHANGED <<cq, posted, receives>>
      BY Zenon, <2>8 DEF Submit
    <3>2. /\ sends[c] \in Seq(BOOLEAN) /\ poll.close \in BOOLEAN
          /\ poll = At("submit", c, poll.message, poll.close)
      BY Zenon, <1>0, <3>1 DEF QueueType, PollType
    <3>3. CASE /\ sends[c] = <<>> /\ sends' = [sends EXCEPT ![c] = <<poll.close>>]
               /\ poll' = [poll EXCEPT !.step = "post"]
      <4>1. poll' = At("post", c, poll.message, poll.close) /\ "post" # "idle"
        BY <3>2, <3>3 DEF At
      <4>2. PollType' /\ \A d : Posting(d)' => d = c
        BY Zenon, <3>2, <4>1, PollAt
      <4>3. <<poll.close>> \in Seq(BOOLEAN) /\ <<poll.close>> # <<>>
        BY <3>2
      <4>4. /\ sends' \in [Connection -> Seq(BOOLEAN)] /\ sends'[c] # <<>>
            /\ \A d \in Connection : d # c => sends'[d] = sends[d]
        BY Zenon, <1>0, <3>3, <4>3 DEF QueueType
      <4>5. ASSUME NEW d \in Connection
            PROVE  SendsAt(d)'
        BY Zenon, <1>0, <3>1, <3>3, <4>2, <4>4 DEF SendsAt
      <4> QED
        BY Zenon, <1>0, <3>1, <4>2, <4>4, <4>5 DEF QueueInv, QueueType
    <3>4. CASE /\ Len(sends[c]) = 1
               /\ sends' = [sends EXCEPT ![c] = Append(@, poll.close)]
               /\ Finish(c)
      <4>1. PollType' /\ \A d \in Connection : ~Posting(d)'
        BY Zenon, <3>4, PollIdle DEF Finish
      <4>2. /\ Append(sends[c], poll.close) \in Seq(BOOLEAN)
            /\ Append(sends[c], poll.close) # <<>>
        BY Zenon, <3>2, FrameAppended
      <4>3. sends[c] # <<>>
        BY <3>4
      <4>4. /\ sends' \in [Connection -> Seq(BOOLEAN)] /\ sends'[c] # <<>>
            /\ \A d \in Connection : d # c => sends'[d] = sends[d]
        BY Zenon, <1>0, <3>4, <4>2 DEF QueueType
      <4>5. ASSUME NEW d \in Connection
            PROVE  SendsAt(d)'
        BY Zenon, <1>0, <3>1, <4>1, <4>3, <4>4 DEF SendsAt
      <4> QED
        BY Zenon, <1>0, <3>1, <4>1, <4>4, <4>5 DEF QueueInv, QueueType
    <3>5. CASE Abort(c) /\ UNCHANGED sends
      <4>1. PollType' /\ \A d \in Connection : ~Posting(d)'
        BY Zenon, <3>5, PollIdle DEF Abort, Finish
      <4> QED
        BY Zenon, <1>3, <3>1, <3>5, <4>1
    <3> QED
      BY Zenon, <2>8, <3>3, <3>4, <3>5 DEF Submit
  <2>9. CASE Post(c)
    <3>1. Posting(c) /\ UNCHANGED cq /\ poll' = Idle
      BY Zenon, <2>9 DEF Post, Posting, Finish
    <3>2. PollType' /\ \A d \in Connection : ~Posting(d)'
      BY Zenon, <3>1, PollIdle
    <3>3. \/ posted' = posted \cup {c} /\ UNCHANGED sends
          \/ sends' = [sends EXCEPT ![c] = <<>>] /\ UNCHANGED posted
      BY Zenon, <2>9 DEF Post
    <3>4. <<>> \in Seq(BOOLEAN)
      OBVIOUS
    <3>5. /\ sends' \in [Connection -> Seq(BOOLEAN)]
          /\ \A d \in Connection : d # c => sends'[d] = sends[d]
      BY Zenon, <1>0, <3>3, <3>4 DEF QueueType
    <3>6. ASSUME NEW d \in Connection
          PROVE  SendsAt(d)'
      <4>1. CASE d = c
        BY Zenon, <1>0, <3>1, <3>2, <3>3, <4>1 DEF SendsAt
      <4>2. CASE d # c
        BY Zenon, <1>0, <3>1, <3>2, <3>3, <3>5, <4>2 DEF SendsAt
      <4> QED
        BY Zenon, <4>1, <4>2
    <3> QED
      BY Zenon, <1>0, <3>1, <3>2, <3>5, <3>6 DEF QueueInv, QueueType
  <2>10. CASE PollSend(c)
    <3>1. /\ cq # <<>> /\ cq' = Tail(cq) /\ UNCHANGED posted
          /\ Head(cq) = [conn |-> c, opcode |-> "SEND", ok |-> TRUE]
      BY Zenon, <2>10 DEF PollSend
    <3>2. cq' \in Seq(Completion)
      BY Zenon, <1>0, <3>1, Takes
    <3>3. 1 \in SendsIn(cq, c)
      BY <1>0, <3>1 DEF QueueType, SendsIn, PlacesOf
    <3>4. SendsIn(cq', c) = {} /\ sends[c] # <<>> /\ c \notin posted
      <4>1. SendsAt(c)
        BY Zenon, <1>0
      <4>2. ASSUME NEW i \in SendsIn(cq', c)
            PROVE  FALSE
        <5>1. i + 1 \in SendsIn(cq, c) /\ i + 1 # 1
          BY Zenon, <1>0, <3>1, <4>2, Takes
        <5> QED
          BY Zenon, <3>3, <4>1, <5>1 DEF SendsAt
      <4> QED
        BY Zenon, <3>3, <4>1, <4>2 DEF SendsAt
    <3>5. sends[c] \in Seq(BOOLEAN)
      BY Zenon, <1>0 DEF QueueType
    <3>6. /\ \/ sends' = [sends EXCEPT ![c] = <<>>] /\ poll' = Idle
             \/ sends' = [sends EXCEPT ![c] = Tail(sends[c])] /\ poll' = Idle
             \/ /\ sends' = [sends EXCEPT ![c] = Tail(sends[c])]
                /\ Tail(sends[c]) # <<>>
                /\ poll' = At("post", c, "BAD", Tail(sends[c])[1])
      BY Zenon, <2>10 DEF PollSend, Abort, Finish
    <3>7. /\ <<>> \in Seq(BOOLEAN) /\ Tail(sends[c]) \in Seq(BOOLEAN)
          /\ Tail(sends[c]) # <<>> => Tail(sends[c])[1] \in BOOLEAN
      BY Zenon, <3>4, <3>5, FrameTaken, FrameNone
    <3>8. /\ sends' \in [Connection -> Seq(BOOLEAN)]
          /\ \A d \in Connection : d # c => sends'[d] = sends[d]
          /\ sends'[c] = <<>> \/ sends'[c] = Tail(sends[c])
      BY Zenon, <1>0, <3>6, <3>7 DEF QueueType
    <3>9. /\ PollType' /\ \A d \in Connection : Posting(d)' => d = c
          /\ Posting(c)' => sends'[c] # <<>>
      <4>1. CASE poll' = Idle
        BY Zenon, <4>1, PollIdle
      <4>2. CASE /\ sends' = [sends EXCEPT ![c] = Tail(sends[c])]
                 /\ Tail(sends[c]) # <<>>
                 /\ poll' = At("post", c, "BAD", Tail(sends[c])[1])
        <5>1. "post" # "idle"
          OBVIOUS
        <5>2. sends'[c] = Tail(sends[c])
          BY Zenon, <1>0, <4>2 DEF QueueType
        <5> QED
          BY Zenon, <3>7, <4>2, <5>1, <5>2, PollAt
      <4> QED
        BY Zenon, <3>6, <4>1, <4>2
    <3>10. ASSUME NEW d \in Connection
           PROVE  SendsAt(d)'
      <4>1. CASE d = c
        BY Zenon, <3>1, <3>4, <3>9, <4>1 DEF SendsAt
      <4>2. CASE d # c
        <5>1. \A i \in SendsIn(cq', d) : i + 1 \in SendsIn(cq, d)
          BY Zenon, <1>0, <3>1, Takes
        <5> QED
          BY Zenon, <3>1, <3>8, <3>9, <4>2, <5>1, SendsKept
      <4> QED
        BY Zenon, <4>1, <4>2
    <3> QED
      BY Zenon, <3>2, <3>8, <3>9, <3>10 DEF QueueInv, QueueType
  <2> QED
    BY Zenon, <1>4, <2>1, <2>2, <2>3, <2>4, <2>5, <2>6, <2>7, <2>8, <2>9, <2>10
    DEF ConnectionStep, Peer, Fabric
<1>5. CASE DaemonStep
  BY Zenon, <1>1, <1>5, QueuesUntouched
<1> QED
  BY Zenon, <1>4, <1>5, Steps

=============================================================================
