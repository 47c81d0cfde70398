---------------------- MODULE ProviderConnection_proofs ----------------------
(*****************************************************************************)
(* The life of a Provider's connections, for any number of connections,      *)
(* frames and reloads.  The references of a connection are counted by who    *)
(* holds them (Counted); a connection that is freed has none, so nobody      *)
(* reaches it, and one that the monitor reclaimed has none left to bring it  *)
(* back.  The credential of a member is followed from AUTH to the last       *)
(* reload (AdmittedAt).                                                      *)
(*****************************************************************************)
EXTENDS ConnectionEvents_proofs

-----------------------------------------------------------------------------
(* References.                                                               *)

Pending(c) == Cardinality(PlacesOf(cq, c))

\* on_completion holds a reference, and another for the send it is about to
\* post.
PollHolds(c) ==
  IF poll.conn # c THEN 0 ELSE IF poll.step = "post" THEN 2 ELSE 1

Monitored(c) == monitor[c] \in {"waiting", "draining"}

MonitorHolds(c) == IF Monitored(c) THEN 1 ELSE 0

\* Who holds a reference: posted receives, completions that were not taken, the
\* completion thread, a posted send, the observability server and the monitor.
CountedAt(c) ==
  references[c] = receives[c] + Pending(c) + PollHolds(c) + Hold(c, posted)
                    + Hold(c, retained) + MonitorHolds(c)

Counted == \A c \in Connection : CountedAt(c)

\* The holders are counted in natural numbers.
LEMMA HolderTypes ==
  ASSUME ConnectionType, QueueType, NEW c \in Connection
  PROVE  /\ references[c] \in Int /\ receives[c] \in Nat /\ Pending(c) \in Nat
         /\ PollHolds(c) \in Nat /\ Hold(c, posted) \in {0, 1}
         /\ Hold(c, retained) \in {0, 1} /\ MonitorHolds(c) \in {0, 1}
<1>1. references[c] \in Int /\ receives[c] \in Nat
  BY Zenon DEF ConnectionType
<1>2. Pending(c) \in Nat
  BY Zenon, PlacesFinite DEF Pending, QueueType
<1>3. PollHolds(c) \in Nat
  BY DEF PollHolds
<1>4. /\ Hold(c, posted) \in {0, 1} /\ Hold(c, retained) \in {0, 1}
      /\ MonitorHolds(c) \in {0, 1}
  BY Zenon DEF Hold, MonitorHolds
<1> QED
  BY Zenon, <1>1, <1>2, <1>3, <1>4

\* Nobody holds a connection without references.
LEMMA Unheld ==
  ASSUME ConnectionType, QueueType, NEW c \in Connection, CountedAt(c),
         references[c] <= 0
  PROVE  /\ receives[c] = 0 /\ PlacesOf(cq, c) = {} /\ poll.conn # c
         /\ c \notin posted /\ c \notin retained /\ ~Monitored(c)
<1>1. /\ receives[c] = 0 /\ Pending(c) = 0 /\ PollHolds(c) = 0
      /\ Hold(c, posted) = 0 /\ Hold(c, retained) = 0
      /\ MonitorHolds(c) = 0
  <2>1. /\ references[c] \in Int /\ receives[c] \in Nat /\ Pending(c) \in Nat
        /\ PollHolds(c) \in Nat /\ Hold(c, posted) \in {0, 1}
        /\ Hold(c, retained) \in {0, 1} /\ MonitorHolds(c) \in {0, 1}
    BY Zenon, HolderTypes
  <2> QED
    BY <2>1 DEF CountedAt
<1>2. PlacesOf(cq, c) = {}
  BY Zenon, <1>1, PlacesFinite DEF Pending, QueueType
<1>3. poll.conn # c
  BY <1>1 DEF PollHolds
<1>4. c \notin posted /\ c \notin retained /\ ~Monitored(c)
  BY <1>1 DEF Hold, MonitorHolds
<1> QED
  BY Zenon, <1>1, <1>2, <1>3, <1>4

\* The monitor is the last to hold a connection with one reference.
LEMMA MonitorLast ==
  ASSUME ConnectionType, QueueType, NEW c \in Connection, CountedAt(c),
         references[c] <= 1, Monitored(c)
  PROVE  references[c] = 1 /\ poll.conn # c
<1>1. MonitorHolds(c) = 1
  BY Zenon DEF Hold, MonitorHolds
<1>2. /\ references[c] \in Int /\ receives[c] \in Nat /\ Pending(c) \in Nat
      /\ PollHolds(c) \in Nat /\ Hold(c, posted) \in {0, 1}
      /\ Hold(c, retained) \in {0, 1}
  BY Zenon, HolderTypes
<1>3. references[c] = 1 /\ PollHolds(c) = 0
  BY <1>1, <1>2 DEF CountedAt
<1> QED
  BY <1>3 DEF PollHolds

\* A step leaves the holders of connection d alone.
SameHolders(d) ==
  /\ references'[d] = references[d] /\ receives'[d] = receives[d]
  /\ Pending(d)' = Pending(d) /\ PollHolds(d)' = PollHolds(d)
  /\ d \in posted' <=> d \in posted
  /\ d \in retained' <=> d \in retained
  /\ Monitored(d)' <=> Monitored(d)

\* Then its references are still those of its holders.
LEMMA SameCount ==
  ASSUME NEW d, CountedAt(d), SameHolders(d)
  PROVE  CountedAt(d)'
  BY Zenon DEF SameHolders, CountedAt, Hold, MonitorHolds

\* What poll_cq and its work are worth.
LEMMA PollCounts ==
  /\ poll' = Idle => \A d \in Connection : PollHolds(d)' = 0
  /\ PollType /\ poll.step = "idle" => \A d \in Connection : PollHolds(d) = 0
  /\ \A c \in Connection : PollType /\ poll.conn = c =>
       /\ PollHolds(c) = IF poll.step = "post" THEN 2 ELSE 1
       /\ \A d \in Connection : d # c => PollHolds(d) = 0
  /\ \A c \in Connection : \A step, m : \A close \in BOOLEAN :
       step # "idle" /\ poll' = At(step, c, m, close) =>
         /\ PollHolds(c)' = IF step = "post" THEN 2 ELSE 1
         /\ \A d \in Connection : d # c => PollHolds(d)' = 0
<1>1. ASSUME poll' = Idle, NEW d \in Connection
      PROVE  PollHolds(d)' = 0
  BY Zenon, <1>1, PollIdle DEF PollHolds
<1>2. ASSUME PollType, poll.step = "idle", NEW d \in Connection
      PROVE  PollHolds(d) = 0
  BY Zenon, <1>2, ProviderConnectionAssumption DEF PollHolds, PollType
<1>3. ASSUME NEW c \in Connection, PollType, poll.conn = c
      PROVE  /\ PollHolds(c) = IF poll.step = "post" THEN 2 ELSE 1
             /\ \A d \in Connection : d # c => PollHolds(d) = 0
  BY Zenon, <1>3 DEF PollHolds
<1>4. ASSUME NEW c \in Connection, NEW step, NEW m, NEW close \in BOOLEAN,
             step # "idle", poll' = At(step, c, m, close)
      PROVE  /\ PollHolds(c)' = IF step = "post" THEN 2 ELSE 1
             /\ \A d \in Connection : d # c => PollHolds(d)' = 0
  <2>1. poll'.step = step /\ poll'.conn = c
    BY Zenon, <1>4, PollAt
  <2> QED
    BY Zenon, <2>1 DEF PollHolds
<1> QED
  BY Zenon, <1>1, <1>2, <1>3, <1>4

\* Completions are counted when they arrive and when they are taken.
LEMMA PendingCounts ==
  ASSUME QueueType, NEW c \in Connection
  PROVE  /\ \A n : Arrived(c, n) =>
              /\ Pending(c)' = Pending(c) + n
              /\ \A d : d # c => Pending(d)' = Pending(d)
         /\ cq # <<>> /\ Head(cq).conn = c /\ cq' = Tail(cq) =>
              /\ Pending(c)' = Pending(c) - 1
              /\ \A d : d # c => Pending(d)' = Pending(d)
<1>1. cq \in Seq(Completion)
  BY Zenon DEF QueueType
<1>2. ASSUME NEW n, Arrived(c, n)
      PROVE  /\ Pending(c)' = Pending(c) + n
             /\ \A d : d # c => Pending(d)' = Pending(d)
  BY Zenon, <1>2 DEF Arrived, Grown, Pending
<1>3. ASSUME cq # <<>>, Head(cq).conn = c, cq' = Tail(cq)
      PROVE  /\ Pending(c)' = Pending(c) - 1
             /\ \A d : d # c => Pending(d)' = Pending(d)
  BY Zenon, <1>1, <1>3, TakenFirst DEF Pending
<1> QED
  BY Zenon, <1>2, <1>3

\* Every step keeps the count.
LEMMA CountedStep ==
  ASSUME ConnectionType, QueueInv, Counted, [Next]_vars,
         \A c \in Connection : ConnectRequest(c) => references[c] = 0
  PROVE  Counted'
<1> USE DEF connectionVars, lifetimeVars, queueVars
<1>0. QueueType /\ PollType
  BY Zenon DEF QueueInv, QueueType
<1>1. ASSUME NEW d \in Connection
      PROVE  /\ CountedAt(d)
             /\ references[d] \in Int /\ receives[d] \in Nat
             /\ Pending(d) \in Nat /\ PollHolds(d) \in Nat
             /\ Hold(d, posted) \in {0, 1} /\ Hold(d, retained) \in {0, 1}
             /\ MonitorHolds(d) \in {0, 1}
  BY Zenon, <1>0, HolderTypes DEF Counted
<1>2. ASSUME UNCHANGED <<references, receives, cq, poll, posted, retained, monitor>>
      PROVE  Counted'
  <2>1. ASSUME NEW d \in Connection
        PROVE  SameHolders(d)
    BY Zenon, <1>2 DEF SameHolders, Pending, PollHolds, Monitored
  <2> QED
    BY Zenon, <1>1, <2>1, SameCount DEF Counted
<1>3. ASSUME NEW c \in Connection, CountedAt(c)',
             \A d \in Connection : d # c => SameHolders(d)
      PROVE  Counted'
  BY Zenon, <1>1, <1>3, SameCount DEF Counted
<1>4. CASE DaemonStep
  <2>1. CASE SnapshotBegins
    <3>1. /\ retained = {} /\ retained' = Live \ closing
          /\ UNCHANGED <<receives, cq, poll, posted, monitor>>
      BY Zenon, <2>1 DEF SnapshotBegins
    <3>2. ASSUME NEW d \in Connection
          PROVE  CountedAt(d)'
      <4>1. references'[d] = IF d \in Live \ closing THEN references[d] + 1
                             ELSE references[d]
        BY Zenon, <2>1 DEF SnapshotBegins
      <4>2. /\ receives'[d] = receives[d] /\ Pending(d)' = Pending(d)
            /\ PollHolds(d)' = PollHolds(d) /\ (d \in posted' <=> d \in posted)
            /\ Monitored(d)' <=> Monitored(d)
        BY Zenon, <3>1 DEF Pending, PollHolds, Monitored
      <4>3. CASE d \in Live \ closing
        <5>1. /\ references'[d] = references[d] + 1
              /\ Hold(d, retained) = 0 /\ Hold(d, retained') = 1
              /\ Hold(d, posted') = Hold(d, posted)
              /\ MonitorHolds(d)' = MonitorHolds(d)
          BY Zenon, <3>1, <4>1, <4>2, <4>3 DEF Hold, MonitorHolds
        <5> QED
          BY <1>1, <4>2, <5>1 DEF CountedAt
      <4>4. CASE d \notin Live \ closing
        <5>1. SameHolders(d)
          BY Zenon, <3>1, <4>1, <4>2, <4>4 DEF SameHolders
        <5> QED
          BY Zenon, <1>1, <5>1, SameCount
      <4> QED
        BY Zenon, <4>3, <4>4
    <3> QED
      BY Zenon, <3>2 DEF Counted
  <2>2. CASE LoopCheck \/ DisconnectProviderConnections \/ RequestShutdown
    BY Zenon, <1>2, <2>2
    DEF LoopCheck, DisconnectProviderConnections, RequestShutdown
  <2>3. CASE ReloadAllowlist \/ UNCHANGED vars
    BY Zenon, <1>2, <2>3 DEF ReloadAllowlist, vars
  <2> QED
    BY Zenon, <1>4, <2>1, <2>2, <2>3 DEF DaemonStep
<1>5. ASSUME NEW c \in Connection, ConnectionStep(c)
      PROVE  Counted'
  <2>1. CASE PeerConnect(c) \/ PeerEstablish(c) \/ PeerDisconnect(c) \/ PeerCrash(c)
    BY Zenon, <1>2, <2>1 DEF PeerConnect, PeerEstablish, PeerDisconnect, PeerCrash
  <2>2. CASE LinkDown(c) \/ Disconnected(c) \/ DestroyConnection(c)
    BY Zenon, <1>2, <2>2 DEF LinkDown, Disconnected, DestroyConnection
  <2>3. ASSUME NEW n \in Nat, Arrived(c, n),
               UNCHANGED <<references, poll, retained, monitor>>,
               receives'[c] + n + Hold(c, posted') =
                 receives[c] + Hold(c, posted),
               receives'[c] \in Nat, posted' = posted \/ posted' = posted \ {c},
               \A d \in Connection : d # c => receives'[d] = receives[d]
        PROVE  Counted'
    <3>1. /\ Pending(c)' = Pending(c) + n
          /\ \A d : d # c => Pending(d)' = Pending(d)
      BY Zenon, <1>0, <2>3, PendingCounts
    <3>2. /\ \A d : PollHolds(d)' = PollHolds(d)
          /\ \A d : Monitored(d)' <=> Monitored(d)
          /\ \A d : d \in retained' <=> d \in retained
          /\ \A d : d # c => (d \in posted' <=> d \in posted)
      BY Zenon, <2>3 DEF PollHolds, Monitored
    <3>3. \A d \in Connection : d # c => SameHolders(d)
      BY Zenon, <2>3, <3>1, <3>2 DEF SameHolders
    <3>4. CountedAt(c)'
      <4>1. /\ Hold(c, posted') \in {0, 1}
            /\ Hold(c, retained') = Hold(c, retained)
            /\ MonitorHolds(c)' = MonitorHolds(c)
            /\ references'[c] = references[c] /\ PollHolds(c)' = PollHolds(c)
        BY Zenon, <2>3, <3>2 DEF Hold, MonitorHolds
      <4> QED
        BY <1>1, <2>3, <3>1, <4>1 DEF CountedAt
    <3> QED
      BY Zenon, <1>3, <3>3, <3>4
  <2>4. ASSUME UNCHANGED <<retained, monitor>>,
               \A d \in Connection : d # c =>
                 /\ references'[d] = references[d] /\ receives'[d] = receives[d]
                 /\ Pending(d)' = Pending(d) /\ PollHolds(d)' = PollHolds(d)
                 /\ d \in posted' <=> d \in posted,
               references'[c] = receives'[c] + Pending(c)' + PollHolds(c)'
                 + Hold(c, posted') + Hold(c, retained) + MonitorHolds(c)
        PROVE  Counted'
    <3>1. /\ \A d : Monitored(d)' <=> Monitored(d)
          /\ \A d : d \in retained' <=> d \in retained
      BY Zenon, <2>4 DEF Monitored
    <3>2. \A d \in Connection : d # c => SameHolders(d)
      BY Zenon, <2>4, <3>1 DEF SameHolders
    <3>3. CountedAt(c)'
      BY Zenon, <2>4, <3>1 DEF CountedAt, MonitorHolds
    <3> QED
      BY Zenon, <1>3, <3>2, <3>3
  <2>5. /\ references \in [Connection -> Int] /\ receives \in [Connection -> Nat]
        /\ monitor \in [Connection ->
                          {"none", "waiting", "draining", "reclaimed", "done"}]
    BY Zenon DEF ConnectionType
  <2>6. CASE \E m \in Frame(sent[c] + 1) : PeerSend(c, m)
    <3>1. /\ cq' = Append(cq, [conn |-> c, opcode |-> "RECV", ok |-> TRUE])
          /\ receives[c] > 0 /\ receives' = [receives EXCEPT ![c] = @ - 1]
          /\ UNCHANGED <<references, poll, retained, monitor, posted>>
      BY Zenon, <2>6 DEF PeerSend
    <3>2. "RECV" # "SEND" /\ "RECV" \in {"RECV", "SEND"}
      OBVIOUS
    <3>3. Arrived(c, 1)
      BY Zenon, <1>0, <3>1, <3>2, OneArrives
    <3>4. /\ receives'[c] = receives[c] - 1
          /\ \A d \in Connection : d # c => receives'[d] = receives[d]
      BY Zenon, <2>5, <3>1
    <3>5. /\ 1 \in Nat /\ receives'[c] \in Nat
          /\ receives'[c] + 1 + Hold(c, posted) = receives[c] + Hold(c, posted)
      BY <1>1, <3>1, <3>4
    <3> QED
      BY Zenon, <2>3, <3>1, <3>3, <3>4, <3>5
  <2>7. CASE Flush(c)
    <3>1. Arrived(c, receives[c] + Hold(c, posted))
      BY Zenon, <1>0, <2>7, FlushArrives
    <3>2. /\ UNCHANGED <<references, poll, retained, monitor>>
          /\ posted' = posted \ {c} /\ receives' = [receives EXCEPT ![c] = 0]
      BY Zenon, <2>7 DEF Flush
    <3>3. /\ receives'[c] = 0
          /\ \A d \in Connection : d # c => receives'[d] = receives[d]
          /\ Hold(c, posted') = 0
      BY Zenon, <2>5, <3>2 DEF Hold
    <3>4. /\ receives[c] + Hold(c, posted) \in Nat /\ receives'[c] \in Nat
          /\ receives'[c] + (receives[c] + Hold(c, posted)) + Hold(c, posted') =
               receives[c] + Hold(c, posted)
      BY <1>1, <3>3
    <3> QED
      BY Zenon, <2>3, <3>1, <3>2, <3>3, <3>4
  <2>8. CASE SendEnds(c)
    <3>1. UNCHANGED <<references, poll, retained, monitor, receives>> /\ c \in posted
      BY Zenon, <2>8 DEF SendEnds
    <3>2. CASE UNCHANGED <<cq, posted>>
      BY Zenon, <1>2, <3>1, <3>2
    <3>3. CASE /\ cq' = Append(cq, [conn |-> c, opcode |-> "SEND", ok |-> TRUE])
               /\ posted' = posted \ {c}
      <4>1. Arrived(c, 1)
        BY Zenon, <1>0, <3>1, <3>3, OneArrives
      <4>2. Hold(c, posted') = 0 /\ Hold(c, posted) = 1 /\ receives'[c] = receives[c]
        BY Zenon, <3>1, <3>3 DEF Hold
      <4>3. /\ 1 \in Nat /\ receives'[c] \in Nat
            /\ receives'[c] + 1 + Hold(c, posted') = receives[c] + Hold(c, posted)
        BY SMTT(60), Z3T(60), ZenonT(120), <1>1, <4>2
      <4> QED
        BY Zenon, <2>3, <3>1, <3>3, <4>1, <4>3
    <3> QED
      BY Zenon, <2>8, <3>2, <3>3 DEF SendEnds
  <2>9. ASSUME UNCHANGED <<receives, cq, poll, posted, retained>>,
               \A d \in Connection : d # c =>
                 references'[d] = references[d] /\ monitor'[d] = monitor[d],
               references'[c] = references[c] + MonitorHolds(c)' - MonitorHolds(c),
               MonitorHolds(c)' \in {0, 1}
        PROVE  Counted'
    <3>1. /\ \A d : Pending(d)' = Pending(d) /\ PollHolds(d)' = PollHolds(d)
          /\ receives'[c] = receives[c] /\ Hold(c, posted') = Hold(c, posted)
          /\ Hold(c, retained') = Hold(c, retained)
      BY Zenon, <2>9 DEF Pending, PollHolds
    <3>2. \A d \in Connection : d # c => SameHolders(d)
      BY Zenon, <2>9, <3>1 DEF SameHolders, Monitored
    <3>3. CountedAt(c)'
      BY <1>1, <2>9, <3>1 DEF CountedAt
    <3> QED
      BY Zenon, <1>3, <3>2, <3>3
  <2>10. CASE Monitor(c)
    <3>1. UNCHANGED <<receives, cq, poll, posted, retained>>
      BY Zenon, <2>10 DEF Monitor, DeadlineExpires, MonitorReclaims, MonitorEnds
    <3>2. CASE DeadlineExpires(c)
      <4>1. /\ monitor[c] = "waiting" /\ monitor'[c] = "draining"
            /\ UNCHANGED references
            /\ \A d \in Connection : d # c => monitor'[d] = monitor[d]
        BY Zenon, <2>5, <3>2 DEF DeadlineExpires
      <4>2. MonitorHolds(c) = 1 /\ MonitorHolds(c)' = 1
        BY Zenon, <4>1 DEF MonitorHolds, Monitored
      <4>3. /\ references'[c] = references[c] + MonitorHolds(c)' - MonitorHolds(c)
            /\ MonitorHolds(c)' \in {0, 1}
        BY <1>1, <4>1, <4>2
      <4> QED
        BY Zenon, <2>9, <3>1, <4>1, <4>3
    <3>3. CASE MonitorReclaims(c) \/ MonitorEnds(c)
      <4>1. /\ monitor[c] \in {"waiting", "draining"}
            /\ monitor'[c] \in {"reclaimed", "done"}
            /\ references'[c] = references[c] - 1
            /\ \A d \in Connection : d # c =>
                 references'[d] = references[d] /\ monitor'[d] = monitor[d]
        BY Zenon, <2>5, <3>3 DEF MonitorReclaims, MonitorEnds
      <4>2. monitor'[c] \notin {"waiting", "draining"}
        BY <4>1
      <4>3. MonitorHolds(c) = 1 /\ MonitorHolds(c)' = 0
        BY Zenon, <4>1, <4>2 DEF MonitorHolds, Monitored
      <4>4. /\ references'[c] = references[c] + MonitorHolds(c)' - MonitorHolds(c)
            /\ MonitorHolds(c)' \in {0, 1}
        BY SMTT(60), Z3T(60), ZenonT(120), <1>1, <4>1, <4>3
      <4> QED
        BY Zenon, <2>9, <3>1, <4>1, <4>4
    <3> QED
      BY Zenon, <2>10, <3>2, <3>3 DEF Monitor
  <2>11. CASE SnapshotReads(c)
    <3>1. /\ c \in retained /\ retained' = retained \ {c}
          /\ references' = [references EXCEPT ![c] = @ - 1]
          /\ UNCHANGED <<receives, cq, poll, posted, monitor>>
      BY Zenon, <2>11 DEF SnapshotReads
    <3>2. /\ references'[c] = references[c] - 1
          /\ \A d \in Connection : d # c => references'[d] = references[d]
          /\ Hold(c, retained) = 1 /\ Hold(c, retained') = 0
          /\ Hold(c, posted') = Hold(c, posted) /\ receives'[c] = receives[c]
      BY Zenon, <2>5, <3>1 DEF Hold
    <3>3. /\ \A d : Pending(d)' = Pending(d) /\ PollHolds(d)' = PollHolds(d)
          /\ \A d : Monitored(d)' <=> Monitored(d)
          /\ MonitorHolds(c)' = MonitorHolds(c)
      BY Zenon, <3>1 DEF Pending, PollHolds, Monitored, MonitorHolds
    <3>4. \A d \in Connection : d # c => SameHolders(d)
      BY Zenon, <3>1, <3>2, <3>3 DEF SameHolders
    <3>5. CountedAt(c)'
      BY <1>1, <3>2, <3>3 DEF CountedAt
    <3> QED
      BY Zenon, <1>3, <3>4, <3>5
  <2>12. CASE ConnectRequest(c)
    <3>1. UNCHANGED <<cq, poll, posted, retained>>
      BY Zenon, <2>12 DEF ConnectRequest
    <3>2. CASE UNCHANGED <<references, monitor, receives>>
      BY Zenon, <1>2, <3>1, <3>2
    <3>3. CASE /\ references' = [references EXCEPT ![c] = 2]
               /\ monitor' = [monitor EXCEPT ![c] = "waiting"]
               /\ receives' = [receives EXCEPT ![c] = 1]
      <4>1. references[c] <= 0
        <5>1. references[c] = 0
          BY Zenon, <2>12
        <5> QED
          BY <5>1
      <4>2. /\ PlacesOf(cq, c) = {} /\ poll.conn # c
            /\ c \notin posted /\ c \notin retained
        BY Zenon, <1>0, <1>1, <4>1, Unheld
      <4>3. Pending(c)' = 0
        BY Zenon, <1>0, <3>1, <4>2, PlacesFinite DEF Pending, QueueType
      <4>4. /\ references'[c] = 2 /\ receives'[c] = 1 /\ MonitorHolds(c)' = 1
            /\ PollHolds(c)' = 0 /\ Hold(c, posted') = 0 /\ Hold(c, retained') = 0
        BY Zenon, <2>5, <3>1, <3>3, <4>2
        DEF MonitorHolds, Monitored, PollHolds, Hold
      <4>5. CountedAt(c)'
        BY <4>3, <4>4 DEF CountedAt
      <4>6. \A d \in Connection : d # c => SameHolders(d)
        BY Zenon, <2>5, <3>1, <3>3 DEF SameHolders, Monitored, Pending, PollHolds
      <4> QED
        BY Zenon, <1>3, <4>5, <4>6
    <3> QED
      BY Zenon, <2>12, <3>2, <3>3 DEF ConnectRequest
  <2>13. CASE Established(c)
    <3> DEFINE more == IF c \in closing THEN 0 ELSE 1
    <3>1. /\ references' = [references EXCEPT ![c] = @ + more]
          /\ receives' = [receives EXCEPT ![c] = @ + more]
          /\ UNCHANGED <<cq, poll, posted, retained, monitor>>
      BY Zenon, <2>13 DEF Established
    <3>2. more \in {0, 1}
      OBVIOUS
    <3> HIDE DEF more
    <3>3. /\ references'[c] = references[c] + more /\ receives'[c] = receives[c] + more
          /\ \A d \in Connection : d # c =>
               references'[d] = references[d] /\ receives'[d] = receives[d]
          /\ Hold(c, posted') = Hold(c, posted)
      BY Zenon, <2>5, <3>1
    <3>4. \A d : /\ Pending(d)' = Pending(d) /\ PollHolds(d)' = PollHolds(d)
                 /\ d \in posted' <=> d \in posted
      BY Zenon, <3>1 DEF Pending, PollHolds
    <3>5. references'[c] = receives'[c] + Pending(c)' + PollHolds(c)'
            + Hold(c, posted') + Hold(c, retained) + MonitorHolds(c)
      BY SMTT(60), Z3T(60), ZenonT(120), <1>1, <3>2, <3>3, <3>4 DEF CountedAt
    <3> QED
      BY Zenon, <2>4, <3>1, <3>3, <3>4, <3>5
  \* The completion thread at work on c: references and what it holds of them.
  <2>14. ASSUME UNCHANGED <<receives, cq, posted, retained, monitor>>,
                poll.conn = c,
                \A d \in Connection : d # c =>
                  references'[d] = references[d] /\ PollHolds(d)' = 0,
                PollHolds(c)' \in {0, 1, 2},
                references'[c] = references[c] + PollHolds(c)' - PollHolds(c)
         PROVE  Counted'
    <3>1. \A d \in Connection : d # c => PollHolds(d) = 0
      BY Zenon, <1>0, <2>14, PollCounts
    <3>2. /\ \A d : Pending(d)' = Pending(d) /\ receives'[d] = receives[d]
          /\ \A d : d \in posted' <=> d \in posted
          /\ Hold(c, posted') = Hold(c, posted)
      BY Zenon, <2>14 DEF Pending
    <3>3. \A d \in Connection : d # c => PollHolds(d)' = PollHolds(d)
      BY Zenon, <2>14, <3>1
    <3>4. references'[c] = receives'[c] + Pending(c)' + PollHolds(c)'
            + Hold(c, posted') + Hold(c, retained) + MonitorHolds(c)
      BY <1>1, <2>14, <3>2 DEF CountedAt
    <3> QED
      BY Zenon, <2>4, <2>14, <3>2, <3>3, <3>4
  <2>15. ASSUME Finish(c)
         PROVE  /\ references'[c] = references[c] - 1
                /\ \A d \in Connection : PollHolds(d)' = 0
                /\ \A d \in Connection : d # c => references'[d] = references[d]
    <3>1. poll' = Idle /\ references' = [references EXCEPT ![c] = @ - 1]
      BY Zenon, <2>15 DEF Finish
    <3> QED
      BY Zenon, <2>5, <3>1, PollCounts
  <2>16. ASSUME NEW step, NEW m, NEW close \in BOOLEAN,
                step # "idle", step # "post", Continue(step, c, m, close)
         PROVE  /\ references' = references /\ PollHolds(c)' = 1
                /\ \A d \in Connection : d # c => PollHolds(d)' = 0
    <3>1. poll' = At(step, c, m, close) /\ references' = references
      BY Zenon, <2>16 DEF Continue
    <3> QED
      BY Zenon, <2>16, <3>1, PollCounts
  <2>17. CASE Subscribe(c) \/ Admit(c) \/ Serve(c)
    <3>1. /\ UNCHANGED <<receives, cq, posted, retained, monitor>>
          /\ poll.conn = c /\ poll.step \in {"subscribe", "admit", "serve"}
      BY Zenon, <2>17 DEF Subscribe, Admit, Serve
    <3>2. PollHolds(c) = 1
      <4>1. poll.step # "post"
        BY <3>1
      <4> QED
        BY Zenon, <1>0, <3>1, <4>1, PollCounts
    <3>3. CASE Abort(c)
      <4>1. /\ references'[c] = references[c] - 1
            /\ \A d \in Connection : PollHolds(d)' = 0
            /\ \A d \in Connection : d # c => references'[d] = references[d]
        BY Zenon, <2>15, <3>3 DEF Abort
      <4>2. /\ references'[c] = references[c] + PollHolds(c)' - PollHolds(c)
            /\ PollHolds(c)' \in {0, 1, 2}
        BY <1>1, <3>2, <4>1
      <4> QED
        BY Zenon, <2>14, <3>1, <4>1, <4>2
    <3>4. CASE \E step \in {"admit", "submit"} : \E m : \E close \in BOOLEAN :
                 Continue(step, c, m, close)
      <4>1. PICK step \in {"admit", "submit"} : \E m : \E close \in BOOLEAN :
              Continue(step, c, m, close)
        BY Zenon, <3>4
      <4>2. step # "idle" /\ step # "post"
        BY <4>1
      <4>3. /\ references' = references /\ PollHolds(c)' = 1
            /\ \A d \in Connection : d # c => PollHolds(d)' = 0
        BY Zenon, <2>16, <4>1, <4>2
      <4>4. /\ references'[c] = references[c] + PollHolds(c)' - PollHolds(c)
            /\ PollHolds(c)' \in {0, 1, 2}
        BY <1>1, <3>2, <4>3
      <4> QED
        BY Zenon, <2>14, <3>1, <4>3, <4>4
    <3>5. TRUE \in BOOLEAN /\ FALSE \in BOOLEAN
      OBVIOUS
    <3> QED
      BY Zenon, <2>17, <3>3, <3>4, <3>5 DEF Subscribe, Admit, Serve
  <2>18. CASE Submit(c)
    <3>1. /\ UNCHANGED <<receives, cq, posted, retained, monitor>>
          /\ poll.conn = c /\ poll.step = "submit"
      BY Zenon, <2>18 DEF Submit
    <3>2. PollHolds(c) = 1
      <4>1. poll.step # "post"
        BY <3>1
      <4> QED
        BY Zenon, <1>0, <3>1, <4>1, PollCounts
    <3>3. CASE Finish(c)
      <4>1. /\ references'[c] = references[c] - 1
            /\ \A d \in Connection : PollHolds(d)' = 0
            /\ \A d \in Connection : d # c => references'[d] = references[d]
        BY Zenon, <2>15, <3>3
      <4>2. /\ references'[c] = references[c] + PollHolds(c)' - PollHolds(c)
            /\ PollHolds(c)' \in {0, 1, 2}
        BY <1>1, <3>2, <4>1
      <4> QED
        BY Zenon, <2>14, <3>1, <4>1, <4>2
    <3>4. CASE /\ references' = [references EXCEPT ![c] = @ + 1]
               /\ poll' = [poll EXCEPT !.step = "post"]
      <4>1. /\ references'[c] = references[c] + 1
            /\ \A d \in Connection : d # c => references'[d] = references[d]
        BY Zenon, <2>5, <3>4
      <4>2. poll'.step = "post" /\ poll'.conn = c
        <5>1. poll = At(poll.step, poll.conn, poll.message, poll.close)
          BY Zenon, <1>0 DEF PollType
        <5> QED
          BY <3>1, <3>4, <5>1 DEF At
      <4>3. PollHolds(c)' = 2 /\ \A d \in Connection : d # c => PollHolds(d)' = 0
        BY Zenon, <4>2 DEF PollHolds
      <4>4. /\ references'[c] = references[c] + PollHolds(c)' - PollHolds(c)
            /\ PollHolds(c)' \in {0, 1, 2}
        BY SMTT(60), Z3T(60), ZenonT(120), <1>1, <3>2, <4>1, <4>3
      <4> QED
        BY Zenon, <2>14, <3>1, <4>1, <4>3, <4>4
    <3> QED
      BY Zenon, <2>18, <3>3, <3>4 DEF Submit, Abort
  <2>19. CASE Post(c)
    <3>1. /\ UNCHANGED <<receives, cq, retained, monitor>>
          /\ poll.conn = c /\ poll.step = "post"
      BY Zenon, <2>19 DEF Post
    <3>2. PollHolds(c) = 2 /\ \A d \in Connection : d # c => PollHolds(d) = 0
      BY Zenon, <1>0, <3>1, PollCounts
    <3>3. CASE Finish(c) /\ posted' = posted \cup {c}
      <4>1. /\ references'[c] = references[c] - 1
            /\ \A d \in Connection : PollHolds(d)' = 0
            /\ \A d \in Connection : d # c => references'[d] = references[d]
        BY Zenon, <2>15, <3>3
      <4>2. c \notin posted
        BY Zenon, <3>1 DEF QueueInv, SendsAt, Posting
      <4>3. /\ Hold(c, posted) = 0 /\ Hold(c, posted') = 1
            /\ \A d : d # c => (d \in posted' <=> d \in posted)
            /\ \A d : Pending(d)' = Pending(d) /\ receives'[d] = receives[d]
        BY Zenon, <3>1, <3>3, <4>2 DEF Hold, Pending
      <4>4. references'[c] = receives'[c] + Pending(c)' + PollHolds(c)'
              + Hold(c, posted') + Hold(c, retained) + MonitorHolds(c)
        <5>1. PollHolds(c)' = 0
          BY Zenon, <4>1
        <5> QED
          BY SMTT(60), Z3T(60), ZenonT(120), <1>1, <3>2, <4>1, <4>3, <5>1 DEF CountedAt
      <4> QED
        BY Zenon, <2>4, <3>1, <3>2, <4>1, <4>3, <4>4
    <3>4. CASE /\ references' = [references EXCEPT ![c] = @ - 2]
               /\ poll' = Idle /\ UNCHANGED posted
      <4>1. /\ references'[c] = references[c] - 2
            /\ \A d \in Connection : PollHolds(d)' = 0
            /\ \A d \in Connection : d # c => references'[d] = references[d]
        BY Zenon, <2>5, <3>4, PollCounts
      <4>2. /\ references'[c] = references[c] + PollHolds(c)' - PollHolds(c)
            /\ PollHolds(c)' \in {0, 1, 2}
        BY <1>1, <3>2, <4>1
      <4> QED
        BY Zenon, <2>14, <3>1, <3>4, <4>1, <4>2
    <3> QED
      BY Zenon, <2>19, <3>3, <3>4 DEF Post
  \* The completion thread takes a completion of c.
  <2>20. ASSUME poll.step = "idle", cq # <<>>, Head(cq).conn = c, cq' = Tail(cq),
                UNCHANGED <<posted, retained, monitor>>,
                \A d \in Connection : d # c =>
                  /\ references'[d] = references[d] /\ receives'[d] = receives[d]
                  /\ PollHolds(d)' = 0,
                PollHolds(c)' \in {0, 1, 2}, receives'[c] \in Nat,
                references'[c] = references[c] - 1 + PollHolds(c)'
                                   + (receives'[c] - receives[c])
         PROVE  Counted'
    <3>1. \A d \in Connection : PollHolds(d) = 0
      BY Zenon, <1>0, <2>20, PollCounts
    <3>2. /\ Pending(c)' = Pending(c) - 1
          /\ \A d : d # c => Pending(d)' = Pending(d)
      BY Zenon, <1>0, <2>20, PendingCounts
    <3>3. Hold(c, posted') = Hold(c, posted) /\ \A d : d \in posted' <=> d \in posted
      BY Zenon, <2>20
    <3>4. \A d \in Connection : d # c => PollHolds(d)' = PollHolds(d)
      BY Zenon, <2>20, <3>1
    <3>5. references'[c] = receives'[c] + Pending(c)' + PollHolds(c)'
            + Hold(c, posted') + Hold(c, retained) + MonitorHolds(c)
      <4>1. PollHolds(c) = 0
        BY Zenon, <3>1
      <4>2. /\ PollHolds(c)' \in {0, 1, 2} /\ receives'[c] \in Nat
            /\ references'[c] = references[c] - 1 + PollHolds(c)'
                                  + (receives'[c] - receives[c])
        BY Zenon, <2>20
      <4>3. references[c] = receives[c] + Pending(c) + PollHolds(c)
              + Hold(c, posted) + Hold(c, retained) + MonitorHolds(c)
        BY Zenon, <1>1 DEF CountedAt
      <4>4. Pending(c)' = Pending(c) - 1 /\ Hold(c, posted') = Hold(c, posted)
        BY Zenon, <3>2, <3>3
      <4> QED
        BY SMTT(60), Z3T(60), ZenonT(120), <1>1, <4>1, <4>2, <4>3, <4>4
    <3> QED
      BY Zenon, <2>4, <2>20, <3>2, <3>3, <3>4, <3>5
  <2>21. ASSUME poll.step = "idle", cq # <<>>, Head(cq).conn = c, cq' = Tail(cq),
                UNCHANGED <<posted, retained, monitor, receives>>, Finish(c)
         PROVE  Counted'
    <3>1. /\ references'[c] = references[c] - 1
          /\ \A d \in Connection : PollHolds(d)' = 0
          /\ \A d \in Connection : d # c => references'[d] = references[d]
      BY Zenon, <2>15, <2>21
    <3>2. \A d : receives'[d] = receives[d]
      BY Zenon, <2>21
    <3>3. /\ PollHolds(c)' \in {0, 1, 2} /\ receives'[c] \in Nat
          /\ references'[c] = references[c] - 1 + PollHolds(c)'
                                + (receives'[c] - receives[c])
      BY <1>1, <3>1, <3>2
    <3> QED
      BY Zenon, <2>20, <2>21, <3>1, <3>2, <3>3
  <2>22. CASE PollClosing(c)
    BY Zenon, <2>21, <2>22 DEF PollClosing, Abort
  <2>23. CASE PollReceive(c)
    <3>1. /\ poll.step = "idle" /\ cq # <<>> /\ cq' = Tail(cq)
          /\ Head(cq).conn = c
          /\ UNCHANGED <<posted, retained, monitor, receives>>
      <4>1. Head(cq) = [conn |-> c, opcode |-> "RECV", ok |-> TRUE]
        BY Zenon, <2>23 DEF PollReceive
      <4>2. Head(cq).conn = c
        BY <4>1
      <4> QED
        BY Zenon, <2>23, <4>2 DEF PollReceive
    <3>2. PICK o \in HandleFrame(c, recv_frame[c]) :
            Abort(c) \/ Continue(o[2], c,
                             IF o[2] = "serve" THEN recv_frame[c] ELSE "BAD",
                             o[1] = "CLOSED")
      BY Zenon, <2>23 DEF PollReceive
    <3>3. CASE Abort(c)
      BY Zenon, <2>21, <3>1, <3>3 DEF Abort
    <3>4. CASE Continue(o[2], c, IF o[2] = "serve" THEN recv_frame[c] ELSE "BAD",
                        o[1] = "CLOSED")
      <4>1. o[2] \in {"serve", "abort", "submit", "subscribe"}
        BY <3>2 DEF HandleFrame
      <4>2. o[2] # "idle" /\ o[2] # "post" /\ (o[1] = "CLOSED") \in BOOLEAN
        BY <4>1
      <4>3. /\ references' = references /\ PollHolds(c)' = 1
            /\ \A d \in Connection : d # c => PollHolds(d)' = 0
        BY Zenon, <2>16, <3>4, <4>2
      <4>4. receives'[c] = receives[c] /\ references'[c] = references[c]
        BY Zenon, <3>1, <4>3
      <4>5. /\ PollHolds(c)' \in {0, 1, 2} /\ receives'[c] \in Nat
            /\ references'[c] = references[c] - 1 + PollHolds(c)'
                                  + (receives'[c] - receives[c])
        BY <1>1, <4>3, <4>4
      <4> QED
        BY Zenon, <2>20, <3>1, <4>3, <4>5
    <3> QED
      BY Zenon, <3>2, <3>3, <3>4
  <2>24. CASE PollSend(c)
    <3>1. /\ poll.step = "idle" /\ cq # <<>> /\ cq' = Tail(cq)
          /\ Head(cq).conn = c
          /\ UNCHANGED <<posted, retained, monitor>>
      <4>1. Head(cq) = [conn |-> c, opcode |-> "SEND", ok |-> TRUE]
        BY Zenon, <2>24 DEF PollSend
      <4>2. Head(cq).conn = c
        BY <4>1
      <4> QED
        BY Zenon, <2>24, <4>2 DEF PollSend
    <3>2. CASE Abort(c) /\ UNCHANGED receives
      BY Zenon, <2>21, <3>1, <3>2 DEF Abort
    <3>3. CASE /\ receives' = [receives EXCEPT ![c] = @ + 1]
               /\ poll' = Idle /\ UNCHANGED references
      <4>1. /\ receives'[c] = receives[c] + 1 /\ references'[c] = references[c]
            /\ \A d \in Connection : PollHolds(d)' = 0
            /\ \A d \in Connection : d # c =>
                 references'[d] = references[d] /\ receives'[d] = receives[d]
        BY Zenon, <2>5, <3>3, PollCounts
      <4>2. /\ PollHolds(c)' \in {0, 1, 2} /\ receives'[c] \in Nat
            /\ references'[c] = references[c] - 1 + PollHolds(c)'
                                  + (receives'[c] - receives[c])
        BY <1>1, <4>1
      <4> QED
        BY Zenon, <2>20, <3>1, <4>1, <4>2
    <3>4. CASE /\ receives' = [receives EXCEPT ![c] = @ + 1]
               /\ Tail(sends[c]) # <<>>
               /\ poll' = At("post", c, "BAD", Tail(sends[c])[1])
               /\ references' = [references EXCEPT ![c] = @ + 2]
      <4>1. /\ receives'[c] = receives[c] + 1
            /\ references'[c] = references[c] + 2
            /\ \A d \in Connection : d # c =>
                 references'[d] = references[d] /\ receives'[d] = receives[d]
        BY Zenon, <2>5, <3>4
      <4>2. poll'.step = "post" /\ poll'.conn = c
        BY Zenon, <3>4 DEF At
      <4>3. PollHolds(c)' = 2 /\ \A d \in Connection : d # c => PollHolds(d)' = 0
        BY Zenon, <4>2 DEF PollHolds
      <4>4. /\ PollHolds(c)' \in {0, 1, 2} /\ receives'[c] \in Nat
            /\ references'[c] = references[c] - 1 + PollHolds(c)'
                                  + (receives'[c] - receives[c])
        BY <1>1, <4>1, <4>3
      <4> QED
        BY Zenon, <2>20, <3>1, <4>1, <4>3, <4>4
    <3> QED
      BY Zenon, <2>24, <3>2, <3>3, <3>4 DEF PollSend
  <2> QED
    BY Zenon, <1>5, <2>1, <2>2, <2>6, <2>7, <2>8, <2>10, <2>11, <2>12, <2>13,
       <2>17, <2>18, <2>19, <2>22, <2>23, <2>24
    DEF ConnectionStep, Peer, Fabric
<1> QED
  BY Zenon, <1>4, <1>5, Steps


-----------------------------------------------------------------------------
(* Lifetimes.                                                                *)

\* The completion thread takes a completion of c or works on one.
Polls(c) ==
  \/ PollClosing(c) \/ PollReceive(c) \/ PollSend(c)
  \/ Subscribe(c) \/ Admit(c) \/ Serve(c) \/ Submit(c) \/ Post(c)

\* It holds a reference then.
LEMMA PollsHeld ==
  ASSUME ConnectionType, QueueInv, Counted, NEW c \in Connection, Polls(c)
  PROVE  ~(references[c] <= 0)
<1>1. QueueType /\ CountedAt(c) /\ cq \in Seq(Completion)
  BY Zenon DEF QueueInv, QueueType, Counted
<1>2. CASE poll.conn = c
  BY Zenon, <1>1, <1>2, Unheld
<1>3. CASE cq # <<>> /\ Head(cq).conn = c
  <2>1. 1 \in PlacesOf(cq, c)
    BY <1>1, <1>3 DEF PlacesOf
  <2> QED
    BY Zenon, <1>1, <2>1, Unheld
<1>4. CASE PollReceive(c)
  <2>1. cq # <<>> /\ Head(cq) = [conn |-> c, opcode |-> "RECV", ok |-> TRUE]
    BY Zenon, <1>4 DEF PollReceive
  <2>2. Head(cq).conn = c
    BY <2>1
  <2> QED
    BY Zenon, <1>3, <2>1, <2>2
<1>5. CASE PollSend(c)
  <2>1. cq # <<>> /\ Head(cq) = [conn |-> c, opcode |-> "SEND", ok |-> TRUE]
    BY Zenon, <1>5 DEF PollSend
  <2>2. Head(cq).conn = c
    BY <2>1
  <2> QED
    BY Zenon, <1>3, <2>1, <2>2
<1> QED
  BY Zenon, <1>2, <1>3, <1>4, <1>5
  DEF Polls, PollClosing, Subscribe, Admit, Serve, Submit, Post

\* A connection that is not built, that is freed or that the monitor reclaimed
\* has no references; a freed one is not subscribed and no member.
LifeAt(c) ==
  /\ object[c] = "none" => monitor[c] = "none"
  /\ object[c] = "freed" => monitor[c] \in {"reclaimed", "done"}
  /\ object[c] # "live" => references[c] = 0
  /\ monitor[c] \in {"draining", "reclaimed", "done"} => c \in closing
  /\ monitor[c] = "reclaimed" => references[c] = 0
  /\ c \in listeners \cup auth_subscribed \cup members => object[c] = "live"

\* The completion thread takes c through its admission.
Admitting(c) == poll.conn = c /\ poll.step = "admit"

Enrolling(c) == poll.conn = c /\ poll.step \in {"subscribe", "admit"}

\* A member is subscribed, and disconnected unless its credential is in force.
AdmittedAt(c) ==
  /\ c \in granted => c \in members
  /\ c \in members =>
       /\ c \in listeners /\ c \in auth_subscribed
       /\ state[c] \in {"READY", "CLOSED"} /\ monitor[c] # "reclaimed"
       /\ Authorized(c) \/ c \in qp_error
  /\ c \in listeners => c \in auth_subscribed \/ Admitting(c)
  /\ Enrolling(c) => c \notin members /\ state[c] = "READY"
  /\ Admitting(c) => c \in listeners /\ (Authorized(c) \/ c \in qp_error)

LivesInv == \A c \in Connection : LifeAt(c) /\ AdmittedAt(c)

\* What another connection's step leaves alone stays as it was.
LEMMA LivesApart ==
  ASSUME NEW d, Apart(d), LifeAt(d), AdmittedAt(d)
  PROVE  LifeAt(d)' /\ AdmittedAt(d)'
<1> USE DEF Apart
<1>1. LifeAt(d)'
  BY Zenon DEF LifeAt
<1>2. /\ Admitting(d)' <=> Admitting(d)
      /\ Enrolling(d)' <=> Enrolling(d)
  BY Zenon DEF Admitting, Enrolling
<1>3. Authorized(d)' <=> Authorized(d)
  BY Zenon DEF Authorized
<1>4. AdmittedAt(d)'
  BY Zenon, <1>2, <1>3 DEF AdmittedAt
<1> QED
  BY Zenon, <1>1, <1>4

\* A connection that is referenced lives on.
LEMMA HeldLives ==
  ASSUME ConnectionType, NEW c \in Connection, LifeAt(c), ~(references[c] <= 0),
         object'[c] = object[c], monitor'[c] = monitor[c],
         c \in closing => c \in closing'
  PROVE  LifeAt(c)' /\ object[c] = "live" /\ monitor[c] # "reclaimed"
<1>1. references[c] # 0
  BY DEF ConnectionType
<1>2. object[c] = "live" /\ monitor[c] # "reclaimed"
  BY Zenon, <1>1 DEF LifeAt
<1>3. object[c] # "none" /\ object[c] # "freed"
  BY <1>2
<1> QED
  BY Zenon, <1>2, <1>3 DEF LifeAt

\* A request is for a connection that was not built yet.
LEMMA RequestFresh ==
  ASSUME EventsInv, LivesInv, NEW c \in Connection, ConnectRequest(c)
  PROVE  object[c] = "none" /\ references[c] = 0
<1>1. events \in Seq(Event) /\ EventsAt(c) /\ LifeAt(c)
  BY Zenon DEF EventsInv, LivesInv
<1>2. Take("CONNECT_REQUEST", c)
  BY Zenon DEF ConnectRequest
<1>3. EventOf(1, c) /\ events[1][1] = "CONNECT_REQUEST"
  BY Zenon, <1>1, <1>2, EventTaken
<1>4. link[c] = "requested"
  BY <1>1, <1>3 DEF EventsAt, ReportedAt
<1>5. link[c] \in {"none", "requested", "rejected"} /\ "none" # "live"
  BY <1>4
<1>6. object[c] = "none"
  BY Zenon, <1>1, <1>5 DEF EventsAt, BuiltAt
<1> QED
  BY Zenon, <1>1, <1>5, <1>6 DEF LifeAt

\* ESTABLISHED is handled for a connection that lives.
LEMMA EstablishedLives ==
  ASSUME ConnectionType, EventsInv, NEW c \in Connection, Established(c)
  PROVE  object[c] = "live"
<1>1. events \in Seq(Event) /\ EventsAt(c)
  BY Zenon DEF EventsInv
<1>2. Take("ESTABLISHED", c)
  BY Zenon DEF Established
<1>3. EventOf(1, c) /\ events[1][1] = "ESTABLISHED"
  BY Zenon, <1>1, <1>2, EventTaken
<1>4. link[c] \in {"established", "disconnecting", "down"}
  BY <1>1, <1>3 DEF EventsAt, ReportedAt
<1>5. link[c] \notin {"none", "requested", "rejected"}
  BY <1>4
<1>6. object[c] # "none" /\ object[c] # "freed"
  BY Zenon, <1>1, <1>3, <1>5 DEF EventsAt, BuiltAt
<1> QED
  BY <1>6 DEF ConnectionType

\* A step of a connection keeps what is known of its life.
LEMMA LifeStep ==
  ASSUME ConnectionType, QueueInv, Counted, EventsInv, LivesInv,
         NEW c \in Connection, ConnectionStep(c)
  PROVE  LifeAt(c)'
<1> USE DEF peerVars, loopVars, connectionVars, lifetimeVars, sessionVars,
            admissionVars, queueVars, memoryVars, registryVars
<1>1. /\ LifeAt(c) /\ AdmittedAt(c) /\ QueueType /\ CountedAt(c)
      /\ memory_connected = members /\ references[c] \in Int
      /\ object \in [Connection -> {"none", "live", "freed"}]
      /\ references \in [Connection -> Int]
      /\ monitor \in [Connection ->
                        {"none", "waiting", "draining", "reclaimed", "done"}]
  BY Zenon DEF LivesInv, QueueInv, Counted, ConnectionType
<1>2. ASSUME UNCHANGED <<object, references, monitor, closing, listeners,
                         auth_subscribed, members>>
      PROVE  LifeAt(c)'
  BY Zenon, <1>1, <1>2 DEF LifeAt
<1>3. CASE PeerConnect(c) \/ PeerEstablish(c) \/ PeerDisconnect(c) \/ PeerCrash(c)
  BY Zenon, <1>2, <1>3 DEF PeerConnect, PeerEstablish, PeerDisconnect, PeerCrash
<1>4. CASE (\E m \in Frame(sent[c] + 1) : PeerSend(c, m)) \/ LinkDown(c)
  BY Zenon, <1>2, <1>4 DEF PeerSend, LinkDown
<1>5. CASE Flush(c) \/ SendEnds(c)
  BY Zenon, <1>2, <1>5 DEF Flush, SendEnds
<1>6. CASE Polls(c)
  <2>1. ~(references[c] <= 0)
    BY Zenon, <1>6, PollsHeld
  <2>2. UNCHANGED <<object, monitor, closing>>
    BY Zenon, <1>6
    DEF Polls, PollClosing, PollReceive, PollSend, Subscribe, Admit, Serve,
        Submit, Post
  <2> QED
    BY Zenon, <1>1, <2>1, <2>2, HeldLives
<1>7. CASE SnapshotReads(c)
  <2>1. c \in retained /\ UNCHANGED <<object, monitor, closing>>
    BY Zenon, <1>7 DEF SnapshotReads
  <2>2. ~(references[c] <= 0)
    BY Zenon, <1>1, <2>1, Unheld
  <2> QED
    BY Zenon, <1>1, <2>1, <2>2, HeldLives
<1>8. CASE Disconnected(c)
  BY Zenon, <1>1, <1>8 DEF Disconnected, LifeAt
<1>9. CASE Established(c)
  <2>1. object[c] = "live"
    BY Zenon, <1>9, EstablishedLives
  <2>2. /\ UNCHANGED <<object, monitor, closing, listeners, auth_subscribed, members>>
        /\ references' = [references EXCEPT ![c] =
                            @ + (IF c \in closing THEN 0 ELSE 1)]
    BY Zenon, <1>9 DEF Established
  <2>3. CASE c \notin closing
    <3>1. monitor[c] \notin {"draining", "reclaimed", "done"}
      BY Zenon, <1>1, <2>3 DEF LifeAt
    <3>2. monitor'[c] # "reclaimed" /\ object'[c] = "live" /\ object'[c] # "none"
          /\ object'[c] # "freed" /\ monitor'[c] \notin {"draining", "reclaimed", "done"}
      BY <2>1, <2>2, <3>1
    <3> QED
      BY Zenon, <3>2 DEF LifeAt
  <2>4. CASE c \in closing
    <3>1. references'[c] = references[c] + 0
      BY Zenon, <1>1, <2>2, <2>4
    <3>2. references'[c] = references[c]
      BY <1>1, <3>1
    <3> QED
      BY Zenon, <1>1, <2>2, <3>2 DEF LifeAt
  <2> QED
    BY Zenon, <2>3, <2>4
<1>10. CASE ConnectRequest(c)
  <2>1. CASE UNCHANGED <<object, references, monitor>>
    BY Zenon, <1>2, <1>10, <2>1 DEF ConnectRequest
  <2>2. CASE /\ object' = [object EXCEPT ![c] = "live"]
             /\ monitor' = [monitor EXCEPT ![c] = "waiting"]
    <3>1. object'[c] = "live" /\ monitor'[c] = "waiting"
      BY Zenon, <1>1, <2>2
    <3>2. /\ object'[c] # "none" /\ object'[c] # "freed"
          /\ monitor'[c] \notin {"draining", "reclaimed", "done"}
          /\ monitor'[c] # "reclaimed"
      BY <3>1
    <3> QED
      BY Zenon, <3>1, <3>2 DEF LifeAt
  <2> QED
    BY Zenon, <1>10, <2>1, <2>2 DEF ConnectRequest
<1>11. ASSUME monitor[c] \in {"waiting", "draining"}
       PROVE  object[c] = "live"
  <2>1. monitor[c] # "none" /\ monitor[c] \notin {"reclaimed", "done"}
    BY <1>11
  <2>2. object[c] # "none" /\ object[c] # "freed"
    BY Zenon, <1>1, <2>1 DEF LifeAt
  <2> QED
    BY <1>1, <2>2
<1>12. CASE DeadlineExpires(c)
  <2>1. /\ monitor[c] = "waiting" /\ monitor'[c] = "draining" /\ c \in closing'
        /\ UNCHANGED object
    BY Zenon, <1>1, <1>12 DEF DeadlineExpires
  <2>2. object[c] = "live"
    BY Zenon, <1>11, <2>1
  <2>3. object'[c] # "none" /\ object'[c] # "freed" /\ monitor'[c] # "reclaimed"
    BY <2>1, <2>2
  <2> QED
    BY Zenon, <2>1, <2>2, <2>3 DEF LifeAt
<1>13. CASE MonitorReclaims(c)
  <2>1. /\ monitor[c] = "draining" /\ monitor'[c] = "reclaimed"
        /\ references[c] <= 1 /\ references'[c] = references[c] - 1
        /\ UNCHANGED <<object, closing>>
    BY Zenon, <1>1, <1>13 DEF MonitorReclaims, Drained
  <2>2. object[c] = "live"
    BY Zenon, <1>11, <2>1
  <2>3. object'[c] # "none" /\ object'[c] # "freed"
    BY <2>1, <2>2
  <2>4. references[c] = 1
    BY Zenon, <1>1, <2>1, MonitorLast DEF Monitored
  <2>5. references'[c] = 0
    BY <2>1, <2>4
  <2>6. c \in closing
    BY Zenon, <1>1, <2>1 DEF LifeAt
  <2> QED
    BY Zenon, <2>1, <2>2, <2>3, <2>5, <2>6 DEF LifeAt
<1>14. CASE MonitorEnds(c)
  <2>1. /\ monitor[c] = "waiting" /\ monitor'[c] = "done" /\ c \in closing'
        /\ UNCHANGED object
    BY Zenon, <1>1, <1>14 DEF MonitorEnds
  <2>2. object[c] = "live"
    BY Zenon, <1>11, <2>1
  <2>3. object'[c] # "none" /\ object'[c] # "freed" /\ monitor'[c] # "reclaimed"
    BY <2>1, <2>2
  <2> QED
    BY Zenon, <2>1, <2>2, <2>3 DEF LifeAt
<1>15. CASE DestroyConnection(c)
  <2>1. /\ references[c] = 0 /\ monitor[c] \in {"reclaimed", "done"}
        /\ object'[c] = "freed"
        /\ listeners' = IF c \in auth_subscribed THEN listeners \ {c} ELSE listeners
        /\ members' = IF c \in memory_connected THEN members \ {c} ELSE members
        /\ auth_subscribed' = auth_subscribed \ {c}
        /\ UNCHANGED <<references, monitor, closing>>
    BY Zenon, <1>1, <1>15 DEF DestroyConnection, Unreferenced
  <2>2. references[c] <= 0 /\ object'[c] # "none"
    BY <2>1
  <2>3. poll.conn # c
    BY Zenon, <1>1, <2>2, Unheld
  <2>4. c \notin listeners' /\ c \notin members' /\ c \notin auth_subscribed'
    BY Zenon, <1>1, <2>1, <2>3 DEF AdmittedAt, Admitting
  <2>5. monitor[c] \in {"draining", "reclaimed", "done"}
    BY <2>1
  <2>6. c \in closing
    BY Zenon, <1>1, <2>5 DEF LifeAt
  <2> QED
    BY Zenon, <2>1, <2>2, <2>4, <2>6 DEF LifeAt
<1> QED
  BY Zenon, <1>3, <1>4, <1>5, <1>6, <1>7, <1>8, <1>9, <1>10, <1>12, <1>13,
     <1>14, <1>15 DEF ConnectionStep, Peer, Fabric, Monitor, Polls

\* What a frame makes of a session: one that was accepted stays so or is
\* closed, and only AUTH leads to the subscription.
LEMMA FrameHandled ==
  ASSUME ConnectionType, NEW c \in Connection, NEW m, NEW o \in HandleFrame(c, m)
  PROVE  /\ o[2] \in {"serve", "abort", "submit", "subscribe"}
         /\ o[2] = "subscribe" => o[1] = "READY" /\ state[c] = "WAIT_AUTH"
         /\ state[c] \in {"READY", "CLOSED"} => o[1] \in {"READY", "CLOSED"}
  BY DEF ConnectionType, HandleFrame

\* A step of a connection keeps what is known of its admission.
LEMMA AdmittedStep ==
  ASSUME ConnectionType, QueueInv, Counted, LivesInv,
         NEW c \in Connection, ConnectionStep(c)
  PROVE  AdmittedAt(c)'
<1> USE DEF peerVars, loopVars, connectionVars, lifetimeVars, sessionVars,
            admissionVars, queueVars, memoryVars, registryVars
<1>1. /\ LifeAt(c) /\ AdmittedAt(c) /\ QueueType /\ PollType /\ CountedAt(c)
      /\ memory_connected = members
      /\ monitor \in [Connection ->
                        {"none", "waiting", "draining", "reclaimed", "done"}]
      /\ state \in [Connection -> {"WAIT_HELLO", "WAIT_AUTH", "READY", "CLOSED"}]
      /\ authorization_version \in [Connection -> Nat]
  BY Zenon DEF LivesInv, QueueInv, QueueType, Counted, ConnectionType
<1>2. ASSUME NEW S, Disconnect(S)
      PROVE  \A q : q \in qp_error => q \in qp_error'
  BY Zenon, <1>2 DEF Disconnect
<1>3. ASSUME UNCHANGED <<authorization_version, version, allowed>>
      PROVE  Authorized(c)' <=> Authorized(c)
  BY Zenon, <1>3 DEF Authorized
\* The steps of the environment, the event loop and the monitor.
<1>4. ASSUME UNCHANGED <<state, authorization_version, poll, registryVars,
                         auth_subscribed, memoryVars>>,
             \A q : q \in qp_error => q \in qp_error',
             monitor'[c] = "reclaimed" => monitor[c] = "reclaimed"
      PROVE  AdmittedAt(c)'
  <2>1. /\ Admitting(c)' <=> Admitting(c)
        /\ Enrolling(c)' <=> Enrolling(c)
        /\ Authorized(c)' <=> Authorized(c)
    BY Zenon, <1>4 DEF Admitting, Enrolling, Authorized
  <2> QED
    BY Zenon, <1>1, <1>4, <2>1 DEF AdmittedAt
<1>5. CASE PeerConnect(c) \/ PeerEstablish(c) \/ PeerDisconnect(c) \/ PeerCrash(c)
  BY Zenon, <1>4, <1>5 DEF PeerConnect, PeerEstablish, PeerDisconnect, PeerCrash
<1>6. CASE (\E m \in Frame(sent[c] + 1) : PeerSend(c, m)) \/ LinkDown(c)
  BY Zenon, <1>4, <1>6 DEF PeerSend, LinkDown
<1>7. CASE Flush(c) \/ SendEnds(c)
  <2>1. /\ UNCHANGED <<connectionVars, poll, monitor, registryVars, memoryVars>>
        /\ \A q : q \in qp_error => q \in qp_error'
    BY Zenon, <1>7 DEF Flush, SendEnds
  <2> QED
    BY Zenon, <1>4, <2>1
<1>8. CASE Established(c) \/ Disconnected(c) \/ SnapshotReads(c)
  <2>1. /\ UNCHANGED <<state, authorization_version, poll, registryVars, monitor,
                       auth_subscribed, memoryVars>>
        /\ \A q : q \in qp_error => q \in qp_error'
    BY Zenon, <1>8 DEF Established, Disconnected, SnapshotReads
  <2> QED
    BY Zenon, <1>4, <2>1
<1>9. CASE ConnectRequest(c) \/ DeadlineExpires(c) \/ MonitorEnds(c)
  <2>1. UNCHANGED <<state, authorization_version, poll, registryVars,
                    auth_subscribed, memoryVars>>
    BY Zenon, <1>9 DEF ConnectRequest, DeadlineExpires, MonitorEnds
  <2>2. \A q : q \in qp_error => q \in qp_error'
    BY Zenon, <1>2, <1>9 DEF ConnectRequest, DeadlineExpires, MonitorEnds
  <2>3. monitor'[c] \in {"waiting", "draining", "done"} \/ monitor' = monitor
    BY Zenon, <1>1, <1>9 DEF ConnectRequest, DeadlineExpires, MonitorEnds
  <2>4. monitor'[c] = "reclaimed" => monitor[c] = "reclaimed"
    BY <2>3
  <2> QED
    BY Zenon, <1>4, <2>1, <2>2, <2>4
<1>10. CASE MonitorReclaims(c)
  <2>1. /\ members' = IF c \in memory_connected THEN members \ {c} ELSE members
        /\ granted' = IF c \in memory_connected THEN granted \ {c} ELSE granted
        /\ UNCHANGED <<qp_error, state, authorization_version, poll, registryVars,
                       auth_subscribed>>
    BY Zenon, <1>10 DEF MonitorReclaims
  <2>2. c \notin members' /\ c \notin granted'
    BY Zenon, <1>1, <2>1 DEF AdmittedAt
  <2>3. /\ Admitting(c)' <=> Admitting(c)
        /\ Enrolling(c)' <=> Enrolling(c)
        /\ Authorized(c)' <=> Authorized(c)
    BY Zenon, <2>1 DEF Admitting, Enrolling, Authorized
  <2> QED
    BY Zenon, <1>1, <2>1, <2>2, <2>3 DEF AdmittedAt
<1>11. CASE DestroyConnection(c)
  <2>1. /\ references[c] = 0
        /\ listeners' = IF c \in auth_subscribed THEN listeners \ {c} ELSE listeners
        /\ members' = IF c \in memory_connected THEN members \ {c} ELSE members
        /\ granted' = IF c \in memory_connected THEN granted \ {c} ELSE granted
        /\ UNCHANGED poll
    BY Zenon, <1>11 DEF DestroyConnection, Unreferenced
  <2>2. references[c] <= 0
    BY <2>1
  <2>3. poll.conn # c
    BY Zenon, <1>1, <2>2, Unheld
  <2>4. c \notin listeners' /\ c \notin members' /\ c \notin granted'
    BY Zenon, <1>1, <2>1, <2>3 DEF AdmittedAt, Admitting
  <2>5. ~Admitting(c)' /\ ~Enrolling(c)'
    BY Zenon, <2>1, <2>3 DEF Admitting, Enrolling
  <2> QED
    BY Zenon, <2>4, <2>5 DEF AdmittedAt
\* What the completion thread does next.
<1>12. ASSUME poll' = Idle
       PROVE  ~Admitting(c)' /\ ~Enrolling(c)'
  BY Zenon, <1>12, PollIdle DEF Admitting, Enrolling
<1>13. ASSUME NEW step, NEW m, NEW close, poll' = At(step, c, m, close)
       PROVE  /\ Admitting(c)' <=> step = "admit"
              /\ Enrolling(c)' <=> step \in {"subscribe", "admit"}
  <2>1. poll'.step = step /\ poll'.conn = c
    BY Zenon, <1>13 DEF At
  <2> QED
    BY Zenon, <2>1 DEF Admitting, Enrolling
\* It takes a completion or answers.
<1>14. ASSUME ~Enrolling(c), ~Enrolling(c)',
              UNCHANGED <<authorization_version, registryVars, auth_subscribed,
                          members, monitor>>,
              \A q : q \in qp_error => q \in qp_error',
              state'[c] = state[c] \/ state'[c] = "CLOSED",
              c \in granted' => c \in granted \/ c \in members
       PROVE  AdmittedAt(c)'
  <2>1. ~Admitting(c) /\ ~Admitting(c)'
    <3>1. "admit" \in {"subscribe", "admit"}
      OBVIOUS
    <3> QED
      BY Zenon, <1>14, <3>1 DEF Admitting, Enrolling
  <2>2. Authorized(c)' <=> Authorized(c)
    BY Zenon, <1>3, <1>14
  <2>3. state[c] \in {"READY", "CLOSED"} => state'[c] \in {"READY", "CLOSED"}
    BY <1>14
  <2> QED
    BY Zenon, <1>1, <1>14, <2>1, <2>2, <2>3 DEF AdmittedAt
<1>15. CASE PollClosing(c) \/ PollSend(c)
  <2>1. /\ poll.step = "idle"
        /\ UNCHANGED <<sessionVars, registryVars, auth_subscribed, memoryVars, monitor>>
    BY Zenon, <1>15 DEF PollClosing, PollSend
  <2>2. \A q : q \in qp_error => q \in qp_error'
    BY Zenon, <1>2, <1>15 DEF PollClosing, PollSend, Abort
  <2>3. ~Enrolling(c)
    <3>1. poll.step \notin {"subscribe", "admit"}
      BY <2>1
    <3> QED
      BY Zenon, <3>1 DEF Enrolling
  <2>4. ~Enrolling(c)'
    <3>1. poll' = Idle \/ \E close : poll' = At("post", c, "BAD", close)
      BY Zenon, <1>15 DEF PollClosing, PollSend, Abort, Finish
    <3>2. "post" \notin {"subscribe", "admit"}
      OBVIOUS
    <3> QED
      BY Zenon, <1>12, <1>13, <3>1, <3>2
  <2> QED
    BY Zenon, <1>14, <2>1, <2>2, <2>3, <2>4
<1>16. CASE Submit(c) \/ Post(c)
  <2>1. /\ poll.step \in {"submit", "post"}
        /\ UNCHANGED <<sessionVars, registryVars, auth_subscribed, memoryVars, monitor>>
    BY Zenon, <1>16 DEF Submit, Post
  <2>2. \A q : q \in qp_error => q \in qp_error'
    BY Zenon, <1>2, <1>16 DEF Submit, Post, Abort
  <2>3. ~Enrolling(c)
    <3>1. poll.step \notin {"subscribe", "admit"}
      BY <2>1
    <3> QED
      BY Zenon, <3>1 DEF Enrolling
  <2>4. ~Enrolling(c)'
    <3>1. CASE poll' = [poll EXCEPT !.step = "post"]
      <4>1. poll'.step \notin {"subscribe", "admit"}
        <5>1. poll = At(poll.step, poll.conn, poll.message, poll.close)
          BY Zenon, <1>1 DEF PollType
        <5> QED
          BY <3>1, <5>1 DEF At
      <4> QED
        BY Zenon, <4>1 DEF Enrolling
    <3> QED
      BY Zenon, <1>12, <1>16, <3>1 DEF Submit, Post, Abort, Finish
  <2> QED
    BY Zenon, <1>14, <2>1, <2>2, <2>3, <2>4
<1>17. CASE Serve(c)
  <2>1. /\ poll.step = "serve"
        /\ UNCHANGED <<authorization_version, registryVars, auth_subscribed,
                       members, monitor>>
        /\ state'[c] = state[c] \/ state'[c] = "CLOSED"
    BY Zenon, <1>1, <1>17 DEF Serve
  <2>2. c \in granted' => c \in granted \/ c \in members
    BY Zenon, <1>17 DEF Serve
  <2>3. \A q : q \in qp_error => q \in qp_error'
    BY Zenon, <1>2, <1>17 DEF Serve, Abort, Continue
  <2>4. ~Enrolling(c)
    <3>1. poll.step \notin {"subscribe", "admit"}
      BY <2>1
    <3> QED
      BY Zenon, <3>1 DEF Enrolling
  <2>5. ~Enrolling(c)'
    <3>1. poll' = Idle \/ \E m, close : poll' = At("submit", c, m, close)
      BY Zenon, <1>17 DEF Serve, Abort, Finish, Continue
    <3>2. "submit" \notin {"subscribe", "admit"}
      OBVIOUS
    <3> QED
      BY Zenon, <1>12, <1>13, <3>1, <3>2
  <2> QED
    BY Zenon, <1>14, <2>1, <2>2, <2>3, <2>4, <2>5
<1>18. CASE PollReceive(c)
  <2>1. PICK o \in HandleFrame(c, recv_frame[c]) :
          /\ state' = [state EXCEPT ![c] = o[1]]
          /\ authorization_version' =
               [authorization_version EXCEPT ![c] =
                  IF o[2] = "subscribe" THEN version ELSE @]
          /\ Abort(c) \/ Continue(o[2], c,
                           IF o[2] = "serve" THEN recv_frame[c] ELSE "BAD",
                           o[1] = "CLOSED")
    BY Zenon, <1>18 DEF PollReceive
  <2>2. /\ poll.step = "idle"
        /\ UNCHANGED <<registryVars, auth_subscribed, memoryVars, monitor>>
    BY Zenon, <1>18 DEF PollReceive
  <2>3. /\ o[2] \in {"serve", "abort", "submit", "subscribe"}
        /\ o[2] = "subscribe" => o[1] = "READY" /\ state[c] = "WAIT_AUTH"
        /\ state[c] \in {"READY", "CLOSED"} => o[1] \in {"READY", "CLOSED"}
    BY Zenon, <2>1, FrameHandled
  <2>4. o[2] # "admit" /\ "WAIT_AUTH" \notin {"READY", "CLOSED"}
        /\ poll.step # "admit"
    BY <2>2, <2>3
  <2>5. state'[c] = o[1] /\ \A q : q \in qp_error => q \in qp_error'
    BY Zenon, <1>1, <1>2, <2>1 DEF Abort, Continue
  <2>6. c \in members => o[2] # "subscribe"
    BY Zenon, <1>1, <2>3, <2>4 DEF AdmittedAt
  <2>7. c \in members => (Authorized(c)' <=> Authorized(c))
    <3>1. c \in members => authorization_version'[c] = authorization_version[c]
      BY Zenon, <1>1, <2>1, <2>6
    <3> QED
      BY Zenon, <2>2, <3>1 DEF Authorized
  <2>8. /\ ~Admitting(c) /\ ~Admitting(c)'
        /\ Enrolling(c)' => o[2] = "subscribe"
    <3>1. CASE poll' = Idle
      BY Zenon, <1>12, <2>4, <3>1 DEF Admitting
    <3>2. CASE \E m, close : poll' = At(o[2], c, m, close)
      <4>1. /\ Admitting(c)' <=> o[2] = "admit"
            /\ Enrolling(c)' <=> o[2] \in {"subscribe", "admit"}
        BY Zenon, <1>13, <3>2
      <4>2. o[2] \in {"subscribe", "admit"} => o[2] = "subscribe"
        BY <2>4
      <4> QED
        BY Zenon, <2>4, <4>1, <4>2 DEF Admitting
    <3> QED
      BY Zenon, <2>1, <3>1, <3>2 DEF Abort, Finish, Continue
  <2> QED
    BY Zenon, <1>1, <2>2, <2>3, <2>5, <2>6, <2>7, <2>8 DEF AdmittedAt
<1>19. CASE Subscribe(c)
  <2>1. /\ poll.step = "subscribe" /\ poll.conn = c
        /\ UNCHANGED <<sessionVars, version, allowed, auth_subscribed, memoryVars,
                       monitor>>
    BY Zenon, <1>19 DEF Subscribe
  <2>2. \A q : q \in qp_error => q \in qp_error'
    BY Zenon, <1>2, <1>19 DEF Subscribe, Abort, Continue
  <2>3. ~Admitting(c) /\ Enrolling(c)
    <3>1. poll.step # "admit" /\ poll.step \in {"subscribe", "admit"}
      BY <2>1
    <3> QED
      BY Zenon, <2>1, <3>1 DEF Admitting, Enrolling
  <2>4. c \notin members /\ state[c] = "READY"
    BY Zenon, <1>1, <2>3 DEF AdmittedAt
  <2>5. Authorized(c)' <=> Authorized(c)
    BY Zenon, <1>3, <2>1
  <2>6. CASE Authorized(c) /\ listeners' = listeners \cup {c}
             /\ poll' = At("admit", c, "BAD", FALSE)
    <3>1. Admitting(c)'
      BY Zenon, <1>13, <2>6
    <3>2. c \in listeners'
      BY Zenon, <2>6
    <3> QED
      BY Zenon, <1>1, <2>1, <2>4, <2>5, <2>6, <3>1, <3>2 DEF AdmittedAt
  <2>7. CASE poll' = Idle /\ UNCHANGED listeners
    <3>1. ~Admitting(c)' /\ ~Enrolling(c)'
      BY Zenon, <1>12, <2>7
    <3> QED
      BY Zenon, <1>1, <2>1, <2>3, <2>4, <2>7, <3>1 DEF AdmittedAt
  <2> QED
    BY Zenon, <1>19, <2>6, <2>7 DEF Subscribe, MaySubscribe, Abort, Finish, Continue
<1>20. CASE Admit(c)
  <2>1. /\ poll.step = "admit" /\ poll.conn = c
        /\ UNCHANGED <<sessionVars, version, allowed, granted, monitor>>
    BY Zenon, <1>20 DEF Admit
  <2>2. \A q : q \in qp_error => q \in qp_error'
    BY Zenon, <1>2, <1>20 DEF Admit, Abort, Continue
  <2>3. Admitting(c) /\ Enrolling(c)
    <3>1. poll.step \in {"subscribe", "admit"}
      BY <2>1
    <3> QED
      BY Zenon, <2>1, <3>1 DEF Admitting, Enrolling
  <2>4. /\ c \notin members /\ state[c] = "READY" /\ c \in listeners
        /\ Authorized(c) \/ c \in qp_error
    BY Zenon, <1>1, <2>3 DEF AdmittedAt
  <2>5. Authorized(c)' <=> Authorized(c)
    BY Zenon, <1>3, <2>1
  <2>6. monitor[c] # "reclaimed"
    <3>1. ~(references[c] <= 0)
      BY Zenon, <1>20, PollsHeld DEF Polls
    <3>2. references[c] # 0
      BY <3>1 DEF ConnectionType
    <3> QED
      BY Zenon, <1>1, <3>2 DEF LifeAt
  <2>7. ~Admitting(c)' /\ ~Enrolling(c)'
    <3>1. poll' = Idle \/ poll' = At("submit", c, "BAD", FALSE)
      BY Zenon, <1>20 DEF Admit, Abort, Finish, Continue
    <3>2. "submit" \notin {"subscribe", "admit"} /\ "submit" # "admit"
      OBVIOUS
    <3> QED
      BY Zenon, <1>12, <1>13, <3>1, <3>2
  <2>8. \/ /\ c \in members' /\ c \in auth_subscribed' /\ UNCHANGED listeners
        \/ /\ c \notin listeners' /\ UNCHANGED <<members, auth_subscribed>>
    BY Zenon, <1>20 DEF Admit
  <2>9. state'[c] \in {"READY", "CLOSED"}
    BY <2>1, <2>4
  <2> QED
    BY Zenon, <1>1, <2>1, <2>2, <2>4, <2>5, <2>6, <2>7, <2>8, <2>9 DEF AdmittedAt
<1> QED
  BY Zenon, <1>5, <1>6, <1>7, <1>8, <1>9, <1>10, <1>11, <1>15, <1>16, <1>17,
     <1>18, <1>19, <1>20 DEF ConnectionStep, Peer, Fabric, Monitor

\* Every step keeps the lives and the admissions.
LEMMA LivesStep ==
  ASSUME ConnectionType, QueueInv, Counted, EventsInv, LivesInv, [Next]_vars
  PROVE  LivesInv'
<1> USE DEF peerVars, loopVars, connectionVars, lifetimeVars, sessionVars,
            admissionVars, queueVars, memoryVars, registryVars
<1>1. \A d \in Connection : LifeAt(d) /\ AdmittedAt(d)
  BY Zenon DEF LivesInv
<1>2. ASSUME NEW c \in Connection, ConnectionStep(c)
      PROVE  LivesInv'
  <2>1. LifeAt(c)' /\ AdmittedAt(c)'
    BY Zenon, <1>2, LifeStep, AdmittedStep
  <2>2. ASSUME NEW d \in Connection, d # c
        PROVE  LifeAt(d)' /\ AdmittedAt(d)'
    <3>1. PollType
      BY Zenon DEF QueueInv, QueueType
    <3>2. Apart(d)
      BY Zenon, <1>2, <2>2, <3>1, OthersApart
    <3> QED
      BY Zenon, <1>1, <3>2, LivesApart
  <2> QED
    BY Zenon, <2>1, <2>2 DEF LivesInv
<1>3. ASSUME UNCHANGED <<connectionVars, references, poll, monitor, registryVars,
                         memoryVars>>,
             \A q : q \in qp_error => q \in qp_error'
      PROVE  LivesInv'
  <2>1. ASSUME NEW d \in Connection
        PROVE  Apart(d)
    BY Zenon, <1>3 DEF Apart
  <2> QED
    BY Zenon, <1>1, <2>1, LivesApart DEF LivesInv
<1>4. ASSUME NEW S, Disconnect(S)
      PROVE  \A q : q \in qp_error => q \in qp_error'
  BY Zenon, <1>4 DEF Disconnect
<1>5. CASE DaemonStep
  <2>1. CASE LoopCheck \/ RequestShutdown \/ UNCHANGED vars
    BY Zenon, <1>3, <2>1 DEF LoopCheck, RequestShutdown, vars
  <2>2. CASE DisconnectProviderConnections
    BY Zenon, <1>3, <1>4, <2>2 DEF DisconnectProviderConnections
  <2>3. CASE ReloadAllowlist
    <3>1. /\ UNCHANGED <<connectionVars, references, poll, monitor, listeners,
                         memoryVars>>
          /\ qp_error' = qp_error \cup listeners
      BY Zenon, <2>3 DEF ReloadAllowlist, Disconnect
    <3>2. ASSUME NEW d \in Connection
          PROVE  LifeAt(d)' /\ AdmittedAt(d)'
      <4>1. LifeAt(d)'
        BY Zenon, <1>1, <3>1 DEF LifeAt
      <4>2. d \in listeners => d \in qp_error'
        BY Zenon, <3>1
      <4>3. AdmittedAt(d)'
        BY Zenon, <1>1, <3>1, <4>2 DEF AdmittedAt, Admitting, Enrolling
      <4> QED
        BY Zenon, <4>1, <4>3
    <3> QED
      BY Zenon, <3>2 DEF LivesInv
  <2>4. CASE SnapshotBegins
    <3>1. /\ UNCHANGED <<connectionVars, poll, monitor, registryVars, memoryVars,
                         qp_error>>
          /\ references' = [c \in Connection |->
                              IF c \in Live \ closing THEN references[c] + 1
                              ELSE references[c]]
      BY Zenon, <2>4 DEF SnapshotBegins
    <3>2. ASSUME NEW d \in Connection
          PROVE  LifeAt(d)' /\ AdmittedAt(d)'
      <4>1. AdmittedAt(d)'
        BY Zenon, <1>1, <3>1 DEF AdmittedAt, Admitting, Enrolling, Authorized
      <4>2. CASE d \in Live \ closing
        <5>1. object[d] = "live" /\ d \notin closing
          BY Zenon, <4>2 DEF Live
        <5>2. "reclaimed" \in {"draining", "reclaimed", "done"} /\ object[d] # "none"
              /\ object[d] # "freed"
          BY <5>1
        <5>3. monitor[d] # "reclaimed"
          BY Zenon, <1>1, <5>1, <5>2 DEF LifeAt
        <5> QED
          BY Zenon, <1>1, <3>1, <4>1, <5>1, <5>2, <5>3 DEF LifeAt
      <4>3. CASE d \notin Live \ closing
        <5>1. references'[d] = references[d]
          BY Zenon, <3>1, <4>3
        <5> QED
          BY Zenon, <1>1, <3>1, <4>1, <5>1 DEF LifeAt
      <4> QED
        BY Zenon, <4>2, <4>3
    <3> QED
      BY Zenon, <3>2 DEF LivesInv
  <2> QED
    BY Zenon, <1>5, <2>1, <2>2, <2>3, <2>4 DEF DaemonStep
<1> QED
  BY Zenon, <1>2, <1>5, Steps

-----------------------------------------------------------------------------
(* The theorems.                                                             *)

ConnectionInv ==
  ConnectionType /\ QueueInv /\ Counted /\ EventsInv /\ LivesInv

\* Nothing is connected in the beginning.
LEMMA InitConnection == Init => ConnectionInv
<1> SUFFICES ASSUME Init PROVE ConnectionInv
  OBVIOUS
<1>1. ConnectionType /\ QueueType
  BY Zenon, InitType
<1>2. /\ cq = <<>> /\ events = <<>> /\ poll.conn = NoConnection
      /\ posted = {} /\ retained = {} /\ listeners = {} /\ auth_subscribed = {}
      /\ members = {} /\ granted = {} /\ destroying = NoConnection
  BY DEF Init, Idle, At
<1>3. \A d : PlacesOf(cq, d) = {} /\ SendsIn(cq, d) = {}
  BY <1>2 DEF PlacesOf, SendsIn
<1>4. \A d \in Connection : poll.conn # d /\ destroying # d
  BY Zenon, <1>2, ProviderConnectionAssumption
<1>5. ASSUME NEW d \in Connection
      PROVE  SendsAt(d)
  BY Zenon, <1>2, <1>3, <1>4 DEF SendsAt, Posting
<1>6. ASSUME NEW d \in Connection
      PROVE  /\ link[d] = "none" /\ object[d] = "none" /\ monitor[d] = "none"
             /\ references[d] = 0 /\ receives[d] = 0
  BY Zenon DEF Init
<1>7. ASSUME NEW d \in Connection
      PROVE  CountedAt(d)
  <2>1. Pending(d) = 0
    BY Zenon, <1>1, <1>3, PlacesFinite DEF Pending, QueueType
  <2>2. ~Monitored(d)
    BY <1>6 DEF Monitored
  <2>3. /\ PollHolds(d) = 0 /\ Hold(d, posted) = 0 /\ Hold(d, retained) = 0
        /\ MonitorHolds(d) = 0
    BY Zenon, <1>2, <1>4, <2>2 DEF PollHolds, Hold, MonitorHolds
  <2> QED
    BY SMTT(60), Z3T(60), ZenonT(120), <1>6, <2>1, <2>3 DEF CountedAt
<1>8. events \in Seq(Event)
  BY <1>2
<1>9. ASSUME NEW d \in Connection
      PROVE  EventsAt(d)
  <2>1. \A i : ~EventOf(i, d)
    BY <1>2 DEF EventOf
  <2>2. link[d] \in {"none", "requested", "rejected"} /\ object[d] # "freed"
    BY <1>6
  <2> QED
    BY Zenon, <1>4, <1>6, <2>1, <2>2 DEF EventsAt, ReportedAt, BuiltAt
<1>10. ASSUME NEW d \in Connection
       PROVE  LifeAt(d) /\ AdmittedAt(d)
  <2>1. /\ object[d] # "freed" /\ monitor[d] # "reclaimed"
        /\ monitor[d] \notin {"draining", "reclaimed", "done"}
    BY <1>6
  <2> QED
    BY Zenon, <1>2, <1>4, <1>6, <2>1
    DEF LifeAt, AdmittedAt, Admitting, Enrolling
<1> QED
  BY Zenon, <1>1, <1>5, <1>7, <1>8, <1>9, <1>10
  DEF ConnectionInv, QueueInv, Counted, EventsInv, LivesInv

\* The inductive invariant holds in every reachable state.
LEMMA ConnectionAlways == Spec => []ConnectionInv
<1>1. Init => ConnectionInv
  BY Zenon, InitConnection
<1>2. ConnectionInv /\ [Next]_vars => ConnectionInv'
  <2> SUFFICES ASSUME ConnectionInv, [Next]_vars PROVE ConnectionInv'
    OBVIOUS
  <2>1. ConnectionType /\ QueueInv /\ Counted /\ EventsInv /\ LivesInv
    BY Zenon DEF ConnectionInv
  <2>2. \A c \in Connection : ConnectRequest(c) => references[c] = 0
    BY Zenon, <2>1, RequestFresh
  <2>3. ConnectionType' /\ QueueInv'
    BY Zenon, <2>1, TypeStep, QueueStep
  <2>4. Counted'
    BY Zenon, <2>1, <2>2, CountedStep
  <2>5. EventsInv' /\ LivesInv'
    BY Zenon, <2>1, EventsStep, LivesStep
  <2> QED
    BY Zenon, <2>3, <2>4, <2>5 DEF ConnectionInv
<1> QED
  BY <1>1, <1>2, PTL DEF Spec

\* destroy_connection frees a connection only when nobody can reach it any
\* more: no completion, posted receive or send, thread, event, subscription or
\* snapshot leads to a freed connection.
THEOREM FreedUnreachable == Spec => []NoUseAfterFree
<1>1. ConnectionInv => NoUseAfterFree
  <2> SUFFICES ASSUME ConnectionInv, NEW c \in Connection, object[c] = "freed"
               PROVE  /\ monitor[c] \in {"reclaimed", "done"} /\ poll.conn # c
                      /\ receives[c] = 0 /\ c \notin posted
                      /\ \A i \in DOMAIN cq : cq[i].conn # c
                      /\ \A i \in DOMAIN events : events[i][2] # c
                      /\ c \notin listeners /\ c \notin retained /\ c \notin members
    BY Zenon DEF NoUseAfterFree
  <2>1. /\ ConnectionType /\ QueueType /\ CountedAt(c) /\ EventsAt(c) /\ LifeAt(c)
        /\ cq \in Seq(Completion) /\ events \in Seq(Event)
    BY Zenon
    DEF ConnectionInv, QueueInv, QueueType, Counted, EventsInv, LivesInv
  <2>2. object[c] # "live"
    OBVIOUS
  <2>3. references[c] = 0 /\ monitor[c] \in {"reclaimed", "done"}
        /\ c \notin listeners /\ c \notin members
    BY Zenon, <2>1, <2>2 DEF LifeAt
  <2>4. references[c] <= 0
    BY <2>3
  <2>5. /\ receives[c] = 0 /\ PlacesOf(cq, c) = {} /\ poll.conn # c
        /\ c \notin posted /\ c \notin retained
    BY Zenon, <2>1, <2>4, Unheld
  <2>6. \A i \in DOMAIN cq : cq[i].conn # c
    BY <2>1, <2>5 DEF PlacesOf
  <2>7. \A i : ~EventOf(i, c)
    BY Zenon, <2>1 DEF EventsAt, BuiltAt
  <2>8. \A i \in DOMAIN events : events[i][2] # c
    BY SMTT(60), Z3T(60), ZenonT(120), <2>1, <2>7 DEF EventOf
  <2> QED
    BY Zenon, <2>3, <2>5, <2>6, <2>8
<1> QED
  BY <1>1, ConnectionAlways, PTL

\* A session the memory manager serves was verified against the credential in
\* force, or a reload of the allowlist has disconnected it.
THEOREM MembersAuthorized == Spec => []AuthorizedMembers
<1>1. ConnectionInv => AuthorizedMembers
  BY Zenon DEF ConnectionInv, ConnectionType, LivesInv, AdmittedAt, AuthorizedMembers
<1> QED
  BY <1>1, ConnectionAlways, PTL

\* What the monitor reclaimed stays reclaimed: no frame that was still being
\* handled makes the connection a member again.
THEOREM ReclaimedStays == Spec => []ReclaimedForGood
<1>1. ConnectionInv => ReclaimedForGood
  BY Zenon DEF ConnectionInv, LivesInv, AdmittedAt, ReclaimedForGood
<1> QED
  BY <1>1, ConnectionAlways, PTL

=============================================================================
