------------------------- MODULE BackedData_proofs --------------------------
(***************************************************************************)
(* What a Backed device guarantees for any number of requests, mappings,   *)
(* deadlines and failures: the Backing Store of a Strict device is a valid *)
(* copy, readable remote data are current, and reads return the latest     *)
(* data.  A step of a request is first reduced to what it does to that     *)
(* request (Started, RemoteEnded, LocalEnded, Quiet); the invariant then   *)
(* has one part for the requests, the Backing Store, the queue pair, the   *)
(* leases, the remote copy and the reads in flight.                        *)
(***************************************************************************)
EXTENDS BackedData, TLAPS

DataType ==
  /\ policy \in {"STRICT", "REMOTE_FIRST"}
  /\ issued \in Nat
  /\ direction \in [Request -> {"none", "READ", "WRITE"}]
  /\ local \in [Request -> Status] /\ remote \in [Request -> Status]
  /\ answer \in [Request -> {"none", "ok", "error"}]
  /\ lease \in [Request -> Nat]
  /\ buffer \in [Request -> Int]
  /\ remote_copy \in Int
  /\ mapping_generation \in Nat
  /\ chunk \in {"UNMAPPED", "MAPPED", "EVICTING"}
  /\ wire \in Seq(Request)

\* A step leaves every request but t alone.
Others(t) ==
  /\ policy' = policy /\ issued' = issued /\ direction' = direction
  /\ \A u \in Request : u # t =>
       /\ local'[u] = local[u] /\ remote'[u] = remote[u]
       /\ answer'[u] = answer[u] /\ lease'[u] = lease[u]
       /\ buffer'[u] = buffer[u]

\* Request t is answered at most once, and the answer to a write tells which
\* versions a read may return.
Answered(t) ==
  /\ answer[t] # "none" => answer'[t] = answer[t]
  /\ acceptable' =
       IF IsWrite(t) /\ answer[t] = "none" /\ answer'[t] # "none"
       THEN IF answer'[t] = "ok" THEN {t} ELSE acceptable \cup {t}
       ELSE acceptable

\* The dispatch of request t.
Started(t) ==
  /\ Undispatched(t)
  /\ Others(t) /\ Answered(t)
  /\ local'[t] \in {"none", "pending"} /\ remote'[t] \in {"none", "pending"}
  /\ answer'[t] \in {"none", "error"}
  /\ answer'[t] # "none" => local'[t] = "none" /\ remote'[t] = "none"
  /\ remote'[t] = "none" /\ local'[t] # "none" => ~connected
  /\ remote'[t] = "pending" =>
       local'[t] = IF IsWrite(t) THEN "pending" ELSE "none"
  /\ lease'[t] = lease[t]
  /\ UNCHANGED <<storeVars, remoteVars, wire>>

\* The RDMA side of request t has a result.
RemoteEnded(t) ==
  /\ remote[t] = "pending"
  /\ Others(t) /\ Answered(t)
  /\ remote'[t] \in {"ok", "error"}
  /\ IsWrite(t) => /\ local'[t] = local[t]
                   /\ answer[t] = "none" =>
                        answer'[t] = WriteAnswer(t, local[t], remote'[t])
  /\ ~IsWrite(t) /\ remote'[t] = "ok" => local'[t] = local[t]
  /\ ~IsWrite(t) /\ remote'[t] = "error" =>
       \/ local'[t] = "pending" /\ answer'[t] = answer[t]
       \/ local'[t] = "error" /\ answer'[t] # "none"
  /\ lease'[t] = lease[t] \/ lease'[t] = 0
  /\ UNCHANGED storeVars

\* The bio of request t has ended.
LocalEnded(t) ==
  /\ local[t] = "pending"
  /\ Others(t) /\ Answered(t)
  /\ local'[t] \in {"ok", "error"} /\ remote'[t] = remote[t]
  /\ answer[t] = "none" =>
       answer'[t] = IF IsWrite(t) THEN WriteAnswer(t, local'[t], remote[t])
                    ELSE local'[t]
  /\ lease'[t] = lease[t]
  /\ UNCHANGED <<remoteVars, wire>>

\* Neither side of request t, nor its answer, has moved.
Quiet(t) ==
  /\ Others(t)
  /\ local'[t] = local[t] /\ remote'[t] = remote[t]
  /\ answer'[t] = answer[t] /\ acceptable' = acceptable

\* Requests are numbered by naturals.
LEMMA RequestNat == Request \subseteq Nat
  BY BackedDataAssumption DEF Request

\* The three ways of is_queue_rq to go on with a request.
LEMMA Dispatches ==
  ASSUME DataType, NEW t \in Request,
         DispatchBacking(t) \/ DispatchRemote(t) \/ RejectStart(t)
  PROVE  Started(t)
<1> USE DEF DataType, Status, Others, Answered, Started, Undispatched,
            Answer, SubmitBio, storeVars, remoteVars, requestVars, rdmaVars,
            clientVars, IsWrite
<1>1. CASE DispatchBacking(t)
  BY SMTT(60), <1>1 DEF DispatchBacking
<1>2. CASE DispatchRemote(t)
  BY SMTT(60), <1>2 DEF DispatchRemote
<1>3. CASE RejectStart(t)
  BY SMTT(60), <1>3 DEF RejectStart
<1> QED
  BY Zenon, <1>1, <1>2, <1>3

\* is_io_policy_remote_terminal, whoever calls it.
LEMMA Terminal ==
  ASSUME DataType, NEW t \in Request, remote[t] = "pending",
         NEW status \in {"ok", "error"}, NEW v, RemoteTerminal(t, status, v),
         UNCHANGED <<policy, storeVars, issued, direction, buffer>>,
         \A u \in Request : u # t => lease'[u] = lease[u],
         lease'[t] = lease[t] \/ lease'[t] = 0
  PROVE  RemoteEnded(t) /\ remote'[t] = status
  BY SMTT(60) DEF DataType, Status, Others, Answered, RemoteEnded,
     RemoteTerminal, Fallback, Answer, SubmitBio, IsWrite, WriteAnswer, Done

\* A refused or failed submission and a deadline end the RDMA side of their
\* request with an error; a completion does, where the deadline has not.
LEMMA RemoteResults ==
  ASSUME DataType, NEW t \in Request
  PROVE  /\ SubmitRefused(t) \/ SubmitFailed(t) \/ Deadline(t) =>
              /\ RemoteEnded(t) /\ remote'[t] = "error"
              /\ lease' = lease /\ wire' = wire /\ remote_copy' = remote_copy
         /\ Completed(t) /\ remote[t] = "pending" =>
              RemoteEnded(t) /\ remote'[t] = "ok"
         /\ CompletedError(t) /\ remote[t] = "pending" =>
              RemoteEnded(t) /\ remote'[t] = "error"
<1> USE DEF rdmaVars, remoteVars
<1>1. ASSUME SubmitRefused(t) \/ SubmitFailed(t) \/ Deadline(t)
      PROVE  /\ RemoteEnded(t) /\ remote'[t] = "error"
             /\ lease' = lease /\ wire' = wire /\ remote_copy' = remote_copy
  <2>1. /\ remote[t] = "pending" /\ RemoteTerminal(t, "error", 0)
        /\ UNCHANGED <<policy, storeVars, issued, direction, lease, wire,
                       buffer, remote_copy>>
    BY Zenon, <1>1 DEF SubmitRefused, SubmitFailed, Deadline, Submitting
  <2> QED
    BY Zenon, <2>1, Terminal
<1>2. ASSUME Completed(t), remote[t] = "pending"
      PROVE  RemoteEnded(t) /\ remote'[t] = "ok"
  <2>1. /\ RemoteTerminal(t, "ok", buffer[t])
        /\ UNCHANGED <<policy, storeVars, issued, direction, buffer>>
        /\ \A u \in Request : u # t => lease'[u] = lease[u]
        /\ lease'[t] = 0
    BY Zenon, <1>2 DEF Completed, CompletionCounts, DataType
  <2> QED
    BY Zenon, <1>2, <2>1, Terminal
<1>3. ASSUME CompletedError(t), remote[t] = "pending"
      PROVE  RemoteEnded(t) /\ remote'[t] = "error"
  <2>1. /\ RemoteTerminal(t, "error", 0)
        /\ UNCHANGED <<policy, storeVars, issued, direction, buffer>>
        /\ \A u \in Request : u # t => lease'[u] = lease[u]
        /\ lease'[t] = 0
    BY Zenon, <1>3 DEF CompletedError, CompletionCounts, DataType
  <2> QED
    BY Zenon, <1>3, <2>1, Terminal
<1> QED
  BY Zenon, <1>1, <1>2, <1>3

\* What posting, executing and a late completion do to the request.
LEMMA RdmaQuiet ==
  ASSUME DataType, NEW t \in Request,
         \/ SubmitPosted(t) \/ Execute(t)
         \/ (Completed(t) \/ CompletedError(t)) /\ remote[t] # "pending"
  PROVE  Quiet(t) /\ UNCHANGED storeVars
<1> USE DEF DataType, Quiet, Others, requestVars, clientVars, rdmaVars
<1>1. CASE SubmitPosted(t)
  BY Zenon, <1>1 DEF SubmitPosted
<1>2. CASE Execute(t)
  BY Zenon, <1>2 DEF Execute
<1>3. CASE Completed(t) /\ remote[t] # "pending"
  BY Zenon, <1>3 DEF Completed, CompletionCounts
<1>4. CASE CompletedError(t) /\ remote[t] # "pending"
  BY Zenon, <1>4 DEF CompletedError, CompletionCounts
<1> QED
  BY Zenon, <1>1, <1>2, <1>3, <1>4

\* The end of a bio ends the local side of its request, but for the one retry
\* of a Remote-First write.
LEMMA Bios ==
  ASSUME DataType, NEW t \in Request
  PROVE  /\ BackingWritten(t) \/ BackingRead(t) \/ BackingReadFailed(t) =>
              LocalEnded(t)
         /\ BackingWriteFailed(t) =>
              \/ LocalEnded(t) /\ local'[t] = "error"
              \/ /\ Quiet(t) /\ lease'[t] = lease[t] /\ policy # "STRICT"
                 /\ UNCHANGED <<remoteVars, wire>>
<1> USE DEF DataType, Status, Others, Answered, LocalEnded, Answer, storeVars,
            remoteVars, requestVars, rdmaVars, clientVars, IsWrite,
            WriteAnswer, Done, Ends
<1>1. ASSUME BackingWritten(t) PROVE LocalEnded(t)
  BY SMTT(60), <1>1 DEF BackingWritten
<1>2. ASSUME BackingRead(t) PROVE LocalEnded(t)
  BY SMTT(60), <1>2 DEF BackingRead
<1>3. ASSUME BackingReadFailed(t) PROVE LocalEnded(t)
  BY ZenonT(60), <1>3 DEF BackingReadFailed
<1>4. ASSUME BackingWriteFailed(t)
      PROVE  \/ LocalEnded(t) /\ local'[t] = "error"
             \/ /\ Quiet(t) /\ lease'[t] = lease[t] /\ policy # "STRICT"
                /\ UNCHANGED <<remoteVars, wire>>
  <2> DEFINE again ==
        policy = "REMOTE_FIRST" /\ remote[t] # "none" /\ ~retried[t]
  <2>1. CASE again
    BY Zenon, <1>4, <2>1 DEF BackingWriteFailed, Quiet
  <2>2. CASE ~again
    <3>1. local'[t] = "error"
      BY Zenon, <1>4, <2>2 DEF BackingWriteFailed
    <3>2. LocalEnded(t)
      BY ZenonT(60), <1>4, <2>2 DEF BackingWriteFailed
    <3> QED
      BY Zenon, <3>1, <3>2
  <2> QED
    BY Zenon, <2>1, <2>2
<1> QED
  BY Zenon, <1>1, <1>2, <1>3, <1>4

-----------------------------------------------------------------------------
(* Types.                                                                  *)

\* A result has the right types.
LEMMA TerminalType ==
  ASSUME DataType, NEW t \in Request, NEW status \in {"ok", "error"}, NEW v,
         RemoteTerminal(t, status, v)
  PROVE  /\ local' \in [Request -> Status] /\ remote' \in [Request -> Status]
         /\ answer' \in [Request -> {"none", "ok", "error"}]
<1>1. local' \in [Request -> Status] /\ remote' \in [Request -> Status]
  <2>1. PICK l \in Status : local' = [local EXCEPT ![t] = l]
    BY SMTT(60) DEF DataType, Status, RemoteTerminal, Fallback, SubmitBio
  <2>2. remote' = [remote EXCEPT ![t] = status] /\ status \in Status
    BY DEF RemoteTerminal, Status
  <2> QED
    BY Zenon, <2>1, <2>2 DEF DataType
<1>2. answer' \in [Request -> {"none", "ok", "error"}]
  <2>1. PICK a \in {"none", "ok", "error"} : Answer(t, a, v)
    BY SMTT(60) DEF RemoteTerminal, DataType, Status, WriteAnswer, Done
  <2> QED
    BY <2>1 DEF Answer, DataType
<1> QED
  BY Zenon, <1>1, <1>2

\* Every step of a request keeps the types.
LEMMA TypeStep ==
  ASSUME DataType, NEW t \in Request, RequestStep(t)
  PROVE  DataType'
<1> USE DEF DataType, Status, storeVars, remoteVars, requestVars, rdmaVars,
            clientVars
<1>1. CASE \E d \in {"READ", "WRITE"} : Issue(t, d)
  BY SMTT(60), <1>1, RequestNat DEF Issue
<1>2. CASE DispatchBacking(t)
  BY ZenonT(60), <1>2 DEF DispatchBacking, SubmitBio, Answer
<1>3. CASE DispatchRemote(t)
  BY SMTT(60), <1>3 DEF DispatchRemote, SubmitBio
<1>4. CASE RejectStart(t)
  BY SMTT(60), <1>4 DEF RejectStart, Answer
<1>5. CASE SubmitRefused(t)
  BY ZenonT(60), <1>5, TerminalType DEF SubmitRefused
<1>6. CASE SubmitPosted(t)
  BY SMTT(60), <1>6 DEF SubmitPosted
<1>7. CASE SubmitFailed(t)
  BY ZenonT(60), <1>7, TerminalType DEF SubmitFailed
<1>8. CASE Execute(t)
  BY SMTT(60), <1>8, RequestNat DEF Execute
<1>9. CASE Completed(t)
  <2>1. lease' \in [Request -> Nat]
    BY <1>9 DEF Completed
  <2> QED
    BY ZenonT(60), <1>9, <2>1, TerminalType DEF Completed
<1>10. CASE CompletedError(t)
  <2>1. lease' \in [Request -> Nat] /\ mapping_generation' \in Nat
    BY <1>10 DEF CompletedError, FailProvider
  <2>2. wire' \in Seq(Request)
    BY <1>10 DEF CompletedError, OnWire
  <2> QED
    BY ZenonT(60), <1>10, <2>1, <2>2, TerminalType
    DEF CompletedError, FailProvider
<1>11. CASE Deadline(t)
  BY ZenonT(60), <1>11, TerminalType DEF Deadline
<1>12. CASE BackingWritten(t)
  BY SMTT(60), <1>12 DEF BackingWritten, Answer, WriteAnswer, Done
<1>13. CASE BackingWriteFailed(t)
  BY ZenonT(60), <1>13
  DEF BackingWriteFailed, Answer, WriteAnswer, Done
<1>14. CASE BackingRead(t)
  <2>1. local' = [local EXCEPT ![t] = "ok"] /\ "ok" \in Status
    BY <1>14 DEF BackingRead
  <2>2. answer' = [answer EXCEPT ![t] = IF @ = "none" THEN "ok" ELSE @]
    BY Zenon, <1>14 DEF BackingRead, Answer
  <2>3. local' \in [Request -> Status] /\ answer' \in [Request -> {"none", "ok", "error"}]
    BY ZenonT(60), <2>1, <2>2
  <2> QED
    BY ZenonT(60), <1>14, <2>3 DEF BackingRead
<1>15. CASE BackingReadFailed(t)
  <2>1. local' = [local EXCEPT ![t] = "error"] /\ "error" \in Status
    BY <1>15 DEF BackingReadFailed
  <2>2. answer' = [answer EXCEPT ![t] = IF @ = "none" THEN "error" ELSE @]
    BY Zenon, <1>15 DEF BackingReadFailed, Answer
  <2>3. local' \in [Request -> Status] /\ answer' \in [Request -> {"none", "ok", "error"}]
    BY ZenonT(60), <2>1, <2>2
  <2> QED
    BY ZenonT(60), <1>15, <2>3 DEF BackingReadFailed
<1> QED
  BY ZenonT(60), <1>1, <1>2, <1>3, <1>4, <1>5, <1>6, <1>7, <1>8, <1>9, <1>10,
     <1>11, <1>12, <1>13, <1>14, <1>15 DEF RequestStep

-----------------------------------------------------------------------------
(* The requests.                                                           *)

\* Requests are issued one after the other; RDMA never outlives the answer, and
\* of the bios only those of acknowledged Remote-First writes do.
SequencedAt(t) ==
  /\ t > issued => /\ direction[t] = "none" /\ local[t] = "none"
                   /\ remote[t] = "none" /\ answer[t] = "none"
  /\ t < issued => answer[t] # "none"
  /\ remote[t] = "none" => lease[t] = 0
  /\ remote[t] = "pending" => answer[t] = "none"
  /\ local[t] = "pending" =>
       answer[t] = "none" \/ (IsWrite(t) /\ policy = "REMOTE_FIRST")
  /\ ~IsWrite(t) /\ remote[t] = "pending" => local[t] = "none"

Sequenced == \A t \in Request : SequencedAt(t)

\* A request that has begun has been issued, and one without an answer is the
\* last one.
LEMMA Begun ==
  ASSUME DataType, Sequenced, NEW t \in Request,
         direction[t] # "none" \/ local[t] # "none" \/ remote[t] # "none"
  PROVE  ~(t > issued) /\ (answer[t] = "none" => t = issued /\ ~(t < issued))
<1>1. t \in Nat /\ issued \in Nat
  BY RequestNat DEF DataType
<1>2. SequencedAt(t)
  BY Zenon DEF Sequenced
<1> QED
  BY <1>1, <1>2 DEF SequencedAt

\* The sequence has to be checked for the request that makes a step only.
LEMMA SequencedOthers ==
  ASSUME Sequenced, NEW t \in Request, Others(t), SequencedAt(t)'
  PROVE  Sequenced'
<1> SUFFICES ASSUME NEW u \in Request, u # t PROVE SequencedAt(u)'
  BY Zenon DEF Sequenced
<1> QED
  BY ZenonT(60) DEF Sequenced, SequencedAt, Others, IsWrite

\* Every step of a request keeps the sequence.
LEMMA SequencedStep ==
  ASSUME DataType, Sequenced, NEW t \in Request, RequestStep(t)
  PROVE  Sequenced'
<1>0. SequencedAt(t)
  BY Zenon DEF Sequenced
<1>1. ASSUME Started(t) PROVE Sequenced'
  <2>1. ~(t > issued) /\ ~(t < issued)
    BY Zenon, <1>1, Begun DEF Started, Undispatched
  <2>2. SequencedAt(t)'
    BY ZenonT(60), <1>0, <1>1, <2>1
    DEF Started, SequencedAt, Others, Undispatched, IsWrite
  <2> QED
    BY Zenon, <1>1, <2>2, SequencedOthers DEF Started
<1>2. ASSUME RemoteEnded(t) PROVE Sequenced'
  <2>1. ~(t > issued)
    BY Zenon, <1>2, Begun DEF RemoteEnded
  <2>2. SequencedAt(t)'
    BY ZenonT(60), <1>0, <1>2, <2>1
    DEF RemoteEnded, SequencedAt, Others, WriteAnswer, Done, Answered, IsWrite
  <2> QED
    BY Zenon, <1>2, <2>2, SequencedOthers DEF RemoteEnded
<1>3. ASSUME LocalEnded(t) PROVE Sequenced'
  <2>1. ~(t > issued)
    BY Zenon, <1>3, Begun DEF LocalEnded
  <2>2. SequencedAt(t)'
    BY ZenonT(60), <1>0, <1>3, <2>1
    DEF LocalEnded, SequencedAt, Others, WriteAnswer, Done, Answered, IsWrite
  <2> QED
    BY Zenon, <1>3, <2>2, SequencedOthers DEF LocalEnded
<1>4. ASSUME Quiet(t),
             lease'[t] = lease[t] \/ lease'[t] = 0 \/ remote[t] # "none"
      PROVE  Sequenced'
  <2>1. SequencedAt(t)'
    BY ZenonT(60), <1>0, <1>4 DEF Quiet, SequencedAt, Others, IsWrite
  <2> QED
    BY Zenon, <1>4, <2>1, SequencedOthers DEF Quiet
<1>5. CASE \E d \in {"READ", "WRITE"} : Issue(t, d)
  <2>1. PICK d \in {"READ", "WRITE"} : Issue(t, d)
    BY <1>5
  <2>2. /\ t = issued + 1 /\ issued' = t /\ direction'[t] = d
        /\ \A u \in Request : u # t => direction'[u] = direction[u]
        /\ UNCHANGED <<policy, local, remote, answer, lease>>
    BY Zenon, <2>1 DEF Issue, DataType, rdmaVars
  <2>3. \A u \in Request : u < t => answer[u] # "none"
    <3> SUFFICES ASSUME NEW u \in Request, u < t PROVE answer[u] # "none"
      OBVIOUS
    <3>1. t > 1 => answer[issued] # "none"
      BY <2>1, RequestNat DEF Issue, DataType
    <3>2. (u = issued /\ t > 1) \/ u < issued
      BY <2>2, RequestNat DEF DataType, Request
    <3> QED
      BY Zenon, <3>1, <3>2 DEF Sequenced, SequencedAt
  <2> SUFFICES ASSUME NEW u \in Request PROVE SequencedAt(u)'
    BY Zenon DEF Sequenced
  <2>4. /\ SequencedAt(u) /\ SequencedAt(t)
        /\ t > issued /\ ~(t > t)
        /\ u > t => u > issued /\ u # t
    BY SMTT(60), <2>2, RequestNat DEF DataType, Sequenced
  <2> QED
    BY ZenonT(60), <2>2, <2>3, <2>4 DEF SequencedAt, IsWrite
<1>6. CASE DispatchBacking(t) \/ DispatchRemote(t) \/ RejectStart(t)
  BY Zenon, <1>1, <1>6, Dispatches
<1>7. CASE SubmitRefused(t) \/ SubmitFailed(t) \/ Deadline(t)
  BY Zenon, <1>2, <1>7, RemoteResults
<1>8. CASE SubmitPosted(t) \/ Execute(t) \/ Completed(t) \/ CompletedError(t)
  <2>1. CASE (Completed(t) \/ CompletedError(t)) /\ remote[t] = "pending"
    BY Zenon, <1>2, <2>1, RemoteResults
  <2>2. CASE ~((Completed(t) \/ CompletedError(t)) /\ remote[t] = "pending")
    <3>1. Quiet(t)
      BY Zenon, <1>8, <2>2, RdmaQuiet
    <3>2. lease'[t] = lease[t] \/ lease'[t] = 0 \/ remote[t] # "none"
      BY Zenon, <1>8
      DEF SubmitPosted, Submitting, Execute, Completed, CompletedError, DataType
    <3> QED
      BY Zenon, <1>4, <3>1, <3>2
  <2> QED
    BY Zenon, <2>1, <2>2
<1>9. CASE \/ BackingWritten(t) \/ BackingWriteFailed(t) \/ BackingRead(t)
           \/ BackingReadFailed(t)
  BY Zenon, <1>3, <1>4, <1>9, Bios
<1> QED
  BY ZenonT(60), <1>5, <1>6, <1>7, <1>8, <1>9 DEF RequestStep

-----------------------------------------------------------------------------
(* The Backing Store.                                                      *)

\* A Strict write that has only its bio behind it is what the Backing Store
\* holds.
StoredAt(t) ==
  IsWrite(t) /\ local[t] = "ok" /\ answer[t] = "none" => backing = t

\* The Backing Store of a Strict device holds the latest data or the data of an
\* unanswered write.
Stored ==
  policy = "STRICT" =>
    /\ backing \in acceptable \/ backing \in Outstanding
    /\ \A t \in Request : StoredAt(t)

\* Request t is a write and this step acknowledges it.
Acknowledged(t) == IsWrite(t) /\ answer[t] = "none" /\ answer'[t] = "ok"

\* A version stays acceptable, or that of an unanswered write, until a newer
\* write is acknowledged.
LEMMA StaysCurrent ==
  ASSUME NEW t \in Request, Others(t), Answered(t), NEW v,
         v \in acceptable \/ v \in Outstanding, v = t \/ ~Acknowledged(t)
  PROVE  v \in acceptable' \/ v \in Outstanding'
<1>1. CASE v \in acceptable
  BY ZenonT(60), <1>1 DEF Answered, Acknowledged
<1>2. CASE v \in Outstanding /\ v # t
  BY ZenonT(60), <1>2 DEF Others, Outstanding, IsWrite
<1>3. CASE v \in Outstanding /\ v = t
  BY ZenonT(60), <1>3 DEF Answered, Others, Outstanding, IsWrite
<1> QED
  BY Zenon, <1>1, <1>2, <1>3

\* A step that leaves the Backing Store alone and acknowledges no write before
\* its bio has ended.
LEMMA StoredKept ==
  ASSUME Stored, NEW t \in Request, Others(t), Answered(t),
         UNCHANGED backing,
         IsWrite(t) => local'[t] = local[t] \/ local'[t] = "pending",
         policy = "STRICT" /\ Acknowledged(t) => local[t] = "ok"
  PROVE  Stored'
<1> SUFFICES ASSUME policy = "STRICT" PROVE Stored'
  BY Zenon DEF Stored, Others
<1>1. /\ UNCHANGED <<backing, policy>>
      /\ backing \in acceptable \/ backing \in Outstanding
      /\ \A u \in Request : StoredAt(u)
  BY Zenon DEF Stored, Others
<1>2. ASSUME NEW u \in Request PROVE StoredAt(u)'
  BY ZenonT(60), <1>1 DEF StoredAt, Others, IsWrite, Answered
<1>3. backing = t \/ ~Acknowledged(t)
  BY Zenon, <1>1 DEF StoredAt, Acknowledged
<1>4. backing \in acceptable' \/ backing \in Outstanding'
  BY Zenon, <1>1, <1>3, StaysCurrent
<1> QED
  BY Zenon, <1>1, <1>2, <1>4 DEF Stored

\* No step of a request leaves a Strict device with old data in the Backing
\* Store.
LEMMA StoredStep ==
  ASSUME DataType, Sequenced, Stored, NEW t \in Request, RequestStep(t)
  PROVE  Stored'
<1>1. ASSUME Started(t) PROVE Stored'
  <2>1. ~Acknowledged(t) /\ (local'[t] = local[t] \/ local'[t] = "pending")
    <3>1. "error" # "ok"
      OBVIOUS
    <3> QED
      BY Zenon, <1>1, <3>1 DEF Started, Acknowledged, Undispatched
  <2> QED
    BY ZenonT(60), <1>1, <2>1, StoredKept DEF Started, storeVars
<1>2. ASSUME RemoteEnded(t) PROVE Stored'
  <2>1. policy = "STRICT" /\ Acknowledged(t) => local[t] = "ok"
    BY ZenonT(60), <1>2 DEF RemoteEnded, Acknowledged, WriteAnswer
  <2> QED
    BY ZenonT(60), <1>2, <2>1, StoredKept DEF RemoteEnded, storeVars
<1>3. ASSUME Quiet(t), UNCHANGED backing PROVE Stored'
  BY ZenonT(60), <1>3, StoredKept DEF Quiet, Answered, Acknowledged
<1>4. ASSUME LocalEnded(t), IsWrite(t), policy = "STRICT"
      PROVE  /\ answer[t] = "none"
             /\ t \in acceptable' \/ t \in Outstanding'
             /\ \A u \in Request : u # t => StoredAt(u)'
  <2>1. answer[t] = "none" /\ t = issued
    BY Zenon, <1>4, Begun DEF LocalEnded, Sequenced, SequencedAt
  <2>2. t \in acceptable' \/ t \in Outstanding'
    BY ZenonT(60), <1>4, <2>1 DEF LocalEnded, Others, Answered, Outstanding, IsWrite
  <2>3. ASSUME NEW u \in Request, u # t PROVE StoredAt(u)'
    <3>1. ~(IsWrite(u) /\ answer[u] = "none")
      BY Zenon, <2>1, <2>3, Begun DEF IsWrite
    <3> QED
      BY ZenonT(60), <1>4, <2>3, <3>1 DEF StoredAt, LocalEnded, Others, IsWrite
  <2> QED
    BY Zenon, <2>1, <2>2, <2>3
<1>5. CASE \E d \in {"READ", "WRITE"} : Issue(t, d)
  <2>1. PICK d \in {"READ", "WRITE"} : Issue(t, d)
    BY <1>5
  <2>2. /\ direction'[t] = d
        /\ \A u \in Request : u # t => direction'[u] = direction[u]
        /\ UNCHANGED <<policy, backing, local, answer, acceptable>>
    BY Zenon, <2>1 DEF Issue, DataType, storeVars, clientVars
  <2>3. t > issued
    BY <2>1, RequestNat DEF Issue, DataType
  <2>4. direction[t] = "none" /\ local[t] = "none"
    BY Zenon, <2>3 DEF Sequenced, SequencedAt
  <2>5. Outstanding \subseteq Outstanding'
    BY Zenon, <2>2, <2>4 DEF Outstanding, IsWrite
  <2> QED
    BY ZenonT(60), <2>2, <2>4, <2>5 DEF Stored, StoredAt, IsWrite
<1>6. CASE DispatchBacking(t) \/ DispatchRemote(t) \/ RejectStart(t)
  BY Zenon, <1>1, <1>6, Dispatches
<1>7. CASE SubmitRefused(t) \/ SubmitFailed(t) \/ Deadline(t)
  BY Zenon, <1>2, <1>7, RemoteResults
<1>8. CASE SubmitPosted(t) \/ Execute(t) \/ Completed(t) \/ CompletedError(t)
  BY ZenonT(60), <1>2, <1>3, <1>8, RemoteResults, RdmaQuiet DEF storeVars
<1>9. CASE BackingWritten(t)
  <2>1. LocalEnded(t) /\ IsWrite(t)
    BY Zenon, <1>9, Bios DEF BackingWritten
  <2>2. backing' = t
    BY Zenon, <1>9 DEF BackingWritten
  <2> SUFFICES ASSUME policy = "STRICT" PROVE Stored'
    BY Zenon, <2>1 DEF Stored, LocalEnded, Others
  <2>3. t \in acceptable' \/ t \in Outstanding'
    BY Zenon, <1>4, <2>1
  <2>4. ASSUME NEW u \in Request PROVE StoredAt(u)'
    <3>1. CASE u = t
      BY Zenon, <2>2, <3>1 DEF StoredAt
    <3>2. CASE u # t
      BY Zenon, <1>4, <2>1, <3>2
    <3> QED
      BY Zenon, <3>1, <3>2
  <2> QED
    BY Zenon, <2>2, <2>3, <2>4 DEF Stored
<1>10. CASE BackingRead(t) \/ BackingReadFailed(t)
  <2>1. LocalEnded(t) /\ ~IsWrite(t) /\ UNCHANGED backing
    BY Zenon, <1>10, Bios DEF BackingRead, BackingReadFailed, IsWrite, storeVars
  <2> QED
    BY ZenonT(60), <2>1, StoredKept DEF LocalEnded, Acknowledged
<1>11. CASE BackingWriteFailed(t)
  <2>1. CASE LocalEnded(t) /\ local'[t] = "error"
    <3>1. IsWrite(t) /\ backing' \in {backing, t}
      BY Zenon, <1>11 DEF BackingWriteFailed
    <3> SUFFICES ASSUME policy = "STRICT" PROVE Stored'
      BY Zenon, <2>1 DEF Stored, LocalEnded, Others
    <3>2. ~Acknowledged(t) /\ "error" # "ok"
      BY <2>1 DEF LocalEnded, Acknowledged, WriteAnswer, Done
    <3>3. backing' \in acceptable' \/ backing' \in Outstanding'
      <4>1. CASE backing' = backing
        BY Zenon, <2>1, <3>2, <4>1, StaysCurrent DEF Stored, LocalEnded
      <4>2. CASE backing' = t
        BY Zenon, <1>4, <2>1, <3>1, <4>2
      <4> QED
        BY Zenon, <3>1, <4>1, <4>2
    <3>4. ASSUME NEW u \in Request PROVE StoredAt(u)'
      <4>1. CASE u = t
        BY Zenon, <2>1, <3>2, <4>1 DEF StoredAt
      <4>2. CASE u # t
        BY Zenon, <1>4, <2>1, <3>1, <4>2
      <4> QED
        BY Zenon, <4>1, <4>2
    <3> QED
      BY Zenon, <3>3, <3>4 DEF Stored
  <2>2. CASE Quiet(t) /\ policy # "STRICT"
    BY Zenon, <2>2 DEF Stored, Quiet, Others
  <2> QED
    BY Zenon, <1>11, <2>1, <2>2, Bios
<1> QED
  BY ZenonT(60), <1>5, <1>6, <1>7, <1>8, <1>9, <1>10, <1>11 DEF RequestStep

-----------------------------------------------------------------------------
(* The leases.                                                             *)

\* A lease is on the present mapping, or the Provider has failed for good.
LeasedAt(t) ==
  /\ lease[t] <= mapping_generation
  /\ lease[t] # 0 => failed \/ Current(t)
  /\ lease[t] # 0 /\ Current(t) => chunk # "UNMAPPED"

Leased ==
  /\ \A t \in Request : LeasedAt(t)
  /\ chunk # "UNMAPPED" => ~failed /\ mapping_generation # 0
  /\ valid => chunk # "UNMAPPED"

\* The mapping stays, and the lease of t is kept, taken or returned.
LEMMA LeasedKept ==
  ASSUME DataType, Leased, NEW t \in Request,
         UNCHANGED <<failed, chunk, mapping_generation>>,
         \A u \in Request : u # t => lease'[u] = lease[u],
         \/ lease'[t] = lease[t] \/ lease'[t] = 0
         \/ lease'[t] = mapping_generation /\ chunk # "UNMAPPED",
         valid' => valid \/ chunk # "UNMAPPED"
  PROVE  Leased'
<1>1. ASSUME NEW u \in Request PROVE LeasedAt(u)'
  <2>1. LeasedAt(u) /\ mapping_generation \in Nat /\ lease[u] \in Nat
    BY Zenon DEF Leased, DataType
  <2>2. lease'[u] = lease[u] => LeasedAt(u)'
    BY Zenon, <2>1 DEF LeasedAt, Current
  <2>3. lease'[u] = 0 => LeasedAt(u)'
    BY <2>1 DEF LeasedAt
  <2>4. lease'[u] = mapping_generation /\ chunk # "UNMAPPED" => LeasedAt(u)'
    BY <2>1 DEF LeasedAt, Current
  <2> QED
    BY Zenon, <2>2, <2>3, <2>4
<1> QED
  BY Zenon, <1>1 DEF Leased

\* The Provider fails: every lease is on an older mapping.
LEMMA LeasedFailed ==
  ASSUME DataType, Leased, FailProvider,
         \A u \in Request : lease'[u] = lease[u] \/ lease'[u] = 0
  PROVE  Leased' /\ \A u \in Request : lease'[u] # 0 => ~Current(u)'
<1>1. ASSUME NEW u \in Request
      PROVE  LeasedAt(u)' /\ (lease'[u] # 0 => ~Current(u)')
  <2>1. /\ lease[u] <= mapping_generation /\ failed'
        /\ mapping_generation \in Nat /\ lease[u] \in Nat
        /\ mapping_generation' = mapping_generation + 1
    BY Zenon DEF Leased, LeasedAt, DataType, FailProvider
  <2> QED
    BY <2>1 DEF LeasedAt, Current
<1> QED
  BY Zenon, <1>1 DEF Leased, FailProvider

\* Every step of a request keeps the leases on the mapping.
LEMMA LeasedStep ==
  ASSUME DataType, Leased, NEW t \in Request, RequestStep(t)
  PROVE  Leased'
<1> USE DEF remoteVars, rdmaVars
<1>1. CASE \E d \in {"READ", "WRITE"} : Issue(t, d)
  <2>1. UNCHANGED <<failed, chunk, mapping_generation, valid, lease>>
    BY Zenon, <1>1 DEF Issue
  <2> QED
    BY ZenonT(60), <2>1, LeasedKept
<1>2. CASE DispatchBacking(t) \/ DispatchRemote(t) \/ RejectStart(t)
  <2>1. Others(t) /\ lease'[t] = lease[t] /\ UNCHANGED remoteVars
    BY Zenon, <1>2, Dispatches DEF Started
  <2> QED
    BY ZenonT(60), <2>1, LeasedKept DEF Others
<1>3. CASE SubmitRefused(t)
  BY ZenonT(60), <1>3, LeasedKept DEF SubmitRefused
<1>4. CASE SubmitPosted(t)
  <2>1. /\ UNCHANGED <<failed, chunk, mapping_generation>>
        /\ \A u \in Request : u # t => lease'[u] = lease[u]
        /\ lease'[t] = mapping_generation /\ chunk = "MAPPED"
        /\ valid' => valid
    BY ZenonT(60), <1>4 DEF SubmitPosted, Admits, ValidAfterLease, DataType
  <2> QED
    BY ZenonT(60), <2>1, LeasedKept
<1>5. CASE SubmitFailed(t)
  BY ZenonT(60), <1>5, LeasedKept DEF SubmitFailed, ValidAfterLease
<1>6. CASE Execute(t)
  BY ZenonT(60), <1>6, LeasedKept DEF Execute
<1>7. CASE Completed(t)
  <2>1. /\ UNCHANGED <<failed, chunk, mapping_generation>>
        /\ \A u \in Request : u # t => lease'[u] = lease[u]
        /\ lease'[t] = 0 /\ lease[t] # 0
    BY ZenonT(60), <1>7 DEF Completed, DataType
  <2>2. valid' => valid \/ Current(t)
    BY ZenonT(60), <1>7 DEF Completed, ValidAfterResolve
  <2>3. Current(t) => chunk # "UNMAPPED"
    BY Zenon, <2>1 DEF Leased, LeasedAt
  <2> QED
    BY ZenonT(60), <2>1, <2>2, <2>3, LeasedKept
<1>8. CASE CompletedError(t)
  BY ZenonT(60), <1>8, LeasedFailed DEF CompletedError, DataType
<1>9. CASE Deadline(t)
  BY ZenonT(60), <1>9, LeasedKept DEF Deadline, ValidAfterResolve
<1>10. CASE \/ BackingWritten(t) \/ BackingWriteFailed(t) \/ BackingRead(t)
            \/ BackingReadFailed(t)
  <2>1. Others(t) /\ lease'[t] = lease[t] /\ UNCHANGED remoteVars
    BY ZenonT(60), <1>10, Bios DEF LocalEnded, Quiet
  <2> QED
    BY ZenonT(60), <2>1, LeasedKept DEF Others
<1> QED
  BY ZenonT(60), <1>1, <1>2, <1>3, <1>4, <1>5, <1>6, <1>7, <1>8, <1>9, <1>10
  DEF RequestStep

-----------------------------------------------------------------------------
(* The queue pair.                                                         *)

\* The queue pair holds operations in the order of their requests, and those
\* already executed are older.
Queued ==
  /\ \A t \in Request : OnWire(t) => ~(t > issued) /\ lease[t] # 0
  /\ \A i, j \in 1 .. Len(wire) : i < j => wire[i] < wire[j]
  /\ \A t, u \in Request :
       lease[t] # 0 /\ ~OnWire(t) /\ OnWire(u) => t < u

\* What posting does to the queue pair.
LEMMA WirePosted ==
  ASSUME wire \in Seq(Request), NEW t \in Request, wire' = Append(wire, t)
  PROVE  \A u \in Request : OnWire(u)' <=> OnWire(u) \/ u = t
  BY SMTT(60) DEF OnWire

\* The oldest operation leaves the queue pair.
LEMMA WireTaken ==
  ASSUME wire \in Seq(Request), NEW t \in Request, wire # <<>>,
         Head(wire) = t, wire' = Tail(wire),
         \A i, j \in 1 .. Len(wire) : i < j => wire[i] < wire[j]
  PROVE  /\ OnWire(t)
         /\ \A u \in Request : OnWire(u)' <=> OnWire(u) /\ u # t
         /\ \A u \in Request : OnWire(u)' => t < u
         /\ \A i, j \in 1 .. Len(wire') : i < j => wire'[i] < wire'[j]
<1>1. /\ Len(wire) >= 1 /\ Len(wire) \in Nat /\ wire[1] = t
      /\ Len(wire') = Len(wire) - 1
      /\ \A i \in 1 .. Len(wire') : wire'[i] = wire[i + 1]
  OBVIOUS
<1>2. \A i \in 1 .. Len(wire) : wire[i] \in Request
  OBVIOUS
<1>3. \A i \in 2 .. Len(wire) : t < wire[i]
  BY <1>1, <1>2
<1>4. OnWire(t)
  BY <1>1 DEF OnWire
<1>5. ASSUME NEW u \in Request, OnWire(u)'
      PROVE  OnWire(u) /\ t < u
  <2>1. PICK i \in 1 .. Len(wire') : wire'[i] = u
    BY <1>5 DEF OnWire
  <2>2. i + 1 \in 2 .. Len(wire) /\ i + 1 \in 1 .. Len(wire) /\ wire[i + 1] = u
    BY <1>1, <2>1
  <2> QED
    BY <1>3, <2>2 DEF OnWire
<1>6. ASSUME NEW u \in Request, OnWire(u), u # t
      PROVE  OnWire(u)'
  <2>1. PICK i \in 1 .. Len(wire) : wire[i] = u
    BY <1>6 DEF OnWire
  <2>2. i - 1 \in 1 .. Len(wire') /\ wire'[i - 1] = u
    BY <1>1, <1>6, <2>1
  <2> QED
    BY SMTT(60), Z3T(60), ZenonT(120), <2>2 DEF OnWire
<1>7. ASSUME NEW i \in 1 .. Len(wire'), NEW j \in 1 .. Len(wire'), i < j
      PROVE  wire'[i] < wire'[j]
  <2>1. i + 1 \in 1 .. Len(wire) /\ j + 1 \in 1 .. Len(wire) /\ i + 1 < j + 1
    BY <1>1, <1>7
  <2> QED
    BY <1>1, <2>1
<1>8. \A u \in Request : t < u => u # t
  BY RequestNat
<1> QED
  BY <1>4, <1>5, <1>6, <1>7, <1>8

\* An operation leaves the queue pair, executed or failed.
LEMMA QueuedTaken ==
  ASSUME Queued, wire \in Seq(Request), NEW t \in Request, issued' = issued,
         wire # <<>>, Head(wire) = t, wire' = Tail(wire),
         \A u \in Request : u # t => lease'[u] = lease[u]
  PROVE  Queued'
<1>1. /\ OnWire(t)
      /\ \A u \in Request : OnWire(u)' <=> OnWire(u) /\ u # t
      /\ \A u \in Request : OnWire(u)' => t < u
      /\ \A i, j \in 1 .. Len(wire') : i < j => wire'[i] < wire'[j]
  BY WireTaken DEF Queued
<1> QED
  BY ZenonT(60), <1>1 DEF Queued

\* A lease is returned, or nothing happens to the queue pair.
LEMMA QueuedKept ==
  ASSUME Queued, NEW t \in Request, issued' = issued, wire' = wire,
         \A u \in Request : u # t => lease'[u] = lease[u],
         lease'[t] = lease[t] \/ (lease'[t] = 0 /\ ~OnWire(t))
  PROVE  Queued'
<1>1. \A u \in Request : OnWire(u)' <=> OnWire(u)
  BY Zenon DEF OnWire
<1> QED
  BY ZenonT(60), <1>1 DEF Queued

\* Every step of a request keeps the order of the queue pair.
LEMMA QueuedStep ==
  ASSUME DataType, Sequenced, Leased, Queued, NEW t \in Request, RequestStep(t)
  PROVE  Queued'
<1>0. wire \in Seq(Request)
  BY DEF DataType
<1>1. CASE \E d \in {"READ", "WRITE"} : Issue(t, d)
  <2>1. t = issued + 1 /\ issued' = t /\ UNCHANGED <<wire, lease>>
    BY Zenon, <1>1 DEF Issue, rdmaVars
  <2>2. \A u \in Request : u > issued' => u > issued
    BY <2>1, RequestNat DEF DataType
  <2> QED
    BY ZenonT(60), <2>1, <2>2 DEF Queued, OnWire
<1>2. CASE DispatchBacking(t) \/ DispatchRemote(t) \/ RejectStart(t)
  BY ZenonT(60), <1>2, Dispatches, QueuedKept DEF Started, Others
<1>3. CASE SubmitRefused(t) \/ SubmitFailed(t) \/ Deadline(t)
  BY ZenonT(60), <1>3, RemoteResults, QueuedKept DEF RemoteEnded, Others
<1>4. CASE SubmitPosted(t)
  <2>1. Quiet(t) /\ remote[t] = "pending" /\ lease[t] = 0 /\ ~OnWire(t)
    BY Zenon, <1>4, RdmaQuiet DEF SubmitPosted, Submitting, OnWire
  <2>2. /\ wire' = Append(wire, t) /\ lease'[t] = mapping_generation
        /\ chunk = "MAPPED"
    BY Zenon, <1>4 DEF SubmitPosted, Admits, DataType
  <2>3. /\ t = issued /\ issued' = issued /\ lease'[t] # 0
        /\ \A u \in Request : u # t => lease'[u] = lease[u]
    BY ZenonT(60), <2>1, <2>2, Begun
    DEF Sequenced, SequencedAt, Leased, Quiet, Others
  <2>4. \A u \in Request : OnWire(u)' <=> OnWire(u) \/ u = t
    BY Zenon, <1>0, <2>2, WirePosted
  <2>5. \A u \in Request : lease[u] # 0 \/ OnWire(u) => u < t
    <3> SUFFICES ASSUME NEW u \in Request, lease[u] # 0 \/ OnWire(u)
                 PROVE  u < t
      OBVIOUS
    <3>1. u # t /\ ~(u > issued)
      BY ZenonT(60), <2>1, Begun DEF Queued, Sequenced, SequencedAt
    <3> QED
      BY <2>3, <3>1, RequestNat
  <2>6. \A i, j \in 1 .. Len(wire') : i < j => wire'[i] < wire'[j]
    <3> SUFFICES ASSUME NEW i \in 1 .. Len(wire'), NEW j \in 1 .. Len(wire'),
                        i < j
                 PROVE  wire'[i] < wire'[j]
      OBVIOUS
    <3>1. /\ i \in 1 .. Len(wire) /\ wire'[i] = wire[i] /\ wire[i] \in Request
          /\ j \in 1 .. Len(wire) => wire'[j] = wire[j]
          /\ j \notin 1 .. Len(wire) => wire'[j] = t
      BY <1>0, <2>2
    <3>2. OnWire(wire[i])
      BY Zenon, <3>1 DEF OnWire
    <3> QED
      BY Zenon, <2>5, <3>1, <3>2 DEF Queued
  <2>7. ~(t > issued')
    BY <2>3, RequestNat
  <2> QED
    BY ZenonT(60), <2>3, <2>4, <2>5, <2>6, <2>7 DEF Queued
<1>5. CASE Execute(t)
  <2>1. /\ Quiet(t) /\ wire # <<>> /\ Head(wire) = t /\ wire' = Tail(wire)
    BY Zenon, <1>5, RdmaQuiet DEF Execute
  <2> QED
    BY ZenonT(60), <1>0, <2>1, QueuedTaken DEF Quiet, Others
<1>6. CASE Completed(t)
  <2>1. /\ wire' = wire /\ ~OnWire(t) /\ lease'[t] = 0 /\ issued' = issued
        /\ \A u \in Request : u # t => lease'[u] = lease[u]
    BY Zenon, <1>6 DEF Completed, OnWire, DataType
  <2> QED
    BY ZenonT(60), <2>1, QueuedKept
<1>7. CASE CompletedError(t)
  <2>1. /\ lease'[t] = 0 /\ issued' = issued
        /\ \A u \in Request : u # t => lease'[u] = lease[u]
    BY Zenon, <1>7 DEF CompletedError, DataType
  <2>2. CASE OnWire(t)
    <3>1. wire # <<>> /\ Head(wire) = t
      BY <1>0, <1>7, <2>2 DEF CompletedError, OnWire
    <3>2. wire' = Tail(wire)
      BY Zenon, <1>7, <2>2 DEF CompletedError, OnWire
    <3> QED
      BY ZenonT(60), <1>0, <2>1, <3>1, <3>2, QueuedTaken
  <2>3. CASE ~OnWire(t)
    BY ZenonT(60), <1>7, <2>1, <2>3, QueuedKept DEF CompletedError, OnWire
  <2> QED
    BY Zenon, <2>2, <2>3
<1>8. CASE \/ BackingWritten(t) \/ BackingWriteFailed(t) \/ BackingRead(t)
           \/ BackingReadFailed(t)
  <2>1. Others(t) /\ lease'[t] = lease[t] /\ wire' = wire
    BY ZenonT(60), <1>8, Bios DEF LocalEnded, Quiet
  <2> QED
    BY ZenonT(60), <2>1, QueuedKept DEF Others
<1> QED
  BY ZenonT(60), <1>1, <1>2, <1>3, <1>4, <1>5, <1>6, <1>7, <1>8 DEF RequestStep

-----------------------------------------------------------------------------
(* The copy in Remote Memory.                                              *)

\* No write to the present mapping is still to be executed.
NoWriteQueued ==
  \A t \in Request : OnWire(t) => ~(IsWrite(t) /\ Current(t))

\* A read would be admitted, by a device that has been CONNECTED all along.
Readable == connected /\ ~restored /\ valid /\ chunk = "MAPPED"

\* What the copy holds, by how far the last request, a write, has come.
CopiedAt(t) ==
  IsWrite(t) =>
    /\ lease[t] # 0 /\ Current(t) /\ ~OnWire(t) => remote_copy = t
    /\ remote[t] = "ok" /\ Readable => remote_copy = t
    /\ remote[t] = "error" => ~Readable
    /\ remote[t] = "none" /\ local[t] # "none" => ~connected \/ restored

Copied ==
  /\ valid => NoWriteQueued
  /\ Readable => remote_copy \in acceptable \/ remote_copy \in Outstanding
  /\ \A t \in Request : t = issued => CopiedAt(t)

\* Nothing is readable at a Provider that has failed.
LEMMA Unreadable ==
  ASSUME Leased, failed
  PROVE  ~Readable
<1>1. "MAPPED" # "UNMAPPED"
  OBVIOUS
<1> QED
  BY Zenon, <1>1 DEF Leased, Readable

\* A step that changes neither the copy nor the queue pair, makes nothing
\* readable, and acknowledges a write only when the copy is that write's.
LEMMA CopiedKept ==
  ASSUME Copied, NEW t \in Request, Others(t), Answered(t),
         UNCHANGED <<connected, restored, chunk, mapping_generation, remote_copy, wire>>,
         lease'[t] = lease[t], valid' => valid,
         Readable' /\ Acknowledged(t) => remote_copy = t,
         t = issued => CopiedAt(t)'
  PROVE  Copied'
<1>1. Readable' => Readable
  BY Zenon DEF Readable
<1>2. \A u \in Request : OnWire(u)' <=> OnWire(u)
  BY Zenon DEF OnWire
<1>3. \A u \in Request : IsWrite(u)' <=> IsWrite(u)
  BY Zenon DEF IsWrite, Others
<1>4. \A u \in Request : Current(u)' <=> Current(u)
  BY Zenon DEF Current, Others
<1>5. valid' => NoWriteQueued'
  BY Zenon, <1>2, <1>3, <1>4 DEF Copied, NoWriteQueued
<1>6. Readable' => remote_copy' \in acceptable' \/ remote_copy' \in Outstanding'
  BY Zenon, <1>1, StaysCurrent DEF Copied
<1>7. ASSUME NEW u \in Request, u = issued', u # t PROVE CopiedAt(u)'
  BY ZenonT(60), <1>1, <1>2, <1>3, <1>4, <1>7 DEF Copied, CopiedAt, Others
<1> QED
  BY Zenon, <1>5, <1>6, <1>7 DEF Copied, Others

\* Every step of a request that has memory for its transaction keeps the copy
\* current.
LEMMA CopiedStep ==
  ASSUME DataType, Sequenced, Leased, Queued, Copied, ~MayFailAllocation,
         NEW t \in Request, RequestStep(t)
  PROVE  Copied'
<1> USE DEF remoteVars, rdmaVars
<1>0. LeasedAt(t) /\ SequencedAt(t)
  BY Zenon DEF Leased, Sequenced
<1>1. CASE \E d \in {"READ", "WRITE"} : Issue(t, d)
  <2>1. PICK d \in {"READ", "WRITE"} : Issue(t, d)
    BY <1>1
  <2>2. /\ issued' = t /\ direction'[t] = d
        /\ \A u \in Request : u # t => direction'[u] = direction[u]
        /\ UNCHANGED <<local, remote, answer, acceptable, remoteVars, rdmaVars>>
    BY Zenon, <2>1 DEF Issue, DataType, clientVars
  <2>3. t > issued
    BY <2>1, RequestNat DEF Issue, DataType
  <2>4. /\ direction[t] = "none" /\ local[t] = "none" /\ remote[t] = "none"
        /\ lease[t] = 0 /\ ~OnWire(t)
    BY Zenon, <1>0, <2>3 DEF SequencedAt, Queued
  <2>5. Outstanding \subseteq Outstanding' /\ (Readable' => Readable)
    BY Zenon, <2>2, <2>4 DEF Outstanding, IsWrite, Readable
  <2>6. NoWriteQueued => NoWriteQueued'
    BY ZenonT(60), <2>2, <2>4 DEF NoWriteQueued, IsWrite, OnWire, Current
  <2>7. CopiedAt(t)'
    BY ZenonT(60), <2>2, <2>4 DEF CopiedAt
  <2> QED
    BY ZenonT(60), <2>2, <2>5, <2>6, <2>7 DEF Copied
<1>2. CASE DispatchBacking(t) \/ DispatchRemote(t) \/ RejectStart(t)
  <2>1. Started(t)
    BY Zenon, <1>2, Dispatches
  <2>2. t = issued /\ lease[t] = 0 /\ ~Acknowledged(t)
    BY ZenonT(60), <1>0, <2>1, Begun
    DEF Started, Undispatched, SequencedAt, Acknowledged
  <2>3. CopiedAt(t)'
    BY ZenonT(60), <2>1, <2>2 DEF Started, CopiedAt
  <2> QED
    BY ZenonT(60), <2>1, <2>2, <2>3, CopiedKept DEF Started
<1>3. CASE SubmitRefused(t) \/ SubmitFailed(t) \/ Deadline(t)
  <2>1. /\ RemoteEnded(t) /\ remote'[t] = "error"
        /\ lease' = lease /\ wire' = wire /\ remote_copy' = remote_copy
    BY Zenon, <1>3, RemoteResults
  <2>2. /\ UNCHANGED <<connected, restored, chunk, mapping_generation>>
        /\ valid' => valid
    BY ZenonT(60), <1>3
    DEF SubmitRefused, SubmitFailed, Deadline, ValidAfterLease, ValidAfterResolve
  <2>3. t = issued
    BY Zenon, <1>0, <2>1, Begun DEF RemoteEnded, SequencedAt
  <2>4. IsWrite(t) => ~Readable'
    <3>1. CASE SubmitRefused(t)
      <4>1. ~connected \/ ~(chunk = "MAPPED" /\ (IsWrite(t) \/ valid))
        BY Zenon, <3>1 DEF SubmitRefused, Admits
      <4>2. Readable' => connected /\ chunk = "MAPPED"
        BY SMT, <2>2 DEF Readable
      <4> QED
        BY Zenon, <4>1, <4>2
    <3>2. CASE SubmitFailed(t)
      BY Zenon, <3>2 DEF SubmitFailed, ValidAfterLease, Readable
    <3>3. CASE Deadline(t)
      <4>1. Current(t) \/ failed
        BY Zenon, <1>0, <3>3 DEF Deadline, LeasedAt
      <4>2. IsWrite(t) /\ Current(t) => ~valid'
        BY Zenon, <3>3 DEF Deadline, ValidAfterResolve
      <4> QED
        BY Zenon, <2>2, <4>1, <4>2, Unreadable DEF Readable
    <3> QED
      BY Zenon, <1>3, <3>1, <3>2, <3>3
  <2>5. CopiedAt(t)'
    <3>1. CopiedAt(t)
      BY Zenon, <2>3 DEF Copied
    <3> QED
      BY ZenonT(60), <2>1, <2>2, <2>4, <3>1
      DEF CopiedAt, RemoteEnded, Others, IsWrite, Current, OnWire
  <2> QED
    BY ZenonT(60), <2>1, <2>2, <2>4, <2>5, CopiedKept
    DEF RemoteEnded, Acknowledged
<1>4. CASE SubmitPosted(t)
  <2>1. Quiet(t) /\ remote[t] = "pending"
    BY Zenon, <1>4, RdmaQuiet DEF SubmitPosted, Submitting
  <2>2. /\ UNCHANGED <<connected, restored, chunk, mapping_generation, remote_copy>>
        /\ valid' => valid /\ ~IsWrite(t)
    BY ZenonT(60), <1>4 DEF SubmitPosted, ValidAfterLease
  <2>3. t = issued /\ issued' = issued
    BY Zenon, <1>0, <2>1, Begun DEF SequencedAt, Quiet, Others
  <2>4. \A u \in Request : OnWire(u)' <=> OnWire(u) \/ u = t
    BY Zenon, <1>4, WirePosted DEF SubmitPosted, DataType
  <2>5. valid' => NoWriteQueued'
    BY ZenonT(60), <2>1, <2>2, <2>4
    DEF Copied, NoWriteQueued, Quiet, Others, IsWrite, Current
  <2>6. CopiedAt(t)'
    BY ZenonT(60), <2>1, <2>4 DEF CopiedAt, Quiet
  <2>7. Readable' => remote_copy' \in acceptable' \/ remote_copy' \in Outstanding'
    BY ZenonT(60), <2>1, <2>2
    DEF Copied, Readable, Quiet, Others, Outstanding, IsWrite
  <2> QED
    BY Zenon, <2>3, <2>5, <2>6, <2>7 DEF Copied
<1>5. CASE Execute(t)
  <2>1. /\ Quiet(t) /\ wire # <<>> /\ Head(wire) = t /\ wire' = Tail(wire)
        /\ UNCHANGED <<connected, restored, chunk, mapping_generation, valid, lease>>
        /\ remote_copy' = IF IsWrite(t) /\ Current(t) THEN t ELSE remote_copy
    BY Zenon, <1>5, RdmaQuiet DEF Execute
  <2>2. /\ OnWire(t)
        /\ \A u \in Request : OnWire(u)' <=> OnWire(u) /\ u # t
    BY Zenon, <2>1, WireTaken DEF Queued, DataType
  <2>3. valid => NoWriteQueued' /\ remote_copy' = remote_copy
    BY ZenonT(60), <2>1, <2>2
    DEF Copied, NoWriteQueued, Quiet, Others, IsWrite, Current
  <2>4. Readable' => remote_copy' \in acceptable' \/ remote_copy' \in Outstanding'
    BY ZenonT(60), <2>1, <2>3
    DEF Copied, Readable, Quiet, Others, Outstanding, IsWrite
  <2>5. ASSUME NEW u \in Request, u = issued PROVE CopiedAt(u)'
    <3>1. CopiedAt(u)
      BY Zenon, <2>5 DEF Copied
    <3>2. CASE u = t
      BY ZenonT(60), <2>1, <2>3, <3>1, <3>2
      DEF CopiedAt, Quiet, Others, IsWrite, Current, Readable
    <3>3. CASE u # t
      <4>1. ~(u < t)
        BY <2>2, <2>5, RequestNat DEF Queued, DataType
      <4>2. ~(lease[u] # 0 /\ ~OnWire(u)')
        BY Zenon, <2>2, <3>3, <4>1 DEF Queued
      <4> QED
        BY ZenonT(60), <2>1, <2>3, <3>1, <4>2
        DEF CopiedAt, Quiet, Others, IsWrite, Readable
    <3> QED
      BY Zenon, <3>2, <3>3
  <2> QED
    BY Zenon, <2>1, <2>3, <2>4, <2>5 DEF Copied, Quiet, Others
<1>6. CASE Completed(t) /\ remote[t] # "pending"
  <2>1. Quiet(t) /\ lease'[t] = 0
    BY Zenon, <1>6, RdmaQuiet DEF Completed, DataType
  <2>2. /\ UNCHANGED <<connected, restored, chunk, mapping_generation, remote_copy, wire>>
        /\ valid' = valid
    BY Zenon, <1>6 DEF Completed, ValidAfterResolve
  <2>3. valid' => NoWriteQueued'
    <3>1. ASSUME NEW u \in Request, valid', OnWire(u)' PROVE ~(IsWrite(u) /\ Current(u))'
      <4>1. OnWire(u) /\ u # t
        BY Zenon, <1>6, <2>2, <3>1 DEF OnWire, Completed
      <4> QED
        BY ZenonT(60), <2>1, <2>2, <3>1, <4>1
        DEF Copied, NoWriteQueued, Quiet, Others, IsWrite, Current
    <3> QED
      BY Zenon, <3>1 DEF NoWriteQueued
  <2>4. Readable' => remote_copy' \in acceptable' \/ remote_copy' \in Outstanding'
    BY ZenonT(60), <2>1, <2>2
    DEF Copied, Readable, Quiet, Others, Outstanding, IsWrite
  <2>5. ASSUME NEW u \in Request, u = issued PROVE CopiedAt(u)'
    <3>1. CopiedAt(u)
      BY Zenon, <2>5 DEF Copied
    <3> QED
      BY ZenonT(60), <2>1, <2>2, <3>1
      DEF CopiedAt, Quiet, Others, IsWrite, Current, Readable, OnWire
  <2> QED
    BY Zenon, <2>1, <2>3, <2>4, <2>5 DEF Copied, Quiet, Others
<1>7. CASE Completed(t) /\ remote[t] = "pending"
  <2>1. RemoteEnded(t) /\ remote'[t] = "ok"
    BY Zenon, <1>7, RemoteResults
  <2>2. /\ UNCHANGED <<connected, restored, chunk, mapping_generation, remote_copy, wire>>
        /\ valid' = IF IsWrite(t) /\ Current(t) THEN TRUE ELSE valid
        /\ lease[t] # 0 /\ lease'[t] = 0 /\ ~OnWire(t)
    BY ZenonT(60), <1>7 DEF Completed, ValidAfterResolve, OnWire, DataType
  <2>3. t = issued /\ answer[t] = "none"
    BY Zenon, <1>0, <1>7, Begun DEF SequencedAt
  <2>4. CopiedAt(t)
    BY Zenon, <2>3 DEF Copied
  <2>5. IsWrite(t) /\ Current(t) => remote_copy = t
    BY Zenon, <2>2, <2>4 DEF CopiedAt
  <2>6. IsWrite(t) /\ ~Current(t) => ~Readable /\ ~Readable'
    BY Zenon, <1>0, <2>2, Unreadable DEF LeasedAt, Readable
  <2>7. \A u \in Request : ~OnWire(u)'
    <3> SUFFICES ASSUME NEW u \in Request, OnWire(u)' PROVE FALSE
      OBVIOUS
    <3>1. OnWire(u)
      BY Zenon, <2>2 DEF OnWire
    <3>2. t < u /\ ~(u > issued)
      BY Zenon, <2>2, <3>1 DEF Queued
    <3> QED
      BY <2>3, <3>2, RequestNat
  <2>8. Readable' => remote_copy' \in acceptable' \/ remote_copy' \in Outstanding'
    <3>1. CASE IsWrite(t)
      <4>1. t \in Outstanding
        BY Zenon, <2>3, <3>1 DEF Outstanding
      <4> QED
        BY Zenon, <2>1, <2>2, <2>5, <2>6, <3>1, <4>1, StaysCurrent
        DEF RemoteEnded
    <3>2. CASE ~IsWrite(t)
      BY Zenon, <2>1, <2>2, <3>2, StaysCurrent
      DEF RemoteEnded, Copied, Readable, Acknowledged
    <3> QED
      BY Zenon, <3>1, <3>2
  <2>9. CopiedAt(t)'
    BY ZenonT(60), <2>1, <2>2, <2>5, <2>6
    DEF CopiedAt, RemoteEnded, Others, IsWrite
  <2> QED
    BY Zenon, <2>1, <2>3, <2>7, <2>8, <2>9
    DEF Copied, NoWriteQueued, RemoteEnded, Others
<1>8. CASE CompletedError(t)
  <2>1. /\ FailProvider
        /\ \A u \in Request : lease'[u] = lease[u] \/ lease'[u] = 0
    BY Zenon, <1>8 DEF CompletedError, DataType
  <2>2. \A u \in Request : lease'[u] # 0 => ~Current(u)'
    BY Zenon, <2>1, LeasedFailed
  <2>3. ~valid' /\ connected' = connected /\ restored' = restored
    BY Zenon, <2>1 DEF FailProvider
  <2>4. ASSUME NEW u \in Request, u = issued' PROVE CopiedAt(u)'
    <3>1. CASE remote[t] = "pending"
      <4>1. RemoteEnded(t) /\ remote'[t] = "error"
        BY Zenon, <1>8, <3>1, RemoteResults
      <4>2. CASE u = t
        BY Zenon, <2>2, <2>3, <4>1, <4>2 DEF CopiedAt, Readable
      <4>3. CASE u # t
        BY ZenonT(60), <2>2, <2>3, <2>4, <4>1, <4>3
        DEF Copied, CopiedAt, Readable, RemoteEnded, Others, IsWrite
      <4> QED
        BY Zenon, <4>2, <4>3
    <3>2. CASE remote[t] # "pending"
      <4>1. Quiet(t)
        BY Zenon, <1>8, <3>2, RdmaQuiet
      <4> QED
        BY ZenonT(60), <2>2, <2>3, <2>4, <4>1
        DEF Copied, CopiedAt, Readable, Quiet, Others, IsWrite
    <3> QED
      BY Zenon, <3>1, <3>2
  <2> QED
    BY Zenon, <2>3, <2>4 DEF Copied, Readable
<1>9. CASE \/ BackingWritten(t) \/ BackingWriteFailed(t) \/ BackingRead(t)
           \/ BackingReadFailed(t)
  <2>1. CASE LocalEnded(t)
    <3>1. t = issued => CopiedAt(t)
      BY Zenon DEF Copied
    <3>2. Acknowledged(t) /\ Readable => remote_copy = t
      <4> SUFFICES ASSUME Acknowledged(t), Readable PROVE remote_copy = t
        OBVIOUS
      <4>1. t = issued /\ CopiedAt(t) /\ IsWrite(t)
        BY Zenon, <2>1, <3>1, Begun DEF LocalEnded, Acknowledged
      <4>2. WriteAnswer(t, local'[t], remote[t]) = "ok" /\ connected /\ ~restored
        BY Zenon, <2>1, <4>1 DEF LocalEnded, Acknowledged, Readable
      <4>3. remote[t] \in Status /\ remote[t] # "pending"
        BY Zenon, <4>2 DEF WriteAnswer, DataType
      <4> QED
        BY ZenonT(60), <2>1, <4>1, <4>2, <4>3 DEF CopiedAt, LocalEnded, Status
    <3>3. Readable' => Readable
      BY Zenon, <2>1 DEF LocalEnded, Readable
    <3>4. t = issued => CopiedAt(t)'
      BY ZenonT(60), <2>1, <3>1, <3>3
      DEF CopiedAt, LocalEnded, Others, IsWrite, Current, OnWire
    <3> QED
      BY ZenonT(60), <2>1, <3>2, <3>3, <3>4, CopiedKept DEF LocalEnded
  <2>2. CASE Quiet(t) /\ lease'[t] = lease[t] /\ UNCHANGED <<remoteVars, wire>>
    <3>1. t = issued => CopiedAt(t)'
      BY ZenonT(60), <2>2
      DEF Copied, CopiedAt, Quiet, Others, IsWrite, Current, OnWire, Readable
    <3> QED
      BY ZenonT(60), <2>2, <3>1, CopiedKept DEF Quiet, Answered, Acknowledged
  <2> QED
    BY Zenon, <1>9, <2>1, <2>2, Bios
<1> QED
  BY ZenonT(60), <1>1, <1>2, <1>3, <1>4, <1>5, <1>6, <1>7, <1>8, <1>9
  DEF RequestStep

-----------------------------------------------------------------------------
(* The reads in flight.                                                    *)

\* A posted read will fetch, or has fetched, acceptable data.
FetchedAt(t) ==
  ~IsWrite(t) /\ remote[t] = "pending" /\ lease[t] # 0 =>
    /\ OnWire(t) => NoWriteQueued /\ remote_copy \in acceptable
    /\ ~OnWire(t) => buffer[t] \in acceptable

Fetched == \A t \in Request : FetchedAt(t)

\* While a read has no answer, no write is open.
LEMMA OpenRead ==
  ASSUME DataType, Sequenced, NEW t \in Request, answer[t] = "none",
         direction[t] # "none" \/ local[t] # "none" \/ remote[t] # "none",
         ~IsWrite(t)
  PROVE  Outstanding = {}
<1>1. ASSUME NEW u \in Request, IsWrite(u), answer[u] = "none" PROVE FALSE
  <2>1. direction[u] # "none"
    BY <1>1 DEF IsWrite
  <2>2. u = issued /\ t = issued
    BY Zenon, <1>1, <2>1, Begun
  <2> QED
    BY Zenon, <1>1, <2>2
<1> QED
  BY Zenon, <1>1 DEF Outstanding

\* The environment of the reads in flight stays.
LEMMA FetchedKept ==
  ASSUME Fetched, NEW t \in Request, Others(t),
         UNCHANGED <<mapping_generation, remote_copy, wire, acceptable>>,
         \A u \in Request : OnWire(u) => lease'[u] = lease[u],
         FetchedAt(t)'
  PROVE  Fetched'
<1>1. /\ \A u \in Request : OnWire(u)' <=> OnWire(u)
      /\ \A u \in Request : IsWrite(u)' <=> IsWrite(u)
      /\ \A u \in Request : OnWire(u) => (Current(u)' <=> Current(u))
  BY Zenon DEF OnWire, IsWrite, Others, Current
<1>2. NoWriteQueued => NoWriteQueued'
  BY Zenon, <1>1 DEF NoWriteQueued
<1>3. ASSUME NEW u \in Request, u # t PROVE FetchedAt(u)'
  BY ZenonT(60), <1>1, <1>2, <1>3 DEF Fetched, FetchedAt, Others
<1> QED
  BY Zenon, <1>3 DEF Fetched

\* Every step of a request leaves the reads in flight acceptable data, unless an
\* outdated CONNECTED was stored.
LEMMA FetchedStep ==
  ASSUME DataType, Sequenced, Leased, Queued, Copied, Fetched, ~restored,
         NEW t \in Request, RequestStep(t)
  PROVE  Fetched'
<1> USE DEF remoteVars, rdmaVars
<1>0. SequencedAt(t) /\ FetchedAt(t)
  BY Zenon DEF Sequenced, Fetched
<1>1. ASSUME RemoteEnded(t) PROVE Fetched'
  <2>1. t = issued
    BY Zenon, <1>0, <1>1, Begun DEF SequencedAt, RemoteEnded
  <2>2. \A u \in Request : u # t => remote[u] # "pending"
    BY ZenonT(60), <2>1, Begun DEF Sequenced, SequencedAt
  <2> QED
    BY ZenonT(60), <1>1, <2>2 DEF Fetched, FetchedAt, RemoteEnded, Others
<1>2. CASE \E d \in {"READ", "WRITE"} : Issue(t, d)
  <2>1. PICK d \in {"READ", "WRITE"} : Issue(t, d)
    BY <1>2
  <2>2. /\ \A u \in Request : u # t => direction'[u] = direction[u]
        /\ UNCHANGED <<remote, acceptable, remoteVars, rdmaVars>>
    BY Zenon, <2>1 DEF Issue, DataType, clientVars
  <2>3. t > issued
    BY <2>1, RequestNat DEF Issue, DataType
  <2>4. remote[t] = "none" /\ ~OnWire(t)
    BY Zenon, <1>0, <2>3 DEF SequencedAt, Queued
  <2>5. NoWriteQueued => NoWriteQueued'
    BY ZenonT(60), <2>2, <2>4 DEF NoWriteQueued, IsWrite, OnWire, Current
  <2> QED
    BY ZenonT(60), <2>2, <2>4, <2>5 DEF Fetched, FetchedAt, IsWrite, OnWire
<1>3. CASE DispatchBacking(t) \/ DispatchRemote(t) \/ RejectStart(t)
  <2>1. Started(t)
    BY Zenon, <1>3, Dispatches
  <2>2. t = issued /\ lease'[t] = 0
    BY ZenonT(60), <1>0, <2>1, Begun DEF Started, Undispatched, SequencedAt
  <2>3. \A u \in Request : u # t => remote[u] # "pending"
    BY ZenonT(60), <2>2, Begun DEF Sequenced, SequencedAt
  <2> QED
    BY ZenonT(60), <2>1, <2>2, <2>3 DEF Fetched, FetchedAt, Started, Others
<1>4. CASE SubmitRefused(t) \/ SubmitFailed(t) \/ Deadline(t)
  BY Zenon, <1>1, <1>4, RemoteResults
<1>5. CASE (Completed(t) \/ CompletedError(t)) /\ remote[t] = "pending"
  BY Zenon, <1>1, <1>5, RemoteResults
<1>6. CASE SubmitPosted(t)
  <2>1. Quiet(t) /\ remote[t] = "pending" /\ connected /\ Admits(t)
    BY Zenon, <1>6, RdmaQuiet DEF SubmitPosted, Submitting
  <2>2. UNCHANGED <<mapping_generation, remote_copy>>
    BY Zenon, <1>6 DEF SubmitPosted
  <2>3. t = issued /\ answer[t] = "none"
    BY Zenon, <1>0, <2>1, Begun DEF SequencedAt
  <2>4. \A u \in Request : u # t => remote[u] # "pending"
    BY ZenonT(60), <2>3, Begun DEF Sequenced, SequencedAt
  <2>5. \A u \in Request : OnWire(u)' <=> OnWire(u) \/ u = t
    BY Zenon, <1>6, WirePosted DEF SubmitPosted, DataType
  <2>6. ASSUME ~IsWrite(t) PROVE NoWriteQueued' /\ remote_copy' \in acceptable'
    <3>1. Outstanding = {}
      BY Zenon, <2>1, <2>3, <2>6, OpenRead
    <3>2. NoWriteQueued /\ remote_copy \in acceptable
      BY Zenon, <2>1, <2>6, <3>1 DEF Admits, Copied, Readable
    <3> QED
      BY ZenonT(60), <2>1, <2>2, <2>5, <2>6, <3>2
      DEF NoWriteQueued, Quiet, Others, IsWrite, Current
  <2> QED
    BY ZenonT(60), <2>1, <2>4, <2>5, <2>6
    DEF Fetched, FetchedAt, Quiet, Others, IsWrite
<1>7. CASE Execute(t)
  <2>1. /\ Quiet(t) /\ wire # <<>> /\ Head(wire) = t /\ wire' = Tail(wire)
        /\ UNCHANGED <<mapping_generation, lease>>
        /\ remote_copy' = IF IsWrite(t) /\ Current(t) THEN t ELSE remote_copy
        /\ ~IsWrite(t) => buffer'[t] = remote_copy
    BY ZenonT(60), <1>7, RdmaQuiet DEF Execute, DataType
  <2>2. /\ OnWire(t)
        /\ \A u \in Request : OnWire(u)' <=> OnWire(u) /\ u # t
    BY Zenon, <2>1, WireTaken DEF Queued, DataType
  <2>3. NoWriteQueued => NoWriteQueued' /\ remote_copy' = remote_copy
    BY ZenonT(60), <2>1, <2>2
    DEF NoWriteQueued, Quiet, Others, IsWrite, Current
  <2>4. FetchedAt(t)'
    BY ZenonT(60), <1>0, <2>1, <2>2 DEF FetchedAt, Quiet, Others, IsWrite
  <2>5. ASSUME NEW u \in Request, u # t PROVE FetchedAt(u)'
    BY ZenonT(60), <2>1, <2>2, <2>3, <2>5
    DEF Fetched, FetchedAt, Quiet, Others, IsWrite
  <2> QED
    BY Zenon, <2>4, <2>5 DEF Fetched
<1>8. CASE Completed(t) /\ remote[t] # "pending"
  <2>1. Quiet(t) /\ ~OnWire(t)
    BY Zenon, <1>8, RdmaQuiet DEF Completed, OnWire
  <2>2. UNCHANGED <<mapping_generation, remote_copy, wire>>
    BY Zenon, <1>8 DEF Completed
  <2>3. FetchedAt(t)'
    BY Zenon, <1>8, <2>1 DEF FetchedAt, Quiet
  <2> QED
    BY ZenonT(60), <2>1, <2>2, <2>3, FetchedKept DEF Quiet, Others
<1>9. CASE CompletedError(t) /\ remote[t] # "pending"
  <2>1. Quiet(t) /\ lease'[t] = 0
    BY Zenon, <1>9, RdmaQuiet DEF CompletedError, DataType
  <2>2. /\ FailProvider /\ UNCHANGED remote_copy
        /\ \A u \in Request : lease'[u] = lease[u] \/ lease'[u] = 0
    BY Zenon, <1>9 DEF CompletedError, FailProvider, DataType
  <2>3. \A u \in Request : lease'[u] # 0 => ~Current(u)'
    BY Zenon, <2>2, LeasedFailed
  <2>4. Queued'
    BY Zenon, QueuedStep
  <2>5. NoWriteQueued'
    BY Zenon, <2>3, <2>4 DEF NoWriteQueued, Queued
  <2>6. \A u \in Request : u # t => (OnWire(u)' <=> OnWire(u))
    <3>1. CASE OnWire(t)
      <4>1. wire # <<>> /\ Head(wire) = t
        BY <1>9, <3>1 DEF CompletedError, OnWire, DataType
      <4>2. wire' = Tail(wire)
        BY Zenon, <1>9, <3>1 DEF CompletedError, OnWire
      <4> QED
        BY Zenon, <4>1, <4>2, WireTaken DEF Queued, DataType
    <3>2. CASE ~OnWire(t)
      BY Zenon, <1>9, <3>2 DEF CompletedError, OnWire
    <3> QED
      BY Zenon, <3>1, <3>2
  <2>7. ASSUME NEW u \in Request, u # t PROVE FetchedAt(u)'
    BY ZenonT(60), <2>1, <2>2, <2>5, <2>6, <2>7
    DEF Fetched, FetchedAt, Quiet, Others, IsWrite
  <2>8. FetchedAt(t)'
    BY Zenon, <1>9, <2>1 DEF FetchedAt, Quiet
  <2> QED
    BY Zenon, <2>7, <2>8 DEF Fetched
<1>10. CASE \/ BackingWritten(t) \/ BackingWriteFailed(t) \/ BackingRead(t)
            \/ BackingReadFailed(t)
  <2>1. CASE LocalEnded(t)
    <3>1. CASE answer[t] = "none"
      <4>1. t = issued
        BY Zenon, <2>1, <3>1, Begun DEF LocalEnded
      <4>2. \A u \in Request : u # t => remote[u] # "pending"
        BY ZenonT(60), <4>1, Begun DEF Sequenced, SequencedAt
      <4>3. ~IsWrite(t) => remote[t] # "pending"
        BY Zenon, <1>0, <2>1 DEF SequencedAt, LocalEnded
      <4> QED
        BY ZenonT(60), <2>1, <4>2, <4>3
        DEF Fetched, FetchedAt, LocalEnded, Others, IsWrite
    <3>2. CASE answer[t] # "none"
      <4>1. acceptable' = acceptable /\ remote[t] # "pending"
        BY Zenon, <1>0, <2>1, <3>2 DEF LocalEnded, Answered, SequencedAt
      <4> QED
        BY ZenonT(60), <2>1, <4>1, FetchedKept DEF LocalEnded, Others, FetchedAt
    <3> QED
      BY Zenon, <3>1, <3>2
  <2>2. CASE Quiet(t) /\ lease'[t] = lease[t] /\ UNCHANGED <<remoteVars, wire>>
              /\ UNCHANGED buffer
    <3>1. \A u \in Request : lease'[u] = lease[u]
      BY Zenon, <2>2 DEF Quiet, Others
    <3>2. NoWriteQueued => NoWriteQueued'
      BY ZenonT(60), <2>2, <3>1
      DEF NoWriteQueued, Quiet, Others, IsWrite, OnWire, Current
    <3> QED
      BY ZenonT(60), <2>2, <3>1, <3>2
      DEF Fetched, FetchedAt, Quiet, Others, IsWrite, OnWire
  <2>3. UNCHANGED buffer
    BY Zenon, <1>10
    DEF BackingWritten, BackingWriteFailed, BackingRead, BackingReadFailed
  <2> QED
    BY Zenon, <1>10, <2>1, <2>2, <2>3, Bios
<1> QED
  BY ZenonT(60), <1>2, <1>3, <1>4, <1>5, <1>6, <1>7, <1>8, <1>9, <1>10
  DEF RequestStep

-----------------------------------------------------------------------------
(* The reads that are answered.                                            *)

\* A step of a request does not touch the connection state.
LEMMA RestoredKept ==
  ASSUME NEW t \in Request, RequestStep(t)
  PROVE  restored' = restored
<1> USE DEF remoteVars
<1>1. CASE \/ \E d \in {"READ", "WRITE"} : Issue(t, d)
           \/ DispatchBacking(t) \/ DispatchRemote(t) \/ RejectStart(t)
  BY ZenonT(60), <1>1 DEF Issue, DispatchBacking, DispatchRemote, RejectStart
<1>2. CASE \/ SubmitRefused(t) \/ SubmitPosted(t) \/ SubmitFailed(t)
           \/ Execute(t) \/ Completed(t) \/ Deadline(t)
  BY ZenonT(60), <1>2
  DEF SubmitRefused, SubmitPosted, SubmitFailed, Execute, Completed, Deadline
<1>3. CASE CompletedError(t)
  BY Zenon, <1>3 DEF CompletedError, FailProvider
<1>4. CASE \/ BackingWritten(t) \/ BackingWriteFailed(t) \/ BackingRead(t)
           \/ BackingReadFailed(t)
  BY ZenonT(60), <1>4
  DEF BackingWritten, BackingWriteFailed, BackingRead, BackingReadFailed
<1> QED
  BY ZenonT(60), <1>1, <1>2, <1>3, <1>4 DEF RequestStep

\* An answer with acceptable data is not stale.
LEMMA Fresh ==
  ASSUME ReadsLatest, ~restored, NEW t \in Request, NEW a, NEW v, Answer(t, a, v),
         policy' = policy,
         policy = "STRICT" /\ ~IsWrite(t) /\ a = "ok" => v \in acceptable
  PROVE  ReadsLatest'
  BY Zenon DEF ReadsLatest, Answer

\* A read that a Strict device answers has acceptable data: from the queue pair
\* because the range was valid, from the Backing Store because no write is open.
LEMMA ReadStep ==
  ASSUME DataType, Sequenced, Stored, Fetched, ReadsLatest, ~restored,
         NEW t \in Request, RequestStep(t)
  PROVE  ReadsLatest'
<1> USE DEF clientVars
<1>1. CASE \E d \in {"READ", "WRITE"} : Issue(t, d)
  <2>1. policy' = policy /\ stale_read' = stale_read
    BY <1>1 DEF Issue
  <2> QED
    BY Zenon, <2>1 DEF ReadsLatest
<1>2. CASE \/ DispatchBacking(t) \/ DispatchRemote(t) \/ RejectStart(t)
           \/ SubmitPosted(t) \/ Execute(t)
  <2>1. /\ policy' = policy
        /\ Answer(t, "error", 0) \/ UNCHANGED stale_read
    BY Zenon, <1>2
    DEF DispatchBacking, DispatchRemote, RejectStart, SubmitPosted, Execute
  <2>2. "error" # "ok"
    OBVIOUS
  <2> QED
    BY Zenon, <2>1, <2>2, Fresh DEF ReadsLatest
<1>3. ASSUME RemoteTerminal(t, "error", 0), policy' = policy
      PROVE  ReadsLatest'
  <2>1. PICK a : Answer(t, a, 0) /\ (~IsWrite(t) => a \in {"none", "error"})
    BY Zenon, <1>3 DEF RemoteTerminal
  <2>2. "none" # "ok" /\ "error" # "ok"
    OBVIOUS
  <2> QED
    BY Zenon, <1>3, <2>1, <2>2, Fresh
<1>4. CASE SubmitRefused(t) \/ SubmitFailed(t) \/ Deadline(t)
  BY Zenon, <1>3, <1>4 DEF SubmitRefused, SubmitFailed, Deadline
<1>5. CASE Completed(t)
  <2>1. CASE remote[t] = "pending"
    <3>1. ~IsWrite(t) => buffer[t] \in acceptable
      BY Zenon, <1>5, <2>1 DEF Completed, Fetched, FetchedAt, OnWire
    <3>2. PICK a : Answer(t, a, buffer[t])
      BY Zenon, <1>5, <2>1 DEF Completed, CompletionCounts, RemoteTerminal
    <3>3. policy' = policy
      BY Zenon, <1>5 DEF Completed
    <3> QED
      BY Zenon, <3>1, <3>2, <3>3, Fresh
  <2>2. CASE remote[t] # "pending"
    BY Zenon, <1>5, <2>2 DEF Completed, CompletionCounts, ReadsLatest
  <2> QED
    BY Zenon, <2>1, <2>2
<1>6. CASE CompletedError(t)
  BY Zenon, <1>3, <1>6 DEF CompletedError, CompletionCounts, ReadsLatest
<1>7. CASE BackingWritten(t)
  BY Zenon, <1>7, Fresh DEF BackingWritten
<1>8. CASE BackingWriteFailed(t)
  BY Zenon, <1>8, Fresh DEF BackingWriteFailed, ReadsLatest
<1>9. CASE BackingRead(t)
  <2>1. /\ Answer(t, "ok", backing) /\ policy' = policy
        /\ direction[t] = "READ" /\ local[t] = "pending"
    BY Zenon, <1>9 DEF BackingRead, Ends
  <2>2. ~IsWrite(t)
    BY <2>1 DEF IsWrite
  <2>3. local[t] # "none"
    BY <2>1
  <2>4. answer[t] = "none"
    BY Zenon, <2>1, <2>2 DEF Sequenced, SequencedAt
  <2>5. Outstanding = {}
    BY Zenon, <2>2, <2>3, <2>4, OpenRead
  <2>6. policy = "STRICT" => backing \in acceptable
    BY Zenon, <2>1, <2>5 DEF Stored
  <2> QED
    BY Zenon, <2>1, <2>6, Fresh
<1>10. CASE BackingReadFailed(t)
  <2>1. "error" # "ok"
    OBVIOUS
  <2> QED
    BY Zenon, <1>10, <2>1, Fresh DEF BackingReadFailed
<1> QED
  BY ZenonT(60), <1>1, <1>2, <1>4, <1>5, <1>6, <1>7, <1>8, <1>9, <1>10
  DEF RequestStep

-----------------------------------------------------------------------------
(* The Provider fails, or the mapping changes.                             *)

Environment ==
  \/ ProviderFails \/ ConnectionDegrades \/ ConnectionRestored
  \/ Map \/ EvictionBegin \/ EvictionFinish \/ UNCHANGED vars

\* Requests, Backing Store and queue pair are left alone.
LEMMA EnvironmentFrame ==
  ASSUME Environment
  PROVE  /\ UNCHANGED <<policy, issued, direction, local, remote, answer>>
         /\ UNCHANGED <<lease, buffer, wire, acceptable, stale_read>>
         /\ UNCHANGED backing
         /\ restored => restored'
<1> USE DEF storeVars, remoteVars, requestVars, rdmaVars, clientVars
<1>1. CASE ConnectionRestored
  BY Zenon, <1>1 DEF ConnectionRestored
<1>2. CASE ~ConnectionRestored
  <2>1. UNCHANGED restored
    BY ZenonT(60), <1>2 DEF Environment, ProviderFails, FailProvider,
       ConnectionDegrades, Map, EvictionBegin, EvictionFinish, vars
  <2>2. /\ UNCHANGED <<policy, issued, direction, local, remote, answer>>
        /\ UNCHANGED <<lease, buffer, wire, acceptable, stale_read>>
        /\ UNCHANGED backing
    BY ZenonT(60), <1>2 DEF Environment, ProviderFails, ConnectionDegrades, Map,
       EvictionBegin, EvictionFinish, vars
  <2> QED
    BY Zenon, <2>1, <2>2
<1> QED
  BY Zenon, <1>1, <1>2

\* The parts of the invariant that do not speak of the mapping are kept.
LEMMA EnvironmentQuiet ==
  ASSUME Environment
  PROVE  /\ Sequenced => Sequenced'
         /\ Stored => Stored'
         /\ Queued => Queued'
         /\ ReadsLatest => ReadsLatest'
<1>1. Sequenced => Sequenced'
  BY EnvironmentFrame DEF Sequenced, SequencedAt, IsWrite
<1>2. Stored => Stored'
  <2>1. Outstanding' = Outstanding
    BY EnvironmentFrame DEF Outstanding, IsWrite
  <2>2. \A t \in Request : StoredAt(t) => StoredAt(t)'
    BY Zenon, EnvironmentFrame DEF StoredAt, IsWrite
  <2>3. policy' = policy /\ backing' = backing /\ acceptable' = acceptable
    BY Zenon, EnvironmentFrame
  <2> QED
    BY Zenon, <2>1, <2>2, <2>3 DEF Stored
<1>3. Queued => Queued'
  BY Zenon, EnvironmentFrame DEF Queued, OnWire
<1>4. ReadsLatest => ReadsLatest'
  BY Zenon, EnvironmentFrame DEF ReadsLatest
<1> QED
  BY Zenon, <1>1, <1>2, <1>3, <1>4

\* The mapping has a new generation, which no lease has, and is not valid.
LEMMA Remapped ==
  ASSUME Environment, Leased, Queued, ~valid',
         \A u \in Request : lease[u] # 0 => ~Current(u)',
         connected' => connected, UNCHANGED restored,
         remote_copy' = remote_copy \/ \A u \in Request : lease[u] = 0
  PROVE  (Copied => Copied') /\ (Fetched => Fetched')
<1>1. NoWriteQueued'
  BY Zenon, EnvironmentFrame DEF NoWriteQueued, Queued, OnWire
<1>2. Copied => Copied'
  BY ZenonT(60), EnvironmentFrame, <1>1
  DEF Copied, CopiedAt, Readable, IsWrite, OnWire
<1>3. Fetched => Fetched'
  BY ZenonT(60), EnvironmentFrame, <1>1 DEF Fetched, FetchedAt, IsWrite, OnWire
<1> QED
  BY Zenon, <1>2, <1>3

\* A failure of the Provider, the loss of the connection, a mapping and an
\* eviction keep the invariant.
LEMMA EnvironmentStep ==
  ASSUME DataType, Queued, Leased, Environment
  PROVE  /\ DataType' /\ Leased'
         /\ Copied => Copied'
         /\ Fetched => Fetched'
<1> USE DEF remoteVars
<1>0. ASSUME mapping_generation' \in Nat, remote_copy' \in Int,
             chunk' \in {"UNMAPPED", "MAPPED", "EVICTING"}
      PROVE  DataType'
  BY Zenon, EnvironmentFrame, <1>0 DEF DataType
<1>1. CASE ProviderFails
  <2>1. FailProvider
    BY Zenon, <1>1 DEF ProviderFails
  <2>2. Leased' /\ \A u \in Request : lease'[u] # 0 => ~Current(u)'
    BY Zenon, <2>1, EnvironmentFrame, LeasedFailed
  <2>3. DataType'
    <3>1. mapping_generation' \in Nat /\ remote_copy' \in Int
      BY <2>1 DEF FailProvider, DataType
    <3> QED
      BY Zenon, <1>0, <2>1, <3>1 DEF FailProvider
  <2>4. ~valid' /\ connected' = connected /\ remote_copy' = remote_copy
        /\ restored' = restored
    BY Zenon, <2>1 DEF FailProvider
  <2> QED
    BY Zenon, EnvironmentFrame, <2>2, <2>3, <2>4, Remapped
<1>2. CASE Map \/ EvictionFinish
  <2>1. /\ mapping_generation' = mapping_generation + 1
        /\ connected' = connected /\ restored' = restored
        /\ failed' = failed /\ ~valid'
        /\ chunk' = "UNMAPPED" \/ (chunk' = "MAPPED" /\ ~failed)
    <3>1. CASE Map
      <4>1. ~valid
        BY Zenon, <3>1 DEF Map, Leased
      <4> QED
        BY Zenon, <3>1, <4>1 DEF Map
    <3>2. CASE EvictionFinish
      BY Zenon, <3>2 DEF EvictionFinish, ValidAfterReset
    <3> QED
      BY Zenon, <1>2, <3>1, <3>2
  <2>2. ASSUME NEW u \in Request PROVE lease[u] = 0
    <3>1. CASE EvictionFinish
      BY Zenon, <3>1 DEF EvictionFinish, Drained
    <3>2. CASE Map
      BY Zenon, <3>2 DEF Map, Leased, LeasedAt
    <3> QED
      BY Zenon, <1>2, <3>1, <3>2
  <2>3. mapping_generation' \in Nat /\ mapping_generation' # 0
    BY <2>1 DEF DataType
  <2>4. DataType'
    <3>1. remote_copy' \in Int
      BY <1>2 DEF Map, EvictionFinish, DataType
    <3> QED
      BY Zenon, <1>0, <2>1, <2>3, <3>1
  <2>5. ASSUME NEW u \in Request PROVE LeasedAt(u)'
    BY <2>2, <2>3, EnvironmentFrame DEF LeasedAt
  <2>6. chunk' # "UNMAPPED" => ~failed'
    BY Zenon, <2>1
  <2>7. Leased'
    BY Zenon, <2>1, <2>3, <2>5, <2>6 DEF Leased
  <2> QED
    BY Zenon, <2>1, <2>2, <2>4, <2>7, Remapped
<1>3. CASE \/ EvictionBegin \/ ConnectionDegrades \/ ConnectionRestored
           \/ UNCHANGED vars
  <2>1. /\ UNCHANGED <<failed, mapping_generation, remote_copy, valid>>
        /\ restored' \/ (UNCHANGED restored /\ (connected' => connected))
        /\ chunk' = chunk \/ (chunk = "MAPPED" /\ chunk' = "EVICTING")
    <3>1. CASE ConnectionDegrades \/ ConnectionRestored
      BY Zenon, <3>1 DEF ConnectionDegrades, ConnectionRestored
    <3>2. CASE EvictionBegin \/ UNCHANGED vars
      <4>1. UNCHANGED <<connected, restored, failed, mapping_generation,
                        remote_copy, valid>>
        BY Zenon, <3>2 DEF EvictionBegin, vars
      <4>2. chunk' = chunk \/ (chunk = "MAPPED" /\ chunk' = "EVICTING")
        BY Zenon, <3>2 DEF EvictionBegin, vars
      <4> QED
        BY Zenon, <4>1, <4>2
    <3> QED
      BY Zenon, <1>3, <3>1, <3>2
  <2>2. DataType'
    BY Zenon, <1>0, <2>1 DEF DataType
  <2>3. /\ Readable' => Readable
        /\ chunk' = "UNMAPPED" <=> chunk = "UNMAPPED"
    BY <2>1 DEF Readable
  <2>4. Leased'
    BY Zenon, <2>1, <2>3, EnvironmentFrame DEF Leased, LeasedAt, Current
  <2>5. Copied => Copied'
    BY ZenonT(60), <2>1, <2>3, EnvironmentFrame
    DEF Copied, CopiedAt, NoWriteQueued, IsWrite, Current, Outstanding, OnWire
  <2>6. Fetched => Fetched'
    BY ZenonT(60), <2>1, EnvironmentFrame
    DEF Fetched, FetchedAt, NoWriteQueued, IsWrite, Current, OnWire
  <2> QED
    BY Zenon, <2>2, <2>4, <2>5, <2>6
<1> QED
  BY Zenon, <1>1, <1>2, <1>3 DEF Environment

-----------------------------------------------------------------------------
(* The theorems.                                                           *)

\* The invariant that holds whether or not the kernel refuses memory.
Ordered == DataType /\ Sequenced /\ Stored /\ Leased /\ Queued

\* The invariant that needs memory for every request.
Tracked == Copied /\ (~restored => Fetched) /\ ReadsLatest

\* A new device satisfies both.
LEMMA InitData == Init => Ordered /\ Tracked
<1> SUFFICES ASSUME Init PROVE Ordered /\ Tracked
  OBVIOUS
<1>1. DataType
  BY DEF Init, DataType, Status
<1>2. \A t \in Request :
        /\ ~IsWrite(t) /\ local[t] = "none" /\ remote[t] = "none"
        /\ direction[t] = "none" /\ answer[t] = "none" /\ lease[t] = 0
        /\ ~(t < issued) /\ t # issued /\ ~OnWire(t)
  BY BackedDataAssumption DEF Init, IsWrite, OnWire, Request
<1>3. Sequenced
  BY <1>2 DEF Sequenced, SequencedAt
<1>4. Stored
  BY <1>2 DEF Init, Stored, StoredAt
<1>5. Leased
  BY <1>2 DEF Init, Leased, LeasedAt
<1>6. Queued
  BY <1>2 DEF Init, Queued
<1>7. Copied /\ Fetched /\ ReadsLatest
  BY <1>2 DEF Init, Copied, Fetched, FetchedAt, ReadsLatest, NoWriteQueued,
     Readable
<1> QED
  BY Zenon, <1>1, <1>3, <1>4, <1>5, <1>6, <1>7 DEF Ordered, Tracked

\* The first invariant holds always.
LEMMA OrderedAlways == Spec => []Ordered
<1>1. ASSUME Ordered, [Next]_vars PROVE Ordered'
  <2>1. CASE \E t \in Request : RequestStep(t)
    BY Zenon, <1>1, <2>1, TypeStep, SequencedStep, StoredStep, LeasedStep,
       QueuedStep DEF Ordered
  <2>2. CASE Environment
    BY Zenon, <1>1, <2>2, EnvironmentQuiet, EnvironmentStep DEF Ordered
  <2> QED
    BY Zenon, <1>1, <2>1, <2>2 DEF Next, Environment
<1> QED
  BY <1>1, InitData, PTL DEF Spec

\* Whatever fails, and in whatever order bios and RDMA operations end: at every
\* moment the Backing Store of a Strict device holds the last acknowledged data,
\* that of a write that failed since or of the one being answered.
THEOREM StrictFallback == Spec => []StrictBackingCurrent
<1>1. Ordered => StrictBackingCurrent
  BY Zenon DEF Ordered, Stored, StrictBackingCurrent
<1> QED
  BY <1>1, OrderedAlways, PTL

\* With memory for every request, the second invariant holds always.
LEMMA TrackedAlways ==
  ASSUME ~MayFailAllocation
  PROVE  Spec => [](Ordered /\ Tracked)
<1>1. ASSUME Ordered, Tracked, [Next]_vars PROVE Tracked'
  <2>1. CASE \E t \in Request : RequestStep(t)
    <3>1. PICK t \in Request : RequestStep(t)
      BY Zenon, <2>1
    <3>2. restored' = restored
      BY Zenon, <3>1, RestoredKept
    <3>3. Copied'
      BY Zenon, <1>1, <3>1, CopiedStep DEF Ordered, Tracked
    <3>4. CASE ~restored
      BY Zenon, <1>1, <3>1, <3>3, <3>4, FetchedStep, ReadStep
      DEF Ordered, Tracked
    <3>5. CASE restored
      BY Zenon, <3>2, <3>3, <3>5 DEF Tracked, ReadsLatest
    <3> QED
      BY Zenon, <3>4, <3>5
  <2>2. CASE Environment
    BY Zenon, <1>1, <2>2, EnvironmentFrame, EnvironmentQuiet, EnvironmentStep
    DEF Ordered, Tracked
  <2> QED
    BY Zenon, <1>1, <2>1, <2>2 DEF Next, Environment
<1> QED
  BY <1>1, InitData, OrderedAlways, PTL DEF Spec

\* Eviction, remapping, deadlines, late completions and failures of the Provider
\* never leave an older version readable in the Remote Memory of a device that
\* has been CONNECTED all along.
THEOREM RemoteCurrent ==
  ASSUME ~MayFailAllocation
  PROVE  Spec => []ValidCurrent
<1>1. Tracked => ValidCurrent
  BY Zenon DEF Tracked, Copied, ValidCurrent, Readable
<1> QED
  BY <1>1, TrackedAlways, PTL

\* A successful read of a Strict device returns the last acknowledged write or
\* one that failed since, unless an outdated CONNECTED was stored.
THEOREM StrictReadsLatest ==
  ASSUME ~MayFailAllocation
  PROVE  Spec => []ReadsLatest
<1>1. Tracked => ReadsLatest
  BY Zenon DEF Tracked
<1> QED
  BY <1>1, TrackedAlways, PTL
=============================================================================
