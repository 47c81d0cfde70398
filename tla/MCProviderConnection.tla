------------------------ MODULE MCProviderConnection ------------------------
(* Instances of ProviderConnection for TLC.                                *)
EXTENDS ProviderConnection

CONSTANTS c1, c2

\* A connection can go through the handshake and be granted memory.
MCMaxMessages == [c \in {c1, c2} |-> 3]

\* What happens besides the life of a connection: a reload, a crash of the
\* Consumer, a signal, and a snapshot of the connections.
Disturbances ==
  {d \in {"reload", "crash", "signal", "snapshot"} :
     CASE d = "reload" -> version > 1
       [] d = "crash" -> silent # {}
       [] d = "signal" -> ~running
       [] d = "snapshot" -> retained # {}}

\* One connection that goes through the handshake and meets one of these, or
\* two of which one sends a frame.
Affordable ==
  IF \E c \in Connection : link'[c] = "none"
    THEN link'[c2] = "none" /\ Cardinality(Disturbances') <= 1
    ELSE Disturbances' = {} /\ sent'[c1] = 0 /\ sent'[c2] <= 1

MCSpec == Init /\ [][Next /\ Affordable]_vars

MCFairSpec == MCSpec /\ Fairness
=============================================================================
