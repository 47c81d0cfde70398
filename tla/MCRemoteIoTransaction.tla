----------------------- MODULE MCRemoteIoTransaction -----------------------
(* Instances of RemoteIoTransaction for TLC.                               *)
EXTENDS RemoteIoTransaction

\* One transaction at a time in the Backed modes, which have the most
\* handlers; transactions together in Remote-Only Mode, for what they share.
Affordable ==
  mode # "REMOTE_ONLY" =>
    Cardinality({t \in Transaction : caller'[t]["start"] # "nobody"}) <= 1

MCSpec ==
  /\ Init /\ [][Next /\ Affordable]_vars
  /\ \A t \in Transaction : WF_vars(Begin(t)) /\ WF_vars(Apply(t))
=============================================================================
