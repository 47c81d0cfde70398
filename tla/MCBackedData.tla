---------------------------- MODULE MCBackedData -----------------------------
(* Instances of BackedData for TLC.                                        *)
EXTENDS BackedData

StrictSpec == Init /\ policy = "STRICT" /\ [][Next]_vars

RemoteFirstSpec == Init /\ policy = "REMOTE_FIRST" /\ [][Next]_vars

\* Remote-First, whose acknowledged writes stay outstanding, and a device with an
\* outdated CONNECTED have a request less.
MCSpec ==
  Init /\ [][Next /\ (policy = "REMOTE_FIRST" \/ restored' => issued' < MaxRequests)]_vars
=============================================================================
