--------------------------- MODULE MCMemoryManager ---------------------------
(* Instances of MemoryManager for TLC.                                     *)
EXTENDS MemoryManager

CONSTANTS wide, narrow  \* policies

\* wide is limited by the pools and its connections, narrow by its quota.
MCPolicyChunks ==
  [x \in {wide, narrow} \X Pool |-> IF x[1] = wide THEN 2 ELSE 1]

MCPolicyConnections == [l \in {wide, narrow} |-> IF l = wide THEN 1 ELSE 2]

MCMaxPool == [p \in Pool |-> IF p = COMMITTED THEN 1 ELSE 2]
=============================================================================
