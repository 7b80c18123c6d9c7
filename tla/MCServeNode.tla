---------------------------- MODULE MCServeNode ----------------------------
\* Instances of ServeNode for TLC: two clients and one shard.
EXTENDS ServeNode, TLC

CONSTANTS c1, c2

MCCalls == (c1 :> 2) @@ (c2 :> 1)
MCK == (c1 :> 1) @@ (c2 :> 2)
=============================================================================
