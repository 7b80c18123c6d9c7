---------------------------- MODULE MCCheckpoint ----------------------------
\* Instances of Checkpoint for TLC: two nodes, intervals of two slots.
EXTENDS Checkpoint

CONSTANTS n1, n2

\* Two batches that fold differently in either order: a generation is published and
\* retired, a member, the manifest and the tier map advance.
Publish == <<[kind |-> "genPublish", value |-> 1], [kind |-> "manAdvance", value |-> 2],
             [kind |-> "member", node |-> 1, value |-> 1]>>
Retire == <<[kind |-> "genRetire", value |-> 1], [kind |-> "manAdvance", value |-> 1],
            [kind |-> "tierMap", value |-> 1], [kind |-> "member", node |-> 1, value |-> 2]>>

MCPayload == (n1 :> {Publish}) @@ (n2 :> {Retire})
=============================================================================
