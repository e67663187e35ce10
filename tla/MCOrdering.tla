------------------------------ MODULE MCOrdering ------------------------------
(* Small instances of Ordering: which hashes collide, which effects are lost. *)
EXTENDS Ordering, TLC

CONSTANTS k1, k2

TwoConsumers == {k1, k2}
OneConsumer == {k1}
NoConsumer == {}
ConsumerSymmetry == Permutations({k1, k2})

TwoCorrelations == {1, 2}

\* hashtext: distinct keys, or the collision the process document calls safe.
HashDistinct == [c \in Correlation |-> c]
HashCollides == [c \in Correlation |-> 0]

NothingLost == {}
TailLost == {<<2, 2>>, <<2, 3>>}
=============================================================================
