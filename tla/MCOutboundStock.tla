-------------------------- MODULE MCOutboundStock --------------------------
(* Two documents over two sections of one container, section A first.      *)
EXTENDS OutboundStock, TLC

CONSTANTS d1, d2, sectionA, sectionB, container1

MCDocs == {d1, d2}
MCBuckets == {sectionA, sectionB}
MCContainers == {container1}
MCContainerOf == [b \in MCBuckets |-> container1]
MCFifoRank == [b \in MCBuckets |-> IF b = sectionA THEN 1 ELSE 2]

\* One section, for larger quantities.
MCOneBucket == {sectionA}
MCOneContainerOf == [b \in MCOneBucket |-> container1]
MCOneFifoRank == [b \in MCOneBucket |-> 1]

Symmetry == Permutations(MCDocs)
=============================================================================
