---------------------------- MODULE MCLinkedList ----------------------------
(***************************************************************************)
(* Small instances of LinkedList for TLC.                                  *)
(***************************************************************************)
EXTENDS LinkedList, TLC

CONSTANTS v1, v2, v3, n1, n2, n3, n4

\* v1 and v2 are distinct pointers to equal contents.
MCContentOf == [v \in Value |-> IF v = v3 THEN "b" ELSE "a"]

\* The allocator has no preference among nodes.
Nodes == Permutations(Node)

=============================================================================
