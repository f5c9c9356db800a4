-------------------------- MODULE MCListConversion --------------------------
(***************************************************************************)
(* Small instances of ListConversion for TLC.                              *)
(***************************************************************************)
EXTENDS ListConversion, TLC

CONSTANTS v1, v2, v3, v4, n1, n2, n3

\* Two contents, two values that can hold each.
MCContentOf == [v \in Value |-> IF v \in {v1, v2} THEN "a" ELSE "b"]

\* The allocator has no preference among nodes, nor among the memory that can
\* hold the same content.
Likes == Permutations(Node) \cup Permutations({v1, v2}) \cup Permutations({v3, v4})

\* Heaps that refuse one kind of allocation, and one that refuses any.
MCHeaps ==
  {{"create"}, {"copy"}, {"clone"}, {"push"}, {"create", "copy", "clone", "push"}}

=============================================================================
