----------------------------- MODULE MCHashMap -----------------------------
(***************************************************************************)
(* Small instances of HashMap for TLC.                                     *)
(***************************************************************************)
EXTENDS HashMap, TLC

CONSTANTS k1, k2, k3, k4, x1, x2, x3, x4

\* k1 and k2 are distinct pointers to equal keys.
MCContentOf == [k \in Key |-> CASE k \in {k1, k2} -> "a" [] k = k3 -> "b" [] OTHER -> "c"]

\* "a" and "c" have one hash: only equals_fn tells them apart.  "b" shares their
\* bucket too, up to 4 buckets, and parts from them with 8.
MCHash == [c \in Range(MCContentOf) |-> IF c = "b" THEN 5 ELSE 1]

\* A heap that refuses what a call looks at, one that refuses the node of a new
\* entry, and one that refuses what the rehashing needs.
MCHeaps == {{"table", "bucket", "entry"}, {"node"}, {"move"}}

\* A value is as good as another, and a key as another of the same content.
Likes == Permutations(Value) \cup Permutations({k1, k2})

=============================================================================
