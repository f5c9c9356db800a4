---------------------------- MODULE MCArrayList ----------------------------
(***************************************************************************)
(* Small instances of ArrayList for TLC.                                   *)
(***************************************************************************)
EXTENDS ArrayList, TLC

CONSTANTS v1, v2, v3

\* v1 sorts after v2 and v3, which compare equal.
MCOrders == {[v \in Value |-> IF v = v1 THEN 2 ELSE 1]}

\* v2 and v3 are interchangeable: neither MCOrders nor a name tells them apart.
Twins == Permutations(Value \ {v1})

============================================================================
