----------------------------- MODULE MCBSearch -----------------------------
(***************************************************************************)
(* Small instances of BSearch for TLC.                                     *)
(***************************************************************************)
EXTENDS BSearch

UpTo(n) == UNION {[1 .. m -> {"x", "X"}] : m \in 0 .. n}
MCTexts == UpTo(6)
MCFinds == UpTo(4)
MCExcluded == MCFinds \ {<<>>}
MCPositions == -1 .. 7
MCLower == [c \in {"x", "X"} |-> "x"]

=============================================================================
