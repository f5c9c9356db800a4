---------------------------- MODULE MCRadixSort ----------------------------
(***************************************************************************)
(* A small instance of RadixSort for TLC: bytes of three values, so that a  *)
(* key has four of them as in the code.                                    *)
(***************************************************************************)
EXTENDS RadixSort

\* Keys that differ in one byte only, in several, and the extremes.
MCKey == {0, 1, 2, 3, 9, 27, 40, 80}

=============================================================================
