----------------------------- MODULE MCRadixMap -----------------------------
(***************************************************************************)
(* Small instances of RadixMap for TLC: bytes of one bit, so that a key    *)
(* has four of them as in the code, and UINT32_MAX is 15.                  *)
(***************************************************************************)
EXTENDS RadixMap

=============================================================================
