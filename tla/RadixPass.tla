----------------------------- MODULE RadixPass -----------------------------
(***************************************************************************)
(* What the radix sort of src/radixmap.c computes, one pass of it and all  *)
(* four, each said in one formula.  RadixSort does the loops step by step  *)
(* and is proved to compute this; RadixMap uses it.                        *)
(***************************************************************************)
EXTENDS Integers, FiniteSets

CONSTANTS
  Base, \* the values of a byte, 256 in the code; a key has 4 of them
  Key   \* the keys that occur

ASSUME BaseAssumption == Base \in Nat \ {0, 1}

\* Base to the power of the offset: what a byte there counts in a key.
Weight(offset) ==
  <<1, Base, Base * Base, Base * Base * Base, Base * Base * Base * Base>>[offset + 1]

UINT32_MAX == Weight(4) - 1

ASSUME KeyAssumption == Key \subseteq 0 .. UINT32_MAX

\* Mutant: the last byte is never looked at.
ByteOfThree(key, offset) == IF offset = 3 THEN 0 ELSE (key \div Weight(offset)) % Base

\* The byte at an offset of the memory of a key: low bytes first, as on the
\* little-endian machines the code runs on.
ByteOf(key, offset) == (key \div Weight(offset)) % Base

\* Mutant: of equal elements the later comes first.
PlaceOfUnstable(measure, i) ==
  Cardinality({j \in DOMAIN measure :
                 measure[j] < measure[i] \/ (measure[j] = measure[i] /\ j > i)})

\* Where a stable sort by this measure of the elements moves the one in slot i:
\* behind the smaller ones, and behind the earlier ones that are equal.
PlaceOf(measure, i) ==
  Cardinality({j \in DOMAIN measure :
                 measure[j] < measure[i] \/ (measure[j] = measure[i] /\ j < i)})

SortedBy(a, measure) ==
  [p \in DOMAIN a |-> a[CHOOSE i \in DOMAIN a : PlaceOf(measure, i) = p]]

BytesOf(a, offset) == [i \in DOMAIN a |-> ByteOf(a[i].key, offset)]

\* One pass: the stable sort by a byte.
Pass(a, offset) == SortedBy(a, BytesOf(a, offset))

\* The four passes, lowest byte first: the stable sort by the key.
RadixSorted(a) == SortedBy(a, [i \in DOMAIN a |-> a[i].key])

=============================================================================
