----------------------------- MODULE RadixSort -----------------------------
(***************************************************************************)
(* RadixMap_sort of src/radixmap.c and the static sort() it calls four     *)
(* times, loop by loop: count the bytes, turn the counts into indices,     *)
(* fill the other buffer.                                                  *)
(***************************************************************************)
EXTENDS RadixPass

CONSTANTS
  Lengths  \* the lengths of the arrays to sort

ASSUME SortAssumption == Lengths \subseteq Nat

VARIABLES
  input,   \* the array as it was; the value of an element is its first slot
  source,  \* the buffer the pass reads: contents, temp, contents, temp
  dest,    \* the one it writes
  offset,  \* the byte the pass sorts by; 4 when all are done
  loop,    \* the loop it is in: "count", "sum" or "fill"
  at,      \* how far the pointer of the loop has come
  count,   \* occurrences of each byte, then the next index for it
  sum      \* the running sum

sortVars == <<input, source, dest, offset, loop, at, count, sum>>

Zeroes == [b \in 0 .. Base - 1 |-> 0]

SortInit ==
  /\ \E n \in Lengths :
       \E keys \in [0 .. n - 1 -> Key] :
         input = [i \in 0 .. n - 1 |-> [key |-> keys[i], value |-> i]]
  /\ source = input
  /\ dest = [i \in DOMAIN input |-> [key |-> 0, value |-> 0]]  \* calloc
  /\ offset = 0 /\ loop = "count" /\ at = 0 /\ count = Zeroes /\ sum = 0

Size == Cardinality(DOMAIN input)

Byte == ByteOf(source[at].key, offset)

CountNext ==
  /\ offset < 4 /\ loop = "count" /\ at < Size
  /\ count' = [count EXCEPT ![Byte] = @ + 1]
  /\ at' = at + 1
  /\ UNCHANGED <<input, source, dest, offset, loop, sum>>

CountDone ==
  /\ offset < 4 /\ loop = "count" /\ at = Size
  /\ loop' = "sum" /\ at' = 0 /\ sum' = 0
  /\ UNCHANGED <<input, source, dest, offset, count>>

SumNext ==
  /\ loop = "sum" /\ at < Base
  /\ count' = [count EXCEPT ![at] = sum]
  /\ sum' = sum + count[at]
  /\ at' = at + 1
  /\ UNCHANGED <<input, source, dest, offset, loop>>

SumDone ==
  /\ loop = "sum" /\ at = Base
  /\ loop' = "fill" /\ at' = 0
  /\ UNCHANGED <<input, source, dest, offset, count, sum>>

\* Mutant: the index of the byte does not advance.
FillNextInPlace ==
  /\ loop = "fill" /\ at < Size
  /\ dest' = [dest EXCEPT ![count[Byte]] = source[at]]
  /\ at' = at + 1
  /\ UNCHANGED <<input, source, offset, loop, count, sum>>

FillNext ==
  /\ loop = "fill" /\ at < Size
  /\ dest' = [dest EXCEPT ![count[Byte]] = source[at]]
  /\ count' = [count EXCEPT ![Byte] = @ + 1]
  /\ at' = at + 1
  /\ UNCHANGED <<input, source, offset, loop, sum>>

\* The pass returns; the next one reads what it wrote, and starts from zeroes.
NextPass ==
  /\ loop = "fill" /\ at = Size
  /\ source' = dest /\ dest' = source
  /\ offset' = offset + 1
  /\ loop' = "count" /\ at' = 0 /\ count' = Zeroes
  /\ UNCHANGED <<input, sum>>

SortNext ==
  \/ CountNext \/ CountDone \/ SumNext \/ SumDone \/ FillNext \/ NextPass

SortSpec == SortInit /\ [][SortNext]_sortVars

-----------------------------------------------------------------------------

Elements == {input[i] : i \in DOMAIN input}

\* Between the passes the array holds the elements it held at first, in the order
\* of the bytes seen so far, and in the old order where these are equal.
SortedSoFar ==
  loop = "count" /\ at = 0 =>
    LET low(e) == e.key % Weight(offset)
    IN  /\ {source[i] : i \in DOMAIN source} = Elements
        /\ \A i, j \in DOMAIN source : i < j =>
             \/ low(source[i]) < low(source[j])
             \/ low(source[i]) = low(source[j]) /\ source[i].value < source[j].value

\* A pass does what the formula of RadixPass says, and the four what RadixMap takes
\* RadixMap_sort to do.
PassesAsStated ==
  /\ [][offset' # offset => source' = Pass(source, offset)]_sortVars
  /\ [][offset' = 4 => source' = RadixSorted(input)]_sortVars

=============================================================================
