----------------------------- MODULE BlockSize -----------------------------
(***************************************************************************)
(* How src/bstrlib.c rounds the size of a block up.                        *)
(***************************************************************************)
EXTENDS Integers, FiniteSetsExt

CONSTANT SNAP \* the smallest block snapUpSize asks for, a power of 2; 8 in the code

ASSUME SnapAssumption == SNAP \in Nat \ {0}

\* The powers of 2 an int can hold.
Powers == {1, 2, 4, 8, 16, 32, 64, 128, 256, 512, 1024, 2048, 4096, 8192, 16384, 32768,
           65536, 131072, 262144, 524288, 1048576, 2097152, 4194304, 8388608, 16777216,
           33554432, 67108864, 134217728, 268435456, 536870912, 1073741824}

\* The least power of 2 greater than i, or i itself where an int holds none.
snapUpSize(i) ==
  LET above == {p \in Powers : p > i}
  IN  IF i < SNAP THEN SNAP ELSE IF above = {} THEN i ELSE Min(above)

=============================================================================
