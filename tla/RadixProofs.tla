----------------------------- MODULE RadixProofs -----------------------------
(***************************************************************************)
(* What holds of RadixPass, RadixSort and RadixMap, for every Base and all *)
(* keys and values.  The formulas of RadixPass are stable sorts.  The      *)
(* loops of the sort compute them, for arrays of every length.  The map    *)
(* that is sorted by them keeps what it promises, in maps of every size an *)
(* int can count.                                                          *)
(***************************************************************************)
EXTENDS RadixSort, RadixMap, FiniteSetTheorems, WellFoundedInduction, TLAPS

(* RadixPass.                                                              *)

\* A sort by a measure: the element in slot i belongs before that in slot j.
Goes(measure, i, j) ==
  measure[i] < measure[j] \/ (measure[i] = measure[j] /\ i < j)

\* The slots whose elements belong before that in slot i.
Ahead(measure, i) == {j \in DOMAIN measure : Goes(measure, j, i)}

-----------------------------------------------------------------------------
(* The slot an element is moved to.                                        *)

\* The place of an element is how many belong before it: a slot of the array.
LEMMA PlaceInside ==
  ASSUME NEW n \in Nat, NEW m \in [0 .. n - 1 -> Int], NEW i \in 0 .. n - 1
  PROVE  /\ PlaceOf(m, i) = Cardinality(Ahead(m, i)) /\ IsFiniteSet(Ahead(m, i))
         /\ PlaceOf(m, i) \in 0 .. n - 1
<1>1. PlaceOf(m, i) = Cardinality(Ahead(m, i))
  <2>1. Ahead(m, i) = {j \in DOMAIN m : m[j] < m[i] \/ (m[j] = m[i] /\ j < i)}
    BY DEF Ahead, Goes
  <2> QED BY <2>1 DEF PlaceOf
<1> DEFINE D == 0 .. n - 1
           S == D \ {i}
<1>2. IsFiniteSet(S) /\ Cardinality(S) = n - 1
  <2>1. IsFiniteSet(D) /\ Cardinality(D) = n /\ i \in D
    BY FS_Interval
  <2> HIDE DEF D
  <2> QED BY <2>1, FS_RemoveElement
<1>3. Ahead(m, i) \in SUBSET S
  BY DEF Ahead, Goes
<1>4. IsFiniteSet(Ahead(m, i)) /\ Cardinality(Ahead(m, i)) <= n - 1
  BY <1>2, <1>3, FS_Subset
<1>5. Cardinality(Ahead(m, i)) \in Nat
  BY <1>4, FS_CardinalityType
<1> QED BY <1>1, <1>4, <1>5

\* What belongs before another element is moved before it.
LEMMA PlacesInOrder ==
  ASSUME NEW n \in Nat, NEW m \in [0 .. n - 1 -> Int], NEW i \in 0 .. n - 1,
         NEW j \in 0 .. n - 1, Goes(m, i, j)
  PROVE  PlaceOf(m, i) < PlaceOf(m, j)
<1>1. Ahead(m, i) \cup {i} \in SUBSET Ahead(m, j)
  <2>1. \A k \in 0 .. n - 1 : Goes(m, k, i) => Goes(m, k, j)
    BY DEF Goes
  <2> QED BY <2>1 DEF Ahead
<1>2. i \notin Ahead(m, i)
  BY DEF Ahead, Goes
<1>3. Cardinality(Ahead(m, i) \cup {i}) = Cardinality(Ahead(m, i)) + 1
  BY <1>2, PlaceInside, FS_AddElement
<1>4. Cardinality(Ahead(m, i) \cup {i}) <= Cardinality(Ahead(m, j))
  BY <1>1, PlaceInside, FS_Subset
<1> QED BY <1>3, <1>4, PlaceInside

\* Of two elements one belongs before the other, and no two go to one slot.
LEMMA PlacesDiffer ==
  ASSUME NEW n \in Nat, NEW m \in [0 .. n - 1 -> Int], NEW i \in 0 .. n - 1,
         NEW j \in 0 .. n - 1
  PROVE  /\ i # j => Goes(m, i, j) \/ Goes(m, j, i)
         /\ PlaceOf(m, i) = PlaceOf(m, j) => i = j
         /\ PlaceOf(m, i) < PlaceOf(m, j) => Goes(m, i, j)
<1>1. i # j => Goes(m, i, j) \/ Goes(m, j, i)
  BY DEF Goes
<1>2. Goes(m, i, j) => PlaceOf(m, i) < PlaceOf(m, j)
  BY PlacesInOrder
<1>3. Goes(m, j, i) => PlaceOf(m, j) < PlaceOf(m, i)
  BY PlacesInOrder
<1>4. PlaceOf(m, i) \in Int /\ PlaceOf(m, j) \in Int
  BY PlaceInside
<1> QED BY <1>1, <1>2, <1>3, <1>4

\* And to every slot one goes.
LEMMA PlacesFill ==
  ASSUME NEW n \in Nat, NEW m \in [0 .. n - 1 -> Int], NEW p \in 0 .. n - 1
  PROVE  \E i \in 0 .. n - 1 : PlaceOf(m, i) = p
<1> DEFINE D == 0 .. n - 1
           f == [i \in D |-> PlaceOf(m, i)]
<1>1. f \in [D -> D]
  BY PlaceInside
<1>2. \A i, j \in D : f[i] = f[j] => i = j
  BY PlacesDiffer
<1>3. f \in Injection(D, D)
  BY <1>1, <1>2 DEF Injection, IsInjective
<1>4. IsFiniteSet(D)
  BY FS_Interval
<1>5. f \in Surjection(D, D)
  BY <1>3, <1>4, FS_Injection
<1> QED BY <1>5 DEF Surjection

-----------------------------------------------------------------------------
(* The array a sort makes.                                                 *)

\* A sort moves the element of every slot to its place, and nothing else.
LEMMA SortMoves ==
  ASSUME NEW n \in Nat, NEW m \in [0 .. n - 1 -> Int], NEW a, DOMAIN a = 0 .. n - 1
  PROVE  /\ DOMAIN SortedBy(a, m) = 0 .. n - 1
         /\ \A i \in 0 .. n - 1 : SortedBy(a, m)[PlaceOf(m, i)] = a[i]
<1> DEFINE At(p) == CHOOSE i \in DOMAIN a : PlaceOf(m, i) = p
<1>1. ASSUME NEW i \in 0 .. n - 1
      PROVE  At(PlaceOf(m, i)) = i
  <2>1. At(PlaceOf(m, i)) \in DOMAIN a /\ PlaceOf(m, At(PlaceOf(m, i))) = PlaceOf(m, i)
    OBVIOUS
  <2> QED BY <2>1, PlacesDiffer
<1>2. SortedBy(a, m) = [p \in 0 .. n - 1 |-> a[At(p)]]
  BY DEF SortedBy
<1> HIDE DEF At
<1>3. \A i \in 0 .. n - 1 : SortedBy(a, m)[PlaceOf(m, i)] = a[i]
  BY <1>1, <1>2, PlaceInside
<1> QED BY <1>2, <1>3

\* So it is what puts every element in its place.
LEMMA SortIsUnique ==
  ASSUME NEW n \in Nat, NEW m \in [0 .. n - 1 -> Int],
         NEW T, NEW a \in [0 .. n - 1 -> T], NEW b \in [0 .. n - 1 -> T],
         \A i \in 0 .. n - 1 : b[PlaceOf(m, i)] = a[i]
  PROVE  b = SortedBy(a, m)
<1>1. \A p \in 0 .. n - 1 : b[p] = SortedBy(a, m)[p]
  <2> TAKE p \in 0 .. n - 1
  <2>1. PICK i \in 0 .. n - 1 : PlaceOf(m, i) = p
    BY PlacesFill
  <2> QED BY <2>1, SortMoves
<1>2. SortedBy(a, m) = [p \in 0 .. n - 1 |-> SortedBy(a, m)[p]]
  BY DEF SortedBy
<1> QED BY <1>1, <1>2

\* The result has elements of the array,
LEMMA SortType ==
  ASSUME NEW n \in Nat, NEW m \in [0 .. n - 1 -> Int], NEW T, NEW a \in [0 .. n - 1 -> T]
  PROVE  SortedBy(a, m) \in [0 .. n - 1 -> T]
<1> DEFINE s == SortedBy(a, m)
<1>1. s = [p \in 0 .. n - 1 |-> s[p]]
  BY DEF SortedBy
<1>2. \A i \in 0 .. n - 1 : s[PlaceOf(m, i)] = a[i]
  BY SortMoves
<1>3. \A p \in 0 .. n - 1 : \E i \in 0 .. n - 1 : PlaceOf(m, i) = p
  BY PlacesFill
<1> HIDE DEF s
<1>4. \A p \in 0 .. n - 1 : s[p] \in T
  BY <1>2, <1>3
<1>5. s \in [0 .. n - 1 -> T]
  BY <1>1, <1>4
<1> QED BY <1>5 DEF s

\* in the order in which they are, when they are in order already.
LEMMA SortedAlready ==
  ASSUME NEW n \in Nat, NEW m \in [0 .. n - 1 -> Int], NEW T, NEW a \in [0 .. n - 1 -> T],
         \A i, j \in 0 .. n - 1 : i < j => m[i] <= m[j]
  PROVE  SortedBy(a, m) = a
<1>1. ASSUME NEW i \in 0 .. n - 1
      PROVE  PlaceOf(m, i) = i
  <2>1. Ahead(m, i) = 0 .. i - 1
    <3>1. \A j \in 0 .. n - 1 : Goes(m, j, i) <=> j < i
      <4> TAKE j \in 0 .. n - 1
      <4>1. m[i] \in Int /\ m[j] \in Int /\ (i < j => m[i] <= m[j]) /\ (j < i => m[j] <= m[i])
        OBVIOUS
      <4> QED BY <4>1 DEF Goes
    <3> QED BY <3>1 DEF Ahead
  <2>2. Cardinality(0 .. i - 1) = i
    BY FS_Interval
  <2> QED BY <2>1, <2>2, PlaceInside
<1>2. \A i \in 0 .. n - 1 : a[PlaceOf(m, i)] = a[i]
  BY <1>1
<1>3. a = SortedBy(a, m)
  BY <1>2, SortIsUnique
<1> QED BY <1>3

\* The result has the same elements, at slots that are ordered as they are.
LEMMA SortSorts ==
  ASSUME NEW n \in Nat, NEW m \in [0 .. n - 1 -> Int], NEW a, DOMAIN a = 0 .. n - 1,
         NEW p \in 0 .. n - 1, NEW q \in 0 .. n - 1, p < q
  PROVE  \E i, j \in 0 .. n - 1 :
           /\ SortedBy(a, m)[p] = a[i] /\ SortedBy(a, m)[q] = a[j]
           /\ Goes(m, i, j)
<1>1. PICK i \in 0 .. n - 1 : PlaceOf(m, i) = p
  BY PlacesFill
<1>2. PICK j \in 0 .. n - 1 : PlaceOf(m, j) = q
  BY PlacesFill
<1>3. Goes(m, i, j)
  BY <1>1, <1>2, PlacesDiffer
<1>4. \A k \in 0 .. n - 1 : SortedBy(a, m)[PlaceOf(m, k)] = a[k]
  BY SortMoves
<1>5. SortedBy(a, m)[p] = a[i] /\ SortedBy(a, m)[q] = a[j]
  BY <1>1, <1>2, <1>4
<1> QED BY <1>3, <1>5

-----------------------------------------------------------------------------
(* The bytes of a key.                                                     *)

\* A product of positive numbers is one.
LEMMA Positive ==
  ASSUME NEW x \in Int, NEW y \in Int, x >= 1, y >= 1
  PROVE  x * y \in Int /\ x * y >= 1
OBVIOUS

\* Each byte counts Base times what the one before counts.
LEMMA Weights ==
  /\ Weight(0) = 1
  /\ \A k \in 0 .. 4 : Weight(k) \in Nat \ {0}
  /\ \A k \in 0 .. 3 : Weight(k + 1) = Weight(k) * Base
  /\ UINT32_MAX \in Nat
<1> DEFINE b2 == Base * Base
           b3 == b2 * Base
           b4 == b3 * Base
<1>1. Base \in Int /\ Base >= 1
  BY BaseAssumption
<1>2. b2 \in Int /\ b2 >= 1
  BY <1>1, Positive
<1>3. b3 \in Int /\ b3 >= 1
  <2> HIDE DEF b2
  <2> QED BY <1>1, <1>2, Positive
<1>4. b4 \in Int /\ b4 >= 1
  <2> HIDE DEF b3
  <2> QED BY <1>1, <1>3, Positive
<1>5. /\ Weight(0) = 1 /\ Weight(1) = Base /\ Weight(2) = b2 /\ Weight(3) = b3
      /\ Weight(4) = b4
  BY DEF Weight
<1>6. Weight(1) = Weight(0) * Base
  BY <1>1, <1>5
<1>7. Weight(2) = Weight(1) * Base /\ Weight(3) = Weight(2) * Base /\ Weight(4) = Weight(3) * Base
  BY <1>5
<1>8. \A k \in 0 .. 4 : k = 0 \/ k = 1 \/ k = 2 \/ k = 3 \/ k = 4
  OBVIOUS
<1> HIDE DEF b2, b3, b4
<1>9. \A k \in 0 .. 4 : Weight(k) \in Nat \ {0}
  BY <1>1, <1>2, <1>3, <1>4, <1>5, <1>8
<1>10. \A k \in 0 .. 3 : Weight(k + 1) = Weight(k) * Base
  <2>1. \A k \in 0 .. 3 : (k = 0 /\ k + 1 = 1) \/ (k = 1 /\ k + 1 = 2) \/ (k = 2 /\ k + 1 = 3)
                          \/ (k = 3 /\ k + 1 = 4)
    OBVIOUS
  <2> QED BY <1>6, <1>7, <2>1
<1>11. UINT32_MAX \in Nat
  BY <1>4, <1>5 DEF UINT32_MAX
<1> QED BY <1>5, <1>9, <1>10, <1>11

\* Dividing leaves a quotient and a remainder that is less than the divisor,
LEMMA Quotient ==
  ASSUME NEW h \in Int, NEW c \in Int, c > 0
  PROVE  h \div c \in Int /\ h % c \in 0 .. c - 1 /\ h = c * (h \div c) + (h % c)
OBVIOUS

\* and only one such.
LEMMA Remainder ==
  ASSUME NEW h \in Int, NEW c \in Int, c > 0,
         NEW q \in Int, NEW r \in Int, r >= 0, r < c, h = c * q + r
  PROVE  h % c = r
BY SMTT(30)

\* The low bytes of a key up to one are that byte and those before it.
LEMMA LowBytes ==
  ASSUME NEW key \in Nat, NEW k \in 0 .. 3
  PROVE  /\ ByteOf(key, k) \in 0 .. Base - 1
         /\ key % Weight(k) \in 0 .. Weight(k) - 1
         /\ key % Weight(k + 1) = Weight(k) * ByteOf(key, k) + (key % Weight(k))
<1> DEFINE w == Weight(k)
           q == key \div w
           r == key % w
           p == q \div Base
           b == q % Base
           d == Weight(k + 1)
<1>1. w \in Int /\ w > 0 /\ d = w * Base /\ d \in Int /\ d > 0
  <2>1. k \in 0 .. 4 /\ k + 1 \in 0 .. 4
    OBVIOUS
  <2> QED BY <2>1, Weights
<1>2. Base \in Int /\ Base > 0 /\ key \in Int
  BY BaseAssumption
<1> HIDE DEF w, d
<1>3. q \in Int /\ r \in 0 .. w - 1 /\ key = w * q + r
  BY <1>1, <1>2, Quotient
<1> HIDE DEF q, r
<1>4. p \in Int /\ b \in 0 .. Base - 1 /\ q = Base * p + b
  BY <1>2, <1>3, Quotient
<1> HIDE DEF p, b
<1>5. w * b + r \in Int /\ w * b + r >= 0 /\ w * b + r < d
  <2>1. w * b \in Int /\ w * b >= 0
    <3>1. b \in Int /\ b >= 0
      BY <1>4
    <3> QED BY <1>1, <3>1
  <2>2. w * b + w <= d
    <3>1. b \in Int /\ b + 1 <= Base
      BY <1>2, <1>4
    <3>2. w * (b + 1) <= w * Base
      BY <1>1, <1>2, <3>1
    <3>3. w * (b + 1) = w * b + w
      BY <1>1, <3>1
    <3> QED BY <1>1, <3>2, <3>3
  <2> QED BY <1>1, <1>3, <2>1, <2>2
<1>6. key = d * p + (w * b + r)
  <2>1. b \in Int /\ r \in Int
    BY <1>2, <1>1, <1>3, <1>4
  <2>2. w * (Base * p + b) = w * Base * p + w * b
    BY <1>1, <1>2, <1>4, <2>1
  <2>3. w * q = d * p + w * b
    BY <1>1, <1>4, <2>2
  <2>4. w * q \in Int /\ d * p \in Int /\ w * b \in Int
    BY <1>1, <1>3, <1>4, <2>1
  <2> QED BY <1>3, <2>1, <2>3, <2>4
<1>7. key % d = w * b + r
  BY <1>1, <1>2, <1>4, <1>5, <1>6, Remainder
<1>8. ByteOf(key, k) = b
  BY DEF ByteOf, b, q, w
<1> QED BY <1>3, <1>4, <1>7, <1>8 DEF r, w, d

\* So two keys compare by that byte, and by those before it where it is equal.
LEMMA BytesCompare ==
  ASSUME NEW x \in Nat, NEW y \in Nat, NEW k \in 0 .. 3
  PROVE  /\ ByteOf(x, k) < ByteOf(y, k) => x % Weight(k + 1) < y % Weight(k + 1)
         /\ ByteOf(x, k) = ByteOf(y, k) =>
              /\ x % Weight(k) < y % Weight(k) => x % Weight(k + 1) < y % Weight(k + 1)
              /\ x % Weight(k) = y % Weight(k) => x % Weight(k + 1) = y % Weight(k + 1)
<1> DEFINE w == Weight(k)
           d == Weight(k + 1)
           bx == ByteOf(x, k)
           by == ByteOf(y, k)
           rx == x % w
           ry == y % w
<1>1. w \in Int /\ w > 0
  <2>1. k \in 0 .. 4
    OBVIOUS
  <2> QED BY <2>1, Weights
<1>2. /\ bx \in 0 .. Base - 1 /\ by \in 0 .. Base - 1 /\ rx \in 0 .. w - 1 /\ ry \in 0 .. w - 1
      /\ x % d = w * bx + rx /\ y % d = w * by + ry
  BY LowBytes
<1>3. bx \in Int /\ by \in Int /\ rx \in Int /\ ry \in Int
  BY <1>1, <1>2, BaseAssumption
<1> HIDE DEF w, d, bx, by, rx, ry
<1>4. ASSUME bx < by
      PROVE  w * bx + rx < w * by + ry
  <2>1. w * (bx + 1) <= w * by
    BY <1>1, <1>3, <1>4
  <2>2. w * (bx + 1) = w * bx + w
    BY <1>1, <1>3
  <2>3. w * bx \in Int /\ w * by \in Int
    BY <1>1, <1>3
  <2> QED BY <1>1, <1>2, <1>3, <2>1, <2>2, <2>3
<1>5. ASSUME bx = by
      PROVE  (rx < ry => w * bx + rx < w * by + ry) /\ (rx = ry => w * bx + rx = w * by + ry)
  <2>1. w * bx \in Int
    BY <1>1, <1>3
  <2> QED BY <1>3, <1>5, <2>1
<1>6. (bx < by => x % d < y % d) /\ (bx = by => (rx < ry => x % d < y % d)
                                             /\ (rx = ry => x % d = y % d))
  BY <1>2, <1>4, <1>5
<1> QED BY <1>6 DEF w, d, bx, by, rx, ry

\* A key is all its bytes.
LEMMA WholeKey ==
  ASSUME NEW key \in 0 .. UINT32_MAX
  PROVE  key \in Nat /\ key % Weight(4) = key /\ key % Weight(0) = 0
<1>1. Weight(4) \in Int /\ Weight(4) > 0 /\ Weight(0) = 1
  BY Weights
<1>2. key \in Int /\ key >= 0 /\ key < Weight(4)
  BY <1>1 DEF UINT32_MAX
<1>3. key % Weight(4) = key
  <2>1. key = Weight(4) * 0 + key
    BY <1>1, <1>2
  <2> QED BY <1>1, <1>2, <2>1, Remainder
<1> QED BY <1>1, <1>2, <1>3

-----------------------------------------------------------------------------
(* RadixSort.                                                              *)

\* What the passes so far have sorted by: the low bytes of the keys.
Lows(k) == [i \in DOMAIN input |-> input[i].key % Weight(k)]

\* What this pass sorts by.
Bytes == BytesOf(source, offset)

\* Of the first slots, those with this byte.
Having(measure, b, k) == {j \in DOMAIN measure : measure[j] = b /\ j < k}

\* The slots that belong before slot k, had it this byte.
Below(measure, b, k) ==
  {j \in DOMAIN measure : measure[j] < b \/ (measure[j] = b /\ j < k)}

Item == [key : Key, value : Nat]

\* The array to sort; the second field of an element is its slot.
InputOK ==
  /\ Size \in Nat /\ input \in [0 .. Size - 1 -> Item]
  /\ \A i \in 0 .. Size - 1 : input[i].value = i

\* The buffers have its length. The one that is read is sorted by the bytes that were
\* seen.
BuffersOK ==
  /\ source = SortedBy(input, Lows(offset))
  /\ dest = [i \in 0 .. Size - 1 |-> dest[i]]
  /\ count = [b \in 0 .. Base - 1 |-> count[b]]
  /\ offset \in 0 .. 4 /\ loop \in {"count", "sum", "fill"}
  /\ offset = 4 => loop = "count"

\* What the loop has done: the bytes counted, the counts below at summed up, the
\* elements before at moved to their places and the indices advanced.
LoopOK ==
  /\ loop = "count" =>
       /\ at \in 0 .. Size
       /\ \A b \in 0 .. Base - 1 : count[b] = Cardinality(Having(Bytes, b, at))
  /\ loop = "sum" =>
       /\ at \in 0 .. Base
       /\ sum = Cardinality(Below(Bytes, at, 0))
       /\ \A b \in 0 .. at - 1 : count[b] = Cardinality(Below(Bytes, b, 0))
       /\ \A b \in at .. Base - 1 : count[b] = Cardinality(Having(Bytes, b, Size))
  /\ loop = "fill" =>
       /\ at \in 0 .. Size
       /\ \A b \in 0 .. Base - 1 : count[b] = Cardinality(Below(Bytes, b, at))
       /\ \A i \in 0 .. at - 1 : dest[PlaceOf(Bytes, i)] = source[i]

SortInv == InputOK /\ BuffersOK /\ LoopOK

-----------------------------------------------------------------------------
(* Counting.                                                               *)

\* The sets that are counted are finite.
LEMMA Counted ==
  ASSUME NEW n \in Nat, NEW m, DOMAIN m = 0 .. n - 1, NEW b, NEW k
  PROVE  /\ IsFiniteSet(Having(m, b, k)) /\ Cardinality(Having(m, b, k)) \in Nat
         /\ IsFiniteSet(Below(m, b, k)) /\ Cardinality(Below(m, b, k)) \in Nat
<1>1. IsFiniteSet(0 .. n - 1)
  BY FS_Interval
<1>2. Having(m, b, k) \in SUBSET (0 .. n - 1) /\ Below(m, b, k) \in SUBSET (0 .. n - 1)
  BY DEF Having, Below
<1>3. IsFiniteSet(Having(m, b, k)) /\ IsFiniteSet(Below(m, b, k))
  BY <1>1, <1>2, FS_Subset
<1> QED BY <1>3, FS_CardinalityType

\* One slot more: it counts for its byte.
LEMMA OneMore ==
  ASSUME NEW n \in Nat, NEW m \in [0 .. n - 1 -> Int], NEW k \in 0 .. n - 1, NEW b \in Int
  PROVE  /\ Cardinality(Having(m, b, k + 1)) =
              Cardinality(Having(m, b, k)) + (IF m[k] = b THEN 1 ELSE 0)
         /\ Cardinality(Below(m, b, k + 1)) =
              Cardinality(Below(m, b, k)) + (IF m[k] = b THEN 1 ELSE 0)
<1>1. DOMAIN m = 0 .. n - 1 /\ \A j \in 0 .. n - 1 : m[j] \in Int /\ (j < k + 1 <=> j < k \/ j = k)
  OBVIOUS
<1>2. /\ IsFiniteSet(Having(m, b, k)) /\ Cardinality(Having(m, b, k)) \in Nat
      /\ IsFiniteSet(Below(m, b, k)) /\ Cardinality(Below(m, b, k)) \in Nat
  BY <1>1, Counted
<1>3. CASE m[k] = b
  <2>1. Having(m, b, k + 1) = Having(m, b, k) \cup {k} /\ k \notin Having(m, b, k)
    BY <1>1, <1>3 DEF Having
  <2>2. Below(m, b, k + 1) = Below(m, b, k) \cup {k} /\ k \notin Below(m, b, k)
    BY <1>1, <1>3 DEF Below
  <2> QED BY <1>2, <1>3, <2>1, <2>2, FS_AddElement, ZenonT(60)
<1>4. CASE m[k] # b
  <2>1. Having(m, b, k + 1) = Having(m, b, k)
    BY <1>1, <1>4 DEF Having
  <2>2. Below(m, b, k + 1) = Below(m, b, k)
    BY <1>1, <1>4 DEF Below
  <2> QED BY <1>2, <1>4, <2>1, <2>2
<1> QED BY <1>3, <1>4

\* Below the next byte are those below this one and those that have it.
LEMMA NextByte ==
  ASSUME NEW n \in Nat, NEW m \in [0 .. n - 1 -> Int], NEW b \in Int
  PROVE  Cardinality(Below(m, b + 1, 0)) =
           Cardinality(Below(m, b, 0)) + Cardinality(Having(m, b, n))
<1> DEFINE S == Below(m, b, 0)
           T == Having(m, b, n)
<1>1. DOMAIN m = 0 .. n - 1 /\ \A j \in 0 .. n - 1 : m[j] \in Int /\ ~(j < 0) /\ j < n
  OBVIOUS
<1>2. Below(m, b + 1, 0) = S \cup T
  <2>1. \A j \in 0 .. n - 1 : m[j] < b + 1 <=> m[j] < b \/ m[j] = b
    BY <1>1
  <2> QED BY <1>1, <2>1 DEF Below, Having
<1>3. S \cap T = {}
  BY <1>1 DEF Below, Having
<1>4. /\ IsFiniteSet(S) /\ Cardinality(S) \in Nat
      /\ IsFiniteSet(T) /\ Cardinality(T) \in Nat
  BY <1>1, Counted
<1> HIDE DEF S, T
<1>5. Cardinality(S \cup T) = Cardinality(S) + Cardinality(T) - Cardinality(S \cap T)
  BY <1>4, FS_Union
<1>6. Cardinality(S \cap T) = 0
  BY <1>3, FS_EmptySet
<1>7. Cardinality(S \cup T) = Cardinality(S) + Cardinality(T)
  BY <1>4, <1>5, <1>6
<1> QED BY <1>2, <1>7 DEF S, T

\* Before the first slot nothing has been counted, and no byte is below 0.
LEMMA NoneYet ==
  ASSUME NEW n \in Nat, NEW m \in [0 .. n - 1 -> Int]
  PROVE  /\ \A b : Cardinality(Having(m, b, 0)) = 0
         /\ (\A j \in 0 .. n - 1 : m[j] >= 0) => Cardinality(Below(m, 0, 0)) = 0
<1>1. DOMAIN m = 0 .. n - 1 /\ \A j \in 0 .. n - 1 : m[j] \in Int /\ ~(j < 0)
  OBVIOUS
<1>2. \A b : Having(m, b, 0) = {}
  BY <1>1 DEF Having
<1>3. (\A j \in 0 .. n - 1 : m[j] >= 0) => Below(m, 0, 0) = {}
  BY <1>1 DEF Below
<1>4. Cardinality({}) = 0
  BY FS_EmptySet
<1> QED BY <1>2, <1>3, <1>4

-----------------------------------------------------------------------------
(* One pass after the other.                                               *)

\* z orders the slots as y does, and as x does where y is equal; and m is y after the
\* elements were sorted by x.
Composed(n, x, y, z, m) ==
  /\ n \in Nat /\ {x, y, z, m} \subseteq [0 .. n - 1 -> Int]
  /\ \A i, j \in 0 .. n - 1 :
       /\ z[i] < z[j] <=> y[i] < y[j] \/ (y[i] = y[j] /\ x[i] < x[j])
       /\ z[i] = z[j] <=> y[i] = y[j] /\ x[i] = x[j]
  /\ \A i \in 0 .. n - 1 : m[PlaceOf(x, i)] = y[i]

\* Then a sort by z moves an element as one by x and another by y do.
LEMMA PlacesCompose ==
  ASSUME NEW n, NEW x, NEW y, NEW z, NEW m, Composed(n, x, y, z, m), NEW i \in 0 .. n - 1
  PROVE  PlaceOf(m, PlaceOf(x, i)) = PlaceOf(z, i)
<1> DEFINE P(j) == PlaceOf(x, j)
<1>1. /\ n \in Nat /\ x \in [0 .. n - 1 -> Int] /\ y \in [0 .. n - 1 -> Int]
      /\ z \in [0 .. n - 1 -> Int] /\ m \in [0 .. n - 1 -> Int]
  BY DEF Composed
<1>2. \A j \in 0 .. n - 1 : P(j) \in 0 .. n - 1
  BY <1>1, PlaceInside
<1>3. \A j \in 0 .. n - 1 : Goes(z, j, i) <=> Goes(m, P(j), P(i))
  <2> TAKE j \in 0 .. n - 1
  <2>1. P(j) < P(i) <=> Goes(x, j, i)
    BY <1>1, PlacesInOrder, PlacesDiffer
  <2>2. m[P(i)] = y[i] /\ m[P(j)] = y[j]
    BY DEF Composed
  <2> HIDE DEF P
  <2> QED BY <2>1, <2>2 DEF Goes, Composed
<1> DEFINE S == Ahead(z, i)
           T == Ahead(m, P(i))
           f == [j \in S |-> P(j)]
<1>4. \A j : j \in S <=> j \in 0 .. n - 1 /\ Goes(z, j, i)
  BY <1>1 DEF Ahead
<1>5. \A q : q \in T <=> q \in 0 .. n - 1 /\ Goes(m, q, P(i))
  BY <1>1 DEF Ahead
<1>6. \A q \in 0 .. n - 1 : \E j \in 0 .. n - 1 : P(j) = q
  BY <1>1, PlacesFill
<1>7. \A j, k \in 0 .. n - 1 : P(j) = P(k) => j = k
  BY <1>1, PlacesDiffer
<1>8. /\ PlaceOf(z, i) = Cardinality(S) /\ IsFiniteSet(S)
      /\ PlaceOf(m, P(i)) = Cardinality(T)
  BY <1>1, <1>2, PlaceInside
<1> HIDE DEF S, T, P
<1>9. f \in [S -> T]
  BY <1>2, <1>3, <1>4, <1>5
<1>10. \A j, k \in S : f[j] = f[k] => j = k
  BY <1>4, <1>7
<1>11. \A q \in T : \E j \in S : f[j] = q
  <2> TAKE q \in T
  <2>1. PICK j \in 0 .. n - 1 : P(j) = q
    BY <1>5, <1>6
  <2>2. j \in S
    BY <1>3, <1>4, <1>5, <2>1
  <2> QED BY <2>1, <2>2
<1> HIDE DEF f
<1>12. f \in Bijection(S, T)
  BY <1>9, <1>10, <1>11 DEF Bijection, Injection, Surjection, IsInjective
<1>13. Cardinality(S) = Cardinality(T)
  BY <1>8, <1>12, FS_Bijection DEF ExistsBijection
<1> QED BY <1>8, <1>13 DEF P

\* Then the array sorted by x and then by y is sorted by z.
LEMMA PassExtends ==
  ASSUME NEW n \in Nat, NEW E, NEW a \in [0 .. n - 1 -> E], NEW x \in [0 .. n - 1 -> Int],
         NEW z \in [0 .. n - 1 -> Int], NEW m \in [0 .. n - 1 -> Int],
         \A i \in 0 .. n - 1 : PlaceOf(m, PlaceOf(x, i)) = PlaceOf(z, i)
  PROVE  SortedBy(SortedBy(a, x), m) = SortedBy(a, z)
<1> DEFINE c == SortedBy(a, x)
           d == SortedBy(c, m)
<1>1. /\ c \in [0 .. n - 1 -> E]
      /\ \A i \in 0 .. n - 1 : c[PlaceOf(x, i)] = a[i] /\ PlaceOf(x, i) \in 0 .. n - 1
  <2>1. c \in [0 .. n - 1 -> E]
    BY SortType
  <2>2. \A i \in 0 .. n - 1 : c[PlaceOf(x, i)] = a[i]
    BY SortMoves
  <2>3. \A i \in 0 .. n - 1 : PlaceOf(x, i) \in 0 .. n - 1
    BY PlaceInside
  <2> QED BY <2>1, <2>2, <2>3
<1> HIDE DEF c
<1>2. /\ d \in [0 .. n - 1 -> E]
      /\ \A q \in 0 .. n - 1 : d[PlaceOf(m, q)] = c[q]
  <2>1. d \in [0 .. n - 1 -> E]
    BY <1>1, SortType
  <2>2. DOMAIN c = 0 .. n - 1
    BY <1>1
  <2>3. \A q \in 0 .. n - 1 : SortedBy(c, m)[PlaceOf(m, q)] = c[q]
    BY <2>2, SortMoves, ZenonT(60)
  <2> QED BY <2>1, <2>3
<1> HIDE DEF d
<1>3. \A i \in 0 .. n - 1 : d[PlaceOf(z, i)] = a[i]
  BY <1>1, <1>2
<1>4. d = SortedBy(a, z)
  BY <1>2, <1>3, SortIsUnique
<1> QED BY <1>4 DEF c, d

-----------------------------------------------------------------------------
(* The loops.                                                              *)

\* The keys of elements are numbers.
LEMMA ItemKeys ==
  ASSUME NEW e \in Item
  PROVE  e.key \in 0 .. UINT32_MAX /\ e.key \in Nat
<1>1. e.key \in 0 .. UINT32_MAX
  BY SortAssumption, KeyAssumption DEF Item
<1> QED BY <1>1, WholeKey

\* What is sorted, and what it is sorted by.
LEMMA Types ==
  ASSUME InputOK, BuffersOK
  PROVE  /\ Size \in Nat /\ offset \in 0 .. 4
         /\ input \in [0 .. Size - 1 -> Item] /\ source \in [0 .. Size - 1 -> Item]
         /\ \A k \in 0 .. 4 : Lows(k) \in [0 .. Size - 1 -> Int]
         /\ \A i \in 0 .. Size - 1 : source[PlaceOf(Lows(offset), i)] = input[i]
<1>1. Size \in Nat /\ offset \in 0 .. 4 /\ input \in [0 .. Size - 1 -> Item]
  BY DEF InputOK, BuffersOK
<1>2. \A i \in 0 .. Size - 1 : input[i].key \in Nat
  BY <1>1, ItemKeys
<1>3. ASSUME NEW k \in 0 .. 4 PROVE Lows(k) \in [0 .. Size - 1 -> Int]
  <2>1. Weight(k) \in Int /\ Weight(k) > 0
    BY Weights
  <2>2. \A i \in 0 .. Size - 1 : input[i].key % Weight(k) \in Int
    BY <1>2, <2>1, Quotient
  <2> QED BY <1>1, <2>2 DEF Lows
<1>4. source = SortedBy(input, Lows(offset)) /\ Lows(offset) \in [0 .. Size - 1 -> Int]
  BY <1>1, <1>3 DEF BuffersOK
<1>5. source \in [0 .. Size - 1 -> Item]
  BY <1>1, <1>4, SortType
<1>6. DOMAIN input = 0 .. Size - 1
  BY <1>1
<1>7. \A i \in 0 .. Size - 1 : source[PlaceOf(Lows(offset), i)] = input[i]
  BY <1>1, <1>4, <1>6, SortMoves
<1> QED BY <1>1, <1>3, <1>5, <1>7

\* The bytes of this pass.
LEMMA BytesTypes ==
  ASSUME InputOK, BuffersOK, offset # 4
  PROVE  /\ offset \in 0 .. 3 /\ Bytes \in [0 .. Size - 1 -> Int]
         /\ \A i \in 0 .. Size - 1 :
              Bytes[i] = ByteOf(source[i].key, offset) /\ Bytes[i] \in 0 .. Base - 1
<1>1. source \in [0 .. Size - 1 -> Item] /\ offset \in 0 .. 3
  BY Types
<1>2. \A i \in 0 .. Size - 1 : source[i].key \in Nat
  BY <1>1, ItemKeys
<1>3. \A i \in 0 .. Size - 1 : ByteOf(source[i].key, offset) \in 0 .. Base - 1
  BY <1>1, <1>2, LowBytes
<1>4. \A i \in 0 .. Size - 1 : Bytes[i] = ByteOf(source[i].key, offset)
  BY <1>1 DEF Bytes, BytesOf
<1>5. Bytes = [i \in 0 .. Size - 1 |-> Bytes[i]]
  BY <1>1 DEF Bytes, BytesOf
<1>6. \A i \in 0 .. Size - 1 : Bytes[i] \in Int
  BY <1>3, <1>4, BaseAssumption
<1>7. Bytes \in [0 .. Size - 1 -> Int]
  BY <1>5, <1>6
<1> QED BY <1>1, <1>3, <1>4, <1>7

\* An iteration of a loop leaves what is sorted.
LEMMA SamePass ==
  ASSUME InputOK, BuffersOK, UNCHANGED <<input, source, offset>>,
         dest' = [i \in 0 .. Size - 1 |-> dest'[i]],
         count' = [b \in 0 .. Base - 1 |-> count'[b]],
         loop' \in {"count", "sum", "fill"}, offset = 4 => loop' = "count"
  PROVE  InputOK' /\ BuffersOK' /\ Bytes' = Bytes /\ Size' = Size
<1>1. Size' = Size /\ Bytes' = Bytes /\ InputOK'
  BY DEF Size, Bytes, InputOK
<1>2. BuffersOK'
  BY <1>1 DEF BuffersOK, Lows
<1> QED BY <1>1, <1>2

\* Counting a byte.
LEMMA CountNextKeeps ==
  ASSUME SortInv, CountNext
  PROVE  SortInv'
<1>1. /\ loop = "count" /\ offset # 4 /\ at < Size /\ at' = at + 1
      /\ count' = [count EXCEPT ![Byte] = @ + 1]
      /\ UNCHANGED <<input, source, dest, offset, loop, sum>> /\ InputOK /\ BuffersOK
  BY DEF CountNext, SortInv
<1>2. /\ Size \in Nat /\ at \in 0 .. Size - 1
      /\ \A b \in 0 .. Base - 1 : count[b] = Cardinality(Having(Bytes, b, at))
  BY <1>1 DEF SortInv, LoopOK, InputOK
<1>3. Bytes \in [0 .. Size - 1 -> Int] /\ Byte = Bytes[at] /\ Byte \in 0 .. Base - 1
  BY <1>1, <1>2, BytesTypes DEF Byte
<1>4. /\ count = [b \in 0 .. Base - 1 |-> count[b]] /\ dest = [i \in 0 .. Size - 1 |-> dest[i]]
      /\ loop \in {"count", "sum", "fill"} /\ (offset = 4 => loop = "count")
  BY <1>1 DEF BuffersOK
<1>5. count' = [b \in 0 .. Base - 1 |-> IF b = Byte THEN count[b] + 1 ELSE count[b]]
  BY <1>1, <1>4
<1>6. InputOK' /\ BuffersOK' /\ Bytes' = Bytes /\ Size' = Size
  <2>1. count' = [b \in 0 .. Base - 1 |-> count'[b]]
    BY <1>5
  <2> QED BY <1>1, <1>4, <2>1, SamePass
<1>7. ASSUME NEW b \in 0 .. Base - 1
      PROVE  count'[b] = Cardinality(Having(Bytes, b, at + 1))
  <2>1. Cardinality(Having(Bytes, b, at + 1)) =
          Cardinality(Having(Bytes, b, at)) + (IF Bytes[at] = b THEN 1 ELSE 0)
    BY <1>2, <1>3, OneMore
  <2>2. Cardinality(Having(Bytes, b, at)) \in Nat
    BY <1>2, <1>3, Counted
  <2> QED BY <1>2, <1>3, <1>5, <2>1, <2>2
<1>8. LoopOK'
  <2>1. loop' = "count" /\ at' \in 0 .. Size
    BY <1>1, <1>2
  <2> QED BY <1>1, <1>6, <1>7, <2>1 DEF LoopOK
<1> QED BY <1>6, <1>8 DEF SortInv

\* All are counted; nothing is summed up.
LEMMA CountDoneKeeps ==
  ASSUME SortInv, CountDone
  PROVE  SortInv'
<1>1. /\ loop = "count" /\ offset # 4 /\ at = Size /\ loop' = "sum" /\ at' = 0 /\ sum' = 0
      /\ UNCHANGED <<input, source, dest, offset, count>> /\ InputOK /\ BuffersOK
  BY DEF CountDone, SortInv
<1>2. /\ Size \in Nat
      /\ \A b \in 0 .. Base - 1 : count[b] = Cardinality(Having(Bytes, b, Size))
  BY <1>1 DEF SortInv, LoopOK, InputOK
<1>3. /\ count = [b \in 0 .. Base - 1 |-> count[b]] /\ dest = [i \in 0 .. Size - 1 |-> dest[i]]
  BY <1>1 DEF BuffersOK
<1>4. InputOK' /\ BuffersOK' /\ Bytes' = Bytes /\ Size' = Size
  BY <1>1, <1>3, SamePass
<1>5. Cardinality(Below(Bytes, 0, 0)) = 0
  <2>1. Bytes \in [0 .. Size - 1 -> Int] /\ \A i \in 0 .. Size - 1 : Bytes[i] >= 0
    BY <1>1, BytesTypes
  <2> QED BY <1>2, <2>1, NoneYet
<1>6. LoopOK'
  <2>1. at' \in 0 .. Base
    BY <1>1, BaseAssumption
  <2>2. 0 .. 0 - 1 = {}
    OBVIOUS
  <2> QED BY <1>1, <1>2, <1>4, <1>5, <2>1, <2>2 DEF LoopOK
<1> QED BY <1>4, <1>6 DEF SortInv

\* One count more is summed up.
LEMMA SumNextKeeps ==
  ASSUME SortInv, SumNext
  PROVE  SortInv'
<1>1. /\ loop = "sum" /\ at < Base /\ at' = at + 1 /\ sum' = sum + count[at]
      /\ count' = [count EXCEPT ![at] = sum]
      /\ UNCHANGED <<input, source, dest, offset, loop>> /\ InputOK /\ BuffersOK
  BY DEF SumNext, SortInv
<1>2. /\ Size \in Nat /\ at \in 0 .. Base - 1
      /\ sum = Cardinality(Below(Bytes, at, 0))
      /\ \A b \in 0 .. at - 1 : count[b] = Cardinality(Below(Bytes, b, 0))
      /\ \A b \in at .. Base - 1 : count[b] = Cardinality(Having(Bytes, b, Size))
  BY <1>1, BaseAssumption DEF SortInv, LoopOK, InputOK
<1>3. /\ count = [b \in 0 .. Base - 1 |-> count[b]] /\ dest = [i \in 0 .. Size - 1 |-> dest[i]]
      /\ offset # 4
  BY <1>1 DEF BuffersOK
<1>4. count' = [b \in 0 .. Base - 1 |-> IF b = at THEN sum ELSE count[b]]
  BY <1>1, <1>3
<1>5. InputOK' /\ BuffersOK' /\ Bytes' = Bytes /\ Size' = Size
  <2>1. count' = [b \in 0 .. Base - 1 |-> count'[b]]
    BY <1>4
  <2> QED BY <1>1, <1>3, <2>1, SamePass
<1>6. sum' = Cardinality(Below(Bytes, at + 1, 0))
  <2>1. Bytes \in [0 .. Size - 1 -> Int] /\ at \in Int
    BY <1>1, <1>2, <1>3, BytesTypes, BaseAssumption
  <2>2. Cardinality(Below(Bytes, at + 1, 0)) =
          Cardinality(Below(Bytes, at, 0)) + Cardinality(Having(Bytes, at, Size))
    BY <1>2, <2>1, NextByte
  <2>3. at \in at .. Base - 1
    BY <1>2, BaseAssumption
  <2> QED BY <1>1, <1>2, <2>2, <2>3
<1>7. LoopOK'
  <2>1. at' \in 0 .. Base
    BY <1>1, <1>2, BaseAssumption
  <2>2. \A b \in 0 .. at' - 1 : count'[b] = Cardinality(Below(Bytes, b, 0))
    <3> TAKE b \in 0 .. at' - 1
    <3>1. b \in 0 .. Base - 1 /\ (b = at \/ (b \in 0 .. at - 1 /\ b # at))
      BY <1>1, <1>2, BaseAssumption
    <3> QED BY <1>2, <1>4, <3>1
  <2>3. \A b \in at' .. Base - 1 : count'[b] = Cardinality(Having(Bytes, b, Size))
    <3> TAKE b \in at' .. Base - 1
    <3>1. b \in 0 .. Base - 1 /\ b \in at .. Base - 1 /\ b # at
      BY <1>1, <1>2, BaseAssumption
    <3> QED BY <1>2, <1>4, <3>1
  <2> QED BY <1>1, <1>5, <1>6, <2>1, <2>2, <2>3 DEF LoopOK
<1> QED BY <1>5, <1>7 DEF SortInv

\* The sums are the first index for each byte.
LEMMA SumDoneKeeps ==
  ASSUME SortInv, SumDone
  PROVE  SortInv'
<1>1. /\ loop = "sum" /\ at = Base /\ loop' = "fill" /\ at' = 0
      /\ UNCHANGED <<input, source, dest, offset, count, sum>> /\ InputOK /\ BuffersOK
  BY DEF SumDone, SortInv
<1>2. /\ Size \in Nat
      /\ \A b \in 0 .. Base - 1 : count[b] = Cardinality(Below(Bytes, b, 0))
  BY <1>1 DEF SortInv, LoopOK, InputOK
<1>3. /\ count = [b \in 0 .. Base - 1 |-> count[b]] /\ dest = [i \in 0 .. Size - 1 |-> dest[i]]
      /\ offset # 4
  BY <1>1 DEF BuffersOK
<1>4. InputOK' /\ BuffersOK' /\ Bytes' = Bytes /\ Size' = Size
  BY <1>1, <1>3, SamePass
<1>5. LoopOK'
  <2>1. at' \in 0 .. Size
    BY <1>1, <1>2
  <2>2. 0 .. 0 - 1 = {}
    OBVIOUS
  <2> QED BY <1>1, <1>2, <1>4, <2>1, <2>2 DEF LoopOK
<1> QED BY <1>4, <1>5 DEF SortInv

\* An element is moved to its place: behind those with a smaller byte and the earlier ones
\* with the same.
LEMMA FillNextKeeps ==
  ASSUME SortInv, FillNext
  PROVE  SortInv'
<1>1. /\ loop = "fill" /\ at < Size /\ at' = at + 1
      /\ dest' = [dest EXCEPT ![count[Byte]] = source[at]]
      /\ count' = [count EXCEPT ![Byte] = @ + 1]
      /\ UNCHANGED <<input, source, offset, loop, sum>> /\ InputOK /\ BuffersOK
  BY DEF FillNext, SortInv
<1>2. /\ Size \in Nat /\ at \in 0 .. Size - 1
      /\ \A b \in 0 .. Base - 1 : count[b] = Cardinality(Below(Bytes, b, at))
      /\ \A i \in 0 .. at - 1 : dest[PlaceOf(Bytes, i)] = source[i]
  BY <1>1 DEF SortInv, LoopOK, InputOK
<1>3. /\ count = [b \in 0 .. Base - 1 |-> count[b]] /\ dest = [i \in 0 .. Size - 1 |-> dest[i]]
      /\ offset # 4
  BY <1>1 DEF BuffersOK
<1>4. Bytes \in [0 .. Size - 1 -> Int] /\ Byte = Bytes[at] /\ Byte \in 0 .. Base - 1
  BY <1>1, <1>2, <1>3, BytesTypes DEF Byte
<1>5. count[Byte] = PlaceOf(Bytes, at)
  BY <1>2, <1>4 DEF Below, PlaceOf
<1>6. count' = [b \in 0 .. Base - 1 |-> IF b = Byte THEN count[b] + 1 ELSE count[b]]
  BY <1>1, <1>3
<1>7. dest' = [i \in 0 .. Size - 1 |-> IF i = PlaceOf(Bytes, at) THEN source[at] ELSE dest[i]]
  BY <1>1, <1>3, <1>5
<1>8. InputOK' /\ BuffersOK' /\ Bytes' = Bytes /\ Size' = Size
  <2>1. count' = [b \in 0 .. Base - 1 |-> count'[b]]
    BY <1>6
  <2>2. dest' = [i \in 0 .. Size - 1 |-> dest'[i]]
    BY <1>7
  <2> QED BY <1>1, <1>3, <2>1, <2>2, SamePass
<1>9. ASSUME NEW b \in 0 .. Base - 1
      PROVE  count'[b] = Cardinality(Below(Bytes, b, at + 1))
  <2>1. Cardinality(Below(Bytes, b, at + 1)) =
          Cardinality(Below(Bytes, b, at)) + (IF Bytes[at] = b THEN 1 ELSE 0)
    BY <1>2, <1>4, OneMore
  <2>2. Cardinality(Below(Bytes, b, at)) \in Nat
    BY <1>2, <1>4, Counted
  <2> QED BY <1>2, <1>4, <1>6, <2>1, <2>2
<1>10. ASSUME NEW i \in 0 .. at
       PROVE  dest'[PlaceOf(Bytes, i)] = source[i]
  <2>1. i \in 0 .. Size - 1 /\ (i = at \/ (i \in 0 .. at - 1 /\ i # at))
    BY <1>2
  <2>2. PlaceOf(Bytes, i) \in 0 .. Size - 1
    BY <1>2, <1>4, <2>1, PlaceInside
  <2>3. PlaceOf(Bytes, i) = PlaceOf(Bytes, at) => i = at
    BY <1>2, <1>4, <2>1, PlacesDiffer
  <2> QED BY <1>2, <1>7, <2>1, <2>2, <2>3
<1>11. LoopOK'
  <2>1. loop' = "fill" /\ at' \in 0 .. Size /\ at' - 1 = at
    BY <1>1, <1>2
  <2> QED BY <1>1, <1>8, <1>9, <1>10, <2>1 DEF LoopOK
<1> QED BY <1>8, <1>11 DEF SortInv

\* When the buffer is full it is what the formula of RadixPass says: sorted by one byte
\* more.
LEMMA PassDone ==
  ASSUME SortInv, NextPass
  PROVE  /\ source' = Pass(source, offset) /\ source' = SortedBy(input, Lows(offset + 1))
         /\ offset \in 0 .. 3
<1>1. /\ loop = "fill" /\ at = Size /\ source' = dest /\ InputOK /\ BuffersOK
  BY DEF NextPass, SortInv
<1>2. /\ Size \in Nat /\ \A i \in 0 .. Size - 1 : dest[PlaceOf(Bytes, i)] = source[i]
  BY <1>1 DEF SortInv, LoopOK, InputOK
<1>3. dest = [i \in 0 .. Size - 1 |-> dest[i]] /\ offset # 4
  BY <1>1 DEF BuffersOK
<1>4. /\ offset \in 0 .. 3 /\ Bytes \in [0 .. Size - 1 -> Int]
      /\ \A i \in 0 .. Size - 1 : Bytes[i] = ByteOf(source[i].key, offset)
  BY <1>1, <1>3, BytesTypes
<1>5. /\ input \in [0 .. Size - 1 -> Item] /\ source \in [0 .. Size - 1 -> Item]
      /\ \A k \in 0 .. 4 : Lows(k) \in [0 .. Size - 1 -> Int]
      /\ \A i \in 0 .. Size - 1 : source[PlaceOf(Lows(offset), i)] = input[i]
  BY <1>1, Types
<1>6. dest \in [0 .. Size - 1 -> Item]
  <2>1. \A p \in 0 .. Size - 1 : \E i \in 0 .. Size - 1 : PlaceOf(Bytes, i) = p
    BY <1>2, <1>4, PlacesFill
  <2>2. \A p \in 0 .. Size - 1 : dest[p] \in Item
    BY <1>2, <1>5, <2>1
  <2> QED BY <1>3, <2>2
<1>7. dest = SortedBy(source, Bytes)
  BY <1>2, <1>4, <1>5, <1>6, SortIsUnique
<1> DEFINE x == Lows(offset)
           y == [i \in 0 .. Size - 1 |-> ByteOf(input[i].key, offset)]
           z == Lows(offset + 1)
<1>8. /\ x \in [0 .. Size - 1 -> Int] /\ z \in [0 .. Size - 1 -> Int]
  BY <1>4, <1>5
<1>9. ASSUME NEW i \in 0 .. Size - 1
      PROVE  /\ Bytes[PlaceOf(x, i)] = y[i] /\ y[i] \in 0 .. Base - 1
             /\ x[i] = input[i].key % Weight(offset)
             /\ z[i] = input[i].key % Weight(offset + 1)
             /\ input[i].key \in Nat
  <2>1. PlaceOf(x, i) \in 0 .. Size - 1
    BY <1>2, <1>8, PlaceInside
  <2>2. Bytes[PlaceOf(x, i)] = y[i]
    BY <1>4, <1>5, <2>1
  <2>3. input[i] \in Item /\ DOMAIN input = 0 .. Size - 1
    BY <1>5
  <2>4. input[i].key \in Nat
    BY <2>3, ItemKeys
  <2>5. y[i] \in 0 .. Base - 1
    BY <1>4, <2>4, LowBytes
  <2> QED BY <2>2, <2>3, <2>4, <2>5 DEF Lows
<1>10. y \in [0 .. Size - 1 -> Int]
  <2>1. \A i \in 0 .. Size - 1 : y[i] \in Int
    BY <1>9, BaseAssumption
  <2>2. y = [i \in 0 .. Size - 1 |-> y[i]]
    OBVIOUS
  <2> HIDE DEF y
  <2> QED BY <2>1, <2>2
<1>11. \A i, j \in 0 .. Size - 1 :
         /\ z[i] < z[j] <=> y[i] < y[j] \/ (y[i] = y[j] /\ x[i] < x[j])
         /\ z[i] = z[j] <=> y[i] = y[j] /\ x[i] = x[j]
  <2> TAKE i, j \in 0 .. Size - 1
  <2>1. /\ y[i] < y[j] => z[i] < z[j]
        /\ y[i] = y[j] => (x[i] < x[j] => z[i] < z[j]) /\ (x[i] = x[j] => z[i] = z[j])
        /\ y[j] < y[i] => z[j] < z[i]
        /\ y[j] = y[i] => (x[j] < x[i] => z[j] < z[i])
    BY <1>4, <1>9, BytesCompare
  <2>2. /\ x[i] \in Int /\ x[j] \in Int /\ y[i] \in Int /\ y[j] \in Int
        /\ z[i] \in Int /\ z[j] \in Int
    BY <1>8, <1>10
  <2> HIDE DEF x, y, z
  <2> QED BY <2>1, <2>2
<1> HIDE DEF x, y, z
<1>12. \A i \in 0 .. Size - 1 : PlaceOf(Bytes, PlaceOf(x, i)) = PlaceOf(z, i)
  <2>1. Composed(Size, x, y, z, Bytes)
    BY <1>2, <1>4, <1>8, <1>9, <1>10, <1>11 DEF Composed
  <2> QED BY <2>1, PlacesCompose
<1>13. SortedBy(SortedBy(input, x), Bytes) = SortedBy(input, z)
  <2>1. /\ Size \in Nat /\ input \in [0 .. Size - 1 -> Item]
        /\ Bytes \in [0 .. Size - 1 -> Int]
    BY <1>2, <1>4, <1>5
  <2> QED BY <1>8, <1>12, <2>1, PassExtends, ZenonT(60)
<1>14. source = SortedBy(input, x)
  BY <1>1 DEF BuffersOK, x
<1> QED BY <1>1, <1>4, <1>7, <1>13, <1>14 DEF Pass, Bytes, z

\* The next pass starts on what this one has written.
LEMMA NextPassKeeps ==
  ASSUME SortInv, NextPass
  PROVE  SortInv'
<1>1. /\ source' = SortedBy(input, Lows(offset + 1)) /\ offset \in 0 .. 3
  BY PassDone
<1>2. /\ offset' = offset + 1 /\ loop' = "count" /\ at' = 0 /\ count' = Zeroes
      /\ dest' = source /\ input' = input /\ InputOK /\ BuffersOK
  BY DEF NextPass, SortInv
<1>3. Size' = Size /\ Size \in Nat /\ InputOK'
  BY <1>2 DEF InputOK, Size
<1>4. /\ source \in [0 .. Size - 1 -> Item] /\ input \in [0 .. Size - 1 -> Item]
      /\ Lows(offset + 1) \in [0 .. Size - 1 -> Int]
  BY <1>1, <1>2, Types
<1>5. count' = [b \in 0 .. Base - 1 |-> 0]
  BY <1>2 DEF Zeroes
<1>6. BuffersOK'
  <2>1. Lows(offset)' = Lows(offset + 1)
    BY <1>2 DEF Lows
  <2>2. dest' = [i \in 0 .. Size - 1 |-> dest'[i]]
    BY <1>2, <1>4
  <2>3. count' = [b \in 0 .. Base - 1 |-> count'[b]]
    BY <1>5
  <2>4. offset' \in 0 .. 4
    BY <1>1, <1>2
  <2> QED BY <1>1, <1>2, <1>3, <2>1, <2>2, <2>3, <2>4 DEF BuffersOK
<1>7. ASSUME NEW b \in 0 .. Base - 1
      PROVE  count'[b] = Cardinality(Having(Bytes', b, 0))
  <2>1. DOMAIN source' = 0 .. Size - 1
    BY <1>1, <1>4 DEF SortedBy
  <2>2. DOMAIN Bytes' = 0 .. Size - 1
    BY <2>1 DEF Bytes, BytesOf
  <2>3. Having(Bytes', b, 0) = {}
    BY <1>3, <2>2 DEF Having
  <2> QED BY <1>5, <2>3, FS_EmptySet
<1>8. LoopOK'
  BY <1>2, <1>3, <1>7 DEF LoopOK
<1> QED BY <1>3, <1>6, <1>8 DEF SortInv

\* The inductive invariant of RadixSort.
LEMMA SortNextKeeps ==
  ASSUME SortInv, [SortNext]_sortVars
  PROVE  SortInv'
<1>1. CASE UNCHANGED sortVars
  <2>1. UNCHANGED <<input, source, dest, offset, loop, at, count, sum>>
    BY <1>1 DEF sortVars
  <2>2. Size' = Size /\ Bytes' = Bytes
    BY <2>1 DEF Size, Bytes
  <2>3. InputOK'
    BY <2>1, <2>2 DEF SortInv, InputOK
  <2>4. BuffersOK'
    BY <2>1, <2>2 DEF SortInv, BuffersOK, Lows
  <2>5. LoopOK'
    BY <2>1, <2>2 DEF SortInv, LoopOK
  <2> QED BY <2>3, <2>4, <2>5 DEF SortInv
<1> QED BY <1>1, CountNextKeeps, CountDoneKeeps, SumNextKeeps, SumDoneKeeps, FillNextKeeps,
           NextPassKeeps DEF SortNext

\* Before the first pass the array is sorted by no byte.
LEMMA SortInitHolds ==
  ASSUME SortInit
  PROVE  SortInv
<1>1. PICK n \in Lengths : \E keys \in [0 .. n - 1 -> Key] :
              input = [i \in 0 .. n - 1 |-> [key |-> keys[i], value |-> i]]
  BY DEF SortInit
<1>2. PICK keys \in [0 .. n - 1 -> Key] :
              input = [i \in 0 .. n - 1 |-> [key |-> keys[i], value |-> i]]
  BY <1>1
<1>3. /\ source = input /\ dest = [i \in DOMAIN input |-> [key |-> 0, value |-> 0]]
      /\ offset = 0 /\ loop = "count" /\ at = 0 /\ count = [b \in 0 .. Base - 1 |-> 0]
  BY DEF SortInit, Zeroes
<1>4. n \in Nat /\ DOMAIN input = 0 .. n - 1
  BY <1>2, SortAssumption, KeyAssumption
<1>5. Size = n
  BY <1>4, FS_Interval DEF Size
<1>6. InputOK
  BY <1>2, <1>4, <1>5 DEF InputOK, Item
<1>7. Lows(0) \in [0 .. Size - 1 -> Int] /\ \A i \in 0 .. Size - 1 : Lows(0)[i] = 0
  <2>1. \A i \in 0 .. Size - 1 : input[i].key \in 0 .. UINT32_MAX
    BY <1>6, ItemKeys DEF InputOK
  <2>2. \A i \in 0 .. Size - 1 : input[i].key % Weight(0) = 0
    BY <2>1, WholeKey
  <2> QED BY <1>4, <1>5, <2>2 DEF Lows
<1>8. SortedBy(input, Lows(0)) = input
  <2>1. \A i, j \in 0 .. Size - 1 : i < j => Lows(0)[i] <= Lows(0)[j]
    BY <1>7
  <2>2. Size \in Nat /\ input \in [0 .. Size - 1 -> Item]
    BY <1>6 DEF InputOK
  <2> QED BY <1>7, <2>1, <2>2, SortedAlready
<1>9. BuffersOK
  <2>1. source = SortedBy(input, Lows(offset))
    BY <1>3, <1>8
  <2>2. dest = [i \in 0 .. Size - 1 |-> dest[i]] /\ count = [b \in 0 .. Base - 1 |-> count[b]]
    BY <1>3, <1>4, <1>5
  <2> QED BY <1>3, <2>1, <2>2 DEF BuffersOK
<1>10. LoopOK
  <2>1. \A b : Having(Bytes, b, 0) = {}
    <3>1. DOMAIN Bytes = 0 .. n - 1
      BY <1>3, <1>4 DEF Bytes, BytesOf
    <3> QED BY <1>4, <3>1 DEF Having
  <2>2. \A b \in 0 .. Base - 1 : count[b] = Cardinality(Having(Bytes, b, 0))
    BY <1>3, <2>1, FS_EmptySet
  <2> QED BY <1>3, <1>4, <1>5, <2>2 DEF LoopOK
<1> QED BY <1>6, <1>9, <1>10 DEF SortInv

\* What is sorted by the low bytes is what SortedSoFar says.
LEMMA InvSorted ==
  ASSUME SortInv
  PROVE  SortedSoFar
<1>1. /\ Size \in Nat /\ offset \in 0 .. 4
      /\ input \in [0 .. Size - 1 -> Item] /\ source \in [0 .. Size - 1 -> Item]
      /\ Lows(offset) \in [0 .. Size - 1 -> Int]
      /\ \A i \in 0 .. Size - 1 : source[PlaceOf(Lows(offset), i)] = input[i]
  BY Types DEF SortInv
<1>2. \A i \in 0 .. Size - 1 : input[i].value = i
  BY DEF SortInv, InputOK
<1> DEFINE x == Lows(offset)
<1>3. \A i \in 0 .. Size - 1 : x[i] = input[i].key % Weight(offset)
  BY <1>1 DEF Lows
<1> HIDE DEF x
<1>4. x \in [0 .. Size - 1 -> Int] /\ \A i \in 0 .. Size - 1 : source[PlaceOf(x, i)] = input[i]
  BY <1>1 DEF x
<1>5. \A i \in 0 .. Size - 1 : PlaceOf(x, i) \in 0 .. Size - 1
  BY <1>1, <1>4, PlaceInside
<1>6. \A p \in 0 .. Size - 1 : \E i \in 0 .. Size - 1 : PlaceOf(x, i) = p
  BY <1>1, <1>4, PlacesFill
<1>7. {source[i] : i \in DOMAIN source} = Elements
  <2>1. DOMAIN source = 0 .. Size - 1 /\ DOMAIN input = 0 .. Size - 1
    BY <1>1
  <2>2. ASSUME NEW p \in 0 .. Size - 1 PROVE \E i \in 0 .. Size - 1 : source[p] = input[i]
    <3>1. PICK i \in 0 .. Size - 1 : PlaceOf(x, i) = p
      BY <1>6
    <3> QED BY <1>4, <3>1
  <2>3. ASSUME NEW i \in 0 .. Size - 1 PROVE \E p \in 0 .. Size - 1 : source[p] = input[i]
    BY <1>4, <1>5
  <2>4. \A e : e \in {source[i] : i \in DOMAIN source} <=>
                \E i \in 0 .. Size - 1 : e = source[i]
    BY <2>1
  <2>5. \A e : e \in Elements <=> \E i \in 0 .. Size - 1 : e = input[i]
    BY <2>1 DEF Elements
  <2>6. \A e : e \in {source[i] : i \in DOMAIN source} <=> e \in Elements
    <3> TAKE e
    <3>1. e \in {source[i] : i \in DOMAIN source} => e \in Elements
      BY <2>2, <2>4, <2>5
    <3>2. e \in Elements => e \in {source[i] : i \in DOMAIN source}
      BY <2>3, <2>4, <2>5
    <3> QED BY <3>1, <3>2
  <2> QED BY <2>6
<1>8. ASSUME NEW p \in 0 .. Size - 1, NEW q \in 0 .. Size - 1, p < q
      PROVE  \/ source[p].key % Weight(offset) < source[q].key % Weight(offset)
             \/ /\ source[p].key % Weight(offset) = source[q].key % Weight(offset)
                /\ source[p].value < source[q].value
  <2>1. PICK i \in 0 .. Size - 1 : PlaceOf(x, i) = p
    BY <1>6
  <2>2. PICK j \in 0 .. Size - 1 : PlaceOf(x, j) = q
    BY <1>6
  <2>3. Goes(x, i, j)
    BY <1>1, <1>4, <1>8, <2>1, <2>2, PlacesDiffer
  <2>4. /\ source[p] = input[i] /\ source[q] = input[j]
        /\ x[i] = input[i].key % Weight(offset) /\ x[j] = input[j].key % Weight(offset)
        /\ input[i].value = i /\ input[j].value = j
    BY <1>2, <1>3, <1>4, <2>1, <2>2
  <2> QED BY <2>3, <2>4 DEF Goes
<1>9. DOMAIN source = 0 .. Size - 1
  BY <1>1
<1> QED BY <1>7, <1>8, <1>9 DEF SortedSoFar

\* Between the passes the array holds its elements, in the order of the bytes seen so far
\* and stably.
THEOREM PassesSort ==
  SortSpec => [](SortInv /\ SortedSoFar)
<1>1. SortInit => SortInv
  BY SortInitHolds
<1>2. SortInv /\ [SortNext]_sortVars => SortInv'
  BY SortNextKeeps
<1>3. SortInv => SortedSoFar
  BY InvSorted
<1> QED BY <1>1, <1>2, <1>3, PTL DEF SortSpec

\* The loops of sort() compute the formula of RadixPass, and the four calls of it the one
\* RadixMap takes RadixMap_sort to be.
THEOREM PassesCompute ==
  SortSpec => PassesAsStated
<1>1. ASSUME SortInv, [SortNext]_sortVars
      PROVE  /\ [offset' # offset => source' = Pass(source, offset)]_sortVars
             /\ [offset' = 4 => source' = RadixSorted(input)]_sortVars
  <2> SUFFICES ASSUME SortNext, ~UNCHANGED sortVars
               PROVE  /\ offset' # offset => source' = Pass(source, offset)
                      /\ offset' = 4 => source' = RadixSorted(input)
    BY <1>1
  <2>1. CASE NextPass
    <3>1. /\ source' = Pass(source, offset) /\ source' = SortedBy(input, Lows(offset + 1))
          /\ offset \in 0 .. 3 /\ offset' = offset + 1
      BY <1>1, <2>1, PassDone DEF NextPass
    <3>2. ASSUME offset' = 4 PROVE source' = RadixSorted(input)
      <4>1. Size \in Nat /\ input \in [0 .. Size - 1 -> Item]
        BY <1>1 DEF SortInv, InputOK
      <4>2. \A i \in DOMAIN input : input[i].key % Weight(4) = input[i].key
        BY <4>1, ItemKeys, WholeKey
      <4>3. Lows(4) = [i \in DOMAIN input |-> input[i].key]
        BY <4>2 DEF Lows
      <4>4. offset + 1 = 4
        BY <3>1, <3>2
      <4> QED BY <3>1, <4>3, <4>4 DEF RadixSorted
    <3> QED BY <3>1, <3>2
  <2>2. CASE ~NextPass
    <3>1. offset' = offset /\ offset # 4
      <4>1. UNCHANGED offset
        BY <2>2 DEF SortNext, CountNext, CountDone, SumNext, SumDone, FillNext
      <4>2. offset = 4 => loop = "count"
        BY <1>1 DEF SortInv, BuffersOK
      <4> QED BY <2>2, <4>1, <4>2 DEF SortNext, CountNext, CountDone, SumNext, SumDone, FillNext
    <3> QED BY <3>1
  <2> QED BY <2>1, <2>2
<1>2. SortSpec => []SortInv
  BY PassesSort, PTL
<1> QED BY <1>1, <1>2, PTL DEF SortSpec, PassesAsStated

-----------------------------------------------------------------------------
(* RadixMap.                                                               *)

\* No map has more slots than the search, which counts them in an int, can reach.
SizesFit == Sizes \subseteq 0 .. INT_MAX + 1

\* No client uses the key that RadixMap_delete marks an element with; the null pointer
\* is no element.
KeysSpare == UINT32_MAX \notin Key /\ NULL \notin Element

\* There is no map and nothing of one, or a map of a size that was asked for.
MapOK ==
  /\ max <= INT_MAX + 1
  /\ ~map => max = 0 /\ end = 0 /\ held = NULL /\ pc = "idle"

\* Whatever the search has left behind is too small or too large.
SearchOK ==
  /\ pc = "idle" => goal = 0 /\ low = 0 /\ high = -1
  /\ pc = "find" =>
       /\ goal \in Key
       /\ \A i \in 0 .. low - 1 : contents[i].key < goal
       /\ \A i \in high + 1 .. end - 1 : contents[i].key > goal

MapInv == SortedAlways /\ MapOK /\ SearchOK

\* The elements are the client's.
KeysHeld == \A i \in 0 .. end - 1 : contents[i].key \in Key

-----------------------------------------------------------------------------
(* Sorting an array of elements.                                           *)

Ordered(a, n) == \A i, j \in 0 .. n - 1 : i < j => a[i].key <= a[j].key

\* What it is sorted by.
KeysOf(a) == [i \in DOMAIN a |-> a[i].key]

\* The keys are numbers to sort by.
LEMMA KeysAreMeasure ==
  ASSUME NEW n \in Nat, NEW a \in [0 .. n - 1 -> Element]
  PROVE  /\ DOMAIN a = 0 .. n - 1 /\ KeysOf(a) \in [0 .. n - 1 -> Int]
         /\ \A i \in 0 .. n - 1 : KeysOf(a)[i] = a[i].key /\ a[i].key \in 0 .. UINT32_MAX
         /\ RadixSorted(a) = SortedBy(a, KeysOf(a))
<1>1. \A i \in 0 .. n - 1 : a[i].key \in 0 .. UINT32_MAX
  BY DEF Element
<1>2. RadixSorted(a) = SortedBy(a, KeysOf(a))
  BY DEF RadixSorted, KeysOf
<1> QED BY <1>1, <1>2, Weights DEF KeysOf

\* The sorted array is in order and has elements of the other.
LEMMA SortOrders ==
  ASSUME NEW n \in Nat, NEW a \in [0 .. n - 1 -> Element]
  PROVE  /\ RadixSorted(a) \in [0 .. n - 1 -> Element] /\ Ordered(RadixSorted(a), n)
         /\ \A p \in 0 .. n - 1 : \E i \in 0 .. n - 1 :
              RadixSorted(a)[p] = a[i] /\ PlaceOf(KeysOf(a), i) = p
<1> DEFINE m == KeysOf(a)
           s == RadixSorted(a)
<1>1. /\ DOMAIN a = 0 .. n - 1 /\ m \in [0 .. n - 1 -> Int] /\ s = SortedBy(a, m)
      /\ \A i \in 0 .. n - 1 : m[i] = a[i].key
  BY KeysAreMeasure
<1> HIDE DEF m, s
<1>2. \A p \in 0 .. n - 1 : \E i \in 0 .. n - 1 : s[p] = a[i] /\ PlaceOf(m, i) = p
  <2> TAKE p \in 0 .. n - 1
  <2>1. PICK i \in 0 .. n - 1 : PlaceOf(m, i) = p
    BY <1>1, PlacesFill
  <2> QED BY <1>1, <2>1, SortMoves
<1>3. s \in [0 .. n - 1 -> Element]
  <2>1. s = [p \in 0 .. n - 1 |-> s[p]]
    BY <1>1 DEF SortedBy
  <2> QED BY <1>2, <2>1
<1>4. Ordered(s, n)
  <2> SUFFICES ASSUME NEW p \in 0 .. n - 1, NEW q \in 0 .. n - 1, p < q
               PROVE  s[p].key <= s[q].key
    BY DEF Ordered
  <2>1. PICK i, j \in 0 .. n - 1 : s[p] = a[i] /\ s[q] = a[j] /\ Goes(m, i, j)
    <3>1. PICK i \in 0 .. n - 1 : s[p] = a[i] /\ PlaceOf(m, i) = p
      BY <1>2
    <3>2. PICK j \in 0 .. n - 1 : s[q] = a[j] /\ PlaceOf(m, j) = q
      BY <1>2
    <3>3. Goes(m, i, j)
      BY <1>1, <3>1, <3>2, PlacesDiffer
    <3> QED BY <3>1, <3>2, <3>3
  <2>2. m[i] = s[p].key /\ m[j] = s[q].key /\ m[i] \in Int /\ m[j] \in Int
    BY <1>1, <2>1
  <2> QED BY <2>1, <2>2 DEF Goes
<1> QED BY <1>2, <1>3, <1>4 DEF m, s

\* An array that is in order stays as it is.
LEMMA SortedStays ==
  ASSUME NEW n \in Nat, NEW a \in [0 .. n - 1 -> Element], Ordered(a, n)
  PROVE  RadixSorted(a) = a
<1> DEFINE m == KeysOf(a)
<1>1. /\ DOMAIN a = 0 .. n - 1 /\ m \in [0 .. n - 1 -> Int] /\ RadixSorted(a) = SortedBy(a, m)
      /\ \A i \in 0 .. n - 1 : m[i] = a[i].key
  BY KeysAreMeasure
<1> HIDE DEF m
<1>2. \A i, j \in 0 .. n - 1 : i < j => m[i] <= m[j]
  BY <1>1 DEF Ordered
<1>3. SortedBy(a, m) = a
  BY <1>1, <1>2, SortedAlready
<1> QED BY <1>1, <1>3

-----------------------------------------------------------------------------
(* Every action keeps the invariant.                                       *)

\* The keys of clients are numbers.
LEMMA KeysAreNumbers ==
  ASSUME NEW k \in Key
  PROVE  k \in 0 .. UINT32_MAX /\ k \in Int
<1>1. k \in 0 .. UINT32_MAX
  BY ConstantsAssumption, KeyAssumption
<1>2. \A u \in Nat : k \in 0 .. u => k \in Int
  OBVIOUS
<1>3. UINT32_MAX \in Nat
  BY Weights
<1> HIDE DEF UINT32_MAX
<1> QED BY <1>1, <1>2, <1>3

\* What the invariant says of a map that is not searched.
LEMMA IdleInv ==
  ASSUME MapInv, map, pc = "idle"
  PROVE  /\ end \in Nat /\ max \in Nat /\ contents \in [0 .. end - 1 -> Element]
         /\ Ordered(contents, end) /\ low = 0 /\ high = -1 /\ goal = 0
BY DEF MapInv, SortedAlways, TypeOK, Ordered, SearchOK

\* And what is to be shown of it after a step.
LEMMA ToIdle ==
  ASSUME MapInv, map, pc = "idle", UNCHANGED <<map, temp, max, search>>, end' \in Nat,
         end' = 0 \/ end' < max, contents' \in [0 .. end' - 1 -> Element],
         Ordered(contents', end'), held' \in {NULL} \cup 0 .. end' - 1
  PROVE  MapInv'
<1>1. TypeOK'
  <2>1. map' \in BOOLEAN /\ temp' \in BOOLEAN
    BY Zenon DEF MapInv, SortedAlways, TypeOK
  <2>2. /\ max' \in Nat /\ pc' \in {"idle", "find"} /\ goal' \in Key \cup {0}
        /\ low' = 0 /\ high' = -1
    BY IdleInv DEF MapInv, SortedAlways, TypeOK, search
  <2>3. \A e \in Nat : 0 \in 0 .. e /\ -1 \in -1 .. e - 1
    OBVIOUS
  <2>4. low' \in 0 .. end' /\ high' \in -1 .. end' - 1
    BY <2>2, <2>3
  <2> QED BY <2>1, <2>2, <2>4 DEF TypeOK
<1>2. SortedAlways'
  BY <1>1 DEF SortedAlways, Ordered
<1>3. MapOK' /\ SearchOK'
  BY DEF MapInv, MapOK, SearchOK, search
<1> QED BY <1>2, <1>3 DEF MapInv

\* RadixMap_create makes an empty map.
LEMMA CreateKeeps ==
  ASSUME SizesFit, MapInv, NEW n \in Sizes, RadixMap_create(n)
  PROVE  MapInv'
<1>1. ~map /\ UNCHANGED <<end, contents, held, search>>
  BY DEF RadixMap_create
<1>2. end = 0 /\ held = NULL /\ pc = "idle" /\ max = 0 /\ INT_MAX \in Nat
  BY <1>1, ConstantsAssumption, KeyAssumption DEF MapInv, MapOK
<1>3. n \in Nat /\ n <= INT_MAX + 1
  BY <1>2 DEF SizesFit
<1>4. \/ map' = TRUE /\ max' = n
      \/ UNCHANGED <<map, max>>
  BY DEF RadixMap_create
<1>5. map' \in BOOLEAN
  BY <1>4, Zenon DEF MapInv, SortedAlways, TypeOK
<1>6. temp' \in BOOLEAN
  <2>1. temp' \in {TRUE} \cup (IF "temp" \in MayFail THEN {FALSE} ELSE {}) \/ temp' = temp
    BY DEF RadixMap_create
  <2>2. temp' = TRUE \/ temp' = FALSE \/ temp' = temp
    BY <2>1
  <2> QED BY <2>2, Zenon DEF MapInv, SortedAlways, TypeOK
<1>7. TypeOK'
  BY <1>1, <1>2, <1>3, <1>4, <1>5, <1>6 DEF MapInv, SortedAlways, TypeOK, search
<1>8. SortedAlways'
  BY <1>1, <1>7 DEF MapInv, SortedAlways
<1>9. MapOK' /\ SearchOK'
  BY <1>1, <1>2, <1>3, <1>4 DEF MapInv, MapOK, SearchOK, search
<1> QED BY <1>8, <1>9 DEF MapInv

\* RadixMap_destroy leaves nothing.
LEMMA DestroyKeeps ==
  ASSUME MapInv, RadixMap_destroy
  PROVE  MapInv'
<1>1. /\ pc = "idle" /\ map' = FALSE /\ temp' = FALSE /\ max' = 0 /\ end' = 0
      /\ contents' = Empty /\ held' = NULL /\ UNCHANGED search
  BY DEF RadixMap_destroy, Idle
<1>2. contents' \in [0 .. end' - 1 -> Element] /\ DOMAIN contents' = {}
  <2>1. 0 .. 0 - 1 = {}
    OBVIOUS
  <2> QED BY <1>1, <2>1 DEF Empty
<1>3. TypeOK'
  <2>1. map' \in BOOLEAN /\ temp' \in BOOLEAN
    BY <1>1, Zenon
  <2>2. pc' \in {"idle", "find"} /\ goal' = 0 /\ low' = 0 /\ high' = -1
    BY <1>1 DEF MapInv, SearchOK, search
  <2>3. low' \in 0 .. end' /\ high' \in -1 .. end' - 1 /\ max' \in Nat /\ end' \in Nat
    BY <1>1, <2>2
  <2>4. goal' \in Key \cup {0} /\ held' \in {NULL} \cup 0 .. end' - 1
    BY <1>1, <2>2
  <2> QED BY <1>1, <1>2, <2>1, <2>2, <2>3, <2>4 DEF TypeOK
<1>4. SortedAlways'
  BY <1>2, <1>3 DEF SortedAlways
<1>5. MapOK' /\ SearchOK'
  BY <1>1, ConstantsAssumption, KeyAssumption DEF MapInv, MapOK, SearchOK, search
<1> QED BY <1>4, <1>5 DEF MapInv

\* Sorting a map changes nothing: it is sorted.
LEMMA SortKeeps ==
  ASSUME MapInv, RadixMap_sort
  PROVE  MapInv' /\ contents' = contents
<1>1. map /\ pc = "idle" /\ contents' = RadixSorted(contents)
      /\ UNCHANGED <<map, temp, max, end, held, search>>
  BY DEF RadixMap_sort, Idle
<1>2. contents' = contents
  BY <1>1, IdleInv, SortedStays
<1>3. end' = 0 \/ end' < max
  BY <1>1 DEF MapInv, SortedAlways, TypeOK
<1>4. held' \in {NULL} \cup 0 .. end' - 1
  BY <1>1 DEF MapInv, SortedAlways, TypeOK
<1> QED BY <1>1, <1>2, <1>3, <1>4, IdleInv, ToIdle

\* The array with a new element behind the others.
Grown(key, value) ==
  [i \in 0 .. end |-> IF i = end THEN [key |-> key, value |-> value] ELSE contents[i]]

\* It is an array of elements, and what RadixMap_add sorts.
LEMMA GrownType ==
  ASSUME MapInv, NEW k \in Key, NEW v \in Value
  PROVE  /\ end \in Nat /\ Grown(k, v) \in [0 .. (end + 1) - 1 -> Element]
         /\ Appended(k, v) = RadixSorted(Grown(k, v))
<1>1. end \in Nat /\ contents \in [0 .. end - 1 -> Element]
  BY DEF MapInv, SortedAlways, TypeOK
<1>2. [key |-> k, value |-> v] \in Element
  BY ConstantsAssumption, KeyAssumption DEF Element
<1>3. \A i \in 0 .. end : i # end => i \in 0 .. end - 1
  BY <1>1
<1>4. Grown(k, v) \in [0 .. end -> Element]
  BY <1>1, <1>2, <1>3 DEF Grown
<1>5. (end + 1) - 1 = end
  BY <1>1
<1> QED BY <1>1, <1>4, <1>5 DEF Appended, Grown

\* RadixMap_add sorts what it has appended.
LEMMA AddKeeps ==
  ASSUME MapInv, NEW k \in Key, NEW v \in Value, RadixMap_add(k, v)
  PROVE  MapInv'
<1>1. map /\ pc = "idle" /\ UNCHANGED <<map, temp, max, search>>
  BY DEF RadixMap_add, Idle
<1>2. CASE HasRoom /\ contents' = Appended(k, v) /\ end' = end + 1 /\ held' = NULL
  <2>1. end' \in Nat /\ end' < max
    BY <1>1, <1>2, IdleInv DEF HasRoom
  <2>2. contents' \in [0 .. end' - 1 -> Element] /\ Ordered(contents', end')
    BY <1>2, <2>1, GrownType, SortOrders
  <2> QED BY <1>1, <1>2, <2>1, <2>2, ToIdle
<1>3. CASE UNCHANGED <<contents, end, held>>
  <2>1. (end' = 0 \/ end' < max) /\ held' \in {NULL} \cup 0 .. end' - 1
    BY <1>3 DEF MapInv, SortedAlways, TypeOK
  <2> QED BY <1>1, <1>3, <2>1, IdleInv, ToIdle
<1> QED BY <1>2, <1>3 DEF RadixMap_add

\* The array with the element that is to be deleted marked.
MarkedIn(slot) == [contents EXCEPT ![slot].key = UINT32_MAX]

\* It is an array of elements, and what RadixMap_delete sorts.
LEMMA MarkedType ==
  ASSUME MapInv, NEW h \in 0 .. end - 1
  PROVE  /\ MarkedIn(h) \in [0 .. end - 1 -> Element]
         /\ \A i \in 0 .. end - 1 : i # h => MarkedIn(h)[i] = contents[i]
         /\ MarkedIn(h)[h] = [key |-> UINT32_MAX, value |-> contents[h].value]
         /\ Marked(h) = IF end > 1 THEN RadixSorted(MarkedIn(h)) ELSE MarkedIn(h)
<1>1. end \in Nat /\ contents \in [0 .. end - 1 -> Element]
  BY DEF MapInv, SortedAlways, TypeOK
<1>2. MarkedIn(h)[h] = [key |-> UINT32_MAX, value |-> contents[h].value]
  BY <1>1 DEF MarkedIn, Element
<1>3. MarkedIn(h)[h] \in Element
  BY <1>1, <1>2, Weights DEF Element
<1>4. \A i \in 0 .. end - 1 : i # h => MarkedIn(h)[i] = contents[i]
  BY <1>1 DEF MarkedIn
<1>5. MarkedIn(h) = [i \in 0 .. end - 1 |-> MarkedIn(h)[i]]
  BY <1>1 DEF MarkedIn
<1>6. MarkedIn(h) \in [0 .. end - 1 -> Element]
  BY <1>1, <1>3, <1>4, <1>5
<1> QED BY <1>2, <1>4, <1>6 DEF Marked, MarkedIn

\* RadixMap_delete sorts again what it leaves, unless that is nothing.
LEMMA DeleteKeeps ==
  ASSUME MapInv, RadixMap_delete
  PROVE  MapInv'
<1>1. /\ map /\ pc = "idle" /\ UNCHANGED <<map, temp, max, search>>
      /\ held # NULL /\ end' = end - 1 /\ held' = NULL
      /\ contents' = [i \in 0 .. end - 2 |-> Marked(held)[i]]
  BY DEF RadixMap_delete, Idle
<1>2. /\ end \in Nat /\ held \in 0 .. end - 1 /\ (end = 0 \/ end < max) /\ max \in Nat
  BY <1>1 DEF MapInv, SortedAlways, TypeOK
<1>3. end' \in Nat /\ end' < max
  BY <1>1, <1>2
<1>4. Marked(held) \in [0 .. end - 1 -> Element] /\ (end > 1 => Ordered(Marked(held), end))
  <2>1. /\ MarkedIn(held) \in [0 .. end - 1 -> Element]
        /\ Marked(held) = IF end > 1 THEN RadixSorted(MarkedIn(held)) ELSE MarkedIn(held)
    BY <1>2, MarkedType
  <2>2. /\ RadixSorted(MarkedIn(held)) \in [0 .. end - 1 -> Element]
        /\ Ordered(RadixSorted(MarkedIn(held)), end)
    BY <1>2, <2>1, SortOrders
  <2> QED BY <2>1, <2>2
<1>5. \A i \in 0 .. end' - 1 : i \in 0 .. end - 1 /\ contents'[i] = Marked(held)[i]
  BY <1>1, <1>2
<1>6. contents' \in [0 .. end' - 1 -> Element]
  BY <1>1, <1>2, <1>4, <1>5
<1>7. Ordered(contents', end')
  BY <1>1, <1>2, <1>4, <1>5 DEF Ordered
<1> QED BY <1>1, <1>3, <1>6, <1>7, ToIdle

\* A search starts with all the slots.
LEMMA FindKeeps ==
  ASSUME MapInv, NEW k \in Key, RadixMap_find(k)
  PROVE  MapInv'
<1>1. /\ map /\ pc = "idle" /\ pc' = "find" /\ goal' = k /\ low' = 0
      /\ high' = ToInt(end) - 1 /\ UNCHANGED <<map, temp, max, end, contents, held>>
  BY DEF RadixMap_find, Idle, store
<1>2. /\ end \in Nat /\ max \in Nat /\ (end = 0 \/ end < max) /\ max <= INT_MAX + 1
      /\ INT_MAX \in Nat
  BY ConstantsAssumption, KeyAssumption DEF MapInv, SortedAlways, TypeOK, MapOK
<1>3. ToInt(end) = end
  <2>1. end <= INT_MAX
    BY <1>2
  <2>2. (end + INT_MAX + 1) % (2 * (INT_MAX + 1)) = end + INT_MAX + 1
    <3> DEFINE c == 2 * (INT_MAX + 1)
               r == end + INT_MAX + 1
    <3>1. c \in Int /\ c > 0 /\ r \in Int /\ r >= 0 /\ r < c
      BY <1>2, <2>1
    <3> HIDE DEF c, r
    <3>2. r = c * 0 + r
      BY <3>1
    <3>3. r % c = r
      BY <3>1, <3>2, Remainder
    <3> QED BY <3>3 DEF c, r
  <2> QED BY <1>2, <2>2 DEF ToInt
<1>4. TypeOK'
  BY <1>1, <1>2, <1>3 DEF MapInv, SortedAlways, TypeOK
<1>5. SortedAlways' /\ MapOK'
  BY <1>1, <1>4 DEF MapInv, SortedAlways, MapOK
<1>6. SearchOK'
  BY <1>1, <1>2, <1>3 DEF SearchOK
<1> QED BY <1>5, <1>6 DEF MapInv

\* The slot that is probed is one of those that are left.
LEMMA MiddleInside ==
  ASSUME NEW l \in Int, NEW h \in Int, l <= h
  PROVE  l + (h - l) \div 2 \in l .. h
OBVIOUS

\* A probe leaves a part of the slots behind, or has found the key.
LEMMA ProbeKeeps ==
  ASSUME MapInv, Probe
  PROVE  /\ MapInv'
         /\ UNCHANGED store
         /\ \/ UNCHANGED <<held, ret>>
            \/ /\ held' \in 0 .. end - 1 /\ contents[held'].key = goal /\ goal \in Key
               /\ ret' = <<"find", goal, contents[held']>>
<1> DEFINE mid == Middle
           key == contents[mid].key
<1>1. /\ pc = "find" /\ low <= high /\ map
      /\ \/ goal < key /\ high' = mid - 1 /\ UNCHANGED <<store, held, pc, goal, low, ret>>
         \/ goal > key /\ low' = mid + 1 /\ UNCHANGED <<store, held, pc, goal, high, ret>>
         \/ goal = key /\ Found(mid)
  BY DEF Probe, MapInv, MapOK
<1>2. /\ end \in Nat /\ low \in 0 .. end /\ high \in -1 .. end - 1
      /\ contents \in [0 .. end - 1 -> Element]
      /\ \A i, j \in 0 .. end - 1 : i < j => contents[i].key <= contents[j].key
  BY DEF MapInv, SortedAlways, TypeOK
<1>3. /\ goal \in Key /\ goal \in Int
      /\ \A i \in 0 .. low - 1 : contents[i].key < goal
      /\ \A i \in high + 1 .. end - 1 : contents[i].key > goal
  BY <1>1, KeysAreNumbers DEF MapInv, SearchOK
<1>4. mid \in low .. high /\ mid \in 0 .. end - 1
  BY <1>1, <1>2, MiddleInside DEF Middle
<1>5. \A i \in 0 .. end - 1 : contents[i].key \in Int
  BY <1>2, Weights DEF Element
<1> HIDE DEF mid
<1>6. CASE goal < key /\ high' = mid - 1 /\ UNCHANGED <<store, held, pc, goal, low, ret>>
  <2>1. TypeOK'
    BY <1>2, <1>4, <1>6 DEF MapInv, SortedAlways, TypeOK, store
  <2>2. \A i \in mid .. end - 1 : contents[i].key > goal
    <3> TAKE i \in mid .. end - 1
    <3>1. i \in 0 .. end - 1 /\ (i = mid \/ mid < i)
      BY <1>2, <1>4
    <3>2. contents[mid].key <= contents[i].key
      BY <1>2, <1>4, <1>5, <3>1
    <3> QED BY <1>3, <1>4, <1>5, <1>6, <3>1, <3>2
  <2>3. SearchOK'
    <3>1. (mid - 1) + 1 = mid
      BY <1>4
    <3> QED BY <1>1, <1>3, <1>6, <2>2, <3>1 DEF SearchOK, store
  <2>4. SortedAlways' /\ MapOK'
    BY <1>6, <2>1 DEF MapInv, SortedAlways, MapOK, store
  <2> QED BY <1>6, <2>3, <2>4 DEF MapInv
<1>7. CASE goal > key /\ low' = mid + 1 /\ UNCHANGED <<store, held, pc, goal, high, ret>>
  <2>1. TypeOK'
    BY <1>2, <1>4, <1>7 DEF MapInv, SortedAlways, TypeOK, store
  <2>2. \A i \in 0 .. mid : contents[i].key < goal
    <3> TAKE i \in 0 .. mid
    <3>1. i \in 0 .. end - 1 /\ (i = mid \/ i < mid)
      BY <1>2, <1>4
    <3>2. contents[i].key <= contents[mid].key
      BY <1>2, <1>4, <1>5, <3>1
    <3> QED BY <1>3, <1>4, <1>5, <1>7, <3>1, <3>2
  <2>3. SearchOK'
    <3>1. (mid + 1) - 1 = mid
      BY <1>4
    <3> QED BY <1>1, <1>3, <1>7, <2>2, <3>1 DEF SearchOK, store
  <2>4. SortedAlways' /\ MapOK'
    BY <1>7, <2>1 DEF MapInv, SortedAlways, MapOK, store
  <2> QED BY <1>7, <2>3, <2>4 DEF MapInv
<1>8. CASE goal = key /\ Found(mid)
  <2>1. mid # NULL
    BY <1>2, <1>4, ConstantsAssumption, KeyAssumption
  <2>2. /\ held' = mid /\ pc' = "idle" /\ goal' = 0 /\ low' = 0 /\ high' = -1
        /\ ret' = <<"find", goal, contents[mid]>> /\ UNCHANGED store
    BY <1>8, <2>1 DEF Found
  <2>3. TypeOK'
    BY <1>2, <1>4, <2>2 DEF MapInv, SortedAlways, TypeOK, store
  <2>4. SortedAlways' /\ MapOK' /\ SearchOK'
    BY <1>1, <2>2, <2>3 DEF MapInv, SortedAlways, MapOK, SearchOK, store
  <2> QED BY <1>3, <1>4, <1>8, <2>2, <2>4 DEF MapInv
<1> QED BY <1>1, <1>6, <1>7, <1>8

\* No slot is left: there is no element with this key.
LEMMA NotFoundKeeps ==
  ASSUME MapInv, NotFound
  PROVE  /\ MapInv'
         /\ UNCHANGED store /\ held' = NULL /\ ret' = <<"find", goal, NULL>>
         /\ goal \in Key /\ map /\ \A i \in 0 .. end - 1 : contents[i].key # goal
<1>1. /\ pc = "find" /\ low > high /\ map /\ held' = NULL /\ ret' = <<"find", goal, NULL>>
      /\ pc' = "idle" /\ goal' = 0 /\ low' = 0 /\ high' = -1 /\ UNCHANGED store
  BY DEF NotFound, Found, MapInv, MapOK
<1>2. /\ end \in Nat /\ low \in 0 .. end /\ high \in -1 .. end - 1
      /\ contents \in [0 .. end - 1 -> Element]
  BY DEF MapInv, SortedAlways, TypeOK
<1>3. /\ goal \in Key /\ goal \in Int
      /\ \A i \in 0 .. low - 1 : contents[i].key < goal
      /\ \A i \in high + 1 .. end - 1 : contents[i].key > goal
  BY <1>1, KeysAreNumbers DEF MapInv, SearchOK
<1>4. \A i \in 0 .. end - 1 : contents[i].key # goal
  <2> TAKE i \in 0 .. end - 1
  <2>1. contents[i].key \in Int
    BY <1>2, Weights DEF Element
  <2>2. i \in 0 .. low - 1 \/ i \in high + 1 .. end - 1
    BY <1>1, <1>2
  <2> QED BY <1>3, <2>1, <2>2
<1>5. TypeOK'
  BY <1>1, <1>2 DEF MapInv, SortedAlways, TypeOK, store
<1>6. SortedAlways' /\ MapOK' /\ SearchOK'
  BY <1>1, <1>5 DEF MapInv, SortedAlways, MapOK, SearchOK, store
<1> QED BY <1>1, <1>3, <1>4, <1>6 DEF MapInv

\* The inductive invariant of RadixMap.
LEMMA NextKeeps ==
  ASSUME SizesFit, MapInv, [Next]_vars
  PROVE  MapInv'
<1>1. CASE UNCHANGED vars
  <2>1. UNCHANGED <<map, temp, max, end, contents, held, pc, goal, low, high>>
    BY <1>1 DEF vars, store, search
  <2> QED BY <2>1 DEF MapInv, SortedAlways, TypeOK, MapOK, SearchOK
<1>2. CASE Step
  BY <1>2, ProbeKeeps, NotFoundKeeps DEF Step
<1>3. CASE Calls
  BY <1>3, CreateKeeps, AddKeeps, FindKeeps, DeleteKeeps, SortKeeps, DestroyKeeps DEF Calls
<1> QED BY <1>1, <1>2, <1>3 DEF Next

\* Between any two calls, and while it is searched, the map is sorted, its elements are in
\* its block with a slot to spare, and the search is inside it.
THEOREM AlwaysSorted ==
  SizesFit => (Spec => [](MapInv /\ SortedAlways))
<1> SUFFICES ASSUME SizesFit PROVE Spec => [](MapInv /\ SortedAlways)
  OBVIOUS
<1>1. Init => MapInv
  <2> SUFFICES ASSUME Init PROVE MapInv
    OBVIOUS
  <2>1. contents \in [0 .. end - 1 -> Element] /\ DOMAIN contents = {}
    <3>1. 0 .. 0 - 1 = {}
      OBVIOUS
    <3> QED BY <3>1 DEF Init, Empty
  <2>2. TypeOK
    <3>1. map \in BOOLEAN /\ temp \in BOOLEAN
      BY Zenon DEF Init
    <3>2. /\ low \in 0 .. end /\ high \in -1 .. end - 1 /\ max \in Nat /\ end \in Nat
          /\ end = 0
      BY DEF Init
    <3>3. /\ goal \in Key \cup {0} /\ held \in {NULL} \cup 0 .. end - 1
          /\ pc \in {"idle", "find"}
      BY DEF Init
    <3> QED BY <2>1, <3>1, <3>2, <3>3 DEF TypeOK
  <2>3. SortedAlways
    BY <2>1, <2>2 DEF SortedAlways
  <2>4. MapOK /\ SearchOK
    BY ConstantsAssumption, KeyAssumption DEF Init, MapOK, SearchOK
  <2> QED BY <2>3, <2>4 DEF MapInv
<1>2. MapInv /\ [Next]_vars => MapInv'
  BY NextKeeps
<1>3. MapInv => SortedAlways
  BY DEF MapInv
<1> QED BY <1>1, <1>2, <1>3, PTL DEF Spec

-----------------------------------------------------------------------------
(* Adding an element.                                                      *)

\* A set of natural numbers that is not empty has a least one.
LEMMA LeastNat ==
  ASSUME NEW T \in SUBSET Nat, T # {}
  PROVE  \E m \in T : \A k \in T : m <= k
<1> DEFINE Less == OpToRel(<, Nat)
<1>1. \A x, y \in Nat : x < y => <<x, y>> \in Less
  BY Zenon DEF OpToRel
<1>2. IsWellFoundedOn(Less, Nat)
  BY NatLessThanWellFounded, Zenon
<1> HIDE DEF Less
<1>3. \E x \in T : \A y \in T : ~(<<y, x>> \in Less)
  BY <1>2, WFMin, Zenon
<1>4. PICK m \in T : \A y \in T : ~(<<y, m>> \in Less)
  BY <1>3
<1>5. \A k \in T : k \in Nat /\ m \in Nat /\ ~(k < m)
  BY <1>1, <1>4
<1> QED BY <1>5

\* A number of slots.
LEMMA SlotsFinite ==
  ASSUME NEW n \in Nat
  PROVE  IsFiniteSet(0 .. n - 1) /\ Cardinality(0 .. n - 1) = n
<1>1. 0 \in Int /\ n - 1 \in Int
  OBVIOUS
<1>2. /\ IsFiniteSet(0 .. n - 1)
      /\ Cardinality(0 .. n - 1) = IF 0 > n - 1 THEN 0 ELSE (n - 1) - 0 + 1
  BY <1>1, FS_Interval, Zenon
<1> QED BY <1>2

\* Where the sort takes the elements behind which there is a new one: up to some slot
\* they stay, and the others make room for it.
LEMMA PlacesGrown ==
  ASSUME NEW n \in Nat, NEW m \in [0 .. n -> Int],
         \A i, j \in 0 .. n - 1 : i < j => m[i] <= m[j]
  PROVE  \E c \in 0 .. n :
           /\ PlaceOf(m, n) = c
           /\ \A i \in 0 .. c - 1 : PlaceOf(m, i) = i
           /\ \A i \in c .. n - 1 : PlaceOf(m, i) = i + 1 /\ m[i] > m[n]
<1> DEFINE Above(c) == \A i \in c .. n - 1 : m[i] > m[n]
<1>1. DOMAIN m = 0 .. n /\ m \in [0 .. (n + 1) - 1 -> Int] /\ (n + 1) - 1 = n /\ n + 1 \in Nat
  OBVIOUS
<1>2. \A i \in 0 .. n : m[i] \in Int
  OBVIOUS
<1>3. \E c \in 0 .. n : Above(c) /\ \A d \in 0 .. c - 1 : ~Above(d)
  <2> DEFINE S == {c \in 0 .. n : Above(c)}
  <2>1. Above(n)
    OBVIOUS
  <2> HIDE DEF Above
  <2>2. S \in SUBSET Nat /\ S # {} /\ \A d : d \in S <=> d \in 0 .. n /\ Above(d)
    BY <2>1
  <2> HIDE DEF S
  <2>3. PICK c \in S : \A d \in S : c <= d
    BY <2>2, LeastNat
  <2>4. c \in 0 .. n /\ Above(c)
    BY <2>2
  <2>5. \A d \in 0 .. c - 1 : ~Above(d)
    <3> TAKE d \in 0 .. c - 1
    <3>1. d \in 0 .. n /\ ~(c <= d)
      BY <2>4
    <3> QED BY <2>2, <2>3, <3>1
  <2> QED BY <2>4, <2>5
<1>4. PICK c \in 0 .. n : Above(c) /\ \A d \in 0 .. c - 1 : ~Above(d)
  BY <1>3
<1>5. \A i \in 0 .. c - 1 : m[i] <= m[n]
  <2> SUFFICES ASSUME NEW i \in 0 .. c - 1 PROVE m[i] <= m[n]
    OBVIOUS
  <2>1. PICK j \in i .. n - 1 : ~(m[j] > m[n])
    BY <1>4
  <2>2. i \in 0 .. n - 1 /\ j \in 0 .. n - 1 /\ (i = j \/ i < j)
    BY <2>1
  <2>3. m[i] <= m[j]
    BY <1>2, <2>2
  <2> QED BY <1>2, <2>1, <2>2, <2>3
<1>6. \A i \in c .. n - 1 : m[i] > m[n]
  BY <1>4
<1> HIDE DEF Above
<1>7. \A i \in 0 .. n : PlaceOf(m, i) = Cardinality(Ahead(m, i))
  BY <1>1, PlaceInside
<1>8. PlaceOf(m, n) = c
  <2>1. Ahead(m, n) = 0 .. c - 1
    <3>1. \A j \in 0 .. n : Goes(m, j, n) <=> j \in 0 .. c - 1
      <4> TAKE j \in 0 .. n
      <4>1. j \in 0 .. c - 1 \/ j \in c .. n - 1 \/ j = n
        OBVIOUS
      <4> QED BY <1>2, <1>5, <1>6, <4>1 DEF Goes
    <3> QED BY <1>1, <3>1 DEF Ahead
  <2>2. Cardinality(0 .. c - 1) = c
    BY FS_Interval
  <2> QED BY <1>7, <2>1, <2>2
<1>9. ASSUME NEW i \in 0 .. c - 1
      PROVE  PlaceOf(m, i) = i
  <2>1. Ahead(m, i) = 0 .. i - 1
    <3>1. \A j \in 0 .. n : Goes(m, j, i) <=> j \in 0 .. i - 1
      <4> TAKE j \in 0 .. n
      <4>1. i \in 0 .. n - 1 /\ m[i] \in Int /\ m[j] \in Int /\ m[n] \in Int /\ m[i] <= m[n]
        BY <1>2, <1>5
      <4>2. CASE j = n
        BY <4>1, <4>2 DEF Goes
      <4>3. CASE j \in 0 .. n - 1
        <5>1. (i < j => m[i] <= m[j]) /\ (j < i => m[j] <= m[i])
          BY <4>1, <4>3
        <5> QED BY <4>1, <4>3, <5>1 DEF Goes
      <4> QED BY <4>2, <4>3
    <3> QED BY <1>1, <3>1 DEF Ahead
  <2>2. Cardinality(0 .. i - 1) = i
    BY FS_Interval
  <2> QED BY <1>7, <2>1, <2>2
<1>10. ASSUME NEW i \in c .. n - 1
       PROVE  PlaceOf(m, i) = i + 1
  <2>1. Ahead(m, i) = (0 .. i - 1) \cup {n}
    <3>1. \A j \in 0 .. n : Goes(m, j, i) <=> j \in (0 .. i - 1) \cup {n}
      <4> TAKE j \in 0 .. n
      <4>1. i \in 0 .. n - 1 /\ m[i] \in Int /\ m[j] \in Int /\ m[n] \in Int /\ m[i] > m[n]
        BY <1>2, <1>6
      <4>2. CASE j = n
        BY <4>1, <4>2 DEF Goes
      <4>3. CASE j \in 0 .. n - 1
        <5>1. (i < j => m[i] <= m[j]) /\ (j < i => m[j] <= m[i])
          BY <4>1, <4>3
        <5> QED BY <4>1, <4>3, <5>1 DEF Goes
      <4> QED BY <4>2, <4>3
    <3> QED BY <1>1, <3>1 DEF Ahead
  <2> DEFINE D == 0 .. i - 1
  <2>2. n \notin D
    OBVIOUS
  <2>3. IsFiniteSet(D) /\ Cardinality(D) = i
    <3>1. i \in Nat
      OBVIOUS
    <3> QED BY <3>1, SlotsFinite
  <2> HIDE DEF D
  <2>4. Cardinality(D \cup {n}) = i + 1
    BY <2>2, <2>3, FS_AddElement
  <2>5. Cardinality((0 .. i - 1) \cup {n}) = i + 1
    BY <2>4 DEF D
  <2>6. i \in 0 .. n
    OBVIOUS
  <2> QED BY <1>7, <2>1, <2>5, <2>6
<1> QED BY <1>6, <1>8, <1>9, <1>10

\* Adding an element moves the larger ones up by a slot and leaves the others.
LEMMA AddShifts ==
  ASSUME MapInv, NEW k \in Key, NEW v \in Value
  PROVE  \E new \in 0 .. end :
           /\ \A i \in 0 .. new - 1 : Appended(k, v)[i] = contents[i]
           /\ Appended(k, v)[new] = [key |-> k, value |-> v]
           /\ \A i \in new .. end - 1 :
                Appended(k, v)[i + 1] = contents[i] /\ contents[i].key > k
<1> DEFINE g == Grown(k, v)
           m == KeysOf(g)
           n == end + 1
<1>1. /\ end \in Nat /\ g \in [0 .. n - 1 -> Element] /\ Appended(k, v) = RadixSorted(g)
  BY GrownType
<1>2. /\ \A i \in 0 .. end - 1 : g[i] = contents[i]
      /\ g[end] = [key |-> k, value |-> v]
  BY <1>1 DEF Grown
<1>3. n \in Nat /\ n - 1 = end
  BY <1>1
<1> HIDE DEF g, m, n
<1>4. /\ DOMAIN g = 0 .. end /\ m \in [0 .. n - 1 -> Int] /\ m \in [0 .. end -> Int]
      /\ \A i \in 0 .. end : m[i] = g[i].key
      /\ Appended(k, v) = SortedBy(g, m)
  BY <1>1, <1>3, KeysAreMeasure DEF m
<1>5. \A i, j \in 0 .. end - 1 : i < j => m[i] <= m[j]
  <2>1. \A i, j \in 0 .. end - 1 : i < j => contents[i].key <= contents[j].key
    BY DEF MapInv, SortedAlways, TypeOK
  <2>2. \A i \in 0 .. end - 1 : m[i] = contents[i].key
    BY <1>1, <1>2, <1>4
  <2> QED BY <2>1, <2>2
<1>6. PICK new \in 0 .. end :
        /\ PlaceOf(m, end) = new
        /\ \A i \in 0 .. new - 1 : PlaceOf(m, i) = i
        /\ \A i \in new .. end - 1 : PlaceOf(m, i) = i + 1 /\ m[i] > m[end]
  BY <1>1, <1>4, <1>5, PlacesGrown
<1>7. \A i \in 0 .. end : SortedBy(g, m)[PlaceOf(m, i)] = g[i]
  BY <1>3, <1>4, SortMoves
<1>8. m[end] = k
  BY <1>1, <1>2, <1>4
<1>9. \A i \in 0 .. new - 1 : Appended(k, v)[i] = contents[i]
  BY <1>1, <1>2, <1>4, <1>6, <1>7
<1>10. Appended(k, v)[new] = [key |-> k, value |-> v]
  BY <1>1, <1>2, <1>4, <1>6, <1>7
<1>11. \A i \in new .. end - 1 : Appended(k, v)[i + 1] = contents[i] /\ contents[i].key > k
  <2> TAKE i \in new .. end - 1
  <2>1. i \in 0 .. end /\ i \in 0 .. end - 1
    BY <1>1, <1>6
  <2> QED BY <1>2, <1>4, <1>6, <1>7, <1>8, <2>1
<1> QED BY <1>9, <1>10, <1>11

\* The end moves up only when an element is added.
LEMMA OnlyAddGrows ==
  ASSUME MapInv, [Next]_vars, end' = end + 1
  PROVE  \E k \in Key, v \in Value : contents' = Appended(k, v)
<1>1. end \in Nat
  BY DEF MapInv, SortedAlways, TypeOK
<1>2. end' # end /\ end' # 0 /\ end' # end - 1
  BY <1>1
<1>3. ~UNCHANGED vars /\ ~UNCHANGED store
  BY <1>2 DEF vars, store
<1>4. CASE Step
  BY <1>3, <1>4, ProbeKeeps, NotFoundKeeps DEF Step
<1>5. ASSUME NEW n \in Sizes, RadixMap_create(n) PROVE FALSE
  BY <1>2, <1>5 DEF RadixMap_create
<1>6. ASSUME NEW k \in Key, RadixMap_find(k) PROVE FALSE
  BY <1>3, <1>6 DEF RadixMap_find
<1>7. ~RadixMap_delete /\ ~RadixMap_sort /\ ~RadixMap_destroy
  BY <1>2 DEF RadixMap_delete, RadixMap_sort, RadixMap_destroy
<1>8. ASSUME NEW k \in Key, NEW v \in Value, RadixMap_add(k, v) PROVE contents' = Appended(k, v)
  BY <1>2, <1>8 DEF RadixMap_add
<1> QED BY <1>3, <1>4, <1>5, <1>6, <1>7, <1>8 DEF Next, Calls

\* Of elements with equal keys the older comes first: one that is added goes behind them,
\* and nothing else moves.
THEOREM OldElementsStay ==
  SizesFit => (Spec => OlderStayPut)
<1> SUFFICES ASSUME SizesFit PROVE Spec => OlderStayPut
  OBVIOUS
<1>1. ASSUME MapInv, [Next]_vars
      PROVE  [end' = end + 1 =>
               \E new \in DOMAIN contents' :
                 /\ \A i \in 0 .. new - 1 : contents'[i] = contents[i]
                 /\ \A i \in new .. end - 1 :
                      contents'[i + 1] = contents[i] /\ contents[i].key > contents'[new].key]_vars
  <2> SUFFICES ASSUME end' = end + 1
               PROVE  \E new \in DOMAIN contents' :
                 /\ \A i \in 0 .. new - 1 : contents'[i] = contents[i]
                 /\ \A i \in new .. end - 1 :
                      contents'[i + 1] = contents[i] /\ contents[i].key > contents'[new].key
    OBVIOUS
  <2>1. PICK k \in Key, v \in Value : contents' = Appended(k, v)
    BY <1>1, OnlyAddGrows
  <2>2. PICK new \in 0 .. end :
           /\ \A i \in 0 .. new - 1 : Appended(k, v)[i] = contents[i]
           /\ Appended(k, v)[new] = [key |-> k, value |-> v]
           /\ \A i \in new .. end - 1 :
                Appended(k, v)[i + 1] = contents[i] /\ contents[i].key > k
    BY <1>1, AddShifts
  <2>3. DOMAIN contents' = 0 .. end
    <3>1. /\ end \in Nat /\ Grown(k, v) \in [0 .. (end + 1) - 1 -> Element]
          /\ Appended(k, v) = RadixSorted(Grown(k, v))
      BY <1>1, GrownType
    <3>2. end + 1 \in Nat /\ (end + 1) - 1 = end
      BY <3>1
    <3>3. RadixSorted(Grown(k, v)) \in [0 .. (end + 1) - 1 -> Element]
      BY <3>1, <3>2, SortOrders
    <3> QED BY <2>1, <3>1, <3>2, <3>3
  <2>4. contents'[new].key = k
    BY <2>1, <2>2
  <2> QED BY <2>1, <2>2, <2>3, <2>4
<1>2. Spec => []MapInv
  BY AlwaysSorted, PTL
<1> QED BY <1>1, <1>2, PTL DEF Spec, OlderStayPut

-----------------------------------------------------------------------------
(* The map as a bag of pairs.                                              *)

\* How many of the first slots hold this element.
CountOf(a, n, p) == Cardinality({i \in 0 .. n - 1 : a[i] = p})

\* That is a number, positive when some slot does.
LEMMA CountIsNat ==
  ASSUME NEW n \in Nat, NEW a, NEW p
  PROVE  /\ IsFiniteSet({i \in 0 .. n - 1 : a[i] = p}) /\ CountOf(a, n, p) \in Nat
         /\ CountOf(a, n, p) > 0 <=> \E i \in 0 .. n - 1 : a[i] = p
<1> DEFINE S == {i \in 0 .. n - 1 : a[i] = p}
<1>1. IsFiniteSet(0 .. n - 1) /\ S \subseteq 0 .. n - 1
  BY SlotsFinite
<1>2. S = {} <=> ~\E i \in 0 .. n - 1 : a[i] = p
  OBVIOUS
<1> HIDE DEF S
<1>3. IsFiniteSet(S)
  BY <1>1, FS_Subset
<1>4. Cardinality(S) \in Nat /\ (Cardinality(S) = 0 <=> S = {})
  BY <1>3, FS_CardinalityType, FS_EmptySet
<1> QED BY <1>2, <1>3, <1>4 DEF S, CountOf

\* What is counted is there.
LEMMA CountSeen ==
  ASSUME NEW n \in Nat, NEW a, NEW p, CountOf(a, n, p) > 0
  PROVE  \E i \in 0 .. n - 1 : a[i] = p
<1> SUFFICES ASSUME \A i \in 0 .. n - 1 : a[i] # p PROVE FALSE
  OBVIOUS
<1>1. {i \in 0 .. n - 1 : a[i] = p} = {}
  OBVIOUS
<1>2. Cardinality({}) = 0
  BY FS_EmptySet
<1>3. CountOf(a, n, p) = 0
  BY <1>1, <1>2, Zenon DEF CountOf
<1> QED BY <1>3

\* Sorting neither loses nor doubles an element.
LEMMA SortCounts ==
  ASSUME NEW n \in Nat, NEW a \in [0 .. n - 1 -> Element], NEW p
  PROVE  CountOf(RadixSorted(a), n, p) = CountOf(a, n, p)
<1> DEFINE m == KeysOf(a)
           s == RadixSorted(a)
           S == {i \in 0 .. n - 1 : a[i] = p}
           T == {i \in 0 .. n - 1 : s[i] = p}
           f == [i \in S |-> PlaceOf(m, i)]
<1>1. /\ DOMAIN a = 0 .. n - 1 /\ m \in [0 .. n - 1 -> Int] /\ s = SortedBy(a, m)
  BY KeysAreMeasure
<1>2. \A q \in 0 .. n - 1 : \E i \in 0 .. n - 1 : s[q] = a[i] /\ PlaceOf(m, i) = q
  BY SortOrders
<1> HIDE DEF m, s
<1>3. \A i \in 0 .. n - 1 : s[PlaceOf(m, i)] = a[i] /\ PlaceOf(m, i) \in 0 .. n - 1
  BY <1>1, SortMoves, PlaceInside
<1>4. f \in [S -> T]
  BY <1>3
<1>5. \A i, j \in S : f[i] = f[j] => i = j
  BY <1>1, PlacesDiffer
<1>6. \A q \in T : \E i \in S : f[i] = q
  BY <1>2
<1>7. f \in Bijection(S, T)
  <2> HIDE DEF f, S, T
  <2> QED BY <1>4, <1>5, <1>6 DEF Bijection, Injection, Surjection, IsInjective
<1>8. IsFiniteSet(S)
  <2>1. IsFiniteSet(0 .. n - 1) /\ S \subseteq 0 .. n - 1
    BY SlotsFinite
  <2> HIDE DEF S
  <2> QED BY <2>1, FS_Subset
<1>9. Cardinality(S) = Cardinality(T)
  <2> HIDE DEF f, S, T
  <2> QED BY <1>7, <1>8, FS_Bijection DEF ExistsBijection
<1> QED BY <1>9 DEF CountOf, s

\* One element more counts as one more.
LEMMA GrownCounts ==
  ASSUME MapInv, NEW k \in Key, NEW v \in Value, NEW p
  PROVE  CountOf(Grown(k, v), end + 1, p) =
           CountOf(contents, end, p) + IF p = [key |-> k, value |-> v] THEN 1 ELSE 0
<1> DEFINE S == {i \in 0 .. end - 1 : contents[i] = p}
           T == {i \in 0 .. (end + 1) - 1 : Grown(k, v)[i] = p}
<1>1. /\ end \in Nat /\ (end + 1) - 1 = end
      /\ \A i \in 0 .. end - 1 : Grown(k, v)[i] = contents[i]
      /\ Grown(k, v)[end] = [key |-> k, value |-> v]
  BY GrownType DEF Grown
<1>2. IsFiniteSet(S) /\ Cardinality(S) \in Nat
  <2>1. IsFiniteSet(0 .. end - 1) /\ S \subseteq 0 .. end - 1
    BY <1>1, SlotsFinite
  <2> HIDE DEF S
  <2>2. IsFiniteSet(S)
    BY <2>1, FS_Subset
  <2> QED BY <2>2, FS_CardinalityType
<1>3. \A i : i \in 0 .. end <=> i \in 0 .. end - 1 \/ i = end
  BY <1>1
<1>4. T = IF p = [key |-> k, value |-> v] THEN S \cup {end} ELSE S
  BY <1>1, <1>3
<1>5. end \notin S
  BY <1>1
<1> HIDE DEF S, T
<1>6. Cardinality(S \cup {end}) = Cardinality(S) + 1
  BY <1>2, <1>5, FS_AddElement
<1>7. Cardinality(T) = Cardinality(S) + IF p = [key |-> k, value |-> v] THEN 1 ELSE 0
  BY <1>2, <1>4, <1>6
<1> QED BY <1>7 DEF CountOf, S, T

\* The marked element is sorted behind the others and left there: one element less.
LEMMA DeleteCounts ==
  ASSUME MapInv, KeysHeld, UINT32_MAX \notin Key, RadixMap_delete
  PROVE  /\ KeysHeld'
         /\ \A p : p.key \in Key =>
              CountOf(contents, end, p) =
                CountOf(contents', end', p) + IF p = contents[held] THEN 1 ELSE 0
<1> DEFINE d == MarkedIn(held)
           s == Marked(held)
<1>1. /\ held # NULL /\ end' = end - 1 /\ contents' = [i \in 0 .. end - 2 |-> s[i]]
  BY DEF RadixMap_delete
<1>2. end \in Nat /\ held \in 0 .. end - 1 /\ contents \in [0 .. end - 1 -> Element]
  BY <1>1 DEF MapInv, SortedAlways, TypeOK
<1>3. /\ d \in [0 .. end - 1 -> Element]
      /\ \A i \in 0 .. end - 1 : i # held => d[i] = contents[i]
      /\ d[held] = [key |-> UINT32_MAX, value |-> contents[held].value]
      /\ s = IF end > 1 THEN RadixSorted(d) ELSE d
  BY <1>2, MarkedType
<1> HIDE DEF d, s
<1>4. \A i \in 0 .. end - 1 : (d[i].key \in Key \/ d[i].key = UINT32_MAX) /\ d[i].key \in Int
  <2> TAKE i \in 0 .. end - 1
  <2>1. d[i].key \in Key \/ d[i].key = UINT32_MAX
    BY <1>3 DEF KeysHeld
  <2>2. UINT32_MAX \in Int
    BY Weights
  <2> QED BY <2>1, <2>2, KeysAreNumbers
<1>5. \A i \in 0 .. end - 1 : d[i].key = UINT32_MAX => i = held
  BY <1>3 DEF KeysHeld
<1>6. \A i \in 0 .. end - 1 : s[i].key = UINT32_MAX <=> i = end - 1
  <2>1. CASE end > 1
    <3> DEFINE m == KeysOf(d)
    <3>1. /\ Ordered(s, end)
          /\ \A p \in 0 .. end - 1 : \E i \in 0 .. end - 1 : s[p] = d[i] /\ PlaceOf(m, i) = p
      BY <1>2, <1>3, <2>1, SortOrders
    <3>2. DOMAIN d = 0 .. end - 1 /\ m \in [0 .. end - 1 -> Int]
      BY <1>2, <1>3, KeysAreMeasure
    <3>3. s = SortedBy(d, m)
      BY <1>2, <1>3, <2>1, KeysAreMeasure
    <3> HIDE DEF m
    <3>4. /\ PlaceOf(m, held) \in 0 .. end - 1
          /\ SortedBy(d, m)[PlaceOf(m, held)] = d[held]
      <4>1. PlaceOf(m, held) \in 0 .. end - 1
        BY <1>2, <3>2, PlaceInside
      <4>2. SortedBy(d, m)[PlaceOf(m, held)] = d[held]
        BY <1>2, <3>2, SortMoves
      <4> QED BY <4>1, <4>2
    <3> DEFINE q == PlaceOf(m, held)
    <3>5. q \in 0 .. end - 1 /\ s[q].key = UINT32_MAX
      BY <1>2, <1>3, <3>3, <3>4
    <3>6. \A p \in 0 .. end - 1 : s[p].key = UINT32_MAX => p = q
      <4> SUFFICES ASSUME NEW p \in 0 .. end - 1, s[p].key = UINT32_MAX PROVE p = q
        OBVIOUS
      <4>1. PICK i \in 0 .. end - 1 : s[p] = d[i] /\ PlaceOf(m, i) = p
        BY <3>1
      <4>2. i = held
        BY <1>5, <4>1
      <4> QED BY <4>1, <4>2
    <3> HIDE DEF q
    <3>7. s[end - 1].key = UINT32_MAX
      <4>1. end - 1 \in 0 .. end - 1 /\ (q < end - 1 \/ q = end - 1)
        BY <1>2, <2>1, <3>5
      <4>2. PICK i \in 0 .. end - 1 : s[end - 1] = d[i]
        BY <3>1, <4>1
      <4>3. s[end - 1].key \in 0 .. UINT32_MAX
        BY <1>3, <4>2 DEF Element
      <4>4. s[q].key <= s[end - 1].key
        BY <3>1, <3>5, <4>1, <4>3, Weights DEF Ordered
      <4>5. \A u \in Nat : \A x \in 0 .. u : u <= x => x = u
        OBVIOUS
      <4> QED BY <3>5, <4>3, <4>4, <4>5, Weights
    <3>8. end - 1 \in 0 .. end - 1
      BY <1>2
    <3> QED BY <3>5, <3>6, <3>7, <3>8
  <2>2. CASE ~(end > 1)
    <3>1. held = 0 /\ end - 1 = 0 /\ s = d
      BY <1>2, <1>3, <2>2
    <3> QED BY <1>3, <3>1
  <2> QED BY <2>1, <2>2
<1>7. \A i \in 0 .. end - 1 : \E j \in 0 .. end - 1 : s[i] = d[j]
  <2>1. CASE end > 1
    BY <1>2, <1>3, <2>1, SortOrders
  <2>2. CASE ~(end > 1)
    BY <1>3, <2>2
  <2> QED BY <2>1, <2>2
<1>8. \A i \in 0 .. end' - 1 : i \in 0 .. end - 1 /\ i # end - 1 /\ contents'[i] = s[i]
  BY <1>1, <1>2
<1>9. KeysHeld'
  <2> SUFFICES ASSUME NEW i \in 0 .. end' - 1 PROVE contents'[i].key \in Key
    BY DEF KeysHeld
  <2>1. i \in 0 .. end - 1 /\ contents'[i] = s[i] /\ s[i].key # UINT32_MAX
    BY <1>6, <1>8
  <2>2. PICK j \in 0 .. end - 1 : s[i] = d[j]
    BY <1>7, <2>1
  <2> QED BY <1>4, <2>1, <2>2
<1>10. ASSUME NEW p, p.key \in Key
       PROVE  CountOf(contents, end, p) =
                CountOf(contents', end', p) + IF p = contents[held] THEN 1 ELSE 0
  <2>1. p.key # UINT32_MAX
    BY <1>10
  <2>2. CountOf(contents', end', p) = CountOf(s, end, p)
    <3>1. \A i \in 0 .. end - 1 : i # end - 1 => i \in 0 .. end' - 1
      BY <1>1, <1>2
    <3>2. {i \in 0 .. end' - 1 : contents'[i] = p} = {i \in 0 .. end - 1 : s[i] = p}
      BY <1>6, <1>8, <2>1, <3>1
    <3> QED BY <3>2 DEF CountOf
  <2>3. CountOf(s, end, p) = CountOf(d, end, p)
    BY <1>2, <1>3, SortCounts
  <2> DEFINE S == {i \in 0 .. end - 1 : contents[i] = p}
             T == {i \in 0 .. end - 1 : d[i] = p}
  <2>4. T = S \ {held}
    BY <1>2, <1>3, <2>1
  <2>5. IsFiniteSet(S) /\ Cardinality(S) \in Nat
    <3>1. end \in Nat
      BY <1>2
    <3>2. CountOf(contents, end, p) \in Nat
      BY <3>1, CountIsNat
    <3>3. S \subseteq 0 .. end - 1 /\ IsFiniteSet(0 .. end - 1)
      BY <3>1, SlotsFinite
    <3>4. IsFiniteSet(S)
      BY <3>3, FS_Subset
    <3> QED BY <3>2, <3>4 DEF CountOf
  <2>6. held \in S <=> p = contents[held]
    BY <1>2
  <2> HIDE DEF S, T
  <2>7. Cardinality(S \ {held}) = IF held \in S THEN Cardinality(S) - 1 ELSE Cardinality(S)
    BY <2>5, FS_RemoveElement
  <2>8. Cardinality(S) = Cardinality(T) + IF p = contents[held] THEN 1 ELSE 0
    BY <2>4, <2>5, <2>6, <2>7
  <2>9. CountOf(contents, end, p) = Cardinality(S) /\ CountOf(d, end, p) = Cardinality(T)
    BY DEF CountOf, S, T
  <2> QED BY <2>2, <2>3, <2>8, <2>9
<1> QED BY <1>9, <1>10

\* The keys stay the client's: the marked element is the one that leaves.
LEMMA KeysStay ==
  ASSUME MapInv, KeysHeld, UINT32_MAX \notin Key, [Next]_vars
  PROVE  KeysHeld'
<1>1. CASE UNCHANGED <<end, contents>>
  BY <1>1 DEF KeysHeld
<1>2. CASE UNCHANGED vars
  BY <1>1, <1>2 DEF vars, store
<1>3. CASE Step
  BY <1>1, <1>3, ProbeKeeps, NotFoundKeeps DEF Step, store
<1>4. ASSUME NEW n \in Sizes, RadixMap_create(n) PROVE KeysHeld'
  BY <1>1, <1>4 DEF RadixMap_create
<1>5. ASSUME NEW k \in Key, NEW v \in Value, RadixMap_add(k, v) PROVE KeysHeld'
  <2>1. CASE end' = end + 1 /\ contents' = Appended(k, v)
    <3> DEFINE g == Grown(k, v)
               s == Appended(k, v)
    <3>1. /\ end \in Nat /\ g \in [0 .. (end + 1) - 1 -> Element] /\ s = RadixSorted(g)
          /\ end + 1 \in Nat /\ (end + 1) - 1 = end
      BY GrownType
    <3> DEFINE n == end + 1
    <3>2. \A q \in 0 .. n - 1 : \E i \in 0 .. n - 1 : RadixSorted(g)[q] = g[i]
      <4>1. n \in Nat /\ g \in [0 .. n - 1 -> Element]
        BY <3>1
      <4> HIDE DEF g, n
      <4>2. \A q \in 0 .. n - 1 : \E i \in 0 .. n - 1 :
              RadixSorted(g)[q] = g[i] /\ PlaceOf(KeysOf(g), i) = q
        BY <4>1, SortOrders
      <4> QED BY <4>2
    <3>3. \A i \in 0 .. end : g[i].key \in Key
      <4> TAKE i \in 0 .. end
      <4>1. i = end \/ i \in 0 .. end - 1
        BY <3>1
      <4> QED BY <4>1, <3>1 DEF KeysHeld, Grown
    <3> HIDE DEF g, s
    <3>4. \A q \in 0 .. end : s[q].key \in Key
      BY <3>1, <3>2, <3>3
    <3>5. \A q \in 0 .. end' - 1 : q \in 0 .. end /\ contents'[q] = s[q]
      BY <2>1, <3>1 DEF s
    <3> QED BY <3>4, <3>5 DEF KeysHeld
  <2> QED BY <1>1, <1>5, <2>1 DEF RadixMap_add
<1>6. ASSUME NEW k \in Key, RadixMap_find(k) PROVE KeysHeld'
  BY <1>1, <1>6 DEF RadixMap_find, store
<1>7. CASE RadixMap_delete
  BY <1>7, DeleteCounts
<1>8. CASE RadixMap_sort
  BY <1>1, <1>8, SortKeeps DEF RadixMap_sort
<1>9. CASE RadixMap_destroy
  BY <1>9 DEF RadixMap_destroy, KeysHeld
<1> QED BY <1>2, <1>3, <1>4, <1>5, <1>6, <1>7, <1>8, <1>9 DEF Next, Calls

\* What the client sees is counted slot by slot,
LEMMA PairsCounted ==
  ASSUME MapInv
  PROVE  PairsHeld = [p \in [key : Key, value : Value] |-> CountOf(contents, end, p)]
<1>1. DOMAIN contents = 0 .. end - 1
  BY DEF MapInv, SortedAlways, TypeOK
<1> QED BY <1>1 DEF PairsHeld, CountOf

\* before a step and after it.
LEMMA PairsCountedNext ==
  ASSUME MapInv'
  PROVE  PairsHeld' = [p \in [key : Key, value : Value] |-> CountOf(contents', end', p)]
<1>1. DOMAIN contents' = 0 .. end' - 1
  BY DEF MapInv, SortedAlways, TypeOK
<1> QED BY <1>1 DEF PairsHeld, CountOf

\* An empty map holds no pair.
LEMMA EmptyHoldsNone ==
  ASSUME NEW p
  PROVE  CountOf(Empty, 0, p) = 0
<1>1. {i \in 0 .. 0 - 1 : Empty[i] = p} = {}
  OBVIOUS
<1> QED BY <1>1, FS_EmptySet DEF CountOf

\* The element of a slot is a pair the client sees at least once.
LEMMA ElementSeen ==
  ASSUME MapInv, KeysHeld, NEW i \in 0 .. end - 1
  PROVE  /\ contents[i] \in [key : Key, value : Value]
         /\ PairsHeld[contents[i]] > 0
<1>1. end \in Nat /\ contents[i] \in Element /\ contents[i].key \in Key
  BY DEF MapInv, SortedAlways, TypeOK, KeysHeld
<1>2. contents[i] \in [key : Key, value : Value]
  BY <1>1 DEF Element
<1>3. CountOf(contents, end, contents[i]) > 0
  BY <1>1, CountIsNat
<1> QED BY <1>2, <1>3, PairsCounted

\* RadixMap_create makes an empty map, or none.
LEMMA CreateRefined ==
  ASSUME MapInv, NEW n \in Sizes, RadixMap_create(n)
  PROVE  Abstract!Create(n)
<1>1. ~map /\ UNCHANGED <<end, contents, held>>
  BY DEF RadixMap_create
<1>2. UNCHANGED <<PairsHeld, HeldPair>>
  BY <1>1 DEF PairsHeld, HeldPair
<1>3. map = FALSE /\ max = 0 /\ n \in Nat
  BY <1>1, ConstantsAssumption, KeyAssumption, Zenon DEF MapInv, MapOK, SortedAlways, TypeOK
<1>4. CASE n > 0 /\ map' = TRUE /\ max' = n /\ ret' = <<"create", TRUE>>
  BY <1>1, <1>2, <1>3, <1>4 DEF Abstract!Create
<1>5. CASE ret' = <<"create", FALSE>> /\ UNCHANGED <<map, max>>
  BY <1>1, <1>2, <1>3, <1>5 DEF Abstract!Create
<1> QED BY <1>4, <1>5 DEF RadixMap_create

\* RadixMap_add adds one pair, or returns -1.
LEMMA AddRefined ==
  ASSUME MapInv, NEW k \in Key, NEW v \in Value, RadixMap_add(k, v)
  PROVE  \E p \in Abstract!Pairs : Abstract!Add(p)
<1> DEFINE p == [key |-> k, value |-> v]
<1>1. p \in [key : Key, value : Value] /\ p.key = k /\ p.value = v
  OBVIOUS
<1>2. map /\ UNCHANGED <<map, max>> /\ end \in Nat /\ max \in Nat
  BY DEF RadixMap_add, Idle, MapInv, SortedAlways, TypeOK
<1>3. CASE /\ HasRoom /\ contents' = Appended(k, v) /\ end' = end + 1 /\ held' = NULL
           /\ ret' = <<"add", <<k, v>>, 0>>
  <2>1. MapInv'
    BY AddKeeps
  <2>2. ASSUME NEW q \in [key : Key, value : Value]
        PROVE  CountOf(contents', end', q) = CountOf(contents, end, q) + IF q = p THEN 1 ELSE 0
    <3>1. CountOf(Appended(k, v), end + 1, q) = CountOf(Grown(k, v), end + 1, q)
      <4>1. /\ end + 1 \in Nat /\ Grown(k, v) \in [0 .. (end + 1) - 1 -> Element]
            /\ Appended(k, v) = RadixSorted(Grown(k, v))
        BY <1>2, GrownType
      <4> QED BY <4>1, SortCounts
    <3> QED BY <1>3, <3>1, GrownCounts
  <2>3. \A q \in [key : Key, value : Value] : CountOf(contents, end, q) \in Nat
    BY <1>2, CountIsNat
  <2>4. PairsHeld' = [PairsHeld EXCEPT ![p] = @ + 1]
    <3> DEFINE P == [key : Key, value : Value]
    <3>1. PairsHeld = [q \in P |-> CountOf(contents, end, q)]
      BY PairsCounted
    <3>2. PairsHeld' = [q \in P |-> CountOf(contents', end', q)]
      BY <2>1, PairsCountedNext
    <3> HIDE DEF p
    <3>3. \A q \in P : CountOf(contents', end', q) =
                         IF q = p THEN CountOf(contents, end, q) + 1 ELSE CountOf(contents, end, q)
      BY <2>2, <2>3
    <3> HIDE DEF P
    <3> QED BY <3>1, <3>2, <3>3
  <2>5. HeldPair' = NULL
    BY <1>3 DEF HeldPair
  <2> QED BY <1>1, <1>2, <1>3, <2>4, <2>5 DEF Abstract!Add, Abstract!Pairs, HasRoom
<1>4. CASE ~HasRoom /\ ret' = <<"add", <<k, v>>, -1>> /\ UNCHANGED <<contents, end, held>>
  <2>1. UNCHANGED <<PairsHeld, HeldPair>>
    BY <1>4 DEF PairsHeld, HeldPair
  <2>2. end + 1 >= max
    BY <1>2, <1>4 DEF HasRoom
  <2> QED BY <1>1, <1>2, <1>4, <2>1, <2>2 DEF Abstract!Add, Abstract!Pairs
<1> QED BY <1>3, <1>4 DEF RadixMap_add

\* RadixMap_delete removes the pair that was found, and no other.
LEMMA DeleteRefined ==
  ASSUME KeysSpare, MapInv, KeysHeld, RadixMap_delete
  PROVE  Abstract!Delete
<1>1. /\ held # NULL /\ end' = end - 1 /\ held' = NULL /\ ret' = <<"delete", 0>>
      /\ UNCHANGED <<map, max>>
  BY DEF RadixMap_delete
<1>2. held \in 0 .. end - 1 /\ contents[held] \in Element /\ end \in Nat
  BY <1>1 DEF MapInv, SortedAlways, TypeOK
<1> DEFINE p == contents[held]
<1>3. HeldPair = p /\ HeldPair # NULL /\ HeldPair' = NULL
  BY <1>1, <1>2 DEF HeldPair, KeysSpare
<1>4. p \in [key : Key, value : Value]
  BY <1>2, ElementSeen
<1>5. MapInv'
  BY DeleteKeeps
<1>6. \A q \in [key : Key, value : Value] :
        CountOf(contents, end, q) = CountOf(contents', end', q) + IF q = p THEN 1 ELSE 0
  BY DeleteCounts DEF KeysSpare
<1>7. \A q \in [key : Key, value : Value] : CountOf(contents', end', q) \in Nat
  <2>1. end' \in Nat
    BY <1>1, <1>2
  <2> QED BY <2>1, CountIsNat
<1>8. PairsHeld' = [PairsHeld EXCEPT ![p] = @ - 1]
  <2> HIDE DEF p
  <2> DEFINE P == [key : Key, value : Value]
  <2>1. PairsHeld = [q \in P |-> CountOf(contents, end, q)]
    BY PairsCounted
  <2>2. PairsHeld' = [q \in P |-> CountOf(contents', end', q)]
    BY <1>5, PairsCountedNext
  <2>3. \A q \in P : CountOf(contents', end', q) =
                       IF q = p THEN CountOf(contents, end, q) - 1 ELSE CountOf(contents, end, q)
    BY <1>6, <1>7
  <2> HIDE DEF P
  <2> QED BY <2>1, <2>2, <2>3
<1> QED BY <1>1, <1>3, <1>8 DEF Abstract!Delete

\* A search that ends has found a pair with the key, or there is none.
LEMMA StepRefined ==
  ASSUME KeysSpare, MapInv, KeysHeld, Step
  PROVE  (\E k \in Key : Abstract!Find(k)) \/ UNCHANGED Abstract!vars
<1>1. map /\ UNCHANGED <<map, temp, max, end, contents>>
  <2>1. pc = "find" /\ UNCHANGED store
    BY ProbeKeeps, NotFoundKeeps DEF Step, Probe, NotFound
  <2> QED BY <2>1 DEF MapInv, MapOK, store
<1>2. UNCHANGED PairsHeld
  BY <1>1 DEF PairsHeld
<1> DEFINE found == {p \in Abstract!Pairs : p.key = goal /\ PairsHeld[p] > 0}
<1>3. CASE UNCHANGED <<held, ret>>
  BY <1>1, <1>2, <1>3 DEF Abstract!vars, HeldPair
<1>4. CASE /\ held' \in 0 .. end - 1 /\ contents[held'].key = goal /\ goal \in Key
           /\ ret' = <<"find", goal, contents[held']>>
  <2>1. HeldPair' = contents[held']
    BY <1>1, <1>4, ConstantsAssumption, KeyAssumption DEF HeldPair
  <2>2. contents[held'] \in found
    BY <1>4, ElementSeen DEF Abstract!Pairs
  <2> QED BY <1>1, <1>2, <1>4, <2>1, <2>2 DEF Abstract!Find
<1>5. CASE NotFound
  <2>1. /\ held' = NULL /\ ret' = <<"find", goal, NULL>> /\ goal \in Key
        /\ \A i \in 0 .. end - 1 : contents[i].key # goal
    BY <1>5, NotFoundKeeps
  <2>2. HeldPair' = NULL
    BY <2>1 DEF HeldPair
  <2>3. found = {}
    <3> SUFFICES ASSUME NEW p \in found PROVE FALSE
      OBVIOUS
    <3>1. p \in [key : Key, value : Value] /\ p.key = goal /\ PairsHeld[p] > 0
      BY DEF Abstract!Pairs
    <3>2. CountOf(contents, end, p) > 0 /\ end \in Nat
      BY <3>1, PairsCounted DEF MapInv, SortedAlways, TypeOK
    <3>3. PICK i \in 0 .. end - 1 : contents[i] = p
      BY <3>2, CountSeen
    <3> QED BY <2>1, <3>1, <3>3
  <2> QED BY <1>1, <1>2, <2>1, <2>2, <2>3 DEF Abstract!Find
<1> QED BY <1>3, <1>4, <1>5, ProbeKeeps DEF Step

\* A call does what AbstractRadixMap allows, and a search that starts shows nothing yet.
LEMMA CallRefined ==
  ASSUME KeysSpare, MapInv, KeysHeld, Calls
  PROVE  Abstract!Next \/ UNCHANGED Abstract!vars
<1>1. ASSUME NEW n \in Sizes, RadixMap_create(n) PROVE Abstract!Next
  BY <1>1, CreateRefined DEF Abstract!Next
<1>2. ASSUME NEW k \in Key, NEW v \in Value, RadixMap_add(k, v) PROVE Abstract!Next
  BY <1>2, AddRefined DEF Abstract!Next
<1>3. ASSUME NEW k \in Key, RadixMap_find(k) PROVE UNCHANGED Abstract!vars
  BY <1>3 DEF RadixMap_find, store, Abstract!vars, PairsHeld, HeldPair
<1>4. CASE RadixMap_delete
  BY <1>4, DeleteRefined DEF Abstract!Next
<1>5. CASE RadixMap_sort
  <2>1. /\ map /\ UNCHANGED <<map, max, end, contents, held>> /\ ret' = <<"sort", 0>>
    BY <1>5, SortKeeps DEF RadixMap_sort, Idle
  <2>2. UNCHANGED <<PairsHeld, HeldPair>>
    BY <2>1 DEF PairsHeld, HeldPair
  <2> QED BY <2>1, <2>2 DEF Abstract!Next, Abstract!Sort
<1>6. CASE RadixMap_destroy
  <2>1. /\ map /\ map' = FALSE /\ max' = 0 /\ end' = 0 /\ contents' = Empty /\ held' = NULL
        /\ ret' = <<"destroy", 0>>
    BY <1>6 DEF RadixMap_destroy, Idle
  <2>2. PairsHeld' = Abstract!NoPairs
    <3>1. MapInv'
      BY <1>6, DestroyKeeps
    <3> QED BY <2>1, <3>1, PairsCountedNext, EmptyHoldsNone DEF Abstract!NoPairs, Abstract!Pairs
  <2>3. HeldPair' = NULL
    BY <2>1 DEF HeldPair
  <2> QED BY <2>1, <2>2, <2>3 DEF Abstract!Next, Abstract!Destroy
<1> QED BY <1>1, <1>2, <1>3, <1>4, <1>5, <1>6 DEF Calls

\* The calls do and return what AbstractRadixMap promises of a bag of pairs: what is added
\* is held and can be found, and the pair that leaves is the one that was found.
THEOREM MapIsRefined ==
  SizesFit /\ KeysSpare => (Spec => ImplementsAbstractRadixMap)
<1> SUFFICES ASSUME SizesFit, KeysSpare PROVE Spec => ImplementsAbstractRadixMap
  OBVIOUS
<1>1. Init => Abstract!Init /\ KeysHeld
  <2> SUFFICES ASSUME Init PROVE Abstract!Init /\ KeysHeld
    OBVIOUS
  <2>1. PairsHeld = Abstract!NoPairs
    <3>1. DOMAIN contents = {}
      BY DEF Init, Empty
    <3>2. \A p : {i \in DOMAIN contents : contents[i] = p} = {}
      BY <3>1
    <3> QED BY <3>2, FS_EmptySet DEF PairsHeld, Abstract!NoPairs, Abstract!Pairs
  <2>2. HeldPair = NULL /\ KeysHeld
    BY DEF Init, HeldPair, KeysHeld
  <2> QED BY <2>1, <2>2 DEF Init, Abstract!Init
<1>2. MapInv /\ KeysHeld /\ [Next]_vars => KeysHeld'
  BY KeysStay DEF KeysSpare
<1>3. MapInv /\ KeysHeld /\ [Next]_vars => [Abstract!Next]_(Abstract!vars)
  <2>1. ASSUME UNCHANGED vars PROVE UNCHANGED Abstract!vars
    BY <2>1 DEF vars, store, search, Abstract!vars, PairsHeld, HeldPair
  <2>2. ASSUME MapInv, KeysHeld, Step PROVE Abstract!Next \/ UNCHANGED Abstract!vars
    BY <2>2, StepRefined DEF Abstract!Next
  <2> QED BY <2>1, <2>2, CallRefined DEF Next
<1>4. Spec => []MapInv
  BY AlwaysSorted, PTL
<1> QED BY <1>1, <1>2, <1>3, <1>4, PTL DEF Spec, ImplementsAbstractRadixMap, Abstract!Spec

=============================================================================
