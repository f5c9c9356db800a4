--------------------------- MODULE HashMapProofs ---------------------------
(***************************************************************************)
(* What holds of HashMap for every set of keys and values, every hash      *)
(* function, every size of table and every heap.                           *)
(***************************************************************************)
EXTENDS HashMap, FiniteSetTheorems, TLAPS

\* No heap gives a table of SIZE_MAX pointers, and the null pointer is no list and no
\* pair of pointers.
ReasonableUse ==
  /\ HeapLimit < SIZE_MAX
  /\ NULL \notin SUBSET Entry
  /\ NULL \notin Key \X Value

\* What is known of the put that is growing the table: what it puts is still there to be
\* put.  Without a map there is nothing.
CallInv ==
  /\ pc # "idle" => /\ map /\ arg \in Key \X Value
                    /\ owner[arg[1]] # "freed" /\ owner[arg[2]] = "caller"
  /\ pc = "rehash" => NewCapacity = 2 * capacity
  /\ pc # "rehash" => old_index = 0
  /\ map => capacity >= 1
  /\ ~map => Entries = {} /\ capacity = 0

\* LoadKept, through the growing of the table as well: it makes room for an entry.
LoadInv ==
  map => /\ threshold = ThresholdOf(capacity) /\ size <= threshold
         /\ pc = "insert" => size < threshold

MapInv ==
  /\ EntriesInPlace /\ KeysUnique /\ SizeExact /\ OwnershipExact
  /\ CallInv /\ LoadInv /\ IsFiniteSet(Entries)

-----------------------------------------------------------------------------
(* Arithmetic of the buckets.                                              *)

\* Division leaves a remainder below the divisor.
LEMMA Quotient ==
  ASSUME NEW h \in Int, NEW c \in Int, c > 0
  PROVE  h \div c \in Int /\ h % c \in 0 .. c - 1 /\ h % c = h - c * (h \div c)
OBVIOUS

\* There is only one such remainder.
LEMMA Remainder ==
  ASSUME NEW h \in Int, NEW c \in Int, c > 0,
         NEW q \in Int, NEW r \in Int, r >= 0, r < c, h = c * q + r
  PROVE  h % c = r
BY SMTT(30)

\* In a table of twice the size a hash stays where it is or moves up by the old size,
\* as the bit of GoesHigh says.
LEMMA Doubled ==
  ASSUME NEW h \in Nat, NEW c \in Nat \ {0}
  PROVE  h % (2 * c) = (h % c) + (IF (h \div c) % 2 = 1 THEN c ELSE 0)
<1> DEFINE q == h \div c
           r == h % c
           p == q \div 2
           b == q % 2
           d == 2 * c
           x == r + (IF b = 1 THEN c ELSE 0)
<1>1. q \in Int /\ r \in 0 .. c - 1 /\ r = h - c * q
  BY Quotient
<1>2. p \in Int /\ b \in {0, 1} /\ q = 2 * p + b
  BY <1>1
<1>3. d \in Int /\ d > 0 /\ d = c + c
  OBVIOUS
<1> SUFFICES h % d = x
  OBVIOUS
<1> HIDE DEF q, r, p, b, d
<1>4. x \in Int /\ x >= 0 /\ x < d
  BY <1>1, <1>2, <1>3
<1>5. h = d * p + x
  <2>1. CASE b = 0
    <3>1. q = 2 * p
      BY <1>2, <2>1
    <3> QED BY <1>1, <1>2, <1>3, <2>1, <3>1
  <2>2. CASE b = 1
    <3>1. q = 2 * p + 1
      BY <1>2, <2>2
    <3> QED BY <1>1, <1>2, <1>3, <2>2, <3>1
  <2> QED BY <1>2, <2>1, <2>2
<1> HIDE DEF x
<1>6. h \in Int
  OBVIOUS
<1> QED BY <1>2, <1>3, <1>4, <1>5, <1>6, Remainder, Zenon

\* No table has 0 buckets.
LEMMA SomeBucket ==
  ASSUME NEW c \in Nat, IsPowerOf2(c)
  PROVE  c >= 1
<1>1. ASSUME c = 0
      PROVE  FALSE
  <2>1. PICK i \in 0 .. 0 : 0 = 2 ^ i
    BY <1>1 DEF IsPowerOf2
  <2>2. i = 0
    OBVIOUS
  <2> QED BY <2>1, <2>2
<1> QED BY <1>1

\* A key has a hash.
LEMMA HashType ==
  ASSUME NEW k \in Key
  PROVE  HashOf(k) \in Nat /\ HashOf(k) \in Range(Hash)
BY ConstantsAssumption DEF HashOf, Range

\* A hash is a number.
LEMMA HashNat ==
  ASSUME NEW h \in Range(Hash)
  PROVE  h \in Nat
<1>1. PICK x \in DOMAIN Hash : h = Hash[x]
  BY DEF Range
<1> QED BY <1>1, ConstantsAssumption

-----------------------------------------------------------------------------
(* Entries and buckets.                                                    *)

\* An entry that a search looks for is found, and nothing else is: between calls, and
\* when the table has grown.
LEMMA FoundExact ==
  ASSUME EntriesInPlace, pc # "rehash", capacity >= 1, NEW k \in Key
  PROVE  /\ IndexOf(HashOf(k)) \in DOMAIN buckets
         /\ Found(k) \subseteq Bucket(IndexOf(HashOf(k)))
         /\ \A e : e \in Found(k) <=> e \in Entries /\ ContentOf[e.key] = ContentOf[k]
<1>1. /\ HashOf(k) \in Nat /\ capacity \in Nat /\ capacity > 0
      /\ DOMAIN buckets = 0 .. capacity - 1
  BY HashType DEF EntriesInPlace, TypeOK
<1>2. IndexOf(HashOf(k)) \in DOMAIN buckets
  BY <1>1, Quotient DEF IndexOf
<1>3. ASSUME NEW e \in Entries, ContentOf[e.key] = ContentOf[k]
      PROVE  e \in Found(k)
  <2>1. PICK i \in DOMAIN buckets : e \in Bucket(i)
    BY DEF Entries
  <2>2. e.hash = HashOf(e.key) /\ Place(e.hash) = i
    BY <2>1 DEF EntriesInPlace
  <2>3. HashOf(e.key) = HashOf(k)
    BY <1>3 DEF HashOf
  <2>4. i = IndexOf(HashOf(k))
    BY <2>2, <2>3 DEF Place, IndexOf
  <2> QED BY <1>3, <2>1, <2>2, <2>3, <2>4 DEF Found, Matches
<1>4. ASSUME NEW e \in Found(k)
      PROVE  e \in Entries /\ ContentOf[e.key] = ContentOf[k]
  BY <1>2 DEF Found, Matches, Entries
<1> QED BY <1>2, <1>3, <1>4 DEF Found

\* A call that changes one bucket: what it takes out and puts in is taken out of the map
\* and put into it, and what is put in has its place there.
LEMMA OneBucket ==
  ASSUME EntriesInPlace, pc # "rehash", pc' # "rehash", capacity' = capacity,
         NULL \notin SUBSET Entry,
         NEW i \in DOMAIN buckets, NEW gone \in SUBSET Bucket(i), NEW new \in SUBSET Entry,
         \A e \in new : e.hash = HashOf(e.key) /\ IndexOf(e.hash) = i,
         buckets' = [buckets EXCEPT ![i] = (Bucket(i) \ gone) \cup new]
  PROVE  /\ DOMAIN buckets' = DOMAIN buckets
         /\ \A j \in DOMAIN buckets' : Bucket(j)' \subseteq Entry
         /\ \A j \in DOMAIN buckets' : \A e \in Bucket(j)' :
              e.hash = HashOf(e.key) /\ Place(e.hash)' = j
         /\ Entries' = (Entries \ gone) \cup new
<1>1. DOMAIN buckets' = DOMAIN buckets
  OBVIOUS
<1>2. Bucket(i) \subseteq Entry
  BY DEF EntriesInPlace, TypeOK
<1>3. \A j \in DOMAIN buckets' :
        Bucket(j)' = IF j = i THEN (Bucket(i) \ gone) \cup new ELSE Bucket(j)
  BY <1>1, <1>2 DEF Bucket
<1>4. \A h : Place(h)' = IndexOf(h) /\ Place(h) = IndexOf(h)
  BY DEF Place, IndexOf
<1>5. \A j \in DOMAIN buckets' : Bucket(j)' \subseteq Entry
  BY <1>1, <1>2, <1>3 DEF EntriesInPlace, TypeOK
<1>6. \A j \in DOMAIN buckets' : \A e \in Bucket(j)' :
        e.hash = HashOf(e.key) /\ Place(e.hash)' = j
  BY <1>1, <1>3, <1>4 DEF EntriesInPlace
<1>7. ASSUME NEW e \in Entries'
      PROVE  e \in (Entries \ gone) \cup new
  <2>1. PICK j \in DOMAIN buckets' : e \in Bucket(j)'
    BY DEF Entries
  <2>2. CASE j = i
    BY <1>1, <1>3, <2>1, <2>2 DEF Entries
  <2>3. CASE j # i
    <3>1. e \in Bucket(j) /\ Place(e.hash) = j
      BY <1>1, <1>3, <2>1, <2>3 DEF EntriesInPlace
    <3>2. e \notin gone
      BY <2>3, <3>1 DEF EntriesInPlace
    <3> QED BY <1>1, <3>1, <3>2 DEF Entries
  <2> QED BY <2>2, <2>3
<1>8. ASSUME NEW e \in (Entries \ gone) \cup new
      PROVE  e \in Entries'
  <2>1. CASE e \in new
    BY <1>1, <1>3, <2>1 DEF Entries
  <2>2. CASE e \in Entries /\ e \notin gone
    <3>1. PICK j \in DOMAIN buckets : e \in Bucket(j)
      BY <2>2 DEF Entries
    <3>2. e \in Bucket(j)'
      BY <1>1, <1>3, <2>2, <3>1
    <3> QED BY <1>1, <3>1, <3>2 DEF Entries
  <2> QED BY <1>8, <2>1, <2>2
<1> QED BY <1>1, <1>5, <1>6, <1>7, <1>8

\* So everything is in its place after such a call, if it gives the pointers owners and
\* counts what it has done.
LEMMA PlacedAgain ==
  ASSUME MapInv, ReasonableUse, map, pc # "rehash", pc' = "idle",
         UNCHANGED <<failing, map, capacity, threshold, old_index>>,
         arg' \in (Key \X Value) \cup {<<NULL, NULL>>}, size' \in Nat,
         owner' \in [Key \cup Value -> {"caller", "map", "freed"}],
         NEW i \in DOMAIN buckets, NEW gone \in SUBSET Bucket(i), NEW new \in SUBSET Entry,
         \A e \in new : e.hash = HashOf(e.key) /\ IndexOf(e.hash) = i,
         buckets' = [buckets EXCEPT ![i] = (Bucket(i) \ gone) \cup new]
  PROVE  EntriesInPlace' /\ CallInv' /\ Entries' = (Entries \ gone) \cup new
<1>1. /\ DOMAIN buckets' = DOMAIN buckets
      /\ \A j \in DOMAIN buckets' : Bucket(j)' \subseteq Entry
      /\ \A j \in DOMAIN buckets' : \A e \in Bucket(j)' :
           e.hash = HashOf(e.key) /\ Place(e.hash)' = j
      /\ Entries' = (Entries \ gone) \cup new
  BY OneBucket DEF MapInv, ReasonableUse
<1>2. TypeOK'
  BY <1>1 DEF MapInv, EntriesInPlace, TypeOK
<1>3. EntriesInPlace'
  BY <1>1, <1>2 DEF EntriesInPlace, HashOf
<1>4. CallInv'
  BY DEF MapInv, CallInv
<1> QED BY <1>1, <1>3, <1>4

-----------------------------------------------------------------------------
(* HashMap_put, once there is room.                                        *)

\* A key that is there gets another value, and one entry changes.
LEMMA ReplaceStep ==
  ASSUME MapInv, ReasonableUse, map, pc # "rehash", pc' = "idle",
         UNCHANGED <<failing, map, capacity, threshold, old_index>>,
         arg' \in (Key \X Value) \cup {<<NULL, NULL>>},
         NEW k \in Key, NEW v \in Value, owner[v] = "caller",
         Replace(k, v)
  PROVE  /\ MapInv'
         /\ \E e \in Found(k) :
              /\ Entries' = (Entries \ {e}) \cup {[e EXCEPT !.value = v]}
              /\ owner' = [owner EXCEPT ![v] = "map", ![e.value] = "caller"]
              /\ ret' = <<"put", <<k, v>>, e.value>>
<1>1. PICK e \in Found(k) :
        /\ buckets' = [buckets EXCEPT
             ![IndexOf(HashOf(k))] = (@ \ {e}) \cup {[e EXCEPT !.value = v]}]
        /\ owner' = [owner EXCEPT ![v] = "map", ![e.value] = "caller"]
        /\ size' = size
        /\ ret' = <<"put", <<k, v>>, e.value>>
  BY DEF Replace
<1> DEFINE f == [e EXCEPT !.value = v]
           i == IndexOf(HashOf(k))
<1>2. /\ i \in DOMAIN buckets /\ e \in Bucket(i)
      /\ e \in Entries /\ ContentOf[e.key] = ContentOf[k]
  BY FoundExact DEF MapInv, CallInv
<1>3. Bucket(i) = buckets[i] /\ e \in Entry /\ e.hash = HashOf(e.key) /\ IndexOf(e.hash) = i
  BY <1>2 DEF Bucket, MapInv, EntriesInPlace, TypeOK, Place, IndexOf
<1>4. /\ f \in Entry /\ f.key = e.key /\ f.hash = e.hash /\ f.value = v
      /\ e.key \in Key /\ e.value \in Value
  BY <1>3 DEF Entry
<1> HIDE DEF f, i
<1>5. owner' \in [Key \cup Value -> {"caller", "map", "freed"}]
  BY <1>1 DEF MapInv, EntriesInPlace, TypeOK
<1>6. buckets' = [buckets EXCEPT ![i] = (Bucket(i) \ {e}) \cup {f}]
  BY <1>1, <1>3 DEF f, i
<1>7. EntriesInPlace' /\ CallInv' /\ Entries' = (Entries \ {e}) \cup {f}
  <2> DEFINE gone == {e}
             new == {f}
  <2>1. gone \in SUBSET Bucket(i) /\ new \in SUBSET Entry
    BY <1>2, <1>4
  <2>2. \A g \in new : g.hash = HashOf(g.key) /\ IndexOf(g.hash) = i
    BY <1>2, <1>3, <1>4 DEF HashOf
  <2>3. buckets' = [buckets EXCEPT ![i] = (Bucket(i) \ gone) \cup new]
    BY <1>6
  <2>4. i \in DOMAIN buckets /\ size' \in Nat
    BY <1>1, <1>2 DEF MapInv, EntriesInPlace, TypeOK
  <2> HIDE DEF gone, new
  <2>5. EntriesInPlace' /\ CallInv' /\ Entries' = (Entries \ gone) \cup new
    BY <1>5, <2>1, <2>2, <2>3, <2>4, PlacedAgain
  <2> QED BY <2>5 DEF gone, new
<1>8. KeysUnique'
  BY <1>2, <1>4, <1>7 DEF MapInv, KeysUnique
<1>9. f \notin Entries \ {e} /\ (f \in Entries => f = e)
  BY <1>2, <1>4 DEF MapInv, KeysUnique
<1>10. IsFiniteSet(Entries') /\ Cardinality(Entries') = Cardinality(Entries)
  <2>1. /\ IsFiniteSet(Entries \ {e})
        /\ Cardinality(Entries \ {e}) = Cardinality(Entries) - 1
    BY <1>2, FS_RemoveElement DEF MapInv
  <2>2. Cardinality(Entries) \in Nat
    BY FS_CardinalityType DEF MapInv
  <2> DEFINE S == Entries \ {e}
  <2>3. IsFiniteSet(S) /\ Cardinality(S) = Cardinality(Entries) - 1 /\ f \notin S
    BY <1>9, <2>1
  <2>4. Entries' = S \cup {f}
    BY <1>7
  <2> HIDE DEF S
  <2>5. IsFiniteSet(S \cup {f}) /\ Cardinality(S \cup {f}) = Cardinality(S) + 1
    BY <2>3, FS_AddElement
  <2> QED BY <2>2, <2>3, <2>4, <2>5
<1>11. SizeExact'
  BY <1>1, <1>10 DEF MapInv, SizeExact
<1>12. /\ v # e.value /\ owner[e.value] = "map" /\ owner[e.key] = "map"
       /\ Key \cap Value = {} /\ \A g \in Entries : g.value # v
  BY <1>2, ConstantsAssumption DEF MapInv, OwnershipExact, Pointers
<1>13. \A g \in Entries : g \in Entry
  BY DEF MapInv, EntriesInPlace, TypeOK, Entries
<1>14. OwnershipExact'
  <2>1. \A g \in Entries \ {e} : g.key # e.key /\ g.value # e.value
    BY <1>2 DEF MapInv, OwnershipExact
  <2>2. \A p \in Key \cup Value :
          owner'[p] = IF p = e.value THEN "caller" ELSE IF p = v THEN "map" ELSE owner[p]
    BY <1>1, <1>4 DEF MapInv, EntriesInPlace, TypeOK
  <2>3. \A g \in Entries' : owner'[g.key] = "map" /\ owner'[g.value] = "map"
    BY <1>4, <1>7, <1>12, <1>13, <2>1, <2>2 DEF MapInv, OwnershipExact, Pointers, Entry
  <2>4. ASSUME "move" \notin failing, NEW p \in Key \cup Value, owner'[p] = "map"
        PROVE  \E g \in Entries' : p = g.key \/ p = g.value
    <3>1. CASE p = v
      BY <1>4, <1>7, <3>1
    <3>2. CASE p # v
      <4>1. owner[p] = "map" /\ p # e.value
        BY <2>2, <2>4, <3>2
      <4>2. PICK g \in Entries : p = g.key \/ p = g.value
        BY <2>4, <4>1 DEF MapInv, OwnershipExact, Pointers
      <4>3. CASE g = e
        BY <1>4, <1>7, <4>1, <4>2, <4>3
      <4>4. CASE g # e
        BY <1>7, <4>2, <4>4
      <4> QED BY <4>3, <4>4
    <3> QED BY <3>1, <3>2
  <2>5. \A g, h \in Entries' : g.key = h.key \/ g.value = h.value => g = h
    BY <1>4, <1>7, <1>12, <2>1 DEF MapInv, OwnershipExact
  <2> QED BY <2>3, <2>4, <2>5 DEF OwnershipExact, Pointers
<1>15. LoadInv'
  BY <1>1 DEF MapInv, LoadInv
<1> QED BY <1>1, <1>7, <1>8, <1>10, <1>11, <1>14, <1>15 DEF MapInv, f

\* A key that is not there gets an entry.
LEMMA AddEntryStep ==
  ASSUME MapInv, ReasonableUse, map, pc # "rehash", pc' = "idle",
         UNCHANGED <<failing, map, capacity, threshold, old_index>>,
         arg' \in (Key \X Value) \cup {<<NULL, NULL>>},
         NEW k \in Key, NEW v \in Value, owner[v] = "caller", size < threshold,
         AddEntry(k, v)
  PROVE  /\ MapInv'
         /\ Entries' = Entries \cup {[key |-> k, value |-> v, hash |-> HashOf(k)]}
<1> DEFINE f == [key |-> k, value |-> v, hash |-> HashOf(k)]
           i == IndexOf(HashOf(k))
<1>1. /\ Found(k) = {} /\ buckets' = [buckets EXCEPT ![i] = Bucket(i) \cup {f}]
      /\ owner' = Give({k, v}, "map") /\ size' = size + 1
  BY DEF AddEntry
<1>2. /\ i \in DOMAIN buckets
      /\ \A e \in Entries : ContentOf[e.key] # ContentOf[k]
  BY <1>1, FoundExact DEF MapInv, CallInv
<1>3. /\ f \in Entry /\ f.key = k /\ f.hash = HashOf(f.key) /\ f.value = v
      /\ IndexOf(f.hash) = i
  BY HashType DEF Entry
<1> HIDE DEF f, i
<1>4. \A p \in Key \cup Value :
        owner'[p] = IF p \in {k, v} THEN "map" ELSE owner[p]
  BY <1>1 DEF Give
<1>5. owner' \in [Key \cup Value -> {"caller", "map", "freed"}]
  BY <1>1 DEF Give, MapInv, EntriesInPlace, TypeOK
<1>6. EntriesInPlace' /\ CallInv' /\ Entries' = Entries \cup {f}
  <2> DEFINE gone == {}
             new == {f}
  <2>1. gone \in SUBSET Bucket(i) /\ new \in SUBSET Entry
    BY <1>3
  <2>2. \A g \in new : g.hash = HashOf(g.key) /\ IndexOf(g.hash) = i
    BY <1>3
  <2>3. buckets' = [buckets EXCEPT ![i] = (Bucket(i) \ gone) \cup new]
    BY <1>1
  <2>4. i \in DOMAIN buckets /\ size' \in Nat
    BY <1>1, <1>2 DEF MapInv, EntriesInPlace, TypeOK
  <2> HIDE DEF gone, new
  <2>5. EntriesInPlace' /\ CallInv' /\ Entries' = (Entries \ gone) \cup new
    BY <1>5, <2>1, <2>2, <2>3, <2>4, PlacedAgain
  <2> QED BY <2>5 DEF gone, new
<1>7. f \notin Entries
  BY <1>2, <1>3
<1>8. KeysUnique'
  BY <1>2, <1>3, <1>6 DEF MapInv, KeysUnique
<1>9. IsFiniteSet(Entries') /\ Cardinality(Entries') = Cardinality(Entries) + 1
  BY <1>6, <1>7, FS_AddElement DEF MapInv
<1>10. SizeExact'
  <2>1. Cardinality(Entries) \in Nat /\ size \in Nat
    BY FS_CardinalityType DEF MapInv, EntriesInPlace, TypeOK
  <2> QED BY <1>1, <1>9, <2>1 DEF MapInv, SizeExact
<1>11. \A g \in Entries : g \in Entry /\ g.value # v /\ g.key # k
  BY <1>2 DEF MapInv, EntriesInPlace, TypeOK, Entries, OwnershipExact, Pointers
<1>12. OwnershipExact'
  <2>1. \A g \in Entries' : owner'[g.key] = "map" /\ owner'[g.value] = "map"
    BY <1>3, <1>4, <1>6, <1>11 DEF MapInv, OwnershipExact, Pointers, Entry
  <2>2. ASSUME "move" \notin failing, NEW p \in Key \cup Value, owner'[p] = "map"
        PROVE  \E g \in Entries' : p = g.key \/ p = g.value
    <3>1. CASE p \in {k, v}
      BY <1>3, <1>6, <3>1
    <3>2. CASE p \notin {k, v}
      <4>1. owner[p] = "map"
        BY <1>4, <2>2, <3>2
      <4>2. PICK g \in Entries : p = g.key \/ p = g.value
        BY <2>2, <4>1 DEF MapInv, OwnershipExact, Pointers
      <4> QED BY <1>6, <4>2
    <3> QED BY <3>1, <3>2
  <2>3. \A g, h \in Entries' : g.key = h.key \/ g.value = h.value => g = h
    BY <1>3, <1>6, <1>11 DEF MapInv, OwnershipExact
  <2> QED BY <2>1, <2>2, <2>3 DEF OwnershipExact, Pointers
<1>13. LoadInv'
  BY <1>1 DEF MapInv, LoadInv, EntriesInPlace, TypeOK, ThresholdOf
<1> QED BY <1>6, <1>8, <1>9, <1>10, <1>12, <1>13 DEF MapInv, f

\* A step that leaves the entries as they are, or a rehashing that loses some, keeps what
\* is said of them.
LEMMA EntriesKept ==
  ASSUME MapInv, UNCHANGED <<failing, owner, size>>,
         Entries' \subseteq Entries, "move" \notin failing => Entries' = Entries
  PROVE  (KeysUnique /\ SizeExact /\ OwnershipExact /\ IsFiniteSet(Entries))'
<1>1. IsFiniteSet(Entries') /\ Cardinality(Entries') <= Cardinality(Entries)
  BY FS_Subset DEF MapInv
<1>2. Cardinality(Entries') \in Nat /\ Cardinality(Entries) \in Nat
  BY <1>1, FS_CardinalityType DEF MapInv
<1>3. SizeExact'
  BY <1>1, <1>2 DEF MapInv, SizeExact, EntriesInPlace, TypeOK
<1>4. KeysUnique'
  BY DEF MapInv, KeysUnique
<1>5. OwnershipExact'
  BY DEF MapInv, OwnershipExact, Pointers
<1> QED BY <1>1, <1>3, <1>4, <1>5

\* A step that changes nothing of the map keeps everything.
LEMMA NothingDone ==
  ASSUME MapInv, UNCHANGED <<failing, map, table, owner, old_index>>,
         arg' \in (Key \X Value) \cup {<<NULL, NULL>>},
         \/ pc # "rehash" /\ pc' = "idle"
         \/ UNCHANGED call
  PROVE  MapInv' /\ Entries' = Entries
<1>1. Entries' = Entries
  BY DEF table, Entries, Bucket
<1>2. (KeysUnique /\ SizeExact /\ OwnershipExact /\ IsFiniteSet(Entries))'
  BY <1>1, EntriesKept DEF table
<1>3. NewCapacity' = NewCapacity
  BY DEF table, NewCapacity
<1>4. TypeOK'
  BY <1>3 DEF MapInv, EntriesInPlace, TypeOK, table, call, Bucket
<1>5. \A h : Place(h)' = Place(h)
  BY DEF Place, table, call
<1>6. EntriesInPlace'
  BY <1>4, <1>5 DEF MapInv, EntriesInPlace, table, Bucket, HashOf
<1>7. CallInv' /\ LoadInv'
  BY <1>1, <1>3 DEF MapInv, CallInv, LoadInv, table, call
<1> QED BY <1>1, <1>2, <1>6, <1>7 DEF MapInv

\* An entry that could not be pushed is counted, and nothing else has changed.
LEMMA EntryNotPushedStep ==
  ASSUME MapInv, ReasonableUse, map, pc # "rehash", pc' = "idle",
         UNCHANGED <<failing, map, capacity, threshold, old_index>>,
         arg' \in (Key \X Value) \cup {<<NULL, NULL>>},
         NEW k \in Key, NEW v \in Value, size < threshold,
         EntryNotPushed(k, v)
  PROVE  MapInv' /\ Entries' = Entries
<1> DEFINE i == IndexOf(HashOf(k))
<1>1. /\ "node" \in failing /\ buckets' = [buckets EXCEPT ![i] = Bucket(i)]
      /\ size' = size + 1 /\ owner' = owner
  BY DEF EntryNotPushed
<1>2. i \in DOMAIN buckets
  BY FoundExact DEF MapInv, CallInv
<1> HIDE DEF i
<1>3. EntriesInPlace' /\ CallInv' /\ Entries' = Entries
  <2> DEFINE none == {}
  <2>1. none \in SUBSET Bucket(i) /\ none \in SUBSET Entry
    OBVIOUS
  <2>2. \A g \in none : g.hash = HashOf(g.key) /\ IndexOf(g.hash) = i
    OBVIOUS
  <2>3. buckets' = [buckets EXCEPT ![i] = (Bucket(i) \ none) \cup none]
    BY <1>1
  <2>4. /\ size' \in Nat
        /\ owner' \in [Key \cup Value -> {"caller", "map", "freed"}]
    BY <1>1 DEF MapInv, EntriesInPlace, TypeOK
  <2> HIDE DEF none
  <2>5. EntriesInPlace' /\ CallInv' /\ Entries' = (Entries \ none) \cup none
    BY <1>2, <2>1, <2>2, <2>3, <2>4, PlacedAgain
  <2> QED BY <2>5 DEF none
<1>4. SizeExact'
  <2>1. Cardinality(Entries) \in Nat /\ size \in Nat
    BY FS_CardinalityType DEF MapInv, EntriesInPlace, TypeOK
  <2> QED BY <1>1, <1>3, <2>1 DEF MapInv, SizeExact
<1>5. KeysUnique' /\ OwnershipExact' /\ IsFiniteSet(Entries')
  BY <1>1, <1>3 DEF MapInv, KeysUnique, OwnershipExact, Pointers
<1>6. LoadInv'
  BY <1>1 DEF MapInv, LoadInv, EntriesInPlace, TypeOK, ThresholdOf
<1> QED BY <1>3, <1>4, <1>5, <1>6 DEF MapInv

\* A put into a table that has room, in whatever way it ends.
LEMMA InsertStep ==
  ASSUME MapInv, ReasonableUse, map, pc # "rehash", pc' = "idle",
         UNCHANGED <<failing, old_index>>,
         arg' \in (Key \X Value) \cup {<<NULL, NULL>>},
         NEW k \in Key, NEW v \in Value, owner[v] = "caller", size < threshold,
         Insert(k, v)
  PROVE  /\ MapInv'
         /\ \/ \E e \in Found(k) :
                 /\ Entries' = (Entries \ {e}) \cup {[e EXCEPT !.value = v]}
                 /\ owner' = [owner EXCEPT ![v] = "map", ![e.value] = "caller"]
                 /\ ret' = <<"put", <<k, v>>, e.value>>
            \/ /\ Found(k) = {}
               /\ Entries' = Entries \cup {[key |-> k, value |-> v, hash |-> HashOf(k)]}
               /\ owner' = Give({k, v}, "map")
               /\ ret' = <<"put", <<k, v>>, NULL>>
            \/ /\ Entries' = Entries /\ owner' = owner
               /\ ret' = <<"put", <<k, v>>, NULL>>
<1>1. UNCHANGED <<map, capacity, threshold>>
  BY DEF Insert
<1>2. CASE Replace(k, v)
  BY <1>1, <1>2, ReplaceStep
<1>3. CASE AddEntry(k, v)
  BY <1>1, <1>3, AddEntryStep DEF AddEntry
<1>4. CASE NoEntry(k, v)
  <2>1. UNCHANGED <<failing, map, table, owner, old_index>>
    BY <1>1, <1>4 DEF NoEntry, table
  <2> QED BY <1>4, <2>1, NothingDone DEF NoEntry
<1>5. CASE EntryNotPushed(k, v)
  BY <1>1, <1>5, EntryNotPushedStep DEF EntryNotPushed
<1> QED BY <1>2, <1>3, <1>4, <1>5 DEF Insert

-----------------------------------------------------------------------------
(* Growing the table.                                                      *)

\* A put into a full table enlarges it.
LEMMA StartRehashStep ==
  ASSUME MapInv, ReasonableUse, Idle, UNCHANGED <<failing, map>>,
         NEW k \in Key, NEW v \in Value, owner[k] # "freed", owner[v] = "caller",
         StartRehash(k, v)
  PROVE  MapInv' /\ Entries' = Entries
<1>1. /\ capacity \in Nat /\ capacity >= 1 /\ SIZE_MAX \in Nat /\ HeapLimit \in Nat
      /\ pc = "idle" /\ map /\ DOMAIN buckets = 0 .. capacity - 1
  BY ConstantsAssumption DEF Idle, MapInv, CallInv, EntriesInPlace, TypeOK
<1>2. /\ NewCapacity <= HeapLimit
      /\ buckets' = [i \in 0 .. NewCapacity - 1 |->
                       IF i < capacity THEN buckets[i] ELSE NULL]
      /\ pc' = "rehash" /\ old_index' = 0 /\ arg' = <<k, v>>
      /\ UNCHANGED <<capacity, threshold, size, owner>>
  BY DEF StartRehash
<1>3. NewCapacity = 2 * capacity /\ NewCapacity' = 2 * capacity
  BY <1>1, <1>2 DEF NewCapacity, ReasonableUse
<1>4. /\ DOMAIN buckets' = 0 .. NewCapacity' - 1
      /\ \A j \in DOMAIN buckets' :
           Bucket(j)' = IF j \in DOMAIN buckets THEN Bucket(j) ELSE {}
  BY <1>1, <1>2, <1>3 DEF Bucket
<1>5. DOMAIN buckets \subseteq DOMAIN buckets'
  BY <1>1, <1>3, <1>4
<1>6. Entries' = Entries
  BY <1>4, <1>5 DEF Entries
<1>7. (KeysUnique /\ SizeExact /\ OwnershipExact /\ IsFiniteSet(Entries))'
  BY <1>2, <1>6, EntriesKept
<1>8. \A j \in DOMAIN buckets' : Bucket(j)' \subseteq Entry
  BY <1>4 DEF MapInv, EntriesInPlace, TypeOK
<1>9. TypeOK'
  BY <1>1, <1>2, <1>4, <1>8 DEF MapInv, EntriesInPlace, TypeOK
<1>10. ASSUME NEW j \in DOMAIN buckets', NEW e \in Bucket(j)'
       PROVE  e.hash = HashOf(e.key) /\ Place(e.hash)' = j
  <2>1. j \in DOMAIN buckets /\ e \in Bucket(j)
    BY <1>4, <1>10
  <2>2. e.hash = HashOf(e.key) /\ Place(e.hash) = j /\ e \in Entry
    BY <2>1 DEF MapInv, EntriesInPlace, TypeOK
  <2>3. e.hash % capacity >= 0 /\ e.hash % capacity = j
    BY <1>1, <2>2, HashNat, Quotient DEF Place, Entry
  <2>4. Place(e.hash)' = j
    BY <1>2, <2>3 DEF Place
  <2> QED BY <2>2, <2>4
<1>11. EntriesInPlace'
  BY <1>9, <1>10 DEF EntriesInPlace, HashOf
<1>12. CallInv' /\ LoadInv'
  BY <1>1, <1>2, <1>3 DEF MapInv, CallInv, LoadInv
<1> QED BY <1>6, <1>7, <1>11, <1>12 DEF MapInv

\* What a bucket holds when pushes into it may have been refused.
LEMMA Filled ==
  ASSUME ReasonableUse, NEW es \in SUBSET Entry, NEW x \in Fillings(es)
  PROVE  /\ (IF x = NULL THEN {} ELSE x) \subseteq es
         /\ "move" \notin failing => (IF x = NULL THEN {} ELSE x) = es
BY DEF Fillings, ReasonableUse

\* While old bucket b is split, its entries go to b and to b + capacity, which is empty,
\* and if no move is refused nothing is lost.
LEMMA RehashNextStep ==
  ASSUME MapInv, ReasonableUse, UNCHANGED failing, RehashNext
  PROVE  MapInv' /\ ("move" \notin failing => Entries' = Entries)
<1> DEFINE b == old_index
           c == capacity
           high == {e \in Bucket(b) : GoesHigh(e.hash)}
           Low(h) == h % c
           Up(h) == h % (2 * c)
<1>1. /\ pc = "rehash" /\ b \in Nat /\ c \in Nat /\ b < c /\ c >= 1 /\ map
      /\ NewCapacity = 2 * c /\ DOMAIN buckets = 0 .. 2 * c - 1
      /\ b \in DOMAIN buckets /\ b + c \in DOMAIN buckets /\ b # b + c
  BY DEF RehashNext, MapInv, CallInv, EntriesInPlace, TypeOK
<1>2. /\ old_index' = b + 1
      /\ UNCHANGED <<map, capacity, threshold, size, owner, pc, arg>>
  BY DEF RehashNext
<1>3. \A j \in DOMAIN buckets : \A e \in Bucket(j) :
        /\ e \in Entry /\ e.hash \in Nat /\ e.hash = HashOf(e.key)
        /\ (Low(e.hash) < b => j = Up(e.hash))
        /\ (~(Low(e.hash) < b) => j = Low(e.hash))
  BY <1>1, HashNat DEF Place, MapInv, EntriesInPlace, TypeOK, Entry
<1>4. ASSUME NEW h \in Nat
      PROVE  /\ Low(h) \in 0 .. c - 1
             /\ Up(h) = IF GoesHigh(h) THEN Low(h) + c ELSE Low(h)
  <2>1. Low(h) \in 0 .. c - 1
    BY <1>1, Quotient
  <2>2. c \in Nat \ {0}
    BY <1>1
  <2>3. Up(h) = Low(h) + (IF GoesHigh(h) THEN c ELSE 0)
    BY <2>2, Doubled, Zenon DEF GoesHigh
  <2> HIDE DEF Low, Up
  <2> QED BY <1>1, <2>1, <2>3
<1>5. \A h : Place(h)' = IF Low(h) < b + 1 THEN Up(h) ELSE Low(h)
  BY <1>1, <1>2 DEF Place
<1> HIDE DEF Low, Up
<1>6. Bucket(b + c) = {}
  <2>1. ASSUME NEW e \in Bucket(b + c)
        PROVE  FALSE
    <3>1. /\ e.hash \in Nat
          /\ Low(e.hash) < b => b + c = Up(e.hash)
          /\ ~(Low(e.hash) < b) => b + c = Low(e.hash)
      BY <1>1, <1>3, <2>1
    <3>2. /\ Low(e.hash) \in 0 .. c - 1
          /\ Up(e.hash) \in {Low(e.hash), Low(e.hash) + c}
      BY <1>1, <1>4, <3>1
    <3> QED BY <1>1, <3>1, <3>2
  <2> QED BY <2>1
<1>7. \A e \in Bucket(b) : Low(e.hash) = b
  <2>1. ASSUME NEW e \in Bucket(b)
        PROVE  Low(e.hash) = b
    <3>1. /\ e.hash \in Nat
          /\ Low(e.hash) < b => b = Up(e.hash)
          /\ ~(Low(e.hash) < b) => b = Low(e.hash)
      BY <1>1, <1>3, <2>1
    <3>2. /\ Low(e.hash) \in 0 .. c - 1
          /\ Up(e.hash) \in {Low(e.hash), Low(e.hash) + c}
      BY <1>1, <1>4, <3>1
    <3> QED BY <1>1, <3>1, <3>2
  <2> QED BY <2>1
<1>8. \E L \in SUBSET (Bucket(b) \ high), H \in SUBSET high :
        /\ DOMAIN buckets' = DOMAIN buckets
        /\ \A j \in DOMAIN buckets :
             Bucket(j)' = IF j = b THEN L ELSE IF j = b + c THEN H ELSE Bucket(j)
        /\ "move" \notin failing => L = Bucket(b) \ high /\ H = high
  <2>1. CASE buckets[b] = NULL
    <3>1. Bucket(b) = {} /\ high = {}
      BY <2>1 DEF Bucket
    <3>2. buckets' = buckets
      BY <2>1 DEF RehashNext
    <3>3. \A j \in DOMAIN buckets :
             Bucket(j)' = IF j = b THEN {} ELSE IF j = b + c THEN {} ELSE Bucket(j)
      BY <1>6, <3>1, <3>2 DEF Bucket
    <3> QED BY <3>1, <3>2, <3>3
  <2>2. CASE buckets[b] # NULL
    <3>1. PICK lo \in Fillings(Bucket(b) \ high), hi \in Fillings(high) :
            buckets' = [buckets EXCEPT ![b] = lo, ![b + c] = hi]
      BY <2>2 DEF RehashNext
    <3> DEFINE L == IF lo = NULL THEN {} ELSE lo
               H == IF hi = NULL THEN {} ELSE hi
    <3>2. Bucket(b) \ high \in SUBSET Entry /\ high \in SUBSET Entry
      BY <1>1, <1>3
    <3>3. /\ L \in SUBSET (Bucket(b) \ high)
          /\ "move" \notin failing => L = Bucket(b) \ high
      BY <3>1, <3>2, Filled
    <3>4. /\ H \in SUBSET high
          /\ "move" \notin failing => H = high
      BY <3>1, <3>2, Filled
    <3>5. DOMAIN buckets' = DOMAIN buckets
      BY <3>1
    <3>6. \A j \in DOMAIN buckets :
            Bucket(j)' = IF j = b THEN L ELSE IF j = b + c THEN H ELSE Bucket(j)
      BY <1>1, <3>1, <3>5 DEF Bucket
    <3> HIDE DEF L, H, high
    <3> QED BY <3>3, <3>4, <3>5, <3>6
  <2> QED BY <2>1, <2>2
<1>9. PICK L \in SUBSET (Bucket(b) \ high), H \in SUBSET high :
        /\ DOMAIN buckets' = DOMAIN buckets
        /\ \A j \in DOMAIN buckets :
             Bucket(j)' = IF j = b THEN L ELSE IF j = b + c THEN H ELSE Bucket(j)
        /\ "move" \notin failing => L = Bucket(b) \ high /\ H = high
  BY <1>8
<1>10. \A e \in high : e \in Bucket(b) /\ GoesHigh(e.hash)
  OBVIOUS
<1>11. \A e \in Bucket(b) \ high : e \in Bucket(b) /\ ~GoesHigh(e.hash)
  OBVIOUS
<1> HIDE DEF high
<1>12. Entries' \subseteq Entries
  <2>1. ASSUME NEW e \in Entries'
        PROVE  e \in Entries
    <3>1. PICK j \in DOMAIN buckets' : e \in Bucket(j)'
      BY <2>1 DEF Entries
    <3>2. \E l \in DOMAIN buckets : e \in Bucket(l)
      BY <1>1, <1>9, <1>10, <3>1
    <3> QED BY <3>2 DEF Entries
  <2> QED BY <2>1
<1>13. "move" \notin failing => Entries' = Entries
  <2>1. ASSUME "move" \notin failing, NEW e \in Entries
        PROVE  e \in Entries'
    <3>1. PICK j \in DOMAIN buckets : e \in Bucket(j)
      BY <2>1 DEF Entries
    <3>2. \E l \in DOMAIN buckets' : e \in Bucket(l)'
      <4>1. CASE j = b /\ e \in high
        BY <1>1, <1>9, <2>1, <4>1
      <4>2. CASE j = b /\ e \notin high
        BY <1>1, <1>9, <2>1, <3>1, <4>2
      <4>3. CASE j # b
        BY <1>6, <1>9, <3>1, <4>3
      <4> QED BY <4>1, <4>2, <4>3
    <3> QED BY <3>2 DEF Entries
  <2> QED BY <1>12, <2>1
<1>14. (KeysUnique /\ SizeExact /\ OwnershipExact /\ IsFiniteSet(Entries))'
  BY <1>2, <1>12, <1>13, EntriesKept
<1>15. ASSUME NEW j \in DOMAIN buckets', NEW e \in Bucket(j)'
       PROVE  e \in Entry /\ e.hash = HashOf(e.key) /\ Place(e.hash)' = j
  <2>2. CASE j = b
    <3>1. e \in Bucket(b) /\ ~GoesHigh(e.hash)
      BY <1>1, <1>9, <1>11, <1>15, <2>2
    <3>2. e \in Entry /\ e.hash \in Nat /\ e.hash = HashOf(e.key) /\ Low(e.hash) = b
      BY <1>1, <1>3, <1>7, <3>1
    <3>3. Up(e.hash) = b
      BY <1>1, <1>4, <3>1, <3>2
    <3> QED BY <1>1, <1>5, <2>2, <3>2, <3>3
  <2>3. CASE j = b + c
    <3>1. e \in Bucket(b) /\ GoesHigh(e.hash)
      BY <1>1, <1>9, <1>10, <1>15, <2>3
    <3>2. e \in Entry /\ e.hash \in Nat /\ e.hash = HashOf(e.key) /\ Low(e.hash) = b
      BY <1>1, <1>3, <1>7, <3>1
    <3>3. Up(e.hash) = b + c
      BY <1>1, <1>4, <3>1, <3>2
    <3> QED BY <1>1, <1>5, <2>3, <3>2, <3>3
  <2>4. CASE j # b /\ j # b + c
    <3>1. j \in DOMAIN buckets /\ e \in Bucket(j)
      BY <1>9, <1>15, <2>4
    <3>2. /\ e \in Entry /\ e.hash \in Nat /\ e.hash = HashOf(e.key)
          /\ Low(e.hash) < b => j = Up(e.hash)
          /\ ~(Low(e.hash) < b) => j = Low(e.hash)
      BY <1>3, <3>1
    <3>3. Low(e.hash) \in 0 .. c - 1
      BY <1>4, <3>2
    <3>4. Low(e.hash) # b
      BY <1>1, <2>4, <3>2
    <3> QED BY <1>1, <1>5, <3>2, <3>3, <3>4
  <2> QED BY <2>2, <2>3, <2>4
<1>16. NewCapacity' = NewCapacity
  BY <1>2 DEF NewCapacity
<1>17. TypeOK'
  BY <1>1, <1>2, <1>9, <1>15, <1>16 DEF MapInv, EntriesInPlace, TypeOK
<1>18. EntriesInPlace'
  BY <1>15, <1>17 DEF EntriesInPlace, HashOf
<1>19. CallInv' /\ LoadInv'
  BY <1>1, <1>2, <1>16 DEF MapInv, CallInv, LoadInv
<1> QED BY <1>13, <1>14, <1>18, <1>19 DEF MapInv

\* When all the old buckets are split the table has its new size, and room.
LEMMA RehashDoneStep ==
  ASSUME MapInv, ReasonableUse, UNCHANGED failing, RehashDone
  PROVE  MapInv' /\ Entries' = Entries
<1> DEFINE c == capacity
<1>1. /\ pc = "rehash" /\ old_index = c /\ c \in Nat /\ c >= 1 /\ map
      /\ NewCapacity = 2 * c /\ DOMAIN buckets = 0 .. 2 * c - 1
  BY DEF RehashDone, MapInv, CallInv, EntriesInPlace, TypeOK
<1>2. /\ capacity' = 2 * c /\ threshold' = ThresholdOf(2 * c)
      /\ pc' = "insert" /\ old_index' = 0
      /\ UNCHANGED <<map, buckets, size, owner, arg>>
  BY <1>1 DEF RehashDone
<1>3. Entries' = Entries /\ \A j : Bucket(j)' = Bucket(j)
  BY <1>2 DEF Entries, Bucket
<1>4. (KeysUnique /\ SizeExact /\ OwnershipExact /\ IsFiniteSet(Entries))'
  BY <1>2, <1>3, EntriesKept
<1>5. ThresholdOf(2 * c) \in Nat
  BY <1>1 DEF ThresholdOf
<1>6. TypeOK'
  BY <1>1, <1>2, <1>3, <1>5 DEF MapInv, EntriesInPlace, TypeOK
<1>7. ASSUME NEW j \in DOMAIN buckets, NEW e \in Bucket(j)
      PROVE  e.hash = HashOf(e.key) /\ Place(e.hash)' = j
  <2>1. e.hash = HashOf(e.key) /\ Place(e.hash) = j /\ e \in Entry
    BY DEF MapInv, EntriesInPlace, TypeOK
  <2>2. e.hash \in Nat
    BY <2>1, HashNat DEF Entry
  <2>3. e.hash % c < c
    BY <1>1, <2>2, Quotient
  <2> QED BY <1>1, <1>2, <2>1, <2>3 DEF Place
<1>8. EntriesInPlace'
  BY <1>2, <1>3, <1>6, <1>7 DEF EntriesInPlace, HashOf
<1>9. size < ThresholdOf(2 * c)
  BY <1>1 DEF MapInv, LoadInv, ThresholdOf, EntriesInPlace, TypeOK
<1>10. CallInv' /\ LoadInv'
  BY <1>1, <1>2, <1>5, <1>9 DEF MapInv, CallInv, LoadInv, EntriesInPlace, TypeOK
<1> QED BY <1>3, <1>4, <1>8, <1>10 DEF MapInv

-----------------------------------------------------------------------------
(* The other calls.                                                        *)

\* A new table is empty.
LEMMA CreateStep ==
  ASSUME MapInv, ReasonableUse, UNCHANGED failing,
         NEW c \in Capacities, HashMap_create(c)
  PROVE  MapInv' /\ Entries' = Entries
<1>1. CASE UNCHANGED <<map, table>>
  <2>1. UNCHANGED <<failing, map, table, owner, old_index>>
    BY <1>1 DEF HashMap_create, call
  <2>2. arg' \in (Key \X Value) \cup {<<NULL, NULL>>} /\ UNCHANGED call
    BY DEF HashMap_create, call, MapInv, EntriesInPlace, TypeOK
  <2> QED BY <2>1, <2>2, NothingDone
<1>2. CASE /\ IsPowerOf2(c)
           /\ map' = TRUE
           /\ buckets' = [i \in 0 .. c - 1 |-> NULL]
           /\ capacity' = c /\ threshold' = ThresholdOf(c) /\ size' = 0
  <2>1. /\ c \in Nat /\ c >= 1 /\ ThresholdOf(c) \in Nat
    <3>1. c \in Nat
      BY ConstantsAssumption
    <3> QED BY <1>2, <3>1, SomeBucket DEF ThresholdOf
  <2>2. Entries = {} /\ ~map /\ pc = "idle" /\ old_index = 0
    BY DEF HashMap_create, MapInv, CallInv
  <2>3. UNCHANGED <<owner, pc, old_index, arg>>
    BY DEF HashMap_create, call
  <2>4. DOMAIN buckets' = 0 .. c - 1 /\ \A i \in DOMAIN buckets' : Bucket(i)' = {}
    BY <1>2 DEF Bucket
  <2>5. Entries' = {}
    BY <2>4 DEF Entries
  <2>6. EntriesInPlace'
    BY <1>2, <2>1, <2>2, <2>3, <2>4 DEF MapInv, EntriesInPlace, TypeOK
  <2>7. /\ KeysUnique' /\ OwnershipExact'
    BY <2>2, <2>3, <2>5 DEF MapInv, KeysUnique, OwnershipExact, Pointers
  <2>8. SizeExact' /\ IsFiniteSet(Entries')
    BY <1>2, <2>5, FS_EmptySet DEF SizeExact
  <2>9. CallInv' /\ LoadInv'
    BY <1>2, <2>1, <2>2, <2>3 DEF CallInv, LoadInv
  <2> QED BY <2>2, <2>5, <2>6, <2>7, <2>8, <2>9 DEF MapInv
<1> QED BY <1>1, <1>2 DEF HashMap_create

\* An entry that is removed is freed with its key and its value.
LEMMA RemoveStep ==
  ASSUME MapInv, ReasonableUse, UNCHANGED failing,
         NEW k \in Key, HashMap_remove(k)
  PROVE  /\ MapInv'
         /\ \/ \E e \in Found(k) :
                 /\ Entries' = Entries \ {e}
                 /\ owner' = Give({e.key, e.value}, "freed")
                 /\ ret' = <<"remove", k, TRUE>>
            \/ /\ Found(k) = {} /\ Entries' = Entries /\ owner' = owner
               /\ ret' = <<"remove", k, FALSE>>
<1>1. /\ map /\ pc = "idle" /\ arg \in (Key \X Value) \cup {<<NULL, NULL>>}
      /\ UNCHANGED <<map, capacity, threshold, pc, old_index, arg>>
  BY DEF HashMap_remove, Idle, call, MapInv, EntriesInPlace, TypeOK
<1>2. CASE /\ Found(k) = {} /\ ret' = <<"remove", k, FALSE>>
           /\ UNCHANGED <<buckets, owner, size>>
  <2>1. UNCHANGED <<failing, map, table, owner, old_index>> /\ UNCHANGED call
    BY <1>1, <1>2 DEF table, call
  <2> QED BY <1>1, <1>2, <2>1, NothingDone
<1>3. ASSUME NEW e \in Found(k),
             buckets' = [buckets EXCEPT ![IndexOf(HashOf(k))] = @ \ {e}],
             owner' = Give({e.key, e.value}, "freed"),
             size' = size - 1
      PROVE  MapInv' /\ Entries' = Entries \ {e}
  <2> DEFINE i == IndexOf(HashOf(k))
  <2>1. /\ i \in DOMAIN buckets /\ e \in Bucket(i)
        /\ e \in Entries /\ ContentOf[e.key] = ContentOf[k]
    BY <1>1, FoundExact DEF MapInv, CallInv
  <2>2. Bucket(i) = buckets[i] /\ e \in Entry
    BY <2>1 DEF Bucket, MapInv, EntriesInPlace, TypeOK
  <2>3. buckets' = [buckets EXCEPT ![i] = Bucket(i) \ {e}]
    BY <1>3, <2>2
  <2> HIDE DEF i
  <2>4. /\ IsFiniteSet(Entries \ {e}) /\ Cardinality(Entries) \in Nat
        /\ Cardinality(Entries \ {e}) = Cardinality(Entries) - 1
        /\ Cardinality(Entries \ {e}) \in Nat
    <3>1. IsFiniteSet(Entries)
      BY DEF MapInv
    <3>2. /\ IsFiniteSet(Entries \ {e})
          /\ Cardinality(Entries \ {e}) = Cardinality(Entries) - 1
      BY <2>1, <3>1, FS_RemoveElement
    <3> QED BY <3>1, <3>2, FS_CardinalityType
  <2>5. /\ size \in Nat /\ size >= Cardinality(Entries)
        /\ failing \cap {"node", "move"} = {} => size = Cardinality(Entries)
    BY DEF MapInv, SizeExact, EntriesInPlace, TypeOK
  <2>6. size' \in Nat
    BY <1>3, <2>4, <2>5
  <2>7. owner' \in [Key \cup Value -> {"caller", "map", "freed"}]
    BY <1>3 DEF Give, MapInv, EntriesInPlace, TypeOK
  <2>8. EntriesInPlace' /\ CallInv' /\ Entries' = Entries \ {e}
    <3> DEFINE gone == {e}
               new == {}
    <3>1. gone \in SUBSET Bucket(i) /\ new \in SUBSET Entry
      BY <2>1
    <3>2. \A g \in new : g.hash = HashOf(g.key) /\ IndexOf(g.hash) = i
      OBVIOUS
    <3>3. buckets' = [buckets EXCEPT ![i] = (Bucket(i) \ gone) \cup new]
      BY <2>3
    <3> HIDE DEF gone, new
    <3>4. EntriesInPlace' /\ CallInv' /\ Entries' = (Entries \ gone) \cup new
      BY <1>1, <2>1, <2>6, <2>7, <3>1, <3>2, <3>3, PlacedAgain
    <3> QED BY <3>4 DEF gone, new
  <2>9. IsFiniteSet(Entries') /\ Cardinality(Entries') = Cardinality(Entries) - 1
    BY <2>4, <2>8
  <2>10. SizeExact'
    BY <1>3, <2>4, <2>5, <2>9 DEF SizeExact
  <2>11. KeysUnique'
    BY <2>8 DEF MapInv, KeysUnique
  <2>12. OwnershipExact'
    <3>1. \A g \in Entries : g \in Entry
      BY DEF MapInv, EntriesInPlace, TypeOK, Entries
    <3>2. \A p \in Key \cup Value :
            owner'[p] = IF p = e.key \/ p = e.value THEN "freed" ELSE owner[p]
      BY <1>3 DEF Give
    <3>3. \A g \in Entries' : owner'[g.key] = "map" /\ owner'[g.value] = "map"
      <4>1. ASSUME NEW g \in Entries'
            PROVE  owner'[g.key] = "map" /\ owner'[g.value] = "map"
        <5>1. g \in Entries /\ g.key # e.key /\ g.value # e.value
          BY <2>1, <2>8 DEF MapInv, OwnershipExact
        <5>2. g.key # e.value /\ g.value # e.key /\ g.key \in Key /\ g.value \in Value
          BY <2>2, <3>1, <5>1, ConstantsAssumption DEF Entry
        <5>3. owner[g.key] = "map" /\ owner[g.value] = "map"
          BY <5>1 DEF MapInv, OwnershipExact, Pointers
        <5> QED BY <3>2, <5>1, <5>2, <5>3
      <4> QED BY <4>1
    <3>4. ASSUME "move" \notin failing, NEW p \in Key \cup Value, owner'[p] = "map"
          PROVE  \E g \in Entries' : p = g.key \/ p = g.value
      <4>1. owner[p] = "map" /\ p # e.key /\ p # e.value
        BY <3>2, <3>4
      <4>2. PICK g \in Entries : p = g.key \/ p = g.value
        BY <3>4, <4>1 DEF MapInv, OwnershipExact, Pointers
      <4> QED BY <2>8, <4>1, <4>2
    <3>5. \A g, h \in Entries' : g.key = h.key \/ g.value = h.value => g = h
      BY <2>8 DEF MapInv, OwnershipExact
    <3> QED BY <3>3, <3>4, <3>5 DEF OwnershipExact, Pointers
  <2>13. LoadInv'
    BY <1>1, <1>3, <2>5 DEF MapInv, LoadInv, EntriesInPlace, TypeOK
  <2> QED BY <2>8, <2>9, <2>10, <2>11, <2>12, <2>13 DEF MapInv
<1> QED BY <1>2, <1>3, Zenon DEF HashMap_remove

\* After a clear, or the end of the map, nothing of it is left, and what it owned is freed.
LEMMA EmptiedStep ==
  ASSUME MapInv, UNCHANGED failing, pc = "idle", UNCHANGED call,
         map' \in BOOLEAN, map' => map /\ capacity' >= 1,
         threshold' = IF map' THEN ThresholdOf(capacity') ELSE 0,
         capacity' = IF map' THEN capacity ELSE 0,
         size' = 0, buckets' = [i \in 0 .. capacity' - 1 |-> NULL],
         owner' = Give(Pointers(Entries), "freed")
  PROVE  MapInv' /\ Entries' = {}
<1>1. capacity' \in Nat /\ threshold' \in Nat /\ pc' = "idle" /\ old_index' = 0 /\ arg' = arg
  BY DEF MapInv, CallInv, EntriesInPlace, TypeOK, call, ThresholdOf
<1>2. /\ DOMAIN buckets' = 0 .. capacity' - 1
      /\ \A i \in DOMAIN buckets' : Bucket(i)' = {}
  BY DEF Bucket
<1>3. Entries' = {}
  BY <1>2 DEF Entries
<1>4. owner' \in [Key \cup Value -> {"caller", "map", "freed"}]
  BY DEF Give, MapInv, EntriesInPlace, TypeOK
<1>5. EntriesInPlace'
  BY <1>1, <1>2, <1>4 DEF MapInv, EntriesInPlace, TypeOK
<1>6. KeysUnique'
  BY <1>3 DEF KeysUnique
<1>7. OwnershipExact'
  <2>1. \A p \in Key \cup Value :
          owner'[p] = IF p \in Pointers(Entries) THEN "freed" ELSE owner[p]
    BY DEF Give
  <2>2. "move" \notin failing =>
          \A p \in Key \cup Value : owner[p] = "map" => p \in Pointers(Entries)
    BY DEF MapInv, OwnershipExact
  <2> QED BY <1>3, <2>1, <2>2 DEF OwnershipExact, Pointers
<1>8. SizeExact' /\ IsFiniteSet(Entries')
  BY <1>3, FS_EmptySet DEF SizeExact
<1>9. CallInv' /\ LoadInv'
  BY <1>1, <1>3 DEF MapInv, CallInv, LoadInv
<1> QED BY <1>3, <1>5, <1>6, <1>7, <1>8, <1>9 DEF MapInv

\* What the client allocates again is in no entry.
LEMMA AllocStep ==
  ASSUME MapInv, UNCHANGED failing, NEW p \in Key \cup Value, Client_alloc(p)
  PROVE  MapInv' /\ Entries' = Entries
<1>1. /\ pc = "idle" /\ owner[p] = "freed" /\ owner' = [owner EXCEPT ![p] = "caller"]
      /\ UNCHANGED <<map, buckets, capacity, threshold, size, pc, old_index, arg>>
  BY DEF Client_alloc, table, call
<1>2. Entries' = Entries /\ NewCapacity' = NewCapacity
  BY <1>1 DEF Entries, Bucket, NewCapacity
<1>3. TypeOK'
  BY <1>1, <1>2 DEF MapInv, EntriesInPlace, TypeOK, Bucket
<1>4. \A h : Place(h)' = Place(h)
  BY <1>1 DEF Place
<1>5. EntriesInPlace'
  BY <1>1, <1>3, <1>4 DEF MapInv, EntriesInPlace, Bucket, HashOf
<1>6. KeysUnique' /\ SizeExact' /\ IsFiniteSet(Entries')
  BY <1>1, <1>2 DEF MapInv, KeysUnique, SizeExact
<1>7. OwnershipExact'
  <2>1. \A q \in Key \cup Value : owner'[q] = IF q = p THEN "caller" ELSE owner[q]
    BY <1>1 DEF MapInv, EntriesInPlace, TypeOK
  <2>2. \A e \in Entries : e.key \in Key /\ e.value \in Value
    BY DEF MapInv, EntriesInPlace, TypeOK, Entries, Entry
  <2> QED BY <1>1, <1>2, <2>1, <2>2 DEF MapInv, OwnershipExact, Pointers
<1>8. CallInv' /\ LoadInv'
  BY <1>1, <1>2 DEF MapInv, CallInv, LoadInv
<1> QED BY <1>2, <1>5, <1>6, <1>7, <1>8 DEF MapInv

\* A put that has to grow the table either starts to or fails, and one that has room
\* inserts.
LEMMA PutStep ==
  ASSUME MapInv, ReasonableUse, UNCHANGED failing,
         NEW k \in Key, NEW v \in Value, HashMap_put(k, v)
  PROVE  MapInv'
<1>1. /\ Idle /\ map /\ pc = "idle" /\ owner[k] # "freed" /\ owner[v] = "caller"
      /\ size \in Nat /\ threshold \in Nat
      /\ arg \in (Key \X Value) \cup {<<NULL, NULL>>}
  BY DEF HashMap_put, Idle, MapInv, LoadInv, EntriesInPlace, TypeOK, ThresholdOf
<1>2. CASE ~Full /\ Insert(k, v) /\ UNCHANGED call
  <2>1. size < threshold
    BY <1>1, <1>2 DEF Full
  <2>2. pc # "rehash" /\ pc' = "idle" /\ old_index' = old_index /\ arg' = arg
    BY <1>1, <1>2 DEF call
  <2> QED BY <1>1, <1>2, <2>1, <2>2, InsertStep
<1>3. CASE StartRehash(k, v) /\ UNCHANGED map
  BY <1>1, <1>3, StartRehashStep
<1>4. CASE CannotGrow(k, v) /\ UNCHANGED map
  <2>1. UNCHANGED <<failing, map, table, owner, old_index>> /\ UNCHANGED call /\ arg' = arg
    BY <1>4 DEF CannotGrow, call
  <2> QED BY <1>1, <2>1, NothingDone
<1> QED BY <1>2, <1>3, <1>4 DEF HashMap_put

\* The put that has grown the table has room.
LEMMA PutInsertStep ==
  ASSUME MapInv, ReasonableUse, UNCHANGED failing, PutInsert
  PROVE  MapInv'
<1>1. /\ pc = "insert" /\ map /\ arg[1] \in Key /\ arg[2] \in Value
      /\ owner[arg[2]] = "caller" /\ size < threshold
  BY DEF PutInsert, MapInv, CallInv, LoadInv
<1>2. /\ Insert(arg[1], arg[2]) /\ pc # "rehash" /\ pc' = "idle" /\ old_index' = old_index
      /\ arg' \in (Key \X Value) \cup {<<NULL, NULL>>}
  BY <1>1 DEF PutInsert
<1> QED BY <1>1, <1>2, InsertStep

-----------------------------------------------------------------------------
(* The invariant.                                                          *)

\* In the beginning there is no map.
LEMMA InitInv == Init => MapInv
<1> SUFFICES ASSUME Init PROVE MapInv
  OBVIOUS
<1>1. DOMAIN buckets = {} /\ Entries = {}
  BY DEF Init, Entries
<1>2. EntriesInPlace
  <2>1. DOMAIN buckets = 0 .. capacity - 1
    BY <1>1 DEF Init
  <2>2. owner \in [Key \cup Value -> {"caller", "map", "freed"}]
    BY DEF Init
  <2>3. map \in BOOLEAN
    BY Zenon DEF Init
  <2>4. arg \in (Key \X Value) \cup {<<NULL, NULL>>}
    BY DEF Init
  <2>5. old_index \in 0 .. capacity /\ pc = "idle" /\ failing \in Heaps
    BY DEF Init
  <2>6. capacity \in Nat /\ threshold \in Nat /\ size \in Nat
    BY DEF Init
  <2>7. TypeOK
    BY <1>1, <2>1, <2>2, <2>3, <2>4, <2>5, <2>6 DEF TypeOK
  <2> QED BY <1>1, <2>7 DEF EntriesInPlace
<1>3. SizeExact /\ IsFiniteSet(Entries)
  BY <1>1, FS_EmptySet DEF Init, SizeExact
<1>4. KeysUnique /\ OwnershipExact
  BY <1>1 DEF Init, KeysUnique, OwnershipExact, Pointers
<1>5. CallInv /\ LoadInv
  BY <1>1 DEF Init, CallInv, LoadInv
<1> QED BY <1>2, <1>3, <1>4, <1>5 DEF MapInv

\* Every step keeps it.
LEMMA NextInv == ReasonableUse /\ MapInv /\ [Next]_vars => MapInv'
<1> SUFFICES ASSUME ReasonableUse, MapInv, [Next]_vars
             PROVE  MapInv'
  OBVIOUS
<1>1. arg \in (Key \X Value) \cup {<<NULL, NULL>>}
  BY DEF MapInv, EntriesInPlace, TypeOK
<1>2. CASE UNCHANGED vars
  <2>1. UNCHANGED <<failing, map, table, owner, old_index>> /\ UNCHANGED call /\ arg' = arg
    BY <1>2 DEF vars, call
  <2> QED BY <1>1, <2>1, NothingDone
<1>3. CASE Next
  <2>1. UNCHANGED failing
    BY <1>3 DEF Next
  <2>2. CASE RehashNext
    BY <2>1, <2>2, RehashNextStep
  <2>3. CASE RehashDone
    BY <2>1, <2>3, RehashDoneStep
  <2>4. CASE PutInsert
    BY <2>1, <2>4, PutInsertStep
  <2>5. CASE \E c \in Capacities : HashMap_create(c)
    BY <2>1, <2>5, CreateStep
  <2>6. CASE \E k \in Key, v \in Value : HashMap_put(k, v)
    BY <2>1, <2>6, PutStep
  <2>7. CASE \E k \in Key : HashMap_get(k)
    <3>1. UNCHANGED <<failing, map, table, owner, old_index>> /\ UNCHANGED call /\ arg' = arg
      BY <2>1, <2>7 DEF HashMap_get, call
    <3> QED BY <1>1, <3>1, NothingDone
  <2>8. CASE \E k \in Key : HashMap_remove(k)
    BY <2>1, <2>8, RemoveStep
  <2>9. CASE HashMap_clear
    <3>1. /\ pc = "idle" /\ map /\ map' = TRUE /\ capacity >= 1
          /\ DOMAIN buckets = 0 .. capacity - 1 /\ threshold = ThresholdOf(capacity)
      BY <2>9 DEF HashMap_clear, Idle, MapInv, CallInv, LoadInv, EntriesInPlace, TypeOK
    <3>2. /\ UNCHANGED <<capacity, threshold>> /\ UNCHANGED call /\ size' = 0
          /\ buckets' = [i \in 0 .. capacity' - 1 |-> NULL]
          /\ owner' = Give(Pointers(Entries), "freed")
      BY <2>9, <3>1 DEF HashMap_clear
    <3> QED BY <2>1, <3>1, <3>2, EmptiedStep
  <2>10. CASE HashMap_destroy
    <3>1. pc = "idle" /\ map' = FALSE /\ UNCHANGED call /\ capacity' = 0
      BY <2>10 DEF HashMap_destroy, Idle
    <3>2. /\ threshold' = 0 /\ size' = 0 /\ 0 .. capacity' - 1 = {}
          /\ owner' = Give(Pointers(Entries), "freed")
      BY <2>10, <3>1 DEF HashMap_destroy
    <3>3. buckets' = [i \in 0 .. capacity' - 1 |-> NULL]
      BY <2>10, <3>2 DEF HashMap_destroy
    <3> QED BY <2>1, <3>1, <3>2, <3>3, EmptiedStep
  <2>11. CASE \E p \in Key \cup Value : Client_alloc(p)
    BY <2>1, <2>11, AllocStep
  <2> QED BY <1>3, <2>2, <2>3, <2>4, <2>5, <2>6, <2>7, <2>8, <2>9, <2>10, <2>11
          DEF Next, Step, Calls
<1> QED BY <1>2, <1>3

\* So it holds always.
LEMMA AlwaysMapInv ==
  ASSUME ReasonableUse
  PROVE  Spec => []MapInv
<1>1. Init => MapInv
  BY InitInv
<1>2. MapInv /\ [Next]_vars => MapInv'
  BY NextInv
<1> QED BY <1>1, <1>2, PTL DEF Spec

-----------------------------------------------------------------------------
(* What the calls are to the client.                                       *)

\* The client's view of a set of entries.
DictOf(S) ==
  [c \in Range(ContentOf) |->
     LET es == {e \in S : ContentOf[e.key] = c}
     IN  IF es = {} THEN NULL
         ELSE LET e == CHOOSE e \in es : TRUE IN <<e.key, e.value>>]

\* It shows the one entry there is for a content.
LEMMA DictShows ==
  ASSUME NEW S, \A e, f \in S : ContentOf[e.key] = ContentOf[f.key] => e = f,
         NEW c \in Range(ContentOf)
  PROVE  /\ \A e \in S : ContentOf[e.key] = c => DictOf(S)[c] = <<e.key, e.value>>
         /\ (\A e \in S : ContentOf[e.key] # c) => DictOf(S)[c] = NULL
<1> DEFINE es == {e \in S : ContentOf[e.key] = c}
<1>1. DictOf(S)[c] = IF es = {} THEN NULL
                     ELSE LET e == CHOOSE e \in es : TRUE IN <<e.key, e.value>>
  BY DEF DictOf
<1>2. ASSUME NEW e \in S, ContentOf[e.key] = c
      PROVE  DictOf(S)[c] = <<e.key, e.value>>
  <2>1. es = {e}
    BY <1>2
  <2>2. (CHOOSE f \in es : TRUE) = e
    BY <2>1
  <2> HIDE DEF es
  <2> QED BY <1>1, <2>1, <2>2
<1>3. (\A e \in S : ContentOf[e.key] # c) => DictOf(S)[c] = NULL
  BY <1>1
<1> QED BY <1>2, <1>3

\* The same, of the map before and after a step.
LEMMA DictFacts ==
  ASSUME MapInv, MapInv'
  PROVE  /\ DOMAIN Dict = Range(ContentOf) /\ DOMAIN Dict' = Range(ContentOf)
         /\ Dict = DictOf(Entries) /\ Dict' = DictOf(Entries')
         /\ \A e \in Entries : /\ e \in Entry /\ e.key \in Key /\ e.value \in Value
                               /\ ContentOf[e.key] \in Range(ContentOf)
                               /\ Dict[ContentOf[e.key]] = <<e.key, e.value>>
         /\ \A e \in Entries' : /\ e.key \in Key
                                /\ ContentOf[e.key] \in Range(ContentOf)
                                /\ Dict'[ContentOf[e.key]] = <<e.key, e.value>>
         /\ \A c \in Range(ContentOf) :
              /\ (\A e \in Entries : ContentOf[e.key] # c) => Dict[c] = NULL
              /\ (\A e \in Entries' : ContentOf[e.key] # c) => Dict'[c] = NULL
<1>1. Dict = DictOf(Entries) /\ Dict' = DictOf(Entries')
  BY DEF Dict, DictOf
<1>2. DOMAIN Dict = Range(ContentOf) /\ DOMAIN Dict' = Range(ContentOf)
  BY <1>1 DEF DictOf
<1>3. \A e \in Entries \cup Entries' :
        e \in Entry /\ e.key \in Key /\ e.value \in Value
  BY DEF MapInv, EntriesInPlace, TypeOK, Entries, Entry
<1>4. \A k \in Key : ContentOf[k] \in Range(ContentOf)
  BY ConstantsAssumption DEF Range
<1>5. \A e, f \in Entries : ContentOf[e.key] = ContentOf[f.key] => e = f
  BY DEF MapInv, KeysUnique
<1>6. \A e, f \in Entries' : ContentOf[e.key] = ContentOf[f.key] => e = f
  BY DEF MapInv, KeysUnique
<1> DEFINE S == Entries
           T == Entries'
<1> HIDE DEF S, T
<1>7. \A e, f \in S : ContentOf[e.key] = ContentOf[f.key] => e = f
  BY <1>5 DEF S
<1>8. \A e, f \in T : ContentOf[e.key] = ContentOf[f.key] => e = f
  BY <1>6 DEF T
<1>9. \A c \in Range(ContentOf) :
        /\ \A e \in S : ContentOf[e.key] = c => DictOf(S)[c] = <<e.key, e.value>>
        /\ (\A e \in S : ContentOf[e.key] # c) => DictOf(S)[c] = NULL
  BY <1>7, DictShows
<1>10. \A c \in Range(ContentOf) :
        /\ \A e \in T : ContentOf[e.key] = c => DictOf(T)[c] = <<e.key, e.value>>
        /\ (\A e \in T : ContentOf[e.key] # c) => DictOf(T)[c] = NULL
  BY <1>8, DictShows
<1>11. Dict = DictOf(S) /\ Dict' = DictOf(T)
  BY <1>1 DEF S, T
<1>12. /\ \A e \in S : Dict[ContentOf[e.key]] = <<e.key, e.value>>
       /\ \A e \in T : Dict'[ContentOf[e.key]] = <<e.key, e.value>>
  BY <1>3, <1>4, <1>9, <1>10, <1>11 DEF S, T
<1> QED BY <1>1, <1>2, <1>3, <1>4, <1>9, <1>10, <1>11, <1>12 DEF S, T

\* What is looked up is what the client sees.
LEMMA FoundIsSeen ==
  ASSUME MapInv, MapInv', ReasonableUse, map, pc # "rehash", NEW k \in Key
  PROVE  /\ ContentOf[k] \in Range(ContentOf)
         /\ \A e \in Found(k) : /\ e \in Entries /\ ContentOf[e.key] = ContentOf[k]
                                /\ Dict[ContentOf[k]] = <<e.key, e.value>>
                                /\ Dict[ContentOf[k]] # NULL
         /\ Found(k) = {} => /\ Dict[ContentOf[k]] = NULL
                             /\ \A e \in Entries : ContentOf[e.key] # ContentOf[k]
<1>1. \A e : e \in Found(k) <=> e \in Entries /\ ContentOf[e.key] = ContentOf[k]
  BY FoundExact DEF MapInv, CallInv
<1>2. ContentOf[k] \in Range(ContentOf)
  BY ConstantsAssumption DEF Range
<1>3. ASSUME NEW e \in Found(k)
      PROVE  /\ Dict[ContentOf[k]] = <<e.key, e.value>>
             /\ Dict[ContentOf[k]] # NULL
  <2>1. /\ Dict[ContentOf[e.key]] = <<e.key, e.value>>
        /\ e.key \in Key /\ e.value \in Value /\ ContentOf[e.key] = ContentOf[k]
    BY <1>1, DictFacts
  <2>2. <<e.key, e.value>> \in Key \X Value
    BY <2>1
  <2> QED BY <2>1, <2>2 DEF ReasonableUse
<1>4. Found(k) = {} => /\ Dict[ContentOf[k]] = NULL
                       /\ \A e \in Entries : ContentOf[e.key] # ContentOf[k]
  BY <1>1, <1>2, DictFacts
<1> QED BY <1>1, <1>2, <1>3, <1>4

\* A put that comes to its insertion is the put of the client's map.
LEMMA PutRefined ==
  ASSUME MapInv, MapInv', ReasonableUse, map, map' = map, pc # "rehash",
         NEW k \in Key, NEW v \in Value, owner[k] # "freed", owner[v] = "caller",
         \/ \E e \in Found(k) :
              /\ Entries' = (Entries \ {e}) \cup {[e EXCEPT !.value = v]}
              /\ owner' = [owner EXCEPT ![v] = "map", ![e.value] = "caller"]
              /\ ret' = <<"put", <<k, v>>, e.value>>
         \/ /\ Found(k) = {}
            /\ Entries' = Entries \cup {[key |-> k, value |-> v, hash |-> HashOf(k)]}
            /\ owner' = Give({k, v}, "map")
            /\ ret' = <<"put", <<k, v>>, NULL>>
         \/ /\ Entries' = Entries /\ owner' = owner
            /\ ret' = <<"put", <<k, v>>, NULL>>
  PROVE  Abstract!Put(k, v)
<1> DEFINE c == ContentOf[k]
<1>1. ASSUME NEW e \in Found(k),
             Entries' = (Entries \ {e}) \cup {[e EXCEPT !.value = v]},
             owner' = [owner EXCEPT ![v] = "map", ![e.value] = "caller"],
             ret' = <<"put", <<k, v>>, e.value>>
      PROVE  Abstract!Put(k, v)
  <2> DEFINE f == [e EXCEPT !.value = v]
  <2>1. /\ e \in Entries /\ ContentOf[e.key] = c /\ c \in Range(ContentOf)
        /\ Dict[c] = <<e.key, e.value>> /\ Dict[c] # NULL
    BY FoundIsSeen
  <2>2. e \in Entry
    BY <2>1, DictFacts
  <2>3. f.key = e.key /\ f.value = v
    BY <2>2 DEF Entry
  <2>4. f \in Entries' /\ \A g \in Entries' : g \in Entries \/ g = f
    BY <1>1
  <2>5. \A g \in Entries : g # e => g \in Entries' /\ ContentOf[g.key] # c
    BY <1>1, <2>1 DEF MapInv, KeysUnique
  <2> HIDE DEF f
  <2>6. Dict'[c] = <<e.key, v>>
    BY <2>1, <2>3, <2>4, DictFacts
  <2>7. ASSUME NEW d \in Range(ContentOf), d # c
        PROVE  Dict'[d] = Dict[d]
    <3>1. CASE \E g \in Entries : ContentOf[g.key] = d
      <4>1. PICK g \in Entries : ContentOf[g.key] = d
        BY <3>1
      <4>2. g \in Entries'
        BY <2>1, <2>5, <2>7, <4>1
      <4> QED BY <4>1, <4>2, DictFacts
    <3>2. CASE \A g \in Entries : ContentOf[g.key] # d
      <4>1. \A g \in Entries' : ContentOf[g.key] # d
        BY <2>1, <2>3, <2>4, <2>7, <3>2
      <4> QED BY <3>2, <4>1, DictFacts
    <3> QED BY <3>1, <3>2
  <2>8. Dict' = [Dict EXCEPT ![c] = <<e.key, v>>]
    <3>1. DOMAIN Dict = Range(ContentOf) /\ DOMAIN Dict' = Range(ContentOf)
      BY DictFacts
    <3>2. Dict' = DictOf(Entries')
      BY DictFacts
    <3>3. Dict' = [d \in Range(ContentOf) |-> Dict'[d]]
      BY <3>2 DEF DictOf
    <3> QED BY <2>1, <2>6, <2>7, <3>1, <3>3
  <2>9. [Dict[c] EXCEPT ![2] = v] = <<e.key, v>> /\ Dict[c][2] = e.value
    BY <2>1
  <2>10. Dict' = [Dict EXCEPT ![c][2] = v]
    BY <2>8, <2>9
  <2> QED BY <1>1, <2>1, <2>9, <2>10 DEF Abstract!Put
<1>2. ASSUME Found(k) = {},
             Entries' = Entries \cup {[key |-> k, value |-> v, hash |-> HashOf(k)]},
             owner' = Give({k, v}, "map"),
             ret' = <<"put", <<k, v>>, NULL>>
      PROVE  Abstract!Put(k, v)
  <2> DEFINE f == [key |-> k, value |-> v, hash |-> HashOf(k)]
  <2>1. /\ c \in Range(ContentOf) /\ Dict[c] = NULL
        /\ \A g \in Entries : ContentOf[g.key] # c
    BY <1>2, FoundIsSeen
  <2>2. f.key = k /\ f.value = v /\ Entries' = Entries \cup {f}
    BY <1>2
  <2> HIDE DEF f
  <2>3. Dict'[c] = <<k, v>>
    BY <2>2, DictFacts
  <2>4. ASSUME NEW d \in Range(ContentOf), d # c
        PROVE  Dict'[d] = Dict[d]
    <3>1. CASE \E g \in Entries : ContentOf[g.key] = d
      <4>1. PICK g \in Entries : ContentOf[g.key] = d
        BY <3>1
      <4>2. g \in Entries'
        BY <2>2
      <4> QED BY <4>1, <4>2, DictFacts
    <3>2. CASE \A g \in Entries : ContentOf[g.key] # d
      BY <2>2, <2>4, <3>2, DictFacts
    <3> QED BY <3>1, <3>2
  <2>5. Dict' = [Dict EXCEPT ![c] = <<k, v>>]
    <3>1. DOMAIN Dict = Range(ContentOf) /\ Dict' = DictOf(Entries')
      BY DictFacts
    <3>2. Dict' = [d \in Range(ContentOf) |-> Dict'[d]]
      BY <3>1 DEF DictOf
    <3> QED BY <2>1, <2>3, <2>4, <3>1, <3>2
  <2>6. owner' = Abstract!Give({k, v}, "map")
    BY <1>2 DEF Give, Abstract!Give
  <2> QED BY <1>2, <2>1, <2>5, <2>6 DEF Abstract!Put
<1>3. ASSUME Entries' = Entries, owner' = owner, ret' = <<"put", <<k, v>>, NULL>>
      PROVE  Abstract!Put(k, v)
  <2>1. Dict' = Dict
    BY <1>3, DictFacts
  <2> QED BY <1>3, <2>1 DEF Abstract!Put
<1> QED BY <1>1, <1>2, <1>3

\* So is a removal.
LEMMA RemoveRefined ==
  ASSUME MapInv, MapInv', ReasonableUse, NEW k \in Key, HashMap_remove(k),
         \/ \E e \in Found(k) :
              /\ Entries' = Entries \ {e}
              /\ owner' = Give({e.key, e.value}, "freed")
              /\ ret' = <<"remove", k, TRUE>>
         \/ /\ Found(k) = {} /\ Entries' = Entries /\ owner' = owner
            /\ ret' = <<"remove", k, FALSE>>
  PROVE  Abstract!Remove(k)
<1> DEFINE c == ContentOf[k]
<1>1. map /\ pc # "rehash" /\ owner[k] # "freed" /\ map' = map
  BY DEF HashMap_remove, Idle
<1>2. ASSUME NEW e \in Found(k), Entries' = Entries \ {e},
             owner' = Give({e.key, e.value}, "freed"), ret' = <<"remove", k, TRUE>>
      PROVE  Abstract!Remove(k)
  <2>1. /\ e \in Entries /\ ContentOf[e.key] = c /\ c \in Range(ContentOf)
        /\ Dict[c] = <<e.key, e.value>> /\ Dict[c] # NULL
    BY <1>1, FoundIsSeen
  <2>2. \A g \in Entries : ContentOf[g.key] # c => g \in Entries'
    BY <1>2, <2>1
  <2>3. \A g \in Entries' : g \in Entries /\ ContentOf[g.key] # c
    BY <1>2, <2>1 DEF MapInv, KeysUnique
  <2>4. Dict'[c] = NULL
    BY <2>1, <2>3, DictFacts
  <2>5. ASSUME NEW d \in Range(ContentOf), d # c
        PROVE  Dict'[d] = Dict[d]
    <3>1. CASE \E g \in Entries : ContentOf[g.key] = d
      <4>1. PICK g \in Entries : ContentOf[g.key] = d
        BY <3>1
      <4>2. g \in Entries'
        BY <2>2, <2>5, <4>1
      <4> QED BY <4>1, <4>2, DictFacts
    <3>2. CASE \A g \in Entries : ContentOf[g.key] # d
      BY <2>3, <3>2, DictFacts
    <3> QED BY <3>1, <3>2
  <2>6. Dict' = [Dict EXCEPT ![c] = NULL]
    <3>1. DOMAIN Dict = Range(ContentOf) /\ Dict' = DictOf(Entries')
      BY DictFacts
    <3>2. Dict' = [d \in Range(ContentOf) |-> Dict'[d]]
      BY <3>1 DEF DictOf
    <3> QED BY <2>1, <2>4, <2>5, <3>1, <3>2
  <2>7. owner' = Abstract!Give({Dict[c][1], Dict[c][2]}, "freed")
    BY <1>2, <2>1 DEF Give, Abstract!Give
  <2> QED BY <1>1, <1>2, <2>1, <2>6, <2>7 DEF Abstract!Remove
<1>3. ASSUME Found(k) = {}, Entries' = Entries, owner' = owner, ret' = <<"remove", k, FALSE>>
      PROVE  Abstract!Remove(k)
  <2>1. Dict[c] = NULL
    BY <1>1, <1>3, FoundIsSeen
  <2>2. Dict' = Dict
    BY <1>3, DictFacts
  <2> QED BY <1>1, <1>3, <2>1, <2>2 DEF Abstract!Remove
<1> QED BY <1>2, <1>3

\* And a clear, or the end of the map.
LEMMA ClearRefined ==
  ASSUME MapInv, MapInv', ReasonableUse, map, Entries' = {},
         owner' = Give(Pointers(Entries), "freed"),
         \/ map' = TRUE  /\ ret' = <<"clear", TRUE>>
         \/ map' = FALSE /\ ret' = <<"destroy", TRUE>>
  PROVE  Abstract!Clear
<1>1. Dict' = Abstract!Nothing
  <2>1. \A c \in Range(ContentOf) : Dict'[c] = NULL
    BY DictFacts
  <2>2. Dict' = DictOf(Entries')
    BY DictFacts
  <2>3. Dict' = [d \in Range(ContentOf) |-> Dict'[d]]
    BY <2>2 DEF DictOf
  <2> QED BY <2>1, <2>3 DEF Abstract!Nothing, Abstract!Range, Range
<1>2. Abstract!Range(ContentOf) = Range(ContentOf)
  BY DEF Abstract!Range, Range
<1>3. \A p \in Key \cup Value : p \in Abstract!Held => p \in Pointers(Entries)
  <2>1. ASSUME NEW p \in Abstract!Held
        PROVE  p \in Pointers(Entries)
    <3>1. PICK c \in Range(ContentOf) :
            Dict[c] # NULL /\ (p = Dict[c][1] \/ p = Dict[c][2])
      BY <1>2, <2>1 DEF Abstract!Held
    <3>2. PICK e \in Entries : ContentOf[e.key] = c
      BY <3>1, DictFacts
    <3>3. Dict[c] = <<e.key, e.value>>
      BY <3>2, DictFacts
    <3>4. p = e.key \/ p = e.value
      BY <3>1, <3>3
    <3> QED BY <3>4 DEF Pointers
  <2> QED BY <2>1
<1>4. \A p \in Key \cup Value : p \in Pointers(Entries) => p \in Abstract!Held
  <2>1. ASSUME NEW p \in Pointers(Entries)
        PROVE  p \in Abstract!Held
    <3>1. PICK e \in Entries : p = e.key \/ p = e.value
      BY <2>1 DEF Pointers
    <3> DEFINE c == ContentOf[e.key]
    <3>2. /\ c \in Range(ContentOf) /\ Dict[c] = <<e.key, e.value>>
          /\ e.key \in Key /\ e.value \in Value
      BY DictFacts
    <3>3. NULL \notin Key \X Value => Dict[c] # NULL
      BY <3>2
    <3>4. Dict[c] # NULL
      BY <3>3 DEF ReasonableUse
    <3>5. p = Dict[c][1] \/ p = Dict[c][2]
      BY <3>1, <3>2
    <3>6. c \in {d \in Abstract!Range(ContentOf) : Dict[d] # NULL}
      BY <1>2, <3>2, <3>4
    <3>7. p \in {Dict[c][1], Dict[c][2]}
      BY <3>5
    <3> HIDE DEF c
    <3> QED BY <3>6, <3>7 DEF Abstract!Held
  <2> QED BY <2>1
<1>5. owner' = Abstract!Give(Abstract!Held, "freed")
  BY <1>3, <1>4 DEF Give, Abstract!Give
<1> QED BY <1>1, <1>5 DEF Abstract!Clear

\* Each step of the hash table is a step of the client's map, or none.
LEMMA StepRefined ==
  ASSUME ReasonableUse, MapInv, MapInv', [Next]_vars
  PROVE  [Abstract!Next \/ "move" \in failing]_(Abstract!vars)
<1>1. ASSUME Entries' = Entries, UNCHANGED <<map, owner, ret>>
      PROVE  UNCHANGED Abstract!vars
  <2>1. Dict' = Dict
    BY <1>1, DictFacts
  <2> QED BY <1>1, <2>1 DEF Abstract!vars
<1>2. CASE UNCHANGED vars
  <2>1. Entries' = Entries
    BY <1>2 DEF vars, table, Entries, Bucket
  <2> QED BY <1>1, <1>2, <2>1 DEF vars
<1>3. CASE Next
  <2>1. UNCHANGED failing
    BY <1>3 DEF Next
  <2>2. CASE RehashNext
    <3>1. UNCHANGED <<map, owner, ret>>
      BY <2>2 DEF RehashNext
    <3>2. "move" \notin failing => Entries' = Entries
      BY <2>1, <2>2, RehashNextStep
    <3> QED BY <1>1, <3>1, <3>2
  <2>3. CASE RehashDone
    <3>1. UNCHANGED <<map, owner, ret>>
      BY <2>3 DEF RehashDone
    <3>2. Entries' = Entries
      BY <2>1, <2>3, RehashDoneStep
    <3> QED BY <1>1, <3>1, <3>2
  <2>4. CASE PutInsert
    <3> DEFINE k == arg[1]
               v == arg[2]
    <3>1. /\ pc = "insert" /\ map /\ k \in Key /\ v \in Value /\ size < threshold
          /\ owner[k] # "freed" /\ owner[v] = "caller"
      BY <2>4 DEF PutInsert, MapInv, CallInv, LoadInv
    <3>2. /\ Insert(k, v) /\ pc # "rehash" /\ pc' = "idle" /\ old_index' = old_index
          /\ arg' \in (Key \X Value) \cup {<<NULL, NULL>>} /\ map' = map
      BY <2>4, <3>1 DEF PutInsert, Insert
    <3> HIDE DEF k, v
    <3>3. Abstract!Put(k, v)
      BY <2>1, <3>1, <3>2, InsertStep, PutRefined
    <3> QED BY <3>1, <3>3 DEF Abstract!Next
  <2>5. CASE \E c \in Capacities : HashMap_create(c)
    <3>1. PICK c \in Capacities : HashMap_create(c)
      BY <2>5
    <3>2. Entries' = Entries
      BY <2>1, <3>1, CreateStep
    <3>3. Dict' = Dict
      BY <3>2, DictFacts
    <3>4. ~map /\ owner' = owner
      BY <3>1 DEF HashMap_create
    <3>5. /\ \/ map' = TRUE /\ ret' = <<"create", TRUE>>
             \/ map' = map /\ ret' = <<"create", FALSE>>
          /\ map \in BOOLEAN
      BY <3>1 DEF HashMap_create, MapInv, EntriesInPlace, TypeOK
    <3>6. \/ map' = TRUE /\ ret' = <<"create", map'>>
          \/ map' = FALSE /\ ret' = <<"create", map'>>
      BY <3>4, <3>5
    <3>7. Abstract!Create
      BY <3>3, <3>4, <3>6 DEF Abstract!Create
    <3> QED BY <3>7 DEF Abstract!Next
  <2>6. CASE \E k \in Key, v \in Value : HashMap_put(k, v)
    <3>1. PICK k \in Key, v \in Value : HashMap_put(k, v)
      BY <2>6
    <3>2. /\ Idle /\ map /\ pc = "idle" /\ owner[k] # "freed" /\ owner[v] = "caller"
          /\ size \in Nat /\ threshold \in Nat
          /\ arg \in (Key \X Value) \cup {<<NULL, NULL>>}
      BY <3>1 DEF HashMap_put, Idle, MapInv, LoadInv, EntriesInPlace, TypeOK, ThresholdOf
    <3>3. CASE ~Full /\ Insert(k, v) /\ UNCHANGED call
      <4>1. size < threshold
        BY <3>2, <3>3 DEF Full
      <4>2. /\ pc # "rehash" /\ pc' = "idle" /\ old_index' = old_index /\ arg' = arg
            /\ map' = map
        BY <3>2, <3>3 DEF call, Insert
      <4>3. Abstract!Put(k, v)
        BY <2>1, <3>2, <3>3, <4>1, <4>2, InsertStep, PutRefined
      <4> QED BY <4>3 DEF Abstract!Next
    <3>4. CASE StartRehash(k, v) /\ UNCHANGED map
      <4>1. Entries' = Entries
        BY <2>1, <3>2, <3>4, StartRehashStep
      <4>2. UNCHANGED <<map, owner, ret>>
        BY <3>4 DEF StartRehash
      <4> QED BY <1>1, <4>1, <4>2
    <3>5. CASE CannotGrow(k, v) /\ UNCHANGED map
      <4>1. UNCHANGED <<table, owner>> /\ ret' = <<"put", <<k, v>>, NULL>>
        BY <3>5 DEF CannotGrow
      <4>2. Entries' = Entries
        BY <4>1 DEF table, Entries, Bucket
      <4>3. Abstract!Put(k, v)
        BY <3>2, <3>5, <4>1, <4>2, PutRefined
      <4> QED BY <4>3 DEF Abstract!Next
    <3> QED BY <3>1, <3>3, <3>4, <3>5 DEF HashMap_put
  <2>7. CASE \E k \in Key : HashMap_get(k)
    <3>1. PICK k \in Key : HashMap_get(k)
      BY <2>7
    <3>2. /\ map /\ pc # "rehash" /\ owner[k] # "freed"
          /\ UNCHANGED <<map, table, owner>>
      BY <3>1 DEF HashMap_get, Idle
    <3>3. Entries' = Entries
      BY <3>2 DEF table, Entries, Bucket
    <3>4. Dict' = Dict
      BY <3>3, DictFacts
    <3> DEFINE d == Dict[ContentOf[k]]
    <3>5. ret' = <<"get", k, IF d = NULL THEN NULL ELSE d[2]>>
      <4>1. CASE Found(k) = {}
        <5>1. d = NULL
          BY <3>2, <4>1, FoundIsSeen
        <5> QED BY <3>1, <4>1, <5>1 DEF HashMap_get
      <4>2. CASE Found(k) # {}
        <5>1. PICK e \in Found(k) : ret' = <<"get", k, e.value>>
          BY <3>1, <4>2 DEF HashMap_get
        <5>2. d = <<e.key, e.value>> /\ d # NULL
          BY <3>2, FoundIsSeen
        <5> QED BY <5>1, <5>2
      <4> QED BY <4>1, <4>2
    <3>6. Abstract!Get(k)
      BY <3>2, <3>4, <3>5 DEF Abstract!Get
    <3> QED BY <3>6 DEF Abstract!Next
  <2>8. CASE \E k \in Key : HashMap_remove(k)
    <3>1. PICK k \in Key : HashMap_remove(k)
      BY <2>8
    <3>2. Abstract!Remove(k)
      BY <2>1, <3>1, RemoveStep, RemoveRefined
    <3> QED BY <3>2 DEF Abstract!Next
  <2>9. CASE HashMap_clear
    <3>1. /\ map /\ map' = TRUE /\ ret' = <<"clear", TRUE>>
          /\ owner' = Give(Pointers(Entries), "freed")
      BY <2>9 DEF HashMap_clear, Idle
    <3>2. Entries' = {}
      <4>1. \A i \in DOMAIN buckets' : Bucket(i)' = {}
        BY <2>9 DEF HashMap_clear, Bucket
      <4> QED BY <4>1 DEF Entries
    <3>3. Abstract!Clear
      BY <3>1, <3>2, ClearRefined
    <3> QED BY <3>3 DEF Abstract!Next
  <2>10. CASE HashMap_destroy
    <3>1. /\ map /\ map' = FALSE /\ ret' = <<"destroy", TRUE>>
          /\ owner' = Give(Pointers(Entries), "freed")
      BY <2>10 DEF HashMap_destroy, Idle
    <3>2. Entries' = {}
      BY <2>10 DEF HashMap_destroy, Entries
    <3>3. Abstract!Clear
      BY <3>1, <3>2, ClearRefined
    <3> QED BY <3>3 DEF Abstract!Next
  <2>11. CASE \E p \in Key \cup Value : Client_alloc(p)
    <3>1. PICK p \in Key \cup Value : Client_alloc(p)
      BY <2>11
    <3>2. Entries' = Entries
      BY <2>1, <3>1, AllocStep
    <3>3. Dict' = Dict
      BY <3>2, DictFacts
    <3>4. Abstract!Alloc(p)
      BY <3>1, <3>3 DEF Client_alloc, Abstract!Alloc
    <3> QED BY <3>4 DEF Abstract!Next
  <2> QED BY <1>3, <2>2, <2>3, <2>4, <2>5, <2>6, <2>7, <2>8, <2>9, <2>10, <2>11
          DEF Next, Step, Calls
<1> QED BY <1>2, <1>3

-----------------------------------------------------------------------------
(* The theorems.                                                           *)

\* A search always looks in the bucket where the entry is, however often the table has
\* grown under it and whichever bucket is being split.
THEOREM EntriesInPlaceCorrect == ReasonableUse => (Spec => []EntriesInPlace)
<1> SUFFICES ASSUME ReasonableUse
             PROVE  Spec => []EntriesInPlace
  OBVIOUS
<1>1. MapInv => EntriesInPlace
  BY DEF MapInv
<1> QED BY <1>1, AlwaysMapInv, PTL

\* No content is the key of two entries.
THEOREM KeysUniqueCorrect == ReasonableUse => (Spec => []KeysUnique)
<1> SUFFICES ASSUME ReasonableUse
             PROVE  Spec => []KeysUnique
  OBVIOUS
<1>1. MapInv => KeysUnique
  BY DEF MapInv
<1> QED BY <1>1, AlwaysMapInv, PTL

\* The counted size never falls short of the entries, and is exact unless a push was
\* refused.
THEOREM SizeExactCorrect == ReasonableUse => (Spec => []SizeExact)
<1> SUFFICES ASSUME ReasonableUse
             PROVE  Spec => []SizeExact
  OBVIOUS
<1>1. MapInv => SizeExact
  BY DEF MapInv
<1> QED BY <1>1, AlwaysMapInv, PTL

\* Between calls no more is counted than the load factor allows.
THEOREM LoadKeptCorrect == ReasonableUse => (Spec => []LoadKept)
<1> SUFFICES ASSUME ReasonableUse
             PROVE  Spec => []LoadKept
  OBVIOUS
<1>1. MapInv => LoadKept
  BY DEF MapInv, LoadInv, LoadKept, Idle
<1> QED BY <1>1, AlwaysMapInv, PTL

\* Each key and value of the map is held by one entry, so that it is freed once.
THEOREM OwnershipExactCorrect == ReasonableUse => (Spec => []OwnershipExact)
<1> SUFFICES ASSUME ReasonableUse
             PROVE  Spec => []OwnershipExact
  OBVIOUS
<1>1. MapInv => OwnershipExact
  BY DEF MapInv
<1> QED BY <1>1, AlwaysMapInv, PTL

\* A rehashing in which no allocation is refused loses and changes no entry.
THEOREM RehashKeepsEntriesCorrect == ReasonableUse => (Spec => RehashKeepsEntries)
<1> SUFFICES ASSUME ReasonableUse
             PROVE  Spec => RehashKeepsEntries
  OBVIOUS
<1>1. MapInv /\ [Next]_vars =>
        [pc = "rehash" /\ "move" \notin failing => Entries' = Entries]_vars
  <2> SUFFICES ASSUME MapInv, Next, pc = "rehash", "move" \notin failing
               PROVE  Entries' = Entries
    OBVIOUS
  <2>1. UNCHANGED failing
    BY DEF Next
  <2>2. RehashNext \/ RehashDone \/ \E c \in Capacities : HashMap_create(c)
    BY DEF Next, Step, Calls, PutInsert, HashMap_put, HashMap_get, HashMap_remove,
           HashMap_clear, HashMap_destroy, Client_alloc, Idle
  <2> QED BY <2>1, <2>2, RehashNextStep, RehashDoneStep, CreateStep
<1> QED BY <1>1, AlwaysMapInv, PTL DEF Spec, RehashKeepsEntries

\* The hash table is the map of AbstractMap: every call does to the client's keys and
\* values, and returns, what that map may.
THEOREM ImplementsAbstractMapCorrect == ReasonableUse => (Spec => ImplementsAbstractMap)
<1> SUFFICES ASSUME ReasonableUse
             PROVE  Spec => ImplementsAbstractMap
  OBVIOUS
<1>1. Init => Abstract!Init
  <2> SUFFICES ASSUME Init PROVE Abstract!Init
    OBVIOUS
  <2>1. Entries = {}
    BY DEF Init, Entries
  <2>2. Dict = Abstract!Nothing
    BY <2>1 DEF Dict, Abstract!Nothing, Abstract!Range, Range
  <2> QED BY <2>2 DEF Init, Abstract!Init
<1>2. MapInv /\ MapInv' /\ [Next]_vars
        => [Abstract!Next \/ "move" \in failing]_(Abstract!vars)
  BY StepRefined
<1> QED BY <1>1, <1>2, AlwaysMapInv, PTL DEF Spec, ImplementsAbstractMap
=============================================================================
