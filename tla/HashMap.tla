------------------------------ MODULE HashMap ------------------------------
(***************************************************************************)
(* The chained hash table of src/hashmap.c.  A bucket is NULL or a linked  *)
(* list; what LinkedList promises of a list is used here, and of the order *)
(* of its entries nothing is: a bucket is the set of its entries.  Growing *)
(* the table moves the entries one old bucket at a time, which is a step   *)
(* each, because every move allocates and may fail.                        *)
(***************************************************************************)
EXTENDS Integers, FiniteSets, Functions

CONSTANTS
  Key,        \* the key pointers clients pass
  Value,      \* the value pointers clients pass
  NULL,       \* the null pointer
  ContentOf,  \* what a key points to; equals_fn compares that
  Hash,       \* what generate_hash makes of a content: hash_fn, then a mixing
              \* of its bits that is one to one, so any function will do
  Capacities, \* the capacities clients pass to HashMap_create
  SIZE_MAX,   \* the largest size_t
  HeapLimit,  \* the largest table, counted in pointers, the heap ever gives
  Heaps       \* the kinds of heap to consider: sets of the allocations that one
              \* may refuse: "table"; "bucket", "entry" and "node" in HashMap_put;
              \* "move" in the rehashing

ASSUME ConstantsAssumption ==
  /\ NULL \notin Key \cup Value
  /\ Key \cap Value = {}
  /\ Hash \in [Range(ContentOf) -> Nat]
  /\ DOMAIN ContentOf = Key
  /\ SIZE_MAX \in Nat \ {0}
  /\ Capacities \subseteq 0 .. SIZE_MAX
  /\ HeapLimit \in Nat
  /\ Heaps \subseteq SUBSET {"table", "bucket", "entry", "node", "move"}

VARIABLES
  failing,   \* the kind of heap there is
  map,       \* whether the client holds a map
  buckets,   \* the table: NULL or a set of entries at each index
  capacity, threshold, size,
  owner,     \* who must free each key and value: "caller", "map" or nobody
  pc,        \* "idle", or in a HashMap_put that grows the table: "rehash", "insert"
  old_index, \* the old buckets below it have been moved
  arg,       \* the key and the value of that HashMap_put
  ret        \* the last call that returned: with what, and what it returned

table == <<buckets, capacity, threshold, size>>
call == <<pc, old_index, arg>>
vars == <<failing, map, table, owner, call, ret>>

Idle == map /\ pc = "idle"

Init ==
  /\ failing \in Heaps
  /\ map = FALSE
  /\ buckets = [i \in {} |-> NULL] /\ capacity = 0 /\ threshold = 0 /\ size = 0
  /\ owner = [p \in Key \cup Value |-> "caller"]
  /\ pc = "idle" /\ old_index = 0 /\ arg = <<NULL, NULL>>
  /\ ret = <<"none", NULL>>

-----------------------------------------------------------------------------

HashOf(k) == Hash[ContentOf[k]]

\* hash & (capacity - 1), for a capacity that is a power of 2.
IndexOf(hash) == hash % capacity

Bucket(i) == IF buckets[i] = NULL THEN {} ELSE buckets[i]

Entries == UNION {Bucket(i) : i \in DOMAIN buckets}

\* Mutant: the pointers are compared, not what they point to.
MatchesPointer(e, k) == e.hash = HashOf(k) /\ e.key = k

Matches(e, k) == e.hash = HashOf(k) /\ ContentOf[e.key] = ContentOf[k]

\* The entries a walk through the bucket of k can stop at.
Found(k) == {e \in Bucket(IndexOf(HashOf(k))) : Matches(e, k)}

IsPowerOf2(c) == \E i \in 0 .. c : c = 2 ^ i

\* (size_t)(capacity * 0.75f); the product is exact for a power of 2.
ThresholdOf(c) == (3 * c) \div 4

Give(pointers, who) ==
  [p \in Key \cup Value |-> IF p \in pointers THEN who ELSE owner[p]]

\* The destructor of an entry frees its key and its value.
Pointers(es) == {e.key : e \in es} \cup {e.value : e \in es}

-----------------------------------------------------------------------------

HashMap_create(c) ==
  /\ ~map
  /\ \/ /\ IsPowerOf2(c) /\ c <= HeapLimit
        /\ map' = TRUE
        /\ buckets' = [i \in 0 .. c - 1 |-> NULL]
        /\ capacity' = c /\ threshold' = ThresholdOf(c) /\ size' = 0
        /\ ret' = <<"create", TRUE>>
     \/ /\ ~IsPowerOf2(c) \/ c > HeapLimit \/ "table" \in failing
        /\ ret' = <<"create", FALSE>>
        /\ UNCHANGED <<map, table>>
  /\ UNCHANGED <<owner, call>>

\* Mutant: the new key goes into the entry as well.
ReplaceWithKey(k, v) ==
  \E e \in Found(k) :
    /\ buckets' = [buckets EXCEPT
                     ![IndexOf(HashOf(k))] = (@ \ {e}) \cup {[e EXCEPT !.key = k, !.value = v]}]
    /\ owner' = [owner EXCEPT ![v] = "map", ![e.value] = "caller"]
    /\ ret' = <<"put", <<k, v>>, e.value>>
    /\ UNCHANGED size

\* Mutant: the value that is stored is returned.
ReplaceReturningNew(k, v) ==
  \E e \in Found(k) :
    /\ buckets' = [buckets EXCEPT
                     ![IndexOf(HashOf(k))] = (@ \ {e}) \cup {[e EXCEPT !.value = v]}]
    /\ owner' = [owner EXCEPT ![v] = "map", ![e.value] = "caller"]
    /\ ret' = <<"put", <<k, v>>, v>>
    /\ UNCHANGED size

\* handle_existing finds the key: its entry gets the new value and keeps its
\* own key; the key passed stays with the caller, and so does the old value.
Replace(k, v) ==
  \E e \in Found(k) :
    /\ buckets' = [buckets EXCEPT
                     ![IndexOf(HashOf(k))] = (@ \ {e}) \cup {[e EXCEPT !.value = v]}]
    /\ owner' = [owner EXCEPT ![v] = "map", ![e.value] = "caller"]
    /\ ret' = <<"put", <<k, v>>, e.value>>
    /\ UNCHANGED size

\* handle_existing or add_new_entry puts a new entry in the bucket.
AddEntry(k, v) ==
  LET i == IndexOf(HashOf(k))
  IN  /\ Found(k) = {}
      /\ buckets' = [buckets EXCEPT
           ![i] = Bucket(i) \cup {[key |-> k, value |-> v, hash |-> HashOf(k)]}]
      /\ owner' = Give({k, v}, "map")
      /\ size' = size + 1
      /\ ret' = <<"put", <<k, v>>, NULL>>

\* The bucket or the entry could not be allocated: nothing has changed.
NoEntry(k, v) ==
  /\ Found(k) = {}
  /\ \/ "entry" \in failing
     \/ "bucket" \in failing /\ buckets[IndexOf(HashOf(k))] = NULL
  /\ ret' = <<"put", <<k, v>>, NULL>>
  /\ UNCHANGED <<buckets, owner, size>>

\* The entry was allocated, but LinkedList_push, whose result is not looked at,
\* refused it.
EntryNotPushed(k, v) ==
  LET i == IndexOf(HashOf(k))
  IN  /\ Found(k) = {}
      /\ "node" \in failing
      /\ buckets' = [buckets EXCEPT ![i] = Bucket(i)]
      /\ size' = size + 1
      /\ ret' = <<"put", <<k, v>>, NULL>>
      /\ UNCHANGED owner

Insert(k, v) ==
  /\ Replace(k, v) \/ AddEntry(k, v) \/ NoEntry(k, v) \/ EntryNotPushed(k, v)
  /\ UNCHANGED <<map, capacity, threshold>>

\* Mutant: the table grows one entry too late.
FullTooLate == size > threshold

Full == size >= threshold

NewCapacity == IF 2 * capacity > SIZE_MAX THEN SIZE_MAX ELSE 2 * capacity

\* resize(): the table is enlarged, its new half is NULL.
StartRehash(k, v) ==
  /\ NewCapacity > capacity /\ NewCapacity <= HeapLimit
  /\ buckets' = [i \in 0 .. NewCapacity - 1 |->
                   IF i < capacity THEN buckets[i] ELSE NULL]
  /\ pc' = "rehash" /\ old_index' = 0 /\ arg' = <<k, v>>
  /\ UNCHANGED <<capacity, threshold, size, owner, ret>>

\* expand() fails, and so does the put, even of a key the map has already.
CannotGrow(k, v) ==
  /\ "table" \in failing \/ NewCapacity <= capacity \/ NewCapacity > HeapLimit
  /\ ret' = <<"put", <<k, v>>, NULL>>
  /\ UNCHANGED <<table, owner, call>>

\* The key may be one the map has; the value is not the map's yet.
HashMap_put(k, v) ==
  /\ Idle /\ owner[k] # "freed" /\ owner[v] = "caller"
  /\ \/ ~Full /\ Insert(k, v) /\ UNCHANGED call
     \/ Full /\ (StartRehash(k, v) \/ CannotGrow(k, v)) /\ UNCHANGED map

\* Mutant: the bit above the one that is new in the index decides.
GoesHighWrongBit(hash) == (hash \div (2 * capacity)) % 2 = 1

\* hash & old_cap: the bit that the larger capacity adds to the index.
GoesHigh(hash) == (hash \div capacity) % 2 = 1

\* What a bucket can be after push_to_bucket was called for es; a push that fails
\* leaves its entry out, or even the bucket NULL.
Fillings(es) ==
  IF es = {} THEN {NULL}
  ELSE IF "move" \in failing THEN {NULL} \cup SUBSET es ELSE {es}

\* Mutant: the high half is dropped.
RehashNextLowOnly ==
  /\ pc = "rehash" /\ old_index < capacity
  /\ LET es == {e \in Bucket(old_index) : ~GoesHigh(e.hash)}
     IN  IF buckets[old_index] = NULL THEN UNCHANGED buckets
         ELSE \E lo \in Fillings(es) : buckets' = [buckets EXCEPT ![old_index] = lo]
  /\ old_index' = old_index + 1
  /\ UNCHANGED <<map, capacity, threshold, size, owner, pc, arg, ret>>

\* One old bucket is split into two of the new table.
RehashNext ==
  /\ pc = "rehash" /\ old_index < capacity
  /\ LET es   == Bucket(old_index)
         high == {e \in es : GoesHigh(e.hash)}
     IN  IF buckets[old_index] = NULL THEN UNCHANGED buckets
         ELSE \E lo \in Fillings(es \ high), hi \in Fillings(high) :
                /\ buckets' = [buckets EXCEPT ![old_index] = lo,
                                              ![old_index + capacity] = hi]
  /\ old_index' = old_index + 1
  /\ UNCHANGED <<map, capacity, threshold, size, owner, pc, arg, ret>>

RehashDone ==
  /\ pc = "rehash" /\ old_index = capacity
  /\ capacity' = NewCapacity /\ threshold' = ThresholdOf(NewCapacity)
  /\ pc' = "insert" /\ old_index' = 0
  /\ UNCHANGED <<map, buckets, size, owner, arg, ret>>

\* The put goes on in the larger table.
PutInsert ==
  /\ pc = "insert"
  /\ Insert(arg[1], arg[2])
  /\ pc' = "idle" /\ arg' = <<NULL, NULL>>
  /\ UNCHANGED old_index

HashMap_get(k) ==
  /\ Idle /\ owner[k] # "freed"
  /\ \/ \E e \in Found(k) : ret' = <<"get", k, e.value>>
     \/ Found(k) = {} /\ ret' = <<"get", k, NULL>>
  /\ UNCHANGED <<map, table, owner, call>>

\* Mutant: the size is left alone.
HashMap_removeUncounted(k) ==
  /\ Idle /\ owner[k] # "freed"
  /\ \E e \in Found(k) :
       /\ buckets' = [buckets EXCEPT ![IndexOf(HashOf(k))] = @ \ {e}]
       /\ owner' = Give({e.key, e.value}, "freed")
  /\ ret' = <<"remove", k, TRUE>>
  /\ UNCHANGED <<map, size, capacity, threshold, call>>

\* LinkedList_remove destroys the entry; an empty bucket stays.
HashMap_remove(k) ==
  /\ Idle /\ owner[k] # "freed"
  /\ \/ \E e \in Found(k) :
          /\ buckets' = [buckets EXCEPT ![IndexOf(HashOf(k))] = @ \ {e}]
          /\ owner' = Give({e.key, e.value}, "freed")
          /\ size' = size - 1
          /\ ret' = <<"remove", k, TRUE>>
     \/ /\ Found(k) = {}
        /\ ret' = <<"remove", k, FALSE>>
        /\ UNCHANGED <<buckets, owner, size>>
  /\ UNCHANGED <<map, capacity, threshold, call>>

HashMap_clear ==
  /\ Idle
  /\ buckets' = [i \in DOMAIN buckets |-> NULL]
  /\ size' = 0
  /\ owner' = Give(Pointers(Entries), "freed")
  /\ ret' = <<"clear", TRUE>>
  /\ UNCHANGED <<map, capacity, threshold, call>>

HashMap_destroy ==
  /\ Idle
  /\ map' = FALSE
  /\ buckets' = [i \in {} |-> NULL] /\ capacity' = 0 /\ threshold' = 0 /\ size' = 0
  /\ owner' = Give(Pointers(Entries), "freed")
  /\ ret' = <<"destroy", TRUE>>
  /\ UNCHANGED call

\* The client allocates a key or a value again at an address that was freed.
Client_alloc(p) ==
  /\ pc = "idle" /\ owner[p] = "freed"
  /\ owner' = [owner EXCEPT ![p] = "caller"]
  /\ UNCHANGED <<map, table, call, ret>>

-----------------------------------------------------------------------------

Step == RehashNext \/ RehashDone \/ PutInsert

Calls ==
  \/ \E c \in Capacities : HashMap_create(c)
  \/ \E k \in Key, v \in Value : HashMap_put(k, v)
  \/ \E k \in Key : HashMap_get(k) \/ HashMap_remove(k)
  \/ HashMap_clear \/ HashMap_destroy
  \/ \E p \in Key \cup Value : Client_alloc(p)

Next == (Step \/ Calls) /\ UNCHANGED failing

Spec == Init /\ [][Next]_vars

-----------------------------------------------------------------------------
(* What is expected of it.                                                 *)

Entry == [key : Key, value : Value, hash : Range(Hash)]

\* Type invariant: the table, its counters, and the put that is growing it.
TypeOK ==
  /\ failing \in Heaps /\ map \in BOOLEAN
  /\ capacity \in Nat /\ threshold \in Nat /\ size \in Nat
  /\ DOMAIN buckets = IF pc = "rehash" THEN 0 .. NewCapacity - 1 ELSE 0 .. capacity - 1
  /\ \A i \in DOMAIN buckets : Bucket(i) \subseteq Entry
  /\ owner \in [Key \cup Value -> {"caller", "map", "freed"}]
  /\ pc \in {"idle", "rehash", "insert"}
  /\ old_index \in 0 .. capacity
  /\ arg \in (Key \X Value) \cup {<<NULL, NULL>>}

\* The bucket where an entry with this hash is looked for at this moment: while
\* the table is being rehashed, the new place counts once its old bucket is done.
Place(hash) ==
  IF pc = "rehash" /\ hash % capacity < old_index THEN hash % (2 * capacity)
  ELSE hash % capacity

\* The table is what the counters say, and every entry is in the bucket where a
\* search for its key looks, also after the table has grown under it.
EntriesInPlace ==
  TypeOK /\ \A i \in DOMAIN buckets : \A e \in Bucket(i) : e.hash = HashOf(e.key) /\ Place(e.hash) = i

\* A content is the key of one entry at most, whatever pointers it was put with.
KeysUnique ==
  \A e, f \in Entries : ContentOf[e.key] = ContentOf[f.key] => e = f

\* The number of entries the map counts is the number it has, unless a push was
\* refused that nobody looks at; it never falls short, so that no removal takes
\* the unsigned size below 0.
SizeExact ==
  /\ size >= Cardinality(Entries)
  /\ failing \cap {"node", "move"} = {} => size = Cardinality(Entries)

\* Between calls the load factor holds.
LoadKept == Idle => size <= threshold /\ threshold = ThresholdOf(capacity)

\* The map owns exactly the pointers its entries hold, each in one entry, so that
\* it frees each of them once; a key passed for an entry that is there stays with
\* the caller.  What is lost in a rehashing is the map's, but in no entry.
OwnershipExact ==
  /\ \A p \in Pointers(Entries) : owner[p] = "map"
  /\ "move" \notin failing =>
       \A p \in Key \cup Value : owner[p] = "map" => p \in Pointers(Entries)
  /\ \A e, f \in Entries : e.key = f.key \/ e.value = f.value => e = f

\* Growing the table neither loses nor changes an entry.
RehashKeepsEntries ==
  [][pc = "rehash" /\ "move" \notin failing => Entries' = Entries]_vars

\* The map a client sees: the key pointer and the value stored for each content.
Dict ==
  [c \in Range(ContentOf) |->
     LET es == {e \in Entries : ContentOf[e.key] = c}
     IN  IF es = {} THEN NULL
         ELSE LET e == CHOOSE e \in es : TRUE IN <<e.key, e.value>>]

\* The calls do and return what AbstractMap promises, as long as no allocation of
\* the rehashing is refused: the map would forget an entry then.
Abstract == INSTANCE AbstractMap WITH dict <- Dict
ImplementsAbstractMap ==
  Abstract!Init /\ [][Abstract!Next \/ "move" \in failing]_Abstract!vars

=============================================================================
