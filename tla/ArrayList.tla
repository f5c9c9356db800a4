------------------------------ MODULE ArrayList ------------------------------
(***************************************************************************)
(* The growable array of src/arraylist.c: one list, driven by a client     *)
(* that makes any sequence of calls, over an allocator that may refuse any *)
(* request.  A call runs to completion before the next one starts (the     *)
(* library has no threads); only ArrayList_add_all, a loop of              *)
(* ArrayList_add, is modelled iteration by iteration, because each of its  *)
(* iterations may fail on its own.                                         *)
(*                                                                         *)
(* The arguments the headers declare __nonnull are never NULL here.        *)
(***************************************************************************)
EXTENDS Integers, Sequences, Functions

CONSTANTS
  Value,       \* the pointers a client stores
  NULL,        \* the null pointer
  JUNK,        \* what a slot nobody has written holds
  UINT_MAX,    \* the largest unsigned int
  ARRAYLIST_DEFAULT_CAPACITY,
  Capacities,  \* the capacities clients pass to ArrayList_create
  HeapLimit,   \* the largest block, counted in pointers, the heap ever gives
  Dfs,         \* the destructors clients create lists with, see owning
  Orders,      \* the comparators passed to ArrayList_sort, as ranks
  MaxBatch     \* bound on the arrays passed to ArrayList_add_all

ASSUME ConstantsAssumption ==
  /\ NULL \notin Value /\ JUNK \notin Value /\ NULL # JUNK
  /\ UINT_MAX \in Nat \ {0}
  /\ ARRAYLIST_DEFAULT_CAPACITY \in 1 .. UINT_MAX
  /\ Capacities \subseteq 0 .. UINT_MAX
  /\ HeapLimit \in Nat
  /\ Dfs \subseteq BOOLEAN
  /\ Orders \subseteq [Value -> Int]
  /\ MaxBatch \in Nat

VARIABLES
  owning,    \* TRUE: df frees the value (free); FALSE: df is Commons_noop
  list,      \* whether the client holds a list
  data,      \* the block list->data points to, a function on 0 .. room - 1
  room,      \* how many pointers the allocator reserved for that block
  size,
  capacity,  \* what the list believes room to be
  owner,     \* who must free each value: "caller", "list" or nobody ("freed")
  todo,      \* the elements a running ArrayList_add_all has still to add
  ret        \* the last call that returned: with what, and what it returned

vars == <<owning, list, data, room, size, capacity, owner, todo, ret>>

Idle == list /\ todo = <<>>

\* The content of slot i; past the end of the block it is anything.
At(i) == IF i \in 0 .. room - 1 THEN data[i] ELSE JUNK

Contents == {At(i) : i \in 0 .. size - 1}

Init ==
  /\ owning \in Dfs
  /\ list = FALSE
  /\ data = <<>> /\ room = 0 /\ size = 0 /\ capacity = 0
  /\ owner = [v \in Value |-> "caller"]
  /\ todo = <<>>
  /\ ret = <<"none", NULL>>

-----------------------------------------------------------------------------
(* Ownership.  A client hands over only values it owns, each once; with a  *)
(* no-op destructor nothing is ever handed over.                           *)

CanPass(v) == owner[v] = "caller"

Moved(v, who) == IF owning THEN [owner EXCEPT ![v] = who] ELSE owner

\* Mutant: the destroying loop stops one element early.
DestroyedButLast == [v \in Value |->
  IF owning /\ v \in {At(i) : i \in 0 .. size - 2} THEN "freed" ELSE owner[v]]

\* df has been called on every element.
Destroyed == [v \in Value |->
                IF owning /\ v \in Contents THEN "freed" ELSE owner[v]]

Batches == UNION {[1 .. n -> Value] : n \in 0 .. MaxBatch}

CanPassAll(b) ==
  /\ \A i \in DOMAIN b : CanPass(b[i])
  /\ owning => \A i, j \in DOMAIN b : b[i] = b[j] => i = j

-----------------------------------------------------------------------------
(* Growth.  expand() multiplies by 1.5 in unsigned arithmetic and resize() *)
(* calls realloc; realloc(p, 0) frees p and returns NULL.                  *)

NewCapacity(c) ==
  LET grown == (c + c \div 2) % (UINT_MAX + 1)
  IN  IF grown <= c THEN (c + 1) % (UINT_MAX + 1) ELSE grown

\* Mutant: one element more before the block grows.
FullTooLate == size > capacity

Full == size >= capacity

\* The block after a successful expand(): realloc keeps what fits, and the
\* slots from the old capacity on are set to NULL.
Expanded == [i \in 0 .. NewCapacity(capacity) - 1 |->
               IF i < capacity THEN At(i) ELSE NULL]

\* ArrayList_add(list, v) returning true.
AddSucceeds(v) ==
  /\ size' = size + 1
  /\ owner' = Moved(v, "list")
  /\ \/ /\ ~Full
        /\ data' = [data EXCEPT ![size] = v]
        /\ UNCHANGED <<room, capacity>>
     \/ /\ Full
        /\ NewCapacity(capacity) \in 1 .. HeapLimit
        /\ data' = [Expanded EXCEPT ![size] = v]
        /\ room' = NewCapacity(capacity)
        /\ capacity' = NewCapacity(capacity)

\* ArrayList_add(list, v) returning false: the block could not be enlarged.
AddFails ==
  /\ Full
  /\ IF NewCapacity(capacity) = 0
     THEN data' = <<>> /\ room' = 0
     ELSE UNCHANGED <<data, room>>
  /\ UNCHANGED <<size, capacity, owner>>

-----------------------------------------------------------------------------
(* Access by index.                                                        *)

\* Mutant: the bounds check lets the first free slot through.
InRangeTooFar(index) == index <= size

InRange(index) == index < size

\* Mutant: the last slot keeps its pointer.
ShiftedStale(index) ==
  [i \in 0 .. room - 1 |->
     IF i \in index .. (size - 2) THEN At(i + 1) ELSE data[i]]

\* The block once slot index is removed: memmove, and NULL behind it.
Shifted(index) ==
  [i \in 0 .. room - 1 |->
     CASE i = size - 1              -> NULL
       [] i \in index .. (size - 2) -> At(i + 1)
       [] OTHER                     -> data[i]]

\* Mutant: the search runs from the end.
LastIndexOf(v) ==
  IF v \notin Contents THEN -1
  ELSE CHOOSE i \in 0 .. size - 1 :
         At(i) = v /\ \A j \in i + 1 .. size - 1 : At(j) # v

\* The least index that holds v, or -1.
IndexOf(v) ==
  IF v \notin Contents THEN -1
  ELSE CHOOSE i \in 0 .. size - 1 :
         At(i) = v /\ \A j \in 0 .. i - 1 : At(j) # v

-----------------------------------------------------------------------------
(* The API.                                                                *)

ArrayList_create(c) ==
  /\ ~list
  /\ \/ /\ c \in 1 .. HeapLimit
        /\ list' = TRUE
        /\ data' = [i \in 0 .. c - 1 |-> NULL]
        /\ room' = c /\ capacity' = c /\ size' = 0
        /\ ret' = <<"create", TRUE>>
     \/ /\ ret' = <<"create", FALSE>>
        /\ UNCHANGED <<list, data, room, size, capacity>>
  /\ UNCHANGED <<owner, todo>>

ArrayList_add(v) ==
  /\ Idle /\ CanPass(v)
  /\ \/ AddSucceeds(v) /\ ret' = <<"add", v, TRUE>>
     \/ AddFails       /\ ret' = <<"add", v, FALSE>>
  /\ UNCHANGED <<list, todo>>

\* An empty array is refused, any other is walked by AddAllNext.
ArrayList_add_all(b) ==
  /\ Idle /\ CanPassAll(b)
  /\ todo' = b
  /\ ret' = IF b = <<>> THEN <<"add_all", FALSE>> ELSE ret
  /\ UNCHANGED <<list, data, room, size, capacity, owner>>

\* One iteration; what ArrayList_add returns is not looked at.
AddAllNext ==
  /\ todo # <<>>
  /\ AddSucceeds(Head(todo)) \/ AddFails
  /\ todo' = Tail(todo)
  /\ ret' = IF Tail(todo) = <<>> THEN <<"add_all", TRUE>> ELSE ret
  /\ UNCHANGED list

ArrayList_set(index, v) ==
  /\ Idle /\ CanPass(v)
  /\ \/ /\ InRange(index)
        /\ ret' = <<"set", index, At(index)>>
        /\ owner' = [Moved(v, "list") EXCEPT ![At(index)] = "caller"]
        /\ data' = [data EXCEPT ![index] = v]
     \/ /\ ~InRange(index)
        /\ ret' = <<"set", index, NULL>>
        /\ UNCHANGED <<owner, data>>
  /\ UNCHANGED <<list, room, size, capacity, todo>>

ArrayList_remove(index) ==
  /\ Idle
  /\ \/ /\ InRange(index)
        /\ ret' = <<"remove", index, At(index)>>
        /\ owner' = [owner EXCEPT ![At(index)] = "caller"]
        /\ data' = Shifted(index)
        /\ size' = size - 1
     \/ /\ ~InRange(index)
        /\ ret' = <<"remove", index, NULL>>
        /\ UNCHANGED <<owner, data, size>>
  /\ UNCHANGED <<list, room, capacity, todo>>

\* qsort: some arrangement that the comparator accepts (it is not stable).
ArrayList_sort(rank) ==
  /\ Idle
  /\ \E p \in Bijection(0 .. size - 1, 0 .. size - 1) :
       /\ \A i, j \in 0 .. size - 1 :
            i < j => rank[At(p[i])] <= rank[At(p[j])]
       /\ data' = [i \in 0 .. room - 1 |->
                     IF i < size THEN At(p[i]) ELSE data[i]]
  /\ ret' = <<"sort", rank, 0>>
  /\ UNCHANGED <<list, room, size, capacity, owner, todo>>

\* The elements are destroyed; the capacity is reset, the block is kept.
ArrayList_clear ==
  /\ Idle
  /\ owner' = Destroyed
  /\ data' = [i \in 0 .. room - 1 |-> IF i < size THEN NULL ELSE data[i]]
  /\ size' = 0
  /\ capacity' = ARRAYLIST_DEFAULT_CAPACITY
  /\ ret' = <<"clear", TRUE>>
  /\ UNCHANGED <<list, room, todo>>

ArrayList_destroy ==
  /\ Idle
  /\ owner' = Destroyed
  /\ list' = FALSE
  /\ data' = <<>> /\ room' = 0 /\ size' = 0 /\ capacity' = 0
  /\ ret' = <<"destroy", TRUE>>
  /\ UNCHANGED todo

-----------------------------------------------------------------------------
(* The calls that only read.                                               *)

Returns(op, arg, result) ==
  /\ Idle
  /\ ret' = <<op, arg, result>>
  /\ UNCHANGED <<list, data, room, size, capacity, owner, todo>>

ArrayList_get(index) ==
  Returns("get", index, IF InRange(index) THEN At(index) ELSE NULL)

ArrayList_index_of(v) == Returns("index_of", v, IndexOf(v))

ArrayList_contains(v) == Returns("contains", v, IndexOf(v) >= 0)

ArrayList_contains_all(b) ==
  Returns("contains_all", Range(b),
          b # <<>> /\ \A v \in Range(b) : \E j \in 0 .. size - 1 : At(j) = v)

ArrayList_first == Returns("first", NULL, IF size > 0 THEN At(0) ELSE NULL)

ArrayList_last == Returns("last", NULL, IF size > 0 THEN At(size - 1) ELSE NULL)

ArrayList_last_index == Returns("last_index", NULL, IF size > 0 THEN size - 1 ELSE -1)

ArrayList_size == Returns("size", NULL, size)

ArrayList_is_empty == Returns("is_empty", NULL, size = 0)

ArrayList_capacity == Returns("capacity", NULL, capacity)

\* The client allocates a value again at an address that was freed.
Client_alloc(v) ==
  /\ todo = <<>> /\ owner[v] = "freed"
  /\ owner' = [owner EXCEPT ![v] = "caller"]
  /\ UNCHANGED <<list, data, room, size, capacity, todo, ret>>

-----------------------------------------------------------------------------

Updates ==
  \/ \E c \in Capacities : ArrayList_create(c)
  \/ \E v \in Value : ArrayList_add(v)
  \/ \E b \in Batches : ArrayList_add_all(b)
  \/ AddAllNext
  \/ \E index \in 0 .. size, v \in Value : ArrayList_set(index, v)
  \/ \E index \in 0 .. size : ArrayList_remove(index)
  \/ \E rank \in Orders : ArrayList_sort(rank)
  \/ ArrayList_clear
  \/ ArrayList_destroy
  \/ \E v \in Value : Client_alloc(v)

Reads ==
  \/ \E index \in 0 .. size : ArrayList_get(index)
  \/ \E v \in Value : ArrayList_index_of(v) \/ ArrayList_contains(v)
  \/ \E b \in Batches : ArrayList_contains_all(b)
  \/ ArrayList_first \/ ArrayList_last \/ ArrayList_last_index
  \/ ArrayList_size \/ ArrayList_is_empty \/ ArrayList_capacity

Next == (Updates \/ Reads) /\ UNCHANGED owning

Spec == Init /\ [][Next]_vars

-----------------------------------------------------------------------------
(* What is expected of it.                                                 *)

\* Type invariant: the shape of the list, of its block and of the bookkeeping.
TypeOK ==
  /\ owning \in BOOLEAN /\ list \in BOOLEAN
  /\ room \in Nat /\ size \in Nat /\ capacity \in 0 .. UINT_MAX
  /\ data \in [0 .. room - 1 -> Value \cup {NULL, JUNK}]
  /\ owner \in [Value -> {"caller", "list", "freed"}]
  /\ todo \in Seq(Value)

\* The block is at least as large as the capacity the list believes in, so
\* the unchecked store data[size++] of ArrayList_add stays inside it.  It is
\* ArrayList_clear, which sets the capacity without touching the block, and
\* expand() that put this at risk.
CapacityReserved == list => size <= capacity /\ capacity <= room

\* Beyond the elements the list has no stale pointers: remove, clear and
\* expand leave NULL behind, over any sequence of calls.
SpareSlotsNull == list => \A i \in size .. room - 1 : data[i] = NULL

\* A value belongs to the list exactly while it sits in one slot of it, so
\* that clear and destroy free every value once: nothing leaks through a
\* failed add or a shifted slot, nothing is freed that the caller got back.
OwnershipExact ==
  owning =>
    /\ \A v \in Value : owner[v] = "list" <=> v \in Contents
    /\ \A i, j \in 0 .. size - 1 : At(i) = At(j) => i = j

\* The elements in order, the list a client sees.
Elems == IF list THEN [i \in 1 .. size |-> At(i - 1)] ELSE NULL

\* The calls return and do what the abstract list of AbstractList promises.
Abstract == INSTANCE AbstractList WITH elems <- Elems
ImplementsAbstractList == Abstract!Spec

=============================================================================
