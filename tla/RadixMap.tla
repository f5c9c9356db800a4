------------------------------ MODULE RadixMap ------------------------------
(***************************************************************************)
(* The sorted map of src/radixmap.c.  RadixMap_sort is taken as the        *)
(* formula RadixSort implements; the binary search of RadixMap_find is     *)
(* done probe by probe.                                                    *)
(***************************************************************************)
EXTENDS RadixPass

CONSTANTS
  Value,    \* the values clients add
  Sizes,    \* the sizes clients pass to RadixMap_create
  INT_MAX,  \* the largest int, in which the binary search counts slots
  NULL,     \* the null pointer
  MayFail   \* the callocs of RadixMap_create that may fail: "map",
            \* "contents", "temp"

ASSUME ConstantsAssumption ==
  /\ Sizes \subseteq Nat
  /\ INT_MAX \in Nat
  /\ NULL \notin Nat
  /\ MayFail \subseteq {"map", "contents", "temp"}

VARIABLES
  map,       \* whether the client holds a map
  temp,      \* whether the map has its second buffer
  max,
  end,
  contents,  \* the elements in use, by slot: what lies behind end is never read
  held,      \* the slot of the pointer that RadixMap_find gave the client, or NULL
  pc,        \* "idle", or "find" in a binary search
  goal,      \* the key it looks for
  low, high, \* the slots it has left
  ret        \* the last call that returned: with what, and what it returned

store == <<map, temp, max, end, contents>>
search == <<pc, goal, low, high>>
vars == <<store, held, search, ret>>

Idle == map /\ pc = "idle"

Empty == [i \in {} |-> NULL]

Init ==
  /\ map = FALSE /\ temp = FALSE /\ max = 0 /\ end = 0 /\ contents = Empty
  /\ held = NULL
  /\ pc = "idle" /\ goal = 0 /\ low = 0 /\ high = -1
  /\ ret = <<"none", 0>>

\* What a conversion to int makes of a number of slots: it wraps.
ToInt(n) == ((n + INT_MAX + 1) % (2 * (INT_MAX + 1))) - (INT_MAX + 1)

-----------------------------------------------------------------------------

\* The check after the third calloc looks at contents again: a missing temp is
\* not noticed.
RadixMap_create(n) ==
  /\ ~map
  /\ \/ /\ n > 0
        /\ map' = TRUE /\ max' = n
        /\ temp' \in {TRUE} \cup (IF "temp" \in MayFail THEN {FALSE} ELSE {})
        /\ ret' = <<"create", TRUE>>
     \/ /\ n = 0 \/ "map" \in MayFail \/ "contents" \in MayFail
        /\ ret' = <<"create", FALSE>>
        /\ UNCHANGED <<map, max, temp>>
  /\ UNCHANGED <<end, contents, held, search>>

RadixMap_destroy ==
  /\ Idle
  /\ map' = FALSE /\ temp' = FALSE /\ max' = 0 /\ end' = 0 /\ contents' = Empty
  /\ held' = NULL
  /\ ret' = <<"destroy", 0>>
  /\ UNCHANGED search

\* The client may call it; the map is sorted already.
RadixMap_sort ==
  /\ Idle
  /\ contents' = RadixSorted(contents)
  /\ ret' = <<"sort", 0>>
  /\ UNCHANGED <<map, temp, max, end, held, search>>

HasRoom == end + 1 < max

\* Mutant: the array is left as it is.
AppendedUnsorted(key, value) ==
  [i \in 0 .. end |-> IF i = end THEN [key |-> key, value |-> value] ELSE contents[i]]

Appended(key, value) ==
  RadixSorted([i \in 0 .. end |->
    IF i = end THEN [key |-> key, value |-> value] ELSE contents[i]])

\* The sort moves the elements: a client forgets the pointer it had.
RadixMap_add(key, value) ==
  /\ Idle
  /\ \/ /\ HasRoom
        /\ contents' = Appended(key, value)
        /\ end' = end + 1
        /\ held' = NULL
        /\ ret' = <<"add", <<key, value>>, 0>>
     \/ /\ ~HasRoom
        /\ ret' = <<"add", <<key, value>>, -1>>
        /\ UNCHANGED <<contents, end, held>>
  /\ UNCHANGED <<map, temp, max, search>>

\* Mutant: the element keeps its place.
MarkedUnsorted(slot) == [contents EXCEPT ![slot].key = UINT32_MAX]

\* The key of a deleted element is overwritten, to sort it behind the others.
Marked(slot) ==
  LET marked == [contents EXCEPT ![slot].key = UINT32_MAX]
  IN  IF end > 1 THEN RadixSorted(marked) ELSE marked

RadixMap_delete ==
  /\ Idle /\ held # NULL
  /\ contents' = [i \in 0 .. end - 2 |-> Marked(held)[i]]
  /\ end' = end - 1
  /\ held' = NULL
  /\ ret' = <<"delete", 0>>
  /\ UNCHANGED <<map, temp, max, search>>

RadixMap_find(key) ==
  /\ Idle
  /\ pc' = "find" /\ goal' = key
  /\ low' = 0 /\ high' = ToInt(end) - 1
  /\ UNCHANGED <<store, held, ret>>

Middle == low + (high - low) \div 2

Found(slot) ==
  /\ held' = slot
  /\ ret' = <<"find", goal, IF slot = NULL THEN NULL ELSE contents[slot]>>
  /\ pc' = "idle" /\ goal' = 0 /\ low' = 0 /\ high' = -1
  /\ UNCHANGED store

\* Mutant: the probed slot stays in the range, whose lower end need not move.
ProbeStuck ==
  /\ pc = "find" /\ low <= high
  /\ LET key == contents[Middle].key
     IN  \/ goal < key /\ high' = Middle - 1 /\ UNCHANGED <<store, held, pc, goal, low, ret>>
         \/ goal > key /\ low' = Middle /\ UNCHANGED <<store, held, pc, goal, high, ret>>
         \/ goal = key /\ Found(Middle)

Probe ==
  /\ pc = "find" /\ low <= high
  /\ LET key == contents[Middle].key
     IN  \/ goal < key /\ high' = Middle - 1 /\ UNCHANGED <<store, held, pc, goal, low, ret>>
         \/ goal > key /\ low' = Middle + 1 /\ UNCHANGED <<store, held, pc, goal, high, ret>>
         \/ goal = key /\ Found(Middle)

NotFound ==
  /\ pc = "find" /\ low > high
  /\ Found(NULL)

-----------------------------------------------------------------------------

Step == Probe \/ NotFound

Calls ==
  \/ \E n \in Sizes : RadixMap_create(n)
  \/ \E k \in Key, v \in Value : RadixMap_add(k, v)
  \/ \E k \in Key : RadixMap_find(k)
  \/ RadixMap_delete \/ RadixMap_sort \/ RadixMap_destroy

Next == Step \/ Calls

\* A search that has started goes on; nobody has to make another call.
Spec == Init /\ [][Next]_vars /\ WF_vars(Step)

-----------------------------------------------------------------------------
(* What is expected of it.                                                 *)

Element == [key : 0 .. UINT32_MAX, value : Value]

\* Type invariant: as many elements as end says, which leave a slot to spare in both
\* buffers, and a search within them.
TypeOK ==
  /\ map \in BOOLEAN /\ temp \in BOOLEAN
  /\ max \in Nat /\ end \in Nat /\ (end = 0 \/ end < max)
  /\ contents \in [0 .. end - 1 -> Element]
  /\ held \in {NULL} \cup 0 .. end - 1
  /\ pc \in {"idle", "find"}
  /\ goal \in Key \cup {0}
  /\ low \in 0 .. end /\ high \in -1 .. end - 1

\* Between any two calls the keys are in order, so that the binary search may rely
\* on it: adding and deleting both leave the map sorted.
SortedAlways == TypeOK /\ \A i, j \in DOMAIN contents : i < j => contents[i].key <= contents[j].key

\* An element stays where it is when another with the same or a larger key is
\* added: of equal keys the older comes first.
OlderStayPut ==
  [][end' = end + 1 =>
       \E new \in DOMAIN contents' :
         /\ \A i \in 0 .. new - 1 : contents'[i] = contents[i]
         /\ \A i \in new .. end - 1 :
              contents'[i + 1] = contents[i] /\ contents[i].key > contents'[new].key]_vars

\* A search ends.
FindReturns == pc = "find" ~> pc = "idle"

\* The bag of pairs the client sees.
PairsHeld ==
  [p \in [key : Key, value : Value] |->
     Cardinality({i \in DOMAIN contents : contents[i] = p})]

HeldPair == IF held = NULL THEN NULL ELSE contents[held]

\* The calls do and return what AbstractRadixMap promises, which names the element
\* to delete as radixmap.c does: the one that leaves is the one that was found.
Abstract == INSTANCE AbstractRadixMap
  WITH count <- end, pairs <- PairsHeld, held <- HeldPair
ImplementsAbstractRadixMap == Abstract!Spec

=============================================================================
