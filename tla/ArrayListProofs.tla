-------------------------- MODULE ArrayListProofs --------------------------
(***************************************************************************)
(* What holds of ArrayList for every set of values, every width of         *)
(* unsigned int and every allocator.                                       *)
(***************************************************************************)
EXTENDS ArrayList, WellFoundedInduction, TLAPS

\* A block of the allocator's size, whatever it is filled with.
Cell == Value \cup {NULL, JUNK}

\* Every slot a client may look at holds a pointer, NULL or junk.
LEMMA AtCell ==
  ASSUME TypeOK, NEW i
  PROVE  At(i) \in Cell
BY DEF TypeOK, At, Cell

\* A capacity never leaves the unsigned range.
LEMMA NewCapacityRange ==
  ASSUME NEW c \in 0 .. UINT_MAX
  PROVE  NewCapacity(c) \in 0 .. UINT_MAX
BY ConstantsAssumption DEF NewCapacity

\* The empty block is a block of no slots.
LEMMA EmptyBlock == <<>> \in [0 .. 0 - 1 -> Cell]
OBVIOUS

\* Handing a value over leaves every value with one of its three owners.
LEMMA MovedType ==
  ASSUME TypeOK, NEW v \in Value, NEW who \in {"caller", "list", "freed"}
  PROVE  Moved(v, who) \in [Value -> {"caller", "list", "freed"}]
BY DEF TypeOK, Moved

\* A bulk add is given a sequence of values.
LEMMA BatchIsSeq ==
  ASSUME NEW b \in Batches
  PROVE  b \in Seq(Value)
BY ConstantsAssumption DEF Batches

\* A call that only reads changes nothing but the last result.
LEMMA ReadsUnchanged ==
  ASSUME Reads
  PROVE  UNCHANGED <<list, data, room, size, capacity, owner, todo>>
BY DEF Reads, Returns, ArrayList_get, ArrayList_index_of, ArrayList_contains,
       ArrayList_contains_all, ArrayList_first, ArrayList_last,
       ArrayList_last_index, ArrayList_size, ArrayList_is_empty,
       ArrayList_capacity

\* An append keeps the types, whether the block had to grow or not.
LEMMA AddSucceedsType ==
  ASSUME TypeOK, NEW v \in Value, AddSucceeds(v)
  PROVE  /\ room' \in Nat /\ size' \in Nat /\ capacity' \in 0 .. UINT_MAX
         /\ data' \in [0 .. room' - 1 -> Cell]
         /\ owner' \in [Value -> {"caller", "list", "freed"}]
<1>1. size' \in Nat
  BY DEF TypeOK, AddSucceeds
<1>2. owner' \in [Value -> {"caller", "list", "freed"}]
  BY MovedType DEF AddSucceeds
<1>3. CASE ~Full
  <2>1. data' = [data EXCEPT ![size] = v] /\ room' = room /\ capacity' = capacity
    BY <1>3 DEF AddSucceeds
  <2> QED BY <1>1, <1>2, <2>1 DEF TypeOK, Cell
<1>4. CASE Full
  <2> DEFINE n == NewCapacity(capacity)
  <2>1. /\ data' = [Expanded EXCEPT ![size] = v]
        /\ room' = n /\ capacity' = n
    BY <1>4 DEF AddSucceeds
  <2>2. n \in 0 .. UINT_MAX
    BY NewCapacityRange DEF TypeOK
  <2>3. Expanded \in [0 .. n - 1 -> Cell]
    BY AtCell DEF Expanded, Cell
  <2> HIDE DEF n
  <2>4. data' \in [0 .. room' - 1 -> Cell]
    BY <2>1, <2>3 DEF Cell
  <2> QED BY <1>1, <1>2, <2>1, <2>2, <2>4, ConstantsAssumption
<1> QED BY <1>3, <1>4

\* An append that fails keeps the types.
LEMMA AddFailsType ==
  ASSUME TypeOK, AddFails
  PROVE  /\ room' \in Nat /\ size' \in Nat /\ capacity' \in 0 .. UINT_MAX
         /\ data' \in [0 .. room' - 1 -> Cell]
         /\ owner' \in [Value -> {"caller", "list", "freed"}]
<1>1. CASE NewCapacity(capacity) = 0
  BY <1>1, EmptyBlock DEF AddFails, TypeOK
<1>2. CASE NewCapacity(capacity) # 0
  BY <1>2 DEF AddFails, TypeOK, Cell
<1> QED BY <1>1, <1>2

\* No step of the list or of its client takes a variable out of its type.
LEMMA TypeStep ==
  ASSUME TypeOK, [Next]_vars
  PROVE  TypeOK'
<1> USE DEF Cell
<1>0. UNCHANGED owning
  BY DEF Next, vars
<1> USE <1>0
<1>1. ASSUME NEW c \in Capacities, ArrayList_create(c)
      PROVE  TypeOK'
  <2>0. \/ /\ data' = [i \in 0 .. c - 1 |-> NULL]
           /\ room' = c /\ capacity' = c /\ size' = 0
        \/ UNCHANGED <<data, room, size, capacity>>
    BY <1>1, Zenon DEF ArrayList_create
  <2>1. data' \in [0 .. room' - 1 -> Cell] /\ room' \in Nat
    BY <2>0, ConstantsAssumption DEF TypeOK
  <2>2. size' \in Nat /\ capacity' \in 0 .. UINT_MAX
    BY <2>0, ConstantsAssumption DEF TypeOK
  <2>3. list' \in BOOLEAN
    BY <1>1, Zenon DEF ArrayList_create, TypeOK
  <2> QED BY <1>1, <2>1, <2>2, <2>3 DEF ArrayList_create, TypeOK
<1>2. ASSUME NEW v \in Value, ArrayList_add(v)
      PROVE  TypeOK'
  BY <1>2, AddSucceedsType, AddFailsType DEF ArrayList_add, TypeOK
<1>3. ASSUME NEW b \in Batches, ArrayList_add_all(b)
      PROVE  TypeOK'
  BY <1>3, BatchIsSeq DEF ArrayList_add_all, TypeOK
<1>4. ASSUME AddAllNext
      PROVE  TypeOK'
  <2>1. Head(todo) \in Value /\ Tail(todo) \in Seq(Value)
    BY <1>4 DEF AddAllNext, TypeOK
  <2> QED BY <1>4, <2>1, AddSucceedsType, AddFailsType DEF AddAllNext, TypeOK
<1>5. ASSUME NEW index \in 0 .. size, NEW v \in Value, ArrayList_set(index, v)
      PROVE  TypeOK'
  <2>1. CASE ~InRange(index)
    BY <1>5, <2>1 DEF ArrayList_set, TypeOK
  <2>2. CASE InRange(index)
    <3>1. /\ data' = [data EXCEPT ![index] = v]
          /\ owner' = [Moved(v, "list") EXCEPT ![At(index)] = "caller"]
          /\ UNCHANGED <<list, room, size, capacity, todo>>
      BY <1>5, <2>2 DEF ArrayList_set
    <3>2. Moved(v, "list") \in [Value -> {"caller", "list", "freed"}]
      BY MovedType
    <3> QED BY <3>1, <3>2 DEF TypeOK
  <2> QED BY <2>1, <2>2
<1>6. ASSUME NEW index \in 0 .. size, ArrayList_remove(index)
      PROVE  TypeOK'
  <2>1. Shifted(index) \in [0 .. room - 1 -> Cell]
    BY AtCell DEF Shifted, TypeOK
  <2>2. CASE ~InRange(index)
    BY <1>6, <2>2 DEF ArrayList_remove, TypeOK
  <2>3. CASE InRange(index)
    <3>1. /\ data' = Shifted(index) /\ size' = size - 1
          /\ owner' = [owner EXCEPT ![At(index)] = "caller"]
          /\ UNCHANGED <<list, room, capacity, todo>>
      BY <1>6, <2>3 DEF ArrayList_remove
    <3>2. size - 1 \in Nat
      BY <2>3 DEF InRange, TypeOK
    <3> QED BY <2>1, <3>1, <3>2 DEF TypeOK, Cell
  <2> QED BY <2>2, <2>3
<1>7. ASSUME NEW rank \in Orders, ArrayList_sort(rank)
      PROVE  TypeOK'
  BY <1>7, AtCell DEF ArrayList_sort, TypeOK
<1>8. ASSUME ArrayList_clear
      PROVE  TypeOK'
  BY <1>8, ConstantsAssumption DEF ArrayList_clear, Destroyed, TypeOK
<1>9. ASSUME ArrayList_destroy
      PROVE  TypeOK'
  <2>1. data' \in [0 .. room' - 1 -> Cell]
    BY <1>9, EmptyBlock DEF ArrayList_destroy
  <2>2. owner' \in [Value -> {"caller", "list", "freed"}]
    BY <1>9 DEF ArrayList_destroy, Destroyed, TypeOK
  <2>3. list' \in BOOLEAN
    BY <1>9, Zenon DEF ArrayList_destroy
  <2>4. room' \in Nat /\ size' \in Nat /\ capacity' \in 0 .. UINT_MAX
    BY <1>9, ConstantsAssumption DEF ArrayList_destroy
  <2> QED BY <1>9, <2>1, <2>2, <2>3, <2>4 DEF ArrayList_destroy, TypeOK
<1>10. ASSUME NEW v \in Value, Client_alloc(v)
       PROVE  TypeOK'
  BY <1>10 DEF Client_alloc, TypeOK
<1>11. ASSUME Reads
       PROVE  TypeOK'
  BY <1>11, ReadsUnchanged DEF TypeOK
<1>12. ASSUME UNCHANGED vars
       PROVE  TypeOK'
  BY <1>12 DEF vars, TypeOK
<1> QED BY <1>1, <1>2, <1>3, <1>4, <1>5, <1>6, <1>7, <1>8, <1>9, <1>10, <1>11,
           <1>12 DEF Next, Updates

\* Type correctness, for every instance of the constants.
THEOREM TypeCorrect == Spec => []TypeOK
<1>1. Init => TypeOK
  <2> SUFFICES ASSUME Init PROVE TypeOK
    OBVIOUS
  <2>1. data \in [0 .. room - 1 -> Cell]
    BY EmptyBlock DEF Init
  <2>2. list \in BOOLEAN
    BY Zenon DEF Init
  <2>3. owning \in BOOLEAN
    BY ConstantsAssumption, Zenon DEF Init
  <2>4. room \in Nat /\ size \in Nat /\ capacity \in 0 .. UINT_MAX
    BY ConstantsAssumption DEF Init
  <2> QED BY <2>1, <2>2, <2>3, <2>4 DEF Init, TypeOK, Cell
<1> QED BY <1>1, TypeStep, PTL DEF Spec

-----------------------------------------------------------------------------
(* The block.  Two conditions on the environment are needed: without the   *)
(* first, ArrayList_clear claims slots the block does not have (the run    *)
(* ArrayListSmallBlock); without the second, expand() wraps around to 0.   *)

\* No client asks for fewer slots than the default capacity, and the heap
\* never gives a block that an unsigned int cannot count past.
ReasonableUse ==
  /\ \A c \in Capacities : c = 0 \/ c >= ARRAYLIST_DEFAULT_CAPACITY
  /\ HeapLimit < UINT_MAX

\* CapacityReserved is not inductive: ArrayList_clear sets the capacity to the
\* default, so the block must be known never to be smaller than that.
BlockInv ==
  /\ todo # <<>> => list
  /\ list => /\ ARRAYLIST_DEFAULT_CAPACITY <= capacity
             /\ size <= capacity
             /\ capacity <= room
             /\ room <= HeapLimit

\* Growing never shrinks: the wrapped product is caught, and only at UINT_MAX
\* does adding 1 wrap to 0.
LEMMA NewCapacityGrows ==
  ASSUME NEW c \in 0 .. UINT_MAX
  PROVE  NewCapacity(c) > c \/ (c = UINT_MAX /\ NewCapacity(c) = 0)
<1> DEFINE grown == (c + c \div 2) % (UINT_MAX + 1)
<1>1. UINT_MAX \in Nat /\ c \in Nat
  BY ConstantsAssumption
<1>2. CASE grown > c
  BY <1>1, <1>2 DEF NewCapacity
<1>3. CASE ~(grown > c)
  <2>1. grown \in Int
    BY <1>1
  <2>2. NewCapacity(c) = (c + 1) % (UINT_MAX + 1)
    BY <1>1, <1>3, <2>1 DEF NewCapacity
  <2> QED BY <1>1, <2>2
<1> QED BY <1>2, <1>3

\* An append keeps the block as large as the capacity says.
LEMMA AddSucceedsBlock ==
  ASSUME TypeOK, BlockInv, ReasonableUse, list, NEW v \in Value, AddSucceeds(v)
  PROVE  /\ ARRAYLIST_DEFAULT_CAPACITY <= capacity'
         /\ size' <= capacity' /\ capacity' <= room' /\ room' <= HeapLimit
<1>1. CASE ~Full
  BY <1>1 DEF AddSucceeds, Full, TypeOK, BlockInv
<1>2. CASE Full
  <2>1. /\ size' = size + 1 /\ room' = NewCapacity(capacity)
        /\ capacity' = NewCapacity(capacity)
        /\ NewCapacity(capacity) \in 1 .. HeapLimit
    BY <1>2 DEF AddSucceeds
  <2>2. NewCapacity(capacity) > capacity
    BY <2>1, NewCapacityGrows DEF TypeOK
  <2> QED BY <2>1, <2>2, ConstantsAssumption DEF TypeOK, BlockInv
<1> QED BY <1>1, <1>2

\* So does one that fails.
LEMMA AddFailsBlock ==
  ASSUME TypeOK, BlockInv, ReasonableUse, list, AddFails
  PROVE  UNCHANGED <<data, room, size, capacity, owner>>
<1>1. NewCapacity(capacity) # 0
  BY NewCapacityGrows, ConstantsAssumption DEF TypeOK, BlockInv, ReasonableUse
<1> QED BY <1>1 DEF AddFails

\* Every step keeps the block as large as the capacity says, and not smaller than
\* what ArrayList_clear resets it to.
LEMMA BlockStep ==
  ASSUME ReasonableUse, TypeOK, BlockInv, [Next]_vars
  PROVE  BlockInv'
<1>1. ASSUME NEW c \in Capacities, ArrayList_create(c)
      PROVE  BlockInv'
  <2>1. CASE UNCHANGED <<list, room, size, capacity>>
    BY <1>1, <2>1 DEF ArrayList_create, BlockInv
  <2>2. CASE /\ c \in 1 .. HeapLimit /\ list'
             /\ room' = c /\ capacity' = c /\ size' = 0
    BY <2>2, ConstantsAssumption DEF ReasonableUse, BlockInv
  <2> QED BY <1>1, <2>1, <2>2 DEF ArrayList_create
<1>2. ASSUME NEW v \in Value, ArrayList_add(v)
      PROVE  BlockInv'
  BY <1>2, AddSucceedsBlock, AddFailsBlock DEF ArrayList_add, Idle, BlockInv
<1>3. ASSUME NEW b \in Batches, ArrayList_add_all(b)
      PROVE  BlockInv'
  BY <1>3 DEF ArrayList_add_all, Idle, BlockInv
<1>4. ASSUME AddAllNext
      PROVE  BlockInv'
  <2>1. Head(todo) \in Value /\ list
    BY <1>4 DEF AddAllNext, TypeOK, BlockInv
  <2> QED BY <1>4, <2>1, AddSucceedsBlock, AddFailsBlock DEF AddAllNext, BlockInv
<1>5. ASSUME NEW index \in 0 .. size, NEW v \in Value, ArrayList_set(index, v)
      PROVE  BlockInv'
  BY <1>5 DEF ArrayList_set, BlockInv
<1>6. ASSUME NEW index \in 0 .. size, ArrayList_remove(index)
      PROVE  BlockInv'
  BY <1>6 DEF ArrayList_remove, BlockInv, TypeOK
<1>7. ASSUME NEW rank \in Orders, ArrayList_sort(rank)
      PROVE  BlockInv'
  BY <1>7 DEF ArrayList_sort, BlockInv
<1>8. ASSUME ArrayList_clear
      PROVE  BlockInv'
  BY <1>8, ConstantsAssumption DEF ArrayList_clear, Idle, BlockInv, TypeOK
<1>9. ASSUME ArrayList_destroy
      PROVE  BlockInv'
  BY <1>9 DEF ArrayList_destroy, Idle, BlockInv
<1>10. ASSUME NEW v \in Value, Client_alloc(v)
       PROVE  BlockInv'
  BY <1>10 DEF Client_alloc, BlockInv
<1>11. ASSUME Reads
       PROVE  BlockInv'
  BY <1>11, ReadsUnchanged DEF BlockInv
<1>12. ASSUME UNCHANGED vars
       PROVE  BlockInv'
  BY <1>12 DEF vars, BlockInv
<1> QED BY <1>1, <1>2, <1>3, <1>4, <1>5, <1>6, <1>7, <1>8, <1>9, <1>10, <1>11,
           <1>12 DEF Next, Updates

\* No store of the list leaves its block, whatever the calls and the failures.
THEOREM BlockCorrect == ReasonableUse => (Spec => []CapacityReserved)
<1> SUFFICES ASSUME ReasonableUse
             PROVE  Spec => []CapacityReserved
  OBVIOUS
<1>1. Init => BlockInv
  BY DEF Init, BlockInv
<1>2. TypeOK /\ BlockInv /\ [Next]_vars => BlockInv'
  BY BlockStep
<1>3. BlockInv => CapacityReserved
  BY DEF BlockInv, CapacityReserved
<1> QED BY <1>1, <1>2, <1>3, TypeCorrect, PTL DEF Spec

-----------------------------------------------------------------------------
(* The slots past the last element.                                        *)

\* An append takes the first spare slot and leaves NULL in the others.
LEMMA AddSucceedsSpare ==
  ASSUME TypeOK, BlockInv, ReasonableUse, list, SpareSlotsNull,
         NEW v \in Value, AddSucceeds(v)
  PROVE  \A i \in size' .. room' - 1 : data'[i] = NULL
<1>1. CASE ~Full
  BY <1>1 DEF AddSucceeds, Full, TypeOK, SpareSlotsNull
<1>2. CASE Full
  <2>1. /\ size' = size + 1 /\ room' = NewCapacity(capacity)
        /\ data' = [Expanded EXCEPT ![size] = v]
    BY <1>2 DEF AddSucceeds
  <2>2. NewCapacity(capacity) \in Nat
    BY NewCapacityRange DEF TypeOK
  <2>3. \A i \in size + 1 .. NewCapacity(capacity) - 1 : Expanded[i] = NULL
    BY <1>2, <2>2 DEF Full, Expanded, TypeOK
  <2>4. DOMAIN Expanded = 0 .. NewCapacity(capacity) - 1 /\ size \in Nat
    BY DEF Expanded, TypeOK
  <2>5. \A i \in size + 1 .. NewCapacity(capacity) - 1 : data'[i] = Expanded[i]
    BY <2>1, <2>2, <2>4
  <2> QED BY <2>1, <2>3, <2>5
<1> QED BY <1>1, <1>2

\* Every step leaves NULL in the spare slots.
LEMMA SpareStep ==
  ASSUME ReasonableUse, TypeOK, BlockInv, SpareSlotsNull, [Next]_vars
  PROVE  SpareSlotsNull'
<1>1. ASSUME NEW c \in Capacities, ArrayList_create(c)
      PROVE  SpareSlotsNull'
  <2>1. CASE UNCHANGED <<list, data, room, size>>
    BY <2>1 DEF SpareSlotsNull
  <2>2. CASE data' = [i \in 0 .. c - 1 |-> NULL] /\ room' = c /\ size' = 0
    BY <2>2, ConstantsAssumption DEF SpareSlotsNull
  <2> QED BY <1>1, <2>1, <2>2 DEF ArrayList_create
<1>2. ASSUME NEW v \in Value, ArrayList_add(v)
      PROVE  SpareSlotsNull'
  BY <1>2, AddSucceedsSpare, AddFailsBlock DEF ArrayList_add, Idle, SpareSlotsNull
<1>3. ASSUME NEW b \in Batches, ArrayList_add_all(b)
      PROVE  SpareSlotsNull'
  BY <1>3 DEF ArrayList_add_all, SpareSlotsNull
<1>4. ASSUME AddAllNext
      PROVE  SpareSlotsNull'
  <2>1. Head(todo) \in Value /\ list
    BY <1>4 DEF AddAllNext, TypeOK, BlockInv
  <2> QED BY <1>4, <2>1, AddSucceedsSpare, AddFailsBlock
          DEF AddAllNext, SpareSlotsNull
<1>5. ASSUME NEW index \in 0 .. size, NEW v \in Value, ArrayList_set(index, v)
      PROVE  SpareSlotsNull'
  BY <1>5 DEF ArrayList_set, InRange, SpareSlotsNull, TypeOK
<1>6. ASSUME NEW index \in 0 .. size, ArrayList_remove(index)
      PROVE  SpareSlotsNull'
  <2>1. CASE UNCHANGED <<list, data, size, room>>
    BY <2>1 DEF SpareSlotsNull
  <2>2. CASE /\ list /\ index < size /\ size' = size - 1 /\ room' = room
             /\ data' = Shifted(index)
    BY <2>2 DEF Shifted, SpareSlotsNull, TypeOK
  <2> QED BY <1>6, <2>1, <2>2 DEF ArrayList_remove, InRange, Idle
<1>7. ASSUME NEW rank \in Orders, ArrayList_sort(rank)
      PROVE  SpareSlotsNull'
  BY <1>7 DEF ArrayList_sort, Idle, SpareSlotsNull, TypeOK
<1>8. ASSUME ArrayList_clear
      PROVE  SpareSlotsNull'
  BY <1>8 DEF ArrayList_clear, Idle, SpareSlotsNull, TypeOK
<1>9. ASSUME ArrayList_destroy
      PROVE  SpareSlotsNull'
  BY <1>9 DEF ArrayList_destroy, SpareSlotsNull
<1>10. ASSUME NEW v \in Value, Client_alloc(v)
       PROVE  SpareSlotsNull'
  BY <1>10 DEF Client_alloc, SpareSlotsNull
<1>11. ASSUME Reads
       PROVE  SpareSlotsNull'
  BY <1>11, ReadsUnchanged DEF SpareSlotsNull
<1>12. ASSUME UNCHANGED vars
       PROVE  SpareSlotsNull'
  BY <1>12 DEF vars, SpareSlotsNull
<1> QED BY <1>1, <1>2, <1>3, <1>4, <1>5, <1>6, <1>7, <1>8, <1>9, <1>10, <1>11,
           <1>12 DEF Next, Updates

\* No call leaves a stale pointer behind the last element.
THEOREM SpareSlotsCorrect == ReasonableUse => (Spec => []SpareSlotsNull)
<1> SUFFICES ASSUME ReasonableUse
             PROVE  Spec => []SpareSlotsNull
  OBVIOUS
<1>1. Init => BlockInv /\ SpareSlotsNull
  BY DEF Init, BlockInv, SpareSlotsNull
<1>2. TypeOK /\ BlockInv /\ SpareSlotsNull /\ [Next]_vars
        => BlockInv' /\ SpareSlotsNull'
  BY BlockStep, SpareStep
<1> QED BY <1>1, <1>2, TypeCorrect, PTL DEF Spec

-----------------------------------------------------------------------------
(* Ownership.                                                              *)

\* OwnershipExact needs to know that the elements a running ArrayList_add_all
\* has not reached are still the caller's, and that each comes once.
OwnershipInv ==
  /\ OwnershipExact
  /\ ~list => size = 0
  /\ owning =>
       /\ \A i \in DOMAIN todo : owner[todo[i]] = "caller"
       /\ \A i, j \in DOMAIN todo : todo[i] = todo[j] => i = j

\* What an append does to the elements.
LEMMA AddSucceedsSlots ==
  ASSUME TypeOK, BlockInv, ReasonableUse, list, NEW v \in Value, AddSucceeds(v)
  PROVE  /\ size' = size + 1
         /\ \A i \in 0 .. size : At(i)' = IF i < size THEN At(i) ELSE v
<1>1. CASE ~Full
  BY <1>1 DEF AddSucceeds, Full, TypeOK, BlockInv, At
<1>2. CASE Full
  <2>1. /\ size' = size + 1 /\ room' = NewCapacity(capacity)
        /\ data' = [Expanded EXCEPT ![size] = v]
    BY <1>2 DEF AddSucceeds
  <2>2. size = capacity /\ NewCapacity(capacity) \in Int /\ NewCapacity(capacity) > capacity
    BY <1>2, NewCapacityGrows, NewCapacityRange, ConstantsAssumption
       DEF Full, TypeOK, BlockInv, ReasonableUse
  <2>3. \A i \in 0 .. size - 1 : Expanded[i] = At(i)
    BY <2>2 DEF Expanded, TypeOK
  <2> QED BY <2>1, <2>2, <2>3 DEF TypeOK, Expanded, At
<1> QED BY <1>1, <1>2

\* An append hands the value to the list, in a slot of its own.
LEMMA AddSucceedsOwnership ==
  ASSUME TypeOK, BlockInv, ReasonableUse, list, OwnershipExact, UNCHANGED owning,
         NEW v \in Value, CanPass(v), AddSucceeds(v)
  PROVE  OwnershipExact'
<1> SUFFICES ASSUME owning
             PROVE  /\ \A w \in Value : owner'[w] = "list" <=> w \in Contents'
                    /\ \A i, j \in 0 .. size' - 1 : At(i)' = At(j)' => i = j
  BY DEF OwnershipExact
<1>1. owner' = [owner EXCEPT ![v] = "list"]
  BY DEF AddSucceeds, Moved
<1>2. v \notin Contents
  BY DEF CanPass, OwnershipExact
<1>3. Contents' = Contents \cup {v}
  <2>1. \A i \in 0 .. size - 1 : At(i)' = At(i)
    BY AddSucceedsSlots DEF TypeOK
  <2>2. PICK k \in 0 .. size : k = size /\ At(k)' = v
    BY AddSucceedsSlots DEF TypeOK
  <2>3. size' - 1 = size
    BY AddSucceedsSlots DEF TypeOK
  <2>4. v \in Contents'
    BY <2>2, <2>3 DEF Contents
  <2>5. Contents \subseteq Contents'
    BY <2>1, <2>3 DEF Contents, TypeOK
  <2>6. Contents' \subseteq Contents \cup {v}
    <3>1. ASSUME NEW i \in 0 .. size
          PROVE  At(i)' \in Contents \cup {v}
      BY AddSucceedsSlots DEF Contents, TypeOK
    <3> QED BY <2>3, <3>1 DEF Contents
  <2> QED BY <2>4, <2>5, <2>6
<1>4. \A w \in Value : owner'[w] = "list" <=> w \in Contents'
  BY <1>1, <1>3 DEF OwnershipExact, TypeOK
<1>5. \A i, j \in 0 .. size' - 1 : At(i)' = At(j)' => i = j
  <2>1. \A i \in 0 .. size - 1 : At(i) # v
    BY <1>2 DEF Contents
  <2>2. \A i, j \in 0 .. size - 1 : At(i) = At(j) => i = j
    BY DEF OwnershipExact
  <2> QED BY <2>1, <2>2, AddSucceedsSlots DEF TypeOK
<1> QED BY <1>4, <1>5

\* The ownership of the elements depends on size, data, room, owner and on
\* whether the list owns them alone.
LEMMA OwnershipUnchanged ==
  ASSUME OwnershipExact, UNCHANGED <<owning, data, room, size, owner>>
  PROVE  OwnershipExact'
BY DEF OwnershipExact, Contents, At

\* Once every element is destroyed the list owns nothing.
LEMMA DestroyedOwnership ==
  ASSUME owner' = Destroyed, size' = 0, OwnershipExact, TypeOK, UNCHANGED owning
  PROVE  OwnershipExact'
<1>1. Contents' = {}
  BY DEF Contents
<1>2. owning => \A v \in Value : owner'[v] # "list"
  BY DEF Destroyed, OwnershipExact, TypeOK
<1> QED BY <1>1, <1>2 DEF OwnershipExact

\* A replaced element changes its own slot only.
LEMMA SetSlots ==
  ASSUME TypeOK, BlockInv, NEW index \in 0 .. size, InRange(index), NEW v \in Value,
         ArrayList_set(index, v)
  PROVE  /\ At(index)' = v
         /\ \A i \in 0 .. size - 1 : i # index => At(i)' = At(i)
<1>1. data' = [data EXCEPT ![index] = v] /\ room' = room
  BY DEF ArrayList_set
<1> QED BY <1>1 DEF ArrayList_set, Idle, BlockInv, InRange, At, TypeOK

\* The elements behind one that is taken out move down.
LEMMA RemoveSlots ==
  ASSUME TypeOK, BlockInv, NEW index \in 0 .. size, InRange(index), ArrayList_remove(index)
  PROVE  \A i \in 0 .. size - 2 : At(i)' = IF i < index THEN At(i) ELSE At(i + 1)
<1>1. data' = Shifted(index) /\ room' = room
  BY DEF ArrayList_remove
<1> QED BY <1>1 DEF ArrayList_remove, Idle, BlockInv, InRange, Shifted, At, TypeOK

\* p is the arrangement of a sort.
Sorts(p, rank) ==
  /\ p \in Bijection(0 .. size - 1, 0 .. size - 1)
  /\ \A i, j \in 0 .. size - 1 : i < j => rank[At(p[i])] <= rank[At(p[j])]
  /\ \A i \in 0 .. size - 1 : At(i)' = At(p[i])

\* A sort rearranges the elements.
LEMMA SortSlots ==
  ASSUME TypeOK, BlockInv, NEW rank \in Orders, ArrayList_sort(rank)
  PROVE  \E p : Sorts(p, rank)
<1>1. /\ list /\ room' = room
      /\ \E p \in Bijection(0 .. size - 1, 0 .. size - 1) :
           /\ \A i, j \in 0 .. size - 1 : i < j => rank[At(p[i])] <= rank[At(p[j])]
           /\ data' = [i \in 0 .. room - 1 |-> IF i < size THEN At(p[i]) ELSE data[i]]
  BY DEF ArrayList_sort, Idle
<1>2. PICK p \in Bijection(0 .. size - 1, 0 .. size - 1) :
        /\ \A i, j \in 0 .. size - 1 : i < j => rank[At(p[i])] <= rank[At(p[j])]
        /\ data' = [i \in 0 .. room - 1 |-> IF i < size THEN At(p[i]) ELSE data[i]]
  BY <1>1
<1>3. \A i \in 0 .. size - 1 : At(i)' = At(p[i])
  BY <1>1, <1>2 DEF At, BlockInv, TypeOK
<1> QED BY <1>2, <1>3 DEF Sorts

\* ArrayList_set exchanges one owned value for another.
LEMMA SetOwnership ==
  ASSUME TypeOK, BlockInv, OwnershipExact, UNCHANGED owning,
         NEW index \in 0 .. size, NEW v \in Value, ArrayList_set(index, v)
  PROVE  OwnershipExact'
<1>1. CASE ~InRange(index)
  BY <1>1, OwnershipUnchanged DEF ArrayList_set
<1>2. CASE InRange(index)
  <2> SUFFICES ASSUME owning
               PROVE  /\ \A w \in Value : owner'[w] = "list" <=> w \in Contents'
                      /\ \A i, j \in 0 .. size' - 1 : At(i)' = At(j)' => i = j
    BY DEF OwnershipExact
  <2>1. /\ CanPass(v) /\ size' = size /\ room' = room
        /\ owner' = [[owner EXCEPT ![v] = "list"] EXCEPT ![At(index)] = "caller"]
        /\ data' = [data EXCEPT ![index] = v]
    BY <1>2 DEF ArrayList_set, Moved
  <2>2. /\ At(index)' = v
        /\ \A i \in 0 .. size - 1 : i # index => At(i)' = At(i)
    BY <1>2, SetSlots
  <2>3. v \notin Contents /\ index \in 0 .. size - 1 /\ At(index) \in Contents
    BY <1>2, <2>1 DEF InRange, CanPass, OwnershipExact, TypeOK, Contents
  <2>4. \A i, j \in 0 .. size - 1 : At(i) = At(j) => i = j
    BY DEF OwnershipExact
  <2>5. Contents' = (Contents \ {At(index)}) \cup {v}
    BY <2>1, <2>2, <2>3, <2>4 DEF Contents
  <2>6. \A w \in Value : owner'[w] = "list" <=> w \in Contents'
    BY <2>1, <2>3, <2>5 DEF OwnershipExact, TypeOK
  <2>7. \A i, j \in 0 .. size' - 1 : At(i)' = At(j)' => i = j
    BY <2>1, <2>2, <2>3, <2>4 DEF Contents
  <2> QED BY <2>6, <2>7
<1> QED BY <1>1, <1>2

\* ArrayList_remove gives back the value it takes out, and that one only.
LEMMA RemoveOwnership ==
  ASSUME TypeOK, BlockInv, OwnershipExact, UNCHANGED owning,
         NEW index \in 0 .. size, ArrayList_remove(index)
  PROVE  OwnershipExact'
<1>1. CASE ~InRange(index)
  BY <1>1, OwnershipUnchanged DEF ArrayList_remove
<1>2. CASE InRange(index)
  <2> SUFFICES ASSUME owning
               PROVE  /\ \A w \in Value : owner'[w] = "list" <=> w \in Contents'
                      /\ \A i, j \in 0 .. size' - 1 : At(i)' = At(j)' => i = j
    BY DEF OwnershipExact
  <2>1. /\ size' = size - 1 /\ room' = room /\ data' = Shifted(index)
        /\ owner' = [owner EXCEPT ![At(index)] = "caller"]
    BY <1>2 DEF ArrayList_remove
  <2>2. \A i \in 0 .. size - 2 : At(i)' = IF i < index THEN At(i) ELSE At(i + 1)
    BY <1>2, RemoveSlots
  <2>3. index \in 0 .. size - 1 /\ At(index) \in Contents
    BY <1>2 DEF InRange, TypeOK, Contents
  <2>4. \A i, j \in 0 .. size - 1 : At(i) = At(j) => i = j
    BY DEF OwnershipExact
  <2>5. Contents' = Contents \ {At(index)}
    <3>1. ASSUME NEW i \in 0 .. size - 2
          PROVE  At(i)' \in Contents \ {At(index)}
      <4> DEFINE k == IF i < index THEN i ELSE i + 1
      <4>1. k \in 0 .. size - 1 /\ k # index /\ At(i)' = At(k)
        BY <2>2, <2>3 DEF TypeOK
      <4> HIDE DEF k
      <4> QED BY <2>3, <2>4, <4>1 DEF Contents
    <3>2. ASSUME NEW i \in 0 .. size - 1, i # index
          PROVE  At(i) \in Contents'
      <4>1. CASE i < index
        BY <2>1, <2>2, <2>3, <4>1 DEF Contents, TypeOK
      <4>2. CASE i > index
        <5>1. i - 1 \in 0 .. size - 2 /\ ~(i - 1 < index) /\ (i - 1) + 1 = i
          BY <2>3, <4>2 DEF TypeOK
        <5>2. At(i - 1)' = At(i)
          BY <2>2, <5>1
        <5>3. \A m \in 0 .. size - 2 : At(m)' \in Contents'
          BY <2>1 DEF Contents, TypeOK
        <5> QED BY <5>1, <5>2, <5>3
      <4> QED BY <3>2, <4>1, <4>2 DEF TypeOK
    <3>3. Contents' = {At(i)' : i \in 0 .. size - 2}
      BY <2>1 DEF Contents, TypeOK
    <3>4. Contents' \subseteq Contents \ {At(index)}
      BY <3>1, <3>3
    <3>5. Contents \ {At(index)} \subseteq Contents'
      BY <3>2 DEF Contents
    <3> QED BY <3>4, <3>5
  <2>6. \A w \in Value : owner'[w] = "list" <=> w \in Contents'
    BY <2>1, <2>5 DEF OwnershipExact, TypeOK
  <2>7. \A i, j \in 0 .. size' - 1 : At(i)' = At(j)' => i = j
    BY <2>1, <2>2, <2>3, <2>4 DEF TypeOK
  <2> QED BY <2>6, <2>7
<1> QED BY <1>1, <1>2

\* Sorting moves the elements and keeps them distinct.
LEMMA SortOwnership ==
  ASSUME TypeOK, BlockInv, OwnershipExact, UNCHANGED owning,
         NEW rank \in Orders, ArrayList_sort(rank)
  PROVE  OwnershipExact'
<1>1. size' = size /\ owner' = owner
  BY DEF ArrayList_sort
<1>2. PICK p : Sorts(p, rank)
  BY SortSlots
<1>3. /\ p \in [0 .. size - 1 -> 0 .. size - 1]
      /\ \A i, j \in 0 .. size - 1 : p[i] = p[j] => i = j
      /\ \A j \in 0 .. size - 1 : \E i \in 0 .. size - 1 : p[i] = j
  BY <1>2 DEF Sorts, Bijection, Injection, Surjection, IsInjective
<1>4. \A i \in 0 .. size - 1 : At(i)' = At(p[i])
  BY <1>2 DEF Sorts
<1>5. Contents' = Contents
  <2>1. \A i \in 0 .. size - 1 : At(i)' \in Contents
    BY <1>3, <1>4 DEF Contents
  <2>2. \A j \in 0 .. size - 1 : At(j) \in Contents'
    <3> TAKE j \in 0 .. size - 1
    <3>1. PICK i \in 0 .. size - 1 : p[i] = j
      BY <1>3
    <3>2. At(i)' = At(j)
      BY <1>4, <3>1
    <3>3. At(i)' \in Contents'
      BY <1>1 DEF Contents
    <3> QED BY <3>2, <3>3
  <2> QED BY <1>1, <2>1, <2>2 DEF Contents
<1>6. owning => \A i, j \in 0 .. size - 1 : At(i)' = At(j)' => i = j
  BY <1>3, <1>4 DEF OwnershipExact
<1> QED BY <1>1, <1>5, <1>6 DEF OwnershipExact

\* The elements still to be added: each is the caller's, and comes once.
Pending == /\ \A i \in DOMAIN todo : owner[todo[i]] = "caller"
           /\ \A i, j \in DOMAIN todo : todo[i] = todo[j] => i = j

\* What a bulk add has still to add stays the caller's.
LEMMA AddAllNextPending ==
  ASSUME TypeOK, Pending, AddAllNext, owner' = owner \/ owner' = Moved(Head(todo), "list")
  PROVE  Pending'
<1>1. todo \in Seq(Value) /\ todo # <<>> /\ todo' = Tail(todo)
  BY DEF TypeOK, AddAllNext
<1>2. /\ DOMAIN todo' = 1 .. Len(todo) - 1
      /\ \A i \in 1 .. Len(todo) - 1 : todo'[i] = todo[i + 1]
      /\ Head(todo) = todo[1] /\ DOMAIN todo = 1 .. Len(todo)
      /\ Len(todo) \in Nat \ {0}
  BY <1>1
<1>3. \A i, j \in DOMAIN todo' : todo'[i] = todo'[j] => i = j
  BY <1>2 DEF Pending
<1>4. \A i \in DOMAIN todo' : todo'[i] # Head(todo) /\ owner[todo'[i]] = "caller"
  BY <1>2 DEF Pending
<1>5. \A i \in DOMAIN todo' : owner'[todo'[i]] = "caller"
  BY <1>1, <1>2, <1>4 DEF Moved, TypeOK
<1> QED BY <1>3, <1>5 DEF Pending

\* Every step keeps the ownership exact.
LEMMA OwnershipStep ==
  ASSUME ReasonableUse, TypeOK, BlockInv, OwnershipInv, [Next]_vars
  PROVE  OwnershipInv'
<1> USE DEF OwnershipInv
<1>0. UNCHANGED owning
  BY DEF Next, vars
<1> USE <1>0
<1>1. ASSUME NEW c \in Capacities, ArrayList_create(c)
      PROVE  OwnershipInv'
  <2>0. size = 0
    BY <1>1 DEF ArrayList_create
  <2>1. Contents = {} /\ size' = 0 /\ UNCHANGED <<owner, todo>>
    <3>1. Contents = {}
      BY <2>0 DEF Contents
    <3>2. size' = 0 /\ UNCHANGED <<owner, todo>>
      BY <1>1, <2>0, Zenon DEF ArrayList_create
    <3> QED BY <3>1, <3>2
  <2>2. Contents' = {}
    BY <2>1 DEF Contents
  <2> QED BY <2>1, <2>2 DEF OwnershipExact
<1>2. ASSUME NEW v \in Value, ArrayList_add(v)
      PROVE  OwnershipInv'
  <2>1. list /\ list' = list /\ todo = <<>> /\ todo' = <<>> /\ CanPass(v)
    BY <1>2 DEF ArrayList_add, Idle
  <2>2. OwnershipExact'
    BY <1>2, <2>1, AddSucceedsOwnership, AddFailsBlock, OwnershipUnchanged
       DEF ArrayList_add
  <2> QED BY <2>1, <2>2
<1>3. ASSUME NEW b \in Batches, ArrayList_add_all(b)
      PROVE  OwnershipInv'
  <2>1. /\ list /\ todo' = b /\ CanPassAll(b)
        /\ UNCHANGED <<list, data, room, size, owner>>
    BY <1>3 DEF ArrayList_add_all, Idle
  <2>2. OwnershipExact'
    BY <2>1, OwnershipUnchanged
  <2> QED BY <2>1, <2>2 DEF CanPassAll, CanPass
<1>4. ASSUME AddAllNext
      PROVE  OwnershipInv'
  <2>1. list /\ list' = list /\ todo # <<>> /\ Head(todo) \in Value
    BY <1>4 DEF AddAllNext, TypeOK, BlockInv
  <2>2. owning => Pending /\ CanPass(Head(todo))
    BY <1>4 DEF Pending, AddAllNext, TypeOK, CanPass
  <2>3. AddFails \/ AddSucceeds(Head(todo))
    BY <1>4 DEF AddAllNext
  <2>4. owner' = owner \/ owner' = Moved(Head(todo), "list")
    BY <2>1, <2>3, AddFailsBlock DEF AddSucceeds
  <2>5. OwnershipExact'
    <3>1. CASE owning
      BY <2>1, <2>2, <2>3, <3>1, AddSucceedsOwnership, AddFailsBlock, OwnershipUnchanged
    <3>2. CASE ~owning
      BY <3>2 DEF OwnershipExact
    <3> QED BY <3>1, <3>2
  <2>6. owning => Pending'
    BY <1>4, <2>2, <2>4, AddAllNextPending
  <2> QED BY <2>1, <2>5, <2>6 DEF Pending
<1>5. ASSUME NEW index \in 0 .. size, NEW v \in Value, ArrayList_set(index, v)
      PROVE  OwnershipInv'
  BY <1>5, SetOwnership DEF ArrayList_set, Idle
<1>6. ASSUME NEW index \in 0 .. size, ArrayList_remove(index)
      PROVE  OwnershipInv'
  BY <1>6, RemoveOwnership DEF ArrayList_remove, Idle
<1>7. ASSUME NEW rank \in Orders, ArrayList_sort(rank)
      PROVE  OwnershipInv'
  BY <1>7, SortOwnership DEF ArrayList_sort, Idle
<1>8. ASSUME ArrayList_clear
      PROVE  OwnershipInv'
  BY <1>8, DestroyedOwnership DEF ArrayList_clear, Idle
<1>9. ASSUME ArrayList_destroy
      PROVE  OwnershipInv'
  BY <1>9, DestroyedOwnership DEF ArrayList_destroy, Idle
<1>10. ASSUME NEW v \in Value, Client_alloc(v)
       PROVE  OwnershipInv'
  <2>1. /\ owner[v] = "freed" /\ owner' = [owner EXCEPT ![v] = "caller"]
        /\ UNCHANGED <<list, data, room, size, todo>>
    BY <1>10 DEF Client_alloc
  <2>2. Contents' = Contents /\ \A i \in 0 .. size - 1 : At(i)' = At(i)
    BY <2>1 DEF Contents, At
  <2>3. OwnershipExact'
    BY <2>1, <2>2 DEF OwnershipExact, TypeOK
  <2>4. owning => \A i \in DOMAIN todo' : owner'[todo'[i]] = "caller"
    BY <2>1 DEF TypeOK
  <2> QED BY <2>1, <2>3, <2>4
<1>11. ASSUME UNCHANGED <<list, data, room, size, owner, todo>>
       PROVE  OwnershipInv'
  BY <1>11, OwnershipUnchanged
<1>12. ASSUME Reads
       PROVE  OwnershipInv'
  BY <1>11, <1>12, ReadsUnchanged
<1>13. ASSUME UNCHANGED vars
       PROVE  OwnershipInv'
  BY <1>11, <1>13 DEF vars
<1> QED BY <1>1, <1>2, <1>3, <1>4, <1>5, <1>6, <1>7, <1>8, <1>9, <1>10, <1>12,
           <1>13 DEF Next, Updates

\* Every value is freed exactly once: the list owns precisely what its slots
\* hold, each in one slot, through failed adds, shifts, sorts and clears.
THEOREM OwnershipCorrect == ReasonableUse => (Spec => []OwnershipExact)
<1> SUFFICES ASSUME ReasonableUse
             PROVE  Spec => []OwnershipExact
  OBVIOUS
<1>1. Init => BlockInv /\ OwnershipInv
  <2> SUFFICES ASSUME Init PROVE BlockInv /\ OwnershipInv
    OBVIOUS
  <2>1. BlockInv /\ Contents = {} /\ size = 0 /\ todo = <<>>
    BY DEF Init, BlockInv, Contents
  <2>2. \A v \in Value : owner[v] # "list"
    BY DEF Init
  <2> QED BY <2>1, <2>2 DEF OwnershipInv, OwnershipExact
<1>2. TypeOK /\ BlockInv /\ OwnershipInv /\ [Next]_vars => BlockInv' /\ OwnershipInv'
  BY BlockStep, OwnershipStep
<1>3. OwnershipInv => OwnershipExact
  BY DEF OwnershipInv
<1> QED BY <1>1, <1>2, <1>3, TypeCorrect, PTL DEF Spec

-----------------------------------------------------------------------------
(* ArrayList implements AbstractList.                                      *)

\* The null pointer is no list of values.
NullIsNoList == NULL \notin Seq(Value)

\* Every element is a pointer the client passed, and without ownership every
\* value stays the client's.
Filled ==
  /\ list => \A i \in 0 .. size - 1 : At(i) \in Value
  /\ ~owning => \A v \in Value : owner[v] = "caller"

\* An append stores a value of the client.
LEMMA AddSucceedsFilled ==
  ASSUME TypeOK, BlockInv, ReasonableUse, list, Filled, UNCHANGED owning,
         NEW v \in Value, AddSucceeds(v)
  PROVE  Filled'
<1>1. size' = size + 1 /\ \A i \in 0 .. size : At(i)' = IF i < size THEN At(i) ELSE v
  BY AddSucceedsSlots
<1>2. \A i \in 0 .. size' - 1 : At(i)' \in Value
  BY <1>1 DEF Filled, TypeOK
<1>3. owner' = Moved(v, "list")
  BY DEF AddSucceeds
<1> QED BY <1>2, <1>3 DEF Filled, Moved

\* The elements are values if the slots, the size and the owners stay.
LEMMA FilledUnchanged ==
  ASSUME Filled, UNCHANGED <<owning, list, data, room, size, owner>>
  PROVE  Filled'
BY DEF Filled, At

\* Every step leaves values of the client in the list.
LEMMA FilledStep ==
  ASSUME ReasonableUse, TypeOK, BlockInv, OwnershipInv, Filled, [Next]_vars
  PROVE  Filled'
<1>0. UNCHANGED owning
  BY DEF Next, vars
<1>1. ASSUME NEW c \in Capacities, ArrayList_create(c)
      PROVE  Filled'
  <2>1. size' = 0 /\ owner' = owner
    BY <1>1, Zenon DEF ArrayList_create, OwnershipInv
  <2> QED BY <1>0, <2>1 DEF Filled
<1>2. ASSUME NEW v \in Value, ArrayList_add(v)
      PROVE  Filled'
  BY <1>0, <1>2, AddSucceedsFilled, AddFailsBlock, FilledUnchanged DEF ArrayList_add, Idle
<1>3. ASSUME NEW b \in Batches, ArrayList_add_all(b)
      PROVE  Filled'
  BY <1>0, <1>3, FilledUnchanged DEF ArrayList_add_all
<1>4. ASSUME AddAllNext
      PROVE  Filled'
  <2>1. Head(todo) \in Value /\ list
    BY <1>4 DEF AddAllNext, TypeOK, BlockInv
  <2> QED BY <1>0, <1>4, <2>1, AddSucceedsFilled, AddFailsBlock, FilledUnchanged
          DEF AddAllNext
<1>5. ASSUME NEW index \in 0 .. size, NEW v \in Value, ArrayList_set(index, v)
      PROVE  Filled'
  <2>1. CASE ~InRange(index)
    BY <1>0, <1>5, <2>1, FilledUnchanged DEF ArrayList_set
  <2>2. CASE InRange(index)
    <3>1. /\ size' = size /\ list' = list
          /\ owner' = [Moved(v, "list") EXCEPT ![At(index)] = "caller"]
      BY <1>5, <2>2 DEF ArrayList_set
    <3>2. list' => \A i \in 0 .. size' - 1 : At(i)' \in Value
      BY <1>5, <2>2, <3>1, SetSlots DEF Filled
    <3>3. ~owning => \A w \in Value : owner'[w] = "caller"
      BY <3>1 DEF Filled, Moved, TypeOK
    <3> QED BY <1>0, <3>2, <3>3 DEF Filled
  <2> QED BY <2>1, <2>2
<1>6. ASSUME NEW index \in 0 .. size, ArrayList_remove(index)
      PROVE  Filled'
  <2>1. CASE ~InRange(index)
    BY <1>0, <1>6, <2>1, FilledUnchanged DEF ArrayList_remove
  <2>2. CASE InRange(index)
    <3>1. /\ size' = size - 1 /\ list' = list
          /\ owner' = [owner EXCEPT ![At(index)] = "caller"]
      BY <1>6, <2>2 DEF ArrayList_remove
    <3>2. list' => \A i \in 0 .. size' - 1 : At(i)' \in Value
      BY <1>6, <2>2, <3>1, RemoveSlots DEF Filled, TypeOK
    <3>3. ~owning => \A w \in Value : owner'[w] = "caller"
      BY <3>1 DEF Filled, TypeOK
    <3> QED BY <1>0, <3>2, <3>3 DEF Filled
  <2> QED BY <2>1, <2>2
<1>7. ASSUME NEW rank \in Orders, ArrayList_sort(rank)
      PROVE  Filled'
  <2>1. PICK p : Sorts(p, rank)
    BY <1>7, SortSlots
  <2>2. size' = size /\ list' = list /\ owner' = owner
    BY <1>7 DEF ArrayList_sort
  <2> QED BY <1>0, <2>1, <2>2 DEF Sorts, Bijection, Injection, Filled
<1>8. ASSUME ArrayList_clear \/ ArrayList_destroy
      PROVE  Filled'
  <2>1. size' = 0 /\ owner' = Destroyed
    BY <1>8 DEF ArrayList_clear, ArrayList_destroy
  <2> QED BY <1>0, <2>1 DEF Filled, Destroyed
<1>9. ASSUME NEW v \in Value, Client_alloc(v)
      PROVE  Filled'
  <2>1. /\ owner' = [owner EXCEPT ![v] = "caller"]
        /\ UNCHANGED <<list, data, room, size>>
    BY <1>9 DEF Client_alloc
  <2> QED BY <1>0, <2>1 DEF Filled, At, TypeOK
<1>10. ASSUME Reads \/ UNCHANGED vars
       PROVE  Filled'
  BY <1>0, <1>10, ReadsUnchanged, FilledUnchanged DEF vars
<1> QED BY <1>1, <1>2, <1>3, <1>4, <1>5, <1>6, <1>7, <1>8, <1>9, <1>10 DEF Next, Updates

\* What the client sees: the elements, from position 1.
LEMMA ElemsSeen ==
  ASSUME TypeOK, Filled, NullIsNoList, list
  PROVE  /\ Elems \in Seq(Value) /\ Elems # NULL
         /\ Len(Elems) = size /\ DOMAIN Elems = 1 .. size
         /\ \A i \in 1 .. size : Elems[i] = At(i - 1)
         /\ \A i \in 0 .. size - 1 : Elems[i + 1] = At(i)
<1>1. Elems = [i \in 1 .. size |-> At(i - 1)] /\ size \in Nat
  BY DEF Elems, TypeOK
<1>2. \A i \in 1 .. size : At(i - 1) \in Value
  BY <1>1 DEF Filled
<1>3. Elems \in Seq(Value) /\ Len(Elems) = size
  BY <1>1, <1>2
<1>4. \A i \in 0 .. size - 1 : i + 1 \in 1 .. size /\ (i + 1) - 1 = i
  BY <1>1
<1>5. \A i \in 0 .. size - 1 : Elems[i + 1] = At(i)
  BY <1>1, <1>4
<1> QED BY <1>1, <1>3, <1>5 DEF NullIsNoList

\* The list is the abstract one between its calls, and holds what its slots hold.
LEMMA OpenSeen ==
  ASSUME TypeOK, Filled, NullIsNoList, list
  PROVE  /\ Idle => Abstract!Idle
         /\ Abstract!Held = Contents
<1>1. Idle => Abstract!Idle
  BY ElemsSeen DEF Idle, Abstract!Idle
<1>2. Abstract!Held = Contents
  <2>1. Abstract!Held = {Elems[i] : i \in 1 .. size}
    BY ElemsSeen DEF Abstract!Held
  <2>2. \A i \in 1 .. size : Elems[i] \in Contents
    <3> TAKE i \in 1 .. size
    <3>1. i - 1 \in 0 .. size - 1
      BY DEF TypeOK
    <3> QED BY <3>1, ElemsSeen DEF Contents
  <2>3. \A i \in 0 .. size - 1 : At(i) \in {Elems[k] : k \in 1 .. size}
    <3> TAKE i \in 0 .. size - 1
    <3>1. i + 1 \in 1 .. size
      BY DEF TypeOK
    <3> QED BY <3>1, ElemsSeen
  <2> QED BY <2>1, <2>2, <2>3 DEF Contents
<1> QED BY <1>1, <1>2

\* The client sees no change if the slots and the size stay.
LEMMA ElemsUnchanged ==
  ASSUME UNCHANGED <<list, data, room, size>>
  PROVE  UNCHANGED Elems
BY DEF Elems, At

\* What the client sees after a call is given by what the slots hold then.
LEMMA ElemsNext ==
  ASSUME list', size' \in Nat, NEW e \in Seq(Value), Len(e) = size',
         \A i \in 0 .. size' - 1 : At(i)' = e[i + 1]
  PROVE  Elems' = e
<1>1. Elems' = [i \in 1 .. size' |-> At(i - 1)']
  BY DEF Elems
<1>2. e = [i \in 1 .. size' |-> e[i]]
  OBVIOUS
<1>3. ASSUME NEW i \in 1 .. size'
      PROVE  At(i - 1)' = e[i]
  <2> DEFINE n == size'
  <2>1. n \in Nat /\ i \in 1 .. n /\ \A k \in 0 .. n - 1 : At(k)' = e[k + 1]
    OBVIOUS
  <2> HIDE DEF n
  <2>2. i - 1 \in 0 .. n - 1 /\ (i - 1) + 1 = i
    BY <2>1
  <2> QED BY <2>1, <2>2
<1> QED BY <1>1, <1>2, <1>3

\* An append is the abstract one.
LEMMA AppendRefined ==
  ASSUME ReasonableUse, NullIsNoList, TypeOK, BlockInv, Filled, list, list' = list,
         NEW v \in Value, owner[v] = "caller", AddSucceeds(v)
  PROVE  Abstract!Append1(v)
<1>1. size' = size + 1 /\ \A i \in 0 .. size : At(i)' = IF i < size THEN At(i) ELSE v
  BY AddSucceedsSlots
<1> DEFINE e == Append(Elems, v)
<1>2. /\ e \in Seq(Value) /\ Len(e) = size + 1 /\ e[size + 1] = v
      /\ \A i \in 1 .. size : e[i] = Elems[i]
  BY ElemsSeen
<1> HIDE DEF e
<1>3. size \in Nat
  BY DEF TypeOK
<1>4. ASSUME NEW i \in 0 .. size
      PROVE  At(i)' = e[i + 1]
  <2>1. CASE i = size
    BY <1>1, <1>2, <1>3, <2>1
  <2>2. CASE i # size
    <3>1. i \in 0 .. size - 1 /\ i + 1 \in 1 .. size /\ i < size
      BY <1>3, <2>2
    <3>2. e[i + 1] = At(i)
      BY <1>2, <3>1, ElemsSeen
    <3> QED BY <1>1, <3>1, <3>2
  <2> QED BY <2>1, <2>2
<1>5. size' \in Nat /\ size' - 1 = size
  BY <1>1, <1>3
<1>6. Elems' = e
  BY <1>1, <1>2, <1>4, <1>5, ElemsNext
<1>7. owner' = Abstract!Moved(v, "list")
  BY DEF AddSucceeds, Moved, Abstract!Moved
<1> QED BY <1>6, <1>7 DEF Abstract!Append1, e

\* Setting an element replaces it.
LEMMA SetRefined ==
  ASSUME NullIsNoList, TypeOK, BlockInv, Filled, UNCHANGED owning,
         NEW index \in 0 .. size, NEW v \in Value, ArrayList_set(index, v)
  PROVE  Abstract!Next
<1>1. /\ Idle /\ list /\ list' = list /\ owner[v] = "caller"
      /\ UNCHANGED <<room, size, todo>>
  BY DEF ArrayList_set, Idle, CanPass
<1>2. Abstract!Idle
  BY <1>1, OpenSeen
<1>3. CASE ~InRange(index)
  <2>1. UNCHANGED Elems /\ owner' = owner
    BY <1>1, <1>3, ElemsUnchanged DEF ArrayList_set
  <2>2. ret' = <<"set", Len(Elems), NULL>>
    BY <1>1, <1>3, ElemsSeen DEF ArrayList_set, InRange, TypeOK
  <2>3. Abstract!OutOfRange
    BY <1>1, <1>2, <2>1, <2>2 DEF Abstract!OutOfRange
  <2> QED BY <2>3 DEF Abstract!Next
<1>4. CASE InRange(index)
  <2>1. /\ ret' = <<"set", index, At(index)>>
        /\ owner' = [Moved(v, "list") EXCEPT ![At(index)] = "caller"]
    BY <1>4 DEF ArrayList_set
  <2>2. /\ index \in 0 .. size - 1 /\ index + 1 \in DOMAIN Elems
        /\ Elems[index + 1] = At(index) /\ Len(Elems) = size
    BY <1>1, <1>4, ElemsSeen DEF InRange, TypeOK
  <2> DEFINE e == [Elems EXCEPT ![index + 1] = v]
  <2>3. e \in Seq(Value) /\ Len(e) = size /\ size \in Nat
    <3>1. /\ Elems \in Seq(Value) /\ Len(Elems) = size /\ size \in Nat
          /\ DOMAIN Elems = 1 .. size
      BY <1>1, ElemsSeen DEF TypeOK
    <3>2. e = [i \in 1 .. size |-> IF i = index + 1 THEN v ELSE Elems[i]]
      BY <3>1
    <3>3. \A i \in 1 .. size : Elems[i] \in Value
      BY <3>1
    <3> HIDE DEF e
    <3> QED BY <3>1, <3>2, <3>3
  <2>4. ASSUME NEW i \in 0 .. size - 1
        PROVE  At(i)' = e[i + 1]
    <3>1. i + 1 \in 1 .. size /\ (i = index <=> i + 1 = index + 1)
      BY <2>3
    <3>2. e[i + 1] = IF i = index THEN v ELSE Elems[i + 1]
      BY <1>1, <3>1, ElemsSeen
    <3>3. Elems[i + 1] = At(i)
      BY <1>1, ElemsSeen
    <3> QED BY <1>4, <3>2, <3>3, SetSlots
  <2> HIDE DEF e
  <2>5. Elems' = e
    BY <1>1, <2>3, <2>4, ElemsNext
  <2>6. Abstract!Set(index, v)
    BY <1>1, <1>2, <2>1, <2>2, <2>5 DEF Abstract!Set, Abstract!Moved, Moved, e
  <2>7. index \in 0 .. Len(Elems) - 1
    BY <2>2
  <2> QED BY <1>2, <2>6, <2>7 DEF Abstract!Next
<1> QED BY <1>3, <1>4

\* Removing an element cuts it out.
LEMMA RemoveRefined ==
  ASSUME NullIsNoList, TypeOK, BlockInv, Filled, UNCHANGED owning,
         NEW index \in 0 .. size, ArrayList_remove(index)
  PROVE  Abstract!Next
<1>1. Idle /\ list /\ list' = list /\ UNCHANGED <<room, todo>>
  BY DEF ArrayList_remove, Idle
<1>2. Abstract!Idle
  BY <1>1, OpenSeen
<1>3. CASE ~InRange(index)
  <2>1. UNCHANGED Elems /\ owner' = owner
    BY <1>1, <1>3, ElemsUnchanged DEF ArrayList_remove
  <2>2. ret' = <<"remove", Len(Elems), NULL>>
    BY <1>1, <1>3, ElemsSeen DEF ArrayList_remove, InRange, TypeOK
  <2>3. Abstract!OutOfRange
    BY <1>1, <1>2, <2>1, <2>2 DEF Abstract!OutOfRange
  <2> QED BY <2>3 DEF Abstract!Next
<1>4. CASE InRange(index)
  <2>1. /\ ret' = <<"remove", index, At(index)>> /\ size' = size - 1
        /\ owner' = [owner EXCEPT ![At(index)] = "caller"]
    BY <1>4 DEF ArrayList_remove
  <2>2. /\ index \in 0 .. size - 1 /\ index + 1 \in DOMAIN Elems
        /\ Elems[index + 1] = At(index) /\ Len(Elems) = size
    BY <1>1, <1>4, ElemsSeen DEF InRange, TypeOK
  <2> DEFINE f == SubSeq(Elems, 1, index)
             g == SubSeq(Elems, index + 2, Len(Elems))
             e == f \o g
  <2>3. size \in Nat \ {0} /\ Elems \in Seq(Value) /\ index \in Nat /\ index < size
    BY <1>1, <2>2, ElemsSeen DEF TypeOK
  <2>4. /\ f \in Seq(Value) /\ Len(f) = index
        /\ \A i \in 1 .. index : f[i] = Elems[i]
    BY <2>2, <2>3
  <2>5. /\ g \in Seq(Value) /\ Len(g) = size - 1 - index
        /\ \A i \in 1 .. size - 1 - index : g[i] = Elems[i + index + 1]
    BY <2>2, <2>3
  <2> HIDE DEF f, g
  <2>6. /\ e \in Seq(Value) /\ Len(e) = size - 1
        /\ \A i \in 1 .. size - 1 : e[i] = IF i <= index THEN f[i] ELSE g[i - index]
    <3>1. /\ e \in Seq(Value) /\ Len(e) = Len(f) + Len(g)
          /\ \A i \in 1 .. Len(f) + Len(g) :
               e[i] = IF i <= Len(f) THEN f[i] ELSE g[i - Len(f)]
      BY <2>4, <2>5
    <3>2. Len(f) + Len(g) = size - 1
      BY <2>3, <2>4, <2>5
    <3> QED BY <2>4, <3>1, <3>2
  <2> HIDE DEF e
  <2>7. ASSUME NEW i \in 0 .. size - 2
        PROVE  At(i)' = e[i + 1]
    <3>1. i + 1 \in 1 .. size - 1 /\ At(i)' = IF i < index THEN At(i) ELSE At(i + 1)
      BY <1>4, <2>3, RemoveSlots
    <3>2. CASE i < index
      <4>1. i + 1 \in 1 .. index /\ i \in 0 .. size - 1
        BY <2>3, <3>2
      <4>2. e[i + 1] = Elems[i + 1]
        BY <2>4, <2>6, <3>1, <4>1
      <4> QED BY <1>1, <3>1, <3>2, <4>1, <4>2, ElemsSeen
    <3>3. CASE ~(i < index)
      <4>1. /\ i + 1 - index \in 1 .. size - 1 - index /\ ~(i + 1 <= index)
            /\ i + 1 \in 0 .. size - 1 /\ (i + 1 - index) + index + 1 = i + 2
            /\ (i + 1) + 1 = i + 2
        BY <2>3, <3>3
      <4>2. e[i + 1] = Elems[i + 2]
        BY <2>5, <2>6, <3>1, <4>1
      <4>3. Elems[(i + 1) + 1] = At(i + 1)
        BY <1>1, <4>1, ElemsSeen
      <4> QED BY <3>1, <3>3, <4>1, <4>2, <4>3
    <3> QED BY <3>2, <3>3
  <2>8. size' \in Nat /\ size' - 1 = size - 2
    BY <2>1, <2>3
  <2>9. Elems' = e
    BY <1>1, <2>1, <2>6, <2>7, <2>8, ElemsNext
  <2>10. Abstract!Remove(index)
    BY <1>1, <1>2, <2>1, <2>2, <2>9 DEF Abstract!Remove, e, f, g
  <2>11. index \in 0 .. Len(Elems) - 1
    BY <2>2
  <2> QED BY <1>2, <2>10, <2>11 DEF Abstract!Next
<1> QED BY <1>3, <1>4

\* Sorting orders the elements by rank and keeps them all.
LEMMA SortRefined ==
  ASSUME NullIsNoList, TypeOK, BlockInv, Filled, UNCHANGED owning,
         NEW rank \in Orders, ArrayList_sort(rank)
  PROVE  Abstract!Next
<1>1. /\ Idle /\ list /\ list' = list /\ ret' = <<"sort", rank, 0>>
      /\ UNCHANGED <<size, owner, todo>>
  BY DEF ArrayList_sort, Idle
<1>2. Abstract!Idle
  BY <1>1, OpenSeen
<1>3. PICK p : Sorts(p, rank)
  BY SortSlots
<1>4. /\ p \in [0 .. size - 1 -> 0 .. size - 1]
      /\ \A i, j \in 0 .. size - 1 : p[i] = p[j] => i = j
      /\ \A j \in 0 .. size - 1 : \E i \in 0 .. size - 1 : p[i] = j
      /\ \A i, j \in 0 .. size - 1 : i < j => rank[At(p[i])] <= rank[At(p[j])]
      /\ \A i \in 0 .. size - 1 : At(i)' = At(p[i])
  BY <1>3 DEF Sorts, Bijection, Injection, Surjection, IsInjective
<1> DEFINE q == [i \in 1 .. size |-> p[i - 1] + 1]
           e == [i \in 1 .. size |-> Elems[q[i]]]
<1>5. size \in Nat /\ DOMAIN Elems = 1 .. size
  BY <1>1, ElemsSeen DEF TypeOK
<1>6. ASSUME NEW i \in 1 .. size
      PROVE  /\ i - 1 \in 0 .. size - 1 /\ p[i - 1] \in 0 .. size - 1
             /\ q[i] = p[i - 1] + 1 /\ q[i] \in 1 .. size
             /\ e[i] = At(p[i - 1]) /\ e[i] \in Value /\ (i - 1) + 1 = i
  <2>1. i - 1 \in 0 .. size - 1 /\ (i - 1) + 1 = i
    BY <1>5
  <2>2. p[i - 1] \in 0 .. size - 1
    BY <1>4, <2>1
  <2>3. q[i] = p[i - 1] + 1 /\ q[i] \in 1 .. size
    BY <1>5, <2>2
  <2> HIDE DEF q
  <2>4. Elems[q[i]] = At(p[i - 1])
    BY <1>1, <2>2, <2>3, ElemsSeen
  <2>5. e[i] = At(p[i - 1])
    BY <2>4
  <2> HIDE DEF e
  <2>6. e[i] \in Value
    BY <1>1, <2>2, <2>5 DEF Filled
  <2> QED BY <2>1, <2>2, <2>3, <2>5, <2>6
<1>7. q \in [1 .. size -> 1 .. size]
  BY <1>6
<1>8. e \in Seq(Value) /\ Len(e) = size /\ e = [i \in DOMAIN Elems |-> Elems[q[i]]]
  <2>1. \A i \in 1 .. size : e[i] \in Value
    BY <1>6
  <2> HIDE DEF q
  <2>2. e = [i \in DOMAIN Elems |-> Elems[q[i]]]
    BY <1>5
  <2>3. e \in Seq(Value) /\ Len(e) = size
    <3>1. e = [i \in 1 .. size |-> e[i]]
      OBVIOUS
    <3> HIDE DEF e
    <3> QED BY <1>5, <2>1, <3>1
  <2> QED BY <2>2, <2>3
<1> HIDE DEF q, e
<1>9. q \in Abstract!Bijection(DOMAIN Elems, DOMAIN Elems)
  <2>1. \A i, j \in 1 .. size : q[i] = q[j] => i = j
    <3> TAKE i, j \in 1 .. size
    <3>1. q[i] = q[j] => p[i - 1] = p[j - 1]
      BY <1>6
    <3>2. p[i - 1] = p[j - 1] => i - 1 = j - 1
      BY <1>4, <1>6
    <3> QED BY <3>1, <3>2
  <2>2. \A j \in 1 .. size : \E i \in 1 .. size : q[i] = j
    <3> TAKE j \in 1 .. size
    <3>1. j - 1 \in 0 .. size - 1
      BY <1>5
    <3>2. PICK k \in 0 .. size - 1 : p[k] = j - 1
      BY <1>4, <3>1
    <3>3. k + 1 \in 1 .. size /\ (k + 1) - 1 = k
      BY <1>5
    <3>4. q[k + 1] = j
      BY <1>6, <3>2, <3>3
    <3> QED BY <3>3, <3>4
  <2> QED BY <1>5, <1>7, <2>1, <2>2
          DEF Abstract!Bijection, Abstract!Injection, Abstract!Surjection,
              Abstract!IsInjective
<1>10. Elems' = e
  <2>1. ASSUME NEW i \in 0 .. size' - 1
        PROVE  At(i)' = e[i + 1]
    <3>1. i + 1 \in 1 .. size /\ (i + 1) - 1 = i /\ i \in 0 .. size - 1
      BY <1>1, <1>5
    <3>2. e[i + 1] = At(p[(i + 1) - 1])
      BY <1>6, <3>1
    <3> QED BY <1>4, <3>1, <3>2
  <2> QED BY <1>1, <1>5, <1>8, <2>1, ElemsNext
<1>11. \A i, j \in DOMAIN Elems : i < j => rank[e[i]] <= rank[e[j]]
  <2> SUFFICES ASSUME NEW i \in 1 .. size, NEW j \in 1 .. size, i < j
               PROVE  rank[e[i]] <= rank[e[j]]
    BY <1>5
  <2>1. i - 1 \in 0 .. size - 1 /\ j - 1 \in 0 .. size - 1 /\ i - 1 < j - 1
    BY <1>6
  <2>2. e[i] = At(p[i - 1]) /\ e[j] = At(p[j - 1])
    BY <1>6
  <2>3. rank[At(p[i - 1])] <= rank[At(p[j - 1])]
    BY <1>4, <2>1
  <2> QED BY <2>2, <2>3
<1>12. Abstract!Sort(rank)
  <2>1. \E r \in Abstract!Bijection(DOMAIN Elems, DOMAIN Elems) :
          Elems' = [i \in DOMAIN Elems |-> Elems[r[i]]]
    BY <1>8, <1>9, <1>10
  <2>2. \A i, j \in DOMAIN Elems : i < j => rank[Elems'[i]] <= rank[Elems'[j]]
    BY <1>10, <1>11
  <2>3. Abstract!Idle /\ ret' = <<"sort", rank, 0>> /\ UNCHANGED <<owner, todo>>
    BY <1>1, <1>2
  <2> QED BY <2>1, <2>2, <2>3 DEF Abstract!Sort
<1> QED BY <1>12 DEF Abstract!Next

\* Creating, clearing and destroying: an empty list, or none.
LEMMA CreateRefined ==
  ASSUME OwnershipInv, UNCHANGED owning, NEW c \in Capacities, ArrayList_create(c)
  PROVE  Abstract!Next
<1>1. ~list /\ UNCHANGED <<owner, todo>> /\ Elems = NULL
  BY DEF ArrayList_create, Elems
<1>2. CASE list' /\ size' = 0 /\ ret' = <<"create", TRUE>>
  <2>1. Elems' = <<>>
    BY <1>2 DEF Elems
  <2> QED BY <1>1, <2>1, <1>2 DEF Abstract!Create, Abstract!Next
<1>3. CASE list' = list /\ ret' = <<"create", FALSE>>
  <2>1. Elems' = NULL
    BY <1>1, <1>3, Zenon DEF Elems
  <2> QED BY <1>1, <2>1, <1>3 DEF Abstract!Create, Abstract!Next
<1> QED BY <1>2, <1>3, Zenon DEF ArrayList_create

\* An add appends, or changes nothing.
LEMMA AddRefined ==
  ASSUME ReasonableUse, NullIsNoList, TypeOK, BlockInv, Filled, UNCHANGED owning,
         NEW v \in Value, ArrayList_add(v)
  PROVE  Abstract!Next
<1>1. Idle /\ list /\ list' = list /\ owner[v] = "caller" /\ UNCHANGED todo
  BY DEF ArrayList_add, Idle, CanPass
<1>2. Abstract!Idle
  BY <1>1, OpenSeen
<1>3. CASE AddSucceeds(v) /\ ret' = <<"add", v, TRUE>>
  <2>1. Abstract!Append1(v)
    BY <1>1, <1>3, AppendRefined
  <2>2. Abstract!Add(v)
    BY <1>1, <1>2, <1>3, <2>1 DEF Abstract!Add
  <2> QED BY <2>2 DEF Abstract!Next
<1>4. CASE AddFails /\ ret' = <<"add", v, FALSE>>
  <2>1. UNCHANGED Elems /\ owner' = owner
    BY <1>1, <1>4, AddFailsBlock, ElemsUnchanged
  <2>2. Abstract!Add(v)
    BY <1>1, <1>2, <1>4, <2>1 DEF Abstract!Add
  <2> QED BY <2>2 DEF Abstract!Next
<1> QED BY <1>3, <1>4 DEF ArrayList_add

\* A bulk add starts, or refuses an empty array.
LEMMA AddAllRefined ==
  ASSUME NullIsNoList, TypeOK, Filled, UNCHANGED owning,
         NEW b \in Batches, ArrayList_add_all(b)
  PROVE  Abstract!Next
<1>1. /\ Idle /\ list /\ todo = <<>> /\ todo' = b
      /\ ret' = (IF b = <<>> THEN <<"add_all", FALSE>> ELSE ret)
      /\ UNCHANGED <<list, data, room, size, owner>>
  BY DEF ArrayList_add_all, Idle
<1>2. Abstract!Idle /\ UNCHANGED Elems
  BY <1>1, OpenSeen, ElemsUnchanged
<1>3. b \in Seq(Value)
  BY BatchIsSeq
<1>4. Abstract!AddAll
  BY <1>1, <1>2, <1>3 DEF Abstract!AddAll
<1> QED BY <1>4 DEF Abstract!Next

\* Each turn of a bulk add appends its element, or drops it.
LEMMA AddAllNextRefined ==
  ASSUME ReasonableUse, NullIsNoList, TypeOK, BlockInv, OwnershipInv, Filled,
         UNCHANGED owning, AddAllNext
  PROVE  Abstract!Next
<1>1. /\ todo # <<>> /\ list /\ list' = list /\ Head(todo) \in Value /\ todo' = Tail(todo)
      /\ ret' = IF todo' = <<>> THEN <<"add_all", TRUE>> ELSE ret
  BY DEF AddAllNext, TypeOK, BlockInv
<1>2. owner[Head(todo)] = "caller"
  BY <1>1 DEF OwnershipInv, Filled, TypeOK
<1>3. Abstract!Append1(Head(todo)) \/ UNCHANGED <<Elems, owner>>
  <2>1. CASE AddSucceeds(Head(todo))
    BY <1>1, <1>2, <2>1, AppendRefined
  <2>2. CASE AddFails
    BY <1>1, <2>2, AddFailsBlock, ElemsUnchanged
  <2> QED BY <2>1, <2>2 DEF AddAllNext
<1>4. Abstract!AddAllNext
  BY <1>1, <1>3 DEF Abstract!AddAllNext
<1> QED BY <1>4 DEF Abstract!Next

\* The destructor is called on the elements of the abstract list.
LEMMA EmptyRefined ==
  ASSUME NullIsNoList, TypeOK, Filled, UNCHANGED owning,
         ArrayList_clear \/ ArrayList_destroy
  PROVE  Abstract!Next
<1>1. Idle /\ list /\ owner' = Destroyed /\ UNCHANGED todo
  BY DEF ArrayList_clear, ArrayList_destroy, Idle
<1>2. Abstract!Idle /\ Abstract!Released = Destroyed
  BY <1>1, OpenSeen DEF Abstract!Released, Destroyed
<1>3. CASE ArrayList_clear
  <2>1. Elems' = <<>> /\ ret' = <<"clear", TRUE>>
    BY <1>1, <1>3 DEF ArrayList_clear, Elems
  <2> QED BY <1>1, <1>2, <2>1 DEF Abstract!Clear, Abstract!Next
<1>4. CASE ArrayList_destroy
  <2>1. Elems' = NULL /\ ret' = <<"destroy", TRUE>>
    BY <1>4, Zenon DEF ArrayList_destroy, Elems
  <2> QED BY <1>1, <1>2, <2>1 DEF Abstract!Destroy, Abstract!Next
<1> QED BY <1>3, <1>4

\* The heap may give out a freed value again.
LEMMA AllocRefined ==
  ASSUME UNCHANGED owning, NEW v \in Value, Client_alloc(v)
  PROVE  Abstract!Next
<1>1. UNCHANGED Elems
  BY ElemsUnchanged DEF Client_alloc
<1>2. Abstract!Alloc(v)
  BY <1>1 DEF Client_alloc, Abstract!Alloc
<1> QED BY <1>2 DEF Abstract!Next

\* A set of natural numbers that is not empty has a least one.
LEMMA LeastNat ==
  ASSUME NEW T \in SUBSET Nat, T # {}
  PROVE  \E m \in T : \A k \in T : m <= k
<1> DEFINE Less == OpToRel(<, Nat)
<1>1. \A x, y \in Nat : x < y => <<x, y>> \in Less
  BY Zenon DEF OpToRel
<1>2. IsWellFoundedOn(Less, Nat)
  BY NatLessThanWellFounded, Zenon
<1> HIDE DEF Less
<1>3. \E x \in T : \A y \in T : ~(<<y, x>> \in Less)
  BY <1>2, WFMin, Zenon
<1>4. PICK m \in T : \A y \in T : ~(<<y, m>> \in Less)
  BY <1>3
<1>5. \A k \in T : k \in Nat /\ m \in Nat /\ ~(k < m)
  BY <1>1, <1>4
<1> QED BY <1>5

\* A linear search ends at the first place that holds the value.
LEMMA IndexOfFirst ==
  ASSUME NEW v, v \in Contents, size \in Nat
  PROVE  /\ IndexOf(v) \in 0 .. size - 1 /\ At(IndexOf(v)) = v
         /\ \A j \in 0 .. IndexOf(v) - 1 : At(j) # v
<1> DEFINE T == {i \in 0 .. size - 1 : At(i) = v}
<1>1. T \in SUBSET Nat /\ T # {}
  BY DEF Contents
<1>2. PICK m \in T : \A k \in T : m <= k
  BY <1>1, LeastNat
<1>3. m \in 0 .. size - 1 /\ At(m) = v /\ \A j \in 0 .. m - 1 : At(j) # v
  <2>1. m \in 0 .. size - 1 /\ At(m) = v
    OBVIOUS
  <2>2. ASSUME NEW j \in 0 .. m - 1, At(j) = v
        PROVE  FALSE
    <3>1. j \in 0 .. size - 1 /\ ~(m <= j)
      BY <2>1
    <3>2. j \in T
      BY <2>2, <3>1
    <3> QED BY <1>2, <3>1, <3>2
  <2> QED BY <2>1, <2>2
<1>4. IndexOf(v) = CHOOSE i \in 0 .. size - 1 : At(i) = v /\ \A j \in 0 .. i - 1 : At(j) # v
  BY DEF IndexOf
<1> QED BY <1>3, <1>4

\* A search returns the first position of the value, if there is one.
LEMMA IndexOfSeen ==
  ASSUME TypeOK, Filled, NullIsNoList, list, NEW v
  PROVE  /\ IndexOf(v) = IF v \in Abstract!Held THEN Abstract!FirstPosition(v) - 1 ELSE -1
         /\ (IndexOf(v) >= 0) = (v \in Abstract!Held)
<1>1. Abstract!Held = Contents /\ size \in Nat
  BY OpenSeen DEF TypeOK
<1>2. CASE v \notin Contents
  BY <1>1, <1>2 DEF IndexOf
<1>3. CASE v \in Contents
  <2> DEFINE m == IndexOf(v)
             P == Abstract!Positions(v)
  <2>1. m \in 0 .. size - 1 /\ At(m) = v /\ \A j \in 0 .. m - 1 : At(j) # v
    BY <1>1, <1>3, IndexOfFirst
  <2>2. P = {i \in 1 .. size : Elems[i] = v}
    BY ElemsSeen DEF Abstract!Positions
  <2> HIDE DEF m, P
  <2>3. m + 1 \in P /\ m \in Nat
    BY <1>1, <2>1, <2>2, ElemsSeen
  <2>4. ASSUME NEW i \in P
        PROVE  i \in Nat /\ m + 1 <= i
    <3>1. i \in 1 .. size /\ At(i - 1) = v
      BY <2>2, ElemsSeen
    <3>2. i - 1 \notin 0 .. m - 1
      BY <2>1, <3>1
    <3> QED BY <1>1, <2>1, <3>1, <3>2
  <2>5. Abstract!FirstPosition(v) = CHOOSE i \in P : \A j \in P : i <= j
    BY DEF Abstract!FirstPosition, P
  <2>6. PICK f \in P : f = Abstract!FirstPosition(v) /\ \A j \in P : f <= j
    BY <2>3, <2>4, <2>5
  <2>7. f = m + 1
    BY <2>3, <2>4, <2>6
  <2>8. m = Abstract!FirstPosition(v) - 1 /\ m >= 0
    BY <2>3, <2>6, <2>7
  <2> QED BY <1>1, <1>3, <2>8 DEF m
<1> QED BY <1>2, <1>3

\* A call that reads returns what is true of the abstract list.
LEMMA ReadsRefined ==
  ASSUME NullIsNoList, TypeOK, BlockInv, Filled, UNCHANGED owning, Reads
  PROVE  Abstract!Next
<1>1. Idle /\ list /\ UNCHANGED <<list, data, room, size, owner, todo>>
  BY DEF Reads, Returns, ArrayList_get, ArrayList_index_of, ArrayList_contains,
         ArrayList_contains_all, ArrayList_first, ArrayList_last,
         ArrayList_last_index, ArrayList_size, ArrayList_is_empty,
         ArrayList_capacity, Idle
<1>2. /\ Abstract!Idle /\ Abstract!Held = Contents /\ UNCHANGED <<Elems, owner, todo>>
      /\ size \in Nat
  BY <1>1, OpenSeen, ElemsUnchanged DEF TypeOK
<1>3. /\ Elems \in Seq(Value) /\ Len(Elems) = size /\ DOMAIN Elems = 1 .. size
      /\ (Elems = <<>>) = (size = 0)
  <2>1. Elems \in Seq(Value) /\ Len(Elems) = size /\ DOMAIN Elems = 1 .. size
    BY <1>1, ElemsSeen
  <2>2. Elems = <<>> <=> size = 0
    BY <2>1
  <2> QED BY <2>1, <2>2, Zenon
<1>4. ASSUME NEW index \in 0 .. size, ArrayList_get(index)
      PROVE  Abstract!Next
  <2>1. CASE InRange(index)
    <3>1. /\ ret' = <<"get", (index + 1) - 1, Elems[index + 1]>>
          /\ index + 1 \in DOMAIN Elems
      BY <1>1, <1>2, <1>4, <2>1, ElemsSeen DEF ArrayList_get, Returns, InRange
    <3>2. Abstract!Read
      BY <1>2, <3>1, Zenon DEF Abstract!Read
    <3> QED BY <3>2 DEF Abstract!Next
  <2>2. CASE ~InRange(index)
    <3>1. ret' = <<"get", Len(Elems), NULL>>
      BY <1>2, <1>3, <1>4, <2>2 DEF ArrayList_get, Returns, InRange
    <3>2. Abstract!OutOfRange
      BY <1>2, <3>1 DEF Abstract!OutOfRange
    <3> QED BY <3>2 DEF Abstract!Next
  <2> QED BY <2>1, <2>2
<1>5. ASSUME NEW v \in Value, ArrayList_index_of(v)
      PROVE  Abstract!Read
  <2>1. ret' = <<"index_of", v, IF v \in Abstract!Held
                                THEN Abstract!FirstPosition(v) - 1 ELSE -1>>
    BY <1>1, <1>5, IndexOfSeen DEF ArrayList_index_of, Returns
  <2> QED BY <1>2, <2>1, Zenon DEF Abstract!Read
<1>6. ASSUME NEW v \in Value, ArrayList_contains(v)
      PROVE  Abstract!Read
  <2>1. ret' = <<"contains", v, v \in Abstract!Held>>
    <3>1. (IndexOf(v) >= 0) = (v \in Abstract!Held)
      BY <1>1, IndexOfSeen
    <3> QED BY <1>6, <3>1, Zenon DEF ArrayList_contains, Returns
  <2> QED BY <1>2, <2>1, Zenon DEF Abstract!Read
<1>7. ASSUME NEW b \in Batches, ArrayList_contains_all(b)
      PROVE  Abstract!Read
  <2> DEFINE vs == Range(b)
             res == b # <<>> /\ \A v \in Range(b) : \E j \in 0 .. size - 1 : At(j) = v
  <2>1. vs \in SUBSET Value /\ (b = <<>> <=> vs = {})
    <3>1. b \in Seq(Value)
      BY BatchIsSeq
    <3>2. b # <<>> => 1 \in DOMAIN b
      BY <3>1
    <3> QED BY <3>1, <3>2 DEF Range
  <2>2. res <=> (vs # {} /\ vs \subseteq Abstract!Held)
    BY <1>2, <2>1 DEF Contents
  <2>3. ret' = <<"contains_all", vs, res>>
    BY <1>7, Zenon DEF ArrayList_contains_all, Returns
  <2> HIDE DEF vs
  <2>4. res = (vs # {} /\ vs \subseteq Abstract!Held)
    BY <2>2, Zenon
  <2> HIDE DEF res
  <2>5. ret' = <<"contains_all", vs, vs # {} /\ vs \subseteq Abstract!Held>>
    BY <2>3, <2>4, Zenon
  <2> QED BY <1>2, <2>1, <2>5, Zenon DEF Abstract!Read
<1>8. ASSUME ArrayList_first PROVE Abstract!Read
  <2>1. (IF size > 0 THEN At(0) ELSE NULL) = (IF Elems = <<>> THEN NULL ELSE Head(Elems))
    BY <1>1, <1>2, <1>3, ElemsSeen
  <2> QED BY <1>2, <1>8, <2>1, Zenon DEF ArrayList_first, Returns, Abstract!Read
<1>9. ASSUME ArrayList_last PROVE Abstract!Read
  <2>1. (IF size > 0 THEN At(size - 1) ELSE NULL)
          = (IF Elems = <<>> THEN NULL ELSE Elems[Len(Elems)])
    BY <1>1, <1>2, <1>3, ElemsSeen
  <2> QED BY <1>2, <1>9, <2>1, Zenon DEF ArrayList_last, Returns, Abstract!Read
<1>10. ASSUME ArrayList_last_index PROVE Abstract!Read
  <2>1. (IF size > 0 THEN size - 1 ELSE -1) = Len(Elems) - 1
    BY <1>2, <1>3
  <2> QED BY <1>2, <1>10, <2>1, Zenon DEF ArrayList_last_index, Returns, Abstract!Read
<1>11. ASSUME ArrayList_size PROVE Abstract!Read
  BY <1>2, <1>3, <1>11, Zenon DEF ArrayList_size, Returns, Abstract!Read
<1>12. ASSUME ArrayList_is_empty PROVE Abstract!Read
  BY <1>2, <1>3, <1>12, Zenon DEF ArrayList_is_empty, Returns, Abstract!Read
<1>13. ASSUME ArrayList_capacity PROVE Abstract!Read
  <2>1. ret' = <<"capacity", NULL, capacity>> /\ capacity >= Len(Elems)
    BY <1>1, <1>2, <1>3, <1>13 DEF ArrayList_capacity, Returns, BlockInv, TypeOK
  <2>2. ret'[1] = "capacity" /\ ret'[3] >= Len(Elems)
    BY <2>1
  <2> QED BY <1>2, <2>2, Zenon DEF Abstract!Read
<1> QED BY <1>4, <1>5, <1>6, <1>7, <1>8, <1>9, <1>10, <1>11, <1>12, <1>13
        DEF Reads, Abstract!Next

\* The list keeps every promise of AbstractList: what each call does to the
\* elements, whom it leaves to free them, and what it returns.
THEOREM ListIsRefined ==
  ReasonableUse /\ NullIsNoList => (Spec => ImplementsAbstractList)
<1> SUFFICES ASSUME ReasonableUse, NullIsNoList
             PROVE  Spec => ImplementsAbstractList
  OBVIOUS
<1> DEFINE Inv == BlockInv /\ OwnershipInv /\ Filled
<1>1. Init => Inv /\ Abstract!Init
  <2> SUFFICES ASSUME Init PROVE Inv /\ Abstract!Init
    OBVIOUS
  <2>1. ~list /\ BlockInv /\ Contents = {} /\ size = 0 /\ todo = <<>>
    BY DEF Init, BlockInv, Contents
  <2>2. \A v \in Value : owner[v] = "caller"
    BY DEF Init
  <2>3. Abstract!Init
    BY DEF Init, Abstract!Init, Elems
  <2> QED BY <2>1, <2>2, <2>3 DEF OwnershipInv, OwnershipExact, Filled
<1>2. TypeOK /\ Inv /\ [Next]_vars => Inv'
  BY BlockStep, OwnershipStep, FilledStep
<1>3. TypeOK /\ Inv /\ [Next]_vars => [Abstract!Next]_(Abstract!vars)
  <2> SUFFICES ASSUME TypeOK, Inv, [Next]_vars PROVE [Abstract!Next]_(Abstract!vars)
    OBVIOUS
  <2>1. UNCHANGED vars => UNCHANGED Abstract!vars
    BY ElemsUnchanged DEF vars, Abstract!vars
  <2>2. Next => UNCHANGED owning
    BY DEF Next
  <2> QED BY <2>1, <2>2, CreateRefined, AddRefined, AddAllRefined, AddAllNextRefined,
             SetRefined, RemoveRefined, SortRefined, EmptyRefined, AllocRefined,
             ReadsRefined DEF Next, Updates
<1> HIDE DEF Inv
<1> QED BY <1>1, <1>2, <1>3, TypeCorrect, PTL DEF Spec, ImplementsAbstractList, Abstract!Spec

============================================================================
