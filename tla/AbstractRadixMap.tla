-------------------------- MODULE AbstractRadixMap --------------------------
(***************************************************************************)
(* What a RadixMap promises its client: a bag of pairs of a key and a      *)
(* value, of limited size.  No array, no order, no search.                 *)
(***************************************************************************)
EXTENDS Integers

CONSTANTS Key, Value, Sizes, NULL

VARIABLES
  map,    \* whether the client holds a map
  max,    \* the size it was created with
  count,  \* how many pairs it holds
  pairs,  \* how often it holds each pair
  held,   \* the pair the client has found and may delete, or NULL
  ret     \* the last call that returned: with what, and what it returned

vars == <<map, max, count, pairs, held, ret>>

Pairs == [key : Key, value : Value]

NoPairs == [p \in Pairs |-> 0]

Init ==
  /\ map = FALSE /\ max = 0 /\ count = 0 /\ pairs = NoPairs /\ held = NULL
  /\ ret = <<"none", 0>>

Create(n) ==
  /\ ~map
  /\ map' \in (IF n = 0 THEN {FALSE} ELSE BOOLEAN)
  /\ max' = IF map' THEN n ELSE 0
  /\ ret' = <<"create", map'>>
  /\ UNCHANGED <<count, pairs, held>>

\* One place always stays free.
Add(p) ==
  /\ map
  /\ \/ /\ count + 1 < max
        /\ count' = count + 1
        /\ pairs' = [pairs EXCEPT ![p] = @ + 1]
        /\ held' = NULL
        /\ ret' = <<"add", <<p.key, p.value>>, 0>>
     \/ /\ count + 1 >= max
        /\ ret' = <<"add", <<p.key, p.value>>, -1>>
        /\ UNCHANGED <<count, pairs, held>>
  /\ UNCHANGED <<map, max>>

\* Any of the pairs with this key; NULL exactly when there is none.
Find(k) ==
  /\ map
  /\ LET found == {p \in Pairs : p.key = k /\ pairs[p] > 0}
     IN  held' \in (IF found = {} THEN {NULL} ELSE found)
  /\ ret' = <<"find", k, held'>>
  /\ UNCHANGED <<map, max, count, pairs>>

\* The pair that was found leaves, and no other.
Delete ==
  /\ held # NULL
  /\ count' = count - 1
  /\ pairs' = [pairs EXCEPT ![held] = @ - 1]
  /\ held' = NULL
  /\ ret' = <<"delete", 0>>
  /\ UNCHANGED <<map, max>>

Sort ==
  /\ map
  /\ ret' = <<"sort", 0>>
  /\ UNCHANGED <<map, max, count, pairs, held>>

Destroy ==
  /\ map
  /\ map' = FALSE /\ max' = 0 /\ count' = 0 /\ pairs' = NoPairs /\ held' = NULL
  /\ ret' = <<"destroy", 0>>

Next ==
  \/ \E n \in Sizes : Create(n)
  \/ \E p \in Pairs : Add(p)
  \/ \E k \in Key : Find(k)
  \/ Delete \/ Sort \/ Destroy

Spec == Init /\ [][Next]_vars

=============================================================================
