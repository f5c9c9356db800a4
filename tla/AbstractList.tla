---------------------------- MODULE AbstractList ----------------------------
(***************************************************************************)
(* What a list promises its client: a sequence of pointers, the calls that *)
(* change it, what each call returns, and who must free each value.  No    *)
(* block, no capacity: an add may be refused, and then nothing happens.    *)
(***************************************************************************)
EXTENDS Integers, Sequences, Functions

CONSTANTS Value, NULL, Dfs, Orders

VARIABLES
  owning,  \* whether the list frees its values
  elems,   \* the elements in order, NULL while there is no list
  owner,   \* who must free each value
  todo,    \* the elements a bulk add has still to add
  ret      \* the last call that returned: with what, and what it returned

vars == <<owning, elems, owner, todo, ret>>

Idle == elems # NULL /\ todo = <<>>

Held == {elems[i] : i \in DOMAIN elems}

Moved(v, who) == IF owning THEN [owner EXCEPT ![v] = who] ELSE owner

Released == [v \in Value |->
               IF owning /\ v \in Held THEN "freed" ELSE owner[v]]

Init ==
  /\ owning \in Dfs
  /\ elems = NULL
  /\ owner = [v \in Value |-> "caller"]
  /\ todo = <<>>
  /\ ret = <<"none", NULL>>

-----------------------------------------------------------------------------

Create ==
  /\ elems = NULL
  /\ \/ elems' = <<>> /\ ret' = <<"create", TRUE>>
     \/ elems' = NULL /\ ret' = <<"create", FALSE>>
  /\ UNCHANGED <<owner, todo>>

Append1(v) ==
  /\ owner[v] = "caller"
  /\ elems' = Append(elems, v)
  /\ owner' = Moved(v, "list")

Add(v) ==
  /\ Idle
  /\ \/ Append1(v) /\ ret' = <<"add", v, TRUE>>
     \/ UNCHANGED <<elems, owner>> /\ ret' = <<"add", v, FALSE>>
  /\ UNCHANGED todo

\* A bulk add appends its elements one by one and may drop some of them; the
\* result says only whether there was anything to add.
AddAll ==
  /\ Idle
  /\ \/ ret' = <<"add_all", FALSE>> /\ UNCHANGED todo
     \/ todo' \in Seq(Value) \ {<<>>} /\ UNCHANGED ret
  /\ UNCHANGED <<elems, owner>>

AddAllNext ==
  /\ todo # <<>>
  /\ Append1(Head(todo)) \/ UNCHANGED <<elems, owner>>
  /\ todo' = Tail(todo)
  /\ ret' = IF todo' = <<>> THEN <<"add_all", TRUE>> ELSE ret

Set(index, v) ==
  /\ Idle /\ owner[v] = "caller"
  /\ index + 1 \in DOMAIN elems
  /\ ret' = <<"set", index, elems[index + 1]>>
  /\ owner' = [Moved(v, "list") EXCEPT ![elems[index + 1]] = "caller"]
  /\ elems' = [elems EXCEPT ![index + 1] = v]
  /\ UNCHANGED todo

Remove(index) ==
  /\ Idle
  /\ index + 1 \in DOMAIN elems
  /\ ret' = <<"remove", index, elems[index + 1]>>
  /\ owner' = [owner EXCEPT ![elems[index + 1]] = "caller"]
  /\ elems' = SubSeq(elems, 1, index) \o SubSeq(elems, index + 2, Len(elems))
  /\ UNCHANGED todo

OutOfRange ==
  /\ Idle
  /\ ret' \in {<<op, Len(elems), NULL>> : op \in {"set", "remove", "get"}}
  /\ UNCHANGED <<elems, owner, todo>>

\* Sorting keeps every occurrence of every element and orders them by rank.
Sort(rank) ==
  /\ Idle
  /\ \E p \in Bijection(DOMAIN elems, DOMAIN elems) :
       elems' = [i \in DOMAIN elems |-> elems[p[i]]]
  /\ \A i, j \in DOMAIN elems : i < j => rank[elems'[i]] <= rank[elems'[j]]
  /\ ret' = <<"sort", rank, 0>>
  /\ UNCHANGED <<owner, todo>>

Clear ==
  /\ Idle
  /\ UNCHANGED todo
  /\ elems' = <<>> /\ owner' = Released /\ ret' = <<"clear", TRUE>>

Destroy ==
  /\ Idle
  /\ UNCHANGED todo
  /\ elems' = NULL /\ owner' = Released /\ ret' = <<"destroy", TRUE>>

Alloc(v) ==
  /\ owner[v] = "freed"
  /\ owner' = [owner EXCEPT ![v] = "caller"]
  /\ UNCHANGED <<elems, todo, ret>>

-----------------------------------------------------------------------------
(* Reading leaves the list alone and tells the truth about it.             *)

Positions(v) == {i \in DOMAIN elems : elems[i] = v}

FirstPosition(v) == CHOOSE i \in Positions(v) : \A j \in Positions(v) : i <= j

Read ==
  /\ Idle
  /\ UNCHANGED <<elems, owner, todo>>
  /\ \/ \E i \in DOMAIN elems : ret' = <<"get", i - 1, elems[i]>>
     \/ \E v \in Value :
          \/ ret' = <<"index_of", v,
                      IF v \in Held THEN FirstPosition(v) - 1 ELSE -1>>
          \/ ret' = <<"contains", v, v \in Held>>
     \/ \E vs \in SUBSET Value :
          ret' = <<"contains_all", vs, vs # {} /\ vs \subseteq Held>>
     \/ ret' = <<"first", NULL, IF elems = <<>> THEN NULL ELSE Head(elems)>>
     \/ ret' = <<"last", NULL, IF elems = <<>> THEN NULL ELSE elems[Len(elems)]>>
     \/ ret' = <<"last_index", NULL, Len(elems) - 1>>
     \/ ret' = <<"size", NULL, Len(elems)>>
     \/ ret' = <<"is_empty", NULL, elems = <<>>>>
     \/ ret'[1] = "capacity" /\ ret'[3] >= Len(elems)

Next ==
  /\ \/ Create \/ AddAll \/ AddAllNext \/ OutOfRange \/ Clear \/ Destroy \/ Read
     \/ \E v \in Value : Add(v) \/ Alloc(v)
     \/ Idle /\ \E i \in 0 .. Len(elems) - 1 :
                 Remove(i) \/ \E v \in Value : Set(i, v)
     \/ \E rank \in Orders : Sort(rank)
  /\ UNCHANGED owning

Spec == Init /\ [][Next]_vars

=============================================================================
