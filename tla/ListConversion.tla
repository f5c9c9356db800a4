--------------------------- MODULE ListConversion ---------------------------
(***************************************************************************)
(* The conversions of src/linkedlist.c: LinkedList_from_array,             *)
(* LinkedList_from_ArrayList and LinkedList_to_array, on top of            *)
(* LinkedList.  They copy every element into memory of its own, one        *)
(* allocation per element, so that each turn of their loops may fail on    *)
(* its own.  The list being built exists from the start of the call; a     *)
(* client gets hold of it when the call returns.                           *)
(*                                                                         *)
(* Every allocation and every free of the conversions is accounted for: a  *)
(* value is its owner's until it is freed, a list counts until it is.      *)
(* Lists free their values: a copy that no destructor frees is a leak      *)
(* whatever the conversions do.                                            *)
(***************************************************************************)
EXTENDS LinkedList

CONSTANTS
  MaxArray, \* bound on the arrays converted
  MaxLists, \* bound on the lists that are allocated, those out of reach included
  Heaps     \* the kinds of heap to consider: sets of the allocations that one may
            \* refuse: "create" the list, "copy" an element of an array, "clone" one of
            \* an ArrayList, "push" the copy

ASSUME ConversionAssumption ==
  /\ Dfs = {TRUE}
  /\ MaxArray \in Nat /\ MaxLists \in Nat
  /\ Heaps \subseteq SUBSET {"create", "copy", "clone", "push"}

VARIABLES
  failing, \* the kind of heap there is
  array,  \* the contents a running LinkedList_from_array has still to copy
  source, \* the elements of the client's ArrayList, NULL if it has none
  index,  \* how many of them a running LinkedList_from_ArrayList has copied
  drain,  \* its destroy_src, or that of LinkedList_to_array
  out,    \* the contents a running LinkedList_to_array has copied
  fate,   \* what the list had to be when the call started: contents in order
  lists   \* how many lists are allocated, whoever can reach them

buffers == <<array, source, index, drain, out, fate>>
allVars == <<failing, vars, buffers, lists>>

ConvInit ==
  /\ failing \in Heaps
  /\ Init
  /\ array = <<>> /\ source = NULL /\ index = 0
  /\ drain = FALSE /\ out = <<>> /\ fate = <<>>
  /\ lists = 0

Content == Range(ContentOf)
Arrays == UNION {[1 .. n -> Content] : n \in 0 .. MaxArray}

Contents(s) == [i \in DOMAIN s |-> ContentOf[s[i]]]

\* The values of the list in order.
Values ==
  LET c == CHOOSE c \in Chains(Rest) : TRUE
  IN  [i \in DOMAIN c |-> value[c[i]]]

\* calloc and memcpy: a value nobody uses gets the content d.
Copies(d) == {v \in Value : owner[v] = "freed" /\ ContentOf[v] = d}

\* The owners once v is a copy that only the conversion knows of.
CopyMade(v) == [owner EXCEPT ![v] = "copy"]

\* An allocator that may not refuse the allocations for s has the memory for it.
Supplied(s, copying) ==
  /\ copying \in failing \/
       \A d \in Content : Cardinality(Copies(d)) >= Cardinality({i \in DOMAIN s : s[i] = d})
  /\ "push" \in failing \/ Cardinality(Node \ live) >= Len(s)

\* How many lists are in reach.
Reachable == IF list THEN 1 ELSE 0

\* A loop over a list that is not the client's yet.
Run(loop) ==
  /\ pc' = loop
  /\ UNCHANGED <<cur, target, todo, kill, after, ret>>

-----------------------------------------------------------------------------
(* LinkedList_from_array.                                                  *)

LinkedList_from_array(a) ==
  /\ ~list /\ pc = "idle"
  /\ \/ /\ a = <<>>
        /\ ret' = <<"from_array", FALSE>>
        /\ UNCHANGED <<list, call, array, fate>>
     \/ /\ a # <<>> /\ Supplied(a, "copy")
        /\ \/ list' = TRUE
           \/ "create" \in failing /\ list' = FALSE
        /\ Run("from_array")
        /\ array' = a /\ fate' = a
  /\ lists' = lists + Reachable'
  /\ UNCHANGED <<heap, owner, source, index, drain, out>>

\* One element copied and pushed; a NULL list refuses every push.
FromArrayNext ==
  /\ pc = "from_array" /\ array # <<>> /\ list
  /\ \E v \in Copies(Head(array)) : PushSucceeds(v)
  /\ array' = Tail(array)
  /\ UNCHANGED <<list, call, ret, source, index, drain, out, fate, lists>>

\* Mutant: what was copied so far is left behind.
FromArrayCatchLeaking ==
  /\ array' = <<>> /\ fate' = <<>>
  /\ list' = FALSE
  /\ Return(<<"from_array", FALSE>>)
  /\ UNCHANGED <<heap, source, index, drain, out, lists>>

\* catch: what was copied so far is destroyed, if there is a list to hold it.
FromArrayCatch ==
  /\ array' = <<>> /\ fate' = <<>>
  /\ \/ /\ list
        /\ StartClear(TRUE, <<"from_array", FALSE>>)
        /\ UNCHANGED <<target, todo, ret>>
     \/ /\ ~list
        /\ Return(<<"from_array", FALSE>>)
  /\ UNCHANGED <<list, heap, source, index, drain, out, lists>>

FromArrayNoMemory ==
  /\ pc = "from_array" /\ array # <<>>
  /\ "copy" \in failing
  /\ FromArrayCatch
  /\ UNCHANGED owner

\* The push of the copy failed: node_value_df frees it, then free does.
FromArrayRefused ==
  /\ pc = "from_array" /\ array # <<>>
  /\ ~list \/ "push" \in failing
  /\ \E v \in Copies(Head(array)) : owner' = Freed(Freed(CopyMade(v), v), v)
  /\ FromArrayCatch

FromArrayDone ==
  /\ pc = "from_array" /\ array = <<>>
  /\ Return(<<"from_array", TRUE>>)
  /\ fate' = <<>>
  /\ UNCHANGED <<list, heap, owner, array, source, index, drain, out, lists>>

-----------------------------------------------------------------------------
(* LinkedList_from_ArrayList.                                              *)

\* The client fills an ArrayList (ArrayList_create and ArrayList_add).
Client_fill(b) ==
  /\ pc = "idle" /\ source = NULL /\ b # <<>> /\ CanPassAll(b)
  /\ source' = b
  /\ owner' = [v \in Value |-> IF v \in Range(b) THEN "array" ELSE owner[v]]
  /\ UNCHANGED <<list, heap, call, ret, array, index, drain, out, fate, lists>>

LinkedList_from_ArrayList(destroy_src) ==
  /\ ~list /\ pc = "idle" /\ source # NULL
  /\ Supplied(Contents(source), "clone")
  /\ \/ /\ list' = TRUE
        /\ Run("from_list")
        /\ drain' = destroy_src /\ fate' = Contents(source)
     \/ /\ "create" \in failing
        /\ ret' = <<"from_list", FALSE>>
        /\ UNCHANGED <<list, call, drain, fate>>
  /\ lists' = lists + Reachable'
  /\ UNCHANGED <<heap, owner, array, source, index, out>>

\* Mutant: the list is given the elements themselves, not copies of them.
FromListShared ==
  /\ pc = "from_list" /\ index < Len(source)
  /\ index' = index + 1
  /\ PushSucceeds(source[index + 1])
  /\ UNCHANGED <<list, call, ret, array, source, drain, out, fate, lists>>

\* One element copied; nobody looks at whether it could be pushed.
FromListNext ==
  /\ pc = "from_list" /\ index < Len(source)
  /\ index' = index + 1
  /\ \E v \in Copies(ContentOf[source[index + 1]]) :
       \/ PushSucceeds(v)
       \/ /\ "push" \in failing
          /\ owner' = CopyMade(v)
          /\ UNCHANGED heap
  /\ UNCHANGED <<list, call, ret, array, source, drain, out, fate, lists>>

\* NULL is returned; nobody has the list built so far.  It stays allocated with
\* its values; the addresses of its nodes leave the model, Node stands for others.
FromListNoMemory ==
  /\ pc = "from_list" /\ index < Len(source)
  /\ "clone" \in failing
  /\ list' = FALSE
  /\ first' = NULL /\ last' = NULL /\ size' = 0 /\ live' = {}
  /\ next' = [n \in Node |-> NULL] /\ value' = next'
  /\ Return(<<"from_list", FALSE>>)
  /\ index' = 0 /\ drain' = FALSE /\ fate' = <<>>
  /\ UNCHANGED <<owner, array, source, out, lists>>

\* Mutant: the loop leaves the last element out.
FromListDoneEarly ==
  /\ pc = "from_list" /\ index >= Len(source) - 1
  /\ Return(<<"from_list", TRUE>>)
  /\ \/ /\ drain
        /\ owner' = [v \in Value |->
                       IF v \in Range(source) THEN Freed(owner, v)[v] ELSE owner[v]]
        /\ source' = NULL
     \/ ~drain /\ UNCHANGED <<owner, source>>
  /\ index' = 0 /\ drain' = FALSE /\ fate' = <<>>
  /\ UNCHANGED <<list, heap, array, out, lists>>

\* ArrayList_destroy(source), if the caller asked for it.
FromListDone ==
  /\ pc = "from_list" /\ index >= Len(source)
  /\ Return(<<"from_list", TRUE>>)
  /\ \/ /\ drain
        /\ owner' = [v \in Value |->
                       IF v \in Range(source) THEN Freed(owner, v)[v] ELSE owner[v]]
        /\ source' = NULL
     \/ ~drain /\ UNCHANGED <<owner, source>>
  /\ index' = 0 /\ drain' = FALSE /\ fate' = <<>>
  /\ UNCHANGED <<list, heap, array, out, lists>>

-----------------------------------------------------------------------------
(* LinkedList_to_array.                                                    *)

LinkedList_to_array(destroy_src) ==
  /\ Idle
  /\ \/ /\ size > 0
        /\ pc' = "to_array" /\ cur' = first
        /\ drain' = destroy_src /\ fate' = Contents(Values)
        /\ UNCHANGED <<target, todo, kill, after, ret>>
     \/ /\ ret' = <<"to_array", NULL>>
        /\ UNCHANGED <<call, drain, fate>>
  /\ UNCHANGED <<list, heap, owner, array, source, index, out, lists>>

\* Mutant: the walk stops before the last node.
ToArrayNextShort ==
  /\ pc = "to_array" /\ cur # NULL
  /\ out' = Append(out, ContentOf[value[cur]])
  /\ cur' = IF next[cur] = last THEN NULL ELSE next[cur]
  /\ UNCHANGED <<list, heap, owner, pc, target, todo, kill, after, ret,
                 array, source, index, drain, fate, lists>>

ToArrayNext ==
  /\ pc = "to_array" /\ cur # NULL
  /\ out' = Append(out, ContentOf[value[cur]])
  /\ cur' = next[cur]
  /\ UNCHANGED <<list, heap, owner, pc, target, todo, kill, after, ret,
                 array, source, index, drain, fate, lists>>

ToArrayDone ==
  /\ pc = "to_array" /\ cur = NULL
  /\ \/ /\ drain
        /\ StartClear(TRUE, <<"to_array", out>>)
        /\ UNCHANGED <<target, todo, ret>>
     \/ /\ ~drain
        /\ Return(<<"to_array", out>>)
  /\ out' = <<>> /\ drain' = FALSE /\ fate' = <<>>
  /\ UNCHANGED <<list, heap, owner, array, source, index, lists>>

-----------------------------------------------------------------------------

ConvStep == \/ FromArrayNext \/ FromArrayNoMemory \/ FromArrayRefused \/ FromArrayDone
            \/ FromListNext \/ FromListNoMemory \/ FromListDone
            \/ ToArrayNext \/ ToArrayDone

ConvCalls ==
  \/ \E a \in Arrays : LinkedList_from_array(a)
  \/ \E b \in Batches : Client_fill(b)
  \/ \E destroy_src \in BOOLEAN :
       LinkedList_from_ArrayList(destroy_src) \/ LinkedList_to_array(destroy_src)

\* Between the conversions the list is used as ever: created, and destroyed.
ListNext ==
  /\ Next
  /\ lists' = lists + Reachable' - Reachable
  /\ UNCHANGED buffers

ConvNext ==
  /\ ConvStep \/ ConvCalls \/ ListNext
  /\ lists' <= MaxLists
  /\ UNCHANGED <<failing, owning>>

ConvSpec == ConvInit /\ [][ConvNext]_allVars

-----------------------------------------------------------------------------
(* What is expected of it.                                                 *)

\* Where no push is refused, a conversion that succeeds has copied every element, in
\* order.  linkedlist.h:70 promises it of every heap; LinkedList_from_ArrayList leaves
\* out an element whose push is refused.
CopiesAll ==
  [][ /\ "push" \notin failing
      /\ pc \in {"from_array", "from_list"} /\ pc' = "idle" /\ ret'[2]
      => Contents(Values') = fate ]_allVars

\* The array handed out holds the contents of the whole list in order, in the
\* block of size elements made for it.
ExportExact ==
  pc = "to_array" =>
    /\ Len(out) <= size
    /\ cur = NULL => out = fate

\* No pointer is shared between the source and the list made from it.
DeepCopy == source # NULL => Range(source) \cap {value[n] : n \in live} = {}

\* No block of memory is freed twice.
FreedOnce == \A v \in Value : owner[v] # "freed twice"

\* Whatever is allocated can be reached, by one way, from what the client holds:
\* each value of a list in one node of it, each value of an ArrayList in its
\* source, and every list.
NoneLost ==
  /\ \A v \in Value : owner[v] = "list" <=> list /\ \E n \in live : value[n] = v
  /\ \A m, n \in live : value[m] = value[n] => m = n
  /\ \A v \in Value : owner[v] = "array" <=> source # NULL /\ v \in Range(source)
  /\ \A v \in Value : owner[v] # "copy"
  /\ lists = Reachable

\* What the conversions allocate is freed once at most, and in reach until then,
\* through every clean-up, drain and destruction.  The code does not keep the first
\* where a push may be refused or the list not created, which makes
\* LinkedList_from_array free a copy twice, nor the second where a clone or a push
\* may be refused to LinkedList_from_ArrayList, which then drops list or copy.
MemoryExact ==
  /\ failing \cap {"create", "push"} = {} => FreedOnce
  /\ failing \cap {"clone", "push"} = {} => NoneLost

=============================================================================
