----------------------------- MODULE LinkedList -----------------------------
(***************************************************************************)
(* The singly linked list of src/linkedlist.c as nodes in a heap: pointers *)
(* first, last and next, a size counted separately, and loops that walk    *)
(* the nodes one at a time.  Each turn of a loop is a step, so that what   *)
(* the loop relies on while the list is half updated can be stated, and so *)
(* that a loop that never ends would show.  One call runs at a time.       *)
(***************************************************************************)
EXTENDS Integers, Sequences, FiniteSets, Functions

CONSTANTS
  Node,      \* the addresses calloc may give a node
  Value,     \* the values clients push
  ContentOf, \* what a value holds; equals_fn compares that
  NULL,      \* the null pointer
  HEAD,      \* the address of list->first, among the pointers to a pointer
  Dfs,       \* the destructors clients create lists with, see owning
  MaxBatch,  \* bound on the arrays passed to LinkedList_push_all
  BulkRefused \* whether calloc may refuse a node in the middle of LinkedList_push_all

ASSUME ConstantsAssumption ==
  /\ NULL \notin Node \cup Value
  /\ HEAD \notin Node \cup {NULL}
  /\ Dfs \subseteq BOOLEAN
  /\ MaxBatch \in Nat
  /\ BulkRefused \in BOOLEAN

VARIABLES
  owning,    \* TRUE: node_value_df frees the value; FALSE: it is Commons_noop
  list,      \* whether the client holds a list
  first, last, size,
  next,      \* the next field of each node
  value,     \* the value field of each node
  live,      \* the nodes that are allocated
  owner,     \* who must free each value: "caller", "list", or nobody: "freed",
             \* "freed twice"
  pc,        \* the loop that is running, "idle" between calls
  cur,       \* the loop's pointer; in "scan" the address of a pointer
  target,    \* node_to_remove
  todo,      \* what the call still works with: values to push, one to seek
  kill,      \* is_destroy_node_values
  after,     \* what the call returns once LinkedList_clear is through
  ret        \* the last call that returned: with what, and what it returned

heap == <<first, last, size, next, value, live>>
call == <<pc, cur, target, todo, kill, after>>
vars == <<owning, list, heap, owner, call, ret>>

None == <<"none", NULL>>

Init ==
  /\ owning \in Dfs
  /\ list = FALSE
  /\ first = NULL /\ last = NULL /\ size = 0
  /\ next = [n \in Node |-> NULL] /\ value = [n \in Node |-> NULL]
  /\ live = {}
  /\ owner = [v \in Value |-> "freed"]
  /\ pc = "idle" /\ cur = NULL /\ target = NULL /\ todo = <<>>
  /\ kill = FALSE /\ after = None
  /\ ret = None

Idle == list /\ pc = "idle"

-----------------------------------------------------------------------------

\* A client hands over only values it owns, each once when the list frees them.
CanPass(v) == owner[v] = "caller"

Batches == UNION {[1 .. n -> Value] : n \in 0 .. MaxBatch}

CanPassAll(b) ==
  /\ \A i \in DOMAIN b : CanPass(b[i])
  /\ owning => IsInjective(b)

\* free(v) where o tells the owners, which counts: a second one is not undone.
Freed(o, v) ==
  [o EXCEPT ![v] = IF @ \in {"freed", "freed twice"} THEN "freed twice" ELSE "freed"]

\* node_value_df(v).
Destroy(v) == IF owning THEN Freed(owner, v) ELSE owner

\* What *s is when s is the address of list->first or of a next field.
Deref(s) == IF s = HEAD THEN first ELSE next[s]

\* free(n).  What a freed node holds is never looked at (LoopsStayLive), so it
\* is set to NULL at once.
FreeNode(n) ==
  /\ live' = live \ {n}
  /\ next' = [next EXCEPT ![n] = NULL]
  /\ value' = [value EXCEPT ![n] = NULL]

\* Returning: the call's locals are gone.
Return(result) ==
  /\ pc' = "idle" /\ cur' = NULL /\ target' = NULL /\ todo' = <<>>
  /\ kill' = FALSE /\ after' = None
  /\ ret' = result

\* Mutant: the old last node is not linked to the new one.
PushUnlinked(v, n) ==
  /\ first' = IF size = 0 THEN n ELSE first
  /\ next' = [next EXCEPT ![n] = NULL]
  /\ last' = n
  /\ value' = [value EXCEPT ![n] = v]
  /\ live' = live \cup {n}
  /\ size' = size + 1
  /\ owner' = IF owning THEN [owner EXCEPT ![v] = "list"] ELSE owner

\* LinkedList_push(list, v) once calloc has returned n.
PushInto(v, n) ==
  /\ first' = IF size = 0 THEN n ELSE first
  /\ next' = IF size = 0 THEN [next EXCEPT ![n] = NULL]
             ELSE [next EXCEPT ![n] = NULL, ![last] = n]
  /\ last' = n
  /\ value' = [value EXCEPT ![n] = v]
  /\ live' = live \cup {n}
  /\ size' = size + 1
  /\ owner' = IF owning THEN [owner EXCEPT ![v] = "list"] ELSE owner

PushSucceeds(v) == \E n \in Node \ live : PushInto(v, n)

PushFails == UNCHANGED <<heap, owner>>

-----------------------------------------------------------------------------
(* Creating and pushing.                                                   *)

LinkedList_create ==
  /\ ~list /\ pc = "idle"
  /\ \/ list' = TRUE /\ ret' = <<"create", TRUE>>
     \/ list' = FALSE /\ ret' = <<"create", FALSE>>
  /\ UNCHANGED <<heap, owner, call>>

LinkedList_push(v) ==
  /\ Idle /\ CanPass(v)
  /\ \/ PushSucceeds(v) /\ ret' = <<"push", v, TRUE>>
     \/ PushFails       /\ ret' = <<"push", v, FALSE>>
  /\ UNCHANGED <<list, call>>

\* A heap that refuses the call no node has one for each value.
LinkedList_push_all(b) ==
  /\ Idle /\ CanPassAll(b)
  /\ BulkRefused \/ Cardinality(Node \ live) >= Len(b)
  /\ \/ /\ b = <<>>
        /\ ret' = <<"push_all", FALSE>>
        /\ UNCHANGED call
     \/ /\ b # <<>>
        /\ pc' = "push_all" /\ todo' = b
        /\ UNCHANGED <<cur, target, kill, after, ret>>
  /\ UNCHANGED <<list, heap, owner>>

\* One iteration.  The action of its check is the constant false, which does
\* nothing: a push that fails is passed over.
PushAllNext ==
  /\ pc = "push_all"
  /\ PushSucceeds(Head(todo)) \/ (BulkRefused /\ PushFails)
  /\ \/ /\ Len(todo) = 1
        /\ Return(<<"push_all", TRUE>>)
     \/ /\ Len(todo) > 1
        /\ todo' = Tail(todo)
        /\ UNCHANGED <<pc, cur, target, kill, after, ret>>
  /\ UNCHANGED list

-----------------------------------------------------------------------------
(* Searching: LinkedList_find_node, and LinkedList_contains which is its   *)
(* result as a truth value.                                                *)

LinkedList_find_node(v) ==
  /\ Idle
  /\ pc' = "seek" /\ cur' = first /\ todo' = <<v>>
  /\ UNCHANGED <<list, heap, owner, target, kill, after, ret>>

Matches(n) == ContentOf[value[n]] = ContentOf[todo[1]]

\* Mutant: the loop goes on from the first node, not from the one it is at.
SeekNextFromFirst ==
  /\ pc = "seek"
  /\ \/ /\ cur = NULL
        /\ Return(<<"find_node", todo[1], NULL>>)
     \/ /\ cur # NULL /\ Matches(cur)
        /\ Return(<<"find_node", todo[1], cur>>)
     \/ /\ cur # NULL /\ ~Matches(cur)
        /\ cur' = next[first]
        /\ UNCHANGED <<pc, target, todo, kill, after, ret>>
  /\ UNCHANGED <<list, heap, owner>>

SeekNext ==
  /\ pc = "seek"
  /\ \/ /\ cur = NULL
        /\ Return(<<"find_node", todo[1], NULL>>)
     \/ /\ cur # NULL /\ Matches(cur)
        /\ Return(<<"find_node", todo[1], cur>>)
     \/ /\ cur # NULL /\ ~Matches(cur)
        /\ cur' = next[cur]
        /\ UNCHANGED <<pc, target, todo, kill, after, ret>>
  /\ UNCHANGED <<list, heap, owner>>

-----------------------------------------------------------------------------
(* Removing.                                                               *)

\* n is a node the client got from the list.
LinkedList_remove(n) ==
  /\ Idle
  /\ pc' = "scan" /\ cur' = HEAD /\ target' = n
  /\ UNCHANGED <<list, heap, owner, todo, kill, after, ret>>

\* LinkedList_remove(list, list->last), which refuses NULL.
LinkedList_pop ==
  \/ last # NULL /\ LinkedList_remove(last)
  \/ /\ Idle /\ last = NULL
     /\ ret' = <<"remove", NULL, FALSE>>
     /\ UNCHANGED <<list, heap, owner, call>>

\* Find the pointer that points to the node.
ScanNext ==
  /\ pc = "scan"
  /\ Deref(cur) # NULL /\ Deref(cur) # target
  /\ cur' = Deref(cur)
  /\ UNCHANGED <<list, heap, owner, pc, target, todo, kill, after, ret>>

\* Mutant: list->last is not looked at.
UnlinkForgettingLast ==
  /\ pc = "scan"
  /\ Deref(cur) \in {NULL, target}
  /\ IF cur = HEAD THEN first' = next[target] /\ next' = next
     ELSE first' = first /\ next' = [next EXCEPT ![cur] = next[target]]
  /\ pc' = "drop" /\ cur' = NULL
  /\ UNCHANGED <<list, last, size, value, live, owner, target, todo, kill, after, ret>>

\* Redirect it past the node; if that was the last one, look for a new last.
Unlink ==
  /\ pc = "scan"
  /\ Deref(cur) \in {NULL, target}
  /\ IF cur = HEAD THEN first' = next[target] /\ next' = next
     ELSE first' = first /\ next' = [next EXCEPT ![cur] = next[target]]
  /\ \/ /\ target # last
        /\ pc' = "drop" /\ cur' = NULL /\ last' = last
     \/ /\ target = last /\ size = 1
        /\ pc' = "drop" /\ cur' = NULL /\ last' = NULL
     \/ /\ target = last /\ size # 1
        /\ pc' = "rescan" /\ cur' = first' /\ last' = last
  /\ UNCHANGED <<list, size, value, live, owner, target, todo, kill, after, ret>>

RescanNext ==
  /\ pc = "rescan"
  /\ \/ /\ next[cur] # NULL
        /\ cur' = next[cur]
        /\ UNCHANGED <<last, pc>>
     \/ /\ next[cur] = NULL
        /\ last' = cur
        /\ pc' = "drop" /\ cur' = NULL
  /\ UNCHANGED <<list, first, size, next, value, live, owner, target, todo, kill,
                 after, ret>>

\* Mutant: the value is forgotten.
DropLeaking ==
  /\ pc = "drop"
  /\ size' = size - 1
  /\ FreeNode(target)
  /\ Return(<<"remove", target, TRUE>>)
  /\ UNCHANGED <<list, first, last, owner>>

\* The value is destroyed, then the node.
Drop ==
  /\ pc = "drop"
  /\ size' = size - 1
  /\ owner' = Destroy(value[target])
  /\ FreeNode(target)
  /\ Return(<<"remove", target, TRUE>>)
  /\ UNCHANGED <<list, first, last>>

-----------------------------------------------------------------------------
(* Clearing and destroying.                                                *)

\* The loop of LinkedList_clear starts; result is what the call ends with.
StartClear(is_destroy_node_values, result) ==
  /\ pc' = "clear" /\ cur' = first
  /\ kill' = is_destroy_node_values /\ after' = result

LinkedList_clear(is_destroy_node_values) ==
  /\ Idle
  /\ StartClear(is_destroy_node_values, <<"clear", TRUE>>)
  /\ UNCHANGED <<list, heap, owner, target, todo, ret>>

\* The list itself is freed after its nodes.
LinkedList_destroy(is_destroy_node_values) ==
  /\ Idle
  /\ StartClear(is_destroy_node_values, <<"destroy", TRUE>>)
  /\ UNCHANGED <<list, heap, owner, target, todo, ret>>

\* Mutant: the values are destroyed in any case.
DisposedAlways(v) == Destroy(v)

\* Values that are not destroyed are the caller's again.
Disposed(v) ==
  IF kill THEN Destroy(v) ELSE [owner EXCEPT ![v] = "caller"]

ClearNext ==
  /\ pc = "clear" /\ cur # NULL
  /\ owner' = Disposed(value[cur])
  /\ FreeNode(cur)
  /\ cur' = next[cur]
  /\ UNCHANGED <<list, first, last, size, pc, target, todo, kill, after, ret>>

ClearDone ==
  /\ pc = "clear" /\ cur = NULL
  /\ first' = NULL /\ last' = NULL /\ size' = 0
  /\ list' = (after[1] = "clear")
  /\ Return(after)
  /\ UNCHANGED <<next, value, live, owner>>

\* The client allocates a value again at an address that was freed.
Client_alloc(v) ==
  /\ pc = "idle"
  /\ owner[v] = "freed"
  /\ owner' = [owner EXCEPT ![v] = "caller"]
  /\ UNCHANGED <<list, heap, call, ret>>

-----------------------------------------------------------------------------

\* The loop of the call that is running.
Step == \/ PushAllNext \/ SeekNext \/ ScanNext \/ Unlink \/ RescanNext \/ Drop
        \/ ClearNext \/ ClearDone

Calls ==
  \/ LinkedList_create \/ LinkedList_pop
  \/ \E v \in Value : \/ LinkedList_push(v) \/ LinkedList_find_node(v)
                      \/ Client_alloc(v)
  \/ \E b \in Batches : LinkedList_push_all(b)
  \/ \E n \in live : LinkedList_remove(n)
  \/ \E kills \in BOOLEAN : LinkedList_clear(kills) \/ LinkedList_destroy(kills)

Next == (Step \/ Calls) /\ UNCHANGED owning

\* A call that has started goes on; nobody has to make another one.
Spec == Init /\ [][Next]_vars /\ WF_vars(Step /\ UNCHANGED owning)

-----------------------------------------------------------------------------
(* What is expected of it.                                                 *)

\* Type invariant: the fields of the list, of its nodes and of the running call.
TypeOK ==
  /\ owning \in Dfs /\ list \in BOOLEAN
  /\ first \in Node \cup {NULL} /\ last \in Node \cup {NULL} /\ size \in Nat
  /\ next \in [Node -> Node \cup {NULL}]
  /\ value \in [Node -> Value \cup {NULL}]
  /\ live \subseteq Node
  /\ owner \in [Value -> {"caller", "list", "freed", "freed twice"}]
  /\ pc \in {"idle", "push_all", "seek", "scan", "rescan", "drop", "clear"}
  /\ cur \in Node \cup {NULL, HEAD} /\ target \in Node \cup {NULL}
  /\ todo \in Seq(Value) /\ kill \in BOOLEAN

\* c lists the nodes met on the way from s to a NULL.
IsChain(c, s) ==
  /\ IsInjective(c)
  /\ s = (IF c = <<>> THEN NULL ELSE c[1])
  /\ \A i \in DOMAIN c : next[c[i]] = IF i = Len(c) THEN NULL ELSE c[i + 1]

Chains(s) ==
  {c \in UNION {[1 .. k -> live] : k \in 0 .. Cardinality(live)} : IsChain(c, s)}

\* Where the nodes the list still has start, and the node it is about to free.
Rest == IF pc = "clear" THEN cur ELSE first
Gone == IF pc \in {"rescan", "drop"} THEN {target} ELSE {}

\* The pointers always form one chain that ends, made of exactly the nodes that
\* are allocated: none is lost, none is reached after it was freed.  Its length
\* is size, and last is its last node, except while a call is at work on that.
ChainExact ==
  /\ TypeOK
  /\ \E c \in Chains(Rest) :
       /\ Range(c) = live \ Gone
       /\ pc # "clear" => size = Len(c) + Cardinality(Gone)
       /\ pc \notin {"clear", "rescan"} =>
            last = IF c = <<>> THEN NULL ELSE c[Len(c)]

\* No loop follows a NULL or freed pointer: the scan meets the node it looks
\* for before the end, the rescan starts from a node, clear reads next before
\* the node is freed.
LoopsStayLive ==
  /\ pc = "seek"   => cur \in live \cup {NULL}
  /\ pc = "scan"   => cur \in live \cup {HEAD} /\ target \in live /\ Deref(cur) \in live
  /\ pc = "rescan" => cur \in live /\ target \in live
  /\ pc = "drop"   => target \in live
  /\ pc = "clear"  => cur \in live \cup {NULL}

\* A list that frees its values owns exactly the ones its nodes hold, each in
\* one node, at every step of remove and clear: none is freed twice or leaked.
OwnershipExact ==
  owning =>
    /\ \A v \in Value : /\ owner[v] = "list" <=> \E n \in live : value[n] = v
                         /\ owner[v] # "freed twice"
    /\ \A m, n \in live : value[m] = value[n] => m = n

\* Every call returns: the loops meet a NULL or the node they look for.
CallsReturn == pc # "idle" ~> pc = "idle"

\* The list a client sees: nodes with their values, in order.
Elems ==
  IF ~list THEN NULL
  ELSE LET c == CHOOSE c \in Chains(Rest) : TRUE
       IN  [i \in DOMAIN c |-> <<c[i], value[c[i]]>>]

\* A removal takes effect when the node is unlinked; its value is destroyed,
\* and the call returns, a few steps later.
Unlinked == pc \in {"rescan", "drop"}

\* The list does and returns what AbstractNodeList promises.  LinkedList_push_all
\* does not where a node is refused it: it returns true, linkedlist.h says false.
Abstract == INSTANCE AbstractNodeList
  WITH elems <- Elems,
       clearing <- (pc = "clear"),
       todo <- (IF pc = "push_all" THEN todo ELSE <<>>),
       owner <- (IF Unlinked THEN Destroy(value[target]) ELSE owner),
       ret <- (IF Unlinked THEN <<"remove", target, TRUE>> ELSE ret)
ImplementsAbstractNodeList == Abstract!Spec

=============================================================================
