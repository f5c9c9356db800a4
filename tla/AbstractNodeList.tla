-------------------------- MODULE AbstractNodeList --------------------------
(***************************************************************************)
(* What a linked list promises its client: a sequence of nodes that keep   *)
(* their values, grown at the end, from which any node can be taken.  No   *)
(* pointers between nodes; only clearing is spread over several steps,     *)
(* because every value is disposed of by a callback of its own.            *)
(***************************************************************************)
EXTENDS Integers, Sequences, Functions

CONSTANTS Node, Value, ContentOf, NULL, Dfs

VARIABLES
  owning,    \* whether the list frees its values
  elems,     \* <<node, value>> in order, NULL while there is no list
  todo,      \* the values that are still to be pushed
  clearing,  \* whether the list is being cleared
  kill,      \* whether that destroys the values
  after,     \* what that call returns: <<"clear", TRUE>> or <<"destroy", TRUE>>
  owner,     \* who must free each value
  ret        \* the last call that returned: with what, and what it returned

vars == <<owning, elems, todo, clearing, kill, after, owner, ret>>

Open == elems # NULL /\ todo = <<>> /\ ~clearing

Init ==
  /\ owning \in Dfs
  /\ elems = NULL
  /\ todo = <<>>
  /\ clearing = FALSE /\ kill = FALSE /\ after = <<"none", NULL>>
  /\ owner = [v \in Value |-> "freed"]
  /\ ret = <<"none", NULL>>

Create ==
  /\ elems = NULL
  /\ \/ elems' = <<>> /\ ret' = <<"create", TRUE>>
     \/ elems' = NULL /\ ret' = <<"create", FALSE>>
  /\ UNCHANGED <<todo, clearing, kill, after, owner>>

\* A node the list does not have yet holds v at the end.
Append1(v) ==
  /\ owner[v] = "caller"
  /\ \E n \in Node :
       /\ \A i \in DOMAIN elems : elems[i][1] # n
       /\ elems' = Append(elems, <<n, v>>)
  /\ owner' = IF owning THEN [owner EXCEPT ![v] = "list"] ELSE owner

Push(v) ==
  /\ Open
  /\ \/ Append1(v) /\ ret' = <<"push", v, TRUE>>
     \/ UNCHANGED <<elems, owner>> /\ ret' = <<"push", v, FALSE>>
  /\ UNCHANGED <<todo, clearing, kill, after>>

\* Values are pushed one by one, in order.  The call fails with the first that
\* cannot be: TRUE says that the list has all of them.
PushAll ==
  /\ Open
  /\ todo' \in Seq(Value) \ {<<>>}
  /\ UNCHANGED <<elems, clearing, kill, after, owner, ret>>

PushAllNext ==
  /\ todo # <<>>
  /\ \/ /\ Append1(Head(todo))
        /\ todo' = Tail(todo)
        /\ ret' = IF todo' = <<>> THEN <<"push_all", TRUE>> ELSE ret
     \/ /\ todo' = <<>> /\ ret' = <<"push_all", FALSE>>
        /\ UNCHANGED <<elems, owner>>
  /\ UNCHANGED <<clearing, kill, after>>

Refuse ==
  /\ Open
  /\ \/ ret' = <<"push_all", FALSE>>
     \/ elems = <<>> /\ ret' = <<"remove", NULL, FALSE>>
  /\ UNCHANGED <<elems, todo, clearing, kill, after, owner>>

\* The first node whose value has the content looked for.
Find(v) ==
  LET found == {i \in DOMAIN elems : ContentOf[elems[i][2]] = ContentOf[v]}
  IN  /\ Open
      /\ \/ found = {} /\ ret' = <<"find_node", v, NULL>>
         \/ \E i \in found :
              /\ \A j \in found : i <= j
              /\ ret' = <<"find_node", v, elems[i][1]>>
      /\ UNCHANGED <<elems, todo, clearing, kill, after, owner>>

\* The node goes, the others keep their order; its value is destroyed.
Remove(i) ==
  /\ Open
  /\ elems' = SubSeq(elems, 1, i - 1) \o SubSeq(elems, i + 1, Len(elems))
  /\ owner' = IF owning THEN [owner EXCEPT ![elems[i][2]] = "freed"] ELSE owner
  /\ ret' = <<"remove", elems[i][1], TRUE>>
  /\ UNCHANGED <<todo, clearing, kill, after>>

StartClearing ==
  /\ Open
  /\ clearing' = TRUE
  /\ kill' \in BOOLEAN
  /\ after' \in {<<"clear", TRUE>>, <<"destroy", TRUE>>}
  /\ UNCHANGED <<elems, todo, owner, ret>>

DisposeOfFirst ==
  /\ clearing /\ elems # <<>>
  /\ elems' = Tail(elems)
  /\ LET v == Head(elems)[2]
     IN  owner' = IF ~kill THEN [owner EXCEPT ![v] = "caller"]
                  ELSE IF owning THEN [owner EXCEPT ![v] = "freed"] ELSE owner
  /\ UNCHANGED <<todo, clearing, kill, after, ret>>

Cleared ==
  /\ clearing /\ elems = <<>>
  /\ elems' = IF after[1] = "destroy" THEN NULL ELSE <<>>
  /\ ret' = after
  /\ clearing' = FALSE /\ kill' = FALSE /\ after' = <<"none", NULL>>
  /\ UNCHANGED <<todo, owner>>

Alloc(v) ==
  /\ owner[v] = "freed"
  /\ owner' = [owner EXCEPT ![v] = "caller"]
  /\ UNCHANGED <<elems, todo, clearing, kill, after, ret>>

Next ==
  /\ \/ Create \/ PushAll \/ PushAllNext \/ Refuse \/ StartClearing \/ DisposeOfFirst \/ Cleared
     \/ \E v \in Value : Push(v) \/ Find(v) \/ Alloc(v)
     \/ Open /\ \E i \in DOMAIN elems : Remove(i)
  /\ UNCHANGED owning

Spec == Init /\ [][Next]_vars

=============================================================================
