---------------------------- MODULE AbstractMap ----------------------------
(***************************************************************************)
(* What a map promises its client: a value for each content of a key, and  *)
(* who must free the pointers.  No table and no hashing.  A put may be     *)
(* refused, and the client is not told: like a put of a new key it returns *)
(* NULL.                                                                   *)
(***************************************************************************)
EXTENDS Functions

CONSTANTS Key, Value, NULL, ContentOf

VARIABLES
  map,    \* whether the client holds a map
  dict,   \* the key pointer and the value held for each content, or NULL
  owner,  \* who must free each pointer
  ret     \* the last call that returned: with what, and what it returned

vars == <<map, dict, owner, ret>>

Nothing == [c \in Range(ContentOf) |-> NULL]

Init ==
  /\ map = FALSE /\ dict = Nothing
  /\ owner = [p \in Key \cup Value |-> "caller"]
  /\ ret = <<"none", NULL>>

Give(pointers, who) ==
  [p \in Key \cup Value |-> IF p \in pointers THEN who ELSE owner[p]]

Held == UNION {{dict[c][1], dict[c][2]} : c \in {d \in Range(ContentOf) : dict[d] # NULL}}

Create ==
  /\ ~map /\ map' \in BOOLEAN
  /\ ret' = <<"create", map'>>
  /\ UNCHANGED <<dict, owner>>

\* The key is taken only with a content the map does not have.
Put(k, v) ==
  LET c == ContentOf[k]
  IN  /\ map /\ owner[k] # "freed" /\ owner[v] = "caller"
      /\ \/ /\ dict[c] = NULL
            /\ dict' = [dict EXCEPT ![c] = <<k, v>>]
            /\ owner' = Give({k, v}, "map")
            /\ ret' = <<"put", <<k, v>>, NULL>>
         \/ /\ dict[c] # NULL
            /\ dict' = [dict EXCEPT ![c][2] = v]
            /\ owner' = [owner EXCEPT ![v] = "map", ![dict[c][2]] = "caller"]
            /\ ret' = <<"put", <<k, v>>, dict[c][2]>>
         \/ /\ ret' = <<"put", <<k, v>>, NULL>>
            /\ UNCHANGED <<dict, owner>>
      /\ UNCHANGED map

Get(k) ==
  /\ map /\ owner[k] # "freed"
  /\ ret' = <<"get", k, IF dict[ContentOf[k]] = NULL THEN NULL ELSE dict[ContentOf[k]][2]>>
  /\ UNCHANGED <<map, dict, owner>>

Remove(k) ==
  LET c == ContentOf[k]
  IN  /\ map /\ owner[k] # "freed"
      /\ \/ /\ dict[c] # NULL
            /\ dict' = [dict EXCEPT ![c] = NULL]
            /\ owner' = Give({dict[c][1], dict[c][2]}, "freed")
            /\ ret' = <<"remove", k, TRUE>>
         \/ /\ dict[c] = NULL
            /\ ret' = <<"remove", k, FALSE>>
            /\ UNCHANGED <<dict, owner>>
      /\ UNCHANGED map

Clear ==
  /\ map
  /\ \/ map' = TRUE  /\ ret' = <<"clear", TRUE>>
     \/ map' = FALSE /\ ret' = <<"destroy", TRUE>>
  /\ dict' = Nothing
  /\ owner' = Give(Held, "freed")

Alloc(p) ==
  /\ owner[p] = "freed"
  /\ owner' = [owner EXCEPT ![p] = "caller"]
  /\ UNCHANGED <<map, dict, ret>>

Next ==
  \/ Create \/ Clear
  \/ \E k \in Key : Get(k) \/ Remove(k) \/ \E v \in Value : Put(k, v)
  \/ \E p \in Key \cup Value : Alloc(p)

Spec == Init /\ [][Next]_vars

=============================================================================
