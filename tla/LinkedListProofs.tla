-------------------------- MODULE LinkedListProofs --------------------------
(***************************************************************************)
(* What holds of LinkedList and of the conversions of ListConversion for   *)
(* every set of nodes and of values, for lists and arrays of every length  *)
(* and whatever the heap refuses.                                          *)
(***************************************************************************)
EXTENDS ListConversion, FiniteSetTheorems, SequenceTheorems, WellFoundedInduction, TLAPS

\* Who may own a value; ListConversion knows of more owners than LinkedList.
Owners == {"caller", "list", "freed", "array", "copy", "freed twice"}

\* The fields of the list and of its nodes, and who owns the values.
HeapOK ==
  /\ owning \in BOOLEAN
  /\ first \in Node \cup {NULL} /\ last \in Node \cup {NULL} /\ size \in Nat
  /\ next \in [Node -> Node \cup {NULL}]
  /\ value \in [Node -> Value \cup {NULL}]
  /\ live \subseteq Node /\ IsFiniteSet(live)
  /\ owner \in [Value -> Owners]

\* The fields of the running call.
CallOK ==
  /\ list \in BOOLEAN /\ kill \in BOOLEAN
  /\ cur \in Node \cup {NULL, HEAD} /\ target \in Node \cup {NULL}
  /\ todo \in Seq(Value)

\* c is the chain of the nodes the list still has.
Chained(c) ==
  /\ c \in Seq(Node)
  /\ IsChain(c, Rest)
  /\ Range(c) = live \ Gone
  /\ pc # "clear" => size = Len(c) + Cardinality(Gone)
  /\ pc \notin {"clear", "rescan"} => last = IF c = <<>> THEN NULL ELSE c[Len(c)]

\* The same when no removal and no clearing is under way.
Whole(c) ==
  /\ c \in Seq(Node)
  /\ IsChain(c, first)
  /\ Range(c) = live
  /\ size = Len(c)
  /\ last = IF c = <<>> THEN NULL ELSE c[Len(c)]

\* Where on that chain the running loop is: the search has passed no node it looks for,
\* the scan is before its target, the search for a new last node has a node to look at,
\* and the node that is to be freed is not freed yet.
Walked(c) ==
  /\ pc = "seek" =>
       \E k \in 1 .. Len(c) + 1 :
         /\ cur = IF k = Len(c) + 1 THEN NULL ELSE c[k]
         /\ \A i \in 1 .. k - 1 : ~Matches(c[i])
  /\ pc = "scan" =>
       /\ target \in Range(c)
       /\ cur = HEAD \/ \E i, j \in 1 .. Len(c) : i < j /\ cur = c[i] /\ target = c[j]
  /\ pc = "rescan" => cur \in Range(c)
  /\ Gone \subseteq live

\* A list that frees its values owns those in its nodes, each in one node.
NodesOwned ==
  /\ \A n \in live : value[n] \in Value
  /\ owning => /\ \A n \in live : owner[value[n]] = "list"
               /\ \A m, n \in live : value[m] = value[n] => m = n

\* It owns no others.
NoStray == owning => \A v \in Value : owner[v] = "list" => \E n \in live : value[n] = v

\* The values a bulk push is about to hand over.
Promised ==
  pc = "push_all" => /\ todo # <<>>
                     /\ \A i \in DOMAIN todo : CanPass(todo[i])
                     /\ owning => IsInjective(todo)

\* Without a list there are no nodes, and no loop is at work on them.
NoList == live = {} /\ pc \notin {"push_all", "seek", "scan", "rescan", "drop", "clear"}

Held(c) ==
  /\ HeapOK /\ CallOK /\ NodesOwned /\ Promised
  /\ ~list => NoList
  /\ Chained(c) /\ Walked(c)

ListInv == \E c \in Seq(Node) : Held(c)

-----------------------------------------------------------------------------
(* Chains.                                                                 *)

\* A set of natural numbers that is not empty has a least one.
LEMMA LeastNat ==
  ASSUME NEW T \in SUBSET Nat, T # {}
  PROVE  \E m \in T : \A k \in T : m <= k
<1> DEFINE Less == OpToRel(<, Nat)
<1>1. \A x, y \in Nat : x < y => <<x, y>> \in Less
  BY Zenon DEF OpToRel
<1>2. IsWellFoundedOn(Less, Nat)
  BY NatLessThanWellFounded, Zenon
<1> HIDE DEF Less
<1>3. \E x \in T : \A y \in T : ~(<<y, x>> \in Less)
  BY <1>2, WFMin, Zenon
<1>4. PICK m \in T : \A y \in T : ~(<<y, m>> \in Less)
  BY <1>3
<1>5. \A k \in T : k \in Nat /\ m \in Nat /\ ~(k < m)
  BY <1>1, <1>4
<1> QED BY <1>5

\* The chain of two pointers that are equal agree at every position of the first.
LEMMA ChainAgrees ==
  ASSUME ConstantsAssumption, NEW s, NEW c \in Seq(Node), NEW d \in Seq(Node),
         IsChain(c, s), IsChain(d, s), NEW i \in 1 .. Len(c)
  PROVE  i \in 1 .. Len(d) /\ d[i] = c[i]
<1> DEFINE T == {k \in Nat : k \in 1 .. Len(c) /\ ~(k \in 1 .. Len(d) /\ d[k] = c[k])}
<1> SUFFICES ASSUME T # {} PROVE FALSE
  <2> SUFFICES T = {} => i \in 1 .. Len(d) /\ d[i] = c[i]
    OBVIOUS
  <2> QED OBVIOUS
<1>1. PICK m \in T : \A k \in T : m <= k
  BY LeastNat
<1>2. NULL \notin Node /\ Len(c) \in Nat /\ Len(d) \in Nat
  BY DEF ConstantsAssumption
<1>3. CASE m = 1
  BY <1>1, <1>2, <1>3 DEF IsChain
<1>4. CASE m # 1
  <2>1. m - 1 \in 1 .. Len(c) /\ m - 1 \notin T
    BY <1>1, <1>2, <1>4
  <2>2. m - 1 \in 1 .. Len(d) /\ d[m - 1] = c[m - 1]
    BY <2>1
  <2>3. next[c[m - 1]] = c[m] /\ c[m] \in Node
    BY <1>1, <1>2, <2>1 DEF IsChain
  <2>4. m - 1 # Len(d)
    <3> SUFFICES ASSUME m - 1 = Len(d) PROVE FALSE
      OBVIOUS
    <3>1. \A k \in DOMAIN d : k = Len(d) => next[d[k]] = NULL
      BY Zenon DEF IsChain
    <3>2. DOMAIN d = 1 .. Len(d)
      OBVIOUS
    <3>3. next[d[m - 1]] = NULL
      BY <2>2, <3>1, <3>2
    <3> QED BY <1>2, <2>2, <2>3, <3>3
  <2>5. m \in 1 .. Len(d) /\ next[d[m - 1]] = d[m]
    BY <1>1, <1>2, <2>2, <2>4 DEF IsChain
  <2> QED BY <1>1, <2>2, <2>3, <2>5
<1> QED BY <1>3, <1>4

\* A pointer has one chain at most.
LEMMA ChainUnique ==
  ASSUME ConstantsAssumption, NEW s, NEW c \in Seq(Node), NEW d \in Seq(Node),
         IsChain(c, s), IsChain(d, s)
  PROVE  c = d
<1>1. \A i \in 1 .. Len(c) : i \in 1 .. Len(d) /\ d[i] = c[i]
  BY ChainAgrees
<1>2. \A i \in 1 .. Len(d) : i \in 1 .. Len(c) /\ c[i] = d[i]
  BY ChainAgrees
<1>3. Len(c) = Len(d)
  BY <1>1, <1>2
<1> QED BY <1>1, <1>3

\* A chain of live nodes is among those that ChainExact speaks of.
LEMMA ChainListed ==
  ASSUME HeapOK, NEW s, NEW c \in Seq(Node), IsChain(c, s), Range(c) \subseteq live
  PROVE  c \in Chains(s)
<1>1. Len(c) \in Nat /\ c \in [1 .. Len(c) -> live]
  BY DEF Range
<1>2. c \in Injection(1 .. Len(c), live)
  BY <1>1 DEF IsChain, IsInjective, Injection
<1>3. Cardinality(1 .. Len(c)) <= Cardinality(live)
  BY <1>2, FS_Injection, Zenon DEF HeapOK
<1>6. Cardinality(1 .. Len(c)) = Len(c)
  BY <1>1, FS_Interval
<1>4. Cardinality(live) \in Nat
  BY FS_CardinalityType DEF HeapOK
<1>5. Len(c) \in 0 .. Cardinality(live)
  BY <1>1, <1>3, <1>4, <1>6
<1> QED BY <1>1, <1>5 DEF Chains

\* And each of those is a chain.
LEMMA ListedChain ==
  ASSUME HeapOK, NEW s, NEW c \in Chains(s)
  PROVE  c \in Seq(Node) /\ IsChain(c, s) /\ Range(c) \subseteq live
<1>1. PICK k \in 0 .. Cardinality(live) : c \in [1 .. k -> live]
  BY DEF Chains
<1>2. Cardinality(live) \in Nat /\ live \subseteq Node
  BY FS_CardinalityType DEF HeapOK
<1>3. k \in Nat /\ c \in Seq(live)
  BY <1>1, <1>2
<1> QED BY <1>1, <1>2, <1>3 DEF Chains, Range

-----------------------------------------------------------------------------
(* What the operations do to a chain, for next fields nx.                  *)

\* IsChain, said of any next fields.
ChainBy(nx, c, s) ==
  /\ IsInjective(c)
  /\ s = (IF c = <<>> THEN NULL ELSE c[1])
  /\ \A i \in 1 .. Len(c) : nx[c[i]] = IF i = Len(c) THEN NULL ELSE c[i + 1]

\* A chain without its k-th node.
Without(c, k) == [i \in 1 .. Len(c) - 1 |-> IF i < k THEN c[i] ELSE c[i + 1]]

\* The nodes of a chain, those of one with a node more, and those of one with a node less.
LEMMA NodesOf ==
  ASSUME NEW N, NEW c \in Seq(N)
  PROVE  /\ Range(c) = {c[i] : i \in 1 .. Len(c)}
         /\ \A n \in N : Range(Append(c, n)) = Range(c) \cup {n}
<1>1. DOMAIN c = 1 .. Len(c)
  OBVIOUS
<1>2. ASSUME NEW n \in N PROVE Range(Append(c, n)) = Range(c) \cup {n}
  <2> DEFINE d == Append(c, n)
  <2>1. /\ Len(d) = Len(c) + 1 /\ DOMAIN d = 1 .. Len(c) + 1 /\ d[Len(c) + 1] = n
        /\ \A i \in 1 .. Len(c) : d[i] = c[i]
    OBVIOUS
  <2>2. Len(c) \in Nat
    OBVIOUS
  <2> HIDE DEF d
  <2> QED BY <1>1, <2>1, <2>2 DEF Range
<1> QED BY <1>1, <1>2 DEF Range

\* A chain without its k-th node has the other nodes.
LEMMA NodesWithout ==
  ASSUME NEW N, NEW c \in Seq(N), IsInjective(c), NEW k \in 1 .. Len(c)
  PROVE  /\ Without(c, k) \in Seq(N) /\ Len(Without(c, k)) = Len(c) - 1
         /\ IsInjective(Without(c, k))
         /\ Range(Without(c, k)) = Range(c) \ {c[k]}
<1> DEFINE d == Without(c, k)
<1>1. Len(c) \in Nat /\ DOMAIN c = 1 .. Len(c) /\ \A i \in 1 .. Len(c) : c[i] \in N
  OBVIOUS
<1>2. d \in Seq(N) /\ Len(d) = Len(c) - 1 /\ DOMAIN d = 1 .. Len(c) - 1
  <2>1. Len(c) - 1 \in Nat
    BY <1>1
  <2>2. d \in [1 .. Len(c) - 1 -> N]
    BY <1>1 DEF Without
  <2> QED BY <2>1, <2>2
<1>3. \A i \in 1 .. Len(c) - 1 : d[i] = IF i < k THEN c[i] ELSE c[i + 1]
  BY DEF Without
<1> HIDE DEF d
<1>4. \A i, j \in 1 .. Len(c) : c[i] = c[j] => i = j
  BY <1>1 DEF IsInjective
<1>5. IsInjective(d)
  <2> SUFFICES ASSUME NEW i \in 1 .. Len(c) - 1, NEW j \in 1 .. Len(c) - 1, d[i] = d[j]
               PROVE  i = j
    BY <1>2 DEF IsInjective
  <2>1. d[i] = (IF i < k THEN c[i] ELSE c[i + 1]) /\ d[j] = (IF j < k THEN c[j] ELSE c[j + 1])
    BY <1>3
  <2>2. i \in 1 .. Len(c) /\ i + 1 \in 1 .. Len(c) /\ j \in 1 .. Len(c) /\ j + 1 \in 1 .. Len(c)
    BY <1>1
  <2>3. CASE i < k /\ j < k
    BY <1>4, <2>1, <2>2, <2>3
  <2>4. CASE i < k /\ ~(j < k)
    <3>1. i = j + 1
      BY <1>4, <2>1, <2>2, <2>4
    <3> QED BY <1>1, <2>4, <3>1
  <2>5. CASE ~(i < k) /\ j < k
    <3>1. i + 1 = j
      BY <1>4, <2>1, <2>2, <2>5
    <3> QED BY <1>1, <2>5, <3>1
  <2>6. CASE ~(i < k) /\ ~(j < k)
    <3>1. i + 1 = j + 1
      BY <1>4, <2>1, <2>2, <2>6
    <3> QED BY <1>1, <3>1
  <2> QED BY <2>3, <2>4, <2>5, <2>6
<1>6. Range(d) = Range(c) \ {c[k]}
  <2>1. ASSUME NEW i \in 1 .. Len(c) - 1
        PROVE  \E j \in 1 .. Len(c) : j # k /\ d[i] = c[j]
    BY <1>1, <1>3
  <2>2. ASSUME NEW j \in 1 .. Len(c), j # k
        PROVE  \E i \in 1 .. Len(c) - 1 : d[i] = c[j]
    <3>1. CASE j < k
      BY <1>1, <1>3, <3>1
    <3>2. CASE j > k
      <4>1. j - 1 \in 1 .. Len(c) - 1 /\ ~(j - 1 < k) /\ (j - 1) + 1 = j
        BY <1>1, <3>2
      <4> QED BY <1>3, <4>1
    <3> QED BY <1>1, <2>2, <3>1, <3>2
  <2>3. \A j \in 1 .. Len(c) : j # k => c[j] # c[k]
    BY <1>4
  <2>4. Range(c) = {c[j] : j \in 1 .. Len(c)}
    BY <1>1, Zenon DEF Range
  <2>5. Range(d) = {d[i] : i \in 1 .. Len(c) - 1}
    BY <1>2, Zenon DEF Range
  <2>6. Range(d) \subseteq Range(c) \ {c[k]}
    BY <2>1, <2>3, <2>4, <2>5
  <2>7. Range(c) \ {c[k]} \subseteq Range(d)
    BY <2>2, <2>4, <2>5
  <2> QED BY <2>6, <2>7
<1> QED BY <1>2, <1>5, <1>6 DEF d

\* What a sequence is without its k-th element.
LEMMA SeqCut ==
  ASSUME NEW S, NEW e \in Seq(S), NEW k \in 1 .. Len(e)
  PROVE  SubSeq(e, 1, k - 1) \o SubSeq(e, k + 1, Len(e)) =
           [i \in 1 .. Len(e) - 1 |-> IF i < k THEN e[i] ELSE e[i + 1]]
<1> DEFINE l == Len(e)
           a == SubSeq(e, 1, k - 1)
           b == SubSeq(e, k + 1, l)
           f == a \o b
<1>1. l \in Nat /\ k \in 1 .. l /\ \A i \in 1 .. l : e[i] \in S
  OBVIOUS
<1> HIDE DEF l
<1>2. a \in Seq(S) /\ Len(a) = k - 1 /\ \A i \in 1 .. k - 1 : a[i] = e[i]
  <2>1. \A i \in 1 .. k - 1 : e[i] \in S
    BY <1>1
  <2>2. /\ a \in Seq(S) /\ Len(a) = IF 1 <= k - 1 THEN (k - 1) - 1 + 1 ELSE 0
        /\ \A i \in 1 .. (k - 1) - 1 + 1 : a[i] = e[1 + i - 1]
    BY <1>1, <2>1, SubSeqProperties
  <2> QED BY <1>1, <2>2
<1>3. b \in Seq(S) /\ Len(b) = l - k /\ \A i \in 1 .. l - k : b[i] = e[k + i]
  <2>1. \A i \in k + 1 .. l : e[i] \in S
    BY <1>1
  <2>2. /\ b \in Seq(S) /\ Len(b) = IF k + 1 <= l THEN l - (k + 1) + 1 ELSE 0
        /\ \A i \in 1 .. l - (k + 1) + 1 : b[i] = e[(k + 1) + i - 1]
    BY <1>1, <2>1, SubSeqProperties
  <2>3. l - (k + 1) + 1 = l - k /\ (k + 1 <= l \/ l - k = 0)
    BY <1>1
  <2>4. \A i \in 1 .. l - k : (k + 1) + i - 1 = k + i
    BY <1>1
  <2> HIDE DEF b
  <2>5. \A i \in 1 .. l - k : b[i] = e[k + i]
    BY <2>2, <2>3, <2>4
  <2> QED BY <2>2, <2>3, <2>5
<1> HIDE DEF a, b
<1>4. /\ f \in Seq(S) /\ Len(f) = Len(a) + Len(b)
      /\ \A i \in 1 .. Len(a) + Len(b) : f[i] = IF i <= Len(a) THEN a[i] ELSE b[i - Len(a)]
  BY <1>2, <1>3, ConcatProperties
<1> HIDE DEF f
<1>5. f = [i \in 1 .. l - 1 |-> f[i]]
  <2>1. Len(f) = l - 1
    BY <1>1, <1>2, <1>3, <1>4
  <2> QED BY <1>4, <2>1
<1>6. ASSUME NEW i \in 1 .. l - 1
      PROVE  f[i] = IF i < k THEN e[i] ELSE e[i + 1]
  <2>1. f[i] = IF i <= k - 1 THEN a[i] ELSE b[i - (k - 1)]
    BY <1>1, <1>2, <1>3, <1>4
  <2>2. CASE i < k
    BY <1>1, <1>2, <2>1, <2>2
  <2>3. CASE ~(i < k)
    <3>1. i - (k - 1) \in 1 .. l - k /\ k + (i - (k - 1)) = i + 1 /\ ~(i <= k - 1)
      BY <1>1, <2>3
    <3>2. b[i - (k - 1)] = e[k + (i - (k - 1))]
      BY <1>3, <3>1
    <3> QED BY <2>1, <2>3, <3>1, <3>2
  <2> QED BY <2>2, <2>3
<1> QED BY <1>5, <1>6 DEF f, a, b, l

\* The tail of a chain is the chain without its first node.
LEMMA TailIsWithout ==
  ASSUME NEW N, NEW c \in Seq(N), c # <<>>
  PROVE  Tail(c) = Without(c, 1)
<1>1. Len(c) \in Nat /\ Len(c) >= 1
  OBVIOUS
<1> DEFINE d == Tail(c)
           w == Without(c, 1)
<1>2. d \in Seq(N) /\ Len(d) = Len(c) - 1
  BY <1>1
<1>3. \A i \in 1 .. Len(c) - 1 : d[i] = c[i + 1]
  BY <1>1
<1>4. w = [i \in 1 .. Len(c) - 1 |-> c[i + 1]]
  BY <1>1 DEF Without
<1> HIDE DEF d, w
<1>5. d = [i \in 1 .. Len(d) |-> d[i]]
  BY <1>2
<1> QED BY <1>2, <1>3, <1>4, <1>5 DEF d, w

\* LinkedList_push.
LEMMA AppendBy ==
  ASSUME ConstantsAssumption, NEW nx \in [Node -> Node \cup {NULL}], NEW s,
         NEW c \in Seq(Node), ChainBy(nx, c, s), NEW n \in Node \ Range(c),
         NEW nx2, nx2 = IF c = <<>> THEN [nx EXCEPT ![n] = NULL]
                        ELSE [nx EXCEPT ![n] = NULL, ![c[Len(c)]] = n]
  PROVE  ChainBy(nx2, Append(c, n), IF c = <<>> THEN n ELSE s)
<1> DEFINE d == Append(c, n)
           l == Len(c)
<1>1. l \in Nat /\ DOMAIN c = 1 .. l /\ (c = <<>> <=> l = 0)
  OBVIOUS
<1>2. /\ DOMAIN d = 1 .. l + 1 /\ Len(d) = l + 1 /\ d # <<>> /\ d[l + 1] = n
      /\ \A i \in 1 .. l : d[i] = c[i]
  OBVIOUS
<1>3. \A i \in 1 .. l : c[i] \in Node /\ c[i] # n
  BY <1>1 DEF Range
<1>4. \A i, j \in 1 .. l : c[i] = c[j] => i = j
  BY <1>1 DEF ChainBy, IsInjective
<1>5. \A i \in 1 .. l : nx[c[i]] = IF i = l THEN NULL ELSE c[i + 1]
  BY DEF ChainBy
<1>6. l # 0 => nx2 = [nx EXCEPT ![n] = NULL, ![c[l]] = n]
  BY <1>1
<1>7. l = 0 => nx2 = [nx EXCEPT ![n] = NULL]
  BY <1>1
<1>8. s = IF l = 0 THEN NULL ELSE c[1]
  BY <1>1 DEF ChainBy
<1> HIDE DEF d, l
<1>9. IsInjective(d)
  BY <1>1, <1>2, <1>3, <1>4 DEF IsInjective
<1>10. (IF c = <<>> THEN n ELSE s) = d[1]
  BY <1>1, <1>2, <1>8
<1>11. \A i \in 1 .. l + 1 : nx2[d[i]] = IF i = l + 1 THEN NULL ELSE d[i + 1]
  <2> TAKE i \in 1 .. l + 1
  <2>1. CASE l = 0
    BY <1>1, <1>2, <1>7, <2>1
  <2>2. CASE l # 0 /\ i = l + 1
    BY <1>1, <1>2, <1>3, <1>6, <2>2
  <2>3. CASE l # 0 /\ i = l
    BY <1>1, <1>2, <1>3, <1>6, <2>3
  <2>4. CASE l # 0 /\ i < l
    <3>1. d[i] = c[i] /\ d[i + 1] = c[i + 1] /\ c[i] # c[l] /\ c[i] # n /\ nx[c[i]] = c[i + 1]
      BY <1>1, <1>2, <1>3, <1>4, <1>5, <2>4
    <3> QED BY <1>1, <1>3, <1>6, <2>4, <3>1
  <2> QED BY <1>1, <2>1, <2>2, <2>3, <2>4
<1> QED BY <1>2, <1>9, <1>10, <1>11 DEF ChainBy, d, l

\* LinkedList_remove: the pointer to the node is redirected past it.
LEMMA WithoutBy ==
  ASSUME ConstantsAssumption, NEW nx \in [Node -> Node \cup {NULL}], NEW s,
         NEW c \in Seq(Node), ChainBy(nx, c, s), NEW k \in 1 .. Len(c),
         NEW nx2, nx2 = IF k = 1 THEN nx ELSE [nx EXCEPT ![c[k - 1]] = nx[c[k]]]
  PROVE  ChainBy(nx2, Without(c, k), IF k = 1 THEN nx[c[1]] ELSE s)
<1> DEFINE d == Without(c, k)
           l == Len(c)
<1>1. l \in Nat /\ DOMAIN c = 1 .. l /\ (c = <<>> <=> l = 0) /\ l >= 1
  OBVIOUS
<1>2. d \in Seq(Node) /\ Len(d) = l - 1 /\ IsInjective(d)
  BY NodesWithout DEF ChainBy
<1>3. \A i \in 1 .. l - 1 : d[i] = IF i < k THEN c[i] ELSE c[i + 1]
  BY DEF Without
<1>4. d = <<>> <=> l = 1
  BY <1>1, <1>2
<1>5. \A i \in 1 .. l : c[i] \in Node
  BY <1>1
<1>6. \A i, j \in 1 .. l : c[i] = c[j] => i = j
  BY <1>1 DEF ChainBy, IsInjective
<1>7. \A i \in 1 .. l : nx[c[i]] = IF i = l THEN NULL ELSE c[i + 1]
  BY DEF ChainBy
<1>8. c # <<>>
  BY <1>1
<1>12. s = c[1]
  BY <1>8 DEF ChainBy
<1>9. k \in 1 .. l
  OBVIOUS
<1> HIDE DEF d, l
<1>10. (IF k = 1 THEN nx[c[1]] ELSE s) = IF d = <<>> THEN NULL ELSE d[1]
  BY <1>1, <1>3, <1>4, <1>7, <1>9, <1>12
<1>11. \A i \in 1 .. l - 1 : nx2[d[i]] = IF i = l - 1 THEN NULL ELSE d[i + 1]
  <2> TAKE i \in 1 .. l - 1
  <2>1. CASE i >= k
    <3>1. d[i] = c[i + 1] /\ i + 1 \in 1 .. l /\ (i # l - 1 => d[i + 1] = c[i + 2])
      BY <1>1, <1>3, <1>9, <2>1
    <3>2. nx2[c[i + 1]] = nx[c[i + 1]]
      <4>1. k # 1 => c[k - 1] # c[i + 1]
        BY <1>1, <1>6, <1>9, <2>1
      <4> QED BY <4>1, <1>5, <3>1
    <3>3. nx[c[i + 1]] = IF i + 1 = l THEN NULL ELSE c[i + 2]
      BY <1>1, <1>7, <3>1
    <3> QED BY <1>1, <3>1, <3>2, <3>3
  <2>2. CASE i = k - 1
    <3>1. d[i] = c[i] /\ k # 1 /\ i \in 1 .. l /\ (i # l - 1 => d[i + 1] = c[k + 1])
      BY <1>1, <1>3, <1>9, <2>2
    <3>2. nx2[c[i]] = nx[c[k]]
      BY <1>5, <2>2, <3>1
    <3> QED BY <1>1, <1>7, <1>9, <2>2, <3>1, <3>2
  <2>3. CASE i < k - 1
    <3>1. d[i] = c[i] /\ d[i + 1] = c[i + 1] /\ k # 1 /\ i \in 1 .. l /\ i # l - 1
      BY <1>1, <1>3, <1>9, <2>3
    <3>2. c[k - 1] # c[i]
      BY <1>1, <1>6, <1>9, <2>3, <3>1
    <3>3. nx2[c[i]] = nx[c[i]]
      BY <1>5, <3>1, <3>2
    <3> QED BY <1>1, <1>7, <1>9, <2>3, <3>1, <3>3
  <2> QED BY <1>1, <1>9, <2>1, <2>2, <2>3
<1> QED BY <1>2, <1>10, <1>11 DEF ChainBy, d, l

\* A node that is not on a chain may be freed.
LEMMA FreeBy ==
  ASSUME NEW nx \in [Node -> Node \cup {NULL}], NEW s,
         NEW c \in Seq(Node), ChainBy(nx, c, s), NEW n \in Node \ Range(c)
  PROVE  ChainBy([nx EXCEPT ![n] = NULL], c, s)
<1>1. \A i \in 1 .. Len(c) : c[i] \in Node /\ c[i] # n
  BY NodesOf
<1> QED BY <1>1 DEF ChainBy

-----------------------------------------------------------------------------
(* Pushing.                                                                *)

\* A push puts its node behind the others, and its value in the list's hands.
LEMMA PushWhole ==
  ASSUME ConstantsAssumption, HeapOK, NodesOwned, NEW c, Whole(c), NEW v \in Value,
         owner[v] # "list", NEW n \in Node \ live, PushInto(v, n), UNCHANGED owning
  PROVE  HeapOK' /\ NodesOwned' /\ Whole(Append(c, n))'
<1> DEFINE d == Append(c, n)
<1> USE DEF ConstantsAssumption
<1>1. HeapOK'
  <2>1. IsFiniteSet(live \cup {n})
    BY FS_AddElement DEF HeapOK
  <2>2. owner' \in [Value -> Owners]
    <3>1. [owner EXCEPT ![v] = "list"] \in [Value -> Owners]
      BY DEF HeapOK, Owners
    <3> QED BY <3>1 DEF HeapOK, PushInto
  <2>3. next' \in [Node -> Node \cup {NULL}] /\ value' \in [Node -> Value \cup {NULL}]
    BY DEF HeapOK, PushInto
  <2>4. size' \in Nat /\ first' \in Node \cup {NULL} /\ last' \in Node \cup {NULL}
    BY DEF HeapOK, PushInto
  <2> QED BY <2>1, <2>2, <2>3, <2>4 DEF HeapOK, PushInto
<1>2. c \in Seq(Node) /\ ChainBy(next, c, first) /\ n \notin Range(c)
  BY DEF Whole, IsChain, ChainBy
<1>3. Len(c) \in Nat /\ (c = <<>> <=> size = 0)
  BY <1>2 DEF Whole
<1>4. next' = IF c = <<>> THEN [next EXCEPT ![n] = NULL]
              ELSE [next EXCEPT ![n] = NULL, ![c[Len(c)]] = n]
  BY <1>3 DEF PushInto, Whole
<1>5. first' = IF c = <<>> THEN n ELSE first
  BY <1>3 DEF PushInto
<1>6. ChainBy(next', d, first')
  <2>1. next \in [Node -> Node \cup {NULL}] /\ n \in Node \ Range(c)
    BY <1>2 DEF HeapOK
  <2> QED BY <1>2, <1>4, <1>5, <2>1, AppendBy
<1>7. /\ d \in Seq(Node) /\ d # <<>> /\ Len(d) = Len(c) + 1 /\ d[Len(d)] = n
      /\ Range(d) = Range(c) \cup {n}
  <2>1. \A s \in Seq(Node), m \in Node :
           /\ Append(s, m) \in Seq(Node) /\ Len(Append(s, m)) = Len(s) + 1
           /\ Append(s, m) # <<>> /\ Append(s, m)[Len(s) + 1] = m
           /\ \A i \in 1 .. Len(s) : Append(s, m)[i] = s[i]
    OBVIOUS
  <2>2. Range(c) = {c[i] : i \in 1 .. Len(c)} /\ Range(d) = {d[i] : i \in 1 .. Len(d)}
    BY <1>2, <2>1, NodesOf
  <2>3. Len(c) \in Nat
    BY <1>2
  <2> QED BY <1>2, <2>1, <2>2, <2>3
<1>8. Whole(d)'
  <2>1. IsChain(d, first)'
    BY <1>6 DEF ChainBy, IsChain
  <2> QED BY <1>7, <2>1 DEF Whole, PushInto
<1>9. \A m \in live : value[m] # v \/ ~owning
  BY DEF NodesOwned
<1>10. value'[n] = v /\ live' = live \cup {n} /\ n \notin live
       /\ \A m \in live : value'[m] = value[m]
  BY DEF PushInto, HeapOK
<1>11. owning => /\ owner'[v] = "list"
                 /\ \A w \in Value : w # v => owner'[w] = owner[w]
  BY DEF PushInto, HeapOK
<1>12. NodesOwned'
  <2>1. (\A m \in live : value[m] \in Value)'
    BY <1>10 DEF NodesOwned
  <2>2. ASSUME owning
        PROVE  /\ \A m \in live' : owner'[value'[m]] = "list"
               /\ \A l, m \in live' : value'[l] = value'[m] => l = m
    BY <2>2, <1>9, <1>10, <1>11 DEF NodesOwned
  <2> QED BY <2>1, <2>2 DEF NodesOwned
<1> QED BY <1>1, <1>8, <1>12

-----------------------------------------------------------------------------
(* Every action keeps the invariant.  c is the chain before the step.      *)

\* No removal and no clearing is under way.
Settled == pc \notin {"clear", "rescan", "drop"}

\* Only a removal has a node that is unlinked and not yet freed.
LEMMA NoneGone ==
  Cardinality({}) = 0
BY FS_EmptySet

\* When no loop is at work on it, the list that is held is whole.
LEMMA HeldWhole ==
  ASSUME NEW c, Held(c), Settled
  PROVE  Whole(c) /\ Len(c) \in Nat
BY NoneGone DEF Held, Chained, Whole, Settled, Rest, Gone

\* A whole list is held, whatever the call does with it that no loop of it is at work.
LEMMA WholeHeld ==
  ASSUME NEW c, (HeapOK /\ CallOK /\ NodesOwned /\ Whole(c))', Settled',
         (~list => NoList)', (Promised /\ pc \notin {"seek", "scan"})'
  PROVE  Held(c)'
<1>1. Chained(c)'
  BY NoneGone DEF Chained, Whole, Settled, Rest, Gone
<1>2. Walked(c)'
  BY DEF Walked, Settled, Gone
<1> QED BY <1>1, <1>2 DEF Held

\* The call does nothing, or there is a list that was not there before.
LEMMA StayHeld ==
  ASSUME NEW c, Held(c), UNCHANGED <<heap, owner, call, owning>>, list' \in BOOLEAN,
         ~list' => NoList
  PROVE  Held(c)'
<1>1. (HeapOK /\ CallOK /\ NodesOwned /\ Promised)'
  BY DEF Held, HeapOK, CallOK, NodesOwned, Promised, CanPass, heap, call
<1>2. Chained(c)'
  BY DEF Held, Chained, IsChain, Rest, Gone, heap, call
<1>3. Walked(c)'
  BY DEF Held, Walked, Matches, Gone, heap, call
<1> QED BY <1>1, <1>2, <1>3 DEF Held, NoList, heap, call

\* A call starts: the list is as it was.
LEMMA StartHeld ==
  ASSUME NEW c, Held(c), Settled, UNCHANGED <<heap, owner, list, owning>>, CallOK',
         pc' \notin {"rescan", "drop"}, pc' = "clear" => cur' = first,
         Promised', Walked(c)', list
  PROVE  Held(c)'
<1>1. (HeapOK /\ NodesOwned)'
  BY DEF Held, HeapOK, NodesOwned, heap
<1>2. Chained(c)'
  BY HeldWhole, NoneGone DEF Chained, Whole, IsChain, Rest, Gone, heap
<1> QED BY <1>1, <1>2 DEF Held, heap

\* LinkedList_create makes an empty list.
LEMMA CreateHeld ==
  ASSUME NEW c, Held(c), LinkedList_create, UNCHANGED owning
  PROVE  Held(c)'
BY StayHeld DEF LinkedList_create, Held, NoList

\* LinkedList_push: the chain grows by a node or stays as it is.
LEMMA PushHeld ==
  ASSUME ConstantsAssumption, NEW c, Held(c), NEW v \in Value, LinkedList_push(v),
         UNCHANGED owning
  PROVE  Held(c)' \/ \E n \in Node \ live : PushInto(v, n) /\ Held(Append(c, n))'
<1>1. pc = "idle" /\ list /\ owner[v] = "caller"
  BY DEF LinkedList_push, Idle, CanPass
<1>2. UNCHANGED <<list, call>>
  BY DEF LinkedList_push
<1>3. CASE PushFails
  BY <1>1, <1>2, <1>3, StayHeld DEF PushFails
<1>4. ASSUME NEW n \in Node \ live, PushInto(v, n)
      PROVE  Held(Append(c, n))'
  <2>1. Whole(c)
    BY <1>1, HeldWhole DEF Settled
  <2>2. (HeapOK /\ NodesOwned /\ Whole(Append(c, n)))'
    BY <1>1, <1>4, <2>1, PushWhole DEF Held
  <2>3. (CallOK /\ Promised /\ pc = "idle" /\ list)'
    BY <1>1, <1>2 DEF Held, CallOK, Promised, call
  <2> QED BY <2>2, <2>3, WholeHeld DEF Settled
<1> QED BY <1>3, <1>4 DEF LinkedList_push, PushSucceeds

\* LinkedList_push_all starts, with values its caller may hand over.
LEMMA PushAllHeld ==
  ASSUME NEW c, Held(c), NEW b \in Batches, LinkedList_push_all(b), UNCHANGED owning,
         ConstantsAssumption
  PROVE  Held(c)'
<1>1. pc = "idle" /\ list /\ CanPassAll(b) /\ UNCHANGED <<list, heap, owner>>
  BY DEF LinkedList_push_all, Idle
<1>2. CASE b = <<>>
  BY <1>1, <1>2, StayHeld DEF LinkedList_push_all, Held
<1>3. CASE b # <<>>
  <2>1. pc' = "push_all" /\ todo' = b /\ UNCHANGED <<cur, target, kill>>
    BY <1>3 DEF LinkedList_push_all
  <2>2. b \in Seq(Value)
    BY DEF Batches, ConstantsAssumption
  <2>3. CallOK'
    BY <1>1, <2>1, <2>2 DEF Held, CallOK
  <2>4. Promised' /\ Walked(c)'
    BY <1>1, <1>3, <2>1 DEF Promised, CanPassAll, CanPass, Walked, Gone
  <2> QED BY <1>1, <2>1, <2>3, <2>4, StartHeld DEF Settled
<1> QED BY <1>2, <1>3

\* One push of LinkedList_push_all; what is left is still the caller's.
LEMMA PushAllNextHeld ==
  ASSUME ConstantsAssumption, NEW c, Held(c), PushAllNext, UNCHANGED owning
  PROVE  \/ BulkRefused /\ PushFails /\ Held(c)'
         \/ \E n \in Node \ live : PushInto(Head(todo), n) /\ Held(Append(c, n))'
<1> DEFINE v == Head(todo)
<1>1. /\ pc = "push_all" /\ todo \in Seq(Value) /\ todo # <<>>
      /\ \A i \in DOMAIN todo : owner[todo[i]] = "caller"
      /\ owning => IsInjective(todo)
  BY DEF PushAllNext, Held, CallOK, Promised, CanPass
<1>2. v \in Value /\ v = todo[1] /\ DOMAIN todo = 1 .. Len(todo) /\ Len(todo) >= 1
  BY <1>1
<1>3. UNCHANGED list
  BY DEF PushAllNext
<1>4. CallOK' /\ pc' \in {"idle", "push_all"}
  <2>1. Tail(todo) \in Seq(Value) /\ <<>> \in Seq(Value)
    BY <1>1
  <2> QED BY <1>1, <2>1 DEF PushAllNext, Return, Held, CallOK
<1>5. ASSUME PushFails \/ \E n \in Node \ live : PushInto(v, n)
      PROVE  Promised'
  <2>1. ASSUME pc' = "push_all" PROVE Len(todo) > 1 /\ todo' = Tail(todo)
    BY <1>1, <2>1 DEF PushAllNext, Return
  <2>2. \A w \in Value : owner[w] = "caller" /\ (owning => w # v) => owner'[w] = "caller"
    BY <1>2, <1>5 DEF PushFails, PushInto, Held, HeapOK
  <2>3. ASSUME pc' = "push_all", NEW i \in DOMAIN todo'
        PROVE  todo'[i] = todo[i + 1] /\ i + 1 \in DOMAIN todo /\ i + 1 # 1 /\ i \in Nat
    BY <1>1, <2>1, <2>3
  <2>4. ASSUME pc' = "push_all", NEW i \in DOMAIN todo'
        PROVE  owner'[todo'[i]] = "caller"
    <3>1. todo[i + 1] \in Value /\ owner[todo[i + 1]] = "caller"
      BY <1>1, <2>3, <2>4
    <3>2. owning => todo[i + 1] # v
      BY <1>1, <1>2, <2>3, <2>4 DEF IsInjective
    <3> QED BY <2>2, <2>3, <2>4, <3>1, <3>2
  <2>5. ASSUME pc' = "push_all", owning
        PROVE  IsInjective(todo')
    <3> SUFFICES ASSUME NEW i \in DOMAIN todo', NEW j \in DOMAIN todo', todo'[i] = todo'[j]
                 PROVE  i = j
      BY DEF IsInjective
    <3>1. todo[i + 1] = todo[j + 1] /\ i + 1 \in DOMAIN todo /\ j + 1 \in DOMAIN todo
      BY <2>3, <2>5
    <3>2. i + 1 = j + 1
      BY <1>1, <2>5, <3>1 DEF IsInjective
    <3> QED BY <2>3, <2>5, <3>2
  <2>6. pc' = "push_all" => todo' # <<>>
    BY <1>1, <2>1
  <2> QED BY <2>4, <2>5, <2>6 DEF Promised, CanPass
<1>6. Whole(c)
  BY <1>1, HeldWhole DEF Settled
<1>7. Settled' /\ (pc \notin {"seek", "scan"})'
  BY <1>4 DEF Settled
<1>8. list
  BY <1>1 DEF Held, NoList
<1>9. ASSUME PushFails PROVE Held(c)'
  <2>1. (HeapOK /\ NodesOwned /\ Whole(c))'
    BY <1>6, <1>9 DEF PushFails, Held, HeapOK, NodesOwned, Whole,
       IsChain, heap
  <2> QED BY <1>3, <1>4, <1>5, <1>7, <1>8, <1>9, <2>1, WholeHeld
<1>10. ASSUME NEW n \in Node \ live, PushInto(v, n)
       PROVE  Held(Append(c, n))'
  <2>1. (HeapOK /\ NodesOwned /\ Whole(Append(c, n)))'
    BY <1>1, <1>2, <1>6, <1>10, PushWhole DEF Held
  <2> QED BY <1>3, <1>4, <1>5, <1>7, <1>8, <1>10, <2>1, WholeHeld
<1> QED BY <1>9, <1>10 DEF PushAllNext, PushSucceeds

\* A search starts before the first node.
LEMMA FindHeld ==
  ASSUME ConstantsAssumption, NEW c, Held(c), NEW v \in Value, LinkedList_find_node(v),
         UNCHANGED owning
  PROVE  Held(c)'
<1>1. /\ pc = "idle" /\ list /\ pc' = "seek" /\ cur' = first /\ todo' = <<v>>
      /\ UNCHANGED <<list, heap, owner, target, kill>>
  BY DEF LinkedList_find_node, Idle
<1>2. CallOK' /\ Promised'
  BY <1>1 DEF Held, HeapOK, CallOK, Promised
<1>3. Whole(c) /\ Len(c) \in Nat
  BY <1>1, HeldWhole DEF Settled
<1>4. cur' = IF 1 = Len(c) + 1 THEN NULL ELSE c[1]
  BY <1>1, <1>3 DEF Whole, IsChain
<1>5. Walked(c)'
  <2>1. 1 \in 1 .. Len(c) + 1 /\ 1 .. 1 - 1 = {}
    BY <1>3
  <2>2. Gone' = {}
    BY <1>1 DEF Gone
  <2> QED BY <1>1, <1>4, <2>1, <2>2 DEF Walked
<1> QED BY <1>1, <1>2, <1>5, StartHeld DEF Settled

\* The search goes to the next node of the chain, or is over.
LEMMA SeekNextHeld ==
  ASSUME ConstantsAssumption, NEW c, Held(c), SeekNext, UNCHANGED owning
  PROVE  Held(c)'
<1>1. /\ pc = "seek" /\ list /\ UNCHANGED <<list, heap, owner>>
  BY DEF SeekNext, Held, NoList
<1>2. Whole(c) /\ Len(c) \in Nat
  BY <1>1, HeldWhole DEF Settled
<1>3. CASE pc' = "idle"
  <2>1. CallOK'
    <3>1. cur' = NULL /\ target' = NULL /\ todo' = <<>> /\ kill' = FALSE
      BY <1>1, <1>3 DEF SeekNext, Return
    <3>2. list' \in BOOLEAN /\ kill' \in BOOLEAN
      BY <1>1, <3>1, Zenon DEF Held, CallOK
    <3>3. todo' \in Seq(Value)
      BY <3>1
    <3> QED BY <3>1, <3>2, <3>3 DEF CallOK
  <2>2. Promised' /\ Walked(c)'
    BY <1>3 DEF Promised, Walked, Gone
  <2> QED BY <1>1, <1>3, <2>1, <2>2, StartHeld DEF Settled
<1>4. CASE pc' # "idle"
  <2>1. cur # NULL /\ ~Matches(cur) /\ cur' = next[cur] /\ UNCHANGED <<pc, target, todo, kill>>
    BY <1>4 DEF SeekNext, Return
  <2>2. PICK k \in 1 .. Len(c) + 1 : /\ cur = IF k = Len(c) + 1 THEN NULL ELSE c[k]
                                     /\ \A i \in 1 .. k - 1 : ~Matches(c[i])
    BY <1>1 DEF Held, Walked
  <2>3. k \in 1 .. Len(c) /\ cur = c[k]
    BY <1>2, <2>1, <2>2
  <2>4. cur' = IF k + 1 = Len(c) + 1 THEN NULL ELSE c[k + 1]
    BY <1>2, <2>1, <2>3 DEF Whole, IsChain
  <2>5. \A i \in 1 .. (k + 1) - 1 : ~Matches(c[i])
    BY <1>2, <2>1, <2>2, <2>3
  <2>6. \A i \in 1 .. (k + 1) - 1 : ~Matches(c[i])'
    BY <1>1, <2>1, <2>5 DEF Matches, heap
  <2>7. Walked(c)'
    <3>1. k + 1 \in 1 .. Len(c) + 1
      BY <1>2, <2>3
    <3>2. pc' = "seek" /\ Gone' = {}
      BY <1>1, <2>1 DEF Gone
    <3> QED BY <2>4, <2>6, <3>1, <3>2 DEF Walked
  <2>8. CallOK' /\ Promised'
    <3>1. cur' \in Node \cup {NULL}
      BY <1>2, <2>3, <2>4 DEF Whole
    <3> QED BY <1>1, <2>1, <3>1 DEF Held, CallOK, Promised
  <2> QED BY <1>1, <2>1, <2>7, <2>8, StartHeld DEF Settled
<1> QED BY <1>3, <1>4

\* A removal starts at the address of list->first.
LEMMA RemoveHeld ==
  ASSUME NEW c, Held(c), NEW n \in live, LinkedList_remove(n), UNCHANGED owning
  PROVE  Held(c)'
<1>1. /\ pc = "idle" /\ list /\ pc' = "scan" /\ cur' = HEAD /\ target' = n
      /\ UNCHANGED <<list, heap, owner, todo, kill>>
  BY DEF LinkedList_remove, Idle
<1>2. CallOK' /\ Promised'
  BY <1>1 DEF Held, HeapOK, CallOK, Promised
<1>3. Walked(c)'
  <2>1. n \in Range(c)
    BY <1>1, HeldWhole DEF Whole, Settled
  <2> QED BY <1>1, <2>1 DEF Walked, Gone
<1> QED BY <1>1, <1>2, <1>3, StartHeld DEF Settled

\* The last node is one of the list.
LEMMA PopHeld ==
  ASSUME NEW c, Held(c), LinkedList_pop, UNCHANGED owning
  PROVE  Held(c)'
<1>1. CASE last # NULL /\ LinkedList_remove(last)
  <2>1. Whole(c)
    BY <1>1, HeldWhole DEF LinkedList_remove, Idle, Settled
  <2>2. c \in Seq(Node) /\ c # <<>> /\ last = c[Len(c)]
    BY <1>1, <2>1 DEF Whole
  <2>3. last \in live
    BY <2>1, <2>2, NodesOf DEF Whole
  <2> QED BY <1>1, <2>3, RemoveHeld
<1>2. CASE Idle /\ UNCHANGED <<list, heap, owner, call>>
  BY <1>2, StayHeld DEF Idle, Held, CallOK
<1> QED BY <1>1, <1>2 DEF LinkedList_pop

\* The scan is at the pointer to a node, and its target is that node or a later one.
LEMMA ScanAt ==
  ASSUME ConstantsAssumption, NEW c, Held(c), pc = "scan"
  PROVE  \E k \in 1 .. Len(c) : /\ Deref(cur) = c[k]
                                /\ IF k = 1 THEN cur = HEAD ELSE cur = c[k - 1]
                                /\ \E j \in k .. Len(c) : target = c[j]
<1>1. Whole(c) /\ Len(c) \in Nat
  BY HeldWhole DEF Settled
<1>2. c \in Seq(Node) /\ DOMAIN c = 1 .. Len(c)
  BY <1>1 DEF Whole
<1>3. PICK t \in 1 .. Len(c) : target = c[t]
  BY <1>2, NodesOf DEF Held, Walked, Range
<1>4. CASE cur = HEAD
  <2>1. c # <<>> /\ first = c[1] /\ 1 \in 1 .. Len(c) /\ t \in 1 .. Len(c)
    BY <1>1, <1>2, <1>3 DEF Whole, IsChain
  <2> QED BY <1>3, <1>4, <2>1 DEF Deref
<1>5. CASE cur # HEAD
  <2>1. PICK i, j \in 1 .. Len(c) : i < j /\ cur = c[i] /\ target = c[j]
    BY <1>5 DEF Held, Walked
  <2>2. next[c[i]] = c[i + 1] /\ i + 1 \in 1 .. Len(c) /\ i + 1 # 1 /\ (i + 1) - 1 = i
        /\ j \in i + 1 .. Len(c)
    BY <1>1, <1>2, <2>1 DEF Whole, IsChain
  <2> QED BY <1>5, <2>1, <2>2 DEF Deref
<1> QED BY <1>4, <1>5

\* The scan goes to the next pointer; it does not pass its target.
LEMMA ScanNextHeld ==
  ASSUME ConstantsAssumption, NEW c, Held(c), ScanNext, UNCHANGED owning
  PROVE  Held(c)'
<1>1. /\ pc = "scan" /\ list /\ Deref(cur) # target /\ cur' = Deref(cur)
      /\ UNCHANGED <<list, heap, owner, pc, target, todo, kill>>
  BY DEF ScanNext, Held, NoList
<1>2. PICK k \in 1 .. Len(c) : /\ Deref(cur) = c[k]
                               /\ \E j \in k .. Len(c) : target = c[j]
  BY <1>1, ScanAt
<1>3. PICK j \in k .. Len(c) : target = c[j]
  BY <1>2
<1>4. c \in Seq(Node) /\ Len(c) \in Nat
  BY DEF Held, Chained
<1>5. k < j /\ j \in 1 .. Len(c) /\ c[k] \in Node
  BY <1>1, <1>2, <1>3, <1>4
<1>6. CallOK' /\ Promised'
  BY <1>1, <1>2, <1>5 DEF Held, CallOK, Promised
<1>7. Walked(c)'
  <2>1. target \in Range(c)
    BY <1>1 DEF Held, Walked
  <2>2. cur' = c[k] /\ target' = c[j]
    BY <1>1, <1>2, <1>3
  <2> QED BY <1>1, <1>5, <2>1, <2>2 DEF Walked, Gone
<1> QED BY <1>1, <1>6, <1>7, StartHeld DEF Settled

\* The node leaves the chain; it is not freed yet.
LEMMA UnlinkHeld ==
  ASSUME ConstantsAssumption, NEW c, Held(c), Unlink, UNCHANGED owning
  PROVE  \E k \in 1 .. Len(c) : target = c[k] /\ Held(Without(c, k))'
<1> USE DEF ConstantsAssumption
<1>1. /\ pc = "scan" /\ list /\ Deref(cur) \in {NULL, target}
      /\ UNCHANGED <<list, size, value, live, owner, target, todo, kill>>
  BY DEF Unlink, Held, NoList
<1>2. PICK k \in 1 .. Len(c) : /\ Deref(cur) = c[k]
                               /\ IF k = 1 THEN cur = HEAD ELSE cur = c[k - 1]
  BY <1>1, ScanAt
<1>3. Whole(c) /\ Len(c) \in Nat /\ c \in Seq(Node) /\ DOMAIN c = 1 .. Len(c)
  BY <1>1, HeldWhole DEF Settled, Whole
<1>4. target = c[k] /\ target \in live
  <2>1. c[k] \in Node /\ c[k] \in live
    BY <1>3, NodesOf DEF Whole
  <2> QED BY <1>1, <1>2, <2>1
<1>5. ChainBy(next, c, first)
  BY <1>3 DEF ChainBy, IsChain, Whole
<1>6. cur = HEAD <=> k = 1
  <2>1. k # 1 => c[k - 1] \in Node
    BY <1>3
  <2> QED BY <1>2, <2>1
<1>7. /\ next' = IF k = 1 THEN next ELSE [next EXCEPT ![c[k - 1]] = next[c[k]]]
      /\ first' = IF k = 1 THEN next[c[1]] ELSE first
  BY <1>2, <1>4, <1>6 DEF Unlink
<1> DEFINE d == Without(c, k)
<1>8. ChainBy(next', d, first')
  BY <1>5, <1>7, <1>3, WithoutBy DEF Held, HeapOK
<1>9. /\ d \in Seq(Node) /\ Len(d) = Len(c) - 1 /\ Range(d) = live \ {target}
      /\ DOMAIN d = 1 .. Len(c) - 1
  <2>1. IsInjective(c) /\ Range(c) = live
    BY <1>3 DEF Whole, IsChain
  <2>2. d \in Seq(Node) /\ Len(d) = Len(c) - 1 /\ Range(d) = Range(c) \ {c[k]}
    BY <1>3, <2>1, NodesWithout
  <2> HIDE DEF d
  <2> QED BY <1>4, <2>1, <2>2
<1>10. /\ Len(c) = 1 => d = <<>>
       /\ Len(c) # 1 => d # <<>> /\ first' = d[1] /\ d[1] \in Range(d)
  <2>1. Len(c) = 1 => d = <<>>
    BY <1>9
  <2>2. ASSUME Len(c) # 1 PROVE d # <<>> /\ first' = d[1] /\ d[1] \in Range(d)
    <3>1. d # <<>>
      BY <1>3, <1>9, <2>2
    <3>2. first' = d[1]
      BY <1>8, <3>1 DEF ChainBy
    <3>3. 1 \in DOMAIN d
      BY <1>3, <1>9, <2>2
    <3> QED BY <3>1, <3>2, <3>3 DEF Range
  <2> QED BY <2>1, <2>2
<1>11. size = Len(c) /\ last = c[Len(c)] /\ c # <<>>
  BY <1>3 DEF Whole
<1>12. target = last <=> k = Len(c)
  BY <1>3, <1>4, <1>11 DEF Whole, IsChain, IsInjective
<1>13. k # Len(c) => d # <<>> /\ last = d[Len(d)]
  <2> SUFFICES ASSUME k # Len(c) PROVE d # <<>> /\ last = d[Len(d)]
    OBVIOUS
  <2>1. Len(c) - 1 \in 1 .. Len(c) - 1 /\ ~(Len(c) - 1 < k) /\ (Len(c) - 1) + 1 = Len(c)
    <3> DEFINE l == Len(c)
    <3>1. l \in Nat /\ k \in 1 .. l /\ k # l
      BY <1>3
    <3> HIDE DEF l
    <3>2. l - 1 \in 1 .. l - 1 /\ ~(l - 1 < k) /\ (l - 1) + 1 = l
      BY <3>1
    <3> QED BY <3>2 DEF l
  <2>2. d[Len(c) - 1] = c[Len(c)]
    BY <2>1 DEF Without
  <2> HIDE DEF d
  <2>3. d # <<>>
    BY <1>9, <2>1
  <2> QED BY <1>9, <1>11, <2>2, <2>3
<1> HIDE DEF d
<1>14. \/ pc' = "drop" /\ k # Len(c) /\ last' = last
       \/ pc' = "drop" /\ Len(c) = 1 /\ last' = NULL
       \/ pc' = "rescan" /\ Len(c) # 1 /\ cur' = first' /\ last' = last
  BY <1>11, <1>12 DEF Unlink
<1>15. pc' \in {"drop", "rescan"} /\ cur' \in Node \cup {NULL} /\ last' \in Node \cup {NULL}
       /\ first' \in Node \cup {NULL} /\ next' \in [Node -> Node \cup {NULL}]
  <2>1. next' \in [Node -> Node \cup {NULL}] /\ first' \in Node \cup {NULL}
    BY <1>3, <1>7 DEF Held, HeapOK
  <2>2. pc' = "drop" => cur' = NULL
    BY DEF Unlink
  <2> QED BY <1>14, <2>1, <2>2 DEF Held, HeapOK
<1>16. HeapOK' /\ CallOK' /\ NodesOwned' /\ Promised' /\ (~list => NoList)'
  BY <1>1, <1>15 DEF Held, HeapOK, CallOK, NodesOwned, Promised
<1>17. Chained(d)'
  <2>1. IsChain(d, first)'
    BY <1>8, <1>9 DEF ChainBy, IsChain
  <2>2. Cardinality({target}) = 1
    BY FS_Singleton
  <2>3. Rest' = first' /\ Gone' = {target}
    BY <1>1, <1>15 DEF Rest, Gone
  <2>4. size' = Len(d) + 1
    BY <1>1, <1>3, <1>9, <1>11
  <2>5. pc' # "rescan" => last' = IF d = <<>> THEN NULL ELSE d[Len(d)]
    BY <1>10, <1>13, <1>14
  <2> QED BY <1>1, <1>9, <1>15, <2>1, <2>2, <2>3, <2>4, <2>5 DEF Chained
<1>18. Walked(d)'
  <2>1. Gone' = {target} /\ target \in live'
    BY <1>1, <1>4, <1>15 DEF Gone
  <2>2. pc' = "rescan" => cur' \in Range(d)
    BY <1>10, <1>14
  <2> QED BY <1>15, <2>1, <2>2 DEF Walked
<1>19. Held(d)'
  BY <1>16, <1>17, <1>18 DEF Held
<1> QED BY <1>4, <1>19 DEF d

\* The search for the last node goes to the next one, or has found it.
LEMMA RescanNextHeld ==
  ASSUME ConstantsAssumption, NEW c, Held(c), RescanNext, UNCHANGED owning
  PROVE  Held(c)'
<1> USE DEF ConstantsAssumption
<1>1. /\ pc = "rescan" /\ list
      /\ UNCHANGED <<list, first, size, next, value, live, owner, target, todo, kill>>
  BY DEF RescanNext, Held, NoList
<1>2. Gone = {target} /\ Rest = first /\ c \in Seq(Node) /\ Len(c) \in Nat /\ IsChain(c, first)
  BY <1>1 DEF Held, Chained, Gone, Rest
<1>3. PICK i \in 1 .. Len(c) : cur = c[i]
  BY <1>1, <1>2, NodesOf DEF Held, Walked
<1>4. next[cur] = IF i = Len(c) THEN NULL ELSE c[i + 1]
  BY <1>2, <1>3 DEF IsChain
<1>5. \/ pc' = "rescan" /\ i # Len(c) /\ cur' = c[i + 1] /\ last' = last
      \/ pc' = "drop" /\ i = Len(c) /\ cur' = NULL /\ last' = c[Len(c)]
  <2>1. i # Len(c) => c[i + 1] \in Node
    BY <1>2, <1>3
  <2> QED BY <1>1, <1>3, <1>4, <2>1 DEF RescanNext
<1>6. cur' \in Node \cup {NULL} /\ last' \in Node \cup {NULL}
  BY <1>2, <1>3, <1>5 DEF Held, HeapOK
<1>7. HeapOK' /\ CallOK' /\ NodesOwned' /\ Promised' /\ (~list => NoList)'
  BY <1>1, <1>5, <1>6 DEF Held, HeapOK, CallOK, NodesOwned, Promised
<1>8. Rest' = Rest /\ Gone' = Gone /\ pc' # "clear"
  BY <1>1, <1>5 DEF Rest, Gone
<1>9. Chained(c)'
  <2>1. c # <<>>
    BY <1>3
  <2> QED BY <1>1, <1>5, <1>8, <2>1 DEF Held, Chained, IsChain
<1>10. Walked(c)'
  <2>1. pc' = "rescan" => cur' \in Range(c)
    <3>1. pc' = "rescan" => i + 1 \in 1 .. Len(c)
      BY <1>2, <1>3, <1>5
    <3> QED BY <1>2, <1>5, <3>1, NodesOf
  <2> QED BY <1>1, <1>5, <1>8, <2>1 DEF Held, Walked
<1> QED BY <1>7, <1>9, <1>10 DEF Held

\* The destructor frees the value of a node for the first time.
LEMMA DestroyFrees ==
  ASSUME HeapOK, NodesOwned, NEW n \in live
  PROVE  Destroy(value[n]) = IF owning THEN [owner EXCEPT ![value[n]] = "freed"] ELSE owner
<1>1. value[n] \in Value /\ (owning => owner[value[n]] = "list")
  BY DEF NodesOwned
<1> QED BY <1>1 DEF Destroy, Freed

\* Freeing a node whose value is freed with it, or is the caller's again, leaves every
\* other value where it is.
LEMMA FreeKeeps ==
  ASSUME HeapOK, NodesOwned, NEW n \in live, FreeNode(n), UNCHANGED owning,
         \/ owner' = Destroy(value[n])
         \/ owner' = [owner EXCEPT ![value[n]] = "caller"]
  PROVE  /\ NodesOwned' /\ owner' \in [Value -> Owners]
         /\ next' \in [Node -> Node \cup {NULL}] /\ value' \in [Node -> Value \cup {NULL}]
         /\ live' \subseteq Node /\ IsFiniteSet(live')
<1>1. value[n] \in Value /\ \A m \in live : value[m] \in Value
  BY DEF NodesOwned
<1>2. \/ owner' = owner /\ ~owning
      \/ owner' = [owner EXCEPT ![value[n]] = "freed"]
      \/ owner' = [owner EXCEPT ![value[n]] = "caller"]
  BY DestroyFrees
<1>3. owner' \in [Value -> Owners]
  BY <1>1, <1>2 DEF HeapOK, Owners
<1>4. /\ next' \in [Node -> Node \cup {NULL}] /\ value' \in [Node -> Value \cup {NULL}]
      /\ live' \subseteq Node /\ live' = live \ {n}
  BY DEF HeapOK, FreeNode
<1>5. IsFiniteSet(live')
  BY <1>4, FS_RemoveElement DEF HeapOK
<1>6. \A m \in live' : m \in live /\ m # n /\ value'[m] = value[m]
  BY <1>4 DEF HeapOK, FreeNode
<1>7. \A w \in Value : w # value[n] => owner'[w] = owner[w]
  BY <1>1, <1>2 DEF HeapOK
<1>8. NodesOwned'
  BY <1>1, <1>6, <1>7 DEF NodesOwned
<1> QED BY <1>3, <1>4, <1>5, <1>8

\* The removal is over: the node that was unlinked is freed with its value.
LEMMA DropHeld ==
  ASSUME NEW c, Held(c), Drop, UNCHANGED owning
  PROVE  Held(c)'
<1>1. /\ pc = "drop" /\ list /\ size' = size - 1 /\ FreeNode(target) /\ UNCHANGED <<list, first, last>>
      /\ pc' = "idle" /\ cur' = NULL /\ target' = NULL /\ todo' = <<>> /\ kill' = FALSE
  BY DEF Drop, Return, Held, NoList
<1>2. /\ Gone = {target} /\ target \in live /\ c \in Seq(Node) /\ Range(c) = live \ {target}
      /\ IsChain(c, first) /\ size = Len(c) + 1 /\ Len(c) \in Nat
      /\ last = IF c = <<>> THEN NULL ELSE c[Len(c)]
  <2>1. Cardinality({target}) = 1
    BY FS_Singleton
  <2> QED BY <1>1, <2>1 DEF Held, Chained, Walked, Gone, Rest
<1>3. HeapOK' /\ NodesOwned'
  <2>1. owner' = Destroy(value[target])
    BY DEF Drop
  <2>2. size' \in Nat
    BY <1>1, <1>2
  <2> QED BY <1>1, <1>2, <2>1, <2>2, FreeKeeps DEF Held, HeapOK
<1>4. ChainBy(next', c, first')
  <2>1. next' = [next EXCEPT ![target] = NULL]
    BY <1>1 DEF FreeNode
  <2>2. target \in Node \ Range(c) /\ ChainBy(next, c, first)
    BY <1>2 DEF Held, HeapOK, ChainBy, IsChain
  <2> QED BY <1>1, <1>2, <2>1, <2>2, FreeBy DEF Held, HeapOK
<1>5. Whole(c)'
  <2>1. IsChain(c, first)'
    BY <1>2, <1>4 DEF ChainBy, IsChain
  <2> QED BY <1>1, <1>2, <2>1 DEF Whole, FreeNode
<1>6. CallOK'
  <2>1. list' \in BOOLEAN /\ kill' \in BOOLEAN
    BY <1>1, Zenon DEF Held, CallOK
  <2>2. todo' \in Seq(Value)
    BY <1>1
  <2> QED BY <1>1, <2>1, <2>2 DEF CallOK
<1>7. Settled' /\ (~list => NoList)' /\ (Promised /\ pc \notin {"seek", "scan"})'
  BY <1>1 DEF Settled, Promised
<1> QED BY <1>3, <1>5, <1>6, <1>7, WholeHeld

\* LinkedList_clear, and LinkedList_destroy, which clears the list first.
LEMMA StartClearHeld ==
  ASSUME NEW c, Held(c), NEW kills \in BOOLEAN, UNCHANGED owning,
         LinkedList_clear(kills) \/ LinkedList_destroy(kills)
  PROVE  Held(c)'
<1>1. /\ pc = "idle" /\ list /\ pc' = "clear" /\ cur' = first /\ kill' = kills
      /\ UNCHANGED <<list, heap, owner, target, todo>>
  BY DEF LinkedList_clear, LinkedList_destroy, StartClear, Idle
<1>2. CallOK' /\ Promised' /\ Walked(c)'
  <2>1. CallOK'
    BY <1>1 DEF Held, HeapOK, CallOK
  <2> QED BY <1>1, <2>1 DEF Promised, Walked, Gone
<1> QED BY <1>1, <1>2, StartHeld DEF Settled

\* The first node that is left is freed: the others still form a chain.
LEMMA ClearNextHeld ==
  ASSUME NEW c, Held(c), ClearNext, UNCHANGED owning
  PROVE  c # <<>> /\ cur = c[1] /\ Held(Tail(c))'
<1> DEFINE d == Tail(c)
<1>1. /\ pc = "clear" /\ list /\ cur # NULL /\ FreeNode(cur) /\ cur' = next[cur]
      /\ UNCHANGED <<list, first, last, size, pc, target, todo, kill>>
  BY DEF ClearNext, Held, NoList
<1>2. c \in Seq(Node) /\ Len(c) \in Nat /\ ChainBy(next, c, cur) /\ Range(c) = live
  BY <1>1 DEF Held, Chained, Rest, Gone, ChainBy, IsChain
<1>3. c # <<>> /\ cur = c[1] /\ 1 \in 1 .. Len(c)
  BY <1>1, <1>2 DEF ChainBy
<1>4. cur \in live /\ cur \in Node
  BY <1>2, <1>3, NodesOf
<1>5. d = Without(c, 1)
  BY <1>2, <1>3, TailIsWithout
<1> HIDE DEF d
<1>6. d \in Seq(Node) /\ Range(d) = live \ {cur} /\ DOMAIN d = 1 .. Len(d)
  <2>1. IsInjective(c)
    BY <1>2 DEF ChainBy
  <2>2. d \in Seq(Node) /\ Range(d) = Range(c) \ {c[1]}
    BY <1>2, <1>3, <1>5, <2>1, NodesWithout
  <2> QED BY <1>2, <1>3, <2>2
<1>7. ChainBy(next', d, cur')
  <2>1. ChainBy(next, d, cur')
    BY <1>1, <1>2, <1>3, <1>5, WithoutBy, ConstantsAssumption DEF Held, HeapOK
  <2>2. next' = [next EXCEPT ![cur] = NULL] /\ cur \in Node \ Range(d)
    BY <1>1, <1>4, <1>6 DEF FreeNode
  <2> QED BY <1>6, <2>1, <2>2, FreeBy DEF Held, HeapOK
<1>8. HeapOK' /\ NodesOwned'
  <2>1. owner' = Destroy(value[cur]) \/ owner' = [owner EXCEPT ![value[cur]] = "caller"]
    BY DEF ClearNext, Disposed
  <2> QED BY <1>1, <1>4, <2>1, FreeKeeps DEF Held, HeapOK
<1>9. CallOK' /\ Promised' /\ (~list => NoList)'
  <2>1. cur' \in Node \cup {NULL}
    BY <1>1, <1>4 DEF Held, HeapOK
  <2> QED BY <1>1, <2>1 DEF Held, CallOK, Promised
<1>10. Chained(d)'
  <2>1. IsChain(d, cur)'
    BY <1>6, <1>7 DEF ChainBy, IsChain
  <2>2. Rest' = cur' /\ Gone' = {}
    BY <1>1 DEF Rest, Gone
  <2>3. Range(d) = live'
    BY <1>1, <1>6 DEF FreeNode
  <2> QED BY <1>1, <1>6, <2>1, <2>2, <2>3 DEF Chained
<1>11. Walked(d)'
  BY <1>1 DEF Walked, Gone
<1>12. Held(d)'
  BY <1>8, <1>9, <1>10, <1>11 DEF Held
<1> QED BY <1>3, <1>12 DEF d

\* Nothing is left: the list is empty, or there is none any more.
LEMMA ClearDoneHeld ==
  ASSUME ConstantsAssumption, NEW c, Held(c), ClearDone, UNCHANGED owning
  PROVE  c = <<>> /\ Held(<<>>)'
<1>1. /\ pc = "clear" /\ cur = NULL /\ first' = NULL /\ last' = NULL /\ size' = 0
      /\ list' = (after[1] = "clear") /\ UNCHANGED <<next, value, live, owner>>
      /\ pc' = "idle" /\ cur' = NULL /\ target' = NULL /\ todo' = <<>> /\ kill' = FALSE
  BY DEF ClearDone, Return
<1>2. c \in Seq(Node) /\ IsChain(c, NULL) /\ Range(c) = live
  BY <1>1 DEF Held, Chained, Rest, Gone
<1>3. c = <<>>
  BY <1>2 DEF IsChain, ConstantsAssumption
<1>4. live' = {}
  BY <1>1, <1>2, <1>3 DEF Range
<1>5. HeapOK' /\ NodesOwned'
  BY <1>1 DEF Held, HeapOK, NodesOwned
<1>6. Whole(<<>>)'
  <2>1. IsChain(<<>>, first)'
    BY <1>1 DEF IsChain, IsInjective
  <2>2. Range(<<>>) = {}
    BY DEF Range
  <2>3. <<>> \in Seq(Node) /\ Len(<<>>) = 0
    OBVIOUS
  <2> QED BY <1>1, <1>4, <2>1, <2>2, <2>3 DEF Whole
<1>7. CallOK'
  <2>1. list' \in BOOLEAN
    BY <1>1
  <2>2. todo' \in Seq(Value)
    BY <1>1
  <2>3. kill' \in BOOLEAN
    BY <1>1, Zenon
  <2> QED BY <1>1, <2>1, <2>2, <2>3 DEF CallOK
<1>8. Settled' /\ (~list => NoList)' /\ (Promised /\ pc \notin {"seek", "scan"})'
  BY <1>1, <1>4 DEF Settled, NoList, Promised
<1>9. Held(<<>>)'
  BY <1>5, <1>6, <1>7, <1>8, WholeHeld
<1> QED BY <1>3, <1>9

\* A value that was freed is allocated again.
LEMMA AllocHeld ==
  ASSUME NEW c, Held(c), NEW v \in Value, Client_alloc(v), UNCHANGED owning
  PROVE  Held(c)'
<1>1. /\ pc = "idle" /\ owner[v] = "freed" /\ owner' = [owner EXCEPT ![v] = "caller"]
      /\ UNCHANGED <<list, heap, call>>
  BY DEF Client_alloc
<1>2. HeapOK'
  BY <1>1 DEF Held, HeapOK, Owners, heap
<1>3. \A w \in Value : owner'[w] = "list" <=> owner[w] = "list"
  BY <1>1 DEF Held, HeapOK
<1>4. NodesOwned'
  BY <1>1, <1>3 DEF Held, NodesOwned, heap
<1>5. Whole(c)'
  BY <1>1, HeldWhole DEF Settled, Whole, IsChain, heap
<1>6. CallOK' /\ (~list => NoList)' /\ Settled' /\ (Promised /\ pc \notin {"seek", "scan"})'
  BY <1>1 DEF Held, CallOK, NoList, Settled, Promised, heap, call
<1> QED BY <1>2, <1>4, <1>5, <1>6, WholeHeld

-----------------------------------------------------------------------------
(* The invariant holds of every behaviour.                                 *)

\* There is no list at first.
LEMMA InitHeld ==
  ASSUME ConstantsAssumption, Init
  PROVE  Held(<<>>)
<1>1. HeapOK
  BY FS_EmptySet DEF Init, HeapOK, Owners, ConstantsAssumption
<1>2. CallOK
  <2>1. list \in BOOLEAN /\ kill \in BOOLEAN
    BY Zenon DEF Init
  <2>2. todo \in Seq(Value)
    BY DEF Init
  <2> QED BY <2>1, <2>2 DEF Init, CallOK
<1>3. NodesOwned /\ Promised /\ NoList
  BY DEF Init, NodesOwned, Promised, NoList
<1>4. Chained(<<>>)
  <2>1. IsChain(<<>>, NULL)
    BY DEF IsChain, IsInjective
  <2>2. Range(<<>>) = {} /\ <<>> \in Seq(Node) /\ Len(<<>>) = 0
    BY DEF Range
  <2> QED BY <2>1, <2>2, NoneGone DEF Init, Chained, Rest, Gone
<1>5. Walked(<<>>)
  BY DEF Init, Walked, Gone
<1> QED BY <1>1, <1>2, <1>3, <1>4, <1>5 DEF Held

\* Every action of a list keeps its chain, whatever else the program does between them.
LEMMA NextHeld ==
  ASSUME ConstantsAssumption, ListInv, Next
  PROVE  ListInv'
<1>1. PICK c \in Seq(Node) : Held(c)
  BY DEF ListInv
<1>2. UNCHANGED owning
  BY DEF Next
<1> USE DEF ListInv
<1>3. ASSUME NEW n \in Node, Held(Append(c, n))' PROVE ListInv'
  <2>1. Append(c, n) \in Seq(Node)
    OBVIOUS
  <2> QED BY <1>3, <2>1
<1>4. CASE Step
  <2>1. CASE PushAllNext
    BY <1>1, <1>2, <1>3, <2>1, PushAllNextHeld
  <2>2. CASE SeekNext
    BY <1>1, <1>2, <2>2, SeekNextHeld
  <2>3. CASE ScanNext
    BY <1>1, <1>2, <2>3, ScanNextHeld
  <2>4. CASE Unlink
    <3>1. PICK k \in 1 .. Len(c) : Held(Without(c, k))'
      BY <1>1, <1>2, <2>4, UnlinkHeld
    <3>2. Without(c, k) \in Seq(Node)
      BY <3>1 DEF Held, Chained
    <3> QED BY <3>1, <3>2
  <2>5. CASE RescanNext
    BY <1>1, <1>2, <2>5, RescanNextHeld
  <2>6. CASE Drop
    BY <1>1, <1>2, <2>6, DropHeld
  <2>7. CASE ClearNext
    <3>1. Held(Tail(c))'
      BY <1>1, <1>2, <2>7, ClearNextHeld
    <3>2. Tail(c) \in Seq(Node)
      BY <3>1 DEF Held, Chained
    <3> QED BY <3>1, <3>2
  <2>8. CASE ClearDone
    <3>1. <<>> \in Seq(Node)
      OBVIOUS
    <3> QED BY <1>1, <1>2, <2>8, <3>1, ClearDoneHeld
  <2> QED BY <1>4, <2>1, <2>2, <2>3, <2>4, <2>5, <2>6, <2>7, <2>8 DEF Step
<1>5. CASE Calls
  <2>1. CASE LinkedList_create
    BY <1>1, <1>2, <2>1, CreateHeld
  <2>2. CASE LinkedList_pop
    BY <1>1, <1>2, <2>2, PopHeld
  <2>3. ASSUME NEW v \in Value, LinkedList_push(v) PROVE ListInv'
    BY <1>1, <1>2, <1>3, <2>3, PushHeld
  <2>4. ASSUME NEW v \in Value, LinkedList_find_node(v) PROVE ListInv'
    BY <1>1, <1>2, <2>4, FindHeld
  <2>5. ASSUME NEW v \in Value, Client_alloc(v) PROVE ListInv'
    BY <1>1, <1>2, <2>5, AllocHeld
  <2>6. ASSUME NEW b \in Batches, LinkedList_push_all(b) PROVE ListInv'
    BY <1>1, <1>2, <2>6, PushAllHeld
  <2>7. ASSUME NEW n \in live, LinkedList_remove(n) PROVE ListInv'
    BY <1>1, <1>2, <2>7, RemoveHeld
  <2>8. ASSUME NEW kills \in BOOLEAN, LinkedList_clear(kills) \/ LinkedList_destroy(kills)
        PROVE  ListInv'
    BY <1>1, <1>2, <2>8, StartClearHeld
  <2> QED BY <1>5, <2>1, <2>2, <2>3, <2>4, <2>5, <2>6, <2>7, <2>8 DEF Calls
<1> QED BY <1>4, <1>5 DEF Next

\* What the calls are called, and who may own a value.
LabelsOK ==
  /\ owning \in Dfs
  /\ owner \in [Value -> {"caller", "list", "freed"}]
  /\ pc \in {"idle", "push_all", "seek", "scan", "rescan", "drop", "clear"}

\* What the two steps that dispose of the value of a node do to its owner, and to no
\* other; the node goes with it.
LEMMA DisposeOwners ==
  ASSUME NEW c, Held(c), Drop \/ ClearNext
  PROVE  \E n \in live :
           /\ value[n] \in Value /\ FreeNode(n)
           /\ \/ owner' = owner /\ ~owning
              \/ owner' = [owner EXCEPT ![value[n]] = "freed"]
              \/ owner' = [owner EXCEPT ![value[n]] = "caller"]
<1>1. HeapOK /\ NodesOwned
  BY DEF Held
<1>2. CASE Drop
  <2>1. target \in live /\ FreeNode(target) /\ owner' = Destroy(value[target])
    BY <1>2 DEF Drop, Held, Walked, Gone
  <2> QED BY <1>1, <2>1, DestroyFrees DEF NodesOwned
<1>3. CASE ClearNext
  <2>1. cur \in live
    <3>1. c \in Seq(Node) /\ IsChain(c, cur) /\ Range(c) = live /\ cur # NULL
      BY <1>3 DEF ClearNext, Held, Chained, Rest, Gone
    <3>2. cur = c[1] /\ 1 \in 1 .. Len(c)
      BY <3>1 DEF IsChain
    <3> QED BY <3>1, <3>2, NodesOf
  <2>2. FreeNode(cur) /\ owner' = Disposed(value[cur])
    BY <1>3 DEF ClearNext
  <2> QED BY <1>1, <2>1, <2>2, DestroyFrees DEF NodesOwned, Disposed
<1> QED BY <1>2, <1>3

\* The steps that leave every owner as it was.
LEMMA OwnersStay ==
  ASSUME \/ SeekNext \/ ScanNext \/ Unlink \/ RescanNext \/ ClearDone
         \/ LinkedList_create \/ LinkedList_pop
         \/ \E v \in Value : LinkedList_find_node(v)
         \/ \E b \in Batches : LinkedList_push_all(b)
         \/ \E n \in live : LinkedList_remove(n)
         \/ \E kills \in BOOLEAN : LinkedList_clear(kills) \/ LinkedList_destroy(kills)
  PROVE  UNCHANGED <<value, live, owner>>
BY DEF SeekNext, ScanNext, Unlink, RescanNext, ClearDone, LinkedList_create, LinkedList_pop,
   LinkedList_find_node, LinkedList_push_all, LinkedList_remove, LinkedList_clear,
   LinkedList_destroy, heap

\* What a step does to the owners: a push, the end of a node, an allocation, or nothing.
LEMMA NextOwnersAre ==
  ASSUME ListInv, Next
  PROVE  \/ UNCHANGED <<value, live, owner>>
         \/ \E v \in Value, n \in Node \ live : owner[v] = "caller" /\ PushInto(v, n)
         \/ \E n \in live :
              /\ value[n] \in Value /\ FreeNode(n)
              /\ \/ owner' = owner /\ ~owning
                 \/ owner' = [owner EXCEPT ![value[n]] = "freed"]
                 \/ owner' = [owner EXCEPT ![value[n]] = "caller"]
         \/ \E v \in Value : /\ owner[v] = "freed" /\ UNCHANGED <<value, live>>
                              /\ owner' = [owner EXCEPT ![v] = "caller"]
<1>1. PICK c \in Seq(Node) : Held(c)
  BY DEF ListInv
<1>2. CASE PushAllNext
  <2>1. todo \in Seq(Value) /\ todo # <<>> /\ \A i \in DOMAIN todo : owner[todo[i]] = "caller"
    BY <1>1, <1>2 DEF Held, CallOK, Promised, CanPass, PushAllNext
  <2>2. Head(todo) \in Value /\ owner[Head(todo)] = "caller"
    BY <2>1
  <2> QED BY <1>2, <2>2 DEF PushAllNext, PushSucceeds, PushFails, heap
<1>3. CASE Drop \/ ClearNext
  BY <1>1, <1>3, DisposeOwners
<1>4. ASSUME NEW v \in Value, LinkedList_push(v)
      PROVE  \/ \E n \in Node \ live : owner[v] = "caller" /\ PushInto(v, n)
             \/ UNCHANGED <<value, live, owner>>
  BY <1>4 DEF LinkedList_push, CanPass, PushSucceeds, PushFails, heap
<1>5. ASSUME NEW v \in Value, Client_alloc(v)
      PROVE  /\ owner[v] = "freed" /\ UNCHANGED <<value, live>>
             /\ owner' = [owner EXCEPT ![v] = "caller"]
  BY <1>5 DEF Client_alloc, heap
<1> QED BY <1>2, <1>3, <1>4, <1>5, OwnersStay DEF Next, Step, Calls

\* A call is always in one of the loops of this module, or in none.
LEMMA NextLabels ==
  ASSUME ListInv, LabelsOK, Next
  PROVE  LabelsOK'
<1>1. UNCHANGED owning
  BY DEF Next
<1>2. owner' \in [Value -> {"caller", "list", "freed"}]
  <2>1. owner \in [Value -> {"caller", "list", "freed"}]
    BY DEF LabelsOK
  <2>2. \A v, n : PushInto(v, n) => owner' \in [Value -> {"caller", "list", "freed"}]
    BY <2>1 DEF PushInto
  <2> QED BY <2>1, <2>2, NextOwnersAre
<1>3. pc' \in {"idle", "push_all", "seek", "scan", "rescan", "drop", "clear"}
  <2>1. CASE Step
    BY <2>1 DEF LabelsOK, Step, PushAllNext, SeekNext, Return, ScanNext, Unlink,
       RescanNext, Drop, ClearNext, ClearDone
  <2>2. CASE Calls
    BY <2>2 DEF LabelsOK, Calls, LinkedList_create, LinkedList_push, LinkedList_push_all,
       LinkedList_find_node, LinkedList_remove, LinkedList_pop, LinkedList_clear,
       LinkedList_destroy, StartClear, Client_alloc, call
  <2> QED BY <2>1, <2>2 DEF Next
<1> QED BY <1>1, <1>2, <1>3 DEF LabelsOK

\* The list comes to own only what is put in a node, and gives up what leaves one.
LEMMA NextNoStray ==
  ASSUME ListInv, NoStray, Next
  PROVE  NoStray'
<1>1. PICK c \in Seq(Node) : Held(c)
  BY DEF ListInv
<1>2. UNCHANGED owning
  BY DEF Next
<1>3. SUFFICES ASSUME owning, NEW w \in Value, owner'[w] = "list"
               PROVE  \E m \in live' : value'[m] = w
  BY <1>2 DEF NoStray
<1>4. HeapOK /\ NodesOwned /\ (owner[w] = "list" => \E m \in live : value[m] = w)
  BY <1>1, <1>3 DEF Held, NoStray
<1>5. CASE UNCHANGED <<value, live, owner>>
  BY <1>3, <1>4, <1>5
<1>6. ASSUME NEW v \in Value, NEW n \in Node \ live, PushInto(v, n)
      PROVE  \E m \in live' : value'[m] = w
  <2>1. value'[n] = v /\ n \in live' /\ \A m \in live : m \in live' /\ value'[m] = value[m]
    BY <1>4, <1>6 DEF HeapOK, PushInto
  <2>2. w = v \/ owner[w] = "list"
    BY <1>3, <1>4, <1>6 DEF HeapOK, PushInto
  <2> QED BY <1>4, <2>1, <2>2
<1>7. ASSUME NEW n \in live, value[n] \in Value, FreeNode(n),
             \/ owner' = [owner EXCEPT ![value[n]] = "freed"]
             \/ owner' = [owner EXCEPT ![value[n]] = "caller"]
      PROVE  \E m \in live' : value'[m] = w
  <2>1. w # value[n] /\ owner[w] = "list"
    BY <1>3, <1>4, <1>7 DEF HeapOK
  <2>2. \A m \in live : m # n => m \in live' /\ value'[m] = value[m]
    BY <1>4, <1>7 DEF HeapOK, FreeNode
  <2> QED BY <1>4, <2>1, <2>2
<1>8. ASSUME NEW v \in Value, UNCHANGED <<value, live>>, owner' = [owner EXCEPT ![v] = "caller"]
      PROVE  \E m \in live' : value'[m] = w
  <2>1. owner[w] = "list"
    BY <1>3, <1>4, <1>8 DEF HeapOK
  <2> QED BY <1>4, <1>8, <2>1
<1> QED BY <1>3, <1>5, <1>6, <1>7, <1>8, NextOwnersAre

\* A step in which nothing of the list changes.
LEMMA StutterHeld ==
  ASSUME ListInv, LabelsOK, NoStray, UNCHANGED vars
  PROVE  ListInv' /\ LabelsOK' /\ NoStray'
<1>1. PICK c \in Seq(Node) : Held(c)
  BY DEF ListInv
<1>2. Held(c)'
  <2>1. UNCHANGED <<heap, owner, call, owning, list>>
    BY DEF vars
  <2> QED BY <1>1, <2>1, StayHeld DEF Held, CallOK
<1>3. LabelsOK' /\ NoStray'
  BY DEF LabelsOK, NoStray, vars, call, heap
<1> QED BY <1>2, <1>3 DEF ListInv

\* The inductive invariant of LinkedList.
THEOREM AlwaysHeld ==
  Spec => [](ListInv /\ LabelsOK /\ NoStray)
<1>1. Init => ListInv /\ LabelsOK /\ NoStray
  <2> SUFFICES ASSUME Init PROVE ListInv /\ LabelsOK /\ NoStray
    OBVIOUS
  <2>1. <<>> \in Seq(Node)
    OBVIOUS
  <2> QED BY <2>1, InitHeld, ConstantsAssumption DEF ListInv, LabelsOK, NoStray, Init
<1>2. ListInv /\ LabelsOK /\ NoStray /\ [Next]_vars => ListInv' /\ LabelsOK' /\ NoStray'
  BY NextHeld, NextLabels, NextNoStray, StutterHeld, ConstantsAssumption
<1> QED BY <1>1, <1>2, PTL DEF Spec

\* The fields have their types, and the nodes of the list are always one chain of the
\* allocated nodes that ends: none is lost, none is reached after it was freed.
THEOREM ChainsAreExact ==
  Spec => []ChainExact
<1>1. ListInv /\ LabelsOK => ChainExact
  <2> SUFFICES ASSUME ListInv, LabelsOK PROVE ChainExact
    OBVIOUS
  <2>1. PICK c \in Seq(Node) : Held(c)
    BY DEF ListInv
  <2>2. TypeOK
    BY <2>1 DEF Held, HeapOK, CallOK, LabelsOK, TypeOK
  <2>3. c \in Chains(Rest)
    <3>1. IsChain(c, Rest) /\ Range(c) \subseteq live
      BY <2>1 DEF Held, Chained
    <3> QED BY <2>1, <3>1, ChainListed DEF Held
  <2> QED BY <2>1, <2>2, <2>3 DEF ChainExact, Held, Chained
<1> QED BY <1>1, AlwaysHeld, PTL

\* No loop follows a NULL pointer or one to a node that was freed.
THEOREM LoopsAreLive ==
  Spec => []LoopsStayLive
<1>1. ListInv => LoopsStayLive
  <2> SUFFICES ASSUME ListInv PROVE LoopsStayLive
    OBVIOUS
  <2>1. PICK c \in Seq(Node) : Held(c)
    BY DEF ListInv
  <2>2. Len(c) \in Nat /\ Range(c) = live \ Gone /\ Gone \subseteq live
        /\ \A i \in 1 .. Len(c) : c[i] \in Range(c)
    BY <2>1, NodesOf DEF Held, Chained, Walked
  <2>3. pc = "seek" => cur \in live \cup {NULL}
    <3> SUFFICES ASSUME pc = "seek" PROVE cur \in live \cup {NULL}
      OBVIOUS
    <3>1. PICK k \in 1 .. Len(c) + 1 : cur = IF k = Len(c) + 1 THEN NULL ELSE c[k]
      BY <2>1 DEF Held, Walked
    <3> QED BY <2>2, <3>1
  <2>4. pc = "scan" => cur \in live \cup {HEAD} /\ target \in live /\ Deref(cur) \in live
    <3> SUFFICES ASSUME pc = "scan"
                 PROVE  cur \in live \cup {HEAD} /\ target \in live /\ Deref(cur) \in live
      OBVIOUS
    <3>1. PICK k \in 1 .. Len(c) : /\ Deref(cur) = c[k]
                                   /\ IF k = 1 THEN cur = HEAD ELSE cur = c[k - 1]
      BY <2>1, ScanAt, ConstantsAssumption
    <3>2. k # 1 => k - 1 \in 1 .. Len(c)
      BY <2>2
    <3> QED BY <2>1, <2>2, <3>1, <3>2 DEF Held, Walked
  <2>5. pc = "rescan" => cur \in live /\ target \in live
    BY <2>1, <2>2 DEF Held, Walked, Gone
  <2>6. pc = "drop" => target \in live
    BY <2>2 DEF Gone
  <2>7. pc = "clear" => cur \in live \cup {NULL}
    <3>1. pc = "clear" => cur = IF c = <<>> THEN NULL ELSE c[1]
      BY <2>1 DEF Held, Chained, IsChain, Rest
    <3>2. c # <<>> => 1 \in 1 .. Len(c)
      OBVIOUS
    <3> QED BY <2>2, <3>1, <3>2
  <2> QED BY <2>3, <2>4, <2>5, <2>6, <2>7 DEF LoopsStayLive
<1> QED BY <1>1, AlwaysHeld, PTL

\* A list that frees its values owns exactly those its nodes hold, each in one node.
THEOREM OwnershipIsExact ==
  Spec => []OwnershipExact
<1>1. ListInv /\ LabelsOK /\ NoStray => OwnershipExact
  BY DEF ListInv, LabelsOK, NoStray, Held, NodesOwned, OwnershipExact
<1> QED BY <1>1, AlwaysHeld, PTL

-----------------------------------------------------------------------------
(* LinkedList implements AbstractNodeList.                                 *)

\* The null pointer is no list of nodes with their values.
ReasonableUse == NULL \notin Seq(Node \X Value)

\* The nodes of a chain with their values.
Pairs(c) == [i \in 1 .. Len(c) |-> <<c[i], value[c[i]]>>]

\* What is left over of a call when it is over, and what is not over yet.
CallEnds ==
  /\ pc # "clear" => kill = FALSE /\ after = None
  /\ pc = "clear" => after \in {<<"clear", TRUE>>, <<"destroy", TRUE>>}
  /\ pc = "seek" => Len(todo) = 1

\* The client sees the chain, and nothing without a list.
ElemsExact ==
  \A c \in Seq(Node) : Held(c) => Elems = IF list THEN Pairs(c) ELSE NULL

\* The client sees the pairs of the chain, and no list when there is none.
LEMMA ElemsSeen ==
  ElemsExact
<1> SUFFICES ASSUME NEW c \in Seq(Node), Held(c), list
             PROVE  Elems = Pairs(c)
  BY DEF Elems, ElemsExact
<1> DEFINE e == CHOOSE d \in Chains(Rest) : TRUE
<1>1. IsChain(c, Rest) /\ Range(c) \subseteq live /\ HeapOK
  BY DEF Held, Chained
<1>2. c \in Chains(Rest)
  BY <1>1, ChainListed
<1>3. \A d \in Chains(Rest) : d = c
  BY <1>1, ListedChain, ChainUnique, ConstantsAssumption
<1>4. e = c
  BY <1>2, <1>3
<1>5. DOMAIN c = 1 .. Len(c)
  OBVIOUS
<1>6. Elems = [i \in DOMAIN e |-> <<e[i], value[e[i]]>>]
  BY Zenon DEF Elems
<1> HIDE DEF e
<1> QED BY <1>4, <1>5, <1>6 DEF Pairs

\* The same of the next state.
LEMMA ElemsSeenNext ==
  ElemsExact'
BY ElemsSeen, PTL

\* A clearing keeps in mind what its call is to return.
LEMMA NextCallEnds ==
  ASSUME CallEnds, Next
  PROVE  CallEnds'
<1>1. CASE Step
  <2>1. CASE PushAllNext \/ SeekNext
    BY <2>1 DEF CallEnds, PushAllNext, SeekNext, Return
  <2>2. CASE ScanNext \/ Unlink \/ RescanNext
    BY <2>2 DEF CallEnds, ScanNext, Unlink, RescanNext
  <2>3. CASE Drop \/ ClearNext \/ ClearDone
    BY <2>3 DEF CallEnds, Drop, ClearNext, ClearDone, Return
  <2> QED BY <1>1, <2>1, <2>2, <2>3 DEF Step
<1>2. CASE Calls
  <2>1. CASE LinkedList_create \/ LinkedList_pop
             \/ \E v \in Value : LinkedList_push(v) \/ Client_alloc(v)
    BY <2>1 DEF CallEnds, LinkedList_create, LinkedList_pop, LinkedList_remove, Idle,
       LinkedList_push, Client_alloc, call
  <2>2. CASE \/ \E v \in Value : LinkedList_find_node(v)
             \/ \E b \in Batches : LinkedList_push_all(b)
             \/ \E n \in live : LinkedList_remove(n)
    <3>1. CASE \E v \in Value : LinkedList_find_node(v)
      <4>1. PICK v \in Value : LinkedList_find_node(v)
        BY <3>1
      <4> QED BY <4>1 DEF CallEnds, LinkedList_find_node, Idle
    <3> QED BY <2>2, <3>1 DEF CallEnds, LinkedList_push_all, LinkedList_remove, Idle, call
  <2>3. CASE \E kills \in BOOLEAN : LinkedList_clear(kills) \/ LinkedList_destroy(kills)
    BY <2>3 DEF CallEnds, LinkedList_clear, LinkedList_destroy, StartClear
  <2> QED BY <1>2, <2>1, <2>2, <2>3 DEF Calls
<1> QED BY <1>1, <1>2 DEF Next

\* The pairs of a chain are a sequence, and none of them is the null pointer.
LEMMA PairsAreSeq ==
  ASSUME ReasonableUse, NEW c \in Seq(Node), Held(c)
  PROVE  /\ Pairs(c) \in Seq(Node \X Value) /\ Pairs(c) # NULL
         /\ Len(Pairs(c)) = Len(c) /\ DOMAIN Pairs(c) = 1 .. Len(c)
         /\ \A i \in 1 .. Len(c) : Pairs(c)[i] = <<c[i], value[c[i]]>>
<1>1. \A i \in 1 .. Len(c) : c[i] \in Node /\ value[c[i]] \in Value
  BY NodesOf DEF Held, Chained, NodesOwned
<1>2. Len(c) \in Nat
  OBVIOUS
<1>3. Pairs(c) \in [1 .. Len(c) -> Node \X Value]
  BY <1>1 DEF Pairs
<1>4. Pairs(c) \in Seq(Node \X Value) /\ DOMAIN Pairs(c) = 1 .. Len(c)
  BY <1>2, <1>3
<1> QED BY <1>2, <1>4 DEF Pairs, ReasonableUse

\* The client sees the same elements as long as the nodes keep their values.
LEMMA SameElems ==
  ASSUME NEW c \in Seq(Node), Held(c), Held(c)', UNCHANGED list,
         \A i \in 1 .. Len(c) : value'[c[i]] = value[c[i]]
  PROVE  UNCHANGED Elems
<1>1. Elems = (IF list THEN Pairs(c) ELSE NULL) /\ Elems' = IF list' THEN Pairs(c)' ELSE NULL
  BY ElemsSeen, ElemsSeenNext DEF ElemsExact
<1>2. Pairs(c)' = Pairs(c)
  BY DEF Pairs
<1> QED BY <1>1, <1>2

\* A step the client does not see.
LEMMA Unseen ==
  ASSUME NEW c \in Seq(Node), Held(c), Held(c)', UNCHANGED <<owning, list, kill, after>>,
         \A i \in 1 .. Len(c) : value'[c[i]] = value[c[i]],
         pc = "clear" <=> pc' = "clear", pc # "push_all", pc' # "push_all",
         (IF Unlinked THEN Destroy(value[target]) ELSE owner)' =
           (IF Unlinked THEN Destroy(value[target]) ELSE owner),
         (IF Unlinked THEN <<"remove", target, TRUE>> ELSE ret)' =
           (IF Unlinked THEN <<"remove", target, TRUE>> ELSE ret)
  PROVE  UNCHANGED Abstract!vars
<1>1. UNCHANGED Elems
  BY SameElems
<1> QED BY <1>1 DEF Abstract!vars

\* LinkedList_create gives the client an empty list.
LEMMA CreateRefined ==
  ASSUME NEW c \in Seq(Node), Held(c), LinkedList_create, UNCHANGED owning
  PROVE  Abstract!Next
<1>1. ~list /\ pc = "idle" /\ UNCHANGED <<heap, owner, call>>
  BY DEF LinkedList_create
<1>2. Held(c)'
  BY CreateHeld
<1>3. c = <<>>
  <2>1. Range(c) = {}
    BY <1>1 DEF Held, Chained, NoList, Gone
  <2>2. DOMAIN c = 1 .. Len(c) /\ (c # <<>> => 1 \in 1 .. Len(c))
    OBVIOUS
  <2> QED BY <2>1, <2>2 DEF Range
<1>4. Elems = NULL /\ Elems' = IF list' THEN <<>> ELSE NULL
  <2>1. Pairs(c)' = <<>>
    BY <1>3 DEF Pairs
  <2> QED BY <1>1, <1>2, <2>1, ElemsSeen, ElemsSeenNext DEF ElemsExact
<1>5. Abstract!Create
  BY <1>1, <1>4 DEF LinkedList_create, Abstract!Create, call, heap, Unlinked
<1> QED BY <1>5 DEF Abstract!Next

\* A push appends the new node with its value.
LEMMA PushedRefined ==
  ASSUME ReasonableUse, NEW c \in Seq(Node), Held(c), Settled, list, list', Settled',
         NEW v \in Value, owner[v] = "caller", NEW n \in Node \ live, PushInto(v, n),
         Held(Append(c, n))'
  PROVE  Abstract!Append1(v) /\ Elems # NULL
<1> DEFINE d == Append(c, n)
<1>1. Elems = Pairs(c) /\ Elems' = Pairs(d)'
  <2>1. d \in Seq(Node)
    OBVIOUS
  <2> HIDE DEF d
  <2> QED BY <2>1, ElemsSeen, ElemsSeenNext DEF ElemsExact, d
<1>2. /\ Pairs(c) \in Seq(Node \X Value) /\ Pairs(c) # NULL
      /\ DOMAIN Pairs(c) = 1 .. Len(c) /\ Len(Pairs(c)) = Len(c)
      /\ \A i \in 1 .. Len(c) : Pairs(c)[i] = <<c[i], value[c[i]]>>
  BY PairsAreSeq
<1>3. Len(c) \in Nat /\ \A i \in 1 .. Len(c) : c[i] \in live /\ c[i] # n
  BY HeldWhole, NodesOf DEF Whole
<1>4. \A i \in DOMAIN Elems : Elems[i][1] # n
  BY <1>1, <1>2, <1>3
<1>5. value'[n] = v /\ \A i \in 1 .. Len(c) : value'[c[i]] = value[c[i]]
  BY <1>3 DEF PushInto, Held, HeapOK
<1>6. Pairs(d)' = Append(Pairs(c), <<n, v>>)
  <2>1. /\ Len(d) = Len(c) + 1 /\ d[Len(c) + 1] = n
        /\ \A i \in 1 .. Len(c) : d[i] = c[i]
    OBVIOUS
  <2>2. Pairs(d)' = [i \in 1 .. Len(c) + 1 |-> <<d[i], value'[d[i]]>>]
    BY <2>1 DEF Pairs
  <2> DEFINE e == Append(Pairs(c), <<n, v>>)
  <2>3. /\ e \in Seq(Node \X Value) /\ Len(e) = Len(c) + 1 /\ e[Len(c) + 1] = <<n, v>>
        /\ \A i \in 1 .. Len(c) : e[i] = Pairs(c)[i]
    BY <1>2
  <2> HIDE DEF d, e
  <2>4. e = [i \in 1 .. Len(c) + 1 |-> e[i]]
    BY <2>3
  <2>5. ASSUME NEW i \in 1 .. Len(c) + 1
        PROVE  e[i] = <<d[i], value'[d[i]]>>
    <3>1. CASE i = Len(c) + 1
      BY <1>5, <2>1, <2>3, <3>1
    <3>2. CASE i # Len(c) + 1
      <4>1. i \in 1 .. Len(c)
        BY <1>3, <3>2
      <4>2. d[i] = c[i] /\ value'[c[i]] = value[c[i]]
        BY <1>5, <2>1, <4>1
      <4>3. e[i] = <<c[i], value[c[i]]>>
        BY <1>2, <2>3, <4>1
      <4> QED BY <4>2, <4>3
    <3> QED BY <3>1, <3>2
  <2> QED BY <2>2, <2>4, <2>5 DEF e
<1>7. n \in Node /\ ~Unlinked /\ ~Unlinked'
  BY DEF Settled, Unlinked
<1>8. Elems' = Append(Elems, <<n, v>>)
  BY <1>1, <1>6
<1>9. owner' = IF owning THEN [owner EXCEPT ![v] = "list"] ELSE owner
  BY DEF PushInto
<1> QED BY <1>1, <1>2, <1>4, <1>7, <1>8, <1>9 DEF Abstract!Append1

\* Between the calls, and while nothing has changed yet, the list is open to the next one.
LEMMA OpenSeen ==
  ASSUME ReasonableUse, NEW c \in Seq(Node), Held(c), list, pc \notin {"push_all", "clear"}
  PROVE  Abstract!Open /\ Elems = Pairs(c)
<1>1. Elems = Pairs(c)
  BY ElemsSeen DEF ElemsExact
<1>2. Elems # NULL
  BY <1>1, PairsAreSeq
<1> QED BY <1>1, <1>2 DEF Abstract!Open

\* LinkedList_push appends a value or fails.
LEMMA PushRefined ==
  ASSUME ConstantsAssumption, ReasonableUse, NEW c \in Seq(Node), Held(c),
         NEW v \in Value, LinkedList_push(v), UNCHANGED owning
  PROVE  Abstract!Next
<1>1. pc = "idle" /\ list /\ owner[v] = "caller" /\ UNCHANGED <<list, call>>
  BY DEF LinkedList_push, Idle, CanPass
<1>2. Abstract!Open
  BY <1>1, OpenSeen
<1>3. CASE PushFails /\ ret' = <<"push", v, FALSE>>
  <2>1. Held(c)'
    BY <1>1, <1>3, StayHeld DEF PushFails
  <2>2. UNCHANGED Elems
    BY <1>1, <1>3, <2>1, SameElems DEF PushFails, heap
  <2>3. Abstract!Push(v)
    BY <1>1, <1>2, <1>3, <2>2 DEF Abstract!Push, PushFails, Unlinked, call
  <2> QED BY <2>3 DEF Abstract!Next
<1>4. CASE PushSucceeds(v) /\ ret' = <<"push", v, TRUE>>
  <2>1. PICK n \in Node \ live : PushInto(v, n)
    BY <1>4 DEF PushSucceeds
  <2>2. Held(Append(c, n))'
    <3>1. Whole(c)
      BY <1>1, HeldWhole DEF Settled
    <3>2. (HeapOK /\ NodesOwned /\ Whole(Append(c, n)))'
      BY <1>1, <2>1, <3>1, PushWhole DEF Held
    <3>3. (CallOK /\ Promised /\ pc = "idle" /\ list)'
      BY <1>1 DEF Held, CallOK, Promised, call
    <3> QED BY <3>2, <3>3, WholeHeld DEF Settled
  <2>3. Abstract!Append1(v)
    <3>1. Settled /\ Settled' /\ list'
      BY <1>1 DEF Settled, call
    <3> QED BY <1>1, <2>1, <2>2, <3>1, PushedRefined
  <2>4. Abstract!Push(v)
    BY <1>1, <1>2, <1>4, <2>3 DEF Abstract!Push, Unlinked, call
  <2> QED BY <2>4 DEF Abstract!Next
<1> QED BY <1>3, <1>4 DEF LinkedList_push

\* LinkedList_push_all is seen with each of its pushes, not when it starts.
LEMMA PushAllRefined ==
  ASSUME ConstantsAssumption, ReasonableUse, NEW c \in Seq(Node), Held(c),
         NEW b \in Batches, LinkedList_push_all(b), UNCHANGED owning
  PROVE  Abstract!Next
<1>1. pc = "idle" /\ list /\ UNCHANGED <<list, heap, owner>> /\ b \in Seq(Value)
  BY DEF LinkedList_push_all, Idle, Batches
<1>2. Abstract!Open
  BY <1>1, OpenSeen
<1>3. UNCHANGED Elems
  <2>1. Held(c)'
    BY PushAllHeld
  <2> QED BY <1>1, <2>1, SameElems DEF heap
<1>4. CASE b = <<>>
  <2>1. Abstract!Refuse
    BY <1>1, <1>2, <1>3, <1>4 DEF LinkedList_push_all, Abstract!Refuse, call, Unlinked
  <2> QED BY <2>1 DEF Abstract!Next
<1>5. CASE b # <<>>
  <2>1. Abstract!PushAll
    BY <1>1, <1>2, <1>3, <1>5 DEF LinkedList_push_all, Abstract!PushAll, Unlinked
  <2> QED BY <2>1 DEF Abstract!Next
<1> QED BY <1>4, <1>5

\* A push of LinkedList_push_all appends its next value, if it is not refused a node.
LEMMA PushAllNextRefined ==
  ASSUME ConstantsAssumption, ReasonableUse, ~BulkRefused, CallEnds, NEW c \in Seq(Node),
         Held(c), PushAllNext, UNCHANGED owning
  PROVE  Abstract!Next
<1> DEFINE v == Head(todo)
<1>1. /\ pc = "push_all" /\ list /\ UNCHANGED list /\ todo \in Seq(Value) /\ todo # <<>>
      /\ kill = FALSE /\ after = None
  BY DEF PushAllNext, Held, CallOK, NoList, Promised, CallEnds
<1>2. v \in Value /\ owner[v] = "caller"
  <2>1. v = todo[1] /\ 1 \in DOMAIN todo
    BY <1>1
  <2> QED BY <1>1, <2>1 DEF Held, Promised, CanPass
<1>3. \/ pc' = "idle" /\ Tail(todo) = <<>> /\ ret' = <<"push_all", TRUE>>
         /\ kill' = FALSE /\ after' = None
      \/ pc' = "push_all" /\ todo' = Tail(todo) /\ Tail(todo) # <<>>
         /\ UNCHANGED <<kill, after, ret>>
  <2>1. Len(todo) = 1 => Tail(todo) = <<>>
    <3>1. Tail(todo) \in Seq(Value) /\ Len(Tail(todo)) = Len(todo) - 1
      BY <1>1
    <3>2. \A s \in Seq(Value) : Len(s) = 0 => s = <<>>
      OBVIOUS
    <3>3. Len(todo) = 1 => Len(Tail(todo)) = 0
      BY <3>1
    <3> QED BY <3>1, <3>2, <3>3, Zenon
  <2>2. Len(todo) > 1 => Tail(todo) # <<>>
    <3>1. Len(Tail(todo)) = Len(todo) - 1 /\ Len(todo) \in Nat
      BY <1>1
    <3>2. \A s : s = <<>> => Len(s) = 0
      OBVIOUS
    <3>3. \A k \in Nat : k > 1 => k - 1 # 0
      OBVIOUS
    <3>4. Len(todo) > 1 => Len(Tail(todo)) # 0
      BY <3>1, <3>3
    <3> QED BY <3>2, <3>4, Zenon
  <2> QED BY <2>1, <2>2 DEF PushAllNext, Return
<1>4. Abstract!Append1(v)
  <2>1. PICK n \in Node \ live : PushInto(v, n) /\ Held(Append(c, n))'
    BY PushAllNextHeld
  <2>2. Settled /\ Settled'
    BY <1>1, <1>3 DEF Settled
  <2> QED BY <1>1, <1>2, <2>1, <2>2, PushedRefined
<1>5. Abstract!PushAllNext
  <2>1. ~Unlinked /\ ~Unlinked' /\ pc # "clear" /\ pc' # "clear"
    BY <1>1, <1>3 DEF Unlinked
  <2> QED BY <1>1, <1>3, <1>4, <2>1 DEF Abstract!PushAllNext
<1> QED BY <1>5 DEF Abstract!Next

\* A search is seen when it is over: it has found the first node with that content.
LEMMA SeekNextRefined ==
  ASSUME ConstantsAssumption, ReasonableUse, CallEnds, NEW c \in Seq(Node), Held(c),
         SeekNext, UNCHANGED owning
  PROVE  Abstract!Next \/ UNCHANGED Abstract!vars
<1>1. /\ pc = "seek" /\ list /\ UNCHANGED <<list, heap, owner>> /\ Len(c) \in Nat
      /\ kill = FALSE /\ after = None /\ Len(todo) = 1 /\ todo \in Seq(Value)
  BY DEF SeekNext, Held, CallOK, NoList, CallEnds
<1>2. Held(c)'
  BY SeekNextHeld
<1>3. UNCHANGED Elems
  BY <1>1, <1>2, SameElems DEF heap
<1>4. CASE ~(cur = NULL \/ Matches(cur))
  <2>1. UNCHANGED <<pc, target, todo, kill, after, ret>>
    BY <1>4 DEF SeekNext
  <2> QED BY <1>1, <1>3, <2>1 DEF Abstract!vars, Unlinked
<1>5. CASE cur = NULL \/ Matches(cur)
  <2> DEFINE v == todo[1]
  <2>1. v \in Value
    BY <1>1
  <2>2. Return(<<"find_node", v, cur>>)
    BY <1>5 DEF SeekNext
  <2>3. PICK k \in 1 .. Len(c) + 1 : /\ cur = IF k = Len(c) + 1 THEN NULL ELSE c[k]
                                     /\ \A i \in 1 .. k - 1 : ~Matches(c[i])
    BY <1>1 DEF Held, Walked
  <2>4. Abstract!Open /\ Elems = Pairs(c)
    BY <1>1, OpenSeen
  <2>5. /\ DOMAIN Pairs(c) = 1 .. Len(c)
        /\ \A i \in 1 .. Len(c) : Pairs(c)[i] = <<c[i], value[c[i]]>>
    BY PairsAreSeq
  <2> DEFINE found == {i \in DOMAIN Elems : ContentOf[Elems[i][2]] = ContentOf[v]}
  <2>6. found = {i \in 1 .. Len(c) : Matches(c[i])}
    <3>1. \A i \in 1 .. Len(c) : Elems[i][2] = value[c[i]]
      BY <2>4, <2>5
    <3> QED BY <2>4, <2>5, <3>1 DEF Matches
  <2>7. \A i \in 1 .. Len(c) : c[i] \in Node /\ c[i] # NULL /\ Pairs(c)[i][1] = c[i]
    BY <2>5 DEF ConstantsAssumption
  <2>8. CASE k = Len(c) + 1
    <3>1. found = {} /\ cur = NULL
      BY <1>1, <2>3, <2>6, <2>8
    <3> QED BY <1>1, <1>3, <2>1, <2>2, <2>4, <3>1 DEF Abstract!Next, Abstract!Find, Return, Unlinked
  <2>9. CASE k # Len(c) + 1
    <3>1. k \in 1 .. Len(c) /\ cur = c[k] /\ cur # NULL
      BY <1>1, <2>3, <2>7, <2>9
    <3>2. k \in found /\ \A j \in found : k <= j
      BY <1>1, <1>5, <2>3, <2>6, <3>1
    <3>3. ret' = <<"find_node", v, Elems[k][1]>>
      BY <2>2, <2>4, <2>7, <3>1 DEF Return
    <3>4. Abstract!Find(v)
      BY <1>1, <1>3, <2>2, <2>4, <3>2, <3>3 DEF Abstract!Find, Return, Unlinked
    <3> QED BY <2>1, <3>4 DEF Abstract!Next
  <2> QED BY <2>8, <2>9
<1> QED BY <1>4, <1>5

\* The steps of a removal before the node is unlinked are not seen, unless there is
\* nothing to remove.
LEMMA RemoveUnseen ==
  ASSUME NEW c \in Seq(Node), Held(c), CallEnds, NEW n \in live, LinkedList_remove(n),
         UNCHANGED owning
  PROVE  UNCHANGED Abstract!vars
<1>1. /\ pc = "idle" /\ pc' = "scan"
      /\ UNCHANGED <<list, heap, owner, todo, kill, after, ret>>
  BY DEF LinkedList_remove, Idle
<1>2. Held(c)'
  BY RemoveHeld
<1> QED BY <1>1, <1>2, Unseen DEF heap, Unlinked

\* LinkedList_pop hands out the last value, or nothing of an empty list.
LEMMA PopRefined ==
  ASSUME ReasonableUse, NEW c \in Seq(Node), Held(c), CallEnds, LinkedList_pop,
         UNCHANGED owning
  PROVE  Abstract!Next \/ UNCHANGED Abstract!vars
<1>1. CASE last # NULL /\ LinkedList_remove(last)
  <2>1. Whole(c)
    BY <1>1, HeldWhole DEF LinkedList_remove, Idle, Settled
  <2>2. c \in Seq(Node) /\ c # <<>> /\ last = c[Len(c)]
    BY <1>1, <2>1 DEF Whole
  <2>3. last \in live
    BY <2>1, <2>2, NodesOf DEF Whole
  <2> QED BY <1>1, <2>3, RemoveUnseen
<1>2. CASE /\ Idle /\ last = NULL /\ ret' = <<"remove", NULL, FALSE>>
           /\ UNCHANGED <<list, heap, owner, call>>
  <2>1. Abstract!Open /\ Elems = Pairs(c)
    BY <1>2, OpenSeen DEF Idle
  <2>2. c = <<>>
    <3>1. last = IF c = <<>> THEN NULL ELSE c[Len(c)]
      BY <1>2, HeldWhole DEF Whole, Idle, Settled
    <3>2. c # <<>> => c[Len(c)] \in Node
      OBVIOUS
    <3> QED BY <1>2, <3>1, <3>2, ConstantsAssumption DEF ConstantsAssumption
  <2>3. Elems = <<>>
    BY <2>1, <2>2 DEF Pairs
  <2>4. Held(c)'
    BY PopHeld
  <2>5. UNCHANGED Elems
    BY <1>2, <2>4, SameElems DEF heap
  <2>6. Abstract!Refuse
    BY <1>2, <2>1, <2>3, <2>5 DEF Abstract!Refuse, Idle, Unlinked, call
  <2> QED BY <2>6 DEF Abstract!Next
<1> QED BY <1>1, <1>2 DEF LinkedList_pop

\* The node leaves the list the client sees in the step that unlinks it.
LEMMA UnlinkRefined ==
  ASSUME ConstantsAssumption, ReasonableUse, CallEnds, NEW c \in Seq(Node), Held(c),
         Unlink, UNCHANGED owning
  PROVE  Abstract!Next
<1>1. /\ pc = "scan" /\ list /\ UNCHANGED <<list, value, owner, target, todo, kill, after, ret>>
      /\ Len(c) \in Nat
  BY DEF Unlink, Held, NoList
<1>2. PICK k \in 1 .. Len(c) : target = c[k] /\ Held(Without(c, k))'
  BY UnlinkHeld
<1> DEFINE d == Without(c, k)
<1>3. d \in Seq(Node) /\ Len(d) = Len(c) - 1
  BY <1>1, <1>2, HeldWhole, NodesWithout DEF Settled, Whole, IsChain
<1>4. Abstract!Open /\ Elems = Pairs(c)
  BY <1>1, OpenSeen
<1>5. Elems' = Pairs(d)'
  BY <1>1, <1>2, <1>3, ElemsSeenNext DEF ElemsExact
<1> DEFINE S == Node \X Value
           e == Pairs(c)
<1>6. /\ e \in Seq(S) /\ Len(e) = Len(c) /\ DOMAIN e = 1 .. Len(c)
      /\ \A i \in 1 .. Len(c) : e[i] = <<c[i], value[c[i]]>>
  BY PairsAreSeq
<1>7. Pairs(d)' = [i \in 1 .. Len(c) - 1 |-> IF i < k THEN e[i] ELSE e[i + 1]]
  <2>1. Pairs(d)' = [i \in 1 .. Len(c) - 1 |-> <<d[i], value[d[i]]>>]
    BY <1>1, <1>3 DEF Pairs
  <2>2. ASSUME NEW i \in 1 .. Len(c) - 1
        PROVE  <<d[i], value[d[i]]>> = IF i < k THEN e[i] ELSE e[i + 1]
    <3>1. d[i] = IF i < k THEN c[i] ELSE c[i + 1]
      BY DEF Without
    <3>2. i \in 1 .. Len(c) /\ i + 1 \in 1 .. Len(c)
      BY <1>1
    <3> HIDE DEF d, e
    <3> QED BY <1>6, <3>1, <3>2
  <2> QED BY <2>1, <2>2
<1>8. Elems' = SubSeq(Elems, 1, k - 1) \o SubSeq(Elems, k + 1, Len(Elems))
  <2>1. Elems = e
    BY <1>4
  <2> HIDE DEF e, S
  <2>2. SubSeq(e, 1, k - 1) \o SubSeq(e, k + 1, Len(e)) =
          [i \in 1 .. Len(e) - 1 |-> IF i < k THEN e[i] ELSE e[i + 1]]
    <3>1. e \in Seq(S) /\ k \in 1 .. Len(e)
      BY <1>6
    <3> QED BY <3>1, SeqCut
  <2>3. Pairs(d)' = SubSeq(e, 1, k - 1) \o SubSeq(e, k + 1, Len(e))
    BY <1>6, <1>7, <2>2
  <2> QED BY <1>5, <2>1, <2>3
<1>9. k \in DOMAIN Elems /\ Elems[k] = <<target, value[target]>>
  BY <1>2, <1>4, <1>6
<1> HIDE DEF d, e, S
<1>10. ~Unlinked /\ Unlinked' /\ pc' # "clear" /\ pc' # "push_all"
  BY <1>1 DEF Unlink, Unlinked
<1>11. Destroy(value[target])' = Destroy(value[target])
  BY <1>1 DEF Destroy, Freed
<1>12. Abstract!Remove(k)
  <2>1. (IF Unlinked THEN Destroy(value[target]) ELSE owner)' = Destroy(value[target])
    BY <1>10, <1>11
  <2>2. (IF Unlinked THEN <<"remove", target, TRUE>> ELSE ret)' = <<"remove", target, TRUE>>
    BY <1>1, <1>10
  <2>3. (pc = "clear")' = (pc = "clear")
    BY <1>1, <1>10
  <2>4. UNCHANGED (IF pc = "push_all" THEN todo ELSE <<>>)
    BY <1>1, <1>10
  <2>5. Elems[k][1] = target /\ Elems[k][2] = value[target]
    BY <1>9
  <2>6. Destroy(value[target]) =
          IF owning THEN [owner EXCEPT ![Elems[k][2]] = "freed"] ELSE owner
    <3>1. target \in live
      BY <1>1 DEF Held, Walked, Chained, Gone
    <3> QED BY <2>5, <3>1, DestroyFrees DEF Held
  <2>7. (IF Unlinked THEN Destroy(value[target]) ELSE owner) = owner
    BY <1>10
  <2> QED
    BY <1>1, <1>4, <1>8, <2>1, <2>2, <2>3, <2>4, <2>5, <2>6, <2>7 DEF Abstract!Remove
<1> QED BY <1>4, <1>9, <1>12 DEF Abstract!Next

\* What is left of a removal is not seen either: the value went with the node.
LEMMA DropUnseen ==
  ASSUME CallEnds, NEW c \in Seq(Node), Held(c), Drop, UNCHANGED owning
  PROVE  UNCHANGED Abstract!vars
<1>1. /\ pc = "drop" /\ pc' = "idle" /\ UNCHANGED list /\ FreeNode(target)
      /\ owner' = Destroy(value[target]) /\ ret' = <<"remove", target, TRUE>>
      /\ kill' = FALSE /\ after' = None /\ kill = FALSE /\ after = None
  BY DEF Drop, Return, CallEnds
<1>2. Held(c)'
  BY DropHeld
<1>3. \A i \in 1 .. Len(c) : value'[c[i]] = value[c[i]]
  <2>1. Range(c) = live \ {target}
    BY <1>1 DEF Held, Chained, Gone
  <2>2. \A i \in 1 .. Len(c) : c[i] # target
    BY <2>1, NodesOf
  <2> QED BY <1>1, <2>2 DEF FreeNode, Held, HeapOK
<1>4. UNCHANGED Elems
  BY <1>1, <1>2, <1>3, SameElems
<1>5. Unlinked /\ ~Unlinked'
  BY <1>1 DEF Unlinked
<1> QED BY <1>1, <1>4, <1>5 DEF Abstract!vars

\* A clearing starts with all the elements there are.
LEMMA StartClearRefined ==
  ASSUME ReasonableUse, NEW c \in Seq(Node), Held(c), NEW kills \in BOOLEAN,
         UNCHANGED owning, LinkedList_clear(kills) \/ LinkedList_destroy(kills)
  PROVE  Abstract!Next
<1>1. /\ pc = "idle" /\ list /\ pc' = "clear" /\ kill' = kills
      /\ after' \in {<<"clear", TRUE>>, <<"destroy", TRUE>>}
      /\ UNCHANGED <<list, heap, owner, target, todo, ret>>
  BY DEF LinkedList_clear, LinkedList_destroy, StartClear, Idle
<1>2. Abstract!Open
  BY <1>1, OpenSeen
<1>3. UNCHANGED Elems
  <2>1. Held(c)'
    BY StartClearHeld
  <2> QED BY <1>1, <2>1, SameElems DEF heap
<1>4. kill' \in BOOLEAN
  BY <1>1, Zenon
<1>5. Abstract!StartClearing
  BY <1>1, <1>2, <1>3, <1>4 DEF Abstract!StartClearing, Unlinked
<1> QED BY <1>5 DEF Abstract!Next

\* Clearing takes the elements from the front.
LEMMA ClearNextRefined ==
  ASSUME ReasonableUse, NEW c \in Seq(Node), Held(c), ClearNext, UNCHANGED owning
  PROVE  Abstract!Next
<1> DEFINE d == Tail(c)
<1>1. /\ pc = "clear" /\ list /\ FreeNode(cur) /\ owner' = Disposed(value[cur])
      /\ UNCHANGED <<list, pc, target, todo, kill, after, ret>>
  BY DEF ClearNext, Held, NoList
<1>2. c # <<>> /\ cur = c[1] /\ Held(d)'
  BY ClearNextHeld
<1>3. Elems = Pairs(c)
  BY <1>1, ElemsSeen DEF ElemsExact
<1>4. Elems' = Pairs(d)'
  <2>1. d \in Seq(Node)
    BY <1>2
  <2> HIDE DEF d
  <2> QED BY <1>1, <1>2, <2>1, ElemsSeenNext DEF ElemsExact
<1>5. Len(c) \in Nat /\ Len(c) >= 1 /\ Len(d) = Len(c) - 1 /\ d = Without(c, 1)
  BY <1>2, TailIsWithout
<1>6. \A i \in 1 .. Len(c) - 1 : d[i] = c[i + 1]
  BY <1>5 DEF Without
<1>7. \A i, j \in 1 .. Len(c) : c[i] = c[j] => i = j
  BY DEF Held, Chained, IsChain, IsInjective
<1> DEFINE e == Pairs(c)
<1>8. /\ e \in Seq(Node \X Value) /\ Len(e) = Len(c) /\ DOMAIN e = 1 .. Len(c)
      /\ \A i \in 1 .. Len(c) : e[i] = <<c[i], value[c[i]]>>
  BY PairsAreSeq
<1> HIDE DEF d, e
<1>9. Pairs(d)' = [i \in 1 .. Len(e) - 1 |-> IF i < 1 THEN e[i] ELSE e[i + 1]]
  <2>1. Pairs(d)' = [i \in 1 .. Len(c) - 1 |-> <<d[i], value'[d[i]]>>]
    BY <1>5 DEF Pairs
  <2>2. ASSUME NEW i \in 1 .. Len(c) - 1
        PROVE  <<d[i], value'[d[i]]>> = IF i < 1 THEN e[i] ELSE e[i + 1]
    <3>1. i + 1 \in 1 .. Len(c) /\ i + 1 # 1 /\ ~(i < 1) /\ 1 \in 1 .. Len(c)
      BY <1>5
    <3>2. d[i] = c[i + 1] /\ c[i + 1] # cur
      BY <1>2, <1>6, <1>7, <3>1
    <3>3. value'[c[i + 1]] = value[c[i + 1]]
      BY <1>1, <3>2 DEF FreeNode, Held, HeapOK
    <3> QED BY <1>8, <3>1, <3>2, <3>3
  <2> QED BY <1>8, <2>1, <2>2
<1>10. e # <<>> /\ Tail(e) = Pairs(d)' /\ Head(e) = e[1] /\ e[1][2] = value[cur]
  <2>1. e # <<>>
    BY <1>5, <1>8
  <2>2. Tail(e) = Without(e, 1)
    BY <1>8, <2>1, TailIsWithout
  <2>3. Head(e) = e[1] /\ 1 \in 1 .. Len(c)
    BY <1>5, <1>8, <2>1
  <2>4. Tail(e) = Pairs(d)'
    BY <1>9, <2>2 DEF Without
  <2>5. e[1] = <<c[1], value[c[1]]>>
    BY <1>8, <2>3
  <2> QED BY <1>2, <2>1, <2>3, <2>4, <2>5
<1>11. Elems = e /\ Elems' = Tail(Elems) /\ Elems # <<>> /\ Head(Elems)[2] = value[cur]
  BY <1>3, <1>4, <1>10 DEF e
<1>12. owner' = IF ~kill THEN [owner EXCEPT ![value[cur]] = "caller"]
                ELSE IF owning THEN [owner EXCEPT ![value[cur]] = "freed"] ELSE owner
  <2>1. cur \in live
    BY <1>1, <1>2, NodesOf DEF Held, Chained, Rest, Gone
  <2> QED BY <1>1, <2>1, DestroyFrees DEF Disposed, Held
<1>13. ~Unlinked /\ ~Unlinked'
  BY <1>1 DEF Unlinked
<1>14. Abstract!DisposeOfFirst
  BY <1>1, <1>11, <1>12, <1>13 DEF Abstract!DisposeOfFirst
<1> QED BY <1>14 DEF Abstract!Next

\* A clearing ends with none; LinkedList_destroy leaves no list.
LEMMA ClearDoneRefined ==
  ASSUME ConstantsAssumption, CallEnds, NEW c \in Seq(Node), Held(c), ClearDone,
         UNCHANGED owning
  PROVE  Abstract!Next
<1>1. /\ pc = "clear" /\ list /\ pc' = "idle" /\ list' = (after[1] = "clear")
      /\ kill' = FALSE /\ after' = None /\ ret' = after /\ UNCHANGED owner
      /\ after \in {<<"clear", TRUE>>, <<"destroy", TRUE>>}
  BY DEF ClearDone, Return, Held, NoList, CallEnds
<1>2. c = <<>> /\ Held(<<>>)'
  BY ClearDoneHeld
<1>3. Pairs(<<>>) = <<>> /\ Pairs(<<>>)' = <<>> /\ <<>> \in Seq(Node)
  BY DEF Pairs
<1>4. Elems = <<>> /\ Elems' = IF after[1] = "destroy" THEN NULL ELSE <<>>
  <2>1. Elems = <<>>
    BY <1>1, <1>2, <1>3, ElemsSeen DEF ElemsExact
  <2>2. Elems' = IF list' THEN <<>> ELSE NULL
    BY <1>2, <1>3, ElemsSeenNext DEF ElemsExact
  <2>3. CASE after = <<"clear", TRUE>>
    <3>1. after[1] = "clear" /\ list' = TRUE
      BY <1>1, <2>3
    <3> QED BY <2>1, <2>2, <3>1
  <2>4. CASE after = <<"destroy", TRUE>>
    <3>1. after[1] = "destroy" /\ list' = FALSE
      BY <1>1, <2>4
    <3> QED BY <2>1, <2>2, <3>1
  <2> QED BY <1>1, <2>3, <2>4
<1>5. Abstract!Cleared
  BY <1>1, <1>4 DEF Abstract!Cleared, Unlinked, None
<1> QED BY <1>5 DEF Abstract!Next

\* What the client allocates is not in the list.
LEMMA AllocRefined ==
  ASSUME NEW c \in Seq(Node), Held(c), NEW v \in Value, Client_alloc(v), UNCHANGED owning
  PROVE  Abstract!Next
<1>1. /\ pc = "idle" /\ owner[v] = "freed" /\ owner' = [owner EXCEPT ![v] = "caller"]
      /\ UNCHANGED <<list, heap, call, ret>>
  BY DEF Client_alloc
<1>2. UNCHANGED Elems
  <2>1. Held(c)'
    BY AllocHeld
  <2> QED BY <1>1, <2>1, SameElems DEF heap
<1>3. Abstract!Alloc(v)
  BY <1>1, <1>2 DEF Abstract!Alloc, Unlinked, call
<1> QED BY <1>3 DEF Abstract!Next

\* Every step of the list is one of the abstract list, or is not seen.
LEMMA StepRefined ==
  ASSUME ReasonableUse, ~BulkRefused, ListInv, CallEnds, Next
  PROVE  Abstract!Next \/ UNCHANGED Abstract!vars
<1> USE ConstantsAssumption
<1>1. PICK c \in Seq(Node) : Held(c)
  BY DEF ListInv
<1>2. UNCHANGED owning
  BY DEF Next
<1>3. CASE Step
  <2>1. CASE PushAllNext
    BY <1>1, <1>2, <2>1, PushAllNextRefined
  <2>2. CASE SeekNext
    BY <1>1, <1>2, <2>2, SeekNextRefined
  <2>3. CASE ScanNext
    <3>1. Held(c)'
      BY <1>1, <1>2, <2>3, ScanNextHeld
    <3>2. pc = "scan" /\ UNCHANGED <<list, heap, owner, pc, target, todo, kill, after, ret>>
      BY <2>3 DEF ScanNext
    <3> QED BY <1>1, <1>2, <3>1, <3>2, Unseen DEF heap, Unlinked
  <2>4. CASE Unlink
    BY <1>1, <1>2, <2>4, UnlinkRefined
  <2>5. CASE RescanNext
    <3>1. Held(c)'
      BY <1>1, <1>2, <2>5, RescanNextHeld
    <3>2. /\ pc = "rescan" /\ pc' \in {"rescan", "drop"}
          /\ UNCHANGED <<list, value, owner, target, todo, kill, after, ret>>
      BY <2>5 DEF RescanNext
    <3>3. Unlinked /\ Unlinked' /\ Destroy(value[target])' = Destroy(value[target])
      BY <1>2, <3>2 DEF Unlinked, Destroy, Freed
    <3> QED BY <1>1, <1>2, <3>1, <3>2, <3>3, Unseen
  <2>6. CASE Drop
    BY <1>1, <1>2, <2>6, DropUnseen
  <2>7. CASE ClearNext
    BY <1>1, <1>2, <2>7, ClearNextRefined
  <2>8. CASE ClearDone
    BY <1>1, <1>2, <2>8, ClearDoneRefined
  <2> QED BY <1>3, <2>1, <2>2, <2>3, <2>4, <2>5, <2>6, <2>7, <2>8 DEF Step
<1>4. CASE Calls
  <2>1. CASE LinkedList_create
    BY <1>1, <1>2, <2>1, CreateRefined
  <2>2. CASE LinkedList_pop
    BY <1>1, <1>2, <2>2, PopRefined
  <2>3. ASSUME NEW v \in Value, LinkedList_push(v) PROVE Abstract!Next
    BY <1>1, <1>2, <2>3, PushRefined
  <2>4. ASSUME NEW v \in Value, LinkedList_find_node(v) PROVE UNCHANGED Abstract!vars
    <3>1. Held(c)'
      BY <1>1, <1>2, <2>4, FindHeld
    <3>2. /\ pc = "idle" /\ pc' = "seek"
          /\ UNCHANGED <<list, heap, owner, target, kill, after, ret>>
      BY <2>4 DEF LinkedList_find_node, Idle
    <3> QED BY <1>1, <1>2, <3>1, <3>2, Unseen DEF heap, Unlinked
  <2>5. ASSUME NEW v \in Value, Client_alloc(v) PROVE Abstract!Next
    BY <1>1, <1>2, <2>5, AllocRefined
  <2>6. ASSUME NEW b \in Batches, LinkedList_push_all(b) PROVE Abstract!Next
    BY <1>1, <1>2, <2>6, PushAllRefined
  <2>7. ASSUME NEW n \in live, LinkedList_remove(n) PROVE UNCHANGED Abstract!vars
    BY <1>1, <1>2, <2>7, RemoveUnseen
  <2>8. ASSUME NEW kills \in BOOLEAN, LinkedList_clear(kills) \/ LinkedList_destroy(kills)
        PROVE  Abstract!Next
    BY <1>1, <1>2, <2>8, StartClearRefined
  <2> QED BY <1>4, <2>1, <2>2, <2>3, <2>4, <2>5, <2>6, <2>7, <2>8 DEF Calls
<1> QED BY <1>3, <1>4 DEF Next

\* The list does and returns what AbstractNodeList promises, where no push of
\* LinkedList_push_all is refused a node; LinkedList_push may be.
THEOREM ListIsRefined ==
  ReasonableUse /\ ~BulkRefused => (Spec => ImplementsAbstractNodeList)
<1> SUFFICES ASSUME ReasonableUse, ~BulkRefused PROVE Spec => ImplementsAbstractNodeList
  OBVIOUS
<1>1. Init => CallEnds
  BY DEF Init, CallEnds
<1>2. CallEnds /\ [Next]_vars => CallEnds'
  <2>1. CallEnds /\ UNCHANGED vars => CallEnds'
    BY DEF CallEnds, vars, call
  <2> QED BY <2>1, NextCallEnds
<1>3. Init => Abstract!Init
  BY DEF Init, Abstract!Init, Elems, Unlinked, None
<1>4. ListInv /\ CallEnds /\ [Next]_vars => [Abstract!Next]_(Abstract!vars)
  <2>1. ASSUME UNCHANGED vars PROVE UNCHANGED Abstract!vars
    BY <2>1 DEF vars, heap, call, Abstract!vars, Elems, Chains, IsChain, Rest, Unlinked,
       Destroy, Freed
  <2> QED BY <2>1, StepRefined
<1>5. Spec => []CallEnds
  BY <1>1, <1>2, PTL DEF Spec
<1> QED BY <1>3, <1>4, <1>5, AlwaysHeld, PTL DEF Spec, ImplementsAbstractNodeList, Abstract!Spec

-----------------------------------------------------------------------------
(* The conversions.                                                        *)

\* The loops of the conversions, and all loops.
Converts == {"from_array", "from_list", "to_array"}
Loops == {"idle", "push_all", "seek", "scan", "rescan", "drop", "clear"} \cup Converts

\* The contents of the nodes of a chain, and those of a sequence up to its n-th.
Copied(c) == [i \in 1 .. Len(c) |-> ContentOf[value[c[i]]]]
UpTo(s, n) == [i \in 1 .. n |-> s[i]]

\* What has been copied and what is still to copy make up the array.
FromArrayOK(c) ==
  pc = "from_array" =>
    /\ array \in Seq(Content)
    /\ \/ /\ list
          /\ fate \in Seq(Content) /\ Len(fate) = Len(c) + Len(array)
          /\ Copied(c) = UpTo(fate, Len(c))
          /\ array = [j \in 1 .. Len(array) |-> fate[Len(c) + j]]
       \/ ~list /\ array # <<>> /\ "create" \in failing

\* The first elements have been copied, all of them unless a push was refused.
FromListOK(c) ==
  /\ pc # "from_list" => index = 0
  /\ pc = "from_list" =>
       /\ list /\ source # NULL /\ index \in 0 .. Len(source)
       /\ fate = Contents(source)
       /\ "push" \notin failing => Copied(c) = UpTo(fate, index)

\* What comes before the node that is next has been copied.
ToArrayOK(c) ==
  /\ pc # "to_array" => out = <<>>
  /\ pc = "to_array" =>
       /\ list /\ fate = Copied(c)
       /\ \E k \in 1 .. Len(c) + 1 :
            /\ cur = IF k = Len(c) + 1 THEN NULL ELSE c[k]
            /\ out = UpTo(fate, k - 1)

\* The elements of the client's ArrayList are its own.
SourceOK ==
  source # NULL => /\ source \in Seq(Value)
                   /\ \A i \in 1 .. Len(source) : owner[source[i]] = "array"

Converting(c) ==
  /\ owning /\ pc \in Loops /\ failing \in Heaps
  /\ FromArrayOK(c) /\ FromListOK(c) /\ ToArrayOK(c) /\ SourceOK

ConvInv == \E c \in Seq(Node) : Held(c) /\ Converting(c)

-----------------------------------------------------------------------------
(* The list while a conversion is at work on it.                           *)

\* The contents of the list's values are those of its chain.
ValuesExact == \A c \in Seq(Node) : Held(c) => Contents(Values) = Copied(c)

\* A list has one chain, that of its values.
LEMMA ValuesSeen ==
  ValuesExact
<1> SUFFICES ASSUME NEW c \in Seq(Node), Held(c)
             PROVE  Contents(Values) = Copied(c)
  BY DEF ValuesExact
<1> DEFINE e == CHOOSE d \in Chains(Rest) : TRUE
<1>1. IsChain(c, Rest) /\ Range(c) \subseteq live /\ HeapOK
  BY DEF Held, Chained
<1>2. c \in Chains(Rest)
  BY <1>1, ChainListed
<1>3. \A d \in Chains(Rest) : d = c
  BY <1>1, ListedChain, ChainUnique, ConstantsAssumption
<1>4. e = c
  BY <1>2, <1>3
<1>5. DOMAIN c = 1 .. Len(c)
  OBVIOUS
<1>6. Values = [i \in DOMAIN e |-> value[e[i]]]
  BY Zenon DEF Values
<1> HIDE DEF e
<1>7. Values = [i \in 1 .. Len(c) |-> value[c[i]]]
  BY <1>4, <1>5, <1>6
<1> QED BY <1>7 DEF Contents, Copied

\* The same of the next state.
LEMMA ValuesSeenNext ==
  ValuesExact'
BY ValuesSeen, PTL

\* A step of a conversion that leaves the nodes as they are.
LEMMA KeepsHeld ==
  ASSUME NEW c \in Seq(Node), Held(c), pc \in Converts \cup {"idle"},
         UNCHANGED <<heap, owning>>, owner' \in [Value -> Owners],
         \A v \in Value : owner'[v] = "list" <=> owner[v] = "list",
         CallOK', pc' \in Converts \cup {"idle", "clear"}, pc' = "clear" => cur' = first,
         list' \/ (~list /\ pc' # "clear")
  PROVE  Held(c)'
<1>1. Whole(c)
  BY HeldWhole DEF Settled, Converts
<1>2. (HeapOK /\ NodesOwned)'
  BY DEF Held, HeapOK, NodesOwned, heap
<1>3. Chained(c)'
  BY <1>1, NoneGone DEF Chained, Whole, IsChain, Rest, Gone, heap, Converts
<1>4. Promised' /\ Walked(c)'
  BY DEF Promised, Walked, Gone, Converts
<1>5. ~list' => NoList'
  BY DEF Held, NoList, heap, Converts
<1> QED BY <1>2, <1>3, <1>4, <1>5 DEF Held, CallOK

\* A push of a conversion.
LEMMA PushedHeld ==
  ASSUME NEW c \in Seq(Node), Held(c), pc \in Converts, UNCHANGED <<list, call, owning>>,
         list, NEW v \in Value, owner[v] = "freed", NEW n \in Node \ live, PushInto(v, n)
  PROVE  /\ Append(c, n) \in Seq(Node) /\ Held(Append(c, n))'
         /\ Len(Append(c, n)) = Len(c) + 1
         /\ Copied(Append(c, n))' =
              [i \in 1 .. Len(c) + 1 |-> IF i = Len(c) + 1 THEN ContentOf[v] ELSE Copied(c)[i]]
<1> DEFINE d == Append(c, n)
<1>1. Whole(c)
  BY HeldWhole DEF Settled, Converts
<1>2. (HeapOK /\ NodesOwned /\ Whole(d))'
  BY <1>1, PushWhole, ConstantsAssumption DEF Held
<1>3. (CallOK /\ Promised /\ list /\ pc \in Converts)'
  BY DEF Held, CallOK, Promised, call, Converts
<1>4. Held(d)'
  BY <1>2, <1>3, WholeHeld DEF Settled, Converts
<1>5. /\ d \in Seq(Node) /\ Len(d) = Len(c) + 1 /\ d[Len(c) + 1] = n
      /\ \A i \in 1 .. Len(c) : d[i] = c[i] /\ c[i] \in Range(c)
      /\ Len(c) \in Nat
  BY NodesOf
<1>6. Range(c) = live /\ live \subseteq Node /\ value' = [value EXCEPT ![n] = v]
      /\ value \in [Node -> Value \cup {NULL}]
  BY <1>1 DEF Whole, PushInto, Held, HeapOK
<1> HIDE DEF d
<1>7. \A i \in 1 .. Len(c) + 1 :
        ContentOf[value'[d[i]]] = IF i = Len(c) + 1 THEN ContentOf[v] ELSE Copied(c)[i]
  <2> TAKE i \in 1 .. Len(c) + 1
  <2>1. CASE i = Len(c) + 1
    BY <1>5, <1>6, <2>1
  <2>2. CASE i # Len(c) + 1
    <3>1. i \in 1 .. Len(c)
      BY <1>5, <2>2
    <3>2. value'[d[i]] = value[c[i]]
      BY <1>5, <1>6, <3>1
    <3> QED BY <2>2, <3>1, <3>2 DEF Copied
  <2> QED BY <2>1, <2>2
<1>8. Copied(d)' = [i \in 1 .. Len(d) |-> ContentOf[value'[d[i]]]]
  BY DEF Copied
<1> QED BY <1>4, <1>5, <1>7, <1>8 DEF d

-----------------------------------------------------------------------------
(* LinkedList_from_array.                                                  *)

\* An array is to be copied: nothing of it has been so far.
LEMMA StartFromArray ==
  ASSUME NEW c \in Seq(Node), Held(c), Converting(c), UNCHANGED <<failing, owning>>,
         NEW a \in Arrays, LinkedList_from_array(a)
  PROVE  Held(c)' /\ Converting(c)'
<1>1. ~list /\ pc = "idle" /\ UNCHANGED <<heap, owner, source, index, drain, out>>
  BY DEF LinkedList_from_array
<1>2. CASE a = <<>> /\ UNCHANGED <<list, call, array, fate>>
  <2>1. Held(c)'
    <3>1. list' \in BOOLEAN
      BY <1>2, Zenon DEF Held, CallOK
    <3> QED BY <1>1, <1>2, <3>1, StayHeld DEF Held
  <2>2. Converting(c)'
    BY <1>1, <1>2 DEF Converting, FromArrayOK, FromListOK, ToArrayOK, SourceOK,
       call
  <2> QED BY <2>1, <2>2
<1>3. CASE a # <<>>
  <2>1. /\ pc' = "from_array" /\ array' = a /\ fate' = a
        /\ UNCHANGED <<cur, target, todo, kill, after, ret>>
        /\ list' = TRUE \/ ("create" \in failing /\ list' = FALSE)
    BY <1>3 DEF LinkedList_from_array, Run
  <2>2. CallOK'
    BY <2>1 DEF Held, CallOK
  <2>3. Held(c)'
    BY <1>1, <2>1, <2>2, KeepsHeld DEF Held, HeapOK, Converts
  <2>4. Len(c) = 0
    <3>1. Range(c) = {} /\ Len(c) \in Nat
      BY <1>1, HeldWhole DEF Held, NoList, Whole, Settled
    <3>2. \A i \in 1 .. Len(c) : c[i] \in Range(c)
      BY NodesOf
    <3>3. Len(c) # 0 => 1 \in 1 .. Len(c)
      BY <3>1
    <3> QED BY <3>1, <3>2, <3>3
  <2>5. a \in Seq(Content)
    BY ConversionAssumption DEF Arrays
  <2>6. FromArrayOK(c)'
    <3>1. CASE list' = TRUE
      <4>1. Copied(c)' = UpTo(a, 0)
        BY <2>4 DEF Copied, UpTo
      <4>2. a = [j \in 1 .. Len(a) |-> a[0 + j]]
        BY <2>5
      <4> QED BY <2>1, <2>4, <2>5, <3>1, <4>1, <4>2 DEF FromArrayOK
    <3>2. CASE list' = FALSE
      BY <1>3, <2>1, <2>5, <3>2 DEF FromArrayOK
    <3> QED BY <2>1, <3>1, <3>2
  <2>7. Converting(c)'
    BY <1>1, <2>1, <2>6 DEF Converting, Loops, Converts, FromListOK, ToArrayOK, SourceOK
  <2> QED BY <2>3, <2>7
<1> QED BY <1>2, <1>3 DEF LinkedList_from_array

\* An element is copied to the end of the list.
LEMMA FromArrayNextKeeps ==
  ASSUME NEW c \in Seq(Node), Held(c), Converting(c), UNCHANGED <<failing, owning>>,
         FromArrayNext
  PROVE  ConvInv'
<1>1. /\ pc = "from_array" /\ array # <<>> /\ list /\ array' = Tail(array)
      /\ UNCHANGED <<list, call, ret, source, index, drain, out, fate>>
  BY DEF FromArrayNext
<1>2. PICK v \in Copies(Head(array)) : PushSucceeds(v)
  BY DEF FromArrayNext
<1>3. v \in Value /\ owner[v] = "freed" /\ ContentOf[v] = Head(array)
  BY <1>2 DEF Copies
<1>4. PICK n \in Node \ live : PushInto(v, n)
  BY <1>2 DEF PushSucceeds
<1> DEFINE d == Append(c, n)
           l == Len(c)
           m == Len(array)
<1>5. /\ d \in Seq(Node) /\ Held(d)' /\ Len(d) = l + 1
      /\ Copied(d)' = [i \in 1 .. l + 1 |-> IF i = l + 1 THEN ContentOf[v] ELSE Copied(c)[i]]
  BY <1>1, <1>3, <1>4, PushedHeld DEF Converts
<1>6. /\ array \in Seq(Content) /\ fate \in Seq(Content) /\ Len(fate) = l + m
      /\ Copied(c) = UpTo(fate, l) /\ array = [j \in 1 .. m |-> fate[l + j]]
  BY <1>1 DEF Converting, FromArrayOK
<1>7. l \in Nat /\ m \in Nat /\ m >= 1 /\ Head(array) = array[1] /\ Len(Tail(array)) = m - 1
      /\ Tail(array) \in Seq(Content) /\ \A j \in 1 .. m - 1 : Tail(array)[j] = array[j + 1]
  BY <1>1, <1>6
<1>8. Tail(array) = [j \in 1 .. m - 1 |-> Tail(array)[j]]
  <2> DEFINE t == Tail(array)
  <2>1. t \in Seq(Content) /\ Len(t) = m - 1
    BY <1>7
  <2> HIDE DEF t
  <2>2. t = [j \in 1 .. Len(t) |-> t[j]]
    BY <2>1
  <2>3. t = [j \in 1 .. m - 1 |-> t[j]]
    BY <2>1, <2>2
  <2> QED BY <2>3 DEF t
<1> HIDE DEF d, l, m
<1>9. Copied(d)' = UpTo(fate, l + 1)
  <2>1. ContentOf[v] = fate[l + 1]
    BY <1>3, <1>6, <1>7
  <2>2. \A i \in 1 .. l + 1 : i # l + 1 => i \in 1 .. l
    BY <1>7
  <2> QED BY <1>5, <1>6, <2>1, <2>2 DEF UpTo
<1>10. Tail(array) = [j \in 1 .. m - 1 |-> fate[l + 1 + j]]
  <2>1. \A j \in 1 .. m - 1 : Tail(array)[j] = fate[l + 1 + j]
    <3> TAKE j \in 1 .. m - 1
    <3>1. j + 1 \in 1 .. m /\ l + (j + 1) = l + 1 + j
      BY <1>7
    <3>2. array[j + 1] = fate[l + (j + 1)]
      BY <1>6, <3>1
    <3> QED BY <1>7, <3>1, <3>2
  <2> QED BY <1>8, <2>1
<1>11. FromArrayOK(d)'
  <2>1. Len(fate) = (l + 1) + (m - 1)
    BY <1>6, <1>7
  <2> QED BY <1>1, <1>5, <1>6, <1>7, <1>9, <1>10, <2>1 DEF FromArrayOK
<1>12. SourceOK'
  BY <1>1, <1>3, <1>4 DEF Converting, SourceOK, PushInto, Held, HeapOK
<1>13. Converting(d)'
  BY <1>1, <1>11, <1>12 DEF Converting, FromListOK, ToArrayOK, call
<1> QED BY <1>5, <1>13 DEF ConvInv

\* The copying is given up; a value that was copied in vain is nobody's.
LEMMA CatchKeeps ==
  ASSUME NEW c \in Seq(Node), Held(c), Converting(c), UNCHANGED <<failing, owning>>,
         FromArrayNoMemory \/ FromArrayRefused
  PROVE  Held(c)' /\ Converting(c)'
<1>1. pc = "from_array" /\ FromArrayCatch
  BY DEF FromArrayNoMemory, FromArrayRefused
<1>2. UNCHANGED <<heap, source, index, out>>
  BY <1>1 DEF FromArrayCatch
<1>3. /\ owner' \in [Value -> Owners]
      /\ \A v \in Value : \/ owner'[v] = owner[v]
                          \/ owner[v] = "freed" /\ owner'[v] = "freed twice"
  <2>1. CASE FromArrayNoMemory
    BY <2>1 DEF FromArrayNoMemory, Held, HeapOK
  <2>2. CASE FromArrayRefused
    <3>1. PICK v \in Copies(Head(array)) : owner' = Freed(Freed(CopyMade(v), v), v)
      BY <2>2 DEF FromArrayRefused
    <3>2. v \in Value /\ owner[v] = "freed" /\ owner \in [Value -> Owners]
      BY <3>1 DEF Copies, Held, HeapOK
    <3>3. owner' = [owner EXCEPT ![v] = "freed twice"]
      BY <3>1, <3>2 DEF Freed, CopyMade
    <3> QED BY <3>2, <3>3 DEF Owners
  <2> QED BY <2>1, <2>2
<1>4. /\ pc' \in {"idle", "clear"} /\ (pc' = "clear" => cur' = first)
      /\ UNCHANGED list /\ (list \/ pc' # "clear")
  BY <1>1 DEF FromArrayCatch, StartClear, Return
<1>5. CallOK'
  <2>1. first \in Node \cup {NULL} /\ <<>> \in Seq(Value)
    BY DEF Held, HeapOK
  <2>2. list' \in BOOLEAN /\ kill' \in BOOLEAN
    <3>1. list \in BOOLEAN
      BY Zenon DEF Held, CallOK
    <3>2. kill' = TRUE \/ kill' = FALSE
      BY <1>1 DEF FromArrayCatch, StartClear, Return
    <3>3. list' \in BOOLEAN
      BY <1>4, <3>1, Zenon
    <3>4. kill' \in BOOLEAN
      BY <3>2, Zenon
    <3> QED BY <3>3, <3>4
  <2> QED BY <1>1, <2>1, <2>2 DEF FromArrayCatch, StartClear, Return, Held, CallOK
<1>6. Held(c)'
  <2>1. \A v \in Value : owner'[v] = "list" <=> owner[v] = "list"
    BY <1>3
  <2> QED BY <1>1, <1>2, <1>3, <1>4, <1>5, <2>1, KeepsHeld DEF Converts
<1>7. FromArrayOK(c)' /\ FromListOK(c)' /\ ToArrayOK(c)' /\ pc' \in Loops
  BY <1>1, <1>2, <1>4 DEF Converting, FromArrayOK, FromListOK, ToArrayOK, Loops
<1>8. SourceOK'
  <2>1. source # NULL => \A i \in 1 .. Len(source) : source[i] \in Value
    BY DEF Converting, SourceOK
  <2>2. ASSUME source # NULL, NEW i \in 1 .. Len(source)
        PROVE  owner'[source[i]] = "array"
    BY <1>3, <2>1, <2>2, ZenonT(60) DEF Converting, SourceOK
  <2> QED BY <1>2, <2>2 DEF Converting, SourceOK
<1> QED BY <1>6, <1>7, <1>8 DEF Converting

\* The list is the client's.
LEMMA FromArrayDoneKeeps ==
  ASSUME NEW c \in Seq(Node), Held(c), Converting(c), UNCHANGED <<failing, owning>>,
         FromArrayDone
  PROVE  /\ Held(c)' /\ Converting(c)'
         /\ Contents(Values') = fate
<1>1. /\ pc = "from_array" /\ array = <<>> /\ pc' = "idle"
      /\ UNCHANGED <<list, heap, owner, array, source, index, drain, out>>
  BY DEF FromArrayDone, Return
<1>2. list
  BY <1>1 DEF Converting, FromArrayOK
<1>3. CallOK'
  <2>1. <<>> \in Seq(Value)
    OBVIOUS
  <2>2. kill' = FALSE
    BY DEF FromArrayDone, Return
  <2> QED BY <1>1, <1>2, <2>1, <2>2 DEF FromArrayDone, Return, CallOK
<1>4. Held(c)'
  BY <1>1, <1>2, <1>3, KeepsHeld DEF Held, HeapOK, Converts
<1>5. Converting(c)'
  BY <1>1 DEF Converting, FromArrayOK, FromListOK, ToArrayOK, SourceOK, Loops
<1>6. Contents(Values') = fate
  <2>1. Contents(Values') = Copied(c)'
    BY <1>4, ValuesSeenNext DEF ValuesExact
  <2>2. Copied(c)' = Copied(c)
    BY <1>1 DEF Copied, heap
  <2>3. fate \in Seq(Content) /\ Len(fate) = Len(c) /\ Copied(c) = UpTo(fate, Len(c))
    BY <1>1, <1>2 DEF Converting, FromArrayOK
  <2>4. fate = [i \in 1 .. Len(fate) |-> fate[i]]
    BY <2>3
  <2> QED BY <2>1, <2>2, <2>3, <2>4 DEF UpTo
<1> QED BY <1>4, <1>5, <1>6

-----------------------------------------------------------------------------
(* LinkedList_from_ArrayList.                                              *)

\* The client puts values of its own into an ArrayList.
LEMMA FillKeeps ==
  ASSUME NEW c \in Seq(Node), Held(c), Converting(c), UNCHANGED <<failing, owning>>,
         NEW b \in Batches, Client_fill(b)
  PROVE  Held(c)' /\ Converting(c)'
<1>1. /\ pc = "idle" /\ source' = b
      /\ owner' = [v \in Value |-> IF v \in Range(b) THEN "array" ELSE owner[v]]
      /\ UNCHANGED <<list, heap, call, ret, array, index, drain, out, fate>>
  BY DEF Client_fill
<1>2. b \in Seq(Value) /\ DOMAIN b = 1 .. Len(b)
  BY DEF Batches, ConstantsAssumption
<1>3. \A i \in 1 .. Len(b) : b[i] \in Range(b) /\ owner'[b[i]] = "array"
  <2>1. \A i \in 1 .. Len(b) : b[i] \in Range(b) /\ b[i] \in Value
    BY <1>2, NodesOf
  <2> QED BY <1>1, <2>1
<1>4. \A v \in Range(b) : owner[v] = "caller"
  BY DEF Client_fill, CanPassAll, CanPass, Range
<1>5. owner' \in [Value -> Owners] /\ \A v \in Value : owner'[v] = "list" <=> owner[v] = "list"
  <2>1. owner \in [Value -> Owners]
    BY DEF Held, HeapOK
  <2> QED BY <1>1, <1>4, <2>1 DEF Owners
<1>6. Held(c)'
  <2>1. CallOK' /\ pc' = "idle"
    BY <1>1 DEF Held, CallOK, call
  <2> QED BY <1>1, <1>5, <2>1, KeepsHeld
<1>7. SourceOK'
  BY <1>1, <1>2, <1>3 DEF SourceOK
<1>8. Converting(c)'
  BY <1>1, <1>7 DEF Converting, FromArrayOK, FromListOK, ToArrayOK, call
<1> QED BY <1>6, <1>8

\* Nothing of the ArrayList has been copied yet.
LEMMA StartFromList ==
  ASSUME NEW c \in Seq(Node), Held(c), Converting(c), UNCHANGED <<failing, owning>>,
         NEW drains \in BOOLEAN, LinkedList_from_ArrayList(drains)
  PROVE  Held(c)' /\ Converting(c)'
<1>1. /\ ~list /\ pc = "idle" /\ source # NULL
      /\ UNCHANGED <<heap, owner, array, source, index, out>>
  BY DEF LinkedList_from_ArrayList
<1>2. CASE UNCHANGED <<list, call, drain, fate>>
  <2>1. Held(c)'
    <3>1. list' \in BOOLEAN
      BY <1>2, Zenon DEF Held, CallOK
    <3> QED BY <1>1, <1>2, <3>1, StayHeld DEF Held
  <2>2. Converting(c)'
    BY <1>1, <1>2 DEF Converting, FromArrayOK, FromListOK, ToArrayOK, SourceOK,
       call
  <2> QED BY <2>1, <2>2
<1>3. CASE list' = TRUE /\ Run("from_list") /\ fate' = Contents(source)
  <2>1. pc' = "from_list" /\ UNCHANGED <<cur, target, todo, kill, after, ret>>
    BY <1>3 DEF Run
  <2>2. CallOK'
    BY <1>3, <2>1 DEF Held, CallOK
  <2>3. Held(c)'
    BY <1>1, <1>3, <2>1, <2>2, KeepsHeld DEF Held, HeapOK, Converts
  <2>4. Len(c) = 0
    <3>1. Range(c) = {} /\ Len(c) \in Nat
      BY <1>1, HeldWhole DEF Held, NoList, Whole, Settled
    <3>2. \A i \in 1 .. Len(c) : c[i] \in Range(c)
      BY NodesOf
    <3>3. Len(c) # 0 => 1 \in 1 .. Len(c)
      BY <3>1
    <3> QED BY <3>1, <3>2, <3>3
  <2>5. FromListOK(c)'
    <3>1. index = 0 /\ source \in Seq(Value)
      BY <1>1 DEF Converting, FromListOK, SourceOK
    <3>2. Copied(c)' = UpTo(fate, index)'
      BY <1>1, <2>4, <3>1 DEF Copied, UpTo
    <3> QED BY <1>1, <1>3, <2>1, <3>1, <3>2 DEF FromListOK
  <2>6. Converting(c)'
    BY <1>1, <2>1, <2>5 DEF Converting, Loops, Converts, FromArrayOK, ToArrayOK, SourceOK
  <2> QED BY <2>3, <2>6
<1> QED BY <1>2, <1>3 DEF LinkedList_from_ArrayList

\* One element is copied to the end of the list, or into memory that is lost.
LEMMA FromListNextKeeps ==
  ASSUME NEW c \in Seq(Node), Held(c), Converting(c), UNCHANGED <<failing, owning>>,
         FromListNext
  PROVE  ConvInv'
<1>1. /\ pc = "from_list" /\ index < Len(source) /\ index' = index + 1
      /\ UNCHANGED <<list, call, ret, array, source, drain, out, fate>>
  BY DEF FromListNext
<1>2. PICK v \in Copies(ContentOf[source[index + 1]]) :
        \/ PushSucceeds(v)
        \/ /\ "push" \in failing
           /\ owner' = [owner EXCEPT ![v] = "copy"]
           /\ UNCHANGED heap
  BY DEF FromListNext, CopyMade
<1>3. v \in Value /\ owner[v] = "freed" /\ ContentOf[v] = ContentOf[source[index + 1]]
  BY <1>2 DEF Copies
<1>4. /\ list /\ source # NULL /\ index \in 0 .. Len(source) /\ source \in Seq(Value)
      /\ fate = Contents(source)
      /\ "push" \notin failing => Copied(c) = UpTo(fate, index)
  BY <1>1 DEF Converting, FromListOK, SourceOK
<1>5. index + 1 \in 0 .. Len(source) /\ index + 1 \in 1 .. Len(source) /\ index \in Nat
  BY <1>1, <1>4
<1>6. owner \in [Value -> Owners]
  BY DEF Held, HeapOK
<1>7. ASSUME \A w \in Value : w # v => owner'[w] = owner[w]
      PROVE  SourceOK'
  <2>1. \A i \in 1 .. Len(source) : source[i] \in Value /\ owner[source[i]] = "array"
    BY <1>4 DEF Converting, SourceOK
  <2> QED BY <1>1, <1>3, <1>4, <1>7, <2>1 DEF SourceOK
<1>8. CASE /\ "push" \in failing
           /\ owner' = [owner EXCEPT ![v] = "copy"]
           /\ UNCHANGED heap
  <2>1. owner' \in [Value -> Owners] /\ \A w \in Value : owner'[w] = "list" <=> owner[w] = "list"
    BY <1>3, <1>6, <1>8 DEF Owners
  <2>2. Held(c)'
    <3>1. CallOK' /\ pc' = "from_list"
      BY <1>1 DEF Held, CallOK, call
    <3> QED BY <1>1, <1>4, <1>8, <2>1, <3>1, KeepsHeld DEF Converts
  <2>3. FromListOK(c)'
    BY <1>1, <1>4, <1>5, <1>8 DEF FromListOK, call
  <2>4. SourceOK'
    BY <1>3, <1>6, <1>7, <1>8
  <2>5. Converting(c)'
    BY <1>1, <2>3, <2>4 DEF Converting, FromArrayOK, ToArrayOK, call
  <2> QED BY <2>2, <2>5 DEF ConvInv
<1>9. CASE PushSucceeds(v)
  <2>1. PICK n \in Node \ live : PushInto(v, n)
    BY <1>9 DEF PushSucceeds
  <2> DEFINE d == Append(c, n)
  <2>2. /\ d \in Seq(Node) /\ Held(d)' /\ Len(d) = Len(c) + 1
        /\ Copied(d)' = [i \in 1 .. Len(c) + 1 |->
                           IF i = Len(c) + 1 THEN ContentOf[v] ELSE Copied(c)[i]]
    BY <1>1, <1>3, <1>4, <2>1, PushedHeld DEF Converts
  <2> HIDE DEF d
  <2>3. ASSUME "push" \notin failing
        PROVE  Copied(d)' = UpTo(fate, index + 1)
    <3>1. Copied(c) = UpTo(fate, index) /\ DOMAIN Copied(c) = 1 .. Len(c) /\ Len(c) \in Nat
      BY <1>4, <2>3 DEF Copied
    <3>2. Len(c) = index
      <4>1. 1 .. Len(c) = 1 .. index
        BY <3>1 DEF UpTo
      <4>2. Len(c) \in 1 .. Len(c) \/ Len(c) = 0
        BY <3>1
      <4>3. index \in 1 .. index \/ index = 0
        BY <1>5
      <4> QED BY <1>5, <3>1, <4>1, <4>2, <4>3
    <3>3. fate[index + 1] = ContentOf[v]
      BY <1>3, <1>4, <1>5 DEF Contents
    <3>4. \A i \in 1 .. index + 1 : i # index + 1 => i \in 1 .. index
      BY <1>5
    <3> QED BY <2>2, <3>1, <3>2, <3>3, <3>4 DEF UpTo
  <2>4. FromListOK(d)'
    BY <1>1, <1>4, <1>5, <2>3 DEF FromListOK, call
  <2>5. \A w \in Value : owner'[w] = owner[w] \/ (w = v /\ owner'[w] = "list")
    BY <1>6, <2>1 DEF PushInto
  <2>6. SourceOK'
    BY <1>7, <2>5
  <2>7. Converting(d)'
    BY <1>1, <2>4, <2>6 DEF Converting, FromArrayOK, ToArrayOK, call
  <2> QED BY <2>2, <2>7 DEF ConvInv
<1> QED BY <1>2, <1>8, <1>9

\* The list that was being built is lost with what it holds: there is none any more.
LEMMA FromListNoMemoryKeeps ==
  ASSUME NEW c \in Seq(Node), Held(c), Converting(c), UNCHANGED <<failing, owning>>,
         FromListNoMemory
  PROVE  Held(<<>>)' /\ Converting(<<>>)' /\ <<>> \in Seq(Node)
<1>1. /\ pc = "from_list" /\ "clone" \in failing /\ list' = FALSE /\ pc' = "idle"
      /\ first' = NULL /\ last' = NULL /\ size' = 0 /\ live' = {}
      /\ next' = [n \in Node |-> NULL] /\ value' = [n \in Node |-> NULL]
      /\ index' = 0 /\ UNCHANGED <<owner, array, source, out>>
      /\ cur' = NULL /\ target' = NULL /\ todo' = <<>> /\ kill' = FALSE
  BY DEF FromListNoMemory, Return
<1>2. HeapOK'
  BY <1>1, FS_EmptySet DEF HeapOK, Held
<1>3. (NodesOwned /\ Promised /\ NoList)'
  BY <1>1 DEF NodesOwned, Promised, NoList
<1>4. CallOK'
  <2>1. <<>> \in Seq(Value)
    OBVIOUS
  <2> QED BY <1>1, <2>1 DEF CallOK
<1>5. Whole(<<>>)'
  <2>1. Range(<<>>) = {} /\ <<>> \in Seq(Node) /\ Len(<<>>) = 0
    BY DEF Range
  <2> QED BY <1>1, <2>1 DEF Whole, IsChain, IsInjective
<1>6. Held(<<>>)'
  BY <1>1, <1>2, <1>3, <1>4, <1>5, WholeHeld DEF Settled
<1>7. Converting(<<>>)'
  BY <1>1 DEF Converting, FromArrayOK, FromListOK, ToArrayOK, SourceOK, Loops
<1> QED BY <1>1, <1>6, <1>7

\* The list is the client's; the ArrayList is destroyed if that was asked for.
LEMMA FromListDoneKeeps ==
  ASSUME NEW c \in Seq(Node), Held(c), Converting(c), UNCHANGED <<failing, owning>>,
         FromListDone
  PROVE  /\ Held(c)' /\ Converting(c)'
         /\ "push" \notin failing => Contents(Values') = fate
<1>1. /\ pc = "from_list" /\ index >= Len(source) /\ pc' = "idle" /\ index' = 0
      /\ UNCHANGED <<list, heap, array, out>>
      /\ cur' = NULL /\ target' = NULL /\ todo' = <<>> /\ kill' = FALSE
  BY DEF FromListDone, Return
<1>2. /\ list /\ source # NULL /\ index \in 0 .. Len(source) /\ source \in Seq(Value)
      /\ fate = Contents(source)
      /\ "push" \notin failing => Copied(c) = UpTo(fate, index)
      /\ \A i \in 1 .. Len(source) : owner[source[i]] = "array"
  BY <1>1 DEF Converting, FromListOK, SourceOK
<1>3. owner \in [Value -> Owners] /\ \A v \in Range(source) : owner[v] = "array"
  <2>1. Range(source) = {source[i] : i \in 1 .. Len(source)}
    BY <1>2, NodesOf
  <2> QED BY <1>2, <2>1 DEF Held, HeapOK
<1>4. \/ source' = NULL /\ owner' = [v \in Value |->
                                     IF v \in Range(source) THEN "freed" ELSE owner[v]]
      \/ UNCHANGED <<owner, source>>
  <2>1. \A v \in Value : v \in Range(source) => Freed(owner, v)[v] = "freed"
    BY <1>3 DEF Freed
  <2> QED BY <2>1 DEF FromListDone
<1>5. owner' \in [Value -> Owners]
  BY <1>3, <1>4 DEF Owners
<1>6. \A v \in Value : owner'[v] = owner[v] \/ (owner[v] = "array" /\ owner'[v] = "freed")
  BY <1>3, <1>4
<1>7. CallOK'
  <2>1. <<>> \in Seq(Value)
    OBVIOUS
  <2> QED BY <1>1, <1>2, <2>1 DEF CallOK
<1>8. Held(c)'
  <2>1. \A v \in Value : owner'[v] = "list" <=> owner[v] = "list"
    BY <1>6
  <2> QED BY <1>1, <1>2, <1>5, <1>7, <2>1, KeepsHeld DEF Converts
<1>9. SourceOK'
  BY <1>4 DEF Converting, SourceOK
<1>10. Converting(c)'
  BY <1>1, <1>9 DEF Converting, FromArrayOK, FromListOK, ToArrayOK, Loops
<1>11. ASSUME "push" \notin failing
       PROVE  Contents(Values') = fate
  <2>1. Contents(Values') = Copied(c)'
    BY <1>8, ValuesSeenNext DEF ValuesExact
  <2>2. Copied(c)' = Copied(c)
    BY <1>1 DEF Copied, heap
  <2>3. index = Len(source)
    BY <1>1, <1>2
  <2>4. fate = [i \in 1 .. Len(source) |-> fate[i]]
    BY <1>2 DEF Contents
  <2> QED BY <1>2, <1>11, <2>1, <2>2, <2>3, <2>4 DEF UpTo
<1> QED BY <1>8, <1>10, <1>11

-----------------------------------------------------------------------------
(* LinkedList_to_array.                                                    *)

\* The walk starts before the first node, or there is nothing to copy.
LEMMA StartToArray ==
  ASSUME NEW c \in Seq(Node), Held(c), Converting(c), UNCHANGED <<failing, owning>>,
         NEW drains \in BOOLEAN, LinkedList_to_array(drains)
  PROVE  Held(c)' /\ Converting(c)'
<1>1. list /\ pc = "idle" /\ UNCHANGED <<list, heap, owner, array, source, index, out>>
  BY DEF LinkedList_to_array, Idle
<1>2. CASE UNCHANGED <<call, drain, fate>>
  <2>1. Held(c)'
    <3>1. CallOK' /\ pc' = "idle"
      BY <1>1, <1>2 DEF Held, CallOK, call
    <3> QED BY <1>1, <3>1, KeepsHeld DEF Held, HeapOK
  <2>2. Converting(c)'
    BY <1>1, <1>2 DEF Converting, FromArrayOK, FromListOK, ToArrayOK, SourceOK,
       call
  <2> QED BY <2>1, <2>2
<1>3. CASE /\ size > 0 /\ pc' = "to_array" /\ cur' = first /\ fate' = Contents(Values)
           /\ UNCHANGED <<target, todo, kill, after, ret>>
  <2>1. CallOK'
    BY <1>1, <1>3 DEF Held, CallOK, HeapOK
  <2>2. Held(c)'
    BY <1>1, <1>3, <2>1, KeepsHeld DEF Held, HeapOK, Converts
  <2>3. Whole(c) /\ Len(c) \in Nat
    BY <1>1, HeldWhole DEF Settled
  <2>4. cur' = c[1] /\ 1 \in 1 .. Len(c) + 1 /\ 1 # Len(c) + 1
    BY <1>3, <2>3 DEF Whole, IsChain
  <2>5. fate' = Copied(c) /\ Copied(c)' = Copied(c)
    BY <1>1, <1>3, ValuesSeen DEF ValuesExact, Copied, heap
  <2>6. out' = UpTo(fate, 1 - 1)'
    BY <1>1 DEF UpTo, Converting, ToArrayOK
  <2>7. ToArrayOK(c)'
    BY <1>1, <1>3, <2>4, <2>5, <2>6 DEF ToArrayOK
  <2>8. Converting(c)'
    BY <1>1, <1>3, <2>7 DEF Converting, Loops, Converts, FromArrayOK, FromListOK, SourceOK
  <2> QED BY <2>2, <2>8
<1> QED BY <1>2, <1>3 DEF LinkedList_to_array

\* The contents of the next node are copied.
LEMMA ToArrayNextKeeps ==
  ASSUME NEW c \in Seq(Node), Held(c), Converting(c), UNCHANGED <<failing, owning>>,
         ToArrayNext
  PROVE  Held(c)' /\ Converting(c)'
<1>1. /\ pc = "to_array" /\ cur # NULL /\ cur' = next[cur]
      /\ out' = Append(out, ContentOf[value[cur]])
      /\ UNCHANGED <<list, heap, owner, pc, target, todo, kill, after, ret, array, source,
                     index, drain, fate>>
  BY DEF ToArrayNext, heap
<1>2. list /\ fate = Copied(c)
  BY <1>1 DEF Converting, ToArrayOK
<1>3. PICK k \in 1 .. Len(c) + 1 : /\ cur = IF k = Len(c) + 1 THEN NULL ELSE c[k]
                                   /\ out = UpTo(fate, k - 1)
  BY <1>1 DEF Converting, ToArrayOK
<1>4. Whole(c) /\ Len(c) \in Nat
  BY <1>1, HeldWhole DEF Settled
<1>5. k \in 1 .. Len(c) /\ cur = c[k] /\ cur \in Node
  BY <1>1, <1>3, <1>4
<1>6. next[cur] = IF k = Len(c) THEN NULL ELSE c[k + 1]
  BY <1>4, <1>5 DEF Whole, IsChain
<1>7. CallOK'
  BY <1>1, <1>5 DEF Held, CallOK, HeapOK
<1>8. Held(c)'
  BY <1>1, <1>2, <1>7, KeepsHeld DEF Held, HeapOK, Converts
<1>9. Append(out, ContentOf[value[cur]]) = UpTo(fate, k)
  <2> DEFINE D == {fate[i] : i \in 1 .. Len(c)}
             o == UpTo(fate, k - 1)
             a == Append(o, fate[k])
  <2>1. ContentOf[value[cur]] = fate[k]
    BY <1>2, <1>5 DEF Copied
  <2>2. o \in Seq(D) /\ Len(o) = k - 1 /\ \A i \in 1 .. k - 1 : o[i] = fate[i]
    <3>1. k - 1 \in Nat /\ \A i \in 1 .. k - 1 : i \in 1 .. Len(c)
      BY <1>4, <1>5
    <3>2. o \in [1 .. k - 1 -> D]
      BY <3>1 DEF UpTo
    <3>3. DOMAIN o = 1 .. k - 1
      BY DEF UpTo
    <3> QED BY <3>1, <3>2, <3>3 DEF UpTo
  <2>3. fate[k] \in D
    BY <1>5
  <2> HIDE DEF o, D
  <2>4. a \in Seq(D) /\ Len(a) = k /\ \A i \in 1 .. k : a[i] = fate[i]
    <3>1. k \in Nat
      BY <1>5
    <3> QED BY <2>2, <2>3, <3>1
  <2> HIDE DEF a
  <2>5. a = [i \in 1 .. Len(a) |-> a[i]]
    BY <2>4
  <2>6. a = UpTo(fate, k)
    BY <2>4, <2>5 DEF UpTo
  <2> QED BY <1>3, <2>1, <2>6 DEF a, o
<1>10. ToArrayOK(c)'
  <2>1. Copied(c)' = Copied(c)
    BY <1>1 DEF Copied, heap
  <2>2. k + 1 \in 1 .. Len(c) + 1 /\ (k + 1) - 1 = k /\ (k + 1 = Len(c) + 1 <=> k = Len(c))
    BY <1>4, <1>5
  <2>3. /\ cur' = IF k + 1 = Len(c) + 1 THEN NULL ELSE c[k + 1]
        /\ out' = UpTo(fate, (k + 1) - 1)'
    BY <1>1, <1>6, <1>9, <2>2 DEF UpTo
  <2> QED BY <1>1, <1>2, <2>1, <2>2, <2>3 DEF ToArrayOK
<1>11. Converting(c)'
  BY <1>1, <1>10 DEF Converting, FromArrayOK, FromListOK, SourceOK
<1> QED BY <1>8, <1>11

\* The array is handed out; the list is cleared if that was asked for.
LEMMA ToArrayDoneKeeps ==
  ASSUME NEW c \in Seq(Node), Held(c), Converting(c), UNCHANGED <<failing, owning>>,
         ToArrayDone
  PROVE  Held(c)' /\ Converting(c)'
<1>1. /\ pc = "to_array" /\ out' = <<>>
      /\ UNCHANGED <<list, heap, owner, array, source, index>>
  BY DEF ToArrayDone
<1>2. list
  BY <1>1 DEF Converting, ToArrayOK
<1>3. pc' \in {"idle", "clear"} /\ (pc' = "clear" => cur' = first)
  BY DEF ToArrayDone, StartClear, Return
<1>4. CallOK'
  <2>1. first \in Node \cup {NULL} /\ <<>> \in Seq(Value)
    BY DEF Held, HeapOK
  <2>2. kill' \in BOOLEAN
    <3>1. kill' = TRUE \/ kill' = FALSE
      BY DEF ToArrayDone, StartClear, Return
    <3> QED BY <3>1, Zenon
  <2>3. list' \in BOOLEAN
    BY <1>1, Zenon DEF Held, CallOK
  <2> QED BY <2>1, <2>2, <2>3 DEF ToArrayDone, StartClear, Return, Held, CallOK
<1>5. Held(c)'
  BY <1>1, <1>2, <1>3, <1>4, KeepsHeld DEF Held, HeapOK, Converts
<1>6. Converting(c)'
  BY <1>1, <1>3 DEF Converting, FromArrayOK, FromListOK, ToArrayOK, SourceOK, Loops
<1> QED BY <1>5, <1>6

-----------------------------------------------------------------------------
(* What the list does between the conversions.                             *)

\* The loops of the list are not those of a conversion.
LEMMA NextLoops ==
  ASSUME Next
  PROVE  /\ pc \in Loops \ Converts
         /\ pc' \in Loops \ Converts
<1>1. CASE Step
  BY <1>1 DEF Step, PushAllNext, SeekNext, Return, ScanNext, Unlink, RescanNext, Drop,
     ClearNext, ClearDone, Loops, Converts
<1>2. CASE Calls
  BY <1>2 DEF Calls, LinkedList_create, LinkedList_push, LinkedList_push_all,
     LinkedList_find_node, LinkedList_remove, LinkedList_pop, LinkedList_clear,
     LinkedList_destroy, StartClear, Client_alloc, call, Idle, Loops, Converts
<1> QED BY <1>1, <1>2 DEF Next

\* Only the caller, the list and the heap give a value to one another.
LEMMA NextOwners ==
  ASSUME NEW c \in Seq(Node), Held(c), owning, Next, NEW v \in Value
  PROVE  \/ owner'[v] = owner[v]
         \/ {owner[v], owner'[v]} \subseteq {"caller", "list", "freed"}
<1>1. owner \in [Value -> Owners] /\ ListInv
  BY DEF Held, HeapOK, ListInv
<1>2. \A n \in live : value[n] \in Value /\ owner[value[n]] = "list"
  BY DEF Held, NodesOwned
<1>3. CASE \E w \in Value, n \in Node \ live : owner[w] = "caller" /\ PushInto(w, n)
  BY <1>1, <1>3 DEF PushInto
<1>4. ASSUME NEW n \in live, \/ owner' = [owner EXCEPT ![value[n]] = "freed"]
                             \/ owner' = [owner EXCEPT ![value[n]] = "caller"]
      PROVE  \/ owner'[v] = owner[v]
             \/ {owner[v], owner'[v]} \subseteq {"caller", "list", "freed"}
  BY <1>1, <1>2, <1>4
<1>5. ASSUME NEW w \in Value, owner[w] = "freed", owner' = [owner EXCEPT ![w] = "caller"]
      PROVE  \/ owner'[v] = owner[v]
             \/ {owner[v], owner'[v]} \subseteq {"caller", "list", "freed"}
  BY <1>1, <1>5
<1> QED BY <1>1, <1>3, <1>4, <1>5, NextOwnersAre

\* And whatever the list does is nothing to a conversion.
LEMMA NextKeeps ==
  ASSUME NEW c \in Seq(Node), Held(c), Converting(c), ListNext, UNCHANGED failing
  PROVE  ConvInv'
<1>1. Next /\ UNCHANGED <<array, source, index, out>>
  BY DEF ListNext, buffers
<1>2. ListInv'
  BY <1>1, NextHeld, ConstantsAssumption DEF ListInv
<1>3. PICK d \in Seq(Node) : Held(d)'
  BY <1>2 DEF ListInv
<1>4. /\ pc \in Loops \ Converts
      /\ pc' \in Loops \ Converts
  BY <1>1, NextLoops
<1>5. owning /\ UNCHANGED owning
  BY <1>1 DEF Converting, Next
<1>6. \A v \in Value : \/ owner'[v] = owner[v]
                       \/ {owner[v], owner'[v]} \subseteq {"caller", "list", "freed"}
  BY <1>1, <1>5, NextOwners
<1>7. SourceOK'
  <2>1. source # NULL => \A i \in 1 .. Len(source) : source[i] \in Value
    BY DEF Converting, SourceOK
  <2>2. ASSUME source # NULL, NEW i \in 1 .. Len(source)
        PROVE  owner'[source[i]] = "array"
    BY <1>6, <2>1, <2>2 DEF Converting, SourceOK
  <2> QED BY <1>1, <2>2 DEF Converting, SourceOK
<1>8. FromArrayOK(d)' /\ FromListOK(d)' /\ ToArrayOK(d)'
  BY <1>1, <1>4 DEF Converting, FromArrayOK, FromListOK, ToArrayOK, Converts
<1>9. Converting(d)'
  BY <1>4, <1>5, <1>7, <1>8 DEF Converting
<1> QED BY <1>3, <1>9 DEF ConvInv

-----------------------------------------------------------------------------

\* Every step of a conversion or of the list keeps the invariant.
LEMMA ConvNextKeeps ==
  ASSUME ConvInv, ConvNext
  PROVE  ConvInv'
<1>1. PICK c \in Seq(Node) : Held(c) /\ Converting(c)
  BY DEF ConvInv
<1>2. UNCHANGED <<failing, owning>>
  BY DEF ConvNext
<1>3. ASSUME NEW d \in Seq(Node), Held(d)', Converting(d)' PROVE ConvInv'
  BY <1>3 DEF ConvInv
<1>4. CASE ConvStep
  <2>1. CASE FromArrayNext
    BY <1>1, <1>2, <2>1, FromArrayNextKeeps
  <2>2. CASE FromArrayNoMemory \/ FromArrayRefused
    BY <1>1, <1>2, <1>3, <2>2, CatchKeeps
  <2>3. CASE FromArrayDone
    BY <1>1, <1>2, <1>3, <2>3, FromArrayDoneKeeps
  <2>4. CASE FromListNext
    BY <1>1, <1>2, <2>4, FromListNextKeeps
  <2>5. CASE FromListNoMemory
    BY <1>1, <1>2, <1>3, <2>5, FromListNoMemoryKeeps
  <2>6. CASE FromListDone
    BY <1>1, <1>2, <1>3, <2>6, FromListDoneKeeps
  <2>7. CASE ToArrayNext
    BY <1>1, <1>2, <1>3, <2>7, ToArrayNextKeeps
  <2>8. CASE ToArrayDone
    BY <1>1, <1>2, <1>3, <2>8, ToArrayDoneKeeps
  <2> QED BY <1>4, <2>1, <2>2, <2>3, <2>4, <2>5, <2>6, <2>7, <2>8 DEF ConvStep
<1>5. CASE ConvCalls
  <2>1. ASSUME NEW a \in Arrays, LinkedList_from_array(a) PROVE ConvInv'
    BY <1>1, <1>2, <1>3, <2>1, StartFromArray
  <2>2. ASSUME NEW b \in Batches, Client_fill(b) PROVE ConvInv'
    BY <1>1, <1>2, <1>3, <2>2, FillKeeps
  <2>3. ASSUME NEW drains \in BOOLEAN, LinkedList_from_ArrayList(drains) PROVE ConvInv'
    BY <1>1, <1>2, <1>3, <2>3, StartFromList
  <2>4. ASSUME NEW drains \in BOOLEAN, LinkedList_to_array(drains) PROVE ConvInv'
    BY <1>1, <1>2, <1>3, <2>4, StartToArray
  <2> QED BY <1>5, <2>1, <2>2, <2>3, <2>4 DEF ConvCalls
<1>6. CASE ListNext
  BY <1>1, <1>2, <1>6, NextKeeps
<1> QED BY <1>4, <1>5, <1>6 DEF ConvNext

\* A step in which nothing changes.
LEMMA ConvStutterKeeps ==
  ASSUME ConvInv, UNCHANGED allVars
  PROVE  ConvInv'
<1>1. PICK c \in Seq(Node) : Held(c) /\ Converting(c)
  BY DEF ConvInv
<1>2. UNCHANGED <<failing, owning, list, heap, owner, call, array, source, index, out, fate>>
  BY DEF allVars, vars, buffers
<1>3. Held(c)'
  BY <1>1, <1>2, StayHeld DEF Held, CallOK
<1>4. Converting(c)'
  BY <1>1, <1>2 DEF Converting, FromArrayOK, FromListOK, ToArrayOK, SourceOK, Copied, call, heap
<1> QED BY <1>3, <1>4 DEF ConvInv

\* The inductive invariant of ListConversion.
THEOREM AlwaysConverting ==
  ConvSpec => []ConvInv
<1>1. ConvInit => ConvInv
  <2> SUFFICES ASSUME ConvInit PROVE ConvInv
    OBVIOUS
  <2>1. Held(<<>>) /\ <<>> \in Seq(Node)
    BY InitHeld, ConstantsAssumption DEF ConvInit
  <2>2. Converting(<<>>)
    <3>1. owning
      BY ConversionAssumption DEF ConvInit, Init
    <3> QED BY <3>1 DEF ConvInit, Init, Converting, FromArrayOK, FromListOK, ToArrayOK, SourceOK,
        Loops
  <2> QED BY <2>1, <2>2 DEF ConvInv
<1>2. ConvInv /\ [ConvNext]_allVars => ConvInv'
  BY ConvNextKeeps, ConvStutterKeeps
<1> QED BY <1>1, <1>2, PTL DEF ConvSpec

\* A conversion that succeeds has copied every element, in order, where no push of a
\* copy is refused; the list and the copies may be.
THEOREM ConversionsCopyAll ==
  ConvSpec => CopiesAll
<1> DEFINE Finished ==
      /\ "push" \notin failing
      /\ pc \in {"from_array", "from_list"} /\ pc' = "idle" /\ ret'[2]
<1>1. ASSUME ConvInv, ConvNext, Finished
      PROVE  Contents(Values') = fate
  <2>1. PICK c \in Seq(Node) : Held(c) /\ Converting(c)
    BY <1>1 DEF ConvInv
  <2>2. UNCHANGED <<failing, owning>>
    BY <1>1 DEF ConvNext
  <2>3. pc \in Converts /\ pc # "to_array"
    BY <1>1 DEF Converts
  <2>4. ConvStep
    <3>1. ~Next
      BY <2>3, NextLoops
    <3>2. ~ConvCalls
      BY <2>3 DEF ConvCalls, LinkedList_from_array, Client_fill, LinkedList_from_ArrayList,
         LinkedList_to_array, Idle, Converts
    <3> QED BY <1>1, <3>1, <3>2 DEF ConvNext, ListNext
  <2>5. FromArrayDone \/ FromListDone
    <3>1. ~FromArrayNext /\ ~FromListNext /\ ~ToArrayNext /\ ~ToArrayDone
      BY <1>1, <2>3 DEF FromArrayNext, FromListNext, ToArrayNext, ToArrayDone, call
    <3>2. ~FromArrayNoMemory /\ ~FromArrayRefused /\ ~FromListNoMemory
      <4>1. <<"from_array", FALSE>>[2] = FALSE /\ <<"from_list", FALSE>>[2] = FALSE
        OBVIOUS
      <4>2. ASSUME FromArrayCatch, pc = "from_array" PROVE FALSE
        <5>1. ret' = <<"from_array", FALSE>>
          BY <1>1, <4>2 DEF FromArrayCatch, StartClear, Return
        <5> QED BY <1>1, <4>1, <4>2, <5>1
      <4>3. ASSUME FromListNoMemory PROVE FALSE
        <5>1. ret' = <<"from_list", FALSE>> /\ pc = "from_list"
          BY <4>3 DEF FromListNoMemory, Return
        <5> QED BY <1>1, <4>1, <5>1
      <4> QED BY <4>2, <4>3 DEF FromArrayNoMemory, FromArrayRefused
    <3> QED BY <2>4, <3>1, <3>2 DEF ConvStep
  <2>6. CASE FromArrayDone
    BY <2>1, <2>2, <2>6, FromArrayDoneKeeps
  <2>7. CASE FromListDone
    <3>1. "push" \notin failing
      BY <1>1
    <3> QED BY <2>1, <2>2, <2>7, <3>1, FromListDoneKeeps
  <2> QED BY <2>5, <2>6, <2>7
<1>2. ASSUME UNCHANGED allVars PROVE ~Finished
  BY <1>2 DEF allVars, vars, call
<1>3. ConvInv /\ [ConvNext]_allVars => [Finished => Contents(Values') = fate]_allVars
  BY <1>1, <1>2
<1> QED BY <1>3, AlwaysConverting, PTL DEF ConvSpec, CopiesAll

\* The array handed out holds the contents of the whole list, in order, in its block.
THEOREM ExportsAreExact ==
  ConvSpec => []ExportExact
<1>1. ConvInv => ExportExact
  <2> SUFFICES ASSUME ConvInv, pc = "to_array"
               PROVE  Len(out) <= size /\ (cur = NULL => out = fate)
    BY DEF ExportExact
  <2>1. PICK c \in Seq(Node) : Held(c) /\ Converting(c)
    BY DEF ConvInv
  <2>2. PICK k \in 1 .. Len(c) + 1 : /\ cur = IF k = Len(c) + 1 THEN NULL ELSE c[k]
                                     /\ out = UpTo(fate, k - 1)
    BY <2>1 DEF Converting, ToArrayOK
  <2>3. Whole(c) /\ Len(c) \in Nat /\ size = Len(c)
    BY <2>1, HeldWhole DEF Settled, Whole
  <2>4. Len(out) = k - 1
    <3>1. k - 1 \in Nat
      BY <2>2, <2>3
    <3> QED BY <2>2, <3>1 DEF UpTo
  <2>5. ASSUME cur = NULL PROVE out = fate
    <3>1. k = Len(c) + 1
      BY <2>2, <2>3, <2>5, ConstantsAssumption DEF ConstantsAssumption
    <3>2. fate = [i \in 1 .. Len(c) |-> fate[i]]
      BY <2>1 DEF Converting, ToArrayOK, Copied
    <3> QED BY <2>2, <2>3, <3>1, <3>2 DEF UpTo
  <2> QED BY <2>2, <2>3, <2>4, <2>5
<1> QED BY <1>1, AlwaysConverting, PTL

\* No pointer is shared between the source and the list made from it.
THEOREM CopiesAreDeep ==
  ConvSpec => []DeepCopy
<1>1. ConvInv => DeepCopy
  <2> SUFFICES ASSUME ConvInv, source # NULL, NEW n \in live, value[n] \in Range(source)
               PROVE  FALSE
    BY DEF DeepCopy
  <2>1. PICK c \in Seq(Node) : Held(c) /\ Converting(c)
    BY DEF ConvInv
  <2>2. owner[value[n]] = "list"
    BY <2>1 DEF Held, NodesOwned, Converting
  <2>3. source \in Seq(Value) /\ \A i \in 1 .. Len(source) : owner[source[i]] = "array"
    BY <2>1 DEF Converting, SourceOK
  <2>4. \E i \in 1 .. Len(source) : value[n] = source[i]
    BY <2>3, NodesOf
  <2> QED BY <2>2, <2>3, <2>4
<1> QED BY <1>1, AlwaysConverting, PTL

-----------------------------------------------------------------------------
(* Where the memory of the conversions is.                                 *)

\* The null pointer is no ArrayList of values.
NullIsNoSource == NULL \notin Seq(Value)

\* Every value is freed, its caller's, in the list or in the client's ArrayList.
MemoryInv ==
  /\ NoStray
  /\ \A v \in Value : owner[v] = "array" => source # NULL /\ v \in Range(source)
  /\ \A v \in Value : owner[v] # "copy"
  /\ lists = Reachable

\* No value was freed when it had been freed before.
NoneTwice == \A v \in Value : owner[v] # "freed twice"

\* A step that leaves the list, its nodes and their values, and the ArrayList.
LEMMA MemoryStays ==
  ASSUME MemoryInv, UNCHANGED <<owning, list, value, live, owner, source, lists>>
  PROVE  MemoryInv'
BY DEF MemoryInv, NoStray, Reachable

\* A copy goes from the heap into the list.
LEMMA MemoryPushed ==
  ASSUME MemoryInv, NEW c, Held(c), UNCHANGED <<owning, list, source, lists>>,
         NEW v \in Value, owner[v] = "freed", NEW n \in Node \ live, PushInto(v, n)
  PROVE  MemoryInv'
<1>1. \A w \in Value : owner'[w] = owner[w] \/ (owning /\ w = v /\ owner'[w] = "list")
  BY DEF Held, HeapOK, PushInto
<1>2. value'[n] = v /\ n \in live' /\ \A m \in live : m \in live' /\ value'[m] = value[m]
  BY DEF Held, HeapOK, PushInto
<1>3. NoStray'
  <2> SUFFICES ASSUME owning, NEW w \in Value, owner'[w] = "list"
               PROVE  \E m \in live' : value'[m] = w
    BY DEF NoStray
  <2>1. CASE w = v
    BY <1>2, <2>1
  <2>2. CASE w # v
    <3>1. \E m \in live : value[m] = w
      BY <1>1, <2>2 DEF MemoryInv, NoStray
    <3> QED BY <1>2, <3>1
  <2> QED BY <2>1, <2>2
<1>4. lists' = Reachable'
  BY DEF MemoryInv, Reachable
<1> QED BY <1>1, <1>3, <1>4 DEF MemoryInv

\* The client's values go into an ArrayList.
LEMMA MemoryFilled ==
  ASSUME NullIsNoSource, MemoryInv, NEW c, Held(c), UNCHANGED <<owning, lists>>,
         NEW b \in Batches, Client_fill(b)
  PROVE  MemoryInv'
<1>1. /\ source = NULL /\ source' = b /\ UNCHANGED <<list, value, live>>
      /\ owner' = [v \in Value |-> IF v \in Range(b) THEN "array" ELSE owner[v]]
  BY DEF Client_fill, heap
<1>2. b # NULL
  <2>1. b \in Seq(Value)
    BY ConstantsAssumption DEF Batches, ConstantsAssumption
  <2> QED BY <2>1 DEF NullIsNoSource
<1>3. NoStray'
  BY <1>1 DEF MemoryInv, NoStray
<1>4. \A v \in Value : owner'[v] = "array" => v \in Range(b)
  BY <1>1 DEF MemoryInv
<1>5. \A v \in Value : owner'[v] # "copy"
  BY <1>1 DEF MemoryInv
<1>6. lists' = Reachable'
  BY <1>1 DEF MemoryInv, Reachable
<1> QED BY <1>1, <1>2, <1>3, <1>4, <1>5, <1>6 DEF MemoryInv

\* The ArrayList is destroyed with its elements, or is left to the client.
LEMMA MemoryDrained ==
  ASSUME MemoryInv, NEW c, Held(c), Converting(c), UNCHANGED <<owning, lists>>, FromListDone
  PROVE  MemoryInv'
<1>1. source # NULL /\ source \in Seq(Value) /\ UNCHANGED <<list, value, live>>
  BY DEF FromListDone, Converting, FromListOK, SourceOK, heap
<1>2. CASE UNCHANGED <<owner, source>>
  BY <1>1, <1>2, MemoryStays DEF FromListDone
<1>3. CASE owner' = [v \in Value |-> IF v \in Range(source) THEN Freed(owner, v)[v]
                                    ELSE owner[v]]
  <2>1. \A v \in Value : v \in Range(source) => owner[v] = "array"
    <3>1. Range(source) = {source[i] : i \in 1 .. Len(source)}
      BY <1>1, NodesOf
    <3> QED BY <1>1, <3>1 DEF Converting, SourceOK
  <2>2. \A v \in Value : v \in Range(source) => Freed(owner, v)[v] = "freed"
    BY <2>1 DEF Held, HeapOK, Freed
  <2>3. \A v \in Value : owner'[v] = IF v \in Range(source) THEN "freed" ELSE owner[v]
    BY <1>3, <2>2
  <2>4. \A v \in Value : owner'[v] # "array"
    BY <1>1, <2>3 DEF MemoryInv
  <2>5. NoStray'
    BY <1>1, <2>3 DEF MemoryInv, NoStray
  <2>6. lists' = Reachable'
    BY <1>1 DEF MemoryInv, Reachable
  <2> QED BY <2>3, <2>4, <2>5, <2>6 DEF MemoryInv
<1> QED BY <1>2, <1>3 DEF FromListDone

\* What the list does with its values is not the conversions' business.
LEMMA MemoryListed ==
  ASSUME MemoryInv, NEW c \in Seq(Node), Held(c), owning, ListNext
  PROVE  MemoryInv'
<1>1. Next /\ UNCHANGED <<owning, source>> /\ lists' = lists + Reachable' - Reachable
  BY DEF ListNext, Next, buffers
<1>2. NoStray'
  BY <1>1, NextNoStray DEF MemoryInv, ListInv
<1>3. \A v \in Value : \/ owner'[v] = owner[v]
                       \/ {owner[v], owner'[v]} \subseteq {"caller", "list", "freed"}
  BY <1>1, NextOwners
<1>4. lists' = Reachable'
  <2>1. lists = Reachable /\ Reachable \in {0, 1} /\ Reachable' \in {0, 1}
    BY DEF MemoryInv, Reachable
  <2>2. \A r, s \in {0, 1} : r + s - r = s
    OBVIOUS
  <2>3. lists' = Reachable + Reachable' - Reachable
    BY <1>1, <2>1
  <2> QED BY <2>1, <2>2, <2>3
<1> QED BY <1>1, <1>2, <1>3, <1>4 DEF MemoryInv

\* A copy whose push is refused for want of a list is freed, if once too often.
LEMMA MemoryRefused ==
  ASSUME MemoryInv, NEW c, Held(c), UNCHANGED owning, FromArrayRefused
  PROVE  MemoryInv'
<1>1. PICK v \in Value : owner' = Freed(Freed(CopyMade(v), v), v)
  BY DEF FromArrayRefused, Copies
<1>2. UNCHANGED <<list, value, live, source, lists>>
  BY DEF FromArrayRefused, FromArrayCatch, heap
<1>3. \A w \in Value : owner'[w] = owner[w] \/ owner'[w] \in {"freed", "freed twice"}
  BY <1>1 DEF Freed, CopyMade, Held, HeapOK
<1>4. NoStray' /\ lists' = Reachable'
  BY <1>2, <1>3 DEF MemoryInv, NoStray, Reachable
<1> QED BY <1>2, <1>3, <1>4 DEF MemoryInv

\* Nothing is lost in any step, where neither a clone nor a push is refused.
LEMMA MemoryKept ==
  ASSUME NullIsNoSource, ConvInv, MemoryInv, ConvNext, failing \cap {"clone", "push"} = {}
  PROVE  MemoryInv'
<1>1. PICK c \in Seq(Node) : Held(c) /\ Converting(c)
  BY DEF ConvInv
<1>2. UNCHANGED <<failing, owning>> /\ owning
  BY <1>1 DEF ConvNext, Converting
<1>4. "push" \notin failing /\ "clone" \notin failing
  OBVIOUS
<1>5. CASE FromArrayNext
  <2>1. PICK v \in Copies(Head(array)) : PushSucceeds(v)
    BY <1>5 DEF FromArrayNext
  <2>2. v \in Value /\ owner[v] = "freed"
    BY <2>1 DEF Copies
  <2> QED BY <1>1, <1>2, <1>5, <2>1, <2>2, MemoryPushed DEF FromArrayNext, PushSucceeds
<1>6. CASE FromArrayNoMemory
  BY <1>2, <1>6, MemoryStays DEF FromArrayNoMemory, FromArrayCatch, heap
<1>7. CASE FromArrayRefused
  BY <1>1, <1>2, <1>7, MemoryRefused
<1>8. CASE FromArrayDone \/ ToArrayNext \/ ToArrayDone
  BY <1>2, <1>8, MemoryStays DEF FromArrayDone, ToArrayNext, ToArrayDone, heap
<1>9. CASE FromListNext
  <2>1. PICK v \in Copies(ContentOf[source[index + 1]]) : PushSucceeds(v)
    BY <1>4, <1>9 DEF FromListNext
  <2>2. v \in Value /\ owner[v] = "freed"
    BY <2>1 DEF Copies
  <2> QED BY <1>1, <1>2, <1>9, <2>1, <2>2, MemoryPushed DEF FromListNext, PushSucceeds
<1>10. ~FromListNoMemory
  BY <1>4 DEF FromListNoMemory
<1>11. CASE FromListDone
  <2>1. UNCHANGED lists
    BY <1>11 DEF FromListDone
  <2> QED BY <1>1, <1>2, <1>11, <2>1, MemoryDrained
<1>12. ASSUME ~list, UNCHANGED <<heap, owner, source>>, lists' = lists + Reachable'
       PROVE  MemoryInv'
  <2>1. lists = 0 /\ Reachable' \in {0, 1}
    BY <1>12 DEF MemoryInv, Reachable
  <2>2. lists' = Reachable'
    <3>1. \A s \in {0, 1} : 0 + s = s
      OBVIOUS
    <3>2. lists' = 0 + Reachable'
      BY <1>12, <2>1
    <3> QED BY <2>1, <3>1, <3>2
  <2> QED BY <1>2, <1>12, <2>2 DEF MemoryInv, NoStray, heap
<1>13. CASE \E a \in Arrays : LinkedList_from_array(a)
  BY <1>12, <1>13 DEF LinkedList_from_array
<1>14. CASE \E drains \in BOOLEAN : LinkedList_from_ArrayList(drains)
  BY <1>12, <1>14 DEF LinkedList_from_ArrayList
<1>15. CASE \E b \in Batches : Client_fill(b)
  <2>1. PICK b \in Batches : Client_fill(b)
    BY <1>15
  <2>2. UNCHANGED lists
    BY <2>1 DEF Client_fill
  <2> QED BY <1>1, <1>2, <2>1, <2>2, MemoryFilled
<1>16. CASE \E drains \in BOOLEAN : LinkedList_to_array(drains)
  BY <1>2, <1>16, MemoryStays DEF LinkedList_to_array, heap
<1>17. CASE ListNext
  BY <1>1, <1>2, <1>17, MemoryListed
<1> QED BY <1>5, <1>6, <1>7, <1>8, <1>9, <1>10, <1>11, <1>13, <1>14, <1>15, <1>16, <1>17
        DEF ConvNext, ConvStep, ConvCalls

\* Nothing is freed twice in any step, where the list and its pushes are not refused.
LEMMA TwiceKept ==
  ASSUME ConvInv, NoneTwice, ConvNext, failing \cap {"create", "push"} = {}
  PROVE  NoneTwice'
<1>1. PICK c \in Seq(Node) : Held(c) /\ Converting(c)
  BY DEF ConvInv
<1>2. UNCHANGED <<failing, owning>> /\ owning
  BY <1>1 DEF ConvNext, Converting
<1>3. "push" \notin failing /\ "create" \notin failing
  OBVIOUS
<1>4. ASSUME UNCHANGED owner PROVE NoneTwice'
  BY <1>4 DEF NoneTwice
<1>5. ASSUME NEW v \in Value, PushSucceeds(v) PROVE NoneTwice'
  BY <1>1, <1>5 DEF NoneTwice, PushSucceeds, PushInto, Held, HeapOK
<1>6. CASE FromArrayNext
  BY <1>5, <1>6 DEF FromArrayNext, Copies
<1>7. ~FromArrayRefused
  BY <1>1, <1>3 DEF FromArrayRefused, Converting, FromArrayOK
<1>8. CASE FromArrayNoMemory \/ FromArrayDone \/ FromListNoMemory \/ ToArrayNext \/ ToArrayDone
  BY <1>4, <1>8 DEF FromArrayNoMemory, FromArrayDone, FromListNoMemory, ToArrayNext,
     ToArrayDone
<1>9. CASE FromListNext
  BY <1>3, <1>5, <1>9 DEF FromListNext, Copies
<1>10. CASE FromListDone
  <2>1. CASE UNCHANGED owner
    BY <1>4, <2>1
  <2>2. CASE owner' = [v \in Value |-> IF v \in Range(source) THEN Freed(owner, v)[v]
                                      ELSE owner[v]]
    <3>1. source \in Seq(Value) /\ \A i \in 1 .. Len(source) : owner[source[i]] = "array"
      BY <1>1, <1>10 DEF FromListDone, Converting, FromListOK, SourceOK
    <3>2. Range(source) = {source[i] : i \in 1 .. Len(source)}
      BY <3>1, NodesOf
    <3>3. \A v \in Value : v \in Range(source) => owner[v] = "array"
      BY <3>1, <3>2
    <3>4. \A v \in Value : v \in Range(source) => Freed(owner, v)[v] = "freed"
      BY <1>1, <3>3 DEF Held, HeapOK, Freed
    <3> QED BY <2>2, <3>4 DEF NoneTwice
  <2> QED BY <1>10, <2>1, <2>2 DEF FromListDone
<1>11. CASE ConvCalls
  <2>1. CASE \E b \in Batches : Client_fill(b)
    BY <2>1 DEF Client_fill, NoneTwice
  <2>2. CASE ~\E b \in Batches : Client_fill(b)
    BY <1>4, <1>11, <2>2 DEF ConvCalls, LinkedList_from_array, LinkedList_from_ArrayList,
       LinkedList_to_array
  <2> QED BY <2>1, <2>2
<1>12. CASE ListNext
  <2>1. \A v \in Value : \/ owner'[v] = owner[v]
                         \/ {owner[v], owner'[v]} \subseteq {"caller", "list", "freed"}
    BY <1>1, <1>2, <1>12, NextOwners DEF ListNext
  <2> QED BY <2>1 DEF NoneTwice
<1> QED BY <1>6, <1>7, <1>8, <1>9, <1>10, <1>11, <1>12 DEF ConvNext, ConvStep

\* What is allocated is freed at most once where no list and no push is refused, and
\* until then is in one place that the client can reach where no clone and no push is.
THEOREM MemoryIsExact ==
  NullIsNoSource => (ConvSpec => []MemoryExact)
<1> SUFFICES ASSUME NullIsNoSource PROVE ConvSpec => []MemoryExact
  OBVIOUS
<1> DEFINE Kept == /\ failing \cap {"create", "push"} = {} => NoneTwice
                   /\ failing \cap {"clone", "push"} = {} => MemoryInv
<1>1. ConvInit => Kept
  BY DEF ConvInit, Init, MemoryInv, NoneTwice, NoStray, Reachable
<1>2. ConvInv /\ Kept /\ [ConvNext]_allVars => Kept'
  <2>1. ASSUME Kept, UNCHANGED allVars PROVE Kept'
    BY <2>1, MemoryStays DEF allVars, vars, buffers, heap, NoneTwice
  <2>2. ASSUME ConvInv, Kept, ConvNext PROVE Kept'
    <3>1. failing' = failing
      BY <2>2 DEF ConvNext
    <3> QED BY <2>2, <3>1, MemoryKept, TwiceKept
  <2> QED BY <2>1, <2>2
<1>3. ASSUME ConvInv, MemoryInv PROVE NoneLost
  <2>1. PICK c \in Seq(Node) : Held(c) /\ Converting(c)
    BY <1>3 DEF ConvInv
  <2>2. owning /\ NodesOwned /\ (~list => live = {})
    BY <2>1 DEF Held, NoList, Converting
  <2>3. \A v \in Value : owner[v] = "list" <=> list /\ \E n \in live : value[n] = v
    BY <1>3, <2>2 DEF NodesOwned, MemoryInv, NoStray
  <2>4. source # NULL => \A v \in Range(source) : owner[v] = "array"
    <3>1. source # NULL => Range(source) = {source[i] : i \in 1 .. Len(source)}
      BY <2>1, NodesOf DEF Converting, SourceOK
    <3> QED BY <2>1, <3>1 DEF Converting, SourceOK
  <2> QED BY <1>3, <2>2, <2>3, <2>4 DEF NodesOwned, MemoryInv, NoneLost
<1>4. ConvInv /\ Kept => MemoryExact
  BY <1>3 DEF MemoryExact, FreedOnce, NoneTwice
<1> QED BY <1>1, <1>2, <1>4, AlwaysConverting, PTL DEF ConvSpec

=============================================================================
