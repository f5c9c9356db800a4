--------------------------- MODULE BStrListProofs ---------------------------
(***************************************************************************)
(* What holds of BStrList for strings of every length, for every set of    *)
(* separators and lists of every size, and whatever the heap refuses.      *)
(* Joined is a recursive function of the entries: that it exists, and what *)
(* an entry more makes of it, is shown by the least place where it fails.  *)
(***************************************************************************)
EXTENDS BStrList, SequenceTheorems, WellFoundedInduction, TLAPS

\* A list whose entries are in its slots.
IsList(l, S) ==
  /\ l \in [entry : Seq(S), mlen : Nat \ {0}]
  /\ Len(l.entry) <= l.mlen

\* There is room for the entries of a list, also while a string is split into it.
SlotsOK ==
  list # NULL \/ (run.pc = "split" /\ run.name = "bscb") => \E S : IsList(list, S)

\* A client that asked for slots has them, until it makes another call.
AskedOK ==
  /\ ret.call = "bstrListAlloc" /\ ret.end = "OK" => list.mlen >= ret.msz
  /\ ret.call = "bstrListAllocMin" /\ ret.end = "OK" =>
       list.mlen = Max({ret.msz, Len(list.entry)})

\* A piece starts behind the separator that ended the one before; it is searched from
\* its start, or from one character on when a string separates and it is not the first.
SplitOK ==
  run.pc = "split" =>
    /\ DOMAIN run = {"pc", "name", "by", "p", "i"} /\ run.name \in {"client", "bscb"}
    /\ run.p \in Nat /\ run.i \in {run.p, run.p + 1}
    /\ run.by.text # NULL => run.by.text \in Seq(ToSet(run.by.text))
    /\ run.by.text = NULL => run.i = run.p
    /\ ret.call # "piece" => run.i = run.p
    /\ ret.call = "piece" =>
         /\ run.p = ret.ofs + ret.len + SepLen(run.by)
         /\ ~(run.by.text = NULL /\ run.by.set = {})

ListInv == SlotsOK /\ AskedOK /\ SplitOK /\ str \in Texts

-----------------------------------------------------------------------------
(* The least and the largest.                                              *)

\* A set of natural numbers that is not empty has a least one, and it is Min.
LEMMA MinIsLeast ==
  ASSUME NEW T \in SUBSET Nat, T # {}
  PROVE  Min(T) \in T /\ \A k \in T : Min(T) <= k
<1> DEFINE Less == OpToRel(<, Nat)
<1>1. \A x, y \in Nat : x < y => <<x, y>> \in Less
  BY Zenon DEF OpToRel
<1>2. IsWellFoundedOn(Less, Nat)
  BY NatLessThanWellFounded, Zenon
<1> HIDE DEF Less
<1>3. \E x \in T : \A y \in T : ~(<<y, x>> \in Less)
  BY <1>2, WFMin, Zenon
<1>4. PICK m \in T : \A y \in T : ~(<<y, m>> \in Less)
  BY <1>3
<1>5. \A k \in T : k \in Nat /\ m \in Nat /\ ~(k < m)
  BY <1>1, <1>4
<1>6. m \in T /\ \A k \in T : m <= k
  BY <1>5
<1> QED BY <1>6 DEF Min

\* Of two numbers.
LEMMA MinOfTwo ==
  ASSUME NEW a \in Nat, NEW b \in Nat
  PROVE  Min({a, b}) = IF a <= b THEN a ELSE b
<1>1. Min({a, b}) \in {a, b} /\ \A k \in {a, b} : Min({a, b}) <= k
  BY MinIsLeast
<1> QED BY <1>1

\* The same for the larger one.
LEMMA MaxOfTwo ==
  ASSUME NEW a \in Nat, NEW b \in Nat
  PROVE  Max({a, b}) = IF a >= b THEN a ELSE b
<1>1. (IF a >= b THEN a ELSE b) \in {a, b}
      /\ \A k \in {a, b} : (IF a >= b THEN a ELSE b) >= k
  OBVIOUS
<1>2. Max({a, b}) \in {a, b} /\ \A k \in {a, b} : Max({a, b}) >= k
  BY <1>1 DEF Max
<1> QED BY <1>2

\* A size that is rounded up is not below the one asked for.
LEMMA SnapGrows ==
  ASSUME NEW i \in Nat
  PROVE  snapUpSize(i) \in Nat /\ snapUpSize(i) >= i
<1> DEFINE above == {p \in Powers : p > i}
<1>1. above \in SUBSET Nat /\ \A p \in above : p > i
  BY DEF Powers
<1> HIDE DEF above
<1>2. ASSUME above # {} PROVE Min(above) \in Nat /\ Min(above) >= i
  <2>1. above \in SUBSET Nat
    BY <1>1
  <2>2. Min(above) \in above
    BY <1>2, <2>1, MinIsLeast
  <2>3. Min(above) \in Nat /\ Min(above) > i
    BY <1>1, <2>1, <2>2
  <2> QED BY <2>3
<1>3. snapUpSize(i) = IF i < SNAP THEN SNAP ELSE IF above = {} THEN i ELSE Min(above)
  BY DEF snapUpSize, above
<1> QED BY <1>2, <1>3, SnapAssumption

-----------------------------------------------------------------------------
(* The memory of a list.                                                   *)

\* A call that returns leaves everything alone but what it returns.
LEMMA ReturnsKeeps ==
  ASSUME ListInv, run = Idle, str' = str, NEW call, NEW end, Returns(call, end),
         call = "bstrListAlloc" => end = "ERR",
         call = "bstrListAllocMin" => end = "ERR"
  PROVE  ListInv'
BY DEF ListInv, SlotsOK, AskedOK, SplitOK, Returns, Idle

\* A list that gets as many slots as it has entries, or more, stays one.
LEMMA ResizedKeeps ==
  ASSUME ListInv, Ready, str' = str, NEW call, NEW msz, NEW n \in Nat \ {0},
         n >= Len(list.entry), Resized(call, msz, n),
         call = "bstrListAlloc" => n >= msz,
         call = "bstrListAllocMin" => n = Max({msz, Len(list.entry)})
  PROVE  ListInv'
<1>1. PICK S : IsList(list, S)
  BY DEF ListInv, SlotsOK, Ready
<1>2. /\ list' = [entry |-> list.entry, mlen |-> n]
      /\ ret' = [call |-> call, msz |-> msz, end |-> "OK"] /\ run' = run
  BY <1>1 DEF Resized, IsList
<1>3. IsList(list', S)
  BY <1>1, <1>2 DEF IsList
<1>4. SlotsOK'
  BY <1>3 DEF SlotsOK
<1>5. AskedOK'
  BY <1>2 DEF AskedOK
<1>6. SplitOK'
  BY <1>2 DEF SplitOK, Ready, Idle
<1> QED BY <1>4, <1>5, <1>6 DEF ListInv

\* A new list has no entries.
LEMMA NewList ==
  ASSUME NEW n \in Nat \ {0}
  PROVE  IsList([entry |-> <<>>, mlen |-> n], {})
<1>1. <<>> \in Seq({}) /\ Len(<<>>) = 0
  OBVIOUS
<1> QED BY <1>1 DEF IsList

\* An entry more is in its slots if there was one free.
LEMMA OneMore ==
  ASSUME NEW l, NEW S, IsList(l, S), NEW e, NEW n \in Nat, n > Len(l.entry)
  PROVE  IsList([entry |-> Append(l.entry, e), mlen |-> n], S \cup {e})
<1>1. l.entry \in Seq(S \cup {e}) /\ Len(l.entry) \in Nat
  BY DEF IsList
<1>2. /\ Append(l.entry, e) \in Seq(S \cup {e})
      /\ Len(Append(l.entry, e)) = Len(l.entry) + 1
  BY <1>1
<1> QED BY <1>1, <1>2 DEF IsList

\* The calls for a list and its slots.
LEMMA SlotCalls ==
  ASSUME ListInv, str' = str,
         \/ bstrListCreate \/ bstrListDestroy
         \/ \E msz \in Rooms : bstrListAlloc(msz) \/ bstrListAllocMin(msz)
         \/ \E t \in Separators : Puts(t)
  PROVE  ListInv'
<1>1. CASE bstrListCreate
  <2>1. CASE Returns("bstrListCreate", "ERR")
    BY <1>1, <2>1, ReturnsKeeps DEF bstrListCreate
  <2>2. CASE ~Returns("bstrListCreate", "ERR")
    <3>1. /\ list' = [entry |-> <<>>, mlen |-> 1] /\ run' = run /\ run = Idle
          /\ ret' = [call |-> "bstrListCreate", end |-> "OK"]
      BY <1>1, <2>2 DEF bstrListCreate
    <3>2. IsList(list', {})
      BY <3>1, NewList
    <3>3. SlotsOK'
      BY <3>2 DEF SlotsOK
    <3> QED BY <3>1, <3>3 DEF ListInv, AskedOK, SplitOK, Idle
  <2> QED BY <2>1, <2>2
<1>2. CASE bstrListDestroy
  BY <1>2 DEF bstrListDestroy, Ready, ListInv, SlotsOK, AskedOK, SplitOK, Idle
<1>3. ASSUME NEW msz \in Rooms, bstrListAlloc(msz) \/ bstrListAllocMin(msz)
      PROVE  ListInv'
  <2>1. PICK S : IsList(list, S)
    BY <1>3 DEF ListInv, SlotsOK, Ready, bstrListAlloc, bstrListAllocMin
  <2>2. /\ msz \in Nat \ {0} /\ Len(list.entry) \in Nat /\ list.mlen \in Nat \ {0}
        /\ Len(list.entry) <= list.mlen
    BY <2>1, ListAssumption DEF IsList
  <2>3. CASE bstrListAlloc(msz)
    <3>1. CASE msz <= list.mlen /\ Resized("bstrListAlloc", msz, list.mlen)
      BY <2>2, <2>3, <3>1, ResizedKeeps DEF bstrListAlloc
    <3>2. CASE msz > list.mlen /\ Resized("bstrListAlloc", msz, snapUpSize(msz))
      <4>1. snapUpSize(msz) \in Nat /\ snapUpSize(msz) >= msz
        BY <2>2, SnapGrows
      <4>2. snapUpSize(msz) \in Nat \ {0} /\ snapUpSize(msz) >= Len(list.entry)
        BY <2>2, <3>2, <4>1
      <4> QED BY <2>3, <3>2, <4>1, <4>2, ResizedKeeps DEF bstrListAlloc
    <3>3. CASE msz > list.mlen /\ Resized("bstrListAlloc", msz, msz)
      <4>1. msz \in Nat \ {0} /\ msz >= Len(list.entry) /\ msz >= msz
        BY <2>2, <3>3
      <4> QED BY <2>3, <3>3, <4>1, ResizedKeeps DEF bstrListAlloc
    <3>4. CASE Returns("bstrListAlloc", "ERR")
      BY <2>3, <3>4, ReturnsKeeps DEF bstrListAlloc, Ready
    <3> QED BY <2>3, <3>1, <3>2, <3>3, <3>4 DEF bstrListAlloc
  <2>4. CASE bstrListAllocMin(msz)
    <3> DEFINE need == Max({msz, Len(list.entry)})
    <3>1. need \in Nat \ {0} /\ need >= Len(list.entry)
      BY <2>2, MaxOfTwo
    <3>2. CASE Resized("bstrListAllocMin", msz, need)
      BY <2>4, <3>1, <3>2, ResizedKeeps DEF bstrListAllocMin
    <3>3. CASE Returns("bstrListAllocMin", "ERR")
      BY <2>4, <3>3, ReturnsKeeps DEF bstrListAllocMin, Ready
    <3> QED BY <2>4, <3>2, <3>3 DEF bstrListAllocMin
  <2> QED BY <1>3, <2>3, <2>4
<1>4. ASSUME NEW t \in Separators, Puts(t)
      PROVE  ListInv'
  <2>1. PICK S : IsList(list, S)
    BY <1>4 DEF ListInv, SlotsOK, Ready, Puts
  <2>2. /\ Len(list.entry) \in Nat /\ list.mlen \in Nat /\ MaxQty \in Nat
        /\ list = [entry |-> list.entry, mlen |-> list.mlen]
    BY <2>1, ListAssumption DEF IsList
  <2>3. list.mlen > Len(list.entry)
    <3>1. Len(list.entry) < Min({list.mlen, MaxQty})
      BY <1>4 DEF Puts
    <3>2. Min({list.mlen, MaxQty}) = IF list.mlen <= MaxQty THEN list.mlen ELSE MaxQty
      BY <2>2, MinOfTwo
    <3> QED BY <2>2, <3>1, <3>2
  <2>4. list' = [entry |-> Append(list.entry, t), mlen |-> list.mlen]
    BY <1>4, <2>2 DEF Puts
  <2>5. IsList(list', S \cup {t})
    BY <2>1, <2>2, <2>3, <2>4, OneMore
  <2>6. SlotsOK'
    BY <2>5 DEF SlotsOK
  <2> QED BY <1>4, <2>6 DEF ListInv, AskedOK, SplitOK, Puts, Ready, Idle
<1> QED BY <1>1, <1>2, <1>3, <1>4

-----------------------------------------------------------------------------
(* Splitting and joining.                                                  *)

\* A separator is one character of a set, or a string.
BySepOK(by) == by.text # NULL => by.text \in Seq(ToSet(by.text))

\* Both kinds.
LEMMA ByIsOK ==
  /\ \A S : BySepOK(BySet(S))
  /\ \A t \in Separators : BySepOK(ByText(t))
<1>1. \A S : BySepOK(BySet(S))
  BY DEF BySepOK, BySet
<1>2. ASSUME NEW t \in Separators PROVE BySepOK(ByText(t))
  <2>1. t \in Seq(ToSet(t))
    BY ListAssumption
  <2>2. CASE Len(t) = 1
    BY <1>1, <2>2 DEF ByText
  <2>3. CASE Len(t) # 1
    BY <2>1, <2>3 DEF ByText, BySepOK
  <2> QED BY <2>2, <2>3
<1> QED BY <1>1, <1>2

\* A splitting begins with a list for its pieces, or with a callback of the client's.
LEMMA BeginKeeps ==
  ASSUME ListInv, str' = str, NEW name \in {"client", "bscb"}, NEW by, BySepOK(by),
         NEW pos \in Nat, run' = Begun(name, by, pos), NEW call \in
           {"bsplitscb", "bsplitstrcb", "bsplit", "bsplits", "bsplitstr"},
         ret' = [call |-> call, end |-> "begun"],
         \/ name = "client" /\ list = NULL /\ list' = list
         \/ list' = [entry |-> <<>>, mlen |-> FIRST_SLOTS]
  PROVE  ListInv'
<1>1. /\ run' = [pc |-> "split", name |-> name, by |-> by, p |-> pos, i |-> pos]
      /\ ret'.call = call
  BY DEF Begun
<1>2. SlotsOK'
  <2>1. CASE name = "client" /\ list = NULL /\ list' = list
    BY <1>1, <2>1 DEF SlotsOK
  <2>2. CASE list' = [entry |-> <<>>, mlen |-> FIRST_SLOTS]
    <3>1. IsList(list', {})
      BY <2>2, NewList, ListAssumption
    <3> QED BY <3>1 DEF SlotsOK
  <2> QED BY <2>1, <2>2
<1>3. AskedOK'
  BY <1>1 DEF AskedOK
<1>4. SplitOK'
  BY <1>1 DEF SplitOK, BySepOK
<1> QED BY <1>2, <1>3, <1>4 DEF ListInv

\* A call for a list of the pieces.
LEMMA ListsKeeps ==
  ASSUME ListInv, str' = str, NEW call \in {"bsplit", "bsplits", "bsplitstr"},
         NEW by, BySepOK(by), Lists(call, by)
  PROVE  ListInv'
<1>1. CASE Returns(call, "NULL")
  BY <1>1, ReturnsKeeps DEF Lists
<1>2. CASE ~Returns(call, "NULL")
  BY <1>2, BeginKeeps DEF Lists
<1> QED BY <1>1, <1>2

\* The calls that begin a splitting.
LEMMA SplitCalls ==
  ASSUME ListInv, str' = str,
         \/ \E S \in Sets : \/ bsplits(S)
                            \/ \E c \in S : bsplit(c)
                            \/ \E pos \in 0 .. Len(str) : bsplitscb(S, pos)
         \/ \E t \in Separators : \/ bsplitstr(t)
                                  \/ \E pos \in 0 .. Len(str) : bsplitstrcb(t, pos)
  PROVE  ListInv'
<1>1. ASSUME NEW S \in Sets, bsplits(S) PROVE ListInv'
  BY <1>1, ListsKeeps, ByIsOK DEF bsplits
<1>2. ASSUME NEW S \in Sets, NEW c \in S, bsplit(c) PROVE ListInv'
  BY <1>2, ListsKeeps, ByIsOK DEF bsplit
<1>3. ASSUME NEW S \in Sets, NEW pos \in 0 .. Len(str), bsplitscb(S, pos) PROVE ListInv'
  BY <1>3, BeginKeeps, ByIsOK DEF bsplitscb
<1>4. ASSUME NEW t \in Separators, bsplitstr(t) PROVE ListInv'
  BY <1>4, ListsKeeps, ByIsOK DEF bsplitstr
<1>5. ASSUME NEW t \in Separators, NEW pos \in 0 .. Len(str), bsplitstrcb(t, pos)
      PROVE  ListInv'
  BY <1>5, BeginKeeps, ByIsOK DEF bsplitstrcb
<1> QED BY <1>1, <1>2, <1>3, <1>4, <1>5

\* Joining changes no list.
LEMMA JoinKeeps ==
  ASSUME ListInv, str' = str, NEW t, bjoin(t)
  PROVE  ListInv'
<1>1. /\ run = Idle /\ list # NULL /\ list' = list /\ ret'.call = "bjoin"
      /\ run' \in {Idle, Crashed}
  BY DEF bjoin, Ready
<1>2. SlotsOK'
  BY <1>1 DEF ListInv, SlotsOK
<1> QED BY <1>1, <1>2 DEF ListInv, AskedOK, SplitOK, Idle, Crashed

-----------------------------------------------------------------------------
(* The pieces.                                                             *)

\* The next piece starts behind the separator; where it is sought from.
NextOK(ofs, len, q, j) ==
  /\ q = ofs + len + SepLen(run.by)
  /\ q \in Nat /\ j \in {q, q + 1}
  /\ run.by.text = NULL => j = q /\ run.by.set # {}

\* The splitting goes on behind a piece, or ends.
LEMMA HandedKeeps ==
  ASSUME SplitOK, run.pc = "split", NEW ofs, NEW len, NEW q, NEW j,
         NEW last \in BOOLEAN, NEW stops \in BOOLEAN, Handed(ofs, len, q, j, last, stops),
         ~last => NextOK(ofs, len, q, j)
  PROVE  SplitOK' /\ ret'.call = "piece" /\ ret'.ofs = ofs /\ ret'.len = len
         /\ ret'.by = run.by
<1>1. ret'.call = "piece" /\ ret'.ofs = ofs /\ ret'.len = len /\ ret'.by = run.by
  BY DEF Handed
<1>2. CASE stops \/ last
  <2>1. run' = Idle
    BY <1>2 DEF Handed
  <2> QED BY <1>1, <2>1 DEF SplitOK, Idle
<1>3. CASE ~(stops \/ last)
  <2>1. /\ run' = [run EXCEPT !.p = q, !.i = j]
        /\ DOMAIN run = {"pc", "name", "by", "p", "i"}
    BY <1>3 DEF Handed, SplitOK
  <2>2. /\ DOMAIN run' = {"pc", "name", "by", "p", "i"}
        /\ run'.pc = "split" /\ run'.name = run.name /\ run'.by = run.by
        /\ run'.p = q /\ run'.i = j
    BY <2>1
  <2>3. SepLen(run'.by) = SepLen(run.by)
    BY <2>2
  <2> HIDE <2>1
  <2>4. run.name \in {"client", "bscb"}
        /\ (run.by.text # NULL => run.by.text \in Seq(ToSet(run.by.text)))
    BY DEF SplitOK
  <2>5. NextOK(ofs, len, q, j)
    BY <1>3
  <2> QED BY <1>1, <2>2, <2>3, <2>4, <2>5 DEF SplitOK, NextOK
<1> QED BY <1>2, <1>3

\* A callback is called with a piece.
LEMMA CbKeeps ==
  ASSUME ListInv, run.pc = "split", NEW ofs, NEW len, NEW q, NEW j,
         NEW last \in BOOLEAN, Cb(ofs, len, q, j, last),
         ~last => NextOK(ofs, len, q, j)
  PROVE  /\ ListInv'
         /\ ret'.call = "piece" => ret'.ofs = ofs /\ ret'.len = len /\ ret'.by = run.by
<1>1. SplitOK
  BY DEF ListInv
<1>2. CASE ClientCb(ofs, len, q, j, last)
  <2>1. PICK stops \in BOOLEAN : Handed(ofs, len, q, j, last, stops)
    BY <1>2 DEF ClientCb
  <2>2. /\ SplitOK' /\ ret'.call = "piece" /\ ret'.ofs = ofs /\ ret'.len = len
        /\ ret'.by = run.by
    BY <1>1, <2>1, HandedKeeps
  <2>3. list' = list /\ str' \in Texts /\ run.name = "client"
    BY <1>2 DEF ClientCb
  <2>4. run'.name = "client" \/ run'.pc # "split"
    BY <1>1, <2>1, <2>3 DEF Handed, SplitOK, Idle
  <2>5. SlotsOK'
    BY <2>3, <2>4 DEF ListInv, SlotsOK
  <2>6. AskedOK'
    BY <2>2 DEF AskedOK
  <2> QED BY <2>2, <2>3, <2>5, <2>6 DEF ListInv
<1>3. CASE bscb(ofs, len, q, j, last)
  <2>1. run.name = "bscb" /\ str' = str
    BY <1>3 DEF bscb
  <2>2. PICK S : IsList(list, S)
    BY <2>1 DEF ListInv, SlotsOK
  <2> DEFINE full == Len(list.entry) >= list.mlen
  <2>3. CASE /\ list' = NULL /\ run' = Idle
             /\ ret' = [call |-> "bscb", end |-> "NULL"]
    BY <2>1, <2>3 DEF ListInv, SlotsOK, AskedOK, SplitOK, Idle
  <2>4. ASSUME NEW e, list' = [entry |-> Append(list.entry, e),
                               mlen |-> list.mlen * IF full THEN 2 ELSE 1],
               Handed(ofs, len, q, j, last, FALSE)
        PROVE  /\ ListInv' /\ ret'.ofs = ofs /\ ret'.len = len /\ ret'.by = run.by
    <3>1. /\ SplitOK' /\ ret'.call = "piece" /\ ret'.ofs = ofs /\ ret'.len = len
          /\ ret'.by = run.by
      BY <1>1, <2>4, HandedKeeps
    <3> DEFINE n == list.mlen * IF full THEN 2 ELSE 1
    <3>2. Len(list.entry) \in Nat /\ list.mlen \in Nat \ {0}
      BY <2>2 DEF IsList
    <3>3. n \in Nat /\ n > Len(list.entry)
      <4>1. CASE full
        <5>1. n = list.mlen * 2
          BY <4>1
        <5> QED BY <2>2, <3>2, <5>1 DEF IsList
      <4>2. CASE ~full
        <5>1. n = list.mlen * 1
          BY <4>2
        <5> QED BY <3>2, <4>2, <5>1
      <4> QED BY <4>1, <4>2
    <3>4. list' = [entry |-> Append(list.entry, e), mlen |-> n]
      BY <2>4
    <3> HIDE DEF n
    <3>5. IsList(list', S \cup {e})
      BY <2>2, <3>3, <3>4, OneMore
    <3>6. SlotsOK'
      BY <3>5 DEF SlotsOK
    <3>7. AskedOK'
      BY <3>1 DEF AskedOK
    <3> QED BY <2>1, <3>1, <3>6, <3>7 DEF ListInv
  <2> QED BY <1>3, <2>3, <2>4 DEF bscb
<1> QED BY <1>2, <1>3 DEF Cb

\* What holds of every piece, by whatever the string is split and whatever the callback
\* makes of it: one of bsplitstrcb may start with a separator that is right behind
\* another, and behind the end of a string that has become shorter.
PieceNear(ofs, len, by) ==
  /\ ret.call = "piece" => ofs = ret.ofs + ret.len + SepLen(by)
  /\ ofs + len = Len(str) \/ SepAt(by, ofs + len)
  /\ by.text = NULL \/ by.text # <<>> =>
       \A k \in ofs .. ofs + len - 1 :
         SepAt(by, k) => k = ofs /\ ret.call = "piece" /\ by.text # NULL
  /\ IF by.text = NULL THEN ofs <= Len(str) ELSE ofs = run.p
  /\ ofs <= Len(str) => len >= 0 /\ (by.text = NULL \/ by.text # <<>> => ofs + len <= Len(str))
  /\ by.text = NULL /\ by.set = {} => ret.call # "piece" /\ ofs = 0 /\ len = Len(str)

\* A piece in terms of where it ends.
LEMMA PieceTo ==
  ASSUME NEW p \in Nat, NEW to \in Int, p + (to - p) = to, NEW by,
         ret.call = "piece" => p = ret.ofs + ret.len + SepLen(by),
         to = Len(str) \/ SepAt(by, to),
         by.text # <<>> =>
           \A k \in p .. to - 1 :
             SepAt(by, k) => k = p /\ ret.call = "piece" /\ by.text # NULL,
         by.text # NULL, p = run.p, to <= Len(str), p <= Len(str) => to >= p, Len(str) \in Nat
  PROVE  PieceNear(p, to - p, by)
<1>1. p <= Len(str) => to - p >= 0
  OBVIOUS
<1> QED BY <1>1 DEF PieceNear

\* A step that hands out a piece.
TurnOK ==
  /\ ListInv'
  /\ ret'.call = "piece" => PieceNear(ret'.ofs, ret'.len, run.by) /\ ret'.by = run.by

\* A callback is called with a piece as it should be.
LEMMA CbOK ==
  ASSUME ListInv, run.pc = "split", NEW ofs, NEW len, NEW q, NEW j,
         NEW last \in BOOLEAN, Cb(ofs, len, q, j, last),
         ~last => NextOK(ofs, len, q, j), PieceNear(ofs, len, run.by)
  PROVE  TurnOK
<1>1. /\ ListInv'
      /\ ret'.call = "piece" => ret'.ofs = ofs /\ ret'.len = len /\ ret'.by = run.by
  BY CbKeeps
<1> QED BY <1>1 DEF TurnOK

\* A splitting that ends hands out no piece.
LEMMA EndsOK ==
  ASSUME ListInv, run.pc = "split", Ends
  PROVE  TurnOK
<1>1. /\ run' = Idle /\ ret' = [call |-> run.name, end |-> "OK"] /\ list' = list
      /\ str' = str /\ run.name \in {"client", "bscb"}
  BY DEF Ends, ListInv, SplitOK
<1>2. SlotsOK'
  BY <1>1 DEF ListInv, SlotsOK, Idle
<1> QED BY <1>1, <1>2 DEF TurnOK, ListInv, AskedOK, SplitOK, Idle

\* The string is one.
LEMMA StrIsSeq ==
  ASSUME ListInv
  PROVE  str \in Seq(ToSet(str)) /\ Len(str) \in Nat
<1>1. str \in Seq(ToSet(str))
  BY ListAssumption DEF ListInv
<1> QED BY <1>1

\* Where a piece may end.
EndsOf(p, S) == {j \in p .. Len(str) - 1 : str[j + 1] \in S} \cup {Len(str)}

\* The first separator of a set.
LEMMA FirstOfSet ==
  ASSUME ListInv, NEW p \in Nat, p <= Len(str), NEW S, NEW k, k = Min(EndsOf(p, S))
  PROVE  /\ k \in p .. Len(str)
         /\ k = Len(str) \/ str[k + 1] \in S
         /\ \A j \in p .. k - 1 : str[j + 1] \notin S
<1> DEFINE at == {j \in p .. Len(str) - 1 : str[j + 1] \in S}
<1>1. Len(str) \in Nat
  BY StrIsSeq
<1>2. \A j \in at : j \in p .. Len(str) - 1 /\ str[j + 1] \in S
  OBVIOUS
<1>3. \A j \in p .. Len(str) - 1 : str[j + 1] \in S => j \in at
  OBVIOUS
<1>4. at \cup {Len(str)} \in SUBSET Nat /\ at \cup {Len(str)} # {}
  BY <1>1
<1>5. k = Min(at \cup {Len(str)})
  BY DEF EndsOf
<1> HIDE DEF at
<1>6. k \in at \cup {Len(str)} /\ \A j \in at \cup {Len(str)} : k <= j
  BY <1>4, <1>5, MinIsLeast
<1>7. k \in p .. Len(str) /\ (k = Len(str) \/ str[k + 1] \in S)
  BY <1>1, <1>2, <1>6
<1>8. \A j \in p .. k - 1 : str[j + 1] \notin S
  BY <1>1, <1>3, <1>6, <1>7
<1> QED BY <1>7, <1>8

\* A turn of bsplitscb.
LEMMA SplitSetOK ==
  ASSUME ListInv, SplitSet
  PROVE  TurnOK
<1> DEFINE k == Min({j \in run.i .. Len(str) - 1 : str[j + 1] \in run.by.set}
                    \cup {Len(str)})
<1>1. /\ run.pc = "split" /\ run.by.text = NULL
      /\ \/ run.by.set = {} /\ Cb(0, Len(str), 0, 0, TRUE)
         \/ run.by.set # {} /\ run.p > Len(str) /\ Ends
         \/ /\ run.by.set # {} /\ run.p <= Len(str)
            /\ Cb(run.p, k - run.p, Behind(k), Behind(k), FALSE)
  BY DEF SplitSet
<1>2. /\ run.p \in Nat /\ run.i = run.p
      /\ ret.call = "piece" => /\ run.p = ret.ofs + ret.len + SepLen(run.by)
                               /\ run.by.set # {}
  BY <1>1 DEF ListInv, SplitOK
<1>3. Len(str) \in Nat
  BY StrIsSeq
<1>4. \A j : SepAt(run.by, j) <=> j < Len(str) /\ str[j + 1] \in run.by.set
  BY <1>1 DEF SepAt
<1>5. SepLen(run.by) = 1
  BY <1>1 DEF SepLen
<1>6. CASE run.by.set = {} /\ Cb(0, Len(str), 0, 0, TRUE)
  <2>1. PieceNear(0, Len(str), run.by)
    <3>1. run.by.text = NULL /\ ret.call # "piece"
      BY <1>1, <1>2, <1>6
    <3>2. 0 + Len(str) = Len(str) /\ Len(str) >= 0 /\ Len(str) <= Len(str)
      BY <1>3
    <3> QED BY <1>4, <1>6, <3>1, <3>2 DEF PieceNear
  <2> QED BY <1>1, <1>6, <2>1, CbOK
<1>7. CASE run.by.set # {} /\ run.p <= Len(str)
           /\ Cb(run.p, k - run.p, Behind(k), Behind(k), FALSE)
  <2>1. k = Min(EndsOf(run.p, run.by.set))
    BY <1>2 DEF EndsOf
  <2> HIDE DEF k
  <2>2. /\ k \in run.p .. Len(str)
        /\ k = Len(str) \/ str[k + 1] \in run.by.set
        /\ \A j \in run.p .. k - 1 : str[j + 1] \notin run.by.set
    <3>1. run.p \in Nat /\ run.p <= Len(str)
      BY <1>2, <1>7
    <3> QED BY <2>1, <3>1, FirstOfSet
  <2>3. run.p + (k - run.p) = k /\ k \in Nat
    BY <1>2, <1>3, <2>2
  <2>4. k = Len(str) \/ SepAt(run.by, k)
    BY <1>3, <1>4, <2>2
  <2>5. \A j \in run.p .. k - 1 : ~SepAt(run.by, j)
    BY <1>4, <2>2
  <2>6. PieceNear(run.p, k - run.p, run.by)
    <3>1. run.p <= Len(str) /\ k <= Len(str) /\ k - run.p >= 0
      BY <1>2, <1>3, <2>2
    <3> QED BY <1>2, <1>7, <2>3, <2>4, <2>5, <3>1 DEF PieceNear
  <2>7. NextOK(run.p, k - run.p, Behind(k), Behind(k))
    BY <1>5, <1>7, <2>3 DEF NextOK, Behind
  <2> QED BY <1>1, <1>7, <2>6, <2>7, CbOK
<1>8. CASE Ends
  BY <1>1, <1>8, EndsOK
<1> QED BY <1>1, <1>6, <1>7, <1>8

\* Characters that are in the string are not behind its end.
LEMMA MidFits ==
  ASSUME ListInv, NEW k \in Nat, k < Len(str), NEW n \in Nat, Len(Mid(str, k, n)) = n
  PROVE  k + n <= Len(str)
<1>1. str \in Seq(ToSet(str)) /\ Len(str) \in Nat
  BY StrIsSeq
<1> DEFINE to == Min({k + n, Len(str)})
<1>2. to = IF k + n <= Len(str) THEN k + n ELSE Len(str)
  BY <1>1, MinOfTwo
<1>3. Mid(str, k, n) = SubSeq(str, k + 1, to)
  BY DEF Mid
<1> HIDE DEF to
<1>4. k + 1 \in Int /\ to \in Int /\ \A i \in k + 1 .. to : str[i] \in ToSet(str)
  BY <1>1, <1>2
<1>5. Len(SubSeq(str, k + 1, to)) = IF k + 1 <= to THEN to - (k + 1) + 1 ELSE 0
  BY <1>4, SubSeqProperties
<1> QED BY <1>1, <1>2, <1>3, <1>5

\* An empty separator is everywhere in the string.
LEMMA EmptyAt ==
  ASSUME ListInv, NEW k \in Nat, k <= Len(str)
  PROVE  Mid(str, k, 0) = <<>>
<1>1. Len(str) \in Nat
  BY StrIsSeq
<1>2. Min({k + 0, Len(str)}) = k
  BY <1>1, MinOfTwo
<1>3. SubSeq(str, k + 1, k) = <<>>
  BY SubSeqEmpty
<1> QED BY <1>2, <1>3 DEF Mid

\* Where a separator is found first; none starts between there and where it is sought
\* from, and where none is found none starts at all.
LEMMA FirstFound ==
  ASSUME ListInv, NEW t, t \in Seq(ToSet(t)), NEW i \in Nat
  PROVE  /\ Found(t, i) # {} =>
              /\ Min(Found(t, i)) \in Nat /\ Min(Found(t, i)) >= i
              /\ Min(Found(t, i)) + Len(t) <= Len(str)
              /\ Mid(str, Min(Found(t, i)), Len(t)) = t
              /\ \A k \in i .. Min(Found(t, i)) - 1 : Mid(str, k, Len(t)) # t
         /\ Found(t, i) = {} => \A k \in i .. Len(str) - 1 : Mid(str, k, Len(t)) # t
<1>1. Len(str) \in Nat /\ Len(t) \in Nat
  BY StrIsSeq
<1> DEFINE at == Found(t, i)
<1>2. /\ \A k \in at : k \in i .. Len(str) - Len(t) /\ Mid(str, k, Len(t)) = t
      /\ \A k \in i .. Len(str) - Len(t) : Mid(str, k, Len(t)) = t => k \in at
  BY DEF Found
<1> HIDE DEF at
<1>3. CASE at # {}
  <2>1. at \in SUBSET Nat
    BY <1>1, <1>2
  <2>2. Min(at) \in at /\ \A k \in at : Min(at) <= k
    BY <1>3, <2>1, MinIsLeast
  <2>3. Min(at) \in i .. Len(str) - Len(t) /\ Mid(str, Min(at), Len(t)) = t
    BY <1>2, <2>2
  <2>4. \A k \in i .. Min(at) - 1 : Mid(str, k, Len(t)) # t
    BY <1>1, <1>2, <2>2, <2>3
  <2> QED BY <1>1, <1>3, <2>3, <2>4 DEF at
<1>4. CASE at = {}
  <2>1. ASSUME NEW k \in i .. Len(str) - 1, Mid(str, k, Len(t)) = t
        PROVE  FALSE
    <3>1. k \in Nat /\ k < Len(str) /\ Len(Mid(str, k, Len(t))) = Len(t)
      BY <1>1, <2>1
    <3>2. k + Len(t) <= Len(str)
      BY <1>1, <3>1, MidFits
    <3>3. k \in i .. Len(str) - Len(t)
      BY <1>1, <3>1, <3>2
    <3> QED BY <1>2, <1>4, <2>1, <3>3
  <2> QED BY <1>4, <2>1 DEF at
<1> QED BY <1>3, <1>4

\* A turn of bsplitstrcb.
LEMMA SplitTextOK ==
  ASSUME ListInv, SplitText
  PROVE  TurnOK
<1> DEFINE t  == run.by.text
           at == Found(t, run.i)
           m  == Min(at)
           q  == m + Len(t)
<1>1. /\ run.pc = "split" /\ t # NULL
      /\ \/ t = <<>> /\ run.p >= Len(str) /\ Ends
         \/ t = <<>> /\ run.p < Len(str) /\ Cb(run.p, 1, run.p + 1, run.p + 1, FALSE)
         \/ t # <<>> /\ at # {} /\ Cb(run.p, m - run.p, q, q + 1, FALSE)
         \/ t # <<>> /\ at = {} /\ Cb(run.p, Len(str) - run.p, 0, 0, TRUE)
  BY DEF SplitText
<1>2. /\ run.p \in Nat /\ run.i \in {run.p, run.p + 1} /\ t \in Seq(ToSet(t))
      /\ ret.call # "piece" => run.i = run.p
      /\ ret.call = "piece" => run.p = ret.ofs + ret.len + SepLen(run.by)
  BY <1>1 DEF ListInv, SplitOK
<1>3. Len(str) \in Nat /\ Len(t) \in Nat
  BY <1>2, StrIsSeq
<1>4. \A j : SepAt(run.by, j) <=> Mid(str, j, Len(t)) = t
  BY <1>1 DEF SepAt
<1>5. SepLen(run.by) = Len(t)
  BY <1>1 DEF SepLen
<1>6. /\ at # {} => /\ m \in Nat /\ m >= run.i /\ Mid(str, m, Len(t)) = t
                    /\ m + Len(t) <= Len(str)
                    /\ \A k \in run.i .. m - 1 : Mid(str, k, Len(t)) # t
      /\ at = {} => \A k \in run.i .. Len(str) - 1 : Mid(str, k, Len(t)) # t
  <2>1. run.i \in Nat
    BY <1>2
  <2> QED BY <1>2, <2>1, FirstFound
<1>7. CASE t = <<>> /\ run.p < Len(str) /\ Cb(run.p, 1, run.p + 1, run.p + 1, FALSE)
  <2>1. Len(t) = 0
    BY <1>7
  <2>2. Mid(str, run.p + 1, 0) = <<>>
    BY <1>2, <1>3, <1>7, EmptyAt
  <2>3. SepAt(run.by, run.p + 1)
    BY <1>4, <1>7, <2>1, <2>2
  <2>4. PieceNear(run.p, 1, run.by)
    BY <1>1, <1>2, <1>7, <2>3 DEF PieceNear
  <2>5. NextOK(run.p, 1, run.p + 1, run.p + 1)
    BY <1>1, <1>2, <1>5, <2>1 DEF NextOK
  <2> QED BY <1>1, <1>7, <2>4, <2>5, CbOK
<1>8. CASE t # <<>> /\ at # {} /\ Cb(run.p, m - run.p, q, q + 1, FALSE)
  <2>0. m + Len(t) <= Len(str)
    BY <1>6, <1>8
  <2>1. /\ m \in Nat /\ m >= run.i /\ Mid(str, m, Len(t)) = t
        /\ \A k \in run.i .. m - 1 : Mid(str, k, Len(t)) # t
    BY <1>6, <1>8
  <2> HIDE DEF m
  <2>2. run.p + (m - run.p) = m
    BY <1>2, <2>1
  <2>3. SepAt(run.by, m)
    BY <1>4, <2>1
  <2>4. ASSUME NEW j \in run.p .. m - 1, SepAt(run.by, j)
        PROVE  j = run.p /\ ret.call = "piece" /\ t # NULL
    <3>1. Mid(str, j, Len(t)) = t
      BY <1>4, <2>4
    <3>2. j \notin run.i .. m - 1
      BY <2>1, <3>1
    <3>3. j = run.p /\ run.i = run.p + 1
      BY <1>2, <2>1, <3>2
    <3> QED BY <1>1, <1>2, <3>3
  <2>5. PieceNear(run.p, m - run.p, run.by)
    <3>1. t # <<>> => \A k \in run.p .. m - 1 :
                        SepAt(run.by, k) => k = run.p /\ ret.call = "piece" /\ t # NULL
      BY <2>4
    <3>2. m \in Int /\ run.p \in Nat /\ m >= run.p
      BY <1>2, <2>1
    <3>3. m <= Len(str)
      BY <1>3, <2>0, <2>1
    <3> HIDE DEF at, q
    <3> QED BY <1>1, <1>2, <1>3, <2>2, <2>3, <3>1, <3>2, <3>3, PieceTo
  <2>6. NextOK(run.p, m - run.p, q, q + 1)
    BY <1>1, <1>2, <1>3, <1>5, <2>1, <2>2 DEF NextOK
  <2> QED BY <1>1, <1>8, <2>5, <2>6, CbOK
<1>9. CASE t # <<>> /\ at = {} /\ Cb(run.p, Len(str) - run.p, 0, 0, TRUE)
  <2>1. \A k \in run.i .. Len(str) - 1 : Mid(str, k, Len(t)) # t
    BY <1>6, <1>9
  <2>2. run.p + (Len(str) - run.p) = Len(str)
    BY <1>2, <1>3
  <2>3. ASSUME NEW j \in run.p .. Len(str) - 1, SepAt(run.by, j)
        PROVE  j = run.p /\ ret.call = "piece" /\ t # NULL
    <3>1. Mid(str, j, Len(t)) = t
      BY <1>4, <2>3
    <3>2. j \notin run.i .. Len(str) - 1
      BY <2>1, <3>1
    <3>3. j = run.p /\ run.i = run.p + 1
      BY <1>2, <1>3, <3>2
    <3> QED BY <1>1, <1>2, <3>3
  <2>4. PieceNear(run.p, Len(str) - run.p, run.by)
    <3>1. /\ Len(str) \in Int
          /\ Len(str) <= Len(str)
          /\ run.p <= Len(str) => Len(str) >= run.p
      BY <1>2, <1>3
    <3> HIDE DEF at, m, q
    <3> QED BY <1>1, <1>2, <1>3, <2>2, <2>3, <3>1, PieceTo
  <2> QED BY <1>1, <1>9, <2>4, CbOK
<1>10. CASE Ends
  BY <1>1, <1>10, EndsOK
<1> QED BY <1>1, <1>7, <1>8, <1>9, <1>10

-----------------------------------------------------------------------------
(* The specification.                                                      *)

\* At first there is no list.
LEMMA InitOK ==
  ASSUME Init
  PROVE  ListInv
BY DEF Init, ListInv, SlotsOK, AskedOK, SplitOK, Idle

\* No call is made while a string is split.
LEMMA CallsWait ==
  ASSUME Call
  PROVE  run = Idle
BY DEF Call, bstrListCreate, bstrListDestroy, bstrListAlloc, bstrListAllocMin, Puts, Ready,
       bsplits, bsplit, bsplitstr, Lists, bsplitscb, bsplitstrcb, bjoin

\* Every call keeps the invariant.
LEMMA CallKeeps ==
  ASSUME ListInv, Call, str' = str
  PROVE  ListInv'
<1>1. CASE \/ bstrListCreate \/ bstrListDestroy
           \/ \E msz \in Rooms : bstrListAlloc(msz) \/ bstrListAllocMin(msz)
           \/ \E t \in Separators : Puts(t)
  BY <1>1, SlotCalls
<1>2. CASE \/ \E S \in Sets : \/ bsplits(S)
                              \/ \E c \in S : bsplit(c)
                              \/ \E pos \in 0 .. Len(str) : bsplitscb(S, pos)
           \/ \E t \in Separators : \/ bsplitstr(t)
                                    \/ \E pos \in 0 .. Len(str) : bsplitstrcb(t, pos)
  BY <1>2, SplitCalls
<1>3. ASSUME NEW t \in Separators, bjoin(t)
      PROVE  ListInv'
  BY <1>3, JoinKeeps
<1> QED BY <1>1, <1>2, <1>3 DEF Call

\* Every step keeps the invariant, and hands out no piece but as it should.
LEMMA StepOK ==
  ASSUME ListInv, Next
  PROVE  ListInv' /\ (run.pc = "split" => TurnOK)
<1>1. CASE Turn
  <2>1. TurnOK
    BY <1>1, SplitSetOK, SplitTextOK DEF Turn
  <2> QED BY <2>1 DEF TurnOK
<1>2. CASE Call /\ str' = str
  <2>1. run.pc # "split"
    BY <1>2, CallsWait DEF Idle
  <2> QED BY <1>2, <2>1, CallKeeps
<1> QED BY <1>1, <1>2 DEF Next

\* A step that changes nothing keeps it.
LEMMA StutterKeeps ==
  ASSUME ListInv, UNCHANGED vars
  PROVE  ListInv'
BY DEF vars, ListInv, SlotsOK, AskedOK, SplitOK, SepLen

\* The invariant holds in every state.
LEMMA ListInvHolds == Spec => []ListInv
<1>1. Init => ListInv
  BY InitOK
<1>2. ListInv /\ [Next]_vars => ListInv'
  BY StepOK, StutterKeeps
<1> QED BY <1>1, <1>2, PTL DEF Spec

\* The entries of a list are in its slots, and a client has the slots it asked for: the
\* doubling in bscb, the rounding up in bstrListAlloc and the trimming in
\* bstrListAllocMin leave room for lists of every length.
THEOREM ListsHaveRoom == Spec => []ListRoom
<1>1. ListInv => ListRoom
  BY DEF ListInv, SlotsOK, AskedOK, ListRoom, IsList
<1> QED BY <1>1, ListInvHolds, PTL

-----------------------------------------------------------------------------
(* The pieces.                                                             *)

\* One that a character ends has none of the characters in it, and is in the string.
LEMMA PieceBySet ==
  ASSUME ListInv, run.pc = "split", run.by.text = NULL, NEW ofs, NEW len,
         PieceNear(ofs, len, run.by)
  PROVE  PieceOK(ofs, len, run.by)
<1>1. Len(str) \in Nat
  BY StrIsSeq
<1> QED BY <1>1 DEF PieceNear, PieceOK, Undivided

\* Every piece bsplitcb and bsplitscb hand out is in the string, starts right behind the
\* character that ended the one before and ends at the next, with none in between, for
\* strings of every length, though the callback may change the string in between.
THEOREM PiecesAreExact == Spec => PiecesExact
<1> DEFINE PieceStep == run.pc = "split" /\ run.by.text = NULL /\ ret'.call = "piece" =>
                          PieceOK(ret'.ofs, ret'.len, ret'.by)
<1>1. ListInv /\ [Next]_vars => [PieceStep]_vars
  <2>1. ASSUME ListInv, Next PROVE PieceStep
    <3>1. run.pc = "split" => TurnOK
      BY <2>1, StepOK
    <3>2. run.pc = "split" /\ run.by.text = NULL /\ ret'.call = "piece" =>
            PieceOK(ret'.ofs, ret'.len, ret'.by)
      BY <2>1, <3>1, PieceBySet DEF TurnOK
    <3> QED BY <3>2
  <2> HIDE DEF PieceStep
  <2> QED BY <2>1
<1>2. ([][PieceStep]_vars) => PiecesExact
  BY PTL DEF PiecesExact
<1> HIDE DEF PieceStep
<1> QED BY <1>1, <1>2, ListInvHolds, PTL DEF Spec

-----------------------------------------------------------------------------
(* The pieces of strings in which no separator is right behind another.    *)

\* Separators of more than one character, which bsplitstrcb searches for, are in the
\* strings such that the piece behind one starts with none, and exists, whichever of
\* the strings the callback makes of the one it is called for.
Apart ==
  \A s \in Separators : Len(s) # 1 =>
    /\ s # <<>>
    /\ \A t, u \in Texts : \A k \in 0 .. Len(t) :
         Mid(t, k, Len(s)) = s =>
           k + Len(s) <= Len(u) /\ Mid(u, k + Len(s), Len(s)) # s

\* The next piece exists and starts with no separator.
ApartInv ==
  run.pc = "split" /\ run.by.text # NULL =>
    /\ run.by.text \in Separators /\ Len(run.by.text) # 1
    /\ run.p <= Len(str)
    /\ ret.call = "piece" => Mid(str, run.p, Len(run.by.text)) # run.by.text

\* So it does when a splitting begins.
LEMMA ApartBegins ==
  ASSUME ListInv, Call, str' = str
  PROVE  ApartInv'
<1>1. ASSUME run' = run
      PROVE  ApartInv'
  <2>1. run.pc # "split"
    BY CallsWait DEF Idle
  <2> QED BY <1>1, <2>1 DEF ApartInv
<1>2. ASSUME NEW name, NEW t \in Separators, NEW pos \in Int, pos <= Len(str),
             run' = Begun(name, ByText(t), pos), ret'.call # "piece"
      PROVE  ApartInv'
  <2>1. run'.by = ByText(t) /\ run'.p = pos
    BY <1>2 DEF Begun
  <2>2. CASE Len(t) = 1
    BY <2>1, <2>2 DEF ApartInv, ByText, BySet
  <2>3. CASE Len(t) # 1
    BY <1>2, <2>1, <2>3 DEF ApartInv, ByText
  <2> QED BY <2>2, <2>3
<1>3. ASSUME NEW name, NEW S, NEW pos, run' = Begun(name, BySet(S), pos)
      PROVE  ApartInv'
  BY <1>3 DEF ApartInv, Begun, BySet
<1>4. ASSUME run' = Crashed
      PROVE  ApartInv'
  BY <1>4 DEF ApartInv, Crashed
<1>5. CASE \E S \in Sets : \/ bsplits(S)
                           \/ \E c \in S : bsplit(c)
                           \/ \E pos \in 0 .. Len(str) : bsplitscb(S, pos)
  BY <1>1, <1>3, <1>5 DEF bsplits, bsplit, bsplitscb, Lists, Returns
<1>6. ASSUME NEW t \in Separators, bsplitstr(t)
      PROVE  ApartInv'
  <2>1. Len(str) \in Nat
    BY StrIsSeq
  <2> QED BY <1>1, <1>2, <1>6, <2>1 DEF bsplitstr, Lists, Returns
<1>7. ASSUME NEW t \in Separators, NEW pos \in 0 .. Len(str), bsplitstrcb(t, pos)
      PROVE  ApartInv'
  BY <1>2, <1>7 DEF bsplitstrcb
<1>8. CASE \/ bstrListCreate \/ bstrListDestroy
           \/ \E msz \in Rooms : bstrListAlloc(msz) \/ bstrListAllocMin(msz)
           \/ \E t \in Separators : Puts(t) \/ bjoin(t)
  <2>1. run' = run \/ run' = Crashed
    <3>1. CASE \E msz \in Rooms : bstrListAlloc(msz)
      <4>1. ASSUME NEW msz, bstrListAlloc(msz) PROVE run' = run
        BY <4>1 DEF bstrListAlloc, Resized, Returns
      <4> QED BY <3>1, <4>1
    <3>2. CASE \E msz \in Rooms : bstrListAllocMin(msz)
      <4>1. ASSUME NEW msz, bstrListAllocMin(msz) PROVE run' = run
        BY <4>1 DEF bstrListAllocMin, Resized, Returns
      <4> QED BY <3>2, <4>1
    <3>3. CASE \E t \in Separators : bjoin(t)
      BY <3>3 DEF bjoin
    <3>4. CASE bstrListCreate
      BY <3>4 DEF bstrListCreate, Returns
    <3>5. CASE bstrListDestroy
      BY <3>5 DEF bstrListDestroy
    <3>6. CASE \E t \in Separators : Puts(t)
      BY <3>6 DEF Puts
    <3> QED BY <1>8, <3>1, <3>2, <3>3, <3>4, <3>5, <3>6
  <2> QED BY <1>1, <1>4, <2>1
<1>9. CASE \E t \in Separators : \/ Puts(t) \/ bsplitstr(t) \/ bjoin(t)
                                 \/ \E pos \in 0 .. Len(str) : bsplitstrcb(t, pos)
  <2>1. PICK t \in Separators : \/ Puts(t) \/ bsplitstr(t) \/ bjoin(t)
                                \/ \E pos \in 0 .. Len(str) : bsplitstrcb(t, pos)
    BY <1>9
  <2>2. CASE bsplitstr(t)
    BY <1>6, <2>2
  <2>3. CASE \E pos \in 0 .. Len(str) : bsplitstrcb(t, pos)
    BY <1>7, <2>3
  <2>4. CASE Puts(t) \/ bjoin(t)
    BY <1>8, <2>4, Zenon
  <2> QED BY <2>1, <2>2, <2>3, <2>4
<1>10. CASE \/ bstrListCreate \/ bstrListDestroy
            \/ \E msz \in Rooms : bstrListAlloc(msz) \/ bstrListAllocMin(msz)
  BY <1>8, <1>10, Zenon
<1> QED BY <1>5, <1>9, <1>10 DEF Call

\* A callback is called for the last piece, or the next one begins.
LEMMA CbGoesOn ==
  ASSUME ListInv, run.pc = "split", NEW ofs, NEW len, NEW q, NEW j,
         NEW last \in BOOLEAN, Cb(ofs, len, q, j, last)
  PROVE  run'.pc # "split" \/ (~last /\ run'.by = run.by /\ run'.p = q)
<1>1. DOMAIN run = {"pc", "name", "by", "p", "i"}
  BY DEF ListInv, SplitOK
<1>2. ASSUME NEW stops \in BOOLEAN, Handed(ofs, len, q, j, last, stops)
      PROVE  run'.pc # "split" \/ (~last /\ run'.by = run.by /\ run'.p = q)
  <2>1. run' = IF stops \/ last THEN Idle ELSE [run EXCEPT !.p = q, !.i = j]
    BY <1>2 DEF Handed
  <2> QED BY <1>1, <2>1 DEF Idle
<1>3. CASE ClientCb(ofs, len, q, j, last)
  BY <1>2, <1>3 DEF ClientCb
<1>4. CASE bscb(ofs, len, q, j, last)
  <2>1. Handed(ofs, len, q, j, last, FALSE) \/ run' = Idle
    BY <1>4 DEF bscb
  <2>2. CASE Handed(ofs, len, q, j, last, FALSE)
    BY <1>2, <2>2
  <2>3. CASE run' = Idle
    BY <2>3 DEF Idle
  <2> QED BY <2>1, <2>2, <2>3
<1> QED BY <1>3, <1>4 DEF Cb

\* And when it goes on behind a separator.
LEMMA ApartGoesOn ==
  ASSUME Apart, ListInv, ListInv', ApartInv, Turn
  PROVE  ApartInv'
<1>1. CASE Ends
  BY <1>1 DEF Ends, ApartInv, Idle
<1>2. CASE SplitSet /\ ~Ends
  <2>1. run.pc = "split" /\ run.by.text = NULL
    BY <1>2 DEF SplitSet
  <2>2. ASSUME NEW ofs, NEW len, NEW q, NEW j, NEW last \in BOOLEAN,
               Cb(ofs, len, q, j, last)
        PROVE  run'.pc # "split" \/ run'.by = run.by
    BY <2>1, <2>2, CbGoesOn
  <2>3. run'.pc # "split" \/ run'.by = run.by
    BY <1>2, <2>2 DEF SplitSet
  <2> QED BY <2>1, <2>3 DEF ApartInv
<1>3. CASE SplitText /\ ~Ends
  <2> DEFINE t == run.by.text
             at == Found(t, run.i)
             q  == Min(at) + Len(t)
  <2>1. /\ run.pc = "split" /\ t # NULL
        /\ \/ t = <<>>
           \/ t # <<>> /\ at # {} /\ Cb(run.p, Min(at) - run.p, q, q + 1, FALSE)
           \/ t # <<>> /\ at = {} /\ Cb(run.p, Len(str) - run.p, 0, 0, TRUE)
    BY <1>3 DEF SplitText
  <2>2. t \in Separators /\ Len(t) # 1 /\ t # <<>>
    BY <2>1 DEF ApartInv, Apart
  <2>3. CASE at = {} /\ Cb(run.p, Len(str) - run.p, 0, 0, TRUE)
    <3>1. run'.pc # "split"
      BY <2>1, <2>3, CbGoesOn
    <3> QED BY <3>1 DEF ApartInv
  <2>4. CASE at # {} /\ Cb(run.p, Min(at) - run.p, q, q + 1, FALSE)
    <3>1. run'.pc # "split" \/ (run'.by = run.by /\ run'.p = q)
      BY <2>1, <2>4, CbGoesOn
    <3>2. t \in Seq(ToSet(t)) /\ run.i \in Nat
      BY <2>1 DEF ListInv, SplitOK
    <3>3. Min(at) \in Nat /\ Min(at) + Len(t) <= Len(str) /\ Mid(str, Min(at), Len(t)) = t
      BY <2>4, <3>2, FirstFound
    <3>4. Len(t) \in Nat /\ Len(str) \in Nat
      BY <3>2, StrIsSeq
    <3>5. Min(at) \in 0 .. Len(str)
      BY <3>3, <3>4
    <3>6. str \in Texts /\ str' \in Texts
      BY DEF ListInv
    <3>7. q <= Len(str') /\ Mid(str', q, Len(t)) # t
      <4> HIDE DEF at, t
      <4> QED BY <2>2, <3>3, <3>5, <3>6 DEF Apart
    <3> QED BY <2>2, <3>1, <3>7 DEF ApartInv
  <2> QED BY <2>1, <2>2, <2>3, <2>4
<1> QED BY <1>1, <1>2, <1>3 DEF Turn

\* So a piece has no separator in it, and is in the string.
LEMMA PieceApart ==
  ASSUME Apart, ListInv, ApartInv, run.pc = "split", NEW ofs, NEW len,
         PieceNear(ofs, len, run.by)
  PROVE  PieceOK(ofs, len, run.by)
<1>1. Len(str) \in Nat
  BY StrIsSeq
<1>2. CASE run.by.text = NULL
  BY <1>2, PieceBySet
<1>3. CASE run.by.text # NULL
  <2>1. /\ run.by.text # <<>> /\ ofs = run.p /\ ofs <= Len(str)
        /\ ret.call = "piece" => Mid(str, run.p, Len(run.by.text)) # run.by.text
    BY <1>3 DEF ApartInv, Apart, PieceNear
  <2>2. ret.call = "piece" => ~SepAt(run.by, ofs)
    BY <1>3, <2>1 DEF SepAt
  <2> QED BY <1>3, <2>1, <2>2 DEF PieceNear, PieceOK, Undivided
<1> QED BY <1>2, <1>3

\* The same of bsplitstrcb, for separators that are apart in all the strings.
ApartExact ==
  [][run.pc = "split" /\ ret'.call = "piece" =>
       PieceOK(ret'.ofs, ret'.len, ret'.by)]_vars

\* The comment of bsplitstrcb is right about separators of several characters that are
\* apart in the strings and followed by something, whatever the callback makes of them.
THEOREM ApartPiecesAreExact == Apart => (Spec => ApartExact)
<1> SUFFICES ASSUME Apart PROVE Spec => ApartExact
  OBVIOUS
<1> DEFINE PieceStep == run.pc = "split" /\ ret'.call = "piece" =>
                          PieceOK(ret'.ofs, ret'.len, ret'.by)
<1>1. Init => ApartInv
  BY DEF Init, ApartInv, Idle
<1>2. ListInv /\ ListInv' /\ ApartInv /\ [Next]_vars => ApartInv'
  <2>1. ASSUME ListInv, ListInv', ApartInv, Turn PROVE ApartInv'
    BY <2>1, ApartGoesOn
  <2>2. ASSUME ListInv, Call, str' = str PROVE ApartInv'
    BY <2>2, ApartBegins
  <2>3. ASSUME ApartInv, UNCHANGED vars PROVE ApartInv'
    BY <2>3 DEF vars, ApartInv
  <2> QED BY <2>1, <2>2, <2>3 DEF Next
<1>3. ListInv /\ ApartInv /\ [Next]_vars => [PieceStep]_vars
  <2>1. ASSUME ListInv, ApartInv, Next PROVE PieceStep
    <3>1. run.pc = "split" => TurnOK
      BY <2>1, StepOK
    <3>2. run.pc = "split" /\ ret'.call = "piece" => PieceOK(ret'.ofs, ret'.len, ret'.by)
      BY <2>1, <3>1, PieceApart DEF TurnOK
    <3> QED BY <3>2
  <2> HIDE DEF PieceStep
  <2> QED BY <2>1
<1>4. ([][PieceStep]_vars) => ApartExact
  BY PTL DEF ApartExact
<1> HIDE DEF PieceStep
<1> QED BY <1>1, <1>2, <1>3, <1>4, ListInvHolds, PTL DEF Spec

-----------------------------------------------------------------------------
(* Sequences of texts put together: FlattenSeq is a recursive function, whose  *)
(* existence and values follow from the least place where they would fail.     *)

\* f[i] is made of the first i texts of s.
Flattens(f, s, n) ==
  /\ f = [i \in 1 .. n |-> f[i]]
  /\ \A i \in 1 .. n : f[i] = IF i = 1 THEN s[i] ELSE f[i - 1] \o s[i]

\* What FlattenSeq chooses.
Flattening(s) ==
  CHOOSE f : f = [i \in 1 .. Len(s) |-> IF i = 1 THEN s[i] ELSE f[i - 1] \o s[i]]

\* There is such a function.
LEMMA FlattenExists ==
  ASSUME NEW s, NEW n \in Nat
  PROVE  \E f : Flattens(f, s, n)
<1> DEFINE Bad == {k \in 0 .. n : ~ \E f : Flattens(f, s, k)}
<1>1. ASSUME Bad # {} PROVE FALSE
  <2>1. Bad \in SUBSET Nat
    OBVIOUS
  <2>2. PICK m \in Bad : \A k \in Bad : m <= k
    BY <1>1, <2>1, MinIsLeast
  <2>3. m \in 0 .. n /\ ~ \E f : Flattens(f, s, m)
    OBVIOUS
  <2>4. \A k \in 0 .. n : k < m => \E f : Flattens(f, s, k)
    BY <2>2
  <2> HIDE DEF Bad
  <2>5. CASE m = 0
    <3>1. Flattens([i \in 1 .. 0 |-> 0], s, 0)
      BY DEF Flattens
    <3> QED BY <2>3, <2>5, <3>1
  <2>6. CASE m > 0
    <3>1. m - 1 \in 0 .. n
      BY <2>3, <2>6
    <3>2. PICK f : Flattens(f, s, m - 1)
      BY <2>3, <2>4, <3>1
    <3> DEFINE g == [i \in 1 .. m |-> IF i = m THEN IF m = 1 THEN s[m] ELSE f[m - 1] \o s[m]
                                      ELSE f[i]]
    <3>3. g[m] = IF m = 1 THEN s[m] ELSE f[m - 1] \o s[m]
      BY <2>3, <2>6
    <3>4. \A i \in 1 .. m - 1 : g[i] = f[i]
      BY <2>3
    <3>5. g = [i \in 1 .. m |-> g[i]]
      OBVIOUS
    <3> HIDE DEF g
    <3>6. \A i \in 1 .. m - 1 : f[i] = IF i = 1 THEN s[i] ELSE f[i - 1] \o s[i]
      BY <3>2 DEF Flattens
    <3>7. \A i \in 1 .. m : g[i] = IF i = 1 THEN s[i] ELSE g[i - 1] \o s[i]
      <4>1. TAKE i \in 1 .. m
      <4>2. CASE i = m
        <5>1. i # 1 => i - 1 \in 1 .. m - 1
          BY <2>3, <4>2
        <5> QED BY <3>3, <3>4, <4>2, <5>1
      <4>3. CASE i # m
        <5>1. i \in 1 .. m - 1 /\ (i # 1 => i - 1 \in 1 .. m - 1)
          BY <2>3, <4>3
        <5> QED BY <3>4, <3>6, <5>1
      <4> QED BY <4>2, <4>3
    <3>8. Flattens(g, s, m)
      BY <3>5, <3>7 DEF Flattens
    <3> QED BY <2>3, <3>8
  <2> QED BY <2>3, <2>5, <2>6
<1>2. n \notin Bad
  BY <1>1
<1> QED BY <1>2

\* FlattenSeq is its last value.
LEMMA FlattenIs ==
  ASSUME NEW C, NEW s \in Seq(C), s # <<>>
  PROVE  /\ Flattens(Flattening(s), s, Len(s))
         /\ FlattenSeq(s) = Flattening(s)[Len(s)]
<1> DEFINE n == Len(s)
<1>1. n \in Nat /\ n # 0
  OBVIOUS
<1>2. FlattenSeq(s) = Flattening(s)[Len(s)]
  BY <1>1 DEF FlattenSeq, Flattening
<1>3. PICK g : Flattens(g, s, n)
  BY <1>1, FlattenExists
<1>4. g = [i \in 1 .. n |-> IF i = 1 THEN s[i] ELSE g[i - 1] \o s[i]]
  BY <1>3 DEF Flattens
<1> DEFINE F == Flattening(s)
<1>5. F = [i \in 1 .. n |-> IF i = 1 THEN s[i] ELSE F[i - 1] \o s[i]]
  BY <1>4 DEF Flattening
<1> HIDE DEF F, n
<1>6. Flattens(F, s, n)
  BY <1>5 DEF Flattens
<1> QED BY <1>2, <1>6 DEF F, n

\* s, of n texts, is where u, of m texts, begins.
BothFlatten(C, s, n, f, u, m, g) ==
  /\ n \in Nat /\ m \in Nat /\ n <= m
  /\ \A i \in 1 .. n : s[i] \in Seq(C) /\ u[i] = s[i]
  /\ Flattens(f, s, n) /\ Flattens(g, u, m)

\* Its values are texts; they depend on nothing but the texts up to there.
LEMMA FlattenValues ==
  ASSUME NEW C, NEW s, NEW n, NEW f, NEW u, NEW m, NEW g, BothFlatten(C, s, n, f, u, m, g)
  PROVE  \A i \in 1 .. n : f[i] \in Seq(C) /\ g[i] = f[i]
<1> USE DEF BothFlatten
<1> DEFINE Bad == {i \in 1 .. n : ~(f[i] \in Seq(C) /\ g[i] = f[i])}
<1>1. ASSUME Bad # {} PROVE FALSE
  <2>1. Bad \in SUBSET Nat
    OBVIOUS
  <2>2. PICK k \in Bad : \A i \in Bad : k <= i
    BY <1>1, <2>1, MinIsLeast
  <2>3. k \in 1 .. n /\ ~(f[k] \in Seq(C) /\ g[k] = f[k])
    OBVIOUS
  <2>4. \A i \in 1 .. n : i < k => f[i] \in Seq(C) /\ g[i] = f[i]
    BY <2>2
  <2> HIDE DEF Bad
  <2>5. f[k] = IF k = 1 THEN s[k] ELSE f[k - 1] \o s[k]
    BY <2>3 DEF Flattens
  <2>6. g[k] = IF k = 1 THEN u[k] ELSE g[k - 1] \o u[k]
    <3>1. k \in 1 .. m
      BY <2>3
    <3> QED BY <3>1 DEF Flattens
  <2>7. s[k] \in Seq(C) /\ u[k] = s[k]
    BY <2>3
  <2>8. CASE k = 1
    BY <2>3, <2>5, <2>6, <2>7, <2>8
  <2>9. CASE k # 1
    <3>1. k - 1 \in 1 .. n /\ k - 1 < k
      BY <2>3, <2>9
    <3>2. f[k - 1] \in Seq(C) /\ g[k - 1] = f[k - 1]
      BY <2>4, <3>1
    <3>3. f[k - 1] \o s[k] \in Seq(C)
      BY <2>7, <3>2, ConcatProperties
    <3> QED BY <2>3, <2>5, <2>6, <2>7, <2>9, <3>2, <3>3
  <2> QED BY <2>8, <2>9
<1> QED BY <1>1

\* A text more.
LEMMA FlattenAppend ==
  ASSUME NEW C, NEW s \in Seq(Seq(C)), NEW y \in Seq(C)
  PROVE  /\ FlattenSeq(s) \in Seq(C)
         /\ FlattenSeq(Append(s, y)) = FlattenSeq(s) \o y
<1> DEFINE n == Len(s)
           u == Append(s, y)
           F == Flattening(s)
           G == Flattening(u)
<1>1. /\ n \in Nat /\ u \in Seq(Seq(C)) /\ u # <<>> /\ Len(u) = n + 1
      /\ u[n + 1] = y /\ \A i \in 1 .. n : s[i] \in Seq(C) /\ u[i] = s[i]
  BY AppendProperties
<1>2. Flattens(G, u, n + 1) /\ FlattenSeq(u) = G[n + 1]
  <2> HIDE DEF u
  <2> QED BY <1>1, FlattenIs
<1> HIDE DEF u, G
<1>3. CASE n = 0
  <2>1. s = <<>>
    BY <1>3
  <2>2. FlattenSeq(s) = <<>>
    BY <2>1 DEF FlattenSeq
  <2>3. G[1] = u[1]
    BY <1>2, <1>3 DEF Flattens
  <2>4. <<>> \o y = y /\ <<>> \in Seq(C)
    BY ConcatEmptySeq
  <2> QED BY <1>1, <1>2, <1>3, <2>2, <2>3, <2>4 DEF u
<1>4. CASE n # 0
  <2>1. s # <<>>
    BY <1>4
  <2>2. Flattens(F, s, n) /\ FlattenSeq(s) = F[n]
    BY <2>1, FlattenIs
  <2> HIDE DEF F, n
  <2>3. \A i \in 1 .. n : F[i] \in Seq(C) /\ G[i] = F[i]
    <3>1. n + 1 \in Nat /\ n <= n + 1
      BY <1>1
    <3>2. BothFlatten(C, s, n, F, u, n + 1, G)
      BY <1>1, <1>2, <2>2, <3>1 DEF BothFlatten
    <3> QED BY <3>2, FlattenValues
  <2>4. n \in 1 .. n /\ n + 1 \in 1 .. n + 1 /\ n + 1 # 1 /\ (n + 1) - 1 = n
    BY <1>1, <1>4
  <2>5. G[n + 1] = G[n] \o u[n + 1]
    BY <1>2, <2>4 DEF Flattens
  <2> QED BY <1>1, <1>2, <2>2, <2>3, <2>4, <2>5 DEF u
<1> QED BY <1>3, <1>4

\* How three texts are put together makes no difference.
Associative(S) == \A a, b, c \in Seq(S) : (a \o b) \o c = a \o (b \o c)

\* Concatenation is associative.
LEMMA JoinsAssociate == \A S : Associative(S)
BY ConcatAssociative DEF Associative

\* x is put behind the entries, which are texts over C, and a separator.
JoinsMore(C, d, x, e) ==
  /\ Joined(e, d) \in Seq(C)
  /\ Joined(Append(e, x), d) = IF e = <<>> THEN x ELSE Joined(e, d) \o (d \o x)

\* One text joined is itself; one more follows a separator.
LEMMA JoinedGrows ==
  ASSUME NEW C, NEW d \in Seq(C), NEW x \in Seq(C), NEW e \in Seq(Seq(C))
  PROVE  JoinsMore(C, d, x, e)
<1> USE DEF JoinsMore
<1> DEFINE D == Seq(C)
           Rest(s) == [k \in 1 .. Len(s) - 1 |-> d \o s[k + 1]]
           u == Append(e, x)
<1>0. e \in Seq(D) /\ x \in D
  OBVIOUS
<1>1. /\ u \in Seq(D) /\ u # <<>> /\ Len(u) = Len(e) + 1 /\ Len(e) \in Nat
      /\ u[Len(e) + 1] = x /\ \A i \in 1 .. Len(e) : e[i] \in D /\ u[i] = e[i]
  <2> HIDE DEF D
  <2> QED BY <1>0, AppendProperties
<1>2. d \o x \in D /\ \A i \in 1 .. Len(e) : d \o e[i] \in D
  BY <1>1, ConcatProperties
<1>3. Joined(u, d) = Head(u) \o FlattenSeq(Rest(u))
  BY <1>1 DEF Joined
<1>4. CASE e = <<>>
  <2>1. Len(u) = 1 /\ Head(u) = x
    BY <1>1, <1>4
  <2>2. Rest(u) = <<>>
    BY <2>1
  <2>3. FlattenSeq(Rest(u)) = <<>>
    BY <2>2 DEF FlattenSeq
  <2>4. x \o <<>> = x /\ <<>> \in Seq(C)
    BY ConcatEmptySeq
  <2>5. Joined(e, d) = <<>>
    BY <1>4 DEF Joined
  <2> QED BY <1>3, <1>4, <2>1, <2>3, <2>4, <2>5
<1>5. CASE e # <<>>
  <2> DEFINE R == Rest(e)
             h == Head(e)
  <2>1. Len(e) - 1 \in Nat /\ h \in D /\ Head(u) = h
    BY <1>1, <1>5
  <2>2. R \in Seq(D) /\ Len(R) = Len(e) - 1
    BY <1>1, <1>2, <2>1
  <2>3. Rest(u) = Append(R, d \o x)
    <3>1. Rest(u) \in Seq(D) /\ Len(Rest(u)) = Len(e)
      BY <1>1, <1>2, <2>1
    <3>2. Append(R, d \o x) \in Seq(D) /\ Len(Append(R, d \o x)) = Len(e)
      <4> DEFINE y == d \o x
      <4>1. R \in Seq(D) /\ y \in D /\ Len(R) = Len(e) - 1
        BY <1>2, <2>2
      <4> HIDE DEF R, D, y
      <4>2. Append(R, y) \in Seq(D) /\ Len(Append(R, y)) = Len(R) + 1
        BY <4>1, AppendProperties
      <4>3. Len(R) + 1 = Len(e)
        BY <1>1, <4>1
      <4> QED BY <4>2, <4>3 DEF y
    <3>3. ASSUME NEW k \in 1 .. Len(e) PROVE Rest(u)[k] = Append(R, d \o x)[k]
      <4>1. Rest(u)[k] = d \o u[k + 1]
        <5>1. k \in 1 .. Len(u) - 1
          BY <1>1
        <5> HIDE DEF u
        <5> QED BY <5>1
      <4>2. CASE k = Len(e)
        BY <1>1, <1>2, <2>1, <2>2, <4>1, <4>2
      <4>3. CASE k # Len(e)
        <5>1. k \in 1 .. Len(e) - 1 /\ k + 1 \in 1 .. Len(e)
          BY <1>1, <4>3
        <5>2. Append(R, d \o x)[k] = R[k]
          BY <1>2, <2>2, <5>1
        <5> QED BY <1>1, <4>1, <5>1, <5>2
      <4> QED BY <4>2, <4>3
    <3> HIDE DEF Rest, R, u
    <3> QED BY <3>1, <3>2, <3>3, SeqEqual
  <2>4. Joined(e, d) = h \o FlattenSeq(R)
    BY <1>5 DEF Joined
  <2> HIDE DEF Rest, R, u, h
  <2>5. FlattenSeq(R) \in Seq(C) /\ FlattenSeq(Append(R, d \o x)) = FlattenSeq(R) \o (d \o x)
    BY <1>2, <2>2, FlattenAppend
  <2>6. Joined(u, d) = h \o (FlattenSeq(R) \o (d \o x))
    BY <1>3, <2>1, <2>3, <2>5
  <2>7. h \o FlattenSeq(R) \in Seq(C)
    BY <2>1, <2>5, ConcatProperties
  <2>8. (h \o FlattenSeq(R)) \o (d \o x) = h \o (FlattenSeq(R) \o (d \o x))
    <3>1. Associative(C)
      BY JoinsAssociate
    <3>2. h \in Seq(C) /\ FlattenSeq(R) \in Seq(C) /\ d \o x \in Seq(C)
      BY <1>2, <2>1, <2>5
    <3> QED BY <3>1, <3>2, ZenonT(60) DEF Associative
  <2> QED BY <1>5, <2>4, <2>6, <2>7, <2>8 DEF u
<1> QED BY <1>4, <1>5

-----------------------------------------------------------------------------
(* Joining what was split.                                                 *)

\* The null pointer is no string.
NullIsNoText == \A S : NULL \notin Seq(S)

\* What strings are made of.
Chars == UNION {ToSet(t) : t \in Texts \cup Separators}

\* A string is being split into the list.
InList == run.pc = "split" /\ run.name = "bscb"

\* A string is missing.
Hole(e) == \E k \in 1 .. Len(e) : e[k] = NULL

\* What may be put where by split: the same string, or one of the set's characters.
Fits(by, d) ==
  /\ d \in Seq(Chars)
  /\ IF by.text = NULL THEN \E c \in by.set : d = <<c>> ELSE d = by.text

\* What t is made into by that.
Image(by, d, t) ==
  IF by.text = NULL THEN [k \in DOMAIN t |-> IF t[k] \in by.set THEN d[1] ELSE t[k]]
  ELSE t

\* Nothing separates.
Whole(by) == by.text = NULL /\ by.set = {}

\* The pieces make the string up to k, where there is a separator, and p is behind it.
JoinedTo(e, d, im, k, p) ==
  /\ p = k + Len(d)
  /\ Joined(e, d) = SubSeq(im, 1, k)
  /\ p <= Len(str) => SubSeq(im, k + 1, p) = d

\* The pieces in e, with d between them, make the string as far as it is split.
PartOf(e, by, d, p) ==
  IF e = <<>> THEN p = 0
  ELSE \E k \in 0 .. Len(str) : JoinedTo(e, d, Image(by, d, str), k, p)

\* All of them make t.
AllOf(e, by, t) ==
  /\ \A d : Fits(by, d) => Joined(e, d) = Image(by, d, t)
  /\ Whole(by) => e = <<t>>

\* An entry is a string, unless the heap refused to make it.
EntriesOK ==
  list # NULL \/ InList =>
    /\ list.entry \in Seq({NULL} \cup Seq(Chars))
    /\ Hole(list.entry) => failing # {}

\* A list a string is split into.
PartOK ==
  InList =>
    /\ made = [text |-> str, by |-> run.by]
    /\ run.by.text # NULL => run.p <= Len(str)
    /\ Whole(run.by) => list.entry = <<>>
    /\ ~Hole(list.entry) =>
         \A d : Fits(run.by, d) => PartOf(list.entry, run.by, d, run.p)

\* A list a string has been split into.
DoneOK ==
  ~InList /\ list # NULL /\ made # NULL =>
    /\ made.text \in Texts
    /\ ~Hole(list.entry) => AllOf(list.entry, made.by, made.text)

JoinInv == EntriesOK /\ PartOK /\ DoneOK /\ JoinRestores

\* Every string is made of characters.
LEMMA TextsOK ==
  ASSUME NEW t \in Texts \cup Separators
  PROVE  t \in Seq(Chars)
<1>1. t \in Seq(ToSet(t))
  BY ListAssumption
<1>2. ToSet(t) \subseteq Chars
  BY DEF Chars
<1> QED BY <1>1, <1>2, SeqMonotonic

\* The string a client has.
LEMMA StrOK ==
  ASSUME ListInv
  PROVE  str \in Seq(Chars) /\ Len(str) \in Nat
<1>1. str \in Seq(Chars)
  BY TextsOK DEF ListInv
<1> QED BY <1>1

\* What a string is made into has its length.
LEMMA ImageOK ==
  ASSUME NEW by, NEW d, Fits(by, d), NEW t \in Seq(Chars)
  PROVE  /\ Image(by, d, t) \in Seq(Chars) /\ Len(Image(by, d, t)) = Len(t)
         /\ by.text # NULL => Image(by, d, t) = t
         /\ by.text = NULL => \A k \in 1 .. Len(t) :
              Image(by, d, t)[k] = IF t[k] \in by.set THEN d[1] ELSE t[k]
<1>1. CASE by.text # NULL
  BY <1>1 DEF Image
<1>2. CASE by.text = NULL
  <2>1. d[1] \in Chars
    <3>1. d \in Seq(Chars) /\ Len(d) = 1
      BY <1>2 DEF Fits
    <3> QED BY <3>1
  <2>2. Image(by, d, t) = [k \in 1 .. Len(t) |-> IF t[k] \in by.set THEN d[1] ELSE t[k]]
    BY <1>2 DEF Image
  <2>3. \A k \in 1 .. Len(t) : t[k] \in Chars
    OBVIOUS
  <2> QED BY <1>2, <2>1, <2>2, <2>3
<1> QED BY <1>1, <1>2

\* What is there is not changed.
Unchanged(by, d, a, b) == SubSeq(Image(by, d, str), a + 1, b) = SubSeq(str, a + 1, b)

\* There is no separator from a on up to b.
SameMid(by, d, a, b) ==
  /\ Fits(by, d) /\ a \in Nat /\ b \in Nat /\ b <= Len(str)
  /\ by.text = NULL => \A j \in a .. b - 1 : str[j + 1] \notin by.set

\* Where there is no separator nothing is changed.
LEMMA ImageMid ==
  ASSUME ListInv, NEW by, NEW d, NEW a, NEW b, SameMid(by, d, a, b)
  PROVE  Unchanged(by, d, a, b)
<1> USE DEF SameMid
<1> DEFINE im == Image(by, d, str)
<1>1. str \in Seq(Chars) /\ Len(str) \in Nat
  BY StrOK
<1>2. /\ im \in Seq(Chars) /\ Len(im) = Len(str)
      /\ by.text # NULL => im = str
      /\ by.text = NULL => \A k \in 1 .. Len(str) :
           im[k] = IF str[k] \in by.set THEN d[1] ELSE str[k]
  BY <1>1, ImageOK
<1> HIDE DEF im
<1>3. \A k \in a + 1 .. b : im[k] = str[k] /\ im[k] \in Chars /\ str[k] \in Chars
  <2> TAKE k \in a + 1 .. b
  <2>1. k \in 1 .. Len(str) /\ k - 1 \in a .. b - 1 /\ (k - 1) + 1 = k
    BY <1>1
  <2>2. str[k] \in Chars
    BY <1>1, <2>1
  <2> QED BY <1>2, <2>1, <2>2
<1>4. a + 1 \in Int /\ b \in Int
  OBVIOUS
<1>5. /\ SubSeq(im, a + 1, b) \in Seq(Chars)
      /\ Len(SubSeq(im, a + 1, b)) = IF a + 1 <= b THEN b - (a + 1) + 1 ELSE 0
      /\ \A k \in 1 .. b - (a + 1) + 1 : SubSeq(im, a + 1, b)[k] = im[(a + 1) + k - 1]
  BY <1>3, <1>4, SubSeqProperties
<1>6. /\ SubSeq(str, a + 1, b) \in Seq(Chars)
      /\ Len(SubSeq(str, a + 1, b)) = IF a + 1 <= b THEN b - (a + 1) + 1 ELSE 0
      /\ \A k \in 1 .. b - (a + 1) + 1 : SubSeq(str, a + 1, b)[k] = str[(a + 1) + k - 1]
  BY <1>3, <1>4, SubSeqProperties
<1> DEFINE u == SubSeq(im, a + 1, b)
           v == SubSeq(str, a + 1, b)
<1>7. \A k \in 1 .. Len(u) : u[k] = v[k]
  <2> TAKE k \in 1 .. Len(u)
  <2>1. a + 1 <= b /\ k \in 1 .. b - (a + 1) + 1 /\ (a + 1) + k - 1 \in a + 1 .. b
    BY <1>5
  <2> QED BY <1>3, <1>5, <1>6, <2>1
<1>8. u \in Seq(Chars) /\ v \in Seq(Chars) /\ Len(u) = Len(v)
  BY <1>5, <1>6
<1> HIDE DEF u, v
<1>9. u = v
  BY <1>7, <1>8, SeqEqual
<1> QED BY <1>9 DEF u, v, im, Unchanged

\* What is cut out of the string is a string.
LEMMA MidOK ==
  ASSUME ListInv, NEW a \in Nat, NEW n \in Nat
  PROVE  /\ Mid(str, a, n) \in Seq(Chars)
         /\ a + n <= Len(str) => Mid(str, a, n) = SubSeq(str, a + 1, a + n)
<1>1. str \in Seq(Chars) /\ Len(str) \in Nat
  BY StrOK
<1> DEFINE to == Min({a + n, Len(str)})
<1>2. to = IF a + n <= Len(str) THEN a + n ELSE Len(str)
  BY <1>1, MinOfTwo
<1>3. Mid(str, a, n) = SubSeq(str, a + 1, to)
  BY DEF Mid
<1> HIDE DEF to
<1>4. a + 1 \in Int /\ to \in Int /\ \A i \in a + 1 .. to : str[i] \in Chars
  BY <1>1, <1>2
<1>5. SubSeq(str, a + 1, to) \in Seq(Chars)
  BY <1>4, SubSeqProperties
<1> QED BY <1>2, <1>3, <1>5

\* x goes on where the pieces in e end, up to to.
GoesOn(e, x, by, d, p, to) ==
  /\ Fits(by, d) /\ e \in Seq(Seq(Chars)) /\ p \in Nat /\ PartOf(e, by, d, p)
  /\ to \in Nat /\ p <= to /\ to <= Len(str)
  /\ x = SubSeq(Image(by, d, str), p + 1, to)

\* A piece more.
LEMMA PieceJoins ==
  ASSUME ListInv, NEW e, NEW x, NEW by, NEW d, NEW p, NEW to, GoesOn(e, x, by, d, p, to)
  PROVE  Joined(Append(e, x), d) = SubSeq(Image(by, d, str), 1, to)
<1> USE DEF GoesOn
<1> DEFINE im == Image(by, d, str)
<1>1. Len(str) \in Nat /\ im \in Seq(Chars) /\ Len(im) = Len(str) /\ d \in Seq(Chars)
  BY StrOK, ImageOK DEF Fits
<1> HIDE DEF im
<1>2. \A a \in Nat : \A b \in 0 .. Len(str) : SubSeq(im, a + 1, b) \in Seq(Chars)
  <2> TAKE a \in Nat
  <2> TAKE b \in 0 .. Len(str)
  <2>1. a + 1 \in Int /\ b \in Int /\ \A i \in a + 1 .. b : im[i] \in Chars
    BY <1>1
  <2> QED BY <2>1, SubSeqProperties
<1>3. x = SubSeq(im, p + 1, to) /\ x \in Seq(Chars)
  BY <1>1, <1>2 DEF im
<1>4. /\ Joined(e, d) \in Seq(Chars)
      /\ Joined(Append(e, x), d) = IF e = <<>> THEN x ELSE Joined(e, d) \o (d \o x)
  <2>1. d \in Seq(Chars) /\ x \in Seq(Chars)
    BY <1>1, <1>3
  <2>2. JoinsMore(Chars, d, x, e)
    BY <2>1, JoinedGrows
  <2> QED BY <2>2 DEF JoinsMore
<1>5. CASE e = <<>>
  <2>1. p = 0
    BY <1>5 DEF PartOf
  <2> QED BY <1>3, <1>4, <1>5, <2>1 DEF im
<1>6. CASE e # <<>>
  <2>1. PICK k \in 0 .. Len(str) : JoinedTo(e, d, im, k, p)
    BY <1>6 DEF PartOf, im
  <2>2. /\ p = k + Len(d) /\ Joined(e, d) = SubSeq(im, 1, k) /\ SubSeq(im, k + 1, p) = d
        /\ Len(d) \in Nat
    BY <1>1, <2>1 DEF JoinedTo
  <2>3. SubSeq(im, k + 1, p) \o SubSeq(im, p + 1, to) = SubSeq(im, k + 1, to)
    <3>1. k + 1 \in 1 .. Len(im) + 1 /\ p \in (k + 1) - 1 .. Len(im) /\ to \in p .. Len(im)
      BY <1>1, <2>1, <2>2
    <3> QED BY <1>1, <3>1, ConcatAdjacentSubSeq
  <2>4. SubSeq(im, 1, k) \o SubSeq(im, k + 1, to) = SubSeq(im, 1, to)
    <3>1. 1 \in 1 .. Len(im) + 1 /\ k \in 1 - 1 .. Len(im) /\ to \in k .. Len(im)
      BY <1>1, <2>1, <2>2
    <3> QED BY <1>1, <3>1, ConcatAdjacentSubSeq
  <2> QED BY <1>3, <1>4, <1>6, <2>2, <2>3, <2>4 DEF im
<1> QED BY <1>5, <1>6

-----------------------------------------------------------------------------
(* Steps that hand out no piece.                                           *)

\* Nothing is joined.
LEMMA Quiet ==
  ASSUME ret'.call # "bjoin", ret'.end # "crash"
  PROVE  JoinRestores'
BY DEF JoinRestores

\* The entries stay, outside a splitting.
LEMMA EntriesStay ==
  ASSUME JoinInv, run = Idle, run' = run, failing' = failing, list # NULL,
         list'.entry = list.entry, made' = made, ret'.call # "bjoin", ret'.end # "crash"
  PROVE  JoinInv'
<1>1. ~InList /\ ~InList'
  BY DEF InList, Idle
<1>2. EntriesOK'
  BY <1>1 DEF JoinInv, EntriesOK
<1>3. PartOK'
  BY <1>1 DEF PartOK
<1>4. DoneOK'
  BY <1>1 DEF JoinInv, DoneOK
<1> QED BY <1>2, <1>3, <1>4, Quiet DEF JoinInv

\* The list stays, also when there is none.
LEMMA ListStays ==
  ASSUME JoinInv, run = Idle, failing' = failing, list' = list, made' = made,
         run' = run \/ (run'.pc = "split" /\ run'.name = "client") \/ run' = Crashed,
         ret'.call # "bjoin", ret'.end # "crash"
  PROVE  JoinInv'
<1>1. ~InList /\ ~InList'
  BY DEF InList, Idle, Crashed
<1>2. EntriesOK'
  BY <1>1 DEF JoinInv, EntriesOK
<1>3. PartOK'
  BY <1>1 DEF PartOK
<1>4. DoneOK'
  BY <1>1 DEF JoinInv, DoneOK
<1> QED BY <1>2, <1>3, <1>4, Quiet DEF JoinInv

\* The calls for a list and its slots.
LEMMA SlotCallsJoin ==
  ASSUME NullIsNoText, ListInv, JoinInv, failing' = failing,
         \/ bstrListCreate \/ bstrListDestroy
         \/ \E msz \in Rooms : bstrListAlloc(msz) \/ bstrListAllocMin(msz)
         \/ \E t \in Separators : Puts(t)
  PROVE  JoinInv'
<1>1. CASE bstrListCreate
  <2>1. CASE Returns("bstrListCreate", "ERR")
    BY <1>1, <2>1, ListStays DEF bstrListCreate, Returns
  <2>2. CASE ~Returns("bstrListCreate", "ERR")
    <3>1. /\ list' = [entry |-> <<>>, mlen |-> 1] /\ made' = NULL /\ run' = Idle
          /\ ret' = [call |-> "bstrListCreate", end |-> "OK"]
      BY <1>1, <2>2 DEF bstrListCreate
    <3>2. ~InList' /\ list'.entry \in Seq({NULL} \cup Seq(Chars)) /\ ~Hole(list'.entry)
      BY <3>1 DEF InList, Idle, Hole
    <3>3. EntriesOK' /\ PartOK' /\ DoneOK'
      BY <3>1, <3>2 DEF EntriesOK, PartOK, DoneOK
    <3> QED BY <3>1, <3>3, Quiet DEF JoinInv
  <2> QED BY <2>1, <2>2
<1>2. CASE bstrListDestroy
  <2>1. /\ list' = NULL /\ run' = Idle
        /\ ret' = [call |-> "bstrListDestroy", end |-> "OK"]
    BY <1>2 DEF bstrListDestroy, Ready
  <2>2. EntriesOK' /\ PartOK' /\ DoneOK'
    BY <2>1 DEF EntriesOK, PartOK, DoneOK, InList, Idle
  <2> QED BY <2>1, <2>2, Quiet DEF JoinInv
<1>3. ASSUME NEW msz \in Rooms, bstrListAlloc(msz) \/ bstrListAllocMin(msz)
      PROVE  JoinInv'
  <2>1. PICK S : IsList(list, S)
    BY <1>3 DEF ListInv, SlotsOK, Ready, bstrListAlloc, bstrListAllocMin
  <2>2. \/ /\ list' = list /\ made' = made /\ run' = run
           /\ ret'.call # "bjoin" /\ ret'.end # "crash"
        \/ \E call \in {"bstrListAlloc", "bstrListAllocMin"} : \E n : Resized(call, msz, n)
    BY <1>3 DEF bstrListAlloc, bstrListAllocMin, Returns
  <2>3. run = Idle /\ list # NULL
    BY <1>3 DEF bstrListAlloc, bstrListAllocMin, Ready
  <2>4. CASE \E call \in {"bstrListAlloc", "bstrListAllocMin"} : \E n : Resized(call, msz, n)
    <3>1. /\ list'.entry = list.entry /\ made' = made /\ run' = run
          /\ ret'.call # "bjoin" /\ ret'.end # "crash"
      BY <2>1, <2>4 DEF Resized, IsList
    <3> QED BY <2>3, <3>1, EntriesStay
  <2> QED BY <2>2, <2>3, <2>4, ListStays
<1>4. ASSUME NEW t \in Separators, Puts(t)
      PROVE  JoinInv'
  <2>1. PICK S : IsList(list, S)
    BY <1>4 DEF ListInv, SlotsOK, Ready, Puts
  <2>2. /\ list'.entry = Append(list.entry, t) /\ made' = NULL /\ run' = Idle
        /\ list # NULL /\ ret' = [call |-> "none", end |-> "OK"]
    BY <1>4, <2>1 DEF Puts, Ready, IsList
  <2>3. t \in Seq(Chars) /\ t # NULL
    BY TextsOK DEF NullIsNoText
  <2>4. /\ list.entry \in Seq({NULL} \cup Seq(Chars))
        /\ Hole(list.entry) => failing # {}
    BY <2>2 DEF JoinInv, EntriesOK
  <2> DEFINE e == list.entry
             u == Append(e, t)
  <2>5. /\ u \in Seq({NULL} \cup Seq(Chars)) /\ Len(u) = Len(e) + 1 /\ Len(e) \in Nat
        /\ u[Len(e) + 1] = t /\ \A k \in 1 .. Len(e) : u[k] = e[k]
    BY <2>3, <2>4, AppendProperties
  <2>6. Hole(u) => Hole(e)
    <3> HIDE DEF u, e
    <3> QED BY <2>3, <2>5 DEF Hole
  <2>7. EntriesOK'
    BY <2>2, <2>4, <2>5, <2>6 DEF EntriesOK
  <2>8. PartOK' /\ DoneOK'
    BY <2>2 DEF PartOK, DoneOK, InList, Idle
  <2> QED BY <2>2, <2>7, <2>8, Quiet DEF JoinInv
<1> QED BY <1>1, <1>2, <1>3, <1>4

\* The calls that begin a splitting.
LEMMA ListsJoin ==
  ASSUME NullIsNoText, ListInv, JoinInv, failing' = failing, str' = str,
         NEW call \in {"bsplit", "bsplits", "bsplitstr"}, NEW by, Lists(call, by)
  PROVE  JoinInv'
<1>1. CASE Returns(call, "NULL")
  BY <1>1, ListStays DEF Lists, Returns
<1>2. CASE ~Returns(call, "NULL")
  <2>1. /\ list'.entry = <<>> /\ made' = [text |-> str, by |-> by]
        /\ run'.pc = "split" /\ run'.name = "bscb" /\ run'.by = by /\ run'.p = 0
        /\ ret' = [call |-> call, end |-> "begun"]
    BY <1>2 DEF Lists, Begun
  <2>2. <<>> \in Seq({NULL} \cup Seq(Chars)) /\ ~Hole(<<>>)
    BY DEF Hole
  <2>3. EntriesOK'
    BY <2>1, <2>2 DEF EntriesOK
  <2>4. PartOK'
    <3>1. 0 <= Len(str)
      BY StrOK
    <3>2. \A d : PartOf(<<>>, by, d, 0)'
      BY DEF PartOf
    <3> QED BY <2>1, <3>1, <3>2 DEF PartOK
  <2>5. DoneOK'
    BY <2>1 DEF DoneOK, InList
  <2> QED BY <2>1, <2>3, <2>4, <2>5, Quiet DEF JoinInv
<1> QED BY <1>1, <1>2

\* The same, and those with a callback of the client's.
LEMMA SplitCallsJoin ==
  ASSUME NullIsNoText, ListInv, JoinInv, failing' = failing, str' = str,
         \/ \E S \in Sets : \/ bsplits(S)
                            \/ \E c \in S : bsplit(c)
                            \/ \E pos \in 0 .. Len(str) : bsplitscb(S, pos)
         \/ \E t \in Separators : \/ bsplitstr(t)
                                  \/ \E pos \in 0 .. Len(str) : bsplitstrcb(t, pos)
  PROVE  JoinInv'
<1>1. ASSUME NEW S \in Sets, bsplits(S) PROVE JoinInv'
  BY <1>1, ListsJoin DEF bsplits
<1>2. ASSUME NEW S \in Sets, NEW c \in S, bsplit(c) PROVE JoinInv'
  BY <1>2, ListsJoin DEF bsplit
<1>3. ASSUME NEW S \in Sets, NEW pos \in 0 .. Len(str), bsplitscb(S, pos) PROVE JoinInv'
  BY <1>3, ListStays DEF bsplitscb, Begun
<1>4. ASSUME NEW t \in Separators, bsplitstr(t) PROVE JoinInv'
  BY <1>4, ListsJoin DEF bsplitstr
<1>5. ASSUME NEW t \in Separators, NEW pos \in 0 .. Len(str), bsplitstrcb(t, pos)
      PROVE  JoinInv'
  BY <1>5, ListStays DEF bsplitstrcb, Begun
<1> QED BY <1>1, <1>2, <1>3, <1>4, <1>5

\* Joining what was split makes the string again.
LEMMA JoinJoin ==
  ASSUME NullIsNoText, ListInv, JoinInv, failing' = failing, NEW t \in Separators, bjoin(t)
  PROVE  JoinInv'
<1>1. /\ run = Idle /\ list # NULL /\ list' = list /\ made' = made
      /\ ret'.call = "bjoin" /\ run' \in {Idle, Crashed}
  BY DEF bjoin, Ready
<1>2. ~InList /\ ~InList'
  BY <1>1 DEF InList, Idle, Crashed
<1>3. EntriesOK' /\ PartOK' /\ DoneOK'
  BY <1>1, <1>2 DEF JoinInv, EntriesOK, PartOK, DoneOK
<1>4. ret'.end = "crash" => failing' # {}
  BY <1>1 DEF bjoin, MayRefuse, JoinInv, EntriesOK, Hole
<1>5. ASSUME ret'.end = "OK", made # NULL
      PROVE  /\ made.by.text = ret'.by => ret'.text = made.text
             /\ made.by.text = NULL /\ made.by.set = {} => ret'.text = made.text
             /\ made.by.text = NULL => \A c \in made.by.set : ret'.by = <<c>> =>
                  ret'.text = [k \in DOMAIN made.text |->
                                IF made.text[k] \in made.by.set THEN c ELSE made.text[k]]
  <2>1. /\ ~Hole(list.entry) /\ ret'.by = t /\ ret'.text = Joined(list.entry, t)
    BY <1>5 DEF bjoin, Hole
  <2>2. AllOf(list.entry, made.by, made.text) /\ made.text \in Seq(Chars)
    BY <1>1, <1>2, <1>5, <2>1, TextsOK DEF JoinInv, DoneOK
  <2>3. t \in Seq(Chars) /\ t # NULL
    BY TextsOK DEF NullIsNoText
  <2>4. CASE made.by.text = t
    <3>1. Fits(made.by, t)
      BY <2>3, <2>4 DEF Fits
    <3>2. ret'.text = Image(made.by, t, made.text)
      BY <2>1, <2>2, <3>1 DEF AllOf
    <3>3. Image(made.by, t, made.text) = made.text
      BY <2>3, <2>4 DEF Image
    <3> QED BY <2>1, <2>3, <2>4, <3>2, <3>3
  <2>5. CASE made.by.text = NULL /\ made.by.set = {}
    <3>1. list.entry = <<made.text>>
      BY <2>2, <2>5 DEF AllOf, Whole
    <3>2. <<>> \in Seq(Seq(Chars)) /\ <<made.text>> = Append(<<>>, made.text)
      OBVIOUS
    <3>3. Joined(Append(<<>>, made.text), t) = made.text
      BY <2>2, <2>3, <3>2, JoinedGrows, ZenonT(60) DEF JoinsMore
    <3> QED BY <2>1, <2>3, <2>5, <3>1, <3>2, <3>3
  <2>6. ASSUME made.by.text = NULL, NEW c \in made.by.set, t = <<c>>
        PROVE  ret'.text = [k \in DOMAIN made.text |->
                              IF made.text[k] \in made.by.set THEN c ELSE made.text[k]]
    <3>1. Fits(made.by, t)
      BY <2>3, <2>6 DEF Fits
    <3>2. ret'.text = Image(made.by, t, made.text)
      BY <2>1, <2>2, <3>1 DEF AllOf
    <3>3. t[1] = c
      BY <2>6
    <3> QED BY <2>6, <3>2, <3>3 DEF Image
  <2> QED BY <2>1, <2>3, <2>4, <2>5, <2>6
<1>6. JoinRestores'
  BY <1>1, <1>4, <1>5 DEF JoinRestores
<1> QED BY <1>3, <1>6 DEF JoinInv

-----------------------------------------------------------------------------
(* Pieces that are put into the list.                                      *)

\* A piece that goes on where the one before ended, to where a separator is; or to the
\* end of the string if it is the last.
PieceFits(ofs, len, q, last) ==
  /\ ofs \in Nat /\ len \in Nat /\ ofs + len <= Len(str)
  /\ IF last THEN Whole(run.by) => ofs = 0 /\ len = Len(str)
     ELSE ~Whole(run.by) /\ (run.by.text # NULL => q <= Len(str))
  /\ \A d : Fits(run.by, d) =>
       /\ ofs = run.p
       /\ run.by.text = NULL =>
            \A j \in ofs .. ofs + len - 1 : str[j + 1] \notin run.by.set
       /\ IF last THEN ofs + len = Len(str)
          ELSE /\ q = ofs + len + Len(d)
               /\ q <= Len(str) => SubSeq(Image(run.by, d, str), ofs + len + 1, q) = d

\* The string is whole again, or as far as it is split.
LEMMA PieceMakes ==
  ASSUME ListInv, JoinInv, InList, ~Hole(list.entry), NEW ofs, NEW len, NEW q,
         NEW last \in BOOLEAN, PieceFits(ofs, len, q, last),
         list.entry \in Seq(Seq(Chars)), NEW d, Fits(run.by, d)
  PROVE  LET u  == Append(list.entry, SubSeq(str, ofs + 1, ofs + len))
             im == Image(run.by, d, str)
         IN  /\ last => Joined(u, d) = im
             /\ ~last => PartOf(u, run.by, d, q)
<1> DEFINE e  == list.entry
           x  == SubSeq(str, ofs + 1, ofs + len)
           u  == Append(e, x)
           im == Image(run.by, d, str)
           to == ofs + len
<1>1. /\ ofs \in Nat /\ len \in Nat /\ to <= Len(str) /\ ofs = run.p
      /\ run.by.text = NULL => \A j \in ofs .. to - 1 : str[j + 1] \notin run.by.set
      /\ IF last THEN to = Len(str)
         ELSE q = to + Len(d) /\ (q <= Len(str) => SubSeq(im, to + 1, q) = d)
  BY DEF PieceFits
<1>2. PartOf(e, run.by, d, ofs)
  BY <1>1 DEF JoinInv, PartOK
<1>3. /\ Len(str) \in Nat /\ im \in Seq(Chars) /\ Len(im) = Len(str)
  BY StrOK, ImageOK
<1>4. to \in Nat /\ ofs <= to
  BY <1>1
<1> HIDE DEF to
<1>5. x = SubSeq(im, ofs + 1, to)
  <2>1. SubSeq(im, ofs + 1, to) = SubSeq(str, ofs + 1, to)
    <3>1. SameMid(run.by, d, ofs, to)
      BY <1>1, <1>4 DEF SameMid
    <3>2. Unchanged(run.by, d, ofs, to)
      BY <3>1, ImageMid
    <3> QED BY <3>2 DEF Unchanged
  <2> QED BY <2>1 DEF to
<1> HIDE DEF x, e
<1>0. e \in Seq(Seq(Chars)) /\ run.p \in Nat /\ x \in Seq(Chars)
  <2>1. Mid(str, ofs, len) \in Seq(Chars) /\ Mid(str, ofs, len) = x
    BY <1>1, MidOK DEF x, to
  <2> QED BY <1>1, <2>1 DEF e
<1>6. Joined(u, d) = SubSeq(im, 1, to)
  <2>1. GoesOn(e, x, run.by, d, ofs, to)
    BY <1>0, <1>1, <1>2, <1>4, <1>5 DEF GoesOn
  <2> QED BY <2>1, PieceJoins
<1>7. u # <<>>
  BY <1>0, AppendProperties
<1>8. ASSUME last PROVE Joined(u, d) = im
  <2>1. to = Len(im)
    BY <1>1, <1>3, <1>8
  <2>2. SubSeq(im, 1, Len(im)) = im
    BY <1>3, SubSeqFull
  <2> QED BY <1>6, <2>1, <2>2
<1>9. ASSUME ~last PROVE PartOf(u, run.by, d, q)
  <2>1. to \in 0 .. Len(str)
    BY <1>1, <1>3, <1>4
  <2>2. JoinedTo(u, d, im, to, q)
    BY <1>1, <1>6, <1>9 DEF JoinedTo
  <2> QED BY <1>7, <2>1, <2>2 DEF PartOf
<1> QED BY <1>8, <1>9 DEF u, x, e, im

\* bscb keeps what is in the list a part of the string.
LEMMA BscbJoin ==
  ASSUME NullIsNoText, ListInv, JoinInv, failing' = failing, run.pc = "split",
         NEW ofs, NEW len, NEW q, NEW j, NEW last \in BOOLEAN, bscb(ofs, len, q, j, last),
         InList => PieceFits(ofs, len, q, last)
  PROVE  JoinInv'
<1> DEFINE e == list.entry
           C == {NULL} \cup Seq(Chars)
<1>1. /\ InList /\ PieceFits(ofs, len, q, last) /\ str' = str
      /\ DOMAIN run = {"pc", "name", "by", "p", "i"}
  BY DEF bscb, InList, ListInv, SplitOK
<1>2. /\ e \in Seq(C) /\ (Hole(e) => failing # {})
      /\ made = [text |-> str, by |-> run.by] /\ str \in Texts
      /\ Whole(run.by) => e = <<>>
  BY <1>1 DEF JoinInv, EntriesOK, PartOK, ListInv
<1>3. CASE /\ list' = NULL /\ run' = Idle
           /\ ret' = [call |-> "bscb", end |-> "NULL"]
  <2>1. EntriesOK' /\ PartOK' /\ DoneOK'
    BY <1>3 DEF EntriesOK, PartOK, DoneOK, InList, Idle
  <2> QED BY <1>3, <2>1, Quiet DEF JoinInv
<1>4. ASSUME NEW x \in {Mid(str, ofs, len)} \cup IF MayRefuse THEN {NULL} ELSE {},
             list'.entry = Append(e, x), made' = made,
             Handed(ofs, len, q, j, last, FALSE)
      PROVE  JoinInv'
  <2> DEFINE u == Append(e, x)
  <2>1. /\ Mid(str, ofs, len) \in Seq(Chars)
        /\ Mid(str, ofs, len) = SubSeq(str, ofs + 1, ofs + len)
    BY <1>1, MidOK DEF PieceFits
  <2>2. x \in C /\ (x = NULL => failing # {})
    BY <1>4, <2>1 DEF MayRefuse, NullIsNoText
  <2>3. /\ u \in Seq(C) /\ Len(u) = Len(e) + 1 /\ Len(e) \in Nat
        /\ u[Len(e) + 1] = x /\ \A k \in 1 .. Len(e) : u[k] = e[k]
    <3> HIDE DEF C, e
    <3> QED BY <1>2, <2>2, AppendProperties
  <2>4. Hole(u) <=> Hole(e) \/ x = NULL
    <3> HIDE DEF C, e, u
    <3> QED BY <2>3 DEF Hole
  <2>5. ret'.call = "piece" /\ ret'.end \in {"last", "OK"}
    BY <1>4 DEF Handed
  <2>6. list'.entry = u
    BY <1>4
  <2>7. EntriesOK'
    BY <1>2, <2>2, <2>3, <2>4, <2>6 DEF EntriesOK
  <2>8. ASSUME ~Hole(u)
        PROVE  /\ x = SubSeq(str, ofs + 1, ofs + len) /\ ~Hole(e)
               /\ e \in Seq(Seq(Chars))
    <3>1. x # NULL /\ ~Hole(e)
      BY <2>4, <2>8
    <3>2. x = Mid(str, ofs, len)
      BY <3>1
    <3>3. \A k \in 1 .. Len(e) : e[k] \in Seq(Chars)
      BY <1>2, <3>1 DEF Hole
    <3>4. e \in Seq(Seq(Chars))
      <4> HIDE DEF e
      <4> QED BY <1>2, <3>3
    <3> QED BY <2>1, <3>1, <3>2, <3>4
  <2>9. ASSUME ~Hole(u), NEW d, Fits(run.by, d)
        PROVE  /\ last => Joined(u, d) = Image(run.by, d, str)
               /\ ~last => PartOf(u, run.by, d, q)
    <3>1. /\ x = SubSeq(str, ofs + 1, ofs + len) /\ ~Hole(list.entry)
          /\ list.entry \in Seq(Seq(Chars))
      BY <2>8, <2>9
    <3>2. u = Append(list.entry, SubSeq(str, ofs + 1, ofs + len))
      BY <3>1
    <3> HIDE DEF u
    <3> QED BY <1>1, <2>9, <3>1, <3>2, PieceMakes
  <2> HIDE DEF u
  <2>10. CASE last
    <3>1. run' = Idle
      BY <1>4, <2>10 DEF Handed
    <3>2. ASSUME ~Hole(u), Whole(run.by) PROVE u = <<str>>
      <4>1. e = <<>> /\ ofs = 0 /\ len = Len(str)
        BY <1>1, <1>2, <2>10, <3>2 DEF PieceFits
      <4>2. x = SubSeq(str, 0 + 1, 0 + Len(str)) /\ str \in Seq(Chars) /\ Len(str) \in Nat
        BY <2>8, <3>2, <4>1, StrOK
      <4>3. x = str
        BY <4>2, SubSeqFull
      <4> QED BY <4>1, <4>3 DEF u
    <3>3. ~Hole(u) => AllOf(u, run.by, str)
      BY <2>9, <2>10, <3>2 DEF AllOf
    <3>4. DoneOK'
      BY <1>2, <1>4, <2>6, <3>3 DEF DoneOK
    <3>5. PartOK'
      BY <3>1 DEF PartOK, InList, Idle
    <3> QED BY <2>5, <2>7, <3>4, <3>5, Quiet DEF JoinInv
  <2>11. CASE ~last
    <3>1. /\ run'.pc = "split" /\ run'.by = run.by /\ run'.p = q /\ run'.name = run.name
      BY <1>1, <1>4, <2>11 DEF Handed, InList
    <3>2. ~Whole(run.by) /\ (run.by.text # NULL => q <= Len(str))
      BY <1>1, <2>11 DEF PieceFits
    <3>3. ~Hole(u) => \A d : Fits(run.by, d) => PartOf(list.entry, run.by, d, run.p)'
      BY <1>1, <2>6, <2>9, <2>11, <3>1 DEF PartOf, JoinedTo
    <3>4. PartOK'
      BY <1>1, <1>2, <1>4, <2>6, <3>1, <3>2, <3>3 DEF PartOK
    <3>5. DoneOK'
      BY <1>1, <3>1 DEF DoneOK, InList
    <3> QED BY <2>5, <2>7, <3>4, <3>5, Quiet DEF JoinInv
  <2> QED BY <2>10, <2>11
<1>5. \/ /\ list' = NULL /\ run' = Idle
         /\ ret' = [call |-> "bscb", end |-> "NULL"]
      \/ \E x \in {Mid(str, ofs, len)} \cup IF MayRefuse THEN {NULL} ELSE {} :
           /\ list'.entry = Append(e, x) /\ made' = made
           /\ Handed(ofs, len, q, j, last, FALSE)
  <2>1. CASE list' = NULL /\ run' = Idle /\ ret' = [call |-> "bscb", end |-> "NULL"]
    BY <2>1
  <2>2. ASSUME NEW x \in {Mid(str, ofs, len)} \cup IF MayRefuse THEN {NULL} ELSE {},
               list' = [entry |-> Append(list.entry, x),
                        mlen |-> list.mlen *
                                   IF Len(list.entry) >= list.mlen THEN 2 ELSE 1],
               Handed(ofs, len, q, j, last, FALSE), made' = made
        PROVE  /\ list'.entry = Append(e, x) /\ made' = made
               /\ Handed(ofs, len, q, j, last, FALSE)
    BY <2>2
  <2> QED BY <2>1, <2>2, Zenon DEF bscb
<1> QED BY <1>3, <1>4, <1>5

\* A callback of the client's changes no list.
LEMMA ClientJoin ==
  ASSUME ListInv, JoinInv, failing' = failing, run.pc = "split",
         NEW ofs, NEW len, NEW q, NEW j, NEW last \in BOOLEAN, ClientCb(ofs, len, q, j, last)
  PROVE  JoinInv'
<1>1. PICK stops \in BOOLEAN : Handed(ofs, len, q, j, last, stops)
  BY DEF ClientCb
<1>2. list' = list /\ made' = made /\ run.name = "client"
  BY DEF ClientCb
<1>3. ret'.call = "piece" /\ ret'.end \in {"stopped", "last", "OK"}
  BY <1>1 DEF Handed
<1>4. run' = Idle \/ (run'.pc = "split" /\ run'.name = "client")
  BY <1>1, <1>2 DEF Handed, ListInv, SplitOK
<1>5. ~InList /\ ~InList'
  BY <1>2, <1>4 DEF InList, Idle
<1>6. EntriesOK' /\ PartOK' /\ DoneOK'
  BY <1>2, <1>5 DEF JoinInv, EntriesOK, PartOK, DoneOK
<1> QED BY <1>3, <1>6, Quiet DEF JoinInv

\* Either callback.
LEMMA CbJoin ==
  ASSUME NullIsNoText, ListInv, JoinInv, failing' = failing, run.pc = "split",
         NEW ofs, NEW len, NEW q, NEW j, NEW last \in BOOLEAN, Cb(ofs, len, q, j, last),
         InList => PieceFits(ofs, len, q, last)
  PROVE  JoinInv'
BY BscbJoin, ClientJoin DEF Cb

\* A splitting ends when it is behind the separator the string ends with, if there is one.
LEMMA EndsJoin ==
  ASSUME ListInv, JoinInv, failing' = failing, run.pc = "split", Ends, ~Whole(run.by),
         \A d : Fits(run.by, d) => run.p >= Len(str) + Len(d)
  PROVE  JoinInv'
<1>1. /\ run' = Idle /\ ret' = [call |-> run.name, end |-> "OK"]
      /\ list' = list /\ made' = made /\ run.name \in {"client", "bscb"}
  BY DEF Ends, ListInv, SplitOK
<1>2. ~InList'
  BY <1>1 DEF InList, Idle
<1>3. CASE ~InList
  <2>1. EntriesOK' /\ PartOK' /\ DoneOK'
    BY <1>1, <1>2, <1>3 DEF JoinInv, EntriesOK, PartOK, DoneOK
  <2> QED BY <1>1, <2>1, Quiet DEF JoinInv
<1>4. CASE InList
  <2> DEFINE e == list.entry
  <2>1. /\ EntriesOK' /\ PartOK'
    BY <1>1, <1>2, <1>4 DEF JoinInv, EntriesOK, PartOK
  <2>2. made = [text |-> str, by |-> run.by] /\ str \in Texts
    BY <1>4 DEF JoinInv, PartOK, ListInv
  <2>3. ASSUME ~Hole(e), NEW d, Fits(run.by, d)
        PROVE  Joined(e, d) = Image(run.by, d, str)
    <3> DEFINE im == Image(run.by, d, str)
    <3>1. PartOf(e, run.by, d, run.p)
      BY <1>4, <2>3 DEF JoinInv, PartOK
    <3>2. /\ Len(str) \in Nat /\ im \in Seq(Chars) /\ Len(im) = Len(str)
      BY <2>3, StrOK, ImageOK
    <3>3. run.p \in Nat /\ run.p >= Len(str) + Len(d) /\ Len(d) \in Nat
      BY <2>3 DEF Fits, ListInv, SplitOK
    <3> HIDE DEF im, e
    <3>4. CASE e = <<>>
      <4>1. run.p = 0
        BY <3>1, <3>4 DEF PartOf
      <4>2. im = <<>>
        BY <3>2, <3>3, <4>1
      <4>3. Joined(e, d) = <<>>
        BY <3>4 DEF Joined
      <4> QED BY <4>2, <4>3 DEF im
    <3>5. CASE e # <<>>
      <4>1. PICK k \in 0 .. Len(str) : JoinedTo(e, d, im, k, run.p)
        BY <3>1, <3>5 DEF PartOf, im
      <4>2. k = Len(im) /\ Joined(e, d) = SubSeq(im, 1, k)
        BY <3>2, <3>3, <4>1 DEF JoinedTo
      <4>3. SubSeq(im, 1, Len(im)) = im
        BY <3>2, SubSeqFull
      <4> QED BY <4>2, <4>3 DEF im
    <3> QED BY <3>4, <3>5
  <2>4. ~Hole(e) => AllOf(e, run.by, str)
    BY <2>3 DEF AllOf
  <2>5. DoneOK'
    BY <1>1, <2>2, <2>4 DEF DoneOK
  <2> QED BY <1>1, <2>1, <2>5, Quiet DEF JoinInv
<1> QED BY <1>3, <1>4

\* A turn of bsplitscb.
LEMMA SplitSetJoin ==
  ASSUME NullIsNoText, ListInv, JoinInv, failing' = failing, SplitSet
  PROVE  JoinInv'
<1> DEFINE k == Min({j \in run.i .. Len(str) - 1 : str[j + 1] \in run.by.set}
                    \cup {Len(str)})
<1>1. /\ run.pc = "split" /\ run.by.text = NULL
      /\ \/ run.by.set = {} /\ Cb(0, Len(str), 0, 0, TRUE)
         \/ run.by.set # {} /\ run.p > Len(str) /\ Ends
         \/ /\ run.by.set # {} /\ run.p <= Len(str)
            /\ Cb(run.p, k - run.p, Behind(k), Behind(k), FALSE)
  BY DEF SplitSet
<1>2. run.p \in Nat /\ run.i = run.p
  BY <1>1 DEF ListInv, SplitOK
<1>3. str \in Seq(Chars) /\ Len(str) \in Nat
  BY StrOK
<1>4. \A d : Fits(run.by, d) => \E c \in run.by.set : d = <<c>>
  BY <1>1 DEF Fits
<1>5. CASE run.by.set = {} /\ Cb(0, Len(str), 0, 0, TRUE)
  <2>1. PieceFits(0, Len(str), 0, TRUE)
    BY <1>3, <1>4, <1>5 DEF PieceFits
  <2> QED BY <1>1, <1>5, <2>1, CbJoin
<1>6. CASE run.by.set # {} /\ run.p <= Len(str)
           /\ Cb(run.p, k - run.p, Behind(k), Behind(k), FALSE)
  <2>1. k = Min(EndsOf(run.p, run.by.set))
    BY <1>2 DEF EndsOf
  <2> HIDE DEF k
  <2>2. /\ k \in run.p .. Len(str)
        /\ k = Len(str) \/ str[k + 1] \in run.by.set
        /\ \A j \in run.p .. k - 1 : str[j + 1] \notin run.by.set
    <3>1. run.p \in Nat /\ run.p <= Len(str)
      BY <1>2, <1>6
    <3> QED BY <2>1, <3>1, FirstOfSet
  <2>3. run.p + (k - run.p) = k /\ k - run.p \in Nat /\ k <= Len(str) /\ k \in Nat
    BY <1>2, <1>3, <2>2
  <2>4. ASSUME NEW d, Fits(run.by, d)
        PROVE  /\ Behind(k) = k + Len(d)
               /\ Behind(k) <= Len(str) =>
                    SubSeq(Image(run.by, d, str), k + 1, Behind(k)) = d
    <3> DEFINE im == Image(run.by, d, str)
    <3>1. PICK c \in run.by.set : d = <<c>>
      BY <1>4, <2>4
    <3>2. Len(d) = 1 /\ d[1] = c /\ d \in Seq(Chars)
      BY <2>4, <3>1 DEF Fits
    <3>3. /\ im \in Seq(Chars) /\ Len(im) = Len(str)
          /\ \A i \in 1 .. Len(str) : im[i] = IF str[i] \in run.by.set THEN d[1] ELSE str[i]
      BY <1>1, <1>3, <2>4, ImageOK
    <3> HIDE DEF im
    <3>4. ASSUME k + 1 <= Len(str) PROVE SubSeq(im, k + 1, k + 1) = d
      <4>1. k + 1 \in 1 .. Len(str) /\ str[k + 1] \in run.by.set
        BY <2>2, <2>3, <3>4
      <4>2. im[k + 1] = c /\ im[k + 1] \in Chars
        BY <3>2, <3>3, <4>1
      <4>3. \A i \in k + 1 .. k + 1 : im[i] \in Chars
        BY <2>3, <4>2
      <4>4. /\ SubSeq(im, k + 1, k + 1) \in Seq(Chars)
            /\ Len(SubSeq(im, k + 1, k + 1)) = 1
            /\ SubSeq(im, k + 1, k + 1)[1] = im[k + 1]
        BY <2>3, <4>3, SubSeqProperties
      <4> DEFINE u == SubSeq(im, k + 1, k + 1)
      <4>5. u \in Seq(Chars) /\ Len(u) = Len(d) /\ \A i \in 1 .. Len(u) : u[i] = d[i]
        BY <3>2, <4>2, <4>4
      <4> HIDE DEF u
      <4>6. u = d
        BY <3>2, <4>5, SeqEqual
      <4> QED BY <4>6 DEF u
    <3> QED BY <3>2, <3>4 DEF Behind, im
  <2>5. PieceFits(run.p, k - run.p, Behind(k), FALSE)
    <3>1. /\ run.p \in Nat /\ k - run.p \in Nat /\ run.p + (k - run.p) <= Len(str)
          /\ ~Whole(run.by) /\ run.by.text = NULL
      BY <1>1, <1>2, <1>6, <2>3 DEF Whole
    <3>2. \A j \in run.p .. run.p + (k - run.p) - 1 : str[j + 1] \notin run.by.set
      <4>1. run.p + (k - run.p) - 1 = k - 1
        BY <1>2, <2>3
      <4> QED BY <2>2, <4>1
    <3>3. ASSUME NEW d, Fits(run.by, d)
          PROVE  /\ Behind(k) = run.p + (k - run.p) + Len(d)
                 /\ Behind(k) <= Len(str) =>
                      SubSeq(Image(run.by, d, str), run.p + (k - run.p) + 1, Behind(k)) = d
      BY <2>3, <2>4, <3>3
    <3> QED BY <3>1, <3>2, <3>3 DEF PieceFits
  <2> QED BY <1>1, <1>6, <2>5, CbJoin
<1>7. CASE run.by.set # {} /\ run.p > Len(str) /\ Ends
  <2>1. ASSUME NEW d, Fits(run.by, d) PROVE run.p >= Len(str) + Len(d)
    <3>1. Len(d) = 1
      BY <1>4, <2>1
    <3> QED BY <1>2, <1>3, <1>7, <3>1
  <2> QED BY <1>1, <1>7, <2>1, EndsJoin DEF Whole
<1> QED BY <1>1, <1>5, <1>6, <1>7

\* A turn of bsplitstrcb.
LEMMA SplitTextJoin ==
  ASSUME NullIsNoText, ListInv, JoinInv, failing' = failing, SplitText
  PROVE  JoinInv'
<1> DEFINE t  == run.by.text
           at == Found(t, run.i)
           m  == Min(at)
           q  == m + Len(t)
<1>1. /\ run.pc = "split" /\ t # NULL
      /\ \/ t = <<>> /\ run.p >= Len(str) /\ Ends
         \/ t = <<>> /\ run.p < Len(str) /\ Cb(run.p, 1, run.p + 1, run.p + 1, FALSE)
         \/ t # <<>> /\ at # {} /\ Cb(run.p, m - run.p, q, q + 1, FALSE)
         \/ t # <<>> /\ at = {} /\ Cb(run.p, Len(str) - run.p, 0, 0, TRUE)
  BY DEF SplitText
<1>2. /\ run.p \in Nat /\ run.i \in {run.p, run.p + 1} /\ t \in Seq(ToSet(t))
      /\ InList => run.p <= Len(str)
  BY <1>1 DEF ListInv, SplitOK, JoinInv, PartOK
<1>3. Len(str) \in Nat /\ Len(t) \in Nat
  BY <1>2, StrOK
<1>4. \A d : Fits(run.by, d) => d = t /\ Image(run.by, d, str) = str
  BY <1>1 DEF Fits, Image
<1>5. ~Whole(run.by)
  BY <1>1 DEF Whole
<1>6. CASE t = <<>> /\ run.p >= Len(str) /\ Ends
  <2>1. \A d : Fits(run.by, d) => run.p >= Len(str) + Len(d)
    BY <1>2, <1>3, <1>4, <1>6
  <2> QED BY <1>1, <1>5, <1>6, <2>1, EndsJoin
<1>7. CASE t = <<>> /\ run.p < Len(str) /\ Cb(run.p, 1, run.p + 1, run.p + 1, FALSE)
  <2>1. SubSeq(str, run.p + 1 + 1, run.p + 1) = <<>>
    BY <1>2, SubSeqEmpty
  <2>2. PieceFits(run.p, 1, run.p + 1, FALSE)
    <3>1. run.p \in Nat /\ run.p + 1 <= Len(str) /\ Len(t) = 0
      BY <1>2, <1>3, <1>7
    <3>2. ASSUME NEW d, Fits(run.by, d)
          PROVE  /\ run.p + 1 = run.p + 1 + Len(d)
                 /\ SubSeq(Image(run.by, d, str), run.p + 1 + 1, run.p + 1) = d
      <4>1. d = t /\ Image(run.by, d, str) = str /\ Len(d) = 0
        BY <1>4, <3>1, <3>2
      <4> QED BY <1>2, <1>7, <2>1, <4>1
    <3> QED BY <1>1, <1>5, <3>1, <3>2 DEF PieceFits
  <2> QED BY <1>1, <1>7, <2>2, CbJoin
<1>8. CASE t # <<>> /\ at # {} /\ Cb(run.p, m - run.p, q, q + 1, FALSE)
  <2>1. /\ m \in Nat /\ m >= run.i /\ m + Len(t) <= Len(str)
        /\ Mid(str, m, Len(t)) = t
    BY <1>2, <1>8, FirstFound
  <2> HIDE DEF m
  <2>2. SubSeq(str, m + 1, q) = t
    BY <1>3, <2>1, MidOK
  <2>3. run.p + (m - run.p) = m /\ m - run.p \in Nat /\ m <= Len(str) /\ q <= Len(str)
    BY <1>2, <1>3, <2>1
  <2>4. PieceFits(run.p, m - run.p, q, FALSE)
    BY <1>1, <1>2, <1>3, <1>4, <1>5, <2>2, <2>3 DEF PieceFits
  <2> QED BY <1>1, <1>8, <2>4, CbJoin
<1>9. CASE t # <<>> /\ at = {} /\ Cb(run.p, Len(str) - run.p, 0, 0, TRUE)
  <2>1. InList => PieceFits(run.p, Len(str) - run.p, 0, TRUE)
    BY <1>1, <1>2, <1>3, <1>5 DEF PieceFits
  <2> QED BY <1>1, <1>9, <2>1, CbJoin
<1> QED BY <1>1, <1>6, <1>7, <1>8, <1>9

\* Joining what a string was split into makes that string, for strings, separators and
\* lists of every length, if it is joined by what it was split by; no entry is missing
\* unless the heap refused to make it.
THEOREM JoiningRestores == NullIsNoText => (Spec => []JoinRestores)
<1> SUFFICES ASSUME NullIsNoText PROVE Spec => []JoinRestores
  OBVIOUS
<1>1. Init => JoinInv
  BY DEF Init, JoinInv, EntriesOK, PartOK, DoneOK, JoinRestores, InList, Idle
<1>2. ListInv /\ JoinInv /\ [Next]_vars => JoinInv'
  <2> SUFFICES ASSUME ListInv, JoinInv, [Next]_vars PROVE JoinInv'
    OBVIOUS
  <2>1. CASE Turn /\ failing' = failing
    BY <2>1, SplitSetJoin, SplitTextJoin DEF Turn
  <2>2. CASE Call /\ failing' = failing /\ str' = str
    <3>1. CASE \/ bstrListCreate \/ bstrListDestroy
               \/ \E msz \in Rooms : bstrListAlloc(msz) \/ bstrListAllocMin(msz)
               \/ \E t \in Separators : Puts(t)
      BY <2>2, <3>1, SlotCallsJoin
    <3>2. CASE \/ \E S \in Sets : \/ bsplits(S)
                                  \/ \E c \in S : bsplit(c)
                                  \/ \E pos \in 0 .. Len(str) : bsplitscb(S, pos)
               \/ \E t \in Separators : \/ bsplitstr(t)
                                        \/ \E pos \in 0 .. Len(str) : bsplitstrcb(t, pos)
      BY <2>2, <3>2, SplitCallsJoin
    <3>3. ASSUME NEW t \in Separators, bjoin(t)
          PROVE  JoinInv'
      BY <2>2, <3>3, JoinJoin
    <3> QED BY <2>2, <3>1, <3>2, <3>3 DEF Call
  <2>3. CASE UNCHANGED vars
    BY <2>3 DEF vars, JoinInv, EntriesOK, PartOK, DoneOK, JoinRestores, InList, PartOf,
                JoinedTo, Hole, AllOf
  <2> QED BY <2>1, <2>2, <2>3 DEF Next
<1>3. JoinInv => JoinRestores
  BY DEF JoinInv
<1> QED BY <1>1, <1>2, <1>3, ListInvHolds, PTL DEF Spec

=============================================================================
