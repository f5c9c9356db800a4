---------------------------- MODULE BStreamProofs ----------------------------
(***************************************************************************)
(* What holds of BStream for inputs of every length, all sizes of buffers  *)
(* and reads, core streams that deliver as little as they like, and        *)
(* whatever the heap refuses: no sentinel outside a block, and each step   *)
(* is one that AbstractStream allows.                                      *)
(***************************************************************************)
EXTENDS BStream, SequenceTheorems, WellFoundedInduction, TLAPS

\* The largest power of 2 an int holds.
Highest == 1073741824

\* Texts are short of where rounding a size up no longer makes it larger.
ShortTexts == MaxLen < Highest

\* The null pointer has none of the fields that strings and splittings have.
NullIsNoRecord == "acc" \notin DOMAIN NULL /\ "text" \notin DOMAIN NULL

-----------------------------------------------------------------------------
(* The invariant.                                                          *)

IsStr(s) == s \in [text : Seq(Char), mlen : Nat, nul : BOOLEAN]

\* A string that has room for its terminator.
Fits(s) == IsStr(s) /\ Len(s.text) < s.mlen

\* The client's may have none, since bspeek asked a heap for none that gave no more.
Held(s) == IsStr(s) /\ (Len(s.text) >= s.mlen => "snap" \in failing)

\* The string that is read into.
Into == IF split = NULL THEN r ELSE split.acc

\* The string pieces are taken from.
SplitOK ==
  /\ "acc" \in DOMAIN split /\ Fits(split.acc)
  /\ "name" \in DOMAIN split /\ split.name \in {"bssplitscb", "bssplitstrcb"}
  /\ "seps" \in DOMAIN split /\ (split.name = "bssplitstrcb" => split.seps \in Seq(Char))

\* A call that reads by way of the buffer has grown it to its size and the sentinel, and
\* has still to read some characters; so have those that read all at once.
RunOK ==
  /\ "pc" \in DOMAIN run
  /\ run.pc \in {"idle", "line", "read", "all", "gets", "scan", "judge"}
  /\ run.pc = "idle" => run = Idle
  /\ run.pc \in {"idle", "line", "all", "gets"} => split = NULL
  /\ run.pc \in {"line", "read"} => Fits(buff) /\ buff.mlen > maxBuffSz
  /\ run.pc = "read" => run.n \in Nat /\ run.n > Len(Into.text) /\ (split = NULL \/ SplitOK)
  /\ run.pc = "all" => run.n \in Nat /\ run.n > Len(r.text)
  /\ run.pc \in {"scan", "judge"} => Fits(buff) /\ SplitOK

StreamInv ==
  /\ failing \in Heaps /\ core \in Seq(Char) /\ maxBuffSz \in Nat \ {0}
  /\ buff = NULL \/ Fits(buff)
  /\ Held(r)
  /\ RunOK

\* What no step may do: Terminated says this of all steps.
Safe ==
  /\ wild' => "snap" \in failing /\ (ret'.call = "bspeek" \/ Overfull)
  /\ "tight" \notin failing /\ run' = Idle /\ ret'.call \in Reading /\ ret'.end # "ERR"
       => r'.nul

-----------------------------------------------------------------------------
(* Numbers and sequences.                                                  *)

\* A set of natural numbers that is not empty has a least one, and it is Min.
LEMMA MinIsLeast ==
  ASSUME NEW T \in SUBSET Nat, T # {}
  PROVE  Min(T) \in T /\ \A k \in T : Min(T) <= k
<1> DEFINE Less == OpToRel(<, Nat)
<1>1. \A x, y \in Nat : x < y => <<x, y>> \in Less
  BY Zenon DEF OpToRel
<1>2. IsWellFoundedOn(Less, Nat)
  BY NatLessThanWellFounded, Zenon
<1> HIDE DEF Less
<1>3. \E x \in T : \A y \in T : ~(<<y, x>> \in Less)
  BY <1>2, WFMin, Zenon
<1>4. PICK m \in T : \A y \in T : ~(<<y, m>> \in Less)
  BY <1>3
<1>5. \A k \in T : k \in Nat /\ m \in Nat /\ ~(k < m)
  BY <1>1, <1>4
<1>6. m \in T /\ \A k \in T : m <= k
  BY <1>5
<1> QED BY <1>6 DEF Min

\* Of two numbers.
LEMMA MinOfTwo ==
  ASSUME NEW a \in Int, NEW b \in Int
  PROVE  Min({a, b}) = IF a <= b THEN a ELSE b
<1>1. (IF a <= b THEN a ELSE b) \in {a, b}
      /\ \A k \in {a, b} : (IF a <= b THEN a ELSE b) <= k
  OBVIOUS
<1>2. Min({a, b}) \in {a, b} /\ \A k \in {a, b} : Min({a, b}) <= k
  BY <1>1 DEF Min
<1> QED BY <1>2

\* A size that is rounded up is larger, as long as an int holds a larger power of 2.
LEMMA SnapGrows ==
  ASSUME NEW i \in Nat
  PROVE  /\ snapUpSize(i) \in Nat /\ snapUpSize(i) >= i
         /\ i < Highest => snapUpSize(i) > i
<1> DEFINE above == {p \in Powers : p > i}
<1>1. above \in SUBSET Nat /\ \A p \in above : p > i
  BY SMT DEF Powers
<1>2. i < Highest => Highest \in above
  BY SMT DEF Powers, Highest
<1> HIDE DEF above
<1>3. ASSUME above # {} PROVE Min(above) \in Nat /\ Min(above) > i
  <2>1. above \in SUBSET Nat
    BY <1>1
  <2>2. Min(above) \in above
    BY <1>3, <2>1, MinIsLeast
  <2> QED BY <1>1, <2>1, <2>2
<1>4. snapUpSize(i) = IF i < SNAP THEN SNAP ELSE IF above = {} THEN i ELSE Min(above)
  BY DEF snapUpSize, above
<1> QED BY <1>2, <1>3, <1>4, SnapAssumption

\* The beginning of a sequence, and the rest.
LEMMA FirstIs ==
  ASSUME NEW s \in Seq(Char), NEW n \in 0 .. Len(s)
  PROVE  First(s, n) \in Seq(Char) /\ Len(First(s, n)) = n
<1>1. Len(s) \in Nat /\ \A i \in 1 .. n : s[i] \in Char
  BY ElementOfSeq
<1>2. SubSeq(s, 1, n) \in Seq(Char) /\ Len(SubSeq(s, 1, n)) = IF 1 <= n THEN n - 1 + 1 ELSE 0
  BY <1>1, SubSeqProperties
<1> QED BY <1>1, <1>2 DEF First

\* The rest.
LEMMA FromIs ==
  ASSUME NEW s \in Seq(Char), NEW n \in 0 .. Len(s)
  PROVE  From(s, n) \in Seq(Char) /\ Len(From(s, n)) = Len(s) - n
<1>1. Len(s) \in Nat /\ \A i \in n + 1 .. Len(s) : s[i] \in Char
  BY ElementOfSeq
<1>2. /\ SubSeq(s, n + 1, Len(s)) \in Seq(Char)
      /\ Len(SubSeq(s, n + 1, Len(s))) = IF n + 1 <= Len(s) THEN Len(s) - (n + 1) + 1 ELSE 0
  BY <1>1, SubSeqProperties
<1> QED BY <1>1, <1>2 DEF From

\* Where a character is found.
LEMMA FirstOfIs ==
  ASSUME NEW s \in Seq(Char), NEW S
  PROVE  FirstOf(s, S) \in 0 .. Len(s)
<1> DEFINE I == {i \in 1 .. Len(s) : s[i] \in S}
<1>1. FirstOf(s, S) = IF I # {} THEN Min(I) ELSE 0
  BY DEF FirstOf, SelectInSeq
<1>2. Len(s) \in Nat /\ I \in SUBSET Nat /\ I \subseteq 1 .. Len(s)
  OBVIOUS
<1> HIDE DEF I
<1>3. I # {} => Min(I) \in I
  BY <1>2, MinIsLeast
<1>4. I # {} => Min(I) \in 1 .. Len(s)
  BY <1>2, <1>3
<1> DEFINE m == Min(I)
<1>5. FirstOf(s, S) = IF I # {} THEN m ELSE 0
  BY <1>1
<1>6. I # {} => m \in 1 .. Len(s)
  BY <1>4
<1> HIDE DEF m
<1> QED BY <1>2, <1>5, <1>6

\* How much a core stream delivers.
LEMMA DeliversIs ==
  ASSUME core \in Seq(Char), NEW n \in Nat, NEW k \in Delivers(n)
  PROVE  /\ k \in 0 .. n /\ k \in 0 .. Len(core)
         /\ First(core, k) \in Seq(Char) /\ Len(First(core, k)) = k
         /\ From(core, k) \in Seq(Char) /\ Len(From(core, k)) = Len(core) - k
<1> DEFINE m == Min({n, Len(core)})
<1>1. Len(core) \in Nat
  OBVIOUS
<1>2. m = IF n <= Len(core) THEN n ELSE Len(core)
  BY <1>1, MinOfTwo
<1>3. k \in (IF short /\ m > 0 THEN 1 .. m ELSE {m})
  BY DEF Delivers
<1> HIDE DEF m
<1>4. k \in 0 .. n /\ k \in 0 .. Len(core)
  BY <1>1, <1>2, <1>3
<1> QED BY <1>4, FirstIs, FromIs

-----------------------------------------------------------------------------
(* Strings that grow.                                                      *)

\* A string after balloc.
LEMMA GrownIs ==
  ASSUME NEW s, IsStr(s), NEW olen \in Nat, NEW g \in Grown(s, olen)
  PROVE  /\ IsStr(g) /\ g.text = s.text /\ g.mlen >= s.mlen /\ g.mlen >= olen
         /\ olen < Highest /\ "snap" \notin failing => g.mlen > olen
         /\ olen < s.mlen => g = s
<1>1. s.text \in Seq(Char) /\ s.mlen \in Nat /\ s.nul \in BOOLEAN
  BY DEF IsStr
<1>2. CASE olen < s.mlen
  BY <1>1, <1>2 DEF Grown, IsStr
<1>3. CASE olen >= s.mlen
  <2> DEFINE n == snapUpSize(olen)
  <2>1. n \in Nat /\ n >= olen /\ (olen < Highest => n > olen)
    BY SnapGrows
  <2> DEFINE L == {n} \cup IF "snap" \in failing THEN {olen} ELSE {}
  <2>c. ~(olen < s.mlen)
    BY <1>1, <1>3
  <2>a. Grown(s, olen) = {[s EXCEPT !.mlen = l, !.nul = TRUE] : l \in L}
    BY <2>c, Zenon DEF Grown
  <2>b. \A l \in L : l = n \/ (l = olen /\ "snap" \in failing)
    OBVIOUS
  <2> HIDE DEF n, L
  <2>2. PICK l \in L : g = [s EXCEPT !.mlen = l, !.nul = TRUE]
    BY <2>a
  <2>3. l \in Nat /\ l >= olen /\ (olen < Highest /\ "snap" \notin failing => l > olen)
    BY <1>3, <2>1, <2>b
  <2>4. IsStr(g) /\ g.text = s.text /\ g.mlen = l
    BY <1>1, <2>2, <2>3 DEF IsStr
  <2> QED BY <1>1, <1>3, <2>3, <2>4
<1> QED BY <1>1, <1>2, <1>3

\* A string that is set to another text, with or without a terminator.
LEMMA EndedIs ==
  ASSUME NEW s, IsStr(s), NEW t \in Seq(Char)
  PROVE  /\ IsStr(Ended(s, t)) /\ Ended(s, t).text = t /\ Ended(s, t).mlen = s.mlen
         /\ Ended(s, t).nul = TRUE
         /\ IsStr(Unended(s, t)) /\ Unended(s, t).text = t /\ Unended(s, t).mlen = s.mlen
<1>1. s \in [text : Seq(Char), mlen : Nat, nul : BOOLEAN]
  BY DEF IsStr
<1>2. (t = s.text /\ s.nul) \in BOOLEAN
  OBVIOUS
<1> DEFINE b == t = s.text /\ s.nul
<1>3. Unended(s, t) = [s EXCEPT !.text = t, !.nul = b]
  BY DEF Unended
<1> HIDE DEF b
<1>4. b \in BOOLEAN
  BY <1>2 DEF b
<1> QED BY <1>1, <1>3, <1>4 DEF Ended, IsStr

\* A string with another behind it.
LEMMA ConcatIs ==
  ASSUME NEW s, IsStr(s), NEW t \in Seq(Char), NEW x \in Concat(s, t)
  PROVE  /\ Fits(x) /\ x.nul = TRUE /\ x.text = s.text \o t
         /\ Len(x.text) = Len(s.text) + Len(t)
<1> DEFINE n == Len(s.text) + Len(t) + 1
           u == s.text \o t
<1>1. /\ s.text \in Seq(Char) /\ Len(s.text) \in Nat /\ Len(t) \in Nat /\ n \in Nat
  BY DEF IsStr
<1>2. u \in Seq(Char) /\ Len(u) = Len(s.text) + Len(t)
  BY <1>1, ConcatProperties
<1>3. PICK g \in Grown(s, n) : x = Ended(g, u)
  BY DEF Concat
<1> HIDE DEF u, n
<1>4. IsStr(g) /\ g.mlen >= n /\ g.mlen \in Nat
  BY <1>1, <1>3, GrownIs DEF IsStr
<1>5. IsStr(x) /\ x.text = u /\ x.mlen = g.mlen /\ x.nul = TRUE
  BY <1>2, <1>3, <1>4, EndedIs
<1>6. n = Len(u) + 1
  BY <1>1, <1>2 DEF n
<1>7. Len(u) < x.mlen
  BY <1>1, <1>2, <1>4, <1>5, <1>6
<1> QED BY <1>2, <1>5, <1>7 DEF Fits, u

\* A new string.
LEMMA FreshIs == Fits(Fresh) /\ Fresh.text = <<>> /\ Fresh.nul = TRUE
<1>1. snapUpSize(2) \in Nat /\ snapUpSize(2) >= 2
  BY SnapGrows
<1> DEFINE n == snapUpSize(2)
<1> HIDE DEF n
<1>2. Fresh = [text |-> <<>>, mlen |-> n, nul |-> TRUE]
  BY DEF Fresh, n
<1>3. n \in Nat /\ n > 0
  BY <1>1 DEF n
<1>4. <<>> \in Seq(Char) /\ Len(<<>>) = 0
  OBVIOUS
<1> QED BY <1>2, <1>3, <1>4 DEF Fits, IsStr

-----------------------------------------------------------------------------
(* How steps end.                                                          *)

\* What no step changes but bsbufflength, bsopen and bsclose.
Steady == failing' = failing /\ maxBuffSz' = maxBuffSz /\ short' = short /\ open' = open

\* A splitting of which the string its pieces are taken from has changed.
SplitGoesOn(s) ==
  /\ {"acc", "name", "seps"} \subseteq DOMAIN split' /\ split'.acc = s
  /\ split'.name = split.name /\ split'.seps = split.seps

\* It is a splitting still.
LEMMA SplitGoesOnIs ==
  ASSUME SplitOK, NEW s, Fits(s), SplitGoesOn(s)
  PROVE  SplitOK'
BY DEF SplitOK, SplitGoesOn, Fits, IsStr

\* A call that returns, or gives what it has read to the splitting it belongs to.
LEMMA EndsIs ==
  ASSUME StreamInv, Steady, NEW s, Held(s), NEW c, NEW end, Ends(s, c, end),
         split # NULL => Fits(s) /\ Fits(buff') /\ SplitOK, NullIsNoRecord
  PROVE  /\ RunOK' /\ Held(r)'
         /\ run' = Idle => ret'.end = end /\ (s.nul => r'.nul)
<1>1. CASE split = NULL
  <2>1. /\ run' = Idle /\ split' = NULL /\ (r' = Fresh \/ r' = s)
        /\ ret' = [call |-> c.name, by |-> c.by, end |-> end]
    BY <1>1 DEF Ends
  <2>2. RunOK'
    BY <2>1 DEF RunOK, Idle
  <2>3. Held(r')
    BY <2>1, FreshIs DEF Held, Fits, IsStr
  <2>4. Held(r)'
    BY <2>3 DEF Held, IsStr, Steady
  <2>5. s.nul => r'.nul
    BY <2>1, FreshIs
  <2> QED BY <2>1, <2>2, <2>4, <2>5
<1>2. CASE split # NULL
  <2>1. run' = [run EXCEPT !.pc = "judge"] /\ split' = [split EXCEPT !.acc = s, !.ok = end = "OK"]
        /\ r' = r
    BY <1>2 DEF Ends
  <2>2. "pc" \in DOMAIN run /\ SplitOK /\ Fits(s)
    BY <1>2 DEF StreamInv, RunOK
  <2>3. run'.pc = "judge" /\ "pc" \in DOMAIN run' /\ run' # Idle
    BY <2>1, <2>2 DEF Idle
  <2>4. SplitGoesOn(s)
    <3>1. {"acc", "name", "seps"} \subseteq DOMAIN split
      BY <2>2 DEF SplitOK
    <3> DEFINE b == end = "OK"
    <3>2. split' = [split EXCEPT !.acc = s, !.ok = b]
      BY <2>1
    <3> HIDE DEF b
    <3> QED BY <3>1, <3>2 DEF SplitGoesOn
  <2>5. SplitOK'
    BY <2>2, <2>4, SplitGoesOnIs
  <2>6. RunOK'
    BY <1>2, <2>3, <2>5 DEF RunOK, Fits, IsStr
  <2>7. Held(r)'
    BY <2>1 DEF StreamInv, Held, IsStr, Steady
  <2> QED BY <2>3, <2>6, <2>7
<1> QED BY <1>1, <1>2

\* A call that goes on.
LEMMA GoesOnIs ==
  ASSUME StreamInv, Steady, NEW s, Held(s), NEW c, NEW pc \in {"line", "read", "all", "gets"},
         NEW n, NEW rlo, GoesOn(s, c, pc, n, rlo),
         split # NULL => Fits(s) /\ SplitOK /\ pc = "read",
         pc \in {"line", "read"} => Fits(buff') /\ buff'.mlen > maxBuffSz,
         pc \in {"read", "all"} => n \in Nat /\ n > Len(s.text), NullIsNoRecord
  PROVE  RunOK' /\ Held(r)' /\ run' # Idle
<1>1. /\ "pc" \in DOMAIN run' /\ run'.pc = pc /\ run'.n = n
  <2> DEFINE f == IF run = Idle THEN <<Pending, r.text>> ELSE run.from
  <2>1. run' = [pc |-> pc, call |-> c, n |-> n, rlo |-> rlo, from |-> f]
    BY DEF GoesOn
  <2> HIDE DEF f
  <2> QED BY <2>1
<1>2. run' # Idle
  BY <1>1 DEF Idle
<1>3. CASE split = NULL
  <2>1. r' = s /\ split' = NULL
    BY <1>3 DEF GoesOn
  <2>2. Held(r)'
    BY <2>1 DEF Held, IsStr, Steady
  <2>3. Into' = s
    BY <2>1 DEF Into
  <2>4. /\ pc \in {"line", "read"} => Fits(buff)' /\ buff'.mlen > maxBuffSz'
    BY DEF Fits, IsStr, Steady
  <2>5. RunOK'
    BY <1>1, <1>2, <2>1, <2>3, <2>4 DEF RunOK
  <2> QED BY <1>2, <2>2, <2>5
<1>4. CASE split # NULL
  <2>1. r' = r /\ split' = [split EXCEPT !.acc = s]
    BY <1>4 DEF GoesOn
  <2>2. Held(r)'
    BY <2>1 DEF StreamInv, Held, IsStr, Steady
  <2>3. SplitGoesOn(s)
    BY <1>4, <2>1 DEF SplitOK, SplitGoesOn
  <2>4. split' # NULL
    BY <2>3 DEF NullIsNoRecord, SplitGoesOn
  <2>5. Into' = s
    BY <2>3, <2>4 DEF Into, SplitGoesOn
  <2>6. SplitOK'
    BY <1>4, <2>3, SplitGoesOnIs
  <2>7. /\ pc = "read" => Fits(buff)' /\ buff'.mlen > maxBuffSz'
    BY DEF Fits, IsStr, Steady
  <2>8. RunOK'
    BY <1>1, <1>2, <1>4, <2>5, <2>6, <2>7 DEF RunOK
  <2> QED BY <1>2, <2>2, <2>8
<1> QED BY <1>3, <1>4

\* A call on the stream that returns at once.
LEMMA ReturnsIs ==
  ASSUME StreamInv, run = Idle, NEW name, NEW by, NEW end, Returns(name, by, end),
         failing' = failing
  PROVE  /\ RunOK' /\ core' = core /\ ret'.call = name /\ ret'.end = end
<1>1. split = NULL
  BY DEF StreamInv, RunOK, Idle
<1>2. run' = Idle /\ split' = NULL /\ core' = core
      /\ ret' = [call |-> name, by |-> by, end |-> end]
  BY <1>1 DEF Returns
<1> QED BY <1>2 DEF RunOK, Idle

\* A piece is given to the callback, and the splitting goes on or not.
LEMMA CallsIs ==
  ASSUME StreamInv, Steady, SplitOK, NEW t, NEW s, Fits(s), NEW n, Calls(t, s, n), Fits(buff')
  PROVE  RunOK' /\ Held(r)' /\ (run' = Idle => ret'.call \notin Reading)
<1>1. r' = r
  BY DEF Calls
<1>2. Held(r)'
  BY <1>1 DEF StreamInv, Held, IsStr, Steady
<1>3. "pc" \in DOMAIN run
  BY DEF StreamInv, RunOK
<1>4. CASE split' = NULL /\ run' = Idle /\ ret'.call = split.name
  BY <1>2, <1>4 DEF RunOK, Idle, SplitOK, Reading
<1>5. CASE split' = [split EXCEPT !.acc = s, !.ofs = @ + n] /\ run' = [run EXCEPT !.pc = "scan"]
  <2>1. run'.pc = "scan" /\ "pc" \in DOMAIN run' /\ run' # Idle
    BY <1>3, <1>5 DEF Idle
  <2>2. SplitGoesOn(s)
    <3> DEFINE o == split.ofs + n
    <3>1. split' = [split EXCEPT !.acc = s, !.ofs = o]
      BY <1>5
    <3> HIDE DEF o
    <3> QED BY <3>1 DEF SplitOK, SplitGoesOn
  <2>3. SplitOK'
    BY <2>2, SplitGoesOnIs
  <2>4. Fits(buff)'
    BY DEF Fits, IsStr
  <2> QED BY <1>2, <2>1, <2>3, <2>4 DEF RunOK
<1> QED BY <1>4, <1>5 DEF Calls, SplitEnds

\* A splitting ends.
LEMMA SplitEndsIs ==
  ASSUME StreamInv, Steady, SplitOK, SplitEnds, r' = r, ret'.call = split.name
  PROVE  RunOK' /\ Held(r)' /\ ret'.call \notin Reading
<1>1. Held(r)'
  BY DEF StreamInv, Held, IsStr, Steady
<1>2. RunOK'
  BY DEF SplitEnds, RunOK, Idle
<1> QED BY <1>1, <1>2 DEF SplitOK, Reading

\* What has been shown of its parts holds of the state.
LEMMA StreamInvIs ==
  ASSUME StreamInv, Steady, core' \in Seq(Char), buff' = NULL \/ Fits(buff'), RunOK', Held(r)'
  PROVE  StreamInv'
<1>1. (buff = NULL \/ Fits(buff))'
  BY DEF Fits, IsStr
<1>2. failing' \in Heaps /\ maxBuffSz' \in Nat \ {0}
  BY DEF StreamInv, Steady
<1> QED BY <1>1, <1>2 DEF StreamInv

\* What every step does: the invariant holds after it, and it does nothing that no step may.
Good == StreamInv' /\ Safe

\* What has been read ends with a terminator, or the call has failed or read nothing.
Told ==
  run' = Idle => \/ ret'.end = "ERR" \/ ret'.call \notin Reading
                 \/ "tight" \in failing \/ r'.nul

\* What a step has to show that writes outside no block.
LEMMA GoodIs ==
  ASSUME StreamInv, Steady, core' \in Seq(Char), buff' = NULL \/ Fits(buff'), RunOK', Held(r)',
         ~wild', Told
  PROVE  Good
<1>1. StreamInv'
  BY StreamInvIs
<1>2. Safe
  BY Zenon DEF Safe, Told
<1> QED BY <1>1, <1>2 DEF Good

\* A call that ends.
LEMMA EndsGood ==
  ASSUME StreamInv, Steady, NullIsNoRecord, core' \in Seq(Char), buff' = NULL \/ Fits(buff'),
         ~wild', NEW s, Held(s), NEW c, NEW end, Ends(s, c, end),
         split # NULL => Fits(s) /\ Fits(buff') /\ SplitOK,
         end = "ERR" \/ "tight" \in failing \/ s.nul
  PROVE  Good
<1>1. RunOK' /\ Held(r)' /\ (run' = Idle => ret'.end = end /\ (s.nul => r'.nul))
  BY EndsIs
<1>2. Told
  BY <1>1 DEF Told
<1> QED BY <1>1, <1>2, GoodIs

\* A call that goes on.
LEMMA GoesOnGood ==
  ASSUME StreamInv, Steady, NullIsNoRecord, core' \in Seq(Char), buff' = NULL \/ Fits(buff'),
         ~wild', NEW s, Held(s), NEW c, NEW pc \in {"line", "read", "all", "gets"},
         NEW n, NEW rlo, GoesOn(s, c, pc, n, rlo),
         split # NULL => Fits(s) /\ SplitOK /\ pc = "read",
         pc \in {"line", "read"} => Fits(buff') /\ buff'.mlen > maxBuffSz,
         pc \in {"read", "all"} => n \in Nat /\ n > Len(s.text)
  PROVE  Good
<1>1. RunOK' /\ Held(r)' /\ run' # Idle
  BY GoesOnIs
<1>2. Told
  BY <1>1 DEF Told
<1> QED BY <1>1, <1>2, GoodIs

\* A string with room is one the client may hold.
LEMMA FitsHeld ==
  ASSUME NEW s, Fits(s)
  PROVE  /\ Held(s) /\ IsStr(s) /\ s.text \in Seq(Char) /\ Len(s.text) \in Nat
         /\ s.mlen \in Nat /\ Len(s.text) < s.mlen
<1>1. IsStr(s) /\ Len(s.text) < s.mlen
  BY DEF Fits
<1>2. s.text \in Seq(Char) /\ s.mlen \in Nat
  BY <1>1 DEF IsStr
<1> DEFINE t == s.text
<1>3. Len(t) \in Nat
  BY <1>2
<1> DEFINE l == Len(t)
<1>4. l \in Nat /\ l < s.mlen
  BY <1>1, <1>3
<1> HIDE DEF l
<1>5. ~(l >= s.mlen)
  BY <1>2, <1>4
<1> QED BY <1>1, <1>2, <1>3, <1>5 DEF Held, l

\* Between calls nothing is split, and a buffer that exists has room.
LEMMA IdleIs ==
  ASSUME StreamInv, run = Idle
  PROVE  split = NULL /\ Held(r) /\ (buff # NULL => Fits(buff))
BY DEF StreamInv, RunOK, Idle

-----------------------------------------------------------------------------
(* Lines.                                                                  *)

\* A buffer without a terminator.
Bare(g) == [g EXCEPT !.nul = FALSE]

\* What Line does with the grown buffer g, i being where a line ends in b.
LineTurn(b, s, c, g, i) ==
  \/ /\ i > 0 /\ buff' = Ended(g, From(b.text, i))
     /\ \E x \in Concat(s, First(b.text, i)) : Ends(x, c, "OK")
  \/ /\ i > 0 /\ buff' = Bare(g)
     /\ ConcatRefused(s, First(b.text, i)) /\ Ends(s, c, "OK")
  \/ /\ i = 0 /\ buff' = Bare(g)
     /\ \/ \E x \in Concat(s, b.text) : GoesOn(x, c, "line", 0, Len(s.text))
        \/ ConcatRefused(s, b.text) /\ Ends(s, c, "ERR")

\* A line that is begun.
LEMMA LineGood ==
  ASSUME StreamInv, Steady, NullIsNoRecord, run = Idle, NEW b, Fits(b), NEW s, Held(s), NEW c,
         Line(b, s, c)
  PROVE  Good
<1>1. core' = core /\ core' \in Seq(Char) /\ maxBuffSz \in Nat
  BY DEF Line, StreamInv
<1>2. split = NULL
  BY IdleIs
<1>3. /\ b.text \in Seq(Char) /\ Len(b.text) \in Nat /\ b.mlen \in Nat /\ IsStr(b)
      /\ Len(b.text) < b.mlen
  BY FitsHeld
<1>4. IsStr(s) /\ s.text \in Seq(Char)
  BY DEF Held, IsStr
<1>5. CASE /\ Refused(b, maxBuffSz + 1) /\ buff' = b /\ Ends(s, c, "ERR") /\ wild' = FALSE
  <2>1. ~wild'
    BY <1>5, Zenon
  <2> QED BY <1>1, <1>2, <1>5, <2>1, EndsGood
<1>6. ASSUME NEW g \in Grown(b, maxBuffSz + 1), wild' = (Len(b.text) >= g.mlen),
             NEW i \in 0 .. Len(b.text), LineTurn(b, s, c, g, i)
      PROVE  Good
  <2>1. /\ IsStr(g) /\ g.text = b.text /\ g.mlen \in Nat
        /\ g.mlen >= b.mlen /\ g.mlen >= maxBuffSz + 1
    BY <1>1, <1>3, <1>6, GrownIs DEF IsStr
  <2>2. ~(Len(b.text) >= g.mlen)
    BY <1>3, <2>1
  <2>3. ~wild'
    BY <1>6, <2>2, Zenon
  <2>4. CASE i > 0 /\ buff' = Ended(g, From(b.text, i))
             /\ \E x \in Concat(s, First(b.text, i)) : Ends(x, c, "OK")
    <3>1. PICK x \in Concat(s, First(b.text, i)) : Ends(x, c, "OK")
      BY <2>4
    <3>2. From(b.text, i) \in Seq(Char) /\ Len(From(b.text, i)) = Len(b.text) - i
          /\ First(b.text, i) \in Seq(Char)
      BY <1>3, FromIs, FirstIs
    <3>3. IsStr(buff') /\ buff'.text = From(b.text, i) /\ buff'.mlen = g.mlen
      BY <2>1, <2>4, <3>2, EndedIs
    <3>4. Fits(buff')
      BY <1>3, <2>1, <3>2, <3>3 DEF Fits
    <3>5. Fits(x) /\ x.nul
      BY <1>4, <3>1, <3>2, ConcatIs
    <3> QED BY <1>1, <1>2, <2>3, <3>1, <3>4, <3>5, FitsHeld, EndsGood
  <2>5. IsStr(Bare(g)) /\ Bare(g).text = g.text /\ Bare(g).mlen = g.mlen
    BY <2>1 DEF IsStr, Bare
  <2>6. Fits(Bare(g)) /\ Bare(g).mlen > maxBuffSz
    BY <1>1, <1>3, <2>1, <2>5 DEF Fits
  <2>7. CASE /\ i > 0 /\ buff' = Bare(g)
             /\ ConcatRefused(s, First(b.text, i)) /\ Ends(s, c, "OK")
    BY <1>1, <1>2, <2>3, <2>6, <2>7, EndsGood DEF ConcatRefused, Refused
  <2>8. CASE i = 0 /\ buff' = Bare(g) /\ ConcatRefused(s, b.text) /\ Ends(s, c, "ERR")
    BY <1>1, <1>2, <2>3, <2>6, <2>8, EndsGood
  <2>9. CASE /\ i = 0 /\ buff' = Bare(g)
             /\ \E x \in Concat(s, b.text) : GoesOn(x, c, "line", 0, Len(s.text))
    <3>1. PICK x \in Concat(s, b.text) : GoesOn(x, c, "line", 0, Len(s.text))
      BY <2>9
    <3>2. Fits(x) /\ Held(x)
      BY <1>3, <1>4, <3>1, ConcatIs, FitsHeld
    <3> QED BY <1>1, <1>2, <2>3, <2>6, <2>9, <3>1, <3>2, GoesOnGood
  <2> QED BY <1>6, <2>4, <2>7, <2>8, <2>9 DEF LineTurn
<1> DEFINE i == FirstOf(b.text, c.by)
<1>7. i \in 0 .. Len(b.text)
  BY <1>3, FirstOfIs
<1>8. \/ Refused(b, maxBuffSz + 1) /\ buff' = b /\ Ends(s, c, "ERR") /\ wild' = FALSE
      \/ \E g \in Grown(b, maxBuffSz + 1) :
           wild' = (Len(b.text) >= g.mlen) /\ LineTurn(b, s, c, g, i)
  BY Zenon DEF Line, LineTurn, Bare
<1> HIDE DEF i
<1> QED BY <1>5, <1>6, <1>7, <1>8

\* What LineNext does with the grown r, k being how much is read and i where a line ends in it.
LineNextTurn(g, k, chunk, i) ==
  /\ core' = From(core, k)
  /\ wild' = (Len(r.text) + k >= g.mlen \/ (i > 0 /\ k - i > buff.mlen))
  /\ \/ /\ k = 0 /\ isEOF' = TRUE /\ buff' = Unended(buff, <<>>)
        /\ Ends(Ended(g, r.text), run.call, IF Len(r.text) = run.rlo THEN "ERR" ELSE "OK")
     \/ /\ i > 0 /\ buff' = Unended(buff, From(chunk, i))
        /\ Ends(Ended(g, r.text \o First(chunk, i)), run.call, "OK")
        /\ UNCHANGED isEOF
     \/ /\ k > 0 /\ i = 0
        /\ GoesOn(Unended(g, r.text \o chunk), run.call, "line", 0, run.rlo)
        /\ UNCHANGED <<isEOF, buff>>

\* A string with room has room for a shorter text.
LEMMA FitsShorter ==
  ASSUME NEW s, Fits(s), NEW t \in Seq(Char), Len(t) < s.mlen
  PROVE  /\ Fits(Ended(s, t)) /\ Ended(s, t).nul /\ Ended(s, t).mlen = s.mlen
         /\ Fits(Unended(s, t)) /\ Unended(s, t).mlen = s.mlen
<1>1. /\ IsStr(Ended(s, t)) /\ Ended(s, t).text = t /\ Ended(s, t).mlen = s.mlen
      /\ Ended(s, t).nul = TRUE
      /\ IsStr(Unended(s, t)) /\ Unended(s, t).text = t /\ Unended(s, t).mlen = s.mlen
  BY FitsHeld, EndedIs
<1> QED BY <1>1 DEF Fits

\* A string whose text is shorter than what it has been grown for.
LEMMA GrownFits ==
  ASSUME NEW s, IsStr(s), NEW olen \in Nat, NEW g \in Grown(s, olen), NEW t \in Seq(Char),
         Len(t) < olen \/ Len(t) < s.mlen
  PROVE  /\ Fits(Ended(g, t)) /\ Ended(g, t).nul /\ Fits(Unended(g, t))
         /\ ~(Len(t) >= g.mlen)
<1>1. /\ IsStr(g) /\ g.mlen >= s.mlen /\ g.mlen >= olen
      /\ s.mlen \in Nat /\ g.mlen \in Nat
  <2>1. IsStr(g) /\ g.mlen >= s.mlen /\ g.mlen >= olen
    BY GrownIs
  <2> QED BY <2>1 DEF IsStr
<1> DEFINE l == Len(t)
           m == g.mlen
           n == s.mlen
<1>2. l \in Nat /\ (l < olen \/ l < n)
  OBVIOUS
<1>3. m \in Nat /\ n \in Nat /\ m >= n /\ m >= olen
  BY <1>1
<1> HIDE DEF l, m, n
<1>4. l < m /\ ~(l >= m)
  BY <1>2, <1>3
<1>5. /\ IsStr(Ended(g, t)) /\ Ended(g, t).text = t /\ Ended(g, t).mlen = g.mlen
      /\ Ended(g, t).nul = TRUE
      /\ IsStr(Unended(g, t)) /\ Unended(g, t).text = t /\ Unended(g, t).mlen = g.mlen
  BY <1>1, EndedIs
<1> QED BY <1>4, <1>5 DEF Fits, l, m

\* Two texts one after the other.
LEMMA JoinedIs ==
  ASSUME NEW s \in Seq(Char), NEW t \in Seq(Char)
  PROVE  s \o t \in Seq(Char) /\ Len(s \o t) = Len(s) + Len(t) /\ Len(s) \in Nat /\ Len(t) \in Nat
BY ConcatProperties, LenProperties

\* A line that goes on.
LEMMA LineNextGood ==
  ASSUME StreamInv, Steady, NullIsNoRecord, LineNext
  PROVE  Good
<1> DEFINE c == run.call
<1>1. /\ core \in Seq(Char) /\ maxBuffSz \in Nat /\ Held(r) /\ run.pc = "line"
      /\ split = NULL /\ Fits(buff) /\ buff.mlen > maxBuffSz
  BY DEF LineNext, StreamInv, RunOK
<1>2. /\ buff.text \in Seq(Char) /\ Len(buff.text) \in Nat /\ buff.mlen \in Nat
      /\ IsStr(buff) /\ Len(buff.text) < buff.mlen
  BY <1>1, FitsHeld
<1>3. IsStr(r) /\ r.text \in Seq(Char) /\ Len(r.text) \in Nat /\ r.mlen \in Nat
  <2>1. IsStr(r) /\ r.text \in Seq(Char) /\ r.mlen \in Nat
    BY <1>1 DEF Held, IsStr
  <2> QED BY <2>1, LenProperties
<1>4. LineRoom \in Nat /\ LineRoom = Len(r.text) + maxBuffSz + 1
  BY <1>1, <1>3 DEF LineRoom
<1>5. CASE /\ Refused(r, LineRoom) /\ Ends(r, c, "ERR")
           /\ wild' = FALSE /\ UNCHANGED <<core, isEOF, buff>>
  <2>1. ~wild'
    BY <1>5, Zenon
  <2> QED BY <1>1, <1>5, <2>1, EndsGood
<1>6. ASSUME NEW g \in Grown(r, LineRoom), NEW k \in Delivers(maxBuffSz), NEW chunk,
             chunk = First(core, k), NEW i \in 0 .. k, LineNextTurn(g, k, chunk, i)
      PROVE  Good
  <2>1. /\ k \in 0 .. maxBuffSz /\ chunk \in Seq(Char) /\ Len(chunk) = k
        /\ From(core, k) \in Seq(Char)
    BY <1>1, <1>6, DeliversIs
  <2>2. core' \in Seq(Char)
    BY <1>6, <2>1 DEF LineNextTurn
  <2>3. IsStr(g) /\ g.mlen \in Nat /\ g.mlen >= LineRoom
    <3>1. IsStr(g) /\ g.mlen >= LineRoom
      BY <1>3, <1>4, GrownIs
    <3> QED BY <3>1 DEF IsStr
  <2>4. ~(Len(r.text) + k >= g.mlen \/ (i > 0 /\ k - i > buff.mlen))
    BY <1>1, <1>2, <1>3, <1>4, <2>1, <2>3
  <2>5. ~wild'
    <3>1. wild' = (Len(r.text) + k >= g.mlen \/ (i > 0 /\ k - i > buff.mlen))
      BY <1>6 DEF LineNextTurn
    <3> QED BY <2>4, <3>1, Zenon
  <2>6. CASE /\ k = 0 /\ isEOF' = TRUE /\ buff' = Unended(buff, <<>>)
             /\ Ends(Ended(g, r.text), c, IF Len(r.text) = run.rlo THEN "ERR" ELSE "OK")
    <3>1. Fits(buff')
      <4>1. <<>> \in Seq(Char) /\ Len(<<>>) = 0
        OBVIOUS
      <4>2. 0 < buff.mlen
        BY <1>2
      <4>3. Fits(Unended(buff, <<>>))
        BY <1>1, <4>1, <4>2, FitsShorter
      <4> QED BY <2>6, <4>3
    <3>2. Len(r.text) < LineRoom
      BY <1>1, <1>3, <1>4
    <3>3. Fits(Ended(g, r.text)) /\ Ended(g, r.text).nul
      BY <1>3, <1>4, <3>2, GrownFits
    <3> QED BY <1>1, <2>2, <2>5, <2>6, <3>1, <3>3, FitsHeld, EndsGood
  <2>7. CASE /\ i > 0 /\ buff' = Unended(buff, From(chunk, i))
             /\ Ends(Ended(g, r.text \o First(chunk, i)), c, "OK")
    <3>1. /\ From(chunk, i) \in Seq(Char) /\ Len(From(chunk, i)) = k - i
          /\ First(chunk, i) \in Seq(Char) /\ Len(First(chunk, i)) = i
      BY <2>1, FromIs, FirstIs
    <3>2. Fits(buff')
      <4>1. Len(From(chunk, i)) < buff.mlen
        BY <1>1, <1>2, <2>1, <3>1
      <4> QED BY <1>1, <2>7, <3>1, <4>1, FitsShorter
    <3> DEFINE t == r.text \o First(chunk, i)
    <3>3. t \in Seq(Char) /\ Len(t) = Len(r.text) + i
      BY <1>3, <3>1, JoinedIs
    <3>4. Len(t) < LineRoom
      BY <1>1, <1>3, <1>4, <2>1, <3>3
    <3>5. Ends(Ended(g, t), c, "OK")
      BY <2>7
    <3> HIDE DEF t
    <3>6. Fits(Ended(g, t)) /\ Ended(g, t).nul
      BY <1>3, <1>4, <3>3, <3>4, GrownFits
    <3> QED BY <1>1, <2>2, <2>5, <3>2, <3>5, <3>6, FitsHeld, EndsGood
  <2>8. CASE /\ k > 0 /\ i = 0 /\ UNCHANGED <<isEOF, buff>>
             /\ GoesOn(Unended(g, r.text \o chunk), c, "line", 0, run.rlo)
    <3> DEFINE t == r.text \o chunk
    <3>1. t \in Seq(Char) /\ Len(t) = Len(r.text) + k
      BY <1>3, <2>1, JoinedIs
    <3>2. Len(t) < LineRoom
      BY <1>1, <1>3, <1>4, <2>1, <3>1
    <3>3. GoesOn(Unended(g, t), c, "line", 0, run.rlo) /\ buff' = buff
      BY <2>8
    <3> HIDE DEF t
    <3>4. Fits(Unended(g, t)) /\ Held(Unended(g, t))
      <4>1. Fits(Unended(g, t))
        BY <1>3, <1>4, <3>1, <3>2, GrownFits
      <4> QED BY <4>1, FitsHeld
    <3> QED BY <1>1, <2>2, <2>5, <3>3, <3>4, GoesOnGood
  <2> QED BY <1>6, <2>6, <2>7, <2>8 DEF LineNextTurn
<1>7. \/ /\ Refused(r, LineRoom) /\ Ends(r, c, "ERR")
         /\ wild' = FALSE /\ UNCHANGED <<core, isEOF, buff>>
      \/ \E g \in Grown(r, LineRoom), k \in Delivers(maxBuffSz) :
           LineNextTurn(g, k, First(core, k), FirstOf(First(core, k), c.by))
  BY Zenon DEF LineNext, LineNextTurn
<1>8. ASSUME NEW k \in Delivers(maxBuffSz)
      PROVE  FirstOf(First(core, k), c.by) \in 0 .. k
  <2>1. First(core, k) \in Seq(Char) /\ Len(First(core, k)) = k
    BY <1>1, DeliversIs
  <2> QED BY <2>1, FirstOfIs
<1> HIDE DEF c
<1>9. ASSUME NEW g \in Grown(r, LineRoom), NEW k \in Delivers(maxBuffSz),
             LineNextTurn(g, k, First(core, k), FirstOf(First(core, k), c.by))
      PROVE  Good
  <2> DEFINE chunk == First(core, k)
             i == FirstOf(First(core, k), c.by)
  <2>1. chunk = First(core, k) /\ i \in 0 .. k /\ LineNextTurn(g, k, chunk, i)
    BY <1>8, <1>9
  <2> HIDE DEF chunk, i
  <2> QED BY <1>6, <2>1
<1> QED BY <1>5, <1>7, <1>9

-----------------------------------------------------------------------------
(* Calls that return at once, and calls that clear r first.                *)

\* A call that returns at once.
LEMMA ReturnsGood ==
  ASSUME StreamInv, Steady, run = Idle, NEW name, NEW by, NEW end, Returns(name, by, end),
         buff' = NULL \/ Fits(buff'), Held(r'), ~wild',
         end = "ERR" \/ name \notin Reading \/ r'.nul
  PROVE  Good
<1>1. RunOK' /\ core' = core /\ ret'.call = name /\ ret'.end = end
  BY ReturnsIs DEF Steady
<1>2. Held(r)'
  BY DEF Held, IsStr, Steady
<1>3. core' \in Seq(Char)
  BY <1>1 DEF StreamInv
<1>4. Told
  BY <1>1 DEF Told
<1> QED BY <1>1, <1>2, <1>3, <1>4, GoodIs

\* An r that is cleared may still be held.
LEMMA ClearedIs ==
  ASSUME Held(r)
  PROVE  Held(Cleared) /\ Cleared.text = <<>> /\ Cleared.mlen = r.mlen
<1>1. IsStr(r) /\ r.text \in Seq(Char) /\ r.mlen \in Nat /\ Len(r.text) \in Nat
  <2>1. IsStr(r) /\ r.text \in Seq(Char) /\ r.mlen \in Nat
    BY DEF Held, IsStr
  <2> QED BY <2>1, LenProperties
<1>2. <<>> \in Seq(Char) /\ Len(<<>>) = 0
  OBVIOUS
<1>3. IsStr(Cleared) /\ Cleared.text = <<>> /\ Cleared.mlen = r.mlen
  BY <1>1, <1>2, EndedIs DEF Cleared
<1>4. 0 >= r.mlen => Len(r.text) >= r.mlen
  BY <1>1
<1>5. Len(Cleared.text) >= Cleared.mlen => "snap" \in failing
  BY <1>2, <1>3, <1>4 DEF Held
<1> QED BY <1>3, <1>5 DEF Held

\* A call that does not get as far as clearing r.
LEMMA NotClearedGood ==
  ASSUME StreamInv, Steady, run = Idle, NEW c, NotCleared(c)
  PROVE  Good
<1>1. ~wild'
  BY Zenon DEF NotCleared
<1>2. Returns(c.name, c.by, "ERR") /\ buff' = buff /\ r' = r
  BY DEF NotCleared
<1>3. (buff' = NULL \/ Fits(buff')) /\ Held(r')
  BY <1>2 DEF StreamInv
<1> QED BY <1>1, <1>2, <1>3, ReturnsGood

\* A buffer that is grown for its size.
LEMMA BufferGrown ==
  ASSUME StreamInv, NEW b, Fits(b), NEW g \in Grown(b, maxBuffSz + 1)
  PROVE  Fits(g) /\ g.text = b.text /\ g.mlen > maxBuffSz
<1>1. maxBuffSz \in Nat /\ maxBuffSz + 1 \in Nat
  BY DEF StreamInv
<1>2. IsStr(b) /\ Len(b.text) \in Nat /\ b.mlen \in Nat /\ Len(b.text) < b.mlen
  BY FitsHeld
<1>3. IsStr(g) /\ g.text = b.text /\ g.mlen >= b.mlen /\ g.mlen >= maxBuffSz + 1
  BY <1>1, <1>2, GrownIs
<1>4. g.mlen \in Nat
  BY <1>3 DEF IsStr
<1> QED BY <1>1, <1>2, <1>3, <1>4 DEF Fits

\* A stream that may be read from has a buffer.
LEMMA ReadyIs ==
  ASSUME StreamInv, Ready
  PROVE  run = Idle /\ split = NULL /\ Held(r) /\ Fits(buff) /\ buff # NULL
BY IdleIs DEF Ready

\* bsreadlna.
LEMMA bsreadlnaGood ==
  ASSUME StreamInv, Steady, NullIsNoRecord, NEW terms, bsreadlna(terms)
  PROVE  Good
<1> DEFINE c == [name |-> "bsreadlna", by |-> terms]
<1>1. /\ Ready
      /\ \/ Line(buff, r, c)
         \/ Returns("bsreadlna", terms, "ERR") /\ wild' = FALSE /\ UNCHANGED <<buff, r>>
  BY Zenon DEF bsreadlna
<1> HIDE DEF c
<1>2. run = Idle /\ Held(r) /\ Fits(buff)
  BY <1>1, ReadyIs
<1>3. CASE Line(buff, r, c)
  BY <1>2, <1>3, LineGood
<1>4. CASE Returns("bsreadlna", terms, "ERR") /\ wild' = FALSE /\ UNCHANGED <<buff, r>>
  <2>1. ~wild'
    BY <1>4, Zenon
  <2>2. Fits(buff') /\ Held(r')
    BY <1>2, <1>4
  <2> QED BY <1>2, <1>4, <2>1, <2>2, ReturnsGood
<1> QED BY <1>1, <1>3, <1>4

\* bsreadln.
LEMMA bsreadlnGood ==
  ASSUME StreamInv, Steady, NullIsNoRecord, NEW terms, bsreadln(terms)
  PROVE  Good
<1> DEFINE c == [name |-> "bsreadln", by |-> terms]
<1>1. /\ Ready
      /\ \/ NotCleared(c)
         \/ \E b \in Grown(buff, maxBuffSz + 1) : Line(b, Cleared, c)
         \/ Returns("bsreadln", terms, "ERR") /\ wild' = FALSE /\ UNCHANGED <<buff, r>>
  BY Zenon DEF bsreadln
<1> HIDE DEF c
<1>2. run = Idle /\ Held(r) /\ Fits(buff)
  BY <1>1, ReadyIs
<1>3. CASE \E b \in Grown(buff, maxBuffSz + 1) : Line(b, Cleared, c)
  BY <1>2, <1>3, BufferGrown, ClearedIs, LineGood
<1>4. CASE Returns("bsreadln", terms, "ERR") /\ wild' = FALSE /\ UNCHANGED <<buff, r>>
  <2>1. ~wild'
    BY <1>4, Zenon
  <2>2. Fits(buff') /\ Held(r')
    BY <1>2, <1>4
  <2> QED BY <1>2, <1>4, <2>1, <2>2, ReturnsGood
<1>5. CASE NotCleared(c)
  BY <1>2, <1>5, NotClearedGood
<1> QED BY <1>1, <1>3, <1>4, <1>5

-----------------------------------------------------------------------------
(* Characters.                                                             *)

\* What is read from the core stream at once.
ReadAtOnce(b, s, c) ==
  /\ s.mlen > c.by + Len(s.text)
  /\ \E k \in Delivers(c.by) :
       /\ core' = From(core, k) /\ isEOF' = (k = 0)
       /\ IF k = 0 THEN Ends(s, c, "ERR")
          ELSE Ends(Ended(s, s.text \o First(core, k)), c, "OK")
  /\ buff' = b /\ wild' = FALSE

\* What is read by way of the buffer.
ReadBuffered(b, s, c) ==
  /\ \/ Refused(b, maxBuffSz + 1) /\ Ends(s, c, "ERR") /\ buff' = b
     \/ \E g \in Grown(b, maxBuffSz + 1) :
          GoesOn(s, c, "read", c.by + Len(s.text), Len(s.text)) /\ buff' = g
  /\ wild' = FALSE /\ UNCHANGED <<core, isEOF>>

\* A read that is begun.
LEMMA ReadGood ==
  ASSUME StreamInv, Steady, NullIsNoRecord, NEW b, Fits(b), NEW s, Held(s), NEW c,
         c.by \in Nat \ {0}, split # NULL => Fits(s) /\ SplitOK, Read(b, s, c)
  PROVE  Good
<1>1. IsStr(s) /\ s.text \in Seq(Char) /\ Len(s.text) \in Nat /\ s.mlen \in Nat
  <2>1. IsStr(s) /\ s.text \in Seq(Char) /\ s.mlen \in Nat
    BY DEF Held, IsStr
  <2> QED BY <2>1, LenProperties
<1>2. core \in Seq(Char)
  BY DEF StreamInv
<1> DEFINE n == c.by + Len(s.text)
<1>3. n \in Nat /\ n > Len(s.text)
  BY <1>1
<1>4. CASE Ends(s, c, "ERR") /\ buff' = b /\ wild' = FALSE /\ UNCHANGED <<core, isEOF>>
  <2>1. ~wild'
    BY <1>4, Zenon
  <2>2. core' \in Seq(Char)
    BY <1>2, <1>4
  <2> QED BY <1>4, <2>1, <2>2, EndsGood
<1>5. CASE ReadAtOnce(b, s, c)
  <2>1. PICK k \in Delivers(c.by) :
          /\ core' = From(core, k)
          /\ IF k = 0 THEN Ends(s, c, "ERR")
             ELSE Ends(Ended(s, s.text \o First(core, k)), c, "OK")
    BY <1>5 DEF ReadAtOnce
  <2>2. ~wild'
    BY <1>5, Zenon DEF ReadAtOnce
  <2>3. /\ k \in 0 .. c.by /\ First(core, k) \in Seq(Char) /\ Len(First(core, k)) = k
        /\ From(core, k) \in Seq(Char)
    BY <1>2, DeliversIs
  <2>4. core' \in Seq(Char) /\ buff' = b /\ s.mlen > n
    BY <1>5, <2>1, <2>3 DEF ReadAtOnce
  <2>5. CASE k = 0
    BY <2>1, <2>2, <2>4, <2>5, EndsGood
  <2>6. CASE k # 0
    <3> DEFINE t == s.text \o First(core, k)
    <3>1. t \in Seq(Char) /\ Len(t) = Len(s.text) + k
      BY <1>1, <2>3, JoinedIs
    <3>2. Ends(Ended(s, t), c, "OK")
      BY <2>1, <2>6
    <3>3. Len(t) < s.mlen /\ Len(s.text) < s.mlen
      BY <1>1, <2>3, <2>4, <3>1
    <3> HIDE DEF t
    <3>4. Fits(s)
      BY <1>1, <3>3 DEF Fits
    <3>5. Fits(Ended(s, t)) /\ Ended(s, t).nul
      BY <3>1, <3>3, <3>4, FitsShorter
    <3> QED BY <2>2, <2>4, <3>2, <3>5, FitsHeld, EndsGood
  <2> QED BY <2>5, <2>6
<1>6. CASE ReadBuffered(b, s, c)
  <2>1. ~wild'
    BY <1>6, Zenon DEF ReadBuffered
  <2>2. core' \in Seq(Char)
    BY <1>2, <1>6 DEF ReadBuffered
  <2>3. CASE Refused(b, maxBuffSz + 1) /\ Ends(s, c, "ERR") /\ buff' = b
    BY <2>1, <2>2, <2>3, EndsGood
  <2>4. CASE \E g \in Grown(b, maxBuffSz + 1) :
               GoesOn(s, c, "read", n, Len(s.text)) /\ buff' = g
    <3>1. PICK g \in Grown(b, maxBuffSz + 1) :
            GoesOn(s, c, "read", n, Len(s.text)) /\ buff' = g
      BY <2>4
    <3>2. Fits(g) /\ g.mlen > maxBuffSz
      BY BufferGrown
    <3> HIDE DEF n
    <3> QED BY <1>3, <2>1, <2>2, <3>1, <3>2, GoesOnGood
  <2> QED BY <1>6, <2>3, <2>4 DEF ReadBuffered
<1>7. \/ Ends(s, c, "ERR") /\ buff' = b /\ wild' = FALSE /\ UNCHANGED <<core, isEOF>>
      \/ ReadAtOnce(b, s, c)
      \/ ReadBuffered(b, s, c)
  BY Zenon DEF Read, ReadAtOnce, ReadBuffered
<1> QED BY <1>4, <1>5, <1>6, <1>7

\* bsreada.
LEMMA bsreadaGood ==
  ASSUME StreamInv, Steady, NullIsNoRecord, NEW n \in Sizes, bsreada(n)
  PROVE  Good
<1> DEFINE c == [name |-> "bsreada", by |-> n]
<1>1. Ready /\ Read(buff, r, c)
  BY DEF bsreada
<1>2. c.by \in Nat \ {0}
  BY StreamAssumption
<1> HIDE DEF c
<1> QED BY <1>1, <1>2, ReadyIs, ReadGood

\* bsread.
LEMMA bsreadGood ==
  ASSUME StreamInv, Steady, NullIsNoRecord, NEW n \in Sizes, bsread(n)
  PROVE  Good
<1> DEFINE c == [name |-> "bsread", by |-> n]
<1>1. Ready /\ (NotCleared(c) \/ \E b \in Grown(buff, maxBuffSz + 1) : Read(b, Cleared, c))
  BY Zenon DEF bsread
<1>2. c.by \in Nat \ {0}
  BY StreamAssumption
<1> HIDE DEF c
<1>3. run = Idle /\ split = NULL /\ Held(r) /\ Fits(buff)
  BY <1>1, ReadyIs
<1>4. CASE NotCleared(c)
  BY <1>3, <1>4, NotClearedGood
<1>5. CASE \E b \in Grown(buff, maxBuffSz + 1) : Read(b, Cleared, c)
  <2>1. PICK b \in Grown(buff, maxBuffSz + 1) : Read(b, Cleared, c)
    BY <1>5
  <2>2. Fits(b) /\ Held(Cleared)
    BY <1>3, BufferGrown, ClearedIs
  <2> QED BY <1>2, <1>3, <2>1, <2>2, ReadGood
<1> QED BY <1>1, <1>4, <1>5

\* A call that reads characters ends.
ReadEnds(x) == Ends(x, run.call, IF Len(x.text) = run.rlo THEN "ERR" ELSE "OK")

\* There is enough in the buffer.
ReadTaken(s, t, wanted) ==
  /\ Len(t) >= wanted /\ UNCHANGED <<core, isEOF>> /\ wild' = FALSE
  /\ \/ /\ buff' = Ended(buff, From(t, wanted))
        /\ \E x \in Concat(s, First(t, wanted)) : ReadEnds(x)
     \/ ConcatRefused(s, First(t, wanted)) /\ buff' = buff /\ ReadEnds(s)

\* There is not, and the string cannot grow.
ReadRefused(s, t, wanted) ==
  /\ Len(t) < wanted /\ ConcatRefused(s, t) /\ ReadEnds(s)
  /\ isEOF' = (isEOF \/ t = <<>>) /\ buff' = buff /\ wild' = FALSE /\ UNCHANGED core

\* All of it is taken, and the buffer filled.
ReadFilled(s, t, wanted) ==
  /\ Len(t) < wanted
  /\ \E x \in Concat(s, t), k \in Delivers(Min({wanted - Len(t), maxBuffSz})) :
       /\ core' = From(core, k) /\ buff' = Unended(buff, First(core, k))
       /\ wild' = (k > buff.mlen)
       /\ isEOF' = (isEOF \/ k = 0)
       /\ IF k = 0 THEN ReadEnds(x)
          ELSE GoesOn(x, run.call, "read", run.n, run.rlo)

\* A string with a terminator ends a call that reads characters.
LEMMA ReadEndsGood ==
  ASSUME StreamInv, Steady, NullIsNoRecord, core' \in Seq(Char), Fits(buff'), ~wild',
         NEW s, Held(s), ReadEnds(s), split # NULL => Fits(s) /\ SplitOK,
         "tight" \in failing \/ s.nul
  PROVE  Good
<1> DEFINE end == IF Len(s.text) = run.rlo THEN "ERR" ELSE "OK"
           c == run.call
<1>1. Ends(s, c, end)
  BY DEF ReadEnds
<1> HIDE DEF end, c
<1> QED BY <1>1, EndsGood

\* A turn of reading characters.
LEMMA ReadNextGood ==
  ASSUME StreamInv, Steady, NullIsNoRecord, ReadNext
  PROVE  Good
<1> DEFINE s == Into
           t == buff.text
           wanted == run.n - Len(s.text)
<1>1. /\ run.pc = "read"
      /\ ReadTaken(s, t, wanted) \/ ReadRefused(s, t, wanted) \/ ReadFilled(s, t, wanted)
  BY Zenon DEF ReadNext, Into, ReadTaken, ReadRefused, ReadFilled, ReadEnds
<1>2. /\ Fits(buff) /\ buff.mlen > maxBuffSz /\ maxBuffSz \in Nat \ {0} /\ core \in Seq(Char)
      /\ run.n \in Nat /\ run.n > Len(s.text) /\ (split = NULL \/ SplitOK)
  BY <1>1 DEF StreamInv, RunOK
<1>3. /\ Held(s) /\ (split # NULL => Fits(s) /\ SplitOK)
  <2>1. CASE split = NULL
    BY <2>1 DEF Into, StreamInv
  <2>2. CASE split # NULL
    BY <1>2, <2>2, FitsHeld DEF Into, SplitOK
  <2> QED BY <2>1, <2>2
<1>4. IsStr(s) /\ s.text \in Seq(Char) /\ Len(s.text) \in Nat
  <2>1. IsStr(s) /\ s.text \in Seq(Char)
    BY <1>3 DEF Held, IsStr
  <2> QED BY <2>1, LenProperties
<1>5. t \in Seq(Char) /\ Len(t) \in Nat /\ buff.mlen \in Nat /\ Len(t) < buff.mlen
  BY <1>2, FitsHeld
<1>6. wanted \in Nat \ {0} /\ run.n = wanted + Len(s.text)
  BY <1>2, <1>4
<1> HIDE DEF s, t, wanted
<1>7. CASE ReadTaken(s, t, wanted)
  <2>1. ~wild' /\ core' \in Seq(Char)
    <3>1. ~wild'
      BY <1>7, Zenon DEF ReadTaken
    <3> QED BY <1>2, <1>7, <3>1 DEF ReadTaken
  <2>2. wanted \in 0 .. Len(t)
    BY <1>5, <1>6, <1>7 DEF ReadTaken
  <2>3. /\ From(t, wanted) \in Seq(Char) /\ Len(From(t, wanted)) = Len(t) - wanted
        /\ First(t, wanted) \in Seq(Char)
    BY <1>5, <2>2, FromIs, FirstIs
  <2>4. CASE ConcatRefused(s, First(t, wanted)) /\ buff' = buff /\ ReadEnds(s)
    BY <1>2, <1>3, <2>1, <2>4, ReadEndsGood DEF ConcatRefused, Refused
  <2>5. CASE /\ buff' = Ended(buff, From(t, wanted))
             /\ \E x \in Concat(s, First(t, wanted)) : ReadEnds(x)
    <3>1. PICK x \in Concat(s, First(t, wanted)) : ReadEnds(x)
      BY <2>5
    <3>2. Fits(x) /\ x.nul /\ Held(x)
      BY <1>4, <2>3, <3>1, ConcatIs, FitsHeld
    <3>3. Len(From(t, wanted)) < buff.mlen
      BY <1>5, <2>2, <2>3
    <3>4. Fits(buff')
      BY <1>2, <2>3, <2>5, <3>3, FitsShorter
    <3> QED BY <1>3, <2>1, <3>1, <3>2, <3>4, ReadEndsGood
  <2> QED BY <1>7, <2>4, <2>5 DEF ReadTaken
<1>8. CASE ReadRefused(s, t, wanted)
  <2>1. ~wild'
    BY <1>8, Zenon DEF ReadRefused
  <2>2. core' \in Seq(Char) /\ buff' = buff /\ ReadEnds(s) /\ "tight" \in failing
    BY <1>2, <1>8 DEF ReadRefused, ConcatRefused, Refused
  <2> QED BY <1>2, <1>3, <2>1, <2>2, ReadEndsGood
<1>9. CASE ReadFilled(s, t, wanted)
  <2> DEFINE m == Min({wanted - Len(t), maxBuffSz})
  <2>1. PICK x \in Concat(s, t), k \in Delivers(m) :
          /\ core' = From(core, k) /\ buff' = Unended(buff, First(core, k))
          /\ wild' = (k > buff.mlen)
          /\ IF k = 0 THEN ReadEnds(x)
             ELSE GoesOn(x, run.call, "read", run.n, run.rlo)
    BY <1>9 DEF ReadFilled
  <2>2. Len(t) < wanted
    BY <1>9 DEF ReadFilled
  <2>3. m \in Nat /\ m <= maxBuffSz
    <3>1. wanted - Len(t) \in Int /\ maxBuffSz \in Int
      BY <1>2, <1>5, <1>6
    <3>2. m = IF wanted - Len(t) <= maxBuffSz THEN wanted - Len(t) ELSE maxBuffSz
      BY <3>1, MinOfTwo
    <3> HIDE DEF m
    <3> QED BY <1>2, <1>5, <1>6, <2>2, <3>2
  <2> HIDE DEF m
  <2>4. /\ k \in 0 .. m /\ First(core, k) \in Seq(Char) /\ Len(First(core, k)) = k
        /\ From(core, k) \in Seq(Char)
    BY <1>2, <2>3, DeliversIs
  <2>5. k < buff.mlen
    BY <1>2, <1>5, <2>3, <2>4
  <2>6. ~(k > buff.mlen)
    BY <1>5, <2>3, <2>4, <2>5
  <2>7. ~wild'
    BY <2>1, <2>6, Zenon
  <2>8. Fits(buff') /\ buff'.mlen = buff.mlen /\ core' \in Seq(Char)
    BY <1>2, <2>1, <2>4, <2>5, FitsShorter
  <2>9. /\ Fits(x) /\ x.nul /\ Held(x) /\ Len(x.text) = Len(s.text) + Len(t)
    BY <1>4, <1>5, ConcatIs, FitsHeld
  <2>10. run.n > Len(x.text)
    BY <1>4, <1>5, <1>6, <2>2, <2>9
  <2>11. CASE k = 0
    BY <1>3, <2>1, <2>7, <2>8, <2>9, <2>11, ReadEndsGood
  <2>12. CASE k # 0
    <3>1. GoesOn(x, run.call, "read", run.n, run.rlo)
      BY <2>1, <2>12
    <3>2. buff'.mlen > maxBuffSz
      BY <1>2, <2>8
    <3> QED BY <1>2, <1>3, <2>7, <2>8, <2>9, <2>10, <3>1, <3>2, GoesOnGood
  <2> QED BY <2>11, <2>12
<1> QED BY <1>1, <1>7, <1>8, <1>9

-----------------------------------------------------------------------------
(* The other calls on a stream.                                            *)

\* bseof, and all calls on a stream without a buffer.
LEMMA bseofGood ==
  ASSUME StreamInv, Steady, bseof \/ Bufferless
  PROVE  Good
<1>1. ~wild'
  BY Zenon DEF bseof, Bufferless
<1>2. /\ run = Idle /\ buff' = buff /\ r' = r
      /\ \/ Returns("bufferless", 0, "ERR")
         \/ Returns("bseof", 0, "TRUE")
         \/ Returns("bseof", 0, "FALSE")
  BY DEF bseof, Bufferless
<1>3. (buff' = NULL \/ Fits(buff')) /\ Held(r')
  BY <1>2 DEF StreamInv
<1>4. "bseof" \notin Reading
  BY DEF Reading
<1> QED BY <1>1, <1>2, <1>3, <1>4, ReturnsGood

\* bsunread.
LEMMA bsunreadGood ==
  ASSUME StreamInv, Steady, NEW t \in Unreads, bsunread(t)
  PROVE  Good
<1>1. ~wild'
  BY Zenon DEF bsunread
<1>2. Fits(buff) /\ Held(r) /\ run = Idle /\ r' = r
  BY ReadyIs DEF bsunread
<1>3. buff.text \in Seq(Char) /\ Len(buff.text) \in Nat /\ t \in Seq(Char) /\ IsStr(buff)
  BY <1>2, FitsHeld, StreamAssumption
<1>4. "bsunread" \notin Reading
  BY DEF Reading
<1> DEFINE n == Len(buff.text) + Len(t) + 1
           u == t \o buff.text
<1>5. \/ \E b \in Grown(buff, n) : buff' = Ended(b, u) /\ Returns("bsunread", t, "OK")
      \/ buff' = buff /\ Returns("bsunread", t, "ERR")
  BY DEF bsunread
<1>6. u \in Seq(Char) /\ Len(u) < n /\ n \in Nat
  BY <1>3, JoinedIs
<1> HIDE DEF n, u
<1>7. CASE \E b \in Grown(buff, n) : buff' = Ended(b, u) /\ Returns("bsunread", t, "OK")
  <2>1. PICK b \in Grown(buff, n) : buff' = Ended(b, u) /\ Returns("bsunread", t, "OK")
    BY <1>7
  <2>2. Fits(buff')
    BY <1>3, <1>6, <2>1, GrownFits
  <2> QED BY <1>1, <1>2, <1>4, <2>1, <2>2, ReturnsGood
<1>8. CASE buff' = buff /\ Returns("bsunread", t, "ERR")
  BY <1>1, <1>2, <1>8, ReturnsGood
<1> QED BY <1>5, <1>7, <1>8

\* bspeek, in a block that may be just as large as the text.
LEMMA bspeekGood ==
  ASSUME StreamInv, Steady, ShortTexts, bspeek
  PROVE  Good
<1> DEFINE t == buff.text
<1>1. Ready /\ Fits(buff) /\ Held(r) /\ run = Idle /\ split = NULL /\ core \in Seq(Char)
      /\ buff' = buff /\ open /\ buff # NULL
  <2>1. Ready
    BY DEF bspeek
  <2> QED BY <2>1, ReadyIs DEF bspeek, StreamInv, Ready
<1>2. t \in Seq(Char) /\ Len(t) \in Nat
  BY <1>1, FitsHeld
<1>3. IsStr(r) /\ r.text \in Seq(Char) /\ Len(r.text) \in Nat /\ r.mlen \in Nat
  <2>1. IsStr(r) /\ r.text \in Seq(Char) /\ r.mlen \in Nat
    BY <1>1 DEF Held, IsStr
  <2> QED BY <2>1, LenProperties
<1>4. Len(t) < Highest
  <2>1. Pending = t \o core
    BY <1>1 DEF Pending, Buffered
  <2>2. Len(Pending) = Len(t) + Len(core) /\ Len(core) \in Nat
    BY <1>1, <1>2, <2>1, JoinedIs
  <2>3. Len(r.text) + Len(Pending) <= MaxLen /\ MaxLen < Highest /\ MaxLen \in Nat
    BY <1>1, StreamAssumption DEF Ready, ShortTexts
  <2>4. Highest \in Nat
    BY DEF Highest
  <2> DEFINE a == Len(t)
             b == Len(core)
             d == Len(r.text)
             e == Len(Pending)
  <2>5. a \in Nat /\ b \in Nat /\ d \in Nat /\ e = a + b /\ d + e <= MaxLen
    BY <1>2, <1>3, <2>2, <2>3
  <2> HIDE DEF a, b, d, e
  <2>6. a < Highest
    BY <2>3, <2>4, <2>5
  <2> QED BY <2>6 DEF a
<1>5. \/ \E g \in IF t = <<>> THEN {r} ELSE Grown(r, Len(t)) :
           r' = Ended(g, t) /\ wild' = (Len(t) >= g.mlen) /\ Returns("bspeek", 0, "OK")
      \/ r' = r /\ wild' = FALSE /\ Returns("bspeek", 0, "ERR")
  BY Zenon DEF bspeek
<1> HIDE DEF t
<1>6. CASE r' = r /\ wild' = FALSE /\ Returns("bspeek", 0, "ERR")
  <2>1. ~wild'
    BY <1>6, Zenon
  <2> QED BY <1>1, <1>6, <2>1, ReturnsGood
<1>7. ASSUME NEW g, g \in IF t = <<>> THEN {r} ELSE Grown(r, Len(t)),
             r' = Ended(g, t), wild' = (Len(t) >= g.mlen), Returns("bspeek", 0, "OK")
      PROVE  Good
  <2>1. IsStr(g) /\ (Len(t) >= g.mlen => "snap" \in failing)
    <3>1. CASE t = <<>>
      <4>1. g = r /\ Len(t) = 0
        BY <1>7, <3>1
      <4>2. Len(t) >= g.mlen => Len(r.text) >= r.mlen
        BY <1>3, <4>1
      <4> QED BY <1>1, <1>3, <4>1, <4>2 DEF Held
    <3>2. CASE t # <<>>
      <4>1. IsStr(g) /\ ("snap" \notin failing => g.mlen > Len(t))
        BY <1>2, <1>3, <1>4, <1>7, <3>2, GrownIs
      <4>2. g.mlen \in Nat
        BY <4>1 DEF IsStr
      <4> QED BY <1>2, <4>1, <4>2
    <3> QED BY <3>1, <3>2
  <2>2. IsStr(r') /\ r'.text = t /\ r'.mlen = g.mlen /\ r'.nul
    BY <1>2, <1>7, <2>1, EndedIs
  <2>3. Held(r') /\ Held(r)'
    BY <2>1, <2>2 DEF Held, IsStr, Steady
  <2>4. RunOK' /\ core' = core /\ ret'.call = "bspeek"
    BY <1>1, <1>7, ReturnsIs DEF Steady
  <2>5. StreamInv'
    BY <1>1, <2>3, <2>4, StreamInvIs
  <2>6. wild' => Len(t) >= g.mlen
    BY <1>7, Zenon
  <2>7. wild' => "snap" \in failing
    BY <2>1, <2>6, Zenon
  <2>8. Safe
    BY <2>2, <2>4, <2>7, Zenon DEF Safe
  <2> QED BY <2>5, <2>8 DEF Good
<1> QED BY <1>5, <1>6, <1>7

\* A stream that is opened, closed, or given another size of buffer.
LEMMA OpenGood ==
  ASSUME StreamInv, failing' = failing,
         bsopen \/ bsclose \/ \E sz \in BuffSizes : bsbufflength(sz)
  PROVE  Good
<1>1. ~wild'
  <2>1. wild' = FALSE
    BY DEF bsopen, bsclose, bsbufflength
  <2> QED BY <2>1, Zenon
<1>2. /\ run = Idle /\ r' = r /\ core' = core /\ split' = split /\ run' = run
      /\ maxBuffSz' \in {BS_BUFF_SZ} \cup BuffSizes
      /\ buff' \in {buff, NULL, Fresh}
      /\ ret'.call \in {"bsopen", "bsclose", "bsbufflength"}
  BY DEF bsopen, bsclose, bsbufflength, Returns
<1>3. split = NULL /\ Held(r) /\ (buff = NULL \/ Fits(buff))
  BY <1>2, IdleIs
<1>4. buff' = NULL \/ Fits(buff')
  BY <1>2, <1>3, FreshIs
<1>5. (buff = NULL \/ Fits(buff))' /\ Held(r)'
  BY <1>2, <1>3, <1>4 DEF Fits, Held, IsStr
<1>6. RunOK'
  BY <1>2, <1>3 DEF RunOK, Idle
<1>7. failing' \in Heaps /\ core' \in Seq(Char) /\ maxBuffSz' \in Nat \ {0}
  BY <1>2, StreamAssumption DEF StreamInv
<1>8. StreamInv'
  BY <1>5, <1>6, <1>7 DEF StreamInv
<1>9. ret'.call \notin Reading
  BY <1>2 DEF Reading
<1>10. Safe
  BY <1>1, <1>9, Zenon DEF Safe
<1> QED BY <1>8, <1>10 DEF Good

-----------------------------------------------------------------------------
(* Splitting.                                                              *)

\* What separators are.
SepsOK(name, seps) ==
  name \in {"bssplitscb", "bssplitstrcb"} /\ (name = "bssplitstrcb" => seps \in Seq(Char))

\* A splitting that begins.
LEMMA SplitsGood ==
  ASSUME StreamInv, Steady, NullIsNoRecord, NEW name, NEW seps, SepsOK(name, seps),
         Splits(name, seps)
  PROVE  Good
<1>1. ~wild'
  BY Zenon DEF Splits
<1>2. Ready /\ core' = core /\ buff' = buff /\ r' = r
  BY DEF Splits
<1>3. /\ run = Idle /\ split = NULL /\ Held(r) /\ Fits(buff) /\ core \in Seq(Char)
  BY <1>2, ReadyIs DEF StreamInv
<1>4. Held(r)' /\ Fits(buff) /\ Fits(buff)'
  BY <1>2, <1>3 DEF Held, Fits, IsStr, Steady
<1>5. CASE ret' = [call |-> name, by |-> seps, end |-> "ERR"] /\ UNCHANGED <<run, split>>
  <2>1. RunOK'
    BY <1>3, <1>5 DEF RunOK, Idle
  <2>2. Told
    BY <1>5 DEF Told
  <2> QED BY <1>1, <1>2, <1>3, <1>4, <2>1, <2>2, GoodIs
<1>6. ASSUME NEW w, NEW f,
             split' = [name |-> name, seps |-> seps, acc |-> Fresh, ofs |-> 0, ok |-> TRUE,
                       start |-> w],
             run' = [pc |-> "scan", from |-> f]
      PROVE  Good
  <2>1. /\ {"acc", "name", "seps"} \subseteq DOMAIN split' /\ split'.acc = Fresh
        /\ split'.name = name /\ split'.seps = seps
    BY <1>6
  <2>2. Fits(split'.acc)
    BY <2>1, FreshIs
  <2>3. SplitOK'
    BY <2>1, <2>2 DEF SplitOK, SepsOK, Fits, IsStr
  <2>4. run'.pc = "scan" /\ "pc" \in DOMAIN run' /\ run' # Idle
    BY <1>6 DEF Idle
  <2>5. RunOK'
    BY <1>4, <2>3, <2>4 DEF RunOK
  <2>6. Told
    BY <2>4 DEF Told
  <2> QED BY <1>1, <1>2, <1>3, <1>4, <2>5, <2>6, GoodIs
<1>7. \/ ret' = [call |-> name, by |-> seps, end |-> "ERR"] /\ UNCHANGED <<run, split>>
      \/ /\ split' = [name |-> name, seps |-> seps, acc |-> Fresh, ofs |-> 0, ok |-> TRUE,
                      start |-> Len(Pending)]
         /\ run' = [pc |-> "scan", from |-> <<Pending, r.text>>]
  BY Zenon DEF Splits
<1> QED BY <1>5, <1>6, <1>7

\* bssplitscb and bssplitstrcb.
LEMMA bssplitsGood ==
  ASSUME StreamInv, Steady, NullIsNoRecord,
         \/ \E seps : bssplitscb(seps)
         \/ \E sep \in Separators : bssplitstrcb(sep)
  PROVE  Good
<1>1. ASSUME NEW seps, bssplitscb(seps) PROVE Good
  <2>1. SepsOK("bssplitscb", seps)
    BY DEF SepsOK
  <2> QED BY <1>1, <2>1, SplitsGood DEF bssplitscb
<1>2. ASSUME NEW sep \in Separators, bssplitstrcb(sep) PROVE Good
  <2>1. sep \in Seq(Char)
    BY StreamAssumption
  <2>2. SepsOK("bssplitscb", ToSet(sep)) /\ SepsOK("bssplitstrcb", sep)
    BY <2>1 DEF SepsOK
  <2>3. Splits("bssplitscb", ToSet(sep)) \/ Splits("bssplitstrcb", sep)
    BY <1>2, Zenon DEF bssplitstrcb
  <2> QED BY <2>2, <2>3, SplitsGood
<1> QED BY <1>1, <1>2

\* Where a separator ends.
LEMMA SepEndIs ==
  ASSUME SplitOK, SepAt > 0
  PROVE  /\ SepAt \in Nat /\ SepEnd \in Nat
         /\ split.name = "bssplitscb" => SepEnd \in 0 .. Len(split.acc.text)
<1> DEFINE t == split.acc.text
           seps == split.seps
<1>1. t \in Seq(Char) /\ Len(t) \in Nat
  BY FitsHeld DEF SplitOK
<1>2. CASE split.name = "bssplitscb"
  <2>1. SepAt = FirstOf(t, seps) /\ SepEnd = SepAt
    BY <1>2 DEF SepAt, SepEnd
  <2>2. SepAt \in 0 .. Len(t)
    BY <1>1, <2>1, FirstOfIs
  <2> QED BY <1>1, <2>1, <2>2
<1>3. CASE split.name # "bssplitscb"
  <2>1. seps \in Seq(Char)
    BY <1>3 DEF SplitOK
  <2>2. Len(seps) \in Nat
    BY <2>1, LenProperties
  <2> DEFINE J == {i \in 1 .. Len(t) - Len(seps) + 1 :
                     seps # <<>> /\ SubSeq(t, i, i + Len(seps) - 1) = seps}
             I == J \cup {Len(t) + 1}
             m == Min(I)
  <2>3. SepAt = m % (Len(t) + 1) /\ SepEnd = SepAt + Len(seps) - 1
    BY <1>3 DEF SepAt, SepEnd
  <2>4. J \subseteq 1 .. Len(t) - Len(seps) + 1
    BY Zenon
  <2> DEFINE a == Len(t)
             b == Len(seps)
  <2>10. a \in Nat /\ b \in Nat
    BY <1>1, <2>2
  <2> HIDE DEF J
  <2>9. I \in SUBSET Nat /\ I # {}
    <3>1. I = J \cup {a + 1} /\ J \subseteq 1 .. a - b + 1
      BY <2>4
    <3> HIDE DEF I, a, b
    <3> QED BY <2>10, <3>1
  <2> HIDE DEF I
  <2>5. m \in Nat
    BY <2>9, MinIsLeast
  <2> HIDE DEF m, t, seps
  <2>6. m % (Len(t) + 1) \in Nat
    BY <1>1, <2>5
  <2>7. SepAt \in Nat
    BY <2>3, <2>6
  <2>8. SepEnd \in Nat
    BY <2>2, <2>3, <2>7
  <2> QED BY <1>3, <2>7, <2>8
<1> QED BY <1>2, <1>3

\* What is left of a text, if anything.
LEMMA RestIs ==
  ASSUME NEW s \in Seq(Char), NEW n \in Nat
  PROVE  From(s, n) \in Seq(Char) /\ Len(From(s, n)) \in Nat /\ Len(From(s, n)) <= Len(s)
<1>1. Len(s) \in Nat
  OBVIOUS
<1>2. CASE n <= Len(s)
  <2>1. n \in 0 .. Len(s)
    BY <1>1, <1>2
  <2>2. From(s, n) \in Seq(Char) /\ Len(From(s, n)) = Len(s) - n
    BY <2>1, FromIs
  <2> QED BY <1>1, <1>2, <2>2
<1>3. CASE n > Len(s)
  <2>1. From(s, n) \in Seq(Char) /\ Len(From(s, n)) = 0
    <3>1. \A i \in n + 1 .. Len(s) : s[i] \in Char
      BY <1>1, <1>3
    <3>2. /\ SubSeq(s, n + 1, Len(s)) \in Seq(Char)
          /\ Len(SubSeq(s, n + 1, Len(s))) = IF n + 1 <= Len(s) THEN Len(s) - (n + 1) + 1 ELSE 0
      BY <1>1, <3>1, SubSeqProperties
    <3> QED BY <1>1, <1>3, <3>2 DEF From
  <2> QED BY <1>1, <2>1
<1> QED BY <1>1, <1>2, <1>3

\* A splitting that has called its callback goes on or ends, and leaves r alone.
LEMMA CallsGood ==
  ASSUME StreamInv, Steady, SplitOK, NEW t, NEW s, Fits(s), NEW n, Calls(t, s, n),
         Fits(buff'), core' \in Seq(Char), ~wild'
  PROVE  Good
<1>1. RunOK' /\ Held(r)' /\ (run' = Idle => ret'.call \notin Reading)
  BY CallsIs
<1>2. Told
  BY <1>1 DEF Told
<1> QED BY <1>1, <1>2, GoodIs

\* A splitting that ends.
LEMMA SplitEndsGood ==
  ASSUME StreamInv, Steady, SplitOK, SplitEnds, r' = r, ret'.call = split.name,
         Fits(buff'), core' \in Seq(Char), ~wild'
  PROVE  Good
<1>1. RunOK' /\ Held(r)' /\ ret'.call \notin Reading
  BY SplitEndsIs
<1>2. Told
  BY <1>1 DEF Told
<1> QED BY <1>1, <1>2, GoodIs

\* bssplitscb takes a piece, puts back the rest, and calls.
SplitPiece(t, piece, rest, need) ==
  \/ \E b \in Grown(buff, need) :
       /\ buff' = Ended(b, rest \o buff.text)
       /\ Calls(piece, Unended(split.acc, <<>>), SepEnd)
  \/ /\ Refused(buff, need) /\ SplitEnds
     /\ ret' = [call |-> split.name, by |-> split.seps, end |-> "ERR"]
     /\ UNCHANGED <<buff, r>>

\* A turn of a splitting.
LEMMA SplitNextGood ==
  ASSUME StreamInv, Steady, NullIsNoRecord, SplitNext
  PROVE  Good
<1> DEFINE t == split.acc.text
           piece == First(t, SepAt - 1)
           rest == From(t, SepEnd)
           need == Len(buff.text) + Len(rest) + 1
           c == [name |-> "bsreada", by |-> BSSSC_BUFF_LEN]
<1>1. /\ run.pc = "scan"
      /\ \/ SepAt = 0 /\ Read(buff, split.acc, c)
         \/ /\ SepAt > 0 /\ SplitPiece(t, piece, rest, need)
            /\ wild' = FALSE /\ UNCHANGED <<core, isEOF>>
         \/ /\ SepAt > 0 /\ Calls(piece, Ended(split.acc, rest), SepEnd)
            /\ wild' = FALSE /\ UNCHANGED <<core, isEOF, buff>>
  BY Zenon DEF SplitNext, SplitPiece
<1>2. Fits(buff) /\ SplitOK /\ Fits(split.acc) /\ core \in Seq(Char)
  BY <1>1 DEF StreamInv, RunOK, SplitOK
<1>3. /\ buff.text \in Seq(Char) /\ Len(buff.text) \in Nat /\ IsStr(buff)
      /\ t \in Seq(Char) /\ Len(t) \in Nat /\ Held(split.acc)
      /\ split.acc.mlen \in Nat /\ Len(t) < split.acc.mlen
  BY <1>2, FitsHeld
<1>4. c.by \in Nat \ {0}
  BY StreamAssumption
<1> HIDE DEF c
<1>5. CASE SepAt = 0 /\ Read(buff, split.acc, c)
  BY <1>2, <1>3, <1>4, <1>5, ReadGood
<1>6. ASSUME SepAt > 0
      PROVE  rest \in Seq(Char) /\ Len(rest) \in Nat /\ Len(rest) <= Len(t)
  <2>1. SepEnd \in Nat
    BY <1>2, <1>6, SepEndIs
  <2> QED BY <1>3, <2>1, RestIs
<1> HIDE DEF rest, piece
<1>7. CASE /\ SepAt > 0 /\ SplitPiece(t, piece, rest, need)
           /\ wild' = FALSE /\ UNCHANGED <<core, isEOF>>
  <2>1. ~wild'
    BY <1>7, Zenon
  <2>2. core' \in Seq(Char)
    BY <1>2, <1>7
  <2>3. CASE /\ SplitEnds /\ UNCHANGED <<buff, r>>
             /\ ret' = [call |-> split.name, by |-> split.seps, end |-> "ERR"]
    BY <1>2, <2>1, <2>2, <2>3, SplitEndsGood
  <2>4. CASE \E b \in Grown(buff, need) :
               /\ buff' = Ended(b, rest \o buff.text)
               /\ Calls(piece, Unended(split.acc, <<>>), SepEnd)
    <3>1. PICK b \in Grown(buff, need) :
            /\ buff' = Ended(b, rest \o buff.text)
            /\ Calls(piece, Unended(split.acc, <<>>), SepEnd)
      BY <2>4
    <3> DEFINE u == rest \o buff.text
    <3>2. u \in Seq(Char) /\ Len(u) < need /\ need \in Nat
      BY <1>3, <1>6, <1>7, JoinedIs
    <3>3. buff' = Ended(b, u)
      BY <3>1
    <3> HIDE DEF u, need
    <3>4. Fits(buff')
      BY <1>3, <3>1, <3>2, <3>3, GrownFits
    <3>5. Fits(Unended(split.acc, <<>>))
      <4>1. <<>> \in Seq(Char) /\ Len(<<>>) = 0
        OBVIOUS
      <4>2. 0 < split.acc.mlen
        BY <1>3
      <4> QED BY <1>2, <4>1, <4>2, FitsShorter
    <3> QED BY <1>2, <2>1, <2>2, <3>1, <3>4, <3>5, CallsGood
  <2> QED BY <1>7, <2>3, <2>4 DEF SplitPiece
<1>8. CASE /\ SepAt > 0 /\ Calls(piece, Ended(split.acc, rest), SepEnd)
           /\ wild' = FALSE /\ UNCHANGED <<core, isEOF, buff>>
  <2>1. ~wild'
    BY <1>8, Zenon
  <2>2. core' \in Seq(Char) /\ Fits(buff')
    BY <1>2, <1>8
  <2>3. Len(rest) < split.acc.mlen
    BY <1>3, <1>6, <1>8
  <2>4. Fits(Ended(split.acc, rest))
    BY <1>2, <1>6, <1>8, <2>3, FitsShorter
  <2> QED BY <1>2, <1>8, <2>1, <2>2, <2>4, CallsGood
<1> QED BY <1>1, <1>5, <1>7, <1>8

\* A splitting after a read.
LEMMA SplitJudgeGood ==
  ASSUME StreamInv, Steady, SplitJudge
  PROVE  Good
<1> DEFINE s == split.acc
<1>1. ~wild'
  BY Zenon DEF SplitJudge
<1>2. run.pc = "judge" /\ core' = core /\ buff' = buff
  BY DEF SplitJudge
<1>3. Fits(buff) /\ SplitOK /\ Fits(s) /\ core \in Seq(Char) /\ "pc" \in DOMAIN run
  BY <1>2 DEF StreamInv, RunOK, SplitOK
<1>4. core' \in Seq(Char) /\ Fits(buff')
  BY <1>2, <1>3
<1>5. CASE split' = split /\ run' = [run EXCEPT !.pc = "scan"] /\ UNCHANGED <<r, ret>>
  <2>1. run'.pc = "scan" /\ "pc" \in DOMAIN run' /\ run' # Idle
    BY <1>3, <1>5 DEF Idle
  <2>2. SplitOK' /\ Held(r)' /\ Fits(buff)'
    BY <1>2, <1>3, <1>5 DEF SplitOK, StreamInv, Held, Fits, IsStr, Steady
  <2>3. RunOK'
    BY <2>1, <2>2 DEF RunOK
  <2>4. Told
    BY <2>1 DEF Told
  <2> QED BY <1>1, <1>4, <2>2, <2>3, <2>4, GoodIs
<1>6. CASE CallsLast(s.text)
  <2>1. SplitEnds /\ r' = r /\ ret'.call = split.name
    BY <1>6 DEF CallsLast
  <2> QED BY <1>1, <1>3, <1>4, <2>1, SplitEndsGood
<1>7. CASE /\ SplitEnds /\ UNCHANGED r
           /\ ret' = [call |-> split.name, by |-> split.seps, end |-> "OK"]
  BY <1>1, <1>3, <1>4, <1>7, SplitEndsGood
<1>8. CASE Calls(s.text, Unended(s, <<>>), 0)
  <2>1. <<>> \in Seq(Char) /\ Len(<<>>) = 0 /\ s.mlen \in Nat /\ Len(s.text) < s.mlen
        /\ Len(s.text) \in Nat
    BY <1>3, FitsHeld
  <2>2. Len(<<>>) < s.mlen
    BY <2>1
  <2>3. Fits(Unended(s, <<>>))
    BY <1>3, <2>1, <2>2, FitsShorter
  <2> QED BY <1>1, <1>3, <1>4, <1>8, <2>3, CallsGood
<1>9. \/ split' = split /\ run' = [run EXCEPT !.pc = "scan"] /\ UNCHANGED <<r, ret>>
      \/ CallsLast(s.text)
      \/ /\ SplitEnds /\ UNCHANGED r
         /\ ret' = [call |-> split.name, by |-> split.seps, end |-> "OK"]
      \/ Calls(s.text, Unended(s, <<>>), 0)
  BY DEF SplitJudge
<1> QED BY <1>5, <1>6, <1>7, <1>8, <1>9

-----------------------------------------------------------------------------
(* A core stream without a buffer.                                         *)

\* A call that begins.
LEMMA BeginsGood ==
  ASSUME StreamInv, Steady, NullIsNoRecord, NEW s, Held(s), NEW c, NEW pc \in {"all", "gets"},
         NEW n, pc = "all" => n \in Nat /\ n > Len(s.text), Begins(s, c, pc, n)
  PROVE  Good
<1>1. ~wild'
  BY Zenon DEF Begins
<1>2. run = Idle /\ core' = core /\ buff' = buff
  BY DEF Begins
<1>3. split = NULL /\ Held(r) /\ (buff' = NULL \/ Fits(buff')) /\ core' \in Seq(Char)
  BY <1>2, IdleIs DEF StreamInv
<1>4. CASE Ends(r, c, "ERR")
  BY <1>1, <1>3, <1>4, EndsGood
<1>5. CASE GoesOn(s, c, pc, n, Len(s.text))
  BY <1>1, <1>3, <1>5, GoesOnGood
<1> QED BY <1>4, <1>5 DEF Begins

\* What there is to hold before a call.
LEMMA HeldIs ==
  ASSUME NEW s, Held(s)
  PROVE  IsStr(s) /\ s.text \in Seq(Char) /\ Len(s.text) \in Nat /\ s.mlen \in Nat
<1>1. IsStr(s) /\ s.text \in Seq(Char) /\ s.mlen \in Nat
  BY DEF Held, IsStr
<1> QED BY <1>1, LenProperties

\* breada and bread.
LEMMA breadGood ==
  ASSUME StreamInv, Steady, NullIsNoRecord, breada \/ bread
  PROVE  Good
<1>1. Held(r) /\ Held(Fresh) /\ Fresh.text = <<>> /\ Len(r.text) \in Nat
  BY HeldIs, FreshIs, FitsHeld DEF StreamInv
<1>2. FirstRead \in Nat \ {0} /\ Len(<<>>) = 0
  BY StreamAssumption
<1>3. CASE breada
  <2> DEFINE c == [name |-> "breada", by |-> 0]
             n == Len(r.text) + FirstRead
  <2>1. Begins(r, c, "all", n)
    BY <1>3 DEF breada
  <2>2. n \in Nat /\ n > Len(r.text)
    BY <1>1, <1>2
  <2> HIDE DEF c, n
  <2> QED BY <1>1, <2>1, <2>2, BeginsGood
<1>4. CASE bread
  <2> DEFINE c == [name |-> "bread", by |-> 0]
  <2>1. Begins(Fresh, c, "all", FirstRead)
    BY <1>4 DEF bread
  <2>2. Len(Fresh.text) = 0
    BY <1>1, <1>2
  <2>3. FirstRead \in Nat /\ FirstRead > Len(Fresh.text)
    BY <1>2, <2>2
  <2> HIDE DEF c
  <2> QED BY <1>1, <2>1, <2>3, BeginsGood
<1> QED BY <1>3, <1>4

\* bgetsa, bassigngets and bgets.
LEMMA bgetsGood ==
  ASSUME StreamInv, Steady, NullIsNoRecord, NEW terms,
         bgetsa(terms) \/ bassigngets(terms) \/ bgets(terms)
  PROVE  Good
<1>1. Held(r) /\ Held(Fresh) /\ Held(Unended(r, <<>>))
  BY FreshIs, FitsHeld, ClearedIs DEF StreamInv, Cleared
<1>2. ASSUME NEW s, Held(s), NEW c, Begins(s, c, "gets", 0) PROVE Good
  BY <1>2, BeginsGood
<1>3. \E s \in {r, Fresh, Unended(r, <<>>)}, name \in {"bgetsa", "bassigngets", "bgets"} :
        Begins(s, [name |-> name, by |-> terms], "gets", 0)
  BY DEF bgetsa, bassigngets, bgets
<1> QED BY <1>1, <1>2, <1>3

\* What a turn of reading all at once does with the grown r.
AllTurn(g, k, t) ==
  /\ core' = From(core, k) /\ wild' = (Len(t) >= g.mlen)
  /\ IF Len(t) < run.n THEN Ends(Ended(g, t), run.call, "OK")
     ELSE GoesOn(Unended(g, t), run.call, "all", run.n + Min({run.n, BS_BUFF_SZ}), run.rlo)

\* A turn of reading all at once.
LEMMA AllNextGood ==
  ASSUME StreamInv, Steady, NullIsNoRecord, AllNext
  PROVE  Good
<1> DEFINE c == run.call
           d == Len(r.text)
<1>1. /\ run.pc = "all" /\ UNCHANGED <<buff, isEOF>>
      /\ \/ Refused(r, run.n + 1) /\ Ends(r, c, "ERR") /\ wild' = FALSE /\ UNCHANGED core
         \/ \E g \in Grown(r, run.n + 1), k \in Delivers(run.n - d) :
              AllTurn(g, k, r.text \o First(core, k))
  BY Zenon DEF AllNext, AllTurn
<1>2. /\ Held(r) /\ core \in Seq(Char) /\ split = NULL /\ run.n \in Nat /\ run.n > d
      /\ buff' = NULL \/ Fits(buff')
  BY <1>1 DEF StreamInv, RunOK
<1>3. IsStr(r) /\ r.text \in Seq(Char) /\ d \in Nat /\ r.mlen \in Nat
  BY <1>2, HeldIs
<1>4. CASE Refused(r, run.n + 1) /\ Ends(r, c, "ERR") /\ wild' = FALSE /\ UNCHANGED core
  <2>1. ~wild'
    BY <1>4, Zenon
  <2>2. core' \in Seq(Char)
    BY <1>2, <1>4
  <2> QED BY <1>2, <1>4, <2>1, <2>2, EndsGood
<1>5. ASSUME NEW g \in Grown(r, run.n + 1), NEW k \in Delivers(run.n - d),
             AllTurn(g, k, r.text \o First(core, k))
      PROVE  Good
  <2> DEFINE t == r.text \o First(core, k)
  <2>1. run.n - d \in Nat /\ run.n + 1 \in Nat
    BY <1>2, <1>3
  <2>2. /\ k \in 0 .. (run.n - d) /\ First(core, k) \in Seq(Char) /\ Len(First(core, k)) = k
        /\ From(core, k) \in Seq(Char)
    BY <1>2, <2>1, DeliversIs
  <2>3. t \in Seq(Char) /\ Len(t) = d + k
    BY <1>3, <2>2, JoinedIs
  <2>4. Len(t) < run.n + 1 /\ Len(t) \in Nat /\ Len(t) <= run.n
    BY <1>2, <1>3, <2>2, <2>3
  <2>5. AllTurn(g, k, t)
    BY <1>5
  <2> HIDE DEF t, d, c
  <2>6. /\ Fits(Ended(g, t)) /\ Ended(g, t).nul /\ Fits(Unended(g, t))
        /\ ~(Len(t) >= g.mlen)
    BY <1>3, <2>1, <2>3, <2>4, GrownFits
  <2>7. ~wild'
    <3>1. wild' = (Len(t) >= g.mlen)
      BY <2>5 DEF AllTurn
    <3> QED BY <2>6, <3>1, Zenon
  <2>8. core' \in Seq(Char)
    BY <2>2, <2>5 DEF AllTurn
  <2>9. CASE Ends(Ended(g, t), run.call, "OK")
    BY <1>2, <2>6, <2>7, <2>8, <2>9, FitsHeld, EndsGood
  <2>10. CASE Len(t) >= run.n
    <3> DEFINE l == Min({run.n, BS_BUFF_SZ})
    <3>1. BS_BUFF_SZ \in Nat \ {0}
      BY StreamAssumption
    <3>2. l = IF run.n <= BS_BUFF_SZ THEN run.n ELSE BS_BUFF_SZ
      BY <1>2, <3>1, MinOfTwo
    <3>3. ~(Len(t) < run.n)
      BY <1>2, <2>4, <2>10
    <3>4. GoesOn(Unended(g, t), run.call, "all", run.n + l, run.rlo)
      BY <2>5, <3>3, Zenon DEF AllTurn
    <3> HIDE DEF l
    <3>5. l \in Nat /\ l > 0
      BY <1>2, <1>3, <3>1, <3>2
    <3>6. run.n + l \in Nat /\ run.n + l > Len(Unended(g, t).text)
      <4>1. IsStr(g)
        BY <1>3, <2>1, GrownIs
      <4>2. Unended(g, t).text = t
        BY <2>3, <4>1, EndedIs
      <4> QED BY <1>2, <2>4, <3>5, <4>2
    <3> DEFINE m == run.n + l
    <3>7. GoesOn(Unended(g, t), run.call, "all", m, run.rlo) /\ m \in Nat
          /\ m > Len(Unended(g, t).text)
      BY <3>4, <3>6
    <3> HIDE DEF m
    <3> QED BY <1>2, <2>6, <2>7, <2>8, <3>7, FitsHeld, GoesOnGood
  <2> QED BY <1>2, <2>4, <2>5, <2>9, <2>10 DEF AllTurn
<1> QED BY <1>1, <1>4, <1>5

\* What a turn of reading characters one by one does with the grown r.
GetsTurn(g, t) ==
  /\ wild' = (Len(t) >= g.mlen)
  /\ IF Head(core) \in run.call.by THEN Ends(Ended(g, t), run.call, "OK")
     ELSE GoesOn(Unended(g, t), run.call, "gets", 0, run.rlo)

\* A turn of reading characters one by one.
LEMMA GetsNextGood ==
  ASSUME StreamInv, Steady, NullIsNoRecord, GetsNext
  PROVE  Good
<1> DEFINE c == run.call
           d == Len(r.text)
           end == IF r.text = <<>> THEN "EMPTY" ELSE "OK"
<1>1. /\ run.pc = "gets" /\ UNCHANGED <<buff, isEOF>>
      /\ \/ /\ core' = core /\ wild' = (d >= r.mlen) /\ Ends(Ended(r, r.text), c, end)
         \/ /\ core # <<>> /\ core' = Tail(core)
            /\ \/ Ends(r, c, "ERR") /\ wild' = FALSE
               \/ \E g \in IF d > r.mlen - 2 THEN Grown(r, d + 2) ELSE {r} :
                    GetsTurn(g, Append(r.text, Head(core)))
  BY Zenon DEF GetsNext, GetsTurn
<1>2. /\ Held(r) /\ core \in Seq(Char) /\ split = NULL
      /\ buff' = NULL \/ Fits(buff')
  BY <1>1 DEF StreamInv, RunOK
<1>3. IsStr(r) /\ r.text \in Seq(Char) /\ d \in Nat /\ r.mlen \in Nat
  BY <1>2, HeldIs
<1>4. CASE /\ core' = core /\ wild' = (d >= r.mlen) /\ Ends(Ended(r, r.text), c, end)
  <2> DEFINE s == Ended(r, r.text)
  <2>1. IsStr(s) /\ s.text = r.text /\ s.mlen = r.mlen /\ s.nul
    BY <1>3, EndedIs
  <2>2. Held(s)
    BY <1>2, <2>1 DEF Held
  <2>3. Ends(s, c, end) /\ core' \in Seq(Char)
    BY <1>2, <1>4
  <2> HIDE DEF s, c, end
  <2>4. RunOK' /\ Held(r)' /\ (run' = Idle => (s.nul => r'.nul))
    BY <1>2, <2>2, <2>3, EndsIs
  <2>5. StreamInv'
    BY <1>2, <2>3, <2>4, StreamInvIs
  <2>6. wild' => d >= r.mlen
    BY <1>4, Zenon
  <2>7. (d >= r.mlen) => "snap" \in failing /\ Overfull
    BY <1>2 DEF Held, Overfull
  <2>8. Safe
    BY <2>1, <2>4, <2>6, <2>7, Zenon DEF Safe
  <2> QED BY <2>5, <2>8 DEF Good
<1>5. CASE core # <<>> /\ core' = Tail(core) /\ Ends(r, c, "ERR") /\ wild' = FALSE
  <2>1. ~wild'
    BY <1>5, Zenon
  <2>2. core' \in Seq(Char)
    BY <1>2, <1>5, HeadTailProperties
  <2> HIDE DEF c
  <2> QED BY <1>2, <1>5, <2>1, <2>2, EndsGood
<1>6. ASSUME core # <<>>, core' = Tail(core),
             NEW g \in IF d > r.mlen - 2 THEN Grown(r, d + 2) ELSE {r},
             GetsTurn(g, Append(r.text, Head(core)))
      PROVE  Good
  <2> DEFINE t == Append(r.text, Head(core))
  <2>1. Head(core) \in Char /\ core' \in Seq(Char)
    BY <1>2, <1>6, HeadTailProperties
  <2>2. t \in Seq(Char) /\ Len(t) = d + 1
    BY <1>3, <2>1, AppendProperties
  <2>3. GetsTurn(g, t)
    BY <1>6
  <2> HIDE DEF t, c, end
  <2>4. /\ Fits(Ended(g, t)) /\ Ended(g, t).nul /\ Fits(Unended(g, t))
        /\ ~(Len(t) >= g.mlen)
    <3>1. CASE d > r.mlen - 2
      <4>1. g \in Grown(r, d + 2) /\ d + 2 \in Nat /\ Len(t) < d + 2
        BY <1>3, <1>6, <2>2, <3>1
      <4> QED BY <1>3, <2>2, <4>1, GrownFits
    <3>2. CASE ~(d > r.mlen - 2)
      <4>1. g = r
        BY <1>6, <3>2
      <4>2. Len(t) < r.mlen /\ d < r.mlen /\ ~(Len(t) >= r.mlen)
        BY <1>3, <2>2, <3>2
      <4>3. Fits(r)
        BY <1>3, <4>2 DEF Fits
      <4> QED BY <2>2, <4>1, <4>2, <4>3, FitsShorter
    <3> QED BY <3>1, <3>2
  <2>5. ~wild'
    <3>1. wild' = (Len(t) >= g.mlen)
      BY <2>3 DEF GetsTurn
    <3> QED BY <2>4, <3>1, Zenon
  <2>6. CASE Ends(Ended(g, t), run.call, "OK")
    BY <1>2, <2>1, <2>4, <2>5, <2>6, FitsHeld, EndsGood
  <2>7. CASE GoesOn(Unended(g, t), run.call, "gets", 0, run.rlo)
    BY <1>2, <2>1, <2>4, <2>5, <2>7, FitsHeld, GoesOnGood
  <2> QED BY <2>3, <2>6, <2>7 DEF GetsTurn
<1> QED BY <1>1, <1>4, <1>5, <1>6

-----------------------------------------------------------------------------
(* The theorem.                                                            *)

\* The invariant holds at first.
LEMMA StreamInit ==
  ASSUME Init
  PROVE  StreamInv
<1>1. failing \in Heaps /\ core \in Seq(Char) /\ maxBuffSz \in Nat \ {0} /\ buff = NULL
  BY StreamAssumption DEF Init
<1>2. Held(r)
  BY FreshIs, FitsHeld DEF Init
<1>3. RunOK
  BY DEF Init, RunOK, Idle
<1> QED BY <1>1, <1>2, <1>3 DEF StreamInv

\* Every step keeps it, and does nothing it may not do.
LEMMA StreamStep ==
  ASSUME StreamInv, ShortTexts, NullIsNoRecord, Next
  PROVE  Good
<1>1. ASSUME Steady, Turn PROVE Good
  BY <1>1, LineNextGood, ReadNextGood, SplitNextGood, SplitJudgeGood, AllNextGood,
     GetsNextGood DEF Turn
<1>2. ASSUME Steady, Call PROVE Good
  <2>1. ASSUME NEW terms, bsreadlna(terms) PROVE Good
    BY <1>2, <2>1, bsreadlnaGood
  <2>2. ASSUME NEW terms, bsreadln(terms) PROVE Good
    BY <1>2, <2>2, bsreadlnGood
  <2>3. ASSUME NEW terms, bssplitscb(terms) PROVE Good
    BY <1>2, <2>3, bssplitsGood
  <2>4. ASSUME NEW terms, bgetsa(terms) \/ bassigngets(terms) \/ bgets(terms) PROVE Good
    BY <1>2, <2>4, bgetsGood
  <2>5. ASSUME NEW n \in Sizes, bsreada(n) \/ bsread(n) PROVE Good
    BY <1>2, <2>5, bsreadaGood, bsreadGood
  <2>6. ASSUME NEW t \in Unreads, bsunread(t) PROVE Good
    BY <1>2, <2>6, bsunreadGood
  <2>7. ASSUME NEW sep \in Separators, bssplitstrcb(sep) PROVE Good
    BY <1>2, <2>7, bssplitsGood
  <2>8. ASSUME bseof \/ bspeek \/ Bufferless \/ breada \/ bread PROVE Good
    BY <1>2, <2>8, bseofGood, bspeekGood, breadGood
  <2> QED BY <1>2, <2>1, <2>2, <2>3, <2>4, <2>5, <2>6, <2>7, <2>8, Zenon DEF Call
<1>3. ASSUME UNCHANGED <<failing, short, open, maxBuffSz>> PROVE Steady
  BY <1>3 DEF Steady
<1>4. ASSUME failing' = failing,
             bsopen \/ bsclose \/ \E sz \in BuffSizes : bsbufflength(sz)
      PROVE  Good
  BY <1>4, OpenGood
<1> QED BY <1>1, <1>2, <1>3, <1>4 DEF Next

\* A step that changes nothing keeps it.
LEMMA StreamStutter ==
  ASSUME StreamInv, UNCHANGED vars
  PROVE  StreamInv'
BY DEF vars, StreamInv, RunOK, SplitOK, Into, Held, Fits, IsStr

\* Terminated: what is read into r ends with a terminator unless the heap refuses even
\* what is needed, and nothing is written outside a block but by bspeek, in a block of just
\* the size of the text (bassign, bstrlib.c:396), or into the string it has left so.
THEOREM EveryReadTerminates ==
  ASSUME ShortTexts, NullIsNoRecord
  PROVE  Spec => Terminated
<1>1. Init => StreamInv
  BY StreamInit
<1>2. StreamInv /\ [Next]_vars => StreamInv'
  BY StreamStep, StreamStutter DEF Good
<1>3. Spec => []StreamInv
  BY <1>1, <1>2, PTL DEF Spec
<1>4. ASSUME StreamInv, Next PROVE Safe
  BY <1>4, StreamStep DEF Good
<1>5. StreamInv /\ [Next]_vars => [Safe]_vars
  BY <1>4
<1> QED BY <1>3, <1>5, PTL DEF Spec, Terminated, Safe

-----------------------------------------------------------------------------
(* BStream implements AbstractStream.  What is to come, what is seen of    *)
(* the text and how much there was to come when the splitting began.       *)

Coming == IF split # NULL THEN split.acc.text \o Pending
          ELSE IF run # Idle THEN run.from[1] ELSE Pending
Shown == IF split = NULL /\ run # Idle THEN run.from[2] ELSE r.text
Left == IF split = NULL THEN 0 ELSE split.start

\* A step that implements one of AbstractStream, or none.
Refined ==
  \/ Abstract!Next
  \/ UNCHANGED <<Coming, Shown, Left, ret, failing, short>>

-----------------------------------------------------------------------------
(* More about sequences.                                                   *)

\* Two sequences, one after the other, taken apart again.
LEMMA PartsIs ==
  ASSUME NEW s \in Seq(Char), NEW t \in Seq(Char)
  PROVE  First(s \o t, Len(s)) = s /\ From(s \o t, Len(s)) = t
<1> DEFINE u == s \o t
           a == Len(s)
           b == Len(t)
<1>1. /\ u \in Seq(Char) /\ Len(u) = a + b /\ a \in Nat /\ b \in Nat
      /\ \A i \in 1 .. a + b : u[i] = IF i <= a THEN s[i] ELSE t[i - a]
  BY ConcatProperties, LenProperties
<1>2. \A i \in 1 .. a + b : u[i] \in Char
  BY <1>1, ElementOfSeq
<1> HIDE DEF u
<1>3. First(u, a) = s
  <2>1. \A i \in 1 .. a : u[i] \in Char
    BY <1>1, <1>2
  <2>2. /\ SubSeq(u, 1, a) \in Seq(Char)
        /\ Len(SubSeq(u, 1, a)) = IF 1 <= a THEN a - 1 + 1 ELSE 0
        /\ \A i \in 1 .. a - 1 + 1 : SubSeq(u, 1, a)[i] = u[1 + i - 1]
    BY <1>1, <2>1, SubSeqProperties
  <2> DEFINE w == SubSeq(u, 1, a)
  <2>3. w \in Seq(Char) /\ Len(w) = a
    BY <1>1, <2>2
  <2>4. ASSUME NEW i \in 1 .. a PROVE w[i] = s[i]
    <3>1. w[i] = u[1 + i - 1] /\ 1 + i - 1 = i /\ i \in 1 .. a + b
      BY <1>1, <2>2
    <3> QED BY <1>1, <3>1
  <2> HIDE DEF w
  <2>5. w = s
    BY <2>3, <2>4, SeqEqual
  <2> QED BY <2>5 DEF w, First
<1>4. From(u, a) = t
  <2>1. \A i \in a + 1 .. a + b : u[i] \in Char
    BY <1>1, <1>2
  <2>2. /\ SubSeq(u, a + 1, a + b) \in Seq(Char)
        /\ Len(SubSeq(u, a + 1, a + b)) = IF a + 1 <= a + b THEN a + b - (a + 1) + 1 ELSE 0
        /\ \A i \in 1 .. a + b - (a + 1) + 1 : SubSeq(u, a + 1, a + b)[i] = u[a + 1 + i - 1]
    BY <1>1, <2>1, SubSeqProperties
  <2> DEFINE w == SubSeq(u, a + 1, a + b)
  <2>3. w \in Seq(Char) /\ Len(w) = b
    BY <1>1, <2>2
  <2>4. ASSUME NEW i \in 1 .. b PROVE w[i] = t[i]
    <3>1. /\ w[i] = u[a + 1 + i - 1] /\ a + 1 + i - 1 = a + i /\ a + i \in 1 .. a + b
          /\ ~(a + i <= a) /\ a + i - a = i
      BY <1>1, <2>2
    <3> QED BY <1>1, <3>1
  <2> HIDE DEF w
  <2>5. w = t
    BY <2>3, <2>4, SeqEqual
  <2> QED BY <1>1, <2>5 DEF w, From
<1> QED BY <1>3, <1>4 DEF u

\* A sequence is its beginning and the rest.
LEMMA CutIs ==
  ASSUME NEW s \in Seq(Char), NEW n \in 0 .. Len(s)
  PROVE  /\ First(s, n) \o From(s, n) = s
         /\ First(s, n) \in Seq(Char) /\ Len(First(s, n)) = n
         /\ From(s, n) \in Seq(Char) /\ Len(From(s, n)) = Len(s) - n
<1>1. Len(s) \in Nat
  OBVIOUS
<1>2. 1 \in 1 .. Len(s) + 1 /\ n \in 1 - 1 .. Len(s) /\ Len(s) \in n .. Len(s)
  BY <1>1
<1>3. SubSeq(s, 1, n) \o SubSeq(s, n + 1, Len(s)) = SubSeq(s, 1, Len(s))
  BY <1>2, ConcatAdjacentSubSeq
<1>4. First(s, n) \o From(s, n) = s
  BY <1>3, SubSeqFull DEF First, From
<1> QED BY <1>4, FirstIs, FromIs

\* Three in a row.
LEMMA ThreeIs ==
  ASSUME NEW s \in Seq(Char), NEW t \in Seq(Char), NEW u \in Seq(Char)
  PROVE  /\ (s \o t) \o u = s \o (t \o u)
         /\ s \o t \in Seq(Char) /\ t \o u \in Seq(Char) /\ s \o (t \o u) \in Seq(Char)
         /\ Len(s \o t) = Len(s) + Len(t) /\ Len(s) \in Nat /\ Len(t) \in Nat
BY ConcatAssociative, ConcatProperties, LenProperties

\* Grouped otherwise.
LEMMA Regroup ==
  ASSUME NEW s \in Seq(Char), NEW t \in Seq(Char), NEW u \in Seq(Char)
  PROVE  (s \o t) \o u = s \o (t \o u)
BY ConcatAssociative

\* Two sequences are empty together.
LEMMA BothEmpty ==
  ASSUME NEW s \in Seq(Char), NEW t \in Seq(Char)
  PROVE  s \o t = <<>> <=> s = <<>> /\ t = <<>>
BY ConcatEqualIffEmpty

\* Nothing, before or after.
LEMMA NothingIs ==
  ASSUME NEW s \in Seq(Char)
  PROVE  /\ <<>> \o s = s /\ s \o <<>> = s /\ <<>> \in Seq(Char) /\ Len(<<>>) = 0
         /\ Len(s) \in Nat /\ (s = <<>> <=> Len(s) = 0)
BY ConcatEmptySeq, EmptySeq, LenProperties

\* No character of s is in S.
NoneIn(s, S) == \A i \in 1 .. Len(s) : s[i] \notin S

\* The last character of s is in S, and no other.
EndsLine(s, S) ==
  s # <<>> /\ s[Len(s)] \in S /\ \A i \in 1 .. Len(s) - 1 : s[i] \notin S

\* None in either.
LEMMA NoneInBoth ==
  ASSUME NEW s \in Seq(Char), NEW t \in Seq(Char), NEW S
  PROVE  NoneIn(s \o t, S) <=> NoneIn(s, S) /\ NoneIn(t, S)
<1> DEFINE u == s \o t
           a == Len(s)
           b == Len(t)
<1>1. /\ u \in Seq(Char) /\ Len(u) = a + b /\ a \in Nat /\ b \in Nat
      /\ \A i \in 1 .. a + b : u[i] = IF i <= a THEN s[i] ELSE t[i - a]
  BY ConcatProperties, LenProperties
<1> HIDE DEF u, a, b
<1>2. \A i \in 1 .. a : i \in 1 .. a + b /\ u[i] = s[i]
  BY <1>1
<1>3. \A i \in 1 .. b : a + i \in 1 .. a + b /\ u[a + i] = t[i]
  BY <1>1
<1>4. \A i \in 1 .. a + b : i \in 1 .. a \/ (i - a \in 1 .. b /\ u[i] = t[i - a])
  BY <1>1
<1>5. (\A i \in 1 .. a + b : u[i] \notin S)
        <=> (\A i \in 1 .. a : s[i] \notin S) /\ (\A i \in 1 .. b : t[i] \notin S)
  BY <1>2, <1>3, <1>4
<1> QED BY <1>1, <1>5 DEF NoneIn, u, a, b

\* What FirstOf finds.
LEMMA FirstOfFinds ==
  ASSUME NEW s \in Seq(Char), NEW S
  PROVE  /\ FirstOf(s, S) \in 0 .. Len(s)
         /\ FirstOf(s, S) = 0 <=> NoneIn(s, S)
         /\ FirstOf(s, S) > 0 => /\ s[FirstOf(s, S)] \in S
                                 /\ \A i \in 1 .. FirstOf(s, S) - 1 : s[i] \notin S
<1> DEFINE I == {i \in 1 .. Len(s) : s[i] \in S}
           m == Min(I)
           f == FirstOf(s, S)
<1>1. f = IF I # {} THEN m ELSE 0
  BY DEF FirstOf, SelectInSeq
<1>2. Len(s) \in Nat /\ I \in SUBSET Nat /\ I \subseteq 1 .. Len(s)
      /\ \A i \in 1 .. Len(s) : i \in I <=> s[i] \in S
  OBVIOUS
<1> HIDE DEF I
<1>3. I # {} => m \in I /\ \A k \in I : m <= k
  BY <1>2, MinIsLeast
<1> HIDE DEF m, f
<1>4. CASE I # {}
  <2>1. f = m /\ m \in I /\ m \in 1 .. Len(s)
    BY <1>1, <1>2, <1>3, <1>4
  <2>2. \A i \in 1 .. m - 1 : i \in 1 .. Len(s) /\ ~(m <= i)
    BY <1>2, <2>1
  <2>3. \A i \in 1 .. m - 1 : s[i] \notin S
    BY <1>2, <1>3, <1>4, <2>2
  <2>4. ~NoneIn(s, S)
    BY <1>2, <2>1 DEF NoneIn
  <2> QED BY <1>2, <2>1, <2>3, <2>4 DEF f
<1>5. CASE I = {}
  <2>1. NoneIn(s, S)
    BY <1>2, <1>5 DEF NoneIn
  <2> QED BY <1>1, <1>2, <1>5, <2>1 DEF f
<1> QED BY <1>4, <1>5

\* What ends a line ends it, whatever follows.
LEMMA EndsLineFirst ==
  ASSUME NEW s \in Seq(Char), NEW t \in Seq(Char), NEW S, EndsLine(s, S)
  PROVE  FirstOf(s \o t, S) = Len(s)
<1> DEFINE u == s \o t
           a == Len(s)
           b == Len(t)
           f == FirstOf(u, S)
<1>1. /\ u \in Seq(Char) /\ Len(u) = a + b /\ a \in Nat \ {0} /\ b \in Nat
      /\ \A i \in 1 .. a + b : u[i] = IF i <= a THEN s[i] ELSE t[i - a]
  BY ConcatProperties, LenProperties, EmptySeq DEF EndsLine
<1>2. s[a] \in S /\ \A i \in 1 .. a - 1 : s[i] \notin S
  BY DEF EndsLine
<1> HIDE DEF u, a, b
<1>3. u[a] \in S /\ a \in 1 .. a + b
  BY <1>1, <1>2
<1>4. \A i \in 1 .. a - 1 : u[i] \notin S
  BY <1>1, <1>2
<1>5. /\ f \in 0 .. a + b /\ (f = 0 <=> NoneIn(u, S))
      /\ f > 0 => u[f] \in S /\ \A i \in 1 .. f - 1 : u[i] \notin S
  BY <1>1, FirstOfFinds
<1>6. f # 0
  BY <1>1, <1>3, <1>5 DEF NoneIn
<1> HIDE DEF f
<1>7. ~(f < a)
  BY <1>1, <1>4, <1>5, <1>6
<1>8. ~(a < f)
  BY <1>1, <1>3, <1>5, <1>6
<1>9. f = a
  BY <1>1, <1>5, <1>7, <1>8
<1> QED BY <1>9 DEF f, u, a

\* The first character in S ends a line, whatever was before it that is not in S.
LEMMA FirstOfEnds ==
  ASSUME NEW s \in Seq(Char), NEW t \in Seq(Char), NEW S, NoneIn(s, S), FirstOf(t, S) > 0
  PROVE  /\ FirstOf(t, S) \in 1 .. Len(t)
         /\ EndsLine(s \o First(t, FirstOf(t, S)), S)
<1> DEFINE f == FirstOf(t, S)
           v == First(t, f)
           u == s \o v
           a == Len(s)
<1>1. f \in 1 .. Len(t) /\ t[f] \in S /\ \A i \in 1 .. f - 1 : t[i] \notin S
  <2>1. Len(t) \in Nat
    BY LenProperties
  <2> QED BY <2>1, FirstOfFinds
<1> HIDE DEF f
<1>2. v \in Seq(Char) /\ Len(v) = f /\ \A i \in 1 .. f : v[i] = t[i]
  <2>1. f \in 0 .. Len(t) /\ f \in Nat /\ Len(t) \in Nat
    BY <1>1
  <2>2. v \in Seq(Char) /\ Len(v) = f
    BY <2>1, FirstIs
  <2>3. \A i \in 1 .. f : t[i] \in Char
    BY <1>1, <2>1, ElementOfSeq
  <2>4. \A i \in 1 .. f - 1 + 1 : SubSeq(t, 1, f)[i] = t[1 + i - 1]
    BY <2>1, <2>3, SubSeqProperties
  <2>5. \A i \in 1 .. f : v[i] = t[i]
    <3> TAKE i \in 1 .. f
    <3>1. i \in 1 .. f - 1 + 1 /\ 1 + i - 1 = i
      BY <2>1
    <3> QED BY <2>4, <3>1 DEF First
  <2> QED BY <2>2, <2>5
<1> HIDE DEF v
<1>3. /\ u \in Seq(Char) /\ Len(u) = a + f /\ a \in Nat /\ f \in Nat \ {0}
      /\ \A i \in 1 .. a + f : u[i] = IF i <= a THEN s[i] ELSE v[i - a]
  <2>1. Len(t) \in Nat /\ a \in Nat
    BY LenProperties
  <2>2. f \in Nat \ {0}
    BY <1>1, <2>1
  <2>3. /\ u \in Seq(Char) /\ Len(u) = a + Len(v)
        /\ \A i \in 1 .. a + Len(v) : u[i] = IF i <= a THEN s[i] ELSE v[i - a]
    BY <1>2, ConcatProperties
  <2> HIDE DEF u, a
  <2> QED BY <1>2, <2>1, <2>2, <2>3
<1>4. \A i \in 1 .. a : s[i] \notin S
  BY DEF NoneIn
<1> HIDE DEF u, a
<1>5. u[a + f] \in S
  <2>1. a + f \in 1 .. a + f /\ ~(a + f <= a) /\ a + f - a = f /\ f \in 1 .. f
    BY <1>3
  <2> QED BY <1>1, <1>2, <1>3, <2>1
<1>6. \A i \in 1 .. a + f - 1 : u[i] \notin S
  <2> TAKE i \in 1 .. a + f - 1
  <2>1. CASE i <= a
    <3>1. i \in 1 .. a /\ i \in 1 .. a + f
      BY <1>3, <2>1
    <3> QED BY <1>3, <1>4, <2>1, <3>1
  <2>2. CASE i > a
    <3>1. i \in 1 .. a + f /\ ~(i <= a) /\ i - a \in 1 .. f - 1 /\ i - a \in 1 .. f
      BY <1>3, <2>2
    <3> QED BY <1>1, <1>2, <1>3, <3>1
  <2> QED BY <1>3, <2>1, <2>2
<1>7. u # <<>>
  BY <1>3, EmptySeq
<1>8. EndsLine(u, S)
  BY <1>3, <1>5, <1>6, <1>7 DEF EndsLine
<1> QED BY <1>1, <1>8 DEF u, v, f

-----------------------------------------------------------------------------
(* What AbstractStream allows.  A call that returns found p to come and t  *)
(* for the text, and leaves q and u.                                       *)

Kept == failing' = failing /\ short' = short

Returned(name, by, end, p, t, q, u) ==
  /\ ret'.call = name /\ ret'.by = by /\ ret'.end = end /\ Left' = Left /\ Kept
  /\ Coming = p /\ Shown = t /\ Coming' = q /\ Shown' = u

\* What the text begins with when a call has read.
Base(name, t) ==
  IF name \in {"bsreadln", "bsread", "bassigngets", "bread", "bgets"} THEN <<>> ELSE t

\* d is a line, or it is all there is.
LineOf(d, rest, by) == EndsLine(d, by) \/ (NoneIn(d, by) /\ rest = <<>>)

\* A part is moved.
LEMMA MovedIs ==
  ASSUME NEW name, NEW by, NEW end, NEW d \in Seq(Char), NEW rest \in Seq(Char), NEW t,
         Returned(name, by, end, d \o rest, t, rest, Base(name, t) \o d)
  PROVE  /\ Abstract!Moved(Len(d)) /\ Len(d) \in 0 .. Len(Coming)
         /\ Len(Coming) = Len(d) + Len(rest) /\ Len(d) \in Nat /\ Len(rest) \in Nat
<1>1. First(Coming, Len(d)) = d /\ From(Coming, Len(d)) = rest
  BY PartsIs DEF Returned
<1>2. Shown' = Base(ret'.call, Shown) \o d /\ Coming' = rest /\ Left' = Left
  BY DEF Returned
<1> DEFINE n == Len(d)
<1>3. /\ Shown' = Base(ret'.call, Shown) \o First(Coming, n)
      /\ Coming' = From(Coming, n) /\ Left' = Left
  BY <1>1, <1>2
<1> HIDE DEF n
<1>4. Abstract!Moved(n)
  BY <1>3 DEF Abstract!Moved, Abstract!base, Abstract!First, Abstract!From, Abstract!Stays,
     Base, First, From, Coming, Shown, Left
<1>5. Coming = d \o rest
  BY DEF Returned
<1>6. Len(Coming) = Len(d) + Len(rest) /\ Len(d) \in Nat /\ Len(rest) \in Nat
  BY <1>5, ConcatProperties, LenProperties
<1> QED BY <1>4, <1>6 DEF n

\* The length of the next line.
LEMMA LineLenIs ==
  ASSUME NEW d \in Seq(Char), NEW rest \in Seq(Char), LineOf(d, rest, ret'.by),
         Coming = d \o rest
  PROVE  Abstract!LineLen = Len(d)
<1>1. Abstract!LineLen = IF FirstOf(Coming, ret'.by) = 0 THEN Len(Coming)
                         ELSE FirstOf(Coming, ret'.by)
  BY Zenon DEF Abstract!LineLen, Abstract!SelectInSeq, Abstract!Min, FirstOf, SelectInSeq, Min,
     Coming
<1>2. CASE EndsLine(d, ret'.by)
  <2>1. FirstOf(Coming, ret'.by) = Len(d)
    BY <1>2, EndsLineFirst
  <2>2. Len(d) # 0
    BY <1>2, NothingIs DEF EndsLine
  <2> QED BY <1>1, <2>1, <2>2
<1>3. CASE NoneIn(d, ret'.by) /\ rest = <<>>
  <2>1. Coming = d
    BY <1>3, NothingIs
  <2>2. FirstOf(Coming, ret'.by) = 0
    BY <1>3, <2>1, FirstOfFinds
  <2> QED BY <1>1, <2>1, <2>2
<1> QED BY <1>2, <1>3 DEF LineOf

\* A call took a line.
LEMMA LineTaken ==
  ASSUME NEW name \in {"bsreadlna", "bsreadln"}, NEW by, by # {}, NEW end,
         NEW d \in Seq(Char), NEW rest \in Seq(Char), NEW t, LineOf(d, rest, by),
         end = (IF d = <<>> THEN "ERR" ELSE "OK"),
         Returned(name, by, end, d \o rest, t, rest, Base(name, t) \o d)
  PROVE  Abstract!Next
<1>1. Abstract!Moved(Len(d))
  BY MovedIs
<1>2. ret'.call = name /\ ret'.by = by /\ ret'.end = end /\ Coming = d \o rest /\ Kept
  BY DEF Returned
<1>3. Abstract!LineLen = Len(d)
  BY <1>2, LineLenIs
<1>4. end = IF Abstract!LineLen = 0 THEN "ERR" ELSE "OK"
  BY <1>3, NothingIs
<1>5. Abstract!Line
  BY <1>1, <1>2, <1>3, <1>4 DEF Abstract!Line, Abstract!Does
<1> QED BY <1>2, <1>5 DEF Abstract!Next, Abstract!Stays, Kept

\* A call took a line character by character.
LEMMA LineGot ==
  ASSUME NEW name \in {"bgetsa", "bassigngets", "bgets"}, NEW by, NEW end,
         NEW d \in Seq(Char), NEW rest \in Seq(Char), NEW t, LineOf(d, rest, by),
         end = (IF Base(name, t) \o d = <<>> THEN "EMPTY" ELSE "OK"),
         Returned(name, by, end, d \o rest, t, rest, Base(name, t) \o d)
  PROVE  Abstract!Next
<1>1. Abstract!Moved(Len(d))
  BY MovedIs
<1>2. ret'.call = name /\ ret'.by = by /\ ret'.end = end /\ Coming = d \o rest /\ Kept
  BY DEF Returned
<1>3. Abstract!LineLen = Len(d)
  BY <1>2, LineLenIs
<1>4. Shown' = Base(name, t) \o d
  BY DEF Returned
<1>5. end = IF Shown' = <<>> THEN "EMPTY" ELSE "OK"
  BY <1>4
<1>6. Abstract!Get
  BY <1>1, <1>2, <1>3, <1>5 DEF Abstract!Get, Abstract!Does, Shown
<1> QED BY <1>2, <1>6 DEF Abstract!Next, Abstract!Stays, Kept

\* As many as asked for, all there are, or fewer from a stream that delivers less.
Enough(d, rest, n) ==
  Len(d) <= n /\ (Len(d) = n \/ rest = <<>> \/ (short /\ d # <<>>))

\* A call took a number of characters.
LEMMA CharsTaken ==
  ASSUME NEW name \in {"bsreada", "bsread"}, NEW by \in Nat \ {0}, NEW end,
         NEW d \in Seq(Char), NEW rest \in Seq(Char), NEW t, Enough(d, rest, by),
         end = (IF d = <<>> THEN "ERR" ELSE "OK"),
         Returned(name, by, end, d \o rest, t, rest, Base(name, t) \o d)
  PROVE  Abstract!Next
<1>1. /\ Abstract!Moved(Len(d))
      /\ Len(Coming) = Len(d) + Len(rest) /\ Len(d) \in Nat /\ Len(rest) \in Nat
  BY MovedIs
<1>2. ret'.call = name /\ ret'.by = by /\ ret'.end = end /\ Coming = d \o rest /\ Kept
  BY DEF Returned
<1>3. /\ Len(d) = 0 <=> d = <<>>
      /\ Len(rest) = 0 <=> rest = <<>>
      /\ Coming \in Seq(Char) /\ (Len(Coming) = 0 <=> Coming = <<>>)
  BY <1>2, NothingIs, ConcatProperties
<1> DEFINE m == IF by < Len(Coming) THEN by ELSE Len(Coming)
           a == Len(d)
           b == Len(rest)
           l == Len(Coming)
<1>4. a \in Nat /\ b \in Nat /\ l = a + b /\ m = IF by < l THEN by ELSE l
  BY <1>1
<1>5. /\ a <= by /\ (a = by \/ b = 0 \/ (short /\ a # 0))
      /\ a = 0 <=> d = <<>>
      /\ l = 0 <=> Coming = <<>>
  BY <1>1, <1>3 DEF Enough
<1> HIDE DEF a, b, l, m
<1>6. a \in IF short /\ m > 0 THEN 1 .. m ELSE {m}
  BY <1>4, <1>5
<1>7. a \in Abstract!Some(m)
  BY <1>6, Zenon DEF Abstract!Some
<1>8. end = IF Coming = <<>> THEN "ERR" ELSE "OK"
  BY <1>4, <1>5
<1>9. Abstract!Does({"bsreada", "bsread"}, {IF Coming = <<>> THEN "ERR" ELSE "OK"})
  BY <1>2, <1>8 DEF Abstract!Does
<1>10. \E n \in Abstract!Some(IF ret'.by < Len(Coming) THEN ret'.by ELSE Len(Coming)) :
         Abstract!Moved(n)
  BY <1>1, <1>2, <1>7 DEF m, a
<1>11. Abstract!Read
  BY <1>9, <1>10, Zenon DEF Abstract!Read, Coming
<1> QED BY <1>2, <1>11 DEF Abstract!Next, Abstract!Stays, Kept

\* A call took all there was.
LEMMA AllTaken ==
  ASSUME NEW name \in {"breada", "bread"}, NEW by,
         NEW d \in Seq(Char), NEW rest \in Seq(Char), NEW t,
         rest = <<>> \/ (short /\ d # <<>>),
         Returned(name, by, "OK", d \o rest, t, rest, Base(name, t) \o d)
  PROVE  Abstract!Next
<1>1. /\ Abstract!Moved(Len(d))
      /\ Len(Coming) = Len(d) + Len(rest) /\ Len(d) \in Nat /\ Len(rest) \in Nat
  BY MovedIs
<1>2. ret'.call = name /\ ret'.by = by /\ ret'.end = "OK" /\ Kept
  BY DEF Returned
<1>3. /\ Len(d) = 0 <=> d = <<>>
      /\ Len(rest) = 0 <=> rest = <<>>
  BY NothingIs
<1> DEFINE a == Len(d)
           b == Len(rest)
           l == Len(Coming)
<1>4. a \in Nat /\ b \in Nat /\ l = a + b /\ (b = 0 \/ (short /\ a # 0))
  BY <1>1, <1>3
<1> HIDE DEF a, b, l
<1>5. a \in IF short /\ l > 0 THEN 1 .. l ELSE {l}
  BY <1>4
<1>6. a \in Abstract!Some(l)
  BY <1>5, Zenon DEF Abstract!Some
<1>7. \E n \in Abstract!Some(Len(Coming)) : Abstract!Moved(n)
  BY <1>1, <1>6 DEF a, l
<1>8. Abstract!Does({"breada", "bread"}, {"OK"})
  BY <1>2 DEF Abstract!Does
<1>9. Abstract!ReadAll
  BY <1>7, <1>8, Zenon DEF Abstract!ReadAll, Coming
<1> QED BY <1>2, <1>9 DEF Abstract!Next, Abstract!Stays, Kept

-----------------------------------------------------------------------------
(* What it allows on heaps that refuse.                                    *)

Tight == "tight" \in failing

\* Nothing was done.
LEMMA NothingDone ==
  ASSUME Tight, NEW name, NEW by, NEW end, NEW p \in Seq(Char), NEW t,
         Returned(name, by, end, p, t, p, t)
  PROVE  Abstract!Next
<1>1. Kept /\ Coming \in Seq(Char) /\ Coming' = Coming /\ Shown' = Shown /\ Left' = Left
  BY DEF Returned
<1>2. 0 \in 0 .. Len(Coming)
  BY <1>1, LenProperties
<1>3. Abstract!Stays(<<Coming, Shown, Left>>)
  BY <1>1 DEF Abstract!Stays, Coming, Shown, Left
<1>4. Abstract!CutShort
  BY <1>2, <1>3 DEF Abstract!CutShort, Tight, Coming, Shown, Left
<1> QED BY <1>1, <1>4 DEF Abstract!Next, Abstract!Stays, Kept

\* A part was moved, of which the beginning is still to come.
LEMMA PartRepeated ==
  ASSUME Tight, NEW name \in {"bsreadlna", "bsreadln", "bsreada", "bsread", "breada"}, NEW by,
         NEW end \in {"OK", "ERR"},
         NEW b \in Seq(Char), NEW e \in Seq(Char), NEW rest \in Seq(Char), NEW t,
         Returned(name, by, end, (b \o e) \o rest, t, b \o rest, Base(name, t) \o (b \o e))
  PROVE  Abstract!Next
<1> DEFINE d == b \o e
           n == Len(d)
           m == Len(b)
<1>1. ret'.call = name /\ ret'.end = end /\ Coming = d \o rest /\ Kept /\ Left' = Left
      /\ Coming' = b \o rest /\ Shown' = Base(ret'.call, Shown) \o d
  BY DEF Returned
<1>2. /\ d \in Seq(Char) /\ n \in Nat /\ m \in Nat /\ n = m + Len(e) /\ Len(e) \in Nat
      /\ Len(Coming) = n + Len(rest) /\ Len(rest) \in Nat
      /\ Coming = b \o (e \o rest) /\ e \o rest \in Seq(Char)
  BY <1>1, ThreeIs, ConcatProperties, LenProperties, SMTT(60)
<1> HIDE DEF d
<1>3. First(Coming, n) = d /\ From(Coming, n) = rest /\ First(Coming, m) = b
  BY <1>1, <1>2, PartsIs
<1>4. n \in 0 .. Len(Coming) /\ m \in 0 .. n
  BY <1>2
<1> HIDE DEF n, m
<1>5. /\ Shown' = Base(ret'.call, Shown) \o First(Coming, n)
      /\ Coming' = First(Coming, m) \o From(Coming, n)
  BY <1>1, <1>3
<1>6. Abstract!Does({"bsreadlna", "bsreadln", "bsreada", "bsread", "breada"}, {"OK", "ERR"})
  BY <1>1 DEF Abstract!Does
<1>7. /\ Shown' = Abstract!base \o Abstract!First(Coming, n)
      /\ \E k \in 0 .. n : Coming' = Abstract!First(Coming, k) \o Abstract!From(Coming, n)
      /\ Abstract!Stays(Left)
  BY <1>1, <1>4, <1>5
     DEF Abstract!base, Base, Abstract!First, Abstract!From, First, From, Abstract!Stays,
         Shown, Left
<1>8. Abstract!CutShort
  BY <1>4, <1>6, <1>7 DEF Abstract!CutShort, Tight, Coming, Shown, Left
<1> QED BY <1>1, <1>8 DEF Abstract!Next, Abstract!Stays, Kept

\* A part was moved, and a character lost.
LEMMA CharLost ==
  ASSUME Tight, NEW name \in {"bgetsa", "bassigngets"}, NEW by,
         NEW d \in Seq(Char), NEW rest \in Seq(Char), rest # <<>>, NEW t,
         Returned(name, by, "ERR", d \o rest, t, Tail(rest), Base(name, t) \o d)
  PROVE  Abstract!Next
<1> DEFINE n == Len(d)
           x == <<Head(rest)>>
<1>1. ret'.call = name /\ ret'.end = "ERR" /\ Coming = d \o rest /\ Kept /\ Left' = Left
      /\ Coming' = Tail(rest) /\ Shown' = Base(ret'.call, Shown) \o d
  BY DEF Returned
<1>2. /\ Tail(rest) = From(rest, 1) /\ Len(rest) \in Nat \ {0}
      /\ First(rest, 1) \in Seq(Char) /\ Len(First(rest, 1)) = 1
      /\ rest = First(rest, 1) \o Tail(rest) /\ Tail(rest) \in Seq(Char)
  <2>1. Len(rest) \in Nat \ {0} /\ Tail(rest) \in Seq(Char)
    BY EmptySeq, HeadTailProperties
  <2>2. 1 \in 0 .. Len(rest)
    BY <2>1
  <2>3. SubSeq(rest, 2, Len(rest)) = Tail(rest)
    BY TailIsSubSeq
  <2>4. Tail(rest) = From(rest, 1)
    BY <2>3 DEF From
  <2> QED BY <2>1, <2>2, <2>4, CutIs
<1> DEFINE f == First(rest, 1)
           g == Tail(rest)
<1>3. /\ Coming = (d \o f) \o g /\ d \o f \in Seq(Char) /\ Len(d \o f) = n + 1 /\ n \in Nat
      /\ g \in Seq(Char) /\ rest = f \o g /\ Len(Coming) = n + Len(rest)
  <2> HIDE DEF f, g
  <2>1. f \in Seq(Char) /\ g \in Seq(Char) /\ rest = f \o g /\ Len(f) = 1
    BY <1>2 DEF f, g
  <2>5. (d \o f) \o g = d \o (f \o g)
    BY <2>1, Regroup
  <2>6. d \o f \in Seq(Char) /\ Len(d \o f) = Len(d) + Len(f)
    BY <2>1, ConcatProperties
  <2>2. (d \o f) \o g = d \o (f \o g) /\ d \o f \in Seq(Char) /\ Len(d \o f) = Len(d) + Len(f)
        /\ Len(d) \in Nat
    BY <2>5, <2>6, LenProperties
  <2>3. Len(d \o rest) = Len(d) + Len(rest)
    BY ConcatProperties
  <2>4. (d \o f) \o g = Coming
    BY <1>1, <2>1, <2>2
  <2> QED BY <1>1, <2>1, <2>2, <2>3, <2>4
<1> HIDE DEF f, g
<1>4. First(Coming, n) = d /\ From(Coming, n + 1) = g
  <2>1. First(Coming, n) = d
    BY <1>1, PartsIs
  <2>2. From((d \o f) \o g, Len(d \o f)) = g
    BY <1>3, PartsIs
  <2> QED BY <1>3, <2>1, <2>2
<1>5. n \in 0 .. Len(Coming)
  BY <1>2, <1>3
<1> HIDE DEF n
<1>6. /\ Shown' = Base(ret'.call, Shown) \o First(Coming, n) /\ Coming' = From(Coming, n + 1)
  BY <1>1, <1>4 DEF g
<1>7. Abstract!Does({"bgetsa", "bassigngets"}, {"ERR"})
  BY <1>1 DEF Abstract!Does
<1>8. /\ Shown' = Abstract!base \o Abstract!First(Coming, n)
      /\ Coming' = Abstract!From(Coming, n + 1) /\ Abstract!Stays(Left)
  BY <1>1, <1>6
     DEF Abstract!base, Base, Abstract!First, Abstract!From, First, From, Abstract!Stays,
         Shown, Left
<1>9. Abstract!CutShort
  BY <1>5, <1>7, <1>8 DEF Abstract!CutShort, Tight, Coming, Shown, Left
<1> QED BY <1>1, <1>9 DEF Abstract!Next, Abstract!Stays, Kept

\* What was taken is lost, with the string.
LEMMA AllLost ==
  ASSUME Tight, NEW name \in {"bread", "bgets"}, NEW by,
         NEW d \in Seq(Char), NEW rest \in Seq(Char), NEW t,
         Returned(name, by, "ERR", d \o rest, t, rest, <<>>)
  PROVE  Abstract!Next
<1> DEFINE n == Len(d)
<1>1. ret'.call = name /\ ret'.end = "ERR" /\ Coming = d \o rest /\ Kept /\ Left' = Left
      /\ Coming' = rest /\ Shown' = <<>>
  BY DEF Returned
<1>2. Coming' = From(Coming, n) /\ n \in 0 .. Len(Coming)
  <2>1. Len(Coming) = n + Len(rest) /\ n \in Nat /\ Len(rest) \in Nat
    BY <1>1, ConcatProperties, LenProperties
  <2>2. n \in 0 .. Len(Coming)
    BY <2>1
  <2> QED BY <1>1, <2>2, PartsIs
<1> HIDE DEF n
<1>3. Abstract!Does({"bread", "bgets"}, {"ERR"}) /\ Coming' = Abstract!From(Coming, n)
      /\ Abstract!Stays(Left)
  BY <1>1, <1>2 DEF Abstract!Does, Abstract!From, From, Abstract!Stays, Left
<1>4. Abstract!CutShort
  BY <1>1, <1>2, <1>3 DEF Abstract!CutShort, Tight, Coming, Shown, Left
<1> QED BY <1>1, <1>4 DEF Abstract!Next, Abstract!Stays, Kept

\* A string could not be made.
LEMMA NotMade ==
  ASSUME "snap" \in failing, NEW name, NEW by, NEW p, NEW t, NEW u,
         Returned(name, by, "ERR", p, t, p, u),
         u = IF name \in {"bread", "bgets"} THEN <<>> ELSE t
  PROVE  Abstract!Next
<1>1. /\ ret'.end = "ERR" /\ Kept /\ Coming' = Coming /\ Left' = Left
      /\ Shown' = IF ret'.call \in {"bread", "bgets"} THEN <<>> ELSE Shown
  BY DEF Returned
<1>2. Abstract!Stays(<<Coming, Left>>)
  BY <1>1 DEF Abstract!Stays, Coming, Left
<1>3. Abstract!NotBegun
  BY <1>1, <1>2 DEF Abstract!NotBegun, Coming, Shown, Left
<1> QED BY <1>1, <1>3 DEF Abstract!Next, Abstract!Stays, Kept

-----------------------------------------------------------------------------
(* The invariant of the refinement: what has become of what a call, which  *)
(* found p to come and t for the text, has read.                           *)

\* A line into x: all that was buffered, which still is, and e after it, no end among it.
LineFlow(p, t, c, rlo, x, b, k) ==
  /\ c.name \in {"bsreadlna", "bsreadln"} /\ c.by # {}
  /\ b \in Seq(Char) /\ Base(c.name, t) \in Seq(Char) /\ rlo = Len(Base(c.name, t))
  /\ \E e \in Seq(Char) : /\ p = (b \o e) \o k /\ x = Base(c.name, t) \o (b \o e)
                          /\ NoneIn(b \o e, c.by)

\* A number of characters into x: d, and what is buffered follows.
ReadFlow(p, t, c, rlo, n, x, b, k) ==
  /\ c.name \in {"bsreada", "bsread"} /\ c.by \in Nat \ {0}
  /\ Base(c.name, t) \in Seq(Char) /\ rlo = Len(Base(c.name, t)) /\ n = rlo + c.by
  /\ \E d \in Seq(Char) : p = d \o (b \o k) /\ x = Base(c.name, t) \o d

\* All there is into x: d so far.
AllFlow(p, t, c, x, k) ==
  /\ c.name \in {"breada", "bread"} /\ Base(c.name, t) \in Seq(Char)
  /\ \E d \in Seq(Char) : p = d \o k /\ x = Base(c.name, t) \o d

\* A line into x, character by character: d so far, no end among it.
GetsFlow(p, t, c, x, k) ==
  /\ c.name \in {"bgetsa", "bassigngets", "bgets"} /\ Base(c.name, t) \in Seq(Char)
  /\ \E d \in Seq(Char) : p = d \o k /\ x = Base(c.name, t) \o d /\ NoneIn(d, c.by)

\* Nothing to divide by: pieces are what comes.
Blocks(s) == s.name = "bssplitstrcb" /\ s.seps = <<>>

\* No character of t ends a piece, as far as single characters do.
Clean(s, t) == (s.name = "bssplitscb" => NoneIn(t, s.seps)) /\ (Blocks(s) => t = <<>>)

\* Offsets say how far the stream has come.
SplitFlow(s, b, k) ==
  /\ {"acc", "name", "seps", "ofs", "ok", "start"} \subseteq DOMAIN s
  /\ s.ofs \in Nat /\ s.start \in Nat /\ s.ok \in BOOLEAN
  /\ ~Blocks(s) => s.start = s.ofs + Len(s.acc.text \o (b \o k))

\* What was there before a read had no separator.
AccFlow(s, rlo) ==
  \E a \in Seq(Char), d \in Seq(Char) : s.acc.text = a \o d /\ rlo = Len(a) /\ Clean(s, a)

\* A read that has failed was at the end.
JudgeFlow(s, b, k) ==
  /\ ~s.ok => (b \o k = <<>> \/ Tight) /\ Clean(s, s.acc.text)
  /\ s.ok => (Blocks(s) => s.acc.text # <<>>)

EndFlow == isEOF => core = <<>> \/ Tight

FlowInv ==
  /\ EndFlow
  /\ open /\ buff = NULL => "snap" \in failing
  /\ run.pc = "line" =>
       open /\ LineFlow(run.from[1], run.from[2], run.call, run.rlo, r.text, buff.text, core)
  /\ run.pc = "read" /\ split = NULL =>
       open /\ ReadFlow(run.from[1], run.from[2], run.call, run.rlo, run.n, r.text, buff.text,
                        core)
  /\ run.pc = "all" => ~open /\ AllFlow(run.from[1], run.from[2], run.call, r.text, core)
  /\ run.pc = "gets" => ~open /\ GetsFlow(run.from[1], run.from[2], run.call, r.text, core)
  /\ split # NULL => open /\ SplitFlow(split, buff.text, core)
  /\ run.pc = "scan" => (Blocks(split) => split.acc.text = <<>>)
  /\ run.pc = "read" /\ split # NULL => AccFlow(split, run.rlo)
  /\ run.pc = "judge" => JudgeFlow(split, buff.text, core)

-----------------------------------------------------------------------------
(* How steps look from there.                                              *)

\* What a call that is going on found, or one that begins.
Found == IF run = Idle THEN <<Pending, r.text>> ELSE run.from

\* A string is not the null pointer.
LEMMA StrIsNotNull ==
  ASSUME NullIsNoRecord, NEW s, IsStr(s)
  PROVE  s # NULL
<1>1. "text" \in DOMAIN s
  BY DEF IsStr
<1> QED BY <1>1 DEF NullIsNoRecord

\* What there is to come of an open stream, before and after a step.
LEMMA PendingIs ==
  ASSUME NullIsNoRecord, open
  PROVE  /\ IsStr(buff) => Pending = buff.text \o core
         /\ Steady /\ IsStr(buff') => Pending' = buff'.text \o core' /\ buff' # NULL
<1>1. IsStr(buff) => Pending = buff.text \o core
  BY StrIsNotNull DEF Pending, Buffered
<1>2. ASSUME Steady, IsStr(buff') PROVE Pending' = buff'.text \o core' /\ buff' # NULL
  <2>1. buff' # NULL /\ open'
    BY <1>2, StrIsNotNull DEF Steady
  <2> QED BY <2>1 DEF Pending, Buffered
<1> QED BY <1>1, <1>2

\* Without a splitting.
LEMMA SeenIs ==
  ASSUME split = NULL
  PROVE  Coming = Found[1] /\ Shown = Found[2] /\ Left = 0
BY DEF Coming, Shown, Left, Found

\* The text a call leaves.
Leaves(name, end, s) == IF name \in {"bread", "bgets"} /\ end # "OK" THEN <<>> ELSE s.text

\* A call that ends, on a stream or without one.
LEMMA EndsSeen ==
  ASSUME StreamInv, FlowInv, Steady, split = NULL, NEW s, NEW c, NEW end, Ends(s, c, end),
         EndFlow', buff' = NULL => buff = NULL, NullIsNoRecord
  PROVE  /\ FlowInv'
         /\ Returned(c.name, c.by, end, Found[1], Found[2], Pending', Leaves(c.name, end, s))
<1>1. /\ run' = Idle /\ split' = NULL /\ ret' = [call |-> c.name, by |-> c.by, end |-> end]
      /\ r' = IF c.name \in {"bread", "bgets"} /\ end # "OK" THEN Fresh ELSE s
  BY DEF Ends
<1>2. r'.text = Leaves(c.name, end, s)
  BY <1>1, FreshIs DEF Leaves
<1>3. Coming' = Pending' /\ Shown' = r'.text /\ Left' = 0
  BY <1>1 DEF Coming, Shown, Left
<1>4. run'.pc = "idle"
  BY <1>1 DEF Idle
<1>5. open' /\ buff' = NULL => "snap" \in failing'
  BY DEF FlowInv, Steady
<1>6. FlowInv'
  BY <1>1, <1>4, <1>5 DEF FlowInv
<1>7. Kept
  BY DEF Kept, Steady
<1> QED BY <1>1, <1>2, <1>3, <1>6, <1>7, SeenIs DEF Returned

\* A call that returns at once.
LEMMA ReturnsSeen ==
  ASSUME StreamInv, FlowInv, Steady, run = Idle, NEW name, NEW by, NEW end,
         Returns(name, by, end), buff' = NULL => buff = NULL
  PROVE  /\ FlowInv'
         /\ Returned(name, by, end, Pending, r.text, Pending', r'.text)
<1>1. /\ run' = Idle /\ split' = NULL /\ split = NULL /\ core' = core /\ isEOF' = isEOF
      /\ ret' = [call |-> name, by |-> by, end |-> end]
  BY IdleIs DEF Returns
<1>2. Coming' = Pending' /\ Shown' = r'.text /\ Left' = 0
      /\ Coming = Pending /\ Shown = r.text /\ Left = 0
  BY <1>1 DEF Coming, Shown, Left
<1>3. run'.pc = "idle"
  BY <1>1 DEF Idle
<1>4. open' /\ buff' = NULL => "snap" \in failing'
  BY DEF FlowInv, Steady
<1>5. EndFlow'
  BY <1>1 DEF FlowInv, EndFlow, Tight, Steady
<1>6. FlowInv'
  BY <1>1, <1>3, <1>4, <1>5 DEF FlowInv
<1>7. Kept
  BY DEF Kept, Steady
<1> QED BY <1>1, <1>2, <1>6, <1>7 DEF Returned

\* What a call that goes on has to show.
Goes(c, pc, n, rlo, s) ==
  CASE pc = "line" -> open /\ LineFlow(Found[1], Found[2], c, rlo, s.text, buff'.text, core')
    [] pc = "read" -> open /\ ReadFlow(Found[1], Found[2], c, rlo, n, s.text, buff'.text, core')
    [] pc = "all"  -> ~open /\ AllFlow(Found[1], Found[2], c, s.text, core')
    [] pc = "gets" -> ~open /\ GetsFlow(Found[1], Found[2], c, s.text, core')

\* A call that goes on, on a stream or without one.
LEMMA GoesOnSeen ==
  ASSUME StreamInv, FlowInv, Steady, split = NULL, NEW s, NEW c,
         NEW pc \in {"line", "read", "all", "gets"}, NEW n, NEW rlo, GoesOn(s, c, pc, n, rlo),
         EndFlow', buff' = NULL => buff = NULL, Goes(c, pc, n, rlo, s)
  PROVE  FlowInv' /\ Refined
<1>1. /\ run'.pc = pc /\ run'.from = Found /\ run'.call = c /\ run'.n = n /\ run'.rlo = rlo
      /\ r' = s /\ split' = NULL /\ ret' = ret /\ run' # Idle
  <2>1. /\ run' = [pc |-> pc, call |-> c, n |-> n, rlo |-> rlo, from |-> Found]
        /\ r' = s /\ split' = NULL /\ ret' = ret
    BY DEF GoesOn, Found
  <2>2. run'.pc = pc /\ run'.from = Found /\ run'.call = c /\ run'.n = n /\ run'.rlo = rlo
    BY <2>1
  <2>3. run' # Idle
    BY <2>2 DEF Idle
  <2> QED BY <2>1, <2>2, <2>3
<1>2. Coming' = Found[1] /\ Shown' = Found[2] /\ Left' = 0
  BY <1>1 DEF Coming, Shown, Left
<1>3. Coming = Found[1] /\ Shown = Found[2] /\ Left = 0
  BY SeenIs
<1>4. Refined
  BY <1>1, <1>2, <1>3 DEF Refined, Steady
<1>5. open' /\ buff' = NULL => "snap" \in failing'
  BY DEF FlowInv, Steady
<1>6. open' = open
  BY DEF Steady
<1>7. /\ pc = "line" =>
           open' /\ LineFlow(run'.from[1], run'.from[2], run'.call, run'.rlo, r'.text,
                             buff'.text, core')
      /\ pc = "read" =>
           open' /\ ReadFlow(run'.from[1], run'.from[2], run'.call, run'.rlo, run'.n, r'.text,
                             buff'.text, core')
      /\ pc = "all" =>
           ~open' /\ AllFlow(run'.from[1], run'.from[2], run'.call, r'.text, core')
      /\ pc = "gets" =>
           ~open' /\ GetsFlow(run'.from[1], run'.from[2], run'.call, r'.text, core')
  BY <1>1, <1>6 DEF Goes
<1>8. FlowInv'
  BY <1>1, <1>5, <1>7 DEF FlowInv, LineFlow, ReadFlow, AllFlow, GetsFlow, NoneIn, Base
<1> QED BY <1>4, <1>8

-----------------------------------------------------------------------------
(* Lines.                                                                  *)

\* A call that has read nothing, but may have cleared its string.
LEMMA NothingRead ==
  ASSUME Tight, NEW name \in {"bsreadlna", "bsreadln", "bsreada", "bsread", "breada"}, NEW by,
         NEW end \in {"OK", "ERR"}, NEW p \in Seq(Char), NEW t, NEW u,
         Base(name, t) \in Seq(Char), u = Base(name, t),
         Returned(name, by, end, p, t, p, u)
  PROVE  Abstract!Next
<1> DEFINE n == <<>>
           v == Base(name, t)
<1>1. n \in Seq(Char) /\ n \o n = n /\ n \o p = p /\ v \o n = v
  BY NothingIs
<1>2. (n \o n) \o p = p /\ v \o (n \o n) = v
  BY <1>1
<1>3. Returned(name, by, end, (n \o n) \o p, t, n \o p, Base(name, t) \o (n \o n))
  BY <1>1, <1>2
<1> HIDE DEF n
<1> QED BY <1>1, <1>3, PartRepeated

\* Nothing is delivered only at the end.
LEMMA DeliversEnd ==
  ASSUME core \in Seq(Char), NEW n \in Nat, NEW k \in Delivers(n)
  PROVE  /\ k = 0 => n = 0 \/ core = <<>>
         /\ core = First(core, k) \o From(core, k)
         /\ k = n \/ From(core, k) = <<>> \/ (short /\ k > 0)
<1> DEFINE m == Min({n, Len(core)})
           l == Len(core)
<1>1. l \in Nat /\ (l = 0 <=> core = <<>>)
  BY NothingIs
<1>2. m = IF n <= l THEN n ELSE l
  BY <1>1, MinOfTwo
<1>3. k \in (IF short /\ m > 0 THEN 1 .. m ELSE {m})
  BY DEF Delivers
<1> HIDE DEF m
<1>4. k = 0 => n = 0 \/ l = 0
  BY <1>1, <1>2, <1>3
<1>5. k \in 0 .. l /\ (k = n \/ k = l \/ (short /\ k > 0))
  BY <1>1, <1>2, <1>3
<1>6. /\ core = First(core, k) \o From(core, k)
      /\ From(core, k) \in Seq(Char) /\ Len(From(core, k)) = l - k
  BY <1>5, CutIs
<1>7. k = l => From(core, k) = <<>>
  BY <1>1, <1>6, NothingIs
<1> QED BY <1>1, <1>4, <1>5, <1>6, <1>7

\* The conditions under which a call on an open stream takes place.
OnStream == StreamInv /\ FlowInv /\ Steady /\ NullIsNoRecord /\ open /\ IsStr(buff)

\* What OnStream says.
LEMMA OnStreamIs ==
  ASSUME OnStream
  PROVE  /\ StreamInv /\ FlowInv /\ Steady /\ NullIsNoRecord /\ open /\ open'
         /\ Pending = buff.text \o core /\ buff # NULL
         /\ core \in Seq(Char) /\ buff.text \in Seq(Char) /\ Pending \in Seq(Char)
         /\ IsStr(buff') => Pending' = buff'.text \o core' /\ buff' # NULL
<1>1. StreamInv /\ FlowInv /\ Steady /\ NullIsNoRecord /\ open /\ IsStr(buff)
  BY DEF OnStream
<1>2. buff # NULL /\ Pending = buff.text \o core
      /\ (IsStr(buff') => Pending' = buff'.text \o core' /\ buff' # NULL)
  BY <1>1, StrIsNotNull, PendingIs
<1>3. core \in Seq(Char) /\ buff.text \in Seq(Char) /\ open'
  BY <1>1 DEF StreamInv, IsStr, Steady
<1> QED BY <1>1, <1>2, <1>3, ConcatProperties

\* A call that ends, on a stream.
LEMMA EndsOnStream ==
  ASSUME OnStream, split = NULL, NEW s, NEW c, NEW end, Ends(s, c, end),
         EndFlow', IsStr(buff')
  PROVE  /\ FlowInv'
         /\ Returned(c.name, c.by, end, Found[1], Found[2], buff'.text \o core',
                     Leaves(c.name, end, s))
<1>1. StreamInv /\ FlowInv /\ Steady /\ NullIsNoRecord /\ buff' # NULL
      /\ Pending' = buff'.text \o core'
  BY OnStreamIs
<1> QED BY <1>1, EndsSeen

\* A call that goes on, on a stream.
LEMMA GoesOnStream ==
  ASSUME OnStream, split = NULL, NEW s, NEW c, NEW pc \in {"line", "read"}, NEW n, NEW rlo,
         GoesOn(s, c, pc, n, rlo), EndFlow', IsStr(buff'), Goes(c, pc, n, rlo, s)
  PROVE  FlowInv' /\ Refined
<1>1. StreamInv /\ FlowInv /\ Steady /\ NullIsNoRecord /\ buff' # NULL
  BY OnStreamIs
<1> QED BY <1>1, GoesOnSeen

\* What holds at the end holds while the core stream is left alone.
LEMMA EndFlowStays ==
  ASSUME FlowInv, Steady, core' = core, isEOF' = isEOF
  PROVE  EndFlow'
BY DEF FlowInv, EndFlow, Tight, Steady

\* A line that is begun.
LEMMA LineFlows ==
  ASSUME OnStream, run = Idle, NEW b, IsStr(b), b.text = buff.text, NEW c,
         c.name \in {"bsreadlna", "bsreadln"}, c.by # {}, NEW s, IsStr(s),
         s.text = Base(c.name, r.text), Line(b, s, c)
  PROVE  FlowInv' /\ Refined
<1> DEFINE t == buff.text
           by == c.by
           name == c.name
           i == FirstOf(b.text, c.by)
           B == Base(c.name, r.text)
<1>1. /\ StreamInv /\ FlowInv /\ Steady /\ Pending = t \o core /\ core \in Seq(Char)
      /\ t \in Seq(Char) /\ Pending \in Seq(Char) /\ open
  BY OnStreamIs
<1>2. split = NULL /\ Found[1] = Pending /\ Found[2] = r.text
  BY <1>1, IdleIs DEF Found
<1>3. core' = core /\ isEOF' = isEOF
  BY DEF Line
<1>4. EndFlow'
  BY <1>1, <1>3, EndFlowStays
<1>5. B \in Seq(Char) /\ B = s.text
  BY DEF IsStr
<1>6. ASSUME NEW end, Ends(s, c, end), IsStr(buff'), buff'.text = t, end \in {"OK", "ERR"}, Tight
      PROVE  FlowInv' /\ Refined
  <2>1. FlowInv' /\ Returned(c.name, c.by, end, Pending, r.text, Pending, Leaves(c.name, end, s))
    BY <1>1, <1>2, <1>3, <1>4, <1>6, EndsOnStream
  <2>2. Leaves(c.name, end, s) = B
    BY <1>5 DEF Leaves
  <2>3. Abstract!Next
    BY <1>1, <1>5, <1>6, <2>1, <2>2, NothingRead
  <2> QED BY <2>1, <2>3 DEF Refined
<1>7. CASE Refused(b, maxBuffSz + 1) /\ buff' = b /\ Ends(s, c, "ERR")
  BY <1>6, <1>7 DEF Refused, Tight
<1>8. ASSUME NEW g \in Grown(b, maxBuffSz + 1), LineTurn(b, s, c, g, i)
      PROVE  FlowInv' /\ Refined
  <2>1. IsStr(g) /\ g.text = t
    <3>1. maxBuffSz + 1 \in Nat
      BY <1>1 DEF StreamInv
    <3> QED BY <3>1, GrownIs
  <2>2. IsStr(Bare(g)) /\ Bare(g).text = t
    BY <2>1 DEF IsStr, Bare
  <2>3. CASE i > 0 /\ buff' = Ended(g, From(b.text, i))
             /\ \E x \in Concat(s, First(b.text, i)) : Ends(x, c, "OK")
    <3> DEFINE d == First(t, i)
               q == From(t, i)
    <3>1. i \in 1 .. Len(t) /\ EndsLine(<<>> \o d, by)
      <4>1. NoneIn(<<>>, by) /\ <<>> \in Seq(Char)
        BY NothingIs DEF NoneIn
      <4> QED BY <1>1, <2>3, <4>1, FirstOfEnds
    <3>2. i \in 0 .. Len(t)
      BY <3>1
    <3>3. d \o q = t /\ d \in Seq(Char) /\ q \in Seq(Char)
      BY <1>1, <3>2, CutIs
    <3>4. PICK x \in Concat(s, d) : Ends(x, c, "OK")
      BY <2>3
    <3>5. buff' = Ended(g, q)
      BY <2>3
    <3> HIDE DEF d, q, i, t, by
    <3>6. EndsLine(d, by)
      BY <3>1, <3>3, NothingIs
    <3>7. IsStr(buff') /\ buff'.text = q
      BY <2>1, <3>3, <3>5, EndedIs
    <3>8. x.text = s.text \o d
      BY <3>3, <3>4, ConcatIs
    <3>9. FlowInv' /\ Returned(name, by, "OK", Pending, r.text, q \o core, Leaves(name, "OK", x))
      BY <1>2, <1>3, <1>4, <3>4, <3>7, EndsOnStream DEF by
    <3>10. Pending = d \o (q \o core) /\ q \o core \in Seq(Char)
      <4>3. d \in Seq(Char) /\ q \in Seq(Char) /\ core \in Seq(Char)
        BY <1>1, <3>3
      <4>1. (d \o q) \o core = d \o (q \o core)
        BY <4>3, Regroup
      <4>2. q \o core \in Seq(Char)
        BY <1>1, <3>3, ConcatProperties
      <4> QED BY <1>1, <3>3, <4>1, <4>2
    <3>11. Leaves(name, "OK", x) = B \o d
      BY <1>5, <3>8 DEF Leaves
    <3>12. d # <<>>
      BY <3>6 DEF EndsLine
    <3> DEFINE rest == q \o core
    <3>13. Returned(name, by, "OK", d \o rest, r.text, rest, B \o d) /\ rest \in Seq(Char)
      BY <3>9, <3>10, <3>11
    <3>14. name \in {"bsreadlna", "bsreadln"} /\ by # {} /\ LineOf(d, rest, by)
      BY <3>6 DEF LineOf, by
    <3> HIDE DEF rest, name
    <3>15. Abstract!Next
      BY <3>3, <3>12, <3>13, <3>14, LineTaken DEF name
    <3> QED BY <3>9, <3>15 DEF Refined
  <2>4. CASE /\ i > 0 /\ buff' = Bare(g)
             /\ ConcatRefused(s, First(b.text, i)) /\ Ends(s, c, "OK")
    BY <1>6, <2>2, <2>4 DEF ConcatRefused, Refused, Tight
  <2>5. CASE i = 0 /\ buff' = Bare(g) /\ ConcatRefused(s, b.text) /\ Ends(s, c, "ERR")
    BY <1>6, <2>2, <2>5 DEF ConcatRefused, Refused, Tight
  <2>6. CASE /\ i = 0 /\ buff' = Bare(g)
             /\ \E x \in Concat(s, b.text) : GoesOn(x, c, "line", 0, Len(s.text))
    <3>1. PICK x \in Concat(s, t) : GoesOn(x, c, "line", 0, Len(s.text))
      BY <2>6
    <3>2. x.text = s.text \o t
      BY <1>1, <3>1, ConcatIs, ZenonT(60)
    <3>3. NoneIn(t, by)
      BY <1>1, <2>6, FirstOfFinds
    <3>4. t \o <<>> = t /\ <<>> \in Seq(Char)
      BY <1>1, NothingIs
    <3>5. IsStr(buff') /\ buff'.text = t
      BY <2>2, <2>6
    <3> HIDE DEF t, i, by
    <3>6. /\ Pending = (t \o <<>>) \o core /\ x.text = B \o (t \o <<>>)
          /\ NoneIn(t \o <<>>, by)
      BY <1>1, <1>5, <3>2, <3>3, <3>4
    <3>7. LineFlow(Pending, r.text, c, Len(s.text), x.text, t, core)
      BY <1>1, <1>5, <3>4, <3>6 DEF LineFlow, by
    <3>8. Goes(c, "line", 0, Len(s.text), x)
      BY <1>1, <1>2, <1>3, <3>5, <3>7 DEF Goes
    <3> QED BY <1>2, <1>4, <3>1, <3>5, <3>8, GoesOnStream
  <2> QED BY <1>8, <2>3, <2>4, <2>5, <2>6 DEF LineTurn
<1>9. \/ Refused(b, maxBuffSz + 1) /\ buff' = b /\ Ends(s, c, "ERR")
      \/ \E g \in Grown(b, maxBuffSz + 1) : LineTurn(b, s, c, g, i)
  BY Zenon DEF Line, LineTurn, Bare
<1> QED BY <1>7, <1>8, <1>9

\* A line that goes on.
LEMMA LineNextFlows ==
  ASSUME OnStream, LineNext
  PROVE  FlowInv' /\ Refined
<1> DEFINE c == run.call
           name == c.name
           by == c.by
           t == buff.text
           p == run.from[1]
           B == Base(name, run.from[2])
<1>1. /\ StreamInv /\ FlowInv /\ Steady /\ Pending = t \o core /\ core \in Seq(Char)
      /\ t \in Seq(Char) /\ open /\ run.pc = "line"
  BY OnStreamIs DEF LineNext
<1>2. /\ split = NULL /\ IsStr(buff) /\ maxBuffSz \in Nat \ {0} /\ Found = run.from
      /\ IsStr(r) /\ r.text \in Seq(Char)
  BY <1>1 DEF StreamInv, RunOK, OnStream, Found, Idle, Held, IsStr
<1>3. LineFlow(p, run.from[2], c, run.rlo, r.text, t, core)
  BY <1>1 DEF FlowInv
<1>4. PICK e \in Seq(Char) : p = (t \o e) \o core /\ r.text = B \o (t \o e) /\ NoneIn(t \o e, by)
  BY <1>3 DEF LineFlow
<1>5. name \in {"bsreadlna", "bsreadln"} /\ by # {} /\ B \in Seq(Char) /\ run.rlo = Len(B)
  BY <1>3 DEF LineFlow
<1> DEFINE d == t \o e
<1>6. d \in Seq(Char) /\ p = d \o core /\ r.text = B \o d /\ NoneIn(d, by) /\ p \in Seq(Char)
      /\ Len(r.text) = run.rlo + Len(d) /\ Len(B) \in Nat /\ Len(d) \in Nat
  <2>1. d \in Seq(Char)
    BY <1>1, ConcatProperties
  <2>2. p = d \o core /\ r.text = B \o d /\ NoneIn(d, by)
    BY <1>4
  <2> HIDE DEF d, B, p, by
  <2>3. d \o core \in Seq(Char) /\ Len(B \o d) = Len(B) + Len(d)
    BY <1>1, <1>5, <2>1, ConcatProperties
  <2> QED BY <1>5, <2>1, <2>2, <2>3, LenProperties
<1>7. ASSUME NEW end, NEW s, Ends(s, c, end), EndFlow', IsStr(buff')
      PROVE  FlowInv' /\ Returned(name, by, end, p, run.from[2], buff'.text \o core', s.text)
  <2>1. Leaves(name, end, s) = s.text
    BY <1>5 DEF Leaves
  <2> QED BY <1>2, <1>7, <2>1, EndsOnStream
<1>8. CASE Refused(r, LineRoom) /\ Ends(r, c, "ERR") /\ UNCHANGED <<core, isEOF, buff>>
  <2>1. EndFlow'
    BY <1>1, <1>8, EndFlowStays
  <2>2. FlowInv' /\ Returned(name, by, "ERR", p, run.from[2], t \o core, r.text)
    BY <1>2, <1>7, <1>8, <2>1
  <2>3. Returned(name, by, "ERR", (t \o e) \o core, run.from[2], t \o core, B \o (t \o e))
    BY <1>4, <2>2
  <2>4. Tight
    BY <1>8 DEF Refused, Tight
  <2> HIDE DEF name, by, t
  <2>5. Abstract!Next
    BY <1>1, <1>5, <2>3, <2>4, PartRepeated
  <2> QED BY <2>2, <2>5 DEF Refined
<1>9. ASSUME NEW g \in Grown(r, LineRoom), NEW k \in Delivers(maxBuffSz), NEW chunk,
             chunk = First(core, k), NEW i, i = FirstOf(chunk, by),
             LineNextTurn(g, k, chunk, i)
      PROVE  FlowInv' /\ Refined
  <2> DEFINE rest == From(core, k)
  <2>1. /\ chunk \in Seq(Char) /\ Len(chunk) = k /\ rest \in Seq(Char) /\ core' = rest
        /\ core = chunk \o rest /\ (k = 0 => core = <<>>)
    <3>1. maxBuffSz \in Nat
      BY <1>2
    <3>2. core = First(core, k) \o From(core, k) /\ (k = 0 => core = <<>>)
      BY <1>1, <1>2, <3>1, DeliversEnd
    <3>3. /\ First(core, k) \in Seq(Char) /\ Len(First(core, k)) = k
          /\ From(core, k) \in Seq(Char)
      BY <1>1, <3>1, DeliversIs
    <3> QED BY <1>9, <3>2, <3>3 DEF LineNextTurn
  <2>2. IsStr(g)
    <3>1. LineRoom \in Nat
      BY <1>2, LenProperties DEF LineRoom
    <3> QED BY <1>2, <3>1, GrownIs
  <2> HIDE DEF rest
  <2>3. CASE /\ k = 0 /\ isEOF' = TRUE /\ buff' = Unended(buff, <<>>)
             /\ Ends(Ended(g, r.text), c, IF Len(r.text) = run.rlo THEN "ERR" ELSE "OK")
    <3> DEFINE end == IF Len(r.text) = run.rlo THEN "ERR" ELSE "OK"
               s == Ended(g, r.text)
    <3>1. /\ core = <<>> /\ core' = core /\ rest = core
      <4>1. core = <<>>
        BY <2>1, <2>3
      <4>2. rest = <<>>
        BY <2>1, <4>1, BothEmpty
      <4> QED BY <2>1, <4>1, <4>2
    <3>2. IsStr(buff') /\ buff'.text = <<>>
      BY <1>2, <2>3, EndedIs, NothingIs
    <3>3. s.text = r.text
      BY <1>2, <2>2, EndedIs
    <3>4. EndFlow'
      BY <3>1 DEF EndFlow
    <3>5. Ends(s, c, end)
      BY <2>3
    <3> HIDE DEF s
    <3>6. end = IF d = <<>> THEN "ERR" ELSE "OK"
      <4>1. d = <<>> <=> Len(d) = 0
        BY <1>6, NothingIs
      <4>2. run.rlo = Len(B) /\ Len(r.text) = run.rlo + Len(d)
        BY <1>5, <1>6
      <4> DEFINE n == Len(d)
                 m == Len(B)
                 l == Len(r.text)
      <4>3. n \in Nat /\ m \in Nat /\ l = m + n /\ run.rlo = m
        BY <1>6, <4>2
      <4> HIDE DEF n, m, l
      <4>4. l = run.rlo <=> n = 0
        BY <4>3
      <4> QED BY <4>1, <4>4 DEF n, l
    <3> HIDE DEF end
    <3>7. FlowInv' /\ Returned(name, by, end, p, run.from[2], <<>> \o core', s.text)
      BY <1>7, <3>2, <3>4, <3>5
    <3>8. <<>> \o core' = <<>> /\ p = d \o <<>>
      BY <1>6, <3>1, NothingIs
    <3>9. Returned(name, by, end, d \o <<>>, run.from[2], <<>>, B \o d)
      BY <1>6, <3>3, <3>7, <3>8
    <3>10. LineOf(d, <<>>, by)
      BY <1>6 DEF LineOf
    <3> HIDE DEF d, name, by
    <3>11. Abstract!Next
      BY <1>5, <1>6, <3>6, <3>9, <3>10, NothingIs, LineTaken
    <3> QED BY <3>7, <3>11 DEF Refined
  <2>4. CASE /\ i > 0 /\ buff' = Unended(buff, From(chunk, i))
             /\ Ends(Ended(g, r.text \o First(chunk, i)), c, "OK") /\ UNCHANGED isEOF
    <3> DEFINE f == First(chunk, i)
               q == From(chunk, i)
               D == d \o f
               s == Ended(g, r.text \o f)
    <3>1. i \in 1 .. Len(chunk) /\ EndsLine(D, by)
      BY <1>6, <1>9, <2>1, <2>4, FirstOfEnds
    <3>2. i \in 0 .. Len(chunk)
      BY <3>1
    <3>3. f \o q = chunk /\ f \in Seq(Char) /\ q \in Seq(Char)
      BY <2>1, <3>2, CutIs
    <3>4. IsStr(buff') /\ buff'.text = q
      BY <1>2, <2>4, <3>3, EndedIs
    <3>5. EndFlow'
      <4>1. core # <<>>
        <5>1. Len(chunk) # 0
          BY <2>1, <3>1
        <5>2. chunk # <<>>
          BY <5>1, NothingIs
        <5> QED BY <2>1, <5>2, BothEmpty
      <4> QED BY <1>1, <2>4, <4>1 DEF FlowInv, EndFlow, Tight, Steady
    <3>6. s.text = r.text \o f /\ Ends(s, c, "OK")
      <4>1. r.text \o f \in Seq(Char)
        BY <1>2, <3>3, ConcatProperties
      <4> QED BY <2>2, <2>4, <4>1, EndedIs
    <3> HIDE DEF f, q, s
    <3>7. FlowInv' /\ Returned(name, by, "OK", p, run.from[2], q \o rest, s.text)
      BY <1>7, <2>1, <3>4, <3>5, <3>6
    <3>8. p = D \o (q \o rest) /\ D \in Seq(Char) /\ q \o rest \in Seq(Char)
      <4> HIDE DEF d
      <4>1. core = f \o (q \o rest) /\ q \o rest \in Seq(Char)
        <5>1. (f \o q) \o rest = f \o (q \o rest)
          BY <2>1, <3>3, Regroup, ZenonT(60)
        <5> QED BY <2>1, <3>3, <5>1, ConcatProperties
      <4>2. (d \o f) \o (q \o rest) = d \o (f \o (q \o rest))
        BY <1>6, <3>3, <4>1, Regroup
      <4> QED BY <1>6, <3>3, <4>1, <4>2, ConcatProperties
    <3>9. s.text = B \o D
      <4> HIDE DEF d, B
      <4>1. d \in Seq(Char) /\ B \in Seq(Char) /\ f \in Seq(Char)
        BY <1>5, <1>6, <3>3
      <4>2. (B \o d) \o f = B \o (d \o f)
        BY <4>1, Regroup
      <4> QED BY <1>6, <3>6, <4>2
    <3>10. D # <<>>
      BY <3>1 DEF EndsLine
    <3>11. Returned(name, by, "OK", D \o (q \o rest), run.from[2], q \o rest, B \o D)
      BY <3>7, <3>8, <3>9
    <3>12. LineOf(D, q \o rest, by)
      BY <3>1 DEF LineOf
    <3> HIDE DEF D, name, by
    <3>13. Abstract!Next
      BY <1>5, <3>8, <3>10, <3>11, <3>12, LineTaken
    <3> QED BY <3>7, <3>13 DEF Refined
  <2>5. CASE /\ k > 0 /\ i = 0 /\ UNCHANGED <<isEOF, buff>>
             /\ GoesOn(Unended(g, r.text \o chunk), c, "line", 0, run.rlo)
    <3> DEFINE s == Unended(g, r.text \o chunk)
               E == e \o chunk
    <3>1. EndFlow'
      <4>1. core # <<>>
        <5>1. chunk # <<>>
          BY <2>1, <2>5, NothingIs
        <5> QED BY <2>1, <5>1, BothEmpty
      <4> QED BY <1>1, <2>5, <4>1 DEF FlowInv, EndFlow, Tight, Steady
    <3>2. s.text = r.text \o chunk
      <4>1. r.text \o chunk \in Seq(Char)
        BY <1>2, <2>1, ConcatProperties
      <4> QED BY <2>2, <4>1, EndedIs
    <3>3. E \in Seq(Char) /\ t \o E = d \o chunk
      BY <1>1, <2>1, Regroup, ConcatProperties, ZenonT(60)
    <3>4. p = (t \o E) \o rest /\ s.text = B \o (t \o E) /\ NoneIn(t \o E, by)
      <4> HIDE DEF d, B, E, s, t, by
      <4>1. (d \o chunk) \o rest = d \o (chunk \o rest)
        BY <1>6, <2>1, Regroup
      <4>2. (B \o d) \o chunk = B \o (d \o chunk)
        BY <1>5, <1>6, <2>1, Regroup
      <4>3. NoneIn(chunk, by)
        BY <1>9, <2>1, <2>5, FirstOfFinds DEF by
      <4>4. NoneIn(d \o chunk, by)
        BY <1>6, <2>1, <4>3, NoneInBoth
      <4> QED BY <1>6, <2>1, <3>2, <3>3, <4>1, <4>2, <4>4
    <3>5. GoesOn(s, c, "line", 0, run.rlo) /\ buff' = buff
      BY <2>5
    <3> HIDE DEF s, E
    <3>6. LineFlow(p, run.from[2], c, run.rlo, s.text, t, rest)
      BY <1>1, <1>5, <3>3, <3>4 DEF LineFlow
    <3>7. Goes(c, "line", 0, run.rlo, s)
      BY <1>1, <1>2, <2>1, <3>5, <3>6 DEF Goes
    <3> QED BY <1>2, <3>1, <3>5, <3>7, GoesOnStream
  <2> QED BY <1>9, <2>3, <2>4, <2>5 DEF LineNextTurn
<1>10. \/ Refused(r, LineRoom) /\ Ends(r, c, "ERR") /\ UNCHANGED <<core, isEOF, buff>>
       \/ \E g \in Grown(r, LineRoom), k \in Delivers(maxBuffSz) :
            LineNextTurn(g, k, First(core, k), FirstOf(First(core, k), by))
  BY Zenon DEF LineNext, LineNextTurn
<1> QED BY <1>8, <1>9, <1>10

-----------------------------------------------------------------------------
(* The calls that read, as they begin.                                     *)

\* A call on a stream that is not busy.
LEMMA ReadyOnStream ==
  ASSUME StreamInv, FlowInv, Steady, NullIsNoRecord, Ready
  PROVE  /\ OnStream /\ run = Idle /\ split = NULL /\ open
         /\ IsStr(r) /\ r.text \in Seq(Char) /\ IsStr(buff) /\ buff.text \in Seq(Char)
         /\ core \in Seq(Char) /\ Pending = buff.text \o core /\ Pending \in Seq(Char)
         /\ Found[1] = Pending /\ Found[2] = r.text
<1>1. run = Idle /\ split = NULL /\ Held(r) /\ Fits(buff) /\ open
  BY ReadyIs DEF Ready
<1>2. IsStr(r) /\ r.text \in Seq(Char) /\ IsStr(buff) /\ buff.text \in Seq(Char)
  BY <1>1, FitsHeld, HeldIs
<1>3. OnStream
  BY <1>1, <1>2 DEF OnStream
<1>4. Found[1] = Pending /\ Found[2] = r.text
  BY <1>1 DEF Found
<1> QED BY <1>1, <1>2, <1>3, <1>4, OnStreamIs

\* A call that returns at once and has moved nothing, on a stream.
LEMMA ReturnsOnStream ==
  ASSUME OnStream, run = Idle, NEW name, NEW by, NEW end,
         Returns(name, by, end), IsStr(buff')
  PROVE  /\ FlowInv'
         /\ Returned(name, by, end, Pending, r.text, buff'.text \o core, r'.text)
<1>1. StreamInv /\ FlowInv /\ Steady /\ NullIsNoRecord /\ buff' # NULL
      /\ Pending' = buff'.text \o core'
  BY OnStreamIs
<1>2. core' = core
  BY DEF Returns
<1> QED BY <1>1, <1>2, ReturnsSeen

\* A line that ends nowhere is refused.
LEMMA LineRefused ==
  ASSUME NEW name \in {"bsreadlna", "bsreadln"}, NEW p, NEW t,
         Returned(name, {}, "ERR", p, t, p, t)
  PROVE  Abstract!Next
<1>1. ret'.call = name /\ ret'.by = {} /\ ret'.end = "ERR" /\ Kept
      /\ Coming' = Coming /\ Shown' = Shown /\ Left' = Left
  BY DEF Returned
<1>2. Abstract!Stays(<<Coming, Shown, Left>>)
  BY <1>1 DEF Abstract!Stays, Coming, Shown, Left
<1>3. Abstract!Line
  BY <1>1, <1>2 DEF Abstract!Line, Abstract!Does, Coming, Shown, Left
<1> QED BY <1>1, <1>3 DEF Abstract!Next, Abstract!Stays, Kept

\* A call that returns with an error on a heap that refuses, and has done nothing.
LEMMA RefusalFlows ==
  ASSUME OnStream, run = Idle, Tight, NEW name, NEW by, NEW end, Returns(name, by, end),
         buff' = buff, r' = r
  PROVE  FlowInv' /\ Refined
<1>1. IsStr(buff) /\ Pending = buff.text \o core /\ Pending \in Seq(Char)
  BY OnStreamIs DEF OnStream
<1>2. FlowInv' /\ Returned(name, by, end, Pending, r.text, Pending, r.text)
  BY <1>1, ReturnsOnStream
<1> QED BY <1>1, <1>2, NothingDone DEF Refined

\* A call that could not grow the buffer.
LEMMA NotClearedFlows ==
  ASSUME OnStream, run = Idle, NEW c, NotCleared(c)
  PROVE  FlowInv' /\ Refined
<1>1. Tight /\ Returns(c.name, c.by, "ERR") /\ buff' = buff /\ r' = r
  BY DEF NotCleared, Refused, Tight
<1> QED BY <1>1, RefusalFlows

\* The buffer grown.
LEMMA GrownBuffer ==
  ASSUME OnStream, NEW b \in Grown(buff, maxBuffSz + 1)
  PROVE  IsStr(b) /\ b.text = buff.text
<1>1. maxBuffSz + 1 \in Nat /\ IsStr(buff)
  BY OnStreamIs DEF OnStream, StreamInv
<1> QED BY <1>1, GrownIs

\* bsreadlna.
LEMMA bsreadlnaFlows ==
  ASSUME StreamInv, FlowInv, Steady, NullIsNoRecord, NEW terms, bsreadlna(terms)
  PROVE  FlowInv' /\ Refined
<1> DEFINE c == [name |-> "bsreadlna", by |-> terms]
<1>1. /\ Ready
      /\ \/ terms # {} /\ Line(buff, r, c)
         \/ /\ terms = {} /\ Returns("bsreadlna", terms, "ERR") /\ UNCHANGED <<buff, r>>
  BY Zenon DEF bsreadlna
<1>2. OnStream /\ run = Idle /\ IsStr(r) /\ IsStr(buff) /\ Pending = buff.text \o core
  BY <1>1, ReadyOnStream
<1>3. c.name = "bsreadlna" /\ c.by = terms
  OBVIOUS
<1> HIDE DEF c
<1>4. CASE terms # {} /\ Line(buff, r, c)
  <2>1. r.text = Base(c.name, r.text)
    BY <1>3 DEF Base
  <2> QED BY <1>2, <1>3, <1>4, <2>1, LineFlows
<1>5. CASE terms = {} /\ Returns("bsreadlna", terms, "ERR") /\ UNCHANGED <<buff, r>>
  <2>1. FlowInv' /\ Returned("bsreadlna", {}, "ERR", Pending, r.text, Pending, r.text)
    BY <1>2, <1>5, ReturnsOnStream
  <2> QED BY <2>1, LineRefused DEF Refined
<1> QED BY <1>1, <1>4, <1>5

\* bsreadln.
LEMMA bsreadlnFlows ==
  ASSUME StreamInv, FlowInv, Steady, NullIsNoRecord, NEW terms, bsreadln(terms)
  PROVE  FlowInv' /\ Refined
<1> DEFINE c == [name |-> "bsreadln", by |-> terms]
<1>1. /\ Ready
      /\ \/ terms # {} /\ NotCleared(c)
         \/ terms # {} /\ \E b \in Grown(buff, maxBuffSz + 1) : Line(b, Cleared, c)
         \/ /\ terms = {} /\ Returns("bsreadln", terms, "ERR") /\ UNCHANGED <<buff, r>>
  BY Zenon DEF bsreadln
<1>2. OnStream /\ run = Idle /\ IsStr(r) /\ IsStr(buff) /\ Pending = buff.text \o core
      /\ Held(Cleared) /\ Cleared.text = <<>>
  BY <1>1, ReadyOnStream, ReadyIs, ClearedIs
<1>3. c.name = "bsreadln" /\ c.by = terms
  OBVIOUS
<1> HIDE DEF c
<1>4. CASE terms # {} /\ \E b \in Grown(buff, maxBuffSz + 1) : Line(b, Cleared, c)
  <2>1. PICK b \in Grown(buff, maxBuffSz + 1) : Line(b, Cleared, c)
    BY <1>4
  <2>2. IsStr(b) /\ b.text = buff.text /\ IsStr(Cleared)
    BY <1>2, <2>1, GrownBuffer, HeldIs
  <2>3. Cleared.text = Base(c.name, r.text)
    BY <1>2, <1>3 DEF Base
  <2> QED BY <1>2, <1>3, <1>4, <2>1, <2>2, <2>3, LineFlows
<1>5. CASE terms = {} /\ Returns("bsreadln", terms, "ERR") /\ UNCHANGED <<buff, r>>
  <2>1. FlowInv' /\ Returned("bsreadln", {}, "ERR", Pending, r.text, Pending, r.text)
    BY <1>2, <1>5, ReturnsOnStream
  <2> QED BY <2>1, LineRefused DEF Refined
<1>6. CASE NotCleared(c)
  BY <1>2, <1>6, NotClearedFlows
<1> QED BY <1>1, <1>4, <1>5, <1>6

\* A read that is begun.
LEMMA ReadFlows ==
  ASSUME OnStream, run = Idle, NEW b, IsStr(b), b.text = buff.text, NEW c,
         c.name \in {"bsreada", "bsread"}, c.by \in Nat \ {0}, NEW s, IsStr(s),
         s.text = Base(c.name, r.text), Read(b, s, c)
  PROVE  FlowInv' /\ Refined
<1> DEFINE t == buff.text
           by == c.by
           name == c.name
           B == Base(c.name, r.text)
<1>1. /\ StreamInv /\ FlowInv /\ Steady /\ Pending = t \o core /\ core \in Seq(Char)
      /\ t \in Seq(Char) /\ Pending \in Seq(Char) /\ open /\ maxBuffSz \in Nat
  BY OnStreamIs DEF StreamInv
<1>2. split = NULL /\ Found[1] = Pending /\ Found[2] = r.text
  BY <1>1, IdleIs DEF Found
<1>3. B \in Seq(Char) /\ B = s.text /\ Len(B) \in Nat
  BY LenProperties DEF IsStr
<1>4. ASSUME NEW end, NEW x, Ends(x, c, end), EndFlow', IsStr(buff')
      PROVE  FlowInv' /\ Returned(name, by, end, Pending, r.text, buff'.text \o core', x.text)
  <2>1. Leaves(name, end, x) = x.text
    BY DEF Leaves
  <2> QED BY <1>2, <1>4, <2>1, EndsOnStream
<1>5. ASSUME Ends(s, c, "ERR"), IsStr(buff'), buff'.text = t, core' = core, isEOF' = isEOF, Tight
      PROVE  FlowInv' /\ Refined
  <2>1. EndFlow'
    BY <1>1, <1>5, EndFlowStays
  <2>2. FlowInv' /\ Returned(name, by, "ERR", Pending, r.text, Pending, B)
    BY <1>1, <1>3, <1>4, <1>5, <2>1
  <2> QED BY <1>1, <1>3, <1>5, <2>2, NothingRead DEF Refined
<1>6. ASSUME Ends(s, c, "ERR"), buff' = b, t = <<>>, core = <<>>, core' = core
      PROVE  FlowInv' /\ Refined
  <2> DEFINE n == <<>>
  <2>1. EndFlow'
    BY <1>6 DEF EndFlow
  <2>2. n \in Seq(Char) /\ n \o n = n /\ B \o n = B /\ Len(n) = 0
    BY <1>3, NothingIs
  <2>3. Pending = n
    BY <1>1, <1>6, <2>2
  <2>4. FlowInv' /\ Returned(name, by, "ERR", n \o n, r.text, n, B \o n)
    BY <1>3, <1>4, <1>6, <2>1, <2>2, <2>3
  <2>5. Enough(n, n, by)
    BY <2>2 DEF Enough
  <2> QED BY <2>2, <2>4, <2>5, CharsTaken DEF Refined
<1>7. CASE /\ t = <<>> /\ isEOF
           /\ Ends(s, c, "ERR") /\ buff' = b /\ UNCHANGED <<core, isEOF>>
  <2>1. core = <<>> \/ Tight
    BY <1>1, <1>7 DEF FlowInv, EndFlow
  <2> QED BY <1>5, <1>6, <1>7, <2>1
<1>8. CASE t = <<>> /\ ReadAtOnce(b, s, c)
  <2>1. PICK k \in Delivers(c.by) :
          /\ core' = From(core, k) /\ isEOF' = (k = 0)
          /\ IF k = 0 THEN Ends(s, c, "ERR")
             ELSE Ends(Ended(s, s.text \o First(core, k)), c, "OK")
    BY <1>8 DEF ReadAtOnce
  <2>2. buff' = b
    BY <1>8 DEF ReadAtOnce
  <2> DEFINE d == First(core, k)
             rest == From(core, k)
  <2>3. by \in Nat \ {0} /\ k = 0 => by = 0 \/ core = <<>>
    BY <1>1, DeliversEnd
  <2>4. /\ core = d \o rest
        /\ k = by \/ rest = <<>> \/ (short /\ k > 0)
    BY <1>1, DeliversEnd
  <2>5. d \in Seq(Char) /\ Len(d) = k /\ rest \in Seq(Char) /\ k \in 0 .. by /\ k \in Nat
    BY <1>1, DeliversIs
  <2> HIDE DEF d, rest
  <2>6. CASE k = 0
    <3>1. core = <<>>
      BY <2>3, <2>6
    <3>2. core' = core
      BY <2>1, <2>4, <2>5, <3>1, BothEmpty DEF rest
    <3> QED BY <1>6, <1>8, <2>1, <2>2, <2>6, <3>1, <3>2
  <2>7. CASE k # 0
    <3> DEFINE x == Ended(s, s.text \o d)
    <3>1. Ends(x, c, "OK") /\ core' = rest /\ (isEOF' = FALSE)
      BY <2>1, <2>7 DEF d, rest
    <3>2. x.text = B \o d
      <4>1. s.text \o d \in Seq(Char)
        BY <1>3, <2>5, ConcatProperties
      <4>2. x.text = s.text \o d
        BY <4>1, EndedIs
      <4> HIDE DEF x, B
      <4> QED BY <1>3, <4>2
    <3> HIDE DEF x
    <3>3. EndFlow'
      BY <3>1 DEF EndFlow
    <3>4. <<>> \o rest = rest /\ <<>> \o core = core
      BY <1>1, <2>5, NothingIs
    <3>5. FlowInv' /\ Returned(name, by, "OK", Pending, r.text, <<>> \o rest, x.text)
      BY <1>4, <1>8, <2>2, <3>1, <3>3
    <3>6. Returned(name, by, "OK", d \o rest, r.text, rest, B \o d)
      BY <1>1, <1>8, <2>4, <3>2, <3>4, <3>5
    <3>7. d # <<>>
      BY <2>5, <2>7, NothingIs
    <3>8. Enough(d, rest, by)
      BY <2>3, <2>4, <2>5, <3>7 DEF Enough
    <3> QED BY <2>3, <2>5, <3>5, <3>6, <3>7, <3>8, CharsTaken DEF Refined
  <2> QED BY <2>6, <2>7
<1>9. CASE ReadBuffered(b, s, c)
  <2>1. core' = core /\ isEOF' = isEOF
    BY <1>9 DEF ReadBuffered
  <2>2. CASE Refused(b, maxBuffSz + 1) /\ Ends(s, c, "ERR") /\ buff' = b
    BY <1>5, <2>1, <2>2 DEF Refused, Tight
  <2>3. CASE \E g \in Grown(b, maxBuffSz + 1) :
               GoesOn(s, c, "read", c.by + Len(s.text), Len(s.text)) /\ buff' = g
    <3>1. PICK g \in Grown(b, maxBuffSz + 1) :
            GoesOn(s, c, "read", c.by + Len(s.text), Len(s.text)) /\ buff' = g
      BY <2>3
    <3>2. IsStr(buff') /\ buff'.text = t
      <4>1. maxBuffSz + 1 \in Nat
        BY <1>1
      <4> QED BY <3>1, <4>1, GrownIs
    <3>3. EndFlow'
      BY <1>1, <2>1, EndFlowStays
    <3> HIDE DEF B, t
    <3>4. /\ <<>> \in Seq(Char) /\ Pending = <<>> \o (t \o core) /\ s.text = B \o <<>>
      BY <1>1, <1>3, NothingIs
    <3>5. Len(s.text) = Len(B) /\ c.by + Len(s.text) = Len(s.text) + c.by
      BY <1>3
    <3>6. ReadFlow(Pending, r.text, c, Len(s.text), c.by + Len(s.text), s.text, t, core)
      BY <1>3, <3>4, <3>5 DEF ReadFlow, B
    <3>7. Goes(c, "read", c.by + Len(s.text), Len(s.text), s)
      BY <1>1, <1>2, <2>1, <3>2, <3>6 DEF Goes
    <3> QED BY <1>2, <3>1, <3>2, <3>3, <3>7, GoesOnStream
  <2> QED BY <1>9, <2>2, <2>3 DEF ReadBuffered
<1>10. \/ t = <<>> /\ isEOF /\ Ends(s, c, "ERR") /\ buff' = b /\ UNCHANGED <<core, isEOF>>
       \/ t = <<>> /\ ReadAtOnce(b, s, c)
       \/ ReadBuffered(b, s, c)
  BY Zenon DEF Read, ReadAtOnce, ReadBuffered
<1> QED BY <1>7, <1>8, <1>9, <1>10

\* bsreada.
LEMMA bsreadaFlows ==
  ASSUME StreamInv, FlowInv, Steady, NullIsNoRecord, NEW n \in Sizes, bsreada(n)
  PROVE  FlowInv' /\ Refined
<1> DEFINE c == [name |-> "bsreada", by |-> n]
<1>1. Ready /\ Read(buff, r, c)
  BY DEF bsreada
<1>2. c.by \in Nat \ {0} /\ c.name = "bsreada"
  BY StreamAssumption
<1> HIDE DEF c
<1>3. OnStream /\ run = Idle /\ IsStr(r) /\ IsStr(buff)
  BY <1>1, ReadyOnStream
<1>4. r.text = Base(c.name, r.text)
  BY <1>2 DEF Base
<1> QED BY <1>1, <1>2, <1>3, <1>4, ReadFlows

\* bsread.
LEMMA bsreadFlows ==
  ASSUME StreamInv, FlowInv, Steady, NullIsNoRecord, NEW n \in Sizes, bsread(n)
  PROVE  FlowInv' /\ Refined
<1> DEFINE c == [name |-> "bsread", by |-> n]
<1>1. Ready /\ (NotCleared(c) \/ \E b \in Grown(buff, maxBuffSz + 1) : Read(b, Cleared, c))
  BY Zenon DEF bsread
<1>2. c.by \in Nat \ {0} /\ c.name = "bsread"
  BY StreamAssumption
<1> HIDE DEF c
<1>3. OnStream /\ run = Idle /\ IsStr(buff) /\ Held(Cleared) /\ Cleared.text = <<>>
  BY <1>1, ReadyOnStream, ReadyIs, ClearedIs
<1>4. ASSUME NEW b \in Grown(buff, maxBuffSz + 1), Read(b, Cleared, c)
      PROVE  FlowInv' /\ Refined
  <2>1. IsStr(b) /\ b.text = buff.text /\ IsStr(Cleared)
    BY <1>3, GrownBuffer, HeldIs
  <2>2. Cleared.text = Base(c.name, r.text)
    BY <1>2, <1>3 DEF Base
  <2> QED BY <1>2, <1>3, <1>4, <2>1, <2>2, ReadFlows
<1> QED BY <1>1, <1>3, <1>4, NotClearedFlows

\* How characters that are read end up: with d of them in x, and the rest still to come.
LEMMA CharsEnd ==
  ASSUME OnStream, split = NULL, NEW x, ReadEnds(x), EndFlow', IsStr(buff'),
         NEW c, c = run.call, c.name \in {"bsreada", "bsread"}, NEW B \in Seq(Char),
         run.rlo = Len(B), NEW d \in Seq(Char), x.text = B \o d, NEW rest,
         rest = buff'.text \o core'
  PROVE  /\ FlowInv'
         /\ Returned(c.name, c.by, IF d = <<>> THEN "ERR" ELSE "OK", Found[1], Found[2], rest,
                     B \o d)
<1> DEFINE end == IF Len(x.text) = run.rlo THEN "ERR" ELSE "OK"
<1>1. Ends(x, c, end)
  BY DEF ReadEnds
<1>2. end = IF d = <<>> THEN "ERR" ELSE "OK"
  <2>1. Len(B \o d) = Len(B) + Len(d) /\ Len(B) \in Nat /\ Len(d) \in Nat
    BY JoinedIs
  <2>2. d = <<>> <=> Len(d) = 0
    BY NothingIs
  <2> DEFINE l == Len(B \o d)
             a == Len(B)
             n == Len(d)
  <2>3. l = a + n /\ a \in Nat /\ n \in Nat
    BY <2>1
  <2> HIDE DEF l, a, n
  <2>4. l = a <=> n = 0
    BY <2>3
  <2> QED BY <2>2, <2>4 DEF l, a, n
<1> HIDE DEF end
<1>3. Leaves(c.name, end, x) = B \o d
  BY DEF Leaves
<1> QED BY <1>1, <1>2, <1>3, EndsOnStream

\* A call whose string could not grow has read a part.
LEMMA CharsPart ==
  ASSUME Tight, NEW name \in {"bsreada", "bsread", "breada"}, NEW by, NEW end \in {"OK", "ERR"},
         NEW d \in Seq(Char), NEW rest \in Seq(Char), NEW t,
         Returned(name, by, end, d \o rest, t, rest, Base(name, t) \o d)
  PROVE  Abstract!Next
<1> DEFINE n == <<>>
<1>1. n \in Seq(Char) /\ n \o d = d /\ n \o rest = rest
  BY NothingIs
<1> HIDE DEF n
<1>2. Returned(name, by, end, (n \o d) \o rest, t, n \o rest, Base(name, t) \o (n \o d))
  BY <1>1
<1>3. name \in {"bsreadlna", "bsreadln", "bsreada", "bsread", "breada"}
  OBVIOUS
<1> QED BY <1>1, <1>2, <1>3, PartRepeated

\* A turn of a call that reads characters.
LEMMA ReadNextFlows ==
  ASSUME OnStream, split = NULL, ReadNext
  PROVE  FlowInv' /\ Refined
<1> DEFINE c == run.call
           name == c.name
           by == c.by
           t == buff.text
           p == run.from[1]
           t0 == run.from[2]
           B == Base(name, run.from[2])
           wanted == run.n - Len(r.text)
<1>1. /\ run.pc = "read"
      /\ ReadTaken(r, t, wanted) \/ ReadRefused(r, t, wanted) \/ ReadFilled(r, t, wanted)
  BY Zenon DEF ReadNext, ReadTaken, ReadRefused, ReadFilled, ReadEnds
<1>2. /\ StreamInv /\ FlowInv /\ Steady /\ Pending = t \o core /\ core \in Seq(Char)
      /\ t \in Seq(Char) /\ open /\ maxBuffSz \in Nat \ {0} /\ IsStr(buff)
  BY OnStreamIs DEF StreamInv, OnStream
<1>3. /\ Found = run.from /\ IsStr(r) /\ r.text \in Seq(Char)
      /\ run.n \in Nat /\ run.n > Len(r.text)
  BY <1>1, <1>2 DEF StreamInv, RunOK, Found, Idle, Held, IsStr, Into
<1>4. ReadFlow(p, t0, c, run.rlo, run.n, r.text, t, core)
  BY <1>1 , <1>2 DEF FlowInv
<1>5. /\ name \in {"bsreada", "bsread"} /\ by \in Nat \ {0} /\ B \in Seq(Char)
      /\ run.rlo = Len(B) /\ run.n = run.rlo + by
  BY <1>4 DEF ReadFlow
<1>6. PICK d \in Seq(Char) : p = d \o (t \o core) /\ r.text = B \o d
  BY <1>4 DEF ReadFlow
<1> HIDE DEF t, B, p, t0, name, by
<1>7. /\ t \o core \in Seq(Char) /\ Len(t) \in Nat /\ Len(d) \in Nat
      /\ Len(r.text) = Len(B) + Len(d) /\ Len(B) \in Nat
  BY <1>2, <1>5, <1>6, JoinedIs
<1>8. wanted \in Nat \ {0} /\ by = Len(d) + wanted
  <2> DEFINE l == Len(r.text)
             a == Len(B)
             n == Len(d)
  <2>1. l = a + n /\ a \in Nat /\ n \in Nat /\ run.n = a + by /\ run.n > l /\ wanted = run.n - l
    BY <1>3, <1>5, <1>7
  <2> HIDE DEF l, a, n, wanted
  <2>2. wanted \in Nat \ {0} /\ by = n + wanted
    BY <1>5, <2>1
  <2> QED BY <2>2 DEF n
<1> HIDE DEF wanted
<1>9. ASSUME NEW x, ReadEnds(x), EndFlow', IsStr(buff'), NEW D \in Seq(Char), x.text = B \o D,
             NEW rest \in Seq(Char), rest = buff'.text \o core', p = D \o rest,
             Enough(D, rest, by) \/ Tight
      PROVE  FlowInv' /\ Refined
  <2> DEFINE end == IF D = <<>> THEN "ERR" ELSE "OK"
  <2>1. FlowInv' /\ Returned(name, by, end, D \o rest, t0, rest, B \o D)
    BY <1>3, <1>5, <1>9, CharsEnd, ZenonT(60) DEF name, by, p, t0
  <2>2. end \in {"OK", "ERR"} /\ (end = IF D = <<>> THEN "ERR" ELSE "OK")
    OBVIOUS
  <2> HIDE DEF end
  <2>3. CASE Enough(D, rest, by)
    <3>1. Returned(name, by, end, D \o rest, t0, rest, Base(name, t0) \o D)
      BY <2>1 DEF B, t0
    <3> HIDE DEF c
    <3>2. Abstract!Next
      BY <1>5, <1>9, <2>2, <2>3, <3>1, CharsTaken
    <3> QED BY <2>1, <3>2 DEF Refined
  <2>4. CASE Tight
    <3>1. Returned(name, by, end, D \o rest, t0, rest, Base(name, t0) \o D)
      BY <2>1 DEF B, t0
    <3>2. name \in {"bsreada", "bsread", "breada"}
      BY <1>5
    <3> HIDE DEF c
    <3>3. Abstract!Next
      BY <1>9, <2>2, <2>4, <3>1, <3>2, CharsPart
    <3> QED BY <2>1, <3>3 DEF Refined
  <2> QED BY <1>9, <2>3, <2>4
<1>10. ASSUME Tight, ReadEnds(r), buff' = buff, core' = core
       PROVE  FlowInv' /\ Refined
  <2>1. EndFlow'
    BY <1>2, <1>10 DEF EndFlow, Tight, Steady
  <2>2. IsStr(buff') /\ t \o core = buff'.text \o core'
    BY <1>2, <1>10 DEF t
  <2> QED BY <1>6, <1>7, <1>9, <1>10, <2>1, <2>2
<1>11. CASE ReadTaken(r, t, wanted)
  <2>1. core' = core /\ isEOF' = isEOF /\ Len(t) >= wanted
    BY <1>11 DEF ReadTaken
  <2>2. CASE ConcatRefused(r, First(t, wanted)) /\ buff' = buff /\ ReadEnds(r)
    BY <1>10, <2>1, <2>2 DEF ConcatRefused, Refused, Tight
  <2>3. CASE /\ buff' = Ended(buff, From(t, wanted))
             /\ \E x \in Concat(r, First(t, wanted)) : ReadEnds(x)
    <3> DEFINE f == First(t, wanted)
               q == From(t, wanted)
               D == d \o f
    <3>1. wanted \in 0 .. Len(t)
      BY <1>7, <1>8, <2>1
    <3>2. f \o q = t /\ f \in Seq(Char) /\ q \in Seq(Char) /\ Len(f) = wanted
      BY <1>2, <3>1, CutIs
    <3>3. PICK x \in Concat(r, f) : ReadEnds(x)
      BY <2>3
    <3>4. buff' = Ended(buff, q)
      BY <2>3
    <3> HIDE DEF f, q
    <3>5. IsStr(buff') /\ buff'.text = q
      BY <1>2, <3>2, <3>4, EndedIs
    <3>6. x.text = r.text \o f
      BY <1>3, <3>2, <3>3, ConcatIs
    <3>7. (B \o d) \o f = B \o (d \o f)
      BY <1>5, <3>2, Regroup
    <3>8. (f \o q) \o core = f \o (q \o core) /\ q \o core \in Seq(Char)
      <4>1. f \in Seq(Char) /\ q \in Seq(Char) /\ core \in Seq(Char)
        BY <1>2, <3>2
      <4>2. (f \o q) \o core = f \o (q \o core)
        BY <4>1, Regroup
      <4> QED BY <4>1, <4>2, ConcatProperties
    <3>9. (d \o f) \o (q \o core) = d \o (f \o (q \o core))
      BY <3>2, <3>8, Regroup
    <3>10. D \in Seq(Char) /\ Len(D) = Len(d) + Len(f)
      BY <3>2, JoinedIs
    <3>11. x.text = B \o D /\ p = D \o (q \o core)
      BY <1>6, <3>2, <3>6, <3>7, <3>8, <3>9
    <3> HIDE DEF D
    <3>12. Len(D) = by
      BY <1>8, <3>2, <3>10
    <3>13. Enough(D, q \o core, by)
      BY <1>5, <3>12 DEF Enough
    <3>14. EndFlow'
      BY <1>2, <2>1, EndFlowStays
    <3>15. q \o core = buff'.text \o core'
      BY <2>1, <3>5
    <3> QED BY <1>9, <3>3, <3>5, <3>8, <3>10, <3>11, <3>13, <3>14, <3>15
  <2> QED BY <1>11, <2>2, <2>3 DEF ReadTaken
<1>12. CASE ReadRefused(r, t, wanted)
  BY <1>10, <1>12 DEF ReadRefused, ConcatRefused, Refused, Tight
<1>13. CASE ReadFilled(r, t, wanted)
  <2> DEFINE m == Min({wanted - Len(t), maxBuffSz})
             D == d \o t
  <2>1. PICK x \in Concat(r, t), k \in Delivers(m) :
          /\ core' = From(core, k) /\ buff' = Unended(buff, First(core, k))
          /\ isEOF' = (isEOF \/ k = 0)
          /\ IF k = 0 THEN ReadEnds(x)
             ELSE GoesOn(x, run.call, "read", run.n, run.rlo)
    BY <1>13 DEF ReadFilled
  <2>2. Len(t) < wanted
    BY <1>13 DEF ReadFilled
  <2>3. m \in Nat \ {0}
    <3>1. wanted - Len(t) \in Int /\ maxBuffSz \in Int
      BY <1>2, <1>7, <1>8
    <3>2. m = IF wanted - Len(t) <= maxBuffSz THEN wanted - Len(t) ELSE maxBuffSz
      BY <3>1, MinOfTwo
    <3> HIDE DEF m
    <3> QED BY <1>2, <1>7, <1>8, <2>2, <3>2
  <2> HIDE DEF m
  <2> DEFINE f == First(core, k)
             q == From(core, k)
  <2>4. /\ f \in Seq(Char) /\ Len(f) = k /\ q \in Seq(Char) /\ core = f \o q
        /\ k = 0 => core = <<>>
    BY <1>2, <2>3, DeliversIs, DeliversEnd
  <2>5. core' = q /\ buff' = Unended(buff, f)
    BY <2>1
  <2> HIDE DEF f, q
  <2>6. IsStr(buff') /\ buff'.text = f /\ buff'.text \o core' = core
    BY <1>2, <2>4, <2>5, EndedIs
  <2>7. x.text = r.text \o t
    BY <1>2, <1>3, <2>1, ConcatIs
  <2>8. (B \o d) \o t = B \o (d \o t)
    BY <1>2, <1>5, Regroup, ZenonT(60)
  <2>9. (d \o t) \o core = d \o (t \o core)
    BY <1>2, Regroup
  <2>10. D \in Seq(Char) /\ Len(D) = Len(d) + Len(t)
    BY <1>2, JoinedIs
  <2>11. x.text = B \o D /\ p = D \o core
    BY <1>6, <2>7, <2>8, <2>9
  <2> HIDE DEF D
  <2>12. EndFlow'
    <3>1. CASE k = 0
      <4>1. q = <<>>
        BY <2>4, <3>1, BothEmpty
      <4> QED BY <2>5, <4>1 DEF EndFlow
    <3>2. CASE k # 0
      <4>1. core # <<>>
        <5>1. f # <<>>
          BY <2>4, <3>2, NothingIs
        <5> QED BY <2>4, <5>1, BothEmpty
      <4>2. isEOF => Tight
        BY <1>2, <4>1 DEF FlowInv, EndFlow
      <4>3. isEOF' => isEOF
        BY <2>1, <3>2
      <4> QED BY <1>2, <4>2, <4>3 DEF EndFlow, Tight, Steady
    <3> QED BY <3>1, <3>2
  <2>13. CASE k = 0
    <3>1. core = <<>> /\ ReadEnds(x)
      BY <2>1, <2>4, <2>13
    <3>2. Len(D) <= by
      BY <1>7, <1>8, <2>2, <2>10
    <3>3. Enough(D, core, by)
      BY <3>1, <3>2 DEF Enough
    <3> QED BY <1>2, <1>9, <2>6, <2>10, <2>11, <2>12, <3>1, <3>3
  <2>14. CASE k # 0
    <3>1. GoesOn(x, c, "read", run.n, run.rlo)
      BY <2>1, <2>14
    <3>2. p = D \o (buff'.text \o core') /\ x.text = B \o D
      BY <2>6, <2>11
    <3>3. ReadFlow(p, t0, c, run.rlo, run.n, x.text, buff'.text, core')
      BY <1>5, <2>10, <3>2 DEF ReadFlow, B, t0, name, by
    <3>4. Goes(c, "read", run.n, run.rlo, x)
      BY <1>2, <1>3, <3>3 DEF Goes, p, t0
    <3> QED BY <2>6, <2>12, <3>1, <3>4, GoesOnStream
  <2> QED BY <2>13, <2>14
<1> QED BY <1>1, <1>11, <1>12, <1>13

-----------------------------------------------------------------------------
(* The other calls on a stream.                                            *)

\* bseof.
LEMMA bseofFlows ==
  ASSUME StreamInv, FlowInv, Steady, NullIsNoRecord, bseof
  PROVE  FlowInv' /\ Refined
<1> DEFINE end == IF AtEnd THEN "TRUE" ELSE "FALSE"
<1>1. run = Idle /\ open /\ buff # NULL /\ Returns("bseof", 0, end) /\ buff' = buff /\ r' = r
  BY DEF bseof
<1>2. IsStr(buff) /\ OnStream
  BY <1>1, IdleIs, FitsHeld DEF OnStream
<1>3. Pending = buff.text \o core /\ core \in Seq(Char)
  BY <1>2, OnStreamIs
<1>4. FlowInv' /\ Returned("bseof", 0, end, Pending, r.text, Pending, r.text)
  BY <1>1, <1>2, <1>3, ReturnsOnStream
<1>5. AtEnd => Pending = <<>> \/ Tight
  <2> SUFFICES ASSUME AtEnd PROVE Pending = <<>> \/ Tight
    OBVIOUS
  <2>1. isEOF /\ buff.text = <<>>
    BY DEF AtEnd
  <2>2. Pending = core
    BY <1>3, <2>1, NothingIs
  <2> QED BY <2>1, <2>2 DEF FlowInv, EndFlow
<1>6. /\ ret'.call = "bseof" /\ ret'.end = end /\ Kept
      /\ Coming = Pending /\ Coming' = Coming /\ Shown' = Shown /\ Left' = Left
  BY <1>4 DEF Returned
<1> DEFINE ends == {"FALSE"} \cup IF Coming = <<>> \/ "tight" \in failing THEN {"TRUE"} ELSE {}
<1>7. end \in ends
  BY <1>5, <1>6 DEF Tight
<1> HIDE DEF end
<1>8. Abstract!Does({"bseof"}, ends)
  BY <1>6, <1>7 DEF Abstract!Does
<1>9. Abstract!Stays(<<Coming, Shown, Left>>)
  BY <1>6 DEF Abstract!Stays, Coming, Shown, Left
<1>10. Abstract!Eof
  BY <1>8, <1>9 DEF Abstract!Eof, Coming, Shown, Left
<1> QED BY <1>4, <1>6, <1>10 DEF Refined, Abstract!Next, Abstract!Stays, Kept

\* A stream without a buffer.
LEMMA BufferlessFlows ==
  ASSUME StreamInv, FlowInv, Steady, NullIsNoRecord, Bufferless
  PROVE  FlowInv' /\ Refined
<1>1. /\ run = Idle /\ open /\ buff = NULL /\ Returns("bufferless", 0, "ERR")
      /\ buff' = buff /\ r' = r
  BY DEF Bufferless
<1>2. FlowInv' /\ Returned("bufferless", 0, "ERR", Pending, r.text, Pending', r.text)
  BY <1>1, ReturnsSeen
<1>3. Pending' = Pending
  BY <1>1 DEF Pending, Buffered, Returns, Steady
<1>4. "snap" \in failing
  BY <1>1 DEF FlowInv
<1>5. Returned("bufferless", 0, "ERR", Pending, r.text, Pending, r.text)
  BY <1>2, <1>3
<1> DEFINE name == "bufferless"
<1>6. name \notin {"bread", "bgets"}
  OBVIOUS
<1>7. Returned(name, 0, "ERR", Pending, r.text, Pending, r.text)
  BY <1>5
<1> HIDE DEF name
<1>8. Abstract!Next
  BY <1>4, <1>6, <1>7, NotMade
<1> QED BY <1>2, <1>8 DEF Refined

\* What is put back is to come again.
LEMMA bsunreadFlows ==
  ASSUME StreamInv, FlowInv, Steady, NullIsNoRecord, NEW t \in Unreads, bsunread(t)
  PROVE  FlowInv' /\ Refined
<1>1. /\ Ready /\ r' = r
      /\ \/ \E b \in Grown(buff, Len(buff.text) + Len(t) + 1) :
              buff' = Ended(b, t \o buff.text) /\ Returns("bsunread", t, "OK")
         \/ /\ Refused(buff, Len(buff.text) + Len(t) + 1)
            /\ buff' = buff /\ Returns("bsunread", t, "ERR")
  BY DEF bsunread
<1>2. /\ OnStream /\ run = Idle /\ IsStr(buff) /\ buff.text \in Seq(Char) /\ core \in Seq(Char)
      /\ Pending = buff.text \o core
  BY <1>1, ReadyOnStream
<1>3. t \in Seq(Char)
  BY StreamAssumption
<1>4. CASE /\ Refused(buff, Len(buff.text) + Len(t) + 1)
           /\ buff' = buff /\ Returns("bsunread", t, "ERR")
  BY <1>1, <1>2, <1>4, RefusalFlows DEF Refused, Tight
<1>5. CASE \E b \in Grown(buff, Len(buff.text) + Len(t) + 1) :
             buff' = Ended(b, t \o buff.text) /\ Returns("bsunread", t, "OK")
  <2> DEFINE n == Len(buff.text) + Len(t) + 1
             u == t \o buff.text
  <2>1. u \in Seq(Char) /\ n \in Nat
    BY <1>2, <1>3, JoinedIs
  <2>2. PICK b \in Grown(buff, n) : buff' = Ended(b, u) /\ Returns("bsunread", t, "OK")
    BY <1>5
  <2> HIDE DEF n, u
  <2>3. IsStr(buff') /\ buff'.text = u
    <3>1. IsStr(b)
      BY <1>2, <2>1, <2>2, GrownIs
    <3> QED BY <2>1, <2>2, <3>1, EndedIs
  <2>4. FlowInv' /\ Returned("bsunread", t, "OK", Pending, r.text, u \o core, r.text)
    BY <1>1, <1>2, <2>2, <2>3, ReturnsOnStream
  <2>5. u \o core = t \o Pending
    BY <1>2, <1>3, Regroup DEF u
  <2>6. /\ ret'.call = "bsunread" /\ ret'.by = t /\ ret'.end = "OK" /\ Kept
        /\ Coming' = ret'.by \o Coming /\ Shown' = Shown /\ Left' = Left
    BY <2>4, <2>5 DEF Returned
  <2>7. Abstract!Stays(<<Shown, Left>>)
    BY <2>6 DEF Abstract!Stays, Shown, Left
  <2>8. Abstract!Unread
    BY <2>6, <2>7 DEF Abstract!Unread, Abstract!Does, Coming, Shown, Left
  <2> QED BY <2>4, <2>6, <2>8 DEF Refined, Abstract!Next, Abstract!Stays, Kept
<1> QED BY <1>1, <1>4, <1>5

\* What is peeked at is to come still.
LEMMA bspeekFlows ==
  ASSUME StreamInv, FlowInv, Steady, NullIsNoRecord, bspeek
  PROVE  FlowInv' /\ Refined
<1> DEFINE t == buff.text
<1>1. /\ Ready /\ buff' = buff
      /\ \/ \E g \in IF t = <<>> THEN {r} ELSE Grown(r, Len(t)) :
              r' = Ended(g, t) /\ Returns("bspeek", 0, "OK")
         \/ Refused(r, Len(t)) /\ r' = r /\ Returns("bspeek", 0, "ERR")
  BY DEF bspeek
<1>2. /\ OnStream /\ run = Idle /\ IsStr(buff) /\ t \in Seq(Char) /\ core \in Seq(Char)
      /\ Pending = t \o core /\ IsStr(r)
  BY <1>1, ReadyOnStream
<1> HIDE DEF t
<1>3. CASE Refused(r, Len(t)) /\ r' = r /\ Returns("bspeek", 0, "ERR")
  BY <1>1, <1>2, <1>3, RefusalFlows DEF Refused, Tight
<1>4. CASE \E g \in IF t = <<>> THEN {r} ELSE Grown(r, Len(t)) :
             r' = Ended(g, t) /\ Returns("bspeek", 0, "OK")
  <2>1. PICK g \in IF t = <<>> THEN {r} ELSE Grown(r, Len(t)) :
               r' = Ended(g, t) /\ Returns("bspeek", 0, "OK")
    BY <1>4
  <2>2. Len(t) \in Nat
    BY <1>2, LenProperties
  <2>3. IsStr(g)
    BY <1>2, <2>1, <2>2, GrownIs
  <2>4. r'.text = t
    BY <1>2, <2>1, <2>3, EndedIs
  <2>5. FlowInv' /\ Returned("bspeek", 0, "OK", Pending, r.text, Pending, t)
    BY <1>1, <1>2, <2>1, <2>4, ReturnsOnStream DEF t
  <2>6. /\ ret'.call = "bspeek" /\ ret'.end = "OK" /\ Kept /\ Coming = t \o core
        /\ Coming' = Coming /\ Shown' = t /\ Left' = Left
    BY <1>2, <2>5 DEF Returned
  <2> DEFINE n == Len(t)
  <2>7. t = First(Coming, n) /\ n \in 0 .. Len(Coming)
    <3>1. Len(Coming) = n + Len(core) /\ Len(core) \in Nat
      BY <1>2, <2>6, JoinedIs
    <3>2. First(Coming, n) = t
      BY <1>2, <2>6, PartsIs
    <3> QED BY <2>2, <3>1, <3>2
  <2> HIDE DEF n
  <2>8. \E i \in 0 .. Len(Coming) : Shown' = Abstract!First(Coming, i)
    BY <2>6, <2>7 DEF Abstract!First, First
  <2>9. Abstract!Stays(<<Coming, Left>>) /\ Abstract!Does({"bspeek"}, {"OK"})
    BY <2>6 DEF Abstract!Stays, Abstract!Does, Coming, Left
  <2>10. Abstract!Peek
    BY <2>8, <2>9 DEF Abstract!Peek, Coming, Shown, Left
  <2> QED BY <2>5, <2>6, <2>10 DEF Refined, Abstract!Next, Abstract!Stays, Kept
<1> QED BY <1>1, <1>3, <1>4

\* bsopen, bsclose and bsbufflength.
LEMMA OpenFlows ==
  ASSUME StreamInv, FlowInv, failing' = failing, short' = short, NullIsNoRecord,
         bsopen \/ bsclose \/ \E sz \in BuffSizes : bsbufflength(sz)
  PROVE  FlowInv' /\ Refined
<1>1. /\ run = Idle /\ run' = Idle /\ split' = split /\ core' = core /\ r' = r
  BY DEF bsopen, bsclose, bsbufflength, Returns
<1>2. split = NULL /\ core \in Seq(Char) /\ (buff = NULL \/ IsStr(buff))
  BY <1>1, IdleIs DEF StreamInv, Fits
<1>3. Coming = Pending /\ Shown = r.text /\ Left = 0
  BY <1>1, <1>2 DEF Coming, Shown, Left
<1>4. Coming' = Pending' /\ Shown' = r.text /\ Left' = 0
  BY <1>1, <1>2 DEF Coming, Shown, Left
<1>5. run'.pc = "idle"
  BY <1>1 DEF Idle
<1>6. Buffered \in Seq(Char) /\ <<>> \o core = core
  BY <1>2, NothingIs DEF Buffered, IsStr
<1>7. ASSUME EndFlow', open' /\ buff' = NULL => "snap" \in failing' PROVE FlowInv'
  BY <1>1, <1>2, <1>5, <1>7 DEF FlowInv
<1>8. ASSUME ret'.call \in {"bsopen", "bsbufflength"}, ret'.end = "OK", Pending' = Pending
      PROVE  Refined
  <2>1. /\ Abstract!Stays(<<Coming, Shown, Left>>)
        /\ Abstract!Does({"bsopen", "bsbufflength"}, {"OK"})
    BY <1>3, <1>4, <1>8 DEF Abstract!Stays, Abstract!Does, Coming, Shown, Left
  <2>2. Abstract!Open
    BY <2>1 DEF Abstract!Open, Coming, Shown, Left
  <2> QED BY <2>2 DEF Refined, Abstract!Next, Abstract!Stays
<1>9. CASE bsopen
  <2>1. /\ ~open /\ open' /\ isEOF' = FALSE
        /\ buff' = Fresh \/ ("snap" \in failing /\ buff' = NULL)
        /\ ret'.call = "bsopen" /\ ret'.end = "OK"
    BY <1>9 DEF bsopen
  <2>2. Fresh.text = <<>> /\ IsStr(Fresh) /\ Fresh # NULL
    BY FreshIs, FitsHeld, StrIsNotNull
  <2>3. Buffered' = <<>>
    BY <2>1, <2>2 DEF Buffered
  <2>4. Pending' = Pending
    BY <1>1, <1>6, <2>1, <2>3 DEF Pending
  <2>5. FlowInv'
    BY <1>7, <2>1, <2>2 DEF EndFlow
  <2> QED BY <1>8, <2>1, <2>4, <2>5
<1>10. CASE bsclose
  <2>1. open /\ ~open' /\ isEOF' = FALSE /\ ret'.call = "bsclose" /\ ret'.end = "OK"
    BY <1>10 DEF bsclose
  <2>2. FlowInv'
    BY <1>7, <2>1 DEF EndFlow
  <2>3. Coming = Buffered \o core /\ Coming' = core
    BY <1>1, <1>3, <1>4, <2>1 DEF Pending
  <2> DEFINE n == Len(Buffered)
  <2>4. From(Coming, n) = core /\ n \in 0 .. Len(Coming)
    <3>1. Len(Coming) = n + Len(core) /\ n \in Nat /\ Len(core) \in Nat
      BY <1>2, <1>6, <2>3, JoinedIs
    <3>2. From(Coming, n) = core
      BY <1>2, <1>6, <2>3, PartsIs
    <3> QED BY <3>1, <3>2
  <2> HIDE DEF n
  <2>5. \E i \in 0 .. Len(Coming) : Coming' = Abstract!From(Coming, i)
    BY <2>3, <2>4 DEF Abstract!From, From
  <2>6. Abstract!Stays(<<Shown, Left>>) /\ Abstract!Does({"bsclose"}, {"OK"})
    BY <1>3, <1>4, <2>1 DEF Abstract!Stays, Abstract!Does, Shown, Left
  <2>7. Abstract!Close
    BY <2>5, <2>6 DEF Abstract!Close, Coming, Shown, Left
  <2> QED BY <2>2, <2>7 DEF Refined, Abstract!Next, Abstract!Stays
<1>11. CASE \E sz \in BuffSizes : bsbufflength(sz)
  <2>1. /\ open' = open /\ buff' = buff /\ isEOF' = isEOF
        /\ ret'.call = "bsbufflength" /\ ret'.end = "OK"
    BY <1>11 DEF bsbufflength, Returns
  <2>2. FlowInv'
    BY <1>1, <1>7, <2>1 DEF FlowInv, EndFlow, Tight
  <2>3. Pending' = Pending
    BY <1>1, <2>1 DEF Pending, Buffered
  <2> QED BY <1>8, <2>1, <2>2, <2>3
<1> QED BY <1>9, <1>10, <1>11

-----------------------------------------------------------------------------
(* Reading a core stream without a buffer.                                 *)

\* The conditions under which a call on a core stream takes place.
OffStream ==
  /\ StreamInv /\ FlowInv /\ Steady /\ NullIsNoRecord /\ split = NULL /\ ~open
  /\ buff' = buff /\ isEOF' = isEOF /\ (core = <<>> => core' = <<>>)

\* What OffStream says.
LEMMA OffStreamIs ==
  ASSUME OffStream
  PROVE  /\ StreamInv /\ FlowInv /\ Steady /\ NullIsNoRecord /\ split = NULL /\ ~open
         /\ Pending = core /\ Pending' = core' /\ core \in Seq(Char) /\ EndFlow'
         /\ buff' = NULL => buff = NULL
<1>1. /\ StreamInv /\ FlowInv /\ Steady /\ NullIsNoRecord /\ split = NULL /\ ~open
      /\ buff' = buff /\ isEOF' = isEOF /\ (core = <<>> => core' = <<>>)
  BY DEF OffStream
<1>2. Pending = core /\ Pending' = core' /\ core \in Seq(Char)
  BY <1>1 DEF Pending, Steady, StreamInv
<1>3. EndFlow'
  BY <1>1 DEF FlowInv, EndFlow, Tight, Steady
<1> QED BY <1>1, <1>2, <1>3

\* A call that ends, without a stream.
LEMMA EndsOff ==
  ASSUME OffStream, NEW s, NEW c, NEW end, Ends(s, c, end)
  PROVE  /\ FlowInv'
         /\ Returned(c.name, c.by, end, Found[1], Found[2], core', Leaves(c.name, end, s))
BY OffStreamIs, EndsSeen

\* A call that goes on, without a stream.
LEMMA GoesOnOff ==
  ASSUME OffStream, NEW s, NEW c, NEW pc \in {"all", "gets"}, NEW n, NEW rlo,
         GoesOn(s, c, pc, n, rlo), Goes(c, pc, n, rlo, s)
  PROVE  FlowInv' /\ Refined
BY OffStreamIs, GoesOnSeen

\* A call that is begun.
LEMMA BeginsFlows ==
  ASSUME StreamInv, FlowInv, Steady, NullIsNoRecord, NEW pc \in {"all", "gets"}, NEW c,
         pc = "all" => c.name \in {"breada", "bread"},
         pc = "gets" => c.name \in {"bgetsa", "bassigngets", "bgets"},
         NEW n, NEW s, s.text = Base(c.name, r.text), Begins(s, c, pc, n)
  PROVE  FlowInv' /\ Refined
<1> DEFINE B == Base(c.name, r.text)
<1>1. /\ run = Idle /\ ~open /\ core' = core /\ buff' = buff /\ isEOF' = isEOF
      /\ \/ GoesOn(s, c, pc, n, Len(s.text))
         \/ c.name \in {"bread", "bgets"} /\ "snap" \in failing /\ Ends(r, c, "ERR")
  BY DEF Begins
<1>2. OffStream /\ Found[1] = Pending /\ Found[2] = r.text /\ Pending = core
      /\ core \in Seq(Char)
  <2>1. OffStream
    BY <1>1, IdleIs DEF OffStream
  <2>2. Found[1] = Pending /\ Found[2] = r.text
    BY <1>1 DEF Found
  <2> QED BY <2>1, <2>2, OffStreamIs
<1>3. B \in Seq(Char) /\ Len(B) \in Nat
  <2>1. r.text \in Seq(Char)
    BY HeldIs DEF StreamInv
  <2>2. B \in Seq(Char)
    BY <2>1, NothingIs DEF Base
  <2> QED BY <2>2, LenProperties
<1>4. CASE GoesOn(s, c, pc, n, Len(s.text))
  <2>1. /\ <<>> \in Seq(Char) /\ core = <<>> \o core /\ s.text = B \o <<>>
        /\ NoneIn(<<>>, c.by)
    <3>1. <<>> \in Seq(Char) /\ core = <<>> \o core /\ s.text = B \o <<>> /\ Len(<<>>) = 0
      BY <1>2, <1>3, NothingIs
    <3> QED BY <3>1 DEF NoneIn
  <2>2. pc = "all" => AllFlow(core, r.text, c, s.text, core)
    BY <1>3, <2>1 DEF AllFlow
  <2>3. pc = "gets" => GetsFlow(core, r.text, c, s.text, core)
    BY <1>3, <2>1 DEF GetsFlow
  <2>4. Goes(c, pc, n, Len(s.text), s)
    BY <1>1, <1>2, <2>2, <2>3 DEF Goes
  <2> QED BY <1>2, <1>4, <2>4, GoesOnOff
<1>5. CASE c.name \in {"bread", "bgets"} /\ "snap" \in failing /\ Ends(r, c, "ERR")
  <2> DEFINE name == c.name
  <2>1. Leaves(name, "ERR", r) = <<>>
    BY <1>5 DEF Leaves
  <2>2. FlowInv' /\ Returned(name, c.by, "ERR", core, r.text, core, <<>>)
    BY <1>1, <1>2, <1>5, <2>1, EndsOff
  <2>3. <<>> = IF name \in {"bread", "bgets"} THEN <<>> ELSE r.text
    BY <1>5
  <2> HIDE DEF name
  <2>4. Abstract!Next
    BY <1>5, <2>2, <2>3, NotMade
  <2> QED BY <2>2, <2>4 DEF Refined
<1> QED BY <1>1, <1>4, <1>5

\* breada and bread.
LEMMA breadFlows ==
  ASSUME StreamInv, FlowInv, Steady, NullIsNoRecord, breada \/ bread
  PROVE  FlowInv' /\ Refined
<1>1. CASE breada
  <2> DEFINE c == [name |-> "breada", by |-> 0]
             n == Len(r.text) + FirstRead
  <2>1. Begins(r, c, "all", n)
    BY <1>1 DEF breada
  <2>2. c.name = "breada" /\ r.text = Base(c.name, r.text)
    BY DEF Base
  <2> HIDE DEF c, n
  <2> QED BY <2>1, <2>2, BeginsFlows
<1>2. CASE bread
  <2> DEFINE c == [name |-> "bread", by |-> 0]
  <2>1. Begins(Fresh, c, "all", FirstRead)
    BY <1>2 DEF bread
  <2>2. c.name = "bread" /\ Fresh.text = Base(c.name, r.text)
    BY FreshIs DEF Base
  <2> HIDE DEF c
  <2> QED BY <2>1, <2>2, BeginsFlows
<1> QED BY <1>1, <1>2

\* bgetsa, bassigngets and bgets.
LEMMA bgetsFlows ==
  ASSUME StreamInv, FlowInv, Steady, NullIsNoRecord, NEW terms,
         bgetsa(terms) \/ bassigngets(terms) \/ bgets(terms)
  PROVE  FlowInv' /\ Refined
<1>1. ASSUME NEW name \in {"bgetsa", "bassigngets", "bgets"}, NEW s,
             s.text = Base(name, r.text),
             Begins(s, [name |-> name, by |-> terms], "gets", 0)
      PROVE  FlowInv' /\ Refined
  <2> DEFINE c == [name |-> name, by |-> terms]
  <2>1. c.name = name
    OBVIOUS
  <2>2. Begins(s, c, "gets", 0)
    BY <1>1
  <2>3. s.text = Base(c.name, r.text)
    BY <1>1
  <2> HIDE DEF c
  <2> QED BY <1>1, <2>1, <2>2, <2>3, BeginsFlows
<1>2. CASE bgetsa(terms)
  <2>1. r.text = Base("bgetsa", r.text)
    BY DEF Base
  <2> QED BY <1>1, <1>2, <2>1 DEF bgetsa
<1>3. CASE bassigngets(terms)
  <2>1. Unended(r, <<>>).text = Base("bassigngets", r.text)
    BY ClearedIs DEF Base, StreamInv, Cleared
  <2> QED BY <1>1, <1>3, <2>1 DEF bassigngets
<1>4. CASE bgets(terms)
  <2>1. Fresh.text = Base("bgets", r.text)
    BY FreshIs DEF Base
  <2> QED BY <1>1, <1>4, <2>1 DEF bgets
<1> QED BY <1>2, <1>3, <1>4

\* A turn of reading all at once.
LEMMA AllNextFlows ==
  ASSUME StreamInv, FlowInv, Steady, NullIsNoRecord, AllNext
  PROVE  FlowInv' /\ Refined
<1> DEFINE c == run.call
           name == c.name
           by == c.by
           p == run.from[1]
           t0 == run.from[2]
           B == Base(name, run.from[2])
           m == run.n - Len(r.text)
<1>1. /\ run.pc = "all" /\ buff' = buff /\ isEOF' = isEOF
      /\ \/ Refused(r, run.n + 1) /\ Ends(r, c, "ERR") /\ core' = core
         \/ \E g \in Grown(r, run.n + 1), k \in Delivers(m) :
              AllTurn(g, k, r.text \o First(core, k))
  BY Zenon DEF AllNext, AllTurn
<1>2. /\ split = NULL /\ ~open /\ AllFlow(p, t0, c, r.text, core) /\ Found = run.from
      /\ core \in Seq(Char) /\ run.n \in Nat /\ run.n > Len(r.text) /\ Held(r)
  BY <1>1 DEF StreamInv, FlowInv, RunOK, Found, Idle
<1>3. IsStr(r) /\ r.text \in Seq(Char) /\ Len(r.text) \in Nat
  BY <1>2, HeldIs
<1>4. name \in {"breada", "bread"} /\ B \in Seq(Char)
  BY <1>2 DEF AllFlow
<1>5. PICK d \in Seq(Char) : p = d \o core /\ r.text = B \o d
  BY <1>2 DEF AllFlow
<1>6. m \in Nat \ {0} /\ run.n = m + Len(r.text) /\ run.n + 1 \in Nat
  BY <1>2, <1>3
<1> HIDE DEF B, p, t0, name, by, m
<1>7. ASSUME OffStream, NEW s, NEW end, Ends(s, c, end)
      PROVE  FlowInv' /\ Returned(name, by, end, p, t0, core', Leaves(name, end, s))
  BY <1>2, <1>7, EndsOff DEF name, by, p, t0
<1>8. CASE Refused(r, run.n + 1) /\ Ends(r, c, "ERR") /\ core' = core
  <2>1. OffStream
    BY <1>1, <1>2, <1>8 DEF OffStream
  <2>2. Tight
    BY <1>8 DEF Refused, Tight
  <2>3. FlowInv' /\ Returned(name, by, "ERR", d \o core, t0, core, Leaves(name, "ERR", r))
    BY <1>5, <1>7, <1>8, <2>1
  <2> HIDE DEF c
  <2>4. CASE name = "breada"
    <3>1. Leaves(name, "ERR", r) = Base(name, t0) \o d
      BY <1>5, <2>4 DEF Leaves, B, t0
    <3>2. Abstract!Next
      BY <1>2, <2>2, <2>3, <2>4, <3>1, CharsPart
    <3> QED BY <2>3, <3>2 DEF Refined
  <2>5. CASE name = "bread"
    <3>1. Leaves(name, "ERR", r) = <<>>
      BY <2>5 DEF Leaves
    <3>2. Abstract!Next
      BY <1>2, <2>2, <2>3, <2>5, <3>1, AllLost
    <3> QED BY <2>3, <3>2 DEF Refined
  <2> QED BY <1>4, <2>4, <2>5
<1>9. ASSUME NEW g \in Grown(r, run.n + 1), NEW k \in Delivers(m),
             AllTurn(g, k, r.text \o First(core, k))
      PROVE  FlowInv' /\ Refined
  <2> DEFINE f == First(core, k)
             q == From(core, k)
             D == d \o f
             t == r.text \o f
  <2>1. /\ f \in Seq(Char) /\ Len(f) = k /\ q \in Seq(Char) /\ core = f \o q /\ k \in Nat
        /\ k = m \/ q = <<>> \/ (short /\ k > 0)
    BY <1>2, <1>6, DeliversIs, DeliversEnd
  <2>2. AllTurn(g, k, t) /\ core' = q
    BY <1>9 DEF AllTurn
  <2> HIDE DEF f, q
  <2>3. t \in Seq(Char) /\ Len(t) = Len(r.text) + k /\ Len(t) \in Nat
    BY <1>3, <2>1, JoinedIs
  <2>4. D \in Seq(Char)
    BY <2>1, JoinedIs
  <2>5. t = B \o D /\ p = D \o q
    <3>1. (B \o d) \o f = B \o (d \o f)
      BY <1>4, <2>1, Regroup
    <3>2. (d \o f) \o q = d \o (f \o q)
      BY <2>1, Regroup
    <3> HIDE DEF c
    <3> QED BY <1>5, <2>1, <3>1, <3>2
  <2>6. OffStream
    <3>1. core = <<>> => q = <<>>
      BY <2>1, BothEmpty
    <3> QED BY <1>1, <1>2, <2>2, <3>1 DEF OffStream
  <2>7. IsStr(g)
    BY <1>3, <1>6, GrownIs
  <2>8. Ended(g, t).text = t /\ Unended(g, t).text = t
    BY <2>3, <2>7, EndedIs
  <2> HIDE DEF t, D
  <2>9. CASE Len(t) < run.n
    <3>1. Ends(Ended(g, t), run.call, "OK")
      BY <2>2, <2>9 DEF AllTurn
    <3>2. FlowInv' /\ Returned(name, by, "OK", p, t0, q, Leaves(name, "OK", Ended(g, t)))
      BY <1>7, <2>2, <2>6, <3>1
    <3>3. Leaves(name, "OK", Ended(g, t)) = Base(name, t0) \o D
      BY <2>5, <2>8 DEF Leaves, B, t0
    <3>4. q = <<>> \/ (short /\ D # <<>>)
      <4>1. k # m
        BY <1>3, <1>6, <2>1, <2>3, <2>9
      <4>2. k > 0 => f # <<>>
        BY <2>1, NothingIs
      <4>3. f # <<>> => D # <<>>
        BY <2>1, BothEmpty DEF D
      <4> QED BY <2>1, <4>1, <4>2, <4>3
    <3>5. Returned(name, by, "OK", D \o q, t0, q, Base(name, t0) \o D)
      BY <2>5, <3>2, <3>3
    <3> HIDE DEF c
    <3>6. Abstract!Next
      BY <1>4, <2>1, <2>4, <3>4, <3>5, AllTaken
    <3> QED BY <3>2, <3>6 DEF Refined
  <2>10. CASE ~(Len(t) < run.n)
    <3> DEFINE n == run.n + Min({run.n, BS_BUFF_SZ})
               s == Unended(g, t)
    <3>1. GoesOn(s, c, "all", n, run.rlo)
      BY <2>2, <2>10, Zenon DEF AllTurn
    <3> HIDE DEF n
    <3>2. s.text = B \o D
      BY <2>5, <2>8
    <3> HIDE DEF s
    <3>3. AllFlow(p, t0, c, s.text, core')
      BY <1>4, <2>2, <2>4, <2>5, <3>2 DEF AllFlow, B, t0, name
    <3>4. Goes(c, "all", n, run.rlo, s)
      BY <1>2, <3>3 DEF Goes, p, t0
    <3> QED BY <2>6, <3>1, <3>4, GoesOnOff
  <2> QED BY <2>9, <2>10
<1> QED BY <1>1, <1>8, <1>9

\* The next character.
LEMMA HeadIs ==
  ASSUME NEW s \in Seq(Char), s # <<>>
  PROVE  /\ Head(s) \in Char /\ <<Head(s)>> \in Seq(Char) /\ Tail(s) \in Seq(Char)
         /\ s = <<Head(s)>> \o Tail(s)
         /\ \A t \in Seq(Char) : Append(t, Head(s)) = t \o <<Head(s)>>
<1> DEFINE h == Head(s)
<1>1. h \in Char /\ Tail(s) \in Seq(Char)
  BY HeadTailProperties
<1>2. s = <<h>> \o Tail(s)
  BY HeadTailProperties, HeadTailAppend
<1> HIDE DEF h
<1>3. <<h>> \in Seq(Char)
  BY <1>1
<1>4. \A t \in Seq(Char) : Append(t, h) = t \o <<h>>
  BY <1>1, AppendIsConcat
<1> QED BY <1>1, <1>2, <1>3, <1>4 DEF h

\* One more character ends a line, or it goes on.
LEMMA OneMore ==
  ASSUME NEW d \in Seq(Char), NEW h \in Char, NEW S, NoneIn(d, S)
  PROVE  /\ <<h>> \in Seq(Char) /\ d \o <<h>> \in Seq(Char) /\ d \o <<h>> # <<>>
         /\ h \in S => EndsLine(d \o <<h>>, S)
         /\ h \notin S => NoneIn(d \o <<h>>, S)
<1> DEFINE f == <<h>>
           u == d \o f
           a == Len(d)
<1>1. f \in Seq(Char) /\ Len(f) = 1 /\ f[1] = h
  OBVIOUS
<1> HIDE DEF f
<1>2. /\ u \in Seq(Char) /\ Len(u) = a + Len(f) /\ a \in Nat
      /\ \A i \in 1 .. a + Len(f) : u[i] = IF i <= a THEN d[i] ELSE f[i - a]
  BY <1>1, ConcatProperties, LenProperties
<1>3. \A i \in 1 .. a : d[i] \notin S
  BY DEF NoneIn
<1> HIDE DEF u, a
<1>4. u[a + 1] = h /\ \A i \in 1 .. a : u[i] = d[i]
  <2>1. a + 1 \in 1 .. a + Len(f) /\ ~(a + 1 <= a) /\ a + 1 - a = 1
    BY <1>1, <1>2
  <2>2. \A i \in 1 .. a : i \in 1 .. a + Len(f) /\ i <= a
    BY <1>1, <1>2
  <2> QED BY <1>1, <1>2, <2>1, <2>2
<1>5. Len(u) = a + 1 /\ a + 1 - 1 = a
  BY <1>1, <1>2
<1>6. u # <<>>
  BY <1>2, <1>5, NothingIs
<1>7. ASSUME h \in S PROVE EndsLine(u, S)
  <2>1. u[Len(u)] \in S
    BY <1>4, <1>5, <1>7
  <2>2. \A i \in 1 .. Len(u) - 1 : u[i] \notin S
    <3>1. Len(u) - 1 = a
      BY <1>2, <1>5
    <3>2. \A i \in 1 .. a : u[i] \notin S
      BY <1>3, <1>4
    <3> QED BY <3>1, <3>2
  <2> QED BY <1>6, <2>1, <2>2 DEF EndsLine
<1>8. h \notin S => NoneIn(u, S)
  <2>1. \A i \in 1 .. a + 1 : i = a + 1 \/ i \in 1 .. a
    BY <1>2
  <2> QED BY <1>3, <1>4, <1>5, <2>1 DEF NoneIn
<1> QED BY <1>1, <1>2, <1>6, <1>7, <1>8 DEF u, f

\* A turn of reading characters one by one.
LEMMA GetsNextFlows ==
  ASSUME StreamInv, FlowInv, Steady, NullIsNoRecord, GetsNext
  PROVE  FlowInv' /\ Refined
<1> DEFINE c == run.call
           name == c.name
           by == c.by
           p == run.from[1]
           t0 == run.from[2]
           B == Base(name, run.from[2])
           l == Len(r.text)
           end == IF r.text = <<>> THEN "EMPTY" ELSE "OK"
<1>1. /\ run.pc = "gets" /\ buff' = buff /\ isEOF' = isEOF
      /\ \/ core = <<>> /\ core' = core /\ Ends(Ended(r, r.text), c, end)
         \/ /\ core # <<>> /\ core' = Tail(core)
            /\ \/ Refused(r, l + 2) /\ Ends(r, c, "ERR")
               \/ \E g \in IF l > r.mlen - 2 THEN Grown(r, l + 2) ELSE {r} :
                    GetsTurn(g, Append(r.text, Head(core)))
  BY Zenon DEF GetsNext, GetsTurn
<1>2. /\ split = NULL /\ ~open /\ GetsFlow(p, t0, c, r.text, core) /\ Found = run.from
      /\ core \in Seq(Char) /\ Held(r)
  BY <1>1 DEF StreamInv, FlowInv, RunOK, Found, Idle
<1>3. IsStr(r) /\ r.text \in Seq(Char) /\ l \in Nat
  BY <1>2, HeldIs
<1>4. name \in {"bgetsa", "bassigngets", "bgets"} /\ B \in Seq(Char)
  BY <1>2 DEF GetsFlow
<1>5. PICK d \in Seq(Char) : p = d \o core /\ r.text = B \o d /\ NoneIn(d, by)
  BY <1>2 DEF GetsFlow
<1> HIDE DEF B, p, t0, name, by, l
<1>6. OffStream
  BY <1>1, <1>2 DEF OffStream
<1>7. ASSUME NEW s, NEW e, Ends(s, c, e)
      PROVE  FlowInv' /\ Returned(name, by, e, p, t0, core', Leaves(name, e, s))
  BY <1>2, <1>6, <1>7, EndsOff DEF name, by, p, t0
<1>8. CASE core = <<>> /\ core' = core /\ Ends(Ended(r, r.text), c, end)
  <2>1. FlowInv' /\ Returned(name, by, end, p, t0, core', Leaves(name, end, Ended(r, r.text)))
    BY <1>7, <1>8
  <2>2. Ended(r, r.text).text = r.text
    BY <1>3, EndedIs
  <2>3. Leaves(name, end, Ended(r, r.text)) = Base(name, t0) \o d
    BY <1>5, <2>2 DEF Leaves, B, t0
  <2>4. end = IF Base(name, t0) \o d = <<>> THEN "EMPTY" ELSE "OK"
    BY <1>5 DEF B, t0
  <2>5. core \in Seq(Char) /\ Returned(name, by, end, d \o core, t0, core, Base(name, t0) \o d)
    BY <1>2, <1>5, <1>8, <2>1, <2>3
  <2>6. LineOf(d, core, by)
    BY <1>5, <1>8 DEF LineOf
  <2> HIDE DEF c, end
  <2>7. Abstract!Next
    BY <1>4, <2>4, <2>5, <2>6, LineGot
  <2> QED BY <2>1, <2>7 DEF Refined
<1> DEFINE h == Head(core)
           f == <<h>>
           q == Tail(core)
           D == d \o f
<1>9. ASSUME core # <<>>
      PROVE  /\ h \in Char /\ f \in Seq(Char) /\ q \in Seq(Char) /\ core = f \o q
             /\ Append(r.text, h) = r.text \o f /\ r.text \o f = B \o D
             /\ D \in Seq(Char) /\ D # <<>> /\ p = D \o q
             /\ h \in by => EndsLine(D, by)
             /\ h \notin by => NoneIn(D, by)
  <2>1. /\ h \in Char /\ f \in Seq(Char) /\ q \in Seq(Char) /\ core = f \o q
        /\ Append(r.text, h) = r.text \o f
    BY <1>2, <1>3, <1>9, HeadIs
  <2>2. /\ D \in Seq(Char) /\ D # <<>> /\ (h \in by => EndsLine(D, by))
        /\ h \notin by => NoneIn(D, by)
    <3>1. h \in Char
      BY <2>1
    <3> HIDE DEF h
    <3> QED BY <1>5, <3>1, OneMore
  <2> HIDE DEF f, q, h
  <2>3. (B \o d) \o f = B \o (d \o f)
    BY <1>4, <2>1, Regroup
  <2>4. (d \o f) \o q = d \o (f \o q)
    BY <2>1, Regroup
  <2> HIDE DEF c
  <2>5. r.text \o f = B \o D /\ p = D \o q
    BY <1>5, <2>1, <2>3, <2>4
  <2> QED BY <2>1, <2>2, <2>5
<1> HIDE DEF D, f, q, h
<1>10. CASE core # <<>> /\ core' = Tail(core) /\ Refused(r, l + 2) /\ Ends(r, c, "ERR")
  <2>1. Tight
    BY <1>10 DEF Refused, Tight
  <2>2. FlowInv' /\ Returned(name, by, "ERR", p, t0, q, Leaves(name, "ERR", r))
    BY <1>7, <1>10 DEF q
  <2> HIDE DEF c
  <2>3. CASE name \in {"bgetsa", "bassigngets"}
    <3>1. Leaves(name, "ERR", r) = Base(name, t0) \o d
      BY <1>5, <2>3 DEF Leaves, B, t0
    <3>2. Returned(name, by, "ERR", d \o core, t0, Tail(core), Base(name, t0) \o d)
      BY <1>5, <2>2, <3>1 DEF q
    <3>3. Abstract!Next
      BY <1>2, <1>10, <2>1, <2>3, <3>2, CharLost
    <3> QED BY <2>2, <3>3 DEF Refined
  <2>4. CASE name = "bgets"
    <3>1. Leaves(name, "ERR", r) = <<>>
      BY <2>4 DEF Leaves
    <3>2. Returned(name, by, "ERR", D \o q, t0, q, <<>>) /\ name \in {"bread", "bgets"}
          /\ D \in Seq(Char) /\ q \in Seq(Char)
      BY <1>9, <1>10, <2>2, <2>4, <3>1
    <3>3. Abstract!Next
      BY <2>1, <3>2, AllLost
    <3> QED BY <2>2, <3>3 DEF Refined
  <2> QED BY <1>4, <2>3, <2>4
<1>11. ASSUME core # <<>>, core' = Tail(core),
              NEW g \in IF l > r.mlen - 2 THEN Grown(r, l + 2) ELSE {r},
              GetsTurn(g, Append(r.text, Head(core)))
       PROVE  FlowInv' /\ Refined
  <2> DEFINE t == r.text \o f
  <2>1. /\ h \in Char /\ f \in Seq(Char) /\ q \in Seq(Char) /\ core' = q
        /\ t = B \o D /\ D \in Seq(Char) /\ D # <<>> /\ p = D \o q
        /\ h \in by => EndsLine(D, by)
        /\ h \notin by => NoneIn(D, by)
        /\ GetsTurn(g, t)
    BY <1>9, <1>11 DEF h, q
  <2>2. t \in Seq(Char)
    BY <1>3, <2>1, JoinedIs
  <2>3. IsStr(g)
    <3>1. l + 2 \in Nat
      BY <1>3
    <3>2. CASE l > r.mlen - 2
      BY <1>3, <1>11, <3>1, <3>2, GrownIs
    <3>3. CASE ~(l > r.mlen - 2)
      BY <1>3, <1>11, <3>3
    <3> QED BY <3>2, <3>3
  <2> HIDE DEF t
  <2>4. Ended(g, t).text = t /\ Unended(g, t).text = t
    BY <2>2, <2>3, EndedIs
  <2>5. CASE h \in by
    <3> DEFINE s == Ended(g, t)
    <3>1. Ends(s, c, "OK")
      BY <2>1, <2>5 DEF GetsTurn, h, by
    <3>2. s.text = t
      BY <2>4
    <3> HIDE DEF s
    <3>3. FlowInv' /\ Returned(name, by, "OK", p, t0, q, Leaves(name, "OK", s))
      BY <1>7, <2>1, <3>1
    <3>4. Leaves(name, "OK", s) = Base(name, t0) \o D
      BY <2>1, <3>2 DEF Leaves, B, t0
    <3>5. Base(name, t0) \o D # <<>>
      BY <1>4, <2>1, BothEmpty DEF B, t0
    <3>6. LineOf(D, q, by)
      BY <2>1, <2>5 DEF LineOf
    <3>7. Returned(name, by, "OK", D \o q, t0, q, Base(name, t0) \o D)
      BY <2>1, <3>3, <3>4
    <3> HIDE DEF c
    <3>8. Abstract!Next
      BY <1>4, <2>1, <3>5, <3>6, <3>7, LineGot
    <3> QED BY <3>3, <3>8 DEF Refined
  <2>6. CASE h \notin by
    <3> DEFINE s == Unended(g, t)
    <3>1. GoesOn(s, c, "gets", 0, run.rlo)
      BY <2>1, <2>6 DEF GetsTurn, h, by
    <3>2. s.text = t
      BY <2>4
    <3> HIDE DEF s
    <3>3. GetsFlow(p, t0, c, s.text, core')
      BY <1>4, <2>1, <2>6, <3>2 DEF GetsFlow, B, t0, name, by
    <3>4. Goes(c, "gets", 0, run.rlo, s)
      BY <1>2, <3>3 DEF Goes, p, t0
    <3> QED BY <1>6, <3>1, <3>4, GoesOnOff
  <2> QED BY <2>5, <2>6
<1> QED BY <1>1, <1>8, <1>10, <1>11

-----------------------------------------------------------------------------
(* Reading for a splitting.                                                *)

\* A splitting that is going on.
Splitting == OnStream /\ SplitOK /\ split # NULL

\* When it is.
LEMMA SplittingIs ==
  ASSUME StreamInv, FlowInv, Steady, NullIsNoRecord,
         run.pc \in {"scan", "judge"} \/ (run.pc = "read" /\ split # NULL)
  PROVE  Splitting
<1>1. Fits(buff) /\ SplitOK
  BY DEF StreamInv, RunOK
<1>2. split # NULL
  BY <1>1 DEF SplitOK, NullIsNoRecord
<1>3. open
  BY <1>2 DEF FlowInv
<1> QED BY <1>1, <1>2, <1>3 DEF Splitting, OnStream, Fits

\* What Splitting says.
LEMMA SplittingSays ==
  ASSUME Splitting
  PROVE  /\ OnStream /\ StreamInv /\ FlowInv /\ Steady /\ NullIsNoRecord /\ open
         /\ SplitOK /\ split # NULL /\ SplitFlow(split, buff.text, core)
         /\ IsStr(split.acc) /\ split.acc.text \in Seq(Char) /\ Len(split.acc.text) \in Nat
         /\ buff.text \in Seq(Char) /\ core \in Seq(Char) /\ buff.text \o core \in Seq(Char)
         /\ IsStr(buff) /\ IsStr(r) /\ Pending = buff.text \o core
         /\ Coming = split.acc.text \o (buff.text \o core) /\ Shown = r.text
         /\ Left = split.start
<1>1. OnStream /\ SplitOK /\ split # NULL
  BY DEF Splitting
<1>2. /\ StreamInv /\ FlowInv /\ Steady /\ NullIsNoRecord /\ open
      /\ buff.text \in Seq(Char) /\ core \in Seq(Char) /\ Pending = buff.text \o core
      /\ Pending \in Seq(Char)
  BY <1>1, OnStreamIs
<1>3. IsStr(split.acc) /\ split.acc.text \in Seq(Char) /\ Len(split.acc.text) \in Nat
  BY <1>1, FitsHeld DEF SplitOK
<1>4. SplitFlow(split, buff.text, core)
  BY <1>1, <1>2 DEF FlowInv
<1>5. IsStr(r) /\ IsStr(buff)
  BY <1>1, <1>2, HeldIs DEF StreamInv, OnStream
<1> QED BY <1>1, <1>2, <1>3, <1>4, <1>5 DEF Coming, Shown, Left

\* A splitting with another string.
SameSplit(s) ==
  /\ {"acc", "name", "seps", "ofs", "ok", "start"} \subseteq DOMAIN split' /\ split'.acc = s
  /\ split'.name = split.name /\ split'.seps = split.seps /\ split'.ofs = split.ofs
  /\ split'.start = split.start /\ split'.ok \in BOOLEAN

\* What is in the string and what there is to come, together.
Flowing(s) == s.text \o (buff'.text \o core') = split.acc.text \o (buff.text \o core)

\* What a splitting by a string does in a step: nothing the callback sees, or it hands out
\* the next of what is ahead.
Divides ==
  \/ split' # NULL /\ Ahead' = Ahead /\ ret' = ret
  \/ ret'.call = "bssplitstrcb" /\ ret'.by = split.seps /\ (HandsOut \/ HandsOutRest)

\* What any splitting does.
Divided == IF split.name = "bssplitstrcb" THEN Divides ELSE Refined

\* What is ahead is what is to come.
LEMMA AheadIs ==
  /\ split # NULL => Ahead = Coming
  /\ split' # NULL => Ahead' = Coming'
BY DEF Ahead, Coming

\* What the client sees does not change.
LEMMA SplitStays ==
  ASSUME Splitting, NEW s, IsStr(s), SameSplit(s), Flowing(s), IsStr(buff'), r' = r,
         ret' = ret, EndFlow', run'.pc \in {"read", "judge", "scan"},
         run'.pc = "read" => AccFlow(split', run'.rlo),
         run'.pc = "judge" => JudgeFlow(split', buff'.text, core'),
         run'.pc = "scan" => (Blocks(split') => split'.acc.text = <<>>)
  PROVE  FlowInv' /\ Divided
<1>1. /\ OnStream /\ Steady /\ NullIsNoRecord /\ open /\ SplitFlow(split, buff.text, core)
      /\ Coming = split.acc.text \o (buff.text \o core) /\ Shown = r.text
      /\ Left = split.start
  BY SplittingSays
<1>2. split' # NULL
  BY <1>1 DEF SameSplit, NullIsNoRecord
<1>3. Pending' = buff'.text \o core' /\ buff' # NULL /\ open'
  BY <1>1, OnStreamIs
<1>4. Coming' = Coming /\ Shown' = Shown /\ Left' = Left
  <2>1. Coming' = s.text \o (buff'.text \o core')
    BY <1>2, <1>3 DEF Coming, SameSplit
  <2>2. Shown' = r.text /\ Left' = split.start
    BY <1>2 DEF Shown, Left, SameSplit
  <2> QED BY <1>1, <2>1, <2>2 DEF Flowing
<1>5. Divided
  <2>1. Refined
    BY <1>1, <1>4 DEF Refined, Steady
  <2>2. split # NULL
    BY SplittingSays
  <2>3. Divides
    BY <1>2, <1>4, <2>2, AheadIs DEF Divides
  <2> QED BY <2>1, <2>3 DEF Divided
<1>6. SplitFlow(split', buff'.text, core')
  <2>1. Blocks(split') = Blocks(split)
    BY DEF SameSplit, Blocks
  <2>2. s.text \o (buff'.text \o core') = split.acc.text \o (buff.text \o core)
    BY DEF Flowing
  <2>3. ~Blocks(split') =>
          split'.start = split'.ofs + Len(split'.acc.text \o (buff'.text \o core'))
    BY <1>1, <2>1, <2>2 DEF SameSplit, SplitFlow
  <2> QED BY <1>1, <2>3 DEF SameSplit, SplitFlow
<1>7. FlowInv'
  <2>1. SplitFlow(split, buff.text, core)'
    BY <1>6 DEF SplitFlow, Blocks
  <2>2. run'.pc = "read" => AccFlow(split, run.rlo)'
    BY DEF AccFlow, Clean, NoneIn, Blocks
  <2>3. run'.pc = "judge" => JudgeFlow(split, buff.text, core)'
    BY <1>1 DEF JudgeFlow, Clean, NoneIn, Blocks, Tight, Steady
  <2>4. run'.pc = "scan" => (Blocks(split) => split.acc.text = <<>>)'
    BY DEF Blocks
  <2> QED BY <1>2, <1>3, <2>1, <2>2, <2>3, <2>4 DEF FlowInv
<1> QED BY <1>5, <1>7

\* A read that ends.
LEMMA SplitReadEnds ==
  ASSUME Splitting, NEW s, IsStr(s), NEW c, NEW end \in {"OK", "ERR"}, Ends(s, c, end),
         Flowing(s), IsStr(buff'), EndFlow',
         end = "ERR" => (buff'.text \o core' = <<>> \/ Tight) /\ Clean(split, s.text),
         end = "OK" => (Blocks(split) => s.text # <<>>)
  PROVE  FlowInv' /\ Divided
<1>1. StreamInv /\ Steady /\ split # NULL /\ SplitFlow(split, buff.text, core)
  BY SplittingSays
<1>2. /\ run' = [run EXCEPT !.pc = "judge"]
      /\ split' = [split EXCEPT !.acc = s, !.ok = end = "OK"] /\ r' = r /\ ret' = ret
  BY <1>1 DEF Ends
<1>3. run'.pc = "judge"
  BY <1>1, <1>2 DEF StreamInv, RunOK
<1>4. SameSplit(s) /\ split'.ok = (end = "OK")
  BY <1>1, <1>2 DEF SameSplit, SplitFlow
<1>5. Blocks(split') = Blocks(split) /\ Clean(split', s.text) = Clean(split, s.text)
  BY <1>4 DEF SameSplit, Blocks, Clean
<1>6. JudgeFlow(split', buff'.text, core')
  BY <1>4, <1>5 DEF JudgeFlow, SameSplit
<1> QED BY <1>2, <1>3, <1>4, <1>6, SplitStays

\* A read that goes on.
LEMMA SplitReadGoesOn ==
  ASSUME Splitting, NEW s, IsStr(s), NEW c, NEW n, NEW rlo, GoesOn(s, c, "read", n, rlo),
         Flowing(s), IsStr(buff'), EndFlow',
         NEW a \in Seq(Char), NEW d \in Seq(Char), s.text = a \o d, rlo = Len(a), Clean(split, a)
  PROVE  FlowInv' /\ Divided
<1>1. StreamInv /\ Steady /\ split # NULL /\ SplitFlow(split, buff.text, core)
  BY SplittingSays
<1>2. /\ run'.pc = "read" /\ run'.rlo = rlo
      /\ split' = [split EXCEPT !.acc = s] /\ r' = r /\ ret' = ret
  BY <1>1 DEF GoesOn
<1>3. SameSplit(s)
  BY <1>1, <1>2 DEF SameSplit, SplitFlow
<1>4. Clean(split', a)
  BY <1>3 DEF SameSplit, Clean, Blocks
<1>5. AccFlow(split', rlo)
  BY <1>3, <1>4 DEF AccFlow, SameSplit
<1> QED BY <1>2, <1>3, <1>5, SplitStays

\* Without a separator in its string, a splitting reads.
LEMMA SplitReadFlows ==
  ASSUME Splitting, run.pc = "scan", SepAt = 0, NEW c, c.by \in Nat \ {0},
         Read(buff, split.acc, c)
  PROVE  FlowInv' /\ Divided
<1> DEFINE t == buff.text
           s == split.acc
           a == split.acc.text
<1>1. /\ FlowInv /\ Steady /\ core \in Seq(Char) /\ t \in Seq(Char) /\ a \in Seq(Char)
      /\ IsStr(s) /\ IsStr(buff) /\ maxBuffSz \in Nat /\ Len(a) \in Nat
  BY SplittingSays DEF StreamInv
<1>2. Clean(split, a)
  <2>1. split.name = "bssplitscb" => NoneIn(a, split.seps)
    BY <1>1, FirstOfFinds DEF SepAt
  <2>2. Blocks(split) => a = <<>>
    BY <1>1 DEF FlowInv
  <2> QED BY <2>1, <2>2 DEF Clean
<1>3. ASSUME NEW x, x.text = a, IsStr(buff'), buff'.text = t, core' = core PROVE Flowing(x)
  BY <1>3 DEF Flowing
<1>4. CASE t = <<>> /\ isEOF /\ Ends(s, c, "ERR") /\ buff' = buff /\ UNCHANGED <<core, isEOF>>
  <2>1. core = <<>> \/ Tight
    BY <1>1, <1>4 DEF FlowInv, EndFlow
  <2>2. EndFlow'
    BY <1>1, <1>4, EndFlowStays
  <2>3. buff'.text \o core' = <<>> \/ Tight
    BY <1>1, <1>4, <2>1, BothEmpty
  <2> QED BY <1>1, <1>2, <1>3, <1>4, <2>2, <2>3, SplitReadEnds
<1>5. CASE t = <<>> /\ ReadAtOnce(buff, s, c)
  <2>1. PICK k \in Delivers(c.by) :
          /\ core' = From(core, k) /\ isEOF' = (k = 0)
          /\ IF k = 0 THEN Ends(s, c, "ERR")
             ELSE Ends(Ended(s, a \o First(core, k)), c, "OK")
    BY <1>5 DEF ReadAtOnce
  <2>2. buff' = buff
    BY <1>5 DEF ReadAtOnce
  <2> DEFINE d == First(core, k)
             rest == From(core, k)
  <2>3. /\ core = d \o rest /\ d \in Seq(Char) /\ Len(d) = k /\ rest \in Seq(Char)
        /\ k = 0 => core = <<>>
    BY <1>1, DeliversEnd, DeliversIs
  <2>4. core' = rest
    BY <2>1
  <2> HIDE DEF d, rest
  <2>5. CASE k = 0
    <3>1. core = <<>> /\ core' = core /\ Ends(s, c, "ERR")
      BY <2>1, <2>3, <2>4, <2>5, BothEmpty
    <3>2. EndFlow'
      BY <3>1 DEF EndFlow
    <3>3. buff'.text \o core' = <<>>
      BY <1>1, <1>5, <2>2, <3>1, BothEmpty
    <3> QED BY <1>1, <1>2, <1>3, <2>2, <3>1, <3>2, <3>3, SplitReadEnds
  <2>6. CASE k # 0
    <3> DEFINE x == Ended(s, a \o d)
    <3>1. Ends(x, c, "OK")
      BY <2>1, <2>6 DEF d
    <3>2. a \o d \in Seq(Char)
      BY <1>1, <2>3, ConcatProperties
    <3>3. IsStr(x) /\ x.text = a \o d
      BY <1>1, <3>2, EndedIs
    <3> HIDE DEF x
    <3>4. EndFlow'
      BY <2>1, <2>6 DEF EndFlow
    <3>5. Flowing(x)
      <4>1. (a \o d) \o rest = a \o (d \o rest)
        BY <1>1, <2>3, Regroup
      <4>2. t \o rest = rest /\ t \o core = core
        BY <1>1, <1>5, <2>3, NothingIs
      <4>3. x.text \o (buff'.text \o core') = (a \o d) \o rest
        BY <2>2, <2>4, <3>3, <4>2
      <4>4. a \o (t \o core) = a \o (d \o rest)
        BY <2>3, <4>2
      <4> QED BY <4>1, <4>3, <4>4 DEF Flowing
    <3>6. x.text # <<>>
      <4>1. d # <<>>
        BY <2>3, <2>6, NothingIs
      <4> QED BY <1>1, <2>3, <3>3, <4>1, BothEmpty
    <3> QED BY <1>1, <2>2, <3>1, <3>3, <3>4, <3>5, <3>6, SplitReadEnds
  <2> QED BY <2>5, <2>6
<1>6. CASE ReadBuffered(buff, s, c)
  <2>1. core' = core /\ isEOF' = isEOF
    BY <1>6 DEF ReadBuffered
  <2>2. EndFlow'
    BY <1>1, <2>1, EndFlowStays
  <2>3. CASE Refused(buff, maxBuffSz + 1) /\ Ends(s, c, "ERR") /\ buff' = buff
    <3>1. Tight
      BY <2>3 DEF Refused, Tight
    <3> QED BY <1>1, <1>2, <1>3, <2>1, <2>2, <2>3, <3>1, SplitReadEnds
  <2>4. CASE \E g \in Grown(buff, maxBuffSz + 1) :
               GoesOn(s, c, "read", c.by + Len(a), Len(a)) /\ buff' = g
    <3> DEFINE n == c.by + Len(a)
    <3>1. PICK g \in Grown(buff, maxBuffSz + 1) :
            GoesOn(s, c, "read", n, Len(a)) /\ buff' = g
      BY <2>4
    <3>2. IsStr(buff') /\ buff'.text = t
      <4>1. maxBuffSz + 1 \in Nat
        BY <1>1
      <4> QED BY <1>1, <3>1, <4>1, GrownIs
    <3>3. a = a \o <<>> /\ <<>> \in Seq(Char)
      BY <1>1, NothingIs
    <3> HIDE DEF n
    <3>4. Flowing(s)
      BY <1>3, <2>1, <3>2
    <3> QED BY <1>1, <1>2, <2>2, <3>1, <3>2, <3>3, <3>4, SplitReadGoesOn
  <2> QED BY <1>6, <2>3, <2>4 DEF ReadBuffered
<1>7. \/ t = <<>> /\ isEOF /\ Ends(s, c, "ERR") /\ buff' = buff /\ UNCHANGED <<core, isEOF>>
      \/ t = <<>> /\ ReadAtOnce(buff, s, c)
      \/ ReadBuffered(buff, s, c)
  BY Zenon DEF Read, ReadAtOnce, ReadBuffered
<1> QED BY <1>4, <1>5, <1>6, <1>7

\* A turn of a read for a splitting.
LEMMA SplitReadNextFlows ==
  ASSUME Splitting, ReadNext
  PROVE  FlowInv' /\ Divided
<1> DEFINE c == run.call
           t == buff.text
           s == split.acc
           u == split.acc.text
           wanted == run.n - Len(split.acc.text)
<1>1. /\ StreamInv /\ FlowInv /\ Steady /\ core \in Seq(Char) /\ t \in Seq(Char)
      /\ u \in Seq(Char) /\ Len(u) \in Nat /\ IsStr(s) /\ IsStr(buff) /\ split # NULL
  BY SplittingSays
<1>2. Into = s
  BY <1>1 DEF Into
<1>3. /\ run.pc = "read"
      /\ ReadTaken(s, t, wanted) \/ ReadRefused(s, t, wanted) \/ ReadFilled(s, t, wanted)
  <2>1. /\ run.pc = "read"
        /\ \/ ReadTaken(Into, t, run.n - Len(Into.text))
           \/ ReadRefused(Into, t, run.n - Len(Into.text))
           \/ ReadFilled(Into, t, run.n - Len(Into.text))
    BY Zenon DEF ReadNext, Into, ReadTaken, ReadRefused, ReadFilled, ReadEnds
  <2> QED BY <1>2, <2>1
<1>4. run.n \in Nat /\ run.n > Len(u) /\ maxBuffSz \in Nat \ {0} /\ AccFlow(split, run.rlo)
  BY <1>1, <1>2, <1>3 DEF StreamInv, RunOK, FlowInv
<1>5. wanted \in Nat \ {0}
  BY <1>1, <1>4
<1>6. PICK a \in Seq(Char), d \in Seq(Char) : u = a \o d /\ run.rlo = Len(a) /\ Clean(split, a)
  BY <1>4 DEF AccFlow
<1> HIDE DEF t, u, wanted
\* What a read has got: d, and e in this turn.
<1>7. ASSUME NEW x, ReadEnds(x), IsStr(x), NEW e \in Seq(Char), x.text = u \o e,
             Flowing(x), IsStr(buff'), EndFlow',
             e = <<>> => buff'.text \o core' = <<>> \/ Tight
      PROVE  FlowInv' /\ Divided
  <2> DEFINE end == IF Len(x.text) = run.rlo THEN "ERR" ELSE "OK"
             D == d \o e
  <2>1. D \in Seq(Char) /\ (D = <<>> <=> d = <<>> /\ e = <<>>) /\ x.text = a \o D
    <3>1. (a \o d) \o e = a \o (d \o e)
      BY <1>7, Regroup
    <3> QED BY <1>6, <1>7, <3>1, BothEmpty, ConcatProperties
  <2> HIDE DEF D
  <2>2. Len(x.text) = Len(a) + Len(D) /\ Len(a) \in Nat /\ Len(D) \in Nat
        /\ (D = <<>> <=> Len(D) = 0)
    BY <2>1, JoinedIs, NothingIs
  <2>3. end \in {"OK", "ERR"} /\ (end = "ERR" <=> D = <<>>)
    <3> DEFINE l == Len(x.text)
               i == Len(a)
               j == Len(D)
    <3>1. l = i + j /\ i \in Nat /\ j \in Nat /\ run.rlo = i
      BY <1>6, <2>2
    <3> HIDE DEF l, i, j
    <3>2. l = run.rlo <=> j = 0
      BY <3>1
    <3> QED BY <2>2, <3>2 DEF l, j
  <2>4. Ends(x, c, end)
    BY <1>7 DEF ReadEnds
  <2> HIDE DEF end
  <2>5. D = <<>> => x.text = a
    BY <2>1, NothingIs
  <2>6. end = "ERR" => (buff'.text \o core' = <<>> \/ Tight) /\ Clean(split, x.text)
    BY <1>6, <1>7, <2>1, <2>3, <2>5
  <2>7. end = "OK" => (Blocks(split) => x.text # <<>>)
    BY <2>1, <2>3, BothEmpty
  <2> HIDE DEF c
  <2> QED BY <1>7, <2>3, <2>4, <2>6, <2>7, SplitReadEnds
\* The string that could not grow.
<1>8. ASSUME Tight, ReadEnds(s), buff' = buff, core' = core
      PROVE  FlowInv' /\ Divided
  <2>1. EndFlow'
    BY <1>1, <1>8 DEF EndFlow, Tight, Steady
  <2>2. Flowing(s)
    BY <1>8 DEF Flowing
  <2>3. <<>> \in Seq(Char) /\ s.text = u \o <<>>
    BY <1>1, NothingIs DEF u
  <2>4. IsStr(buff')
    BY <1>1, <1>8
  <2> HIDE DEF s
  <2> QED BY <1>1, <1>7, <1>8, <2>1, <2>2, <2>3, <2>4
<1>9. CASE ReadTaken(s, t, wanted)
  <2>1. core' = core /\ isEOF' = isEOF /\ Len(t) >= wanted
    BY <1>9 DEF ReadTaken
  <2>2. CASE ConcatRefused(s, First(t, wanted)) /\ buff' = buff /\ ReadEnds(s)
    BY <1>8, <2>1, <2>2 DEF ConcatRefused, Refused, Tight
  <2>3. CASE /\ buff' = Ended(buff, From(t, wanted))
             /\ \E x \in Concat(s, First(t, wanted)) : ReadEnds(x)
    <3> DEFINE f == First(t, wanted)
               q == From(t, wanted)
    <3>1. wanted \in 0 .. Len(t)
      BY <1>1, <1>5, <2>1, LenProperties
    <3>2. f \o q = t /\ f \in Seq(Char) /\ q \in Seq(Char) /\ Len(f) = wanted
      BY <1>1, <3>1, CutIs
    <3>3. PICK x \in Concat(s, f) : ReadEnds(x)
      BY <2>3
    <3>4. buff' = Ended(buff, q)
      BY <2>3
    <3> HIDE DEF f, q
    <3>5. IsStr(buff') /\ buff'.text = q
      BY <1>1, <3>2, <3>4, EndedIs
    <3>6. x.text = u \o f /\ IsStr(x)
      BY <1>1, <3>2, <3>3, ConcatIs, FitsHeld DEF u
    <3>7. Flowing(x)
      <4>3. f \in Seq(Char) /\ q \in Seq(Char) /\ core \in Seq(Char) /\ u \in Seq(Char)
        BY <1>1, <3>2
      <4>2. (f \o q) \o core = f \o (q \o core)
        BY <4>3, Regroup, ZenonT(60)
      <4>4. q \o core \in Seq(Char)
        BY <4>3, ConcatProperties
      <4>1. (u \o f) \o (q \o core) = u \o (f \o (q \o core))
        BY <4>3, <4>4, Regroup, ZenonT(60)
      <4> QED BY <2>1, <3>2, <3>5, <3>6, <4>1, <4>2 DEF Flowing, u, t
    <3>8. EndFlow'
      BY <1>1, <2>1, EndFlowStays
    <3>9. f # <<>>
      BY <1>5, <3>2, NothingIs
    <3> QED BY <1>7, <3>2, <3>3, <3>5, <3>6, <3>7, <3>8, <3>9
  <2> QED BY <1>9, <2>2, <2>3 DEF ReadTaken
<1>10. CASE ReadRefused(s, t, wanted)
  BY <1>8, <1>10 DEF ReadRefused, ConcatRefused, Refused, Tight
<1>11. CASE ReadFilled(s, t, wanted)
  <2> DEFINE m == Min({wanted - Len(t), maxBuffSz})
  <2>1. PICK x \in Concat(s, t), k \in Delivers(m) :
          /\ core' = From(core, k) /\ buff' = Unended(buff, First(core, k))
          /\ isEOF' = (isEOF \/ k = 0)
          /\ IF k = 0 THEN ReadEnds(x)
             ELSE GoesOn(x, run.call, "read", run.n, run.rlo)
    BY <1>11 DEF ReadFilled
  <2>2. Len(t) < wanted /\ Len(t) \in Nat
    BY <1>1, <1>11, LenProperties DEF ReadFilled
  <2>3. m \in Nat \ {0}
    <3>1. wanted - Len(t) \in Int /\ maxBuffSz \in Int
      BY <1>4, <1>5, <2>2
    <3>2. m = IF wanted - Len(t) <= maxBuffSz THEN wanted - Len(t) ELSE maxBuffSz
      BY <3>1, MinOfTwo
    <3> HIDE DEF m
    <3> QED BY <1>4, <1>5, <2>2, <3>2
  <2> HIDE DEF m
  <2> DEFINE f == First(core, k)
             q == From(core, k)
  <2>4. /\ f \in Seq(Char) /\ Len(f) = k /\ q \in Seq(Char) /\ core = f \o q
        /\ k = 0 => core = <<>>
    BY <1>1, <2>3, DeliversIs, DeliversEnd
  <2>5. core' = q /\ buff' = Unended(buff, f)
    BY <2>1
  <2> HIDE DEF f, q
  <2>6. IsStr(buff') /\ buff'.text \o core' = core
    BY <1>1, <2>4, <2>5, EndedIs
  <2>7. x.text = u \o t /\ IsStr(x)
    BY <1>1, <2>1, ConcatIs, FitsHeld DEF u
  <2>8. Flowing(x)
    <3>1. (u \o t) \o core = u \o (t \o core)
      BY <1>1, Regroup, ZenonT(60)
    <3> QED BY <2>6, <2>7, <3>1 DEF Flowing, u, t
  <2>9. EndFlow'
    <3>1. CASE k = 0
      <4>1. q = <<>>
        BY <2>4, <3>1, BothEmpty
      <4> QED BY <2>5, <4>1 DEF EndFlow
    <3>2. CASE k # 0
      <4>1. core # <<>>
        <5>1. f # <<>>
          BY <2>4, <3>2, NothingIs
        <5> QED BY <2>4, <5>1, BothEmpty
      <4>2. isEOF => Tight
        BY <1>1, <4>1 DEF FlowInv, EndFlow
      <4>3. isEOF' => isEOF
        BY <2>1, <3>2
      <4> QED BY <1>1, <4>2, <4>3 DEF EndFlow, Tight, Steady
    <3> QED BY <3>1, <3>2
  <2>10. CASE k = 0
    <3>1. core = <<>> /\ ReadEnds(x)
      BY <2>1, <2>4, <2>10
    <3> QED BY <1>1, <1>7, <2>6, <2>7, <2>8, <2>9, <3>1
  <2>11. CASE k # 0
    <3>1. GoesOn(x, c, "read", run.n, run.rlo)
      BY <2>1, <2>11
    <3> DEFINE D == d \o t
    <3>2. D \in Seq(Char) /\ x.text = a \o D
      <4>1. (a \o d) \o t = a \o (d \o t)
        BY <1>1, Regroup, ZenonT(60)
      <4> QED BY <1>1, <1>6, <2>7, <4>1, ConcatProperties
    <3> HIDE DEF D, c
    <3> QED BY <1>6, <2>6, <2>7, <2>8, <2>9, <3>1, <3>2, SplitReadGoesOn
  <2> QED BY <2>10, <2>11
<1> QED BY <1>3, <1>9, <1>10, <1>11

-----------------------------------------------------------------------------
(* Callbacks.                                                              *)

\* The callback was called with the piece t, or the splitting has ended.
Called(t, end) ==
  /\ ret'.call = split.name /\ ret'.by = split.seps /\ ret'.ofs = split.ofs /\ ret'.text = t
  /\ ret'.end = end /\ Shown' = Shown /\ Kept /\ (end = "piece" => split' # NULL)

\* A splitting that ends.
LEMMA SplitDone ==
  ASSUME Splitting, SplitEnds, r' = r, EndFlow', IsStr(buff')
  PROVE  FlowInv' /\ Coming' = buff'.text \o core' /\ Left' = 0 /\ Shown' = Shown /\ Kept
<1>1. /\ OnStream /\ Steady /\ Shown = r.text
  BY SplittingSays
<1>2. Pending' = buff'.text \o core' /\ buff' # NULL
  BY <1>1, OnStreamIs
<1>3. split' = NULL /\ run' = Idle
  BY DEF SplitEnds
<1>4. run'.pc = "idle"
  BY <1>3 DEF Idle
<1>5. FlowInv'
  BY <1>2, <1>3, <1>4 DEF FlowInv
<1>6. Coming' = buff'.text \o core' /\ Left' = 0 /\ Shown' = Shown
  BY <1>1, <1>2, <1>3 DEF Coming, Left, Shown
<1> QED BY <1>1, <1>5, <1>6 DEF Kept, Steady

\* A splitting that calls its callback, which stops it or does not.
LEMMA CallsSeen ==
  ASSUME Splitting, NEW t, NEW s, IsStr(s), NEW n \in Nat, Calls(t, s, n), IsStr(buff'),
         core' \in Seq(Char), EndFlow', Blocks(split) => s.text = <<>>,
         ~Blocks(split) =>
           Len(split.acc.text \o (buff.text \o core)) = n + Len(s.text \o (buff'.text \o core'))
  PROVE  /\ FlowInv'
         /\ \/ /\ Called(t, "piece") /\ Left' = Left
               /\ Coming' = s.text \o (buff'.text \o core')
            \/ Called(t, "stopped") /\ Left' = 0 /\ Coming' = buff'.text \o core'
<1>1. /\ OnStream /\ Steady /\ NullIsNoRecord /\ Shown = r.text /\ Left = split.start
      /\ SplitFlow(split, buff.text, core) /\ StreamInv
  BY SplittingSays
<1>2. Pending' = buff'.text \o core' /\ buff' # NULL /\ open'
  BY <1>1, OnStreamIs
<1>3. r' = r
  BY DEF Calls
<1>4. CASE /\ split' = [split EXCEPT !.acc = s, !.ofs = @ + n]
           /\ run' = [run EXCEPT !.pc = "scan"]
           /\ ret' = [call |-> split.name, by |-> split.seps, ofs |-> split.ofs, text |-> t,
                      end |-> "piece"]
  <2>1. /\ {"acc", "name", "seps", "ofs", "ok", "start"} \subseteq DOMAIN split'
        /\ split'.acc = s /\ split'.name = split.name /\ split'.seps = split.seps
        /\ split'.ofs = split.ofs + n /\ split'.start = split.start /\ split'.ok = split.ok
    BY <1>1, <1>4 DEF SplitFlow
  <2>2. split' # NULL
    BY <1>1, <2>1 DEF NullIsNoRecord
  <2>3. run'.pc = "scan"
    BY <1>1, <1>4 DEF StreamInv, RunOK
  <2>4. Coming' = s.text \o (buff'.text \o core') /\ Left' = Left /\ Shown' = Shown
    BY <1>1, <1>2, <1>3, <2>1, <2>2 DEF Coming, Left, Shown
  <2>5. Blocks(split') = Blocks(split)
    BY <2>1 DEF Blocks
  <2>6. SplitFlow(split, buff.text, core)'
    <3>1. split.ofs \in Nat /\ split.start \in Nat /\ split.ok \in BOOLEAN
          /\ split'.ofs \in Nat
      BY <1>1, <2>1 DEF SplitFlow
    <3>2. ASSUME ~Blocks(split)
          PROVE  split'.start = split'.ofs + Len(split'.acc.text \o (buff'.text \o core'))
      <4> DEFINE l == Len(s.text \o (buff'.text \o core'))
                 m == Len(split.acc.text \o (buff.text \o core))
      <4>1. split.start = split.ofs + m /\ m = n + l
        BY <1>1, <3>2 DEF SplitFlow
      <4>2. m \in Nat /\ l \in Nat
        <5>1. s.text \in Seq(Char) /\ buff'.text \in Seq(Char)
          BY DEF IsStr
        <5>2. buff'.text \o core' \in Seq(Char)
          BY <5>1, JoinedIs
        <5>3. /\ s.text \o (buff'.text \o core') \in Seq(Char)
              /\ split.acc.text \o (buff.text \o core) \in Seq(Char)
          <6>1. split.acc.text \in Seq(Char) /\ buff.text \o core \in Seq(Char)
            BY SplittingSays
          <6> QED BY <5>1, <5>2, <6>1, JoinedIs
        <5> QED BY <5>3, LenProperties
      <4> HIDE DEF l, m
      <4>3. split.start = (split.ofs + n) + l
        BY <3>1, <4>1, <4>2
      <4> QED BY <2>1, <4>3 DEF l
    <3>3. ~Blocks(split') =>
            split'.start = split'.ofs + Len(split'.acc.text \o (buff'.text \o core'))
      BY <2>5, <3>2
    <3> QED BY <2>1, <3>1, <3>3 DEF SplitFlow, Blocks
  <2>7. run'.pc = "scan" => (Blocks(split) => split.acc.text = <<>>)'
    BY <2>1, <2>5 DEF Blocks
  <2>8. FlowInv'
    BY <1>2, <2>2, <2>3, <2>6, <2>7 DEF FlowInv
  <2>9. Called(t, "piece")
    BY <1>1, <1>4, <2>2, <2>4 DEF Called, Kept, Steady
  <2> QED BY <2>4, <2>8, <2>9
<1>5. CASE /\ SplitEnds
           /\ ret' = [call |-> split.name, by |-> split.seps, ofs |-> split.ofs, text |-> t,
                      end |-> "stopped"]
  <2>1. FlowInv' /\ Coming' = buff'.text \o core' /\ Left' = 0 /\ Shown' = Shown /\ Kept
    BY <1>3, <1>5, SplitDone
  <2>2. Called(t, "stopped")
    BY <1>5, <2>1 DEF Called
  <2> QED BY <2>1, <2>2
<1> QED BY <1>4, <1>5 DEF Calls

\* A beginning is a prefix.
LEMMA PrefixIs ==
  ASSUME NEW s \in Seq(Char), NEW t \in Seq(Char)
  PROVE  Abstract!IsPrefix(s, s \o t)
<1>1. Len(s \o t) = Len(s) + Len(t) /\ Len(s) \in Nat /\ Len(t) \in Nat
  BY JoinedIs
<1>2. SubSeq(s \o t, 1, Len(s)) = s
  BY PartsIs DEF First
<1>3. SubSeq(s, 1, Len(s)) = s
  BY SubSeqFull
<1>4. Len(s) <= Len(s \o t)
  BY <1>1
<1> QED BY <1>2, <1>3, <1>4 DEF Abstract!IsPrefix

\* No character of it is in a set.
LEMMA NoneIs ==
  ASSUME NEW s \in Seq(Char), NEW S, NoneIn(s, S)
  PROVE  Abstract!ToSet(s) \cap S = {}
<1>1. DOMAIN s = 1 .. Len(s)
  OBVIOUS
<1> QED BY <1>1 DEF NoneIn, Abstract!ToSet

\* The characters of a beginning.
LEMMA FirstElements ==
  ASSUME NEW s \in Seq(Char), NEW n \in 0 .. Len(s)
  PROVE  \A i \in 1 .. n : First(s, n)[i] = s[i]
<1>1. n \in Nat /\ Len(s) \in Nat
  BY LenProperties
<1>2. \A i \in 1 .. n : s[i] \in Char
  BY <1>1, ElementOfSeq
<1>3. \A i \in 1 .. n - 1 + 1 : SubSeq(s, 1, n)[i] = s[1 + i - 1]
  BY <1>1, <1>2, SubSeqProperties
<1> TAKE i \in 1 .. n
<1>4. i \in 1 .. n - 1 + 1 /\ 1 + i - 1 = i
  BY <1>1
<1> QED BY <1>3, <1>4 DEF First

\* How a piece ends with what the client sees.
Outcome(t, end, rest) ==
  Called(t, end) /\ Left' = (IF end = "piece" THEN Left ELSE 0) /\ Coming' = rest

\* The first character of a sequence, in front or behind another.
LEMMA NextIs ==
  ASSUME NEW s \in Seq(Char), NEW t \in Seq(Char), t # <<>>
  PROVE  /\ (s \o t)[Len(s) + 1] = t[1] /\ Len(s) < Len(s \o t)
         /\ (t \o s)[1] = t[1]
<1> DEFINE a == Len(s)
           b == Len(t)
           u == s \o t
           v == t \o s
<1>1. /\ u \in Seq(Char) /\ Len(u) = a + b /\ a \in Nat /\ b \in Nat
      /\ \A i \in 1 .. a + b : u[i] = IF i <= a THEN s[i] ELSE t[i - a]
  BY ConcatProperties, LenProperties
<1>2. \A i \in 1 .. b + a : v[i] = IF i <= b THEN t[i] ELSE s[i - b]
  BY ConcatProperties
<1>3. b # 0
  BY NothingIs
<1> HIDE DEF a, b, u, v
<1>4. \A i \in 1 .. b : u[a + i] = t[i] /\ v[i] = t[i]
  BY <1>1, <1>2
<1>5. 1 \in 1 .. b /\ a < Len(u)
  BY <1>1, <1>3
<1>6. u[a + 1] = t[1] /\ v[1] = t[1]
  BY <1>4, <1>5
<1> QED BY <1>5, <1>6 DEF a, u, v

\* A piece that ends with a character.
LEMMA PieceByChar ==
  ASSUME split.name = "bssplitscb", NEW t \in Seq(Char), NEW h \in Char,
         NEW rest \in Seq(Char), Coming = t \o (<<h>> \o rest), NoneIn(t, split.seps),
         h \in split.seps, NEW end \in {"piece", "stopped"}, Outcome(t, end, rest),
         split.ofs = Left - Len(Coming)
  PROVE  Abstract!Next
<1> DEFINE f == <<h>>
           q == f \o rest
           n == Len(t)
           p == Coming
<1>1. f \in Seq(Char) /\ Len(f) = 1 /\ f[1] = h /\ f # <<>>
  OBVIOUS
<1> HIDE DEF f, p
<1>2. q \in Seq(Char) /\ q # <<>> /\ q[1] = h
  <2>2. (f \o rest)[1] = f[1]
    BY <1>1, NextIs
  <2>3. f \o rest \in Seq(Char)
    BY <1>1, JoinedIs
  <2>4. f \o rest # <<>>
    BY <1>1, BothEmpty
  <2> QED BY <1>1, <2>2, <2>3, <2>4
<1>3. p = t \o q /\ n \in Nat
  BY LenProperties DEF p, f
<1> HIDE DEF q
<1>4. p[n + 1] = h /\ n < Len(p)
  BY <1>2, <1>3, NextIs
<1> HIDE DEF n
<1>5. From(p, n + 1) = rest
  <2>1. (t \o f) \o rest = t \o (f \o rest)
    BY <1>1, Regroup
  <2>2. t \o f \in Seq(Char) /\ Len(t \o f) = n + 1
    <3>1. Len(t \o f) = Len(t) + Len(f) /\ t \o f \in Seq(Char)
      BY <1>1, JoinedIs
    <3> QED BY <1>1, <3>1 DEF n
  <2>3. From((t \o f) \o rest, n + 1) = rest
    BY <2>2, PartsIs
  <2> QED BY <1>3, <2>1, <2>3 DEF q
<1>6. Abstract!IsPrefix(t, p)
  BY <1>2, <1>3, PrefixIs
<1>7. /\ ret'.call = "bssplitscb" /\ ret'.by = split.seps /\ ret'.ofs = split.ofs
      /\ ret'.text = t /\ ret'.end = end /\ Shown' = Shown /\ Kept
      /\ Left' = (IF end = "piece" THEN Left ELSE 0) /\ Coming' = rest
  BY DEF Outcome, Called
<1>8. Abstract!ToSet(t) \cap ret'.by = {}
  BY <1>7, NoneIs
<1>9. Abstract!Does({"bssplitscb"}, {"piece", "stopped", "last"}) /\ ret'.end # "last"
  BY <1>7 DEF Abstract!Does
<1>10. Abstract!EndSplit /\ Abstract!Stays(Shown)
  BY <1>7 DEF Abstract!EndSplit, Abstract!Stays, Left, Shown
<1>11. /\ Abstract!IsPrefix(ret'.text, Coming) /\ Abstract!ToSet(ret'.text) \cap ret'.by = {}
       /\ ret'.ofs = Left - Len(Coming)
       /\ Len(ret'.text) < Len(Coming) /\ Coming[Len(ret'.text) + 1] \in ret'.by
       /\ Coming' = Abstract!From(Coming, Len(ret'.text) + 1)
  BY <1>4, <1>5, <1>6, <1>7, <1>8 DEF p, n, Abstract!From, From
<1>12. Abstract!PieceByAny
  BY <1>9, <1>10, <1>11 DEF Abstract!PieceByAny, Coming, Shown, Left
<1> QED BY <1>7, <1>12 DEF Abstract!Next, Abstract!Stays, Kept

\* A sequence up to the first character in S.
LEMMA FirstCut ==
  ASSUME NEW t \in Seq(Char), NEW S, FirstOf(t, S) > 0
  PROVE  LET i == FirstOf(t, S)
             piece == First(t, i - 1)
             rest == From(t, i)
         IN  /\ i \in 1 .. Len(t) /\ i \in Nat
             /\ piece \in Seq(Char) /\ rest \in Seq(Char) /\ t[i] \in Char /\ t[i] \in S
             /\ NoneIn(piece, S) /\ t = piece \o (<<t[i]>> \o rest)
             /\ Len(t) = i + Len(rest)
<1> DEFINE i == FirstOf(t, S)
           piece == First(t, i - 1)
           rest == From(t, i)
<1>1. i \in 1 .. Len(t) /\ t[i] \in S /\ \A j \in 1 .. i - 1 : t[j] \notin S
  <2>1. Len(t) \in Nat
    BY LenProperties
  <2> QED BY <2>1, FirstOfFinds
<1> HIDE DEF i
<1>2. /\ Len(t) \in Nat /\ i \in Nat /\ i - 1 \in 0 .. Len(t) /\ i \in 0 .. Len(t)
      /\ (i - 1) + 1 = i /\ t[i] \in Char
  <2>1. Len(t) \in Nat
    BY LenProperties
  <2>2. t[i] \in Char
    BY <1>1, ElementOfSeq
  <2> QED BY <1>1, <2>1, <2>2
<1>3. /\ First(t, i - 1) \o From(t, i - 1) = t
      /\ piece \in Seq(Char) /\ Len(piece) = i - 1
      /\ rest \in Seq(Char) /\ Len(rest) = Len(t) - i
  BY <1>2, CutIs
<1>4. From(t, i - 1) = <<t[i]>> \o rest
  <2>1. SubSeq(t, i, Len(t)) = <<t[i]>> \o SubSeq(t, i + 1, Len(t))
    BY <1>1, <1>2, SubSeqRecursiveFirst
  <2> QED BY <1>2, <2>1 DEF From
<1>5. NoneIn(piece, S)
  <2>1. \A j \in 1 .. i - 1 : piece[j] = t[j]
    BY <1>2, FirstElements
  <2> HIDE DEF piece
  <2> QED BY <1>1, <1>3, <2>1 DEF NoneIn
<1>6. t = piece \o (<<t[i]>> \o rest)
  BY <1>3, <1>4
<1>7. Len(t) = i + Len(rest)
  BY <1>2, <1>3
<1> QED BY <1>1, <1>2, <1>3, <1>5, <1>6, <1>7 DEF i

\* Where a splitting is.
LEMMA OfsIs ==
  ASSUME Splitting, ~Blocks(split)
  PROVE  split.ofs = Left - Len(Coming)
<1> DEFINE l == Len(Coming)
<1>1. /\ Left = split.start /\ SplitFlow(split, buff.text, core)
      /\ Coming = split.acc.text \o (buff.text \o core)
      /\ split.acc.text \in Seq(Char) /\ buff.text \o core \in Seq(Char)
  BY SplittingSays
<1>2. split.ofs \in Nat /\ Left = split.ofs + l
  BY <1>1 DEF SplitFlow
<1>3. l \in Nat
  BY <1>1, JoinedIs, LenProperties
<1> HIDE DEF l
<1>4. split.ofs = Left - l
  BY <1>2, <1>3
<1> QED BY <1>4 DEF l

\* What could not be put back is lost, with the piece in front of it.
LEMMA PieceLost ==
  ASSUME Splitting, Tight, split.name = "bssplitscb", SplitEnds,
         UNCHANGED <<buff, r, core, isEOF>>,
         ret' = [call |-> split.name, by |-> split.seps, end |-> "ERR"]
  PROVE  FlowInv' /\ Divided
<1> DEFINE t == split.acc.text
           q == buff.text \o core
           n == Len(t)
<1>1. /\ FlowInv /\ Steady /\ IsStr(buff) /\ t \in Seq(Char) /\ q \in Seq(Char)
      /\ Coming = t \o q
  BY SplittingSays
<1>2. EndFlow'
  BY <1>1, EndFlowStays
<1>3. FlowInv' /\ Coming' = q /\ Left' = 0 /\ Shown' = Shown /\ Kept
  <2>1. IsStr(buff')
    BY <1>1
  <2>2. FlowInv' /\ Coming' = buff'.text \o core' /\ Left' = 0 /\ Shown' = Shown /\ Kept
    BY <1>2, <2>1, SplitDone
  <2> QED BY <2>2
<1> HIDE DEF t, q
<1>4. From(Coming, n) = q /\ n \in 0 .. Len(Coming)
  <2>1. Len(t \o q) = n + Len(q) /\ n \in Nat /\ Len(q) \in Nat
    BY <1>1, JoinedIs
  <2>2. n \in 0 .. Len(t \o q)
    BY <2>1
  <2> QED BY <1>1, <2>2, PartsIs
<1> HIDE DEF n
<1>5. Abstract!Does({"bssplitscb"}, {"ERR"}) /\ Coming' = Abstract!From(Coming, n)
      /\ Abstract!Stays(Shown)
  BY <1>3, <1>4 DEF Abstract!Does, Abstract!From, From, Abstract!Stays, Shown
<1>6. Abstract!CutShort
  BY <1>3, <1>4, <1>5 DEF Abstract!CutShort, Tight, Coming, Shown, Left
<1>7. Abstract!Next
  BY <1>3, <1>6 DEF Abstract!Next, Abstract!Stays, Kept
<1> QED BY <1>3, <1>7 DEF Refined, Divided

\* A piece that ends with a character.
LEMMA SplitCharFlows ==
  ASSUME Splitting, split.name = "bssplitscb", SepAt > 0, UNCHANGED <<core, isEOF>>,
         SplitPiece(split.acc.text, First(split.acc.text, SepAt - 1),
                    From(split.acc.text, SepEnd),
                    Len(buff.text) + Len(From(split.acc.text, SepEnd)) + 1)
  PROVE  FlowInv' /\ Divided
<1> DEFINE t == split.acc.text
           b == buff.text
           i == FirstOf(t, split.seps)
           piece == First(t, i - 1)
           rest == From(t, i)
           h == t[i]
           need == Len(b) + Len(rest) + 1
           s == Unended(split.acc, <<>>)
<1>1. /\ FlowInv /\ Steady /\ IsStr(buff) /\ IsStr(split.acc) /\ t \in Seq(Char)
      /\ b \in Seq(Char) /\ core \in Seq(Char) /\ b \o core \in Seq(Char)
  BY SplittingSays
<1>2. Coming = t \o (b \o core)
  BY SplittingSays
<1>3. SepAt = i /\ SepEnd = i
  BY DEF SepAt, SepEnd
<1>4. /\ i \in Nat /\ piece \in Seq(Char) /\ rest \in Seq(Char) /\ h \in Char /\ h \in split.seps
      /\ NoneIn(piece, split.seps)
  BY <1>1, <1>3, FirstCut
<1>5. t = piece \o (<<h>> \o rest) /\ Len(t) = i + Len(rest)
  BY <1>1, <1>3, FirstCut
<1>6. SplitPiece(t, piece, rest, need)
  BY <1>3
<1>7. EndFlow'
  BY <1>1, EndFlowStays
<1>8. CASE /\ Refused(buff, need) /\ SplitEnds
           /\ ret' = [call |-> split.name, by |-> split.seps, end |-> "ERR"]
           /\ UNCHANGED <<buff, r>>
  <2>1. Tight
    BY <1>8 DEF Refused, Tight
  <2> QED BY <1>8, <2>1, PieceLost
<1>9. CASE \E g \in Grown(buff, need) :
             /\ buff' = Ended(g, rest \o b)
             /\ Calls(piece, Unended(split.acc, <<>>), SepEnd)
  <2> DEFINE R == rest \o (b \o core)
             f == <<h>>
             v == rest \o b
  <2>1. PICK g \in Grown(buff, need) : buff' = Ended(g, v) /\ Calls(piece, s, i)
    BY <1>3, <1>9
  <2>2. f \in Seq(Char) /\ R \in Seq(Char) /\ v \in Seq(Char)
    BY <1>1, <1>4, JoinedIs
  <2>3. IsStr(buff') /\ buff'.text = v
    <3> HIDE DEF rest, b, v
    <3>1. Len(b) \in Nat /\ Len(rest) \in Nat
      BY <1>1, <1>4, LenProperties
    <3>2. need \in Nat
      BY <3>1
    <3> HIDE DEF need
    <3>3. IsStr(g)
      BY <1>1, <2>1, <3>2, GrownIs
    <3> QED BY <2>1, <2>2, <3>3, EndedIs
  <2>4. IsStr(s) /\ s.text = <<>>
    <3>1. <<>> \in Seq(Char)
      OBVIOUS
    <3> QED BY <1>1, <3>1, EndedIs
  <2> HIDE DEF s, f, h, i, piece, rest, need, t, b
  <2>5. buff'.text \o core' = R
    <3>1. (rest \o b) \o core = rest \o (b \o core)
      BY <1>1, <1>4, Regroup, ZenonT(60)
    <3> QED BY <2>3, <3>1 DEF v
  <2>6. s.text \o (buff'.text \o core') = R
    <3>1. <<>> \o R = R
      BY <2>2, NothingIs
    <3> QED BY <2>4, <2>5, <3>1
  <2>7. Coming = piece \o (f \o R)
    <3> DEFINE q == b \o core
               z == f \o rest
    <3>1. /\ f \in Seq(Char) /\ rest \in Seq(Char) /\ piece \in Seq(Char) /\ q \in Seq(Char)
          /\ z \in Seq(Char)
      BY <1>1, <1>4, <2>2, JoinedIs
    <3> HIDE DEF q
    <3>2. (f \o rest) \o q = f \o (rest \o q)
      BY <3>1, Regroup
    <3> HIDE DEF z
    <3>3. (piece \o z) \o q = piece \o (z \o q)
      BY <3>1, Regroup, ZenonT(60)
    <3>4. t = piece \o z
      BY <1>5 DEF z, f
    <3> QED BY <1>2, <3>2, <3>3, <3>4 DEF z, q
  <2>8. Len(t \o (b \o core)) = i + Len(R)
    <3> DEFINE l == Len(b \o core)
               k == Len(rest)
    <3>1. Len(t \o (b \o core)) = Len(t) + l /\ Len(R) = k + l /\ l \in Nat /\ k \in Nat
      BY <1>1, <1>4, JoinedIs
    <3>2. Len(t) = i + k
      BY <1>5
    <3> DEFINE m == Len(t)
    <3>3. Len(t \o (b \o core)) = m + l /\ m = i + k
      BY <3>1, <3>2
    <3> HIDE DEF l, k, R, m
    <3>4. m + l = i + (k + l)
      BY <1>4, <3>1, <3>3
    <3> QED BY <3>1, <3>3, <3>4
  <2> HIDE DEF R
  <2>9. /\ FlowInv'
        /\ \/ Called(piece, "piece") /\ Left' = Left /\ Coming' = R
           \/ Called(piece, "stopped") /\ Left' = 0 /\ Coming' = R
    <3>1. core' \in Seq(Char) /\ ~(split.name = "bssplitstrcb")
      BY <1>1
    <3>2. Blocks(split) => s.text = <<>>
      BY <2>4
    <3>3. ~Blocks(split) =>
            Len(split.acc.text \o (buff.text \o core)) = i + Len(s.text \o (buff'.text \o core'))
      BY <2>6, <2>8 DEF t, b
    <3>4. /\ FlowInv'
          /\ \/ /\ Called(piece, "piece") /\ Left' = Left
                /\ Coming' = s.text \o (buff'.text \o core')
             \/ Called(piece, "stopped") /\ Left' = 0 /\ Coming' = buff'.text \o core'
      BY <1>4, <1>7, <2>1, <2>3, <2>4, <3>1, <3>2, <3>3, CallsSeen
    <3> QED BY <2>5, <2>6, <3>4
  <2>10. PICK end \in {"piece", "stopped"} : Outcome(piece, end, R)
    BY <2>9 DEF Outcome
  <2>11. split.ofs = Left - Len(Coming)
    BY OfsIs DEF Blocks
  <2>12. Abstract!Next
    BY <1>4, <2>2, <2>7, <2>10, <2>11, PieceByChar DEF f
  <2> QED BY <1>8, <2>9, <2>12 DEF Refined, Divided
<1> HIDE DEF t, piece, rest, need
<1> QED BY <1>6, <1>8, <1>9 DEF SplitPiece, b

-----------------------------------------------------------------------------
(* Splitting by a string.                                                  *)

\* A number that is smaller than another is what remains of it, and nothing of itself.
LEMMA Remains ==
  ASSUME NEW n \in Nat \ {0}, NEW m \in 0 .. n
  PROVE  m % n = IF m = n THEN 0 ELSE m
BY Z3

\* u is in t at i, and at no position before.
FoundAt(u, t, i) ==
  /\ i \in Nat /\ i \in 1 .. Len(t) - Len(u) + 1 /\ SubSeq(t, i, i + Len(u) - 1) = u
  /\ \A j \in 1 .. i - 1 : SubSeq(t, j, j + Len(u) - 1) # u

\* Where a separator is.
LEMMA SepIs ==
  ASSUME Splitting, split.name = "bssplitstrcb", SepAt > 0
  PROVE  /\ split.seps \in Seq(Char) /\ split.seps # <<>>
         /\ FoundAt(split.seps, split.acc.text, SepAt)
         /\ SepEnd = SepAt + Len(split.seps) - 1
<1> DEFINE t == split.acc.text
           u == split.seps
           a == Len(t)
           b == Len(u)
           J == {i \in 1 .. a - b + 1 : u # <<>> /\ SubSeq(t, i, i + b - 1) = u}
           I == J \cup {a + 1}
           m == Min(I)
<1>1. u \in Seq(Char) /\ t \in Seq(Char) /\ a \in Nat /\ b \in Nat
  <2>1. SplitOK /\ t \in Seq(Char)
    BY SplittingSays
  <2>2. u \in Seq(Char)
    BY <2>1 DEF SplitOK
  <2> QED BY <2>1, <2>2, LenProperties
<1>2. SepAt = m % (a + 1) /\ SepEnd = SepAt + b - 1
  BY DEF SepAt, SepEnd
<1>3. \A i : i \in J <=> i \in 1 .. a - b + 1 /\ u # <<>> /\ SubSeq(t, i, i + b - 1) = u
  OBVIOUS
<1>4. u # <<>> <=> b # 0
  BY <1>1, NothingIs
<1> HIDE DEF J, t, u
<1>5. J \subseteq 1 .. a
  BY <1>1, <1>3, <1>4 DEF a, b
<1>6. I = J \cup {a + 1}
  OBVIOUS
<1> HIDE DEF a, b, I
<1>7. I \in SUBSET Nat /\ I # {} /\ I \subseteq 1 .. a + 1
  BY <1>1, <1>5, <1>6
<1>8. m \in I /\ \A k \in I : m <= k
  BY <1>7, MinIsLeast
<1> HIDE DEF m
<1>9. m # a + 1 /\ SepAt = m
  <2>1. m \in 0 .. a + 1 /\ a + 1 \in Nat \ {0}
    BY <1>1, <1>7, <1>8
  <2>2. m % (a + 1) = IF m = a + 1 THEN 0 ELSE m
    BY <2>1, Remains
  <2> QED BY <1>2, <2>2
<1>10. m \in J
  BY <1>6, <1>8, <1>9
<1>11. m \in 1 .. a - b + 1 /\ u # <<>> /\ SubSeq(t, m, m + b - 1) = u /\ m \in Nat
  BY <1>1, <1>3, <1>7, <1>8, <1>10
<1>12. \A j \in 1 .. m - 1 : SubSeq(t, j, j + b - 1) # u
  <2> TAKE j \in 1 .. m - 1
  <2>1. j \in 1 .. a - b + 1 /\ ~(m <= j)
    BY <1>1, <1>11
  <2>2. j \notin J
    BY <1>6, <1>8, <2>1
  <2> QED BY <1>3, <1>11, <2>1, <2>2
<1> QED BY <1>1, <1>2, <1>9, <1>11, <1>12 DEF FoundAt, a, b, t, u

\* A part of the first of two.
LEMMA InFirst ==
  ASSUME NEW s \in Seq(Char), NEW t \in Seq(Char), NEW m \in 1 .. Len(s), NEW n \in 1 .. Len(s)
  PROVE  SubSeq(s \o t, m, n) = SubSeq(s, m, n)
BY SubSeqOfConcat1

\* t falls into what is in front of u, u and the rest.
CutAt(t, u, i) ==
  LET piece == First(t, i - 1)
      n     == i + Len(u) - 1
      rest  == From(t, n)
  IN  /\ piece \in Seq(Char) /\ rest \in Seq(Char) /\ Len(piece) = i - 1
      /\ t = piece \o (u \o rest) /\ Len(t) = n + Len(rest) /\ n \in Nat

\* So it does where u is found in it.
LEMMA StringCut ==
  ASSUME NEW t \in Seq(Char), NEW u \in Seq(Char), u # <<>>, NEW i, FoundAt(u, t, i)
  PROVE  CutAt(t, u, i)
<1> DEFINE a == Len(t)
           b == Len(u)
           piece == First(t, i - 1)
           n == i + b - 1
           rest == From(t, n)
           tail == From(t, i - 1)
<1>1. a \in Nat /\ b \in Nat \ {0} /\ i \in Nat /\ i \in 1 .. a - b + 1
  BY LenProperties, NothingIs DEF FoundAt
<1> HIDE DEF a, b
<1>2. /\ i - 1 \in 0 .. a /\ n \in 0 .. a /\ n \in Nat /\ i \in 1 .. a + 1 /\ n \in i - 1 .. a
      /\ a \in n .. a /\ (i - 1) + 1 = i
  BY <1>1
<1>3. /\ piece \o tail = t /\ piece \in Seq(Char) /\ Len(piece) = i - 1
      /\ rest \in Seq(Char) /\ Len(rest) = a - n
  BY <1>2, CutIs DEF a
<1>4. SubSeq(t, i, n) \o SubSeq(t, n + 1, a) = SubSeq(t, i, a)
  BY <1>2, ConcatAdjacentSubSeq DEF a
<1>5. SubSeq(t, i, n) = u
  BY DEF FoundAt, b
<1>6. tail = u \o rest
  BY <1>2, <1>4, <1>5 DEF From, a
<1>7. a = n + Len(rest)
  BY <1>1, <1>2, <1>3
<1> HIDE DEF tail
<1>8. t = piece \o (u \o rest)
  BY <1>3, <1>6
<1> QED BY <1>2, <1>3, <1>7, <1>8 DEF a, b, CutAt

\* With something behind it, it is still not found before.
LEMMA NotBefore ==
  ASSUME NEW t \in Seq(Char), NEW u \in Seq(Char), u # <<>>, NEW i, FoundAt(u, t, i),
         NEW q \in Seq(Char), NEW j \in 1 .. i - 1
  PROVE  SubSeq(t \o q, j, j + Len(u) - 1) # u
<1> DEFINE a == Len(t)
           b == Len(u)
<1>1. a \in Nat /\ b \in Nat \ {0} /\ i \in Nat /\ i \in 1 .. a - b + 1
  BY LenProperties, NothingIs DEF FoundAt
<1> HIDE DEF a, b
<1>2. j \in 1 .. a /\ j + b - 1 \in 1 .. a
  BY <1>1
<1>3. SubSeq(t \o q, j, j + b - 1) = SubSeq(t, j, j + b - 1)
  BY <1>2, InFirst DEF a
<1>4. SubSeq(t, j, j + b - 1) # u
  BY DEF FoundAt, b
<1> QED BY <1>3, <1>4 DEF b

\* Four in a row, whatever the grouping.
InARow(s, t, u, w) ==
  /\ s \o (t \o u) = (s \o t) \o u
  /\ (s \o (t \o u)) \o w = (s \o t) \o (u \o w)
  /\ (s \o (t \o u)) \o w = s \o (t \o (u \o w))
  /\ u \o w \in Seq(Char) /\ t \o (u \o w) \in Seq(Char)

\* So they are.
LEMMA FourIs ==
  ASSUME NEW s \in Seq(Char), NEW t \in Seq(Char), NEW u \in Seq(Char), NEW w \in Seq(Char)
  PROVE  InARow(s, t, u, w)
<1> DEFINE v == s \o t
           z == u \o w
<1>1. v \in Seq(Char) /\ z \in Seq(Char)
  BY JoinedIs
<1>2. (s \o t) \o u = s \o (t \o u)
  BY Regroup
<1> HIDE DEF v, z
<1>3. t \o z \in Seq(Char)
  BY <1>1, JoinedIs
<1>4. (v \o u) \o w = v \o (u \o w)
  BY <1>1, Regroup, ZenonT(60)
<1>5. (s \o t) \o z = s \o (t \o z)
  BY <1>1, Regroup, ZenonT(60)
<1>6. v \o u = s \o (t \o u)
  BY <1>2 DEF v
<1>7. (s \o (t \o u)) \o w = v \o z
  BY <1>4, <1>6 DEF z
<1>8. (s \o (t \o u)) \o w = s \o (t \o z)
  BY <1>5, <1>7 DEF v
<1> QED BY <1>1, <1>2, <1>3, <1>7, <1>8 DEF v, z, InARow

\* A piece that ends with a string, or is a block of its own.
LEMMA PieceEnds ==
  ASSUME split # NULL, split.name = "bssplitstrcb", split.seps \in Seq(Char),
         NEW t \in Seq(Char), NEW piece \in Seq(Char), NEW rest \in Seq(Char),
         NEW q \in Seq(Char), t = piece \o (split.seps \o rest), Coming = t \o q,
         piece \o split.seps # <<>>, NEW end \in {"piece", "stopped"}, Called(piece, end),
         end = "piece" => Coming' = rest \o q,
         split.seps # <<>> =>
           /\ split.ofs = Left - Len(Coming)
           /\ \A i \in 1 .. Len(piece) :
                SubSeq(Coming, i, i + Len(split.seps) - 1) # split.seps
  PROVE  Divided
<1> DEFINE u == split.seps
           v == piece \o u
           n == Len(v)
           l == Len(Coming)
<1>1. u \in Seq(Char) /\ v \in Seq(Char) /\ n = Len(piece) + Len(u) /\ Len(piece) \in Nat
      /\ Len(u) \in Nat
  BY JoinedIs
<1>2. /\ ret'.call = "bssplitstrcb" /\ ret'.by = u /\ ret'.ofs = split.ofs
      /\ ret'.text = piece /\ ret'.end = end /\ (end = "piece" => split' # NULL)
  BY DEF Called
<1>3. Coming = v \o (rest \o q) /\ rest \o q \in Seq(Char)
  <2>1. InARow(piece, u, rest, q)
    BY <1>1, FourIs
  <2>2. rest \o q \in Seq(Char)
    BY JoinedIs
  <2> QED BY <2>1, <2>2 DEF InARow
<1>4. First(Coming, n) = v /\ From(Coming, n) = rest \o q
  <2> HIDE DEF v, u
  <2>1. First(v \o (rest \o q), n) = v /\ From(v \o (rest \o q), n) = rest \o q
    BY <1>1, <1>3, PartsIs
  <2> QED BY <1>3, <2>1
<1>5. n > 0 /\ n <= l
  <2> HIDE DEF v
  <2>1. n # 0 /\ n \in Nat
    BY <1>1, NothingIs DEF v
  <2> DEFINE w == rest \o q
  <2> HIDE DEF w
  <2>2. Len(v \o w) = n + Len(w) /\ Len(w) \in Nat
    BY <1>1, <1>3, JoinedIs DEF w
  <2>3. l = n + Len(w)
    BY <1>3, <2>2 DEF w
  <2> HIDE DEF n, l
  <2> QED BY <2>1, <2>2, <2>3
<1>6. Ahead = Coming /\ Left = split.start /\ (end = "piece" => Ahead' = rest \o q)
  BY <1>2, AheadIs DEF Left
<1> HIDE DEF u, v, n, l
<1>7. n = Len(ret'.text) + Len(split.seps)
  BY <1>1, <1>2 DEF n, u
<1>8. /\ ret'.end \in {"piece", "stopped"} /\ n > 0 /\ n <= Len(Ahead)
      /\ First(Ahead, n) = ret'.text \o split.seps
      /\ ret'.end = "piece" => split' # NULL /\ Ahead' = From(Ahead, n)
  BY <1>2, <1>4, <1>5, <1>6 DEF l, v, u
<1>9. split.seps # <<>> =>
        /\ ret'.ofs = split.start - Len(Ahead)
        /\ \A i \in 1 .. Len(ret'.text) :
             SubSeq(Ahead, i, i + Len(split.seps) - 1) # split.seps
  BY <1>2, <1>6
<1>10. HandsOut
  BY <1>7, <1>8, <1>9 DEF HandsOut
<1> QED BY <1>2, <1>10 DEF Divided, Divides, u

\* A piece that ends with a string.
LEMMA SplitStringFlows ==
  ASSUME Splitting, split.name = "bssplitstrcb", SepAt > 0, UNCHANGED <<core, isEOF, buff>>,
         Calls(First(split.acc.text, SepAt - 1),
               Ended(split.acc, From(split.acc.text, SepEnd)), SepEnd)
  PROVE  FlowInv' /\ Divided
<1> DEFINE t == split.acc.text
           u == split.seps
           i == SepAt
           n == i + Len(u) - 1
           piece == First(t, i - 1)
           rest == From(t, n)
           q == buff.text \o core
           s == Ended(split.acc, rest)
<1>1. /\ FlowInv /\ Steady /\ IsStr(buff) /\ IsStr(split.acc) /\ t \in Seq(Char)
      /\ q \in Seq(Char) /\ core \in Seq(Char)
  BY SplittingSays
<1>2. Coming = t \o q
  BY SplittingSays
<1>3. u \in Seq(Char) /\ u # <<>> /\ FoundAt(u, t, i) /\ SepEnd = n
  BY SepIs
<1>4. CutAt(t, u, i)
  BY <1>1, <1>3, StringCut
<1>5. /\ piece \in Seq(Char) /\ rest \in Seq(Char) /\ Len(piece) = i - 1
      /\ n \in Nat
  BY <1>4 DEF CutAt
<1>6. t = piece \o (u \o rest) /\ Len(t) = n + Len(rest)
  BY <1>4 DEF CutAt
<1>7. EndFlow'
  BY <1>1, EndFlowStays
<1>8. IsStr(s) /\ s.text = rest
  BY <1>1, <1>5, EndedIs
<1>9. Calls(piece, s, n)
  BY <1>3
<1> HIDE DEF t, u, i, n, piece, rest, q, s
<1>10. buff'.text \o core' = q
  BY DEF q
<1>11. Len(t \o q) = n + Len(rest \o q)
  <2> DEFINE m == Len(t)
             l == Len(q)
             k == Len(rest)
  <2>1. Len(t \o q) = m + l /\ Len(rest \o q) = k + l /\ m \in Nat /\ l \in Nat /\ k \in Nat
    BY <1>1, <1>5, JoinedIs
  <2>2. m = n + k
    BY <1>6
  <2> HIDE DEF m, l, k
  <2>3. m + l = n + (k + l)
    BY <1>5, <2>1, <2>2
  <2> QED BY <2>1, <2>3
<1>12. /\ FlowInv'
       /\ \/ Called(piece, "piece") /\ Left' = Left /\ Coming' = rest \o q
          \/ Called(piece, "stopped") /\ Left' = 0 /\ Coming' = q
  <2>1. core' \in Seq(Char) /\ IsStr(buff')
    BY <1>1
  <2>2. ~Blocks(split)
    BY <1>3 DEF Blocks, u
  <2>3. Len(split.acc.text \o (buff.text \o core)) = n + Len(s.text \o (buff'.text \o core'))
    BY <1>8, <1>10, <1>11 DEF t, q
  <2>4. /\ FlowInv'
        /\ \/ /\ Called(piece, "piece") /\ Left' = Left
              /\ Coming' = s.text \o (buff'.text \o core')
           \/ Called(piece, "stopped") /\ Left' = 0 /\ Coming' = buff'.text \o core'
    BY <1>5, <1>7, <1>8, <1>9, <2>1, <2>2, <2>3, CallsSeen
  <2> QED BY <1>8, <1>10, <2>4
<1>13. PICK end \in {"piece", "stopped"} :
         /\ Called(piece, end)
         /\ end = "piece" => Left' = Left /\ Coming' = rest \o q
         /\ end = "stopped" => Left' = 0 /\ Coming' = q
  BY <1>12
<1>14. split.ofs = Left - Len(Coming)
  BY OfsIs, <1>3 DEF Blocks, u
<1>15. piece \o u # <<>>
  BY <1>3, <1>5, BothEmpty
<1>16. \A j \in 1 .. Len(piece) : SubSeq(Coming, j, j + Len(u) - 1) # u
  <2> TAKE j \in 1 .. Len(piece)
  <2>1. j \in 1 .. i - 1
    BY <1>5
  <2> QED BY <1>1, <1>2, <1>3, <2>1, NotBefore
<1>17. split # NULL
  BY SplittingSays
<1>18. Divided
  BY <1>1, <1>2, <1>3, <1>5, <1>6, <1>13, <1>14, <1>15, <1>16, <1>17, PieceEnds DEF u
<1> QED BY <1>12, <1>18

\* A turn of a splitting.
LEMMA SplitNextFlows ==
  ASSUME Splitting, SplitNext
  PROVE  FlowInv' /\ Divided
<1> DEFINE t == split.acc.text
           piece == First(t, SepAt - 1)
           rest == From(t, SepEnd)
           need == Len(buff.text) + Len(rest) + 1
           c == [name |-> "bsreada", by |-> BSSSC_BUFF_LEN]
<1>1. /\ run.pc = "scan"
      /\ \/ SepAt = 0 /\ Read(buff, split.acc, c)
         \/ /\ SepAt > 0 /\ split.name = "bssplitscb" /\ SplitPiece(t, piece, rest, need)
            /\ wild' = FALSE /\ UNCHANGED <<core, isEOF>>
         \/ /\ SepAt > 0 /\ split.name = "bssplitstrcb"
            /\ Calls(piece, Ended(split.acc, rest), SepEnd)
            /\ wild' = FALSE /\ UNCHANGED <<core, isEOF, buff>>
  BY Zenon DEF SplitNext, SplitPiece
<1>2. c.by \in Nat \ {0}
  BY StreamAssumption
<1> HIDE DEF c
<1>3. CASE SepAt = 0 /\ Read(buff, split.acc, c)
  BY <1>1, <1>2, <1>3, SplitReadFlows
<1>4. CASE /\ SepAt > 0 /\ split.name = "bssplitscb" /\ SplitPiece(t, piece, rest, need)
           /\ UNCHANGED <<core, isEOF>>
  BY <1>4, SplitCharFlows
<1>5. CASE /\ SepAt > 0 /\ split.name = "bssplitstrcb"
           /\ Calls(piece, Ended(split.acc, rest), SepEnd)
           /\ UNCHANGED <<core, isEOF, buff>>
  BY <1>5, SplitStringFlows
<1> HIDE DEF piece, rest, need
<1> QED BY <1>1, <1>3, <1>4, <1>5

-----------------------------------------------------------------------------
(* The end of a splitting.                                                 *)

\* The last piece is what has been read.
LEMMA LastPiece ==
  ASSUME Splitting, CallsLast(split.acc.text), UNCHANGED <<core, buff, isEOF>>,
         ~Blocks(split), buff.text \o core = <<>> \/ Tight,
         split.name = "bssplitscb" => NoneIn(split.acc.text, split.seps)
  PROVE  FlowInv' /\ Divided
<1> DEFINE t == split.acc.text
           q == buff.text \o core
           n == Len(t)
<1>1. /\ FlowInv /\ Steady /\ IsStr(buff) /\ t \in Seq(Char) /\ q \in Seq(Char)
      /\ Coming = t \o q /\ SplitOK
  BY SplittingSays
<1>2. /\ SplitEnds /\ r' = r
      /\ ret' = [call |-> split.name, by |-> split.seps, ofs |-> split.ofs, text |-> t,
                 end |-> "last"]
  BY DEF CallsLast
<1>3. FlowInv' /\ Coming' = q /\ Left' = 0 /\ Shown' = Shown /\ Kept
  <2>1. EndFlow' /\ IsStr(buff')
    BY <1>1, EndFlowStays
  <2>2. FlowInv' /\ Coming' = buff'.text \o core' /\ Left' = 0 /\ Shown' = Shown /\ Kept
    BY <1>2, <2>1, SplitDone
  <2> QED BY <2>2
<1>4. split.ofs = Left - Len(Coming)
  BY OfsIs
<1>5. q = <<>> \/ Tight
  OBVIOUS
<1>6. split.name = "bssplitscb" => Abstract!ToSet(t) \cap split.seps = {}
  BY <1>1, NoneIs
<1> HIDE DEF t, q
<1>7. Abstract!IsPrefix(t, Coming) /\ From(Coming, n) = q
  BY <1>1, PrefixIs, PartsIs
<1> HIDE DEF n
<1>8. /\ ret'.call = split.name /\ ret'.by = split.seps /\ ret'.ofs = split.ofs
      /\ ret'.text = t /\ ret'.end = "last"
  BY <1>2
<1>9. CASE split.name = "bssplitscb"
  <2>1. /\ Abstract!IsPrefix(ret'.text, Coming) /\ ret'.ofs = Left - Len(Coming)
        /\ Coming' = Abstract!From(Coming, Len(ret'.text))
        /\ Coming' = <<>> \/ Tight
        /\ Abstract!EndSplit /\ Abstract!Stays(Shown)
    BY <1>3, <1>4, <1>5, <1>7, <1>8
       DEF n, Abstract!From, From, Abstract!EndSplit, Abstract!Stays, Left, Shown
  <2>2. Abstract!Does({"bssplitscb"}, {"piece", "stopped", "last"})
    BY <1>8, <1>9 DEF Abstract!Does
  <2>3. Abstract!ToSet(ret'.text) \cap ret'.by = {}
    BY <1>6, <1>8, <1>9
  <2>4. Abstract!PieceByAny
    BY <1>8, <2>1, <2>2, <2>3 DEF Abstract!PieceByAny, Tight, Coming, Shown, Left
  <2>5. Abstract!Next
    BY <1>3, <2>4 DEF Abstract!Next, Abstract!Stays, Kept
  <2> QED BY <1>3, <1>9, <2>5 DEF Refined, Divided
<1>10. CASE split.name = "bssplitstrcb"
  <2>1. split # NULL /\ split' = NULL /\ split.seps # <<>>
    BY <1>2, <1>10, SplittingSays DEF SplitEnds, Blocks
  <2>2. Ahead = Coming /\ Left = split.start
    BY <2>1, AheadIs DEF Left
  <2>3. t = Coming \/ Tight
    <3>1. q = <<>> => Coming = t
      BY <1>1, NothingIs
    <3> QED BY <1>5, <3>1
  <2>4. HandsOutRest
    BY <1>4, <1>7, <1>8, <2>1, <2>2, <2>3
       DEF HandsOutRest, Tight, IsPrefix, Abstract!IsPrefix
  <2> QED BY <1>3, <1>8, <1>10, <2>4 DEF Divided, Divides
<1> QED BY <1>1, <1>9, <1>10 DEF SplitOK

\* With nothing to divide by what has been read is a piece.
LEMMA BlockFlows ==
  ASSUME Splitting, Blocks(split), split.acc.text # <<>>, UNCHANGED <<core, buff, isEOF>>,
         Calls(split.acc.text, Unended(split.acc, <<>>), 0)
  PROVE  FlowInv' /\ Divided
<1> DEFINE t == split.acc.text
           q == buff.text \o core
           s == Unended(split.acc, <<>>)
           e == <<>>
<1>1. /\ FlowInv /\ Steady /\ IsStr(buff) /\ IsStr(split.acc) /\ t \in Seq(Char)
      /\ q \in Seq(Char) /\ core \in Seq(Char) /\ e \in Seq(Char)
  BY SplittingSays
<1>2. Coming = t \o q
  BY SplittingSays
<1>3. IsStr(s) /\ s.text = e
  BY <1>1, EndedIs
<1>4. EndFlow' /\ IsStr(buff') /\ core' \in Seq(Char)
  BY <1>1, EndFlowStays
<1>5. split.name = "bssplitstrcb" /\ split.seps = e
  BY DEF Blocks
<1>6. Calls(t, s, 0)
  OBVIOUS
<1>7. buff'.text \o core' = q
  OBVIOUS
<1>8. t # e
  OBVIOUS
<1> HIDE DEF s, t, q
<1>9. e \o q = q /\ t \o e = t /\ e \o e = e
  BY <1>1, NothingIs
<1> HIDE DEF e
<1>10. /\ FlowInv'
       /\ \/ Called(t, "piece") /\ Left' = Left /\ Coming' = e \o q
          \/ Called(t, "stopped") /\ Left' = 0 /\ Coming' = q
  <2>1. Blocks(split) => s.text = <<>>
    BY <1>3 DEF e
  <2>2. /\ FlowInv'
        /\ \/ Called(t, "piece") /\ Left' = Left /\ Coming' = s.text \o (buff'.text \o core')
           \/ Called(t, "stopped") /\ Left' = 0 /\ Coming' = buff'.text \o core'
    BY <1>3, <1>4, <1>6, <2>1, CallsSeen
  <2> QED BY <1>3, <1>7, <2>2
<1>11. PICK end \in {"piece", "stopped"} :
         /\ Called(t, end)
         /\ end = "piece" => Left' = Left /\ Coming' = e \o q
         /\ end = "stopped" => Left' = 0 /\ Coming' = q
  BY <1>10
<1>12. Divided
  <2>1. t = t \o (split.seps \o e) /\ t \o split.seps # <<>>
    BY <1>5, <1>8, <1>9 DEF e
  <2>2. split.seps \in Seq(Char) /\ ~(split.seps # <<>>) /\ split # NULL
    BY <1>1, <1>5, SplittingSays DEF e
  <2> QED BY <1>1, <1>2, <1>5, <1>11, <2>1, <2>2, PieceEnds
<1> QED BY <1>10, <1>12

\* With nothing to divide by and nothing read the splitting is done.
LEMMA BlocksDoneFlows ==
  ASSUME Splitting, Blocks(split), split.acc.text = <<>>, UNCHANGED <<core, buff, isEOF>>,
         buff.text \o core = <<>> \/ Tight, SplitEnds, r' = r,
         ret' = [call |-> split.name, by |-> split.seps, end |-> "OK"]
  PROVE  FlowInv' /\ Divided
<1> DEFINE q == buff.text \o core
<1>1. /\ FlowInv /\ Steady /\ IsStr(buff) /\ q \in Seq(Char) /\ Coming = split.acc.text \o q
  BY SplittingSays
<1>2. FlowInv' /\ Coming' = q /\ Left' = 0 /\ Shown' = Shown /\ Kept
  <2>1. EndFlow' /\ IsStr(buff')
    BY <1>1, EndFlowStays
  <2>2. FlowInv' /\ Coming' = buff'.text \o core' /\ Left' = 0 /\ Shown' = Shown /\ Kept
    BY <2>1, SplitDone
  <2> QED BY <2>2
<1>3. q = <<>> \/ Tight
  OBVIOUS
<1> HIDE DEF q
<1>4. Coming = q
  <2>1. <<>> \o q = q
    BY <1>1, NothingIs
  <2> QED BY <1>1, <2>1
<1>5. /\ ret'.call = "bssplitstrcb" /\ ret'.end = "OK" /\ ret'.by = split.seps
      /\ split.name = "bssplitstrcb" /\ split.seps = <<>> /\ split' = NULL
  BY DEF Blocks, SplitEnds
<1>6. Ahead = q
  BY <1>4, SplittingSays, AheadIs
<1>7. HandsOutRest
  BY <1>3, <1>5, <1>6 DEF HandsOutRest, Tight
<1> QED BY <1>2, <1>5, <1>7 DEF Divided, Divides

\* A splitting that scans again.
Again == split' = split /\ run' = [run EXCEPT !.pc = "scan"] /\ UNCHANGED <<r, ret>>

\* A splitting into blocks that is done.
BlocksEnd ==
  /\ SplitEnds /\ UNCHANGED r
  /\ ret' = [call |-> split.name, by |-> split.seps, end |-> "OK"]

\* What a splitting does after a read.
Judged(s) ==
  CASE split.name = "bssplitscb" -> IF split.ok THEN Again ELSE CallsLast(s.text)
    [] split.name = "bssplitstrcb" /\ split.seps = <<>> ->
         IF split.ok THEN Calls(s.text, Unended(s, <<>>), 0) ELSE BlocksEnd
    [] OTHER -> IF AtEnd THEN CallsLast(s.text) ELSE Again

\* A splitting after a read.
LEMMA SplitJudgeFlows ==
  ASSUME Splitting, SplitJudge
  PROVE  FlowInv' /\ Divided
<1> DEFINE s == split.acc
<1>1. run.pc = "judge" /\ UNCHANGED <<core, buff, isEOF>>
  BY DEF SplitJudge
<1>2. /\ FlowInv /\ Steady /\ SplitOK /\ IsStr(buff) /\ IsStr(s) /\ StreamInv
      /\ SplitFlow(split, buff.text, core)
  BY SplittingSays
<1>3. JudgeFlow(split, buff.text, core) /\ EndFlow
  BY <1>1, <1>2 DEF FlowInv
<1>4. CASE Again /\ ~Blocks(split)
  <2>1. SameSplit(s)
    BY <1>2, <1>4 DEF SameSplit, SplitFlow, Again
  <2>2. Flowing(s) /\ IsStr(buff') /\ EndFlow'
    BY <1>1, <1>2, EndFlowStays DEF Flowing
  <2>3. run'.pc = "scan"
    BY <1>2, <1>4 DEF StreamInv, RunOK, Again
  <2>4. Blocks(split') => split'.acc.text = <<>>
    BY <1>4 DEF Again
  <2>5. r' = r /\ ret' = ret
    BY <1>4 DEF Again
  <2> QED BY <1>2, <2>1, <2>2, <2>3, <2>4, <2>5, SplitStays
<1>5. CASE split.name = "bssplitscb" /\ ~split.ok /\ CallsLast(s.text)
  <2>1. buff.text \o core = <<>> \/ Tight
    BY <1>3, <1>5 DEF JudgeFlow
  <2>2. NoneIn(s.text, split.seps)
    BY <1>3, <1>5 DEF JudgeFlow, Clean
  <2>3. ~Blocks(split)
    BY <1>5 DEF Blocks
  <2> QED BY <1>1, <1>5, <2>1, <2>2, <2>3, LastPiece
<1>6. CASE /\ split.name = "bssplitstrcb" /\ split.seps = <<>> /\ split.ok
           /\ Calls(s.text, Unended(s, <<>>), 0)
  <2>1. Blocks(split)
    BY <1>6 DEF Blocks
  <2>2. s.text # <<>>
    BY <1>3, <1>6, <2>1 DEF JudgeFlow
  <2> QED BY <1>1, <1>6, <2>1, <2>2, BlockFlows
<1>7. CASE /\ split.name = "bssplitstrcb" /\ split.seps = <<>> /\ ~split.ok
           /\ BlocksEnd
  <2>1. Blocks(split)
    BY <1>7 DEF Blocks
  <2>2. s.text = <<>> /\ (buff.text \o core = <<>> \/ Tight)
    BY <1>3, <1>7, <2>1 DEF JudgeFlow, Clean
  <2> QED BY <1>1, <1>7, <2>1, <2>2, BlocksDoneFlows DEF BlocksEnd
<1>8. Judged(s)
  BY Zenon DEF SplitJudge, Judged, Again, BlocksEnd
<1>9. ASSUME split.name = "bssplitscb" \/ split.seps # <<>> PROVE ~Blocks(split)
  BY <1>9 DEF Blocks
<1>10. CASE split.name = "bssplitscb"
  <2>1. IF split.ok THEN Again ELSE CallsLast(s.text)
    BY <1>8, <1>10 DEF Judged
  <2> QED BY <1>4, <1>5, <1>9, <1>10, <2>1
<1>11. CASE split.name = "bssplitstrcb" /\ split.seps = <<>>
  <2>1. IF split.ok THEN Calls(s.text, Unended(s, <<>>), 0) ELSE BlocksEnd
    BY <1>8, <1>11 DEF Judged
  <2> QED BY <1>6, <1>7, <1>11, <2>1
<1>12. CASE split.name # "bssplitscb" /\ split.seps # <<>>
  <2>1. IF AtEnd THEN CallsLast(s.text) ELSE Again
    BY <1>8, <1>12 DEF Judged
  <2>2. (AtEnd /\ CallsLast(s.text)) \/ Again
    BY <2>1, Zenon
  <2>3. CASE Again
    BY <1>4, <1>9, <1>12, <2>3
  <2>4. CASE AtEnd /\ CallsLast(s.text)
    <3>1. ~Blocks(split) /\ split.name # "bssplitscb"
      BY <1>12 DEF Blocks
    <3>2. core = <<>> \/ Tight
      BY <1>3, <2>4 DEF EndFlow, AtEnd
    <3>3. buff.text \o core = <<>> \/ Tight
      <4>1. buff.text = <<>> /\ buff.text \in Seq(Char) /\ core \in Seq(Char)
        BY <2>4, SplittingSays DEF AtEnd
      <4> QED BY <3>2, <4>1, BothEmpty
    <3> QED BY <1>1, <2>4, <3>1, <3>3, LastPiece
  <2> QED BY <2>2, <2>3, <2>4
<1> QED BY <1>2, <1>10, <1>11, <1>12 DEF SplitOK

\* A splitting that is begun, or cannot be.
LEMMA SplitsFlows ==
  ASSUME StreamInv, FlowInv, Steady, NullIsNoRecord, NEW name, NEW seps,
         name \in {"bssplitscb", "bssplitstrcb"}, Splits(name, seps)
  PROVE  FlowInv' /\ Refined
<1> DEFINE q == buff.text \o core
           k == Len(Pending)
           s == [name |-> name, seps |-> seps, acc |-> Fresh, ofs |-> 0, ok |-> TRUE, start |-> k]
<1>1. Ready /\ UNCHANGED <<core, buff, isEOF, r>>
  BY DEF Splits
<1>2. /\ OnStream /\ run = Idle /\ split = NULL /\ open /\ IsStr(buff) /\ q \in Seq(Char)
      /\ Pending = q /\ Found[1] = Pending /\ Found[2] = r.text
  BY <1>1, ReadyOnStream, JoinedIs
<1>3. Coming = Pending /\ Shown = r.text /\ Left = 0
  BY <1>2, SeenIs
<1>4. EndFlow'
  BY <1>1, EndFlowStays
<1>5. Pending' = q /\ buff' # NULL /\ open'
  BY <1>1, <1>2, OnStreamIs
<1>6. k \in Nat
  BY <1>2, LenProperties
<1> HIDE DEF q, k
<1>7. CASE split' = s /\ run' = [pc |-> "scan", from |-> <<Pending, r.text>>] /\ ret' = ret
  <2>1. /\ DOMAIN s = {"name", "seps", "acc", "ofs", "ok", "start"}
        /\ s.name = name /\ s.seps = seps /\ s.acc = Fresh /\ s.ofs = 0
        /\ s.ok \in BOOLEAN /\ s.start = k
    OBVIOUS
  <2> HIDE DEF s
  <2>2. s # NULL
    BY <2>1 DEF NullIsNoRecord
  <2>3. Fresh.text = <<>> /\ <<>> \o q = q
    BY <1>2, FreshIs, NothingIs
  <2>4. Coming' = q /\ Shown' = r.text /\ Left' = k
    BY <1>1, <1>5, <1>7, <2>1, <2>2, <2>3 DEF Coming, Shown, Left
  <2>5. run'.pc = "scan"
    BY <1>7
  <2>6. SplitFlow(split, buff.text, core)'
    <3> DEFINE z == s.acc.text \o (buff'.text \o core')
    <3>1. z = q
      BY <1>1, <2>1, <2>3 DEF q
    <3>2. k = Len(q)
      BY <1>2 DEF k
    <3>3. k = Len(z)
      BY <3>1, <3>2
    <3> DEFINE l == Len(z)
    <3>4. l \in Nat /\ k = l
      BY <1>6, <3>3
    <3> HIDE DEF l
    <3>5. k = 0 + l
      BY <3>4
    <3>6. {"acc", "name", "seps", "ofs", "ok", "start"} \subseteq DOMAIN s
      BY <2>1
    <3>7. SplitFlow(s, buff'.text, core')
      <4>1. s.start = s.ofs + l
        BY <2>1, <3>5
      <4>2. s.start = s.ofs + Len(z)
        BY <4>1 DEF l
      <4> HIDE DEF z
      <4>3. s.ofs \in Nat /\ s.start \in Nat /\ s.ok \in BOOLEAN
        BY <1>6, <2>1
      <4> QED BY <3>6, <4>2, <4>3 DEF SplitFlow, z
    <3>8. split' = s
      BY <1>7
    <3>9. SplitFlow(split', buff'.text, core')
      BY <3>7, <3>8
    <3> QED BY <3>9 DEF SplitFlow, Blocks
  <2>7. split'.acc.text = <<>>
    BY <1>7, <2>1, <2>3
  <2>8. FlowInv'
    BY <1>4, <1>5, <1>7, <2>2, <2>5, <2>6, <2>7 DEF FlowInv
  <2>9. Left' = Len(Coming) /\ Abstract!Stays(<<Coming, Shown, ret>>)
    BY <1>2, <1>3, <1>7, <2>4 DEF k, Abstract!Stays, Coming, Shown
  <2>10. Abstract!BeginSplit
    BY <2>9 DEF Abstract!BeginSplit, Coming, Shown, Left
  <2>11. Kept
    BY DEF Kept, Steady
  <2> QED BY <2>8, <2>10, <2>11 DEF Refined, Abstract!Next, Abstract!Stays, Kept
<1>8. CASE /\ "snap" \in failing /\ ret' = [call |-> name, by |-> seps, end |-> "ERR"]
           /\ UNCHANGED <<run, split>>
  <2>1. Returns(name, seps, "ERR")
    BY <1>1, <1>8 DEF Returns
  <2>2. FlowInv' /\ Returned(name, seps, "ERR", Pending, r.text, Pending', r'.text)
    BY <1>2, <1>5, <2>1, ReturnsSeen
  <2>3. Returned(name, seps, "ERR", Pending, r.text, Pending, r.text)
    BY <1>1, <1>2, <1>5, <2>2
  <2>4. Abstract!Next
    BY <1>8, <2>3, NotMade
  <2> QED BY <2>2, <2>4 DEF Refined
<1>9. \/ split' = s /\ run' = [pc |-> "scan", from |-> <<Pending, r.text>>] /\ ret' = ret
      \/ /\ "snap" \in failing /\ ret' = [call |-> name, by |-> seps, end |-> "ERR"]
         /\ UNCHANGED <<run, split>>
  BY Zenon DEF Splits, k
<1> QED BY <1>7, <1>8, <1>9

\* bssplitscb and bssplitstrcb.
LEMMA bssplitsFlows ==
  ASSUME StreamInv, FlowInv, Steady, NullIsNoRecord,
         \/ \E seps : bssplitscb(seps)
         \/ \E sep : bssplitstrcb(sep)
  PROVE  FlowInv' /\ Refined
<1>1. ASSUME NEW seps, bssplitscb(seps) PROVE FlowInv' /\ Refined
  BY <1>1, SplitsFlows DEF bssplitscb
<1>2. ASSUME NEW sep, bssplitstrcb(sep) PROVE FlowInv' /\ Refined
  <2>1. Splits("bssplitscb", ToSet(sep)) \/ Splits("bssplitstrcb", sep)
    BY <1>2, Zenon DEF bssplitstrcb
  <2> QED BY <2>1, SplitsFlows
<1> QED BY <1>1, <1>2

-----------------------------------------------------------------------------
(* The refinement.                                                         *)

\* The initial states are initial states of AbstractStream.
LEMMA FlowInit ==
  ASSUME Init
  PROVE  FlowInv /\ Abstract!Init
<1>1. /\ isEOF = FALSE /\ open = FALSE /\ run = Idle /\ split = NULL /\ r = Fresh
      /\ ret.call = "none"
  BY DEF Init
<1>2. run.pc = "idle"
  BY <1>1 DEF Idle
<1>3. FlowInv
  BY <1>1, <1>2 DEF FlowInv, EndFlow
<1>4. Left = 0 /\ Shown = <<>>
  BY <1>1, FreshIs DEF Left, Shown
<1> QED BY <1>1, <1>3, <1>4 DEF Abstract!Init, Left, Shown

\* A step with a splitting going on, or without one.
Stepped == IF split = NULL THEN Refined ELSE Divided

\* Every turn is a step of AbstractStream, or none, or divides by a string.
LEMMA TurnFlows ==
  ASSUME StreamInv, FlowInv, Steady, NullIsNoRecord, Turn
  PROVE  FlowInv' /\ Stepped
<1>1. ASSUME run.pc = "line" \/ (run.pc = "read" /\ split = NULL) PROVE OnStream
  <2>1. open
    BY <1>1 DEF FlowInv
  <2>2. Fits(buff)
    BY <1>1 DEF StreamInv, RunOK
  <2> QED BY <2>1, <2>2 DEF OnStream, Fits
<1>2. CASE LineNext
  <2>1. run.pc = "line" /\ split = NULL
    BY <1>2 DEF LineNext, StreamInv, RunOK
  <2> QED BY <1>1, <1>2, <2>1, LineNextFlows DEF Stepped
<1>3. CASE ReadNext
  <2>1. run.pc = "read"
    BY <1>3 DEF ReadNext
  <2>2. CASE split = NULL
    BY <1>1, <1>3, <2>1, <2>2, ReadNextFlows DEF Stepped
  <2>3. CASE split # NULL
    BY <1>3, <2>1, <2>3, SplittingIs, SplitReadNextFlows DEF Stepped
  <2> QED BY <2>2, <2>3
<1>4. CASE SplitNext
  <2>1. run.pc = "scan"
    BY <1>4 DEF SplitNext
  <2> QED BY <1>4, <2>1, SplittingIs, SplitNextFlows DEF Splitting, Stepped
<1>5. CASE SplitJudge
  <2>1. run.pc = "judge"
    BY <1>5 DEF SplitJudge
  <2> QED BY <1>5, <2>1, SplittingIs, SplitJudgeFlows DEF Splitting, Stepped
<1>6. CASE AllNext
  <2>1. split = NULL
    BY <1>6 DEF AllNext, StreamInv, RunOK
  <2> QED BY <1>6, <2>1, AllNextFlows DEF Stepped
<1>7. CASE GetsNext
  <2>1. split = NULL
    BY <1>7 DEF GetsNext, StreamInv, RunOK
  <2> QED BY <1>7, <2>1, GetsNextFlows DEF Stepped
<1> QED BY <1>2, <1>3, <1>4, <1>5, <1>6, <1>7 DEF Turn

\* So is every call.
LEMMA CallFlows ==
  ASSUME StreamInv, FlowInv, Steady, NullIsNoRecord, Call
  PROVE  FlowInv' /\ Refined
<1>1. ASSUME NEW terms, bsreadlna(terms) PROVE FlowInv' /\ Refined
  BY <1>1, bsreadlnaFlows
<1>2. ASSUME NEW terms, bsreadln(terms) PROVE FlowInv' /\ Refined
  BY <1>2, bsreadlnFlows
<1>3. ASSUME NEW terms, bssplitscb(terms) PROVE FlowInv' /\ Refined
  BY <1>3, bssplitsFlows
<1>4. ASSUME NEW terms, bgetsa(terms) \/ bassigngets(terms) \/ bgets(terms)
      PROVE  FlowInv' /\ Refined
  BY <1>4, bgetsFlows
<1>5. ASSUME NEW n \in Sizes, bsreada(n) \/ bsread(n) PROVE FlowInv' /\ Refined
  BY <1>5, bsreadaFlows, bsreadFlows
<1>6. ASSUME NEW t \in Unreads, bsunread(t) PROVE FlowInv' /\ Refined
  BY <1>6, bsunreadFlows
<1>7. ASSUME NEW sep, bssplitstrcb(sep) PROVE FlowInv' /\ Refined
  BY <1>7, bssplitsFlows
<1>8. ASSUME bseof \/ bspeek \/ Bufferless \/ breada \/ bread PROVE FlowInv' /\ Refined
  BY <1>8, bseofFlows, bspeekFlows, BufferlessFlows, breadFlows
<1> QED BY <1>1, <1>2, <1>3, <1>4, <1>5, <1>6, <1>7, <1>8, Zenon DEF Call

\* Calls begin when no splitting is going on.
LEMMA CallIdle ==
  ASSUME StreamInv, run = Idle
  PROVE  split = NULL
<1>1. run.pc = "idle"
  BY DEF Idle
<1> QED BY <1>1 DEF StreamInv, RunOK

\* All calls do.
LEMMA CallBegins ==
  ASSUME Call
  PROVE  run = Idle
<1>1. ASSUME NEW terms, bsreadlna(terms) \/ bsreadln(terms) PROVE run = Idle
  BY <1>1 DEF bsreadlna, bsreadln, Ready
<1>2. ASSUME NEW name, NEW seps, Splits(name, seps) PROVE run = Idle
  BY <1>2 DEF Splits, Ready
<1>3. ASSUME NEW seps, bssplitscb(seps) PROVE run = Idle
  BY <1>2, <1>3 DEF bssplitscb
<1>4. ASSUME NEW sep, bssplitstrcb(sep) PROVE run = Idle
  BY <1>2, <1>4 DEF bssplitstrcb
<1>5. ASSUME NEW s, NEW c, NEW pc, NEW n, Begins(s, c, pc, n) PROVE run = Idle
  BY <1>5 DEF Begins
<1>6. ASSUME NEW terms, bgetsa(terms) \/ bassigngets(terms) \/ bgets(terms) PROVE run = Idle
  BY <1>5, <1>6, Zenon DEF bgetsa, bassigngets, bgets
<1>7. ASSUME NEW n, bsreada(n) \/ bsread(n) PROVE run = Idle
  BY <1>7 DEF bsreada, bsread, Ready
<1>8. ASSUME NEW t, bsunread(t) PROVE run = Idle
  BY <1>8 DEF bsunread, Ready
<1>9. ASSUME breada \/ bread PROVE run = Idle
  BY <1>5, <1>9, Zenon DEF breada, bread
<1>10. ASSUME bseof \/ bspeek \/ Bufferless PROVE run = Idle
  BY <1>10 DEF bseof, bspeek, Bufferless, Ready
<1> QED BY <1>1, <1>3, <1>4, <1>6, <1>7, <1>8, <1>9, <1>10, Zenon DEF Call

\* So is every step.
LEMMA FlowStep ==
  ASSUME StreamInv, FlowInv, NullIsNoRecord, Next
  PROVE  FlowInv' /\ Stepped
<1>1. ASSUME UNCHANGED <<failing, short, open, maxBuffSz>> PROVE Steady
  BY <1>1 DEF Steady
<1>2. ASSUME UNCHANGED <<failing, short>>,
             bsopen \/ bsclose \/ \E sz \in BuffSizes : bsbufflength(sz)
      PROVE  FlowInv' /\ Stepped
  <2>1. run = Idle
    BY <1>2 DEF bsopen, bsclose, bsbufflength
  <2> QED BY <1>2, <2>1, CallIdle, OpenFlows DEF Stepped
<1>3. ASSUME Steady, Call PROVE FlowInv' /\ Stepped
  BY <1>3, CallBegins, CallIdle, CallFlows DEF Stepped
<1> QED BY <1>1, <1>2, <1>3, TurnFlows DEF Next

\* A step that changes nothing changes nothing there either.
LEMMA FlowStutter ==
  ASSUME FlowInv, UNCHANGED vars
  PROVE  FlowInv' /\ Refined
<1>1. Pending' = Pending
  BY DEF vars, Pending, Buffered
<1>2. UNCHANGED <<Coming, Shown, Left, ret, failing, short>>
  BY <1>1 DEF vars, Coming, Shown, Left
<1>3. FlowInv'
  <2>1. /\ failing' = failing /\ open' = open /\ core' = core /\ buff' = buff /\ isEOF' = isEOF
        /\ run' = run /\ split' = split /\ r' = r
    BY DEF vars
  <2>2. EndFlow' /\ (open /\ buff = NULL => "snap" \in failing)'
    BY <2>1 DEF FlowInv, EndFlow, Tight
  <2>3. (run.pc = "line" =>
           open /\ LineFlow(run.from[1], run.from[2], run.call, run.rlo, r.text, buff.text,
                            core))'
    BY <2>1 DEF FlowInv, LineFlow, NoneIn, Base
  <2>4. (run.pc = "read" /\ split = NULL =>
           open /\ ReadFlow(run.from[1], run.from[2], run.call, run.rlo, run.n, r.text,
                            buff.text, core))'
    BY <2>1 DEF FlowInv, ReadFlow, Base
  <2>5. (run.pc = "all" => ~open /\ AllFlow(run.from[1], run.from[2], run.call, r.text, core))'
    BY <2>1 DEF FlowInv, AllFlow, Base
  <2>6. (run.pc = "gets" => ~open /\ GetsFlow(run.from[1], run.from[2], run.call, r.text, core))'
    BY <2>1 DEF FlowInv, GetsFlow, NoneIn, Base
  <2>7. (split # NULL => open /\ SplitFlow(split, buff.text, core))'
    BY <2>1 DEF FlowInv, SplitFlow, Blocks
  <2>8. (run.pc = "scan" => (Blocks(split) => split.acc.text = <<>>))'
    BY <2>1 DEF FlowInv, Blocks
  <2>9. (run.pc = "read" /\ split # NULL => AccFlow(split, run.rlo))'
    BY <2>1 DEF FlowInv, AccFlow, Clean, NoneIn, Blocks
  <2>10. (run.pc = "judge" => JudgeFlow(split, buff.text, core))'
    BY <2>1 DEF FlowInv, JudgeFlow, Clean, NoneIn, Blocks, Tight
  <2> QED BY <2>2, <2>3, <2>4, <2>5, <2>6, <2>7, <2>8, <2>9, <2>10 DEF FlowInv
<1> QED BY <1>2, <1>3 DEF Refined

\* PiecesInOrder: whatever the separators, the sizes and the input, bssplitstrcb
\* (bstrlib.c:2526-2568) hands out what it divides in order and without loss, every piece
\* but the last up to the first separator, at its offset.
THEOREM PiecesComeInOrder ==
  ASSUME ShortTexts, NullIsNoRecord
  PROVE  Spec => PiecesInOrder
<1>1. Init => StreamInv /\ FlowInv
  BY StreamInit, FlowInit
<1>2. ASSUME StreamInv, FlowInv, Next
      PROVE  ByString => Divides
  BY <1>2, FlowStep DEF Stepped, Divided, ByString
<1>3. StreamInv /\ FlowInv /\ [Next]_vars => [ByString => Divides]_vars
  BY <1>2
<1>4. StreamInv /\ FlowInv /\ [Next]_vars => StreamInv' /\ FlowInv'
  <2>1. ASSUME StreamInv, FlowInv, Next PROVE StreamInv' /\ FlowInv'
    BY <2>1, StreamStep, FlowStep DEF Good
  <2>2. ASSUME StreamInv, FlowInv, UNCHANGED vars PROVE StreamInv' /\ FlowInv'
    BY <2>2, StreamStutter, FlowStutter
  <2> QED BY <2>1, <2>2
<1> QED BY <1>1, <1>3, <1>4, PTL DEF Spec, PiecesInOrder, Divides

\* ImplementsAbstractStream: whatever the sizes, and whatever the heap refuses, each call takes
\* from the front of what is to come what AbstractStream says, and bseof and the offsets the
\* callbacks of bssplitscb get (bstrlib.c:2498) tell the truth, before a splitting by a string
\* and from where it has left the stream.
THEOREM StreamIsRefined ==
  ASSUME ShortTexts, NullIsNoRecord
  PROVE  Spec => ImplementsAbstractStream
<1> DEFINE Inv == StreamInv /\ FlowInv
<1>1. Init => Inv /\ Abstract!Init
  BY StreamInit, FlowInit
<1>2. Inv /\ [Next]_vars => Inv' /\ (ByString \/ Refined)
  <2>1. ASSUME Inv, Next PROVE Inv' /\ (ByString \/ Refined)
    <3>1. StreamInv' /\ FlowInv' /\ Stepped
      BY <2>1, StreamStep, FlowStep DEF Good
    <3> QED BY <3>1 DEF Stepped, Divided, ByString
  <2>2. ASSUME Inv, UNCHANGED vars PROVE Inv' /\ Refined
    BY <2>2, StreamStutter, FlowStutter
  <2> QED BY <2>1, <2>2
<1>3. ByString \/ Refined => [ByString \/ Abstract!Next]_(Abstract!vars)
  BY DEF Refined, Abstract!vars, Coming, Shown, Left
<1> HIDE DEF Inv
<1>4. Init /\ [][Next]_vars => Abstract!Init /\ [][ByString \/ Abstract!Next]_(Abstract!vars)
  BY <1>1, <1>2, <1>3, PTL
<1> QED BY <1>4, PTL DEF Spec, ImplementsAbstractStream
=============================================================================
