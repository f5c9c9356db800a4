---------------------------- MODULE BStringProofs ----------------------------
(***************************************************************************)
(* What holds of BString for all characters, strings of every length below *)
(* the largest power of 2 an int holds, and whatever the heap refuses.     *)
(***************************************************************************)
EXTENDS BString, SequenceTheorems, FiniteSetTheorems, WellFoundedInduction, TLAPS

\* The largest power of 2 an int holds.
Highest == 1073741824

\* Strings are short of where rounding a size up no longer makes it larger.
ShortStrings == MaxLen < Highest

\* No string is replaced by a piece of itself that lies before the first match: what
\* bstring_replace refutes.
NoneBefore == TRUE \notin Before

\* What the bytes of a block may hold.
Stuff == Char \cup {NUL, JUNK}

IsBlock(d, m) == m \in Nat /\ d \in [0 .. m - 1 -> Stuff]

\* The first n bytes of a block hold characters.
Holds(d, m, n) ==
  IsBlock(d, m) /\ n \in 0 .. m /\ \A i \in 0 .. n - 1 : d[i] \in Char

\* A block in which there is room for what was asked for, with the string in it.
Granted(d, m, olen) ==
  /\ Holds(d, m, slen) /\ m >= mlen /\ m >= olen
  /\ failing = {} /\ olen < Highest => m > olen
  /\ olen < mlen => m = mlen

-----------------------------------------------------------------------------
(* Numbers.                                                                *)

\* A set of natural numbers that is not empty has a least one, and it is Min.
LEMMA MinIsLeast ==
  ASSUME NEW T \in SUBSET Nat, T # {}
  PROVE  Min(T) \in T /\ \A k \in T : Min(T) <= k
<1> DEFINE Less == OpToRel(<, Nat)
<1>1. \A x, y \in Nat : x < y => <<x, y>> \in Less
  BY Zenon DEF OpToRel
<1>2. IsWellFoundedOn(Less, Nat)
  BY NatLessThanWellFounded, Zenon
<1> HIDE DEF Less
<1>3. \E x \in T : \A y \in T : ~(<<y, x>> \in Less)
  BY <1>2, WFMin, Zenon
<1>4. PICK m \in T : \A y \in T : ~(<<y, m>> \in Less)
  BY <1>3
<1>5. \A k \in T : k \in Nat /\ m \in Nat /\ ~(k < m)
  BY <1>1, <1>4
<1>6. m \in T /\ \A k \in T : m <= k
  BY <1>5
<1> QED BY <1>6 DEF Min

\* One below a bound has a largest one, and it is Max.
LEMMA MaxIsMost ==
  ASSUME NEW n \in Nat, NEW T \in SUBSET (0 .. n), T # {}
  PROVE  Max(T) \in T /\ \A k \in T : Max(T) >= k
<1> DEFINE U == {n - k : k \in T}
<1>1. U \in SUBSET Nat /\ U # {}
  <2>1. \A k \in T : n - k \in Nat
    OBVIOUS
  <2> QED BY <2>1
<1>2. PICK u \in U : \A k \in U : u <= k
  BY <1>1, MinIsLeast
<1>3. PICK m \in T : u = n - m
  BY <1>2
<1>4. \A k \in T : n - k \in U
  OBVIOUS
<1> HIDE DEF U
<1>5. \A k \in T : m >= k
  BY <1>2, <1>3, <1>4
<1>6. m \in T /\ \A k \in T : m >= k
  BY <1>5
<1> QED BY <1>6 DEF Max

\* Of two numbers.
LEMMA MinOfTwo ==
  ASSUME NEW a \in Int, NEW b \in Int
  PROVE  Min({a, b}) = IF a <= b THEN a ELSE b
<1>1. (IF a <= b THEN a ELSE b) \in {a, b}
      /\ \A k \in {a, b} : (IF a <= b THEN a ELSE b) <= k
  OBVIOUS
<1>2. Min({a, b}) \in {a, b} /\ \A k \in {a, b} : Min({a, b}) <= k
  BY <1>1 DEF Min
<1> QED BY <1>2

\* The same for the larger one.
LEMMA MaxOfTwo ==
  ASSUME NEW a \in Int, NEW b \in Int
  PROVE  Max({a, b}) = IF a >= b THEN a ELSE b
<1>1. (IF a >= b THEN a ELSE b) \in {a, b}
      /\ \A k \in {a, b} : (IF a >= b THEN a ELSE b) >= k
  OBVIOUS
<1>2. Max({a, b}) \in {a, b} /\ \A k \in {a, b} : Max({a, b}) >= k
  BY <1>1 DEF Max
<1> QED BY <1>2

\* A size that is rounded up is larger, as long as an int holds a larger power of 2.
LEMMA SnapGrows ==
  ASSUME NEW i \in Nat
  PROVE  /\ snapUpSize(i) \in Nat /\ snapUpSize(i) >= i
         /\ i < Highest => snapUpSize(i) > i
<1> DEFINE above == {p \in Powers : p > i}
<1>1. above \in SUBSET Nat /\ \A p \in above : p > i
  BY SMT DEF Powers
<1>2. i < Highest => Highest \in above
  BY SMT DEF Powers, Highest
<1> HIDE DEF above
<1>3. ASSUME above # {} PROVE Min(above) \in Nat /\ Min(above) > i
  <2>1. above \in SUBSET Nat
    BY <1>1
  <2>2. Min(above) \in above
    BY <1>3, <2>1, MinIsLeast
  <2> QED BY <1>1, <2>1, <2>2
<1>4. snapUpSize(i) = IF i < SNAP THEN SNAP ELSE IF above = {} THEN i ELSE Min(above)
  BY DEF snapUpSize, above
<1> QED BY <1>2, <1>3, <1>4, SnapAssumption

-----------------------------------------------------------------------------
(* Blocks.                                                                 *)

\* What a byte may be, and what it is not.
LEMMA StuffIs == Char \subseteq Stuff /\ NUL \in Stuff /\ JUNK \in Stuff
BY DEF Stuff

\* How many bytes there are.
LEMMA SizeIs ==
  ASSUME NEW d, NEW m, IsBlock(d, m)
  PROVE  Size(d) = m
<1>1. m \in Nat /\ DOMAIN d = 0 .. m - 1
  BY DEF IsBlock
<1> QED BY <1>1, FS_Interval DEF Size

\* The block of the string, and its text.
LEMMA StringIs ==
  ASSUME Terminated
  PROVE  /\ Holds(data, mlen, slen) /\ Size(data) = mlen
         /\ Text \in Seq(Char) /\ Len(Text) = slen
         /\ \A i \in 1 .. slen : Text[i] = data[i - 1]
<1>1. mlen \in Nat /\ slen \in 0 .. mlen /\ IsBlock(data, mlen)
  BY DEF Terminated, TypeOK, IsBlock, Stuff
<1>2. Text \in Seq(Char) /\ Text = [i \in 1 .. slen |-> data[i - 1]]
  BY DEF Terminated, TypeOK, Text
<1>3. Len(Text) = slen /\ \A i \in 1 .. slen : Text[i] = data[i - 1]
  BY <1>1, <1>2
<1>4. \A i \in 0 .. slen - 1 : data[i] \in Char
  <2>1. TAKE i \in 0 .. slen - 1
  <2>2. i + 1 \in 1 .. slen
    BY <1>1
  <2>3. Text[i + 1] \in Char
    BY <1>2, <1>3, <2>2, ElementOfSeq
  <2> QED BY <1>1, <1>3, <2>2, <2>3
<1> QED BY <1>1, <1>2, <1>3, <1>4, SizeIs DEF Holds

\* A call that stores a string in a block which has room for it leaves all in order.
LEMMA StoresOK ==
  ASSUME Terminated, NEW d, NEW m, NEW n, NEW top \in Nat, NEW call,
         Holds(d, m, n), Stores(d, top, n, call), failing = {} => n < m /\ top < m
  PROVE  Terminated'
<1>1. /\ m \in Nat /\ n \in 0 .. m /\ d \in [0 .. m - 1 -> Stuff] /\ Size(d) = m
      /\ \A i \in 0 .. n - 1 : d[i] \in Char
  BY SizeIs DEF Holds, IsBlock
<1>2. /\ data' = [i \in 0 .. m - 1 |-> IF i < n THEN d[i] ELSE IF i = n THEN NUL ELSE JUNK]
      /\ mlen' = m /\ slen' = n /\ wild' = (top >= m)
      /\ failing' = failing /\ str' = str
  BY <1>1 DEF Stores
<1>3. data' \in [0 .. mlen' - 1 -> Stuff]
  BY <1>1, <1>2, StuffIs
<1>4. Text' \in Seq(Char)
  <2>1. Text' = [i \in 1 .. slen' |-> data'[i - 1]]
    BY DEF Text
  <2>2. \A i \in 1 .. slen' : data'[i - 1] \in Char
    BY <1>1, <1>2
  <2> QED BY <1>1, <1>2, <2>1, <2>2
<1>5. TypeOK'
  BY <1>1, <1>2, <1>3, <1>4 DEF TypeOK, Terminated, Stuff
<1>6. failing' = {} => ~wild' /\ slen' < mlen' /\ data'[slen'] = NUL
  <2> SUFFICES ASSUME failing' = {} PROVE ~wild' /\ slen' < mlen' /\ data'[slen'] = NUL
    OBVIOUS
  <2>1. n < m /\ ~(top >= m) /\ n \in 0 .. m - 1
    BY <1>1, <1>2
  <2>2. ~wild'
    BY <1>2, <2>1, Zenon
  <2> QED BY <1>1, <1>2, <2>1, <2>2
<1> QED BY <1>5, <1>6 DEF Terminated

\* The terminator is the last byte written.
LEMMA BecomesOK ==
  ASSUME Terminated, NEW d, NEW m, NEW n, NEW call,
         Holds(d, m, n), Becomes(d, n, call), failing = {} => n < m
  PROVE  Terminated'
<1>1. n \in Nat
  BY DEF Holds, IsBlock
<1> QED BY <1>1, StoresOK DEF Becomes

\* A call that leaves the string alone.
LEMMA LeftAlone ==
  ASSUME Terminated, NEW call, NEW v, Returns(call, v) \/ Copies(call, v)
  PROVE  Terminated'
<1>1. failing' = failing /\ str' = str /\ data' = data /\ mlen' = mlen /\ slen' = slen
      /\ wild' = FALSE
  BY DEF Returns, Copies, string
<1>2. Text' = Text
  BY <1>1 DEF Text
<1> QED BY <1>1, <1>2 DEF Terminated, TypeOK

\* A new string.
LEMMA CreateOK ==
  ASSUME Terminated, NEW t \in Seq(Char), NEW n \in Nat, NEW call, Create(t, n, call),
         n >= Len(t), failing = {} => n > Len(t)
  PROVE  Terminated'
<1>1. /\ data' = [i \in 0 .. n - 1 |->
                    IF i < Len(t) THEN t[i + 1] ELSE IF i = Len(t) THEN NUL ELSE JUNK]
      /\ mlen' = n /\ slen' = Len(t) /\ wild' = (Len(t) >= n)
      /\ failing' = failing /\ str' = TRUE
  BY DEF Create
<1>2. Len(t) \in Nat /\ \A i \in 1 .. Len(t) : t[i] \in Char
  BY ElementOfSeq
<1>3. data' \in [0 .. mlen' - 1 -> Stuff]
  BY <1>1, <1>2, StuffIs
<1>4. Text' \in Seq(Char)
  <2>1. Text' = [i \in 1 .. slen' |-> data'[i - 1]]
    BY DEF Text
  <2>2. \A i \in 1 .. slen' : data'[i - 1] \in Char
    BY <1>1, <1>2
  <2> QED BY <1>1, <1>2, <2>1, <2>2
<1>5. TypeOK'
  BY <1>1, <1>2, <1>3, <1>4 DEF TypeOK, Terminated, Stuff
<1>6. failing' = {} => ~wild' /\ slen' < mlen' /\ data'[slen'] = NUL
  BY <1>1, <1>2, SMTT(60)
<1> QED BY <1>5, <1>6 DEF Terminated

\* The string in a block of another size.
LEMMA MovedHolds ==
  ASSUME Terminated, NEW n \in Nat, n >= slen, NEW kept \in {slen, mlen}
  PROVE  Holds(Moved(n, kept), n, slen)
<1>1. /\ mlen \in Nat /\ slen \in 0 .. mlen /\ data \in [0 .. mlen - 1 -> Stuff]
      /\ \A i \in 0 .. slen - 1 : data[i] \in Char
  BY StringIs DEF Holds, IsBlock
<1> DEFINE d == Moved(n, kept)
<1>2. d = [i \in 0 .. n - 1 |-> IF i = slen THEN NUL ELSE IF i < kept THEN data[i] ELSE JUNK]
  BY DEF Moved
<1>3. d \in [0 .. n - 1 -> Stuff]
  BY <1>1, <1>2, StuffIs
<1>4. \A i \in 0 .. slen - 1 : d[i] \in Char
  BY <1>1, <1>2
<1> QED BY <1>1, <1>3, <1>4 DEF Holds, IsBlock

\* Where the string is when balloc has succeeded.
LEMMA BlocksGranted ==
  ASSUME Terminated, NEW olen \in Int, NEW d \in Blocks(olen)
  PROVE  Granted(d, Size(d), olen)
<1>1. /\ mlen \in Nat /\ slen \in 0 .. mlen /\ Holds(data, mlen, slen) /\ Size(data) = mlen
  BY StringIs DEF Holds, IsBlock
<1>2. CASE olen < mlen
  BY <1>1, <1>2 DEF Blocks, Granted
<1>3. CASE olen >= mlen
  <2> DEFINE kept == IF 7 * mlen < 8 * slen THEN mlen ELSE slen
             n == snapUpSize(olen)
  <2>1. kept \in {slen, mlen} /\ olen \in Nat
    BY <1>1, <1>3
  <2>2. n \in Nat /\ n >= olen /\ (olen < Highest => n > olen)
    BY <2>1, SnapGrows
  <2>3. d = Moved(n, kept) \/ (failing # {} /\ (d = Moved(n, mlen) \/ d = Moved(olen, mlen)))
    BY <1>1, <1>3 DEF Blocks
  <2> HIDE DEF kept, n
  <2>4. Holds(Moved(n, kept), n, slen)
    BY <1>1, <1>3, <2>1, <2>2, MovedHolds
  <2>5. Holds(Moved(n, mlen), n, slen) /\ Holds(Moved(olen, mlen), olen, slen)
    BY <1>1, <1>3, <2>1, <2>2, MovedHolds
  <2>6. PICK m \in {n, olen} : Holds(d, m, slen) /\ (failing = {} => m = n)
    BY <2>3, <2>4, <2>5
  <2>7. Size(d) = m
    BY <2>6, SizeIs DEF Holds
  <2> QED BY <1>1, <1>3, <2>1, <2>2, <2>6, <2>7 DEF Granted
<1> QED BY <1>1, <1>2, <1>3

-----------------------------------------------------------------------------
(* Arguments, and what is written to a block.                              *)

\* A string, or a piece of the one that is changed.
IsArg(a) ==
  /\ a \in [own : BOOLEAN, text : Seq(Char)]
  /\ a.own => Len(a.text) <= slen /\ slen < mlen

\* A part of a text is not longer than the text.
LEMMA MidIs ==
  ASSUME NEW S, NEW t \in Seq(S), NEW left \in Int, NEW len \in Int
  PROVE  Mid(t, left, len) \in Seq(S) /\ Len(Mid(t, left, len)) <= Len(t)
<1> DEFINE from == Max({left, 0})
           cut  == len + Min({left, 0})
           n    == Min({cut, Len(t) - from})
<1>1. Len(t) \in Nat /\ \A i \in 1 .. Len(t) : t[i] \in S
  BY ElementOfSeq
<1>2. from = (IF left >= 0 THEN left ELSE 0) /\ cut = len + (IF left <= 0 THEN left ELSE 0)
  BY MaxOfTwo, MinOfTwo
<1>3. from \in Nat /\ cut \in Int
  BY <1>2
<1>4. Mid(t, left, len) = SubSeq(t, from + 1, from + n)
  BY DEF Mid
<1> HIDE DEF from, cut
<1>5. n = IF cut <= Len(t) - from THEN cut ELSE Len(t) - from
  BY <1>1, <1>3, MinOfTwo
<1> HIDE DEF n
<1>6. n \in Int /\ from + n <= Len(t)
  BY <1>1, <1>3, <1>5
<1>7. \A i \in from + 1 .. from + n : t[i] \in S
  BY <1>1, <1>3, <1>6
<1>8. /\ Mid(t, left, len) \in Seq(S)
      /\ Len(Mid(t, left, len)) = IF from + 1 <= from + n THEN n ELSE 0
  <2>1. SubSeq(t, from + 1, from + n) \in Seq(S)
        /\ Len(SubSeq(t, from + 1, from + n))
             = IF from + 1 <= from + n THEN from + n - (from + 1) + 1 ELSE 0
    BY <1>3, <1>6, <1>7, SubSeqProperties
  <2> QED BY <1>3, <1>4, <1>6, <2>1
<1> QED BY <1>1, <1>3, <1>6, <1>8

\* What a client may pass.
LEMMA ArgIs ==
  ASSUME Terminated, NEW a \in Args
  PROVE  IsArg(a)
<1>1. slen \in Nat /\ mlen \in Nat /\ Text \in Seq(Char) /\ Len(Text) = slen
  BY StringIs DEF Holds, IsBlock
<1>2. CASE a \in [own : {FALSE}, text : Texts]
  <2>1. a.own = FALSE /\ a.text \in Texts
    BY <1>2
  <2> QED BY <1>2, <2>1, ConstantsAssumption DEF IsArg
<1>3. CASE a \notin [own : {FALSE}, text : Texts]
  <2>1. a \in Pieces
    BY <1>3 DEF Args
  <2>2. PICK at \in 0 .. slen, len \in IF slen < mlen THEN 0 .. slen ELSE {} :
          a = [own |-> TRUE, text |-> Mid(Text, at, len)]
    BY <2>1 DEF Pieces
  <2>3. slen < mlen /\ len \in Int /\ at \in Int
    BY <1>1, <2>2
  <2>4. Mid(Text, at, len) \in Seq(Char) /\ Len(Mid(Text, at, len)) <= slen
    BY <1>1, <2>3, MidIs
  <2> QED BY <2>2, <2>3, <2>4 DEF IsArg
<1> QED BY <1>2, <1>3

\* A string passed as a char * is none of the string's pieces.
LEMMA TextIs ==
  ASSUME NEW t \in Texts
  PROVE  t \in Seq(Char) /\ Len(t) \in Nat
BY ConstantsAssumption

\* A run of one character.
LEMMA RunIs ==
  ASSUME NEW S, NEW c \in S, NEW n \in Int
  PROVE  Run(c, n) \in Seq(S) /\ Len(Run(c, n)) = IF n > 0 THEN n ELSE 0
<1>1. Run(c, n) = [i \in 1 .. n |-> c]
  BY DEF Run
<1>2. CASE n > 0
  BY <1>1, <1>2
<1>3. CASE ~(n > 0)
  <2>1. Run(c, n) = <<>>
    <3>1. 1 .. n = 1 .. 0
      BY <1>3
    <3>2. Run(c, n) = [i \in 1 .. 0 |-> c]
      BY <1>1, <3>1
    <3> QED BY <3>2
  <2> QED BY <1>3, <2>1
<1> QED BY <1>2, <1>3

\* The argument is read as it was, if the block stays or the argument was copied.
LEMMA ThroughIs ==
  ASSUME NEW a, NEW d, NEW copied, ~a.own \/ copied \/ Size(d) = mlen
  PROVE  Through(a, d, copied) = a.text
BY DEF Through

\* Writing to a block.
LEMMA LayIs ==
  ASSUME NEW d, NEW m, IsBlock(d, m), NEW S, S \subseteq Stuff, NEW s \in Seq(S), NEW at \in Int
  PROVE  /\ IsBlock(Lay(d, at, s), m)
         /\ \A i \in 0 .. m - 1 :
              Lay(d, at, s)[i] = IF at <= i /\ i < at + Len(s) THEN s[i - at + 1] ELSE d[i]
<1>1. m \in Nat /\ d \in [0 .. m - 1 -> Stuff] /\ Len(s) \in Nat
  BY DEF IsBlock
<1>2. Lay(d, at, s) =
        [i \in 0 .. m - 1 |-> IF i - at \in 0 .. Len(s) - 1 THEN s[i - at + 1] ELSE d[i]]
  BY <1>1 DEF Lay
<1>3. \A i \in 0 .. m - 1 :
        i - at \in 0 .. Len(s) - 1 <=> at <= i /\ i < at + Len(s)
  BY <1>1
<1>4. \A i \in 0 .. m - 1 :
        Lay(d, at, s)[i] = IF at <= i /\ i < at + Len(s) THEN s[i - at + 1] ELSE d[i]
  BY <1>2, <1>3
<1>5. \A i \in 0 .. m - 1 : Lay(d, at, s)[i] \in Stuff
  <2>1. TAKE i \in 0 .. m - 1
  <2>2. CASE at <= i /\ i < at + Len(s)
    <3>1. i - at + 1 \in 1 .. Len(s)
      BY <1>1, <2>2
    <3>2. s[i - at + 1] \in S
      BY <3>1, ElementOfSeq
    <3> QED BY <1>4, <2>2, <3>2
  <2>3. CASE ~(at <= i /\ i < at + Len(s))
    BY <1>1, <1>4, <2>3
  <2> QED BY <2>2, <2>3
<1>6. Lay(d, at, s) \in [0 .. m - 1 -> Stuff]
  BY <1>2, <1>5
<1> QED BY <1>1, <1>4, <1>6 DEF IsBlock

\* The first n bytes are characters if those are that are written, and the others were.
LEMMA LayHolds ==
  ASSUME NEW d, NEW m, IsBlock(d, m), NEW s \in Seq(Char), NEW at \in Int, NEW n \in 0 .. m,
         \A i \in 0 .. n - 1 : (at <= i /\ i < at + Len(s)) \/ d[i] \in Char
  PROVE  Holds(Lay(d, at, s), m, n)
<1>1. m \in Nat /\ Len(s) \in Nat /\ \A i \in 1 .. Len(s) : s[i] \in Char
  BY ElementOfSeq DEF IsBlock
<1>2. /\ IsBlock(Lay(d, at, s), m)
      /\ \A i \in 0 .. m - 1 :
           Lay(d, at, s)[i] = IF at <= i /\ i < at + Len(s) THEN s[i - at + 1] ELSE d[i]
  BY StuffIs, LayIs
<1>3. \A i \in 0 .. n - 1 : Lay(d, at, s)[i] \in Char
  <2>1. TAKE i \in 0 .. n - 1
  <2>2. i \in 0 .. m - 1
    BY <1>1
  <2>3. CASE at <= i /\ i < at + Len(s)
    <3>1. i - at + 1 \in 1 .. Len(s)
      BY <1>1, <2>3
    <3> QED BY <1>1, <1>2, <2>2, <2>3, <3>1
  <2>4. CASE ~(at <= i /\ i < at + Len(s))
    BY <1>2, <2>2, <2>4
  <2> QED BY <2>3, <2>4
<1> QED BY <1>2, <1>3 DEF Holds

-----------------------------------------------------------------------------
(* Making strings, and their memory.                                       *)

\* bfromcstr.
LEMMA FromcstrKeeps ==
  ASSUME Terminated, NEW t \in Texts, bfromcstr(t)
  PROVE  Terminated'
<1> DEFINE k == Len(t) + IF t = <<>> THEN 2 ELSE 1
           n == snapUpSize(k)
           call == <<"fromcstr", t>>
<1>1. t \in Seq(Char) /\ Len(t) \in Nat /\ k \in Nat /\ k > Len(t)
  BY TextIs
<1>2. n \in Nat /\ n >= k
  BY <1>1, SnapGrows
<1>3. Create(t, n, call) \/ Returns(call, "ERR")
  BY DEF bfromcstr
<1> HIDE DEF n, k, call
<1>4. n >= Len(t) /\ n > Len(t)
  BY <1>1, <1>2
<1> QED BY <1>1, <1>2, <1>3, <1>4, CreateOK, LeftAlone

\* bdestroy.
LEMMA DestroyKeeps ==
  ASSUME Terminated, bdestroy
  PROVE  Terminated'
<1>1. /\ data' = [i \in {} |-> JUNK] /\ mlen' = 0 /\ slen' = 0 /\ wild' = FALSE /\ str' = FALSE
      /\ failing' = failing /\ failing \in Heaps
  BY DEF bdestroy, Terminated, TypeOK
<1>2. 0 .. 0 - 1 = {} /\ 1 .. 0 = {}
  OBVIOUS
<1>3. data' \in [0 .. mlen' - 1 -> Char \cup {NUL, JUNK}]
  BY <1>1, <1>2
<1>4. Text' \in Seq(Char)
  <2>1. Text' = [i \in 1 .. slen' |-> data'[i - 1]]
    BY DEF Text
  <2> QED BY <1>1, <2>1
<1>5. /\ mlen' = 0 /\ slen' = 0 /\ failing' \in Heaps
      /\ wild' \in BOOLEAN /\ str' \in BOOLEAN
  BY <1>1
<1>6. TypeOK'
  BY <1>3, <1>4, <1>5 DEF TypeOK
<1> QED BY <1>1, <1>6 DEF Terminated

\* balloc.
LEMMA AllocKeeps ==
  ASSUME Terminated, NEW olen \in Nat, balloc(olen)
  PROVE  Terminated'
<1>1. CASE Returns(<<"alloc">>, "OK") \/ Returns(<<"alloc">>, "ERR")
  BY <1>1, LeftAlone
<1>2. CASE olen >= mlen /\ \E d \in Blocks(olen) : Becomes(d, slen, <<"alloc">>)
  <2>1. PICK d \in Blocks(olen) : Becomes(d, slen, <<"alloc">>)
    BY <1>2
  <2>2. Granted(d, Size(d), olen)
    BY BlocksGranted
  <2>3. str
    BY DEF balloc
  <2>4. failing = {} => slen < Size(d)
    BY <2>2, <2>3, StringIs DEF Granted, Terminated, Holds, IsBlock
  <2> QED BY <2>1, <2>2, <2>4, BecomesOK DEF Granted
<1> QED BY <1>1, <1>2 DEF balloc

\* ballocmin.
LEMMA AllocminKeeps ==
  ASSUME Terminated, NEW len \in Nat, ballocmin(len)
  PROVE  Terminated'
<1> DEFINE n == Max({len, slen + 1})
           call == <<"allocmin">>
<1>1. slen \in Nat /\ mlen \in Nat
  BY StringIs DEF Holds, IsBlock
<1>2. n \in Nat /\ n > slen
  BY <1>1, MaxOfTwo
<1>3. Returns(call, "OK") \/ Returns(call, "ERR") \/ Becomes(Moved(n, mlen), slen, call)
  BY DEF ballocmin
<1> HIDE DEF n, call
<1>4. Holds(Moved(n, mlen), n, slen)
  BY <1>1, <1>2, MovedHolds
<1> QED BY <1>2, <1>3, <1>4, BecomesOK, LeftAlone

-----------------------------------------------------------------------------
(* Appending and assigning.                                                *)

\* A text is written into the string, or just behind it, and the string ends with one of
\* both or before.
LEMMA LaidKeeps ==
  ASSUME Terminated, NEW d, NEW m, Holds(d, m, slen), NEW s \in Seq(Char), NEW at \in 0 .. slen,
         NEW n \in 0 .. m, n <= slen \/ n <= at + Len(s), failing = {} => n < m,
         NEW call, Becomes(Lay(d, at, s), n, call)
  PROVE  Terminated'
<1>1. IsBlock(d, m) /\ slen \in Nat /\ m \in Nat /\ \A i \in 0 .. slen - 1 : d[i] \in Char
  BY DEF Holds, IsBlock
<1>2. Len(s) \in Nat
  OBVIOUS
<1>3. \A i \in 0 .. n - 1 : (at <= i /\ i < at + Len(s)) \/ d[i] \in Char
  <2>1. TAKE i \in 0 .. n - 1
  <2>2. i < slen \/ (at <= i /\ i < at + Len(s))
    BY <1>1, <1>2
  <2> QED BY <1>1, <2>2
<1>4. Holds(Lay(d, at, s), m, n)
  BY <1>1, <1>3, LayHolds
<1> QED BY <1>4, BecomesOK

\* The string is in the block it has.
LEMMA StringInside ==
  ASSUME Terminated, str
  PROVE  /\ slen \in Nat /\ mlen \in Nat /\ slen <= mlen /\ Holds(data, mlen, slen)
         /\ failing = {} => slen < mlen
<1>1. slen \in Nat /\ mlen \in Nat /\ slen <= mlen /\ Holds(data, mlen, slen)
  BY StringIs DEF Holds, IsBlock
<1>2. failing = {} => slen < mlen
  BY DEF Terminated
<1> QED BY <1>1, <1>2

\* What is read through an argument when balloc was asked for olen.
LEMMA ThroughGranted ==
  ASSUME NEW a, IsArg(a), NEW d, NEW olen, Granted(d, Size(d), olen), NEW copied,
         ~a.own \/ copied \/ olen < mlen
  PROVE  Through(a, d, copied) = a.text
BY ThroughIs DEF Granted

\* bconcat.
LEMMA ConcatKeeps ==
  ASSUME Terminated, NEW a \in Args, bconcat(a)
  PROVE  Terminated'
<1> DEFINE n    == slen + Len(a.text)
           call == <<"concat", a.text>>
           copied == mlen <= n + 1
<1>1. /\ str
      /\ \/ \E d \in Blocks(n + 1) : Becomes(Lay(d, slen, Through(a, d, copied)), n, call)
         \/ Returns(call, "ERR")
  BY DEF bconcat
<1>2. IsArg(a) /\ a.text \in Seq(Char) /\ Len(a.text) \in Nat
  BY ArgIs DEF IsArg
<1>3. slen \in Nat /\ mlen \in Nat /\ n \in Nat /\ (copied \/ n + 1 < mlen)
  BY <1>1, <1>2, StringInside
<1> HIDE DEF call, copied
<1>4. ASSUME NEW d \in Blocks(n + 1), Becomes(Lay(d, slen, Through(a, d, copied)), n, call)
      PROVE  Terminated'
  <2>1. Granted(d, Size(d), n + 1)
    BY <1>3, BlocksGranted
  <2>2. Through(a, d, copied) = a.text
    BY <1>2, <1>3, <2>1, ThroughGranted
  <2>3. Holds(d, Size(d), slen) /\ Size(d) \in Nat /\ n < Size(d)
    BY <1>3, <2>1 DEF Granted, Holds, IsBlock
  <2> QED BY <1>2, <1>3, <1>4, <2>2, <2>3, LaidKeeps
<1> QED BY <1>1, <1>4, LeftAlone

\* A text is written behind the string.
LEMMA AppendedKeeps ==
  ASSUME Terminated, NEW t \in Seq(Char), NEW d, NEW n, n = slen + Len(t),
         Holds(d, Size(d), slen), n < Size(d), NEW call, Becomes(Lay(d, slen, t), n, call)
  PROVE  Terminated'
<1>1. slen \in Nat /\ Len(t) \in Nat /\ Size(d) \in Nat
  BY StringIs DEF Holds, IsBlock
<1> QED BY <1>1, LaidKeeps

\* bconchar.
LEMMA ConcharKeeps ==
  ASSUME Terminated, NEW c \in Char, bconchar(c)
  PROVE  Terminated'
<1> DEFINE call == <<"concat", <<c>>>>
           t == <<c>>
<1>1. /\ str
      /\ \/ \E d \in Blocks(slen + 2) : Becomes(Lay(d, slen, t), slen + 1, call)
         \/ Returns(call, "ERR")
  BY DEF bconchar
<1>2. t \in Seq(Char) /\ Len(t) = 1 /\ slen \in Nat /\ mlen \in Nat
  BY <1>1, StringInside
<1> HIDE DEF call, t
<1>3. ASSUME NEW d \in Blocks(slen + 2), Becomes(Lay(d, slen, t), slen + 1, call)
      PROVE  Terminated'
  <2>1. Granted(d, Size(d), slen + 2)
    BY <1>2, BlocksGranted
  <2>2. Holds(d, Size(d), slen) /\ slen + 1 < Size(d)
    BY <1>2, <2>1 DEF Granted, Holds, IsBlock
  <2> QED BY <1>2, <1>3, <2>2, AppendedKeeps
<1> QED BY <1>1, <1>3, LeftAlone

\* A block that is the string's own, or one that was granted.
LEMMA RoomFor ==
  ASSUME Terminated, str, NEW n \in Nat, NEW d,
         (d = data /\ n < mlen) \/ d \in Blocks(n + 1)
  PROVE  Holds(d, Size(d), slen) /\ n < Size(d)
<1>1. slen \in Nat /\ mlen \in Nat /\ Holds(data, mlen, slen) /\ Size(data) = mlen
  BY StringInside, StringIs
<1>2. CASE d = data /\ n < mlen
  BY <1>1, <1>2
<1>3. CASE d \in Blocks(n + 1)
  <2>1. Granted(d, Size(d), n + 1)
    BY <1>3, BlocksGranted
  <2> QED BY <1>1, <2>1 DEF Granted, Holds, IsBlock
<1> QED BY <1>2, <1>3

\* bcatblk.
LEMMA CatblkKeeps ==
  ASSUME Terminated, NEW t \in Texts, bcatblk(t)
  PROVE  Terminated'
<1> DEFINE n    == slen + Len(t)
           call == <<"concat", t>>
<1>1. /\ str
      /\ \/ \E d \in IF mlen <= n THEN Blocks(n + 1) ELSE {data} :
              Becomes(Lay(d, slen, t), n, call)
         \/ Returns(call, "ERR")
  BY DEF bcatblk
<1>2. t \in Seq(Char) /\ Len(t) \in Nat /\ slen \in Nat /\ mlen \in Nat /\ n \in Nat
  BY <1>1, StringInside, TextIs
<1> HIDE DEF call
<1>3. ASSUME NEW d \in IF mlen <= n THEN Blocks(n + 1) ELSE {data},
             Becomes(Lay(d, slen, t), n, call)
      PROVE  Terminated'
  <2>1. (d = data /\ n < mlen) \/ d \in Blocks(n + 1)
    BY <1>2
  <2>2. Holds(d, Size(d), slen) /\ n < Size(d)
    BY <1>1, <1>2, <2>1, RoomFor
  <2> QED BY <1>2, <1>3, <2>2, AppendedKeeps
<1> QED BY <1>1, <1>3, LeftAlone

\* A block filled to the brim.
LEMMA BrimmedKeeps ==
  ASSUME Terminated, failing # {}, NEW s \in Seq(Char), Len(s) <= mlen, mlen <= slen + Len(s),
         NEW call, Brimmed(s, call)
  PROVE  Terminated'
<1>1. /\ mlen \in Nat /\ slen \in 0 .. mlen /\ IsBlock(data, mlen) /\ Len(s) \in Nat
      /\ \A i \in 0 .. slen - 1 : data[i] \in Char
  BY StringIs DEF Holds, IsBlock
<1> DEFINE d == Lay(data, mlen - Len(s), s)
<1>2. \A i \in 0 .. mlen - 1 :
        (mlen - Len(s) <= i /\ i < mlen - Len(s) + Len(s)) \/ data[i] \in Char
  <2>1. TAKE i \in 0 .. mlen - 1
  <2>2. i < slen \/ (mlen - Len(s) <= i /\ i < mlen - Len(s) + Len(s))
    BY <1>1
  <2> QED BY <1>1, <2>2
<1>3. Holds(d, mlen, mlen)
  BY <1>1, <1>2, LayHolds
<1>4. /\ data' = d /\ slen' = mlen /\ mlen' = mlen /\ wild' = FALSE
      /\ failing' = failing /\ str' = str /\ failing \in Heaps /\ str \in BOOLEAN
  BY DEF Brimmed, Terminated, TypeOK
<1> HIDE DEF d
<1>5. d \in [0 .. mlen - 1 -> Stuff] /\ \A i \in 0 .. mlen - 1 : d[i] \in Char
  BY <1>3 DEF Holds, IsBlock
<1>6. Text' \in Seq(Char)
  <2>1. Text' = [i \in 1 .. mlen |-> d[i - 1]]
    BY <1>4 DEF Text
  <2>2. \A i \in 1 .. mlen : d[i - 1] \in Char
    BY <1>1, <1>5
  <2> QED BY <1>1, <2>1, <2>2
<1>7. slen' \in 0 .. mlen' /\ mlen' \in Nat
  BY <1>1, <1>4
<1>8. wild' \in BOOLEAN /\ str' \in BOOLEAN /\ failing' \in Heaps
  BY <1>4
<1>9. data' \in [0 .. mlen' - 1 -> Char \cup {NUL, JUNK}]
  BY <1>4, <1>5 DEF Stuff
<1>10. TypeOK'
  BY <1>6, <1>7, <1>9, <1>8 DEF TypeOK
<1> QED BY <1>4, <1>10 DEF Terminated

\* What is refused, is refused by a heap that may refuse.
LEMMA RefusedFails ==
  ASSUME NEW olen, Refused(olen)
  PROVE  failing # {}
BY DEF Refused

\* bcatcstr.
LEMMA CatcstrKeeps ==
  ASSUME Terminated, NEW t \in Texts, bcatcstr(t)
  PROVE  Terminated'
<1> DEFINE n    == slen + Len(t)
           call == <<"catcstr", t>>
           s    == SubSeq(t, 1, mlen - slen)
<1>1. /\ str
      /\ \/ n < mlen /\ Becomes(Lay(data, slen, t), n, call)
         \/ \E d \in Blocks(n + 1) : Becomes(Lay(d, slen, t), n, call)
         \/ n >= mlen /\ failing # {} /\ Brimmed(s, call)
  BY RefusedFails DEF bcatcstr
<1>2. /\ t \in Seq(Char) /\ Len(t) \in Nat /\ slen \in Nat /\ mlen \in Nat /\ n \in Nat
      /\ slen <= mlen
  BY <1>1, StringInside, TextIs
<1>3. ASSUME NEW d, (d = data /\ n < mlen) \/ d \in Blocks(n + 1),
             Becomes(Lay(d, slen, t), n, call)
      PROVE  Terminated'
  <2> HIDE DEF call
  <2>1. Holds(d, Size(d), slen) /\ n < Size(d)
    BY <1>1, <1>2, <1>3, RoomFor
  <2> QED BY <1>2, <1>3, <2>1, AppendedKeeps
<1>4. ASSUME n >= mlen, failing # {}, Brimmed(s, call)
      PROVE  Terminated'
  <2>1. \A i \in 1 .. mlen - slen : t[i] \in Char
    BY <1>2, <1>4, ElementOfSeq
  <2>2. s \in Seq(Char) /\ Len(s) = mlen - slen
    BY <1>2, <2>1, SubSeqProperties
  <2> HIDE DEF call, s
  <2> QED BY <1>2, <1>4, <2>2, BrimmedKeeps
<1> QED BY <1>1, <1>3, <1>4

\* A text is written to the beginning of the string, which becomes that text.
LEMMA AssignedKeeps ==
  ASSUME Terminated, NEW t \in Seq(Char), NEW d, Holds(d, Size(d), slen), Len(t) <= Size(d),
         failing = {} => Len(t) < Size(d), NEW call, Becomes(Lay(d, 0, t), Len(t), call)
  PROVE  Terminated'
<1>1. slen \in Nat /\ Len(t) \in Nat /\ Size(d) \in Nat
  BY StringIs DEF Holds, IsBlock
<1> QED BY <1>1, LaidKeeps

\* bassign and bassignmidstr.
LEMMA AssignKeeps ==
  ASSUME Terminated, str, NEW a, IsArg(a), NEW t \in Seq(Char), Len(t) <= Len(a.text),
         NEW call, Assign(a, t, call), ShortStrings
  PROVE  Terminated'
<1> DEFINE b == [a EXCEPT !.text = t]
<1>1. /\ slen \in Nat /\ mlen \in Nat /\ slen <= mlen /\ Holds(data, mlen, slen)
      /\ failing = {} => slen < mlen
  BY StringInside
<1>2. \/ Becomes(data, 0, call)
      \/ \E d \in Blocks(Len(t)) : Becomes(Lay(d, 0, Through(b, d, FALSE)), Len(t), call)
      \/ Returns(call, "ERR")
  BY DEF Assign
<1>3. ASSUME Becomes(data, 0, call) PROVE Terminated'
  <2>1. Holds(data, mlen, 0)
    BY <1>1 DEF Holds
  <2> QED BY <1>1, <1>3, <2>1, BecomesOK
<1>4. ASSUME NEW d \in Blocks(Len(t)), Becomes(Lay(d, 0, Through(b, d, FALSE)), Len(t), call)
      PROVE  Terminated'
  <2>1. Len(t) \in Nat /\ Len(a.text) \in Nat /\ (a.own => Len(t) < mlen)
    BY <1>1 DEF IsArg
  <2>2. Granted(d, Size(d), Len(t))
    BY <2>1, BlocksGranted
  <2>3. ~a.own \/ Size(d) = mlen
    BY <2>1, <2>2 DEF Granted
  <2>4. Through(b, d, FALSE) = t
    <3>1. b.own = a.own /\ b.text = t
      BY DEF IsArg
    <3> HIDE DEF b
    <3> QED BY <2>3, <3>1, ThroughIs
  <2>5. Len(t) <= MaxLen
    BY <1>4 DEF Becomes, Stores
  <2>6. MaxLen \in Nat /\ Highest \in Nat /\ MaxLen < Highest
    BY ConstantsAssumption, SMT DEF ShortStrings, Highest
  <2>7. /\ Holds(d, Size(d), slen) /\ Len(t) <= Size(d)
        /\ failing = {} => Len(t) < Size(d)
    BY <2>1, <2>2, <2>5, <2>6 DEF Granted
  <2> QED BY <1>4, <2>4, <2>7, AssignedKeeps
<1> QED BY <1>2, <1>3, <1>4, LeftAlone

\* bassign.
LEMMA BassignKeeps ==
  ASSUME Terminated, ShortStrings, NEW a \in Args, bassign(a)
  PROVE  Terminated'
<1> DEFINE call == <<"assign", a.text>>
<1>1. str /\ Assign(a, a.text, call)
  BY DEF bassign
<1> HIDE DEF call
<1>2. IsArg(a) /\ a.text \in Seq(Char) /\ Len(a.text) <= Len(a.text)
  BY ArgIs DEF IsArg
<1> QED BY <1>1, <1>2, AssignKeeps

\* bassignmidstr.
LEMMA AssignmidstrKeeps ==
  ASSUME Terminated, ShortStrings, NEW a \in Args, NEW left \in Int, NEW len \in Int,
         bassignmidstr(a, left, len)
  PROVE  Terminated'
<1> DEFINE t == Mid(a.text, left, len)
           call == <<"assign", t>>
<1>1. str /\ Assign(a, t, call)
  BY DEF bassignmidstr
<1>2. IsArg(a) /\ a.text \in Seq(Char)
  BY ArgIs DEF IsArg
<1>3. t \in Seq(Char) /\ Len(t) <= Len(a.text)
  BY <1>2, MidIs
<1> HIDE DEF call, t
<1> QED BY <1>1, <1>2, <1>3, AssignKeeps

\* bassignblk.
LEMMA AssignblkKeeps ==
  ASSUME Terminated, NEW t \in Texts, bassignblk(t)
  PROVE  Terminated'
<1> DEFINE n    == Len(t)
           call == <<"assign", t>>
<1>1. /\ str
      /\ \/ \E d \in IF n + 1 > mlen THEN Blocks(n + 1) ELSE {data} :
              Becomes(Lay(d, 0, t), n, call)
         \/ Returns(call, "ERR")
  BY DEF bassignblk
<1>2. t \in Seq(Char) /\ n \in Nat /\ slen \in Nat /\ mlen \in Nat
  BY <1>1, StringInside, TextIs
<1> HIDE DEF call
<1>3. ASSUME NEW d \in IF n + 1 > mlen THEN Blocks(n + 1) ELSE {data},
             Becomes(Lay(d, 0, t), n, call)
      PROVE  Terminated'
  <2>1. (d = data /\ n < mlen) \/ d \in Blocks(n + 1)
    BY <1>2
  <2>2. Holds(d, Size(d), slen) /\ n < Size(d) /\ Size(d) \in Nat
    BY <1>1, <1>2, <2>1, RoomFor DEF Holds, IsBlock
  <2> QED BY <1>2, <1>3, <2>2, AssignedKeeps
<1> QED BY <1>1, <1>3, LeftAlone

\* bassigncstr.
LEMMA AssigncstrKeeps ==
  ASSUME Terminated, NEW t \in Texts, bassigncstr(t)
  PROVE  Terminated'
<1> DEFINE n    == Len(t)
           call == <<"assigncstr", t>>
           s    == SubSeq(t, 1, mlen)
<1>1. /\ str
      /\ \/ n < mlen /\ Becomes(Lay(data, 0, t), n, call)
         \/ \E d \in Blocks(n + 1) : Becomes(Lay(d, 0, t), n, call)
         \/ n >= mlen /\ failing # {} /\ Brimmed(s, call)
  BY RefusedFails DEF bassigncstr
<1>2. t \in Seq(Char) /\ n \in Nat /\ slen \in Nat /\ mlen \in Nat /\ slen <= mlen
  BY <1>1, StringInside, TextIs
<1>3. ASSUME NEW d, (d = data /\ n < mlen) \/ d \in Blocks(n + 1),
             Becomes(Lay(d, 0, t), n, call)
      PROVE  Terminated'
  <2> HIDE DEF call
  <2>1. Holds(d, Size(d), slen) /\ n < Size(d) /\ Size(d) \in Nat
    BY <1>1, <1>2, <1>3, RoomFor DEF Holds, IsBlock
  <2> QED BY <1>2, <1>3, <2>1, AssignedKeeps
<1>4. ASSUME n >= mlen, failing # {}, Brimmed(s, call)
      PROVE  Terminated'
  <2>1. \A i \in 1 .. mlen : t[i] \in Char
    BY <1>2, <1>4, ElementOfSeq
  <2>2. s \in Seq(Char) /\ Len(s) = mlen
    BY <1>2, <2>1, SubSeqProperties
  <2> HIDE DEF call, s
  <2> QED BY <1>2, <1>4, <2>2, BrimmedKeeps
<1> QED BY <1>1, <1>3, <1>4

-----------------------------------------------------------------------------
(* Editing.                                                                *)

\* A part of the string is moved to where the string has characters, and the string ends
\* with it.
LEMMA MovedKeeps ==
  ASSUME Terminated, str, NEW s \in Seq(Char), NEW at \in 0 .. slen, NEW n \in 0 .. slen,
         NEW call, Becomes(Lay(data, at, s), n, call)
  PROVE  Terminated'
<1>1. /\ slen \in Nat /\ mlen \in Nat /\ slen <= mlen /\ Holds(data, mlen, slen)
      /\ failing = {} => slen < mlen
  BY StringInside
<1>2. n \in 0 .. mlen /\ n <= slen /\ (failing = {} => n < mlen)
  BY <1>1
<1> QED BY <1>1, <1>2, LaidKeeps

\* The string is cut off.
LEMMA CutKeeps ==
  ASSUME Terminated, str, NEW n \in 0 .. slen, NEW call, Becomes(data, n, call)
  PROVE  Terminated'
<1>1. /\ slen \in Nat /\ mlen \in Nat /\ slen <= mlen /\ Holds(data, mlen, slen)
      /\ failing = {} => slen < mlen
  BY StringInside
<1>2. Holds(data, mlen, n) /\ (failing = {} => n < mlen)
  BY <1>1 DEF Holds
<1> QED BY <1>2, BecomesOK

\* btrunc.
LEMMA TruncKeeps ==
  ASSUME Terminated, NEW n \in Nat, btrunc(n)
  PROVE  Terminated'
<1> DEFINE call == <<"trunc", n>>
<1>1. str /\ ((slen > n /\ Becomes(data, n, call)) \/ Returns(call, "OK"))
  BY DEF btrunc
<1> HIDE DEF call
<1>2. slen \in Nat
  BY <1>1, StringInside
<1>3. slen > n => n \in 0 .. slen
  BY <1>2
<1> QED BY <1>1, <1>3, CutKeeps, LeftAlone

\* What follows in the string.
LEMMA BehindIs ==
  ASSUME Terminated, str, NEW pos \in Nat, NEW len \in Nat
  PROVE  /\ Behind(pos, len) \in Seq(Char)
         /\ Len(Behind(pos, len)) = IF pos + len <= slen THEN slen - (pos + len) ELSE 0
<1>1. slen \in Nat /\ Text \in Seq(Char) /\ Len(Text) = slen
  BY StringInside, StringIs
<1>2. \A i \in pos + len + 1 .. slen : Text[i] \in Char
  <2>1. \A i \in 1 .. slen : Text[i] \in Char
    BY <1>1, ElementOfSeq
  <2> QED BY <1>1, <2>1
<1>3. /\ SubSeq(Text, pos + len + 1, slen) \in Seq(Char)
      /\ Len(SubSeq(Text, pos + len + 1, slen))
           = IF pos + len + 1 <= slen THEN slen - (pos + len + 1) + 1 ELSE 0
  BY <1>1, <1>2, SubSeqProperties
<1> QED BY <1>1, <1>3 DEF Behind

\* bdelete.
LEMMA DeleteKeeps ==
  ASSUME Terminated, NEW left \in Int, NEW length \in Int, bdelete(left, length)
  PROVE  Terminated'
<1> DEFINE pos  == Max({left, 0})
           len  == length + Min({left, 0})
           call == <<"delete", left, length>>
           s    == Behind(pos, len)
<1>1. /\ str
      /\ \/ Returns(call, "ERR") \/ Returns(call, "OK")
         \/ len > 0 /\ pos < slen /\ Becomes(Lay(data, pos, s), pos + Len(s), call)
  BY DEF bdelete
<1>2. slen \in Nat
  BY <1>1, StringInside
<1>3. pos \in Nat /\ len \in Int
  BY MaxOfTwo, MinOfTwo
<1> HIDE DEF call, pos, len
<1>4. ASSUME len > 0, pos < slen, Becomes(Lay(data, pos, s), pos + Len(s), call)
      PROVE  Terminated'
  <2>1. s \in Seq(Char) /\ Len(s) = IF pos + len <= slen THEN slen - (pos + len) ELSE 0
    BY <1>1, <1>3, <1>4, BehindIs
  <2> HIDE DEF s
  <2>2. pos \in 0 .. slen /\ pos + Len(s) \in 0 .. slen
    BY <1>2, <1>3, <1>4, <2>1
  <2> QED BY <1>1, <1>4, <2>1, <2>2, MovedKeeps
<1> QED BY <1>1, <1>4, LeftAlone

\* bltrimws.
LEMMA LtrimwsKeeps ==
  ASSUME Terminated, bltrimws
  PROVE  Terminated'
<1> DEFINE solid == {i \in 0 .. slen - 1 : data[i] \notin Spaces}
           call  == <<"ltrimws">>
           s     == Behind(0, Min(solid))
<1>1. /\ str
      /\ \/ solid # {} /\ Becomes(Lay(data, 0, s), slen - Min(solid), call)
         \/ Returns(call, "OK")
         \/ Becomes(data, 0, call)
  BY DEF bltrimws
<1>2. slen \in Nat
  BY <1>1, StringInside
<1>3. solid # {} => Min(solid) \in 0 .. slen - 1
  <2>1. solid \in SUBSET Nat /\ solid \subseteq 0 .. slen - 1
    BY <1>2
  <2> HIDE DEF solid
  <2> QED BY <2>1, MinIsLeast
<1> HIDE DEF call, solid
<1>4. ASSUME solid # {}, Becomes(Lay(data, 0, s), slen - Min(solid), call)
      PROVE  Terminated'
  <2>1. Min(solid) \in Nat
    BY <1>2, <1>3, <1>4
  <2>2. s \in Seq(Char)
    BY <1>1, <2>1, BehindIs
  <2> HIDE DEF s
  <2>3. slen - Min(solid) \in 0 .. slen /\ 0 \in 0 .. slen
    BY <1>2, <1>3, <1>4
  <2> QED BY <1>1, <1>4, <2>2, <2>3, MovedKeeps
<1>5. 0 \in 0 .. slen
  BY <1>2
<1> QED BY <1>1, <1>4, <1>5, CutKeeps, LeftAlone

\* brtrimws.
LEMMA RtrimwsKeeps ==
  ASSUME Terminated, brtrimws
  PROVE  Terminated'
<1> DEFINE solid == {i \in 0 .. slen - 1 : data[i] \notin Spaces}
           ends  == {i + 1 : i \in solid} \cup {0}
           call  == <<"rtrimws">>
<1>1. str /\ Becomes(data, Max(ends), call)
  BY DEF brtrimws
<1>2. slen \in Nat
  BY <1>1, StringInside
<1>3. ends \in SUBSET (0 .. slen) /\ ends # {}
  BY <1>2
<1> HIDE DEF call, ends
<1>4. Max(ends) \in 0 .. slen
  BY <1>2, <1>3, MaxIsMost
<1> QED BY <1>1, <1>4, CutKeeps

\* btrimws.
LEMMA TrimwsKeeps ==
  ASSUME Terminated, btrimws
  PROVE  Terminated'
<1> DEFINE solid == {i \in 0 .. slen - 1 : data[i] \notin Spaces}
           call  == <<"trimws">>
           s     == SubSeq(Text, Min(solid) + 1, Max(solid) + 1)
<1>1. /\ str
      /\ \/ solid # {} /\ Becomes(Lay(data, 0, s), Len(s), call)
         \/ Becomes(data, 0, call)
  BY DEF btrimws
<1>2. slen \in Nat /\ Text \in Seq(Char) /\ Len(Text) = slen
  BY <1>1, StringInside, StringIs
<1>3. solid # {} => Min(solid) \in 0 .. slen - 1 /\ Max(solid) \in 0 .. slen - 1
  <2>1. solid \in SUBSET Nat /\ solid \subseteq 0 .. slen - 1 /\ solid \in SUBSET (0 .. slen)
    BY <1>2
  <2> HIDE DEF solid
  <2> QED BY <1>2, <2>1, MinIsLeast, MaxIsMost
<1> HIDE DEF call, solid
<1>4. ASSUME solid # {}, Becomes(Lay(data, 0, s), Len(s), call)
      PROVE  Terminated'
  <2>1. Min(solid) \in 0 .. slen - 1 /\ Max(solid) \in 0 .. slen - 1
    BY <1>3, <1>4
  <2>2. \A i \in 1 .. slen : Text[i] \in Char
    BY <1>2, ElementOfSeq
  <2>3. \A i \in Min(solid) + 1 .. Max(solid) + 1 : Text[i] \in Char
    BY <1>2, <2>1, <2>2
  <2>4. /\ s \in Seq(Char)
        /\ Len(s) = IF Min(solid) + 1 <= Max(solid) + 1
                    THEN Max(solid) + 1 - (Min(solid) + 1) + 1 ELSE 0
    BY <1>2, <2>1, <2>3, SubSeqProperties
  <2> HIDE DEF s
  <2>5. Len(s) \in 0 .. slen /\ 0 \in 0 .. slen
    BY <1>2, <2>1, <2>4
  <2> QED BY <1>1, <1>4, <2>4, <2>5, MovedKeeps
<1>5. 0 \in 0 .. slen
  BY <1>2
<1> QED BY <1>1, <1>4, <1>5, CutKeeps

\* btoupper and btolower.
LEMMA RecasedKeeps ==
  ASSUME Terminated, NEW case \in [Char -> Char], NEW name, Recased(case, name)
  PROVE  Terminated'
<1> DEFINE s    == [i \in 1 .. slen |-> case[Text[i]]]
           call == <<name>>
<1>1. str /\ Becomes(Lay(data, 0, s), slen, call)
  BY DEF Recased
<1>2. slen \in Nat /\ Text \in Seq(Char) /\ Len(Text) = slen
  BY <1>1, StringInside, StringIs
<1>3. s \in Seq(Char)
  <2>1. \A i \in 1 .. slen : case[Text[i]] \in Char
    BY <1>2, ElementOfSeq
  <2> QED BY <1>2, <2>1
<1> HIDE DEF s, call
<1>4. 0 \in 0 .. slen /\ slen \in 0 .. slen
  BY <1>2
<1> QED BY <1>1, <1>3, <1>4, MovedKeeps

\* A text and what is put before it, both in the block.
LEMMA TwoLaid ==
  ASSUME NEW d, NEW m, Holds(d, m, slen), NEW s \in Seq(Char), NEW t \in Seq(Char),
         NEW pos \in 0 .. slen, NEW n \in 0 .. m, n = pos + Len(t) + Len(s)
  PROVE  Holds(Lay(Lay(d, pos + Len(t), s), pos, t), m, n)
<1>1. /\ m \in Nat /\ slen \in Nat /\ IsBlock(d, m) /\ slen <= m
      /\ \A i \in 0 .. slen - 1 : d[i] \in Char
  BY DEF Holds, IsBlock
<1>2. Len(s) \in Nat /\ Len(t) \in Nat /\ \A i \in 1 .. Len(s) : s[i] \in Char
  BY ElementOfSeq
<1> DEFINE at == pos + Len(t)
           e  == Lay(d, at, s)
<1>3. at \in Int /\ pos \in Int
  BY <1>1, <1>2
<1>4. /\ IsBlock(e, m)
      /\ \A i \in 0 .. m - 1 :
           e[i] = IF at <= i /\ i < at + Len(s) THEN s[i - at + 1] ELSE d[i]
  BY <1>1, <1>3, StuffIs, LayIs, ZenonT(60)
<1> HIDE DEF e
<1>5. \A i \in 0 .. n - 1 : (pos <= i /\ i < pos + Len(t)) \/ e[i] \in Char
  <2>1. TAKE i \in 0 .. n - 1
  <2>2. i \in 0 .. m - 1
    BY <1>1
  <2>3. CASE i < pos
    BY <1>1, <1>2, <1>4, <2>2, <2>3
  <2>4. CASE at <= i
    <3>1. i - at + 1 \in 1 .. Len(s) /\ i < at + Len(s)
      BY <1>1, <1>2, <2>4
    <3> QED BY <1>2, <1>4, <2>2, <2>4, <3>1
  <2> QED BY <1>1, <1>2, <2>3, <2>4
<1> QED BY <1>3, <1>4, <1>5, LayHolds DEF e

\* A text laid over the string, with a gap filled.
LEMMA OverlaidHolds ==
  ASSUME NEW d, NEW m, Holds(d, m, slen), NEW t \in Seq(Char), NEW fill \in Char,
         NEW pos \in Nat, NEW n \in 0 .. m, n <= slen \/ n <= pos + Len(t)
  PROVE  Holds(Overlaid(d, pos, t, fill), m, n)
<1>1. /\ m \in Nat /\ slen \in Nat /\ IsBlock(d, m) /\ slen <= m
      /\ \A i \in 0 .. slen - 1 : d[i] \in Char
  BY DEF Holds, IsBlock
<1> DEFINE r == Run(fill, pos - slen)
           e == Lay(d, slen, r)
<1>2. r \in Seq(Char) /\ Len(r) = (IF pos - slen > 0 THEN pos - slen ELSE 0)
  <2>1. pos - slen \in Int
    BY <1>1
  <2> QED BY <2>1, RunIs
<1>3. \A i \in 1 .. Len(r) : r[i] \in Char
  BY <1>2, ElementOfSeq
<1>4. Len(t) \in Nat /\ slen \in Int /\ pos \in Int
  BY <1>1
<1> HIDE DEF r
<1>5. /\ IsBlock(e, m)
      /\ \A i \in 0 .. m - 1 :
           e[i] = IF slen <= i /\ i < slen + Len(r) THEN r[i - slen + 1] ELSE d[i]
  BY <1>1, <1>2, <1>4, StuffIs, LayIs, ZenonT(60)
<1> HIDE DEF e
<1>6. \A i \in 0 .. n - 1 : (pos <= i /\ i < pos + Len(t)) \/ e[i] \in Char
  <2>1. TAKE i \in 0 .. n - 1
  <2>2. i \in 0 .. m - 1
    BY <1>1
  <2>3. CASE i < slen
    BY <1>1, <1>5, <2>2, <2>3
  <2>4. CASE slen <= i /\ i < pos
    <3>1. i - slen + 1 \in 1 .. Len(r) /\ i < slen + Len(r)
      BY <1>1, <1>2, <2>4
    <3> QED BY <1>3, <1>5, <2>2, <2>4, <3>1
  <2> QED BY <1>1, <1>4, <2>3, <2>4
<1>7. Holds(Lay(e, pos, t), m, n)
  BY <1>4, <1>5, <1>6, LayHolds
<1> QED BY <1>7 DEF Overlaid, e, r

\* bsetstr.
LEMMA SetstrKeeps ==
  ASSUME Terminated, NEW a \in Args, NEW pos \in Nat, NEW fill \in Char, bsetstr(pos, a, fill)
  PROVE  Terminated'
<1> DEFINE end  == pos + Len(a.text)
           n    == Max({slen, end})
           call == <<"setstr", pos, a.text, fill>>
<1>1. /\ str
      /\ \/ \E d \in Blocks(end + 1) :
              Becomes(Overlaid(d, pos, Through(a, d, TRUE), fill), n, call)
         \/ Returns(call, "ERR")
  BY DEF bsetstr
<1>2. IsArg(a) /\ a.text \in Seq(Char) /\ Len(a.text) \in Nat
  BY ArgIs DEF IsArg
<1>3. slen \in Nat /\ mlen \in Nat /\ slen <= mlen /\ (failing = {} => slen < mlen)
  BY <1>1, StringInside
<1>4. end \in Nat /\ n = IF slen >= end THEN slen ELSE end
  BY <1>2, <1>3, MaxOfTwo
<1> HIDE DEF call, n
<1>5. ASSUME NEW d \in Blocks(end + 1),
             Becomes(Overlaid(d, pos, Through(a, d, TRUE), fill), n, call)
      PROVE  Terminated'
  <2>1. Granted(d, Size(d), end + 1)
    BY <1>4, BlocksGranted
  <2>2. Through(a, d, TRUE) = a.text
    BY ThroughIs
  <2>3. /\ Holds(d, Size(d), slen) /\ n \in 0 .. Size(d) /\ (failing = {} => n < Size(d))
    BY <1>3, <1>4, <2>1 DEF Granted, Holds, IsBlock
  <2>4. n <= slen \/ n <= pos + Len(a.text)
    BY <1>3, <1>4
  <2>5. Holds(Overlaid(d, pos, a.text, fill), Size(d), n)
    BY <1>2, <2>3, <2>4, OverlaidHolds
  <2> QED BY <1>5, <2>2, <2>3, <2>5, BecomesOK
<1> QED BY <1>1, <1>5, LeftAlone

\* What insertion makes of a block.
Inserted(d, pos, t, fill) ==
  IF pos > slen THEN Overlaid(d, pos, t, fill) ELSE Spread(d, pos, t)

\* It is made of characters.
LEMMA InsertedHolds ==
  ASSUME Terminated, str, NEW d, NEW m, Holds(d, m, slen), NEW t \in Seq(Char),
         NEW fill \in Char, NEW pos \in Nat, NEW n \in 0 .. m,
         n = (IF slen >= pos THEN slen ELSE pos) + Len(t)
  PROVE  Holds(Inserted(d, pos, t, fill), m, n)
<1>1. slen \in Nat /\ Len(t) \in Nat
  BY StringInside
<1>2. CASE pos > slen
  <2>1. n <= pos + Len(t)
    BY <1>1, <1>2
  <2> QED BY <1>2, <2>1, OverlaidHolds DEF Inserted
<1>3. CASE ~(pos > slen)
  <2> DEFINE s == Behind(pos, 0)
  <2>1. s \in Seq(Char) /\ Len(s) = slen - pos
    <3>1. 0 \in Nat
      OBVIOUS
    <3>2. s \in Seq(Char) /\ Len(s) = IF pos + 0 <= slen THEN slen - (pos + 0) ELSE 0
      BY <3>1, BehindIs
    <3> QED BY <1>1, <1>3, <3>2
  <2> HIDE DEF s
  <2>2. pos \in 0 .. slen /\ n = pos + Len(t) + Len(s)
    BY <1>1, <1>3, <2>1
  <2>3. Holds(Lay(Lay(d, pos + Len(t), s), pos, t), m, n)
    BY <2>1, <2>2, TwoLaid
  <2> QED BY <1>3, <2>3 DEF Inserted, Spread, s
<1> QED BY <1>2, <1>3

\* A text is inserted in a block that has room for it.
LEMMA InsertedKeeps ==
  ASSUME Terminated, str, NEW t \in Seq(Char), NEW fill \in Char, NEW pos \in Nat,
         NEW n, n = Max({slen, pos}) + Len(t), NEW d \in Blocks(n + 1), NEW call,
         Becomes(Inserted(d, pos, t, fill), n, call)
  PROVE  Terminated'
<1>1. slen \in Nat /\ mlen \in Nat /\ Len(t) \in Nat
  BY StringInside
<1>2. n \in Nat /\ n = (IF slen >= pos THEN slen ELSE pos) + Len(t)
  BY <1>1, MaxOfTwo
<1>3. Granted(d, Size(d), n + 1)
  BY <1>2, BlocksGranted
<1>4. Holds(d, Size(d), slen) /\ n \in 0 .. Size(d) /\ n < Size(d)
  BY <1>2, <1>3 DEF Granted, Holds, IsBlock
<1>5. Holds(Inserted(d, pos, t, fill), Size(d), n)
  BY <1>2, <1>4, InsertedHolds
<1> QED BY <1>4, <1>5, BecomesOK

\* binsert.
LEMMA InsertKeeps ==
  ASSUME Terminated, NEW a \in Args, NEW pos \in Nat, NEW fill \in Char, binsert(pos, a, fill)
  PROVE  Terminated'
<1> DEFINE n    == Max({slen, pos}) + Len(a.text)
           call == <<"insert", pos, a.text, fill>>
<1>1. /\ str
      /\ \/ \E d \in Blocks(n + 1) :
              Becomes(Inserted(d, pos, Through(a, d, TRUE), fill), n, call)
         \/ Returns(call, "ERR")
  BY DEF binsert, Inserted
<1>2. a.text \in Seq(Char)
  BY ArgIs DEF IsArg
<1> HIDE DEF call, n
<1>3. ASSUME NEW d \in Blocks(n + 1),
             Becomes(Inserted(d, pos, Through(a, d, TRUE), fill), n, call)
      PROVE  Terminated'
  <2>1. Through(a, d, TRUE) = a.text
    BY ThroughIs
  <2>2. n = Max({slen, pos}) + Len(a.text)
    BY DEF n
  <2> QED BY <1>1, <1>2, <1>3, <2>1, <2>2, InsertedKeeps
<1> QED BY <1>1, <1>3, LeftAlone

\* binsertch.
LEMMA InsertchKeeps ==
  ASSUME Terminated, NEW pos \in Nat, NEW len \in Nat, NEW fill \in Char,
         binsertch(pos, len, fill)
  PROVE  Terminated'
<1> DEFINE n    == Max({slen, pos}) + len
           t    == Run(fill, len)
           call == <<"insert", pos, t, fill>>
<1>1. /\ str
      /\ \/ \E d \in Blocks(n + 1) : Becomes(Inserted(d, pos, t, fill), n, call)
         \/ Returns(call, "ERR")
  BY DEF binsertch, Inserted
<1>2. t \in Seq(Char) /\ Len(t) = len
  BY RunIs
<1> HIDE DEF call, t
<1>3. n = Max({slen, pos}) + Len(t)
  BY <1>2
<1> HIDE DEF n
<1> QED BY <1>1, <1>2, <1>3, InsertedKeeps, LeftAlone

\* bpattern.
LEMMA PatternKeeps ==
  ASSUME Terminated, NEW len \in Nat, bpattern(len)
  PROVE  Terminated'
<1> DEFINE s    == [i \in 1 .. len |-> Text[((i - 1) % slen) + 1]]
           call == <<"pattern", len>>
<1>1. /\ str
      /\ \/ slen > 0 /\ \E d \in Blocks(len + 1) : Becomes(Lay(d, 0, s), len, call)
         \/ Returns(call, "ERR")
  BY DEF bpattern
<1>2. /\ slen \in Nat /\ mlen \in Nat /\ Text \in Seq(Char) /\ Len(Text) = slen
  BY <1>1, StringInside, StringIs
<1>3. slen > 0 => s \in Seq(Char) /\ Len(s) = len
  <2> SUFFICES ASSUME slen > 0 PROVE s \in Seq(Char) /\ Len(s) = len
    OBVIOUS
  <2>1. \A i \in 1 .. len : ((i - 1) % slen) + 1 \in 1 .. slen
    BY <1>2
  <2>2. \A i \in 1 .. len : Text[((i - 1) % slen) + 1] \in Char
    BY <1>2, <2>1, ElementOfSeq
  <2> QED BY <2>2
<1> HIDE DEF s, call
<1>4. ASSUME slen > 0, NEW d \in Blocks(len + 1), Becomes(Lay(d, 0, s), len, call)
      PROVE  Terminated'
  <2>1. Holds(d, Size(d), slen) /\ len < Size(d) /\ Size(d) \in Nat
    BY <1>1, RoomFor DEF Holds, IsBlock
  <2> QED BY <1>3, <1>4, <2>1, AssignedKeeps
<1> QED BY <1>1, <1>4, LeftAlone

\* breplace, of a section inside the string.
LEMMA ReplaceInside ==
  ASSUME Terminated, str, ShortStrings, NEW a, IsArg(a), NEW pos \in Nat, NEW len \in Nat,
         pos + len < slen, NEW n, n = pos + Len(a.text) + slen - (pos + len),
         NEW d, Granted(d, Size(d), IF Len(a.text) > len THEN n ELSE 0), NEW call,
         Becomes(Lay(Lay(d, pos + Len(a.text), Behind(pos, len)), pos, a.text), n, call)
  PROVE  Terminated'
<1> DEFINE t == a.text
           s == Behind(pos, len)
<1>1. t \in Seq(Char) /\ Len(t) \in Nat
  BY DEF IsArg
<1>2. slen \in Nat /\ mlen \in Nat /\ slen <= mlen /\ (failing = {} => slen < mlen)
  BY StringInside
<1>3. s \in Seq(Char) /\ Len(s) = slen - (pos + len)
  <2>1. s \in Seq(Char) /\ Len(s) = IF pos + len <= slen THEN slen - (pos + len) ELSE 0
    BY BehindIs
  <2> QED BY <1>2, <2>1
<1>4. n <= MaxLen /\ MaxLen \in Nat /\ Highest \in Nat /\ MaxLen < Highest
  <2>1. n <= MaxLen
    BY DEF Becomes, Stores
  <2>2. MaxLen \in Nat /\ Highest \in Nat /\ MaxLen < Highest
    BY ConstantsAssumption, SMT DEF ShortStrings, Highest
  <2> QED BY <2>1, <2>2
<1> HIDE DEF s, t
<1>5. n \in Nat /\ n = pos + Len(t) + Len(s) /\ pos \in 0 .. slen
  BY <1>1, <1>2, <1>3 DEF t
<1>6. /\ Size(d) \in Nat /\ Holds(d, Size(d), slen) /\ Size(d) >= mlen
      /\ Len(t) > len => n <= Size(d) /\ (failing = {} => n < Size(d))
  BY <1>4, <1>5, SMTT(60) DEF Granted, Holds, IsBlock, t
<1>7. n \in 0 .. Size(d) /\ (failing = {} => n < Size(d))
  BY <1>1, <1>2, <1>3, <1>5, <1>6, SMTT(60)
<1>8. Holds(Lay(Lay(d, pos + Len(t), s), pos, t), Size(d), n)
  BY <1>1, <1>3, <1>5, <1>6, <1>7, TwoLaid
<1> QED BY <1>7, <1>8, BecomesOK DEF s, t

\* breplace.
LEMMA ReplaceKeeps ==
  ASSUME Terminated, ShortStrings, NEW a \in Args, NEW pos \in Nat, NEW len \in Nat,
         NEW fill \in Char, breplace(pos, len, a, fill)
  PROVE  Terminated'
<1> DEFINE inside == pos + len < slen
           end    == pos + Len(a.text)
           n      == IF inside THEN end + slen - (pos + len) ELSE end
           need   == IF ~inside THEN end + 1 ELSE IF Len(a.text) > len THEN n ELSE 0
           call   == <<"replace", pos, len, a.text, fill>>
           top    == Max({slen, end})
           Put(d, t) == IF inside
                        THEN Becomes(Lay(Lay(d, end, Behind(pos, len)), pos, t), n, call)
                        ELSE Stores(Overlaid(d, pos, t, fill), top, n, call)
<1>1. /\ str
      /\ (\E d \in Blocks(need) : Put(d, Through(a, d, TRUE))) \/ Returns(call, "ERR")
  BY DEF breplace
<1>2. IsArg(a) /\ a.text \in Seq(Char) /\ Len(a.text) \in Nat
  BY ArgIs DEF IsArg
<1>3. slen \in Nat /\ mlen \in Nat /\ slen <= mlen /\ (failing = {} => slen < mlen)
  BY <1>1, StringInside
<1>4. end \in Nat /\ n \in Int /\ need \in Int
  BY <1>2, <1>3
<1>5. top = IF slen >= end THEN slen ELSE end
  BY <1>3, <1>4, MaxOfTwo
<1> HIDE DEF call, top
<1>6. ASSUME NEW d \in Blocks(need), Put(d, Through(a, d, TRUE))
      PROVE  Terminated'
  <2>1. Granted(d, Size(d), need)
    BY <1>4, BlocksGranted
  <2>2. Through(a, d, TRUE) = a.text
    BY ThroughIs
  <2>3. Put(d, a.text)
    BY <1>6, <2>2
  <2>4. CASE inside
    BY <1>1, <1>2, <2>1, <2>3, <2>4, ReplaceInside
  <2>5. CASE ~inside
    <3>1. Stores(Overlaid(d, pos, a.text, fill), top, end, call)
      BY <2>3, <2>5
    <3>2. Granted(d, Size(d), end + 1)
      BY <2>1, <2>5
    <3>3. /\ Holds(d, Size(d), slen) /\ end \in 0 .. Size(d) /\ end < Size(d)
          /\ Size(d) \in Nat /\ Size(d) >= mlen
      BY <1>3, <1>4, <3>2 DEF Granted, Holds, IsBlock
    <3>4. end <= pos + Len(a.text)
      BY <1>4
    <3>5. Holds(Overlaid(d, pos, a.text, fill), Size(d), end)
      BY <1>2, <3>3, <3>4, OverlaidHolds
    <3>6. top \in Nat /\ (failing = {} => top < Size(d))
      BY <1>3, <1>4, <1>5, <3>3
    <3> QED BY <3>1, <3>3, <3>5, <3>6, StoresOK
  <2> QED BY <2>4, <2>5
<1> QED BY <1>1, <1>6, LeftAlone

-----------------------------------------------------------------------------
(* The sizes bfromcstrrangealloc asks for.                                 *)

\* f[k] is the size asked for when k were refused.
Halves(f, minl, maxl, n) ==
  /\ f = [k \in 0 .. n |-> f[k]] /\ f[0] = maxl
  /\ \A k \in 1 .. n :
       f[k] = IF f[k - 1] < minl THEN f[k - 1] ELSE f[k - 1] \div 2 + minl \div 2

\* There is such a function.
LEMMA HalvesExist ==
  ASSUME NEW minl \in Nat, NEW maxl \in Nat, minl <= maxl, NEW n \in Nat
  PROVE  \E f : Halves(f, minl, maxl, n)
<1> DEFINE Bad == {k \in 0 .. n : ~ \E f : Halves(f, minl, maxl, k)}
<1>1. ASSUME Bad # {} PROVE FALSE
  <2>1. Bad \in SUBSET Nat
    OBVIOUS
  <2>2. PICK m \in Bad : \A k \in Bad : m <= k
    BY <1>1, <2>1, MinIsLeast
  <2>3. m \in 0 .. n /\ ~ \E f : Halves(f, minl, maxl, m)
    OBVIOUS
  <2>4. \A k \in 0 .. n : k < m => \E f : Halves(f, minl, maxl, k)
    BY <2>2
  <2> HIDE DEF Bad
  <2>5. CASE m = 0
    <3>1. Halves([k \in 0 .. 0 |-> maxl], minl, maxl, 0)
      BY DEF Halves
    <3> QED BY <2>3, <2>5, <3>1
  <2>6. CASE m > 0
    <3>1. m - 1 \in 0 .. n
      BY <2>3, <2>6
    <3>2. PICK f : Halves(f, minl, maxl, m - 1)
      BY <2>3, <2>4, <3>1
    <3> DEFINE x == IF f[m - 1] < minl THEN f[m - 1] ELSE f[m - 1] \div 2 + minl \div 2
    <3> HIDE DEF x
    <3> DEFINE g == [k \in 0 .. m |-> IF k = m THEN x ELSE f[k]]
    <3>3. g[m] = x /\ \A k \in 0 .. m - 1 : g[k] = f[k]
      BY <2>3
    <3>4. g = [k \in 0 .. m |-> g[k]]
      OBVIOUS
    <3> HIDE DEF g
    <3>5. f[0] = maxl /\ \A k \in 1 .. m - 1 :
            f[k] = IF f[k - 1] < minl THEN f[k - 1] ELSE f[k - 1] \div 2 + minl \div 2
      BY <3>2 DEF Halves
    <3>6. \A k \in 1 .. m :
            g[k] = IF g[k - 1] < minl THEN g[k - 1] ELSE g[k - 1] \div 2 + minl \div 2
      <4>1. TAKE k \in 1 .. m
      <4>2. g[k - 1] = f[k - 1]
        BY <2>3, <3>3
      <4>3. CASE k = m
        BY <3>3, <4>2, <4>3 DEF x
      <4>4. CASE k # m
        <5>1. k \in 1 .. m - 1 /\ k \in 0 .. m - 1
          BY <2>3, <4>4
        <5> QED BY <3>3, <3>5, <4>2, <5>1
      <4> QED BY <4>3, <4>4
    <3>7. g[0] = maxl
      BY <2>3, <2>6, <3>3, <3>5
    <3>8. Halves(g, minl, maxl, m)
      BY <3>4, <3>6, <3>7 DEF Halves
    <3> QED BY <2>3, <3>8
  <2> QED BY <2>3, <2>5, <2>6
<1>2. n \notin Bad
  BY <1>1
<1> QED BY <1>2

\* Its values are no less than one below the least size.
LEMMA HalvesBound ==
  ASSUME NEW minl \in Nat, NEW maxl \in Nat, minl <= maxl, NEW n \in Nat, NEW f,
         Halves(f, minl, maxl, n)
  PROVE  \A k \in 0 .. n : f[k] \in Nat /\ f[k] + 1 >= minl
<1> DEFINE Bad == {k \in 0 .. n : ~(f[k] \in Nat /\ f[k] + 1 >= minl)}
<1>1. ASSUME Bad # {} PROVE FALSE
  <2>1. Bad \in SUBSET Nat
    OBVIOUS
  <2>2. PICK m \in Bad : \A k \in Bad : m <= k
    BY <1>1, <2>1, MinIsLeast
  <2>3. m \in 0 .. n /\ ~(f[m] \in Nat /\ f[m] + 1 >= minl)
    OBVIOUS
  <2>4. \A k \in 0 .. n : k < m => f[k] \in Nat /\ f[k] + 1 >= minl
    BY <2>2
  <2> HIDE DEF Bad
  <2>5. m # 0
    BY <2>3 DEF Halves
  <2>6. m \in 1 .. n /\ m - 1 \in 0 .. n
    BY <2>3, <2>5
  <2>7. f[m] = IF f[m - 1] < minl THEN f[m - 1] ELSE f[m - 1] \div 2 + minl \div 2
    BY <2>6 DEF Halves
  <2>8. f[m - 1] \in Nat /\ f[m - 1] + 1 >= minl
    BY <2>4, <2>6
  <2> QED BY <2>3, <2>7, <2>8
<1> QED BY <1>1

\* What Tried is.
LEMMA TriedBound ==
  ASSUME NEW minl \in Nat, NEW maxl \in Nat, minl <= maxl, NEW n \in Tried(minl, maxl)
  PROVE  n \in Nat /\ n + 1 >= minl
<1> DEFINE F == CHOOSE f : f = [k \in 0 .. maxl |-> IF k = 0 THEN maxl
                                  ELSE IF f[k - 1] < minl THEN f[k - 1]
                                  ELSE f[k - 1] \div 2 + minl \div 2]
<1>1. Tried(minl, maxl) = {F[k] : k \in 0 .. maxl}
  BY DEF Tried
<1>2. PICK g : Halves(g, minl, maxl, maxl)
  BY HalvesExist
<1>3. g = [k \in 0 .. maxl |-> IF k = 0 THEN maxl
                               ELSE IF g[k - 1] < minl THEN g[k - 1]
                               ELSE g[k - 1] \div 2 + minl \div 2]
  <2> DEFINE e == [k \in 0 .. maxl |-> IF k = 0 THEN maxl
                               ELSE IF g[k - 1] < minl THEN g[k - 1]
                               ELSE g[k - 1] \div 2 + minl \div 2]
  <2>1. \A k \in 0 .. maxl : g[k] = e[k]
    <3>1. TAKE k \in 0 .. maxl
    <3>2. e[k] = IF k = 0 THEN maxl ELSE IF g[k - 1] < minl THEN g[k - 1]
                                         ELSE g[k - 1] \div 2 + minl \div 2
      OBVIOUS
    <3> HIDE DEF e
    <3>3. k # 0 => k \in 1 .. maxl
      OBVIOUS
    <3> QED BY <1>2, <3>2, <3>3 DEF Halves
  <2>2. g = [k \in 0 .. maxl |-> g[k]]
    BY <1>2 DEF Halves
  <2> QED BY <2>1, <2>2
<1>4. F = [k \in 0 .. maxl |-> IF k = 0 THEN maxl
                               ELSE IF F[k - 1] < minl THEN F[k - 1]
                               ELSE F[k - 1] \div 2 + minl \div 2]
  BY <1>3
<1> HIDE DEF F
<1>5. Halves(F, minl, maxl, maxl)
  <2>1. F = [k \in 0 .. maxl |-> F[k]] /\ F[0] = maxl
    BY <1>4
  <2>2. \A k \in 1 .. maxl :
          F[k] = IF F[k - 1] < minl THEN F[k - 1] ELSE F[k - 1] \div 2 + minl \div 2
    BY <1>4
  <2> QED BY <2>1, <2>2 DEF Halves
<1>6. PICK k \in 0 .. maxl : n = F[k]
  BY <1>1
<1> QED BY <1>5, <1>6, HalvesBound

\* bfromcstrrangealloc.
LEMMA RangeallocKeeps ==
  ASSUME Terminated, NEW t \in Texts, NEW minl \in Nat, NEW maxl \in Nat,
         bfromcstrrangealloc(minl, maxl, t)
  PROVE  Terminated'
<1> DEFINE least == Max({minl, Len(t) + 1})
           most  == Max({maxl, least})
           call  == <<"fromcstrrangealloc", t>>
<1>1. \/ Create(t, most, call)
      \/ failing # {} /\ \E n \in Tried(least, most) : Create(t, n, call)
      \/ Returns(call, "ERR")
  BY DEF bfromcstrrangealloc
<1>2. t \in Seq(Char) /\ Len(t) \in Nat
  BY TextIs
<1>3. least \in Nat /\ least >= Len(t) + 1
  BY <1>2, MaxOfTwo
<1> HIDE DEF least, call
<1>4. most \in Nat /\ most >= least
  BY <1>3, MaxOfTwo
<1> HIDE DEF most
<1>5. ASSUME Create(t, most, call) PROVE Terminated'
  <2>1. most > Len(t) /\ most >= Len(t)
    BY <1>2, <1>3, <1>4
  <2> QED BY <1>2, <1>4, <1>5, <2>1, CreateOK
<1>6. ASSUME failing # {}, NEW n \in Tried(least, most), Create(t, n, call)
      PROVE  Terminated'
  <2>1. n \in Nat /\ n + 1 >= least
    BY <1>3, <1>4, TriedBound
  <2>2. n >= Len(t)
    BY <1>2, <1>3, <2>1
  <2> QED BY <1>2, <1>6, <2>1, <2>2, CreateOK
<1> QED BY <1>1, <1>5, <1>6, LeftAlone

-----------------------------------------------------------------------------
(* The matches that are replaced.                                          *)

\* Where there are matches from p on.
FoundFrom(find, caseless, p) ==
  {i \in p .. slen : IF caseless THEN OccursCaseless(find, i) ELSE Occurs(find, i)}

\* f[p] are the matches that are found one after the other from p on, for every p from m.
Scans(f, find, caseless, m) ==
  /\ f = [p \in m .. slen |-> f[p]]
  /\ \A p \in m .. slen :
       f[p] = IF FoundFrom(find, caseless, p) = {} THEN <<>>
              ELSE <<Min(FoundFrom(find, caseless, p))>>
                     \o f[Min(FoundFrom(find, caseless, p)) + Len(find)]

\* Matches from p on: inside the string, none begins before the one before it ends, and
\* there is room for them all.
Spaced(s, p, len) ==
  /\ s \in Seq(Nat) /\ p + Len(s) * len <= slen
  /\ \A k \in 1 .. Len(s) : s[k] >= p /\ s[k] + len <= slen
  /\ \A k \in 1 .. Len(s) - 1 : s[k] + len <= s[k + 1]

\* A match lies inside the string.
LEMMA FoundInside ==
  ASSUME slen \in Nat, NEW find \in Seq(Char), find # <<>>, NEW caseless, NEW p \in 0 .. slen,
         FoundFrom(find, caseless, p) # {}
  PROVE  /\ Min(FoundFrom(find, caseless, p)) \in p .. slen
         /\ Min(FoundFrom(find, caseless, p)) + Len(find) \in p + 1 .. slen
<1> DEFINE T == FoundFrom(find, caseless, p)
<1>1. Len(find) \in Nat /\ Len(find) > 0
  OBVIOUS
<1>2. \A i \in T : i \in p .. slen /\ i + Len(find) <= slen
  BY DEF FoundFrom, Occurs, OccursCaseless
<1>3. T \in SUBSET Nat
  BY <1>2
<1> HIDE DEF T
<1>4. Min(T) \in T
  BY <1>3, MinIsLeast DEF T
<1>5. Min(T) \in p .. slen /\ Min(T) + Len(find) \in p + 1 .. slen
  BY <1>1, <1>2, <1>4
<1> QED BY <1>5 DEF T

\* There is such a function.
LEMMA ScansExist ==
  ASSUME slen \in Nat, NEW find \in Seq(Char), find # <<>>, NEW caseless
  PROVE  \E f : Scans(f, find, caseless, 0)
<1> DEFINE Bad == {k \in 0 .. slen : ~ \E f : Scans(f, find, caseless, slen - k)}
<1>1. ASSUME Bad # {} PROVE FALSE
  <2>1. Bad \in SUBSET Nat
    OBVIOUS
  <2>2. PICK m \in Bad : \A k \in Bad : m <= k
    BY <1>1, <2>1, MinIsLeast
  <2>3. m \in 0 .. slen /\ ~ \E f : Scans(f, find, caseless, slen - m)
    OBVIOUS
  <2>4. \A k \in 0 .. slen : k < m => \E f : Scans(f, find, caseless, slen - k)
    BY <2>2
  <2> HIDE DEF Bad
  <2> DEFINE q == slen - m
             T(p) == FoundFrom(find, caseless, p)
             Next1(p) == Min(T(p)) + Len(find)
  <2>5. \A p \in 0 .. slen : T(p) # {} => Next1(p) \in p + 1 .. slen
    BY FoundInside
  <2>6. q \in 0 .. slen
    BY <2>3
  <2>7. PICK f : q # slen => Scans(f, find, caseless, q + 1)
    <3>1. CASE q = slen
      BY <3>1
    <3>2. CASE q # slen
      <4>1. m - 1 \in 0 .. slen /\ m - 1 < m /\ slen - (m - 1) = q + 1
        BY <2>3, <3>2
      <4>2. PICK f : Scans(f, find, caseless, slen - (m - 1))
        BY <2>4, <4>1
      <4> QED BY <4>1, <4>2
    <3> QED BY <3>1, <3>2
  <2> HIDE DEF q
  <2> DEFINE x == IF T(q) = {} THEN <<>> ELSE <<Min(T(q))>> \o f[Next1(q)]
  <2> HIDE DEF x
  <2> DEFINE g == [p \in q .. slen |-> IF p = q THEN x ELSE f[p]]
  <2>8. g[q] = x /\ \A p \in q + 1 .. slen : g[p] = f[p]
    BY <2>6
  <2>9. g = [p \in q .. slen |-> g[p]]
    OBVIOUS
  <2> HIDE DEF g
  <2>10. \A p \in q + 1 .. slen :
           f[p] = IF T(p) = {} THEN <<>> ELSE <<Min(T(p))>> \o f[Next1(p)]
    <3>1. q # slen => \A p \in q + 1 .. slen :
           f[p] = IF T(p) = {} THEN <<>> ELSE <<Min(T(p))>> \o f[Next1(p)]
      BY <2>7 DEF Scans
    <3> QED BY <2>6, <3>1
  <2>11. \A p \in q .. slen : T(p) # {} => g[Next1(p)] = f[Next1(p)]
    <3>1. TAKE p \in q .. slen
    <3>2. p \in 0 .. slen
      BY <2>6
    <3>3. T(p) # {} => Next1(p) \in q + 1 .. slen
      BY <2>5, <2>6, <3>2
    <3> QED BY <2>8, <3>3
  <2>12. \A p \in q .. slen :
           g[p] = IF T(p) = {} THEN <<>> ELSE <<Min(T(p))>> \o g[Next1(p)]
    <3>1. TAKE p \in q .. slen
    <3>2. CASE p = q
      BY <2>6, <2>8, <2>11, <3>2 DEF x
    <3>3. CASE p # q
      <4>1. p \in q + 1 .. slen
        BY <2>6, <3>3
      <4> QED BY <2>8, <2>10, <2>11, <4>1
    <3> QED BY <3>2, <3>3
  <2>13. Scans(g, find, caseless, q)
    BY <2>9, <2>12 DEF Scans
  <2> QED BY <2>3, <2>13 DEF q
<1>2. slen \notin Bad
  BY <1>1
<1>3. slen - slen = 0 /\ slen \in 0 .. slen
  OBVIOUS
<1> QED BY <1>2, <1>3

\* A match more, in front of others.
LEMMA SpacedMore ==
  ASSUME slen \in Nat, NEW len \in Nat, NEW p \in Nat, NEW x \in Nat, x >= p, x + len <= slen,
         NEW s, Spaced(s, x + len, len)
  PROVE  Spaced(<<x>> \o s, p, len)
<1>1. s \in Seq(Nat) /\ Len(s) \in Nat /\ <<x>> \in Seq(Nat)
  BY DEF Spaced
<1> DEFINE u == <<x>> \o s
<1>2. /\ u \in Seq(Nat) /\ Len(u) = 1 + Len(s)
      /\ \A i \in 1 .. 1 + Len(s) : u[i] = IF i <= 1 THEN <<x>>[i] ELSE s[i - 1]
  BY <1>1, ConcatProperties
<1> HIDE DEF u
<1>3. u[1] = x /\ \A i \in 1 .. Len(s) : u[i + 1] = s[i]
  BY <1>1, <1>2
<1>4. /\ x + len + Len(s) * len <= slen
      /\ \A k \in 1 .. Len(s) : s[k] >= x + len /\ s[k] + len <= slen
      /\ \A k \in 1 .. Len(s) - 1 : s[k] + len <= s[k + 1]
  BY DEF Spaced
<1>5. p + Len(u) * len <= slen
  <2>1. Len(u) * len = len + Len(s) * len /\ Len(s) * len \in Nat
    BY <1>1, <1>2
  <2> QED BY <1>4, <2>1
<1>6. \A k \in 1 .. Len(u) : u[k] >= p /\ u[k] + len <= slen
  <2>1. TAKE k \in 1 .. Len(u)
  <2>2. CASE k = 1
    BY <1>3, <2>2
  <2>3. CASE k # 1
    <3>1. k - 1 \in 1 .. Len(s) /\ u[k] = s[k - 1]
      BY <1>1, <1>2, <1>3, <2>3
    <3>2. s[k - 1] \in Nat
      BY <1>1, <3>1
    <3> QED BY <1>4, <3>1, <3>2
  <2> QED BY <2>2, <2>3
<1>7. \A k \in 1 .. Len(u) - 1 : u[k] + len <= u[k + 1]
  <2>1. TAKE k \in 1 .. Len(u) - 1
  <2>2. k \in 1 .. Len(s) /\ u[k + 1] = s[k]
    BY <1>1, <1>2, <1>3
  <2>3. CASE k = 1
    BY <1>3, <1>4, <2>2, <2>3
  <2>4. CASE k # 1
    <3>1. k - 1 \in 1 .. Len(s) - 1 /\ k - 1 \in 1 .. Len(s) /\ k - 1 + 1 = k
      BY <1>1, <2>2, <2>4
    <3>2. u[k] = s[k - 1]
      BY <1>3, <3>1
    <3> QED BY <1>4, <2>2, <3>1, <3>2
  <2> QED BY <2>3, <2>4
<1> QED BY <1>2, <1>5, <1>6, <1>7 DEF Spaced, u

\* Matches is where such a function begins.
LEMMA MatchesAre ==
  ASSUME slen \in Nat, NEW find \in Seq(Char), find # <<>>, NEW caseless, NEW pos
  PROVE  \E f : Scans(f, find, caseless, 0) /\ Matches(find, pos, caseless) = f[pos]
<1> DEFINE T(p) == FoundFrom(find, caseless, p)
           F == CHOOSE f : f = [p \in 0 .. slen |->
                  IF T(p) = {} THEN <<>> ELSE <<Min(T(p))>> \o f[Min(T(p)) + Len(find)]]
<1>1. Matches(find, pos, caseless) = F[pos]
  BY DEF Matches, FoundFrom
<1>2. PICK g : Scans(g, find, caseless, 0)
  BY ScansExist
<1>3. g = [p \in 0 .. slen |->
             IF T(p) = {} THEN <<>> ELSE <<Min(T(p))>> \o g[Min(T(p)) + Len(find)]]
  BY <1>2 DEF Scans
<1>4. F = [p \in 0 .. slen |->
             IF T(p) = {} THEN <<>> ELSE <<Min(T(p))>> \o F[Min(T(p)) + Len(find)]]
  BY <1>3
<1> HIDE DEF F
<1>5. Scans(F, find, caseless, 0)
  BY <1>4 DEF Scans
<1> QED BY <1>1, <1>5

\* What Matches gives.
LEMMA MatchesSpaced ==
  ASSUME slen \in Nat, NEW find \in Seq(Char), find # <<>>, NEW caseless, NEW pos \in 0 .. slen
  PROVE  Spaced(Matches(find, pos, caseless), pos, Len(find))
<1> DEFINE T(p) == FoundFrom(find, caseless, p)
<1>1. PICK F : Scans(F, find, caseless, 0) /\ Matches(find, pos, caseless) = F[pos]
  BY MatchesAre
<1>2. \A p \in 0 .. slen :
        F[p] = IF T(p) = {} THEN <<>> ELSE <<Min(T(p))>> \o F[Min(T(p)) + Len(find)]
  BY <1>1 DEF Scans
<1> DEFINE Bad == {k \in 0 .. slen : ~Spaced(F[slen - k], slen - k, Len(find))}
<1>3. ASSUME Bad # {} PROVE FALSE
  <2>1. Bad \in SUBSET Nat
    OBVIOUS
  <2>2. PICK m \in Bad : \A k \in Bad : m <= k
    BY <1>3, <2>1, MinIsLeast
  <2>3. m \in 0 .. slen /\ ~Spaced(F[slen - m], slen - m, Len(find))
    OBVIOUS
  <2>4. \A k \in 0 .. slen : k < m => Spaced(F[slen - k], slen - k, Len(find))
    BY <2>2
  <2> HIDE DEF Bad
  <2> DEFINE q == slen - m
             len == Len(find)
             x == Min(T(q))
  <2>5. q \in 0 .. slen /\ len \in Nat
    BY <2>3
  <2>6. CASE T(q) = {}
    <3>1. F[q] = <<>>
      BY <1>2, <2>5, <2>6
    <3>2. Spaced(<<>>, q, len)
      <4>1. <<>> \in Seq(Nat) /\ Len(<<>>) = 0 /\ 0 * len = 0
        BY <2>5
      <4> QED BY <2>5, <4>1 DEF Spaced
    <3> QED BY <2>3, <3>1, <3>2
  <2>7. CASE T(q) # {}
    <3>1. x \in q .. slen /\ x + len \in q + 1 .. slen
      BY <2>5, <2>7, FoundInside
    <3>2. F[q] = <<x>> \o F[x + len]
      BY <1>2, <2>5, <2>7
    <3> HIDE DEF x, len
    <3>3. slen - (x + len) \in 0 .. slen /\ slen - (x + len) < m
          /\ slen - (slen - (x + len)) = x + len
      BY <2>3, <2>5, <3>1
    <3>4. Spaced(F[x + len], x + len, len)
      BY <2>4, <3>3 DEF len
    <3>5. Spaced(<<x>> \o F[x + len], q, len)
      <4>1. x \in Nat /\ x >= q /\ x + len <= slen /\ q \in Nat
        BY <2>5, <3>1
      <4> HIDE DEF q
      <4> QED BY <2>5, <3>4, <4>1, SpacedMore
    <3> QED BY <2>3, <3>2, <3>5 DEF len
  <2> QED BY <2>6, <2>7
<1> DEFINE k == slen - pos
<1>4. k \in 0 .. slen /\ slen - k = pos
  OBVIOUS
<1>5. k \notin Bad
  BY <1>3
<1> HIDE DEF k
<1>6. Spaced(F[slen - k], slen - k, Len(find))
  BY <1>4, <1>5
<1> QED BY <1>1, <1>4, <1>6

\* The block c is d with the characters s in the bytes from at on.
Written(c, d, m, at, s) ==
  /\ IsBlock(c, m)
  /\ \A i \in 0 .. m - 1 : at <= i /\ i < at + Len(s) => c[i] \in Char
  /\ \A i \in 0 .. m - 1 : ~(at <= i /\ i < at + Len(s)) => c[i] = d[i]

\* That is what writing them makes of it.
LEMMA LayWrites ==
  ASSUME NEW d, NEW m, IsBlock(d, m), NEW s \in Seq(Char), NEW at \in Int
  PROVE  Written(Lay(d, at, s), d, m, at, s)
<1>1. m \in Nat /\ Len(s) \in Nat /\ \A i \in 1 .. Len(s) : s[i] \in Char
  BY ElementOfSeq DEF IsBlock
<1>2. /\ IsBlock(Lay(d, at, s), m)
      /\ \A i \in 0 .. m - 1 :
           Lay(d, at, s)[i] = IF at <= i /\ i < at + Len(s) THEN s[i - at + 1] ELSE d[i]
  BY StuffIs, LayIs
<1>3. \A i \in 0 .. m - 1 : at <= i /\ i < at + Len(s) => i - at + 1 \in 1 .. Len(s)
  BY <1>1
<1> QED BY <1>1, <1>2, <1>3 DEF Written

\* The text t is to be put for match k, in a block that holds the string; end is where
\* what follows the match ends, and g what the string grows by.
Exchange(b, m, at, p, k, end, g, find, t) ==
  /\ Holds(b, m, slen) /\ find \in Seq(Char) /\ t \in Seq(Char)
  /\ p \in Nat /\ Spaced(at, p, Len(find)) /\ k \in 1 .. Len(at)
  /\ end = IF k = Len(at) THEN slen ELSE at[k + 1]
  /\ g = Len(t) - Len(find)

\* The block c is b with characters in the bytes from low to high.
Filled(c, b, m, low, high) ==
  /\ IsBlock(c, m)
  /\ \A i \in 0 .. m - 1 : b[i] \in Char \/ (low <= i /\ i < high) => c[i] \in Char

\* Where there were characters there are some still, and there are from the text on to
\* the end of what was moved.
LEMMA ExchangedOneIs ==
  ASSUME slen \in Nat, NEW b, NEW m, NEW at, NEW p, NEW k, NEW end, NEW g, NEW find, NEW t,
         Exchange(b, m, at, p, k, end, g, find, t)
  PROVE  Filled(ExchangedOne(b, k, at, find, t), b, m, at[k] + (k - 1) * g, end + k * g)
<1> DEFINE len   == Len(find)
           start == at[k] + len
           shift == k * g
           to    == start + shift
           moved == [j \in 1 .. end - start |-> b[start + j - 1]]
           c     == Lay(b, to, moved)
           E     == ExchangedOne(b, k, at, find, t)
<1>1. E = Lay(c, to - Len(t), t)
  BY DEF Exchange, ExchangedOne
<1> HIDE DEF E
<1>2. /\ at \in Seq(Nat) /\ Len(at) \in Nat /\ len \in Nat /\ Len(t) \in Nat /\ m \in Nat
      /\ slen <= m /\ k \in 1 .. Len(at) /\ \A i \in 0 .. slen - 1 : b[i] \in Char
  BY DEF Exchange, Spaced, Holds, IsBlock
<1>3. IsBlock(b, m) /\ t \in Seq(Char) /\ g \in Int /\ g = Len(t) - len
  BY <1>2 DEF Exchange, Holds
<1> HIDE DEF len
<1>4. start \in Nat /\ end \in Nat /\ start <= end /\ end <= slen /\ at[k] \in Nat
  <2>1. at[k] \in Nat /\ at[k] + len <= slen
    BY <1>2 DEF Exchange, Spaced, len
  <2>2. CASE k = Len(at)
    BY <1>2, <2>1, <2>2 DEF Exchange
  <2>3. CASE k # Len(at)
    <3>1. k \in 1 .. Len(at) - 1 /\ k + 1 \in 1 .. Len(at)
      BY <1>2, <2>3
    <3>2. at[k] + len <= at[k + 1] /\ at[k + 1] + len <= slen
      BY <3>1 DEF Exchange, Spaced, len
    <3>3. at[k + 1] \in Nat
      BY <1>2, <3>1
    <3>4. end = at[k + 1]
      BY <2>3 DEF Exchange
    <3> HIDE DEF start
    <3>5. start = at[k] + len
      BY DEF start
    <3> QED BY <1>2, <2>1, <3>2, <3>3, <3>4, <3>5, SMTT(60)
  <2> QED BY <2>2, <2>3
<1>5. shift \in Int /\ (k - 1) * g = shift - g
  <2>1. k \in Int /\ g \in Int
    BY <1>2, <1>3
  <2> QED BY <2>1
<1>6. start = at[k] + len
  OBVIOUS
<1> HIDE DEF start, shift
<1>7. moved \in Seq(Char) /\ Len(moved) = end - start
  <2>1. \A j \in 1 .. end - start : start + j - 1 \in 0 .. slen - 1
    BY <1>2, <1>4
  <2>2. \A j \in 1 .. end - start : b[start + j - 1] \in Char
    BY <1>2, <2>1
  <2>3. end - start \in Nat
    BY <1>4
  <2> QED BY <2>2, <2>3
<1>8. to \in Int /\ to = start + shift
  BY <1>4, <1>5
<1> HIDE DEF moved, to
<1>9. Written(c, b, m, to, moved)
  <2>1. IsBlock(b, m) /\ to \in Int /\ moved \in Seq(Char) /\ c = Lay(b, to, moved)
    BY <1>3, <1>7, <1>8
  <2> HIDE DEF c
  <2> QED BY <2>1, LayWrites
<1> HIDE DEF c
<1>10. to - Len(t) \in Int /\ to - Len(t) = at[k] + (k - 1) * g /\ to + Len(moved) = end + shift
  <2> DEFINE less == (k - 1) * g
             x    == at[k]
             size == Len(t)
             far  == Len(moved)
  <2>1. /\ less = shift - g /\ g = size - len /\ len \in Nat /\ size \in Nat /\ x \in Nat
        /\ far = end - start /\ to = start + shift /\ start = x + len
        /\ end \in Nat /\ shift \in Int /\ start \in Nat /\ to \in Int
    BY <1>2, <1>3, <1>4, <1>5, <1>6, <1>7, <1>8
  <2> HIDE DEF less, x, size, far
  <2>2. less \in Int /\ far \in Int
    BY <2>1
  <2>3. to - size \in Int /\ to + far = end + shift
    BY <2>1, <2>2
  <2>4. to - size = x + less
    <3>1. to = x + len + shift
      BY <2>1
    <3> QED BY <2>1, <2>2, <3>1
  <2> QED BY <2>3, <2>4 DEF less, x, size, far
<1> DEFINE low == to - Len(t)
<1>11. low \in Int /\ low + Len(t) = to
  BY <1>2, <1>8
<1>12. E = Lay(c, low, t)
  BY <1>1 DEF c
<1> HIDE DEF low
<1>13. Written(E, c, m, low, t)
  <2>1. IsBlock(c, m) /\ low \in Int /\ t \in Seq(Char) /\ E = Lay(c, low, t)
    BY <1>3, <1>9, <1>11, <1>12 DEF Written
  <2> QED BY <2>1, LayWrites
<1>14. ASSUME NEW i \in 0 .. m - 1, b[i] \in Char PROVE E[i] \in Char
  BY <1>9, <1>13, <1>14 DEF Written
<1>15. ASSUME NEW i \in 0 .. m - 1, at[k] + (k - 1) * g <= i, i < end + k * g PROVE E[i] \in Char
  <2>1. low <= i /\ i < to + Len(moved)
    BY <1>10, <1>15 DEF low, shift
  <2>2. i < low + Len(t) \/ to <= i
    BY <1>8, <1>11
  <2> QED BY <1>9, <1>13, <2>1, <2>2 DEF Written
<1> QED BY <1>13, <1>14, <1>15 DEF Filled, Written, E

\* The match that is exchanged in step j.
Turn(j, at, find, t) == IF Len(t) > Len(find) THEN Len(at) + 1 - j ELSE j

\* f[j] is the block after j matches were exchanged.
Layers(f, d, at, find, t, n) ==
  /\ f = [j \in 0 .. n |-> f[j]] /\ f[0] = d
  /\ \A j \in 1 .. n : f[j] = ExchangedOne(f[j - 1], Turn(j, at, find, t), at, find, t)

\* There is such a function.
LEMMA LayersExist ==
  ASSUME NEW d, NEW at, NEW find, NEW t, NEW n \in Nat
  PROVE  \E f : Layers(f, d, at, find, t, n)
<1> DEFINE Bad == {k \in 0 .. n : ~ \E f : Layers(f, d, at, find, t, k)}
<1>1. ASSUME Bad # {} PROVE FALSE
  <2>1. Bad \in SUBSET Nat
    OBVIOUS
  <2>2. PICK m \in Bad : \A k \in Bad : m <= k
    BY <1>1, <2>1, MinIsLeast
  <2>3. m \in 0 .. n /\ ~ \E f : Layers(f, d, at, find, t, m)
    OBVIOUS
  <2>4. \A k \in 0 .. n : k < m => \E f : Layers(f, d, at, find, t, k)
    BY <2>2
  <2> HIDE DEF Bad
  <2>5. CASE m = 0
    <3>1. Layers([k \in 0 .. 0 |-> d], d, at, find, t, 0)
      BY DEF Layers
    <3> QED BY <2>3, <2>5, <3>1
  <2>6. CASE m > 0
    <3>1. m - 1 \in 0 .. n
      BY <2>3, <2>6
    <3>2. PICK f : Layers(f, d, at, find, t, m - 1)
      BY <2>3, <2>4, <3>1
    <3> DEFINE x == ExchangedOne(f[m - 1], Turn(m, at, find, t), at, find, t)
    <3> HIDE DEF x
    <3> DEFINE h == [k \in 0 .. m |-> IF k = m THEN x ELSE f[k]]
    <3>3. h[m] = x /\ \A k \in 0 .. m - 1 : h[k] = f[k]
      BY <2>3
    <3>4. h = [k \in 0 .. m |-> h[k]]
      OBVIOUS
    <3> HIDE DEF h
    <3>5. f[0] = d /\ \A k \in 1 .. m - 1 :
            f[k] = ExchangedOne(f[k - 1], Turn(k, at, find, t), at, find, t)
      BY <3>2 DEF Layers
    <3>6. \A k \in 1 .. m : h[k] = ExchangedOne(h[k - 1], Turn(k, at, find, t), at, find, t)
      <4>1. TAKE k \in 1 .. m
      <4>2. h[k - 1] = f[k - 1]
        BY <2>3, <3>3
      <4>3. CASE k = m
        BY <3>3, <4>2, <4>3 DEF x
      <4>4. CASE k # m
        <5>1. k \in 1 .. m - 1 /\ k \in 0 .. m - 1
          BY <2>3, <4>4
        <5> QED BY <3>3, <3>5, <4>2, <5>1
      <4> QED BY <4>3, <4>4
    <3>7. h[0] = d
      BY <2>3, <2>6, <3>3, <3>5
    <3>8. Layers(h, d, at, find, t, m)
      BY <3>4, <3>6, <3>7 DEF Layers
    <3> QED BY <2>3, <3>8
  <2> QED BY <2>3, <2>5, <2>6
<1>2. n \notin Bad
  BY <1>1
<1> QED BY <1>2

\* Exchanged is the last of the blocks.
LEMMA ExchangedIs ==
  ASSUME NEW d, NEW at, Len(at) \in Nat, NEW find, NEW t
  PROVE  \E f : Layers(f, d, at, find, t, Len(at)) /\ Exchanged(d, at, find, t) = f[Len(at)]
<1> DEFINE N == Len(at)
           F == CHOOSE f : f = [n \in 0 .. N |->
                  IF n = 0 THEN d
                  ELSE ExchangedOne(f[n - 1], IF Len(t) > Len(find) THEN Len(at) + 1 - n ELSE n,
                                    at, find, t)]
<1>1. Exchanged(d, at, find, t) = F[N]
  BY DEF Exchanged
<1>2. PICK g : Layers(g, d, at, find, t, N)
  BY LayersExist
<1>3. g = [n \in 0 .. N |->
             IF n = 0 THEN d
             ELSE ExchangedOne(g[n - 1], IF Len(t) > Len(find) THEN Len(at) + 1 - n ELSE n,
                               at, find, t)]
  <2> DEFINE e == [n \in 0 .. N |->
             IF n = 0 THEN d
             ELSE ExchangedOne(g[n - 1], IF Len(t) > Len(find) THEN Len(at) + 1 - n ELSE n,
                               at, find, t)]
  <2>1. \A k \in 0 .. N : g[k] = e[k]
    <3>1. TAKE k \in 0 .. N
    <3>2. e[k] = IF k = 0 THEN d
                 ELSE ExchangedOne(g[k - 1], Turn(k, at, find, t), at, find, t)
      BY DEF Turn
    <3> HIDE DEF e
    <3>3. k # 0 => k \in 1 .. N
      OBVIOUS
    <3> QED BY <1>2, <3>2, <3>3 DEF Layers
  <2>2. g = [k \in 0 .. N |-> g[k]]
    BY <1>2 DEF Layers
  <2> QED BY <2>1, <2>2
<1>4. F = [n \in 0 .. N |->
             IF n = 0 THEN d
             ELSE ExchangedOne(F[n - 1], IF Len(t) > Len(find) THEN Len(at) + 1 - n ELSE n,
                               at, find, t)]
  BY <1>3
<1> HIDE DEF F
<1>5. Layers(F, d, at, find, t, N)
  <2>1. F = [n \in 0 .. N |-> F[n]] /\ F[0] = d
    BY <1>4
  <2>2. \A j \in 1 .. N : F[j] = ExchangedOne(F[j - 1], Turn(j, at, find, t), at, find, t)
    <3>1. TAKE j \in 1 .. N
    <3>2. j \in 0 .. N /\ j # 0
      OBVIOUS
    <3> HIDE DEF N
    <3> QED BY <1>4, <3>2 DEF Turn
  <2> QED BY <2>1, <2>2 DEF Layers
<1> QED BY <1>1, <1>5

\* How long the string is in the end.
LEMMA ExchangedLength ==
  ASSUME slen \in Nat, NEW p \in Nat, NEW len \in Nat, NEW at, Spaced(at, p, len),
         NEW size \in Nat, NEW n, n = slen + Len(at) * (size - len)
  PROVE  n \in Nat /\ (size <= len => n <= slen)
<1> DEFINE N == Len(at)
<1>1. N \in Nat /\ p + N * len <= slen
  BY DEF Spaced
<1> HIDE DEF N
<1>2. N * (size - len) = N * size - N * len /\ N * size \in Nat /\ N * len \in Nat
  BY <1>1
<1>3. size <= len => N * size <= N * len
  <2>1. SUFFICES ASSUME size <= len PROVE N * size <= N * len
    OBVIOUS
  <2>2. N * len = N * size + N * (len - size) /\ N * (len - size) \in Nat
    BY <1>1, <2>1
  <2> QED BY <1>2, <2>2
<1>4. n = slen + (N * size - N * len)
  BY <1>2 DEF N
<1> QED BY <1>1, <1>2, <1>3, <1>4

\* The matches are exchanged one after the other, and no character gets lost.
LEMMA LayersHold ==
  ASSUME slen \in Nat, NEW d, NEW m, Holds(d, m, slen), NEW find \in Seq(Char),
         NEW t \in Seq(Char), NEW p \in Nat, NEW at, Spaced(at, p, Len(find)),
         NEW f, Layers(f, d, at, find, t, Len(at))
  PROVE  \A j \in 0 .. Len(at) : Holds(f[j], m, slen)
<1> DEFINE N == Len(at)
           Bad == {k \in 0 .. N : ~Holds(f[k], m, slen)}
<1>1. N \in Nat
  BY DEF Spaced
<1>2. ASSUME Bad # {} PROVE FALSE
  <2>1. Bad \in SUBSET Nat
    OBVIOUS
  <2>2. PICK j \in Bad : \A k \in Bad : j <= k
    BY <1>2, <2>1, MinIsLeast
  <2>3. j \in 0 .. N /\ ~Holds(f[j], m, slen)
    OBVIOUS
  <2>4. \A k \in 0 .. N : k < j => Holds(f[k], m, slen)
    BY <2>2
  <2> HIDE DEF Bad
  <2>5. j # 0
    BY <2>3 DEF Layers
  <2>6. j \in 1 .. N /\ j - 1 \in 0 .. N /\ j - 1 < j
    BY <1>1, <2>3, <2>5
  <2> DEFINE b == f[j - 1]
             k == Turn(j, at, find, t)
             end == IF k = Len(at) THEN slen ELSE at[k + 1]
             g == Len(t) - Len(find)
             E == f[j]
  <2>7. Holds(b, m, slen)
    BY <2>4, <2>6
  <2>8. k \in 1 .. Len(at)
    BY <1>1, <2>6 DEF Turn
  <2>9. E = ExchangedOne(b, k, at, find, t)
    BY <2>6 DEF Layers
  <2> HIDE DEF b, k, E, N
  <2>10. Exchange(b, m, at, p, k, end, g, find, t)
    BY <2>7, <2>8 DEF Exchange
  <2> HIDE DEF end, g
  <2>11. Filled(E, b, m, at[k] + (k - 1) * g, end + k * g)
    BY <2>9, <2>10, ExchangedOneIs
  <2>12. IsBlock(E, m) /\ \A i \in 0 .. m - 1 : b[i] \in Char => E[i] \in Char
    BY <2>11 DEF Filled
  <2>13. Holds(E, m, slen)
    BY <2>7, <2>12 DEF Holds, IsBlock
  <2> QED BY <2>3, <2>13 DEF E
<1> QED BY <1>2

\* Where in the block the rest of a growing string begins that is in its place after j steps.
Placed(j, at, g, n) == IF j = 0 THEN n ELSE at[Len(at) + 1 - j] + (Len(at) - j) * g

\* A string that grows is put together from its end, without a gap.
LEMMA LayersPlace ==
  ASSUME slen \in Nat, NEW d, NEW m, Holds(d, m, slen), NEW find \in Seq(Char),
         NEW t \in Seq(Char), NEW p \in Nat, NEW at, Spaced(at, p, Len(find)),
         NEW f, Layers(f, d, at, find, t, Len(at)),
         NEW g \in Nat, g = Len(t) - Len(find), g > 0, NEW n \in 0 .. m, n = slen + Len(at) * g
  PROVE  \A j \in 0 .. Len(at) :
           \A i \in 0 .. m - 1 : Placed(j, at, g, n) <= i /\ i < n => f[j][i] \in Char
<1> DEFINE N == Len(at)
           Good(j) == \A i \in 0 .. m - 1 : Placed(j, at, g, n) <= i /\ i < n => f[j][i] \in Char
           Bad == {k \in 0 .. N : ~Good(k)}
<1>1. N \in Nat /\ at \in Seq(Nat)
  BY DEF Spaced
<1>2. ASSUME Bad # {} PROVE FALSE
  <2>1. Bad \in SUBSET Nat
    OBVIOUS
  <2>2. PICK j \in Bad : \A k \in Bad : j <= k
    BY <1>2, <2>1, MinIsLeast
  <2>3. j \in 0 .. N /\ ~Good(j)
    OBVIOUS
  <2>4. \A k \in 0 .. N : k < j => Good(k)
    BY <2>2
  <2> HIDE DEF Bad
  <2>5. CASE j = 0
    <3>1. Good(j)
      <4>1. Placed(j, at, g, n) = n
        BY <2>5 DEF Placed
      <4> QED BY <4>1
    <3> QED BY <2>3, <3>1
  <2>6. CASE j # 0
    <3>1. j \in 1 .. N /\ j - 1 \in 0 .. N /\ j - 1 < j
      BY <1>1, <2>3, <2>6
    <3> DEFINE b == f[j - 1]
               k == N + 1 - j
               end == IF k = Len(at) THEN slen ELSE at[k + 1]
               E == f[j]
               low == Placed(j, at, g, n)
               high == Placed(j - 1, at, g, n)
    <3>2. Good(j - 1)
      BY <2>4, <3>1
    <3>3. k \in 1 .. N /\ Turn(j, at, find, t) = k
      BY <1>1, <3>1 DEF Turn
    <3>4. E = ExchangedOne(b, k, at, find, t)
      BY <3>1, <3>3 DEF Layers
    <3>5. Holds(b, m, slen)
      BY <3>1, LayersHold
    <3>6. low = at[k] + (k - 1) * g /\ low \in Nat
      <4>1. k - 1 = N - j /\ k - 1 \in Nat
        BY <1>1, <3>1
      <4>2. low = at[k] + (N - j) * g
        BY <2>6 DEF Placed
      <4>3. at[k] \in Nat /\ (k - 1) * g \in Nat
        BY <1>1, <3>3, <4>1, SMTT(60)
      <4> QED BY <4>1, <4>2, <4>3, SMTT(60)
    <3>7. high = end + k * g
      <4>1. CASE j = 1
        <5>1. k = N /\ high = n
          BY <1>1, <4>1 DEF Placed
        <5> QED BY <5>1
      <4>2. CASE j # 1
        <5>1. k # N /\ N + 1 - (j - 1) = k + 1 /\ N - (j - 1) = k /\ j - 1 # 0
          BY <1>1, <3>1, <4>2
        <5>2. high = at[N + 1 - (j - 1)] + (N - (j - 1)) * g
          BY <5>1 DEF Placed
        <5>3. end = at[k + 1]
          BY <5>1
        <5> QED BY <5>1, <5>2, <5>3
      <4> QED BY <4>1, <4>2
    <3>8. high \in Int
      <4>1. end \in Nat
        <5>1. k # N => k + 1 \in 1 .. N
          BY <1>1, <3>3
        <5>2. k # N => at[k + 1] \in Nat
          BY <1>1, <5>1
        <5> QED BY <5>2
      <4>2. k * g \in Int
        BY <3>3
      <4> QED BY <3>7, <4>1, <4>2
    <3> HIDE DEF b, k, E, end
    <3>9. Exchange(b, m, at, p, k, end, g, find, t)
      BY <3>3, <3>5 DEF Exchange, end
    <3>10. Filled(E, b, m, at[k] + (k - 1) * g, end + k * g)
      BY <3>4, <3>9, ExchangedOneIs
    <3> HIDE DEF low, high
    <3>11. \A i \in 0 .. m - 1 : b[i] \in Char \/ (low <= i /\ i < high) => E[i] \in Char
      BY <3>6, <3>7, <3>10 DEF Filled
    <3>12. \A i \in 0 .. m - 1 : high <= i /\ i < n => b[i] \in Char
      BY <3>2 DEF high, b
    <3>13. \A i \in 0 .. m - 1 : low <= i /\ i < n => E[i] \in Char
      BY <3>6, <3>8, <3>11, <3>12
    <3> QED BY <2>3, <3>13 DEF low, E
  <2> QED BY <2>5, <2>6
<1> QED BY <1>2

\* The string with its matches exchanged is made of characters.
LEMMA ExchangedHolds ==
  ASSUME slen \in Nat, NEW d, NEW m, Holds(d, m, slen), NEW find \in Seq(Char),
         NEW t \in Seq(Char), NEW p \in Nat, NEW at, Spaced(at, p, Len(find)),
         NEW n \in 0 .. m, n = slen + Len(at) * (Len(t) - Len(find))
  PROVE  Holds(Exchanged(d, at, find, t), m, n)
<1> DEFINE N == Len(at)
           g == Len(t) - Len(find)
           E == Exchanged(d, at, find, t)
<1>1. N \in Nat /\ at \in Seq(Nat) /\ m \in Nat /\ Len(t) \in Nat /\ Len(find) \in Nat
  BY DEF Spaced, Holds, IsBlock
<1>2. PICK f : Layers(f, d, at, find, t, N) /\ E = f[N]
  BY <1>1, ExchangedIs
<1>3. Holds(f[N], m, slen)
  <2>1. N \in 0 .. Len(at)
    BY <1>1
  <2> QED BY <1>2, <2>1, LayersHold
<1>4. CASE Len(t) <= Len(find)
  <2>1. n <= slen
    BY <1>1, <1>4, ExchangedLength
  <2>2. E = f[N]
    BY <1>2
  <2> HIDE DEF E, N
  <2>3. Holds(E, m, n)
    BY <1>3, <2>1, <2>2 DEF Holds, IsBlock
  <2> QED BY <2>3 DEF E
<1>5. CASE Len(t) > Len(find)
  <2>1. g \in Nat /\ g > 0
    BY <1>1, <1>5
  <2>2. n = slen + N * g
    OBVIOUS
  <2>3. \A i \in 0 .. m - 1 : Placed(N, at, g, n) <= i /\ i < n => f[N][i] \in Char
    <3>1. N \in 0 .. Len(at)
      BY <1>1
    <3>2. g = Len(t) - Len(find)
      OBVIOUS
    <3> HIDE DEF g
    <3> QED BY <1>2, <2>1, <2>2, <3>1, <3>2, LayersPlace
  <2> HIDE DEF E, g
  <2>4. Placed(N, at, g, n) <= slen /\ Placed(N, at, g, n) \in Nat
    <3>1. CASE N = 0
      <4>1. N * g = 0
        BY <2>1, <3>1
      <4> QED BY <2>2, <3>1, <4>1 DEF Placed
    <3>2. CASE N # 0
      <4>1. 1 \in 1 .. N
        BY <1>1, <3>2
      <4>2. at[1] \in Nat /\ at[1] + Len(find) <= slen
        BY <1>1, <4>1 DEF Spaced
      <4>3. N + 1 - N = 1 /\ N - N = 0 /\ 0 * g = 0
        BY <1>1, <2>1
      <4>4. Placed(N, at, g, n) = at[1] + 0
        BY <3>2, <4>3 DEF Placed
      <4> QED BY <1>1, <4>2, <4>4
    <3> QED BY <3>1, <3>2
  <2>5. \A i \in 0 .. slen - 1 : E[i] \in Char
    BY <1>2, <1>3 DEF Holds
  <2>6. \A i \in 0 .. n - 1 : E[i] \in Char
    <3>1. TAKE i \in 0 .. n - 1
    <3>2. i \in 0 .. m - 1 /\ i < n /\ i \in Nat
      BY <1>1
    <3>3. i \in 0 .. slen - 1 \/ Placed(N, at, g, n) <= i
      BY <2>4, <3>2
    <3> QED BY <1>2, <2>3, <2>5, <3>2, <3>3
  <2>7. E = f[N]
    BY <1>2
  <2> HIDE DEF N
  <2>8. Holds(E, m, n)
    BY <1>3, <2>6, <2>7 DEF Holds
  <2> QED BY <2>8 DEF E
<1> QED BY <1>1, <1>4, <1>5

\* findreplaceengine, unless it is told to replace by what it overwrites.
LEMMA FindreplaceKeeps ==
  ASSUME Terminated, NoneBefore, NEW find \in Texts, NEW a \in Args, NEW pos \in Nat,
         NEW before \in Before, NEW caseless, findreplaceengine(find, a, pos, before, caseless)
  PROVE  Terminated'
<1> DEFINE at     == Matches(find, pos, caseless)
           growth == Len(a.text) - Len(find)
           n      == slen + Len(at) * growth
           call   == <<IF caseless THEN "findreplacecaseless" ELSE "findreplace",
                       pos, find, a.text>>
           room   == IF growth > 0 THEN Blocks(n + 1) ELSE {data}
<1>1. /\ str
      /\ \/ Returns(call, "ERR")
         \/ Returns(call, "OK")
         \/ /\ find # <<>> /\ pos <= slen - Len(find)
            /\ \E d \in room : Becomes(Exchanged(d, at, find, Through(a, d, ~before)), n, call)
  BY DEF findreplaceengine
<1>2. ~before
  BY ConstantsAssumption DEF NoneBefore
<1>3. find \in Seq(Char) /\ a.text \in Seq(Char) /\ Len(find) \in Nat /\ Len(a.text) \in Nat
  BY TextIs, ArgIs DEF IsArg
<1>4. /\ slen \in Nat /\ mlen \in Nat /\ slen <= mlen /\ Holds(data, mlen, slen)
      /\ Size(data) = mlen /\ (failing = {} => slen < mlen)
  BY <1>1, StringIs, StringInside
<1>5. growth = Len(a.text) - Len(find) /\ n = slen + Len(at) * growth
  OBVIOUS
<1> HIDE DEF call
<1>6. ASSUME find # <<>>, pos <= slen - Len(find), NEW d \in room,
             Becomes(Exchanged(d, at, find, Through(a, d, ~before)), n, call)
      PROVE  Terminated'
  <2>1. Through(a, d, ~before) = a.text
    BY <1>2, ThroughIs
  <2>2. pos \in 0 .. slen
    BY <1>3, <1>4, <1>6
  <2>3. Spaced(at, pos, Len(find))
    BY <1>3, <1>4, <1>6, <2>2, MatchesSpaced
  <2> HIDE DEF at
  <2>4. n \in Nat /\ (Len(a.text) <= Len(find) => n <= slen)
    <3> DEFINE len  == Len(find)
               size == Len(a.text)
    <3>1. /\ n = slen + Len(at) * (size - len)
          /\ len \in Nat /\ size \in Nat /\ Spaced(at, pos, len)
      BY <1>3, <2>3
    <3> HIDE DEF n, len, size
    <3>2. n \in Nat /\ (size <= len => n <= slen)
      BY <1>4, <3>1, ExchangedLength, ZenonT(60)
    <3> QED BY <3>2 DEF len, size
  <2>5. Holds(d, Size(d), slen) /\ n \in 0 .. Size(d) /\ (failing = {} => n < Size(d))
    <3>1. CASE growth > 0
      <4>1. d \in Blocks(n + 1)
        BY <3>1
      <4> HIDE DEF n
      <4>2. Granted(d, Size(d), n + 1)
        BY <2>4, <4>1, BlocksGranted
      <4> QED BY <2>4, <4>2 DEF Granted, Holds, IsBlock
    <3>2. CASE ~(growth > 0)
      <4>1. d = data /\ Len(a.text) <= Len(find)
        BY <1>3, <3>2
      <4> HIDE DEF n, growth
      <4> QED BY <1>4, <2>4, <4>1
    <3> QED BY <3>1, <3>2
  <2>6. Holds(Exchanged(d, at, find, a.text), Size(d), n)
    <3>1. n = slen + Len(at) * (Len(a.text) - Len(find))
      OBVIOUS
    <3> HIDE DEF n
    <3> QED BY <1>3, <1>4, <2>3, <2>5, <3>1, ExchangedHolds
  <2> HIDE DEF n
  <2>7. Becomes(Exchanged(d, at, find, a.text), n, call)
    BY <1>6, <2>1
  <2> QED BY <2>5, <2>6, <2>7, BecomesOK
<1> QED BY <1>1, <1>6, LeftAlone

-----------------------------------------------------------------------------
(* Reading the string.                                                     *)

\* The calls that only read the string, and those that copy it.
Reading ==
  \/ bstrcpy \/ bstr2cstr
  \/ \E left, len \in Int : bmidstr(left, len)
  \/ \E a : \/ bstricmp(a) \/ biseq(a) \/ biseqcaseless(a) \/ bisstemeq(a) \/ bisstemeqcaseless(a)
            \/ \E n : bstrncmp(a, n) \/ bstrnicmp(a, n)
  \/ \E t : biseqcstr(t) \/ biseqcstrcaseless(t)

\* They leave it as it is.
LEMMA ReadingKeeps ==
  ASSUME Terminated, Reading
  PROVE  Terminated'
<1>1. CASE bstrcpy
  BY <1>1, LeftAlone DEF bstrcpy
<1>2. CASE bstr2cstr
  BY <1>2, LeftAlone DEF bstr2cstr
<1>3. ASSUME NEW left \in Int, NEW len \in Int, bmidstr(left, len) PROVE Terminated'
  BY <1>3, LeftAlone DEF bmidstr
<1>4. ASSUME NEW name, NEW a, NEW long, NEW value, Equals(name, a, long, value)
      PROVE  Terminated'
  <2>1. PICK v : Copies(<<name, a.text>>, v)
    BY <1>4 DEF Equals
  <2> QED BY <2>1, LeftAlone
<1>5. ASSUME NEW a, bstricmp(a) PROVE Terminated'
  <2>1. PICK v : Copies(<<"stricmp", a.text>>, v)
    BY <1>5 DEF bstricmp
  <2> QED BY <2>1, LeftAlone
<1>6. ASSUME NEW a, NEW n, bstrncmp(a, n) PROVE Terminated'
  <2>1. PICK v : Copies(<<"strncmp", a.text, n>>, v)
    BY <1>6 DEF bstrncmp
  <2> QED BY <2>1, LeftAlone
<1>7. ASSUME NEW a, NEW n, bstrnicmp(a, n) PROVE Terminated'
  <2>1. PICK v : Copies(<<"strnicmp", a.text, n>>, v)
    BY <1>7 DEF bstrnicmp
  <2> QED BY <2>1, LeftAlone
<1>8. ASSUME NEW a,
             biseq(a) \/ biseqcaseless(a) \/ bisstemeq(a) \/ bisstemeqcaseless(a)
      PROVE  Terminated'
  BY <1>4, <1>8 DEF biseq, biseqcaseless, bisstemeq, bisstemeqcaseless
<1>9. ASSUME NEW t, biseqcstr(t) \/ biseqcstrcaseless(t) PROVE Terminated'
  BY <1>4, <1>9 DEF biseqcstr, biseqcstrcaseless
<1> QED BY <1>1, <1>2, <1>3, <1>5, <1>6, <1>7, <1>8, <1>9 DEF Reading

-----------------------------------------------------------------------------
(* All calls.                                                              *)

\* Before the first call.
LEMMA InitTerminated ==
  ASSUME Init
  PROVE  Terminated
<1>1. data = [i \in {} |-> JUNK] /\ mlen = 0 /\ slen = 0 /\ ~wild /\ wild = FALSE /\ str = FALSE
      /\ failing \in Heaps
  BY DEF Init
<1>2. 0 .. 0 - 1 = {} /\ 1 .. 0 = {}
  OBVIOUS
<1>3. data \in [0 .. mlen - 1 -> Char \cup {NUL, JUNK}]
  BY <1>1, <1>2
<1>4. Text \in Seq(Char)
  BY <1>1 DEF Text
<1>5. mlen \in Nat /\ slen \in 0 .. mlen
  BY <1>1
<1>6. str \in BOOLEAN /\ wild \in BOOLEAN
  BY <1>1, Zenon
<1> QED BY <1>1, <1>3, <1>4, <1>5, <1>6 DEF Terminated, TypeOK

\* Every call keeps the terminator in its place.
LEMMA NextKeeps ==
  ASSUME Terminated, ShortStrings, NoneBefore, Next
  PROVE  Terminated'
<1>1. /\ Lengths \subseteq Nat /\ Lengths \subseteq Int /\ Fills \subseteq Char
      /\ MaxLen \in Nat
  BY ConstantsAssumption DEF Lengths
<1>2. -1 .. MaxLen \subseteq Int /\ -1 .. 1 \subseteq Int /\ \A n \in Lengths : n + 1 \in Nat
  BY <1>1
<1>3. CASE \/ bdestroy \/ bstrcpy \/ bstr2cstr \/ bltrimws \/ brtrimws \/ btrimws
           \/ btoupper \/ btolower
  <2>1. CASE btoupper \/ btolower
    BY <2>1, ConstantsAssumption, RecasedKeeps DEF btoupper, btolower
  <2>2. CASE bstrcpy \/ bstr2cstr
    BY <2>2, ReadingKeeps DEF Reading
  <2> QED BY <1>3, <2>1, <2>2, DestroyKeeps, LtrimwsKeeps, RtrimwsKeeps, TrimwsKeeps
<1>4. ASSUME NEW c \in Char, bconchar(c) PROVE Terminated'
  BY <1>4, ConcharKeeps
<1>5. ASSUME NEW t \in Texts,
             \/ bfromcstr(t) \/ bcatblk(t) \/ bcatcstr(t) \/ bassignblk(t) \/ bassigncstr(t)
             \/ biseqcstr(t) \/ biseqcstrcaseless(t)
             \/ \E m, n \in Lengths : m <= n /\ bfromcstrrangealloc(m, n, t)
      PROVE  Terminated'
  <2>1. CASE biseqcstr(t) \/ biseqcstrcaseless(t)
    BY <2>1, ReadingKeeps DEF Reading
  <2>2. ASSUME NEW m \in Lengths, NEW n \in Lengths, bfromcstrrangealloc(m, n, t)
        PROVE  Terminated'
    BY <1>1, <2>2, RangeallocKeeps
  <2> QED BY <1>5, <2>1, <2>2, FromcstrKeeps, CatblkKeeps, CatcstrKeeps, AssignblkKeeps,
             AssigncstrKeeps
<1>6. ASSUME NEW n \in Lengths, btrunc(n) \/ bpattern(n) \/ balloc(n + 1) \/ ballocmin(n + 1)
      PROVE  Terminated'
  <2>1. n \in Nat /\ n + 1 \in Nat
    BY <1>1, <1>2
  <2> QED BY <1>6, <2>1, TruncKeeps, PatternKeeps, AllocKeeps, AllocminKeeps
<1>7. ASSUME NEW pos \in -1 .. MaxLen, NEW len \in Lengths, bdelete(pos, len) \/ bmidstr(pos, len)
      PROVE  Terminated'
  <2>1. pos \in Int /\ len \in Int
    BY <1>1, <1>2
  <2>2. CASE bmidstr(pos, len)
    BY <2>1, <2>2, ReadingKeeps DEF Reading
  <2> QED BY <1>7, <2>1, <2>2, DeleteKeeps
<1>8. ASSUME NEW a \in Args,
             \/ bconcat(a) \/ bassign(a) \/ bstricmp(a) \/ biseq(a) \/ biseqcaseless(a)
             \/ bisstemeq(a) \/ bisstemeqcaseless(a)
             \/ \E n \in Lengths : bstrncmp(a, n) \/ bstrnicmp(a, n)
             \/ \E pos \in -1 .. 1, len \in Lengths : bassignmidstr(a, pos, len)
      PROVE  Terminated'
  <2>1. CASE \/ bstricmp(a) \/ biseq(a) \/ biseqcaseless(a)
             \/ bisstemeq(a) \/ bisstemeqcaseless(a)
             \/ \E n \in Lengths : bstrncmp(a, n) \/ bstrnicmp(a, n)
    <3>1. Reading
      BY <2>1 DEF Reading
    <3> QED BY <3>1, ReadingKeeps
  <2>2. ASSUME NEW pos \in -1 .. 1, NEW len \in Lengths, bassignmidstr(a, pos, len)
        PROVE  Terminated'
    <3>1. pos \in Int /\ len \in Int
      BY <1>1, <1>2
    <3> QED BY <2>2, <3>1, AssignmidstrKeeps
  <2> QED BY <1>8, <2>1, <2>2, ConcatKeeps, BassignKeeps
<1>9. ASSUME NEW a \in Args, NEW pos \in Lengths, NEW fill \in Fills,
             \/ bsetstr(pos, a, fill) \/ binsert(pos, a, fill)
             \/ \E find \in Texts, before \in Before :
                  bfindreplace(find, a, pos, before) \/ bfindreplacecaseless(find, a, pos, before)
             \/ \E len \in Lengths : pos + len <= MaxLen /\ breplace(pos, len, a, fill)
      PROVE  Terminated'
  <2>1. pos \in Nat /\ fill \in Char
    BY <1>1
  <2>2. ASSUME NEW find \in Texts, NEW before \in Before,
               bfindreplace(find, a, pos, before) \/ bfindreplacecaseless(find, a, pos, before)
        PROVE  Terminated'
    BY <2>1, <2>2, FindreplaceKeeps DEF bfindreplace, bfindreplacecaseless
  <2>3. ASSUME NEW len \in Lengths, breplace(pos, len, a, fill)
        PROVE  Terminated'
    <3>1. len \in Nat
      BY <1>1
    <3> QED BY <2>1, <2>3, <3>1, ReplaceKeeps
  <2> QED BY <1>9, <2>1, <2>2, <2>3, SetstrKeeps, InsertKeeps
<1>10. ASSUME NEW pos \in Lengths, NEW len \in Lengths, NEW fill \in Fills,
              binsertch(pos, len, fill)
       PROVE  Terminated'
  <2>1. pos \in Nat /\ len \in Nat /\ fill \in Char
    BY <1>1
  <2> QED BY <1>10, <2>1, InsertchKeeps
<1> QED BY <1>3, <1>4, <1>5, <1>6, <1>7, <1>8, <1>9, <1>10 DEF Next

\* After every call, successful or not, the string is in its block and made of what was
\* written to it; and with a heap that grants what is asked for no call writes outside the
\* block and the terminator is in its place, however many calls there are and whatever
\* their arguments share with the string.
THEOREM TerminatorInPlace ==
  ASSUME ShortStrings, NoneBefore
  PROVE  Spec => []Terminated
<1>1. Init => Terminated
  BY InitTerminated
<1>2. Terminated /\ [Next]_vars => Terminated'
  <2>1. ASSUME Terminated, Next PROVE Terminated'
    BY <2>1, NextKeeps
  <2>2. ASSUME Terminated, UNCHANGED vars PROVE Terminated'
    <3>1. failing' = failing /\ str' = str /\ data' = data /\ mlen' = mlen /\ slen' = slen
          /\ wild' = wild
      BY <2>2 DEF vars, string
    <3>2. Text' = Text
      BY <3>1 DEF Text
    <3> QED BY <2>2, <3>1, <3>2 DEF Terminated, TypeOK
  <2> QED BY <2>1, <2>2
<1> QED BY <1>1, <1>2, PTL DEF Spec

-----------------------------------------------------------------------------
(* What AbstractString makes of the calls.                                 *)

\* The null pointer is no text.
NullIsNoText == NULL \notin Seq(Char)

\* Different characters have different values.
CodesDiffer == \A c, e \in Char : Code[c] = Code[e] => c = e

\* A call of the client's changes the string as AbstractString says.
LEMMA ChangeIs ==
  ASSUME Terminated, NullIsNoText, str, str' = str, NEW call, ret' = <<call, "OK">>,
         call[1] \in Abstract!Changing, call[1] = "pattern" => Text # <<>>,
         Text' = Abstract!Result(Text, call)
  PROVE  Abstract!Next
<1>1. Text # NULL
  BY StringIs DEF NullIsNoText
<1>2. ret'[1] = call /\ ret'[2] = "OK"
  OBVIOUS
<1>3. Abstract!Change
  BY <1>1, <1>2 DEF Abstract!Change, Abstract!Does
<1> QED BY <1>3 DEF Abstract!Next

\* A call that has failed, and one that succeeded without changing anything.
LEMMA ReturnsIs ==
  ASSUME Terminated, NullIsNoText, NEW call, NEW result, Returns(call, result),
         \/ result = "ERR"
         \/ /\ result = "OK" /\ str /\ call[1] \in Abstract!Changing
            /\ call[1] # "pattern" /\ Text = Abstract!Result(Text, call)
  PROVE  Abstract!Next
<1>1. str' = str /\ data' = data /\ mlen' = mlen /\ slen' = slen /\ ret' = <<call, result>>
  BY DEF Returns, string
<1>2. Text' = Text
  BY <1>1 DEF Text
<1>3. CASE result = "ERR"
  <2>1. Abstract!Fail
    BY <1>1, <1>2, <1>3 DEF Abstract!Fail
  <2> QED BY <2>1 DEF Abstract!Next
<1>4. CASE result # "ERR"
  BY <1>1, <1>2, <1>4, ChangeIs
<1> QED BY <1>3, <1>4

\* The text in the first n bytes of a block.
Front(d, n) == [i \in 1 .. n |-> d[i - 1]]

\* A string is what is at the front of the block it was stored in.
LEMMA StoresFront ==
  ASSUME NEW d, NEW m, NEW n, NEW top, NEW call, Holds(d, m, n), Stores(d, top, n, call)
  PROVE  Text' = Front(d, n) /\ str' = str /\ ret' = <<call, "OK">>
<1>1. m \in Nat /\ n \in 0 .. m /\ d \in [0 .. m - 1 -> Stuff]
  BY DEF Holds, IsBlock
<1>2. /\ data' = [i \in 0 .. m - 1 |-> IF i < n THEN d[i] ELSE IF i = n THEN NUL ELSE JUNK]
      /\ slen' = n /\ str' = str /\ ret' = <<call, "OK">>
  BY <1>1 DEF Stores
<1>3. \A i \in 1 .. n : data'[i - 1] = d[i - 1]
  BY <1>1, <1>2
<1>4. Text' = [i \in 1 .. n |-> data'[i - 1]]
  BY <1>2 DEF Text
<1> QED BY <1>2, <1>3, <1>4 DEF Front

\* Texts are the same if they are as long and have the same characters.
LEMMA SameText ==
  ASSUME NEW S, NEW s \in Seq(S), NEW t \in Seq(S), Len(s) = Len(t),
         \A i \in 1 .. Len(s) : s[i] = t[i]
  PROVE  s = t
BY SeqEqual

\* What is at the front.
LEMMA FrontIs ==
  ASSUME NEW d, NEW m, NEW n, Holds(d, m, n)
  PROVE  /\ Front(d, n) \in Seq(Char) /\ Len(Front(d, n)) = n
         /\ \A i \in 1 .. n : Front(d, n)[i] = d[i - 1]
<1>1. n \in Nat /\ \A i \in 0 .. n - 1 : d[i] \in Char
  BY DEF Holds, IsBlock
<1>2. \A i \in 1 .. n : d[i - 1] \in Char
  BY <1>1
<1> QED BY <1>1, <1>2 DEF Front

\* A call that stores t changes the string to t.
LEMMA StoresText ==
  ASSUME Terminated, NullIsNoText, str, NEW d, NEW m, NEW n, NEW top, NEW call, Holds(d, m, n),
         Stores(d, top, n, call), NEW t \in Seq(Char), Len(t) = n,
         \A i \in 1 .. n : d[i - 1] = t[i],
         call[1] \in Abstract!Changing, call[1] = "pattern" => Text # <<>>,
         t = Abstract!Result(Text, call)
  PROVE  Abstract!Next
<1>1. Text' = Front(d, n) /\ str' = str /\ ret' = <<call, "OK">>
  BY StoresFront
<1>2. Front(d, n) = t
  BY FrontIs, SameText
<1> QED BY <1>1, <1>2, ChangeIs

\* The same for the calls whose last byte is the terminator.
LEMMA BecomesText ==
  ASSUME Terminated, NullIsNoText, str, NEW d, NEW m, NEW n, NEW call, Holds(d, m, n),
         Becomes(d, n, call), NEW t \in Seq(Char), Len(t) = n,
         \A i \in 1 .. n : d[i - 1] = t[i],
         call[1] \in Abstract!Changing, call[1] = "pattern" => Text # <<>>,
         t = Abstract!Result(Text, call)
  PROVE  Abstract!Next
BY StoresText DEF Becomes

\* What a result is, by the name of the call.
LEMMA AddedResult ==
  ASSUME NEW s, NEW x
  PROVE  /\ Abstract!Result(s, <<"concat", x>>) = s \o x
         /\ Abstract!Result(s, <<"catcstr", x>>) = s \o x
         /\ Abstract!Result(s, <<"assign", x>>) = x
         /\ Abstract!Result(s, <<"assigncstr", x>>) = x
BY DEF Abstract!Result

\* The same for calls that keep the string, and those that take some of it away.
LEMMA KeptResult ==
  ASSUME NEW s
  PROVE  /\ Abstract!Result(s, <<"alloc">>) = s
         /\ Abstract!Result(s, <<"allocmin">>) = s
BY DEF Abstract!Result

-----------------------------------------------------------------------------
(* Appending and assigning, as AbstractString says.                        *)

\* The string is at the front of the block.
StringAt(d) == \A i \in 1 .. slen : d[i - 1] = Text[i]

\* It is in the block it has.
LEMMA StringAtData ==
  ASSUME Terminated
  PROVE  StringAt(data)
BY StringIs DEF StringAt

\* So it is in a block it was moved to.
LEMMA MovedKeepsText ==
  ASSUME Terminated, NEW n \in Nat, n >= slen, NEW kept \in {slen, mlen}
  PROVE  StringAt(Moved(n, kept))
<1>1. slen \in Nat /\ mlen \in Nat /\ slen <= mlen /\ \A i \in 1 .. slen : Text[i] = data[i - 1]
  BY StringIs DEF Holds, IsBlock
<1>2. Moved(n, kept)
        = [i \in 0 .. n - 1 |-> IF i = slen THEN NUL ELSE IF i < kept THEN data[i] ELSE JUNK]
  BY DEF Moved
<1>3. ASSUME NEW i \in 1 .. slen PROVE Moved(n, kept)[i - 1] = data[i - 1]
  <2>1. i - 1 \in 0 .. n - 1 /\ i - 1 # slen /\ i - 1 < kept
    BY <1>1
  <2> QED BY <1>2, <2>1
<1> QED BY <1>1, <1>3 DEF StringAt

\* And in those balloc may give it.
LEMMA BlocksKeepText ==
  ASSUME Terminated, NEW olen \in Int, NEW d \in Blocks(olen)
  PROVE  StringAt(d)
<1>1. slen \in Nat /\ mlen \in Nat /\ slen <= mlen
  BY StringIs DEF Holds, IsBlock
<1>2. CASE olen < mlen
  BY <1>2, StringAtData DEF Blocks
<1>3. CASE olen >= mlen
  <2> DEFINE kept == IF 7 * mlen < 8 * slen THEN mlen ELSE slen
             n == snapUpSize(olen)
  <2>1. kept \in {slen, mlen} /\ olen \in Nat /\ olen >= slen
    BY <1>1, <1>3
  <2>2. n \in Nat /\ n >= slen
    BY <1>1, <2>1, SnapGrows
  <2>3. d \in {Moved(n, kept), Moved(n, mlen), Moved(olen, mlen)}
    BY <1>1, <1>3 DEF Blocks
  <2> HIDE DEF kept, n
  <2> QED BY <2>1, <2>2, <2>3, MovedKeepsText
<1> QED BY <1>1, <1>2, <1>3

\* A block that is the string's own, or one that was granted.
LEMMA RoomKeepsText ==
  ASSUME Terminated, NEW n \in Nat, NEW d, d = data \/ d \in Blocks(n)
  PROVE  StringAt(d)
BY StringAtData, BlocksKeepText

\* What is written to a block, in characters of the block there will be.
LEMMA LaidText ==
  ASSUME Terminated, NEW d, Holds(d, Size(d), slen), StringAt(d), NEW s \in Seq(Char),
         NEW at \in 0 .. slen, NEW n \in 0 .. Size(d), n <= slen \/ n <= at + Len(s)
  PROVE  /\ Holds(Lay(d, at, s), Size(d), n)
         /\ \A i \in 1 .. n : Lay(d, at, s)[i - 1] = IF i <= at \/ i > at + Len(s) THEN Text[i]
                                                     ELSE s[i - at]
<1> DEFINE m == Size(d)
<1>1. IsBlock(d, m) /\ slen \in Nat /\ m \in Nat /\ \A i \in 0 .. slen - 1 : d[i] \in Char
  BY DEF Holds, IsBlock
<1> HIDE DEF m
<1>2. Len(s) \in Nat
  OBVIOUS
<1>3. \A i \in 0 .. n - 1 : (at <= i /\ i < at + Len(s)) \/ d[i] \in Char
  <2>1. TAKE i \in 0 .. n - 1
  <2>2. i < slen \/ (at <= i /\ i < at + Len(s))
    BY <1>1, <1>2
  <2> QED BY <1>1, <2>2
<1>4. n \in 0 .. m
  BY DEF m
<1>5. Holds(Lay(d, at, s), m, n)
  BY <1>1, <1>3, <1>4, LayHolds
<1>6. \A i \in 0 .. m - 1 :
        Lay(d, at, s)[i] = IF at <= i /\ i < at + Len(s) THEN s[i - at + 1] ELSE d[i]
  BY <1>1, StuffIs, LayIs
<1>7. ASSUME NEW i \in 1 .. n
      PROVE  Lay(d, at, s)[i - 1] = IF i <= at \/ i > at + Len(s) THEN Text[i] ELSE s[i - at]
  <2>1. i - 1 \in 0 .. m - 1 /\ (i - 1) - at + 1 = i - at
    BY <1>1, <1>4
  <2>2. Lay(d, at, s)[i - 1]
          = IF at <= i - 1 /\ i - 1 < at + Len(s) THEN s[i - at] ELSE d[i - 1]
    BY <1>6, <2>1
  <2>3. CASE i <= at \/ i > at + Len(s)
    <3>1. i \in 1 .. slen /\ ~(at <= i - 1 /\ i - 1 < at + Len(s))
      BY <1>1, <1>2, <2>3
    <3> QED BY <2>2, <2>3, <3>1 DEF StringAt
  <2>4. CASE ~(i <= at \/ i > at + Len(s))
    <3>1. at <= i - 1 /\ i - 1 < at + Len(s)
      BY <1>2, <2>4
    <3> QED BY <2>2, <2>4, <3>1
  <2> QED BY <2>3, <2>4
<1> QED BY <1>5, <1>7 DEF m

\* A text is written behind the string.
LEMMA AppendedText ==
  ASSUME Terminated, NullIsNoText, str, NEW t \in Seq(Char), NEW d, NEW n,
         n = slen + Len(t), Holds(d, Size(d), slen), StringAt(d), n < Size(d), NEW call,
         call = <<"concat", t>> \/ call = <<"catcstr", t>>, Becomes(Lay(d, slen, t), n, call)
  PROVE  Abstract!Next
<1> DEFINE m == Size(d)
           e == Lay(d, slen, t)
<1>1. slen \in Nat /\ m \in Nat /\ Len(t) \in Nat /\ Text \in Seq(Char) /\ Len(Text) = slen
  BY StringIs DEF Holds, IsBlock
<1>2. n \in 0 .. m /\ slen \in 0 .. slen
  BY <1>1
<1>3. /\ Holds(e, m, n)
      /\ \A i \in 1 .. n : e[i - 1] = IF i <= slen \/ i > n THEN Text[i] ELSE t[i - slen]
  BY <1>1, <1>2, LaidText
<1>4. /\ Text \o t \in Seq(Char) /\ Len(Text \o t) = n
      /\ \A i \in 1 .. n : (Text \o t)[i] = IF i <= slen THEN Text[i] ELSE t[i - slen]
  BY <1>1, ConcatProperties
<1> HIDE DEF e
<1>5. \A i \in 1 .. n : e[i - 1] = (Text \o t)[i]
  BY <1>2, <1>3, <1>4
<1>6. Text \o t = Abstract!Result(Text, call)
  BY AddedResult
<1>7. call[1] \in {"concat", "catcstr"}
  OBVIOUS
<1>8. call[1] \in Abstract!Changing /\ call[1] # "pattern"
  BY <1>7 DEF Abstract!Changing
<1> QED BY <1>3, <1>4, <1>5, <1>6, <1>8, BecomesText, SMTT(60) DEF e

\* A text is written to the beginning of the block.
LEMMA AssignedText ==
  ASSUME Terminated, NullIsNoText, str, NEW t \in Seq(Char), NEW d,
         Holds(d, Size(d), slen), Len(t) <= Size(d), NEW call,
         call = <<"assign", t>> \/ call = <<"assigncstr", t>>, Becomes(Lay(d, 0, t), Len(t), call)
  PROVE  Abstract!Next
<1> DEFINE m == Size(d)
           n == Len(t)
           e == Lay(d, 0, t)
<1>1. IsBlock(d, m) /\ m \in Nat /\ n \in 0 .. m
  BY DEF Holds, IsBlock
<1> HIDE DEF m
<1>2. \A i \in 0 .. n - 1 : (0 <= i /\ i < 0 + n) \/ d[i] \in Char
  BY <1>1
<1>3. Holds(e, m, n)
  BY <1>1, <1>2, LayHolds
<1>4. \A i \in 0 .. m - 1 : e[i] = IF 0 <= i /\ i < 0 + n THEN t[i - 0 + 1] ELSE d[i]
  BY <1>1, StuffIs, LayIs
<1> HIDE DEF e
<1>5. \A i \in 1 .. n : e[i - 1] = t[i]
  <2>1. TAKE i \in 1 .. n
  <2>2. i - 1 \in 0 .. m - 1 /\ 0 <= i - 1 /\ i - 1 < 0 + n /\ (i - 1) - 0 + 1 = i
    BY <1>1
  <2> QED BY <1>4, <2>2
<1>6. t = Abstract!Result(Text, call)
  BY AddedResult
<1>7. call[1] \in {"assign", "assigncstr"}
  OBVIOUS
<1>8. call[1] \in Abstract!Changing /\ call[1] # "pattern"
  BY <1>7 DEF Abstract!Changing
<1> QED BY <1>3, <1>5, <1>6, <1>8, BecomesText DEF e

\* balloc.
LEMMA AllocRefines ==
  ASSUME Terminated, NullIsNoText, NEW olen \in Nat, balloc(olen)
  PROVE  Abstract!Next
<1> DEFINE call == <<"alloc">>
<1>1. /\ str
      /\ \/ Returns(call, "OK") \/ Returns(call, "ERR")
         \/ \E d \in Blocks(olen) : olen >= mlen /\ Becomes(d, slen, call)
  BY DEF balloc
<1>2. /\ call[1] \in Abstract!Changing /\ call[1] # "pattern"
      /\ Text = Abstract!Result(Text, call)
  BY KeptResult DEF Abstract!Changing
<1>3. Text \in Seq(Char) /\ Len(Text) = slen
  BY StringIs
<1> HIDE DEF call
<1>4. ASSUME NEW d \in Blocks(olen), Becomes(d, slen, call) PROVE Abstract!Next
  <2>1. Granted(d, Size(d), olen) /\ StringAt(d)
    BY BlocksGranted, BlocksKeepText
  <2>2. Holds(d, Size(d), slen) /\ \A i \in 1 .. slen : d[i - 1] = Text[i]
    BY <2>1 DEF Granted, StringAt
  <2> QED BY <1>1, <1>2, <1>3, <1>4, <2>2, BecomesText
<1> QED BY <1>1, <1>2, <1>4, ReturnsIs

\* ballocmin.
LEMMA AllocminRefines ==
  ASSUME Terminated, NullIsNoText, NEW len \in Nat, ballocmin(len)
  PROVE  Abstract!Next
<1> DEFINE n == Max({len, slen + 1})
           call == <<"allocmin">>
<1>1. slen \in Nat /\ mlen \in Nat /\ Text \in Seq(Char) /\ Len(Text) = slen
  BY StringIs DEF Holds, IsBlock
<1>2. n \in Nat /\ n > slen
  BY <1>1, MaxOfTwo
<1>3. /\ str
      /\ Returns(call, "OK") \/ Returns(call, "ERR") \/ Becomes(Moved(n, mlen), slen, call)
  BY DEF ballocmin
<1>4. /\ call[1] \in Abstract!Changing /\ call[1] # "pattern"
      /\ Text = Abstract!Result(Text, call)
  BY KeptResult DEF Abstract!Changing
<1> HIDE DEF n, call
<1>5. Holds(Moved(n, mlen), n, slen) /\ StringAt(Moved(n, mlen))
  BY <1>1, <1>2, MovedHolds, MovedKeepsText
<1>6. CASE Becomes(Moved(n, mlen), slen, call)
  <2> DEFINE d == Moved(n, mlen)
  <2>1. Holds(d, n, slen) /\ \A i \in 1 .. slen : d[i - 1] = Text[i]
    BY <1>5 DEF StringAt
  <2> HIDE DEF d
  <2> QED BY <1>1, <1>3, <1>4, <1>6, <2>1, BecomesText DEF d
<1> QED BY <1>3, <1>4, <1>6, ReturnsIs

\* bconcat.
LEMMA ConcatRefines ==
  ASSUME Terminated, NullIsNoText, NEW a \in Args, bconcat(a)
  PROVE  Abstract!Next
<1> DEFINE n    == slen + Len(a.text)
           call == <<"concat", a.text>>
           copied == mlen <= n + 1
<1>1. /\ str
      /\ \/ \E d \in Blocks(n + 1) : Becomes(Lay(d, slen, Through(a, d, copied)), n, call)
         \/ Returns(call, "ERR")
  BY DEF bconcat
<1>2. IsArg(a) /\ a.text \in Seq(Char) /\ Len(a.text) \in Nat
  BY ArgIs DEF IsArg
<1>3. slen \in Nat /\ mlen \in Nat /\ n \in Nat /\ (copied \/ n + 1 < mlen)
  BY <1>1, <1>2, StringInside
<1>4. ASSUME NEW d \in Blocks(n + 1), Becomes(Lay(d, slen, Through(a, d, copied)), n, call)
      PROVE  Abstract!Next
  <2> HIDE DEF copied
  <2>1. Granted(d, Size(d), n + 1) /\ StringAt(d)
    BY <1>3, BlocksGranted, BlocksKeepText
  <2>2. Through(a, d, copied) = a.text
    BY <1>2, <1>3, <2>1, ThroughGranted
  <2>3. Holds(d, Size(d), slen) /\ n < Size(d)
    BY <1>3, <2>1 DEF Granted, Holds, IsBlock
  <2>4. Becomes(Lay(d, slen, a.text), n, call) /\ call = <<"concat", a.text>>
    BY <1>4, <2>2
  <2> HIDE DEF call
  <2> QED BY <1>1, <1>2, <2>1, <2>3, <2>4, AppendedText
<1> HIDE DEF call
<1> QED BY <1>1, <1>4, ReturnsIs

\* bconchar.
LEMMA ConcharRefines ==
  ASSUME Terminated, NullIsNoText, NEW c \in Char, bconchar(c)
  PROVE  Abstract!Next
<1> DEFINE t == <<c>>
           call == <<"concat", t>>
<1>1. /\ str
      /\ \/ \E d \in Blocks(slen + 2) : Becomes(Lay(d, slen, t), slen + 1, call)
         \/ Returns(call, "ERR")
  BY DEF bconchar
<1>2. t \in Seq(Char) /\ Len(t) = 1 /\ slen \in Nat /\ mlen \in Nat
  BY <1>1, StringInside
<1> HIDE DEF t
<1>3. ASSUME NEW d \in Blocks(slen + 2), Becomes(Lay(d, slen, t), slen + 1, call)
      PROVE  Abstract!Next
  <2>1. Granted(d, Size(d), slen + 2) /\ StringAt(d)
    BY <1>2, BlocksGranted, BlocksKeepText
  <2>2. Holds(d, Size(d), slen) /\ slen + 1 < Size(d)
    BY <1>2, <2>1 DEF Granted, Holds, IsBlock
  <2>3. call = <<"concat", t>> /\ slen + 1 = slen + Len(t)
    BY <1>2
  <2> HIDE DEF call
  <2> QED BY <1>1, <1>2, <1>3, <2>1, <2>2, <2>3, AppendedText
<1> HIDE DEF call
<1> QED BY <1>1, <1>3, ReturnsIs

\* bcatblk.
LEMMA CatblkRefines ==
  ASSUME Terminated, NullIsNoText, NEW t \in Texts, bcatblk(t)
  PROVE  Abstract!Next
<1> DEFINE n    == slen + Len(t)
           call == <<"concat", t>>
<1>1. /\ str
      /\ \/ \E d \in IF mlen <= n THEN Blocks(n + 1) ELSE {data} :
              Becomes(Lay(d, slen, t), n, call)
         \/ Returns(call, "ERR")
  BY DEF bcatblk
<1>2. t \in Seq(Char) /\ Len(t) \in Nat /\ slen \in Nat /\ mlen \in Nat /\ n \in Nat
  BY <1>1, StringInside, TextIs
<1>3. ASSUME NEW d \in IF mlen <= n THEN Blocks(n + 1) ELSE {data},
             Becomes(Lay(d, slen, t), n, call)
      PROVE  Abstract!Next
  <2>1. (d = data /\ n < mlen) \/ d \in Blocks(n + 1)
    BY <1>2
  <2>2. call = <<"concat", t>> /\ n = slen + Len(t) /\ n + 1 \in Nat
    BY <1>2
  <2> HIDE DEF call
  <2>3. Holds(d, Size(d), slen) /\ n < Size(d)
    BY <1>1, <1>2, <2>1, RoomFor
  <2>4. StringAt(d)
    BY <2>1, <2>2, RoomKeepsText
  <2> HIDE DEF n
  <2> QED BY <1>1, <1>2, <1>3, <2>2, <2>3, <2>4, AppendedText
<1> HIDE DEF call
<1> QED BY <1>1, <1>3, ReturnsIs

\* A block filled to the brim holds the beginning of what there should be.
LEMMA BrimmedText ==
  ASSUME Terminated, NEW s \in Seq(Char), Len(s) <= mlen, mlen <= slen + Len(s),
         NEW call, Brimmed(s, call)
  PROVE  /\ str' = str /\ ret' = <<call, "ERR">> /\ Text' \in Seq(Char) /\ Len(Text') = mlen
         /\ \A i \in 1 .. mlen : Text'[i] = IF i <= mlen - Len(s) THEN Text[i]
                                            ELSE s[i - (mlen - Len(s))]
<1> DEFINE at == mlen - Len(s)
           e  == Lay(data, at, s)
<1>1. /\ mlen \in Nat /\ slen \in 0 .. mlen /\ Len(s) \in Nat /\ Holds(data, mlen, slen)
      /\ Size(data) = mlen
  BY StringIs DEF Holds, IsBlock
<1>2. at \in 0 .. slen /\ mlen \in 0 .. mlen /\ at + Len(s) = mlen
  BY <1>1
<1>3. /\ data' = e /\ slen' = mlen /\ str' = str /\ ret' = <<call, "ERR">>
  BY DEF Brimmed
<1> HIDE DEF at
<1>4. /\ Holds(e, mlen, mlen)
      /\ \A i \in 1 .. mlen : e[i - 1] = IF i <= at \/ i > at + Len(s) THEN Text[i] ELSE s[i - at]
  <2>1. mlen <= at + Len(s) /\ mlen \in 0 .. Size(data)
    BY <1>1, <1>2
  <2> QED BY <1>1, <1>2, <2>1, StringAtData, LaidText
<1> HIDE DEF e
<1>5. Text' = Front(e, mlen)
  BY <1>3 DEF Text, Front
<1>6. /\ Front(e, mlen) \in Seq(Char) /\ Len(Front(e, mlen)) = mlen
      /\ \A i \in 1 .. mlen : Front(e, mlen)[i] = e[i - 1]
  BY <1>4, FrontIs
<1>7. \A i \in 1 .. mlen : Text'[i] = IF i <= at THEN Text[i] ELSE s[i - at]
  <2>1. TAKE i \in 1 .. mlen
  <2>2. ~(i > at + Len(s))
    BY <1>1, <1>2
  <2>3. Front(e, mlen)[i] = IF i <= at THEN Text[i] ELSE s[i - at]
    BY <1>4, <1>6, <2>2
  <2> QED BY <1>5, <2>3
<1> QED BY <1>3, <1>5, <1>6, <1>7 DEF at

\* The string is cut off.
LEMMA CutText ==
  ASSUME Terminated, NullIsNoText, str, NEW n \in 0 .. slen, NEW call, Becomes(data, n, call),
         NEW t \in Seq(Char), Len(t) = n, \A i \in 1 .. n : t[i] = Text[i],
         call[1] \in Abstract!Changing, call[1] # "pattern",
         t = Abstract!Result(Text, call)
  PROVE  Abstract!Next
<1>1. /\ slen \in Nat /\ mlen \in Nat /\ slen <= mlen /\ Holds(data, mlen, slen)
      /\ \A i \in 1 .. slen : Text[i] = data[i - 1]
  BY StringInside, StringIs
<1>2. Holds(data, mlen, n) /\ \A i \in 1 .. n : data[i - 1] = t[i]
  BY <1>1 DEF Holds
<1> QED BY <1>2, BecomesText

\* bcatcstr.  When the block cannot grow, what fits has been stored.
LEMMA CatcstrRefines ==
  ASSUME Terminated, NullIsNoText, NEW t \in Texts, bcatcstr(t)
  PROVE  Abstract!Next
<1> DEFINE n    == slen + Len(t)
           call == <<"catcstr", t>>
           k    == mlen - slen
           s    == SubSeq(t, 1, k)
<1>1. /\ str
      /\ \/ n < mlen /\ Becomes(Lay(data, slen, t), n, call)
         \/ \E d \in Blocks(n + 1) : Becomes(Lay(d, slen, t), n, call)
         \/ n >= mlen /\ Brimmed(s, call)
  BY DEF bcatcstr
<1>2. /\ t \in Seq(Char) /\ Len(t) \in Nat /\ slen \in Nat /\ mlen \in Nat /\ n \in Nat
      /\ slen <= mlen /\ Text \in Seq(Char) /\ Len(Text) = slen
  BY <1>1, StringInside, StringIs, TextIs
<1>3. ASSUME NEW d, (d = data /\ n < mlen) \/ d \in Blocks(n + 1),
             Becomes(Lay(d, slen, t), n, call)
      PROVE  Abstract!Next
  <2>1. Holds(d, Size(d), slen) /\ n < Size(d)
    BY <1>1, <1>2, <1>3, RoomFor
  <2>2. StringAt(d)
    <3>1. n + 1 \in Nat /\ (d = data \/ d \in Blocks(n + 1))
      BY <1>2, <1>3
    <3> QED BY <3>1, RoomKeepsText
  <2>3. call = <<"catcstr", t>> /\ n = slen + Len(t)
    OBVIOUS
  <2> HIDE DEF call, n
  <2> QED BY <1>1, <1>2, <1>3, <2>1, <2>2, <2>3, AppendedText
<1>4. ASSUME n >= mlen, Brimmed(s, call)
      PROVE  Abstract!Next
  <2>1. k \in 0 .. Len(t)
    BY <1>2, <1>4
  <2>2. \A i \in 1 .. k : t[i] \in Char
    BY <1>2, <2>1, ElementOfSeq
  <2>3. s \in Seq(Char) /\ Len(s) = k
    BY <1>2, <2>1, <2>2, SubSeqProperties
  <2>4. s = Abstract!First(call[2], k)
    BY DEF Abstract!First
  <2>5. call[1] = "catcstr" /\ call[2] = t
    OBVIOUS
  <2> HIDE DEF call, s
  <2>6. mlen <= slen + Len(s) /\ Len(s) <= mlen /\ mlen - Len(s) = slen
    BY <1>2, <2>1, <2>3
  <2>7. /\ str' = str /\ ret' = <<call, "ERR">> /\ Text' \in Seq(Char) /\ Len(Text') = mlen
        /\ \A i \in 1 .. mlen : Text'[i] = IF i <= mlen - Len(s) THEN Text[i]
                                           ELSE s[i - (mlen - Len(s))]
    BY <1>4, <2>3, <2>6, BrimmedText
  <2>8. slen + k = mlen /\ k \in Nat
    BY <1>2, <2>1
  <2> HIDE DEF k
  <2>9. /\ Text \o s \in Seq(Char) /\ Len(Text \o s) = slen + k
        /\ \A i \in 1 .. slen + k : (Text \o s)[i] = IF i <= slen THEN Text[i] ELSE s[i - slen]
    BY <1>2, <2>3, ConcatProperties
  <2>10. Text' = Text \o s
    BY <2>6, <2>7, <2>8, <2>9, SameText
  <2>11. Abstract!Fail
    BY <1>1, <2>1, <2>4, <2>5, <2>7, <2>10 DEF Abstract!Fail, Abstract!Does
  <2> QED BY <2>11 DEF Abstract!Next
<1> QED BY <1>1, <1>3, <1>4

\* bassign and bassignmidstr.
LEMMA AssignRefines ==
  ASSUME Terminated, NullIsNoText, str, NEW a, IsArg(a), NEW t \in Seq(Char),
         Len(t) <= Len(a.text), NEW call, call = <<"assign", t>>, Assign(a, t, call)
  PROVE  Abstract!Next
<1> DEFINE b == [a EXCEPT !.text = t]
<1>1. /\ slen \in Nat /\ mlen \in Nat /\ slen <= mlen /\ Holds(data, mlen, slen)
      /\ Size(data) = mlen
  BY StringInside, StringIs
<1>2. \/ t = <<>> /\ Becomes(data, 0, call)
      \/ \E d \in Blocks(Len(t)) : Becomes(Lay(d, 0, Through(b, d, FALSE)), Len(t), call)
      \/ Returns(call, "ERR")
  BY DEF Assign
<1>3. /\ call[1] \in Abstract!Changing /\ call[1] # "pattern"
      /\ t = Abstract!Result(Text, call)
  BY AddedResult DEF Abstract!Changing
<1>4. ASSUME t = <<>>, Becomes(data, 0, call) PROVE Abstract!Next
  <2> DEFINE n == 0
  <2>1. n \in 0 .. slen /\ Becomes(data, n, call)
    BY <1>1, <1>4
  <2>2. Len(t) = n /\ \A i \in 1 .. n : t[i] = Text[i]
    BY <1>4
  <2> HIDE DEF n
  <2> QED BY <1>3, <2>1, <2>2, CutText
<1>5. ASSUME NEW d \in Blocks(Len(t)), Becomes(Lay(d, 0, Through(b, d, FALSE)), Len(t), call)
      PROVE  Abstract!Next
  <2>1. Len(t) \in Nat /\ Len(a.text) \in Nat /\ (a.own => Len(t) < mlen)
    BY <1>1 DEF IsArg
  <2>2. Granted(d, Size(d), Len(t))
    BY <2>1, BlocksGranted
  <2>3. ~a.own \/ Size(d) = mlen
    BY <2>1, <2>2 DEF Granted
  <2>4. Through(b, d, FALSE) = t
    <3>1. b.own = a.own /\ b.text = t
      BY DEF IsArg
    <3> HIDE DEF b
    <3> QED BY <2>3, <3>1, ThroughIs
  <2>5. Holds(d, Size(d), slen) /\ Len(t) <= Size(d)
    BY <2>1, <2>2 DEF Granted
  <2> QED BY <1>5, <2>4, <2>5, AssignedText
<1> QED BY <1>2, <1>4, <1>5, ReturnsIs

\* bassign.
LEMMA BassignRefines ==
  ASSUME Terminated, NullIsNoText, NEW a \in Args, bassign(a)
  PROVE  Abstract!Next
<1> DEFINE call == <<"assign", a.text>>
<1>1. str /\ Assign(a, a.text, call) /\ call = <<"assign", a.text>>
  BY DEF bassign
<1> HIDE DEF call
<1>2. IsArg(a) /\ a.text \in Seq(Char) /\ Len(a.text) <= Len(a.text)
  BY ArgIs DEF IsArg
<1> QED BY <1>1, <1>2, AssignRefines

\* bassignmidstr.
LEMMA AssignmidstrRefines ==
  ASSUME Terminated, NullIsNoText, NEW a \in Args, NEW left \in Int, NEW len \in Int,
         bassignmidstr(a, left, len)
  PROVE  Abstract!Next
<1> DEFINE t == Mid(a.text, left, len)
           call == <<"assign", t>>
<1>1. str /\ Assign(a, t, call) /\ call = <<"assign", t>>
  BY DEF bassignmidstr
<1>2. IsArg(a) /\ a.text \in Seq(Char)
  BY ArgIs DEF IsArg
<1>3. t \in Seq(Char) /\ Len(t) <= Len(a.text)
  BY <1>2, MidIs
<1> HIDE DEF call, t
<1> QED BY <1>1, <1>2, <1>3, AssignRefines

\* bassignblk.
LEMMA AssignblkRefines ==
  ASSUME Terminated, NullIsNoText, NEW t \in Texts, bassignblk(t)
  PROVE  Abstract!Next
<1> DEFINE n    == Len(t)
           call == <<"assign", t>>
<1>1. /\ str
      /\ \/ \E d \in IF n + 1 > mlen THEN Blocks(n + 1) ELSE {data} :
              Becomes(Lay(d, 0, t), n, call)
         \/ Returns(call, "ERR")
  BY DEF bassignblk
<1>2. t \in Seq(Char) /\ n \in Nat /\ slen \in Nat /\ mlen \in Nat
  BY <1>1, StringInside, TextIs
<1>3. ASSUME NEW d \in IF n + 1 > mlen THEN Blocks(n + 1) ELSE {data},
             Becomes(Lay(d, 0, t), n, call)
      PROVE  Abstract!Next
  <2>1. (d = data /\ n < mlen) \/ d \in Blocks(n + 1)
    BY <1>2
  <2>2. Holds(d, Size(d), slen) /\ n <= Size(d)
    BY <1>1, <1>2, <2>1, RoomFor DEF Holds, IsBlock
  <2>3. call = <<"assign", t>>
    OBVIOUS
  <2> HIDE DEF call
  <2> QED BY <1>1, <1>2, <1>3, <2>2, <2>3, AssignedText
<1> HIDE DEF call
<1> QED BY <1>1, <1>3, ReturnsIs

\* bassigncstr.  When the block cannot grow, what fits has been stored.
LEMMA AssigncstrRefines ==
  ASSUME Terminated, NullIsNoText, NEW t \in Texts, bassigncstr(t)
  PROVE  Abstract!Next
<1> DEFINE n    == Len(t)
           call == <<"assigncstr", t>>
           s    == SubSeq(t, 1, mlen)
<1>1. /\ str
      /\ \/ n < mlen /\ Becomes(Lay(data, 0, t), n, call)
         \/ \E d \in Blocks(n + 1) : Becomes(Lay(d, 0, t), n, call)
         \/ n >= mlen /\ Brimmed(s, call)
  BY DEF bassigncstr
<1>2. t \in Seq(Char) /\ n \in Nat /\ slen \in Nat /\ mlen \in Nat /\ slen <= mlen
  BY <1>1, StringInside, TextIs
<1>3. ASSUME NEW d, (d = data /\ n < mlen) \/ d \in Blocks(n + 1),
             Becomes(Lay(d, 0, t), n, call)
      PROVE  Abstract!Next
  <2>1. Holds(d, Size(d), slen) /\ n <= Size(d)
    BY <1>1, <1>2, <1>3, RoomFor DEF Holds, IsBlock
  <2>2. call = <<"assigncstr", t>>
    OBVIOUS
  <2> HIDE DEF call
  <2> QED BY <1>1, <1>2, <1>3, <2>1, <2>2, AssignedText
<1>4. ASSUME n >= mlen, Brimmed(s, call)
      PROVE  Abstract!Next
  <2>1. mlen \in 0 .. n
    BY <1>2, <1>4
  <2>2. \A i \in 1 .. mlen : t[i] \in Char
    BY <1>2, <2>1, ElementOfSeq
  <2>3. s \in Seq(Char) /\ Len(s) = mlen
    BY <1>2, <2>2, SubSeqProperties
  <2>4. s = Abstract!First(call[2], mlen)
    BY DEF Abstract!First
  <2>5. call[1] = "assigncstr" /\ call[2] = t
    OBVIOUS
  <2> HIDE DEF call, s, n
  <2>6. mlen <= slen + Len(s) /\ Len(s) <= mlen /\ mlen - Len(s) = 0
    BY <1>2, <2>3
  <2>7. /\ str' = str /\ ret' = <<call, "ERR">> /\ Text' \in Seq(Char) /\ Len(Text') = mlen
        /\ \A i \in 1 .. mlen : Text'[i] = IF i <= mlen - Len(s) THEN Text[i]
                                           ELSE s[i - (mlen - Len(s))]
    BY <1>4, <2>3, <2>6, BrimmedText
  <2>8. \A i \in 1 .. mlen : Text'[i] = s[i]
    <3>1. TAKE i \in 1 .. mlen
    <3>2. ~(i <= mlen - Len(s)) /\ i - (mlen - Len(s)) = i
      BY <2>6
    <3> QED BY <2>7, <3>2
  <2>9. Text' = s
    BY <2>3, <2>7, <2>8, SameText
  <2>10. Abstract!Fail
    BY <1>1, <2>1, <2>4, <2>5, <2>7, <2>9 DEF Abstract!Fail, Abstract!Does, n
  <2> QED BY <2>10 DEF Abstract!Next
<1> QED BY <1>1, <1>3, <1>4

-----------------------------------------------------------------------------
(* Making and destroying, as AbstractString says.                          *)

\* A string that is handed out has the text it was made of.
LEMMA CreateText ==
  ASSUME NEW t \in Seq(Char), NEW n \in Nat, NEW call, Create(t, n, call), n >= Len(t),
         call[1] \in Abstract!Making, call[2] = t
  PROVE  Abstract!Next
<1>1. /\ data' = [i \in 0 .. n - 1 |->
                    IF i < Len(t) THEN t[i + 1] ELSE IF i = Len(t) THEN NUL ELSE JUNK]
      /\ slen' = Len(t) /\ ~str /\ str' = TRUE /\ ret' = <<call, "OK">>
  BY DEF Create
<1>2. Text' = [i \in 1 .. Len(t) |-> data'[i - 1]]
  BY <1>1 DEF Text
<1>3. Len(t) \in Nat /\ t = [i \in 1 .. Len(t) |-> t[i]]
  OBVIOUS
<1>4. \A i \in 1 .. Len(t) : data'[i - 1] = t[i]
  BY <1>1, <1>3
<1>5. Text' = t
  BY <1>2, <1>3, <1>4
<1>6. Abstract!Make
  BY <1>1, <1>5 DEF Abstract!Make, Abstract!Does
<1> QED BY <1>6 DEF Abstract!Next

\* bfromcstr.
LEMMA FromcstrRefines ==
  ASSUME Terminated, NullIsNoText, NEW t \in Texts, bfromcstr(t)
  PROVE  Abstract!Next
<1> DEFINE k == Len(t) + IF t = <<>> THEN 2 ELSE 1
           n == snapUpSize(k)
           call == <<"fromcstr", t>>
<1>1. t \in Seq(Char) /\ Len(t) \in Nat /\ k \in Nat /\ k > Len(t)
  BY TextIs
<1>2. n \in Nat /\ n >= k
  BY <1>1, SnapGrows
<1>3. Create(t, n, call) \/ Returns(call, "ERR")
  BY DEF bfromcstr
<1>4. call[1] \in Abstract!Making /\ call[2] = t
  BY DEF Abstract!Making
<1> HIDE DEF n, k, call
<1>5. n >= Len(t)
  BY <1>1, <1>2
<1> QED BY <1>1, <1>2, <1>3, <1>4, <1>5, CreateText, ReturnsIs

\* bfromcstrrangealloc, whatever size it got.
LEMMA RangeallocRefines ==
  ASSUME Terminated, NullIsNoText, NEW t \in Texts, NEW minl \in Nat, NEW maxl \in Nat,
         bfromcstrrangealloc(minl, maxl, t)
  PROVE  Abstract!Next
<1> DEFINE least == Max({minl, Len(t) + 1})
           most  == Max({maxl, least})
           call  == <<"fromcstrrangealloc", t>>
<1>1. \/ Create(t, most, call)
      \/ \E n \in Tried(least, most) : Create(t, n, call)
      \/ Returns(call, "ERR")
  BY DEF bfromcstrrangealloc
<1>2. t \in Seq(Char) /\ Len(t) \in Nat
  BY TextIs
<1>3. least \in Nat /\ least >= Len(t) + 1
  BY <1>2, MaxOfTwo
<1>4. call[1] \in Abstract!Making /\ call[2] = t
  BY DEF Abstract!Making
<1> HIDE DEF least, call
<1>5. most \in Nat /\ most >= least
  BY <1>3, MaxOfTwo
<1> HIDE DEF most
<1>6. ASSUME Create(t, most, call) PROVE Abstract!Next
  <2>1. most >= Len(t)
    BY <1>2, <1>3, <1>5
  <2> QED BY <1>2, <1>4, <1>5, <1>6, <2>1, CreateText
<1>7. ASSUME NEW n \in Tried(least, most), Create(t, n, call)
      PROVE  Abstract!Next
  <2>1. n \in Nat /\ n + 1 >= least
    BY <1>3, <1>5, TriedBound
  <2>2. n >= Len(t)
    BY <1>2, <1>3, <2>1
  <2> QED BY <1>2, <1>4, <1>7, <2>1, <2>2, CreateText
<1> QED BY <1>1, <1>6, <1>7, ReturnsIs

\* bdestroy.
LEMMA DestroyRefines ==
  ASSUME Terminated, NullIsNoText, bdestroy
  PROVE  Abstract!Next
<1>1. str /\ str' = FALSE /\ ret' = <<<<"destroy">>, "OK">>
  BY DEF bdestroy
<1>2. Text # NULL
  BY StringIs DEF NullIsNoText
<1>3. Abstract!Destroy
  BY <1>1, <1>2 DEF Abstract!Destroy, Abstract!Does
<1> QED BY <1>3 DEF Abstract!Next

-----------------------------------------------------------------------------
(* Editing, as AbstractString says.                                        *)

\* A part of a text.
LEMMA SliceIs ==
  ASSUME NEW S, NEW s \in Seq(S), NEW low \in Nat, NEW high \in Int, high <= Len(s)
  PROVE  /\ SubSeq(s, low + 1, high) \in Seq(S)
         /\ Len(SubSeq(s, low + 1, high)) = (IF low < high THEN high - low ELSE 0)
         /\ \A i \in 1 .. high - low : SubSeq(s, low + 1, high)[i] = s[low + i]
<1> DEFINE a == low + 1
           u == SubSeq(s, a, high)
<1>1. Len(s) \in Nat /\ \A i \in 1 .. Len(s) : s[i] \in S
  BY ElementOfSeq
<1>2. a \in Int /\ a >= 1 /\ high - a + 1 = high - low /\ (a <= high <=> low < high)
  OBVIOUS
<1> HIDE DEF a
<1>3. \A i \in a .. high : s[i] \in S
  BY <1>1, <1>2
<1>4. /\ u \in Seq(S) /\ Len(u) = (IF a <= high THEN high - a + 1 ELSE 0)
      /\ \A i \in 1 .. high - a + 1 : u[i] = s[a + i - 1]
  BY <1>2, <1>3, SubSeqProperties
<1> HIDE DEF u
<1>5. \A i \in 1 .. high - low : u[i] = s[low + i]
  <2>1. TAKE i \in 1 .. high - low
  <2>2. i \in 1 .. high - a + 1 /\ a + i - 1 = low + i
    BY <1>2 DEF a
  <2> QED BY <1>4, <2>2
<1> QED BY <1>2, <1>4, <1>5 DEF u, a

\* What a piece is.
LEMMA PieceIs ==
  ASSUME NEW s, NEW from \in Int, NEW to \in Int
  PROVE  Abstract!Piece(s, from, to)
           = SubSeq(s, (IF from > 0 THEN from ELSE 0) + 1, IF to < Len(s) THEN to + 1 ELSE Len(s))
BY DEF Abstract!Piece, Abstract!Larger

\* The first n characters.
LEMMA FirstIs ==
  ASSUME NEW S, NEW s \in Seq(S), NEW n \in 0 .. Len(s)
  PROVE  /\ Abstract!First(s, n) \in Seq(S) /\ Len(Abstract!First(s, n)) = n
         /\ \A i \in 1 .. n : Abstract!First(s, n)[i] = s[i]
<1>1. Len(s) \in Nat /\ \A i \in 1 .. Len(s) : s[i] \in S
  BY ElementOfSeq
<1>2. \A i \in 1 .. n : s[i] \in S
  BY <1>1
<1>3. /\ SubSeq(s, 1, n) \in Seq(S) /\ Len(SubSeq(s, 1, n)) = IF 1 <= n THEN n - 1 + 1 ELSE 0
      /\ \A i \in 1 .. n - 1 + 1 : SubSeq(s, 1, n)[i] = s[1 + i - 1]
  BY <1>1, <1>2, SubSeqProperties
<1> QED BY <1>1, <1>3 DEF Abstract!First

\* What trunc makes of a text.
LEMMA TruncResult ==
  ASSUME NEW s, NEW n
  PROVE  Abstract!Result(s, <<"trunc", n>>)
           = Abstract!First(s, IF n < Len(s) THEN n ELSE Len(s))
BY DEF Abstract!Result

\* btrunc.
LEMMA TruncRefines ==
  ASSUME Terminated, NullIsNoText, NEW n \in Nat, btrunc(n)
  PROVE  Abstract!Next
<1> DEFINE call == <<"trunc", n>>
           m    == IF n < Len(Text) THEN n ELSE Len(Text)
           t    == Abstract!First(Text, m)
<1>1. str /\ ((slen > n /\ Becomes(data, n, call)) \/ (slen <= n /\ Returns(call, "OK")))
  BY DEF btrunc
<1>2. slen \in Nat /\ Text \in Seq(Char) /\ Len(Text) = slen
  BY <1>1, StringInside, StringIs
<1>3. m \in 0 .. slen /\ (slen > n => m = n) /\ (slen <= n => m = slen)
  BY <1>2
<1>4. t = Abstract!Result(Text, call)
  BY TruncResult
<1>5. call[1] \in Abstract!Changing /\ call[1] # "pattern"
  BY DEF Abstract!Changing
<1> HIDE DEF call, m
<1>6. t \in Seq(Char) /\ Len(t) = m /\ \A i \in 1 .. m : t[i] = Text[i]
  BY <1>2, <1>3, FirstIs
<1> HIDE DEF t
<1>7. CASE slen > n /\ Becomes(data, n, call)
  <2>1. m = n /\ n \in 0 .. slen
    BY <1>2, <1>3, <1>7
  <2> QED BY <1>1, <1>4, <1>5, <1>6, <1>7, <2>1, CutText
<1>8. CASE slen <= n /\ Returns(call, "OK")
  <2>1. t = Text
    BY <1>2, <1>3, <1>6, <1>8, SameText
  <2> QED BY <1>1, <1>4, <1>5, <1>8, <2>1, ReturnsIs
<1> QED BY <1>1, <1>7, <1>8

\* What delete makes of one.
Deleted(s, left, length) ==
  Abstract!Piece(s, 0, left - 1) \o Abstract!Piece(s, left + length, Len(s))

\* That is what its call stands for.
LEMMA DeleteResult ==
  ASSUME NEW s, NEW left, NEW length
  PROVE  Abstract!Result(s, <<"delete", left, length>>) = Deleted(s, left, length)
BY DEF Abstract!Result, Deleted

\* The text u is s without the len characters at pos.
Without(u, s, pos, len) ==
  /\ Len(u) = IF pos >= Len(s) THEN Len(s) ELSE IF pos + len >= Len(s) THEN pos ELSE Len(s) - len
  /\ \A i \in 1 .. Len(u) : u[i] = IF i <= pos THEN s[i] ELSE s[len + i]

\* That is what delete leaves.
LEMMA DeletedIs ==
  ASSUME NEW S, NEW s \in Seq(S), NEW left \in Int, NEW length \in Int, NEW pos \in Nat,
         NEW len \in Nat, pos = (IF left >= 0 THEN left ELSE 0), pos + len = left + length
  PROVE  /\ Deleted(s, left, length) \in Seq(S)
         /\ Without(Deleted(s, left, length), s, pos, len)
<1> DEFINE u == Deleted(s, left, length)
           v == Abstract!Piece(s, 0, left - 1)
           w == Abstract!Piece(s, left + length, Len(s))
           n == Len(s)
           k == IF pos < n THEN pos ELSE n
           m == IF pos + len < n THEN n - (pos + len) ELSE 0
<1>1. n \in Nat
  OBVIOUS
<1>2. /\ pos = (IF left >= 0 THEN left ELSE 0) /\ pos \in Nat /\ len \in Nat
      /\ pos + len = left + length
  OBVIOUS
<1> HIDE DEF n
<1>3. v \in Seq(S) /\ Len(v) = k /\ \A i \in 1 .. k : v[i] = s[i]
  <2> DEFINE low == 0
             high == IF left - 1 < n THEN (left - 1) + 1 ELSE n
  <2>1. v = SubSeq(s, low + 1, high)
    BY DEF Abstract!Piece, Abstract!Larger, n
  <2>2. high \in Int /\ high <= n /\ low \in Nat /\ (IF low < high THEN high - low ELSE 0) = k
    <3>1. CASE left < 0
      BY <1>1, <1>2, <3>1
    <3>2. CASE left >= 0
      BY <1>1, <1>2, <3>2
    <3> QED BY <3>1, <3>2
  <2>3. \A i \in 1 .. k : i \in 1 .. high - low /\ low + i = i
    BY <1>1, <2>2
  <2> HIDE DEF low, high, k, v
  <2>4. /\ v \in Seq(S) /\ Len(v) = (IF low < high THEN high - low ELSE 0)
        /\ \A i \in 1 .. high - low : v[i] = s[low + i]
    BY <2>1, <2>2, SliceIs DEF n
  <2> QED BY <2>2, <2>3, <2>4
<1>4. w \in Seq(S) /\ Len(w) = m /\ \A i \in 1 .. m : w[i] = s[pos + len + i]
  <2> DEFINE low == pos + len
             high == n
  <2>1. w = SubSeq(s, low + 1, high)
    <3>1. low = (IF left + length > 0 THEN left + length ELSE 0) /\ left + length \in Int
          /\ n = (IF n < n THEN n + 1 ELSE n) /\ n \in Int
      BY <1>1, <1>2
    <3> QED BY <3>1, PieceIs DEF n
  <2>2. high \in Int /\ high <= n /\ low \in Nat /\ (IF low < high THEN high - low ELSE 0) = m
        /\ \A i \in 1 .. m : i \in 1 .. high - low
    BY <1>1, <1>2
  <2> HIDE DEF low, high, m, w
  <2>3. /\ w \in Seq(S) /\ Len(w) = (IF low < high THEN high - low ELSE 0)
        /\ \A i \in 1 .. high - low : w[i] = s[low + i]
    BY <2>1, <2>2, SliceIs DEF n
  <2> QED BY <2>2, <2>3 DEF low
<1> HIDE DEF u, v, w
<1>5. /\ v \o w \in Seq(S) /\ Len(v \o w) = Len(v) + Len(w)
      /\ \A i \in 1 .. Len(v) + Len(w) : (v \o w)[i] = IF i <= Len(v) THEN v[i] ELSE w[i - Len(v)]
  BY <1>3, <1>4, ConcatProperties
<1>6. u = v \o w
  BY DEF Deleted, u, v, w
<1>7. k \in Nat /\ m \in Nat
  BY <1>1, <1>2
<1>8. u \in Seq(S) /\ Len(u) = k + m
  BY <1>3, <1>4, <1>5, <1>6
<1>9. k + m = IF pos >= n THEN n ELSE IF pos + len >= n THEN pos ELSE n - len
  BY <1>1, <1>2
<1>10. ASSUME NEW i \in 1 .. Len(u) PROVE u[i] = IF i <= pos THEN s[i] ELSE s[len + i]
  <2>1. i \in 1 .. k + m
    BY <1>8
  <2>2. CASE i <= k
    <3>1. i <= pos /\ i \in 1 .. k
      BY <1>1, <1>2, <1>7, <2>1, <2>2
    <3> QED BY <1>3, <1>4, <1>5, <1>6, <2>1, <2>2, <3>1
  <2>3. CASE ~(i <= k)
    <3>1. m # 0 /\ i - k \in 1 .. m
      BY <1>7, <2>1, <2>3
    <3>2. pos < n /\ k = pos
      BY <1>1, <1>2, <3>1
    <3> HIDE DEF k, m
    <3>3. ~(i <= pos) /\ pos + len + (i - k) = len + i
      BY <1>2, <2>1, <2>3, <3>2
    <3>4. u[i] = w[i - k] /\ w[i - k] = s[pos + len + (i - k)]
      BY <1>3, <1>4, <1>5, <1>6, <2>1, <2>3, <3>1
    <3> QED BY <3>3, <3>4
  <2> QED BY <2>2, <2>3
<1>11. /\ u \in Seq(S)
       /\ Len(u) = IF pos >= n THEN n ELSE IF pos + len >= n THEN pos ELSE n - len
       /\ \A i \in 1 .. Len(u) : u[i] = IF i <= pos THEN s[i] ELSE s[len + i]
  BY <1>8, <1>9, <1>10
<1> QED BY <1>11 DEF Without, n, u

\* What follows in the string, character by character.
LEMMA BehindText ==
  ASSUME Terminated, str, NEW pos \in Nat, NEW len \in Nat
  PROVE  \A i \in 1 .. slen - (pos + len) : Behind(pos, len)[i] = Text[pos + len + i]
<1>1. slen \in Nat /\ Text \in Seq(Char) /\ Len(Text) = slen
  BY StringInside, StringIs
<1> DEFINE low == pos + len
<1>2. Behind(pos, len) = SubSeq(Text, low + 1, slen) /\ low \in Nat
  BY DEF Behind
<1> HIDE DEF low
<1>3. \A i \in 1 .. slen - low : Behind(pos, len)[i] = Text[low + i]
  BY <1>1, <1>2, SliceIs
<1> QED BY <1>3 DEF low

\* A text is written into the string, which ends with it or later.
LEMMA LaidRefines ==
  ASSUME Terminated, NullIsNoText, str, NEW s \in Seq(Char), NEW at \in 0 .. slen,
         NEW n \in 0 .. slen, NEW call, Becomes(Lay(data, at, s), n, call),
         NEW t \in Seq(Char), Len(t) = n,
         \A i \in 1 .. n : t[i] = IF i <= at \/ i > at + Len(s) THEN Text[i] ELSE s[i - at],
         call[1] \in Abstract!Changing, call[1] # "pattern",
         t = Abstract!Result(Text, call)
  PROVE  Abstract!Next
<1>1. slen \in Nat /\ mlen \in Nat /\ slen <= mlen /\ Holds(data, mlen, slen) /\ Size(data) = mlen
  BY StringInside, StringIs
<1>2. n \in 0 .. Size(data)
  BY <1>1
<1>3. /\ Holds(Lay(data, at, s), Size(data), n)
      /\ \A i \in 1 .. n : Lay(data, at, s)[i - 1]
                             = IF i <= at \/ i > at + Len(s) THEN Text[i] ELSE s[i - at]
  BY <1>1, <1>2, StringAtData, LaidText
<1>4. \A i \in 1 .. n : Lay(data, at, s)[i - 1] = t[i]
  BY <1>3
<1> QED BY <1>3, <1>4, BecomesText

\* bdelete.
LEMMA DeleteRefines ==
  ASSUME Terminated, NullIsNoText, NEW left \in Int, NEW length \in Int, bdelete(left, length)
  PROVE  Abstract!Next
<1> DEFINE pos  == Max({left, 0})
           len  == length + Min({left, 0})
           call == <<"delete", left, length>>
           s    == Behind(pos, len)
           t    == Deleted(Text, left, length)
<1>1. /\ str
      /\ \/ Returns(call, "ERR")
         \/ (len = 0 \/ (len > 0 /\ pos >= slen)) /\ Returns(call, "OK")
         \/ len > 0 /\ pos < slen /\ Becomes(Lay(data, pos, s), pos + Len(s), call)
  BY DEF bdelete
<1>2. slen \in Nat /\ Text \in Seq(Char) /\ Len(Text) = slen
  BY <1>1, StringInside, StringIs
<1>3. pos = (IF left >= 0 THEN left ELSE 0) /\ len = length + (IF left <= 0 THEN left ELSE 0)
  BY MaxOfTwo, MinOfTwo
<1>4. t = Abstract!Result(Text, call)
  BY DeleteResult
<1>5. call[1] \in Abstract!Changing /\ call[1] # "pattern"
  BY DEF Abstract!Changing
<1> HIDE DEF call, pos, len
<1>6. pos \in Nat /\ len \in Int
  BY <1>3
<1>7. pos + len = left + length
  <2>1. CASE left >= 0
    BY <1>3, <2>1
  <2>2. CASE left < 0
    BY <1>3, <2>2
  <2> QED BY <2>1, <2>2
<1>8. ASSUME len >= 0
      PROVE  /\ t \in Seq(Char)
             /\ Len(t) = IF pos >= slen THEN slen
                         ELSE IF pos + len >= slen THEN pos ELSE slen - len
             /\ \A i \in 1 .. Len(t) : t[i] = IF i <= pos THEN Text[i] ELSE Text[len + i]
  <2>1. len \in Nat
    BY <1>6, <1>8
  <2>2. t \in Seq(Char) /\ Without(t, Text, pos, len)
    BY <1>2, <1>3, <1>6, <1>7, <2>1, DeletedIs
  <2> HIDE DEF t
  <2> QED BY <1>2, <2>2 DEF Without
<1> HIDE DEF t
<1>9. ASSUME len = 0 \/ (len > 0 /\ pos >= slen), Returns(call, "OK") PROVE Abstract!Next
  <2>1. len >= 0
    BY <1>6, <1>9
  <2>2. Len(t) = slen
    BY <1>2, <1>6, <1>8, <1>9, <2>1
  <2>3. \A i \in 1 .. slen : t[i] = Text[i]
    <3>1. TAKE i \in 1 .. slen
    <3>2. CASE i <= pos
      BY <1>8, <2>1, <2>2, <3>2
    <3>3. CASE ~(i <= pos)
      <4>1. len = 0 /\ len + i = i
        BY <1>2, <1>6, <1>9, <3>3
      <4> QED BY <1>8, <2>1, <2>2, <4>1
    <3> QED BY <3>2, <3>3
  <2>4. t = Text
    BY <1>2, <1>8, <2>1, <2>2, <2>3, SameText
  <2> QED BY <1>1, <1>4, <1>5, <1>9, <2>4, ReturnsIs
<1>10. ASSUME len > 0, pos < slen, Becomes(Lay(data, pos, s), pos + Len(s), call)
       PROVE  Abstract!Next
  <2>1. len \in Nat /\ len >= 0 /\ pos \in 0 .. slen
    BY <1>2, <1>6, <1>10
  <2>2. /\ s \in Seq(Char) /\ Len(s) = IF pos + len <= slen THEN slen - (pos + len) ELSE 0
        /\ \A i \in 1 .. slen - (pos + len) : s[i] = Text[pos + len + i]
    BY <1>1, <1>6, <2>1, BehindIs, BehindText
  <2> HIDE DEF s
  <2> DEFINE n == pos + Len(s)
  <2>3. n \in 0 .. slen /\ Len(t) = n
    BY <1>2, <1>6, <1>8, <1>10, <2>1, <2>2
  <2>4. \A i \in 1 .. n : t[i] = IF i <= pos \/ i > pos + Len(s) THEN Text[i] ELSE s[i - pos]
    <3>1. TAKE i \in 1 .. n
    <3>2. CASE i <= pos
      BY <1>8, <2>1, <2>3, <3>2
    <3>3. CASE ~(i <= pos)
      <4>1. ~(i > pos + Len(s))
        BY <1>6, <2>2
      <4>2. i - pos \in 1 .. slen - (pos + len) /\ pos + len + (i - pos) = len + i
        BY <1>2, <1>6, <2>1, <2>2, <3>3
      <4>3. s[i - pos] = Text[len + i]
        BY <2>2, <4>2
      <4> QED BY <1>8, <2>1, <2>3, <3>3, <4>1, <4>3
    <3> QED BY <3>2, <3>3
  <2>5. Becomes(Lay(data, pos, s), n, call)
    BY <1>10
  <2> HIDE DEF n
  <2> QED BY <1>1, <1>4, <1>5, <1>8, <2>1, <2>2, <2>3, <2>4, <2>5, LaidRefines, SMTT(60)
<1> QED BY <1>1, <1>9, <1>10, ReturnsIs

\* What the trimming calls make of a text.
LEMMA TrimmedResult ==
  ASSUME NEW s
  PROVE  /\ Abstract!Result(s, <<"ltrimws">>) = Abstract!Piece(s, Abstract!Solid(s).from, Len(s))
         /\ Abstract!Result(s, <<"rtrimws">>) = Abstract!Piece(s, 0, Abstract!Solid(s).to)
         /\ Abstract!Result(s, <<"trimws">>)
              = Abstract!Piece(s, Abstract!Solid(s).from, Abstract!Solid(s).to)
BY DEF Abstract!Result

\* Where the string has something else than spaces.
Solids == {i \in 0 .. slen - 1 : data[i] \notin Spaces}

\* The first and the last of them.
LEMMA SolidIs ==
  ASSUME Terminated, str
  PROVE  /\ Solids \subseteq 0 .. slen - 1 /\ Solids \in SUBSET Nat
         /\ Solids = {} => Abstract!Solid(Text) = [from |-> slen, to |-> -1]
         /\ Solids # {} => /\ Abstract!Solid(Text) = [from |-> Min(Solids), to |-> Max(Solids)]
                           /\ Min(Solids) \in 0 .. slen - 1 /\ Max(Solids) \in 0 .. slen - 1
                           /\ \A k \in Solids : Min(Solids) <= k /\ k <= Max(Solids)
<1>1. /\ slen \in Nat /\ Text \in Seq(Char) /\ Len(Text) = slen
      /\ \A i \in 1 .. slen : Text[i] = data[i - 1]
  BY StringInside, StringIs
<1>2. Solids = {i \in 0 .. Len(Text) - 1 : Text[i + 1] \notin Spaces}
  <2>1. \A i \in 0 .. slen - 1 : Text[i + 1] = data[i]
    <3>1. TAKE i \in 0 .. slen - 1
    <3>2. i + 1 \in 1 .. slen /\ (i + 1) - 1 = i
      BY <1>1
    <3> QED BY <1>1, <3>2
  <2> QED BY <1>1, <2>1 DEF Solids
<1>3. Solids \subseteq 0 .. slen - 1 /\ Solids \in SUBSET Nat /\ Solids \in SUBSET (0 .. slen)
  BY <1>1 DEF Solids
<1>4. Abstract!Solid(Text)
        = IF Solids = {} THEN [from |-> Len(Text), to |-> -1]
          ELSE [from |-> CHOOSE i \in Solids : \A j \in Solids : i <= j,
                to   |-> CHOOSE i \in Solids : \A j \in Solids : i >= j]
  BY <1>2, Zenon DEF Abstract!Solid
<1>5. Solids # {} => /\ Min(Solids) \in Solids /\ Max(Solids) \in Solids
                     /\ \A k \in Solids : Min(Solids) <= k /\ Max(Solids) >= k
  BY <1>1, <1>3, MinIsLeast, MaxIsMost
<1>6. Solids # {} => /\ Min(Solids) \in 0 .. slen - 1 /\ Max(Solids) \in 0 .. slen - 1
                     /\ \A k \in Solids : Min(Solids) <= k /\ k <= Max(Solids)
  BY <1>1, <1>3, <1>5
<1> QED BY <1>1, <1>3, <1>4, <1>6 DEF Min, Max

\* A piece that ends before the text does, and one that does not.
LEMMA PartIs ==
  ASSUME NEW S, NEW s \in Seq(S), NEW from \in Nat, NEW to \in Int, to < Len(s)
  PROVE  /\ Abstract!Piece(s, from, to) \in Seq(S)
         /\ Len(Abstract!Piece(s, from, to)) = (IF from < to + 1 THEN to + 1 - from ELSE 0)
         /\ \A i \in 1 .. to + 1 - from : Abstract!Piece(s, from, to)[i] = s[from + i]
<1> DEFINE high == to + 1
<1>1. Abstract!Piece(s, from, to) = SubSeq(s, from + 1, high)
  BY DEF Abstract!Piece, Abstract!Larger
<1>2. high \in Int /\ high <= Len(s) /\ high = to + 1
  OBVIOUS
<1> HIDE DEF high
<1>3. /\ SubSeq(s, from + 1, high) \in Seq(S)
      /\ Len(SubSeq(s, from + 1, high)) = (IF from < high THEN high - from ELSE 0)
      /\ \A i \in 1 .. high - from : SubSeq(s, from + 1, high)[i] = s[from + i]
  BY <1>2, SliceIs
<1> QED BY <1>1, <1>3 DEF high

\* What is left of a text from a position on.
LEMMA RestIs ==
  ASSUME NEW S, NEW s \in Seq(S), NEW from \in Nat
  PROVE  /\ Abstract!Piece(s, from, Len(s)) \in Seq(S)
         /\ Len(Abstract!Piece(s, from, Len(s))) = (IF from < Len(s) THEN Len(s) - from ELSE 0)
         /\ \A i \in 1 .. Len(s) - from : Abstract!Piece(s, from, Len(s))[i] = s[from + i]
<1> DEFINE n == Len(s)
<1>1. n \in Nat /\ ~(n < n) /\ n <= n
  OBVIOUS
<1> HIDE DEF n
<1>2. Abstract!Piece(s, from, n) = SubSeq(s, from + 1, n)
  BY <1>1 DEF Abstract!Piece, Abstract!Larger, n
<1>3. /\ SubSeq(s, from + 1, n) \in Seq(S)
      /\ Len(SubSeq(s, from + 1, n)) = (IF from < n THEN n - from ELSE 0)
      /\ \A i \in 1 .. n - from : SubSeq(s, from + 1, n)[i] = s[from + i]
  BY <1>1, SliceIs DEF n
<1> QED BY <1>2, <1>3 DEF n

\* bltrimws.
LEMMA LtrimwsRefines ==
  ASSUME Terminated, NullIsNoText, bltrimws
  PROVE  Abstract!Next
<1> DEFINE call == <<"ltrimws">>
           a    == Min(Solids)
           s    == Behind(0, a)
           t    == Abstract!Piece(Text, Abstract!Solid(Text).from, Len(Text))
<1>1. /\ str
      /\ \/ Solids # {} /\ a > 0 /\ Becomes(Lay(data, 0, s), slen - a, call)
         \/ Solids # {} /\ a = 0 /\ Returns(call, "OK")
         \/ Solids = {} /\ Becomes(data, 0, call)
  BY DEF bltrimws, Solids
<1>2. slen \in Nat /\ Text \in Seq(Char) /\ Len(Text) = slen
  BY <1>1, StringInside, StringIs
<1>3. /\ Solids = {} => Abstract!Solid(Text).from = slen
      /\ Solids # {} => Abstract!Solid(Text).from = a /\ a \in 0 .. slen - 1
  BY <1>1, SolidIs
<1>4. t = Abstract!Result(Text, call)
  BY TrimmedResult
<1>5. call[1] \in Abstract!Changing /\ call[1] # "pattern"
  BY DEF Abstract!Changing
<1> HIDE DEF call, a
<1>6. CASE Solids = {}
  <2>1. t = Abstract!Piece(Text, slen, Len(Text))
    BY <1>3, <1>6
  <2> HIDE DEF t
  <2>2. t \in Seq(Char) /\ Len(t) = (IF slen < Len(Text) THEN Len(Text) - slen ELSE 0)
    BY <1>2, <2>1, RestIs
  <2> DEFINE n == 0
  <2>3. n \in 0 .. slen /\ Len(t) = n /\ \A i \in 1 .. n : t[i] = Text[i]
    BY <1>2, <2>2
  <2>4. Becomes(data, n, call)
    BY <1>1, <1>6
  <2> HIDE DEF n
  <2> QED BY <1>1, <1>4, <1>5, <2>2, <2>3, <2>4, CutText
<1>7. CASE Solids # {}
  <2>1. t = Abstract!Piece(Text, a, Len(Text)) /\ a \in Nat /\ a < slen
    BY <1>2, <1>3, <1>7
  <2> HIDE DEF t
  <2>2. t \in Seq(Char) /\ Len(t) = (IF a < Len(Text) THEN Len(Text) - a ELSE 0)
        /\ \A i \in 1 .. Len(Text) - a : t[i] = Text[a + i]
    BY <1>2, <2>1, RestIs
  <2>3. Len(t) = slen - a /\ \A i \in 1 .. slen - a : t[i] = Text[a + i]
    BY <1>2, <2>1, <2>2
  <2>4. CASE a > 0 /\ Becomes(Lay(data, 0, s), slen - a, call)
    <3> DEFINE n  == slen - a
               at == 0
    <3>1. n \in 0 .. slen /\ at \in 0 .. slen /\ at \in Nat
      BY <1>2, <2>1
    <3>2. s \in Seq(Char) /\ Len(s) = n /\ \A i \in 1 .. n : s[i] = Text[a + i]
      <4>1. /\ s \in Seq(Char) /\ Len(s) = IF at + a <= slen THEN slen - (at + a) ELSE 0
            /\ \A i \in 1 .. slen - (at + a) : s[i] = Text[at + a + i]
        <5>1. s = Behind(at, a) /\ at \in Nat
          OBVIOUS
        <5> HIDE DEF s, at
        <5> QED BY <1>1, <2>1, <5>1, BehindIs, BehindText
      <4>2. at + a = a
        BY <2>1
      <4> HIDE DEF at, s
      <4> QED BY <1>2, <2>1, <4>1, <4>2
    <3>3. \A i \in 1 .. n : t[i] = IF i <= at \/ i > at + Len(s) THEN Text[i] ELSE s[i - at]
      <4> HIDE DEF s
      <4>1. TAKE i \in 1 .. n
      <4>2. ~(i <= at) /\ ~(i > at + Len(s)) /\ i - at = i
        BY <3>1, <3>2
      <4> QED BY <2>3, <3>2, <4>2
    <3>4. Becomes(Lay(data, at, s), n, call) /\ Len(t) = n
      BY <2>3, <2>4
    <3> HIDE DEF n, at, s
    <3> QED BY <1>1, <1>4, <1>5, <2>2, <3>1, <3>2, <3>3, <3>4, LaidRefines, SMTT(60)
  <2>5. CASE a = 0 /\ Returns(call, "OK")
    <3>1. Len(t) = slen /\ \A i \in 1 .. slen : t[i] = Text[i]
      BY <1>2, <2>3, <2>5
    <3>2. t = Text
      BY <1>2, <2>2, <3>1, SameText
    <3> QED BY <1>1, <1>4, <1>5, <2>5, <3>2, ReturnsIs
  <2> QED BY <1>1, <1>7, <2>4, <2>5
<1> QED BY <1>6, <1>7

\* brtrimws.
LEMMA RtrimwsRefines ==
  ASSUME Terminated, NullIsNoText, brtrimws
  PROVE  Abstract!Next
<1> DEFINE ends == {i + 1 : i \in Solids} \cup {0}
           call == <<"rtrimws">>
           n    == Max(ends)
           to   == Abstract!Solid(Text).to
           t    == Abstract!Piece(Text, 0, to)
<1>1. str /\ Becomes(data, n, call)
  BY DEF brtrimws, Solids
<1>2. slen \in Nat /\ Text \in Seq(Char) /\ Len(Text) = slen
  BY <1>1, StringInside, StringIs
<1>3. /\ Solids \subseteq 0 .. slen - 1
      /\ Solids = {} => to = -1
      /\ Solids # {} => to \in Solids /\ \A k \in Solids : k <= to
  <2>1. /\ Solids \subseteq 0 .. slen - 1 /\ Solids \in SUBSET (0 .. slen)
        /\ Solids = {} => to = -1
        /\ Solids # {} => to = Max(Solids)
    BY <1>1, <1>2, SolidIs
  <2>2. Solids # {} => Max(Solids) \in Solids /\ \A k \in Solids : Max(Solids) >= k
    BY <1>2, <2>1, MaxIsMost
  <2> HIDE DEF to
  <2> QED BY <1>2, <2>1, <2>2
<1> HIDE DEF to
<1>4. n = to + 1 /\ to \in Int /\ to < slen /\ n \in 0 .. slen
  <2>1. \A k : k \in ends <=> k = 0 \/ \E i \in Solids : k = i + 1
    OBVIOUS
  <2> HIDE DEF ends
  <2>2. to \in Int /\ to < slen /\ to + 1 \in ends
    <3>1. CASE Solids = {}
      BY <1>2, <1>3, <2>1, <3>1
    <3>2. CASE Solids # {}
      <4>1. to \in Solids /\ to \in 0 .. slen - 1
        BY <1>3, <3>2
      <4> QED BY <1>2, <2>1, <4>1
    <3> QED BY <3>1, <3>2
  <2>3. \A k \in ends : k <= to + 1 /\ k \in 0 .. slen
    <3>1. TAKE k \in ends
    <3>2. CASE k = 0
      <4>1. Solids # {} => to \in 0 .. slen - 1
        BY <1>3
      <4> QED BY <1>2, <1>3, <3>2, <4>1
    <3>3. ASSUME NEW i \in Solids, k = i + 1 PROVE k <= to + 1 /\ k \in 0 .. slen
      BY <1>2, <1>3, <2>2, <3>3
    <3> QED BY <2>1, <3>2, <3>3
  <2>4. n \in ends /\ \A k \in ends : n >= k
    <3>1. ends \in SUBSET (0 .. slen) /\ ends # {}
      BY <2>2, <2>3
    <3> QED BY <1>2, <3>1, MaxIsMost
  <2> HIDE DEF n
  <2>5. n <= to + 1 /\ n >= to + 1 /\ n \in 0 .. slen
    BY <2>2, <2>3, <2>4
  <2> QED BY <2>2, <2>5
<1>5. t = Abstract!Result(Text, call)
  BY TrimmedResult DEF to
<1>6. call[1] \in Abstract!Changing /\ call[1] # "pattern"
  BY DEF Abstract!Changing
<1> DEFINE from == 0
<1>7. t = Abstract!Piece(Text, from, to) /\ from \in Nat /\ to < Len(Text)
  BY <1>2, <1>4
<1> HIDE DEF call, n, t
<1>8. /\ t \in Seq(Char) /\ Len(t) = (IF from < to + 1 THEN to + 1 - from ELSE 0)
      /\ \A i \in 1 .. to + 1 - from : t[i] = Text[from + i]
  <2> HIDE DEF from
  <2> QED BY <1>2, <1>4, <1>7, PartIs
<1>9. Len(t) = n /\ \A i \in 1 .. n : t[i] = Text[i]
  BY <1>4, <1>8
<1> QED BY <1>1, <1>4, <1>5, <1>6, <1>8, <1>9, CutText

\* btrimws.
LEMMA TrimwsRefines ==
  ASSUME Terminated, NullIsNoText, btrimws
  PROVE  Abstract!Next
<1> DEFINE call == <<"trimws">>
           a    == Min(Solids)
           b    == Max(Solids)
           s    == SubSeq(Text, a + 1, b + 1)
           t    == Abstract!Piece(Text, Abstract!Solid(Text).from, Abstract!Solid(Text).to)
<1>1. /\ str
      /\ \/ Solids # {} /\ Becomes(Lay(data, 0, s), Len(s), call)
         \/ Solids = {} /\ Becomes(data, 0, call)
  BY DEF btrimws, Solids
<1>2. slen \in Nat /\ Text \in Seq(Char) /\ Len(Text) = slen
  BY <1>1, StringInside, StringIs
<1>3. /\ Solids = {} => Abstract!Solid(Text).from = slen /\ Abstract!Solid(Text).to = -1
      /\ Solids # {} => /\ Abstract!Solid(Text).from = a /\ Abstract!Solid(Text).to = b
                        /\ a \in 0 .. slen - 1 /\ b \in 0 .. slen - 1
  BY <1>1, SolidIs
<1>4. t = Abstract!Result(Text, call)
  BY TrimmedResult
<1>5. call[1] \in Abstract!Changing /\ call[1] # "pattern"
  BY DEF Abstract!Changing
<1> HIDE DEF call, a, b
<1>6. CASE Solids = {}
  <2> DEFINE to == -1
  <2>1. t = Abstract!Piece(Text, slen, to) /\ to \in Int /\ to < Len(Text) /\ ~(slen < to + 1)
    BY <1>2, <1>3, <1>6
  <2> HIDE DEF t, to
  <2>2. t \in Seq(Char) /\ Len(t) = (IF slen < to + 1 THEN to + 1 - slen ELSE 0)
    BY <1>2, <2>1, PartIs
  <2> DEFINE n == 0
  <2>3. n \in 0 .. slen /\ Len(t) = n /\ \A i \in 1 .. n : t[i] = Text[i]
    BY <1>2, <2>1, <2>2
  <2>4. Becomes(data, n, call)
    BY <1>1, <1>6
  <2> HIDE DEF n
  <2> QED BY <1>1, <1>4, <1>5, <2>2, <2>3, <2>4, CutText
<1>7. CASE Solids # {}
  <2>1. t = Abstract!Piece(Text, a, b) /\ a \in Nat /\ b \in Int /\ b < Len(Text)
    BY <1>2, <1>3, <1>7
  <2> HIDE DEF t
  <2>2. /\ t \in Seq(Char) /\ Len(t) = (IF a < b + 1 THEN b + 1 - a ELSE 0)
        /\ \A i \in 1 .. b + 1 - a : t[i] = Text[a + i]
    BY <1>2, <2>1, PartIs
  <2> DEFINE high == b + 1
             n == Len(s)
             at == 0
  <2>3. high \in Int /\ high <= Len(Text) /\ s = SubSeq(Text, a + 1, high)
    BY <1>2, <2>1
  <2> HIDE DEF high, s
  <2>4. /\ s \in Seq(Char) /\ Len(s) = (IF a < high THEN high - a ELSE 0)
        /\ \A i \in 1 .. high - a : s[i] = Text[a + i]
    BY <1>2, <2>1, <2>3, SliceIs
  <2>5. t = s
    BY <2>1, <2>2, <2>4, SameText DEF high
  <2>6. n \in 0 .. slen /\ at \in 0 .. slen
    BY <1>2, <2>1, <2>3, <2>4
  <2>7. \A i \in 1 .. n : t[i] = IF i <= at \/ i > at + Len(s) THEN Text[i] ELSE s[i - at]
    <3>1. TAKE i \in 1 .. n
    <3>2. ~(i <= at) /\ ~(i > at + Len(s)) /\ i - at = i
      BY <2>4
    <3> QED BY <2>5, <3>2
  <2>8. Becomes(Lay(data, at, s), n, call) /\ Len(t) = n
    BY <1>1, <1>7, <2>5
  <2> HIDE DEF at, n
  <2> QED BY <1>1, <1>4, <1>5, <2>2, <2>4, <2>6, <2>7, <2>8, LaidRefines
<1> QED BY <1>6, <1>7

\* What toupper and tolower make of a text.
LEMMA CasedResult ==
  ASSUME NEW s
  PROVE  /\ Abstract!Result(s, <<"toupper">>) = Abstract!Cased(s, Upper)
         /\ Abstract!Result(s, <<"tolower">>) = Abstract!Cased(s, Lower)
BY DEF Abstract!Result

\* What pattern makes of one.
LEMMA PatternResult ==
  ASSUME NEW s, NEW n
  PROVE  Abstract!Result(s, <<"pattern", n>>) = [i \in 1 .. n |-> s[((i - 1) % Len(s)) + 1]]
BY DEF Abstract!Result

\* A call that has changed the case of all characters.
LEMMA RecasedText ==
  ASSUME Terminated, NullIsNoText, NEW case \in [Char -> Char], NEW name,
         Recased(case, name), <<name>>[1] \in Abstract!Changing, <<name>>[1] # "pattern",
         Abstract!Cased(Text, case) = Abstract!Result(Text, <<name>>)
  PROVE  Abstract!Next
<1> DEFINE s    == [i \in 1 .. slen |-> case[Text[i]]]
           call == <<name>>
           at   == 0
<1>1. str /\ Becomes(Lay(data, at, s), slen, call)
  BY DEF Recased
<1>2. slen \in Nat /\ Text \in Seq(Char) /\ Len(Text) = slen
  BY <1>1, StringInside, StringIs
<1>3. s \in Seq(Char) /\ Len(s) = slen
  <2>1. \A i \in 1 .. slen : case[Text[i]] \in Char
    BY <1>2, ElementOfSeq
  <2> QED BY <1>2, <2>1
<1>4. s = Abstract!Cased(Text, case)
  <2>1. DOMAIN Text = 1 .. slen
    BY <1>2
  <2> QED BY <2>1 DEF Abstract!Cased
<1>5. s = Abstract!Result(Text, call)
  BY <1>4
<1>6. call[1] \in Abstract!Changing /\ call[1] # "pattern"
  OBVIOUS
<1> HIDE DEF s, call
<1>7. at \in 0 .. slen /\ slen \in 0 .. slen
  BY <1>2
<1>8. \A i \in 1 .. slen : s[i] = IF i <= at \/ i > at + Len(s) THEN Text[i] ELSE s[i - at]
  BY <1>2, <1>3
<1> HIDE DEF at
<1> QED BY <1>1, <1>3, <1>5, <1>6, <1>7, <1>8, LaidRefines

\* btoupper and btolower.
LEMMA RecasedRefines ==
  ASSUME Terminated, NullIsNoText, btoupper \/ btolower
  PROVE  Abstract!Next
<1>1. Upper \in [Char -> Char] /\ Lower \in [Char -> Char]
  BY ConstantsAssumption
<1>2. /\ <<"toupper">>[1] \in Abstract!Changing /\ <<"toupper">>[1] # "pattern"
      /\ <<"tolower">>[1] \in Abstract!Changing /\ <<"tolower">>[1] # "pattern"
  BY DEF Abstract!Changing
<1>3. ASSUME btoupper PROVE Abstract!Next
  <2>1. Recased(Upper, "toupper")
    BY <1>3 DEF btoupper
  <2>2. Abstract!Cased(Text, Upper) = Abstract!Result(Text, <<"toupper">>)
    BY CasedResult
  <2> QED BY <1>1, <1>2, <2>1, <2>2, RecasedText
<1>4. ASSUME btolower PROVE Abstract!Next
  <2>1. Recased(Lower, "tolower")
    BY <1>4 DEF btolower
  <2>2. Abstract!Cased(Text, Lower) = Abstract!Result(Text, <<"tolower">>)
    BY CasedResult
  <2> QED BY <1>1, <1>2, <2>1, <2>2, RecasedText
<1> QED BY <1>3, <1>4

\* A text is written to the beginning of the block, and nothing else is left.
LEMMA OnlyText ==
  ASSUME Terminated, NullIsNoText, str, NEW t \in Seq(Char), NEW d,
         Holds(d, Size(d), slen), StringAt(d), Len(t) <= Size(d), NEW n, n = Len(t),
         NEW call, Becomes(Lay(d, 0, t), n, call),
         call[1] \in Abstract!Changing, call[1] = "pattern" => Text # <<>>,
         t = Abstract!Result(Text, call)
  PROVE  Abstract!Next
<1>1. /\ n \in 0 .. Size(d) /\ slen \in Nat
  BY StringInside DEF Holds, IsBlock
<1>2. PICK at \in 0 .. slen : at = 0
  BY <1>1
<1>3. n <= at + Len(t) /\ Becomes(Lay(d, at, t), n, call)
  BY <1>1, <1>2
<1>4. /\ Holds(Lay(d, at, t), Size(d), n)
      /\ \A i \in 1 .. n : Lay(d, at, t)[i - 1]
                             = IF i <= at \/ i > at + Len(t) THEN Text[i] ELSE t[i - at]
  BY <1>1, <1>3, LaidText
<1>5. \A i \in 1 .. n : Lay(d, at, t)[i - 1] = t[i]
  <2>1. TAKE i \in 1 .. n
  <2>2. ~(i <= at \/ i > at + Len(t)) /\ i - at = i
    BY <1>1, <1>2
  <2> QED BY <1>4, <2>2
<1> QED BY <1>3, <1>4, <1>5, BecomesText

\* bpattern.
LEMMA PatternRefines ==
  ASSUME Terminated, NullIsNoText, NEW len \in Nat, bpattern(len)
  PROVE  Abstract!Next
<1> DEFINE s    == [i \in 1 .. len |-> Text[((i - 1) % slen) + 1]]
           call == <<"pattern", len>>
<1>1. /\ str
      /\ \/ slen > 0 /\ \E d \in Blocks(len + 1) : Becomes(Lay(d, 0, s), len, call)
         \/ Returns(call, "ERR")
  BY DEF bpattern
<1>2. /\ slen \in Nat /\ mlen \in Nat /\ Text \in Seq(Char) /\ Len(Text) = slen
  BY <1>1, StringInside, StringIs
<1>3. slen > 0 => s \in Seq(Char) /\ Len(s) = len
  <2> SUFFICES ASSUME slen > 0 PROVE s \in Seq(Char) /\ Len(s) = len
    OBVIOUS
  <2>1. \A i \in 1 .. len : ((i - 1) % slen) + 1 \in 1 .. slen
    BY <1>2
  <2>2. \A i \in 1 .. len : Text[((i - 1) % slen) + 1] \in Char
    BY <1>2, <2>1, ElementOfSeq
  <2> QED BY <2>2
<1>4. s = Abstract!Result(Text, call)
  BY <1>2, PatternResult
<1>5. call[1] \in Abstract!Changing
  BY DEF Abstract!Changing
<1> HIDE DEF s, call
<1>6. ASSUME slen > 0, NEW d \in Blocks(len + 1), Becomes(Lay(d, 0, s), len, call)
      PROVE  Abstract!Next
  <2>1. Holds(d, Size(d), slen) /\ len < Size(d) /\ Size(d) \in Nat
    BY <1>1, RoomFor DEF Holds, IsBlock
  <2>2. len + 1 \in Int
    OBVIOUS
  <2>3. StringAt(d)
    BY <2>2, BlocksKeepText
  <2>4. Text # <<>> /\ Len(s) <= Size(d) /\ len = Len(s) /\ s \in Seq(Char)
    BY <1>2, <1>3, <1>6, <2>1
  <2> QED BY <1>1, <1>4, <1>5, <1>6, <2>1, <2>3, <2>4, OnlyText
<1> QED BY <1>1, <1>6, ReturnsIs

\* A text with something put for some of it.
Spliced(p, t, pos, end) == Abstract!First(p, pos) \o t \o Abstract!From(p, end)

\* What it is made of.
Splices(u, p, t, pos, end) ==
  /\ Len(u) = pos + Len(t) + IF end < Len(p) THEN Len(p) - end ELSE 0
  /\ \A i \in 1 .. Len(u) :
       u[i] = IF i <= pos THEN p[i] ELSE IF i <= pos + Len(t) THEN t[i - pos]
              ELSE p[end + (i - (pos + Len(t)))]

\* That is what splicing makes.
LEMMA SplicedIs ==
  ASSUME NEW S, NEW p \in Seq(S), NEW t \in Seq(S), NEW pos \in 0 .. Len(p), NEW end \in Nat
  PROVE  Spliced(p, t, pos, end) \in Seq(S) /\ Splices(Spliced(p, t, pos, end), p, t, pos, end)
<1> DEFINE v == Abstract!First(p, pos)
           w == Abstract!From(p, end)
           n == Len(p)
           u == Spliced(p, t, pos, end)
           x == v \o t
           m == IF end < n THEN n - end ELSE 0
<1>1. n \in Nat /\ Len(t) \in Nat /\ pos \in Nat /\ pos <= n
  OBVIOUS
<1>2. v \in Seq(S) /\ Len(v) = pos /\ \A i \in 1 .. pos : v[i] = p[i]
  BY FirstIs
<1>3. w = SubSeq(p, end + 1, n) /\ n <= Len(p) /\ n \in Int
  BY <1>1 DEF Abstract!From
<1>4. u = x \o w
  BY DEF Spliced
<1> HIDE DEF v, w, n, u
<1>5. w \in Seq(S) /\ Len(w) = m /\ \A i \in 1 .. n - end : w[i] = p[end + i]
  BY <1>3, SliceIs
<1>6. /\ x \in Seq(S) /\ Len(x) = pos + Len(t)
      /\ \A i \in 1 .. pos + Len(t) : x[i] = IF i <= pos THEN v[i] ELSE t[i - pos]
  BY <1>2, ConcatProperties
<1> HIDE DEF x, m
<1>7. /\ u \in Seq(S) /\ Len(u) = pos + Len(t) + m
      /\ \A i \in 1 .. pos + Len(t) + m :
           u[i] = IF i <= pos + Len(t) THEN x[i] ELSE w[i - (pos + Len(t))]
  <2>1. /\ x \o w \in Seq(S) /\ Len(x \o w) = Len(x) + Len(w)
        /\ \A i \in 1 .. Len(x) + Len(w) :
             (x \o w)[i] = IF i <= Len(x) THEN x[i] ELSE w[i - Len(x)]
    BY <1>5, <1>6, ConcatProperties
  <2>2. Len(x) = pos + Len(t) /\ Len(w) = m
    BY <1>5, <1>6
  <2> QED BY <1>4, <2>1, <2>2, Zenon
<1>8. ASSUME NEW i \in 1 .. Len(u)
      PROVE  u[i] = IF i <= pos THEN p[i] ELSE IF i <= pos + Len(t) THEN t[i - pos]
                    ELSE p[end + (i - (pos + Len(t)))]
  <2>1. i \in 1 .. pos + Len(t) + m /\ m \in Nat
    BY <1>1, <1>7 DEF m
  <2>2. CASE i <= pos + Len(t)
    <3>1. u[i] = x[i] /\ i \in 1 .. pos + Len(t)
      BY <1>1, <1>7, <2>1, <2>2
    <3>2. x[i] = IF i <= pos THEN v[i] ELSE t[i - pos]
      BY <1>6, <3>1
    <3>3. i <= pos => i \in 1 .. pos
      BY <1>1, <3>1
    <3> QED BY <1>2, <2>2, <3>1, <3>2, <3>3
  <2>3. CASE ~(i <= pos + Len(t))
    <3>1. u[i] = w[i - (pos + Len(t))]
      BY <1>7, <2>1, <2>3
    <3>2. i - (pos + Len(t)) \in 1 .. m
      BY <1>1, <2>1, <2>3
    <3>3. i - (pos + Len(t)) \in 1 .. n - end /\ ~(i <= pos)
      BY <1>1, <2>3, <3>2 DEF m
    <3> QED BY <1>5, <2>3, <3>1, <3>3
  <2> QED BY <2>2, <2>3
<1> QED BY <1>7, <1>8 DEF Splices, m, n, u

\* A text filled up to a length.
Filling(u, s, n, fill) ==
  /\ Len(u) = IF n > Len(s) THEN n ELSE Len(s)
  /\ \A i \in 1 .. Len(u) : u[i] = IF i <= Len(s) THEN s[i] ELSE fill

\* That is what padding makes.
LEMMA PaddedIs ==
  ASSUME NEW S, NEW s \in Seq(S), NEW n \in Nat, NEW fill \in S
  PROVE  /\ Abstract!Padded(s, n, fill) \in Seq(S)
         /\ Filling(Abstract!Padded(s, n, fill), s, n, fill)
<1> DEFINE k == Len(s)
           r == Run(fill, n - k)
           u == s \o r
<1>1. k \in Nat /\ n - k \in Int
  OBVIOUS
<1>2. r \in Seq(S) /\ Len(r) = IF n - k > 0 THEN n - k ELSE 0
  BY <1>1, RunIs
<1>3. \A i \in 1 .. n - k : r[i] = fill
  BY DEF Run
<1>4. Abstract!Padded(s, n, fill) = u
  BY DEF Abstract!Padded, Run
<1> HIDE DEF r
<1>5. /\ u \in Seq(S) /\ Len(u) = k + Len(r)
      /\ \A i \in 1 .. k + Len(r) : u[i] = IF i <= k THEN s[i] ELSE r[i - k]
  BY <1>2, ConcatProperties
<1> HIDE DEF u
<1>6. Len(u) = IF n > k THEN n ELSE k
  BY <1>1, <1>2, <1>5
<1>7. ASSUME NEW i \in 1 .. Len(u) PROVE u[i] = IF i <= k THEN s[i] ELSE fill
  <2>1. i \in 1 .. k + Len(r)
    BY <1>5
  <2>2. ~(i <= k) => i - k \in 1 .. n - k
    BY <1>1, <1>6
  <2> QED BY <1>3, <1>5, <2>1, <2>2
<1> QED BY <1>4, <1>5, <1>6, <1>7 DEF Filling

\* The block c is d with s in the bytes from at on.
Reads(c, d, m, at, s) ==
  /\ IsBlock(c, m)
  /\ \A i \in 0 .. m - 1 : c[i] = IF at <= i /\ i < at + Len(s) THEN s[i - at + 1] ELSE d[i]

\* That is what writing s to it makes of it.
LEMMA LayReads ==
  ASSUME NEW d, NEW m, IsBlock(d, m), NEW s \in Seq(Char), NEW at \in Int
  PROVE  Reads(Lay(d, at, s), d, m, at, s)
BY StuffIs, LayIs DEF Reads

\* What is in a block in which a text was laid over the string.
LEMMA OverlaidText ==
  ASSUME Terminated, NEW d, Holds(d, Size(d), slen), StringAt(d), NEW t \in Seq(Char),
         NEW fill \in Char, NEW pos \in Nat, NEW n \in 0 .. Size(d),
         n <= slen \/ n <= pos + Len(t)
  PROVE  /\ Holds(Overlaid(d, pos, t, fill), Size(d), n)
         /\ \A i \in 1 .. n :
              Overlaid(d, pos, t, fill)[i - 1]
                = IF pos < i /\ i <= pos + Len(t) THEN t[i - pos]
                  ELSE IF i <= slen THEN Text[i] ELSE fill
<1> DEFINE m == Size(d)
<1>1. Holds(d, m, slen) /\ n \in 0 .. m
  OBVIOUS
<1> HIDE DEF m
<1>2. Holds(Overlaid(d, pos, t, fill), m, n)
  BY <1>1, OverlaidHolds
<1>3. m \in Nat /\ slen \in Nat /\ IsBlock(d, m) /\ slen <= m
  BY <1>1 DEF Holds, IsBlock
<1> DEFINE r == Run(fill, pos - slen)
           e == Lay(d, slen, r)
<1>4. r \in Seq(Char) /\ Len(r) = (IF pos - slen > 0 THEN pos - slen ELSE 0)
  <2>1. pos - slen \in Int
    BY <1>3
  <2> QED BY <2>1, RunIs
<1>5. \A i \in 1 .. pos - slen : r[i] = fill
  BY DEF Run
<1>6. Len(t) \in Nat /\ slen \in Int /\ pos \in Int
  BY <1>3
<1> HIDE DEF r
<1>7. /\ IsBlock(e, m)
      /\ \A i \in 0 .. m - 1 :
           e[i] = IF slen <= i /\ i < slen + Len(r) THEN r[i - slen + 1] ELSE d[i]
  BY <1>3, <1>4, <1>6, StuffIs, LayIs, ZenonT(60)
<1> HIDE DEF e
<1> DEFINE o == Lay(e, pos, t)
<1>8. o = Lay(e, pos, t)
  OBVIOUS
<1>9. Overlaid(d, pos, t, fill) = o
  BY DEF Overlaid, o, e, r
<1> HIDE DEF o
<1>10. /\ IsBlock(o, m)
      /\ \A i \in 0 .. m - 1 :
           o[i] = IF pos <= i /\ i < pos + Len(t) THEN t[i - pos + 1] ELSE e[i]
  <2>1. Reads(o, e, m, pos, t)
    BY <1>6, <1>7, <1>8, LayReads
  <2> QED BY <2>1 DEF Reads
<1>11. ASSUME NEW i \in 1 .. n
       PROVE  o[i - 1] = IF pos < i /\ i <= pos + Len(t) THEN t[i - pos]
                         ELSE IF i <= slen THEN Text[i] ELSE fill
  <2>1. i - 1 \in 0 .. m - 1 /\ (i - 1) - pos + 1 = i - pos
    BY <1>1, <1>3
  <2>2. CASE pos < i /\ i <= pos + Len(t)
    <3>1. pos <= i - 1 /\ i - 1 < pos + Len(t)
      BY <1>6, <2>2
    <3> QED BY <1>10, <2>1, <2>2, <3>1
  <2>3. CASE ~(pos < i /\ i <= pos + Len(t))
    <3>1. o[i - 1] = e[i - 1]
      <4>1. ~(pos <= i - 1 /\ i - 1 < pos + Len(t))
        BY <1>6, <2>3
      <4> QED BY <1>10, <2>1, <4>1
    <3>2. CASE i <= slen
      <4>1. ~(slen <= i - 1 /\ i - 1 < slen + Len(r)) /\ i \in 1 .. slen
        BY <1>6, <3>2
      <4> QED BY <1>7, <2>1, <2>3, <3>1, <3>2, <4>1 DEF StringAt
    <3>3. CASE ~(i <= slen)
      <4>1. i <= pos
        BY <1>3, <1>6, <2>3, <3>3
      <4>2. /\ slen <= i - 1 /\ i - 1 < slen + Len(r) /\ (i - 1) - slen + 1 = i - slen
            /\ i - slen \in 1 .. pos - slen
        BY <1>3, <1>4, <1>6, <3>3, <4>1
      <4> QED BY <1>5, <1>7, <2>1, <2>3, <3>1, <3>3, <4>2
    <3> QED BY <3>2, <3>3
  <2> QED BY <2>2, <2>3
<1> QED BY <1>2, <1>9, <1>11 DEF m

\* And in one in which a text follows what was put before it.
LEMMA TwoLaidText ==
  ASSUME Terminated, NEW d, Holds(d, Size(d), slen), StringAt(d), NEW s \in Seq(Char),
         NEW t \in Seq(Char), NEW pos \in 0 .. slen, NEW n \in 0 .. Size(d),
         n = pos + Len(t) + Len(s)
  PROVE  /\ Holds(Lay(Lay(d, pos + Len(t), s), pos, t), Size(d), n)
         /\ \A i \in 1 .. n :
              Lay(Lay(d, pos + Len(t), s), pos, t)[i - 1]
                = IF i <= pos THEN Text[i] ELSE IF i <= pos + Len(t) THEN t[i - pos]
                  ELSE s[i - (pos + Len(t))]
<1> DEFINE m  == Size(d)
           at == pos + Len(t)
           e  == Lay(d, at, s)
           o  == Lay(e, pos, t)
<1>1. Holds(d, m, slen) /\ n \in 0 .. m
  OBVIOUS
<1> HIDE DEF m
<1>2. Holds(o, m, n)
  BY <1>1, TwoLaid
<1>3. m \in Nat /\ slen \in Nat /\ IsBlock(d, m) /\ slen <= m /\ Len(s) \in Nat /\ Len(t) \in Nat
  BY <1>1 DEF Holds, IsBlock
<1>4. at \in Int /\ pos \in Int /\ pos \in Nat /\ n = at + Len(s)
  BY <1>3
<1>5. /\ IsBlock(e, m)
      /\ \A i \in 0 .. m - 1 : e[i] = IF at <= i /\ i < at + Len(s) THEN s[i - at + 1] ELSE d[i]
  <2> HIDE DEF at
  <2> QED BY <1>3, <1>4, StuffIs, LayIs, ZenonT(60)
<1>6. o = Lay(e, pos, t)
  OBVIOUS
<1> HIDE DEF e, o
<1>7. /\ IsBlock(o, m)
      /\ \A i \in 0 .. m - 1 :
           o[i] = IF pos <= i /\ i < pos + Len(t) THEN t[i - pos + 1] ELSE e[i]
  <2>1. Reads(o, e, m, pos, t)
    BY <1>4, <1>5, <1>6, LayReads
  <2> QED BY <2>1 DEF Reads
<1>8. ASSUME NEW i \in 1 .. n
      PROVE  o[i - 1] = IF i <= pos THEN Text[i] ELSE IF i <= at THEN t[i - pos] ELSE s[i - at]
  <2>1. i - 1 \in 0 .. m - 1 /\ (i - 1) - pos + 1 = i - pos /\ (i - 1) - at + 1 = i - at
    BY <1>1, <1>3
  <2>2. CASE i <= pos
    <3>1. ~(pos <= i - 1 /\ i - 1 < pos + Len(t)) /\ ~(at <= i - 1 /\ i - 1 < at + Len(s))
          /\ i \in 1 .. slen
      BY <1>3, <1>4, <2>2
    <3> QED BY <1>5, <1>7, <2>1, <2>2, <3>1 DEF StringAt
  <2>3. CASE ~(i <= pos) /\ i <= at
    <3>1. pos <= i - 1 /\ i - 1 < pos + Len(t)
      BY <1>3, <1>4, <2>3
    <3> QED BY <1>7, <2>1, <2>3, <3>1
  <2>4. CASE ~(i <= at)
    <3>1. /\ ~(i <= pos) /\ ~(pos <= i - 1 /\ i - 1 < pos + Len(t))
          /\ at <= i - 1 /\ i - 1 < at + Len(s)
      BY <1>3, <1>4, <2>4
    <3> QED BY <1>5, <1>7, <2>1, <2>4, <3>1
  <2> QED BY <1>3, <1>4, <2>2, <2>3, <2>4
<1> QED BY <1>2, <1>8 DEF m, at, e, o

\* What setstr, insert and replace make of a text.
LEMMA SplicedResult ==
  ASSUME NEW s, NEW pos, NEW t, NEW fill
  PROVE  /\ Abstract!Result(s, <<"setstr", pos, t, fill>>)
              = Spliced(Abstract!Padded(s, pos, fill), t, pos, pos + Len(t))
         /\ Abstract!Result(s, <<"insert", pos, t, fill>>)
              = Spliced(Abstract!Padded(s, pos, fill), t, pos, pos)
BY DEF Abstract!Result, Spliced

\* And what replace makes of one.
LEMMA ReplacedResult ==
  ASSUME NEW s, NEW pos, NEW len, NEW t, NEW fill
  PROVE  Abstract!Result(s, <<"replace", pos, len, t, fill>>)
           = Spliced(Abstract!Padded(s, pos, fill), t, pos, pos + len)
BY DEF Abstract!Result, Spliced

\* The string with a gap filled, and t put for what lies between pos and end.
SplicedText(t, pos, end, fill) == Spliced(Abstract!Padded(Text, pos, fill), t, pos, end)

\* What it is made of.
IsSplicedText(u, t, pos, end, fill) ==
  /\ u \in Seq(Char)
  /\ Len(u) = pos + Len(t) + IF end < slen THEN slen - end ELSE 0
  /\ \A i \in 1 .. Len(u) :
       u[i] = IF i <= pos THEN (IF i <= slen THEN Text[i] ELSE fill)
              ELSE IF i <= pos + Len(t) THEN t[i - pos]
              ELSE Text[end + (i - (pos + Len(t)))]

\* That is what comes of splicing t into the string.
LEMMA SplicedTextIs ==
  ASSUME Terminated, str, NEW t \in Seq(Char), NEW pos \in Nat, NEW end \in Nat,
         NEW fill \in Char, end >= pos
  PROVE  IsSplicedText(SplicedText(t, pos, end, fill), t, pos, end, fill)
<1> DEFINE u == SplicedText(t, pos, end, fill)
           p == Abstract!Padded(Text, pos, fill)
<1>1. slen \in Nat /\ Text \in Seq(Char) /\ Len(Text) = slen
  BY StringInside, StringIs
<1>2. p \in Seq(Char) /\ Filling(p, Text, pos, fill)
  BY <1>1, PaddedIs
<1> HIDE DEF p
<1>3. /\ Len(p) = IF pos > slen THEN pos ELSE slen
      /\ \A i \in 1 .. Len(p) : p[i] = IF i <= slen THEN Text[i] ELSE fill
  BY <1>1, <1>2 DEF Filling
<1>4. pos \in 0 .. Len(p)
  BY <1>1, <1>3
<1>5. u = Spliced(p, t, pos, end)
  BY DEF SplicedText, p
<1> HIDE DEF u
<1>6. Spliced(p, t, pos, end) \in Seq(Char) /\ Splices(Spliced(p, t, pos, end), p, t, pos, end)
  BY <1>2, <1>4, SplicedIs
<1>7. /\ u \in Seq(Char) /\ Len(u) = pos + Len(t) + IF end < Len(p) THEN Len(p) - end ELSE 0
      /\ \A i \in 1 .. Len(u) :
           u[i] = IF i <= pos THEN p[i] ELSE IF i <= pos + Len(t) THEN t[i - pos]
                  ELSE p[end + (i - (pos + Len(t)))]
  BY <1>5, <1>6 DEF Splices
<1>8. Len(u) = pos + Len(t) + IF end < slen THEN slen - end ELSE 0
  <2>1. CASE end < slen
    <3>1. end < Len(p) /\ Len(p) - end = slen - end
      BY <1>1, <1>3, <2>1
    <3> QED BY <1>7, <2>1, <3>1
  <2>2. CASE ~(end < slen)
    <3>1. ~(end < Len(p))
      BY <1>1, <1>3, <2>2
    <3> QED BY <1>7, <2>2, <3>1
  <2> QED BY <2>1, <2>2
<1>9. ASSUME NEW i \in 1 .. Len(u)
      PROVE  u[i] = IF i <= pos THEN (IF i <= slen THEN Text[i] ELSE fill)
                    ELSE IF i <= pos + Len(t) THEN t[i - pos]
                    ELSE Text[end + (i - (pos + Len(t)))]
  <2>1. Len(t) \in Nat
    OBVIOUS
  <2>2. CASE i <= pos
    <3>1. i \in 1 .. Len(p)
      BY <1>4, <2>2
    <3> QED BY <1>3, <1>7, <2>2, <3>1
  <2>3. CASE ~(i <= pos) /\ i <= pos + Len(t)
    BY <1>7, <2>3
  <2>4. CASE ~(i <= pos + Len(t))
    <3> DEFINE k == end + (i - (pos + Len(t)))
    <3>1. k \in 1 .. Len(p) /\ k <= slen /\ ~(i <= pos)
      BY <1>1, <1>3, <1>8, <2>1, <2>4
    <3>2. p[k] = Text[k]
      BY <1>3, <3>1
    <3> QED BY <1>7, <2>4, <3>1, <3>2
  <2> QED BY <2>1, <2>2, <2>3, <2>4
<1> QED BY <1>7, <1>8, <1>9 DEF IsSplicedText, u

\* The bytes of such a text.
SplicedBytes(o, n, t, pos, end, fill) ==
  \A i \in 1 .. n :
    o[i - 1] = IF i <= pos THEN (IF i <= slen THEN Text[i] ELSE fill)
               ELSE IF i <= pos + Len(t) THEN t[i - pos]
               ELSE Text[end + (i - (pos + Len(t)))]

\* A call that puts t for what lies between pos and end has stored that text.
LEMMA SplicedStored ==
  ASSUME Terminated, NullIsNoText, str, NEW t \in Seq(Char), NEW pos \in Nat, NEW end \in Nat,
         end >= pos, NEW fill \in Char, NEW o, NEW m, NEW n, NEW top, NEW call, Holds(o, m, n),
         Stores(o, top, n, call), n = pos + Len(t) + IF end < slen THEN slen - end ELSE 0,
         SplicedBytes(o, n, t, pos, end, fill),
         call[1] \in Abstract!Changing, call[1] # "pattern",
         SplicedText(t, pos, end, fill) = Abstract!Result(Text, call)
  PROVE  Abstract!Next
<1> DEFINE u == SplicedText(t, pos, end, fill)
<1>1. u = SplicedText(t, pos, end, fill) /\ u = Abstract!Result(Text, call)
  OBVIOUS
<1> HIDE DEF u
<1>2. /\ u \in Seq(Char)
      /\ Len(u) = pos + Len(t) + IF end < slen THEN slen - end ELSE 0
      /\ \A i \in 1 .. Len(u) :
           u[i] = IF i <= pos THEN (IF i <= slen THEN Text[i] ELSE fill)
                  ELSE IF i <= pos + Len(t) THEN t[i - pos]
                  ELSE Text[end + (i - (pos + Len(t)))]
  <2>1. IsSplicedText(u, t, pos, end, fill)
    BY <1>1, SplicedTextIs
  <2> QED BY <2>1 DEF IsSplicedText
<1>3. Len(u) = n
  BY <1>2
<1>4. \A i \in 1 .. n : o[i - 1] = u[i]
  BY <1>2, <1>3 DEF SplicedBytes
<1> QED BY <1>2, <1>1, <1>3, <1>4, StoresText

\* So has one that lays it over the string, which goes on where t ends or not at all.
LEMMA OverlaidStored ==
  ASSUME Terminated, NullIsNoText, str, NEW t \in Seq(Char), NEW pos \in Nat, NEW end \in Nat,
         end >= pos, end = pos + Len(t) \/ end >= slen, NEW fill \in Char, NEW d,
         Holds(d, Size(d), slen), StringAt(d), NEW n, n <= Size(d), NEW top, NEW call,
         Stores(Overlaid(d, pos, t, fill), top, n, call),
         n = pos + Len(t) + IF end < slen THEN slen - end ELSE 0,
         call[1] \in Abstract!Changing, call[1] # "pattern",
         SplicedText(t, pos, end, fill) = Abstract!Result(Text, call)
  PROVE  Abstract!Next
<1>1. slen \in Nat /\ Size(d) \in Nat /\ Len(t) \in Nat
  BY DEF Holds, IsBlock
<1>2. n \in 0 .. Size(d) /\ (n <= slen \/ n <= pos + Len(t))
  BY <1>1
<1> DEFINE o == Overlaid(d, pos, t, fill)
           m == Size(d)
<1>3. /\ Holds(o, m, n)
      /\ \A i \in 1 .. n : o[i - 1] = IF pos < i /\ i <= pos + Len(t) THEN t[i - pos]
                                      ELSE IF i <= slen THEN Text[i] ELSE fill
  BY <1>2, OverlaidText
<1>4. Stores(o, top, n, call)
  OBVIOUS
<1> HIDE DEF o, m
<1>5. ASSUME NEW i \in 1 .. n
      PROVE  o[i - 1] = IF i <= pos THEN (IF i <= slen THEN Text[i] ELSE fill)
                        ELSE IF i <= pos + Len(t) THEN t[i - pos]
                        ELSE Text[end + (i - (pos + Len(t)))]
  <2>1. i \in Nat /\ i <= n
    BY <1>2
  <2>2. CASE i <= pos
    <3>1. ~(pos < i /\ i <= pos + Len(t))
      BY <2>1, <2>2
    <3> QED BY <1>3, <2>2, <3>1
  <2>3. CASE pos < i /\ i <= pos + Len(t)
    <3>1. ~(i <= pos)
      BY <2>1, <2>3
    <3> QED BY <1>3, <2>3, <3>1
  <2>4. CASE ~(i <= pos + Len(t))
    <3>1. i <= slen /\ end = pos + Len(t) /\ ~(i <= pos)
      BY <1>1, <2>1, <2>4
    <3>2. end + (i - (pos + Len(t))) = i
      BY <1>1, <2>1, <3>1
    <3> QED BY <1>3, <2>4, <3>1, <3>2
  <2> QED BY <1>1, <2>1, <2>2, <2>3, <2>4
<1>6. SplicedBytes(o, n, t, pos, end, fill)
  BY <1>5 DEF SplicedBytes
<1> QED BY <1>3, <1>4, <1>6, SplicedStored

\* And one that moves the rest of the string behind it.
LEMMA SpreadStored ==
  ASSUME Terminated, NullIsNoText, str, NEW t \in Seq(Char), NEW pos \in Nat, NEW len \in Nat,
         NEW end, end = pos + len, end <= slen, NEW fill \in Char, NEW d,
         Holds(d, Size(d), slen), StringAt(d), NEW n, n <= Size(d), NEW call,
         Becomes(Lay(Lay(d, pos + Len(t), Behind(pos, len)), pos, t), n, call),
         n = pos + Len(t) + (slen - end), call[1] \in Abstract!Changing, call[1] # "pattern",
         SplicedText(t, pos, end, fill) = Abstract!Result(Text, call)
  PROVE  Abstract!Next
<1>1. slen \in Nat /\ Size(d) \in Nat /\ Len(t) \in Nat /\ end \in Nat /\ end >= pos
  BY DEF Holds, IsBlock
<1> DEFINE s == Behind(pos, len)
<1>2. /\ s \in Seq(Char) /\ Len(s) = slen - end
      /\ \A i \in 1 .. slen - end : s[i] = Text[end + i]
  <2>1. pos + len <= slen
    OBVIOUS
  <2> QED BY <2>1, BehindIs, BehindText
<1> DEFINE o == Lay(Lay(d, pos + Len(t), s), pos, t)
           m == Size(d)
<1>3. Becomes(o, n, call)
  OBVIOUS
<1> HIDE DEF s
<1>4. pos \in 0 .. slen /\ n \in 0 .. Size(d) /\ n = pos + Len(t) + Len(s)
  BY <1>1, <1>2
<1>5. /\ Holds(o, m, n)
      /\ \A i \in 1 .. n :
           o[i - 1] = IF i <= pos THEN Text[i] ELSE IF i <= pos + Len(t) THEN t[i - pos]
                      ELSE s[i - (pos + Len(t))]
  BY <1>2, <1>4, TwoLaidText, SMTT(60)
<1> HIDE DEF o, m
<1>6. n = pos + Len(t) + IF end < slen THEN slen - end ELSE 0
  BY <1>1
<1>7. ASSUME NEW i \in 1 .. n
      PROVE  o[i - 1] = IF i <= pos THEN (IF i <= slen THEN Text[i] ELSE fill)
                        ELSE IF i <= pos + Len(t) THEN t[i - pos]
                        ELSE Text[end + (i - (pos + Len(t)))]
  <2>1. i \in Nat /\ i <= n
    BY <1>4
  <2>2. CASE i <= pos
    BY <1>1, <1>4, <1>5, <2>1, <2>2
  <2>3. CASE ~(i <= pos) /\ i <= pos + Len(t)
    BY <1>5, <2>3
  <2>4. CASE ~(i <= pos + Len(t))
    <3>1. i - (pos + Len(t)) \in 1 .. slen - end /\ ~(i <= pos)
      BY <1>1, <2>1, <2>4
    <3> QED BY <1>2, <1>5, <2>4, <3>1
  <2> QED BY <2>2, <2>3, <2>4
<1>8. SplicedBytes(o, n, t, pos, end, fill)
  BY <1>7 DEF SplicedBytes
<1> QED BY <1>1, <1>3, <1>5, <1>6, <1>8, SplicedStored DEF Becomes

\* bsetstr.
LEMMA SetstrRefines ==
  ASSUME Terminated, NullIsNoText, NEW a \in Args, NEW pos \in Nat, NEW fill \in Char,
         bsetstr(pos, a, fill)
  PROVE  Abstract!Next
<1> DEFINE t    == a.text
           end  == pos + Len(t)
           n    == Max({slen, end})
           call == <<"setstr", pos, t, fill>>
<1>1. /\ str
      /\ \/ \E d \in Blocks(end + 1) :
              Becomes(Overlaid(d, pos, Through(a, d, TRUE), fill), n, call)
         \/ Returns(call, "ERR")
  BY DEF bsetstr
<1>2. t \in Seq(Char) /\ Len(t) \in Nat
  BY ArgIs DEF IsArg
<1>3. slen \in Nat
  BY <1>1, StringInside
<1>4. end \in Nat /\ end >= pos /\ n = IF slen >= end THEN slen ELSE end
  BY <1>2, <1>3, MaxOfTwo
<1>5. SplicedText(t, pos, end, fill) = Abstract!Result(Text, call)
  BY SplicedResult DEF SplicedText
<1>6. call[1] \in Abstract!Changing /\ call[1] # "pattern"
  BY DEF Abstract!Changing
<1> HIDE DEF call, n
<1>7. ASSUME NEW d \in Blocks(end + 1),
             Becomes(Overlaid(d, pos, Through(a, d, TRUE), fill), n, call)
      PROVE  Abstract!Next
  <2>1. Granted(d, Size(d), end + 1) /\ StringAt(d)
    BY <1>4, BlocksGranted, BlocksKeepText
  <2>2. Through(a, d, TRUE) = t
    BY ThroughIs
  <2>3. Stores(Overlaid(d, pos, t, fill), n, n, call)
    BY <1>7, <2>2 DEF Becomes
  <2>4. Holds(d, Size(d), slen) /\ n <= Size(d)
    BY <1>3, <1>4, <2>1 DEF Granted, Holds, IsBlock
  <2>5. end = pos + Len(t)
    OBVIOUS
  <2> HIDE DEF end, t
  <2>6. n = pos + Len(t) + IF end < slen THEN slen - end ELSE 0
    <3>1. CASE end < slen
      BY <1>3, <1>4, <2>5, <3>1
    <3>2. CASE ~(end < slen)
      BY <1>3, <1>4, <2>5, <3>2
    <3> QED BY <3>1, <3>2
  <2> QED BY <1>1, <1>2, <1>4, <1>5, <1>6, <2>1, <2>3, <2>4, <2>5, <2>6, OverlaidStored
<1> QED BY <1>1, <1>7, ReturnsIs

\* A text is inserted in a block that has room for it.
LEMMA InsertedText ==
  ASSUME Terminated, NullIsNoText, str, NEW t \in Seq(Char), NEW fill \in Char, NEW pos \in Nat,
         NEW n, n = Max({slen, pos}) + Len(t), NEW d \in Blocks(n + 1), NEW call,
         call = <<"insert", pos, t, fill>>, Becomes(Inserted(d, pos, t, fill), n, call)
  PROVE  Abstract!Next
<1>1. slen \in Nat /\ Len(t) \in Nat
  BY StringInside
<1>2. n \in Nat /\ n = (IF slen >= pos THEN slen ELSE pos) + Len(t)
  BY <1>1, MaxOfTwo
<1>3. Granted(d, Size(d), n + 1) /\ StringAt(d)
  BY <1>2, BlocksGranted, BlocksKeepText
<1>4. Holds(d, Size(d), slen) /\ n <= Size(d)
  BY <1>2, <1>3 DEF Granted, Holds, IsBlock
<1>5. SplicedText(t, pos, pos, fill) = Abstract!Result(Text, call)
  BY SplicedResult DEF SplicedText
<1>6. call[1] = "insert"
  OBVIOUS
<1>7. call[1] \in Abstract!Changing /\ call[1] # "pattern"
  BY <1>6 DEF Abstract!Changing
<1>8. CASE pos > slen
  <2>1. /\ Stores(Overlaid(d, pos, t, fill), n, n, call) /\ pos >= pos /\ pos >= slen
        /\ n = pos + Len(t) + IF pos < slen THEN slen - pos ELSE 0
    BY <1>1, <1>2, <1>8 DEF Inserted, Becomes
  <2> QED BY <1>1, <1>3, <1>4, <1>5, <1>7, <2>1, OverlaidStored
<1>9. CASE ~(pos > slen)
  <2>1. Becomes(Lay(Lay(d, pos + Len(t), Behind(pos, 0)), pos, t), n, call)
    BY <1>9 DEF Inserted, Spread
  <2>2. PICK len \in Nat : len = 0
    OBVIOUS
  <2>3. /\ Becomes(Lay(Lay(d, pos + Len(t), Behind(pos, len)), pos, t), n, call)
        /\ pos = pos + len /\ pos <= slen
    BY <1>1, <1>9, <2>1, <2>2
  <2>4. n = pos + Len(t) + (slen - pos)
    BY <1>1, <1>2, <1>9
  <2> QED BY <1>1, <1>3, <1>4, <1>5, <1>7, <2>3, <2>4, SpreadStored
<1> QED BY <1>8, <1>9

\* binsert.
LEMMA InsertRefines ==
  ASSUME Terminated, NullIsNoText, NEW a \in Args, NEW pos \in Nat, NEW fill \in Char,
         binsert(pos, a, fill)
  PROVE  Abstract!Next
<1> DEFINE n    == Max({slen, pos}) + Len(a.text)
           call == <<"insert", pos, a.text, fill>>
<1>1. /\ str
      /\ \/ \E d \in Blocks(n + 1) :
              Becomes(Inserted(d, pos, Through(a, d, TRUE), fill), n, call)
         \/ Returns(call, "ERR")
  BY DEF binsert, Inserted
<1>2. a.text \in Seq(Char)
  BY ArgIs DEF IsArg
<1>3. n = Max({slen, pos}) + Len(a.text) /\ call = <<"insert", pos, a.text, fill>>
  OBVIOUS
<1> HIDE DEF call, n
<1>4. ASSUME NEW d \in Blocks(n + 1),
             Becomes(Inserted(d, pos, Through(a, d, TRUE), fill), n, call)
      PROVE  Abstract!Next
  <2>1. Through(a, d, TRUE) = a.text
    BY ThroughIs
  <2> QED BY <1>1, <1>2, <1>3, <1>4, <2>1, InsertedText
<1> QED BY <1>1, <1>4, ReturnsIs

\* binsertch.
LEMMA InsertchRefines ==
  ASSUME Terminated, NullIsNoText, NEW pos \in Nat, NEW len \in Nat, NEW fill \in Char,
         binsertch(pos, len, fill)
  PROVE  Abstract!Next
<1> DEFINE n    == Max({slen, pos}) + len
           t    == Run(fill, len)
           call == <<"insert", pos, t, fill>>
<1>1. /\ str
      /\ \/ \E d \in Blocks(n + 1) : Becomes(Inserted(d, pos, t, fill), n, call)
         \/ Returns(call, "ERR")
  BY DEF binsertch, Inserted
<1>2. t \in Seq(Char) /\ Len(t) = len
  BY RunIs
<1>3. call = <<"insert", pos, t, fill>>
  OBVIOUS
<1> HIDE DEF call, t
<1>4. n = Max({slen, pos}) + Len(t)
  BY <1>2
<1> HIDE DEF n
<1> QED BY <1>1, <1>2, <1>3, <1>4, InsertedText, ReturnsIs

\* breplace.
LEMMA ReplaceRefines ==
  ASSUME Terminated, NullIsNoText, NEW a \in Args, NEW pos \in Nat,
         NEW len \in Nat, NEW fill \in Char, breplace(pos, len, a, fill)
  PROVE  Abstract!Next
<1> DEFINE t      == a.text
           inside == pos + len < slen
           end    == pos + Len(t)
           n      == IF inside THEN end + slen - (pos + len) ELSE end
           need   == IF ~inside THEN end + 1 ELSE IF Len(t) > len THEN n ELSE 0
           call   == <<"replace", pos, len, t, fill>>
           top    == Max({slen, end})
           Put(d, s) == IF inside
                        THEN Becomes(Lay(Lay(d, end, Behind(pos, len)), pos, s), n, call)
                        ELSE Stores(Overlaid(d, pos, s, fill), top, n, call)
<1>1. /\ str
      /\ (\E d \in Blocks(need) : Put(d, Through(a, d, TRUE))) \/ Returns(call, "ERR")
  BY DEF breplace
<1>2. t \in Seq(Char) /\ Len(t) \in Nat
  BY ArgIs DEF IsArg
<1>3. slen \in Nat /\ mlen \in Nat /\ slen <= mlen
  BY <1>1, StringInside
<1>4. end \in Nat /\ n \in Int /\ need \in Int
  BY <1>2, <1>3
<1>5. SplicedText(t, pos, pos + len, fill) = Abstract!Result(Text, call)
  BY ReplacedResult DEF SplicedText
<1>6. call[1] \in Abstract!Changing /\ call[1] # "pattern"
  BY DEF Abstract!Changing
<1> HIDE DEF call, top
<1>7. ASSUME NEW d \in Blocks(need), Put(d, Through(a, d, TRUE))
      PROVE  Abstract!Next
  <2>1. Granted(d, Size(d), need) /\ StringAt(d)
    BY <1>4, BlocksGranted, BlocksKeepText
  <2>2. Through(a, d, TRUE) = t
    BY ThroughIs
  <2>3. Put(d, t)
    BY <1>7, <2>2
  <2>4. Holds(d, Size(d), slen) /\ Size(d) \in Nat /\ Size(d) >= mlen /\ Size(d) >= need
    BY <2>1 DEF Granted, Holds, IsBlock
  <2> HIDE DEF t
  <2>5. CASE inside
    <3>1. Becomes(Lay(Lay(d, pos + Len(t), Behind(pos, len)), pos, t), n, call)
      BY <2>3, <2>5
    <3>2. n = pos + Len(t) + (slen - (pos + len)) /\ pos + len <= slen
      BY <1>2, <1>3, <2>5
    <3>3. n <= Size(d)
      <4>1. CASE Len(t) > len
        BY <2>4, <2>5, <4>1
      <4>2. CASE ~(Len(t) > len)
        BY <1>2, <1>3, <2>4, <3>2, <4>2
      <4> QED BY <4>1, <4>2
    <3> HIDE DEF n
    <3> QED BY <1>1, <1>2, <1>5, <1>6, <2>1, <2>4, <3>1, <3>2, <3>3, SpreadStored
  <2>6. CASE ~inside
    <3>1. Stores(Overlaid(d, pos, t, fill), top, n, call)
      BY <2>3, <2>6
    <3> DEFINE stop == pos + len
    <3>2. /\ n = pos + Len(t) + (IF stop < slen THEN slen - stop ELSE 0) /\ n <= Size(d)
          /\ stop \in Nat /\ stop >= pos /\ stop >= slen
      BY <1>2, <1>3, <2>4, <2>6
    <3>3. SplicedText(t, pos, stop, fill) = Abstract!Result(Text, call)
      BY <1>5
    <3> HIDE DEF n, stop
    <3> QED BY <1>1, <1>2, <1>6, <2>1, <2>4, <3>1, <3>2, <3>3, OverlaidStored
  <2> QED BY <2>5, <2>6
<1> QED BY <1>1, <1>7, ReturnsIs

-----------------------------------------------------------------------------
(* Copying and comparing, as AbstractString says.                          *)

\* A call that copies the string or compares it leaves it as it is.
LEMMA CopiesIs ==
  ASSUME Terminated, NullIsNoText, str, NEW call, NEW v, Copies(call, v)
  PROVE  /\ str' = str /\ Text' = Text /\ Text # NULL
         /\ ret'[1] = call /\ ret'[2] = "OK" /\ ret'[3] = v
<1>1. str' = str /\ data' = data /\ slen' = slen /\ ret' = <<call, "OK", v>>
  BY DEF Copies, string
<1>2. Text' = Text
  BY <1>1 DEF Text
<1>3. Text # NULL
  BY StringIs DEF NullIsNoText
<1> QED BY <1>1, <1>2, <1>3

\* bstrcpy, and bstr2cstr.
LEMMA StrcpyRefines ==
  ASSUME Terminated, NullIsNoText, bstrcpy \/ bstr2cstr
  PROVE  Abstract!Next
<1>1. ASSUME str, NEW name \in {"strcpy", "str2cstr"}, Copies(<<name>>, Text)
      PROVE  Abstract!Next
  <2> DEFINE call == <<name>>
  <2>1. call[1] \in {"strcpy", "str2cstr"} /\ Copies(call, Text)
    BY <1>1
  <2> HIDE DEF call
  <2>2. /\ str' = str /\ Text' = Text /\ Text # NULL
        /\ ret'[1] = call /\ ret'[2] = "OK" /\ ret'[3] = Text
    BY <1>1, <2>1, CopiesIs
  <2>3. Abstract!Copy
    BY <1>1, <2>1, <2>2 DEF Abstract!Copy, Abstract!Does
  <2> QED BY <2>3 DEF Abstract!Next
<1>2. CASE bstrcpy
  BY <1>1, <1>2, ReturnsIs DEF bstrcpy
<1>3. CASE bstr2cstr
  BY <1>1, <1>3, ReturnsIs DEF bstr2cstr
<1> QED BY <1>2, <1>3

\* The middle of a string is a piece of it.
LEMMA MidIsPiece ==
  ASSUME NEW S, NEW s \in Seq(S), NEW left \in Int, NEW len \in Int
  PROVE  Mid(s, left, len) = Abstract!Piece(s, left, left + len - 1)
<1> DEFINE from == Max({left, 0})
           cut  == len + Min({left, 0})
           n    == Min({cut, Len(s) - from})
           to   == left + len - 1
           end  == IF to < Len(s) THEN to + 1 ELSE Len(s)
           low  == IF left > 0 THEN left ELSE 0
<1>1. Len(s) \in Nat
  OBVIOUS
<1>2. from = (IF left >= 0 THEN left ELSE 0) /\ cut = len + (IF left <= 0 THEN left ELSE 0)
  BY MaxOfTwo, MinOfTwo
<1>3. from \in Nat /\ cut \in Int /\ from = low /\ to \in Int
  BY <1>2
<1>4. from + cut = to + 1
  <2>1. CASE left >= 0
    BY <1>2, <2>1
  <2>2. CASE ~(left >= 0)
    BY <1>2, <2>2
  <2> QED BY <2>1, <2>2
<1>5. Mid(s, left, len) = SubSeq(s, from + 1, from + n)
  BY DEF Mid
<1>6. Abstract!Piece(s, left, to) = SubSeq(s, low + 1, end)
  BY <1>3, PieceIs
<1> HIDE DEF from, cut, low, to
<1>7. n = IF cut <= Len(s) - from THEN cut ELSE Len(s) - from
  BY <1>1, <1>3, MinOfTwo
<1> HIDE DEF n
<1>8. from + n = end
  BY <1>1, <1>3, <1>4, <1>7
<1> HIDE DEF end
<1> QED BY <1>3, <1>5, <1>6, <1>8 DEF to

\* bmidstr.
LEMMA MidstrRefines ==
  ASSUME Terminated, NullIsNoText, NEW left \in Int, NEW len \in Int, bmidstr(left, len)
  PROVE  Abstract!Next
<1> DEFINE call == <<"midstr", left, len>>
           v    == Mid(Text, left, len)
<1>1. str /\ (Copies(call, v) \/ Returns(call, "ERR"))
  BY DEF bmidstr
<1>2. Text \in Seq(Char)
  BY StringIs
<1>3. v = Abstract!Piece(Text, left, left + len - 1)
  BY <1>2, MidIsPiece
<1>4. call[1] = "midstr" /\ call[2] = left /\ call[3] = len
  OBVIOUS
<1> HIDE DEF call, v
<1>5. ASSUME Copies(call, v) PROVE Abstract!Next
  <2>1. /\ str' = str /\ Text' = Text /\ Text # NULL
        /\ ret'[1] = call /\ ret'[2] = "OK" /\ ret'[3] = v
    BY <1>1, <1>5, CopiesIs
  <2>2. Abstract!Copy
    BY <1>1, <1>3, <1>4, <2>1 DEF Abstract!Copy, Abstract!Does
  <2> QED BY <2>2 DEF Abstract!Next
<1> QED BY <1>1, <1>5, ReturnsIs

\* What a string has at a place; behind its end it has the value end.
ValueAt(u, k, value, end) == IF k <= Len(u) THEN value[u[k]] ELSE end

\* The first place where two strings differ says which one comes first.
LEMMA SmallerIs ==
  ASSUME NEW x \in Seq(Char), NEW y \in Seq(Char), NEW value \in [Char -> Int], NEW end \in Int,
         NEW k \in Nat \ {0}, k <= Len(x) \/ k <= Len(y),
         \A l \in 1 .. k - 1 : ValueAt(x, l, value, end) = ValueAt(y, l, value, end),
         ValueAt(x, k, value, end) # ValueAt(y, k, value, end)
  PROVE  Abstract!Smaller(x, y, value, end)
           <=> ValueAt(x, k, value, end) < ValueAt(y, k, value, end)
<1> DEFINE A(l) == ValueAt(x, l, value, end)
           B(l) == ValueAt(y, l, value, end)
           m    == IF Len(x) > Len(y) THEN Len(x) ELSE Len(y)
<1>1. Abstract!Smaller(x, y, value, end)
        <=> \E j \in 1 .. m : (\A l \in 1 .. j - 1 : A(l) = B(l)) /\ A(j) < B(j)
  BY DEF Abstract!Smaller, Abstract!Larger, ValueAt
<1>2. ASSUME NEW j \in Nat \ {0} PROVE A(j) \in Int /\ B(j) \in Int
  <2>1. (j <= Len(x) => x[j] \in Char) /\ (j <= Len(y) => y[j] \in Char)
    BY ElementOfSeq
  <2> QED BY <2>1 DEF ValueAt
<1>3. /\ \A l \in 1 .. k - 1 : A(l) = B(l)
      /\ A(k) # B(k)
  OBVIOUS
<1>4. k \in 1 .. m /\ m \in Nat
  OBVIOUS
<1> HIDE DEF A, B, m
<1>5. ASSUME A(k) < B(k)
      PROVE  \E j \in 1 .. m : (\A l \in 1 .. j - 1 : A(l) = B(l)) /\ A(j) < B(j)
  BY <1>3, <1>4, <1>5
<1>6. ASSUME NEW j \in 1 .. m, \A l \in 1 .. j - 1 : A(l) = B(l), A(j) < B(j)
      PROVE  A(k) < B(k)
  <2>1. A(j) # B(j)
    BY <1>2, <1>4, <1>6
  <2>2. ~(j < k)
    BY <1>3, <1>4, <2>1
  <2>3. ~(k < j)
    BY <1>3, <1>4, <1>6
  <2>4. j = k
    BY <1>4, <2>2, <2>3
  <2> QED BY <1>6, <2>4
<1>7. Abstract!Smaller(x, y, value, end) <=> A(k) < B(k)
  BY <1>1, <1>5, <1>6
<1> QED BY <1>7 DEF A, B

\* The sign of v says which of two strings comes first.
Signs(v, x, y, value, end) ==
  /\ v < 0 <=> Abstract!Smaller(x, y, value, end)
  /\ v > 0 <=> Abstract!Smaller(y, x, value, end)

\* It does if it is that of the difference at the first place where they differ.
LEMMA SignsFirst ==
  ASSUME NEW x \in Seq(Char), NEW y \in Seq(Char), NEW value \in [Char -> Int], NEW end \in Int,
         NEW k \in Nat \ {0}, k <= Len(x) \/ k <= Len(y),
         \A l \in 1 .. k - 1 : ValueAt(x, l, value, end) = ValueAt(y, l, value, end),
         ValueAt(x, k, value, end) # ValueAt(y, k, value, end), NEW v,
         v < 0 <=> ValueAt(x, k, value, end) < ValueAt(y, k, value, end),
         v > 0 <=> ValueAt(y, k, value, end) < ValueAt(x, k, value, end)
  PROVE  Signs(v, x, y, value, end)
<1>1. Abstract!Smaller(x, y, value, end)
        <=> ValueAt(x, k, value, end) < ValueAt(y, k, value, end)
  BY SmallerIs
<1>2. Abstract!Smaller(y, x, value, end)
        <=> ValueAt(y, k, value, end) < ValueAt(x, k, value, end)
  <2>1. /\ \A l \in 1 .. k - 1 : ValueAt(y, l, value, end) = ValueAt(x, l, value, end)
        /\ ValueAt(y, k, value, end) # ValueAt(x, k, value, end)
        /\ k <= Len(y) \/ k <= Len(x)
    OBVIOUS
  <2> QED BY <2>1, SmallerIs
<1> QED BY <1>1, <1>2 DEF Signs

\* Strings that are the same differ nowhere.
LEMMA SignsSame ==
  ASSUME NEW x \in Seq(Char), NEW y \in Seq(Char), NEW value \in [Char -> Int], NEW end \in Int,
         Len(x) = Len(y), \A l \in 1 .. Len(x) : value[x[l]] = value[y[l]], NEW v, v = 0
  PROVE  Signs(v, x, y, value, end)
<1> DEFINE A(l) == IF l <= Len(x) THEN value[x[l]] ELSE end
           B(l) == IF l <= Len(y) THEN value[y[l]] ELSE end
           m    == IF Len(x) > Len(y) THEN Len(x) ELSE Len(y)
           n    == IF Len(y) > Len(x) THEN Len(y) ELSE Len(x)
<1>1. Abstract!Smaller(x, y, value, end)
        <=> \E j \in 1 .. m : (\A l \in 1 .. j - 1 : A(l) = B(l)) /\ A(j) < B(j)
  BY DEF Abstract!Smaller, Abstract!Larger
<1>2. Abstract!Smaller(y, x, value, end)
        <=> \E j \in 1 .. n : (\A l \in 1 .. j - 1 : B(l) = A(l)) /\ B(j) < A(j)
  BY DEF Abstract!Smaller, Abstract!Larger
<1>3. m = Len(x) /\ n = Len(x) /\ Len(x) \in Nat
  OBVIOUS
<1>4. ASSUME NEW j \in 1 .. Len(x) PROVE A(j) = B(j) /\ A(j) \in Int
  <2>1. x[j] \in Char
    BY ElementOfSeq
  <2> QED BY <2>1
<1> HIDE DEF A, B, m, n
<1>5. ~Abstract!Smaller(x, y, value, end) /\ ~Abstract!Smaller(y, x, value, end)
  BY <1>1, <1>2, <1>3, <1>4
<1> QED BY <1>5 DEF Signs

\* The least of three numbers.
LEMMA MinOfThree ==
  ASSUME NEW a \in Int, NEW b \in Int, NEW c \in Int
  PROVE  Min({a, b, c}) = IF a <= b /\ a <= c THEN a ELSE IF b <= c THEN b ELSE c
<1> DEFINE l == IF a <= b /\ a <= c THEN a ELSE IF b <= c THEN b ELSE c
<1>1. l \in {a, b, c} /\ \A k \in {a, b, c} : l <= k
  OBVIOUS
<1>2. Min({a, b, c}) \in {a, b, c} /\ \A k \in {a, b, c} : Min({a, b, c}) <= k
  BY <1>1 DEF Min
<1> QED BY <1>2

\* The first n characters that there are.
LEMMA LeastIs ==
  ASSUME NEW S, NEW s \in Seq(S), NEW n \in Nat
  PROVE  /\ Abstract!Least(s, n) \in Seq(S)
         /\ Len(Abstract!Least(s, n)) = IF n < Len(s) THEN n ELSE Len(s)
         /\ \A i \in 1 .. Len(Abstract!Least(s, n)) : Abstract!Least(s, n)[i] = s[i]
<1> DEFINE m == IF n < Len(s) THEN n ELSE Len(s)
<1>1. m \in 0 .. Len(s)
  OBVIOUS
<1>2. Abstract!Least(s, n) = Abstract!First(s, m)
  BY DEF Abstract!Least
<1>3. m = IF n < Len(s) THEN n ELSE Len(s)
  OBVIOUS
<1> HIDE DEF m
<1>4. /\ Abstract!First(s, m) \in Seq(S) /\ Len(Abstract!First(s, m)) = m
      /\ \A i \in 1 .. m : Abstract!First(s, m)[i] = s[i]
  BY <1>1, FirstIs
<1> QED BY <1>2, <1>3, <1>4

\* The values two texts have agree in the first m places.
Agrees(t, m, value) == \A l \in 1 .. m : value[Text[l]] = value[t[l]]

\* The first place in which they do not.
DiffersAt(k, t, m, value) ==
  k \in 1 .. m /\ Agrees(t, k - 1, value) /\ value[Text[k]] # value[t[k]]

\* What is found are the characters there, if there is such a place.
LEMMA DifferingIs ==
  ASSUME NEW t, NEW m \in Nat, NEW value
  PROVE  \/ Agrees(t, m, value) /\ Differing(t, m, value) = <<>>
         \/ \E k : DiffersAt(k, t, m, value) /\ Differing(t, m, value) = <<Text[k], t[k]>>
<1> DEFINE differ == {k \in 1 .. m : value[Text[k]] # value[t[k]]}
<1>1. Differing(t, m, value) = IF differ = {} THEN <<>> ELSE <<Text[Min(differ)], t[Min(differ)]>>
  BY DEF Differing
<1>2. CASE differ = {}
  BY <1>1, <1>2 DEF Agrees
<1>3. CASE differ # {}
  <2> DEFINE k == Min(differ)
  <2>1. differ \in SUBSET Nat
    OBVIOUS
  <2>2. k \in differ /\ \A l \in differ : k <= l
    BY <1>3, <2>1, MinIsLeast
  <2>3. Differing(t, m, value) = <<Text[k], t[k]>>
    BY <1>1, <1>3
  <2> HIDE DEF k
  <2>4. k \in 1 .. m /\ value[Text[k]] # value[t[k]]
    BY <2>2
  <2>5. ASSUME NEW l \in 1 .. k - 1 PROVE value[Text[l]] = value[t[l]]
    <3>1. l \in 1 .. m /\ ~(k <= l)
      BY <2>4
    <3>2. l \notin differ
      BY <2>2, <3>1
    <3> QED BY <3>1, <3>2
  <2> HIDE DEF differ
  <2> QED BY <2>3, <2>4, <2>5 DEF DiffersAt, Agrees
<1> QED BY <1>2, <1>3

\* An argument that starts where the string does is the beginning of the string.
LEMMA AtStartIs ==
  ASSUME Terminated, NEW a \in Args, AtStart(a)
  PROVE  Len(a.text) <= slen /\ \A l \in 1 .. Len(a.text) : Text[l] = a.text[l]
<1> DEFINE t == a.text
           n == Len(t)
<1>1. n \in Nat /\ n <= slen /\ Text \in Seq(Char) /\ Len(Text) = slen
  BY ArgIs, StringIs DEF IsArg, AtStart
<1>2. PICK low \in Nat : low = 0
  OBVIOUS
<1>3. t = SubSeq(Text, low + 1, n)
  BY <1>2 DEF AtStart
<1> HIDE DEF n, t
<1>4. \A i \in 1 .. n - low : t[i] = Text[low + i]
  BY <1>1, <1>3, SliceIs
<1>5. \A i \in 1 .. n : n - low = n /\ low + i = i
  BY <1>1, <1>2
<1> QED BY <1>1, <1>4, <1>5 DEF n, t

\* Its values agree with the string's.
LEMMA AtStartAgrees ==
  ASSUME Terminated, NEW a \in Args, AtStart(a), NEW m \in Nat, m <= Len(a.text), NEW value
  PROVE  Agrees(a.text, m, value)
<1>1. Len(a.text) \in Nat
  BY ArgIs DEF IsArg
<1> QED BY <1>1, AtStartIs DEF Agrees

\* What a comparison returns is what AbstractString makes of it.
LEMMA ComparedIs ==
  ASSUME Terminated, NullIsNoText, str, NEW call, NEW v, Copies(call, v),
         \/ /\ call[1] = "strncmp"
            /\ Signs(v, Abstract!Least(Text, call[3]), Abstract!Least(call[2], call[3]),
                     Code, -129)
         \/ call[1] = "stricmp" /\ Signs(v, Text, call[2], Small, 0)
         \/ /\ call[1] = "strnicmp"
            /\ (v = 0) = (Abstract!Cased(Abstract!Least(Text, call[3]), Lower)
                            = Abstract!Cased(Abstract!Least(call[2], call[3]), Lower))
         \/ call[1] \in {"iseq", "iseqcstr"} /\ v = (Text = call[2])
         \/ /\ call[1] \in {"iseqcaseless", "iseqcstrcaseless"}
            /\ v = (Abstract!Cased(Text, Lower) = Abstract!Cased(call[2], Lower))
         \/ call[1] = "isstemeq" /\ v = (Abstract!Least(Text, Len(call[2])) = call[2])
         \/ /\ call[1] = "isstemeqcaseless"
            /\ v = (Abstract!Cased(Abstract!Least(Text, Len(call[2])), Lower)
                      = Abstract!Cased(call[2], Lower))
  PROVE  Abstract!Next
<1>1. /\ str' = str /\ Text' = Text /\ Text # NULL
      /\ ret'[1] = call /\ ret'[2] = "OK" /\ ret'[3] = v
  BY CopiesIs
<1>2. Small = [c \in DOMAIN Code |-> Code[Lower[c]]]
  BY ConstantsAssumption DEF Small
<1>3. Abstract!Compare
  BY <1>1, <1>2 DEF Abstract!Compare, Abstract!Does, Signs
<1> QED BY <1>3 DEF Abstract!Next

\* The values characters have.
LEMMA ValuesAre ==
  /\ Code \in [Char -> Int] /\ Small \in [Char -> Int] /\ Lower \in [Char -> Char]
  /\ \A c \in Char : Code[c] \in -128 .. 127 /\ Small[c] = Code[Lower[c]] /\ Small[c] # 0
<1>1. Code \in [Char -> -128 .. 127 \ {0}] /\ Lower \in [Char -> Char]
  BY ConstantsAssumption
<1>2. \A c \in Char : Code[c] \in -128 .. 127 /\ Code[c] # 0 /\ Lower[c] \in Char
  BY <1>1
<1>3. \A c \in Char : Code[Lower[c]] \in Int /\ Code[Lower[c]] # 0
  BY <1>2
<1>4. Small = [c \in Char |-> Code[Lower[c]]]
  BY DEF Small
<1>5. Code \in [Char -> Int]
  BY <1>1, <1>2
<1>6. Small \in [Char -> Int]
  BY <1>3, <1>4
<1>7. \A c \in Char : Small[c] = Code[Lower[c]] /\ Small[c] # 0
  BY <1>3, <1>4
<1> QED BY <1>1, <1>2, <1>5, <1>6, <1>7

\* The sign of v says which of two strings goes on behind the other's end, by the value of
\* the character there.
SignsExcess(v, x, y, value, end) ==
  \/ Len(x) = Len(y) /\ v = 0
  \/ /\ Len(x) > Len(y) /\ value[x[Len(y) + 1]] # end
     /\ v < 0 <=> value[x[Len(y) + 1]] < end
     /\ v > 0 <=> end < value[x[Len(y) + 1]]
  \/ /\ Len(x) < Len(y) /\ value[y[Len(x) + 1]] # end
     /\ v < 0 <=> end < value[y[Len(x) + 1]]
     /\ v > 0 <=> value[y[Len(x) + 1]] < end

\* Where two strings agree as far as the shorter one goes, the longer one comes behind.
LEMMA SignsLonger ==
  ASSUME NEW x \in Seq(Char), NEW y \in Seq(Char), NEW value \in [Char -> Int], NEW end \in Int,
         \A l \in 1 .. Len(x) : l <= Len(y) => value[x[l]] = value[y[l]], NEW v,
         SignsExcess(v, x, y, value, end)
  PROVE  Signs(v, x, y, value, end)
<1>1. Len(x) \in Nat /\ Len(y) \in Nat
  OBVIOUS
<1>2. CASE Len(x) = Len(y)
  <2>1. v = 0 /\ \A l \in 1 .. Len(x) : value[x[l]] = value[y[l]]
    BY <1>1, <1>2 DEF SignsExcess
  <2> QED BY <1>2, <2>1, SignsSame
<1>3. CASE Len(x) > Len(y)
  <2> DEFINE k == Len(y) + 1
  <2>1. /\ k \in Nat \ {0} /\ k <= Len(x) /\ ~(k <= Len(y))
        /\ \A l \in 1 .. k - 1 : l \in 1 .. Len(x) /\ l <= Len(y)
    BY <1>1, <1>3
  <2>2. /\ value[x[k]] # end
        /\ v < 0 <=> value[x[k]] < end
        /\ v > 0 <=> end < value[x[k]]
    BY <1>1, <1>3 DEF SignsExcess
  <2> HIDE DEF k
  <2>3. ValueAt(x, k, value, end) = value[x[k]] /\ ValueAt(y, k, value, end) = end
    BY <2>1 DEF ValueAt
  <2>4. \A l \in 1 .. k - 1 : ValueAt(x, l, value, end) = ValueAt(y, l, value, end)
    BY <2>1 DEF ValueAt
  <2> QED BY <2>1, <2>2, <2>3, <2>4, SignsFirst
<1>4. CASE Len(x) < Len(y)
  <2> DEFINE k == Len(x) + 1
  <2>1. /\ k \in Nat \ {0} /\ k <= Len(y) /\ ~(k <= Len(x))
        /\ \A l \in 1 .. k - 1 : l \in 1 .. Len(x) /\ l <= Len(y)
    BY <1>1, <1>4
  <2>2. /\ value[y[k]] # end
        /\ v < 0 <=> end < value[y[k]]
        /\ v > 0 <=> value[y[k]] < end
    BY <1>1, <1>4 DEF SignsExcess
  <2> HIDE DEF k
  <2>3. ValueAt(y, k, value, end) = value[y[k]] /\ ValueAt(x, k, value, end) = end
    BY <2>1 DEF ValueAt
  <2>4. \A l \in 1 .. k - 1 : ValueAt(x, l, value, end) = ValueAt(y, l, value, end)
    BY <2>1 DEF ValueAt
  <2> QED BY <2>1, <2>2, <2>3, <2>4, SignsFirst
<1> QED BY <1>1, <1>2, <1>3, <1>4

\* The difference of the values at the first place where two strings do not agree.
LEMMA SignsDifference ==
  ASSUME Terminated, NEW t \in Seq(Char), NEW value \in [Char -> Int], NEW end \in Int,
         NEW m \in Nat, NEW k, DiffersAt(k, t, m, value),
         NEW x \in Seq(Char), NEW y \in Seq(Char), m <= Len(x), m <= Len(y),
         \A l \in 1 .. m : x[l] = Text[l] /\ y[l] = t[l]
  PROVE  Signs(value[Text[k]] - value[t[k]], x, y, value, end)
<1>1. /\ k \in 1 .. m /\ value[Text[k]] # value[t[k]]
      /\ \A l \in 1 .. k - 1 : value[Text[l]] = value[t[l]]
  BY DEF DiffersAt, Agrees
<1>2. /\ k \in Nat \ {0} /\ k <= Len(x) /\ k <= Len(y)
      /\ \A l \in 1 .. k : l \in 1 .. m /\ l <= Len(x) /\ l <= Len(y)
  BY <1>1
<1>3. x[k] \in Char /\ y[k] \in Char
  BY <1>2, ElementOfSeq
<1> DEFINE A == value[Text[k]]
           B == value[t[k]]
<1>4. /\ ValueAt(x, k, value, end) = A
      /\ ValueAt(y, k, value, end) = B
      /\ A \in Int /\ B \in Int /\ A # B
  BY <1>1, <1>2, <1>3 DEF ValueAt
<1>5. \A l \in 1 .. k - 1 : ValueAt(x, l, value, end) = ValueAt(y, l, value, end)
  <2>1. TAKE l \in 1 .. k - 1
  <2>2. l \in 1 .. k
    BY <1>2
  <2>3. l \in 1 .. m /\ l <= Len(x) /\ l <= Len(y)
    BY <1>2, <2>2
  <2>4. x[l] = Text[l] /\ y[l] = t[l] /\ value[Text[l]] = value[t[l]]
    BY <1>1, <2>3
  <2> QED BY <2>3, <2>4 DEF ValueAt
<1> HIDE DEF A, B
<1>6. (A - B < 0 <=> A < B) /\ (A - B > 0 <=> B < A)
  BY <1>4
<1>7. Signs(A - B, x, y, value, end)
  BY <1>2, <1>4, <1>5, <1>6, SignsFirst
<1> QED BY <1>7 DEF A, B

\* bstricmp.
LEMMA StricmpRefines ==
  ASSUME Terminated, NullIsNoText, NEW a \in Args, bstricmp(a)
  PROVE  Abstract!Next
<1> DEFINE t    == a.text
           m    == Min({slen, Len(t)})
           diff == Differing(t, m, Small)
           call == <<"stricmp", t>>
           v    == IF diff # <<>> THEN Small[diff[1]] - Small[diff[2]] ELSE Excess(t, m)
<1>1. str /\ Copies(call, v)
  BY DEF bstricmp
<1>2. /\ t \in Seq(Char) /\ Len(t) \in Nat /\ Text \in Seq(Char) /\ Len(Text) = slen
      /\ slen \in Nat
  BY <1>1, ArgIs, StringIs, StringInside DEF IsArg
<1>3. m = (IF slen <= Len(t) THEN slen ELSE Len(t)) /\ call[1] = "stricmp" /\ call[2] = t
  BY <1>2, MinOfTwo
<1> HIDE DEF m
<1>4. m \in Nat /\ m <= slen /\ m <= Len(t)
  BY <1>2, <1>3
<1>5. PICK end \in Int : end = 0
  OBVIOUS
<1>6. Signs(v, Text, t, Small, end)
  <2>1. CASE \E k : DiffersAt(k, t, m, Small) /\ diff = <<Text[k], t[k]>>
    <3>1. PICK k : DiffersAt(k, t, m, Small) /\ diff = <<Text[k], t[k]>>
      BY <2>1
    <3>2. v = Small[Text[k]] - Small[t[k]]
      BY <3>1
    <3>3. \A l \in 1 .. m : Text[l] = Text[l] /\ t[l] = t[l]
      OBVIOUS
    <3> HIDE DEF t, diff, v
    <3>4. Signs(Small[Text[k]] - Small[t[k]], Text, t, Small, end)
      BY <1>2, <1>4, <3>1, <3>3, ValuesAre, SignsDifference
    <3> QED BY <3>2, <3>4
  <2>2. CASE Agrees(t, m, Small) /\ diff = <<>>
    <3>1. v = Excess(t, m)
      BY <2>2
    <3> HIDE DEF t, diff, v
    <3>2. \A l \in 1 .. Len(Text) : l <= Len(t) => Small[Text[l]] = Small[t[l]]
      BY <1>2, <1>3, <2>2 DEF Agrees
    <3>3. CASE slen > Len(t)
      <4>1. m = Len(t) /\ Len(t) + 1 \in 1 .. slen
        BY <1>2, <1>3, <3>3
      <4>2. v = Small[Text[Len(t) + 1]]
        BY <3>1, <3>3, <4>1 DEF Excess
      <4>3. Text[Len(t) + 1] \in Char
        BY <1>2, <4>1, ElementOfSeq
      <4>4. v \in Int /\ v # 0
        BY <4>2, <4>3, ValuesAre
      <4>5. SignsExcess(v, Text, t, Small, end)
        BY <1>2, <1>5, <3>3, <4>2, <4>4 DEF SignsExcess
      <4> QED BY <1>2, <3>2, <4>5, ValuesAre, SignsLonger
    <3>4. CASE slen < Len(t)
      <4>1. m = slen /\ slen + 1 \in 1 .. Len(t) /\ ~(slen > m) /\ Len(t) > m
        BY <1>2, <1>3, <3>4
      <4> DEFINE w == Small[t[slen + 1]]
      <4>2. v = -w
        BY <3>1, <3>4, <4>1 DEF Excess
      <4>3. t[slen + 1] \in Char
        BY <1>2, <4>1, ElementOfSeq
      <4>4. w \in Int /\ w # 0
        BY <4>3, ValuesAre
      <4>5. (v < 0 <=> end < w) /\ (v > 0 <=> w < end) /\ w # end
        BY <1>5, <4>2, <4>4
      <4>6. SignsExcess(v, Text, t, Small, end)
        BY <1>2, <3>4, <4>5 DEF SignsExcess
      <4> QED BY <1>2, <3>2, <4>6, ValuesAre, SignsLonger
    <3>5. CASE slen = Len(t)
      <4>1. v = 0
        BY <1>2, <1>3, <3>1, <3>5 DEF Excess
      <4>2. SignsExcess(v, Text, t, Small, end)
        BY <1>2, <3>5, <4>1 DEF SignsExcess
      <4> QED BY <1>2, <3>2, <4>2, ValuesAre, SignsLonger
    <3> QED BY <1>2, <3>3, <3>4, <3>5
  <2>3. \/ Agrees(t, m, Small) /\ diff = <<>>
        \/ \E k : DiffersAt(k, t, m, Small) /\ diff = <<Text[k], t[k]>>
    BY <1>4, DifferingIs
  <2> QED BY <2>1, <2>2, <2>3
<1>7. Signs(v, Text, call[2], Small, 0)
  BY <1>3, <1>5, <1>6
<1> HIDE DEF call, v
<1> QED BY <1>1, <1>3, <1>7, ComparedIs

\* What a comparison of n characters sees of two strings, and as far as both go.
LEMMA LeastOfBoth ==
  ASSUME Terminated, str, NEW a \in Args, NEW n \in Nat
  PROVE  LET t == a.text
             m == Min({n, slen, Len(t)})
             x == Abstract!Least(Text, n)
             y == Abstract!Least(t, n)
         IN  /\ t \in Seq(Char) /\ Len(t) \in Nat /\ Text \in Seq(Char) /\ Len(Text) = slen
             /\ slen \in Nat /\ x \in Seq(Char) /\ y \in Seq(Char)
             /\ Len(x) = (IF n < slen THEN n ELSE slen)
             /\ Len(y) = (IF n < Len(t) THEN n ELSE Len(t))
             /\ m = IF Len(x) <= Len(y) THEN Len(x) ELSE Len(y)
             /\ m \in Nat /\ m <= n /\ m <= slen /\ m <= Len(t) /\ m <= Len(x) /\ m <= Len(y)
             /\ \A i \in 1 .. Len(x) : x[i] = Text[i]
             /\ \A i \in 1 .. Len(y) : y[i] = t[i]
<1> DEFINE t == a.text
           m == Min({n, slen, Len(t)})
           x == Abstract!Least(Text, n)
           y == Abstract!Least(t, n)
<1>1. /\ t \in Seq(Char) /\ Len(t) \in Nat /\ Text \in Seq(Char) /\ Len(Text) = slen
      /\ slen \in Nat
  BY ArgIs, StringIs, StringInside DEF IsArg
<1> HIDE DEF t
<1>2. m = IF n <= slen /\ n <= Len(t) THEN n ELSE IF slen <= Len(t) THEN slen ELSE Len(t)
  BY <1>1, MinOfThree
<1>3. /\ x \in Seq(Char) /\ Len(x) = (IF n < Len(Text) THEN n ELSE Len(Text))
      /\ \A i \in 1 .. Len(x) : x[i] = Text[i]
  BY <1>1, LeastIs
<1>4. /\ y \in Seq(Char) /\ Len(y) = (IF n < Len(t) THEN n ELSE Len(t))
      /\ \A i \in 1 .. Len(y) : y[i] = t[i]
  BY <1>1, LeastIs
<1> HIDE DEF m, x, y
<1>5. Len(x) = IF n < slen THEN n ELSE slen
  BY <1>1, <1>3
<1>6. m = IF Len(x) <= Len(y) THEN Len(x) ELSE Len(y)
  BY <1>1, <1>2, <1>4, <1>5
<1>7. m \in Nat /\ m <= n /\ m <= slen /\ m <= Len(t) /\ m <= Len(x) /\ m <= Len(y)
  BY <1>1, <1>2, <1>4, <1>5
<1> QED BY <1>1, <1>3, <1>4, <1>5, <1>6, <1>7 DEF m, x, y, t

\* bstrncmp.
LEMMA StrncmpRefines ==
  ASSUME Terminated, NullIsNoText, NEW a \in Args, NEW n \in Nat, bstrncmp(a, n)
  PROVE  Abstract!Next
<1> DEFINE t    == a.text
           m    == Min({n, slen, Len(t)})
           diff == Differing(t, m, Code)
           call == <<"strncmp", t, n>>
           x    == Abstract!Least(Text, n)
           y    == Abstract!Least(t, n)
           Value(same) == IF ~same /\ diff # <<>> THEN Code[diff[1]] - Code[diff[2]]
                          ELSE IF n = m THEN 0 ELSE Longer(t)
<1>1. str /\ \E same \in BOOLEAN : (same => AtStart(a)) /\ Copies(call, Value(same))
  BY DEF bstrncmp
<1>2. /\ t \in Seq(Char) /\ Len(t) \in Nat /\ Text \in Seq(Char) /\ Len(Text) = slen
      /\ slen \in Nat /\ x \in Seq(Char) /\ y \in Seq(Char)
      /\ Len(x) = (IF n < slen THEN n ELSE slen)
      /\ Len(y) = (IF n < Len(t) THEN n ELSE Len(t))
      /\ m = (IF Len(x) <= Len(y) THEN Len(x) ELSE Len(y))
      /\ m \in Nat /\ m <= n /\ m <= slen /\ m <= Len(t) /\ m <= Len(x) /\ m <= Len(y)
      /\ \A i \in 1 .. Len(x) : x[i] = Text[i]
      /\ \A i \in 1 .. Len(y) : y[i] = t[i]
  BY <1>1, LeastOfBoth
<1>3. PICK same \in BOOLEAN : (same => AtStart(a)) /\ Copies(call, Value(same))
  BY <1>1
<1> DEFINE v == Value(same)
<1>4. call[1] = "strncmp" /\ call[2] = t /\ call[3] = n
  OBVIOUS
<1>5. same => Agrees(t, m, Code)
  BY <1>2, <1>3, AtStartAgrees
<1> HIDE DEF m, t
<1>6. \/ Agrees(t, m, Code) /\ diff = <<>>
      \/ \E k : DiffersAt(k, t, m, Code) /\ diff = <<Text[k], t[k]>>
  <2>1. m \in Nat
    BY <1>2
  <2> QED BY <2>1, DifferingIs
<1> HIDE DEF diff
<1>7. \/ Agrees(t, m, Code) /\ v = IF n = m THEN 0 ELSE Longer(t)
      \/ \E k : DiffersAt(k, t, m, Code) /\ v = Code[Text[k]] - Code[t[k]]
  <2>1. CASE same
    BY <1>5, <2>1
  <2>2. CASE ~same /\ diff = <<>>
    BY <1>6, <2>2
  <2>3. CASE ~same /\ \E k : DiffersAt(k, t, m, Code) /\ diff = <<Text[k], t[k]>>
    <3>1. PICK k : DiffersAt(k, t, m, Code) /\ diff = <<Text[k], t[k]>>
      BY <2>3
    <3>2. diff # <<>> /\ diff[1] = Text[k] /\ diff[2] = t[k]
      BY <3>1
    <3>3. v = Code[Text[k]] - Code[t[k]]
      BY <2>3, <3>2
    <3> QED BY <3>1, <3>3
  <2> QED BY <1>6, <2>1, <2>2, <2>3
<1>8. Copies(call, v)
  BY <1>3
<1> HIDE DEF call, v, x, y
<1>9. PICK end \in Int : end = -129
  OBVIOUS
<1>10. Signs(v, x, y, Code, end)
  <2>1. CASE \E k : DiffersAt(k, t, m, Code) /\ v = Code[Text[k]] - Code[t[k]]
    <3>1. PICK k : DiffersAt(k, t, m, Code) /\ v = Code[Text[k]] - Code[t[k]]
      BY <2>1
    <3>2. \A l \in 1 .. m : x[l] = Text[l] /\ y[l] = t[l]
      BY <1>2
    <3>3. Signs(Code[Text[k]] - Code[t[k]], x, y, Code, end)
      BY <1>2, <3>1, <3>2, ValuesAre, SignsDifference
    <3> QED BY <3>1, <3>3
  <2>2. CASE Agrees(t, m, Code) /\ v = IF n = m THEN 0 ELSE Longer(t)
    <3>1. \A l \in 1 .. Len(x) : l <= Len(y) => Code[x[l]] = Code[y[l]]
      <4>1. TAKE l \in 1 .. Len(x)
      <4>2. l <= Len(y) => l \in 1 .. m /\ l \in 1 .. Len(y)
        BY <1>2
      <4> QED BY <1>2, <2>2, <4>2 DEF Agrees
    <3>2. CASE Len(x) = Len(y)
      <4>1. v = 0
        BY <1>2, <2>2, <3>2 DEF Longer
      <4>2. SignsExcess(v, x, y, Code, end)
        BY <3>2, <4>1 DEF SignsExcess
      <4> QED BY <1>2, <3>1, <4>2, ValuesAre, SignsLonger
    <3>3. CASE Len(x) > Len(y)
      <4>1. v = 1 /\ Len(y) + 1 \in 1 .. Len(x)
        BY <1>2, <2>2, <3>3 DEF Longer
      <4>2. x[Len(y) + 1] \in Char
        BY <1>2, <4>1, ElementOfSeq
      <4> DEFINE w == Code[x[Len(y) + 1]]
      <4>3. w \in -128 .. 127
        BY <4>2, ValuesAre
      <4> HIDE DEF w
      <4>4. (v < 0 <=> w < end) /\ (v > 0 <=> end < w) /\ w # end
        BY <1>9, <4>1, <4>3
      <4>5. SignsExcess(v, x, y, Code, end)
        BY <3>3, <4>4 DEF SignsExcess, w, w
      <4> QED BY <1>2, <3>1, <4>5, ValuesAre, SignsLonger
    <3>4. CASE Len(x) < Len(y)
      <4>1. v = -1 /\ Len(x) + 1 \in 1 .. Len(y)
        BY <1>2, <2>2, <3>4 DEF Longer
      <4>2. y[Len(x) + 1] \in Char
        BY <1>2, <4>1, ElementOfSeq
      <4> DEFINE w == Code[y[Len(x) + 1]]
      <4>3. w \in -128 .. 127
        BY <4>2, ValuesAre
      <4> HIDE DEF w
      <4>4. (v < 0 <=> end < w) /\ (v > 0 <=> w < end) /\ w # end
        BY <1>9, <4>1, <4>3
      <4>5. SignsExcess(v, x, y, Code, end)
        BY <3>4, <4>4 DEF SignsExcess, w, w
      <4> QED BY <1>2, <3>1, <4>5, ValuesAre, SignsLonger
    <3> QED BY <1>2, <3>2, <3>3, <3>4
  <2> QED BY <1>7, <2>1, <2>2
<1>11. Signs(v, Abstract!Least(Text, call[3]), Abstract!Least(call[2], call[3]), Code, -129)
  BY <1>4, <1>9, <1>10 DEF x, y
<1> QED BY <1>1, <1>4, <1>8, <1>11, ComparedIs

\* Characters are the same in lower case if they have the same value there.
LEMMA SmallIsLower ==
  ASSUME CodesDiffer, NEW c \in Char, NEW e \in Char
  PROVE  Small[c] = Small[e] <=> Lower[c] = Lower[e]
<1>1. Lower[c] \in Char /\ Lower[e] \in Char
  BY ValuesAre
<1>2. Small[c] = Code[Lower[c]] /\ Small[e] = Code[Lower[e]]
  BY ValuesAre
<1> QED BY <1>1, <1>2 DEF CodesDiffer

\* And their bytes are not, if they are not.
LEMMA BytesDiffer ==
  ASSUME CodesDiffer, NEW c \in Char, NEW e \in Char, c # e
  PROVE  Byte(c) - Byte(e) \in Int /\ Byte(c) - Byte(e) # 0
<1>1. Code[c] \in -128 .. 127 /\ Code[e] \in -128 .. 127
  BY ValuesAre
<1>2. Code[c] # Code[e]
  BY DEF CodesDiffer
<1>3. ASSUME NEW k \in -128 .. 127 PROVE k % 256 = IF k >= 0 THEN k ELSE k + 256
  BY <1>3, SMTT(60)
<1> DEFINE p == Code[c]
           q == Code[e]
<1>4. Byte(c) = (IF p >= 0 THEN p ELSE p + 256) /\ Byte(e) = (IF q >= 0 THEN q ELSE q + 256)
  BY <1>1, <1>3 DEF Byte
<1>5. p \in -128 .. 127 /\ q \in -128 .. 127 /\ p # q
  BY <1>1, <1>2
<1> HIDE DEF p, q
<1> DEFINE x == Byte(c)
           y == Byte(e)
<1>6. x \in 0 .. 255 /\ p = (IF x < 128 THEN x ELSE x - 256)
  BY <1>4, <1>5, SMTT(60)
<1>7. y \in 0 .. 255 /\ q = (IF y < 128 THEN y ELSE y - 256)
  BY <1>4, <1>5, SMTT(60)
<1>8. x # y
  BY <1>5, <1>6, <1>7, Zenon
<1> HIDE DEF x, y
<1>9. x - y \in Int /\ x - y # 0
  BY <1>6, <1>7, <1>8
<1> QED BY <1>9 DEF x, y

\* Texts of characters in lower case.
LEMMA CasedSame ==
  ASSUME NEW x \in Seq(Char), NEW y \in Seq(Char), NEW case
  PROVE  Abstract!Cased(x, case) = Abstract!Cased(y, case)
           <=> Len(x) = Len(y) /\ \A l \in 1 .. Len(x) : case[x[l]] = case[y[l]]
<1> DEFINE u == [i \in 1 .. Len(x) |-> case[x[i]]]
           w == [i \in 1 .. Len(y) |-> case[y[i]]]
<1>1. Abstract!Cased(x, case) = u /\ Abstract!Cased(y, case) = w
  BY DEF Abstract!Cased
<1>2. Len(x) \in Nat /\ Len(y) \in Nat
  OBVIOUS
<1>3. Len(u) = Len(x) /\ Len(w) = Len(y)
  BY <1>2
<1>4. ASSUME u = w PROVE Len(x) = Len(y) /\ \A l \in 1 .. Len(x) : case[x[l]] = case[y[l]]
  <2>1. Len(x) = Len(y)
    BY <1>3, <1>4
  <2>2. \A l \in 1 .. Len(x) : u[l] = case[x[l]] /\ w[l] = case[y[l]]
    BY <2>1
  <2> HIDE DEF u, w
  <2> QED BY <1>4, <2>1, <2>2
<1>5. ASSUME Len(x) = Len(y), \A l \in 1 .. Len(x) : case[x[l]] = case[y[l]] PROVE u = w
  BY <1>5
<1> QED BY <1>1, <1>4, <1>5

\* bstrnicmp.
LEMMA StrnicmpRefines ==
  ASSUME Terminated, NullIsNoText, CodesDiffer, NEW a \in Args, NEW n \in Nat, bstrnicmp(a, n)
  PROVE  Abstract!Next
<1> DEFINE t    == a.text
           m    == Min({n, slen, Len(t)})
           diff == Differing(t, m, Small)
           call == <<"strnicmp", t, n>>
           x    == Abstract!Least(Text, n)
           y    == Abstract!Least(t, n)
           Value(same) == IF ~same /\ diff # <<>> THEN Byte(diff[1]) - Byte(diff[2])
                          ELSE IF n = m \/ slen = Len(t) THEN 0 ELSE Excess(t, m)
<1>1. str /\ \E same \in BOOLEAN : (same => AtStart(a)) /\ Copies(call, Value(same))
  BY DEF bstrnicmp
<1>2. /\ t \in Seq(Char) /\ Len(t) \in Nat /\ Text \in Seq(Char) /\ Len(Text) = slen
      /\ slen \in Nat /\ x \in Seq(Char) /\ y \in Seq(Char)
      /\ Len(x) = (IF n < slen THEN n ELSE slen)
      /\ Len(y) = (IF n < Len(t) THEN n ELSE Len(t))
      /\ m = (IF Len(x) <= Len(y) THEN Len(x) ELSE Len(y))
      /\ m \in Nat /\ m <= n /\ m <= slen /\ m <= Len(t) /\ m <= Len(x) /\ m <= Len(y)
      /\ \A i \in 1 .. Len(x) : x[i] = Text[i]
      /\ \A i \in 1 .. Len(y) : y[i] = t[i]
  BY <1>1, LeastOfBoth
<1>3. PICK same \in BOOLEAN : (same => AtStart(a)) /\ Copies(call, Value(same))
  BY <1>1
<1> DEFINE v == Value(same)
<1>4. call[1] = "strnicmp" /\ call[2] = t /\ call[3] = n
  OBVIOUS
<1>5. same => Agrees(t, m, Small)
  BY <1>2, <1>3, AtStartAgrees
<1> HIDE DEF m, t
<1>6. \/ Agrees(t, m, Small) /\ diff = <<>>
      \/ \E k : DiffersAt(k, t, m, Small) /\ diff = <<Text[k], t[k]>>
  <2>1. m \in Nat
    BY <1>2
  <2> QED BY <2>1, DifferingIs
<1> HIDE DEF diff
<1>7. \/ Agrees(t, m, Small) /\ v = IF n = m \/ slen = Len(t) THEN 0 ELSE Excess(t, m)
      \/ \E k : DiffersAt(k, t, m, Small) /\ v = Byte(Text[k]) - Byte(t[k])
  <2>1. CASE same
    BY <1>5, <2>1
  <2>2. CASE ~same /\ diff = <<>>
    BY <1>6, <2>2
  <2>3. CASE ~same /\ \E k : DiffersAt(k, t, m, Small) /\ diff = <<Text[k], t[k]>>
    <3>1. PICK k : DiffersAt(k, t, m, Small) /\ diff = <<Text[k], t[k]>>
      BY <2>3
    <3>2. diff # <<>> /\ diff[1] = Text[k] /\ diff[2] = t[k]
      BY <3>1
    <3>3. v = Byte(Text[k]) - Byte(t[k])
      BY <2>3, <3>2
    <3> QED BY <3>1, <3>3
  <2> QED BY <1>6, <2>1, <2>2, <2>3
<1>8. Copies(call, v)
  BY <1>3
<1> HIDE DEF call, v, x, y
<1>9. Abstract!Cased(x, Lower) = Abstract!Cased(y, Lower)
        <=> Len(x) = Len(y) /\ \A l \in 1 .. Len(x) : Lower[x[l]] = Lower[y[l]]
  BY <1>2, CasedSame
<1>10. \A l \in 1 .. m : /\ l \in 1 .. Len(x) /\ l \in 1 .. Len(y)
                         /\ x[l] = Text[l] /\ y[l] = t[l] /\ x[l] \in Char /\ y[l] \in Char
  <2>1. TAKE l \in 1 .. m
  <2>2. l \in 1 .. Len(x) /\ l \in 1 .. Len(y)
    BY <1>2
  <2> QED BY <1>2, <2>2, ElementOfSeq
<1>11. v = 0 <=> Abstract!Cased(x, Lower) = Abstract!Cased(y, Lower)
  <2>1. CASE \E k : DiffersAt(k, t, m, Small) /\ v = Byte(Text[k]) - Byte(t[k])
    <3>1. PICK k : DiffersAt(k, t, m, Small) /\ v = Byte(Text[k]) - Byte(t[k])
      BY <2>1
    <3>2. k \in 1 .. m /\ Small[Text[k]] # Small[t[k]]
      BY <3>1 DEF DiffersAt
    <3>3. Text[k] \in Char /\ t[k] \in Char /\ k \in 1 .. Len(x)
          /\ x[k] = Text[k] /\ y[k] = t[k]
      BY <1>10, <3>2
    <3>4. Lower[x[k]] # Lower[y[k]] /\ Text[k] # t[k]
      BY <3>2, <3>3, SmallIsLower
    <3>5. v # 0
      BY <3>1, <3>3, <3>4, BytesDiffer
    <3> QED BY <1>9, <3>3, <3>4, <3>5
  <2>2. CASE Agrees(t, m, Small) /\ v = IF n = m \/ slen = Len(t) THEN 0 ELSE Excess(t, m)
    <3>1. CASE n = m \/ slen = Len(t)
      <4>1. v = 0
        BY <2>2, <3>1
      <4>2. Len(x) = Len(y) /\ m = Len(x)
        BY <1>2, <3>1
      <4>3. \A l \in 1 .. Len(x) : Lower[x[l]] = Lower[y[l]]
        BY <1>10, <2>2, <4>2, SmallIsLower DEF Agrees
      <4> QED BY <1>9, <4>1, <4>2, <4>3
    <3>2. CASE ~(n = m \/ slen = Len(t))
      <4>1. v = Excess(t, m)
        BY <2>2, <3>2
      <4>2. Len(x) # Len(y) /\ m < n
        BY <1>2, <3>2
      <4>3. v # 0
        <5>1. CASE slen > m
          <6>1. m + 1 \in 1 .. slen
            BY <1>2, <5>1
          <6>2. Text[m + 1] \in Char
            BY <1>2, <6>1, ElementOfSeq
          <6> QED BY <4>1, <5>1, <6>2, ValuesAre DEF Excess
        <5>2. CASE ~(slen > m)
          <6>1. Len(t) > m /\ m + 1 \in 1 .. Len(t)
            BY <1>2, <3>2, <5>2
          <6>2. t[m + 1] \in Char
            BY <1>2, <6>1, ElementOfSeq
          <6>3. Small[t[m + 1]] \in Int /\ Small[t[m + 1]] # 0
            BY <6>2, ValuesAre
          <6> QED BY <4>1, <5>2, <6>1, <6>3 DEF Excess
        <5> QED BY <5>1, <5>2
      <4> QED BY <1>9, <4>2, <4>3
    <3> QED BY <3>1, <3>2
  <2> QED BY <1>7, <2>1, <2>2
<1>12. (v = 0) = (Abstract!Cased(Abstract!Least(Text, call[3]), Lower)
                    = Abstract!Cased(Abstract!Least(call[2], call[3]), Lower))
  BY <1>4, <1>11, Zenon DEF x, y
<1> QED BY <1>1, <1>4, <1>8, <1>12, ComparedIs

\* What the calls that ask whether a text is the same return, where x is the string or as
\* much of it as the text is long.
LEMMA EqualIs ==
  ASSUME Terminated, str, CodesDiffer, NEW a \in Args, NEW x \in Seq(Char), Len(x) <= slen,
         \A i \in 1 .. Len(x) : x[i] = Text[i], NEW long, long <=> Len(x) = Len(a.text),
         NEW same, same => AtStart(a)
  PROVE  /\ long /\ (same \/ Differing(a.text, Len(a.text), Code) = <<>>) <=> x = a.text
         /\ long /\ (same \/ Differing(a.text, Len(a.text), Small) = <<>>)
              <=> Abstract!Cased(x, Lower) = Abstract!Cased(a.text, Lower)
<1> DEFINE t == a.text
           m == Len(t)
<1>1. t \in Seq(Char) /\ m \in Nat
  BY ArgIs DEF IsArg
<1>2. /\ same => m <= slen /\ \A l \in 1 .. m : Text[l] = t[l]
      /\ long <=> Len(x) = m
  BY AtStartIs
<1> HIDE DEF t
<1>3. Abstract!Cased(x, Lower) = Abstract!Cased(t, Lower)
        <=> Len(x) = Len(t) /\ \A l \in 1 .. Len(x) : Lower[x[l]] = Lower[t[l]]
  BY <1>1, CasedSame
<1>4. x = t <=> Len(x) = m /\ \A l \in 1 .. m : x[l] = t[l]
  BY <1>1, SameText
<1> HIDE DEF m
<1>5. ASSUME NEW value
      PROVE  Differing(t, m, value) = <<>> <=> \A l \in 1 .. m : value[Text[l]] = value[t[l]]
  <2>1. \/ Agrees(t, m, value) /\ Differing(t, m, value) = <<>>
        \/ \E k : DiffersAt(k, t, m, value) /\ Differing(t, m, value) = <<Text[k], t[k]>>
    BY <1>1, DifferingIs
  <2>2. CASE Agrees(t, m, value) /\ Differing(t, m, value) = <<>>
    BY <2>2 DEF Agrees
  <2>3. ASSUME NEW k, DiffersAt(k, t, m, value), Differing(t, m, value) = <<Text[k], t[k]>>
        PROVE  Differing(t, m, value) = <<>> <=> \A l \in 1 .. m : value[Text[l]] = value[t[l]]
    <3>1. <<Text[k], t[k]>> # <<>>
      OBVIOUS
    <3>2. k \in 1 .. m /\ value[Text[k]] # value[t[k]]
      BY <2>3 DEF DiffersAt
    <3> QED BY <2>3, <3>1, <3>2
  <2> QED BY <2>1, <2>2, <2>3
<1>6. CASE Len(x) = m
  <2>1. \A l \in 1 .. m : x[l] = Text[l] /\ Text[l] \in Char /\ t[l] \in Char
    BY <1>1, <1>6, ElementOfSeq DEF m
  <2>2. \A l \in 1 .. m : Code[Text[l]] = Code[t[l]] <=> x[l] = t[l]
    BY <2>1 DEF CodesDiffer
  <2>3. \A l \in 1 .. m : Small[Text[l]] = Small[t[l]] <=> Lower[x[l]] = Lower[t[l]]
    BY <2>1, SmallIsLower
  <2>4. Differing(t, m, Code) = <<>> <=> x = t
    BY <1>4, <1>5, <1>6, <2>2
  <2>5. Differing(t, m, Small) = <<>> <=> Abstract!Cased(x, Lower) = Abstract!Cased(t, Lower)
    BY <1>3, <1>5, <1>6, <2>3 DEF m
  <2>6. same => x = t
    BY <1>2, <1>4, <1>6, <2>1
  <2> QED BY <1>2, <1>6, <2>4, <2>5, <2>6 DEF m, t
<1>7. CASE Len(x) # m
  BY <1>2, <1>3, <1>4, <1>7 DEF m, t
<1> QED BY <1>6, <1>7

\* biseq, bisstemeqblk and their relatives.
LEMMA EqualsRefines ==
  ASSUME Terminated, NullIsNoText, CodesDiffer, NEW a \in Args,
         \/ biseq(a) \/ biseqcaseless(a) \/ bisstemeq(a) \/ bisstemeqcaseless(a)
         \/ Equals("iseqcstr", a, slen = Len(a.text), Code)
         \/ Equals("iseqcstrcaseless", a, slen = Len(a.text), Small)
  PROVE  Abstract!Next
<1> DEFINE t == a.text
           m == Len(t)
           y == Abstract!Least(Text, m)
           Call(name) == <<name, t>>
           Value(long, same, value) == long /\ (same \/ Differing(t, m, value) = <<>>)
<1>1. /\ str /\ t \in Seq(Char) /\ m \in Nat /\ Text \in Seq(Char) /\ Len(Text) = slen
      /\ slen \in Nat
  <2>1. str
    BY DEF biseq, biseqcaseless, bisstemeq, bisstemeqcaseless, Equals
  <2> QED BY <2>1, ArgIs, StringIs, StringInside DEF IsArg
<1>2. /\ y \in Seq(Char) /\ Len(y) <= slen /\ \A i \in 1 .. Len(y) : y[i] = Text[i]
      /\ slen >= m <=> Len(y) = m
  <2>1. /\ y \in Seq(Char) /\ Len(y) = (IF m < Len(Text) THEN m ELSE Len(Text))
        /\ \A i \in 1 .. Len(y) : y[i] = Text[i]
    BY <1>1, LeastIs
  <2> HIDE DEF y, m
  <2> QED BY <1>1, <2>1
<1>3. ASSUME NEW same, same => AtStart(a)
      PROVE  /\ Value(slen = m, same, Code) <=> Text = t
             /\ Value(slen = m, same, Small)
                  <=> Abstract!Cased(Text, Lower) = Abstract!Cased(t, Lower)
             /\ Value(slen >= m, same, Code) <=> y = t
             /\ Value(slen >= m, same, Small)
                  <=> Abstract!Cased(y, Lower) = Abstract!Cased(t, Lower)
  <2> HIDE DEF y
  <2> DEFINE long1 == slen = m
             long2 == slen >= m
  <2>1. (long1 <=> Len(Text) = Len(t)) /\ Len(Text) <= slen
        /\ \A i \in 1 .. Len(Text) : Text[i] = Text[i]
    BY <1>1
  <2>2. long2 <=> Len(y) = Len(t)
    BY <1>2
  <2> HIDE DEF long1, long2
  <2>3. /\ Value(long1, same, Code) <=> Text = t
        /\ Value(long1, same, Small)
             <=> Abstract!Cased(Text, Lower) = Abstract!Cased(t, Lower)
    BY <1>1, <1>3, <2>1, EqualIs
  <2>4. /\ Value(long2, same, Code) <=> y = t
        /\ Value(long2, same, Small)
             <=> Abstract!Cased(y, Lower) = Abstract!Cased(t, Lower)
    BY <1>1, <1>2, <1>3, <2>2, EqualIs
  <2> QED BY <2>3, <2>4 DEF long1, long2
<1>4. ASSUME NEW name, NEW long, NEW value, Equals(name, a, long, value)
      PROVE  \E same : (same => AtStart(a)) /\ Copies(Call(name), Value(long, same, value))
  BY <1>4 DEF Equals
<1>5. ASSUME NEW name, Call(name)[1] \in {"iseq", "iseqcstr"}, Equals(name, a, slen = m, Code)
      PROVE  Abstract!Next
  <2>1. PICK same : (same => AtStart(a)) /\ Copies(Call(name), Value(slen = m, same, Code))
    BY <1>5 DEF Equals
  <2> DEFINE v == Value(slen = m, same, Code)
             call == Call(name)
  <2>2. v = (Text = t)
    BY <1>3, <2>1, Zenon
  <2>3. call[2] = t /\ Copies(call, v) /\ call[1] \in {"iseq", "iseqcstr"}
    BY <1>5, <2>1
  <2> HIDE DEF v, call
  <2> QED BY <1>1, <2>2, <2>3, ComparedIs
<1>6. ASSUME NEW name, Call(name)[1] \in {"iseqcaseless", "iseqcstrcaseless"},
             Equals(name, a, slen = m, Small)
      PROVE  Abstract!Next
  <2>1. PICK same : (same => AtStart(a)) /\ Copies(Call(name), Value(slen = m, same, Small))
    BY <1>6 DEF Equals
  <2> DEFINE v == Value(slen = m, same, Small)
             call == Call(name)
  <2>2. v = (Abstract!Cased(Text, Lower) = Abstract!Cased(t, Lower))
    BY <1>3, <2>1, Zenon
  <2>3. call[2] = t /\ Copies(call, v) /\ call[1] \in {"iseqcaseless", "iseqcstrcaseless"}
    BY <1>6, <2>1
  <2> HIDE DEF v, call
  <2> QED BY <1>1, <2>2, <2>3, ComparedIs
<1>7. ASSUME Equals("isstemeq", a, slen >= m, Code)
      PROVE  Abstract!Next
  <2>1. PICK same :
          (same => AtStart(a)) /\ Copies(Call("isstemeq"), Value(slen >= m, same, Code))
    BY <1>4, <1>7
  <2> DEFINE v == Value(slen >= m, same, Code)
             call == Call("isstemeq")
  <2>2. v = (y = t)
    BY <1>3, <2>1, Zenon
  <2>3. call[2] = t /\ Copies(call, v) /\ call[1] = "isstemeq"
    BY <2>1
  <2> HIDE DEF v, call
  <2> QED BY <1>1, <2>2, <2>3, ComparedIs
<1>8. ASSUME Equals("isstemeqcaseless", a, slen >= m, Small)
      PROVE  Abstract!Next
  <2>1. PICK same :
          (same => AtStart(a)) /\ Copies(Call("isstemeqcaseless"), Value(slen >= m, same, Small))
    BY <1>4, <1>8
  <2> DEFINE v == Value(slen >= m, same, Small)
             call == Call("isstemeqcaseless")
  <2>2. v = (Abstract!Cased(y, Lower) = Abstract!Cased(t, Lower))
    BY <1>3, <2>1, Zenon
  <2>3. call[2] = t /\ Copies(call, v) /\ call[1] = "isstemeqcaseless"
    BY <2>1
  <2> HIDE DEF v, call
  <2> QED BY <1>1, <2>2, <2>3, ComparedIs
<1>9. /\ Call("iseq")[1] = "iseq" /\ Call("iseqcstr")[1] = "iseqcstr"
      /\ Call("iseqcaseless")[1] = "iseqcaseless"
      /\ Call("iseqcstrcaseless")[1] = "iseqcstrcaseless"
  OBVIOUS
<1> HIDE DEF Call
<1> QED BY <1>5, <1>6, <1>7, <1>8, <1>9 DEF biseq, biseqcaseless, bisstemeq, bisstemeqcaseless
-----------------------------------------------------------------------------
(* Replacing, as AbstractString says.                                      *)

\* Where the stretch behind match k begins, and where it ends; match 0 is where the search
\* begins.
GapFrom(s, p, len, k) == IF k = 0 THEN p ELSE s[k] + len
GapTo(s, k) == IF k = Len(s) THEN slen ELSE s[k + 1]

\* The matches s are among those in M, and none of M begins between them.
Leftmost(s, p, len, M) ==
  /\ \A k \in 1 .. Len(s) : s[k] \in M
  /\ \A k \in 0 .. Len(s), i \in M : ~(GapFrom(s, p, len, k) <= i /\ i < GapTo(s, k))

\* A match more, in front of others.
LEMMA LeftmostMore ==
  ASSUME slen \in Nat, NEW len \in Nat, NEW p \in Nat, NEW M \in SUBSET Nat, NEW x \in M,
         \A i \in M : i >= p => x <= i,
         NEW s \in Seq(Nat), Leftmost(s, x + len, len, M)
  PROVE  Leftmost(<<x>> \o s, p, len, M)
<1>1. Len(s) \in Nat /\ <<x>> \in Seq(Nat) /\ x \in Nat
  OBVIOUS
<1> DEFINE u == <<x>> \o s
<1>2. /\ u \in Seq(Nat) /\ Len(u) = 1 + Len(s)
      /\ \A i \in 1 .. 1 + Len(s) : u[i] = IF i <= 1 THEN <<x>>[i] ELSE s[i - 1]
  BY <1>1, ConcatProperties
<1> HIDE DEF u
<1>3. u[1] = x /\ \A i \in 1 .. Len(s) : u[i + 1] = s[i]
  BY <1>1, <1>2
<1>4. \A k \in 1 .. Len(u) : u[k] \in M
  <2>1. TAKE k \in 1 .. Len(u)
  <2>2. CASE k = 1
    BY <1>3, <2>2
  <2>3. CASE k # 1
    <3>1. k - 1 \in 1 .. Len(s) /\ u[k] = s[k - 1]
      BY <1>1, <1>2, <1>3, <2>3
    <3> QED BY <3>1 DEF Leftmost
  <2> QED BY <2>2, <2>3
<1>5. ASSUME NEW k \in 1 .. Len(u)
      PROVE  /\ k - 1 \in 0 .. Len(s) /\ GapFrom(u, p, len, k) = GapFrom(s, x + len, len, k - 1)
             /\ GapTo(u, k) = GapTo(s, k - 1)
  <2>1. k - 1 \in 0 .. Len(s) /\ k # 0 /\ k \in 1 .. 1 + Len(s)
    BY <1>1, <1>2
  <2>2. u[k] = IF k - 1 = 0 THEN x ELSE s[k - 1]
    BY <1>1, <1>2, <1>3
  <2>3. GapFrom(u, p, len, k) = GapFrom(s, x + len, len, k - 1)
    BY <2>1, <2>2 DEF GapFrom
  <2>4. k # Len(u) => k \in 1 .. Len(s) /\ k # 1 + Len(s)
    BY <1>1, <1>2
  <2>5. k = Len(u) <=> k - 1 = Len(s)
    BY <1>1, <1>2
  <2>6. GapTo(u, k) = GapTo(s, k - 1)
    <3>1. CASE k = Len(u)
      BY <2>5, <3>1 DEF GapTo
    <3>2. CASE k # Len(u)
      <4>1. u[k + 1] = s[k] /\ (k - 1) + 1 = k
        BY <1>3, <2>4, <3>2
      <4> QED BY <2>5, <3>2, <4>1 DEF GapTo
    <3> QED BY <3>1, <3>2
  <2> QED BY <2>1, <2>3, <2>6
<1>6. \A i \in M : ~(GapFrom(u, p, len, 0) <= i /\ i < GapTo(u, 0))
  <2>1. GapFrom(u, p, len, 0) = p
    BY DEF GapFrom
  <2>2. GapTo(u, 0) = x
    <3>1. 0 # Len(u)
      BY <1>1, <1>2
    <3> QED BY <1>3, <3>1 DEF GapTo
  <2>3. ASSUME NEW i \in M, p <= i, i < x PROVE FALSE
    <3>1. x <= i /\ i \in Nat
      BY <2>3
    <3> QED BY <1>1, <2>3, <3>1
  <2> QED BY <2>1, <2>2, <2>3
<1>7. \A k \in 0 .. Len(u), i \in M : ~(GapFrom(u, p, len, k) <= i /\ i < GapTo(u, k))
  <2>1. TAKE k \in 0 .. Len(u), i \in M
  <2>2. CASE k = 0
    BY <1>6, <2>2
  <2>3. CASE k # 0
    <3>1. k \in 1 .. Len(u)
      BY <1>1, <1>2, <2>3
    <3> QED BY <1>5, <3>1 DEF Leftmost
  <2> QED BY <2>2, <2>3
<1> QED BY <1>4, <1>7 DEF Leftmost, u

\* What Matches passes over is no match.
LEMMA MatchesLeftmost ==
  ASSUME slen \in Nat, NEW find \in Seq(Char), find # <<>>, NEW caseless, NEW pos \in 0 .. slen
  PROVE  Leftmost(Matches(find, pos, caseless), pos, Len(find), FoundFrom(find, caseless, 0))
<1> DEFINE T(p) == FoundFrom(find, caseless, p)
           M == T(0)
           len == Len(find)
<1>1. \A p \in 0 .. slen : T(p) = {i \in M : i >= p}
  BY DEF FoundFrom
<1>2. M \in SUBSET Nat /\ M \subseteq 0 .. slen /\ len \in Nat
  BY DEF FoundFrom
<1>3. PICK F : Scans(F, find, caseless, 0) /\ Matches(find, pos, caseless) = F[pos]
  BY MatchesAre
<1>4. \A p \in 0 .. slen : F[p] = IF T(p) = {} THEN <<>> ELSE <<Min(T(p))>> \o F[Min(T(p)) + len]
  BY <1>3 DEF Scans
<1>5. \A p \in 0 .. slen : T(p) # {} => /\ Min(T(p)) \in p .. slen /\ Min(T(p)) \in T(p)
                                        /\ Min(T(p)) + len \in p + 1 .. slen
                                        /\ \A i \in T(p) : Min(T(p)) <= i
  <2>1. TAKE p \in 0 .. slen
  <2>2. SUFFICES ASSUME T(p) # {}
                 PROVE  /\ Min(T(p)) \in p .. slen /\ Min(T(p)) \in T(p)
                        /\ Min(T(p)) + len \in p + 1 .. slen
                        /\ \A i \in T(p) : Min(T(p)) <= i
    OBVIOUS
  <2>3. Min(T(p)) \in p .. slen /\ Min(T(p)) + len \in p + 1 .. slen
    BY <2>2, FoundInside
  <2>4. T(p) \in SUBSET Nat
    BY <1>1, <1>2
  <2> HIDE DEF T
  <2>5. Min(T(p)) \in T(p) /\ \A i \in T(p) : Min(T(p)) <= i
    BY <2>2, <2>4, MinIsLeast
  <2> QED BY <2>3, <2>5
<1> HIDE DEF T, M
<1> DEFINE Good(p) == F[p] \in Seq(Nat) /\ Leftmost(F[p], p, len, M)
           Bad == {k \in 0 .. slen : ~Good(slen - k)}
<1>6. ASSUME Bad # {} PROVE FALSE
  <2>1. Bad \in SUBSET Nat
    OBVIOUS
  <2>2. PICK m \in Bad : \A k \in Bad : m <= k
    BY <1>6, <2>1, MinIsLeast
  <2>3. m \in 0 .. slen /\ ~Good(slen - m)
    OBVIOUS
  <2>4. \A k \in 0 .. slen : k < m => Good(slen - k)
    BY <2>2
  <2> HIDE DEF Bad
  <2> DEFINE q == slen - m
             x == Min(T(q))
  <2>5. q \in 0 .. slen /\ q \in Nat
    BY <2>3
  <2>6. CASE T(q) = {}
    <3>1. F[q] = <<>>
      BY <1>4, <2>5, <2>6
    <3>2. \A i \in M : ~(q <= i)
      BY <1>1, <1>2, <2>5, <2>6
    <3> HIDE DEF q
    <3>3. Leftmost(<<>>, q, len, M)
      <4>1. Len(<<>>) = 0 /\ \A k \in 0 .. 0 : k = 0
        OBVIOUS
      <4>2. GapFrom(<<>>, q, len, 0) = q
        BY DEF GapFrom
      <4> QED BY <3>2, <4>1, <4>2 DEF Leftmost
    <3>4. F[q] \in Seq(Nat)
      BY <3>1
    <3> QED BY <2>3, <3>1, <3>3, <3>4 DEF q
  <2>7. CASE T(q) # {}
    <3>1. /\ x \in q .. slen /\ x \in T(q) /\ x + len \in q + 1 .. slen
          /\ \A i \in T(q) : x <= i
      BY <1>5, <2>5, <2>7
    <3>2. F[q] = <<x>> \o F[x + len]
      BY <1>4, <2>5, <2>7
    <3>3. T(q) = {i \in M : i >= q}
      BY <1>1, <2>5
    <3> HIDE DEF x, len
    <3>4. slen - (x + len) \in 0 .. slen /\ slen - (x + len) < m
          /\ slen - (slen - (x + len)) = x + len
      BY <2>3, <2>5, <3>1
    <3>5. Good(x + len)
      BY <2>4, <3>4
    <3>6. x \in M /\ \A i \in M : i >= q => x <= i
      BY <3>1, <3>3
    <3> HIDE DEF q
    <3>7. F[x + len] \in Seq(Nat) /\ Leftmost(F[x + len], x + len, len, M)
      BY <3>5
    <3>8. Leftmost(<<x>> \o F[x + len], q, len, M)
      BY <1>2, <2>5, <3>6, <3>7, LeftmostMore DEF len
    <3>9. <<x>> \o F[x + len] \in Seq(Nat)
      <4>1. x \in Nat
        BY <1>2, <3>6
      <4> QED BY <3>7, <4>1
    <3> QED BY <2>3, <3>2, <3>8, <3>9 DEF q
  <2> QED BY <2>6, <2>7
<1> DEFINE k == slen - pos
<1>7. k \in 0 .. slen /\ slen - k = pos
  OBVIOUS
<1>8. k \notin Bad
  BY <1>6
<1> HIDE DEF k
<1>9. Good(slen - k)
  BY <1>7, <1>8
<1> QED BY <1>3, <1>7, <1>9 DEF M, T

\* Which characters a call to replace takes for the same.
Same(caseless) == IF caseless THEN Lower ELSE [x \in DOMAIN Lower |-> x]

\* A match is where the characters are the same.
LEMMA MatchIs ==
  ASSUME Terminated, NEW find \in Seq(Char), NEW caseless \in BOOLEAN, NEW q \in 0 .. slen,
         q + Len(find) <= slen
  PROVE  Abstract!Cased(SubSeq(Text, q + 1, q + Len(find)), Same(caseless))
           = Abstract!Cased(find, Same(caseless))
         <=> q \in FoundFrom(find, caseless, 0)
<1> DEFINE len == Len(find)
           x == SubSeq(Text, q + 1, q + len)
           same == Same(caseless)
<1>1. slen \in Nat /\ Text \in Seq(Char) /\ Len(Text) = slen /\ len \in Nat /\ q \in Nat
  BY StringIs DEF Holds, IsBlock
<1>2. x \in Seq(Char) /\ Len(x) = len /\ \A k \in 1 .. len : x[k] = Text[q + k]
  <2> DEFINE high == q + len
  <2>1. high \in Int /\ high <= Len(Text) /\ high - q = len /\ (q < high <=> len > 0)
    BY <1>1
  <2> HIDE DEF high
  <2>2. /\ SubSeq(Text, q + 1, high) \in Seq(Char)
        /\ Len(SubSeq(Text, q + 1, high)) = (IF q < high THEN high - q ELSE 0)
        /\ \A i \in 1 .. high - q : SubSeq(Text, q + 1, high)[i] = Text[q + i]
    BY <1>1, <2>1, SliceIs
  <2> HIDE DEF len
  <2> QED BY <1>1, <2>1, <2>2 DEF high
<1>3. q \in FoundFrom(find, caseless, 0)
        <=> IF caseless THEN OccursCaseless(find, q) ELSE Occurs(find, q)
  BY DEF FoundFrom
<1>4. x = SubSeq(Text, q + 1, q + Len(find))
  OBVIOUS
<1> HIDE DEF x, len
<1>5. Abstract!Cased(x, same) = Abstract!Cased(find, same)
        <=> Len(x) = Len(find) /\ \A l \in 1 .. Len(x) : same[x[l]] = same[find[l]]
  <2> HIDE DEF same
  <2> QED BY <1>2, CasedSame, ZenonT(60)
<1>6. Len(x) = Len(find) /\ Len(find) = len
  BY <1>2 DEF len
<1>7. CASE caseless
  <2>1. same = Lower
    BY <1>7 DEF Same
  <2>2. OccursCaseless(find, q) <=> \A k \in 1 .. len : Lower[Text[q + k]] = Lower[find[k]]
    BY <1>6 DEF OccursCaseless
  <2> QED BY <1>2, <1>3, <1>4, <1>5, <1>6, <1>7, <2>1, <2>2
<1>8. CASE ~caseless
  <2>1. \A c \in Char : same[c] = c
    BY <1>8, ConstantsAssumption DEF Same
  <2>2. \A k \in 1 .. len : x[k] \in Char /\ find[k] \in Char
    BY <1>2, <1>6, ElementOfSeq
  <2>3. (\A l \in 1 .. len : same[x[l]] = same[find[l]]) <=> \A l \in 1 .. len : x[l] = find[l]
    BY <2>1, <2>2
  <2>4. (\A l \in 1 .. len : x[l] = find[l]) <=> x = find
    <3>1. (\A l \in 1 .. len : x[l] = find[l]) => x = find
      BY <1>2, <1>6, SameText
    <3> QED BY <3>1
  <2>5. Occurs(find, q) <=> x = find
    BY <1>4 DEF Occurs
  <2> QED BY <1>3, <1>4, <1>5, <1>6, <1>8, <2>3, <2>4, <2>5
<1> QED BY <1>7, <1>8

\* f[p] is s from p on with t for what there is to be replaced, at the positions in D.
Follows(f, s, D, len, t, m) ==
  /\ f = [p \in m .. Len(s) |-> f[p]]
  /\ f[Len(s)] = <<>>
  /\ \A p \in m .. Len(s) - 1 :
       f[p] = IF p \in D THEN t \o f[p + len] ELSE <<s[p + 1]>> \o f[p + 1]

\* There is such a function.
LEMMA FollowsExist ==
  ASSUME NEW s, Len(s) \in Nat, NEW D, NEW len \in Nat, len > 0,
         \A p \in D : p + len <= Len(s), NEW t
  PROVE  \E f : Follows(f, s, D, len, t, 0)
<1> DEFINE N == Len(s)
           Bad == {k \in 0 .. N : ~ \E f : Follows(f, s, D, len, t, N - k)}
<1>1. ASSUME Bad # {} PROVE FALSE
  <2>1. Bad \in SUBSET Nat
    OBVIOUS
  <2>2. PICK m \in Bad : \A k \in Bad : m <= k
    BY <1>1, <2>1, MinIsLeast
  <2>3. m \in 0 .. N /\ ~ \E f : Follows(f, s, D, len, t, N - m)
    OBVIOUS
  <2>4. \A k \in 0 .. N : k < m => \E f : Follows(f, s, D, len, t, N - k)
    BY <2>2
  <2> HIDE DEF Bad
  <2>5. CASE m = 0
    <3>1. Follows([p \in N .. N |-> <<>>], s, D, len, t, N)
      BY DEF Follows
    <3>2. N - m = N
      BY <2>5
    <3> QED BY <2>3, <3>1, <3>2
  <2>6. CASE m # 0
    <3> DEFINE q == N - m
    <3>1. q \in 0 .. N - 1 /\ m - 1 \in 0 .. N /\ m - 1 < m /\ N - (m - 1) = q + 1
      BY <2>3, <2>6
    <3>2. PICK f : Follows(f, s, D, len, t, N - (m - 1))
      BY <2>4, <3>1
    <3>3. Follows(f, s, D, len, t, q + 1)
      BY <3>1, <3>2
    <3> DEFINE x == IF q \in D THEN t \o f[q + len] ELSE <<s[q + 1]>> \o f[q + 1]
    <3> HIDE DEF x, q
    <3> DEFINE g == [p \in q .. N |-> IF p = q THEN x ELSE f[p]]
    <3>4. g[q] = x /\ (\A p \in q + 1 .. N : g[p] = f[p]) /\ N \in q + 1 .. N
      BY <3>1
    <3>5. g = [p \in q .. N |-> g[p]]
      OBVIOUS
    <3> HIDE DEF g
    <3>6. f[N] = <<>> /\ \A p \in q + 1 .. N - 1 :
            f[p] = IF p \in D THEN t \o f[p + len] ELSE <<s[p + 1]>> \o f[p + 1]
      BY <3>3 DEF Follows
    <3>7. \A p \in q .. N - 1 : p + 1 \in q + 1 .. N /\ (p \in D => p + len \in q + 1 .. N)
      BY <3>1
    <3>8. \A p \in q .. N - 1 : g[p + 1] = f[p + 1] /\ (p \in D => g[p + len] = f[p + len])
      BY <3>4, <3>7
    <3>9. \A p \in q .. N - 1 :
            g[p] = IF p \in D THEN t \o g[p + len] ELSE <<s[p + 1]>> \o g[p + 1]
      <4>1. TAKE p \in q .. N - 1
      <4>2. CASE p = q
        BY <3>4, <3>8, <4>2 DEF x
      <4>3. CASE p # q
        <5>1. p \in q + 1 .. N - 1 /\ p \in q + 1 .. N
          BY <3>1, <4>3
        <5> QED BY <3>4, <3>6, <3>8, <5>1
      <4> QED BY <4>2, <4>3
    <3>10. Follows(g, s, D, len, t, q)
      BY <3>4, <3>5, <3>6, <3>9 DEF Follows
    <3> QED BY <2>3, <3>10 DEF q
  <2> QED BY <2>5, <2>6
<1>2. N \notin Bad
  BY <1>1
<1>3. N - N = 0 /\ N \in 0 .. N
  OBVIOUS
<1> QED BY <1>2, <1>3

\* What Replaced is, with the positions where there is a match named.
LEMMA ReplacedIs ==
  ASSUME NEW s, Len(s) \in Nat, NEW find, Len(find) \in Nat, Len(find) > 0, NEW t, NEW case,
         NEW D, D = {p \in 0 .. Len(s) :
                       /\ p + Len(find) <= Len(s)
                       /\ Abstract!Cased(SubSeq(s, p + 1, p + Len(find)), case)
                            = Abstract!Cased(find, case)}
  PROVE  \E f : Follows(f, s, D, Len(find), t, 0) /\ Abstract!Replaced(s, find, t, case) = f[0]
<1> DEFINE found == Abstract!Cased(find, case)
           C(p) == /\ p + Len(find) <= Len(s)
                   /\ Abstract!Cased(SubSeq(s, p + 1, p + Len(find)), case) = found
           F == CHOOSE f : f = [p \in 0 .. Len(s) |->
                  IF p = Len(s) THEN <<>>
                  ELSE IF C(p) THEN t \o f[p + Len(find)] ELSE <<s[p + 1]>> \o f[p + 1]]
<1>1. Abstract!Replaced(s, find, t, case) = F[0]
  BY DEF Abstract!Replaced
<1>2. \A p \in 0 .. Len(s) : p \in D <=> C(p)
  OBVIOUS
<1>3. \A p \in D : p + Len(find) <= Len(s)
  OBVIOUS
<1>4. PICK g : Follows(g, s, D, Len(find), t, 0)
  BY <1>3, FollowsExist
<1> HIDE DEF C
<1>5. g = [p \in 0 .. Len(s) |->
             IF p = Len(s) THEN <<>>
             ELSE IF C(p) THEN t \o g[p + Len(find)] ELSE <<s[p + 1]>> \o g[p + 1]]
  <2> DEFINE e == [p \in 0 .. Len(s) |->
             IF p = Len(s) THEN <<>>
             ELSE IF C(p) THEN t \o g[p + Len(find)] ELSE <<s[p + 1]>> \o g[p + 1]]
  <2>1. \A p \in 0 .. Len(s) : g[p] = e[p]
    <3>1. TAKE p \in 0 .. Len(s)
    <3>2. p # Len(s) => p \in 0 .. Len(s) - 1
      OBVIOUS
    <3>3. p \in D <=> C(p)
      BY <1>2
    <3>4. e[p] = IF p = Len(s) THEN <<>>
                 ELSE IF p \in D THEN t \o g[p + Len(find)] ELSE <<s[p + 1]>> \o g[p + 1]
      BY <3>3
    <3> HIDE DEF e
    <3> QED BY <1>4, <3>2, <3>4 DEF Follows
  <2>2. g = [p \in 0 .. Len(s) |-> g[p]]
    BY <1>4 DEF Follows
  <2> QED BY <2>1, <2>2
<1>6. F = [p \in 0 .. Len(s) |->
             IF p = Len(s) THEN <<>>
             ELSE IF C(p) THEN t \o F[p + Len(find)] ELSE <<s[p + 1]>> \o F[p + 1]]
  BY <1>5
<1> HIDE DEF F
<1>7. F = [p \in 0 .. Len(s) |-> F[p]] /\ F[Len(s)] = <<>>
  BY <1>6
<1>8. \A p \in 0 .. Len(s) - 1 :
        F[p] = IF p \in D THEN t \o F[p + Len(find)] ELSE <<s[p + 1]>> \o F[p + 1]
  <2>1. TAKE p \in 0 .. Len(s) - 1
  <2>2. p \in 0 .. Len(s) /\ p # Len(s)
    OBVIOUS
  <2> HIDE DEF found
  <2> QED BY <1>2, <1>6, <2>2
<1>9. Follows(F, s, D, Len(find), t, 0)
  BY <1>7, <1>8 DEF Follows
<1> QED BY <1>1, <1>9

\* R[q] is the string from q on with t for what there is to be replaced; the matches
\* are in M.
Onward(R, pos, len, t, M) ==
  /\ \A q \in pos .. slen : R[q] \in Seq(Char)
  /\ R[slen] = <<>>
  /\ \A q \in pos .. slen - 1 :
       R[q] = IF q \in M THEN t \o R[q + len] ELSE <<Text[q + 1]>> \o R[q + 1]

\* What is left of the string behind pos.
LEMMA FromIs ==
  ASSUME Terminated, NEW pos \in 0 .. slen
  PROVE  /\ Abstract!From(Text, pos) \in Seq(Char) /\ Len(Abstract!From(Text, pos)) = slen - pos
         /\ \A i \in 1 .. slen - pos : Abstract!From(Text, pos)[i] = Text[pos + i]
<1>1. slen \in Nat /\ Text \in Seq(Char) /\ Len(Text) = slen
  BY StringIs DEF Holds, IsBlock
<1>2. pos \in Nat /\ slen \in Int /\ slen <= Len(Text) /\ (~(pos < slen) => slen - pos = 0)
  BY <1>1
<1>3. /\ SubSeq(Text, pos + 1, slen) \in Seq(Char)
      /\ Len(SubSeq(Text, pos + 1, slen)) = (IF pos < slen THEN slen - pos ELSE 0)
      /\ \A i \in 1 .. slen - pos : SubSeq(Text, pos + 1, slen)[i] = Text[pos + i]
  BY <1>1, <1>2, SliceIs
<1>4. Abstract!From(Text, pos) = SubSeq(Text, pos + 1, slen)
  BY <1>1 DEF Abstract!From
<1> HIDE DEF Text
<1> QED BY <1>2, <1>3, <1>4

\* A piece of it is a piece of the string.
LEMMA FromPiece ==
  ASSUME Terminated, NEW pos \in 0 .. slen, NEW p \in Nat, NEW len \in Nat,
         pos + p + len <= slen
  PROVE  SubSeq(Abstract!From(Text, pos), p + 1, p + len)
           = SubSeq(Text, pos + p + 1, pos + p + len)
<1> DEFINE u == Abstract!From(Text, pos)
           a == pos + p
           high == p + len
           top == a + len
<1>1. slen \in Nat /\ Text \in Seq(Char) /\ Len(Text) = slen
  BY StringIs DEF Holds, IsBlock
<1>2. /\ u \in Seq(Char) /\ Len(u) = slen - pos
      /\ \A i \in 1 .. slen - pos : u[i] = Text[pos + i]
  BY FromIs
<1> HIDE DEF u
<1>3. /\ high \in Int /\ high <= Len(u) /\ high - p = len /\ a \in Nat /\ top \in Int
      /\ top <= Len(Text) /\ top - a = len
      /\ (IF p < high THEN len ELSE 0) = len /\ (IF a < top THEN len ELSE 0) = len
  BY <1>1, <1>2
<1>4. \A i \in 1 .. len : p + i \in 1 .. slen - pos /\ pos + (p + i) = a + i
  BY <1>1
<1> HIDE DEF high, a, top
<1> DEFINE v == SubSeq(u, p + 1, high)
           w == SubSeq(Text, a + 1, top)
<1>5. v \in Seq(Char) /\ Len(v) = len /\ \A i \in 1 .. len : v[i] = u[p + i]
  <2>1. /\ SubSeq(u, p + 1, high) \in Seq(Char)
        /\ Len(SubSeq(u, p + 1, high)) = (IF p < high THEN high - p ELSE 0)
        /\ \A i \in 1 .. high - p : SubSeq(u, p + 1, high)[i] = u[p + i]
    BY <1>2, <1>3, SliceIs
  <2> QED BY <1>3, <2>1
<1>6. w \in Seq(Char) /\ Len(w) = len /\ \A i \in 1 .. len : w[i] = Text[a + i]
  <2>1. /\ SubSeq(Text, a + 1, top) \in Seq(Char)
        /\ Len(SubSeq(Text, a + 1, top)) = (IF a < top THEN top - a ELSE 0)
        /\ \A i \in 1 .. top - a : SubSeq(Text, a + 1, top)[i] = Text[a + i]
    BY <1>1, <1>3, SliceIs
  <2> QED BY <1>3, <2>1
<1> HIDE DEF v, w
<1>7. \A i \in 1 .. Len(v) : v[i] = w[i]
  BY <1>2, <1>4, <1>5, <1>6
<1>8. v = w
  BY <1>5, <1>6, <1>7, SameText
<1> QED BY <1>8 DEF u, v, w, a, high, top

\* There is such a function, and Replaced is where it begins.
LEMMA OnwardIs ==
  ASSUME Terminated, NEW find \in Seq(Char), find # <<>>, NEW caseless \in BOOLEAN,
         NEW pos \in 0 .. slen, NEW t \in Seq(Char)
  PROVE  \E R : /\ Onward(R, pos, Len(find), t, FoundFrom(find, caseless, 0))
                /\ Abstract!Replaced(Abstract!From(Text, pos), find, t, Same(caseless)) = R[pos]
<1> DEFINE len == Len(find)
           u == Abstract!From(Text, pos)
           M == FoundFrom(find, caseless, 0)
           same == Same(caseless)
           D == {p \in 0 .. Len(u) :
                   /\ p + len <= Len(u)
                   /\ Abstract!Cased(SubSeq(u, p + 1, p + len), same)
                        = Abstract!Cased(find, same)}
<1>1. slen \in Nat /\ Text \in Seq(Char) /\ Len(Text) = slen /\ len \in Nat /\ len > 0
  BY StringIs DEF Holds, IsBlock
<1>2. /\ u \in Seq(Char) /\ Len(u) = slen - pos
      /\ \A i \in 1 .. slen - pos : u[i] = Text[pos + i]
  BY FromIs
<1>3. PICK f : Follows(f, u, D, len, t, 0) /\ Abstract!Replaced(u, find, t, same) = f[0]
  <2>1. D = {p \in 0 .. Len(u) :
               /\ p + Len(find) <= Len(u)
               /\ Abstract!Cased(SubSeq(u, p + 1, p + Len(find)), same)
                    = Abstract!Cased(find, same)}
    OBVIOUS
  <2>2. Len(u) \in Nat
    BY <1>2
  <2> HIDE DEF D, u, same
  <2> QED BY <1>1, <2>1, <2>2, ReplacedIs
<1>4. M \subseteq 0 .. slen /\ \A q \in M : q + len <= slen
  BY DEF FoundFrom, Occurs, OccursCaseless
<1>5. \A p \in 0 .. Len(u) : p \in D <=> pos + p \in M
  <2>1. TAKE p \in 0 .. Len(u)
  <2>2. pos + p \in 0 .. slen /\ p \in Nat
    BY <1>1, <1>2
  <2>3. p + len <= Len(u) <=> pos + p + len <= slen
    BY <1>1, <1>2
  <2>4. CASE p + len <= Len(u)
    <3>1. SubSeq(u, p + 1, p + len) = SubSeq(Text, pos + p + 1, pos + p + len)
      BY <1>1, <2>2, <2>3, <2>4, FromPiece
    <3> DEFINE q == pos + p
    <3>2. Abstract!Cased(SubSeq(Text, q + 1, q + len), same) = Abstract!Cased(find, same)
            <=> q \in M
      <4>1. q \in 0 .. slen /\ q + Len(find) <= slen
        BY <2>2, <2>3, <2>4
      <4> HIDE DEF q
      <4> QED BY <4>1, MatchIs
    <3> HIDE DEF M, same, u
    <3> QED BY <2>4, <3>1, <3>2
  <2>5. CASE ~(p + len <= Len(u))
    BY <1>4, <2>3, <2>5
  <2> QED BY <2>4, <2>5
<1> DEFINE R == [q \in pos .. slen |-> f[q - pos]]
<1>6. \A q \in pos .. slen : R[q] = f[q - pos]
  OBVIOUS
<1>7. R[pos] = f[0] /\ R[slen] = <<>>
  <2>1. pos \in pos .. slen /\ slen \in pos .. slen /\ pos - pos = 0
    BY <1>1
  <2>2. f[slen - pos] = <<>>
    BY <1>2, <1>3 DEF Follows
  <2> HIDE DEF R
  <2> QED BY <1>6, <2>1, <2>2
<1> HIDE DEF R, D, u
<1>8. \A q \in pos .. slen - 1 :
        R[q] = IF q \in M THEN t \o R[q + len] ELSE <<Text[q + 1]>> \o R[q + 1]
  <2>1. TAKE q \in pos .. slen - 1
  <2> DEFINE p == q - pos
  <2>2. /\ p \in 0 .. Len(u) - 1 /\ p \in 0 .. Len(u) /\ pos + p = q /\ p + 1 \in 1 .. slen - pos
        /\ pos + (p + 1) = q + 1 /\ q + 1 \in pos .. slen /\ q + 1 - pos = p + 1
        /\ q + len - pos = p + len /\ q \in pos .. slen
    BY <1>1, <1>2
  <2> HIDE DEF p
  <2>3. f[p] = IF p \in D THEN t \o f[p + len] ELSE <<u[p + 1]>> \o f[p + 1]
    BY <1>3, <2>2 DEF Follows
  <2>4. R[q] = f[p]
    BY <1>6, <2>2 DEF p
  <2>5. p \in D <=> q \in M
    BY <1>5, <2>2
  <2>6. q \in M => R[q + len] = f[p + len]
    <3>1. q \in M => q + len \in pos .. slen
      BY <1>1, <1>4
    <3> QED BY <1>6, <2>2, <3>1
  <2>7. R[q + 1] = f[p + 1] /\ u[p + 1] = Text[q + 1]
    BY <1>2, <1>6, <2>2, SMTT(60)
  <2> QED BY <2>3, <2>4, <2>5, <2>6, <2>7
<1> HIDE DEF M
<1> DEFINE Bad == {k \in 0 .. slen - pos : R[slen - k] \notin Seq(Char)}
<1>9. ASSUME Bad # {} PROVE FALSE
  <2>1. Bad \in SUBSET Nat
    OBVIOUS
  <2>2. PICK m \in Bad : \A k \in Bad : m <= k
    BY <1>9, <2>1, MinIsLeast
  <2>3. m \in 0 .. slen - pos /\ R[slen - m] \notin Seq(Char)
    OBVIOUS
  <2>4. \A k \in 0 .. slen - pos : k < m => R[slen - k] \in Seq(Char)
    BY <2>2
  <2> HIDE DEF Bad
  <2> DEFINE q == slen - m
  <2>5. m # 0
    <3>1. slen - 0 = slen /\ <<>> \in Seq(Char)
      BY <1>1
    <3> QED BY <1>7, <2>3, <3>1
  <2>6. q \in pos .. slen - 1 /\ q + 1 \in 1 .. slen
    BY <1>1, <2>3, <2>5
  <2>7. \A r \in q + 1 .. slen : R[r] \in Seq(Char)
    <3>1. TAKE r \in q + 1 .. slen
    <3>2. slen - r \in 0 .. slen - pos /\ slen - r < m /\ slen - (slen - r) = r
      BY <1>1, <2>3, <2>6
    <3> QED BY <2>4, <3>2
  <2> HIDE DEF q
  <2>8. CASE q \in M
    <3>1. q + len \in q + 1 .. slen
      BY <1>1, <1>4, <2>6, <2>8
    <3>2. R[q] = t \o R[q + len] /\ R[q + len] \in Seq(Char)
      BY <1>8, <2>6, <2>7, <2>8, <3>1
    <3>3. R[q] \in Seq(Char)
      BY <3>2, ConcatProperties
    <3> QED BY <2>3, <3>3 DEF q
  <2>9. CASE q \notin M
    <3>1. q + 1 \in q + 1 .. slen
      BY <1>1, <2>6
    <3>2. R[q] = <<Text[q + 1]>> \o R[q + 1] /\ R[q + 1] \in Seq(Char)
      BY <1>8, <2>6, <2>7, <2>9, <3>1
    <3>3. Text[q + 1] \in Char
      BY <1>1, <2>6, ElementOfSeq
    <3>4. <<Text[q + 1]>> \in Seq(Char)
      BY <3>3
    <3>5. R[q] \in Seq(Char)
      BY <3>2, <3>4, ConcatProperties
    <3> QED BY <2>3, <3>5 DEF q
  <2> QED BY <2>8, <2>9
<1>10. \A q \in pos .. slen : R[q] \in Seq(Char)
  <2>1. TAKE q \in pos .. slen
  <2>2. slen - q \in 0 .. slen - pos /\ slen - (slen - q) = q
    BY <1>1
  <2>3. slen - q \notin Bad
    BY <1>9
  <2> DEFINE k == slen - q
  <2> HIDE DEF k
  <2>4. k \in 0 .. slen - pos /\ k \notin Bad /\ slen - k = q
    BY <2>2, <2>3 DEF k
  <2>5. R[slen - k] \in Seq(Char)
    BY <2>4
  <2> QED BY <2>4, <2>5
<1>11. Onward(R, pos, len, t, M)
  BY <1>7, <1>8, <1>10 DEF Onward
<1> QED BY <1>3, <1>7, <1>11 DEF u, M

\* R[b] is how R[a] ends, and the string from a to b is how it begins.
Leads(R, a, b) ==
  /\ Len(R[a]) = b - a + Len(R[b])
  /\ \A i \in 1 .. b - a : R[a][i] = Text[a + i]
  /\ \A i \in 1 .. Len(R[b]) : R[a][b - a + i] = R[b][i]

\* One character in front.
LEMMA LeadsMore ==
  ASSUME NEW R, NEW a \in Nat, NEW b \in Nat, a < b, R[a + 1] \in Seq(Char), R[b] \in Seq(Char),
         Text[a + 1] \in Char, R[a] = <<Text[a + 1]>> \o R[a + 1], Leads(R, a + 1, b)
  PROVE  Leads(R, a, b)
<1> DEFINE x == <<Text[a + 1]>>
           u == R[a + 1]
           c == a + 1
<1>1. x \in Seq(Char) /\ Len(x) = 1 /\ x[1] = Text[c]
  OBVIOUS
<1>2. u \in Seq(Char) /\ Len(u) \in Nat /\ c \in Nat /\ Len(R[b]) \in Nat
  OBVIOUS
<1>3. R[a] = x \o u
  OBVIOUS
<1> HIDE DEF x
<1>4. Len(R[a]) = 1 + Len(u) /\ R[a][1] = Text[c] /\ \A i \in 2 .. 1 + Len(u) : R[a][i] = u[i - 1]
  <2>1. /\ Len(x \o u) = Len(x) + Len(u)
        /\ \A i \in 1 .. Len(x) + Len(u) :
             (x \o u)[i] = IF i <= Len(x) THEN x[i] ELSE u[i - Len(x)]
    BY <1>1, <1>2, ConcatProperties
  <2> QED BY <1>1, <1>2, <1>3, <2>1
<1>5. /\ Len(u) = b - c + Len(R[b])
      /\ \A i \in 1 .. b - c : u[i] = Text[c + i]
      /\ \A i \in 1 .. Len(R[b]) : u[b - c + i] = R[b][i]
  BY DEF Leads
<1>6. b - c = b - a - 1 /\ b - c \in Nat
  OBVIOUS
<1> HIDE DEF u
<1>7. Len(R[a]) = b - a + Len(R[b])
  BY <1>2, <1>4, <1>5, <1>6
<1>8. \A i \in 1 .. b - a : R[a][i] = Text[a + i]
  <2>1. TAKE i \in 1 .. b - a
  <2>2. CASE i = 1
    BY <1>4, <2>2
  <2>3. CASE i # 1
    <3>1. i - 1 \in 1 .. b - c /\ i \in 2 .. 1 + Len(u) /\ c + (i - 1) = a + i
      BY <1>2, <1>5, <1>6, <2>3
    <3> HIDE DEF c
    <3> QED BY <1>4, <1>5, <3>1
  <2> QED BY <2>2, <2>3
<1>9. \A i \in 1 .. Len(R[b]) : R[a][b - a + i] = R[b][i]
  <2>1. TAKE i \in 1 .. Len(R[b])
  <2>2. b - a + i \in 2 .. 1 + Len(u) /\ b - a + i - 1 = b - c + i
    BY <1>2, <1>5, <1>6
  <2> HIDE DEF c
  <2> DEFINE j == b - a + i
  <2>3. j \in 2 .. 1 + Len(u) /\ j - 1 = b - c + i
    BY <2>2
  <2> HIDE DEF j
  <2>4. R[a][j] = u[b - c + i]
    BY <1>4, <2>3
  <2> QED BY <1>5, <2>4 DEF j
<1> QED BY <1>7, <1>8, <1>9 DEF Leads

\* Where nothing is to be replaced the string stays.
LEMMA LeadsOver ==
  ASSUME Terminated, NEW R, NEW pos \in 0 .. slen, NEW len, NEW t, NEW M,
         Onward(R, pos, len, t, M), NEW a \in pos .. slen, NEW b \in a .. slen,
         \A i \in M : ~(a <= i /\ i < b)
  PROVE  Leads(R, a, b)
<1>1. /\ slen \in Nat /\ Text \in Seq(Char) /\ Len(Text) = slen
      /\ pos \in Nat /\ a \in Nat /\ b \in Nat
  BY StringIs DEF Holds, IsBlock
<1>2. \A q \in pos .. slen : R[q] \in Seq(Char)
  BY DEF Onward
<1> DEFINE Bad == {k \in 0 .. b - a : ~Leads(R, b - k, b)}
<1>3. ASSUME Bad # {} PROVE FALSE
  <2>1. Bad \in SUBSET Nat
    OBVIOUS
  <2>2. PICK m \in Bad : \A k \in Bad : m <= k
    BY <1>3, <2>1, MinIsLeast
  <2>3. m \in 0 .. b - a /\ ~Leads(R, b - m, b)
    OBVIOUS
  <2>4. \A k \in 0 .. b - a : k < m => Leads(R, b - k, b)
    BY <2>2
  <2> HIDE DEF Bad
  <2> DEFINE q == b - m
  <2>5. CASE m = 0
    <3>1. b - m = b /\ b - b = 0 /\ R[b] \in Seq(Char)
      BY <1>1, <1>2, <2>5
    <3>2. Leads(R, b, b)
      <4>1. \A i \in 1 .. Len(R[b]) : 0 + i = i
        BY <3>1
      <4> QED BY <3>1, <4>1 DEF Leads
    <3> QED BY <2>3, <3>1, <3>2
  <2>6. CASE m # 0
    <3>1. m - 1 \in 0 .. b - a /\ m - 1 < m /\ b - (m - 1) = q + 1
      BY <1>1, <2>3, <2>6
    <3>2. Leads(R, q + 1, b)
      <4>1. Leads(R, b - (m - 1), b)
        BY <2>4, <3>1
      <4> QED BY <3>1, <4>1
    <3>3. /\ q \in pos .. slen - 1 /\ q \in Nat /\ q < b /\ q + 1 \in pos .. slen
          /\ q + 1 \in 1 .. slen /\ b \in pos .. slen /\ a <= q
      BY <1>1, <2>3, <2>6
    <3> HIDE DEF q
    <3>4. q \notin M
      BY <3>3
    <3>5. R[q] = <<Text[q + 1]>> \o R[q + 1]
      BY <3>3, <3>4 DEF Onward
    <3>6. Text[q + 1] \in Char
      BY <1>1, <3>3, ElementOfSeq
    <3>7. Leads(R, q, b)
      BY <1>1, <1>2, <3>2, <3>3, <3>5, <3>6, LeadsMore
    <3> QED BY <2>3, <3>7 DEF q
  <2> QED BY <2>5, <2>6
<1> DEFINE k == b - a
<1>4. k \in 0 .. b - a /\ b - k = a
  BY <1>1
<1>5. k \notin Bad
  BY <1>3
<1> HIDE DEF k
<1>6. Leads(R, b - k, b)
  BY <1>4, <1>5
<1> QED BY <1>4, <1>6

\* R[a] is how w ends, by that much further on.
Carries(w, R, a, shift) ==
  /\ Len(w) = a + shift + Len(R[a])
  /\ \A i \in 1 .. Len(R[a]) : w[a + shift + i] = R[a][i]

\* The string from a to b is in w, by that much further on.
Keeps(w, a, b, shift) == \A i \in 1 .. b - a : w[a + shift + i] = Text[a + i]

\* So is t, in place of what was there at b.
Puts(w, b, shift, t) == \A i \in 1 .. Len(t) : w[b + shift + i] = t[i]

\* So is the string up to b, and then R[b].
LEMMA CarriesOver ==
  ASSUME NEW w, NEW R, NEW a \in Nat, NEW b \in Nat, a <= b, NEW shift \in Int,
         R[a] \in Seq(Char), R[b] \in Seq(Char), Carries(w, R, a, shift), Leads(R, a, b)
  PROVE  Carries(w, R, b, shift) /\ Keeps(w, a, b, shift)
<1> DEFINE m == Len(R[a])
           n == Len(R[b])
<1>1. m \in Nat /\ n \in Nat /\ b - a \in Nat
  OBVIOUS
<1>2. /\ Len(w) = a + shift + m
      /\ \A i \in 1 .. m : w[a + shift + i] = R[a][i]
  BY DEF Carries
<1>3. /\ m = b - a + n
      /\ \A i \in 1 .. b - a : R[a][i] = Text[a + i]
      /\ \A i \in 1 .. n : R[a][b - a + i] = R[b][i]
  BY DEF Leads
<1> HIDE DEF m, n
<1>4. \A i \in 1 .. b - a : w[a + shift + i] = Text[a + i]
  <2>1. \A i \in 1 .. b - a : i \in 1 .. m
    BY <1>1, <1>3
  <2> QED BY <1>2, <1>3, <2>1
<1>5. \A i \in 1 .. n : w[b + shift + i] = R[b][i]
  <2>1. TAKE i \in 1 .. n
  <2> DEFINE j == b - a + i
  <2>2. j \in 1 .. m /\ a + shift + j = b + shift + i
    BY <1>1, <1>3
  <2>3. R[a][j] = R[b][i]
    BY <1>3
  <2> HIDE DEF j
  <2> QED BY <1>2, <2>2, <2>3
<1>6. Len(w) = b + shift + n
  BY <1>1, <1>2, <1>3
<1>7. Carries(w, R, b, shift)
  BY <1>5, <1>6 DEF Carries, n
<1> QED BY <1>4, <1>7 DEF Keeps

\* And t, where a match is, and then the rest behind it.
LEMMA CarriesText ==
  ASSUME NEW w, NEW R, NEW b \in Nat, NEW c \in Nat, NEW shift \in Int, NEW further \in Int,
         NEW t \in Seq(Char), c + further = b + shift + Len(t),
         R[c] \in Seq(Char), R[b] = t \o R[c], Carries(w, R, b, shift)
  PROVE  Carries(w, R, c, further) /\ Puts(w, b, shift, t)
<1> DEFINE l == Len(t)
           n == Len(R[c])
           v == t \o R[c]
<1>1. l \in Nat /\ n \in Nat
  OBVIOUS
<1>2. Len(v) = l + n /\ \A i \in 1 .. l + n : v[i] = IF i <= l THEN t[i] ELSE R[c][i - l]
  BY ConcatProperties
<1>3. R[b] = v
  OBVIOUS
<1> HIDE DEF l, n, v
<1>4. /\ Len(w) = b + shift + (l + n)
      /\ \A i \in 1 .. l + n : w[b + shift + i] = v[i]
  BY <1>2, <1>3 DEF Carries
<1>5. \A i \in 1 .. l : w[b + shift + i] = t[i]
  BY <1>1, <1>2, <1>4
<1>6. c + further = b + shift + l
  BY DEF l
<1>7. \A i \in 1 .. n : w[c + further + i] = R[c][i]
  <2>1. TAKE i \in 1 .. n
  <2> DEFINE j == l + i
  <2>2. j \in 1 .. l + n /\ ~(j <= l) /\ j - l = i /\ b + shift + j = c + further + i
    BY <1>1, <1>6
  <2> HIDE DEF j
  <2>3. w[b + shift + j] = v[j] /\ v[j] = R[c][j - l]
    BY <1>2, <1>4, <2>2
  <2> QED BY <2>2, <2>3
<1>8. Len(w) = c + further + n
  BY <1>1, <1>4, <1>6
<1>9. Carries(w, R, c, further)
  BY <1>7, <1>8 DEF Carries, n
<1> QED BY <1>5, <1>9 DEF l, Puts

\* Where the stretches between the matches are.
LEMMA GapsAre ==
  ASSUME slen \in Nat, NEW len \in Nat, NEW p \in 0 .. slen, NEW at, Spaced(at, p, len)
  PROVE  \A k \in 0 .. Len(at) : /\ GapFrom(at, p, len, k) \in p .. slen
                                 /\ GapTo(at, k) \in GapFrom(at, p, len, k) .. slen
<1>1. /\ at \in Seq(Nat) /\ Len(at) \in Nat
      /\ \A k \in 1 .. Len(at) : at[k] >= p /\ at[k] + len <= slen
      /\ \A k \in 1 .. Len(at) - 1 : at[k] + len <= at[k + 1]
  BY DEF Spaced
<1>2. \A k \in 1 .. Len(at) : at[k] \in Nat
  BY <1>1
<1>3. ASSUME NEW k \in 0 .. Len(at)
      PROVE  /\ GapFrom(at, p, len, k) \in p .. slen
             /\ GapTo(at, k) \in GapFrom(at, p, len, k) .. slen
  <2> DEFINE a == GapFrom(at, p, len, k)
             b == GapTo(at, k)
  <2>1. CASE k = 0
    <3>1. a = p
      BY <2>1 DEF GapFrom
    <3>2. CASE Len(at) = 0
      <4>1. b = slen
        BY <2>1, <3>2 DEF GapTo
      <4> QED BY <3>1, <4>1
    <3>3. CASE Len(at) # 0
      <4>1. 1 \in 1 .. Len(at)
        BY <1>1, <3>3
      <4>2. at[1] \in Nat /\ at[1] >= p /\ at[1] + len <= slen
        BY <1>1, <1>2, <4>1
      <4>3. b = at[1]
        BY <2>1, <3>3 DEF GapTo
      <4> HIDE DEF a, b
      <4>4. a \in p .. slen /\ b \in a .. slen
        BY <3>1, <4>2, <4>3
      <4> QED BY <4>4 DEF a, b
    <3> QED BY <3>2, <3>3
  <2>2. CASE k # 0
    <3>1. k \in 1 .. Len(at)
      BY <1>1, <2>2
    <3>2. a = at[k] + len
      BY <2>2 DEF GapFrom
    <3>3. at[k] \in Nat /\ at[k] >= p /\ at[k] + len <= slen
      BY <1>1, <1>2, <3>1
    <3>4. CASE k = Len(at)
      <4>1. b = slen
        BY <3>4 DEF GapTo
      <4> HIDE DEF a, b
      <4>2. a \in p .. slen /\ b \in a .. slen
        BY <3>2, <3>3, <4>1
      <4> QED BY <4>2 DEF a, b
    <3>5. CASE k # Len(at)
      <4>1. k \in 1 .. Len(at) - 1 /\ k + 1 \in 1 .. Len(at)
        BY <1>1, <3>1, <3>5
      <4>2. at[k] + len <= at[k + 1] /\ at[k + 1] + len <= slen /\ at[k + 1] \in Nat
        BY <1>1, <1>2, <4>1
      <4>3. b = at[k + 1]
        BY <3>5 DEF GapTo
      <4> HIDE DEF a, b
      <4> DEFINE x == at[k]
                 y == at[k + 1]
      <4>4. a = x + len /\ b = y /\ x \in Nat /\ y \in Nat /\ x >= p /\ x + len <= slen
            /\ x + len <= y /\ y + len <= slen
        BY <3>2, <3>3, <4>2, <4>3
      <4> HIDE DEF x, y
      <4>5. a \in p .. slen /\ b \in a .. slen
        BY <4>4
      <4> QED BY <4>5 DEF a, b
    <3> QED BY <3>4, <3>5
  <2> QED BY <2>1, <2>2
<1> QED BY <1>3

\* The text w is the string with t for each match; g is what it grows by each time.
Replacing(w, at, p, len, g, t) ==
  /\ w \in Seq(Char) /\ Len(w) = slen + Len(at) * g
  /\ \A i \in 1 .. p : w[i] = Text[i]
  /\ \A k \in 0 .. Len(at) : Keeps(w, GapFrom(at, p, len, k), GapTo(at, k), k * g)
  /\ \A k \in 1 .. Len(at) : Puts(w, at[k], (k - 1) * g, t)

\* What there is behind one match is what there is behind the one before, and t.
LEMMA CarriesNext ==
  ASSUME Terminated, NEW p \in 0 .. slen, NEW len \in Nat, len > 0, NEW t \in Seq(Char), NEW M,
         \A i \in M : i + len <= slen, NEW R, Onward(R, p, len, t, M),
         NEW at, Spaced(at, p, len), Leftmost(at, p, len, M),
         NEW g \in Int, g = Len(t) - len, NEW w, NEW k \in 1 .. Len(at),
         Carries(w, R, GapFrom(at, p, len, k - 1), (k - 1) * g)
  PROVE  /\ Carries(w, R, GapFrom(at, p, len, k), k * g)
         /\ Puts(w, at[k], (k - 1) * g, t)
<1> DEFINE a == GapFrom(at, p, len, k - 1)
           b == GapTo(at, k - 1)
           c == GapFrom(at, p, len, k)
           shift == (k - 1) * g
           further == k * g
<1>1. slen \in Nat /\ p \in Nat /\ at \in Seq(Nat) /\ Len(at) \in Nat
  BY StringIs DEF Holds, IsBlock, Spaced
<1>2. k - 1 \in 0 .. Len(at) /\ k \in 0 .. Len(at) /\ k # 0 /\ k - 1 # Len(at) /\ k - 1 + 1 = k
  BY <1>1
<1>3. a \in p .. slen /\ b \in a .. slen /\ c \in p .. slen
  <2>1. \A j \in 0 .. Len(at) : /\ GapFrom(at, p, len, j) \in p .. slen
                                /\ GapTo(at, j) \in GapFrom(at, p, len, j) .. slen
    BY <1>1, GapsAre
  <2> QED BY <1>2, <2>1
<1>4. b = at[k] /\ c = at[k] + len
  BY <1>2 DEF GapTo, GapFrom
<1>5. \A i \in M : ~(a <= i /\ i < b)
  BY <1>2 DEF Leftmost
<1>6. b \in M
  <2>1. at[k] \in M
    BY DEF Leftmost
  <2> QED BY <1>4, <2>1
<1>7. Carries(w, R, a, shift)
  OBVIOUS
<1>8. shift \in Int /\ further \in Int /\ further = shift + g
  BY <1>1, <1>2
<1>9. Len(t) \in Nat
  OBVIOUS
<1> HIDE DEF a, b, c, shift, further
<1>10. Leads(R, a, b)
  BY <1>3, <1>5, LeadsOver
<1>11. a \in Nat /\ b \in Nat /\ c \in Nat /\ a <= b /\ b \in p .. slen
  BY <1>1, <1>3
<1>12. R[a] \in Seq(Char) /\ R[b] \in Seq(Char) /\ R[c] \in Seq(Char)
  BY <1>3, <1>11 DEF Onward
<1>13. Carries(w, R, b, shift)
  BY <1>7, <1>8, <1>10, <1>11, <1>12, CarriesOver
<1>14. R[b] = t \o R[c]
  <2>1. b \in p .. slen - 1 /\ b + len = c
    <3>1. b + len <= slen
      BY <1>6
    <3>2. c = b + len
      BY <1>4
    <3> QED BY <1>1, <1>11, <3>1, <3>2
  <2>2. R[b] = t \o R[b + len]
    BY <1>6, <2>1 DEF Onward
  <2> QED BY <2>1, <2>2
<1>15. c + further = b + shift + Len(t)
  <2>1. c = b + len
    BY <1>4
  <2> DEFINE l == Len(t)
  <2>2. g = l - len /\ l \in Nat
    BY <1>9
  <2> HIDE DEF l
  <2>3. c + further = b + shift + l
    BY <1>8, <1>11, <2>1, <2>2
  <2> QED BY <2>3 DEF l
<1>16. Carries(w, R, c, further) /\ Puts(w, b, shift, t)
  BY <1>8, <1>11, <1>12, <1>13, <1>14, <1>15, CarriesText
<1> QED BY <1>4, <1>16 DEF c, further, shift

\* The string up to where the search begins, and R from there on, is such a text.
LEMMA ReplacingIs ==
  ASSUME Terminated, NEW p \in 0 .. slen, NEW len \in Nat, len > 0, NEW t \in Seq(Char), NEW M,
         \A i \in M : i + len <= slen, NEW R, Onward(R, p, len, t, M),
         NEW at, Spaced(at, p, len), Leftmost(at, p, len, M), NEW g \in Int, g = Len(t) - len
  PROVE  Replacing(Abstract!First(Text, p) \o R[p], at, p, len, g, t)
<1> DEFINE x == Abstract!First(Text, p)
           w == x \o R[p]
           N == Len(at)
           Good(k) == Carries(w, R, GapFrom(at, p, len, k), k * g)
           Bad == {k \in 0 .. N : ~Good(k)}
<1>1. slen \in Nat /\ p \in Nat /\ at \in Seq(Nat) /\ N \in Nat /\ Text \in Seq(Char)
      /\ Len(Text) = slen
  BY StringIs DEF Holds, IsBlock, Spaced
<1>2. x \in Seq(Char) /\ Len(x) = p /\ \A i \in 1 .. p : x[i] = Text[i]
  BY <1>1, FirstIs
<1>3. \A q \in p .. slen : R[q] \in Seq(Char)
  BY DEF Onward
<1>4. R[p] \in Seq(Char)
  BY <1>1, <1>3
<1> HIDE DEF x
<1>5. /\ w \in Seq(Char) /\ Len(w) = p + Len(R[p])
      /\ \A i \in 1 .. p + Len(R[p]) : w[i] = IF i <= p THEN x[i] ELSE R[p][i - p]
  BY <1>2, <1>4, ConcatProperties, ZenonT(60)
<1> HIDE DEF w
<1>6. Len(R[p]) \in Nat
  BY <1>4
<1>7. \A i \in 1 .. p : w[i] = Text[i]
  BY <1>2, <1>5, <1>6
<1>8. Good(0)
  <2>1. GapFrom(at, p, len, 0) = p /\ 0 * g = 0
    BY DEF GapFrom
  <2>2. \A i \in 1 .. Len(R[p]) : w[p + 0 + i] = R[p][i]
    <3>1. TAKE i \in 1 .. Len(R[p])
    <3>2. p + 0 + i \in 1 .. p + Len(R[p]) /\ ~(p + 0 + i <= p) /\ p + 0 + i - p = i
      BY <1>1, <1>6
    <3> QED BY <1>5, <3>2
  <2>3. Len(w) = p + 0 + Len(R[p])
    BY <1>1, <1>5, <1>6
  <2>4. Carries(w, R, p, 0)
    BY <2>2, <2>3 DEF Carries
  <2> QED BY <2>1, <2>4
<1>9. ASSUME NEW k \in 1 .. N, Good(k - 1)
      PROVE  Good(k) /\ Puts(w, at[k], (k - 1) * g, t)
  BY <1>9, CarriesNext
<1>10. ASSUME Bad # {} PROVE FALSE
  <2>1. Bad \in SUBSET Nat
    OBVIOUS
  <2> HIDE DEF Good
  <2>2. PICK m \in Bad : \A k \in Bad : m <= k
    BY <1>10, <2>1, MinIsLeast
  <2>3. m \in 0 .. N /\ ~Good(m)
    OBVIOUS
  <2>4. \A k \in 0 .. N : k < m => Good(k)
    BY <2>2
  <2> HIDE DEF Bad
  <2>5. m # 0
    BY <1>8, <2>3
  <2>6. m \in 1 .. N /\ m - 1 \in 0 .. N /\ m - 1 < m
    BY <1>1, <2>3, <2>5
  <2>7. Good(m - 1)
    BY <2>4, <2>6
  <2> QED BY <1>9, <2>3, <2>6, <2>7
<1>11. \A k \in 0 .. N : Good(k)
  BY <1>10
<1>12. \A k \in 1 .. N : Puts(w, at[k], (k - 1) * g, t)
  <2>1. TAKE k \in 1 .. N
  <2>2. k - 1 \in 0 .. N
    BY <1>1
  <2> HIDE DEF Good
  <2> QED BY <1>9, <1>11, <2>2
<1>13. ASSUME NEW k \in 0 .. N
       PROVE  LET a == GapFrom(at, p, len, k)
                  b == GapTo(at, k)
              IN  /\ Carries(w, R, b, k * g)
                  /\ Keeps(w, a, b, k * g)
  <2> DEFINE a == GapFrom(at, p, len, k)
             b == GapTo(at, k)
             shift == k * g
  <2>1. a \in p .. slen /\ b \in a .. slen
    BY <1>1, GapsAre
  <2>2. Carries(w, R, a, shift)
    BY <1>11
  <2>3. \A i \in M : ~(a <= i /\ i < b)
    BY DEF Leftmost
  <2>4. shift \in Int
    BY <1>1
  <2> HIDE DEF a, b, shift
  <2>5. Leads(R, a, b)
    BY <2>1, <2>3, LeadsOver
  <2>6. a \in Nat /\ b \in Nat /\ a <= b /\ b \in p .. slen
    BY <1>1, <2>1
  <2>7. R[a] \in Seq(Char) /\ R[b] \in Seq(Char)
    BY <1>3, <2>1, <2>6
  <2>8. Carries(w, R, b, shift) /\ Keeps(w, a, b, shift)
    BY <2>2, <2>4, <2>5, <2>6, <2>7, CarriesOver
  <2> QED BY <2>8 DEF a, b, shift
<1>14. Len(w) = slen + N * g
  <2>1. N \in 0 .. N /\ GapTo(at, N) = slen
    BY <1>1 DEF GapTo
  <2>2. Carries(w, R, slen, N * g)
    BY <1>13, <2>1
  <2>3. R[slen] = <<>> /\ Len(<<>>) = 0 /\ N * g \in Int
    BY <1>1 DEF Onward
  <2>4. Len(w) = slen + N * g + Len(R[slen])
    BY <2>2 DEF Carries
  <2> QED BY <1>1, <2>3, <2>4
<1>15. Replacing(w, at, p, len, g, t)
  BY <1>5, <1>7, <1>12, <1>13, <1>14 DEF Replacing
<1> QED BY <1>15 DEF w, x

\* The block c is b with that part of w in the bytes from low to high.
Shows(c, b, m, w, low, high) ==
  /\ IsBlock(c, m)
  /\ \A i \in 0 .. m - 1 : c[i] = IF low <= i /\ i < high THEN w[i + 1] ELSE b[i]

\* The string is in the block from a to b.
Holding(d, m, a, b) == \A i \in 0 .. m - 1 : a <= i /\ i < b => d[i] = Text[i + 1]

\* That is what exchanging one match makes of it, if what there is behind the match is there.
LEMMA ExchangedReads ==
  ASSUME Terminated, NEW m, slen <= m, NEW b, IsBlock(b, m), NEW find \in Seq(Char),
         NEW t \in Seq(Char), NEW p \in 0 .. slen, NEW at, Spaced(at, p, Len(find)),
         NEW g \in Int, g = Len(t) - Len(find), NEW w, Replacing(w, at, p, Len(find), g, t),
         NEW k \in 1 .. Len(at), Holding(b, m, GapFrom(at, p, Len(find), k), GapTo(at, k))
  PROVE  Shows(ExchangedOne(b, k, at, find, t), b, m, w, at[k] + (k - 1) * g,
               GapTo(at, k) + k * g)
<1> DEFINE len   == Len(find)
           start == GapFrom(at, p, len, k)
           end   == GapTo(at, k)
           shift == k * g
           less  == (k - 1) * g
           to    == start + shift
           moved == [j \in 1 .. end - start |-> b[start + j - 1]]
           c     == Lay(b, to, moved)
           E     == ExchangedOne(b, k, at, find, t)
           size  == Len(t)
           x     == at[k]
<1>1. /\ slen \in Nat /\ Text \in Seq(Char) /\ Len(Text) = slen /\ m \in Nat
      /\ at \in Seq(Nat) /\ Len(at) \in Nat /\ x \in Nat /\ size \in Nat /\ len \in Nat
  BY StringIs DEF Holds, IsBlock, Spaced
<1>2. start = x + len
  BY <1>1 DEF GapFrom
<1>3. E = Lay(c, to - size, t)
  BY <1>2 DEF ExchangedOne, GapTo
<1>4. start \in p .. slen /\ end \in start .. slen
  BY <1>1, GapsAre
<1>5. shift \in Int /\ less = shift - g /\ less \in Int
  BY <1>1
<1>6. g = size - len
  OBVIOUS
<1>7. Keeps(w, start, end, shift) /\ Puts(w, x, less, t)
  BY <1>1, SMTT(60) DEF Replacing
<1>8. \A i \in 0 .. m - 1 : start <= i /\ i < end => b[i] = Text[i + 1]
  BY DEF Holding
<1> HIDE DEF start, end, shift, less, len, E, x
<1>9. start \in Nat /\ end \in Nat /\ start <= end /\ end <= slen /\ to \in Int
  BY <1>1, <1>4, <1>5
<1>10. \A j \in 1 .. end - start : /\ start + j - 1 \in 0 .. m - 1
                                   /\ b[start + j - 1] = Text[start + j]
                                   /\ start + j \in 1 .. slen
  <2>1. TAKE j \in 1 .. end - start
  <2> DEFINE i == start + j - 1
  <2>2. slen <= m /\ j \in Nat /\ 1 <= j /\ j <= end - start
    BY <1>9
  <2>3. i \in 0 .. m - 1 /\ start <= i /\ i < end /\ i + 1 = start + j /\ start + j \in 1 .. slen
    BY <1>1, <1>9, <2>2
  <2> HIDE DEF i
  <2>4. b[i] = Text[i + 1]
    BY <1>8, <2>3
  <2> QED BY <2>3, <2>4 DEF i
<1>11. /\ moved \in Seq(Char) /\ Len(moved) = end - start
       /\ \A j \in 1 .. end - start : moved[j] = Text[start + j]
  <2>1. \A j \in 1 .. end - start : b[start + j - 1] \in Char
    BY <1>1, <1>10, ElementOfSeq
  <2>2. end - start \in Nat
    BY <1>9
  <2>3. moved \in Seq(Char) /\ Len(moved) = end - start
    BY <2>1, <2>2
  <2>4. \A j \in 1 .. end - start : moved[j] = Text[start + j]
    BY <1>10
  <2> QED BY <2>3, <2>4
<1>12. to = start + shift
  OBVIOUS
<1> HIDE DEF moved, to
<1>13. Reads(c, b, m, to, moved)
  <2>1. c = Lay(b, to, moved)
    OBVIOUS
  <2> HIDE DEF c
  <2> QED BY <1>9, <1>11, <2>1, LayReads
<1> HIDE DEF c
<1> DEFINE low == to - size
<1>14. low \in Int /\ low + size = to /\ low = x + less /\ to + (end - start) = end + shift
  <2> HIDE DEF size
  <2>1. low \in Int /\ low + size = to
    BY <1>1, <1>9
  <2>2. to + (end - start) = end + shift
    BY <1>5, <1>9, <1>12
  <2>3. low = x + less
    <3>1. low = to - size
      OBVIOUS
    <3> HIDE DEF low
    <3>2. /\ to = start + shift /\ start = x + len /\ less = shift - g /\ g = size - len
          /\ x \in Nat /\ len \in Nat /\ size \in Nat /\ shift \in Int
      BY <1>1, <1>2, <1>5, <1>6, <1>12
    <3>3. to = x + len + shift
      BY <3>2
    <3>4. x + less = x + (shift - (size - len))
      BY <3>2
    <3>5. x + (shift - (size - len)) = (x + len + shift) - size
      BY <3>2
    <3> QED BY <3>1, <3>3, <3>4, <3>5, Zenon
  <2> QED BY <2>1, <2>2, <2>3
<1>15. E = Lay(c, low, t)
  BY <1>3
<1> HIDE DEF low
<1>16. Reads(E, c, m, low, t)
  <2>1. IsBlock(c, m)
    BY <1>13 DEF Reads
  <2> QED BY <1>14, <1>15, <2>1, LayReads
<1>17. \A i \in 0 .. m - 1 : E[i] = IF low <= i /\ i < to THEN t[i - low + 1] ELSE c[i]
  BY <1>14, <1>16 DEF Reads, size
<1>18. \A i \in 0 .. m - 1 :
         c[i] = IF to <= i /\ i < end + shift THEN moved[i - to + 1] ELSE b[i]
  BY <1>11, <1>13, <1>14 DEF Reads
<1>19. \A j \in 1 .. size : w[low + j] = t[j]
  BY <1>14, <1>7 DEF Puts, size
<1>20. \A j \in 1 .. end - start : w[to + j] = Text[start + j]
  BY <1>7, <1>12 DEF Keeps
<1> HIDE DEF size
<1>21. ASSUME NEW i \in 0 .. m - 1
       PROVE  E[i] = IF low <= i /\ i < end + shift THEN w[i + 1] ELSE b[i]
  <2>1. CASE low <= i /\ i < to
    <3> DEFINE j == i - low + 1
    <3>1. j \in 1 .. size /\ low + j = i + 1 /\ i < end + shift
      BY <1>1, <1>5, <1>9, <1>14, <2>1, SMTT(60)
    <3>2. E[i] = t[j]
      BY <1>17, <2>1
    <3> HIDE DEF j
    <3>3. E[i] = w[i + 1]
      BY <1>19, <3>1, <3>2
    <3> QED BY <2>1, <3>1, <3>3
  <2>2. CASE to <= i /\ i < end + shift
    <3> DEFINE j == i - to + 1
    <3>1. j \in 1 .. end - start /\ to + j = i + 1 /\ low <= i /\ ~(i < to)
      BY <1>1, <1>5, <1>9, <1>14, <2>2
    <3>2. E[i] = moved[j]
      BY <1>17, <1>18, <2>2, <3>1
    <3> HIDE DEF j
    <3>3. E[i] = w[i + 1]
      BY <1>11, <1>20, <3>1, <3>2
    <3> QED BY <2>2, <3>1, <3>3
  <2>3. CASE ~(low <= i /\ i < to) /\ ~(to <= i /\ i < end + shift)
    <3>1. ~(low <= i /\ i < end + shift)
      BY <1>1, <1>5, <1>9, <1>14, <2>3
    <3>2. E[i] = b[i]
      BY <1>17, <1>18, <2>3
    <3> QED BY <3>1, <3>2
  <2> QED BY <2>1, <2>2, <2>3
<1>22. Shows(E, b, m, w, low, end + shift)
  BY <1>16, <1>21 DEF Shows, Reads
<1> QED BY <1>14, <1>22 DEF E, end, shift, less, x

\* The string and w begin with the same a characters.
Alike(w, a) == a \in 0 .. slen /\ \A i \in 1 .. a : w[i] = Text[i]

\* That many there are up to the first match.
LEMMA ReplacingFront ==
  ASSUME Terminated, NEW p \in 0 .. slen, NEW len \in Nat, NEW at, Spaced(at, p, len),
         NEW g \in Int, NEW t, NEW w, Replacing(w, at, p, len, g, t)
  PROVE  Alike(w, GapTo(at, 0))
<1> DEFINE b == GapTo(at, 0)
<1>1. slen \in Nat /\ p \in Nat /\ Len(at) \in Nat
  BY StringIs DEF Holds, IsBlock, Spaced
<1>2. 0 \in 0 .. Len(at) /\ 0 * g = 0
  BY <1>1
<1>3. GapFrom(at, p, len, 0) = p
  BY DEF GapFrom
<1>4. b \in p .. slen
  BY <1>1, <1>2, <1>3, GapsAre
<1>5. Keeps(w, p, b, 0)
  BY <1>2, <1>3 DEF Replacing
<1> HIDE DEF b
<1>6. \A i \in 1 .. p : w[i] = Text[i]
  BY DEF Replacing
<1>7. \A i \in 1 .. b : w[i] = Text[i]
  <2>1. TAKE i \in 1 .. b
  <2>2. CASE i <= p
    BY <1>1, <1>4, <1>6, <2>2
  <2>3. CASE ~(i <= p)
    <3> DEFINE j == i - p
    <3>1. j \in 1 .. b - p /\ p + 0 + j = i /\ p + j = i
      BY <1>1, <1>4, <2>3
    <3> HIDE DEF j
    <3> QED BY <1>5, <3>1 DEF Keeps
  <2> QED BY <2>2, <2>3
<1>8. b \in 0 .. slen
  BY <1>1, <1>4
<1> QED BY <1>7, <1>8 DEF b, Alike

\* The string is in the block up to a, and how w ends, from high on.
Rising(b, m, w, n, a, high) ==
  /\ IsBlock(b, m)
  /\ \A i \in 0 .. m - 1 : /\ i < a => b[i] = Text[i + 1]
                           /\ high <= i /\ i < n => b[i] = w[i + 1]

\* The string is in the block from a on, and how w begins, up to high.
Sinking(b, m, w, a, high) ==
  /\ IsBlock(b, m)
  /\ \A i \in 0 .. m - 1 : /\ a <= i /\ i < slen => b[i] = Text[i + 1]
                           /\ i < high => b[i] = w[i + 1]

\* One match more, from the end.
LEMMA RisingMore ==
  ASSUME Terminated, NEW m, slen <= m, NEW b, NEW find \in Seq(Char), NEW t \in Seq(Char),
         NEW p \in 0 .. slen, NEW at, Spaced(at, p, Len(find)), NEW g \in Nat,
         g = Len(t) - Len(find), NEW w, Replacing(w, at, p, Len(find), g, t), NEW n,
         NEW k \in 1 .. Len(at), Rising(b, m, w, n, GapTo(at, k), GapTo(at, k) + k * g)
  PROVE  Rising(ExchangedOne(b, k, at, find, t), m, w, n, GapTo(at, k - 1),
                GapTo(at, k - 1) + (k - 1) * g)
<1> DEFINE len == Len(find)
           E == ExchangedOne(b, k, at, find, t)
           x == GapTo(at, k - 1)
           end == GapTo(at, k)
           low == x + (k - 1) * g
           high == end + k * g
<1>1. slen \in Nat /\ Len(at) \in Nat /\ len \in Nat /\ m \in Nat
  BY StringIs DEF Holds, IsBlock, Spaced, Rising
<1>2. x = at[k]
  <2>1. k - 1 # Len(at) /\ k - 1 + 1 = k
    BY <1>1
  <2> QED BY <2>1 DEF GapTo
<1>3. x \in 0 .. slen /\ x <= end /\ end \in 0 .. slen
  <2> DEFINE start == GapFrom(at, p, len, k)
  <2>1. k \in 0 .. Len(at) /\ k # 0 /\ p \in Nat
    BY <1>1
  <2>2. start \in p .. slen /\ end \in start .. slen
    BY <1>1, <2>1, GapsAre
  <2>3. start = x + len
    BY <1>2, <2>1 DEF GapFrom
  <2>4. x \in Nat
    BY <1>2 DEF Spaced
  <2> HIDE DEF start, x, end, len
  <2> QED BY <1>1, <2>1, <2>2, <2>3, <2>4
<1>4. (k - 1) * g \in Nat
  <2>1. k - 1 \in Nat
    BY <1>1
  <2> QED BY <2>1
<1>5. IsBlock(b, m) /\ \A i \in 0 .. m - 1 : /\ i < end => b[i] = Text[i + 1]
                                             /\ high <= i /\ i < n => b[i] = w[i + 1]
  BY DEF Rising
<1>6. Shows(E, b, m, w, at[k] + (k - 1) * g, high)
  <2>1. Holding(b, m, GapFrom(at, p, Len(find), k), GapTo(at, k))
    BY <1>5 DEF Holding
  <2>2. IsBlock(b, m) /\ g \in Int
    BY <1>5
  <2> QED BY <2>1, <2>2, ExchangedReads
<1>7. Shows(E, b, m, w, low, high)
  BY <1>2, <1>6
<1>8. low >= x /\ low \in Nat
  <2> HIDE DEF x
  <2> QED BY <1>3, <1>4
<1> HIDE DEF E, x, end, low, high
<1>9. \A i \in 0 .. m - 1 : E[i] = IF low <= i /\ i < high THEN w[i + 1] ELSE b[i]
  BY <1>7 DEF Shows
<1>10. ASSUME NEW i \in 0 .. m - 1, i < x PROVE E[i] = Text[i + 1]
  <2>1. ~(low <= i) /\ i < end
    BY <1>1, <1>3, <1>8, <1>10
  <2> QED BY <1>5, <1>9, <2>1
<1>11. ASSUME NEW i \in 0 .. m - 1, low <= i, i < n PROVE E[i] = w[i + 1]
  <2>1. CASE i < high
    BY <1>9, <1>11, <2>1
  <2>2. CASE ~(i < high)
    <3>1. high <= i
      <4>1. high \in Int
        <5>1. k * g \in Int
          BY <1>1
        <5> QED BY <1>3, <5>1 DEF high
      <4> QED BY <2>2, <4>1
    <3> QED BY <1>5, <1>9, <1>11, <2>2, <3>1
  <2> QED BY <2>1, <2>2
<1>12. Rising(E, m, w, n, x, low)
  BY <1>7, <1>10, <1>11 DEF Rising, Shows
<1> QED BY <1>12 DEF E, x, low

\* One match more, from the front.
LEMMA SinkingMore ==
  ASSUME Terminated, NEW m, slen <= m, NEW b, NEW find \in Seq(Char), NEW t \in Seq(Char),
         NEW p \in 0 .. slen, NEW at, Spaced(at, p, Len(find)), NEW g \in Int, g <= 0,
         g = Len(t) - Len(find), NEW w, Replacing(w, at, p, Len(find), g, t),
         NEW k \in 1 .. Len(at),
         Sinking(b, m, w, GapTo(at, k - 1), GapTo(at, k - 1) + (k - 1) * g)
  PROVE  Sinking(ExchangedOne(b, k, at, find, t), m, w, GapTo(at, k), GapTo(at, k) + k * g)
<1> DEFINE len == Len(find)
           E == ExchangedOne(b, k, at, find, t)
           start == GapFrom(at, p, len, k)
           x == GapTo(at, k - 1)
           end == GapTo(at, k)
           low == x + (k - 1) * g
           high == end + k * g
<1>1. slen \in Nat /\ Len(at) \in Nat /\ len \in Nat /\ m \in Nat
  BY StringIs DEF Holds, IsBlock, Spaced, Sinking
<1>2. x = at[k]
  <2>1. k - 1 # Len(at) /\ k - 1 + 1 = k
    BY <1>1
  <2> QED BY <2>1 DEF GapTo
<1>3. x \in 0 .. slen /\ x <= start /\ start <= end /\ end \in 0 .. slen /\ start \in Nat
  <2>1. k \in 0 .. Len(at) /\ k # 0 /\ p \in Nat
    BY <1>1
  <2>2. start \in p .. slen /\ end \in start .. slen
    BY <1>1, <2>1, GapsAre
  <2>3. start = x + len
    BY <1>2, <2>1 DEF GapFrom
  <2>4. x \in Nat
    BY <1>2 DEF Spaced
  <2> HIDE DEF start, x, end, len
  <2> QED BY <1>1, <2>1, <2>2, <2>3, <2>4
<1>4. k * g \in Int /\ k * g <= 0
  <2>1. k \in Nat /\ 0 - g \in Nat
    BY <1>1
  <2> DEFINE h == 0 - g
  <2>2. h \in Nat /\ g = 0 - h
    BY <2>1
  <2> HIDE DEF h
  <2>3. k * h \in Nat /\ k * g = 0 - k * h
    BY <2>1, <2>2, SMTT(60)
  <2> QED BY <2>3
<1>5. IsBlock(b, m) /\ \A i \in 0 .. m - 1 : /\ x <= i /\ i < slen => b[i] = Text[i + 1]
                                             /\ i < low => b[i] = w[i + 1]
  BY DEF Sinking
<1>6. \A i \in 0 .. m - 1 : start <= i /\ i < end => b[i] = Text[i + 1]
  <2> HIDE DEF start, end, x
  <2>1. \A i \in 0 .. m - 1 : start <= i /\ i < end => x <= i /\ i < slen
    BY <1>1, <1>3
  <2> QED BY <1>5, <2>1
<1>7. Shows(E, b, m, w, at[k] + (k - 1) * g, high)
  <2>1. Holding(b, m, GapFrom(at, p, Len(find), k), GapTo(at, k))
    BY <1>6 DEF Holding
  <2> QED BY <1>5, <2>1, ExchangedReads
<1>8. Shows(E, b, m, w, low, high)
  BY <1>2, <1>7
<1>9. high <= end /\ high \in Int
  <2> HIDE DEF end
  <2> QED BY <1>3, <1>4
<1>10. low \in Int
  <2> HIDE DEF x
  <2>1. (k - 1) * g \in Int
    BY <1>1
  <2> QED BY <1>3, <2>1
<1> HIDE DEF E, x, end, low, high, start
<1>11. \A i \in 0 .. m - 1 : E[i] = IF low <= i /\ i < high THEN w[i + 1] ELSE b[i]
  BY <1>8 DEF Shows
<1>12. ASSUME NEW i \in 0 .. m - 1, end <= i, i < slen PROVE E[i] = Text[i + 1]
  <2>1. ~(i < high) /\ x <= i
    BY <1>1, <1>3, <1>9, <1>12
  <2> QED BY <1>5, <1>11, <1>12, <2>1
<1>13. ASSUME NEW i \in 0 .. m - 1, i < high PROVE E[i] = w[i + 1]
  <2>1. CASE low <= i
    BY <1>11, <1>13, <2>1
  <2>2. CASE ~(low <= i)
    <3>1. i < low
      BY <1>10, <2>2
    <3> QED BY <1>5, <1>11, <2>2, <3>1
  <2> QED BY <2>1, <2>2
<1>14. Sinking(E, m, w, end, high)
  BY <1>8, <1>12, <1>13 DEF Sinking, Shows
<1> QED BY <1>14 DEF E, end, high

\* All matches, from the end.
LEMMA RisingAll ==
  ASSUME Terminated, NEW m, slen <= m, NEW d, IsBlock(d, m), StringAt(d), NEW find \in Seq(Char),
         NEW t \in Seq(Char), NEW p \in 0 .. slen, NEW at, Spaced(at, p, Len(find)),
         NEW g \in Nat, g > 0, g = Len(t) - Len(find), NEW w,
         Replacing(w, at, p, Len(find), g, t), NEW n \in Nat, n = slen + Len(at) * g,
         NEW f, Layers(f, d, at, find, t, Len(at))
  PROVE  Rising(f[Len(at)], m, w, n, GapTo(at, 0), GapTo(at, 0))
<1> DEFINE N == Len(at)
           Good(j) == Rising(f[j], m, w, n, GapTo(at, N - j), GapTo(at, N - j) + (N - j) * g)
           Bad == {k \in 0 .. N : ~Good(k)}
<1>1. N \in Nat /\ slen \in Nat /\ m \in Nat /\ Len(Text) = slen
  BY StringIs DEF Spaced, Holds, IsBlock
<1>2. Good(0)
  <2>1. N - 0 = N /\ GapTo(at, N) = slen /\ f[0] = d
    BY <1>1 DEF GapTo, Layers
  <2>2. \A i \in 0 .. m - 1 : i < slen => d[i] = Text[i + 1]
    <3>1. TAKE i \in 0 .. m - 1
    <3>2. i < slen => i + 1 \in 1 .. slen /\ i + 1 - 1 = i
      BY <1>1
    <3> QED BY <3>2 DEF StringAt
  <2>3. Rising(d, m, w, n, slen, n)
    BY <1>1, <2>2 DEF Rising
  <2> QED BY <2>1, <2>3
<1>3. ASSUME NEW j \in 1 .. N, Good(j - 1) PROVE Good(j)
  <2> DEFINE k == N - (j - 1)
  <2>1. k \in 1 .. N /\ k - 1 = N - j /\ j - 1 \in 0 .. N
    BY <1>1
  <2>2. Turn(j, at, find, t) = k
    <3>1. Len(t) > Len(find)
      OBVIOUS
    <3> QED BY <1>1, <3>1 DEF Turn
  <2>3. f[j] = ExchangedOne(f[j - 1], k, at, find, t)
    BY <2>2 DEF Layers
  <2>4. Rising(f[j - 1], m, w, n, GapTo(at, k), GapTo(at, k) + k * g)
    BY <1>3
  <2> HIDE DEF k
  <2>5. Rising(ExchangedOne(f[j - 1], k, at, find, t), m, w, n, GapTo(at, k - 1),
               GapTo(at, k - 1) + (k - 1) * g)
    BY <2>1, <2>4, RisingMore
  <2> QED BY <2>1, <2>3, <2>5
<1> HIDE DEF Good
<1>4. ASSUME Bad # {} PROVE FALSE
  <2>1. Bad \in SUBSET Nat
    OBVIOUS
  <2>2. PICK j \in Bad : \A k \in Bad : j <= k
    BY <1>4, <2>1, MinIsLeast
  <2>3. j \in 0 .. N /\ ~Good(j)
    OBVIOUS
  <2>4. \A k \in 0 .. N : k < j => Good(k)
    BY <2>2
  <2> HIDE DEF Bad
  <2>5. j # 0
    BY <1>2, <2>3
  <2>6. j \in 1 .. N /\ j - 1 \in 0 .. N /\ j - 1 < j
    BY <1>1, <2>3, <2>5
  <2> QED BY <1>3, <2>3, <2>4, <2>6
<1>5. Good(N)
  BY <1>1, <1>4
<1>6. N - N = 0 /\ 0 * g = 0 /\ GapTo(at, 0) + 0 = GapTo(at, 0)
  <2>1. GapTo(at, 0) \in 0 .. slen
    BY ReplacingFront DEF Alike
  <2> QED BY <1>1, <2>1
<1> QED BY <1>5, <1>6 DEF Good

\* All matches, from the front.
LEMMA SinkingAll ==
  ASSUME Terminated, NEW m, slen <= m, NEW d, IsBlock(d, m), StringAt(d), NEW find \in Seq(Char),
         NEW t \in Seq(Char), NEW p \in 0 .. slen, NEW at, Spaced(at, p, Len(find)),
         NEW g \in Int, g <= 0, g = Len(t) - Len(find), NEW w,
         Replacing(w, at, p, Len(find), g, t), NEW f, Layers(f, d, at, find, t, Len(at))
  PROVE  Sinking(f[Len(at)], m, w, slen, slen + Len(at) * g)
<1> DEFINE N == Len(at)
           Good(j) == Sinking(f[j], m, w, GapTo(at, j), GapTo(at, j) + j * g)
           Bad == {k \in 0 .. N : ~Good(k)}
<1>1. N \in Nat /\ slen \in Nat /\ m \in Nat /\ Len(Text) = slen
  BY StringIs DEF Spaced, Holds, IsBlock
<1>2. Good(0)
  <2> DEFINE a == GapTo(at, 0)
  <2>1. a \in 0 .. slen /\ \A i \in 1 .. a : w[i] = Text[i]
    <3>1. Alike(w, GapTo(at, 0))
      BY ReplacingFront
    <3> QED BY <3>1 DEF Alike
  <2>2. 0 * g = 0 /\ a + 0 = a /\ f[0] = d
    BY <2>1 DEF Layers
  <2> HIDE DEF a
  <2>3. \A i \in 0 .. m - 1 : i < slen => d[i] = Text[i + 1]
    <3>1. TAKE i \in 0 .. m - 1
    <3>2. i < slen => i + 1 \in 1 .. slen /\ i + 1 - 1 = i
      BY <1>1
    <3> QED BY <3>2 DEF StringAt
  <2>4. \A i \in 0 .. m - 1 : i < a => i < slen /\ i + 1 \in 1 .. a
    BY <1>1, <2>1
  <2>5. Sinking(d, m, w, a, a)
    BY <2>1, <2>3, <2>4 DEF Sinking
  <2> QED BY <2>2, <2>5 DEF a
<1>3. ASSUME NEW j \in 1 .. N, Good(j - 1) PROVE Good(j)
  <2>1. Turn(j, at, find, t) = j
    <3>1. ~(Len(t) > Len(find))
      OBVIOUS
    <3> QED BY <3>1 DEF Turn
  <2>2. f[j] = ExchangedOne(f[j - 1], j, at, find, t)
    BY <2>1 DEF Layers
  <2>3. Sinking(ExchangedOne(f[j - 1], j, at, find, t), m, w, GapTo(at, j), GapTo(at, j) + j * g)
    BY <1>3, SinkingMore
  <2> QED BY <2>2, <2>3
<1> HIDE DEF Good
<1>4. ASSUME Bad # {} PROVE FALSE
  <2>1. Bad \in SUBSET Nat
    OBVIOUS
  <2>2. PICK j \in Bad : \A k \in Bad : j <= k
    BY <1>4, <2>1, MinIsLeast
  <2>3. j \in 0 .. N /\ ~Good(j)
    OBVIOUS
  <2>4. \A k \in 0 .. N : k < j => Good(k)
    BY <2>2
  <2> HIDE DEF Bad
  <2>5. j # 0
    BY <1>2, <2>3
  <2>6. j \in 1 .. N /\ j - 1 \in 0 .. N /\ j - 1 < j
    BY <1>1, <2>3, <2>5
  <2> QED BY <1>3, <2>3, <2>4, <2>6
<1>5. Good(N)
  BY <1>1, <1>4
<1>6. GapTo(at, N) = slen
  BY DEF GapTo
<1> QED BY <1>5, <1>6 DEF Good

\* The text w is at the front of the block.
Fronted(d, w, n) == \A i \in 1 .. n : d[i - 1] = w[i]

\* The matches are all exchanged, whichever end the work begins at.
LEMMA ExchangedText ==
  ASSUME Terminated, NEW m, NEW d, Holds(d, m, slen), StringAt(d), NEW find \in Seq(Char),
         NEW t \in Seq(Char), NEW p \in 0 .. slen, NEW at, Spaced(at, p, Len(find)),
         NEW g, g = Len(t) - Len(find), NEW w, Replacing(w, at, p, Len(find), g, t),
         NEW n \in 0 .. m, n = slen + Len(at) * g
  PROVE  Fronted(Exchanged(d, at, find, t), w, n)
<1> DEFINE N == Len(at)
           E == Exchanged(d, at, find, t)
           a == GapTo(at, 0)
<1>1. slen \in Nat /\ m \in Nat /\ slen <= m /\ N \in Nat /\ IsBlock(d, m) /\ g \in Int
      /\ n \in Nat
  BY StringIs DEF Holds, IsBlock, Spaced
<1>2. PICK f : Layers(f, d, at, find, t, N) /\ E = f[N]
  BY <1>1, ExchangedIs
<1>3. CASE g > 0
  <2>1. g \in Nat
    BY <1>1, <1>3
  <2>2. Rising(f[N], m, w, n, a, a)
    BY <1>1, <1>2, <1>3, <2>1, RisingAll
  <2>3. Alike(w, a)
    BY <2>1, ReplacingFront
  <2>4. E = f[N]
    BY <1>2
  <2> HIDE DEF E, a, N
  <2>5. \A i \in 0 .. m - 1 : /\ i < a => E[i] = Text[i + 1]
                              /\ a <= i /\ i < n => E[i] = w[i + 1]
    BY <2>2, <2>4 DEF Rising
  <2>6. a \in Nat /\ \A i \in 1 .. a : w[i] = Text[i]
    BY <1>1, <2>3 DEF Alike
  <2>7. \A i \in 1 .. n : E[i - 1] = w[i]
    <3>1. TAKE i \in 1 .. n
    <3> DEFINE j == i - 1
    <3>2. j \in 0 .. m - 1 /\ j < n /\ j + 1 = i
      BY <1>1
    <3> HIDE DEF j
    <3>3. CASE j < a
      <4>1. i \in 1 .. a
        BY <2>6, <3>2, <3>3
      <4>2. E[j] = Text[i] /\ w[i] = Text[i]
        BY <2>5, <2>6, <3>2, <3>3, <4>1
      <4> QED BY <4>2 DEF j
    <3>4. CASE ~(j < a)
      <4>1. a <= j
        BY <1>1, <2>6, <3>2, <3>4
      <4>2. E[j] = w[i]
        BY <2>5, <3>2, <4>1
      <4> QED BY <4>2 DEF j
    <3> QED BY <3>3, <3>4
  <2> QED BY <2>7 DEF Fronted, E
<1>4. CASE ~(g > 0)
  <2>1. g <= 0
    BY <1>1, <1>4
  <2>2. Sinking(f[N], m, w, slen, n)
    BY <1>1, <1>2, <2>1, SinkingAll
  <2>3. E = f[N]
    BY <1>2
  <2> HIDE DEF E, N
  <2>4. \A i \in 0 .. m - 1 : i < n => E[i] = w[i + 1]
    BY <2>2, <2>3 DEF Sinking
  <2>5. \A i \in 1 .. n : E[i - 1] = w[i]
    <3>1. TAKE i \in 1 .. n
    <3>2. i - 1 \in 0 .. m - 1 /\ i - 1 < n /\ (i - 1) + 1 = i
      BY <1>1
    <3> QED BY <2>4, <3>2
  <2> QED BY <2>5 DEF Fronted, E
<1> QED BY <1>3, <1>4

\* A call to replace, and what it makes of a text.
FindCall(caseless, pos, find, t) ==
  <<IF caseless THEN "findreplacecaseless" ELSE "findreplace", pos, find, t>>
Found(s, caseless, pos, find, t) ==
  Abstract!First(s, pos) \o Abstract!Replaced(Abstract!From(s, pos), find, t, Same(caseless))

\* Where it is a call of AbstractString's.
LEMMA FindResult ==
  ASSUME NEW s, NEW caseless \in BOOLEAN, NEW pos, NEW find, NEW t
  PROVE  Abstract!Result(s, FindCall(caseless, pos, find, t))
           = IF pos > Len(s) THEN s ELSE Found(s, caseless, pos, find, t)
<1>1. CASE caseless
  <2>1. FindCall(caseless, pos, find, t) = <<"findreplacecaseless", pos, find, t>>
    BY <1>1 DEF FindCall
  <2>2. Abstract!Result(s, <<"findreplacecaseless", pos, find, t>>)
          = IF pos > Len(s) THEN s
            ELSE Abstract!First(s, pos)
                   \o Abstract!Replaced(Abstract!From(s, pos), find, t, Lower)
    BY DEF Abstract!Result
  <2> QED BY <1>1, <2>1, <2>2 DEF Found, Same
<1>2. CASE ~caseless
  <2>1. FindCall(caseless, pos, find, t) = <<"findreplace", pos, find, t>>
    BY <1>2 DEF FindCall
  <2>2. Abstract!Result(s, <<"findreplace", pos, find, t>>)
          = IF pos > Len(s) THEN s
            ELSE Abstract!First(s, pos)
                   \o Abstract!Replaced(Abstract!From(s, pos), find, t,
                                        [x \in DOMAIN Lower |-> x])
    BY DEF Abstract!Result
  <2> QED BY <1>2, <2>1, <2>2 DEF Found, Same
<1> QED BY <1>1, <1>2

\* What it makes of the string, given the matches there are.
LEMMA FoundIs ==
  ASSUME Terminated, NEW find \in Seq(Char), find # <<>>, NEW caseless \in BOOLEAN,
         NEW pos \in 0 .. slen, NEW t \in Seq(Char), NEW at, Spaced(at, pos, Len(find)),
         Leftmost(at, pos, Len(find), FoundFrom(find, caseless, 0)), NEW g,
         g = Len(t) - Len(find)
  PROVE  Replacing(Found(Text, caseless, pos, find, t), at, pos, Len(find), g, t)
<1> DEFINE M == FoundFrom(find, caseless, 0)
           len == Len(find)
<1>1. len \in Nat /\ len > 0 /\ g \in Int
  OBVIOUS
<1>2. \A i \in M : i + len <= slen
  BY DEF FoundFrom, Occurs, OccursCaseless
<1>3. PICK R : /\ Onward(R, pos, len, t, M)
               /\ Abstract!Replaced(Abstract!From(Text, pos), find, t, Same(caseless)) = R[pos]
  BY OnwardIs
<1>4. Found(Text, caseless, pos, find, t) = Abstract!First(Text, pos) \o R[pos]
  BY <1>3 DEF Found
<1>5. Leftmost(at, pos, len, M) /\ Spaced(at, pos, len) /\ g = Len(t) - len
  OBVIOUS
<1> HIDE DEF M, len
<1>6. Replacing(Abstract!First(Text, pos) \o R[pos], at, pos, len, g, t)
  BY <1>1, <1>2, <1>3, <1>5, ReplacingIs
<1> QED BY <1>4, <1>6 DEF len

\* Where there is no room for a match the string stays.
LEMMA FoundNone ==
  ASSUME Terminated, NEW find \in Seq(Char), find # <<>>, NEW caseless \in BOOLEAN,
         NEW pos \in 0 .. slen, pos > slen - Len(find), NEW t \in Seq(Char)
  PROVE  Found(Text, caseless, pos, find, t) = Text
<1> DEFINE M == FoundFrom(find, caseless, 0)
           len == Len(find)
           g == Len(t) - Len(find)
           w == Found(Text, caseless, pos, find, t)
<1>1. slen \in Nat /\ Text \in Seq(Char) /\ Len(Text) = slen /\ len \in Nat /\ g \in Int
  BY StringIs DEF Holds, IsBlock
<1>2. \A i \in M : i \in 0 .. slen /\ i + len <= slen
  BY DEF FoundFrom, Occurs, OccursCaseless
<1>3. Len(<<>>) = 0 /\ 0 * len = 0 /\ 0 * g = 0
  BY <1>1
<1>4. Spaced(<<>>, pos, len)
  <2>1. <<>> \in Seq(Nat) /\ pos + 0 * len <= slen
    BY <1>1, <1>3
  <2> QED BY <1>3, <2>1 DEF Spaced
<1>5. Leftmost(<<>>, pos, len, M)
  <2>1. \A i \in M : ~(pos <= i)
    BY <1>1, <1>2
  <2>2. \A k \in 0 .. Len(<<>>) : GapFrom(<<>>, pos, len, k) = pos
    BY <1>3 DEF GapFrom
  <2> HIDE DEF M
  <2> QED BY <1>3, <2>1, <2>2 DEF Leftmost
<1>6. Replacing(w, <<>>, pos, Len(find), g, t)
  <2>1. g = Len(t) - Len(find)
    OBVIOUS
  <2> HIDE DEF g
  <2> QED BY <1>4, <1>5, <2>1, FoundIs
<1> HIDE DEF w, g, M
<1>7. Alike(w, GapTo(<<>>, 0))
  BY <1>1, <1>4, <1>6, ReplacingFront
<1>8. GapTo(<<>>, 0) = slen
  BY <1>3 DEF GapTo
<1>9. \A i \in 1 .. slen : w[i] = Text[i]
  BY <1>7, <1>8 DEF Alike
<1>10. w \in Seq(Char) /\ Len(w) = slen
  <2>1. w \in Seq(Char) /\ Len(w) = slen + Len(<<>>) * g
    BY <1>6 DEF Replacing
  <2> QED BY <1>1, <1>3, <2>1
<1>11. w = Text
  BY <1>1, <1>9, <1>10, SameText
<1> QED BY <1>11 DEF w

\* What such a call is.
LEMMA FindCallIs ==
  ASSUME NEW caseless \in BOOLEAN, NEW pos, NEW find, NEW t
  PROVE  /\ FindCall(caseless, pos, find, t)[1] \in Abstract!Changing
         /\ FindCall(caseless, pos, find, t)[1] # "pattern"
<1>1. FindCall(caseless, pos, find, t)[1]
        = IF caseless THEN "findreplacecaseless" ELSE "findreplace"
  BY DEF FindCall
<1>2. FindCall(caseless, pos, find, t)[1] \in {"findreplacecaseless", "findreplace"}
  BY <1>1
<1> HIDE DEF FindCall
<1> QED BY <1>2 DEF Abstract!Changing

\* findreplaceengine, unless it is told to replace by what it overwrites.
LEMMA FindreplaceRefines ==
  ASSUME Terminated, NoneBefore, NullIsNoText, NEW find \in Texts, NEW a \in Args,
         NEW pos \in Nat, NEW before \in Before, NEW caseless \in BOOLEAN,
         findreplaceengine(find, a, pos, before, caseless)
  PROVE  Abstract!Next
<1> DEFINE at   == Matches(find, pos, caseless)
           t    == a.text
           g    == Len(t) - Len(find)
           n    == slen + Len(at) * g
           call == FindCall(caseless, pos, find, t)
           room == IF g > 0 THEN Blocks(n + 1) ELSE {data}
           w    == Found(Text, caseless, pos, find, t)
<1>1. /\ str
      /\ \/ Returns(call, "ERR")
         \/ find # <<>> /\ pos > slen - Len(find) /\ Returns(call, "OK")
         \/ /\ find # <<>> /\ pos <= slen - Len(find)
            /\ \E d \in room : Becomes(Exchanged(d, at, find, Through(a, d, ~before)), n, call)
  BY DEF findreplaceengine, FindCall
<1>2. ~before
  BY ConstantsAssumption DEF NoneBefore
<1>3. find \in Seq(Char) /\ t \in Seq(Char) /\ Len(find) \in Nat /\ Len(t) \in Nat
  BY TextIs, ArgIs DEF IsArg
<1>4. /\ slen \in Nat /\ mlen \in Nat /\ slen <= mlen /\ Holds(data, mlen, slen)
      /\ Size(data) = mlen /\ (failing = {} => slen < mlen)
  BY <1>1, StringIs, StringInside
<1>5. Text \in Seq(Char) /\ Len(Text) = slen
  BY StringIs
<1>6. call[1] \in Abstract!Changing /\ call[1] # "pattern"
  BY FindCallIs
<1>7. Abstract!Result(Text, call) = IF pos > slen THEN Text ELSE w
  BY <1>5, FindResult
<1> HIDE DEF call
<1>8. CASE Returns(call, "ERR")
  BY <1>8, ReturnsIs
<1>9. ASSUME find # <<>>, pos > slen - Len(find), Returns(call, "OK")
      PROVE  Abstract!Next
  <2>1. Abstract!Result(Text, call) = Text
    <3>1. CASE pos > slen
      BY <1>7, <3>1
    <3>2. CASE ~(pos > slen)
      <4>1. pos \in 0 .. slen
        BY <1>4, <3>2
      <4>2. w = Text
        BY <1>3, <1>9, <4>1, FoundNone
      <4> HIDE DEF w
      <4> QED BY <1>7, <3>2, <4>2
    <3> QED BY <3>1, <3>2
  <2> HIDE DEF w, t
  <2> QED BY <1>1, <1>6, <1>9, <2>1, ReturnsIs
<1>10. ASSUME find # <<>>, pos <= slen - Len(find), NEW d \in room,
              Becomes(Exchanged(d, at, find, Through(a, d, ~before)), n, call)
       PROVE  Abstract!Next
  <2>1. Through(a, d, ~before) = t
    BY <1>2, ThroughIs
  <2>2. pos \in 0 .. slen
    BY <1>3, <1>4, <1>10
  <2>3. Spaced(at, pos, Len(find)) /\ Leftmost(at, pos, Len(find), FoundFrom(find, caseless, 0))
    BY <1>3, <1>4, <1>10, <2>2, MatchesSpaced, MatchesLeftmost
  <2>4. g = Len(t) - Len(find) /\ g \in Int /\ n = slen + Len(at) * g
    BY <1>3
  <2> HIDE DEF at
  <2>5. n \in Nat /\ (Len(t) <= Len(find) => n <= slen)
    <3> DEFINE len  == Len(find)
               size == Len(t)
    <3>1. /\ n = slen + Len(at) * (size - len)
          /\ len \in Nat /\ size \in Nat /\ Spaced(at, pos, len)
      BY <1>3, <2>3
    <3> HIDE DEF n, len, size
    <3>2. n \in Nat /\ (size <= len => n <= slen)
      BY <1>4, <3>1, ExchangedLength, ZenonT(60)
    <3> QED BY <3>2 DEF len, size
  <2>6. Holds(d, Size(d), slen) /\ n \in 0 .. Size(d) /\ StringAt(d)
    <3>1. CASE g > 0
      <4>1. d \in Blocks(n + 1)
        BY <3>1
      <4> HIDE DEF n
      <4>2. Granted(d, Size(d), n + 1)
        BY <2>5, <4>1, BlocksGranted
      <4>3. StringAt(d)
        <5> DEFINE olen == n + 1
        <5>1. olen \in Int /\ d \in Blocks(olen)
          BY <2>5, <4>1
        <5> HIDE DEF olen
        <5> QED BY <5>1, BlocksKeepText
      <4> QED BY <2>5, <4>2, <4>3 DEF Granted, Holds, IsBlock
    <3>2. CASE ~(g > 0)
      <4>1. d = data /\ Len(t) <= Len(find)
        BY <1>3, <3>2
      <4> HIDE DEF n, g
      <4> QED BY <1>4, <2>5, <4>1, StringAtData
    <3> QED BY <3>1, <3>2
  <2> HIDE DEF t, g, n
  <2>7. Holds(Exchanged(d, at, find, t), Size(d), n)
    <3>1. n = slen + Len(at) * (Len(t) - Len(find))
      BY <2>4
    <3> QED BY <1>3, <1>4, <2>3, <2>6, <3>1, ExchangedHolds
  <2>8. Replacing(w, at, pos, Len(find), g, t)
    BY <1>3, <1>10, <2>2, <2>3, <2>4, FoundIs
  <2> HIDE DEF w
  <2>9. Fronted(Exchanged(d, at, find, t), w, n)
    BY <1>3, <2>2, <2>3, <2>4, <2>6, <2>8, ExchangedText
  <2>10. Becomes(Exchanged(d, at, find, t), n, call)
    BY <1>10, <2>1
  <2>11. w \in Seq(Char) /\ Len(w) = n
    BY <2>4, <2>8 DEF Replacing
  <2>12. w = Abstract!Result(Text, call)
    <3>1. ~(pos > slen)
      BY <1>4, <2>2
    <3> QED BY <1>7, <3>1
  <2> DEFINE E == Exchanged(d, at, find, t)
             m == Size(d)
  <2>13. \A i \in 1 .. n : E[i - 1] = w[i]
    BY <2>9 DEF Fronted
  <2>14. Holds(E, m, n) /\ Becomes(E, n, call)
    BY <2>7, <2>10
  <2> HIDE DEF E, m
  <2> QED BY <1>1, <1>6, <2>11, <2>12, <2>13, <2>14, BecomesText
<1> QED BY <1>1, <1>8, <1>9, <1>10

-----------------------------------------------------------------------------
(* All calls, as AbstractString says.                                      *)

\* A char * may be an argument.
LEMMA CstrIsArg ==
  ASSUME NEW t \in Texts
  PROVE  Cstr(t) \in Args /\ Cstr(t).text = t
BY DEF Cstr, Args

\* The string compared with one.
LEMMA EqualsCstrRefines ==
  ASSUME Terminated, NullIsNoText, CodesDiffer, NEW t \in Texts,
         biseqcstr(t) \/ biseqcstrcaseless(t)
  PROVE  Abstract!Next
<1> DEFINE a == Cstr(t)
<1>1. a \in Args /\ a.text = t
  BY CstrIsArg
<1>2. \/ Equals("iseqcstr", a, slen = Len(a.text), Code)
      \/ Equals("iseqcstrcaseless", a, slen = Len(a.text), Small)
  BY <1>1 DEF biseqcstr, biseqcstrcaseless
<1> HIDE DEF a
<1> QED BY <1>1, <1>2, EqualsRefines

\* Every call does what AbstractString says of it, or fails as it says.
LEMMA NextRefines ==
  ASSUME Terminated, NoneBefore, NullIsNoText, CodesDiffer, Next
  PROVE  Abstract!Next
<1>1. /\ Lengths \subseteq Nat /\ Lengths \subseteq Int /\ Fills \subseteq Char
      /\ MaxLen \in Nat
  BY ConstantsAssumption DEF Lengths
<1>2. -1 .. MaxLen \subseteq Int /\ -1 .. 1 \subseteq Int /\ \A n \in Lengths : n + 1 \in Nat
  BY <1>1
<1>3. CASE \/ bdestroy \/ bstrcpy \/ bstr2cstr \/ bltrimws \/ brtrimws \/ btrimws
           \/ btoupper \/ btolower
  BY <1>3, DestroyRefines, StrcpyRefines, LtrimwsRefines, RtrimwsRefines, TrimwsRefines,
     RecasedRefines
<1>4. ASSUME NEW c \in Char, bconchar(c) PROVE Abstract!Next
  BY <1>4, ConcharRefines
<1>5. ASSUME NEW t \in Texts,
             \/ bfromcstr(t) \/ bcatblk(t) \/ bcatcstr(t) \/ bassignblk(t) \/ bassigncstr(t)
             \/ biseqcstr(t) \/ biseqcstrcaseless(t)
             \/ \E m, n \in Lengths : m <= n /\ bfromcstrrangealloc(m, n, t)
      PROVE  Abstract!Next
  <2>1. CASE biseqcstr(t) \/ biseqcstrcaseless(t)
    BY <2>1, EqualsCstrRefines
  <2>2. ASSUME NEW m \in Lengths, NEW n \in Lengths, bfromcstrrangealloc(m, n, t)
        PROVE  Abstract!Next
    <3>1. m \in Nat /\ n \in Nat
      BY <1>1
    <3> QED BY <2>2, <3>1, RangeallocRefines
  <2>3. CASE bfromcstr(t) \/ bcatblk(t)
    BY <2>3, FromcstrRefines, CatblkRefines
  <2>4. CASE bcatcstr(t)
    BY <2>4, CatcstrRefines
  <2>5. CASE bassignblk(t) \/ bassigncstr(t)
    BY <2>5, AssignblkRefines, AssigncstrRefines
  <2> QED BY <1>5, <2>1, <2>2, <2>3, <2>4, <2>5
<1>6. ASSUME NEW n \in Lengths, btrunc(n) \/ bpattern(n) \/ balloc(n + 1) \/ ballocmin(n + 1)
      PROVE  Abstract!Next
  <2>1. n \in Nat /\ n + 1 \in Nat
    BY <1>1, <1>2
  <2>2. CASE btrunc(n) \/ bpattern(n)
    BY <2>1, <2>2, TruncRefines, PatternRefines
  <2>3. CASE balloc(n + 1) \/ ballocmin(n + 1)
    <3> DEFINE olen == n + 1
    <3>1. olen \in Nat /\ (balloc(olen) \/ ballocmin(olen))
      BY <2>1, <2>3
    <3> HIDE DEF olen
    <3> QED BY <3>1, AllocRefines, AllocminRefines
  <2> QED BY <1>6, <2>2, <2>3
<1>7. ASSUME NEW pos \in -1 .. MaxLen, NEW len \in Lengths, bdelete(pos, len) \/ bmidstr(pos, len)
      PROVE  Abstract!Next
  <2>1. pos \in Int /\ len \in Int
    BY <1>1, <1>2
  <2> QED BY <1>7, <2>1, DeleteRefines, MidstrRefines
<1>8. ASSUME NEW a \in Args,
             \/ bconcat(a) \/ bassign(a) \/ bstricmp(a) \/ biseq(a) \/ biseqcaseless(a)
             \/ bisstemeq(a) \/ bisstemeqcaseless(a)
             \/ \E n \in Lengths : bstrncmp(a, n) \/ bstrnicmp(a, n)
             \/ \E pos \in -1 .. 1, len \in Lengths : bassignmidstr(a, pos, len)
      PROVE  Abstract!Next
  <2>1. CASE bstricmp(a)
    BY <2>1, StricmpRefines
  <2>2. CASE biseq(a) \/ biseqcaseless(a) \/ bisstemeq(a) \/ bisstemeqcaseless(a)
    BY <2>2, EqualsRefines
  <2>3. ASSUME NEW n \in Lengths, bstrncmp(a, n) \/ bstrnicmp(a, n)
        PROVE  Abstract!Next
    <3>1. n \in Nat
      BY <1>1
    <3> QED BY <2>3, <3>1, StrncmpRefines, StrnicmpRefines
  <2>4. ASSUME NEW pos \in -1 .. 1, NEW len \in Lengths, bassignmidstr(a, pos, len)
        PROVE  Abstract!Next
    <3>1. pos \in Int /\ len \in Int
      BY <1>1, <1>2
    <3> QED BY <2>4, <3>1, AssignmidstrRefines
  <2>5. CASE bconcat(a) \/ bassign(a)
    BY <2>5, ConcatRefines, BassignRefines
  <2> QED BY <1>8, <2>1, <2>2, <2>3, <2>4, <2>5
<1>9. ASSUME NEW a \in Args, NEW pos \in Lengths, NEW fill \in Fills,
             \/ bsetstr(pos, a, fill) \/ binsert(pos, a, fill)
             \/ \E find \in Texts, before \in Before :
                  bfindreplace(find, a, pos, before) \/ bfindreplacecaseless(find, a, pos, before)
             \/ \E len \in Lengths : pos + len <= MaxLen /\ breplace(pos, len, a, fill)
      PROVE  Abstract!Next
  <2>1. pos \in Nat /\ fill \in Char
    BY <1>1
  <2>2. ASSUME NEW find \in Texts, NEW before \in Before,
               bfindreplace(find, a, pos, before) \/ bfindreplacecaseless(find, a, pos, before)
        PROVE  Abstract!Next
    <3>1. PICK caseless \in BOOLEAN : findreplaceengine(find, a, pos, before, caseless)
      BY <2>2 DEF bfindreplace, bfindreplacecaseless
    <3> QED BY <2>1, <3>1, FindreplaceRefines
  <2>3. ASSUME NEW len \in Lengths, breplace(pos, len, a, fill)
        PROVE  Abstract!Next
    <3>1. len \in Nat
      BY <1>1
    <3> QED BY <2>1, <2>3, <3>1, ReplaceRefines
  <2>4. CASE bsetstr(pos, a, fill) \/ binsert(pos, a, fill)
    BY <2>1, <2>4, SetstrRefines, InsertRefines
  <2> QED BY <1>9, <2>2, <2>3, <2>4
<1>10. ASSUME NEW pos \in Lengths, NEW len \in Lengths, NEW fill \in Fills,
              binsertch(pos, len, fill)
       PROVE  Abstract!Next
  <2>1. pos \in Nat /\ len \in Nat /\ fill \in Char
    BY <1>1
  <2> QED BY <1>10, <2>1, InsertchRefines
<1> QED BY <1>3, <1>4, <1>5, <1>6, <1>7, <1>8, <1>9, <1>10 DEF Next

\* Whatever the argument shares with the string, however the block moves and whichever
\* request for memory is refused: every call makes of the text what it promises to make of
\* it and of its arguments, or fails and leaves it alone, and what it returns is what it
\* promises to return.  The calls that are given a char * may have stored the beginning of
\* it when they fail.
THEOREM StringIsRefined ==
  ASSUME ShortStrings, NoneBefore, NullIsNoText, CodesDiffer
  PROVE  Spec => ImplementsAbstractString
<1>1. Init => Abstract!Init
  BY DEF Init, Abstract!Init
<1>2. Terminated /\ [Next]_vars => [Abstract!Next]_Abstract!vars
  <2>1. ASSUME Terminated, Next PROVE Abstract!Next
    BY <2>1, NextRefines
  <2>2. ASSUME UNCHANGED vars PROVE UNCHANGED Abstract!vars
    <3>1. str' = str /\ data' = data /\ slen' = slen /\ ret' = ret
      BY <2>2 DEF vars, string
    <3>2. Text' = Text
      BY <3>1 DEF Text
    <3> QED BY <3>1, <3>2 DEF Abstract!vars
  <2> QED BY <2>1, <2>2
<1>3. Spec => []Terminated
  BY TerminatorInPlace
<1> QED BY <1>1, <1>2, <1>3, PTL DEF Spec, ImplementsAbstractString, Abstract!Spec

=============================================================================
