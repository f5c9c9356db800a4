--------------------------- MODULE BSearchProofs ---------------------------
(***************************************************************************)
(* The searches of BSearch find what they should, whatever the strings,    *)
(* the characters and tolower are.                                         *)
(***************************************************************************)
EXTENDS BSearch, TLAPS

\* The arguments are what a client passes, the variables of the loops numbers.
TypeOK ==
  /\ name \in InString \cup InSet \cup NotInSet
  /\ s \in Seq(Char) /\ t \in Seq(Char) /\ pos \in Int
  /\ name \in {"bstrchrp", "bstrrchrp"} => Len(t) = 1
  /\ alias => \A k \in DOMAIN s \cap DOMAIN t : s[k] = t[k]
  /\ pc \in {"enter", "done"} \cup Loop
  /\ i \in Int /\ j \in Int /\ ii \in Int /\ ret \in Int

\* Nothing sought is left behind: it is not before p in the search's direction.
Ahead(p) ==
  \A q \in 0 .. Len(s) : Sought(q) => IF name \in Backward THEN q <= p ELSE p <= q

\* p is where the search starts, or beyond.
Onwards(p) == IF name \in Backward THEN p <= pos ELSE p >= pos

CharsInv ==
  pc = "chars" =>
    /\ name \in InSet \cup NotInSet \cup {"binstr"} /\ (name = "binstr" => Len(t) = 1)
    /\ Valid /\ t # <<>>
    /\ i \in -1 .. Len(s) /\ (name \in Backward => i < Len(s))
    /\ Onwards(i) /\ Ahead(i)

BruteInv ==
  pc = "brute" =>
    /\ name \in InString /\ Valid
    /\ i \in 0 .. Len(s) - Len(t) /\ j \in 0 .. Len(t) - 1
    /\ \A k \in 1 .. j : Same(t[k], s[i + k])
    /\ Onwards(i) /\ Ahead(i)

\* A turn of binstr's loop has met the first j characters of t as early as it could.
\* So no match starts more than j before i; and what was met at ii is in one piece if
\* just j characters have been passed since.
UnrolledInv ==
  pc = "unrolled" =>
    /\ name = "binstr" /\ Valid /\ Len(t) >= 2
    /\ i \in pos .. Len(s) /\ j \in 0 .. Len(t) - 1
    /\ \A q \in 0 .. Len(s) : Sought(q) => i <= q + j
    /\ j > 0 => /\ ii >= pos /\ i - ii >= j
                /\ i - ii = j => \A k \in 1 .. j : t[k] = s[ii + k]

\* The sets of which bninchr and bninchrr search for none are not empty.
SomeExcluded == <<>> \notin Excluded

\* This search is for none of some characters, if it is for none of any.
Meant == name \in NotInSet => t # <<>>

SearchInv ==
  /\ TypeOK /\ CharsInv /\ BruteInv /\ UnrolledInv
  /\ Meant => SearchExact

-----------------------------------------------------------------------------

\* What is sought does not change while the search goes on.
LEMMA SoughtUnchanged ==
  ASSUME UNCHANGED args, NEW p
  PROVE  /\ Sought(p)' <=> Sought(p)
         /\ Hit(p)' <=> Hit(p)
         /\ Ahead(p)' <=> Ahead(p)
         /\ Onwards(p)' <=> Onwards(p)
         /\ Valid' <=> Valid
BY DEF args, Sought, Hit, Occurs, Same, Tested, Ahead, Onwards, Valid

\* So a loop that moves to p, behind which nothing sought is left, has left nothing behind.
LEMMA MovesOn ==
  ASSUME UNCHANGED args, NEW p, Onwards(p), Ahead(p), i' = p
  PROVE  Onwards(i)' /\ Ahead(i)'
<1>1. \A q \in 0 .. Len(s) : Sought(q)' <=> Sought(q)
  BY SoughtUnchanged
<1> QED BY <1>1 DEF Onwards, Ahead, args

\* A call that returns what it should has the answer right.
LEMMA ReturnsExact ==
  ASSUME SearchInv, NEW p \in Int, Returns(p),
         Meant => \/ p = ERR /\ (Valid => \A q \in 0 .. Len(s) : ~Sought(q))
                  \/ Valid /\ Sought(p) /\ Ahead(p)
  PROVE  SearchInv'
<1>1. UNCHANGED args /\ pc' = "done" /\ ret' = p /\ UNCHANGED <<i, j, ii>>
  BY DEF Returns
<1>2. TypeOK'
  BY <1>1 DEF SearchInv, TypeOK, args
<1>3. ASSUME Meant
      PROVE  SearchExact'
  <2>1. \A q \in 0 .. Len(s) : Sought(q)' <=> Sought(q)
    BY <1>1, SoughtUnchanged
  <2>2. (Valid' <=> Valid) /\ (Sought(p)' <=> Sought(p))
    BY <1>1, SoughtUnchanged
  <2>3. CASE p = ERR /\ (Valid => \A q \in 0 .. Len(s) : ~Sought(q))
    BY <1>1, <2>1, <2>2, <2>3 DEF SearchExact, args
  <2>4. CASE Valid /\ Sought(p) /\ Ahead(p)
    <3>1. Sought(ret)'
      BY <1>1, <2>2, <2>4
    <3> QED BY <1>1, <2>1, <2>2, <2>4, <3>1 DEF SearchExact, Ahead, args
  <2> QED BY <1>3, <2>3, <2>4
<1>4. Meant' <=> Meant
  BY <1>1 DEF Meant, args
<1> QED BY <1>1, <1>2, <1>3, <1>4 DEF SearchInv, CharsInv, BruteInv, UnrolledInv

\* So has a call that begins a loop at p, if it is the right one.
LEMMA LoopsInv ==
  ASSUME SearchInv, NEW l \in Loop, NEW p \in Int, Loops(l, p), Valid, t # <<>>,
         Onwards(p), Ahead(p),
         l = "chars" =>
           /\ name \in InSet \cup NotInSet \cup {"binstr"} /\ (name = "binstr" => Len(t) = 1)
           /\ p \in -1 .. Len(s) /\ (name \in Backward => p < Len(s)),
         l = "brute" => name \in InString /\ p \in 0 .. Len(s) - Len(t),
         l = "unrolled" => name = "binstr" /\ Len(t) >= 2 /\ p \in pos .. Len(s)
  PROVE  SearchInv'
<1>1. UNCHANGED args /\ pc' = l /\ i' = p /\ j' = 0 /\ ii' = -1 /\ ret' = ret
  BY DEF Loops
<1>2. TypeOK'
  BY <1>1 DEF SearchInv, TypeOK, args
<1>3. /\ \A q \in 0 .. Len(s) : Sought(q)' <=> Sought(q)
      /\ Ahead(p)' <=> Ahead(p)
      /\ Onwards(p)' <=> Onwards(p)
      /\ Valid' <=> Valid
  BY <1>1, SoughtUnchanged
<1>4. Ahead(i)' /\ Onwards(i)'
  BY <1>1, <1>3
<1>5. CharsInv'
  BY <1>1, <1>3, <1>4 DEF CharsInv, args
<1>6. BruteInv'
  <2> SUFFICES ASSUME l = "brute" PROVE BruteInv'
    BY <1>1 DEF BruteInv
  <2>1. Len(t) \in Nat \ {0}
    BY DEF SearchInv, TypeOK
  <2> QED BY <1>1, <1>3, <1>4, <2>1 DEF BruteInv, args
<1>7. UnrolledInv'
  <2> SUFFICES ASSUME l = "unrolled" PROVE UnrolledInv'
    BY <1>1 DEF UnrolledInv
  <2>1. name \notin Backward
    BY DEF Backward
  <2>2. \A q \in 0 .. Len(s) : Sought(q) => p <= q
    BY <2>1 DEF Ahead
  <2> QED BY <1>1, <1>3, <2>2 DEF UnrolledInv, args, SearchInv, TypeOK
<1>8. SearchExact'
  BY <1>1 DEF SearchExact, Loop
<1> QED BY <1>2, <1>5, <1>6, <1>7, <1>8 DEF SearchInv

-----------------------------------------------------------------------------
(* What calls find out before they search.                                 *)

\* No match goes beyond the end of the string, and no string of characters is found
\* everywhere.
LEMMA Matches ==
  ASSUME SearchInv, name \in InString, NEW p \in Int
  PROVE  /\ Hit(p) => p \in 0 .. Len(s) - Len(t)
         /\ t = <<>> /\ p \in 0 .. Len(s) => Hit(p)
         /\ alias /\ Len(t) <= Len(s) => Hit(0)
<1>1. Hit(p) <=> Occurs(p)
  BY DEF Hit
<1>2. ASSUME alias, Len(t) <= Len(s)
      PROVE  Hit(0)
  <2>1. \A k \in DOMAIN t : k \in DOMAIN s /\ s[0 + k] = t[k]
    BY <1>2 DEF SearchInv, TypeOK
  <2> QED BY <1>2, <2>1 DEF Hit, Occurs, Same, SearchInv, TypeOK
<1> QED BY <1>1, <1>2 DEF Occurs, SearchInv, TypeOK

\* A search forwards for a string (binstr, binstrcaseless) begins right
\* or returns at once what it should.
LEMMA ForwardStep ==
  ASSUME SearchInv, EnterForward
  PROVE  SearchInv'
<1>1. name \in InString /\ name \notin Backward /\ name # "bstrrchrp"
  BY DEF EnterForward, InString, Backward
<1>2. Len(s) \in Nat /\ Len(t) \in Nat /\ pos \in Int
  BY DEF SearchInv, TypeOK
<1>3. \A q \in 0 .. Len(s) : Sought(q) => q >= pos /\ q \in 0 .. Len(s) - Len(t)
  BY <1>1, Matches DEF Sought
<1>4. CASE pos \notin 0 .. Len(s)
  BY <1>2, <1>4, ReturnsExact DEF EnterForward, Valid, ERR
<1>5. CASE pos \in 0 .. Len(s) /\ t = <<>>
  <2>1. Returns(pos)
    BY <1>5 DEF EnterForward
  <2>2. Valid /\ Sought(pos) /\ Ahead(pos)
    BY <1>1, <1>2, <1>3, <1>5, Matches DEF Valid, Sought, Ahead
  <2> QED BY <1>2, <2>1, <2>2, ReturnsExact
<1>6. CASE pos \in 0 .. Len(s) /\ t # <<>> /\ pos > Len(s) - Len(t)
  <2>1. Returns(ERR)
    BY <1>2, <1>6 DEF EnterForward
  <2>2. \A q \in 0 .. Len(s) : ~Sought(q)
    BY <1>2, <1>3, <1>6
  <2> QED BY <2>1, <2>2, ReturnsExact DEF ERR
<1>7. CASE pos \in 0 .. Len(s) /\ t # <<>> /\ pos <= Len(s) - Len(t)
  <2>1. Valid /\ Onwards(pos) /\ Ahead(pos)
    BY <1>1, <1>2, <1>3, <1>7 DEF Valid, Onwards, Ahead
  <2>2. CASE alias /\ pos = 0
    <3>1. Returns(0)
      BY <1>2, <1>7, <2>2 DEF EnterForward
    <3>2. Sought(0)
      BY <1>1, <1>2, <1>7, <2>2, Matches DEF Sought
    <3> QED BY <2>1, <2>2, <3>1, <3>2, ReturnsExact
  <2>3. CASE ~(alias /\ pos = 0)
    <3> DEFINE l == IF name # "binstr" THEN "brute"
                    ELSE IF Len(t) = 1 THEN "chars" ELSE "unrolled"
    <3>1. Loops(l, pos)
      BY <1>2, <1>7, <2>3 DEF EnterForward
    <3>2. l \in Loop
      BY DEF Loop
    <3>3. Len(t) >= 1
      BY <1>2, <1>7 DEF SearchInv, TypeOK
    <3>4. l = "chars" => name = "binstr" /\ Len(t) = 1
      OBVIOUS
    <3>5. l = "brute" => name \in InString /\ pos \in 0 .. Len(s) - Len(t)
      BY <1>1, <1>2, <1>7
    <3>6. l = "unrolled" => name = "binstr" /\ Len(t) >= 2 /\ pos \in pos .. Len(s)
      <4>1. l = "unrolled" => name = "binstr" /\ Len(t) # 1
        OBVIOUS
      <4> HIDE DEF l
      <4>2. pos \in pos .. Len(s) /\ (Len(t) # 1 => Len(t) >= 2)
        BY <1>2, <1>7, <3>3
      <4> QED BY <4>1, <4>2
    <3> HIDE DEF l
    <3> QED BY <1>2, <1>7, <2>1, <3>1, <3>2, <3>4, <3>5, <3>6, LoopsInv
  <2> QED BY <2>2, <2>3
<1> QED BY <1>2, <1>4, <1>5, <1>6, <1>7

\* So does one backwards (binstrr, binstrrcaseless), which begins where a match still fits.
LEMMA BackwardStep ==
  ASSUME SearchInv, EnterBackward
  PROVE  SearchInv'
<1>1. name \in InString /\ name \in Backward /\ name # "bstrrchrp" /\ name # "binstr"
  BY DEF EnterBackward, InString, Backward
<1>2. Len(s) \in Nat /\ Len(t) \in Nat /\ pos \in Int
  BY DEF SearchInv, TypeOK
<1>3. \A q \in 0 .. Len(s) : Sought(q) => q <= pos /\ q \in 0 .. Len(s) - Len(t)
  BY <1>1, Matches DEF Sought
<1>4. CASE pos \notin 0 .. Len(s)
  BY <1>2, <1>4, ReturnsExact DEF EnterBackward, Valid, ERR
<1>5. CASE pos \in 0 .. Len(s) /\ t = <<>>
  <2>1. Returns(pos)
    BY <1>5 DEF EnterBackward
  <2>2. Valid /\ Sought(pos) /\ Ahead(pos)
    BY <1>1, <1>2, <1>3, <1>5, Matches DEF Valid, Sought, Ahead
  <2> QED BY <1>2, <2>1, <2>2, ReturnsExact
<1>6. CASE pos \in 0 .. Len(s) /\ t # <<>> /\ Len(t) > Len(s)
  <2>1. Returns(ERR)
    BY <1>2, <1>6 DEF EnterBackward
  <2>2. \A q \in 0 .. Len(s) : ~Sought(q)
    BY <1>2, <1>3, <1>6
  <2> QED BY <2>1, <2>2, ReturnsExact DEF ERR
<1>7. CASE pos \in 0 .. Len(s) /\ t # <<>> /\ Len(t) <= Len(s)
  <2>1. Valid
    BY <1>1, <1>7 DEF Valid
  <2>2. CASE alias /\ pos = 0
    <3>1. Returns(0)
      BY <1>2, <1>7, <2>2 DEF EnterBackward
    <3>2. Sought(0) /\ Ahead(0)
      BY <1>1, <1>2, <1>3, <1>7, <2>2, Matches DEF Sought, Ahead
    <3> QED BY <2>1, <3>1, <3>2, ReturnsExact
  <2>3. CASE ~(alias /\ pos = 0)
    <3> DEFINE p == IF pos > Len(s) - Len(t) THEN Len(s) - Len(t) ELSE pos
    <3>1. Loops("brute", p)
      BY <1>2, <1>7, <2>3 DEF EnterBackward
    <3>2. /\ p \in 0 .. Len(s) - Len(t) /\ p <= pos
          /\ \A q \in 0 .. Len(s) - Len(t) : q <= pos => q <= p
      BY <1>2, <1>7
    <3> HIDE DEF p
    <3>3. Onwards(p) /\ Ahead(p)
      BY <1>1, <1>3, <3>2 DEF Onwards, Ahead
    <3>4. p \in Int /\ "brute" \in Loop
      BY <1>2, <3>2 DEF Loop
    <3> QED BY <1>1, <1>7, <2>1, <3>1, <3>2, <3>3, <3>4, LoopsInv
  <2> QED BY <2>2, <2>3
<1> QED BY <1>2, <1>4, <1>5, <1>6, <1>7

\* A character that is, or is not, of the set is a character of the string.
LEMMA SetHits ==
  ASSUME SearchInv, name \in InSet \cup NotInSet, NEW q
  PROVE  /\ Sought(q) => q \in 0 .. Len(s) - 1
         /\ Sought(q) /\ Meant => t # <<>>
<1>1. Sought(q) => q \in 0 .. Len(s) - 1 /\ Tested(s[q + 1])
  BY DEF Sought, Hit, InString, InSet, NotInSet
<1>2. ASSUME name \notin NotInSet, Tested(s[q + 1])
      PROVE  t # <<>>
  <2>1. PICK k \in DOMAIN t : t[k] = s[q + 1]
    BY <1>2 DEF Tested
  <2> QED BY <2>1
<1> QED BY <1>1, <1>2 DEF Meant

\* So does a search for a character of a set, or for one outside it, in which a position
\* at the end is accepted or not, as the functions differ in that.
LEMMA SetStep ==
  ASSUME SearchInv, EnterSet
  PROVE  SearchInv'
<1>1. name \in InSet \cup NotInSet /\ name \notin InString /\ name # "binstr"
  BY DEF EnterSet, InString, InSet, NotInSet
<1>2. Len(s) \in Nat /\ Len(t) \in Nat /\ pos \in Int
  BY DEF SearchInv, TypeOK
<1>3. \A q \in 0 .. Len(s) :
        Sought(q) => /\ q \in 0 .. Len(s) - 1 /\ (Meant => t # <<>>)
                     /\ IF name \in Backward THEN q <= pos ELSE q >= pos
  BY <1>1, SetHits DEF Sought
<1> DEFINE bound  == IF name \in {"binchrr", "bninchrr"} THEN Len(s) ELSE Len(s) - 1
           inside == pos \in 0 .. bound
<1>4. /\ \/ (~inside \/ t = <<>>) /\ Returns(ERR)
         \/ /\ inside /\ t # <<>>
            /\ Loops("chars", IF pos = Len(s) THEN pos - 1 ELSE pos)
  BY DEF EnterSet
<1>5. Valid /\ ~inside => pos = Len(s) /\ name \notin Backward
  BY <1>1, <1>2 DEF Valid, InSet, NotInSet, Backward
<1>6. inside => Valid /\ (pos = Len(s) => name \in Backward)
  BY <1>2 DEF Valid, Backward
<1> HIDE DEF inside
<1>7. CASE (~inside \/ t = <<>>) /\ Returns(ERR)
  <2>1. Meant /\ Valid => \A q \in 0 .. Len(s) : ~Sought(q)
    BY <1>2, <1>3, <1>5, <1>7
  <2> QED BY <1>7, <2>1, ReturnsExact DEF ERR
<1>8. CASE inside /\ t # <<>> /\ Loops("chars", IF pos = Len(s) THEN pos - 1 ELSE pos)
  <2> DEFINE p == IF pos = Len(s) THEN pos - 1 ELSE pos
  <2>1. Valid /\ pos \in 0 .. Len(s)
    BY <1>6, <1>8 DEF Valid
  <2>2. /\ p \in -1 .. Len(s) /\ p <= pos /\ (name \in Backward => p < Len(s))
        /\ (p = pos \/ (p = Len(s) - 1 /\ name \in Backward))
    BY <1>2, <1>6, <1>8, <2>1
  <2> HIDE DEF p
  <2>3. Onwards(p) /\ Ahead(p)
    BY <1>2, <1>3, <2>2 DEF Onwards, Ahead
  <2>4. Loops("chars", p)
    BY <1>8 DEF p
  <2>5. "chars" \in Loop /\ p \in Int
    BY <1>2, <2>2 DEF Loop
  <2> QED BY <1>1, <1>8, <2>1, <2>2, <2>3, <2>4, <2>5, LoopsInv
<1> QED BY <1>4, <1>7, <1>8

-----------------------------------------------------------------------------
(* The loops.                                                              *)

\* A loop over the characters looks at each position for what is sought.
LEMMA CharsHit ==
  ASSUME SearchInv, pc = "chars", NEW q \in Int
  PROVE  Hit(q) <=> q \in 0 .. Len(s) - 1 /\ Tested(s[q + 1])
<1>1. CASE name # "binstr"
  <2>1. name \notin InString /\ t # <<>>
    BY <1>1 DEF SearchInv, CharsInv, InString, InSet, NotInSet
  <2> QED BY <2>1 DEF Hit
<1>2. CASE name = "binstr"
  <2>1. Len(t) = 1 /\ Len(s) \in Nat /\ DOMAIN t = {1}
    BY <1>2 DEF SearchInv, CharsInv, TypeOK
  <2>2. Hit(q) <=> q \in 0 .. Len(s) - 1 /\ t[1] = s[q + 1]
    BY <1>2, <2>1 DEF Hit, InString, Occurs, Same, Caseless
  <2>3. Tested(s[q + 1]) <=> t[1] = s[q + 1]
    BY <1>2, <2>1 DEF Tested, NotInSet
  <2> QED BY <2>2, <2>3
<1> QED BY <1>1, <1>2

\* A turn of the loop over the characters finds what is sought at i, or nothing is there.
LEMMA CharsStep ==
  ASSUME SearchInv, Chars
  PROVE  SearchInv'
<1>1. /\ pc = "chars" /\ Valid /\ t # <<>> /\ i \in -1 .. Len(s)
      /\ (name \in Backward => i < Len(s)) /\ Onwards(i) /\ Ahead(i)
      /\ Len(s) \in Nat /\ i \in Int /\ pos \in 0 .. Len(s)
  BY DEF Chars, SearchInv, CharsInv, TypeOK, Valid
<1>2. \A q \in 0 .. Len(s) :
        Sought(q) => /\ q \in 0 .. Len(s) - 1 /\ Tested(s[q + 1])
                     /\ IF name \in Backward THEN q <= i ELSE i <= q
  BY <1>1, CharsHit DEF Sought, Ahead
<1>3. CASE i \notin 0 .. Len(s) - 1 /\ Returns(ERR)
  <2>1. \A q \in 0 .. Len(s) : ~Sought(q)
    BY <1>1, <1>2, <1>3 DEF Onwards
  <2> QED BY <1>3, <2>1, ReturnsExact DEF ERR
<1>4. CASE i \in 0 .. Len(s) - 1 /\ Tested(s[i + 1]) /\ Returns(i)
  <2>1. Sought(i)
    BY <1>1, <1>4, CharsHit DEF Sought, Onwards
  <2> QED BY <1>1, <1>4, <2>1, ReturnsExact
<1>5. CASE /\ i \in 0 .. Len(s) - 1 /\ ~Tested(s[i + 1])
           /\ i' = IF name \in Backward THEN i - 1 ELSE i + 1
           /\ UNCHANGED <<args, pc, j, ii, ret>>
  <2> DEFINE p == IF name \in Backward THEN i - 1 ELSE i + 1
  <2>1. Onwards(p) /\ Ahead(p)
    BY <1>1, <1>2, <1>5 DEF Onwards, Ahead
  <2>2. Valid'
    BY <1>1, <1>5, SoughtUnchanged
  <2>3. p \in -1 .. Len(s) /\ (name \in Backward => p < Len(s))
    BY <1>1, <1>5
  <2>4. i' = p /\ pc' = "chars"
    BY <1>1, <1>5
  <2> HIDE DEF p
  <2>5. CharsInv'
    <3>1. Onwards(i)' /\ Ahead(i)'
      BY <1>5, <2>1, <2>4, MovesOn
    <3>2. i' \in -1 .. Len(s') /\ (name' \in Backward => i' < Len(s'))
      BY <1>5, <2>3, <2>4 DEF args
    <3>3. /\ name \in InSet \cup NotInSet \cup {"binstr"}
          /\ name = "binstr" => Len(t) = 1
      BY <1>1 DEF SearchInv, CharsInv
    <3> QED BY <1>1, <1>5, <2>2, <3>1, <3>2, <3>3 DEF CharsInv, args
  <2>6. TypeOK'
    BY <1>5, <2>3, <2>4 DEF SearchInv, TypeOK, args
  <2> QED BY <2>4, <2>5, <2>6 DEF SearchInv, BruteInv, UnrolledInv, SearchExact
<1> QED BY <1>1, <1>3, <1>4, <1>5 DEF Chars

\* A turn of the loop that compares a string at i goes on with the next character, or
\* with the next place, and returns only a whole match.
LEMMA BruteStep ==
  ASSUME SearchInv, Brute
  PROVE  SearchInv'
<1> DEFINE same == Same(t[j + 1], s[i + j + 1])
           next == IF name \in Backward THEN i - 1 ELSE i + 1
<1>1. /\ pc = "brute" /\ name \in InString /\ Valid
      /\ i \in 0 .. Len(s) - Len(t) /\ j \in 0 .. Len(t) - 1
      /\ \A k \in 1 .. j : Same(t[k], s[i + k])
      /\ Onwards(i) /\ Ahead(i)
      /\ Len(s) \in Nat /\ Len(t) \in Nat /\ DOMAIN t = 1 .. Len(t)
      /\ i \in Int /\ j \in Int /\ pos \in Int
  <2>1. TypeOK /\ BruteInv /\ pc = "brute"
    BY DEF Brute, SearchInv
  <2> HIDE DEF same, next
  <2>2. /\ name \in InString /\ Valid
        /\ i \in 0 .. Len(s) - Len(t) /\ j \in 0 .. Len(t) - 1
        /\ \A k \in 1 .. j : Same(t[k], s[i + k])
        /\ Onwards(i) /\ Ahead(i)
    BY <2>1 DEF BruteInv
  <2>3. s \in Seq(Char) /\ t \in Seq(Char) /\ i \in Int /\ j \in Int /\ pos \in Int
    BY <2>1 DEF TypeOK
  <2>4. Len(s) \in Nat /\ Len(t) \in Nat /\ DOMAIN t = 1 .. Len(t)
    BY <2>3
  <2> QED BY <2>1, <2>2, <2>3, <2>4
<1>2. \A q \in 0 .. Len(s) : Sought(q) =>
        /\ q \in 0 .. Len(s) - Len(t) /\ Same(t[j + 1], s[q + (j + 1)])
        /\ IF name \in Backward THEN q <= i ELSE i <= q
  BY <1>1 DEF Sought, Hit, Occurs, Ahead
<1>3. CASE same /\ j + 1 >= Len(t) /\ Returns(i)
  <2>1. \A k \in DOMAIN t : Same(t[k], s[i + k])
    <3> SUFFICES ASSUME NEW k \in 1 .. Len(t) PROVE Same(t[k], s[i + k])
      BY <1>1
    <3>1. CASE k \in 1 .. j
      BY <1>1, <3>1
    <3>2. CASE k = j + 1
      <4>1. i + k = i + j + 1
        BY <1>1, <3>2
      <4> QED BY <1>3, <3>2, <4>1
    <3> QED BY <1>1, <1>3, <3>1, <3>2
  <2>2. Sought(i)
    BY <1>1, <2>1 DEF Sought, Hit, Occurs, Onwards
  <2> QED BY <1>1, <1>3, <2>2, ReturnsExact
<1>4. CASE same /\ j + 1 < Len(t) /\ j' = j + 1 /\ UNCHANGED <<args, pc, i, ii, ret>>
  <2>1. \A k \in 1 .. j + 1 : Same(t[k], s[i + k])
    <3> SUFFICES ASSUME NEW k \in 1 .. j + 1 PROVE Same(t[k], s[i + k])
      OBVIOUS
    <3>1. CASE k \in 1 .. j
      BY <1>1, <3>1
    <3>2. CASE k = j + 1
      <4>1. i + k = i + j + 1
        BY <1>1, <3>2
      <4> QED BY <1>4, <3>2, <4>1
    <3> QED BY <1>1, <3>1, <3>2
  <2>2. Onwards(i)' /\ Ahead(i)' /\ Valid'
    BY <1>1, <1>4, MovesOn, SoughtUnchanged
  <2>3. \A k \in 1 .. j' : Same(t[k], s[i + k])'
    BY <1>4, <2>1 DEF Same, args
  <2>4. BruteInv'
    BY <1>1, <1>4, <2>2, <2>3 DEF BruteInv, args
  <2>5. TypeOK'
    BY <1>1, <1>4 DEF SearchInv, TypeOK, args
  <2> QED BY <1>1, <1>4, <2>4, <2>5 DEF SearchInv, CharsInv, UnrolledInv, SearchExact
<1>5. ASSUME ~same
      PROVE  \A q \in 0 .. Len(s) : Sought(q) => q # i
  <2>1. i + (j + 1) = i + j + 1
    BY <1>1
  <2> QED BY <1>2, <1>5, <2>1
<1>6. CASE ~same /\ next \notin 0 .. Len(s) - Len(t) /\ Returns(ERR)
  <2>1. \A q \in 0 .. Len(s) : ~Sought(q)
    BY <1>1, <1>2, <1>5, <1>6
  <2> QED BY <1>6, <2>1, ReturnsExact DEF ERR
<1>7. CASE /\ ~same /\ next \in 0 .. Len(s) - Len(t)
           /\ i' = next /\ j' = 0 /\ UNCHANGED <<args, pc, ii, ret>>
  <2>1. Onwards(next) /\ Ahead(next)
    BY <1>1, <1>2, <1>5, <1>7 DEF Onwards, Ahead
  <2>2. Onwards(i)' /\ Ahead(i)' /\ Valid'
    <3> HIDE DEF next
    <3> QED BY <1>1, <1>7, <2>1, MovesOn, SoughtUnchanged
  <2>3. i' \in 0 .. Len(s) - Len(t) /\ j' = 0
    BY <1>7
  <2> HIDE DEF next
  <2>4. BruteInv'
    BY <1>1, <1>7, <2>2, <2>3 DEF BruteInv, args
  <2>5. TypeOK'
    BY <1>1, <1>7, <2>3 DEF SearchInv, TypeOK, args
  <2> QED BY <1>1, <1>7, <2>4, <2>5 DEF SearchInv, CharsInv, UnrolledInv, SearchExact
<1> QED BY <1>3, <1>4, <1>6, <1>7 DEF Brute

\* What binstr's loop knows.
LEMMA UnrolledFacts ==
  ASSUME SearchInv, pc = "unrolled"
  PROVE  /\ name = "binstr" /\ Valid /\ Len(t) \in Nat /\ Len(t) >= 2 /\ Len(s) \in Nat
         /\ pos \in Nat /\ i \in pos .. Len(s) /\ j \in 0 .. Len(t) - 1
         /\ i \in Int /\ j \in Int /\ ii \in Int
         /\ j > 0 => /\ ii >= pos /\ i - ii >= j
                     /\ i - ii = j => \A k \in 1 .. j : t[k] = s[ii + k]
         /\ \A q \in 0 .. Len(s) : Sought(q) =>
              /\ q \in pos .. Len(s) - Len(t) /\ i <= q + j
              /\ \A k \in 1 .. Len(t) : t[k] = s[q + k]
         /\ \A q \in pos .. Len(s) - Len(t) :
              (\A k \in 1 .. Len(t) : t[k] = s[q + k]) => Sought(q)
<1>1. /\ name = "binstr" /\ Valid /\ Len(t) >= 2
      /\ i \in pos .. Len(s) /\ j \in 0 .. Len(t) - 1
      /\ \A q \in 0 .. Len(s) : Sought(q) => i <= q + j
      /\ j > 0 => /\ ii >= pos /\ i - ii >= j
                  /\ i - ii = j => \A k \in 1 .. j : t[k] = s[ii + k]
      /\ Len(t) \in Nat /\ Len(s) \in Nat /\ DOMAIN t = 1 .. Len(t)
      /\ i \in Int /\ j \in Int /\ ii \in Int /\ pos \in Int
  BY DEF SearchInv, UnrolledInv, TypeOK
<1>2. \A q \in Int : Sought(q) <=> /\ q \in 0 .. Len(s) - Len(t) /\ q >= pos
                                   /\ \A k \in 1 .. Len(t) : t[k] = s[q + k]
  BY <1>1 DEF Sought, Hit, InString, Occurs, Same, Caseless, Backward
<1>3. pos \in Nat
  BY <1>1 DEF Valid
<1>4. \A q \in 0 .. Len(s) : Sought(q) =>
        /\ q \in pos .. Len(s) - Len(t) /\ i <= q + j
        /\ \A k \in 1 .. Len(t) : t[k] = s[q + k]
  <2> SUFFICES ASSUME NEW q \in 0 .. Len(s), Sought(q)
               PROVE  /\ q \in pos .. Len(s) - Len(t) /\ i <= q + j
                      /\ \A k \in 1 .. Len(t) : t[k] = s[q + k]
    OBVIOUS
  <2>1. /\ q \in 0 .. Len(s) - Len(t) /\ q >= pos
        /\ \A k \in 1 .. Len(t) : t[k] = s[q + k]
    BY <1>1, <1>2
  <2>2. i <= q + j
    BY <1>1
  <2>3. q \in pos .. Len(s) - Len(t)
    <3>1. Len(t) \in Nat /\ Len(s) \in Nat
      BY <1>1
    <3> QED BY <1>3, <2>1, <3>1
  <2> QED BY <2>1, <2>2, <2>3
<1>5. \A q \in pos .. Len(s) - Len(t) :
        (\A k \in 1 .. Len(t) : t[k] = s[q + k]) => Sought(q)
  BY <1>1, <1>2, <1>3
<1> QED BY <1>1, <1>3, <1>4, <1>5

\* binstr's loop goes on as it should.
LEMMA UnrolledMoves ==
  ASSUME SearchInv, pc = "unrolled", UNCHANGED <<args, pc, ret>>,
         i' \in pos .. Len(s), j' \in 0 .. Len(t) - 1, ii' \in Int,
         \A q \in 0 .. Len(s) : Sought(q) => i' <= q + j',
         j' > 0 => /\ ii' >= pos /\ i' - ii' >= j'
                   /\ i' - ii' = j' => \A k \in 1 .. j' : t[k] = s[ii' + k]
  PROVE  SearchInv'
<1>1. /\ name = "binstr" /\ Valid /\ Len(t) >= 2 /\ Len(t) \in Nat /\ Len(s) \in Nat
      /\ pos \in Nat
  BY UnrolledFacts
<1>2. Valid' /\ \A q \in 0 .. Len(s) : Sought(q)' <=> Sought(q)
  BY <1>1, SoughtUnchanged
<1>3. UnrolledInv'
  BY <1>1, <1>2 DEF UnrolledInv, args
<1>4. TypeOK'
  BY <1>1 DEF SearchInv, TypeOK, args
<1> QED BY <1>3, <1>4 DEF SearchInv, CharsInv, BruteInv, SearchExact

\* m characters have been passed when k of t have been met, the first at n, and all of
\* t would be met at m: the search ends there or goes on.
LEMMA JudgeStep ==
  ASSUME SearchInv, pc = "unrolled",
         NEW m \in Int, NEW k \in 1 .. Len(t), NEW n \in Int, Judge(m, k, n),
         n >= pos, m - n >= k, m <= Len(s),
         m = n + k => n \in pos .. Len(s) - Len(t) /\ \A l \in 1 .. Len(t) : t[l] = s[n + l],
         \A q \in 0 .. Len(s) : Sought(q) => m <= q + k
  PROVE  SearchInv'
<1>1. /\ Len(t) \in Nat /\ Len(s) \in Nat /\ pos \in Nat /\ Len(t) >= 2
      /\ name = "binstr" /\ Valid /\ k \in Int
  BY UnrolledFacts
<1>2. CASE m = n + k /\ Returns(n)
  <2>1. Sought(n)
    BY <1>2, UnrolledFacts
  <2>2. Ahead(n)
    BY <1>1, <1>2 DEF Ahead, Backward
  <2> QED BY <1>1, <1>2, <2>1, <2>2, ReturnsExact
<1>3. CASE m # n + k /\ i' = m - k /\ j' = 0 /\ ii' = n /\ UNCHANGED <<args, pc, ret>>
  <2>1. i' \in pos .. Len(s) /\ j' \in 0 .. Len(t) - 1 /\ ii' \in Int /\ ~(j' > 0)
    BY <1>1, <1>3
  <2>2. \A q \in 0 .. Len(s) : Sought(q) => i' <= q + j'
    BY <1>1, <1>3
  <2> QED BY <1>3, <2>1, <2>2, UnrolledMoves
<1> QED BY <1>2, <1>3 DEF Judge

\* A turn of binstr's loop, which looks at two characters, passes no match.
LEMMA UnrolledStep ==
  ASSUME SearchInv, Unrolled
  PROVE  SearchInv'
<1> DEFINE here  == s[i + 1] = t[j + 1]
           there == s[i + 2] = t[j + 1]
           at    == IF here THEN i ELSE i + 1
           first == IF j = 0 THEN at ELSE ii
<1>1. pc = "unrolled" /\ i < Len(s) - 1
  BY DEF Unrolled, LastTurn
<1>2. /\ Len(t) \in Nat /\ Len(t) >= 2 /\ Len(s) \in Nat
      /\ pos \in Nat /\ i \in pos .. Len(s) /\ j \in 0 .. Len(t) - 1
      /\ i \in Int /\ j \in Int /\ ii \in Int
      /\ j > 0 => /\ ii >= pos /\ i - ii >= j
                  /\ i - ii = j => \A k \in 1 .. j : t[k] = s[ii + k]
  BY <1>1, UnrolledFacts
<1>3. \A q \in 0 .. Len(s) : Sought(q) =>
        /\ q \in Int /\ q \in pos .. Len(s) - Len(t) /\ i <= q + j
        /\ t[j + 1] = s[q + (j + 1)]
  <2> SUFFICES ASSUME NEW q \in 0 .. Len(s), Sought(q)
               PROVE  /\ q \in Int /\ q \in pos .. Len(s) - Len(t) /\ i <= q + j
                      /\ t[j + 1] = s[q + (j + 1)]
    OBVIOUS
  <2>1. /\ q \in pos .. Len(s) - Len(t) /\ i <= q + j
        /\ \A k \in 1 .. Len(t) : t[k] = s[q + k]
    BY <1>1, UnrolledFacts
  <2>2. j + 1 \in 1 .. Len(t)
    BY <1>2
  <2> QED BY <2>1, <2>2
<1>4. ~here => \A q \in 0 .. Len(s) : Sought(q) => i + 1 <= q + j
  <2> SUFFICES ASSUME ~here, NEW q \in 0 .. Len(s), Sought(q)
               PROVE  i + 1 <= q + j
    OBVIOUS
  <2>1. q \in Int /\ i <= q + j /\ t[j + 1] = s[q + (j + 1)]
    BY <1>3
  <2>2. i = q + j => q + (j + 1) = i + 1
    BY <1>2
  <2>3. i # q + j
    BY <2>1, <2>2
  <2> QED BY <1>2, <2>1, <2>3
<1>5. ~here /\ ~there => \A q \in 0 .. Len(s) : Sought(q) => i + 2 <= q + j
  <2> SUFFICES ASSUME ~here, ~there, NEW q \in 0 .. Len(s), Sought(q)
               PROVE  i + 2 <= q + j
    OBVIOUS
  <2>1. i + 1 = q + j => q + (j + 1) = i + 2
    BY <1>2
  <2> QED BY <1>2, <1>3, <1>4, <2>1
<1>6. CASE ~here /\ ~there /\ i' = i + 2 /\ UNCHANGED <<args, pc, j, ii, ret>>
  <2>1. i' \in pos .. Len(s) /\ j' \in 0 .. Len(t) - 1 /\ ii' \in Int
    BY <1>1, <1>2, <1>6
  <2>2. \A q \in 0 .. Len(s) : Sought(q) => i' <= q + j'
    BY <1>5, <1>6
  <2>3. j' > 0 => /\ ii' >= pos /\ i' - ii' >= j'
                  /\ i' - ii' = j' => \A k \in 1 .. j' : t[k] = s[ii' + k]
    BY <1>2, <1>6
  <2> QED BY <1>1, <1>6, <2>1, <2>2, <2>3, UnrolledMoves
<1>7. ASSUME here \/ there
      PROVE  /\ at \in Int /\ i <= at /\ at + 1 <= Len(s) /\ s[at + 1] = t[j + 1]
             /\ first \in Int /\ first >= pos /\ at + 1 - first >= j + 1
             /\ at + 1 - first = j + 1 => \A k \in 1 .. j + 1 : t[k] = s[first + k]
             /\ \A q \in 0 .. Len(s) : Sought(q) => at + 1 <= q + (j + 1)
  <2>1. /\ at \in Int /\ i <= at /\ at <= i + 1 /\ s[at + 1] = t[j + 1]
        /\ at # i => ~here
    <3>1. CASE here
      BY <1>2, <3>1
    <3>2. CASE ~here
      <4>1. i + 2 = (i + 1) + 1
        BY <1>2
      <4> QED BY <1>2, <1>7, <3>2, <4>1
    <3> QED BY <3>1, <3>2
  <2> HIDE DEF at
  <2>2. at + 1 <= Len(s)
    BY <1>1, <1>2, <2>1
  <2>3. first \in Int /\ first >= pos /\ at + 1 - first >= j + 1
    BY <1>2, <2>1
  <2>4. ASSUME at + 1 - first = j + 1, NEW k \in 1 .. j + 1
        PROVE  t[k] = s[first + k]
    <3>1. CASE k = j + 1
      <4>1. first + k = at + 1
        BY <1>2, <2>1, <2>3, <2>4, <3>1
      <4> QED BY <2>1, <3>1, <4>1
    <3>2. CASE k # j + 1
      <4>1. j > 0 /\ k \in 1 .. j /\ first = ii
        BY <1>2, <3>2
      <4>2. i - ii = j
        BY <1>2, <2>1, <2>4, <4>1
      <4> QED BY <1>2, <4>1, <4>2
    <3> QED BY <3>1, <3>2
  <2>5. \A q \in 0 .. Len(s) : Sought(q) => at + 1 <= q + (j + 1)
    BY <1>2, <1>3, <1>4, <2>1
  <2> HIDE DEF first
  <2> QED BY <2>1, <2>2, <2>3, <2>4, <2>5
<1>8. CASE /\ here \/ there
           /\ j + 1 < Len(t)
           /\ i' = at + 1 /\ j' = j + 1 /\ ii' = first /\ UNCHANGED <<args, pc, ret>>
  <2> HIDE DEF at, first
  <2>1. i' \in pos .. Len(s) /\ j' \in 0 .. Len(t) - 1 /\ ii' \in Int
    BY <1>2, <1>7, <1>8
  <2>2. \A q \in 0 .. Len(s) : Sought(q) => i' <= q + j'
    BY <1>7, <1>8
  <2>3. j' > 0 => /\ ii' >= pos /\ i' - ii' >= j'
                  /\ i' - ii' = j' => \A k \in 1 .. j' : t[k] = s[ii' + k]
    BY <1>7, <1>8
  <2> QED BY <1>1, <1>8, <2>1, <2>2, <2>3, UnrolledMoves
<1>9. CASE (here \/ there) /\ j + 1 = Len(t) /\ Judge(at + 1, j + 1, first)
  <2> HIDE DEF at, first
  <2>1. at + 1 \in Int /\ j + 1 \in 1 .. Len(t) /\ first \in Int
    BY <1>2, <1>7, <1>9
  <2>2. at + 1 = first + (j + 1) =>
          first \in pos .. Len(s) - Len(t) /\ \A l \in 1 .. Len(t) : t[l] = s[first + l]
    <3> SUFFICES ASSUME at + 1 = first + (j + 1)
                 PROVE  /\ first \in pos .. Len(s) - Len(t)
                        /\ \A l \in 1 .. Len(t) : t[l] = s[first + l]
      OBVIOUS
    <3>0. at \in Int /\ j \in Int /\ first \in Int
      BY <1>2, <1>7, <1>9
    <3>1. at + 1 - first = j + 1
      BY <3>0
    <3>2. \A l \in 1 .. Len(t) : t[l] = s[first + l]
      BY <1>7, <1>9, <3>1
    <3>3. first + Len(t) <= Len(s) /\ first >= pos /\ first \in Int
      BY <1>7, <1>9
    <3> QED BY <1>2, <3>2, <3>3
  <2>3. first >= pos /\ at + 1 - first >= j + 1 /\ at + 1 <= Len(s)
    BY <1>7, <1>9
  <2>4. \A q \in 0 .. Len(s) : Sought(q) => at + 1 <= q + (j + 1)
    BY <1>7, <1>9
  <2>5. Judge(at + 1, j + 1, first)
    BY <1>9
  <2> HIDE DEF here, there
  <2>6. ASSUME NEW m \in Int, NEW k \in 1 .. Len(t), NEW n \in Int,
               m = at + 1, k = j + 1, n = first
        PROVE  SearchInv'
    <3>1. Judge(m, k, n)
      BY <2>5, <2>6 DEF Judge, Returns
    <3>2. m = n + k =>
            n \in pos .. Len(s) - Len(t) /\ \A l \in 1 .. Len(t) : t[l] = s[n + l]
      BY <2>2, <2>6
    <3>3. n >= pos /\ m - n >= k /\ m <= Len(s)
      BY <1>2, <1>7, <1>9, <2>1, <2>3, <2>6
    <3>4. \A q \in 0 .. Len(s) : Sought(q) => m <= q + k
      BY <2>4, <2>6
    <3> QED BY <1>1, <3>1, <3>2, <3>3, <3>4, JudgeStep
  <2> QED BY <2>1, <2>6
<1> QED BY <1>6, <1>8, <1>9 DEF Unrolled

\* What binstr does after its loop meets a match that ends with the last character.
LEMMA UnrolledLastStep ==
  ASSUME SearchInv, UnrolledLast
  PROVE  SearchInv'
<1> DEFINE met == i = Len(s) - 1 /\ Len(t) = j + 1 /\ s[i + 1] = t[j + 1]
<1>1. pc = "unrolled" /\ i >= Len(s) - 1
  BY DEF UnrolledLast, LastTurn
<1>2. /\ Len(t) \in Nat /\ Len(t) >= 2 /\ Len(s) \in Nat
      /\ pos \in Nat /\ i \in pos .. Len(s) /\ j \in 0 .. Len(t) - 1
      /\ i \in Int /\ j \in Int /\ ii \in Int
      /\ j > 0 => /\ ii >= pos /\ i - ii >= j
                  /\ i - ii = j => \A k \in 1 .. j : t[k] = s[ii + k]
      /\ \A q \in 0 .. Len(s) : Sought(q) =>
           /\ q \in pos .. Len(s) - Len(t) /\ i <= q + j
           /\ \A k \in 1 .. Len(t) : t[k] = s[q + k]
  BY <1>1, UnrolledFacts
<1>3. CASE met /\ Judge(i, j, ii)
  <2>1. j \in 1 .. Len(t) /\ ii >= pos /\ i - ii >= j /\ i <= Len(s)
    BY <1>2, <1>3
  <2>2. ASSUME i = ii + j
        PROVE  ii \in pos .. Len(s) - Len(t) /\ \A l \in 1 .. Len(t) : t[l] = s[ii + l]
    <3>1. ii \in pos .. Len(s) - Len(t) /\ i - ii = j
      BY <1>2, <1>3, <2>1, <2>2
    <3>2. ASSUME NEW l \in 1 .. Len(t)
          PROVE  t[l] = s[ii + l]
      <4>1. CASE l \in 1 .. j
        BY <1>2, <2>1, <3>1, <4>1
      <4>2. CASE l = j + 1
        <5>1. ii + l = i + 1
          BY <1>2, <2>2, <4>2
        <5> QED BY <1>3, <4>2, <5>1
      <4> QED BY <1>2, <1>3, <4>1, <4>2
    <3> QED BY <3>1, <3>2
  <2>3. \A q \in 0 .. Len(s) : Sought(q) => i <= q + j
    BY <1>2
  <2> QED BY <1>1, <1>2, <1>3, <2>1, <2>2, <2>3, JudgeStep
<1>4. CASE ~met /\ Returns(ERR)
  <2>1. ASSUME NEW q \in 0 .. Len(s), Sought(q)
        PROVE  FALSE
    <3>1. /\ q \in pos .. Len(s) - Len(t) /\ i <= q + j
          /\ \A k \in 1 .. Len(t) : t[k] = s[q + k]
      BY <1>2, <2>1
    <3>2. i = Len(s) - 1 /\ Len(t) = j + 1 /\ q + (j + 1) = i + 1
      BY <1>1, <1>2, <3>1
    <3>3. t[j + 1] = s[i + 1]
      BY <1>2, <3>1, <3>2
    <3> QED BY <1>4, <3>2, <3>3
  <2> QED BY <1>4, <2>1, ReturnsExact DEF ERR
<1> QED BY <1>3, <1>4 DEF UnrolledLast, LastTurn

-----------------------------------------------------------------------------
(* The theorems.                                                           *)

\* No search has begun.
LEMMA InitInv == Init => SearchInv
BY SearchAssumption
   DEF Init, SearchInv, TypeOK, CharsInv, BruteInv, UnrolledInv, SearchExact, Loop, ERR

\* The invariant is about the variables only.
LEMMA StutterInv ==
  ASSUME SearchInv, UNCHANGED vars
  PROVE  SearchInv'
<1>1. UNCHANGED args /\ UNCHANGED <<pc, i, j, ii, ret>>
  BY DEF vars
<1>2. \A q : Sought(q)' <=> Sought(q)
  BY <1>1, SoughtUnchanged
<1>3. Valid' <=> Valid
  BY <1>1, SoughtUnchanged
<1>4. TypeOK' /\ CharsInv' /\ BruteInv' /\ UnrolledInv' /\ (Meant' <=> Meant)
  BY <1>1, <1>2, <1>3
     DEF SearchInv, TypeOK, CharsInv, BruteInv, UnrolledInv, Ahead, Onwards, Same, Meant,
         args
<1>5. SearchExact <=> SearchExact'
  BY <1>1, <1>2, <1>3 DEF SearchExact, args
<1> QED BY <1>4, <1>5 DEF SearchInv

\* Every step of every search keeps the invariant.
LEMMA NextInv == SearchInv /\ [Next]_vars => SearchInv'
BY ForwardStep, BackwardStep, SetStep, CharsStep, BruteStep, UnrolledStep,
   UnrolledLastStep, StutterInv
   DEF Next

\* Every search of bstrlib.c returns the nearest position at which there is what it
\* seeks, and fails only if there is none: binstr too, whose loop keeps what it has met
\* of the string it seeks while other characters come in between.  Only for none of no
\* characters bninchr and bninchrr do not search.
THEOREM SearchCorrect == SomeExcluded => (Spec => []SearchExact)
<1> SUFFICES ASSUME SomeExcluded PROVE Spec => []SearchExact
  OBVIOUS
<1>1. Init => Meant
  BY DEF Init, Meant, SomeExcluded
<1>2. Meant /\ [Next]_vars => Meant'
  <2> SUFFICES ASSUME Meant, [Next]_vars PROVE Meant'
    OBVIOUS
  <2>1. UNCHANGED args
    BY DEF Next, vars, EnterForward, EnterBackward, EnterSet, Chars, Brute, Unrolled,
           UnrolledLast, Judge, Returns, Loops
  <2> QED BY <2>1 DEF Meant, args
<1>3. SearchInv /\ Meant => SearchExact
  BY DEF SearchInv
<1> QED BY <1>1, <1>2, <1>3, InitInv, NextInv, PTL DEF Spec

\* No turn of a loop looks behind the end of a string, though binstr's looks at two
\* characters at a time.
THEOREM ReadsCorrect == Spec => []ReadsInside
<1>1. SearchInv => ReadsInside
  <2> SUFFICES ASSUME SearchInv PROVE ReadsInside
    OBVIOUS
  <2>1. pc = "brute" => i \in 0 .. Len(s) - Len(t) /\ j \in 0 .. Len(t) - 1
    BY DEF SearchInv, BruteInv
  <2>2. pc = "unrolled" => /\ i >= 0 /\ j \in 0 .. Len(t) - 1 /\ i \in Int
                           /\ Len(s) \in Nat
    BY UnrolledFacts
  <2> QED BY <2>1, <2>2 DEF ReadsInside, LastTurn
<1> QED BY <1>1, InitInv, NextInv, PTL DEF Spec

=============================================================================
