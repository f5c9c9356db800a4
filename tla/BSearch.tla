------------------------------ MODULE BSearch ------------------------------
(***************************************************************************)
(* The searches of src/bstrlib.c: for a string in a string, forwards or    *)
(* backwards and with or without regard to case, and for a character that  *)
(* is, or is not, one of a set.  A call takes a step for each turn of its  *)
(* loop.  Nothing else is going on: the strings stay what they are.        *)
(***************************************************************************)
EXTENDS Integers, Sequences

CONSTANTS
  Char,      \* the characters of strings
  Lower,     \* the function tolower
  Texts,     \* the strings searched
  Finds,     \* the strings searched for, and the sets of which one character is
  Excluded,  \* the sets of which bninchr and bninchrr search for none
  Positions  \* where searches start

ASSUME SearchAssumption ==
  /\ Lower \in [Char -> Char]
  /\ Texts \subseteq Seq(Char) /\ Finds \subseteq Seq(Char) /\ Excluded \subseteq Seq(Char)
  /\ Positions \subseteq Int

VARIABLES
  name, s, t, pos, \* the call and its arguments: t is sought in s from pos
  alias,           \* whether s and t are at the same place in memory
  pc,              \* the loop it is in
  i, j, ii,        \* its variables
  ret              \* what it returns

args == <<name, s, t, pos, alias>>
vars == <<args, pc, i, j, ii, ret>>

ERR == -1

InString == {"binstr", "binstrcaseless", "binstrr", "binstrrcaseless"}
InSet    == {"bstrchrp", "bstrrchrp", "binchr", "binchrr"}
NotInSet == {"bninchr", "bninchrr"}
Backward == {"binstrr", "binstrrcaseless", "bstrrchrp", "binchrr", "bninchrr"}
Caseless == {"binstrcaseless", "binstrrcaseless"}

Init ==
  /\ name \in InString \cup InSet \cup NotInSet
  /\ s \in Texts /\ pos \in Positions
  /\ t \in IF name \in NotInSet THEN Excluded ELSE Finds
  /\ name \in {"bstrchrp", "bstrrchrp"} => Len(t) = 1
  /\ alias \in BOOLEAN
  /\ alias => \A k \in DOMAIN s \cap DOMAIN t : s[k] = t[k]
  /\ pc = "enter" /\ i = 0 /\ j = 0 /\ ii = -1 /\ ret = ERR

Returns(p) ==
  pc' = "done" /\ ret' = p /\ UNCHANGED <<args, i, j, ii>>

\* The loop at l begins, at position p.
Loops(l, p) ==
  pc' = l /\ i' = p /\ j' = 0 /\ ii' = -1 /\ UNCHANGED <<args, ret>>

-----------------------------------------------------------------------------
(* What calls find out before they search.                                 *)

\* binstr and binstrcaseless.
EnterForward ==
  LET inside == pos \in 0 .. Len(s)
      room   == pos <= Len(s) - Len(t)
  IN  /\ pc = "enter" /\ name \in InString \ Backward
      /\ \/ ~inside /\ Returns(ERR)
         \/ inside /\ t = <<>> /\ Returns(pos)
         \/ inside /\ t # <<>> /\ ~room /\ Returns(ERR)
         \/ inside /\ t # <<>> /\ room /\ alias /\ pos = 0 /\ Returns(0)
         \/ /\ inside /\ t # <<>> /\ room /\ ~(alias /\ pos = 0)
            /\ Loops(IF name # "binstr" THEN "brute"
                     ELSE IF Len(t) = 1 THEN "chars" ELSE "unrolled", pos)

\* binstrr and binstrrcaseless.
EnterBackward ==
  LET inside == pos \in 0 .. Len(s)
      room   == Len(t) <= Len(s)
  IN  /\ pc = "enter" /\ name \in InString \cap Backward
      /\ \/ ~inside /\ Returns(ERR)
         \/ inside /\ t = <<>> /\ Returns(pos)
         \/ inside /\ t # <<>> /\ ~room /\ Returns(ERR)
         \/ inside /\ t # <<>> /\ room /\ alias /\ pos = 0 /\ Returns(0)
         \/ /\ inside /\ t # <<>> /\ room /\ ~(alias /\ pos = 0)
            /\ Loops("brute", IF pos > Len(s) - Len(t) THEN Len(s) - Len(t) ELSE pos)

\* bstrchrp, bstrrchrp, and binchr to bninchrr, which refuse an empty set; of these
\* the ones that search backwards may start behind the last character.
EnterSet ==
  LET bound  == IF name \in {"binchrr", "bninchrr"} THEN Len(s) ELSE Len(s) - 1
      inside == pos \in 0 .. bound
  IN  /\ pc = "enter" /\ name \in InSet \cup NotInSet
      /\ \/ (~inside \/ t = <<>>) /\ Returns(ERR)
         \/ /\ inside /\ t # <<>>
            /\ Loops("chars", IF pos = Len(s) THEN pos - 1 ELSE pos)

-----------------------------------------------------------------------------
(* The loops.                                                              *)

Same(a, b) == a = b \/ (name \in Caseless /\ Lower[a] = Lower[b])

\* Whether c, a character of s, is what is sought.
Tested(c) == (\E k \in DOMAIN t : t[k] = c) <=> name \notin NotInSet

\* One position after the other.
Chars ==
  /\ pc = "chars"
  /\ \/ i \notin 0 .. Len(s) - 1 /\ Returns(ERR)
     \/ i \in 0 .. Len(s) - 1 /\ Tested(s[i + 1]) /\ Returns(i)
     \/ /\ i \in 0 .. Len(s) - 1 /\ ~Tested(s[i + 1])
        /\ i' = IF name \in Backward THEN i - 1 ELSE i + 1
        /\ UNCHANGED <<args, pc, j, ii, ret>>

\* One character of t after the other, at one position after the other.
Brute ==
  LET same == Same(t[j + 1], s[i + j + 1])
      next == IF name \in Backward THEN i - 1 ELSE i + 1
  IN  /\ pc = "brute"
      /\ \/ same /\ j + 1 >= Len(t) /\ Returns(i)
         \/ /\ same /\ j + 1 < Len(t)
            /\ j' = j + 1 /\ UNCHANGED <<args, pc, i, ii, ret>>
         \/ ~same /\ next \notin 0 .. Len(s) - Len(t) /\ Returns(ERR)
         \/ /\ ~same /\ next \in 0 .. Len(s) - Len(t)
            /\ i' = next /\ j' = 0 /\ UNCHANGED <<args, pc, ii, ret>>

\* Mutant: characters in between are not noticed.
JudgeBlind(m, k, n) == Returns(n)

\* Mutant: the search goes on where it was.
JudgeStuck(m, k, n) ==
  \/ m = n + k /\ Returns(n)
  \/ m # n + k /\ i' = n /\ j' = 0 /\ ii' = n /\ UNCHANGED <<args, pc, ret>>

\* The characters of t have been met one after the other, the first at n, before m:
\* unless there were others between them they are what is sought, otherwise the
\* search goes on behind the first as many characters back.
Judge(m, k, n) ==
  \/ m = n + k /\ Returns(n)
  \/ /\ m # n + k
     /\ i' = m - k /\ j' = 0 /\ ii' = n /\ UNCHANGED <<args, pc, ret>>

\* Mutant: the loop goes on to the last character, behind which it looks.
LastTurnLate == Len(s)

\* Where the loop ends, as every turn looks at two characters.
LastTurn == Len(s) - 1

\* A turn of binstr's loop: the next character of t is looked for at i and behind it;
\* what is met of t is kept when others come in between.
Unrolled ==
  LET here  == s[i + 1] = t[j + 1]
      there == s[i + 2] = t[j + 1]
      at    == IF here THEN i ELSE i + 1
      first == IF j = 0 THEN at ELSE ii
  IN  /\ pc = "unrolled" /\ i < LastTurn
      /\ \/ ~here /\ ~there /\ i' = i + 2 /\ UNCHANGED <<args, pc, j, ii, ret>>
         \/ /\ here \/ there
            /\ \/ /\ j + 1 < Len(t)
                  /\ i' = at + 1 /\ j' = j + 1 /\ ii' = first /\ UNCHANGED <<args, pc, ret>>
               \/ j + 1 = Len(t) /\ Judge(at + 1, j + 1, first)

\* The last character, if the loop has not come to it; j is one short here, as i is.
UnrolledLast ==
  LET met == i = LastTurn /\ Len(t) = j + 1 /\ s[i + 1] = t[j + 1]
  IN  /\ pc = "unrolled" /\ i >= LastTurn
      /\ \/ met /\ Judge(i, j, ii)
         \/ ~met /\ Returns(ERR)

-----------------------------------------------------------------------------

Next == EnterForward \/ EnterBackward \/ EnterSet \/ Chars \/ Brute \/ Unrolled \/ UnrolledLast

\* A call that has begun goes on.
Spec == Init /\ [][Next]_vars /\ WF_vars(Next)

-----------------------------------------------------------------------------
(* What is expected of it.                                                 *)

Loop == {"chars", "brute", "unrolled"}

\* Whether t is in s at p, as the search compares characters.
Occurs(p) ==
  /\ p \in 0 .. Len(s) - Len(t)
  /\ \A k \in DOMAIN t : Same(t[k], s[p + k])

\* Whether there is at p what is sought: none of no characters is at every position.
Hit(p) ==
  IF name \in InString THEN Occurs(p)
  ELSE p \in 0 .. Len(s) - 1 /\ Tested(s[p + 1])

Sought(p) == Hit(p) /\ IF name \in Backward THEN p <= pos ELSE p >= pos

Valid == pos \in 0 .. Len(s) /\ (name = "bstrrchrp" => pos < Len(s))

\* A search returns the position nearest to where it starts, in its direction, at
\* which there is what it seeks, and fails only if there is none or pos is outside the
\* string.  The comments at bstrlib.c:1446 and 1461 promise it of the empty set as well,
\* for which bninchr and bninchrr fail: so Excluded is given without it.
SearchExact ==
  pc = "done" =>
    \/ ret = ERR /\ (Valid => \A p \in 0 .. Len(s) : ~Sought(p))
    \/ /\ Valid /\ Sought(ret)
       /\ \A p \in 0 .. Len(s) :
            Sought(p) => IF name \in Backward THEN p <= ret ELSE ret <= p

\* No turn looks behind the end of either string.
ReadsInside ==
  /\ pc \in {"brute", "unrolled"} => j \in 0 .. Len(t) - 1
  /\ pc = "brute" => i \in 0 .. Len(s) - Len(t)
  /\ pc = "unrolled" => i >= 0 /\ (i < LastTurn => i + 2 <= Len(s))

\* Every search ends.
SearchEnds == <>(pc = "done")

=============================================================================
