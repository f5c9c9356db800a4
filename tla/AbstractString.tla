--------------------------- MODULE AbstractString ---------------------------
(***************************************************************************)
(* What the string library promises its client: each call makes a text of  *)
(* the text there was and of its arguments, or fails and leaves it alone.  *)
(* No blocks and no terminators.  A call names itself and its arguments in *)
(* ret, so that what it had to do can be read off.                         *)
(***************************************************************************)
EXTENDS Integers, Sequences

CONSTANTS
  NULL,
  Spaces,       \* the characters that are spaces
  Lower, Upper, \* the functions tolower and toupper
  Code          \* the value of a character as a (char)

VARIABLES
  text, \* the characters of the string, NULL while there is none
  ret   \* the last call and its arguments, how it ended, and what copy it made

vars == <<text, ret>>

Init == text = NULL /\ ret = <<<<"none">>, "OK">>

Larger(m, n) == IF m > n THEN m ELSE n

First(s, n) == SubSeq(s, 1, n)
From(s, n) == SubSeq(s, n + 1, Len(s))

\* s, made n characters long at least by adding fill.
Padded(s, n, fill) == s \o [i \in 1 .. n - Len(s) |-> fill]

\* The characters of s at the positions from .. to that there are; the first one is 0.
Piece(s, from, to) == SubSeq(s, Larger(from, 0) + 1, IF to < Len(s) THEN to + 1 ELSE Len(s))

Cased(s, case) == [i \in DOMAIN s |-> case[s[i]]]

\* s with t for every occurrence of find, from the left; case says which characters
\* are the same.
Replaced(s, find, t, case) ==
  LET found == Cased(find, case)
      from[p \in 0 .. Len(s)] ==
        IF p = Len(s) THEN <<>>
        ELSE IF /\ p + Len(find) <= Len(s)
                /\ Cased(SubSeq(s, p + 1, p + Len(find)), case) = found
             THEN t \o from[p + Len(find)]
             ELSE <<s[p + 1]>> \o from[p + 1]
  IN  from[0]

\* The first and the last position that is no space; a string of spaces has none.
Solid(s) ==
  LET solid == {i \in 0 .. Len(s) - 1 : s[i + 1] \notin Spaces}
  IN  IF solid = {} THEN [from |-> Len(s), to |-> -1]
      ELSE [from |-> CHOOSE i \in solid : \A j \in solid : i <= j,
            to   |-> CHOOSE i \in solid : \A j \in solid : i >= j]

\* One call that changes the text, as it names itself in c.
Result(s, c) ==
  LET name == c[1]
  IN  CASE name \in {"alloc", "allocmin"}        -> s
        [] name \in {"concat", "catcstr"}        -> s \o c[2]
        [] name \in {"assign", "assigncstr"}     -> c[2]
        [] name = "trunc"                        -> First(s, IF c[2] < Len(s) THEN c[2] ELSE Len(s))
        [] name = "delete"                       ->
             Piece(s, 0, c[2] - 1) \o Piece(s, c[2] + c[3], Len(s))
        [] name = "insert"                       ->
             LET p == Padded(s, c[2], c[4]) IN First(p, c[2]) \o c[3] \o From(p, c[2])
        [] name = "setstr"                       ->
             LET p == Padded(s, c[2], c[4])
             IN  First(p, c[2]) \o c[3] \o From(p, c[2] + Len(c[3]))
        [] name = "replace"                      ->
             LET p == Padded(s, c[2], c[5])
             IN  First(p, c[2]) \o c[4] \o From(p, c[2] + c[3])
        [] name = "pattern"                      ->
             [i \in 1 .. c[2] |-> s[((i - 1) % Len(s)) + 1]]
        [] name \in {"findreplace", "findreplacecaseless"} ->
             LET same == IF name = "findreplace" THEN [x \in DOMAIN Lower |-> x] ELSE Lower
             IN  IF c[2] > Len(s) THEN s
                 ELSE First(s, c[2]) \o Replaced(From(s, c[2]), c[3], c[4], same)
        [] name = "ltrimws"                      -> Piece(s, Solid(s).from, Len(s))
        [] name = "rtrimws"                      -> Piece(s, 0, Solid(s).to)
        [] name = "trimws"                       -> Piece(s, Solid(s).from, Solid(s).to)
        [] name = "toupper"                      -> Cased(s, Upper)
        [] name = "tolower"                      -> Cased(s, Lower)

Does(names, end) == ret'[1][1] \in names /\ ret'[2] = end

Making == {"fromcstr", "fromcstrrangealloc"}
Changing == {"alloc", "allocmin", "concat", "catcstr", "assign", "assigncstr", "trunc",
             "delete", "insert", "setstr", "replace", "pattern", "findreplace",
             "findreplacecaseless", "ltrimws", "rtrimws", "trimws", "toupper", "tolower"}

Make == text = NULL /\ Does(Making, "OK") /\ text' = ret'[1][2]

Destroy == text # NULL /\ text' = NULL /\ Does({"destroy"}, "OK")

Change ==
  /\ text # NULL /\ Does(Changing, "OK")
  /\ ret'[1][1] = "pattern" => text # <<>>
  /\ text' = Result(text, ret'[1])

Copy ==
  /\ text # NULL /\ text' = text
  /\ \/ Does({"strcpy", "str2cstr"}, "OK") /\ ret'[3] = text
     \/ Does({"midstr"}, "OK")
        /\ ret'[3] = Piece(text, ret'[1][2], ret'[1][2] + ret'[1][3] - 1)

\* s comes before t in the order of the characters' values; the end of a string has
\* the value end.
Smaller(s, t, value, end) ==
  LET At(u, k) == IF k <= Len(u) THEN value[u[k]] ELSE end
  IN  \E k \in 1 .. Larger(Len(s), Len(t)) :
        /\ \A l \in 1 .. k - 1 : At(s, l) = At(t, l)
        /\ At(s, k) < At(t, k)

Least(s, n) == First(s, IF n < Len(s) THEN n ELSE Len(s))

\* The sign of a result says which string comes first: bstrncmp's by the first n
\* characters, a beginning of a string before the string; bstricmp's without regard to
\* case, the end of a string as if there was a NUL.  That of bstrnicmp says nothing.
Compare ==
  /\ text # NULL /\ text' = text
  /\ LET t == ret'[1][2]
         v == ret'[3]
         Small  == [c \in DOMAIN Code |-> Code[Lower[c]]]
         Agrees(x, y, value, end) ==
           (v < 0 <=> Smaller(x, y, value, end)) /\ (v > 0 <=> Smaller(y, x, value, end))
     IN  \/ Does({"strncmp"}, "OK")
            /\ Agrees(Least(text, ret'[1][3]), Least(t, ret'[1][3]), Code, -129)
         \/ Does({"stricmp"}, "OK") /\ Agrees(text, t, Small, 0)
         \/ Does({"strnicmp"}, "OK")
            /\ (v = 0) = (Cased(Least(text, ret'[1][3]), Lower)
                           = Cased(Least(t, ret'[1][3]), Lower))
         \/ Does({"iseq", "iseqcstr"}, "OK") /\ v = (text = t)
         \/ Does({"iseqcaseless", "iseqcstrcaseless"}, "OK")
            /\ v = (Cased(text, Lower) = Cased(t, Lower))
         \/ Does({"isstemeq"}, "OK") /\ v = (Least(text, Len(t)) = t)
         \/ Does({"isstemeqcaseless"}, "OK")
            /\ v = (Cased(Least(text, Len(t)), Lower) = Cased(t, Lower))

\* The calls that read a char * may have stored some of it before they fail.
Fail ==
  /\ ret'[2] = "ERR"
  /\ \/ text' = text
     \/ Does({"catcstr"}, "ERR")    /\ \E n \in 0 .. Len(ret'[1][2]) :
                                        text' = text \o First(ret'[1][2], n)
     \/ Does({"assigncstr"}, "ERR") /\ \E n \in 0 .. Len(ret'[1][2]) :
                                        text' = First(ret'[1][2], n)

Next == Make \/ Destroy \/ Change \/ Copy \/ Compare \/ Fail

Spec == Init /\ [][Next]_vars

=============================================================================
