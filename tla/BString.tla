------------------------------ MODULE BString ------------------------------
(***************************************************************************)
(* The string of src/bstrlib.c: a block of mlen bytes that holds slen      *)
(* characters and a terminator, and the calls that build, grow and edit    *)
(* one string.  An argument may be a string of its own or a piece of the   *)
(* very string that is changed.  A call runs to completion; what the bytes *)
(* behind the terminator hold is left open, so every call ends by          *)
(* forgetting them.                                                        *)
(*                                                                         *)
(* The strings a client passes are valid, and shorter than INT_MAX by far. *)
(***************************************************************************)
EXTENDS BlockSize, Sequences, FiniteSets

CONSTANTS
  Char,    \* the characters of strings
  Spaces,  \* those isspace takes for spaces
  Lower, Upper, \* the functions tolower and toupper
  Code,    \* the value a character has as a (char), which may be negative
  NUL,     \* the terminator
  JUNK,    \* what a byte nobody has written holds
  NULL,    \* the null pointer
  Texts,   \* the contents of the strings and blocks clients pass
  Fills,   \* the characters they have gaps filled with
  Before,  \* whether bfindreplace is told to replace by a piece of the string that
           \* lies before the place it starts at
  MaxLen,  \* bound on the length of the string, and on positions and lengths
  Heaps    \* the kinds of heap to consider: sets of the requests one may refuse:
           \* "snap", one for more than is needed; "tight", one for just that

ASSUME ConstantsAssumption ==
  /\ Spaces \subseteq Char /\ Lower \in [Char -> Char] /\ Upper \in [Char -> Char]
  /\ Code \in [Char -> -128 .. 127 \ {0}]
  /\ NUL \notin Char /\ JUNK \notin Char \cup {NUL}
  /\ MaxLen \in Nat
  /\ Texts \subseteq Seq(Char) /\ Fills \subseteq Char
  /\ Before \subseteq BOOLEAN
  /\ Heaps \subseteq {{}, {"snap"}, {"snap", "tight"}}

VARIABLES
  failing, \* the kind of heap there is
  str,     \* whether the client holds a string
  data,    \* its block, a function on 0 .. n - 1
  mlen, slen,
  wild,    \* whether the last call wrote outside the block
  ret      \* the last call and its arguments, how it ended, and what copy it made

string == <<str, data, mlen, slen>>
vars == <<failing, string, wild, ret>>

Init ==
  /\ failing \in Heaps
  /\ str = FALSE /\ data = [i \in {} |-> JUNK] /\ mlen = 0 /\ slen = 0
  /\ wild = FALSE /\ ret = <<<<"none">>, "OK">>

-----------------------------------------------------------------------------
(* Texts and blocks.                                                       *)

Text == [i \in 1 .. slen |-> data[i - 1]]

Run(c, n) == [i \in 1 .. n |-> c]

\* The part of t from left on, len characters, clamped to t.
Mid(t, left, len) ==
  LET from == Max({left, 0})
      n    == Min({len + Min({left, 0}), Len(t) - from})
  IN  SubSeq(t, from + 1, from + n)

Size(d) == Cardinality(DOMAIN d)

\* memmove or memset: s is written to the bytes of d from position at on.
Lay(d, at, s) ==
  [i \in DOMAIN d |-> IF i - at \in 0 .. Len(s) - 1 THEN s[i - at + 1] ELSE d[i]]

\* The pieces of the string itself; a client takes none of a string that a failed
\* call left without terminator.
Pieces ==
  {[own |-> TRUE, text |-> Mid(Text, at, len)] :
     at \in 0 .. slen, len \in IF slen < mlen THEN 0 .. slen ELSE {}}

\* An argument: a string of the client's, or a piece of the string that is changed.
Args == [own : {FALSE}, text : Texts] \cup Pieces

\* What is read through the argument once the string is in the block d, unless
\* the argument was copied first: a pointer into the old block dangles.
Through(a, d, copied) ==
  IF a.own /\ ~copied /\ Size(d) # mlen THEN Run(JUNK, Len(a.text)) ELSE a.text

-----------------------------------------------------------------------------
(* The allocator.                                                          *)

\* The block moved to one of n bytes, of which the first ones are kept.
Moved(n, kept) ==
  [i \in 0 .. n - 1 |-> IF i = slen THEN NUL ELSE IF i < kept THEN data[i] ELSE JUNK]

\* Mutant: the comparison lets a request for the whole block pass.
BlocksLate(olen) ==
  IF olen <= mlen THEN {data}
  ELSE LET kept == IF 7 * mlen < 8 * slen THEN mlen ELSE slen
       IN  {Moved(snapUpSize(olen), kept)} \cup
           IF "snap" \in failing THEN {Moved(snapUpSize(olen), mlen), Moved(olen, mlen)}
           ELSE {}

\* The blocks a string may be in once balloc has succeeded.  Unless the string
\* nearly fills its block, only the string is copied to a new one; if that is
\* refused realloc is asked for as much, and then for what is needed.
Blocks(olen) ==
  IF olen < mlen THEN {data}
  ELSE LET kept == IF 7 * mlen < 8 * slen THEN mlen ELSE slen
       IN  {Moved(snapUpSize(olen), kept)} \cup
           IF "snap" \in failing THEN {Moved(snapUpSize(olen), mlen), Moved(olen, mlen)}
           ELSE {}

Refused(olen) == olen >= mlen /\ "tight" \in failing

-----------------------------------------------------------------------------
(* How calls end.                                                          *)

\* The string is the first n characters of the block d; top is the highest
\* byte that was written to.
Stores(d, top, n, call) ==
  /\ n <= MaxLen
  /\ data' = [i \in DOMAIN d |-> IF i < n THEN d[i] ELSE IF i = n THEN NUL ELSE JUNK]
  /\ mlen' = Size(d) /\ slen' = n
  /\ wild' = (top >= Size(d))
  /\ ret' = <<call, "OK">>
  /\ UNCHANGED <<failing, str>>

\* The terminator is the last byte written.
Becomes(d, n, call) == Stores(d, n, n, call)

\* A new string is handed out, which the client reads and destroys.
Copies(call, t) ==
  /\ ret' = <<call, "OK", t>> /\ wild' = FALSE
  /\ UNCHANGED <<failing, string>>

Returns(call, result) ==
  /\ ret' = <<call, result>> /\ wild' = FALSE
  /\ UNCHANGED <<failing, string>>

\* The block was filled to the brim before the rest could not be stored.
Brimmed(s, call) ==
  /\ data' = Lay(data, mlen - Len(s), s) /\ slen' = mlen
  /\ ret' = <<call, "ERR">> /\ wild' = FALSE
  /\ UNCHANGED <<failing, str, mlen>>

-----------------------------------------------------------------------------
(* Making and destroying strings.                                          *)

Create(t, n, call) ==
  /\ ~str
  /\ str' = TRUE
  /\ data' = [i \in 0 .. n - 1 |->
                IF i < Len(t) THEN t[i + 1] ELSE IF i = Len(t) THEN NUL ELSE JUNK]
  /\ mlen' = n /\ slen' = Len(t)
  /\ wild' = (Len(t) >= n)
  /\ ret' = <<call, "OK">>
  /\ UNCHANGED failing

\* bfromcstr, and blk2bstr for a block with the same bytes.
bfromcstr(t) ==
  LET n == snapUpSize(Len(t) + IF t = <<>> THEN 2 ELSE 1)
  IN  \/ Create(t, n, <<"fromcstr", t>>)
      \/ ~str /\ "snap" \in failing /\ Returns(<<"fromcstr", t>>, "ERR")

\* The sizes asked for one after the other, each halfway from the one before to
\* the least; from an odd least size the last is one below it.
Tried(minl, maxl) ==
  LET f[k \in 0 .. maxl] == IF k = 0 THEN maxl
                            ELSE IF f[k - 1] < minl THEN f[k - 1]
                            ELSE f[k - 1] \div 2 + minl \div 2
  IN  {f[k] : k \in 0 .. maxl}

bfromcstrrangealloc(minl, maxl, t) ==
  LET least == Max({minl, Len(t) + 1})
      most  == Max({maxl, least})
      call  == <<"fromcstrrangealloc", t>>
  IN  \/ Create(t, most, call)
      \/ /\ "snap" \in failing
         /\ \E n \in Tried(least, most) :
              (n >= least \/ "tight" \in failing) /\ Create(t, n, call)
      \/ ~str /\ "tight" \in failing /\ Returns(call, "ERR")

bdestroy ==
  /\ str
  /\ str' = FALSE /\ data' = [i \in {} |-> JUNK] /\ mlen' = 0 /\ slen' = 0
  /\ wild' = FALSE /\ ret' = <<<<"destroy">>, "OK">>
  /\ UNCHANGED failing

balloc(olen) ==
  /\ str
  /\ \/ olen < mlen /\ Returns(<<"alloc">>, "OK")
     \/ olen >= mlen /\ \E d \in Blocks(olen) : Becomes(d, slen, <<"alloc">>)
     \/ Refused(olen) /\ Returns(<<"alloc">>, "ERR")

\* The block shrinks or grows to len bytes, or to what the string needs.
ballocmin(len) ==
  LET n == Max({len, slen + 1})
  IN  /\ str
      /\ \/ n = mlen /\ Returns(<<"allocmin">>, "OK")
         \/ n # mlen /\ Becomes(Moved(n, mlen), slen, <<"allocmin">>)
         \/ n # mlen /\ "tight" \in failing /\ Returns(<<"allocmin">>, "ERR")

bstrcpy ==
  /\ str
  /\ \/ Copies(<<"strcpy">>, Text)
     \/ "tight" \in failing /\ Returns(<<"strcpy">>, "ERR")

\* A copy for the rest of C.  A NUL in it would become another character: no string
\* here holds one.
bstr2cstr ==
  /\ str
  /\ \/ Copies(<<"str2cstr">>, Text)
     \/ "tight" \in failing /\ Returns(<<"str2cstr">>, "ERR")

bmidstr(left, len) ==
  /\ str
  /\ \/ Copies(<<"midstr", left, len>>, Mid(Text, left, len))
     \/ "snap" \in failing /\ Returns(<<"midstr", left, len>>, "ERR")

-----------------------------------------------------------------------------
(* Appending.                                                              *)

\* A piece of the string itself is copied if the block is going to move.
bconcat(a) ==
  LET n    == slen + Len(a.text)
      call == <<"concat", a.text>>
  IN  /\ str
      /\ \/ \E d \in Blocks(n + 1) :
              Becomes(Lay(d, slen, Through(a, d, mlen <= n + 1)), n, call)
         \/ Refused(n + 1) /\ Returns(call, "ERR")

bconchar(c) ==
  LET call == <<"concat", <<c>>>>
  IN  /\ str
      /\ \/ \E d \in Blocks(slen + 2) : Becomes(Lay(d, slen, <<c>>), slen + 1, call)
         \/ Refused(slen + 2) /\ Returns(call, "ERR")

bcatblk(t) ==
  LET n    == slen + Len(t)
      call == <<"concat", t>>
  IN  /\ str
      /\ \/ \E d \in IF mlen <= n THEN Blocks(n + 1) ELSE {data} :
              Becomes(Lay(d, slen, t), n, call)
         \/ mlen <= n /\ Refused(n + 1) /\ Returns(call, "ERR")

\* The characters are stored as they are read; what does not fit goes to bcatblk.
bcatcstr(t) ==
  LET n    == slen + Len(t)
      call == <<"catcstr", t>>
  IN  /\ str
      /\ \/ n < mlen /\ Becomes(Lay(data, slen, t), n, call)
         \/ n >= mlen /\ \E d \in Blocks(n + 1) : Becomes(Lay(d, slen, t), n, call)
         \/ /\ n >= mlen /\ Refused(n + 1)
            /\ Brimmed(SubSeq(t, 1, mlen - slen), call)

-----------------------------------------------------------------------------
(* Assigning.                                                              *)

\* The block is grown for the characters, without the terminator.
Assign(a, t, call) ==
  IF t = <<>> THEN Becomes(data, 0, call)
  ELSE \/ \E d \in Blocks(Len(t)) :
            Becomes(Lay(d, 0, Through([a EXCEPT !.text = t], d, FALSE)), Len(t), call)
       \/ Refused(Len(t)) /\ Returns(call, "ERR")

bassign(a) == str /\ Assign(a, a.text, <<"assign", a.text>>)

bassignmidstr(a, left, len) ==
  LET t == Mid(a.text, left, len) IN str /\ Assign(a, t, <<"assign", t>>)

bassignblk(t) ==
  LET call == <<"assign", t>>
  IN  /\ str
      /\ \/ \E d \in IF Len(t) + 1 > mlen THEN Blocks(Len(t) + 1) ELSE {data} :
              Becomes(Lay(d, 0, t), Len(t), call)
         \/ Len(t) + 1 > mlen /\ Refused(Len(t) + 1) /\ Returns(call, "ERR")

bassigncstr(t) ==
  LET call == <<"assigncstr", t>>
  IN  /\ str
      /\ \/ Len(t) < mlen /\ Becomes(Lay(data, 0, t), Len(t), call)
         \/ /\ Len(t) >= mlen
            /\ \E d \in Blocks(Len(t) + 1) : Becomes(Lay(d, 0, t), Len(t), call)
         \/ /\ Len(t) >= mlen /\ Refused(Len(t) + 1)
            /\ Brimmed(SubSeq(t, 1, mlen), call)

-----------------------------------------------------------------------------
(* Editing.                                                                *)

btrunc(n) ==
  /\ str
  /\ \/ slen > n /\ Becomes(data, n, <<"trunc", n>>)
     \/ slen <= n /\ Returns(<<"trunc", n>>, "OK")

\* Mutant: it begins one character late.
BehindLate(pos, len) == SubSeq(Text, pos + len + 2, slen)

\* What follows the len characters at pos.
Behind(pos, len) == SubSeq(Text, pos + len + 1, slen)

bdelete(left, length) ==
  LET pos  == Max({left, 0})
      len  == length + Min({left, 0})
      call == <<"delete", left, length>>
  IN  /\ str
      /\ \/ len < 0 /\ Returns(call, "ERR")
         \/ (len = 0 \/ (len > 0 /\ pos >= slen)) /\ Returns(call, "OK")
         \/ /\ len > 0 /\ pos < slen
            /\ Becomes(Lay(data, pos, Behind(pos, len)), pos + Len(Behind(pos, len)), call)

\* Whatever is removed in front is deleted, at the end cut off.
bltrimws ==
  LET solid == {i \in 0 .. slen - 1 : data[i] \notin Spaces}
  IN  /\ str
      /\ \/ solid # {} /\ Min(solid) > 0
            /\ Becomes(Lay(data, 0, Behind(0, Min(solid))), slen - Min(solid), <<"ltrimws">>)
         \/ solid # {} /\ Min(solid) = 0 /\ Returns(<<"ltrimws">>, "OK")
         \/ solid = {} /\ Becomes(data, 0, <<"ltrimws">>)

brtrimws ==
  LET solid == {i \in 0 .. slen - 1 : data[i] \notin Spaces}
  IN  str /\ Becomes(data, Max({i + 1 : i \in solid} \cup {0}), <<"rtrimws">>)

btrimws ==
  LET solid == {i \in 0 .. slen - 1 : data[i] \notin Spaces}
      kept  == SubSeq(Text, Min(solid) + 1, Max(solid) + 1)
  IN  /\ str
      /\ \/ solid # {} /\ Becomes(Lay(data, 0, kept), Len(kept), <<"trimws">>)
         \/ solid = {} /\ Becomes(data, 0, <<"trimws">>)

\* btoupper and btolower.
Recased(case, name) ==
  str /\ Becomes(Lay(data, 0, [i \in 1 .. slen |-> case[Text[i]]]), slen, <<name>>)
btoupper == Recased(Upper, "toupper")
btolower == Recased(Lower, "tolower")

\* The string with t at pos, after fill in what gap there is; d is its block.
Overlaid(d, pos, t, fill) == Lay(Lay(d, slen, Run(fill, pos - slen)), pos, t)

bsetstr(pos, a, fill) ==
  LET end  == pos + Len(a.text)
      call == <<"setstr", pos, a.text, fill>>
  IN  /\ str
      /\ \/ \E d \in Blocks(end + 1) :
              Becomes(Overlaid(d, pos, Through(a, d, TRUE), fill), Max({slen, end}), call)
         \/ /\ \/ Refused(end + 1)
               \/ a.own /\ "tight" \in failing
            /\ Returns(call, "ERR")

\* The string with t put between the characters before pos and those behind.
Spread(d, pos, t) == Lay(Lay(d, pos + Len(t), Behind(pos, 0)), pos, t)

binsert(pos, a, fill) ==
  LET n    == Max({slen, pos}) + Len(a.text)
      call == <<"insert", pos, a.text, fill>>
  IN  /\ str
      /\ \/ \E d \in Blocks(n + 1) :
              LET t == Through(a, d, TRUE)
              IN  Becomes(IF pos > slen THEN Overlaid(d, pos, t, fill) ELSE Spread(d, pos, t),
                          n, call)
         \/ /\ \/ Refused(n + 1)
               \/ a.own /\ "tight" \in failing
            /\ Returns(call, "ERR")

binsertch(pos, len, fill) ==
  LET n    == Max({slen, pos}) + len
      t    == Run(fill, len)
      call == <<"insert", pos, t, fill>>
  IN  /\ str
      /\ \/ \E d \in Blocks(n + 1) :
              Becomes(IF pos > slen THEN Overlaid(d, pos, t, fill) ELSE Spread(d, pos, t),
                      n, call)
         \/ Refused(n + 1) /\ Returns(call, "ERR")

\* A section that reaches the end is set and the rest cut off; one inside is
\* exchanged, in a block grown for the characters without the terminator.
breplace(pos, len, a, fill) ==
  LET inside == pos + len < slen
      end    == pos + Len(a.text)
      n      == IF inside THEN end + slen - (pos + len) ELSE end
      need   == IF ~inside THEN end + 1 ELSE IF Len(a.text) > len THEN n ELSE 0
      call   == <<"replace", pos, len, a.text, fill>>
  IN  /\ str
      /\ \/ \E d \in Blocks(need) :
              LET t == Through(a, d, TRUE)
              IN  IF inside
                  THEN Becomes(Lay(Lay(d, end, Behind(pos, len)), pos, t), n, call)
                  ELSE Stores(Overlaid(d, pos, t, fill), Max({slen, end}), n, call)
         \/ /\ \/ Refused(need)
               \/ a.own /\ "tight" \in failing
            /\ Returns(call, "ERR")

\* The string repeated up to length len.
bpattern(len) ==
  LET call == <<"pattern", len>>
  IN  /\ str
      /\ \/ /\ slen > 0
            /\ \E d \in Blocks(len + 1) :
                 Becomes(Lay(d, 0, [i \in 1 .. len |-> Text[((i - 1) % slen) + 1]]), len, call)
         \/ /\ (slen = 0 \/ Refused(len + 1))
            /\ Returns(call, "ERR")

-----------------------------------------------------------------------------
(* Replacing.                                                              *)

\* Whether t occurs at position i.
Occurs(t, i) == i + Len(t) <= slen /\ SubSeq(Text, i + 1, i + Len(t)) = t

\* The same without regard to case.
OccursCaseless(t, i) ==
  /\ i + Len(t) <= slen
  /\ \A k \in 1 .. Len(t) : Lower[Text[i + k]] = Lower[t[k]]

\* binstr or binstrcaseless, again and again, each time from where the last match
\* ended.
Matches(find, pos, caseless) ==
  LET from[p \in 0 .. slen] ==
        LET found == {i \in p .. slen : IF caseless THEN OccursCaseless(find, i)
                                        ELSE Occurs(find, i)}
        IN  IF found = {} THEN <<>> ELSE <<Min(found)>> \o from[Min(found) + Len(find)]
  IN  from[pos]

\* Match k makes way for t: what follows it, up to the next one, is moved by the
\* growth so far, and t is put before that.
ExchangedOne(b, k, at, find, t) ==
  LET start == at[k] + Len(find)
      end   == IF k = Len(at) THEN slen ELSE at[k + 1]
      to    == start + k * (Len(t) - Len(find))
      moved == [j \in 1 .. end - start |-> b[start + j - 1]]
  IN  Lay(Lay(b, to, moved), to - Len(t), t)

\* All of them: a string that grows is worked on from its end, so that nothing is
\* overwritten before it is moved.
Exchanged(d, at, find, t) ==
  LET block[n \in 0 .. Len(at)] ==
        IF n = 0 THEN d
        ELSE ExchangedOne(block[n - 1], IF Len(t) > Len(find) THEN Len(at) + 1 - n ELSE n,
                          at, find, t)
  IN  block[Len(at)]

\* find may be a piece of the string too: it is copied or lies where nothing is
\* changed.  The piece a is copied unless it lies before pos.
findreplaceengine(find, a, pos, before, caseless) ==
  LET at     == Matches(find, pos, caseless)
      growth == Len(a.text) - Len(find)
      n      == slen + Len(at) * growth
      call   == <<IF caseless THEN "findreplacecaseless" ELSE "findreplace", pos, find, a.text>>
  IN  /\ str
      /\ before => a.own /\ \E i \in 0 .. pos - Len(a.text) : Occurs(a.text, i)
      /\ \/ find = <<>> /\ Returns(call, "ERR")
         \/ find # <<>> /\ pos > slen - Len(find) /\ Returns(call, "OK")
         \/ /\ find # <<>> /\ pos <= slen - Len(find)
            /\ \/ /\ n <= MaxLen
                  /\ \E d \in IF growth > 0 THEN Blocks(n + 1) ELSE {data} :
                       Becomes(Exchanged(d, at, find, Through(a, d, ~before)), n, call)
               \/ /\ \/ growth > 0 /\ Refused(n + 1)
                     \/ a.own /\ ~before /\ "tight" \in failing
                  /\ Returns(call, "ERR")

bfindreplace(find, a, pos, before) == findreplaceengine(find, a, pos, before, FALSE)
bfindreplacecaseless(find, a, pos, before) == findreplaceengine(find, a, pos, before, TRUE)

-----------------------------------------------------------------------------
(* Comparing.  A string is not compared with itself: two that start at the *)
(* same place are the same as far as both go.                              *)

\* An argument that may start where the string does.
AtStart(a) == a.own /\ a.text = SubSeq(Text, 1, Len(a.text))

\* The values of the first two characters that differ in them, among the first m.
Differing(t, m, value) ==
  LET differ == {k \in 1 .. m : value[Text[k]] # value[t[k]]}
  IN  IF differ = {} THEN <<>> ELSE <<Text[Min(differ)], t[Min(differ)]>>

Byte(c) == Code[c] % 256
Small   == [c \in Char |-> Code[Lower[c]]]

\* Which of two strings is the longer one, when all before is the same.
Longer(t) == IF slen > Len(t) THEN 1 ELSE IF slen < Len(t) THEN -1 ELSE 0

\* The same by the value of the first character that only one of them has.
Excess(t, m) ==
  IF slen > m THEN Small[Text[m + 1]] ELSE IF Len(t) > m THEN -Small[t[m + 1]] ELSE 0

\* bstrcmp is bstrncmp of as many characters as the longer string has.
bstrncmp(a, n) ==
  LET m    == Min({n, slen, Len(a.text)})
      diff == Differing(a.text, m, Code)
  IN  /\ str
      /\ \E same \in BOOLEAN :
           /\ same => AtStart(a)
           /\ Copies(<<"strncmp", a.text, n>>,
                IF ~same /\ diff # <<>> THEN Code[diff[1]] - Code[diff[2]]
                ELSE IF n = m THEN 0 ELSE Longer(a.text))

bstricmp(a) ==
  LET m    == Min({slen, Len(a.text)})
      diff == Differing(a.text, m, Small)
  IN  /\ str
      /\ Copies(<<"stricmp", a.text>>,
                IF diff # <<>> THEN Small[diff[1]] - Small[diff[2]]
                ELSE Excess(a.text, m))

\* The characters are found to differ in lower case; their difference is that of the
\* bytes as they are.
bstrnicmp(a, n) ==
  LET m    == Min({n, slen, Len(a.text)})
      diff == Differing(a.text, m, Small)
  IN  /\ str
      /\ \E same \in BOOLEAN :
           /\ same => AtStart(a)
           /\ Copies(<<"strnicmp", a.text, n>>,
                IF ~same /\ diff # <<>> THEN Byte(diff[1]) - Byte(diff[2])
                ELSE IF n = m \/ slen = Len(a.text) THEN 0 ELSE Excess(a.text, m))

\* biseq and biseqblk, and bisstemeqblk, which asks for the beginning of the string;
\* each with or without regard to case.
Equals(name, a, long, value) ==
  /\ str
  /\ \E same \in BOOLEAN :
       /\ same => AtStart(a)
       /\ Copies(<<name, a.text>>,
                 long /\ (same \/ Differing(a.text, Len(a.text), value) = <<>>))

biseq(a)         == Equals("iseq", a, slen = Len(a.text), Code)
biseqcaseless(a) == Equals("iseqcaseless", a, slen = Len(a.text), Small)
bisstemeq(a)     == Equals("isstemeq", a, slen >= Len(a.text), Code)
bisstemeqcaseless(a) == Equals("isstemeqcaseless", a, slen >= Len(a.text), Small)

\* A char * that ends with the string, and not before.
Cstr(t) == [own |-> FALSE, text |-> t]
biseqcstr(t) == Equals("iseqcstr", Cstr(t), slen = Len(t), Code)
biseqcstrcaseless(t) == Equals("iseqcstrcaseless", Cstr(t), slen = Len(t), Small)

-----------------------------------------------------------------------------

Lengths == 0 .. MaxLen

Next ==
  \/ bdestroy \/ bstrcpy \/ bstr2cstr \/ bltrimws \/ brtrimws \/ btrimws \/ btoupper \/ btolower
  \/ \E c \in Char : bconchar(c)
  \/ \E t \in Texts : \/ bfromcstr(t) \/ bcatblk(t) \/ bcatcstr(t)
                      \/ bassignblk(t) \/ bassigncstr(t)
                      \/ biseqcstr(t) \/ biseqcstrcaseless(t)
                      \/ \E m, n \in Lengths : m <= n /\ bfromcstrrangealloc(m, n, t)
  \/ \E n \in Lengths : btrunc(n) \/ bpattern(n) \/ balloc(n + 1) \/ ballocmin(n + 1)
  \/ \E pos \in -1 .. MaxLen, len \in Lengths : bdelete(pos, len) \/ bmidstr(pos, len)
  \/ \E a \in Args : \/ bconcat(a) \/ bassign(a)
                     \/ bstricmp(a) \/ biseq(a) \/ biseqcaseless(a)
                     \/ bisstemeq(a) \/ bisstemeqcaseless(a)
                     \/ \E n \in Lengths : bstrncmp(a, n) \/ bstrnicmp(a, n)
                     \/ \E pos \in -1 .. 1, len \in Lengths : bassignmidstr(a, pos, len)
  \/ \E a \in Args, pos \in Lengths, fill \in Fills :
       \/ bsetstr(pos, a, fill) \/ binsert(pos, a, fill)
       \/ \E find \in Texts, before \in Before :
            bfindreplace(find, a, pos, before) \/ bfindreplacecaseless(find, a, pos, before)
       \/ \E len \in Lengths : pos + len <= MaxLen /\ breplace(pos, len, a, fill)
  \/ \E pos, len \in Lengths, fill \in Fills : binsertch(pos, len, fill)

Spec == Init /\ [][Next]_vars

-----------------------------------------------------------------------------
(* What is expected of it.                                                 *)

\* Type invariant: the block is as large as the string believes it to be, the
\* string fits in it, and holds no byte that nobody has written.
TypeOK ==
  /\ failing \in Heaps /\ str \in BOOLEAN /\ wild \in BOOLEAN
  /\ mlen \in Nat /\ slen \in 0 .. mlen
  /\ data \in [0 .. mlen - 1 -> Char \cup {NUL, JUNK}]
  /\ Text \in Seq(Char)

\* The string is in its block and made of what was written to it.  With a heap that
\* grants what is asked for no call writes outside the block, and after every call,
\* successful or not, the terminator is in its place.
Terminated ==
  /\ TypeOK
  /\ failing = {} => /\ ~wild
                     /\ str => slen < mlen /\ data[slen] = NUL

\* The calls do and return what AbstractString promises, whatever the argument
\* shares with the string and however the block moved.
Abstract == INSTANCE AbstractString WITH text <- IF str THEN Text ELSE NULL
ImplementsAbstractString == Abstract!Spec

=============================================================================
