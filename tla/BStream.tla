------------------------------ MODULE BStream ------------------------------
(***************************************************************************)
(* The input of src/bstrlib.c: struct bStream, which buffers what it has   *)
(* read too much of a core stream; the calls that read from it into a      *)
(* string r, or split it into pieces; and the calls that read a core       *)
(* stream without one.  A call takes a step for each call of readFnPtr,    *)
(* getcPtr or cb, which are the client's.                                  *)
(*                                                                         *)
(* External: a core stream delivers what is asked for or, if `short', at   *)
(* least one character of it, and nothing only at its end.  A callback     *)
(* takes the piece and may stop the splitting; it leaves the stream alone. *)
(***************************************************************************)
EXTENDS BlockSize, Sequences, SequencesExt

CONSTANTS
  NULL,           \* the null pointer
  Char,           \* the characters
  Inputs,         \* what core streams hold
  Unreads,        \* what the client puts back
  Terms,          \* the sets of characters lines end with, and pieces
  Separators,     \* the strings bssplitstrcb divides by
  Sizes,          \* how many characters the client asks for
  BS_BUFF_SZ,     \* the buffer of a new stream, 1024 in the code
  BuffSizes,      \* what the client sets it to
  BSSSC_BUFF_LEN, \* how much a splitting reads at a time, 256 in the code
  FirstRead,      \* how much breada asks for first, 16 in the code
  MaxLen,         \* bound on what is read and still to be read together
  Heaps           \* sets of the requests the heap may refuse: "snap", one for
                  \* more than is needed; "tight", one for just that

ASSUME StreamAssumption ==
  /\ Sizes \cup BuffSizes \cup {BS_BUFF_SZ, BSSSC_BUFF_LEN, FirstRead} \subseteq Nat \ {0}
  /\ Inputs \cup Unreads \cup Separators \subseteq Seq(Char)
  /\ MaxLen \in Nat
  /\ Heaps \subseteq {{}, {"snap"}, {"snap", "tight"}}

VARIABLES
  failing,   \* the kind of heap there is
  short,     \* whether the core stream delivers less than it is asked for
  core,      \* what it has still to deliver
  open,      \* whether there is a stream around it
  buff, isEOF, maxBuffSz,
  r,         \* the client's string
  split,     \* the splitting that is going on, or NULL
  run,       \* the call that is going on: where it is, and its variables
  wild,      \* whether the last step wrote outside a block
  ret        \* the last call, or callback, and its result

vars == <<failing, short, core, open, buff, isEOF, maxBuffSz, r, split, run, wild, ret>>

-----------------------------------------------------------------------------
(* A string: its text, the size of its block, and whether a terminator     *)
(* follows the text.                                                       *)

First(s, n) == SubSeq(s, 1, n)
From(s, n) == SubSeq(s, n + 1, Len(s))

\* The position of the first character of s that is in S, 0 if none is.
FirstOf(s, S) == SelectInSeq(s, LAMBDA c : c \in S)

Ended(s, t) == [s EXCEPT !.text = t, !.nul = TRUE]
Unended(s, t) == [s EXCEPT !.text = t, !.nul = t = s.text /\ s.nul]

Fresh == [text |-> <<>>, mlen |-> snapUpSize(2), nul |-> TRUE]

\* What balloc makes of s, if it is not refused.
Grown(s, olen) ==
  IF olen < s.mlen THEN {s}
  ELSE {[s EXCEPT !.mlen = n, !.nul = TRUE] :
          n \in {snapUpSize(olen)} \cup IF "snap" \in failing THEN {olen} ELSE {}}

Refused(s, olen) == olen >= s.mlen /\ "tight" \in failing

Concat(s, t) == {Ended(g, s.text \o t) : g \in Grown(s, Len(s.text) + Len(t) + 1)}
ConcatRefused(s, t) == Refused(s, Len(s.text) + Len(t) + 1)

\* How many characters readFnPtr delivers when it is asked for n.
Delivers(n) == LET m == Min({n, Len(core)}) IN IF short /\ m > 0 THEN 1 .. m ELSE {m}

Buffered == IF buff = NULL THEN <<>> ELSE buff.text
Pending == IF open THEN Buffered \o core ELSE core

-----------------------------------------------------------------------------
(* Calls.                                                                  *)

Idle == [pc |-> "idle"]

Init ==
  /\ failing \in Heaps /\ short \in BOOLEAN
  /\ core \in Inputs
  /\ open = FALSE /\ buff = NULL /\ isEOF = FALSE /\ maxBuffSz = BS_BUFF_SZ
  /\ r = Fresh
  /\ split = NULL /\ run = Idle
  /\ wild = FALSE /\ ret = [call |-> "none", by |-> 0, end |-> "OK"]

\* The call c goes on at pc, with s for the string it reads into; `from' is what
\* there was before the call.
GoesOn(s, c, pc, n, rlo) ==
  /\ run' = [pc |-> pc, call |-> c, n |-> n, rlo |-> rlo,
             from |-> IF run = Idle THEN <<Pending, r.text>> ELSE run.from]
  /\ IF split = NULL THEN r' = s /\ UNCHANGED split
     ELSE split' = [split EXCEPT !.acc = s] /\ UNCHANGED r
  /\ UNCHANGED ret

\* The call c ends.  bread and bgets destroy their string if they have failed.
Ends(s, c, end) ==
  IF split = NULL
  THEN /\ run' = Idle /\ ret' = [call |-> c.name, by |-> c.by, end |-> end]
       /\ r' = IF c.name \in {"bread", "bgets"} /\ end # "OK" THEN Fresh ELSE s
       /\ UNCHANGED split
  ELSE /\ run' = [run EXCEPT !.pc = "judge"]
       /\ split' = [split EXCEPT !.acc = s, !.ok = end = "OK"]
       /\ UNCHANGED <<r, ret>>

\* A call on the stream that ends at once.
Returns(name, by, end) ==
  /\ ret' = [call |-> name, by |-> by, end |-> end]
  /\ UNCHANGED <<core, isEOF, run, split>>

Ready == run = Idle /\ open /\ buff # NULL /\ Len(r.text) + Len(Pending) <= MaxLen

-----------------------------------------------------------------------------
(* Reading lines: bsreadlna, bsreadlnsa and the calls that clear r first.  *)

\* Mutant: the found terminator stays in the buffer.
LineKeepingTerm(b, s, c) ==
  \E g \in Grown(b, maxBuffSz + 1) :
    LET i == FirstOf(b.text, c.by)
    IN  /\ wild' = FALSE /\ UNCHANGED <<core, isEOF>>
        /\ IF i > 0
           THEN /\ buff' = Ended(g, From(b.text, i - 1))
                /\ \E x \in Concat(s, First(b.text, i)) : Ends(x, c, "OK")
           ELSE /\ buff' = g
                /\ \E x \in Concat(s, b.text) : GoesOn(x, c, "line", 0, Len(s.text))

\* From the buffer b into s; if there is no terminator in it, all of it, and on.
Line(b, s, c) ==
  LET i == FirstOf(b.text, c.by)
  IN  /\ UNCHANGED <<core, isEOF>>
      /\ \/ Refused(b, maxBuffSz + 1) /\ buff' = b /\ Ends(s, c, "ERR") /\ wild' = FALSE
         \/ \E g \in Grown(b, maxBuffSz + 1) :
              /\ wild' = (Len(b.text) >= g.mlen)
              /\ \/ /\ i > 0 /\ buff' = Ended(g, From(b.text, i))
                    /\ \E x \in Concat(s, First(b.text, i)) : Ends(x, c, "OK")
                 \/ /\ i > 0 /\ buff' = [g EXCEPT !.nul = FALSE]
                    /\ ConcatRefused(s, First(b.text, i)) /\ Ends(s, c, "OK")
                 \/ /\ i = 0 /\ buff' = [g EXCEPT !.nul = FALSE]
                    /\ \/ \E x \in Concat(s, b.text) : GoesOn(x, c, "line", 0, Len(s.text))
                       \/ ConcatRefused(s, b.text) /\ Ends(s, c, "ERR")

\* Mutant: there is no room for the sentinel.
LineRoomShort == Len(r.text) + maxBuffSz

LineRoom == Len(r.text) + maxBuffSz + 1

\* A turn of the loop: a read behind the text of r, with a sentinel after it.
LineNext ==
  /\ run.pc = "line"
  /\ \/ /\ Refused(r, LineRoom) /\ Ends(r, run.call, "ERR")
        /\ wild' = FALSE /\ UNCHANGED <<core, isEOF, buff>>
     \/ \E g \in Grown(r, LineRoom), k \in Delivers(maxBuffSz) :
          LET chunk == First(core, k)
              i     == FirstOf(chunk, run.call.by)
          IN  /\ core' = From(core, k)
              /\ wild' = (Len(r.text) + k >= g.mlen \/ (i > 0 /\ k - i > buff.mlen))
              /\ \/ /\ k = 0 /\ isEOF' = TRUE /\ buff' = Unended(buff, <<>>)
                    /\ Ends(Ended(g, r.text), run.call,
                            IF Len(r.text) = run.rlo THEN "ERR" ELSE "OK")
                 \/ /\ i > 0 /\ buff' = Unended(buff, From(chunk, i))
                    /\ Ends(Ended(g, r.text \o First(chunk, i)), run.call, "OK")
                    /\ UNCHANGED isEOF
                 \/ /\ k > 0 /\ i = 0
                    /\ GoesOn(Unended(g, r.text \o chunk), run.call, "line", 0, run.rlo)
                    /\ UNCHANGED <<isEOF, buff>>

bsreadlna(terms) ==
  LET c == [name |-> "bsreadlna", by |-> terms]
  IN  /\ Ready
      /\ \/ terms # {} /\ Line(buff, r, c)
         \/ terms = {} /\ Returns("bsreadlna", terms, "ERR") /\ wild' = FALSE /\ UNCHANGED <<buff, r>>

\* Reading into an empty r: the buffer is grown first, then r cleared.
Cleared == Unended(r, <<>>)

NotCleared(c) ==
  /\ Refused(buff, maxBuffSz + 1) /\ Returns(c.name, c.by, "ERR")
  /\ wild' = FALSE /\ UNCHANGED <<buff, r>>

bsreadln(terms) ==
  LET c == [name |-> "bsreadln", by |-> terms]
  IN  /\ Ready
      /\ \/ /\ terms # {}
            /\ NotCleared(c) \/ \E b \in Grown(buff, maxBuffSz + 1) : Line(b, Cleared, c)
         \/ /\ terms = {} /\ Returns("bsreadln", terms, "ERR")
            /\ wild' = FALSE /\ UNCHANGED <<buff, r>>

-----------------------------------------------------------------------------
(* Reading a number of characters.                                         *)

\* Into s, to its length n: from the core stream at once if nothing is buffered
\* and s has room, by way of the buffer otherwise.
Read(b, s, c) ==
  LET n == c.by + Len(s.text)
  IN  \/ /\ b.text = <<>> /\ isEOF
         /\ Ends(s, c, "ERR") /\ buff' = b /\ wild' = FALSE /\ UNCHANGED <<core, isEOF>>
      \/ /\ b.text = <<>> /\ ~isEOF /\ s.mlen > n
         /\ \E k \in Delivers(c.by) :
              /\ core' = From(core, k) /\ isEOF' = (k = 0)
              /\ IF k = 0 THEN Ends(s, c, "ERR")
                 ELSE Ends(Ended(s, s.text \o First(core, k)), c, "OK")
         /\ buff' = b /\ wild' = FALSE
      \/ /\ b.text # <<>> \/ (~isEOF /\ s.mlen <= n)
         /\ \/ Refused(b, maxBuffSz + 1) /\ Ends(s, c, "ERR") /\ buff' = b
            \/ \E g \in Grown(b, maxBuffSz + 1) :
                 GoesOn(s, c, "read", n, Len(s.text)) /\ buff' = g
         /\ wild' = FALSE /\ UNCHANGED <<core, isEOF>>

\* A turn of the loop: what is buffered goes to s, and the buffer is filled.
ReadNext ==
  LET s        == IF split = NULL THEN r ELSE split.acc
      t        == buff.text
      wanted   == run.n - Len(s.text)
      EndsAt(x) == Ends(x, run.call, IF Len(x.text) = run.rlo THEN "ERR" ELSE "OK")
  IN  /\ run.pc = "read"
      /\ \/ /\ Len(t) >= wanted /\ UNCHANGED <<core, isEOF>> /\ wild' = FALSE
            /\ \/ /\ buff' = Ended(buff, From(t, wanted))
                  /\ \E x \in Concat(s, First(t, wanted)) : EndsAt(x)
               \/ ConcatRefused(s, First(t, wanted)) /\ buff' = buff /\ EndsAt(s)
         \/ /\ Len(t) < wanted /\ ConcatRefused(s, t) /\ EndsAt(s)
            /\ isEOF' = (isEOF \/ t = <<>>) /\ buff' = buff /\ wild' = FALSE /\ UNCHANGED core
         \/ /\ Len(t) < wanted
            /\ \E x \in Concat(s, t), k \in Delivers(Min({wanted - Len(t), maxBuffSz})) :
                 /\ core' = From(core, k) /\ buff' = Unended(buff, First(core, k))
                 /\ wild' = (k > buff.mlen)
                 /\ isEOF' = (isEOF \/ k = 0)
                 /\ IF k = 0 THEN EndsAt(x)
                    ELSE GoesOn(x, run.call, "read", run.n, run.rlo)

bsreada(n) == Ready /\ Read(buff, r, [name |-> "bsreada", by |-> n])

bsread(n) ==
  LET c == [name |-> "bsread", by |-> n]
  IN  /\ Ready
      /\ NotCleared(c) \/ \E b \in Grown(buff, maxBuffSz + 1) : Read(b, Cleared, c)

-----------------------------------------------------------------------------
(* The other calls on a stream.                                            *)

\* Without a buffer the stream is handed out all the same.
bsopen ==
  /\ run = Idle /\ ~open
  /\ open' = TRUE /\ isEOF' = FALSE /\ maxBuffSz' = BS_BUFF_SZ
  /\ \/ buff' = Fresh
     \/ "snap" \in failing /\ buff' = NULL
  /\ ret' = [call |-> "bsopen", by |-> 0, end |-> "OK"]
  /\ wild' = FALSE /\ UNCHANGED <<core, r, run, split>>

\* What is still buffered is lost.
bsclose ==
  /\ run = Idle /\ open
  /\ open' = FALSE /\ buff' = NULL /\ isEOF' = FALSE /\ maxBuffSz' = BS_BUFF_SZ
  /\ ret' = [call |-> "bsclose", by |-> 0, end |-> "OK"]
  /\ wild' = FALSE /\ UNCHANGED <<core, r, run, split>>

bsbufflength(sz) ==
  /\ run = Idle /\ open
  /\ maxBuffSz' = sz /\ Returns("bsbufflength", sz, "OK")
  /\ wild' = FALSE /\ UNCHANGED <<open, buff, r>>

\* Mutant: a buffer that is not empty counts as the end.
AtEndBuffered == isEOF /\ buff.text # <<>>

AtEnd == isEOF /\ buff.text = <<>>

bseof ==
  /\ run = Idle /\ open /\ buff # NULL
  /\ Returns("bseof", 0, IF AtEnd THEN "TRUE" ELSE "FALSE")
  /\ wild' = FALSE /\ UNCHANGED <<buff, r>>

\* binsert at 0.
bsunread(t) ==
  /\ Ready /\ Len(Pending) + Len(t) <= MaxLen
  /\ \/ \E b \in Grown(buff, Len(buff.text) + Len(t) + 1) :
          buff' = Ended(b, t \o buff.text) /\ Returns("bsunread", t, "OK")
     \/ /\ Refused(buff, Len(buff.text) + Len(t) + 1)
        /\ buff' = buff /\ Returns("bsunread", t, "ERR")
  /\ wild' = FALSE /\ UNCHANGED r

\* bassign, which asks for no room for the terminator.
bspeek ==
  LET t == buff.text
  IN  /\ Ready
      /\ \/ \E g \in IF t = <<>> THEN {r} ELSE Grown(r, Len(t)) :
              r' = Ended(g, t) /\ wild' = (Len(t) >= g.mlen) /\ Returns("bspeek", 0, "OK")
         \/ /\ t # <<>> /\ Refused(r, Len(t))
            /\ r' = r /\ wild' = FALSE /\ Returns("bspeek", 0, "ERR")
      /\ UNCHANGED buff

\* A stream without a buffer refuses every call that reads, peeks or puts back.
Bufferless ==
  /\ run = Idle /\ open /\ buff = NULL
  /\ Returns("bufferless", 0, "ERR")
  /\ wild' = FALSE /\ UNCHANGED <<buff, r>>

-----------------------------------------------------------------------------
(* Splitting: bssplitscb by any character of a set, bssplitstrcb by a      *)
(* string.  acc is the string pieces are taken from.                       *)

Splits(name, seps) ==
  /\ Ready
  /\ \/ /\ split' = [name |-> name, seps |-> seps, acc |-> Fresh, ofs |-> 0, ok |-> TRUE,
                     start |-> Len(Pending)]
        /\ run' = [pc |-> "scan", from |-> <<Pending, r.text>>]
        /\ UNCHANGED ret
     \/ /\ "snap" \in failing
        /\ ret' = [call |-> name, by |-> seps, end |-> "ERR"] /\ UNCHANGED <<run, split>>
  /\ wild' = FALSE /\ UNCHANGED <<core, buff, isEOF, r>>

bssplitscb(seps) == Splits("bssplitscb", seps)

bssplitstrcb(sep) ==
  IF Len(sep) = 1 THEN Splits("bssplitscb", ToSet(sep)) ELSE Splits("bssplitstrcb", sep)

SplitEnds == split' = NULL /\ run' = Idle

\* cb is called with the piece t at ofs, and may stop; otherwise acc goes on as s,
\* n characters further.
Calls(t, s, n) ==
  /\ \/ /\ split' = [split EXCEPT !.acc = s, !.ofs = @ + n]
        /\ run' = [run EXCEPT !.pc = "scan"]
        /\ ret' = [call |-> split.name, by |-> split.seps, ofs |-> split.ofs, text |-> t,
                   end |-> "piece"]
     \/ /\ SplitEnds
        /\ ret' = [call |-> split.name, by |-> split.seps, ofs |-> split.ofs, text |-> t,
                   end |-> "stopped"]
  /\ UNCHANGED r

CallsLast(t) ==
  /\ SplitEnds
  /\ ret' = [call |-> split.name, by |-> split.seps, ofs |-> split.ofs, text |-> t,
             end |-> "last"]
  /\ UNCHANGED r

\* Where in acc a separator is found, and where it ends; 0 if there is none.
SepAt ==
  LET t == split.acc.text
  IN  IF split.name = "bssplitscb" THEN FirstOf(t, split.seps)
      ELSE Min({i \in 1 .. Len(t) - Len(split.seps) + 1 :
                  split.seps # <<>> /\ SubSeq(t, i, i + Len(split.seps) - 1) = split.seps}
               \cup {Len(t) + 1}) % (Len(t) + 1)

\* Mutant: only the first character of a separator is passed over.
SepEndFirst == SepAt

SepEnd == IF split.name = "bssplitscb" THEN SepAt ELSE SepAt + Len(split.seps) - 1

\* bssplitscb puts back what follows the separator before it calls cb.
SplitNext ==
  LET t     == split.acc.text
      piece == First(t, SepAt - 1)
      rest  == From(t, SepEnd)
      need  == Len(buff.text) + Len(rest) + 1
  IN  /\ run.pc = "scan"
      /\ \/ SepAt = 0 /\ Read(buff, split.acc, [name |-> "bsreada", by |-> BSSSC_BUFF_LEN])
         \/ /\ SepAt > 0 /\ split.name = "bssplitscb"
            /\ \/ \E b \in Grown(buff, need) :
                    /\ buff' = Ended(b, rest \o buff.text)
                    /\ Calls(piece, Unended(split.acc, <<>>), SepEnd)
               \/ /\ Refused(buff, need) /\ SplitEnds
                  /\ ret' = [call |-> split.name, by |-> split.seps, end |-> "ERR"]
                  /\ UNCHANGED <<buff, r>>
            /\ wild' = FALSE /\ UNCHANGED <<core, isEOF>>
         \/ /\ SepAt > 0 /\ split.name = "bssplitstrcb"
            /\ Calls(piece, Ended(split.acc, rest), SepEnd)
            /\ wild' = FALSE /\ UNCHANGED <<core, isEOF, buff>>

\* After a read: bssplitscb ends when it got nothing, bssplitstrcb when the stream
\* is at its end; with nothing to divide by it hands out what it read.
SplitJudge ==
  LET s     == split.acc
      again == split' = split /\ run' = [run EXCEPT !.pc = "scan"] /\ UNCHANGED <<r, ret>>
  IN  /\ run.pc = "judge"
      /\ CASE split.name = "bssplitscb" -> IF split.ok THEN again ELSE CallsLast(s.text)
           [] split.name = "bssplitstrcb" /\ split.seps = <<>> ->
                IF split.ok THEN Calls(s.text, Unended(s, <<>>), 0)
                ELSE /\ SplitEnds /\ UNCHANGED r
                     /\ ret' = [call |-> split.name, by |-> split.seps, end |-> "OK"]
           [] OTHER ->
                IF AtEnd THEN CallsLast(s.text) ELSE again
      /\ wild' = FALSE /\ UNCHANGED <<core, buff, isEOF>>

-----------------------------------------------------------------------------
(* Reading a core stream without a buffer.                                 *)

\* The call goes on at pc with the string s; bread and bgets make that string, for
\* which the client gives up r.
Begins(s, c, pc, n) ==
  /\ run = Idle /\ ~open /\ Len(r.text) + Len(core) <= MaxLen
  /\ \/ GoesOn(s, c, pc, n, Len(s.text))
     \/ c.name \in {"bread", "bgets"} /\ "snap" \in failing /\ Ends(r, c, "ERR")
  /\ wild' = FALSE /\ UNCHANGED <<core, buff, isEOF>>

breada == Begins(r, [name |-> "breada", by |-> 0], "all", Len(r.text) + FirstRead)
bread  == Begins(Fresh, [name |-> "bread", by |-> 0], "all", FirstRead)

\* A turn: r is filled to length n, which grows as long as it can be filled.
AllNext ==
  /\ run.pc = "all"
  /\ \/ Refused(r, run.n + 1) /\ Ends(r, run.call, "ERR") /\ wild' = FALSE /\ UNCHANGED core
     \/ \E g \in Grown(r, run.n + 1), k \in Delivers(run.n - Len(r.text)) :
          LET t == r.text \o First(core, k)
          IN  /\ core' = From(core, k) /\ wild' = (Len(t) >= g.mlen)
              /\ IF Len(t) < run.n THEN Ends(Ended(g, t), run.call, "OK")
                 ELSE GoesOn(Unended(g, t), run.call, "all",
                             run.n + Min({run.n, BS_BUFF_SZ}), run.rlo)
  /\ UNCHANGED <<buff, isEOF>>

bgetsa(terms)      == Begins(r, [name |-> "bgetsa", by |-> terms], "gets", 0)
bassigngets(terms) == Begins(Unended(r, <<>>), [name |-> "bassigngets", by |-> terms], "gets", 0)
bgets(terms)       == Begins(Fresh, [name |-> "bgets", by |-> terms], "gets", 0)

\* A turn: one character is taken, and stored if the string can grow for it.
GetsNext ==
  LET d   == Len(r.text)
      end == IF r.text = <<>> THEN "EMPTY" ELSE "OK"
  IN  /\ run.pc = "gets"
      /\ \/ /\ core = <<>> /\ core' = core /\ wild' = (d >= r.mlen)
            /\ Ends(Ended(r, r.text), run.call, end)
         \/ /\ core # <<>> /\ core' = Tail(core)
            /\ \/ /\ d > r.mlen - 2 /\ Refused(r, d + 2)
                  /\ Ends(r, run.call, "ERR") /\ wild' = FALSE
               \/ \E g \in IF d > r.mlen - 2 THEN Grown(r, d + 2) ELSE {r} :
                    LET t == Append(r.text, Head(core))
                    IN  /\ wild' = (Len(t) >= g.mlen)
                        /\ IF Head(core) \in run.call.by THEN Ends(Ended(g, t), run.call, "OK")
                           ELSE GoesOn(Unended(g, t), run.call, "gets", 0, run.rlo)
      /\ UNCHANGED <<buff, isEOF>>

-----------------------------------------------------------------------------

Turn == LineNext \/ ReadNext \/ SplitNext \/ SplitJudge \/ AllNext \/ GetsNext

Call ==
  \/ bseof \/ bspeek \/ Bufferless \/ breada \/ bread
  \/ \E terms \in Terms : \/ bsreadlna(terms) \/ bsreadln(terms) \/ bssplitscb(terms)
                          \/ /\ Cardinality(terms) = 1
                             /\ bgetsa(terms) \/ bassigngets(terms) \/ bgets(terms)
  \/ \E n \in Sizes : bsreada(n) \/ bsread(n)
  \/ \E t \in Unreads : bsunread(t)
  \/ \E sep \in Separators : bssplitstrcb(sep)

Next ==
  \/ (Turn \/ Call) /\ UNCHANGED <<failing, short, open, maxBuffSz>>
  \/ (\E sz \in BuffSizes : bsbufflength(sz)) /\ UNCHANGED <<failing, short>>
  \/ (bsopen \/ bsclose) /\ UNCHANGED <<failing, short>>

\* A call that has begun goes on until it returns.
Spec == Init /\ [][Next]_vars /\ WF_vars(Turn /\ UNCHANGED <<failing, short, open, maxBuffSz>>)

-----------------------------------------------------------------------------
(* What is expected of it.                                                 *)

Reading == {"bsreadlna", "bsreadln", "bsreada", "bsread", "bspeek",
            "breada", "bread", "bgetsa", "bassigngets", "bgets"}

Overfull == Len(r.text) >= r.mlen

\* Unless the heap refuses even what is needed, a call that has read into r leaves a
\* terminator behind its text.  No call writes outside a block, the sentinels
\* included; only what bspeek calls does, in a block of just the size of the text,
\* and what is given that block again.
Terminated ==
  [][/\ wild' => "snap" \in failing /\ (ret'.call = "bspeek" \/ Overfull)
     /\ "tight" \notin failing /\ run' = Idle /\ ret'.call \in Reading /\ ret'.end # "ERR"
          => r'.nul]_vars

\* What a splitting has still to divide.
Ahead == split.acc.text \o Pending

\* The callback is called with what is ahead, up to the first separator if there is
\* one to divide by, at its offset, and the splitting goes on behind that.
HandsOut ==
  LET t == ret'.text
      n == Len(t) + Len(split.seps)
  IN  /\ ret'.end \in {"piece", "stopped"} /\ n > 0
      /\ n <= Len(Ahead) /\ First(Ahead, n) = t \o split.seps
      /\ split.seps # <<>> =>
           /\ ret'.ofs = split.start - Len(Ahead)
           /\ \A i \in 1 .. Len(t) : SubSeq(Ahead, i, i + Len(split.seps) - 1) # split.seps
      /\ ret'.end = "piece" => split' # NULL /\ Ahead' = From(Ahead, n)

\* Nothing of what is ahead is left out: with a separator it is the last piece, without
\* one there is none.  A heap that refuses even what is needed may cut it short.
HandsOutRest ==
  /\ split' = NULL
  /\ IF split.seps = <<>> THEN ret'.end = "OK" /\ (Ahead = <<>> \/ "tight" \in failing)
     ELSE /\ ret'.end = "last" /\ ret'.ofs = split.start - Len(Ahead)
          /\ IsPrefix(ret'.text, Ahead) /\ (ret'.text = Ahead \/ "tight" \in failing)

\* The steps of a splitting by a string.
ByString == split # NULL /\ split.name = "bssplitstrcb"

\* What bssplitstrcb divides by a string, or by the empty one, it divides in order: over
\* any number of reads no character is lost, repeated or put in another piece, every
\* piece but the last ends at the first separator, and the offsets tell where it was.
\* Its comment promises more, which the code does not keep and this does not say: that
\* the last piece is divided too (bstrlib.c:2512), that the empty separator gives single
\* characters (2513), that the stream stands right behind the separator (2516).
PiecesInOrder ==
  [][ByString =>
       \/ split' # NULL /\ Ahead' = Ahead /\ ret' = ret
       \/ /\ ret'.call = "bssplitstrcb" /\ ret'.by = split.seps
          /\ HandsOut \/ HandsOutRest]_vars

\* From the client's side nothing of the input is lost, repeated or reordered, each
\* call takes what AbstractStream says, and bseof and the offsets tell the truth, also
\* before and after a splitting by a string; while a call goes on the client sees what
\* there was before it.
Abstract == INSTANCE AbstractStream WITH
  pending <- IF split # NULL THEN split.acc.text \o Pending
             ELSE IF run # Idle THEN run.from[1] ELSE Pending,
  text    <- IF split = NULL /\ run # Idle THEN run.from[2] ELSE r.text,
  left    <- IF split = NULL THEN 0 ELSE split.start
ImplementsAbstractStream ==
  Abstract!Init /\ [][ByString \/ Abstract!Next]_(Abstract!vars)

\* Every call returns, unless the heap refuses the string bssplitstrcb reads into
\* for ever.
CallsReturn == run # Idle ~> (run = Idle \/ "tight" \in failing)

=============================================================================
