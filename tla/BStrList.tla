------------------------------ MODULE BStrList ------------------------------
(***************************************************************************)
(* Lists of strings in src/bstrlib.c: struct bstrList and its memory, the  *)
(* splitting of a string by any character of a set or by a string, which   *)
(* calls cb for each piece, the lists bsplit, bsplits and bsplitstr make   *)
(* with the callback bscb, and bjoin, which puts a list together again.    *)
(*                                                                         *)
(* External: a client has one string and one list.  It may store strings   *)
(* in the list's free slots itself, and its own callbacks may change the   *)
(* string that is being split, and stop; it keeps no list meanwhile, which *)
(* such a splitting would not touch.  Lengths stay below INT_MAX.          *)
(***************************************************************************)
EXTENDS BlockSize, Sequences, SequencesExt

CONSTANTS
  NULL,        \* the null pointer
  Texts,       \* what a client's strings hold
  Sets,        \* the sets of characters it splits by
  Separators,  \* the strings it splits by, joins with and stores
  Rooms,       \* how many slots it asks for
  FIRST_SLOTS, \* the slots of a list a string is split into, 4 in the code
  MaxQty,      \* bound on what a client puts into a list
  Heaps        \* sets of the requests the heap may refuse: "tight", one for just
               \* what is needed once one for more has failed; "snap", any other

ASSUME ListAssumption ==
  /\ Rooms \cup {FIRST_SLOTS} \subseteq Nat \ {0}
  /\ MaxQty \in Nat
  /\ Heaps \subseteq {{}, {"snap"}, {"snap", "tight"}}
  /\ \A t \in Texts \cup Separators : t \in Seq(ToSet(t))

VARIABLES
  failing,     \* the kind of heap there is
  str,         \* the client's string
  list,        \* its list: the entries, NULL where there is no string, and the slots
  made,        \* what it was made of, and by what; NULL if the client added to it
  run,         \* the splitting that is going on: the piece starts at p, and is sought
               \* from i on
  ret          \* the last call or piece, and the result

vars == <<failing, str, list, made, run, ret>>

Idle == [pc |-> "idle"]
Crashed == [pc |-> "crashed"]

Init ==
  /\ failing \in Heaps
  /\ str \in Texts
  /\ list = NULL /\ made = NULL
  /\ run = Idle
  /\ ret = [call |-> "none", end |-> "OK"]

MayRefuse == "snap" \in failing

Ready == run = Idle /\ list # NULL

\* len characters from ofs on, without those that are not there.
Mid(t, ofs, len) == SubSeq(t, ofs + 1, Min({ofs + len, Len(t)}))

-----------------------------------------------------------------------------
(* A list and its slots.                                                   *)

\* A call returns; lists are left alone.
Returns(call, end) ==
  ret' = [call |-> call, end |-> end] /\ UNCHANGED <<list, made, run>>

bstrListCreate ==
  /\ run = Idle /\ list = NULL
  /\ \/ /\ list' = [entry |-> <<>>, mlen |-> 1] /\ made' = NULL
        /\ ret' = [call |-> "bstrListCreate", end |-> "OK"] /\ UNCHANGED run
     \/ MayRefuse /\ Returns("bstrListCreate", "ERR")

bstrListDestroy ==
  /\ Ready
  /\ list' = NULL /\ made' = NULL
  /\ ret' = [call |-> "bstrListDestroy", end |-> "OK"] /\ UNCHANGED run

\* The list has n slots now.
Resized(call, msz, n) ==
  /\ list' = [list EXCEPT !.mlen = n]
  /\ ret' = [call |-> call, msz |-> msz, end |-> "OK"]
  /\ UNCHANGED <<made, run>>

\* More slots than asked for, or just as many when that is refused.
bstrListAlloc(msz) ==
  LET call == "bstrListAlloc"
  IN  /\ Ready
      /\ \/ msz <= list.mlen /\ Resized(call, msz, list.mlen)
         \/ /\ msz > list.mlen
            /\ \/ Resized(call, msz, snapUpSize(msz))
               \/ "snap" \in failing /\ Resized(call, msz, msz)
               \/ "tight" \in failing /\ Returns(call, "ERR")

\* Mutant: the entries there are do not count.
AllocMinBlind(msz) == Ready /\ Resized("bstrListAllocMin", msz, msz)

\* As many slots as asked for, or as there are entries.
bstrListAllocMin(msz) ==
  LET call == "bstrListAllocMin"
      need == Max({msz, Len(list.entry)})
  IN  /\ Ready
      /\ \/ Resized(call, msz, need)
         \/ need # list.mlen /\ MayRefuse /\ Returns(call, "ERR")

\* The client uses a slot itself.
Puts(t) ==
  /\ Ready /\ Len(list.entry) < Min({list.mlen, MaxQty})
  /\ list' = [list EXCEPT !.entry = Append(@, t)] /\ made' = NULL
  /\ ret' = [call |-> "none", end |-> "OK"] /\ UNCHANGED run

-----------------------------------------------------------------------------
(* Splitting.  A splitting is by a set (bsplitcb, bsplitscb) or by a       *)
(* string (bsplitstrcb, which hands one of a single character to           *)
(* bsplitcb).                                                              *)

Begun(name, by, pos) ==
  [pc |-> "split", name |-> name, by |-> by, p |-> pos, i |-> pos]

BySet(S) == [set |-> S, text |-> NULL]
ByText(t) == IF Len(t) = 1 THEN BySet(ToSet(t)) ELSE [set |-> NULL, text |-> t]

\* With a callback of the client's.
bsplitscb(S, pos) ==
  /\ run = Idle /\ list = NULL /\ pos <= Len(str)
  /\ run' = Begun("client", BySet(S), pos)
  /\ ret' = [call |-> "bsplitscb", end |-> "begun"] /\ UNCHANGED <<list, made>>

bsplitstrcb(t, pos) ==
  /\ run = Idle /\ list = NULL /\ pos <= Len(str)
  /\ run' = Begun("client", ByText(t), pos)
  /\ ret' = [call |-> "bsplitstrcb", end |-> "begun"] /\ UNCHANGED <<list, made>>

\* Into a list.
Lists(call, by) ==
  /\ run = Idle /\ list = NULL
  /\ \/ /\ list' = [entry |-> <<>>, mlen |-> FIRST_SLOTS]
        /\ made' = [text |-> str, by |-> by]
        /\ run' = Begun("bscb", by, 0)
        /\ ret' = [call |-> call, end |-> "begun"]
     \/ MayRefuse /\ Returns(call, "NULL")

bsplit(c)    == Lists("bsplit", BySet({c}))
bsplits(S)   == Lists("bsplits", BySet(S))
bsplitstr(t) == Lists("bsplitstr", ByText(t))

\* The splitting ends without a piece.
Ends ==
  /\ run' = Idle /\ ret' = [call |-> run.name, end |-> "OK"]
  /\ UNCHANGED <<str, list, made>>

\* A piece has been handed out; the next one starts at q and is sought from j on,
\* unless this was the last.
Handed(ofs, len, q, j, last, stops) ==
  /\ ret' = [call |-> "piece", by |-> run.by, ofs |-> ofs, len |-> len,
             end |-> IF stops THEN "stopped" ELSE IF last THEN "last" ELSE "OK"]
  /\ run' = IF stops \/ last THEN Idle ELSE [run EXCEPT !.p = q, !.i = j]

\* A string that cannot be made leaves a hole in the list; slots that cannot be had
\* end the splitting, and the list.
bscb(ofs, len, q, j, last) ==
  LET full == Len(list.entry) >= list.mlen
  IN  /\ run.name = "bscb"
      /\ \/ \E e \in {Mid(str, ofs, len)} \cup IF MayRefuse THEN {NULL} ELSE {} :
              /\ list' = [entry |-> Append(list.entry, e),
                          mlen |-> list.mlen * IF full THEN 2 ELSE 1]
              /\ Handed(ofs, len, q, j, last, FALSE) /\ UNCHANGED made
         \/ /\ full /\ MayRefuse
            /\ list' = NULL /\ made' = NULL
            /\ run' = Idle /\ ret' = [call |-> "bscb", end |-> "NULL"]
      /\ UNCHANGED str

\* The client may change the string, and stop.
ClientCb(ofs, len, q, j, last) ==
  /\ run.name = "client"
  /\ str' \in Texts
  /\ \E stops \in BOOLEAN : Handed(ofs, len, q, j, last, stops)
  /\ UNCHANGED <<list, made>>

Cb(ofs, len, q, j, last) ==
  bscb(ofs, len, q, j, last) \/ ClientCb(ofs, len, q, j, last)

\* Mutant: the separator is not skipped.
BehindStuck(k) == k

\* Where the next piece starts after a separator of one character.
Behind(k) == k + 1

\* A turn of bsplitscb: up to the next separator, if the string still is as long as
\* where the piece starts.
SplitSet ==
  LET k == Min({j \in run.i .. Len(str) - 1 : str[j + 1] \in run.by.set} \cup {Len(str)})
  IN  /\ run.pc = "split" /\ run.by.text = NULL
      /\ \/ run.by.set = {} /\ Cb(0, Len(str), 0, 0, TRUE)
         \/ run.by.set # {} /\ run.p > Len(str) /\ Ends
         \/ /\ run.by.set # {} /\ run.p <= Len(str)
            /\ Cb(run.p, k - run.p, Behind(k), Behind(k), FALSE)

\* Where from i on t is in the string.
Found(t, i) == {k \in i .. Len(str) - Len(t) : Mid(str, k, Len(t)) = t}

\* A turn of bsplitstrcb: up to the next separator that is found; after it the search
\* goes on one character late.
SplitText ==
  LET t  == run.by.text
      at == Found(t, run.i)
      q  == Min(at) + Len(t)
  IN  /\ run.pc = "split" /\ t # NULL
      /\ \/ t = <<>> /\ run.p >= Len(str) /\ Ends
         \/ t = <<>> /\ run.p < Len(str) /\ Cb(run.p, 1, run.p + 1, run.p + 1, FALSE)
         \/ t # <<>> /\ at # {} /\ Cb(run.p, Min(at) - run.p, q, q + 1, FALSE)
         \/ t # <<>> /\ at = {} /\ Cb(run.p, Len(str) - run.p, 0, 0, TRUE)

-----------------------------------------------------------------------------
(* Joining.                                                                *)

\* Mutant: there is a separator in front of the first entry as well.
JoinedAll(entry, t) == FlattenSeq([k \in DOMAIN entry |-> t \o entry[k]])

\* The entries with t between them.
Joined(entry, t) ==
  IF entry = <<>> THEN <<>>
  ELSE Head(entry) \o FlattenSeq([k \in 1 .. Len(entry) - 1 |-> t \o entry[k + 1]])

\* The length of each entry is read, and the header of the new string written to,
\* without a test that they are there.
bjoin(t) ==
  LET hole == \E k \in 1 .. Len(list.entry) : list.entry[k] = NULL
  IN  /\ Ready
      /\ \/ /\ ~hole /\ ret' = [call |-> "bjoin", by |-> t, text |-> Joined(list.entry, t),
                                end |-> "OK"]
            /\ UNCHANGED run
         \/ ~hole /\ MayRefuse /\ ret' = [call |-> "bjoin", end |-> "NULL"] /\ UNCHANGED run
         \/ /\ hole \/ (list.entry # <<>> /\ MayRefuse)
            /\ ret' = [call |-> "bjoin", end |-> "crash"] /\ run' = Crashed
      /\ UNCHANGED <<list, made>>

-----------------------------------------------------------------------------

Turn == SplitSet \/ SplitText

Call ==
  \/ bstrListCreate \/ bstrListDestroy
  \/ \E msz \in Rooms : bstrListAlloc(msz) \/ bstrListAllocMin(msz)
  \/ \E S \in Sets : \/ bsplits(S)
                     \/ \E c \in S : bsplit(c)
                     \/ \E pos \in 0 .. Len(str) : bsplitscb(S, pos)
  \/ \E t \in Separators : \/ Puts(t) \/ bsplitstr(t) \/ bjoin(t)
                           \/ \E pos \in 0 .. Len(str) : bsplitstrcb(t, pos)

Next ==
  \/ Turn /\ UNCHANGED failing
  \/ Call /\ UNCHANGED <<failing, str>>

\* A splitting that has begun goes on.
Spec == Init /\ [][Next]_vars /\ WF_vars(Turn /\ UNCHANGED failing)

-----------------------------------------------------------------------------
(* What is expected of it.                                                 *)

\* No entry is outside the list's slots, and calls that are asked for slots and
\* succeed leave as many.
ListRoom ==
  /\ list # NULL => Len(list.entry) <= list.mlen
  /\ ret.call = "bstrListAlloc" /\ ret.end = "OK" => list.mlen >= ret.msz
  /\ ret.call = "bstrListAllocMin" /\ ret.end = "OK" =>
       list.mlen = Max({ret.msz, Len(list.entry)})

SepLen(by) == IF by.text = NULL THEN 1 ELSE Len(by.text)
SepAt(by, k) == IF by.text = NULL THEN k < Len(str) /\ str[k + 1] \in by.set
                ELSE Mid(str, k, Len(by.text)) = by.text

\* There is nothing to divide the string by.
Undivided(by) == IF by.text = NULL THEN by.set = {} ELSE by.text = <<>>

\* A piece is one of the string as it is now.  If there is nothing to divide it by it
\* is the whole string, once; otherwise it starts right behind the separator that ended
\* the one before, is followed by another or by the end of the string, and has none in
\* it.
PieceOK(ofs, len, by) ==
  /\ len >= 0 /\ ofs + len <= Len(str)
  /\ IF Undivided(by)
     THEN ret.call # "piece" /\ ofs = 0 /\ len = Len(str)
     ELSE /\ ret.call = "piece" => ofs = ret.ofs + ret.len + SepLen(by)
          /\ ofs + len = Len(str) \/ SepAt(by, ofs + len)
          /\ \A k \in ofs .. ofs + len - 1 : ~SepAt(by, k)

\* bsplitcb and bsplitscb hand out no other pieces, though the callback may have
\* changed the string since the last one; nor does bsplitstrcb by one character, which
\* is bsplitcb.  By none or by several bsplitstrcb does, against its comment: this is no
\* property of it then, and what is left to say of it is in JoinRestores.
PiecesExact ==
  [][run.pc = "split" /\ run.by.text = NULL /\ ret'.call = "piece" =>
       PieceOK(ret'.ofs, ret'.len, ret'.by)]_vars

\* Joining what a string was split into, by what it was split by, makes that string;
\* one that was split by any of several characters has the same one in all their
\* places.  No entry bjoin reads is missing unless the heap refused to make it.
JoinRestores ==
  /\ ret.end = "crash" => failing # {}
  /\ ret.call = "bjoin" /\ ret.end = "OK" /\ made # NULL =>
       LET t  == made.text
           by == made.by
       IN  /\ by.text = ret.by => ret.text = t
           /\ by.text = NULL /\ by.set = {} => ret.text = t
           /\ by.text = NULL => \A c \in by.set : ret.by = <<c>> =>
                ret.text = [k \in DOMAIN t |-> IF t[k] \in by.set THEN c ELSE t[k]]

\* Every splitting ends, whatever its callback makes of the string.
SplitsEnd == run.pc = "split" ~> run.pc # "split"

=============================================================================
