--------------------------- MODULE AbstractStream ---------------------------
(***************************************************************************)
(* What reading from a stream promises: there is a sequence of characters  *)
(* still to come, from its front every call takes a line, a number of      *)
(* characters or a piece, and nothing is lost, repeated or reordered.  No  *)
(* buffers.  What may go wrong when the heap refuses is said separately.   *)
(***************************************************************************)
EXTENDS Integers, Sequences, SequencesExt

VARIABLES
  failing, \* the requests the heap may refuse
  short,   \* whether reading may stop early
  pending, \* what is still to come
  text,    \* the string the client reads into
  left,    \* how much there was to come when the splitting began, 0 without one
  ret      \* the last call or callback, its argument and result

vars == <<failing, short, pending, text, left, ret>>

Init == left = 0 /\ text = <<>> /\ ret.call = "none"

First(s, n) == SubSeq(s, 1, n)
From(s, n) == SubSeq(s, n + 1, Len(s))

Does(names, ends) == ret'.call \in names /\ ret'.end \in ends
Stays(v) == v' = v

\* What the text begins with, and then n characters of what is to come.
base == IF ret'.call \in {"bsreadln", "bsread", "bassigngets", "bread", "bgets"}
        THEN <<>> ELSE text
Moved(n) == text' = base \o First(pending, n) /\ pending' = From(pending, n) /\ Stays(left)

\* The length of the first line, with the character that ends it.
LineLen ==
  LET n == SelectInSeq(pending, LAMBDA c : c \in ret'.by)
  IN  IF n = 0 THEN Len(pending) ELSE n

\* How much comes when n characters are asked for.
Some(n) == IF short /\ n > 0 THEN 1 .. n ELSE {n}

Line ==
  \/ /\ Does({"bsreadlna", "bsreadln"}, {IF LineLen = 0 THEN "ERR" ELSE "OK"})
     /\ ret'.by # {} /\ Moved(LineLen)
  \/ /\ Does({"bsreadlna", "bsreadln"}, {"ERR"})
     /\ ret'.by = {} /\ Stays(<<pending, text, left>>)

Read ==
  /\ Does({"bsreada", "bsread"}, {IF pending = <<>> THEN "ERR" ELSE "OK"})
  /\ \E n \in Some(IF ret'.by < Len(pending) THEN ret'.by ELSE Len(pending)) : Moved(n)

Get ==
  /\ Does({"bgetsa", "bassigngets", "bgets"}, {IF text' = <<>> THEN "EMPTY" ELSE "OK"})
  /\ Moved(LineLen)

ReadAll == Does({"breada", "bread"}, {"OK"}) /\ \E n \in Some(Len(pending)) : Moved(n)

Peek ==
  /\ Does({"bspeek"}, {"OK"}) /\ \E n \in 0 .. Len(pending) : text' = First(pending, n)
  /\ Stays(<<pending, left>>)

Unread == Does({"bsunread"}, {"OK"}) /\ pending' = ret'.by \o pending /\ Stays(<<text, left>>)

Eof == Does({"bseof"}, {"FALSE"} \cup IF pending = <<>> \/ "tight" \in failing THEN {"TRUE"} ELSE {})
       /\ Stays(<<pending, text, left>>)

Open == Does({"bsopen", "bsbufflength"}, {"OK"}) /\ Stays(<<pending, text, left>>)

\* What a stream has read of its core stream and not handed out is lost with it.
Close ==
  /\ Does({"bsclose"}, {"OK"}) /\ Stays(<<text, left>>)
  /\ \E n \in 0 .. Len(pending) : pending' = From(pending, n)

-----------------------------------------------------------------------------
(* Splitting by any character of a set.                                    *)

BeginSplit == left' = Len(pending) /\ Stays(<<pending, text, ret>>)

EndSplit == IF ret'.end = "piece" THEN Stays(left) ELSE left' = 0

\* The piece up to the first separator; then the stream is right behind that.
PieceByAny ==
  LET t == ret'.text
  IN  /\ Does({"bssplitscb"}, {"piece", "stopped", "last"})
      /\ IsPrefix(t, pending) /\ ToSet(t) \cap ret'.by = {}
      /\ ret'.ofs = left - Len(pending)
      /\ IF ret'.end = "last"
         THEN pending' = From(pending, Len(t)) /\ (pending' = <<>> \/ "tight" \in failing)
         ELSE /\ Len(t) < Len(pending) /\ pending[Len(t) + 1] \in ret'.by
              /\ pending' = From(pending, Len(t) + 1)
      /\ EndSplit /\ Stays(text)

-----------------------------------------------------------------------------
(* Heaps that refuse.                                                      *)

\* A string, or a splitting, could not be begun.
NotBegun ==
  /\ "snap" \in failing /\ ret'.end = "ERR" /\ Stays(<<pending, left>>)
  /\ text' = IF ret'.call \in {"bread", "bgets"} THEN <<>> ELSE text

\* A string could not grow.  A call may have moved a part, and a call that reads a
\* line may have left in the stream what it has moved; one that reads characters
\* loses one; what a failed bread or bgets or splitting had taken is lost.
CutShort ==
  /\ "tight" \in failing
  /\ \E n \in 0 .. Len(pending) :
       \/ Stays(<<pending, text, left>>)
       \/ /\ Does({"bsreadlna", "bsreadln", "bsreada", "bsread", "breada"}, {"OK", "ERR"})
          /\ text' = base \o First(pending, n) /\ Stays(left)
          /\ \E m \in 0 .. n : pending' = First(pending, m) \o From(pending, n)
       \/ /\ Does({"bgetsa", "bassigngets"}, {"ERR"})
          /\ text' = base \o First(pending, n) /\ pending' = From(pending, n + 1) /\ Stays(left)
       \/ /\ Does({"bread", "bgets"}, {"ERR"})
          /\ text' = <<>> /\ pending' = From(pending, n) /\ Stays(left)
       \/ /\ Does({"bssplitscb"}, {"ERR"})
          /\ pending' = From(pending, n) /\ left' = 0 /\ Stays(text)

Next ==
  /\ \/ Line \/ Read \/ Get \/ ReadAll \/ Peek \/ Unread \/ Eof \/ Open \/ Close
     \/ BeginSplit \/ PieceByAny
     \/ NotBegun \/ CutShort
  /\ Stays(<<failing, short>>)

Spec == Init /\ [][Next]_vars

=============================================================================
