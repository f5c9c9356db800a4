----------------------------- MODULE MCBStrList -----------------------------
(***************************************************************************)
(* Small instances of BStrList for TLC.                                    *)
(***************************************************************************)
EXTENDS BStrList

\* Every string of up to n characters.
TextsUpTo(n) == UNION {[1 .. m -> {"x", "y"}] : m \in 0 .. n}
MCTexts == TextsUpTo(4)
MCSets == {{}, {"y"}, {"x", "y"}}
MCSeparators == {<<>>, <<"y">>, <<"x", "y">>}

MCHeaps == {{}, {"snap"}, {"snap", "tight"}}

=============================================================================
