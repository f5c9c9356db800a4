----------------------------- MODULE MCBStream -----------------------------
(***************************************************************************)
(* Small instances of BStream for TLC.                                     *)
(***************************************************************************)
EXTENDS BStream

\* Every input of up to n characters.
InputsUpTo(n) == UNION {[1 .. m -> {"x", "y"}] : m \in 0 .. n}
MCInputs == InputsUpTo(4)
MCUnreads == {<<>>, <<"y">>}
MCTerms == {{}, {"y"}, {"x", "y"}}
MCSeparators == {<<>>, <<"y">>, <<"x", "y">>}
MCHeaps == {{}, {"snap"}, {"snap", "tight"}}

\* No call depends on what the last one returned.
Lasting == <<failing, short, core, open, buff, isEOF, maxBuffSz, r, split, run, wild>>

=============================================================================
