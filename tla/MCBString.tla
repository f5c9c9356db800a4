----------------------------- MODULE MCBString -----------------------------
(***************************************************************************)
(* Small instances of BString for TLC.                                     *)
(***************************************************************************)
EXTENDS BString

MCTexts == {<<>>, <<"x">>, <<"x", "X">>}

\* "_" is a space, without case, and beyond ASCII.
MCCode == [c \in {"x", "X", "_"} |-> IF c = "x" THEN 120 ELSE IF c = "X" THEN 88 ELSE -96]
MCLower == [c \in {"x", "X", "_"} |-> IF c = "X" THEN "x" ELSE c]
MCUpper == [c \in {"x", "X", "_"} |-> IF c = "x" THEN "X" ELSE c]

\* A heap that grants what is asked for, one that grants what is needed, and
\* one that grants nothing for sure.
MCHeaps == {{}, {"snap"}, {"snap", "tight"}}

\* The last call is for the properties to look at: no call depends on it.
Lasting == <<failing, string, wild>>

=============================================================================
