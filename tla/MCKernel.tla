------------------------------ MODULE MCKernel ------------------------------
(* Model-checking instances of Kernel.  File "fN" is an N-line program of  *)
(* plain commands; "xN" is an N-line program whose second line is          *)
(* "exec f2".                                                              *)
EXTENDS Kernel

Name(k) == "f" \o ToString(k)
Lengths == 1 .. 9
PlainFiles == {Name(k) : k \in Lengths}
NestedFiles == {"x3"}

MCFiles == PlainFiles \cup NestedFiles
MCProg == [f \in MCFiles |->
             CASE f \in NestedFiles -> <<"cmd", "f2", "cmd">>
               [] OTHER -> [i \in 1 .. CHOOSE k \in Lengths : f = Name(k) |-> "cmd"]]

\* Every pair of plain programs: two programs of up to 6 initial lines
\* each fit in the 4 frames of the default store.
PairCommands == {<<Name(j), Name(k)>> : j, k \in Lengths}

\* Every plain program alone.
SingleCommands == {<<Name(k)>> : k \in Lengths}

\* The same 7-line program twice.
TwinCommands == {<<Name(7), Name(7)>>}

\* Three programs of at least 4 lines.
TripleCommands == {<<Name(4), Name(4), Name(4)>>}

\* A program that runs "exec f2" from inside, next to another program.
NestedCommands == {<<"x3", Name(4)>>}

\* Any program followed by one of one or two lines: both initial loads fit
\* in a store of 2 frames.
LongShortCommands == {<<Name(j), Name(k)>> : j \in Lengths, k \in 1 .. 2}
=============================================================================
