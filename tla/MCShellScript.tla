---------------------------- MODULE MCShellScript ---------------------------
(* Model-checking instance of ShellScript: names x and y, words a and 2,  *)
(* if and for statements nested two deep, and script files for run: one  *)
(* that runs another, one that quits half-way, one that runs itself, one  *)
(* whose last line ends in a newline and an empty one; the host commands  *)
(* on a name d, one directory level deep.                                 *)
EXTENDS ShellScript, FiniteSets

MCDeref   == [tok \in {"$x", "$y", "$"} |-> CASE tok = "$x" -> "x"
                                           [] tok = "$y" -> "y"
                                           [] OTHER      -> ""]
MCNumeral == [w \in {"0", "2"} |-> IF w = "0" THEN 0 ELSE 2]

Cmd(toks)           == [kind |-> "cmd", toks |-> toks]
If(l, op, r, th, el) == [kind |-> "if", lhs |-> l, op |-> op, rhs |-> r,
                         then |-> th, else |-> el]
For(n, b)           == [kind |-> "for", n |-> n, body |-> b]
RunT(f)             == [kind |-> "run", file |-> f]

Simple == {Cmd(<<"set", "x", "a">>), Cmd(<<"set", "x", "2">>),
           Cmd(<<"set", "y", "a">>), Cmd(<<"echo", "$x">>),
           Cmd(<<"print", "y">>)}

Ops == {"==", "!="}

IfOne  == {If("$x", op, r, th, el) : op \in Ops, r \in {"a", "$y"},
           th \in Simple, el \in {Cmd(<<"echo", "$x">>), Cmd(<<"set", "y", "a">>)}}
ForOne == {For(n, b) : n \in {"2", "$x"}, b \in Simple}

Nested ==
    {For("2", tr) : tr \in {s \in IfOne : s.rhs = "a"}}
    \cup {If("$x", "!=", "a", tr, Cmd(<<"print", "y">>)) : tr \in ForOne}
    \cup {If("$x", "==", "$y", Cmd(<<"echo", "$x">>), tr) : tr \in {s \in IfOne : s.op = "=="}}

\* The scripts whose lines are statements; s2 runs s1, s3 quits.
MCScriptTrees ==
    [f \in {"s1", "s2", "s3", "s4"} |->
        CASE f = "s1" -> <<Cmd(<<"set", "x", "a">>), Cmd(<<"echo", "$x">>)>>
          [] f = "s2" -> <<For("2", Cmd(<<"print", "y">>)), RunT("s1")>>
          [] f = "s4" -> <<Cmd(<<"my_cd", "d">>), RunT("s1")>>
          [] f = "s3" -> <<Cmd(<<"echo", "$">>), Cmd(<<"set", "y", "a">>),
                          Cmd(<<"quit">>), Cmd(<<"set", "x", "2">>)>>]

Text(trs) == [k \in DOMAIN trs |-> Flatten(trs[k])]

\* The files on the host: the scripts above, "loop", which runs itself,
\* "nl", whose line ends in a newline, and "e", of zero bytes.
MCScripts ==
    [f \in DOMAIN MCScriptTrees \cup {"loop", "nl", "e"} |->
        CASE f = "loop" -> [lines |-> <<<<"run", "loop">>>>, nl |-> FALSE]
          [] f = "nl"   -> [lines |-> <<<<"echo", "$x">>>>, nl |-> TRUE]
          [] f = "e"    -> [lines |-> <<>>, nl |-> FALSE]
          [] OTHER      -> [lines |-> Text(MCScriptTrees[f]), nl |-> FALSE]]

RunTrees == {RunT(f) : f \in {"s1", "s2", "s3", "s4", "none"}} \cup {For("2", RunT("s1"))}

\* The host commands on one name d, a directory or a file; a second
\* my_mkdir of d fails.
HostTrees ==
    {Cmd(<<"my_mkdir", "d">>), Cmd(<<"my_cd", "d">>), Cmd(<<"my_cd", "..">>),
     Cmd(<<"my_touch", "d">>), Cmd(<<"my_cat", "d">>), Cmd(<<"my_cat", "s1">>),
     Cmd(<<"my_ls">>)}

MCTrees == Simple \cup IfOne \cup ForOne \cup Nested \cup RunTrees \cup HostTrees
           \cup {Cmd(<<"quit">>)}

\* Lines no statement tree gives: a for whose done is missing.
Unclosed == {<<"for", "2", "do", "set", "x", "a">>}

\* Lines that run the scripts no tree describes.
\* (d, touched, is an empty file; made, a directory fopen opens).
OtherRuns == {<<"run", "loop">>, <<"run", "nl">>, <<"run", "e">>, <<"run", "d">>}

WellFormedLines == {Flatten(tr) : tr \in MCTrees} \cup OtherRuns

LinesWithUnclosedFor == {Flatten(tr) : tr \in MCTrees} \cup Unclosed
\* The working directory stays within one level of "/", and a changed host
\* is explored beside at most one variable.
MCConstraint ==
    /\ Len(host.cwd) <= 1
    /\ host # HostInit => Cardinality(DOMAIN mem) <= 1
=============================================================================
