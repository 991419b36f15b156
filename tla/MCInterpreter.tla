---------------------------- MODULE MCInterpreter ---------------------------
(* Model-checking instance of Interpreter: three names, two words, and     *)
(* every form of the memory commands, well formed or rejected, and the     *)
(* host commands one directory level deep.                                 *)
EXTENDS Interpreter

MCVars  == {"x", "y", "z"}
MCWords == {"a", "b"}
MCDeref == [tok \in {"$x", "$y", "$z"} |-> CHOOSE k \in MCVars : tok = "$" \o k]

MCValues == {<<"a">>, <<"b">>, <<"a", "b">>}

MCLines ==
    {<<"set", k>> \o v : k \in MCVars, v \in MCValues}
    \cup {<<"print", k>> : k \in MCVars}
    \cup {<<"echo", tok>> : tok \in DOMAIN MCDeref}
    \cup {<<"my_mkdir", tok>> : tok \in DOMAIN MCDeref}
    \cup {<<"echo", "a">>, <<"resetmem">>, <<"quit">>, <<"exit">>}
    \* the host commands, on d and on a, the directory my_mkdir $x can make
    \cup {<<"help">>, <<"my_ls">>, <<"my_mkdir", "d">>, <<"my_touch", "d">>,
          <<"my_cd", "d">>, <<"my_cd", "a">>, <<"my_cd", "..">>}
    \* rejected before any handler runs
    \cup {<<>>, <<"set", "x">>, <<"print">>, <<"print", "x", "y">>,
          <<"resetmem", "x">>, <<"frob">>, <<"exec">>,
          <<"exec", "f", "f", "f", "f">>, <<"set", "x", "a", "a", "a", "a", "a", "a">>}
\* The working directory stays within one level of where the shell starts,
\* the tree holds at most two names, and a changed tree is explored beside
\* at most one variable in use.
MCConstraint ==
    /\ Len(host.cwd) <= 1
    /\ Cardinality(host.dirs \cup host.files) <= 3
    /\ host.dirs \cup host.files # {<<>>} =>
           Cardinality({i \in VarSlots : vm[i].var # NoVar}) <= 1
=============================================================================
