----------------------------- MODULE ShellScript ----------------------------
(***************************************************************************)
(* The plain shell of src/Shell/interpreter.c: interpreter() on one command *)
(* line, with its if and for statements, which find the extent of their   *)
(* bodies with get_next_token and run them through interpreter() again.    *)
(*                                                                         *)
(* A line is a sequence of tokens (At(t, i) is command_args[i]).  A token  *)
(* Deref maps is one that starts with '$', and Deref gives the name after  *)
(* it.  A string is the sequence of its space-separated words, "" being    *)
(* <<>>.  The shell's shellmemory.c is not in the repository; its memory   *)
(* is taken to be a dictionary whose mem_get_value is NULL for an unset    *)
(* name, as the callers here test.  my_ls, my_mkdir, my_touch, my_cd and   *)
(* my_cat act on the host's file system (POSIX, outside the repository;  *)
(* see HostInit).  A script file that run opens                          *)
(* is the sequence of its lines, each a sequence of tokens as the   *)
(* shell's parseInput (not in the repository) splits it at spaces, and    *)
(* whether its last line ends in a newline.                               *)
(***************************************************************************)
EXTENDS Integers, Sequences, TLC

CONSTANTS
    Lines,      \* the command lines typed at the shell
    Deref,      \* Deref[tok]: the name after the '$' of a '$' token
    Numeral,    \* Numeral[w]: the value of a word of digits only
    Trees,      \* statement trees of well-formed lines (see Flatten)
    Scripts,    \* Scripts[f]: [lines, nl] of each script file that exists
    OpenMax,    \* the script files fopen can hold open at once (EMFILE)
    ScriptTrees \* ScriptTrees[f]: the statement trees of a script's lines

VARIABLES
    mem,        \* the shell memory: name -> value
    host,       \* the host's file system: [cwd, dirs, files]
    out,        \* what the last line printed
    line,       \* the last line interpreted
    status      \* "running"; "quit" after quit; "ub" after undefined behaviour

vars == <<mem, host, out, line, status>>

MAX_ARGS_SIZE == 7

At(t, i) == t[i + 1]

\* The result of a line: the shell's state after it ([vars, host]), what
\* it printed, and "quit" or "ub" if it ended the shell.
Res(m, o, h) == [sh |-> m, out |-> o, halt |-> h]

\* badcommand, badcommand_custom and error_message: one message, no change.
Bad(m, msg) == Res(m, <<[k |-> "error", v |-> msg]>>, "none")
Show(m, s)  == Res(m, <<[k |-> "show", v |-> s]>>, "none")

MemGet(m, k) == IF k \in DOMAIN m.vars THEN m.vars[k] ELSE <<>>

\* preprocess_ident: a '$' token is replaced by its value ("" when unset).
Ident(m, tok) == IF tok \in DOMAIN Deref THEN MemGet(m, Deref[tok]) ELSE <<tok>>

IsValidOp(op) == op \in {"!=", "=="}

\* is_numeric: every character a digit, so "" is numeric; atoi("") is 0.
IsNumeric(s) == s = <<>> \/ (Len(s) = 1 /\ s[1] \in DOMAIN Numeral)
Atoi(s) == IF s = <<>> THEN 0 ELSE Numeral[s[1]]

Opens  == {"for", "if"}
Closes == {"done", "fi"}

\* Mutant: the scan stops at the first terminator, nested or not.
GetNextTokenFlat(t, index, term) ==
    LET RECURSIVE Scan(_, _)
        Scan(i, count) ==
            IF i >= Len(t) THEN count
            ELSE IF At(t, i) = term THEN count
            ELSE Scan(i + 1, count + 1)
    IN  Scan(index, 0)

(* get_next_token: the number of tokens from index to the first terminator *)
(* at nesting depth 0; at the end, -1 if a for or if is still open, else   *)
(* the number of tokens scanned.                                           *)
GetNextToken(t, index, term) ==
    LET RECURSIVE Scan(_, _, _)
        Scan(i, count, depth) ==
            IF i >= Len(t) THEN IF depth > 0 THEN -1 ELSE count
            ELSE IF depth = 0 /\ At(t, i) = term THEN count
            ELSE Scan(i + 1, count + 1,
                      depth + (IF At(t, i) \in Opens THEN 1 ELSE 0)
                            - (IF At(t, i) \in Closes THEN 1 ELSE 0))
    IN  Scan(index, 0, 0)

\* set: the words after the name, joined by spaces, stored under the name.
SetCmd(t, m) ==
    IF Len(t) < 3 \/ Len(t) > 7 THEN Bad(m, "Bad command: set")
    ELSE Res([m EXCEPT !.vars = (At(t, 1) :> SubSeq(t, 3, Len(t))) @@ @], <<>>, "none")

PrintCmd(t, m) ==
    IF Len(t) # 2 THEN Bad(m, "Unknown Command")
    ELSE IF MemGet(m, At(t, 1)) = <<>> THEN Show(m, <<"Variable Does not exists">>)
    ELSE Show(m, MemGet(m, At(t, 1)))

\* echo: "$" alone is refused; "$name" prints its value or an empty line.
EchoCmd(t, m) ==
    IF Len(t) # 2 \/ At(t, 1) = "$" THEN Bad(m, "Bad command: echo")
    ELSE Show(m, Ident(m, At(t, 1)))

HostCommands == {"my_ls", "my_mkdir", "my_touch", "my_cd", "my_cat"}

(* The host's file system, as POSIX has it: a path is the sequence of its  *)
(* names from "/", where the shell starts (so ".." of "/" is "/").         *)
Resolve(h, x) ==
    IF x = ".." THEN SubSeq(h.cwd, 1, Len(h.cwd) - 1) ELSE Append(h.cwd, x)

Entries(h) == h.dirs \cup h.files

\* The scripts are files of "/"; any other file, touched, is empty.
HostInit == [cwd |-> <<>>, dirs |-> {<<>>}, files |-> {<<f>> : f \in DOMAIN Scripts}]

FileAt(p) == IF Len(p) = 1 /\ p[1] \in DOMAIN Scripts THEN Scripts[p[1]]
             ELSE [lines |-> <<>>, nl |-> FALSE]

\* my_ls: system("ls") prints the names in the working directory.
MyLs(m) ==
    Show(m, {p[Len(p)] : p \in {q \in Entries(m.host) \ {<<>>} :
                                   SubSeq(q, 1, Len(q) - 1) = m.host.cwd}})

\* my_mkdir: mkdir(name, 0777) fails when the name exists.
MyMkdir(m, x) ==
    IF Resolve(m.host, x) \in Entries(m.host)
    THEN Bad(m, "Bad command: my_mkdir")
    ELSE Res([m EXCEPT !.host.dirs = @ \cup {Resolve(m.host, x)}], <<>>, "none")

\* my_touch: system("touch name") creates an empty file where nothing is.
MyTouch(m, x) ==
    IF Resolve(m.host, x) \in Entries(m.host) THEN Res(m, <<>>, "none")
    ELSE Res([m EXCEPT !.host.files = @ \cup {Resolve(m.host, x)}], <<>>, "none")

\* my_cd: chdir(name), which fails unless the name is a directory.
MyCd(m, x) ==
    IF Resolve(m.host, x) \in m.host.dirs
    THEN Res([m EXCEPT !.host.cwd = Resolve(m.host, x)], <<>>, "none")
    ELSE Bad(m, "Bad command: my_cd")

\* my_cat: system("cat name") prints a file's lines and fails on a
\* directory or a missing name.
MyCat(m, x) ==
    IF Resolve(m.host, x) \in m.host.files
    THEN Show(m, FileAt(Resolve(m.host, x)).lines)
    ELSE Bad(m, "Bad command: my_cat")

RECURSIVE Interp(_, _, _), IfStatement(_, _, _), ForStatement(_, _, _),
          Repeat(_, _, _, _), RunStopsOnError(_, _, _), Run(_, _, _)

(* interpreter(): the token-count checks, then the command's handler; d is *)
(* the number of script files run has open.  help prints its text.        *)
Interp(t, m, d) ==
    IF Len(t) = 0 THEN Bad(m, "Unknown Command")
    ELSE IF Len(t) > MAX_ARGS_SIZE /\ At(t, 0) \notin {"set", "if", "for"}
         THEN Bad(m, "Unknown Command")
    ELSE CASE At(t, 0) = "help"  -> IF Len(t) # 1 THEN Bad(m, "Unknown Command")
                                    ELSE Show(m, <<"help">>)
           [] At(t, 0) = "quit"  -> IF Len(t) # 1 THEN Bad(m, "Unknown Command")
                                    ELSE Res(m, <<[k |-> "show", v |-> <<"Bye!">>]>>, "quit")
           [] At(t, 0) = "set"   -> SetCmd(t, m)
           [] At(t, 0) = "print" -> PrintCmd(t, m)
           [] At(t, 0) = "echo"  -> EchoCmd(t, m)
           [] At(t, 0) = "run"   -> IF Len(t) # 2 THEN Bad(m, "Unknown Command")
                                    ELSE Run(At(t, 1), m, d)
           [] At(t, 0) \in HostCommands ->
                  IF Len(t) # (IF At(t, 0) = "my_ls" THEN 1 ELSE 2)
                  THEN Bad(m, "Unknown Command")
                  ELSE (CASE At(t, 0) = "my_ls"    -> MyLs(m)
                          [] At(t, 0) = "my_mkdir" -> MyMkdir(m, At(t, 1))
                          [] At(t, 0) = "my_touch" -> MyTouch(m, At(t, 1))
                          [] At(t, 0) = "my_cd"    -> MyCd(m, At(t, 1))
                          [] At(t, 0) = "my_cat"   -> MyCat(m, At(t, 1)))
           [] At(t, 0) = "if"    -> IfStatement(t, m, d)
           [] At(t, 0) = "for"   -> ForStatement(t, m, d)
           [] OTHER              -> Bad(m, "Unknown Command")

(* if_statement: "if L OP R then BODY else BODY fi".  An else body whose   *)
(* for or if is never closed makes get_next_token return -1, and          *)
(* "char *else_body[-1]" is a negative-size array.                         *)
IfStatement(t, m, d) ==
    LET n   == Len(t)
        bl  == GetNextToken(t, 5, "else")
        i   == 5 + bl
        ebl == GetNextToken(t, i + 1, "fi")
        j   == i + 1 + ebl
        same == Ident(m, At(t, 1)) = Ident(m, At(t, 3))
    IN  IF n < 6 THEN Bad(m, "Bad command: if, must have atleast 6 arguments")
        ELSE IF ~IsValidOp(At(t, 2)) THEN Bad(m, "missing operator")
        ELSE IF At(t, 4) # "then" THEN Bad(m, "missing 'then'")
        ELSE IF bl = -1 \/ i >= n \/ At(t, i) # "else" THEN Bad(m, "Empty if clause")
        ELSE IF ebl = -1 THEN Res(m, <<>>, "ub")
        ELSE IF j >= n \/ At(t, j) # "fi" THEN Bad(m, "Bad command: Empty if clause")
        ELSE IF same = (At(t, 2) = "==") THEN Interp(SubSeq(t, 6, 5 + bl), m, d)
        ELSE Interp(SubSeq(t, i + 2, i + 1 + ebl), m, d)

(* for_statement: "for N do BODY done".  When no done closes the body at  *)
(* depth 0, index reaches args_size and command_args[args_size] is read.  *)
ForStatement(t, m, d) ==
    LET n   == Len(t)
        c   == Ident(m, At(t, 1))
        wbl == GetNextToken(t, 3, "done")
        i   == 3 + wbl
    IN  IF n < 4 THEN Bad(m, "Bad command: for, expects at least 4 tokens")
        ELSE IF ~IsNumeric(c) THEN Bad(m, "Bad command: for, expected numeric")
        ELSE IF At(t, 2) # "do" THEN Bad(m, "Bad command: for, expected 'do'")
        ELSE IF wbl = -1 THEN Bad(m, "Bad command: for, expected 'done' token")
        ELSE IF i >= n THEN Res(m, <<>>, "ub")
        ELSE IF At(t, i) # "done" THEN Bad(m, "Bad command: for, expected 'done' token")
        ELSE IF i + 1 < n THEN Bad(m, "Bad command: for, end of statement expected")
        ELSE Repeat(SubSeq(t, 4, 3 + wbl), Atoi(c), d, Res(m, <<>>, "none"))

\* The loop of for_statement: the body k more times, unless one quit.
Repeat(body, k, d, r) ==
    IF k = 0 \/ r.halt # "none" THEN r
    ELSE LET s == Interp(body, r.sh, d)
         IN  Repeat(body, k - 1, d, Res(s.sh, r.out \o s.out, s.halt))

\* The lines fgets reads from a file: a last line that ends in a newline
\* is followed by a failed fgets that leaves the zeroed buffer, no tokens.
ReadLines(file) == file.lines \o (IF file.nl THEN <<<<>>>> ELSE <<>>)

\* Mutant: the loop leaves at the first line that printed an error.
RunStopsOnError(f, m, d) ==
    LET RECURSIVE Loop(_, _)
        Loop(ls, r) ==
            IF ls = <<>> \/ r.halt # "none"
               \/ \E k \in DOMAIN r.out : r.out[k].k = "error" THEN r
            ELSE LET s == Interp(Head(ls), r.sh, d + 1)
                 IN  Loop(Tail(ls), Res(s.sh, r.out \o s.out, s.halt))
        p == Resolve(m.host, f)
    IN  IF p \notin Entries(m.host) \/ d = OpenMax
        THEN Res(m, <<[k |-> "error", v |-> "Bad command: File not found"]>>, "none")
        ELSE IF FileAt(p).lines = <<>> THEN Res(m, <<>>, "ub")
        ELSE Loop(ReadLines(FileAt(p)), Res(m, <<>>, "none"))

(* run: fopen, relative to the working directory, fails on a missing     *)
(* name, or with OpenMax scripts already open, and                        *)
(* badcommandFileDoesNotExist prints its message.  Otherwise each line     *)
(* fgets reads goes to parseInput, with the state the last one left, until *)
(* feof; quit inside exits the shell.  On an empty file (or a directory,  *)
(* which fopen opens and fgets cannot read) the first fgets fails and      *)
(* parseInput reads the uninitialised line[].                              *)
Run(f, m, d) ==
    LET RECURSIVE Loop(_, _)
        Loop(ls, r) ==
            IF ls = <<>> \/ r.halt # "none" THEN r
            ELSE LET s == Interp(Head(ls), r.sh, d + 1)
                 IN  Loop(Tail(ls), Res(s.sh, r.out \o s.out, s.halt))
        p == Resolve(m.host, f)
    IN  IF p \notin Entries(m.host) \/ d = OpenMax
        THEN Res(m, <<[k |-> "error", v |-> "Bad command: File not found"]>>, "none")
        ELSE IF FileAt(p).lines = <<>> THEN Res(m, <<>>, "ub")
        ELSE Loop(ReadLines(FileAt(p)), Res(m, <<>>, "none"))

Init ==
    /\ mem = [k \in {} |-> <<>>]
    /\ host = HostInit
    /\ out = <<>>
    /\ line = <<>>
    /\ status = "running"

\* The shell hands one line to interpreter(); quit ends the process.
Interpret(l) ==
    LET r == Interp(l, [vars |-> mem, host |-> host], 0)
    IN  /\ status = "running"
        /\ mem' = r.sh.vars
        /\ host' = r.sh.host
        /\ out' = r.out
        /\ line' = l
        /\ status' = IF r.halt = "none" THEN "running" ELSE r.halt

Next == \E l \in Lines : Interpret(l)

Spec == Init /\ [][Next]_vars

-----------------------------------------------------------------------------
(* The statement grammar the shell's if and for are meant to parse: a      *)
(* tree is a simple command, [kind |-> "if", lhs, op, rhs, then, else] or  *)
(* [kind |-> "for", n, body], the bodies again trees, or [kind |-> "run", *)
(* file], whose script's lines are the trees ScriptTrees[file].           *)
RECURSIVE Flatten(_)
Flatten(tr) ==
    CASE tr.kind = "cmd" -> tr.toks
      [] tr.kind = "if"  -> <<"if", tr.lhs, tr.op, tr.rhs, "then">> \o Flatten(tr.then)
                            \o <<"else">> \o Flatten(tr.else) \o <<"fi">>
      [] tr.kind = "for" -> <<"for", tr.n, "do">> \o Flatten(tr.body) \o <<"done">>
      [] tr.kind = "run" -> <<"run", tr.file>>

\* What a tree does, by its structure: the branch the comparison picks, the
\* body as many times as the count says, or the script's statements one
\* after the other, as if typed.
RECURSIVE RefEval(_, _), RefRepeat(_, _, _), RefSeq(_, _)
RefEval(tr, m) ==
    CASE tr.kind = "cmd" -> Interp(tr.toks, m, 0)
      [] tr.kind = "if"  ->
            IF (Ident(m, tr.lhs) = Ident(m, tr.rhs)) = (tr.op = "==")
            THEN RefEval(tr.then, m) ELSE RefEval(tr.else, m)
      [] tr.kind = "for" ->
            IF IsNumeric(Ident(m, tr.n))
            THEN RefRepeat(tr.body, Atoi(Ident(m, tr.n)), Res(m, <<>>, "none"))
            ELSE Bad(m, "Bad command: for, expected numeric")
      [] tr.kind = "run" ->
            IF tr.file \in DOMAIN ScriptTrees /\ Resolve(m.host, tr.file) = <<tr.file>>
            THEN RefSeq(ScriptTrees[tr.file], Res(m, <<>>, "none"))
            ELSE Res(m, <<[k |-> "error", v |-> "Bad command: File not found"]>>, "none")

RefRepeat(tr, k, r) ==
    IF k = 0 \/ r.halt # "none" THEN r
    ELSE LET s == RefEval(tr, r.sh)
         IN  RefRepeat(tr, k - 1, Res(s.sh, r.out \o s.out, s.halt))

RefSeq(trs, r) ==
    IF trs = <<>> \/ r.halt # "none" THEN r
    ELSE LET s == RefEval(Head(trs), r.sh)
         IN  RefSeq(Tail(trs), Res(s.sh, r.out \o s.out, s.halt))

\* Every well-formed line, nested if and for statements included, does
\* what its statement tree says: get_next_token's depth count finds the
\* else, fi and done that close each statement, so interpreter() runs the
\* right body the right number of times on the memory the line started on;
\* and run of a script does what typing its lines one after the other does
\* (run's fgets/feof loop reads every line once, in order).
ParsesAsGrammar ==
    [][\A tr \in Trees :
         Flatten(tr) = line' =>
             LET r == RefEval(tr, [vars |-> mem, host |-> host])
             IN  /\ mem' = r.sh.vars
                 /\ host' = r.sh.host
                 /\ out' = r.out
                 /\ status' = IF r.halt = "none" THEN "running" ELSE r.halt]_vars

\* No line makes interpreter() read past its tokens or declare an array of
\* negative size (for_statement and if_statement on unclosed bodies).
NoUndefinedBehaviour == status # "ub"
=============================================================================
