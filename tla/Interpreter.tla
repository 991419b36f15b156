----------------------------- MODULE Interpreter ----------------------------
(***************************************************************************)
(* The commands of the paging shell (src/Paging/interpreter.c) that work   *)
(* on shell memory: interpreter()'s token checks, set, print, echo,        *)
(* resetmem and quit, over the variable store of VarStore, and help,      *)
(* my_ls, my_mkdir, my_touch and my_cd over the host's file tree.  run and *)
(* exec hand their files to the kernel (Kernel).                           *)
(*                                                                         *)
(* The host's tree is the working directory and the sets of directory and  *)
(* file paths, a path being its names from the directory the shell starts *)
(* in (whose ".." is taken to be itself).                                  *)
(*                                                                         *)
(* A command line is a sequence of tokens.  A token "$v" is one that      *)
(* Deref maps to the name v (&tok[1]).                                     *)
(***************************************************************************)
EXTENDS Integers, Sequences, VarStore

CONSTANTS
    Lines,      \* the command lines the user can type
    Deref,      \* Deref[tok]: the name after the '$' of a token that has one
    Vars,       \* the variable names the lines use
    Words       \* the words of the lines

VARIABLES
    vm,         \* varmemory
    ev,         \* what the last command showed the user
    status,     \* "running", or "quit" once quit has called exit(0)
    host        \* [cwd, dirs, files]: the host's file tree

vars == <<vm, ev, status, host>>

MAX_ARGS_SIZE == 7

Event(op, var, val) == [op |-> op, var |-> var, val |-> val]

\* The value set stores: its arguments after the name (joined by spaces).
SetValue(t) == SubSeq(t, 3, Len(t))

Commands == {"help", "quit", "exit", "set", "print", "run", "echo", "my_ls",
             "my_mkdir", "my_touch", "my_cd", "exec", "resetmem"}

\* The error interpreter() reports before reaching a command's handler, in
\* the order it tests them; "" when the handler runs.
TokenError(t) ==
    LET n == Len(t) IN
    IF n < 1 THEN "too few tokens"
    ELSE IF n > MAX_ARGS_SIZE THEN "too many tokens"
    ELSE IF t[1] \notin Commands THEN "bad command"
    ELSE IF t[1] \in {"help", "quit", "exit", "my_ls"} /\ n > 1 THEN "too many tokens"
    ELSE IF t[1] = "set" /\ n < 3 THEN "too few tokens"
    ELSE IF t[1] \in {"print", "run"} /\ n < 2 THEN "too few tokens"
    ELSE IF t[1] \in {"print", "run", "echo", "my_mkdir", "my_touch", "my_cd"}
            /\ n > 2 THEN "too many tokens"
    ELSE IF t[1] = "exec" /\ n <= 1 THEN "too few tokens"
    ELSE IF t[1] = "exec" /\ n > 5 THEN "too many tokens"
    ELSE IF t[1] = "exec" /\ n = 5 THEN "bad command"
    ELSE IF t[1] = "resetmem" /\ n # 1 THEN "too many tokens"
    ELSE ""

Resolve(x) == IF x = ".." THEN SubSeq(host.cwd, 1, Len(host.cwd) - 1)
              ELSE Append(host.cwd, x)

Exists(x) == Resolve(x) \in host.dirs \cup host.files

\* The host tree after system("mkdir x"), which fails when x exists.
MkdirOf(x) == IF Exists(x) THEN host ELSE [host EXCEPT !.dirs = @ \cup {Resolve(x)}]

Runs(t, cmd) == status = "running" /\ TokenError(t) = "" /\ t[1] = cmd

Init ==
    /\ vm = VarmemoryInit
    /\ ev = Event("none", "", <<>>)
    /\ status = "running"
    /\ host = [cwd |-> <<>>, dirs |-> {<<>>}, files |-> {}]

\* handle_error: the message is printed and nothing else changes.
Reject(t) ==
    /\ status = "running" /\ TokenError(t) # ""
    /\ ev' = Event("error", "", <<TokenError(t)>>)
    /\ UNCHANGED <<vm, status, host>>

\* set VAR WORD...: mem_set_value(VAR, the words joined); returns 0.
Set(t) ==
    /\ Runs(t, "set")
    /\ vm' = MemSetValue(vm, t[2], SetValue(t))
    /\ ev' = Event("set", t[2], SetValue(t))
    /\ UNCHANGED <<status, host>>

\* print VAR: mem_get_value, a blank line when VAR is unset.
PrintValue(t) ==
    /\ Runs(t, "print")
    /\ ev' = Event("show", t[2], MemGetValue(vm, t[2]))
    /\ UNCHANGED <<vm, status, host>>

\* echo $VAR is print VAR; echo WORD prints the word.
Echo(t) ==
    /\ Runs(t, "echo")
    /\ ev' = IF t[2] \in DOMAIN Deref
             THEN Event("show", Deref[t[2]], MemGetValue(vm, Deref[t[2]]))
             ELSE Event("say", "", <<t[2]>>)
    /\ UNCHANGED <<vm, status, host>>

\* my_mkdir $VAR: an unset value or one with a space is ERROR_MKDIR;
\* otherwise "mkdir <value>" is run.  my_mkdir NAME runs "mkdir NAME".
MyMkdir(t) ==
    /\ Runs(t, "my_mkdir")
    /\ IF t[2] \in DOMAIN Deref
       THEN LET k == Deref[t[2]]  value == MemGetValue(vm, k) IN
            IF value = NoValue \/ Len(value) > 1
            THEN /\ ev' = Event("mkdir", k, <<"error">>) /\ UNCHANGED host
            ELSE /\ ev' = Event("mkdir", k, value) /\ host' = MkdirOf(value[1])
       ELSE /\ ev' = Event("mkdir", "", <<t[2]>>) /\ host' = MkdirOf(t[2])
    /\ UNCHANGED <<vm, status>>

\* help prints its text.
Help(t) ==
    /\ Runs(t, "help")
    /\ ev' = Event("help", "", <<>>)
    /\ UNCHANGED <<vm, status, host>>

\* my_ls: system("ls | sort"), the sorted names of the working directory.
MyLs(t) ==
    /\ Runs(t, "my_ls")
    /\ ev' = Event("ls", "", {p[Len(p)] : p \in {q \in (host.dirs \cup host.files) \ {<<>>} :
                                               SubSeq(q, 1, Len(q) - 1) = host.cwd}})
    /\ UNCHANGED <<vm, status, host>>

\* my_touch NAME: system("touch NAME") makes an empty file where nothing is.
MyTouch(t) ==
    /\ Runs(t, "my_touch")
    /\ ev' = Event("touch", "", <<t[2]>>)
    /\ host' = IF Exists(t[2]) THEN host ELSE [host EXCEPT !.files = @ \cup {Resolve(t[2])}]
    /\ UNCHANGED <<vm, status>>

\* my_cd NAME: chdir when stat finds a directory, otherwise ERROR_CD.
MyCd(t) ==
    /\ Runs(t, "my_cd")
    /\ IF Resolve(t[2]) \in host.dirs
       THEN ev' = Event("cd", "", <<t[2]>>) /\ host' = [host EXCEPT !.cwd = Resolve(t[2])]
       ELSE ev' = Event("error", "", <<"cd">>) /\ UNCHANGED host
    /\ UNCHANGED <<vm, status>>

\* resetmem: varmemory_free then varmemory_init.
ResetMem(t) ==
    /\ Runs(t, "resetmem")
    /\ vm' = VarmemoryInit
    /\ ev' = Event("reset", "", <<>>)
    /\ UNCHANGED <<status, host>>

\* quit: ready_queue_destory, the backing store removed, exit(0).
Quit(t) ==
    /\ Runs(t, "quit") \/ Runs(t, "exit")
    /\ status' = "quit"
    /\ UNCHANGED <<vm, ev, host>>

Next ==
    \E t \in Lines :
        \/ Reject(t) \/ Set(t) \/ PrintValue(t) \/ Echo(t)
        \/ MyMkdir(t) \/ ResetMem(t) \/ Quit(t)
        \/ Help(t) \/ MyLs(t) \/ MyTouch(t) \/ MyCd(t)

Spec == Init /\ [][Next]_vars

-----------------------------------------------------------------------------
Memory == INSTANCE ShellMemory WITH
    dict   <- [k \in Vars |-> MemGetValue(vm, k)],
    Values <- {SetValue(t) : t \in {l \in Lines : Len(l) >= 3 /\ l[1] = "set"}},
    Errors <- {"too few tokens", "too many tokens", "bad command", "cd"}

\* Shell memory behaves as a dictionary: every print, echo $VAR and
\* my_mkdir $VAR sees the value the last successful set of that name gave
\* it (none after resetmem), whatever entries of varmemory set and
\* resetmem filled, reused or left behind.
MemoryRefinement == Memory!Spec
=============================================================================
