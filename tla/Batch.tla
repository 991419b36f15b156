------------------------------- MODULE Batch --------------------------------
(***************************************************************************)
(* What the kernel of src/Paging promises a batch of programs, whatever    *)
(* the frame store and the policy do: the processes of a command run their *)
(* own lines one at a time, in order, each line exactly once; a line       *)
(* "exec F" starts a process for F; a process leaves when its last line    *)
(* has run; and every process eventually finishes.  Memory, faults, the    *)
(* ready queue and quanta are invisible here.                              *)
(*                                                                         *)
(* proc[p] is process p's file, the index of its next line and the lines   *)
(* it has handed to the interpreter so far; pids are 1, 2, ... in order of *)
(* creation.                                                               *)
(***************************************************************************)
EXTENDS Integers, Sequences, FiniteSets, SequencesExt

CONSTANTS Files, Prog, Commands, MaxCommands, MaxPid

VARIABLES proc, live, cmdsLeft

vars == <<proc, live, cmdsLeft>>

\* The identity of line i (from 0) of file f.
Line(f, i) == <<f, i>>

NewProc(f) == [file |-> f, pc |-> 0, ran |-> <<>>]

\* A process for file f with the next pid.
Spawn(ps, f) == ps @@ (Cardinality(DOMAIN ps) + 1 :> NewProc(f))

Init ==
    /\ proc = <<>>
    /\ live = {}
    /\ cmdsLeft = MaxCommands

\* A command starts the processes of its files, in order, once every
\* process of the previous command has finished.
Submit(args) ==
    /\ cmdsLeft > 0 /\ live = {}
    /\ proc' = FoldLeft(Spawn, proc, args)
    /\ live' = DOMAIN proc' \ DOMAIN proc
    /\ cmdsLeft' = cmdsLeft - 1

\* Process p runs its next line: an "exec F" line starts a process for F;
\* after its last line p has finished.
Run(p) ==
    LET P    == proc[p]
        kind == Prog[P.file][P.pc + 1]
        ps1  == [proc EXCEPT ![p].pc = @ + 1, ![p].ran = Append(@, Line(P.file, P.pc))]
        ps2  == IF kind = "cmd" THEN ps1 ELSE Spawn(ps1, kind)
        done == P.pc + 1 >= Len(Prog[P.file])
    IN  /\ p \in live /\ P.pc < Len(Prog[P.file])
        /\ proc' = ps2
        /\ live' = (live \cup (DOMAIN ps2 \ DOMAIN proc)) \ (IF done THEN {p} ELSE {})
        /\ UNCHANGED cmdsLeft

Next == (\E args \in Commands : Submit(args)) \/ (\E p \in live : Run(p))

\* No process waits for ever while it can run.
Spec == Init /\ [][Next]_vars /\ \A p \in 1 .. MaxPid : WF_vars(Run(p))
=============================================================================
