----------------------------- MODULE MCFileSys ------------------------------
(* Model-checking instance of FileSys: ten sectors of three bytes, six of  *)
(* them free; a one-sector file and a two-sector file on the host, so     *)
(* that a file copied into the hole another left behind is fragmented.     *)
EXTENDS FileSys

MCChars == {"a", "b"}

MCHostInit ==
    [n \in {"f", "g"} |->
        CASE n = "f" -> <<"a">>
          [] n = "g" -> <<"a", "b", "a", "b">>]

MCPatterns == {<<"a", "b">>}

MCFills == {NUL}

\* The files the directory holds at once, recovered ones included, and the
\* calls of a behaviour.
MaxFiles == 2
MaxCalls == 12

VARIABLE calls      \* the calls made so far

MCInit == Init /\ calls = 0
MCNext == Next /\ calls' = calls + 1
MCSpec == MCInit /\ [][MCNext]_<<vars, calls>>

MCConstraint == Len(dir) <= MaxFiles /\ calls <= MaxCalls

\* What the shell did and printed last does not change what it can do next.
MCView == <<disk, used, dir, opened, host, status>>
=============================================================================
