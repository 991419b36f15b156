----------------------------- MODULE ShellMemory ----------------------------
(***************************************************************************)
(* What the shell promises of its variables: shell memory is a dictionary  *)
(* from names to values.  "set" binds a name, "print" and "echo $name"     *)
(* show the value bound last (nothing for an unbound name), "my_mkdir      *)
(* $name" makes the directory the one-word value names, "resetmem" unbinds *)
(* every name, a rejected command changes nothing, "quit" ends the shell.  *)
(* The commands on the host's files leave every binding alone.            *)
(*                                                                         *)
(* ev is what the last command did that a user sees: the name and value   *)
(* it bound, the value it showed, the directory it made, or its error.     *)
(***************************************************************************)
EXTENDS Integers, Sequences

CONSTANTS Vars, Values, Words, Errors

VARIABLES dict, ev, status

vars == <<dict, ev, status>>

Unbound == <<>>

Event(op, var, val) == [op |-> op, var |-> var, val |-> val]

Init ==
    /\ dict = [k \in Vars |-> Unbound]
    /\ ev = Event("none", "", <<>>)
    /\ status = "running"

Bind(k, v) ==
    /\ dict' = [dict EXCEPT ![k] = v]
    /\ ev' = Event("set", k, v)

Show(k) ==
    /\ ev' = Event("show", k, dict[k])
    /\ UNCHANGED dict

Say(w) ==
    /\ ev' = Event("say", "", <<w>>)
    /\ UNCHANGED dict

\* The directory made is the value's one word; an unbound name or a value
\* of several words is refused.
MakeDir(k) ==
    /\ ev' = Event("mkdir", k, IF Len(dict[k]) = 1 THEN dict[k] ELSE <<"error">>)
    /\ UNCHANGED dict

Reset ==
    /\ dict' = [k \in Vars |-> Unbound]
    /\ ev' = Event("reset", "", <<>>)

Reject(e) ==
    /\ ev' = Event("error", "", <<e>>)
    /\ UNCHANGED dict

\* help, my_ls, my_touch, my_cd and my_mkdir of a plain name: what they
\* show is the host's, not memory's.
HostCommand ==
    /\ ev'.op \in {"help", "ls", "touch", "cd", "mkdir"} /\ ev'.var = ""
    /\ UNCHANGED dict

Quit ==
    /\ status' = "quit"
    /\ UNCHANGED <<dict, ev>>

Command ==
    \/ \E k \in Vars, v \in Values : Bind(k, v)
    \/ \E k \in Vars : Show(k) \/ MakeDir(k)
    \/ \E w \in Words : Say(w)
    \/ \E e \in Errors : Reject(e)
    \/ Reset
    \/ HostCommand

Next ==
    /\ status = "running"
    /\ \/ Command /\ UNCHANGED status
       \/ Quit

Spec == Init /\ [][Next]_vars
=============================================================================
