------------------------------ MODULE VarStore ------------------------------
(***************************************************************************)
(* The variable store of src/Paging/shellmemory.c: the array               *)
(* "struct Variable_struct varmemory[VAR_MEM_SIZE]" of (var, value) string *)
(* pairs, NULL when unused.  As in FrameStore, every function is an       *)
(* operator from a store to the store after the call.                     *)
(*                                                                         *)
(* A value is the sequence of the words it was made of (set joins its     *)
(* arguments with single spaces, and words contain no space), so a value  *)
(* holds a space exactly when it has more than one word.                  *)
(***************************************************************************)
EXTENDS Integers, Sequences, FiniteSets

CONSTANT VAR_MEM_SIZE

VarSlots == 0 .. VAR_MEM_SIZE - 1

NoVar   == ""                    \* varmemory[i].var == NULL
NoValue == <<>>                  \* varmemory[i].value == NULL

EmptyVar == [var |-> NoVar, value |-> NoValue]

\* varmemory_init, and varmemory_init after varmemory_free: every entry NULL.
VarmemoryInit == [i \in VarSlots |-> EmptyVar]

\* The first entry, in index order, whose var is v; -1 when none is.
FirstSlot(vm, v) ==
    IF \E i \in VarSlots : vm[i].var = v
    THEN CHOOSE i \in VarSlots : vm[i].var = v /\ \A j \in 0 .. i - 1 : vm[j].var # v
    ELSE -1

\* Mutant: mem_set_value without its first loop, so an existing variable
\* gets a second entry.
MemSetValueNoLookup(vm, var, value) ==
    LET free == FirstSlot(vm, NoVar)
    IN  IF free # -1 THEN [vm EXCEPT ![free] = [var |-> var, value |-> value]]
        ELSE vm

(* mem_set_value: the first entry holding var gets the new value; else the *)
(* first unused entry gets (var, value); with none unused, nothing is      *)
(* stored and nothing is reported.                                          *)
MemSetValue(vm, var, value) ==
    LET old  == FirstSlot(vm, var)
        free == FirstSlot(vm, NoVar)
    IN  CASE old # -1  -> [vm EXCEPT ![old].value = value]
          [] free # -1 -> [vm EXCEPT ![free] = [var |-> var, value |-> value]]
          [] OTHER     -> vm

\* mem_get_value: the value of the first entry holding var, NULL if none.
MemGetValue(vm, var) ==
    LET i == FirstSlot(vm, var)
    IN  IF i = -1 THEN NoValue ELSE vm[i].value
=============================================================================
