------------------------------- MODULE Kernel -------------------------------
(***************************************************************************)
(* The paging kernel of src/Paging: process creation (process_initialize), *)
(* the shell commands that start a batch (exec, run), the scheduler loop   *)
(* of schedule_by_policy and the execution step execute_process, over the  *)
(* frame store of FrameStore.  Everything runs on one thread; the only     *)
(* nondeterminism is which command the user types and the programs' text. *)
(*                                                                         *)
(* A program is a sequence of line kinds: "cmd" is a command whose effect  *)
(* on the kernel is nil (set, print, echo, ...), a file name F is the line *)
(* "exec F" run from inside a program.                                     *)
(***************************************************************************)
EXTENDS Integers, Sequences, FiniteSets, SequencesExt, FrameStore

CONSTANTS
    Files,        \* file names the user can exec
    Prog,         \* Prog[f]: the non-empty lines of file f, as line kinds
    Commands,     \* the argument lists of top-level exec commands (1..3 files)
    MaxCommands,  \* how many commands the user types
    Policy,       \* the policy string schedule_by_policy is called with
    MaxPid        \* a bound on the pids the commands can create

ASSUME /\ \A f \in Files : Prog[f] \in Seq({"cmd"} \cup Files)
       /\ Commands \subseteq Seq(Files)
       /\ Policy \in {"FCFS", "SJF", "RR", "RR30", "AGING"}

VARIABLES
    mem,       \* the frame store (FrameStore)
    pcb,       \* pcb[pid]: the PCB and page table of every process created
    live,      \* pids whose PCB is not yet freed
    rq,        \* the ready queue, a sequence of pids
    cur,       \* the node execute_process is running, 0 when none
    iter,      \* the loop index i of execute_process
    busy,      \* a scheduler_* loop is running
    status,    \* "ok", or how the program died: "segfault" or "ub"
    nextPid,   \* pid_counter of pcb.c
    cmdsLeft   \* commands the user has still to type

vars == <<mem, pcb, live, rq, cur, iter, busy, status, nextPid, cmdsLeft>>

\* The text of file f as stored by parseFile: line i is <<f, i>>.
Lines(f) == [k \in 1 .. Len(Prog[f]) |-> <<f, k - 1>>]
KindOf(text) == Prog[text[1]][text[2] + 1]

INT_MAX == 2147483647
Quantum == CASE Policy = "RR"    -> 2
             [] Policy = "RR30"  -> 30
             [] Policy = "AGING" -> 1
             [] OTHER           -> INT_MAX

\* makePCB(0, line_count - 1, filename) with the page table of
\* process_initialize; "ran" records the lines handed to parseInput.
MakePCB(f, tbl) ==
    [file |-> f, PC |-> 0, start |-> 0, end |-> Len(Prog[f]) - 1,
     job_length_score |-> Len(Prog[f]), priority |-> FALSE,
     tbl |-> tbl, ran |-> <<>>]

(* The PCB struct of pcb.h with its QueueNode's page table: lines and     *)
(* line_count are Prog[file], process_name is the file, the pid is the    *)
(* key of pcb; line_ptr is never read or written.                          *)
PCB(P) ==
    /\ P.file \in Files
    /\ P.start = 0 /\ P.end = Len(Prog[P.file]) - 1
    /\ P.PC \in P.start .. P.end + 1
    /\ P.job_length_score \in 0 .. Len(Prog[P.file])
    /\ P.priority \in BOOLEAN
    /\ P.tbl \in [0 .. P.end -> Slots \cup {Unmapped}]
    /\ P.ran \in Seq(Files \X Nat)

(* process_initialize(filename): page table all -1, load_lines of the     *)
(* first 6 lines (3 for programs shorter than 3), then add to the tail.   *)
(* w is [mem, pcb, live, rq, nextPid, ub]; a call after UB does nothing.   *)
ProcessInitialize(w, f) ==
    LET n      == Len(Prog[f])
        pid    == w.nextPid
        loaded == IF n >= 3 THEN 6 ELSE 3
        tbl0   == [i \in 0 .. n - 1 |-> Unmapped]
        r      == LoadLines(w.mem, Lines(f), n, 0, loaded, pid, tbl0)
    IN  CASE w.ub                             -> w
          [] LoadIsUB(w.mem, n, 0, loaded)    -> [w EXCEPT !.ub = TRUE]
          [] OTHER -> [w EXCEPT !.mem = r.mem,
                                !.pcb = w.pcb @@ (pid :> MakePCB(f, r.tbl)),
                                !.live = w.live \cup {pid},
                                !.rq = Append(w.rq, pid),
                                !.nextPid = pid + 1]

World == [mem |-> mem, pcb |-> pcb, live |-> live, rq |-> rq,
          nextPid |-> nextPid, ub |-> FALSE]

SetWorld(w) ==
    /\ mem' = w.mem /\ pcb' = w.pcb /\ live' = w.live /\ rq' = w.rq
    /\ nextPid' = w.nextPid
    /\ status' = IF w.ub THEN "ub" ELSE status

-----------------------------------------------------------------------------
Init ==
    /\ mem = InitStore
    /\ pcb = <<>>
    /\ live = {}
    /\ rq = <<>>
    /\ cur = 0
    /\ iter = 0
    /\ busy = FALSE
    /\ status = "ok"
    /\ nextPid = 1
    /\ cmdsLeft = MaxCommands

(* The ready queue (ready_queue.c, not in the repository) as the design   *)
(* describes it.  sort_ready_queue: a stable sort by job_length_score.    *)
SortReadyQueue(q, pcbs) ==
    LET sc(i) == pcbs[q[i]].job_length_score
        idx   == SortSeq([i \in 1 .. Len(q) |-> i],
                         LAMBDA i, j : sc(i) < sc(j) \/ (sc(i) = sc(j) /\ i < j))
    IN  [k \in 1 .. Len(q) |-> q[idx[k]]]

\* ready_queue_get_shortest_job_score of a non-empty queue.
ShortestScore(q) == Min({pcb[p].job_length_score : p \in ToSet(q)})

\* ready_queue_decrement_job_length_score ages one score, floored at 0.
AgedScore(s) == IF s > 0 THEN s - 1 ELSE 0

\* schedule_by_policy: scheduler_AGING begins with sort_ready_queue; a
\* nested call returns before it (in_background).
StartScheduler(w) ==
    IF Policy = "AGING" /\ ~w.ub
    THEN [w EXCEPT !.rq = SortReadyQueue(w.rq, w.pcb)]
    ELSE w

(* exec f1 [f2 [f3]] (and run f, its one-file form) typed at the shell:   *)
(* every file is initialised in order, then schedule_by_policy starts the *)
(* scheduler loop.  free_framestore after it returns is ExecReturns.      *)
Exec(args) ==
    /\ status = "ok" /\ ~busy /\ cmdsLeft > 0
    /\ SetWorld(StartScheduler(FoldLeft(ProcessInitialize, World, args)))
    /\ busy' = TRUE
    /\ cmdsLeft' = cmdsLeft - 1
    /\ UNCHANGED <<cur, iter>>

\* Mutant: the scheduler loop leaves without looking at the ready queue.
ExecReturnsEarly ==
    /\ status = "ok" /\ busy /\ cur = 0
    /\ mem' = FreeFramestore(mem)
    /\ busy' = FALSE
    /\ UNCHANGED <<pcb, live, rq, cur, iter, status, nextPid, cmdsLeft>>

\* The scheduler loop finds the ready queue empty and returns; exec then
\* calls free_framestore.
ExecReturns ==
    /\ status = "ok" /\ busy /\ cur = 0 /\ rq = <<>>
    /\ mem' = FreeFramestore(mem)
    /\ busy' = FALSE
    /\ UNCHANGED <<pcb, live, rq, cur, iter, status, nextPid, cmdsLeft>>

\* The index in rq of the node the policy pops: the head, or for SJF the
\* first node of smallest job_length_score (ready_queue_pop_shortest_job).
PopIndex ==
    IF Policy = "SJF"
    THEN SelectInSeq(rq, LAMBDA p : \A q \in ToSet(rq) :
                         pcb[p].job_length_score <= pcb[q].job_length_score)
    ELSE 1

\* scheduler_FCFS, _SJF, _RR: pop a node and call execute_process on it.
Dispatch ==
    /\ status = "ok" /\ busy /\ cur = 0 /\ rq # <<>> /\ Policy # "AGING"
    /\ cur' = rq[PopIndex]
    /\ rq' = RemoveAt(rq, PopIndex)
    /\ iter' = 0
    /\ UNCHANGED <<mem, pcb, live, busy, status, nextPid, cmdsLeft>>

(* scheduler_AGING, one round: the head is popped; when the rest holds a  *)
(* smaller score, ready_queue_promote moves the first node of that score  *)
(* to the front, the popped head goes to the tail and the new head is     *)
(* popped instead.                                                         *)
AgingSwitch ==
    Tail(rq) # <<>> /\ ShortestScore(Tail(rq)) < pcb[Head(rq)].job_length_score

PromoteIndex ==
    SelectInSeq(Tail(rq), LAMBDA p : pcb[p].job_length_score = ShortestScore(Tail(rq)))

AgingPick == IF AgingSwitch THEN Tail(rq)[PromoteIndex] ELSE Head(rq)

\* Mutant: the displaced head is not added back to the tail.
AgingQueueNoTail ==
    IF AgingSwitch THEN RemoveAt(Tail(rq), PromoteIndex) ELSE Tail(rq)

AgingQueue ==
    IF AgingSwitch THEN Append(RemoveAt(Tail(rq), PromoteIndex), Head(rq))
    ELSE Tail(rq)

\* The round then ages every node left in the queue and runs the pick.
DispatchAging ==
    /\ status = "ok" /\ busy /\ cur = 0 /\ rq # <<>> /\ Policy = "AGING"
    /\ cur' = AgingPick
    /\ rq' = AgingQueue
    /\ pcb' = [p \in DOMAIN pcb |->
                 IF p \in ToSet(AgingQueue)
                 THEN [pcb[p] EXCEPT !.job_length_score = AgedScore(@)]
                 ELSE pcb[p]]
    /\ iter' = 0
    /\ UNCHANGED <<mem, live, busy, status, nextPid, cmdsLeft>>

\* Mutant: scheduler_RR that does not put the node back.
RequeueDrop(p) == rq

\* execute_process returned false: RR puts the node back at the tail,
\* AGING at the head; FCFS and SJF drop it.
Requeue(p) == CASE Policy \in {"RR", "RR30"} -> Append(rq, p)
                [] Policy = "AGING"         -> <<p>> \o rq
                [] OTHER                    -> rq

(* One iteration of execute_process's loop on the line at PC.             *)
(* A miss loads 3 lines from PC and returns false.                         *)
StepMiss ==
    LET P == pcb[cur]
        r == LoadLines(mem, Lines(P.file), Len(Prog[P.file]), P.PC, 3, cur, P.tbl)
    IN  /\ status = "ok" /\ cur # 0 /\ iter < Quantum
        /\ FetchOutcome(mem, P.PC, P.tbl, cur) = "miss"
        /\ IF LoadIsUB(mem, Len(Prog[P.file]), P.PC, 3)
           THEN /\ status' = "ub"
                /\ UNCHANGED <<mem, pcb, rq, cur>>
           ELSE /\ mem' = r.mem
                /\ pcb' = [pcb EXCEPT ![cur].tbl = r.tbl]
                /\ rq' = Requeue(cur)
                /\ cur' = 0
                /\ UNCHANGED status
        /\ UNCHANGED <<live, iter, busy, nextPid, cmdsLeft>>

\* mem_get_value_at_line dereferences the slot's NULL pid pointer, or reads
\* page_tbl[PC] past the table's end: the program dies.
StepFault ==
    /\ status = "ok" /\ cur # 0 /\ iter < Quantum
    /\ FetchOutcome(mem, pcb[cur].PC, pcb[cur].tbl, cur) \in {"segfault", "ub"}
    /\ status' = FetchOutcome(mem, pcb[cur].PC, pcb[cur].tbl, cur)
    /\ UNCHANGED <<mem, pcb, live, rq, cur, iter, busy, nextPid, cmdsLeft>>

(* parseInput(line) for "exec F" inside a program: process_initialize(F), *)
(* schedule_by_policy("RR") returns 0 at once (in_background is set), then *)
(* exec calls free_framestore.  Other commands leave the kernel alone.     *)
ParseInput(w, text) ==
    IF KindOf(text) = "cmd" THEN w
    ELSE LET w1 == ProcessInitialize(w, KindOf(text))
         IN  IF w1.ub THEN w1 ELSE [w1 EXCEPT !.mem = FreeFramestore(w1.mem)]

(* A hit: the access time is refreshed, PC advances, the line is run; past *)
(* the end the process is terminated (terminate_process frees the pages    *)
(* of its range and the PCB) and execute_process returns true.             *)
StepHit ==
    LET P    == pcb[cur]
        text == FetchText(mem, P.PC, P.tbl)
        m1   == Touch(mem, P.PC, P.tbl)
        pcb1 == [pcb EXCEPT ![cur].PC = @ + 1, ![cur].priority = FALSE,
                            ![cur].ran = Append(@, text)]
        w    == ParseInput([World EXCEPT !.mem = m1, !.pcb = pcb1], text)
        done == P.PC + 1 > P.end
    IN  /\ status = "ok" /\ cur # 0 /\ iter < Quantum
        /\ FetchOutcome(mem, P.PC, P.tbl, cur) = "hit"
        /\ IF done /\ ~w.ub
           THEN /\ mem' = MemFreeLinesBetween(w.mem, P.start, P.end, P.tbl)
                /\ pcb' = w.pcb /\ rq' = w.rq /\ nextPid' = w.nextPid
                /\ live' = w.live \ {cur}
                /\ status' = IF FreeIsUB(P.tbl, P.start, P.end) THEN "ub" ELSE "ok"
                /\ cur' = 0
                /\ UNCHANGED iter
           ELSE /\ SetWorld(w)
                /\ iter' = iter + 1
                /\ UNCHANGED cur
        /\ UNCHANGED <<busy, cmdsLeft>>

\* The loop ran Quantum iterations: execute_process returns false.
QuantumExpired ==
    /\ status = "ok" /\ cur # 0 /\ iter = Quantum
    /\ rq' = Requeue(cur)
    /\ cur' = 0
    /\ UNCHANGED <<mem, pcb, live, iter, busy, status, nextPid, cmdsLeft>>

SchedulerStep == Dispatch \/ DispatchAging \/ StepMiss \/ StepFault \/ StepHit \/ QuantumExpired \/ ExecReturns

Next == (\E args \in Commands : Exec(args)) \/ SchedulerStep

\* The scheduler is one thread that never blocks: once it can take a step
\* it takes one.  The user is under no obligation to type a command.
Spec == Init /\ [][Next]_vars /\ WF_vars(SchedulerStep)

-----------------------------------------------------------------------------
TypeOK ==
    /\ status \in {"ok", "segfault", "ub"}
    /\ live \subseteq DOMAIN pcb
    /\ \A p \in DOMAIN pcb : PCB(pcb[p])
    /\ ToSet(rq) \subseteq DOMAIN pcb
    /\ cur \in {0} \cup DOMAIN pcb
    /\ busy \in BOOLEAN
    /\ \A s \in Slots : mem.slot[s].occ = (mem.slot[s].pid # NoPid)

\* No fetch dereferences the NULL pid of an emptied slot
\* (mem_get_value_at_line) while a process still maps it.
NoSegfault == status # "segfault"

\* load_lines and mem_free_lines_between never index the frame store with
\* -1 or with an uninitialised candidate: capacity pressure is always
\* resolved by eviction.
NoUndefinedBehaviour == status # "ub"

\* Terminating a process (terminate_process -> mem_free_lines_between)
\* releases only frame slots that hold lines of that process: a slot its
\* page table still names but that eviction has since given to another
\* process is left alone.
TerminationFreesOnlyOwn ==
    [][cur # 0 /\ cur \notin live' =>
         \A s \in Slots : mem.slot[s].occ /\ ~mem'.slot[s].occ
                          => mem.slot[s].pid = cur]_vars

\* No frame slot stays bound to a process that has terminated: destroying a
\* process releases every slot still holding one of its lines.
NoOrphanSlots == \A s \in Slots : mem.slot[s].occ => mem.slot[s].pid \in live

\* A live process is either running or waiting in the ready queue, exactly
\* once: no node is lost or duplicated by the scheduler.
NoLostProcess ==
    /\ \A p \in live : (p = cur) # Contains(rq, p)
    /\ \A i, j \in 1 .. Len(rq) : rq[i] = rq[j] => i = j
    /\ ToSet(rq) \subseteq live

\* An AGING round (scheduler_AGING) lowers the score of every ready node by
\* one, floored at 0, the node it is about to run included.
AgingAgesEveryReadyNode ==
    [][Policy = "AGING" /\ cur = 0 /\ cur' # 0 =>
         \A p \in ToSet(rq) :
             pcb'[p].job_length_score = AgedScore(pcb[p].job_length_score)]_vars

\* The kernel implements Batch: a process's file, PC and the lines handed
\* to parseInput are the abstract process; every other step (dispatch,
\* fault, load, quantum expiry, the scheduler's return) is a stutter.
BatchProc == [p \in DOMAIN pcb |-> [file |-> pcb[p].file, pc |-> pcb[p].PC,
                                    ran |-> pcb[p].ran]]

Abstract == INSTANCE Batch WITH proc <- BatchProc

\* Run under the kernel's scheduling, every behaviour of the batch is one
\* Batch allows: lines run in order, once each, exec lines start their
\* process, and every process finishes.
BatchRefinement == Abstract!Spec

\* Every process that is created eventually terminates, unless the program
\* has died.
AllTerminate == \A p \in 1 .. MaxPid : (p \in live) ~> (p \notin live \/ status # "ok")
=============================================================================
