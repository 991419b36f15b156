# TLA+ model of the OS_Projects shells and paging kernel

This directory holds TLA+ models of the teaching kernel in `src/Paging` and of
the two command interpreters of the repository, and of the disk-image
file-system utilities of `src/Filesystem`. The kernel is a paging frame
store with LRU eviction, plus a multi-policy scheduler that runs text programs
one line at a time. The paging shell keeps variables in a fixed-size store;
the plain shell of `src/Shell` adds nested `if` and `for` statements. Each
module is translated from the C source. The TLC configurations check the
behaviours that unit tests rarely reach.

## 1. Inventory

### Components and their state

| Component | Source | State | Operations |
|---|---|---|---|
| Frame store | `shellmemory.c` 8-302, `shellmemory.h` | `framestore[PAGE_FRAME_COUNT]`: each slot has a `pid` pointer, a `line`, the `PC` of the line and an `accessTime`. `page_is_used[frames]`. `globalClock`. | `init_framestore`, `free_framestore`, `evict_page`, `load_lines`, `mem_get_value_at_line`, `mem_free_lines_between`/`free_process_page`, `print_framestore` |
| PCB | `pcb.c`, `pcb.h` (the `PCB` struct is Kernel's `PCB(P)`, part of its type invariant) | `pid`, `PC`, `start`, `end`, `job_length_score`, `priority`, `lines`, `line_count`, plus `pid_counter` | `generatePID`, `makePCB`, `freePCB` |
| Page table | `kernel.c` 129-131 | one `int` per program line; `-1` means unmapped | written by `load_lines`, read by `mem_get_value_at_line` and `free_process_page` |
| Ready queue | `ready_queue.c` (not in the repository) | a queue of `QueueNode {pcb, page_tbl}` | add to tail or head, pop head, pop shortest job, promote, decrement scores, sort, destroy |
| Process creation | `kernel.c` 114-190 | none of its own | `process_initialize` (parse the file, build the page table, make the PCB, load the first 6 lines, add to tail), `shell_process_initialize` |
| Execution step | `kernel.c` 192-237 | the node being run and the loop index | `execute_process(node, quanta)` |
| Scheduler | `kernel.c` 239-386 | the flags `active` and `in_background` | `schedule_by_policy` with FCFS, SJF, RR (quantum 2), RR30 and AGING |
| Paging command interpreter | `Paging/interpreter.c` | the host's working directory, directories and files | `exec`, `run` (create processes, schedule with `"RR"`, then `free_framestore`), `quit`, and the variable and host-file commands |
| Variable store | `shellmemory.c` 304-406 | `varmemory[VAR_MEM_SIZE]` | `mem_set_value`, `mem_get_value` |
| Plain shell | `Shell/interpreter.c` | its shell memory (in a `shellmemory.c` that is not in the repository) and the host's working directory and files | `interpreter`, `if_statement`, `for_statement`, `get_next_token`, `set`, `print`, `echo`, `run` of a script file, host-file commands |
| Disk-image file system | `Filesystem/fs/fsutil2.c` (its library `fsutil.c`, `inode.c`, `directory.c`, `free-map.c` is not in the repository) | the disk's sectors, the free map, the root directory, and the host's files | `copy_in`, `copy_out`, `find_file`, `fragmentation_degree`, `defragment`, `defragment_`, `recover(0/1/2)` |

### How the components interact

Everything runs on one thread. The user types `exec f1 f2 f3` or `run f`:

1. `process_initialize` creates each process.
2. `schedule_by_policy("RR")` runs the scheduler loop until the ready queue is empty. `exec` and `run` always pass `"RR"`, so the other policies are only reachable through a direct call.
3. `free_framestore` then empties the store.

In the scheduler loop, `execute_process` fetches each line through the page table with `mem_get_value_at_line`:

- **On a miss**, it calls `load_lines` for 3 lines starting at PC and returns `false`. RR then requeues the node at the tail.
- **On a hit**, it advances PC and passes the line to `parseInput`. That line can itself be `exec`. The nested `schedule_by_policy` then returns at once because `in_background` is set, but `exec` still calls `free_framestore`.
- **Past the last line**, `terminate_process` frees the pages of the PCB's range and the PCB itself.

The file-system utilities do not touch the kernel. The shell calls them one at a time on the disk image. They interact with each other through the disk: `recover0` resurrects the stale inodes that `rm` and `defragment` leave in free sectors, and `defragment` moves files that `recover0` named after their old sector.

Processes share the store only through eviction. A slot one process's page table maps can be given to another process. Only the `(pid, PC)` check in `mem_get_value_at_line` detects this.

### What is hard

The difficulty is ordering across processes, not threads:

- Which frame LRU evicts depends on every earlier access by every process.
- Page tables are never invalidated when a slot is evicted, so they go stale.
- `page_is_used` is sticky: it is cleared only by `free_framestore`.
- Termination frees slots through the stale page table.
- A load's size can exceed the free space.
- A nested `exec` empties the store under the running scheduler.
- A fault returns control to the scheduler, and each policy handles the `false` return differently.

### Properties that make each part correct

- **Frame store**
  - A fetch returns the requested line of the requesting process, and nothing else (part of `BatchRefinement`: `Batch` runs line `pc` of the process's own file).
  - No access uses an emptied slot (`NoSegfault`).
  - Every load is satisfiable by eviction, with no undefined behaviour (`NoUndefinedBehaviour`).
  - Terminating a process releases only its own slots (`TerminationFreesOnlyOwn`) and all of them (`NoOrphanSlots`).
- **Scheduler and ready queue**
  - No live process is lost or duplicated (`NoLostProcess`).
  - Every process eventually terminates (`AllTerminate` under AGING and FCFS; under RR it is part of `BatchRefinement`, whose `Batch` is fair to every process).
- **Kernel as a whole**
  - It implements the abstract batch specification `Batch` (`BatchRefinement`).
- **AGING**
  - Each round ages every node still ready, as the spec says (`AgingAgesEveryReadyNode`).
- **Variable store and paging shell**
  - Shell memory behaves as a dictionary (`MemoryRefinement`, against `ShellMemory`).
- **Plain shell**
  - Nested statements are split where their grammar says, and `run` of a script does what typing its lines does (`ParsesAsGrammar`).
  - No line makes the interpreter read past its tokens (`NoUndefinedBehaviour` of ShellScript).

`PROJECT.json` lists the hazards, each at the line where it bites.

## 2. Modules

### `FrameStore.tla` (shellmemory.c, frame part)

A store is a record `[slot, used, clock]`:

- `slot[s]` is `[occ, pid, pc, text, time]`. The `line` string is abstracted to the identity `<<file, index>>` of the program line it copies. `NoPid` and `NoText` stand for the NULL pointers.
- `used[f]` is `page_is_used[f]`.
- `clock` is `globalClock`.

Each C function is an operator from a store (and a page table) to the store after the call, so that Kernel actions can compose the calls a handler makes:

- `EvictPage` keeps the scan order and tie-break of `evict_page`, and stops releasing at the first empty slot of the victim frame.
- `LoadLines` keeps the candidate scan over unused frames (`ScanStop`: for a program with no line left, only `line_count` stops the scan), the single eviction, and the overwrite of the first `min(line_count, 3)` candidates.
- `LoadIsUB` says when `load_lines` would index the store with `-1` or with an uninitialised candidate.
- `FetchOutcome` gives the outcomes of `mem_get_value_at_line`: a read of `page_tbl[PC]` past a zero-size table (`"ub"`), miss, NULL-pid dereference, pid mismatch and PC mismatch.
- `MemFreeLinesBetween` frees whatever slot each page-table entry names, bounded by `TotalPageCount`.

### `Kernel.tla` (kernel.c, pcb.c, interpreter.c `exec`/`run`)

Variables:

- `mem`: the store.
- `pcb[pid]`: the PCB with its page table `tbl`, its `job_length_score`, and `ran`, the lines handed to `parseInput` (a history variable).
- `live`: pids whose PCB is not yet freed.
- `rq`: the ready queue.
- `cur` and `iter`: the node `execute_process` is running, and its loop index.
- `busy`: a scheduler loop is running.
- `status`: `"ok"`, `"segfault"` or `"ub"`. After a crash no action is enabled.
- `nextPid`: `pid_counter`.
- `cmdsLeft`: commands the user has still to type.

Actions:

- `Exec(args)`: the shell's `exec`/`run`, with every `process_initialize` folded in order, then `schedule_by_policy`. Under AGING this includes the `sort_ready_queue` that `scheduler_AGING` starts with (`StartScheduler`).
- `Dispatch`: FCFS, SJF and RR pop a node (the head, or the shortest job for SJF).
- `DispatchAging`: one round of `scheduler_AGING`. The head is popped. If the rest holds a smaller score, the first node of that score is promoted and popped, and the old head goes to the tail. Then the queue is aged, which excludes the node just popped.
- `StepMiss`, `StepHit` and `StepFault`: one iteration of the loop in `execute_process`. `StepHit` includes `parseInput` of an `exec` line (`ParseInput`) and termination. `StepFault` is the NULL-pid dereference or the read past an empty page table.
- `QuantumExpired`: the loop ran out of iterations. The quantum is 2 for RR, 30 for RR30, 1 for AGING, and `MAX_INT` for FCFS and SJF.
- `ExecReturns`: the queue is empty, so the loop returns and `exec` calls `free_framestore`.

A failed `execute_process` is requeued by `Requeue`: at the tail for RR, at the head for AGING, and not at all for FCFS and SJF.

A program is a sequence of line kinds. `"cmd"` is any command without effect on the kernel. A file name `F` is the line `exec F`.

`terminate_process` and `ready_queue.c` are not in the repository. Following the spec, termination is modelled as `mem_free_lines_between(start, end, page_tbl)` plus freeing the PCB. The ready-queue operations are sequence operations:

- `ready_queue_pop_shortest_job` and `ready_queue_promote` take the first node of minimum score.
- `sort_ready_queue` is a stable sort (`SortReadyQueue`).
- The decrement is floored at 0 (`AgedScore`), the floor the spec leaves to the implementer.

### `Batch.tla`: what the kernel promises

`Batch` is the abstract specification of the kernel. Each command starts processes for its files once the previous command's processes have finished. A process runs its program's lines once each, in order. An `exec F` line starts a process for `F`. A process leaves after its last line. Weak fairness of each process's `Run` says every process finishes. Memory, faults, the ready queue and quanta are invisible.

Kernel maps onto it through `BatchProc`, which gives each pid's file, PC and the lines it has run: `Abstract == INSTANCE Batch WITH proc <- BatchProc`. Dispatch, faults, loads and quantum ends are stuttering steps of Batch. `StepHit` is a `Run`, and `Exec` is a `Submit`.

### `VarStore.tla` and `Interpreter.tla` (paging shell: shellmemory.c variable part and interpreter.c)

`VarStore` models `varmemory[VAR_MEM_SIZE]` as a function from index to `[var, value]`:

- `MemSetValue` updates the first entry holding the name. Failing that, it fills the first unused entry. Failing that too, it leaves the store unchanged, with no error.
- `MemGetValue` returns the first entry's value, or NULL.
- `VarmemoryInit` is `varmemory_init`, and also `varmemory_free` followed by `varmemory_init`.

A value is the sequence of words `set` joined with spaces.

`Interpreter` is `interpreter()` on one line of tokens:

- `TokenError` is its token-count checks in the code's order, including the fall-through of a 5-token `exec` to "bad command".
- The actions are `Reject`, `Set`, `PrintValue`, `Echo`, `MyMkdir`, `ResetMem`, `Quit`, `Help`, `MyLs`, `MyTouch` and `MyCd`.
- The host commands act on `host`: the working directory and the sets of directory and file paths below where the shell starts (whose `..` is taken to be itself).
  - `MyMkdir` of a `$name` refuses an unset or many-word value (ERROR_MKDIR); otherwise it runs `mkdir` of the value, as `my_mkdir` of a plain name runs `mkdir` of the name. `mkdir` of an existing name changes nothing.
  - `MyTouch` makes an empty file where nothing is. `MyCd` changes directory when `stat` finds a directory, and otherwise reports ERROR_CD. `MyLs` shows the set of names in the working directory (`ls | sort` prints them in order).
- `ev` records what the user saw from the last command.

### `ShellMemory.tla`: what shell memory promises

`ShellMemory` is a dictionary from names to values with the same commands. `HostCommand` is the abstract step of the host commands: they show something and leave every binding alone. The Interpreter implements it through `dict <- [k \in Vars |-> MemGetValue(vm, k)]` (`MemoryRefinement`). The history variable `ev` makes a `set` that changed nothing visible, rather than a stuttering step.

### `ShellScript.tla` (src/Shell/interpreter.c)

The plain shell's `interpreter()` is the mutually recursive operator `Interp(tokens, memory, d)`, with `IfStatement`, `ForStatement`, `Repeat` (the `for` loop) and `Run`. Here `d` is the number of script files `run` has open. Its result is the memory after the line, what it printed, and whether it quit or met undefined behaviour:

- `GetNextToken` is `get_next_token`: a scan that counts `for`/`if` up and `done`/`fi` down, and stops at a terminator at depth 0.
- `Ident` is `preprocess_ident`.
- `IsNumeric` and `Atoi` treat the empty string as the code does: numeric, with value 0.
- `Run` is `run`. A script file (`Scripts[f]`) is its lines as token sequences, plus whether its last line ends in a newline; `parseInput` in `shell.c`, not in the repository, is taken to split a line at spaces.
  - `fopen` fails on a missing file, or when `OpenMax` scripts are open (the descriptor limit that stops a script that runs itself).
  - `ReadLines` is the `fgets`/`feof` loop. A last line ending in a newline is followed by one more, empty, parse.
  - An empty file leaves `line[]` uninitialised, which is undefined behaviour.

- The host commands act on a file tree: `host` holds the working directory `cwd`, the set of directory paths and the set of file paths, a path being its names from `/` (where the shell starts; the scripts are files there).
  - `MyMkdir` is `mkdir`, which fails with "Bad command: my_mkdir" when the name exists.
  - `MyTouch` is `touch`, which creates an empty file where nothing is, and otherwise changes nothing.
  - `MyCd` is `chdir`, which fails with "Bad command: my_cd" unless the name is a directory.
  - `MyCat` prints a file's lines, and fails with "Bad command: my_cat" on a directory or a missing name. `MyLs` prints the names in `cwd`.
  - `run` opens its script relative to `cwd`, so after `my_cd d` the scripts of `/` are not found. A directory opens (`fopen` of a directory succeeds for reading on Linux) and, like an empty file, reads no line, so the first parse reads the uninitialised `line[]`. The model stops there; past it, `fgets` on a directory sets the error indicator and never end-of-file, so the loop would not end.

The one action, `Interpret(l)`, is the shell handing one line to `interpreter()`. Its state is the shell memory `mem` and the host tree `host`.

The module also holds the reference for the parser:

- A statement tree is a simple command, an `if` with two bodies, a `for` with one body, or a `run` of a script whose lines are the trees `ScriptTrees[f]`.
- `Flatten` writes a tree out as tokens.
- `RefEval` runs a tree by its structure; a script's trees run one after the other, as if typed.

`ParsesAsGrammar` checks that interpreting the flattened line does what `RefEval` says. A simple command, a host command among them, is its own reference, so the property checks the parser and `run`'s reading of a script, not the host commands themselves.

### `FileSys.tla` (src/Filesystem/fs/fsutil2.c)

The file-system library is not in the repository. The module's header states what its calls are taken to do, as in the Pintos file system whose headers `fsutil2.c` includes:

- sectors 0-3 hold the free map and the root directory, which is why `recover1` starts at 4;
- a sector is allocated alone, lowest free first, and zero-filled, with the inode sector before the data;
- `rm` closes the file, drops the directory entry and releases the sectors without erasing them;
- `fsutil_seek`, `fsutil_read` and `fsutil_write` act on the open file of that name, opening it at position 0 when it is not open, and start at its position; only a close resets it, as `copy_out`'s comment says.

These library operators (`Place`, `Rm`, `Close`, `Pos`, `ReadFrom`, `Content`, `DataSectors`) have no map entry.

The state is:

- `disk`: each sector is an inode `[magic, length, blocks]` or data `[bytes]`;
- `used`: the free map;
- `dir`: the root directory, in readdir order;
- `opened`: the open files and their positions;
- `host`: the host's files.

Each function of `fsutil2.c` is an operator from that state to a `Result` (new state, return code, output), and each call is an action:

- `CopyIn` writes byte by byte with its trailing NUL, and stops at the first write that finds no sector. It leaves the file open one byte before the loop's last index (its `fsutil_close` is commented out). For an empty host file that position is -1, which is `ub`.
- `CopyOut` closes the file first, so it reads from 0, and writes the host file up to the first NUL.
- `FindFile` reads each file from its open position and closes it.
- `FragmentationDegree` and `Recover2` end in `ub` on a file of length 0.
- `Defragment(S, fill)` reads all files, removes all, then creates each. Each read starts at the open position, so a file left open gives only its last bytes. The rest of the malloc'd buffer is `fill`: NUL or `Junk`, a byte that is not NUL. Each new file is left open at its end.
- `Defragment_` does the same round trip through the host.
- `Recover0` scans the sectors in order and resurrects each free inode; `Recover0At` is one resurrection.
- `Recover1` and `Recover2` only write host files (output).
- `rm` is the library's `fsutil_rm`.

### MC modules

- `MCKernel.tla`:
  - Files `f1` to `f9` are 1- to 9-line programs of plain commands.
  - `x3` runs `exec f2` as its second line.
  - The command sets are: all pairs, pairs of any program followed by a 1- or 2-line one, the twin `f7 f7`, the triple `f4 f4 f4`, and `x3 f4`.
- `MCInterpreter.tla`: names `x`, `y` and `z`, words `a` and `b`, every well-formed memory command, lines for each token error, and `help`, `my_ls`, `my_mkdir d`, `my_touch d`, `my_cd` of `d`, `a` and `..`. A state constraint keeps the working directory one level deep and the tree at two names, and explores a changed tree beside at most one variable in use; without it the state space passes a million states.
- `MCFileSys.tla`:
  - 10 sectors of 3 bytes, 6 of them free;
  - host files `f` (1 byte, one data sector on disk) and `g` (4 bytes, two data sectors);
  - one pattern;
  - at most `MaxFiles` = 2 files in the directory at once (a state constraint);
  - a `VIEW` without the last call, its return code and its output, which no later step reads;
  - at most `MaxCalls` = 12 calls per behaviour, counted by the MC module's own variable `calls`. With open positions, corrupted contents and host copies of them, the state space has no small bound otherwise;
  - the uninitialised bytes of `defragment`'s buffer taken to be NUL (`MCFills`). With `Junk` as well, the run takes more than 3 minutes at 10 calls.
- `MCShellScript.tla`: names `x` and `y`, words `a`, `0` and `2`, five simple commands, `if` and `for` statements over them, statements nested two deep, `quit`, and one `for` without `done`.
  - Script files: `s1` sets and echoes `x`; `s2` holds a `for` and runs `s1`; `s3` has an error line, then `quit` before a last line.
  - Other script files: `loop` runs itself, `nl`'s line ends in a newline, and `e` is empty. These have no statement trees.
  - `s4` runs `my_cd d` and then `run s1`, which is then not found.
  - `OpenMax` = 2, so `s2` can open `s1`, and `loop` reaches the limit.
  - Host commands on one name `d`: `my_mkdir d`, `my_cd d`, `my_cd ..`, `my_touch d`, `my_cat d`, `my_cat s1`, `my_ls`, and `run d` (an empty file or a directory). One name that can be a directory, a file or nothing, inside `/` and inside `d`, reaches every outcome of every host command.
  - A state constraint keeps `cwd` within one level of `/` and, once the host has changed, at most one variable in memory. Without it the run takes several minutes.

## 3. Runs and what they show

| Run | cfg | Expect | Shows |
|---|---|---|---|
| rr_small_store | MCKernel.cfg | pass | RR on a 2-frame (6-slot) store, over two commands in a row, each any program followed by a 1- or 2-line one. These are exactly the pairs whose initial loads fit. Eviction constantly reuses slots, including slots of a process's own unexecuted lines. The run checks four properties: `TypeOK`; `NoOrphanSlots` (no slot stays bound to a terminated process); `NoLostProcess` (no node is lost or duplicated); `BatchRefinement` (the kernel implements `Batch`: each process runs exactly its own lines in order, and, under the scheduler's weak fairness, every process finishes). |
| aging_rounds | MCKernel_aging.cfg | pass | AGING over two commands, each any pair of programs, on 2 frames. Promotion, tail and head re-insertion never lose or duplicate a node. Every process finishes, or the program dies. Some pairs reach the NULL-pid fetch: the short program runs first and terminates, freeing slots that the long program's stale table still maps. |
| twin_foreign_release | MCKernel_twin.cfg | violation | `exec f7 f7` with 15 slots. P2's fault evicts P1's first frame and loads its line 6 into slot 0. P1 then terminates and frees slot 0 through its stale `page_tbl[0]`. P2's next fetch dereferences the NULL pid. This is a code bug at `shellmemory.c:273`. |
| nested_exec_crash | MCKernel_nested.cfg | violation | `exec f2` inside a program empties the store under the running scheduler. The next fetch crashes at `interpreter.c:334`. |
| triple_initial_load_ub | MCKernel_triple.cfg | violation | On 4 frames, the third of three 4-line programs needs two frames when none is free. `load_lines` evicts one frame and uses uninitialised candidates (`shellmemory.c:194`). |
| fcfs_drops_faulted | MCKernel_fcfs.cfg | violation | FCFS (and SJF) drop a node after its page fault, so its program never finishes (`kernel.c:252`). |
| aging_running_not_aged | MCKernel_agingscore.cfg | violation | `scheduler_AGING` pops the node it runs before `ready_queue_decrement_job_length_score`. That node, though ready when the round began, is not aged. The spec says every still-ready node loses exactly k after k rounds (`kernel.c:319`). |
| shell_memory | MCInterpreter.cfg | pass | With 3 entries for 3 names, `set`, `print`, `echo`, `my_mkdir $v`, `resetmem` and every token error implement the `ShellMemory` dictionary, and the host commands (`my_mkdir $v` among them, which also makes a directory `my_cd` can enter) leave it alone. |
| shell_nesting | MCShellScript.cfg | pass | In the plain shell, every well-formed line, with statements nested two deep, does what its statement tree says (`ParsesAsGrammar`). `run` of a script, inside a `for` or running another script, does what typing its lines does, and `quit` in a script ends the shell. Host commands change the working directory `run` resolves names against. |
| shell_unclosed_for | MCShellScript_unclosed.cfg | violation | `for 2 do set x a` has no `done`. `get_next_token` returns the count it scanned, not -1, and `for_statement` reads `command_args[args_size]` (`Shell/interpreter.c:440`). |
| fs_utilities | MCFileSys.cfg | pass | Any sequence of up to 12 calls of copy in/out, find, fragmentation degree, both defragments, the three recoveries and `rm` keeps the disk consistent (46,330 states). `TypeOK` includes that host files hold no NUL. `FilesOwnUsedSectors`: every sector of a file is marked in the free map, and no two files share one. `DefragmentPacks`: a defragment that returns 0 while the free map marks only files' sectors keeps every file's name and leaves no file fragmented. It does not keep their bytes: `copy_in f`, `copy_in g`, `defragment` rewrites `g` from the position `copy_in` left it open at (`fsutil2.c:372`). TLC finds that in three steps, and the hazard list records it. After the `recover0` leak, `defragment_` loses a file: it ignores `copy_in` failing for want of room and still returns 0 (`fsutil2.c:490`). |
| fs_recover_leak | MCFileSys_leak.cfg | violation | `copy_in f`, `copy_in g`, `rm f`, `recover 0` (makes `recovered0-4`), `defragment` (moves it to sector 7), `rm g`, `recover 0`. Sector 4 now holds `g`'s stale inode. `dir_add("recovered0-4")` fails because the name exists, but `recover0` marks the sectors in use anyway, and no file owns them (`fsutil2.c:533`). A longer trace shows the consequence: `defragment` can no longer pack around the leaked sectors. |

Each property of a passing run has a mutant in `PROJECT.json`. Each mutant is a plausible bug in the code that makes TLC report the property violated under that run's cfg:

- the PC check dropped from the fetch;
- the pid pointer kept when a slot is freed;
- an off-by-one in the free loop;
- a missing requeue;
- AGING forgetting to put the displaced head back;
- the end of a program taken one line early;
- `mem_set_value` without its lookup of an existing name;
- `get_next_token` without its depth count;
- `run` leaving its loop at the first line that printed an error;
- `copy_out` writing all `filesize` bytes (the commented-out `fwrite`) instead of stopping at the NUL;
- `recover0` marking only the inode sector;
- `defragment` removing and recreating one file at a time.

Checking `BatchRefinement` under AGING on 2 frames also fails. That trace ends in the NULL-pid fetch at `shellmemory.c:238`, which `nested_exec_crash` already shows, so it is not kept as a run.

### Bounds

- **Stores of 2, 3, 4 and 5 frames.** Initial loads take up to 2 frames per program, so 2 frames force eviction from the second program on. 4 frames fit any pair. 5 frames is the size at which the foreign-release crash appears.
- **Programs of 1 to 9 lines.** These cover:
  - a program shorter than 3 lines (a 3-line initial window);
  - programs of 3 to 6 lines (fully loaded at start);
  - 7 to 9 lines, which need one fault-driven load;
  - on 2 frames, lines past `TotalPageCount`;
  - an empty program.
- **One or two commands per run.** Two commands in a row show that the pids and the clock carry over `free_framestore`, and that the refinement holds across commands.
- **Variable store of 3 entries for 3 names,** so every name can be set.
- **A disk of 10 sectors.** `getNumberOfFragmentedFiles` calls two data sectors more than 3 apart fragmented. The first free sector is 4, so the smallest disk that can fragment a file has 10 sectors (data at 5 and 9). Two host files of one and two data sectors are enough for holes, stale inodes, recovery and moves. Two files at once, recovered ones included, reach every trace above. Without that bound, repeated recoveries grow the state space past what TLC finishes in minutes.
- **Statements nested two deep** (a `for` around an `if`, an `if` around a `for`, an `if` inside an `else`), with counts 0, 2 and a variable. Each nesting level is scanned by the same depth counter, so two levels already make it tell nested terminators from the outer one.

### Fairness

`WF_vars(SchedulerStep)` applies to the scheduler actions. The scheduler is a single thread that never blocks: the `active` busy-wait branch is dead, because `active` is never set. Whenever it can take a step, it takes one. The user is under no obligation to type a command, so `Exec` is not fair. The shells and the file-system utilities have no fairness: a user may stop typing.

`CHECK_DEADLOCK FALSE`: the system really stops, either when the shell waits for input after the last command, or after `quit`, or when the program has crashed (for `FileSys`, after undefined behaviour). `AllTerminate` checks that the scheduler does not stop early.

## 4. Not modelled

- **`scheduler_AGING_alternative`**: it is never called.
- **`shell_process_initialize`** (`kernel.c:165`): its caller, the `#` batch option in `shell.c`, is not in the repository. The hazard at `kernel.c:175` stays without a property.
- **The host outside the shell's tree**: `my_ls` lists what `ls` finds, here only what the shell made and the scripts; permissions, `touch` of a path whose directory is missing, and names with `/` are not modelled. `help` is an abstract output.
- **Lines of 999 bytes or more in a script**: `fgets(line, 999, p)` splits them in two. Lines are token sequences, so lengths are not modelled.
- **A script ending in a newline** (`Shell/interpreter.c:240`): `run` prints an extra "Unknown Command" after its last line. `ParsesAsGrammar` fails at once on such a script with a tree. The passing run gives trees only to scripts without a final newline; the hazard list records the trace TLC gives with `nl` as a tree.
- **String buffers** (`set`'s `buffer[1000]`, `if`'s `lhs[200]`): values are word sequences, so lengths are not modelled.
- **`globalClock` overflow**: it needs 2^31 accesses.
- **Thrashing** (`kernel.c:205`): with `exec f1 f1 f1` on 2 frames under RR, TLC follows one behaviour for more than 40,000 steps without the scheduler finishing. `globalClock` grows on every load, so no state repeats and TLC cannot close the cycle without an abstraction of the clock. The passing runs start two processes per command, where it does not happen.
- **The file-system library** (`fsutil.c`, `inode.c`, `directory.c`, `free-map.c`, `buffer cache`): it is not in the repository, so `FileSys` assumes its behaviour, as described in its header. Not modelled:
  - what a seek to -1 does (`copy_in` of an empty host file);
  - indirect blocks;
  - failures of `malloc`, `fopen` or the disk.
- **The raw bytes of an inode that `recover1` writes out**: they are an abstract token.
- **`defragment`'s `realloc` at 100 files**: it needs a directory of 100 files.

## 5. Plan

Done items are marked ✓.

1. ✓ `FrameStore` and `Kernel` with RR, RR30, FCFS and SJF, `exec`/`run`, nested `exec`.
2. ✓ AGING, the ready-queue sort, promote and decrement, and the spec's ageing property.
3. ✓ The abstract `Batch` specification and the kernel's refinement of it. ✓ The variable store, the paging shell and its `ShellMemory` refinement. ✓ The plain shell's statement parser against its grammar. ✓ The plain shell's `run` of script files and its host commands. ✓ The paging shell's host commands.
4. **A standalone FrameStore client spec.** Arbitrary sequences of `load_lines`, `mem_get_value_at_line`, `mem_free_lines_between` and `free_framestore` calls by a few pids, to reach store states the kernel's scheduling does not produce. For example, `evict_page` finding no occupied slot (`shellmemory.c:111`).
5. **An abstract paged-memory specification.** Fetching line i of a process returns line i. The kernel would refine it on configurations without the foreign release.
6. ✓ The disk-image utilities of `fsutil2.c` over an assumed Pintos-style library.
7. **Undefined behaviour of `FileSys` as a run**: copy in an empty host file, then run `fragmentation_degree` or `recover 2`. Also `recover2` on a file whose length is a multiple of the sector size (sector size 4 or more).
8. **Larger instances:**
   - AGING over triples;
   - RR30 runs;
   - the plain shell with three nesting levels.
