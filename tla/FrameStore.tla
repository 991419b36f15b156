----------------------------- MODULE FrameStore -----------------------------
(***************************************************************************)
(* The frame store of src/Paging/shellmemory.c: a fixed array of page      *)
(* slots ("Page framestore[PAGE_FRAME_COUNT]") grouped into frames of      *)
(* PAGES_PER_FRAME slots, the sticky page_is_used flag per frame and the   *)
(* LRU clock globalClock.  A store is a record                             *)
(*    [slot |-> [Slots -> Slot], used |-> [Frames -> BOOLEAN],             *)
(*     clock |-> Nat]                                                       *)
(* and every function of shellmemory.c that changes it is an operator     *)
(* from a store (and a page table) to the store after the call, so that   *)
(* the kernel module can compose the calls a handler makes.               *)
(*                                                                         *)
(* A slot's "line" string is abstracted to the identity of the program    *)
(* line it is a copy of (<<file, index>>); NoText is the NULL pointer.     *)
(* The slot's "pid" pointer is NoPid when NULL.                            *)
(***************************************************************************)
EXTENDS Integers, Sequences, FiniteSets

CONSTANT TotalFrames          \* PAGE_FRAME_COUNT / PAGES_PER_FRAME

PAGES_PER_FRAME == 3
TotalPageCount == TotalFrames * PAGES_PER_FRAME
Slots  == 0 .. TotalPageCount - 1
Frames == 0 .. TotalFrames - 1
FrameOf(s) == s \div PAGES_PER_FRAME

NoPid  == 0                   \* framestore[i].pid == NULL
NoText == <<>>                \* framestore[i].line == NULL
Unmapped == -1                \* page_tbl[i] == -1

EmptySlot == [occ |-> FALSE, pid |-> NoPid, pc |-> -1, text |-> NoText, time |-> 0]

\* init_framestore / free_framestore: every slot reset, every frame unused.
\* The clock is static and is never reset.
FreeFramestore(m) ==
    [m EXCEPT !.slot = [s \in Slots |-> EmptySlot],
              !.used = [f \in Frames |-> FALSE]]

InitStore == FreeFramestore([slot |-> <<>>, used |-> <<>>, clock |-> 0])

-----------------------------------------------------------------------------
(* evict_page: the first occupied slot (lowest index) with the smallest    *)
(* accessTime fixes the victim frame; the frame's slots are released from  *)
(* its first slot up to the first empty one.  With no occupied slot the    *)
(* scan leaves oldestIndex = -1 and the release reads framestore[-1].      *)
Occupied(m) == {s \in Slots : m.slot[s].occ}

OldestSlot(m) ==
    CHOOSE s \in Occupied(m) :
        \A t \in Occupied(m) : \/ m.slot[s].time < m.slot[t].time
                               \/ m.slot[s].time = m.slot[t].time /\ s <= t

VictimFrame(m) == OldestSlot(m) - (OldestSlot(m) % PAGES_PER_FRAME)

\* The slots of frame v that evict_page releases before its "break".
Released(m, v) ==
    {v + j : j \in {k \in 0 .. PAGES_PER_FRAME - 1 :
                        \A i \in 0 .. k : m.slot[v + i].occ}}

EvictPage(m) ==
    LET v == VictimFrame(m)
    IN  [m EXCEPT !.slot = [s \in Slots |->
                              IF s \in Released(m, v)
                              THEN EmptySlot
                              ELSE m.slot[s]]]

-----------------------------------------------------------------------------
(* load_lines(lines, total_lines_nb, offset, line_count, pid, page_tbl).   *)
(* "lines" is the program as a sequence of texts (lines[offset + i] is     *)
(* lines[offset + i + 1] here), NULL-terminated after total_lines_nb.      *)

\* Mutant: the end of the program taken one line early.
NeedShort(total, offset, lineCount) ==
    IF lineCount < total - offset THEN lineCount ELSE total - offset - 1

\* The lines the copy loop writes: line_count of them, fewer when the
\* program's NULL terminator comes first.
Need(total, offset, lineCount) ==
    IF lineCount < total - offset THEN lineCount ELSE total - offset

\* The scan stops (found_spot) after the candidate that makes candidate_ptr
\* equal line_count or offset + candidate_ptr equal total_lines_nb; with
\* offset = total_lines_nb (an empty program) only line_count can stop it.
ScanStop(total, offset, lineCount) ==
    IF offset < total THEN Need(total, offset, lineCount) ELSE lineCount

\* Slots of the frames with page_is_used false, in scan order.
FreeFrameSeq(m) ==
    LET F == {f \in Frames : ~m.used[f]}
        n == Cardinality(F)
        kth[k \in 1 .. n] ==
            CHOOSE f \in F : Cardinality({g \in F : g < f}) = k - 1
    IN  kth
FreeSlotSeq(m) ==
    LET fs == FreeFrameSeq(m)
    IN  [k \in 1 .. PAGES_PER_FRAME * Len(fs) |->
            PAGES_PER_FRAME * fs[(k - 1) \div PAGES_PER_FRAME + 1]
              + ((k - 1) % PAGES_PER_FRAME)]

FoundSpot(m, total, offset, lineCount) ==
    Len(FreeSlotSeq(m)) >= ScanStop(total, offset, lineCount)

\* candidate_pages after the scan and, when no spot was found, after
\* evict_page(candidate_pages, line_count) overwrote its first entries.
\* Entries past the ones written are uninitialised stack memory.
Candidates(m, total, offset, lineCount) ==
    IF FoundSpot(m, total, offset, lineCount)
    THEN SubSeq(FreeSlotSeq(m), 1, Need(total, offset, lineCount))
    ELSE LET v == VictimFrame(m)
             w == IF lineCount < PAGES_PER_FRAME THEN lineCount ELSE PAGES_PER_FRAME
             n == IF w > Len(FreeSlotSeq(m)) THEN w ELSE Len(FreeSlotSeq(m))
         IN  [k \in 1 .. n |-> IF k <= w THEN v + k - 1 ELSE FreeSlotSeq(m)[k]]

\* The call reads framestore[-1] (no occupied slot to evict) or indexes
\* framestore with an uninitialised candidate: undefined behaviour.
LoadIsUB(m, total, offset, lineCount) ==
    LET need == Need(total, offset, lineCount)
    IN  /\ ~FoundSpot(m, total, offset, lineCount)
        /\ \/ Occupied(m) = {}
           \/ Len(Candidates(m, total, offset, lineCount)) < need

\* Mutant: load_lines that forgets "page_tbl[offset + i] = cand_page".
LoadLinesNoTbl(m, lines, total, offset, lineCount, pid, tbl) ==
    LET need == Need(total, offset, lineCount)
        m1   == IF FoundSpot(m, total, offset, lineCount) THEN m ELSE EvictPage(m)
        cand == Candidates(m, total, offset, lineCount)
        placed == {cand[i + 1] : i \in 0 .. need - 1}
        idx(s) == CHOOSE i \in 0 .. need - 1 : cand[i + 1] = s
    IN  [mem |-> [slot  |-> [s \in Slots |->
                               IF s \in placed
                               THEN [occ |-> TRUE, pid |-> pid,
                                     pc |-> offset + idx(s),
                                     text |-> lines[offset + idx(s) + 1],
                                     time |-> m.clock + idx(s)]
                               ELSE m1.slot[s]],
                  used  |-> [f \in Frames |->
                               m1.used[f] \/ \E s \in placed : FrameOf(s) = f],
                  clock |-> m.clock + need],
         tbl |-> tbl]

\* The store and page table after load_lines, when it is not UB.
LoadLines(m, lines, total, offset, lineCount, pid, tbl) ==
    LET need == Need(total, offset, lineCount)
        m1   == IF FoundSpot(m, total, offset, lineCount) THEN m ELSE EvictPage(m)
        cand == Candidates(m, total, offset, lineCount)
        placed == {cand[i + 1] : i \in 0 .. need - 1}
        idx(s) == CHOOSE i \in 0 .. need - 1 : cand[i + 1] = s
    IN  [mem |-> [slot  |-> [s \in Slots |->
                               IF s \in placed
                               THEN [occ |-> TRUE, pid |-> pid,
                                     pc |-> offset + idx(s),
                                     text |-> lines[offset + idx(s) + 1],
                                     time |-> m.clock + idx(s)]
                               ELSE m1.slot[s]],
                  used  |-> [f \in Frames |->
                               m1.used[f] \/ \E s \in placed : FrameOf(s) = f],
                  clock |-> m.clock + need],
         tbl |-> [l \in DOMAIN tbl |->
                    IF l \in offset .. offset + need - 1
                    THEN cand[l - offset + 1] ELSE tbl[l]]]

-----------------------------------------------------------------------------
(* mem_get_value_at_line(PC, page_tbl, pid): "miss" for an unmapped entry, *)
(* a slot of another pid or of another line; "segfault" when the slot's    *)
(* pid pointer is NULL (pid[0] is dereferenced); "ub" when PC is past the  *)
(* page table (the zero-length table of an empty program);               *)
(* otherwise "hit", and the slot's accessTime is refreshed.                *)
\* Mutant: the "framestore[index].PC != PC" test left out.
FetchOutcomeNoPCCheck(m, pc, tbl, pid) ==
    LET idx == tbl[pc]
    IN  CASE pc \notin DOMAIN tbl         -> "ub"
          [] idx = Unmapped               -> "miss"
          [] ~m.slot[idx].occ              -> "segfault"
          [] m.slot[idx].pid # pid         -> "miss"
          [] OTHER                         -> "hit"

FetchOutcome(m, pc, tbl, pid) ==
    LET idx == tbl[pc]
    IN  CASE pc \notin DOMAIN tbl         -> "ub"
          [] idx = Unmapped               -> "miss"
          [] ~m.slot[idx].occ              -> "segfault"
          [] m.slot[idx].pid # pid         -> "miss"
          [] m.slot[idx].pc # pc           -> "miss"
          [] OTHER                         -> "hit"

FetchText(m, pc, tbl) == m.slot[tbl[pc]].text

Touch(m, pc, tbl) ==
    [m EXCEPT !.slot[tbl[pc]].time = m.clock, !.clock = m.clock + 1]

-----------------------------------------------------------------------------
(* mem_free_lines_between(start, end, pagetbl) and free_process_page: the  *)
(* slot each entry of the range points to is released, whoever holds it   *)
(* now; its PC field is left as it was.  The range stops at               *)
(* TotalPageCount whatever the program length.                            *)
\* Mutant: the loop bound "i < end" instead of "i <= end".
FreedRangeShort(start, end) == {i \in start .. end - 1 : i < TotalPageCount}

FreedRange(start, end) == {i \in start .. end : i < TotalPageCount}

FreeIsUB(tbl, start, end) == \E i \in FreedRange(start, end) : tbl[i] = Unmapped

\* Mutant: free_process_page that frees the line but not the pid.
MemFreeLinesBetweenKeepPid(m, start, end, tbl) ==
    LET hit == {tbl[i] : i \in FreedRange(start, end)}
    IN  [m EXCEPT !.slot = [s \in Slots |->
                              IF s \in hit
                              THEN [m.slot[s] EXCEPT !.occ = FALSE,
                                                     !.text = NoText, !.time = 0]
                              ELSE m.slot[s]]]

MemFreeLinesBetween(m, start, end, tbl) ==
    LET hit == {tbl[i] : i \in FreedRange(start, end)}
    IN  [m EXCEPT !.slot = [s \in Slots |->
                              IF s \in hit
                              THEN [m.slot[s] EXCEPT !.occ = FALSE, !.pid = NoPid,
                                                     !.text = NoText, !.time = 0]
                              ELSE m.slot[s]]]
=============================================================================
