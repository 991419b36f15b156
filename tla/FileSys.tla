------------------------------ MODULE FileSys -------------------------------
(***************************************************************************)
(* The disk-image file-system utilities of src/Filesystem/fs/fsutil2.c:    *)
(* copy_in, copy_out, find_file, fragmentation_degree, defragment,         *)
(* defragment_ and recover, as steps of the shell that calls them one at a *)
(* time.                                                                   *)
(*                                                                         *)
(* The library they call (fsutil.c, inode.c, directory.c, free-map.c) is   *)
(* not in the repository.  Its calls are taken to do what the Pintos file  *)
(* system these headers come from does, and what fsutil2.c relies on:      *)
(*  - sectors 0..3 hold the free map and the root directory (recover1     *)
(*    starts at 4); a file is an inode sector (magic, length, blocks) and  *)
(*    one data sector per SectorSize bytes;                                *)
(*  - a sector is allocated alone, the lowest free one first, and is       *)
(*    zero-filled; filesys_create takes the inode sector, then the data;   *)
(*  - fsutil_rm drops the directory entry and releases the inode and data  *)
(*    sectors in the free map without erasing them, so their old contents  *)
(*    (a stale inode's magic included) stay on disk;                       *)
(*  - a write that needs a sector when none is free writes nothing;        *)
(*  - readdir lists entries in the order they were added;                  *)
(*  - fsutil_seek, fsutil_read and fsutil_write act on the open file of    *)
(*    that name (get_file_by_fname), opening it at position 0 when it is   *)
(*    not open; a read or a write starts at the position and moves it;     *)
(*    fsutil_close and fsutil_rm close it (copy_out's comment: closing is  *)
(*    what resets the position).                                           *)
(* Bytes are members of Chars or NUL; a sector is [magic |-> TRUE, length, *)
(* blocks] when it holds an inode and [magic |-> FALSE, bytes] otherwise.  *)
(* Junk is a byte an uninitialised buffer held that is not NUL.            *)
(***************************************************************************)
EXTENDS Integers, Sequences, SequencesExt, FiniteSetsExt, TLC

CONSTANTS
    NumSectors,     \* bitmap_size(free_map)
    SectorSize,     \* BLOCK_SECTOR_SIZE, in bytes
    Chars,          \* the bytes of text files (NUL is not one of them)
    HostInit,       \* the host's files: name -> content
    Patterns,       \* the patterns find_file is given
    Fills           \* what an uninitialised byte of a buffer can be: NUL, Junk

VARIABLES
    disk,           \* sector -> its contents
    used,           \* the sectors the free map marks in use
    dir,            \* the root directory: <<[name, sector]>> in readdir order
    opened,         \* the library's open files: name -> position
    host,           \* the host file system: name -> content
    ret,            \* what the last call returned
    out,            \* what the last call printed or wrote out
    op,             \* the last call
    status          \* "running", or "ub" after undefined behaviour

vars == <<disk, used, dir, opened, host, ret, out, op, status>>

NUL      == "nul"
Junk     == "junk"
Sectors  == 0..NumSectors - 1
Reserved == 0..3

RecoveredName(i) == "recovered0-" \o ToString(i)

HostNames == DOMAIN HostInit \cup {RecoveredName(i) : i \in Sectors}

ZeroSector == [magic |-> FALSE, bytes |-> [k \in 1..SectorSize |-> NUL]]

\* The state fsutil2.c's functions act on, as one value.
FS == [disk |-> disk, used |-> used, dir |-> dir, opened |-> opened, host |-> host]

NoneOpen == [n \in {} |-> 0]

Result(S, r, o) == [fs |-> S, ret |-> r, out |-> o]

\* The return code 0; "none" is a void call's.
Ok == "0"

----------------------------------------------------------------------------
(* The library, as assumed above.                                          *)

BytesToSectors(n) == (n + SectorSize - 1) \div SectorSize

FreeSectors(S) == Sectors \ S.used

Names(S) == {S.dir[k].name : k \in DOMAIN S.dir}

InodeOf(S, name) == (CHOOSE e \in Range(S.dir) : e.name = name).sector

\* get_inode_data_sectors: the first bytes_to_sectors(length) blocks.
DataSectors(S, i) == SubSeq(S.disk[i].blocks, 1, BytesToSectors(S.disk[i].length))

Content(S, i) ==
    LET arr == DataSectors(S, i)
    IN  SubSeq(FlattenSeq([k \in DOMAIN arr |-> S.disk[arr[k]].bytes]), 1, S.disk[i].length)

Chunk(bytes, j) ==
    [t \in 1..SectorSize |-> IF (j - 1) * SectorSize + t <= Len(bytes)
                             THEN bytes[(j - 1) * SectorSize + t] ELSE NUL]

Fits(S, size) == Cardinality(FreeSectors(S)) >= 1 + BytesToSectors(size)

\* filesys_create of a file of Len(bytes) bytes, then a write of bytes at 0.
Place(S, name, bytes) ==
    LET free   == SetToSortSeq(FreeSectors(S), <)
        n      == BytesToSectors(Len(bytes))
        blocks == SubSeq(free, 2, n + 1)
        data   == [b \in Range(blocks) |->
                     [magic |-> FALSE,
                      bytes |-> Chunk(bytes, CHOOSE j \in 1..n : blocks[j] = b)]]
    IN  [S EXCEPT
           !.used = @ \cup {free[k] : k \in 1..n + 1},
           !.disk = (free[1] :> [magic |-> TRUE, length |-> Len(bytes), blocks |-> blocks])
                    @@ data @@ @,
           !.dir  = Append(@, [name |-> name, sector |-> free[1]])]

Close(S, name) == [S EXCEPT !.opened = [n \in DOMAIN @ \ {name} |-> @[n]]]

\* fsutil_rm: the file is closed and its entry goes; its sectors are
\* released but not erased.
Rm(S, name) ==
    LET i == InodeOf(S, name)
    IN  [Close(S, name) EXCEPT !.used = @ \ ({i} \cup Range(DataSectors(S, i))),
                               !.dir  = SelectSeq(@, LAMBDA e : e.name # name)]

Pos(S, name) == IF name \in DOMAIN S.opened THEN S.opened[name] ELSE 0

\* What fsutil_read(name, buffer, fsutil_size(name)) puts in the buffer: the
\* bytes from the open position to the end.
ReadFrom(S, name) ==
    LET c == Content(S, InodeOf(S, name)) IN SubSeq(c, Pos(S, name) + 1, Len(c))

\* A text buffer read back by a loop that stops at the first NUL.
UpToNul(b) ==
    IF \E k \in DOMAIN b : b[k] = NUL
    THEN SubSeq(b, 1, (CHOOSE k \in DOMAIN b : b[k] = NUL /\ \A j \in 1..k - 1 : b[j] # NUL) - 1)
    ELSE b

IsInfixOf(p, s) == \E i \in 1..Len(s) + 1, j \in 0..Len(s) : SubSeq(s, i, j) = p

----------------------------------------------------------------------------
(* fsutil2.c.  Each operator maps the state S to a Result: the state after *)
(* the call, its return code and what it printed or wrote to the host.     *)

(* copy_in: fsutil_create(fname, 0), then byte i of the host file written  *)
(* as the two bytes c, '\0' at index i, each write overwriting the last    *)
(* one's NUL; a write that finds no sector writes nothing and ends the     *)
(* loop.  The file keeps the bytes written and a trailing NUL.             *)
(* out_of_space only chooses whether a warning is printed.  The last       *)
(* fsutil_seek(fname, index - 1) leaves the file open one before the end   *)
(* of the loop's last index (fsutil_close is commented out); for an empty  *)
(* host file that index is -1, a position no file has.                     *)
CopiedBytes(S, s) ==
    LET avail == Cardinality(FreeSectors(S)) - 1
        k     == Cardinality({i \in 0..Len(s) - 1 : BytesToSectors(i + 2) <= avail})
    IN  IF k = 0 THEN <<>> ELSE SubSeq(s, 1, k) \o <<NUL>>

CopyIn(S, fname) ==
    LET s       == S.host[fname]
        bytes   == CopiedBytes(S, s)
        written == IF bytes = <<>> THEN 0 ELSE Len(bytes) - 1
        index   == IF written < Len(s) THEN written + 1 ELSE Len(s)
        T       == Place(S, fname, bytes)
    IN  IF fname \notin DOMAIN S.host THEN Result(S, "FILE_DOES_NOT_EXIST", <<>>)
        ELSE IF fname \in Names(S) \/ ~Fits(S, 0)
             THEN Result(S, "FILE_CREATION_ERROR", <<>>)
        ELSE IF index = 0 THEN Result(T, "ub", <<>>)
        ELSE Result([T EXCEPT !.opened = (fname :> index - 1) @@ @], Ok, <<>>)

\* Mutant: the commented-out fwrite of all filesize bytes instead of the
\* putc loop.
CopyOutFwrite(S, fname) ==
    IF fname \notin Names(S) THEN Result(S, "FILE_DOES_NOT_EXIST", <<>>)
    ELSE Result([Close(S, fname) EXCEPT !.host = (fname :> Content(S, InodeOf(S, fname))) @@ @],
                Ok, <<>>)

\* copy_out: the file is closed, so read from 0, and the host file is
\* replaced by its bytes up to the first NUL.
CopyOut(S, fname) ==
    IF fname \notin Names(S) THEN Result(Close(S, fname), "FILE_DOES_NOT_EXIST", <<>>)
    ELSE Result([Close(S, fname) EXCEPT
                    !.host = (fname :> UpToNul(Content(S, InodeOf(S, fname)))) @@ @],
                Ok, <<>>)

\* getAllFilesInRoot: the names readdir returns, in its order.
GetAllFilesInRoot(S) == [k \in DOMAIN S.dir |-> S.dir[k].name]

\* find_file: the names of the files whose text read from the open
\* position (strstr stops at the first NUL) contains the pattern; each file
\* is closed after its read.
FindFile(S, pattern) ==
    Result([S EXCEPT !.opened = NoneOpen], "none",
           SelectSeq(GetAllFilesInRoot(S),
                     LAMBDA n : IsInfixOf(pattern, UpToNul(ReadFrom(S, n)))))

\* getNumberOfFragmentableFiles: direct_blocks[0] and [1] are both in use.
IsFragmentable(S, i) == Len(S.disk[i].blocks) >= 2

\* getNumberOfFragmentedFiles: two consecutive data sectors more than 3 apart.
IsFragmented(S, i) ==
    LET arr == DataSectors(S, i)
    IN  \E j \in 1..Len(arr) - 1 : arr[j] - arr[j + 1] > 3 \/ arr[j + 1] - arr[j] > 3

FragmentedFiles(S) == {n \in Names(S) : IsFragmented(S, InodeOf(S, n))}

(* fragmentation_degree: it counts the fragmented files first.  For a file *)
(* of length 0, num_sectors - 1 is SIZE_MAX as a size_t, and the loop      *)
(* reads arr[0] and arr[1] of an empty array.  It prints both counts; both *)
(* loops close every file.                                                  *)
FragmentationDegree(S) ==
    IF \E n \in Names(S) : S.disk[InodeOf(S, n)].length = 0
    THEN Result(S, "ub", <<>>)
    ELSE Result([S EXCEPT !.opened = NoneOpen], "none",
                <<Cardinality({n \in Names(S) : IsFragmentable(S, InodeOf(S, n))}),
                  Cardinality(FragmentedFiles(S))>>)

\* Mutant: each file removed and created again in turn, one loop.
DefragmentInPlace(S, fill) ==
    LET names   == GetAllFilesInRoot(S)
        Redo(T, n) == LET c == Content(T, InodeOf(T, n)) IN Place(Rm(T, n), n, c)
    IN  Result(FoldLeft(Redo, S, names), Ok, <<>>)

(* defragment: every file read into a malloc'd buffer of its size and     *)
(* closed, every file removed, then each created with its size and written *)
(* back, in readdir order; a failed create ends the loop with              *)
(* FILE_CREATION_ERROR.  The read starts at the open position, so a file   *)
(* left open gives only its last bytes and the rest of the buffer is what  *)
(* the heap held: fill, NUL or Junk.  The final fsutil_write leaves each   *)
(* new file open at its end.  fsutil_read and fsutil_rm cannot fail on a   *)
(* name readdir just returned.                                             *)
Defragment(S, fill) ==
    LET names   == GetAllFilesInRoot(S)
        size(n) == S.disk[InodeOf(S, n)].length
        buffers == [k \in DOMAIN names |->
                      ReadFrom(S, names[k])
                      \o [j \in 1 .. size(names[k]) - Len(ReadFrom(S, names[k])) |-> fill]]
        Create(r, k) ==
            IF r.ret # Ok THEN r
            ELSE IF ~Fits(r.fs, Len(buffers[k]))
                 THEN [r EXCEPT !.ret = "FILE_CREATION_ERROR"]
            ELSE [r EXCEPT !.fs = [Place(@, names[k], buffers[k]) EXCEPT
                                     !.opened = (names[k] :> Len(buffers[k])) @@ @]]
    IN  FoldLeft(Create, Result(FoldLeft(Rm, S, names), Ok, <<>>),
                 [k \in DOMAIN names |-> k])

(* defragment_: every file copied out to the host and removed, then each   *)
(* copied back in; a host copy is removed unless a host file of that name  *)
(* existed before.                                                         *)
Defragment_(S) ==
    LET names  == GetAllFilesInRoot(S)
        inHost == [k \in DOMAIN names |-> names[k] \in DOMAIN S.host]
        Out(T, n) == Rm(CopyOut(T, n).fs, n)
        In(T, k)  == LET U == CopyIn(T, names[k]).fs
                     IN  IF inHost[k] THEN U
                     ELSE [U EXCEPT !.host = [n \in DOMAIN @ \ {names[k]} |-> @[n]]]
    IN  Result(FoldLeft(In, FoldLeft(Out, S, names), [k \in DOMAIN names |-> k]), Ok, <<>>)

\* Mutant: the loop over the data sectors dropped; only sector i is marked.
Recover0AtNoData(S, i) ==
    [S EXCEPT !.dir  = IF RecoveredName(i) \in Names(S) THEN @
                       ELSE Append(@, [name |-> RecoveredName(i), sector |-> i]),
              !.used = @ \cup {i}]

(* recover0, at a free sector i whose stale contents carry INODE_MAGIC:    *)
(* dir_add of "recovered0-i" (which fails if that name exists, a failure  *)
(* the code ignores), then the data sectors and i marked in use.           *)
Recover0At(S, i) ==
    [S EXCEPT !.dir  = IF RecoveredName(i) \in Names(S) THEN @
                       ELSE Append(@, [name |-> RecoveredName(i), sector |-> i]),
              !.used = @ \cup Range(DataSectors(S, i)) \cup {i}]

\* recover0: every sector in ascending order, skipping those in use.
Recover0(S) ==
    LET RECURSIVE Scan(_, _)
        Scan(T, i) ==
            IF i = NumSectors THEN T
            ELSE IF i \in T.used \/ ~T.disk[i].magic THEN Scan(T, i + 1)
            ELSE Scan(Recover0At(T, i), i + 1)
    IN  Result(Scan(S, 0), "none", <<>>)

\* recover1: a host file per sector from 4 on, with the sector's bytes up to
\* the first NUL; the bytes of an inode are left abstract.
Recover1(S) ==
    Result(S, "none",
           [i \in 4..NumSectors - 1 |->
               IF S.disk[i].magic THEN <<"inode">> ELSE UpToNul(S.disk[i].bytes)])

(* recover2: per file, the non-NUL bytes of its last data sector from C    *)
(* index remainder + 1 on.  For a file of length 0, filesector_size - 1 is *)
(* SIZE_MAX and direct_blocks is read far past its end.                    *)
Recover2Bytes(S, n) ==
    LET i         == InodeOf(S, n)
        size      == S.disk[i].length
        remainder == size % SectorSize
        buffer    == S.disk[S.disk[i].blocks[BytesToSectors(size)]].bytes
    IN  SelectSeq(SubSeq(buffer, remainder + 2, SectorSize), LAMBDA c : c # NUL)

Recover2(S) ==
    IF \E n \in Names(S) : S.disk[InodeOf(S, n)].length = 0
    THEN Result(S, "ub", <<>>)
    ELSE Result([S EXCEPT !.opened = NoneOpen], "none",
                [k \in DOMAIN S.dir |-> <<S.dir[k].name, Recover2Bytes(S, S.dir[k].name)>>])

\* recover: the flag picks the recovery; any other flag does nothing.
Recover(S, flag) ==
    CASE flag = 0 -> Recover0(S)
      [] flag = 1 -> Recover1(S)
      [] flag = 2 -> Recover2(S)
      [] OTHER    -> Result(S, "none", <<>>)

----------------------------------------------------------------------------
Init ==
    /\ disk   = [s \in Sectors |-> ZeroSector]
    /\ used   = Reserved
    /\ dir    = <<>>
    /\ opened = NoneOpen
    /\ host   = HostInit
    /\ ret    = Ok
    /\ out    = <<>>
    /\ op     = <<"none">>
    /\ status = "running"

\* One call of the shell, with its result.
Call(r, call) ==
    /\ status = "running"
    /\ disk' = r.fs.disk /\ used' = r.fs.used /\ dir' = r.fs.dir /\ opened' = r.fs.opened
    /\ host' = r.fs.host
    /\ ret' = r.ret /\ out' = r.out /\ op' = call
    /\ status' = IF r.ret = "ub" THEN "ub" ELSE "running"

CallCopyIn(n)        == Call(CopyIn(FS, n), <<"copy_in", n>>)
CallCopyOut(n)       == Call(CopyOut(FS, n), <<"copy_out", n>>)
CallFindFile(p)      == Call(FindFile(FS, p), <<"find_file", p>>)
CallFragmentation    == Call(FragmentationDegree(FS), <<"fragmentation_degree">>)
CallDefragment(f)    == Call(Defragment(FS, f), <<"defragment">>)
CallDefragment_      == Call(Defragment_(FS), <<"defragment_">>)
CallRecover(f)       == Call(Recover(FS, f), <<"recover", f>>)
\* The shell's rm command: fsutil_rm, in the library.
CallRm(n)            == Call(Result(Rm(FS, n), Ok, <<>>), <<"rm", n>>)

Next ==
    \/ \E n \in DOMAIN HostInit : CallCopyIn(n) \/ CallCopyOut(n)
    \/ \E p \in Patterns : CallFindFile(p)
    \/ CallFragmentation
    \/ \E f \in Fills : CallDefragment(f)
    \/ CallDefragment_
    \/ \E f \in 0..2 : CallRecover(f)
    \/ \E n \in Names(FS) : CallRm(n)

Spec == Init /\ [][Next]_vars

----------------------------------------------------------------------------
Inode == [magic : {TRUE}, length : Nat, blocks : Seq(Sectors)]
Data  == [magic : {FALSE}, bytes : [1..SectorSize -> Chars \cup {NUL, Junk}]]

\* Every sector holds an inode or data; the host's files hold no NUL, which
\* copy_out's putc loop, stopping at the first NUL, keeps from them; an
\* open file is a file of the directory.
TypeOK ==
    /\ disk \in [Sectors -> Inode \cup Data]
    /\ used \in SUBSET Sectors
    /\ dir \in Seq([name : HostNames, sector : Sectors])
    /\ DOMAIN host \subseteq HostNames
    /\ \A n \in DOMAIN host : host[n] \in Seq(Chars \cup {Junk})
    /\ DOMAIN opened \subseteq Names(FS)
    /\ status \in {"running", "ub"}

FileSectors(S, n) == {InodeOf(S, n)} \cup Range(DataSectors(S, InodeOf(S, n)))

\* Every sector of a file in the directory is marked in use in the free map
\* and belongs to that file alone: recover0 must mark the data sectors of
\* what it resurrects, or the next allocation hands them to another file.
FilesOwnUsedSectors ==
    \A n \in Names(FS) :
        /\ FileSectors(FS, n) \subseteq used \ Reserved
        /\ \A m \in Names(FS) \ {n} : FileSectors(FS, n) \cap FileSectors(FS, m) = {}

\* No sector stays marked in use unless the free map, the root directory or
\* a file of the directory holds it (recover0 marks the sectors of a stale
\* inode even when dir_add refuses its name).
NoLeakedSectors ==
    used = Reserved \cup UNION {FileSectors(FS, n) : n \in Names(FS)}

Files(S) == [n \in Names(S) |-> Content(S, InodeOf(S, n))]

\* defragment and defragment_, when they return 0 and the free map marked
\* only the sectors of files, keep every file's name and leave no file
\* fragmented: their create loop gets the sectors their remove loop
\* released, lowest first.  (Their bytes they do not keep: see the README.)
DefragmentPacks ==
    [][op' \in {<<"defragment">>, <<"defragment_">>} /\ ret' = Ok /\ NoLeakedSectors =>
           /\ Names(FS)' = Names(FS)
           /\ FragmentedFiles(FS)' = {}]_vars

\* No call reads past an array: fragmentation_degree and recover2 on a file
\* of length 0.
NoUndefinedBehaviour == status # "ub"
=============================================================================
