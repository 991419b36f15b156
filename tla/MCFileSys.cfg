\* Disk-image utilities on ten sectors: sectors stay owned by one file each,
\* and defragment packs the files without changing them.
CONSTANTS
    NumSectors = 10
    SectorSize = 3
    Chars <- MCChars
    HostInit <- MCHostInit
    Patterns <- MCPatterns
    Fills <- MCFills
SPECIFICATION MCSpec
INVARIANT TypeOK
INVARIANT FilesOwnUsedSectors
PROPERTY DefragmentPacks
CHECK_DEADLOCK FALSE
VIEW MCView
CONSTRAINT MCConstraint
