SPECIFICATION UFairSpec
CONSTANTS
    BLOCKSIZE = 2
    NUM_MAX_DENTRIES = 9
    direntries <- MCdirentries
    length <- MClength
    data_block_num <- MCdata_block_num
    data_count = 3
    NumProc = 4
    LastFd = 3
    Names = {"hello", "rtc", "helloo"}
    Counts = {1, 2, 3}
    MaxEntries = 9
    NumTerm = 2
    CATBUF = 2
    GREPBUF = 3
    Texts <- MCTexts
    Switched <- MCSwitched
    Patterns <- MCPatterns
    Selects = {0, 5}
    Garbage = {"nul", "nl"}
INVARIANT GrepExact
INVARIANT GrepInBuffer
INVARIANT PrintsAll
INVARIANT SyserrPasses
PROPERTY ProgramsEnd
CHECK_DEADLOCK FALSE
