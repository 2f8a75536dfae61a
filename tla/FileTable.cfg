SPECIFICATION Spec
CONSTANTS
    BLOCKSIZE = 2
    direntries <- MCdirentries
    length <- MClength
    data_block_num <- MCdata_block_num
    data_count = 4
    NUM_MAX_DENTRIES = 6
    NumProc = 3
    LastFd = 2
    Names = {".", "rtc", "odd", "even", "missing"}
    Counts = {1, 2, 4}
    MaxEntries = 2
INVARIANT SequentialRead
INVARIANT NothingInherited
INVARIANT HaltCloses
CHECK_DEADLOCK FALSE
