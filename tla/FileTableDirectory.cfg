SPECIFICATION Spec
CONSTANTS
    BLOCKSIZE = 2
    direntries <- MCdirentries
    length <- MClength
    data_block_num <- MCdata_block_num
    data_count = 4
    NUM_MAX_DENTRIES = 6
    NumProc = 2
    LastFd = 3
    Names = {"."}
    Counts = {1}
    MaxEntries = 3
INVARIANT DirectoryListed
CHECK_DEADLOCK FALSE
