SPECIFICATION FatSpec
CONSTANTS
    Files = {f1, f2}  Root = Root  Nobody = Nobody  LastCluster = 5
    EntriesPerSector = 1  BufferSectors = 2  InOrder = FALSE
INVARIANT LoadsFile
CHECK_DEADLOCK FALSE
