SPECIFICATION Spec
CONSTANTS
    MAX_NODES = 8
    MAX_DATA = 5
    Names = {"/", "mnt", "bin", "hello.elf", "tmp", "test.elf"}
    Clusters <- MCClusters
    CLUSTER_BYTES = 2
    Disks <- MCDisks
    NewNames = {"bin"}
    FileNames = {"test.elf", "F.TXT"}
    Paths <- MCPaths
    Lengths = {1, 6}
    ElfSizes = {2}
    CAT_MAX = 4
    PWD_LEVELS = 2
    Faults <- MCFaults
    WRITE_BOUND = 2
INVARIANTS
    TypeOK
    TreeOK
    PwdLeadsBack
    FileKeepsNewest
    CatShowsFile
    LsShowsDirectory
PROPERTIES
    LookupStable
CHECK_DEADLOCK FALSE
