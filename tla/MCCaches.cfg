CONSTANTS
    r1 = r1
    r2 = r2
    a = a
    b = b
    c = c
    Unmapped = Unmapped
    NPages = 4
    Mem <- MCMem
    Readers = {r1, r2}
    MaxPages = 2
    Size <- MCSize
    MaxBytes = 3
    FrameReaders = {r1, r2}
    MaxBuffers = 5
    h1 = h1
    h2 = h2
    None = None
    Threads = {r1, r2}
    Handles = {h1, h2}
    Procs <- MCProcs
    Nodes <- MCNodes
    Asked <- MCAsked
    Argvs <- MCArgvs
    PhysEnd = 10
    Page = 4
    Mapped = {2, 4}
    Vas = {9}
    Lens = {0, 2, 9}
    Mixed = FALSE
    Caches = {"pages", "frames", "handles"}
SPECIFICATION CachesSpec
INVARIANTS Consistent HoldsMostRecent ReadsMemory FramesKeptByUse 
SYMMETRY Reader_symmetry
