CONSTANTS
    e1 = e1
    e2 = e2
    vmalloc = vmalloc
    module = module
    slab = slab
    text = text
    edge = edge
    far = far
    Unresolved = Unresolved
    NoPgd = NoPgd
    Engines = {e1, e2}
    Threads = {t1, t2}
    VAs <- MCVAs
    Region <- MCRegion
    Gives <- MCGives
    HasDtb <- OnlyE1
    HasInitMm <- OnlyE1
    VmaLists <- MCVmaLists
    EhdrSize = 1
    PhdrSize = 1
    HdrAlign = 2
    PhnumLimit = 4
    CoreOffsets = {0, 1, 2, 3, 4, 5, 6, 7, 8, 9}
    CoreChunks = {1, 2, 3, 4}
    PosBound = 40
    Memories <- MCMemories
    PageSize = 2
    Offsets = {0, 1, 2, 3, 4, 5, 6, 7, 8, 9}
    Chunks = {1, 2, 3, 4, 5}
    MaxVmas = 3
    Pages = 4
    Null = Null
    Wild = Wild
    Torn = Torn
    Odd = Odd
    Head0 = Head0
    Leader = Leader
    Nodes <- ListNodes
    Images <- ListImages
    MaxWalk = 5
    FileImages <- MCFileImages
    PageBytes = 2
    GiB = 4
    MaxRecover = 8
    MaxDepth = 3
    Budget = 8
    MaxRanges = 2
    n1 = n1
    n2 = n2
    n3 = n3
    m1 = m1
    m2 = m2
    m3 = m3
    d1 = d1
    d2 = d2
    d3 = d3
    d4 = d4
    v1 = v1
    v2 = v2
    v3 = v3
    x1 = x1
    x2 = x2
    x3 = x3
    i1 = i1
    i2 = i2
    i3 = i3
    s1 = s1
    s2 = s2
SPECIFICATION ViewsSpec
INVARIANTS AnswersTrue OwnStrategiesSuffice ImagesTrue PagesHonest AllFound ListsFound
PROPERTIES CopiesAndWalksEnd
CHECK_DEADLOCK FALSE
