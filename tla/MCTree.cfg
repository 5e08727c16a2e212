CONSTANTS
    root = root
    systemd = systemd
    etc = etc
    dev = dev
    x = x
    y = y
    bad = bad
    foo = foo
    foo1 = foo1
    foo2 = foo2
    bar = bar
    broken = broken
    Names = {root, systemd, etc, dev, x, bad}
    Safe = {root, systemd, etc, dev, x}
    RootDir = root
    SystemdDir = systemd
    RuntimeRoots = {dev, root}
    SystemRoots = {etc}
    Inodes <- MCInodes
    MaxInodes = 3
    Parts = {"fs", "plugins", "mount", "warmer", "node"}
    Libs <- Libraries
    Stem <- MCStem
    Usable <- MCUsable
    PluginDirs <- MCPluginDirs
    PluginNames = {foo, x, y}
    Registered <- MCRegistered
    MaxAdds = 3
    Clients = {t1, t2}
    EntryNames = {a, b, c}
    Queries = {q}
    FileKinds = {"lazy", "sized", "stream"}
    MaxEntries = 3
    MaxOpens = 1
    Tree <- MCFiles
    Options <- MCOptions
    HwThreads = 2
    lazy = lazy
    sized = sized
    d1 = d1
    w1 = w1
    NoThread = NoThread
SPECIFICATION TreeSpec
INVARIANTS UniqueNames TreeCanonical ListingExact  OwnSubtree PoolSound SummaryComplete ExclusionWins
PROPERTIES DirsStay ListingEnds WarmingEnds 
CHECK_DEADLOCK FALSE
