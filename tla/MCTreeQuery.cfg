CONSTANTS
    root = root
    systemd = systemd
    etc = etc
    dev = dev
    x = x
    y = y
    bad = bad
    foo = foo
    foo1 = foo1
    foo2 = foo2
    bar = bar
    broken = broken
    Names = {root, systemd, etc, dev, x, bad}
    Safe = {root, systemd, etc, dev, x}
    RootDir = root
    SystemdDir = systemd
    RuntimeRoots = {dev, root}
    SystemRoots = {etc}
    Inodes <- MCInodes
    MaxInodes = 3
    Parts = {"mount"}
    Libs <- Libraries
    Stem <- MCStem
    Usable <- MCUsable
    PluginDirs <- MCPluginDirs
    PluginNames = {foo, x, y}
    Registered <- MCRegistered
    MaxAdds = 3
    Clients = {t1, t2}
    EntryNames = {a}
    Queries = {q}
    FileKinds = {"lazy"}
    MaxEntries = 1
    MaxOpens = 2
    Tree <- MCFiles
    Options <- MCOptions
    HwThreads = 3
    lazy = lazy
    sized = sized
    d1 = d1
    w1 = w1
    NoThread = NoThread
SPECIFICATION TreeSpec
INVARIANT HandlesLive
CHECK_DEADLOCK FALSE
