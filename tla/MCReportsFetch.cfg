SPECIFICATION ReportsSpec
CONSTANTS
    Parts = {"resolver"}
    cachedir = cachedir
    userdir = userdir
    local = local
    home = home
    Pref = cachedir
    User = userdir
    StdSave = home
    StdDirs <- MCStdDirs
    Disks <- MCDisks
    Options <- MCOptions
    Blobs <- MCBlobs
    NMirrors = 2
    Hz = 2
    Boots = {20, 21}
    Times = {0, 1, 4}
    Naps = {0, 4}
    MaxEvents = 2
    MinEpoch = 8
    MaxEpoch = 17
    FsCap = 1
    MaxListed = 1
    Timekeepers <- MCTimekeepers
    KernelImages <- MCKernelImages
    Chunk = 5
    Overlap = 1
    Align = 2
    GiB = 4
    MaxTries = 3
    Text = 100
    TaskAt = 1
    BannerAt = 3
    PgtAt = 2
    Wrap = 1000
    CountBits = 1
    TextSize = 5
    IdSpace = 64
    Texts <- MCTexts
    MaxRecords = 4
    FirstIds = {3, 61}
    Holes <- MCHoles
    LogFiles <- LogFileLists
    MaxLine = 2
    TraceBefore = 1
    TraceAfter = 1
    MaxShown = 1
INVARIANTS FetchedIsRich
