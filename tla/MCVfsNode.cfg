CONSTANTS
    d1 = d1
    d2 = d2
    w1 = w1
    lazy = lazy
    sized = sized
    hot = hot
    NoThread = NoThread
    Nodes = {lazy, sized, hot}
    Sized = {sized}
    CheapToSize = {lazy}
    WarmTargets = {sized, hot}
    Dispatchers = {d1, d2}
    Warmers = {w1}
    Lengths = {0, 1, 2}
SPECIFICATION NodesSpec
INVARIANTS TypeOK GuardedProducedOnce GuardedRaceFree NeverPadded
PROPERTIES ImplementsOnceCell
SYMMETRY Dispatcher_symmetry
