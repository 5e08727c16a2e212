CONSTANTS
    d1 = d1
    d2 = d2
    w1 = w1
    lazy = lazy
    sized = sized
    hot = hot
    NoThread = NoThread
    Nodes = {hot}
    Sized = {}
    CheapToSize = {}
    WarmTargets = {hot}
    Dispatchers = {d1, d2}
    Warmers = {w1}
    Lengths = {0, 1, 2}
SPECIFICATION NodesSpec
INVARIANT ProducedOnce
SYMMETRY Dispatcher_symmetry
