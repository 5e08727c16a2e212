------------------------------- MODULE MCTree -------------------------------
(* The Engine's tree and those that work on it: the builder of /fs, the    *)
(* plugin loader, a mount that lists it, the warm pool that walks it, and  *)
(* the threads inside its lazy nodes.  Each works on state of its own, so  *)
(* that each behaviour is one of them at work, the others as they began:   *)
(* the instance has the sum of their states.                               *)
(*                                                                         *)
(* The inodes contend for the same paths.  Two plugin libraries of one     *)
(* stem lie in two directories, beside a third and one that does not load. *)
EXTENDS FsTree, ForensicWarmer, Plugins, Mount

CONSTANTS
    Parts,                                \* the users at work
    root, systemd, etc, dev, x, y, bad,   \* path components
    foo, foo1, foo2, bar, broken,         \* a stem, and libraries
    lazy, sized, d1, w1, NoThread         \* of VfsNode

Ino(path, type, rank) ==
    [path |-> path, type |-> type, rank |-> rank, pseudo |-> FALSE,
     cached |-> TRUE, dying |-> FALSE, fs |-> "ext4", ino |-> rank]

\* Two mounts of one filesystem type, each with an inode 7.
Orphan(dying, mount) ==
    [path |-> <<>>, type |-> "reg", rank |-> 0, pseudo |-> FALSE,
     cached |-> TRUE, dying |-> dying, fs |-> "ext4", ino |-> 7, mount |-> mount]

Contended ==
    {Ino(<<x>>, "reg", 1), Ino(<<x>>, "reg", 2), Ino(<<root, etc>>, "reg", 1),
     [Ino(<<x>>, "reg", 1) EXCEPT !.ino = 9],
     Ino(<<x>>, "lnk", 1), Ino(<<x>>, "lnk", 2),
     Ino(<<x, etc>>, "reg", 1), Ino(<<x, etc>>, "dir", 1),
     Ino(<<etc>>, "other", 1), Ino(<<x, etc, x>>, "lnk", 1)}

Skipped ==
    {Ino(<<root, x>>, "reg", 1), Ino(<<root, dev>>, "reg", 1), Ino(<<root>>, "dir", 1),
     Ino(<<systemd, x>>, "reg", 1), Ino(<<x, bad>>, "reg", 1),
     [Ino(<<x>>, "reg", 3) EXCEPT !.pseudo = TRUE]}

MCInodes == Contended \cup Skipped \cup {Orphan(FALSE, 1), Orphan(FALSE, 2), Orphan(TRUE, 1)}

Libraries == {foo1, foo2, bar, broken}
MCUsable == Libraries \ {broken}
MCPluginDirs == <<{foo1, broken}, {foo2, bar}>>
MCRegistered == {<<x>>, <<y>>, <<y, x>>}
MCStem == [l \in Libraries |-> IF l = bar THEN y ELSE IF l = broken THEN x ELSE foo]

-----------------------------------------------------------------------------
(* One file of each kind the engine builds, and 38 command lines.          *)

LazyFile(dirs, warmable, compute, mem, category) ==
    [path |-> dirs, warmable |-> warmable, compute |-> compute, mem |-> mem,
     category |-> category]

MCFiles == <<
    LazyFile({"sys"}, TRUE, "Expensive", "Small", "SystemInfo"),               \* /sys/dmesg
    LazyFile({"sys"}, TRUE, "Trivial", "Small", "None"),                       \* /sys/uptime
    LazyFile({"sys", "net"}, TRUE, "Cheap", "Small", "None"),                  \* /sys/net/tcp
    LazyFile({"sys", "pagecache"}, TRUE, "Expensive", "Small", "SystemInfo"),  \* /sys/pagecache/recovery.txt
    LazyFile({"sys", "findevil"}, TRUE, "Expensive", "Small", "ThreatHunt"),   \* /sys/findevil/malfind.txt
    LazyFile({"proc", "pid"}, TRUE, "Expensive", "Small", "PerProcess"),       \* /proc/<pid>/libs.txt
    LazyFile({"proc", "pid"}, TRUE, "Expensive", "Small", "Yara"),             \* /proc/<pid>/yara.txt
    LazyFile({"proc", "pid"}, TRUE, "Expensive", "Large", "None"),             \* /proc/<pid>/strings.txt
    LazyFile({"files"}, FALSE, "Cheap", "Small", "None") >>                    \* a recovered file

CommandLine(forensic, mode, precompute, include, exclude) ==
    [forensic |-> forensic, mode |-> mode, precompute |-> precompute,
     include |-> include, exclude |-> exclude]

Plain == CommandLine(FALSE, "smart", FALSE, {}, {})
MCOptions ==
    {Plain, [Plain EXCEPT !.precompute = TRUE]}
    \cup {CommandLine(TRUE, m, p, i, e) :
             m \in {"quick", "smart", "full"}, p \in BOOLEAN,
             i \in {{}, {"Yara"}}, e \in {{}, {"Yara"}, {"ThreatHunt", "PerProcess"}}}

-----------------------------------------------------------------------------
VARIABLES
    part,
    mu, sizeMu, data, loaded, sizeCache, runs, callPc, op, callee, tmp, want, padded

\* A dispatcher and a warm-pool thread on one node of each class.
Node == INSTANCE VfsNode WITH
    Nodes <- {lazy, sized}, Sized <- {sized}, CheapToSize <- {},
    WarmTargets <- {lazy, sized}, Dispatchers <- {d1}, Warmers <- {w1},
    Lengths <- {0}, pc <- callPc, cur <- callee

nodeVars ==
    <<mu, sizeMu, data, loaded, sizeCache, runs, callPc, op, callee, tmp, want, padded>>
allVars == <<part, vars, pluginVars, mountVars, warmerVars, nodeVars>>

TreeInit ==
    /\ part \in Parts
    /\ Init
    /\ LoaderInit
    /\ MountInit
    /\ WarmerInit
    /\ Node!Init
    /\ part # "mount" => Len(mountHeap) = 1
    /\ part # "warmer" => opts = Plain

Builds == part = "fs" /\ UNCHANGED <<part, pluginVars, mountVars, warmerVars, nodeVars>>
Loads  == part = "plugins" /\ UNCHANGED <<part, vars, mountVars, warmerVars, nodeVars>>
Pages == part = "mount" /\ UNCHANGED <<part, vars, pluginVars, warmerVars, nodeVars>>
Warms  == part = "warmer" /\ UNCHANGED <<part, vars, pluginVars, mountVars, nodeVars>>
Enters == part = "node" /\ UNCHANGED <<part, vars, pluginVars, mountVars, warmerVars>>

TreeNext ==
    \/ Builds /\ Next
    \/ Loads /\ LoaderNext
    \/ Pages /\ MountNext
    \/ Warms /\ WarmerNext
    \/ Enters /\ Node!Next

\* A client that has asked for a page asks for the next until the end mark;
\* the other threads are those of WarmerFairSpec and Node!FairSpec.
TreeSpec ==
    /\ TreeInit
    /\ [][TreeNext]_allVars
    /\ \A t \in Clients : WF_allVars(Pages /\ Paging(t))
    /\ WF_allVars(Warms /\ Engine)
    /\ \A w \in Workers : WF_allVars(Warms /\ Worker(w))
    /\ \A t \in {d1, w1} :
        /\ WF_allVars(Enters /\ Node!Step(t))
        /\ SF_allVars(Enters /\ Node!LockData(t))
        /\ SF_allVars(Enters /\ Node!LockSize(t))

(* The completion line comes without an unmount, and an unmount in the     *)
(* middle of warming ends.                                                 *)
WarmingEnds == SummaryMidMount /\ UnmountEnds

(* Every call on a lazy node returns, after exceptions too.                *)
EveryCallReturns == Node!EveryCallReturns
=============================================================================
