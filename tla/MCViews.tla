------------------------------ MODULE MCViews ------------------------------
(* The readers of a dump's memory that serve files and walkers: kernel     *)
(* addresses (KvaReader), the two raw images (RawStreams) and process      *)
(* cores (ElfCoreStream); and the walks over the kernel's structures in a  *)
(* dump that may be torn: the pages of a file (RecoveredFile), the mounts  *)
(* (MountWalks), the lists of tasks, threads and modules (ListWalks), the  *)
(* VMAs of a process (VmaWalk) and the inodes of the page cache            *)
(* (CachedInodes).  They share no state; each behaviour is one of them at  *)
(* work, named by view, the others as they began.                          *)
(*                                                                         *)
(* KvaReader has an address per region, one that only init_mm maps, and    *)
(* two dumps, of which e2 has neither a validated DTB nor init_mm.  A page *)
(* is two bytes, as is the alignment of a core's header.                   *)
EXTENDS KvaReader, RawStreams, ListWalks, RecoveredFile, TLC

CONSTANTS
    e1, e2, vmalloc, module, slab, text, edge, far, MaxVmas, Pages,
    n1, n2, n3, m1, m2, m3, d1, d2, d3, d4, v1, v2, v3, x1, x2, x3, i1, i2, i3, s1, s2

VARIABLES
    view, wimg, wpc, wcur, wrest, wsb, wturns, wtodo, wseen, wfound, wout

-----------------------------------------------------------------------------
(* The readers.                                                            *)

MCVAs == {vmalloc, module, slab, text, edge, far}

MCRegion ==
    (vmalloc :> "vmalloc") @@ (module :> "vmalloc") @@ (slab :> "physmap")
    @@ (text :> "image") @@ (edge :> "physmap") @@ (far :> "other")

Row(d, i, t, m) == ("direct" :> d) @@ ("image" :> i) @@ ("dtb" :> t) @@ ("init" :> m)

\* edge is a physmap address at the end of a captured range: part of what
\* is asked for is there, whichever way it is read.
Dump ==
    (vmalloc :> Row("none", "none", "full", "full"))
    @@ (module :> Row("none", "none", "none", "full"))
    @@ (slab :> Row("full", "none", "full", "full"))
    @@ (text :> Row("none", "part", "full", "full"))
    @@ (edge :> Row("part", "none", "none", "part"))
    @@ (far :> Row("none", "none", "none", "none"))

MCGives == [e \in Engines |-> Dump]
OnlyE1 == [e \in Engines |-> e = e1]

\* Processes of up to MaxVmas VMAs: VMA i starts at 10 * i, and sizes are up
\* to three, zero included.
Vma(i, n, r) == [start |-> 10 * i, size |-> n, readable |-> r]
Shapes(k) == [1..k -> {<<n, TRUE>> : n \in 0..3} \cup {<<2, FALSE>>}]
MCVmaLists ==
    UNION {{[i \in 1..k |-> Vma(i, s[i][1], s[i][2])] : s \in Shapes(k)} : k \in 0..MaxVmas}

\* Every memory of Pages pages, captured page by page.
MCMemories ==
    {[a \in 1..(Pages * 2) |-> IF (a - 1) \div 2 \in S THEN "data" ELSE "hole"] :
        S \in SUBSET (0..(Pages - 1))}

-----------------------------------------------------------------------------
(* The walks.                                                              *)

HeadAt(a) == <<"head", a>>

-----------------------------------------------------------------------------
(* Files of up to four pages of two bytes: xarrays of every shape over two *)
(* nodes, sibling entries and cycles among them; memories with frames that *)
(* are missing, short or zero; the right symbol vmemmap_base (8), a wrong  *)
(* one or none.                                                            *)

None == <<"none">>
Leaves == {None, <<"value">>, <<"folio", 8>>, <<"folio", 9>>}
PhysFrame(c, z) == [captured |-> c, zero |-> z]
Ram(f, n) == [k \in 1..n |-> IF k \in DOMAIN f THEN f[k] ELSE PhysFrame(2, FALSE)]
CachedFile(size, head, nodes, symbol, ram) ==
    [size |-> size, head |-> head, nodes |-> nodes, symbol |-> symbol, true |-> 8, mem |-> ram]
XaNode(unit, a, b) == [unit |-> unit, slots |-> <<a, b>>]
NoNodes == [n \in {} |-> XaNode(1, None, None)]
TwoNodes(a, b) == [n \in {"x1", "x2"} |-> IF n = "x1" THEN a ELSE b]
Node1 == <<"node", "x1">>
Node2 == <<"node", "x2">>
Sibling == <<"node", "sibling">>
Xarrays ==
    {TwoNodes(XaNode(unit, a, b), XaNode(1, c, d)) :
        unit \in {1, 2}, a \in Leaves \cup {Node1, Node2, Sibling}, b \in {None, <<"folio", 8>>, Node1, Node2},
        c \in {None, <<"folio", 8>>, <<"folio", 9>>}, d \in {None, Node1, <<"folio", 7>>, <<"folio", 10>>}}
Frames == {PhysFrame(2, FALSE), PhysFrame(2, TRUE), PhysFrame(1, FALSE), PhysFrame(0, FALSE)}

MCFileImages ==
    {CachedFile(size, Node1, nodes, symbol, Ram(<<>>, 3)) :
        size \in {0, 3, 6}, nodes \in Xarrays, symbol \in {0, 8}}
    \cup {CachedFile(size, Node1, TwoNodes(XaNode(2, Node2, c), XaNode(1, <<"folio", 9>>, <<"folio", 8>>)),
                     symbol, Ram(f, n)) :
             size \in {0, 1, 4, 5}, c \in {None, Node2}, symbol \in {0, 7, 8, 9},
             f \in [1..2 -> Frames], n \in {2, 4}}
    \cup {CachedFile(size, h, NoNodes, symbol, Ram(<<PhysFrame(c, FALSE)>>, n)) :
             size \in 0..3, h \in Leaves, symbol \in {0, 8, 4}, c \in 0..2, n \in {1, 4}}

-----------------------------------------------------------------------------
(* Three mounts over four dentries: every set of links of their lists; two *)
(* intact trees with every layout of file systems; torn paths.             *)

Mount3(a, b, c) == (m1 :> a) @@ (m2 :> b) @@ (m3 :> c)
Dentry4(a, b, c, d) == (d1 :> a) @@ (d2 :> b) @@ (d3 :> c) @@ (d4 :> d)
Mounting(ns, down, next, up, point, root, sb, parent, named) ==
    [ns |-> ns, down |-> down, next |-> next, up |-> up, point |-> point, root |-> root, sb |-> sb,
     parent |-> parent, named |-> named]
MountLinks == {m1, m2, m3, Null, Wild, Torn}
\* down, next and the parents of m2 and m3.
ChainOfMounts == <<Mount3(m2, m3, HeadAt(m3)), Mount3(Torn, HeadAt(m1), HeadAt(m2)), <<m1, m2>>>>
StarOfMounts == <<Mount3(m2, HeadAt(m2), HeadAt(m3)), Mount3(Torn, m3, HeadAt(m1)), <<m1, m1>>>>
MountTrees == {ChainOfMounts, StarOfMounts}

MountImages ==
    {Mounting(TRUE, Mount3(a, b, c), Mount3(Torn, e, f), Mount3(m1, m1, m1), Mount3(Null, d4, d4),
              Mount3(d1, d2, d3), Mount3(d1, d2, d3), Dentry4(d1, d2, d3, d1), {d4}) :
        a \in {m1, m2, Wild, Torn, HeadAt(m2)}, b \in {m2, m3, Null, HeadAt(m2)}, c \in {HeadAt(m3), m2},
        e \in MountLinks \cup {HeadAt(m1), HeadAt(m2), HeadAt(m3)}, f \in MountLinks \cup {HeadAt(m1)}}
    \cup {Mounting(TRUE, t[1], t[2], Mount3(m1, t[3][1], t[3][2]), Mount3(Null, p, q), Mount3(d1, r, u),
                   Mount3(d1, r, u), Dentry4(d1, x, y, z), {d1, d2, d3, d4}) :
             t \in MountTrees, p \in {d2, d3}, q \in {d2, d3, d4}, r \in {d1, d3}, u \in {d1, d3, d4},
             x \in {d1, d2}, y \in {d1, d2, d3}, z \in {d1, d2, d3, d4}}
    \cup {Mounting(ns, t[1], t[2], Mount3(m1, t[3][1], u), Mount3(Null, p, q), Mount3(d1, d3, d3),
                   Mount3(d1, d3, Null), Dentry4(x, d1, d3, d3), named) :
             ns \in BOOLEAN, t \in MountTrees, u \in {Null, Torn, Wild, m3, m2}, p \in {Null, Torn, Wild, d2},
             q \in {Null, d4}, x \in {d1, d2, Null}, named \in {{}, {d2}, {d1, d2, d3, d4}}}

MountWalk == INSTANCE MountWalks WITH
    Mounts <- {m1, m2, m3}, Dentries <- {d1, d2, d3, d4}, Root <- m1, Images <- MountImages,
    MaxDepth <- 2, MaxHops <- 7, MaxReported <- 100,
    img <- wimg, pc <- wpc, todo <- wtodo, out <- wout

-----------------------------------------------------------------------------
(* Three nodes with every set of links, and with every state of their      *)
(* fields on lists that end or run in a circle.                            *)

ListNodes == {n1, n2, n3}
ListLinks == ListNodes \cup {Head0, Null, Odd, Wild, Torn}
AList(kind, anchor, first, next, fields) ==
    [kind |-> kind, anchor |-> anchor, first |-> first, next |-> next, fields |-> fields]
Kinds == {"tasks", "threads", "modules"}
ListImages ==
    {AList(kind, TRUE, n1, next, [n \in ListNodes |-> "ok"]) :
        kind \in Kinds, next \in [ListNodes -> ListLinks]}
    \cup {AList(kind, TRUE, first, [n \in ListNodes |-> n2], [n \in ListNodes |-> "ok"]) :
             kind \in Kinds, first \in ListLinks}
    \cup {AList(kind, anchor, n1, (n1 :> n2) @@ (n2 :> n3) @@ (n3 :> last), fields) :
             kind \in Kinds, anchor \in BOOLEAN, last \in {Head0, n1, n2, Wild},
             fields \in [ListNodes -> {"ok", "bad", "torn"}]}

-----------------------------------------------------------------------------
(* Three VMAs - apart, overlapping, equal, torn, empty, too large - on a   *)
(* list or below three maple nodes, with every set of links.               *)

Mm(kind, root, nodes, next, area) ==
    [kind |-> kind, root |-> root, nodes |-> nodes, next |-> next, area |-> area]
Area(s, e) == [start |-> s, end |-> e]
Vma3(a, b, c) == (v1 :> a) @@ (v2 :> b) @@ (v3 :> c)
MapleNode(type, slots) == [type |-> type, slots |-> slots]
Maple3(a, b, c) == (x1 :> a) @@ (x2 :> b) @@ (x3 :> c)
NoMaple == [x \in {x1, x2, x3} |-> MapleNode("dense", <<>>)]
Areas ==
    {Vma3(Area(4, 6), Area(1, 2), Area(8, 9)), Vma3(Area(4, 6), Area(1, 2), Area(4, 5)),
     Vma3(Area(4, 6), Area(4, 5), Area(4, 6)), Vma3(Torn, Area(1, 1), Area(1, 20))}
VmaImages ==
    {Mm("list", v1, NoMaple, next, area) :
        next \in [{v1, v2, v3} -> {v1, v2, v3, Null, Torn}], area \in Areas}
    \cup {Mm("list", root, NoMaple, Vma3(v2, Wild, Null), area) : root \in {Null, Wild, Torn}, area \in Areas}
    \cup {Mm("maple", x1, Maple3(MapleNode("range", <<a, b>>), MapleNode("leaf", <<c, d>>), third),
             Vma3(Null, Null, Null), area) :
             a \in {x1, x2, x3, Wild}, b \in {x2, x3, Torn}, c \in {v1, v3, Wild}, d \in {v2, Torn},
             third \in {MapleNode("leaf", <<e, f>>) : e \in {v3, v1, Null}, f \in {Null, v2}}
                       \cup {MapleNode("range", <<e, f>>) : e \in {x2, x1, Null}, f \in {x3, x2}}
                       \cup {MapleNode("dense", <<v3>>)},
             area \in Areas}

AreaWalk == INSTANCE VmaWalk WITH
    MapleNodes <- {x1, x2, x3}, Vmas <- {v1, v2, v3}, Images <- VmaImages,
    MaxDepth <- 3, MaxVmas <- 5, MaxSize <- 10,
    img <- wimg, pc <- wpc, todo <- wtodo, seen <- wseen, out <- wout

-----------------------------------------------------------------------------
(* Three inodes: hash tables of two buckets with every set of links; two   *)
(* super blocks; trees of three dentries with every set of links.          *)

Cache(buckets, hnext, good, supers, sfirst, snext, slist, inext, files, mroots, kids, sib, dinode) ==
    [buckets |-> buckets, hnext |-> hnext, good |-> good, supers |-> supers, sfirst |-> sfirst,
     snext |-> snext, slist |-> slist, inext |-> inext, files |-> files, mroots |-> mroots,
     kids |-> kids, sib |-> sib, dinode |-> dinode]
Inode3(a, b, c) == (i1 :> a) @@ (i2 :> b) @@ (i3 :> c)
Dentry3(a, b, c) == (d1 :> a) @@ (d2 :> b) @@ (d3 :> c)
Super2(a, b) == (s1 :> a) @@ (s2 :> b)
OpenFile(i, r) == [inode |-> i, root |-> r]
NoInode == Inode3(Null, Null, Null)
NoDentry == Dentry3(Null, Null, Null)
NoSuper == Super2(Null, Null)

HashImages ==
    {Cache(buckets, hnext, good, FALSE, Torn, NoSuper, NoSuper, NoInode, <<OpenFile(i1, d1)>>, {},
           NoDentry, NoDentry, Dentry3(i2, Null, Null)) :
        buckets \in {<<i1, Null>>, <<i1, i2>>, <<Null, i3>>, <<Wild, i1>>, <<Null, Null>>},
        hnext \in [{i1, i2, i3} -> {i1, i2, i3, Null, Wild}], good \in {{i1, i2, i3}, {i1}}}
SuperImages ==
    {Cache(<<>>, NoInode, good, TRUE, first, snext, Super2(a, b), Inode3(c, d, HeadAt(s2)),
           <<OpenFile(i3, d1)>>, {d1}, NoDentry, NoDentry, Dentry3(i2, Null, Null)) :
        good \in {{i1, i2, i3}, {}}, first \in {s1, HeadAt("supers"), Wild, Torn},
        snext \in [{s1, s2} -> {s1, s2, HeadAt("supers"), Torn}],
        a \in {i1, HeadAt(s1), Wild}, b \in {i3, HeadAt(s2)},
        c \in {i2, i1, Torn}, d \in {HeadAt(s1), i1}}
FreeImages ==
    {Cache(<<Null>>, NoInode, {i1, i2, i3}, FALSE, Torn, NoSuper, NoSuper, NoInode, files, {},
           kids, sib, Dentry3(i1, i2, i3)) :
        files \in {<<OpenFile(i1, d1), OpenFile(Torn, Null)>>},
        kids \in [{d1, d2, d3} -> {d1, d2, d3, Null}], sib \in [{d1, d2, d3} -> {d1, d2, d3, Null}]}
    \cup {Cache(<<Null>>, NoInode, good, FALSE, Torn, NoSuper, NoSuper, NoInode, files, mroots,
                kids, sib, Dentry3(Null, i2, Torn)) :
             good \in {{i1, i2, i3}, {i2}},
             files \in {<<>>, <<OpenFile(i1, Null), OpenFile(i2, d1), OpenFile(i1, d3)>>},
             mroots \in {{}, {d2, d3}},
             kids \in {Dentry3(d2, d3, HeadAt(d3)), Dentry3(Wild, d1, Torn), Dentry3(d1, HeadAt(d2), d2)},
             sib \in {Dentry3(Null, Null, HeadAt(d2)), Dentry3(d3, d3, d3), Dentry3(d2, d1, Wild)}}

InodeWalk == INSTANCE CachedInodes WITH
    Inodes <- {i1, i2, i3}, Supers <- {s1, s2}, Dentries <- {d1, d2, d3},
    Images <- HashImages \cup SuperImages \cup FreeImages,
    MaxInodes <- 6, MaxSupers <- 3, MaxSiblings <- 4, MaxDentries <- 6,
    img <- wimg, pc <- wpc, cur <- wcur, rest <- wrest, sb <- wsb, turns <- wturns, todo <- wtodo,
    seen <- wseen, found <- wfound, out <- wout

-----------------------------------------------------------------------------
inodeOnly == <<wcur, wturns, wrest, wsb, wfound>>
walkVars == <<wimg, wpc, wtodo, wout, wseen, inodeOnly>>

NoFile ==
    /\ fileImg = Null /\ filePc = "start" /\ calls = <<>> /\ budget = 0 /\ pages = <<>>
    /\ vmemmap = 0 /\ page = 0 /\ content = <<>> /\ stats = Null
NoInodes == wcur = Null /\ wturns = 0 /\ wrest = <<>> /\ wsb = Null /\ wfound = <<>>
NoList == listImg = Null /\ listPc = "start" /\ listCur = Null /\ seen = {} /\ turns = 0 /\ listOut = <<>>
NotWalking ==
    wimg = Null /\ wpc = "start" /\ wtodo = <<>> /\ wout = <<>> /\ wseen = {} /\ NoInodes

WalksInit ==
    \/ view = "mounts" /\ MountWalk!Init /\ wseen = {} /\ NoInodes
    \/ view = "vmas" /\ AreaWalk!Init /\ NoInodes
    \/ view = "inodes" /\ InodeWalk!Init

WalksNext ==
    \/ view = "mounts" /\ MountWalk!Next /\ UNCHANGED <<wseen, inodeOnly>>
    \/ view = "vmas" /\ AreaWalk!Next /\ UNCHANGED inodeOnly
    \/ view = "inodes" /\ InodeWalk!Next

(* A walk reports what there is before the damage, all of it and once: the *)
(* VMAs of a process, the mounts, and the inodes of the page cache by      *)
(* whichever of its three ways.  The path that is reported for a mount or  *)
(* a dentry leads back to it, the pages of a recovered file are where the  *)
(* kernel had them, and its ranges tell its real bytes from its zeros.     *)
AllFound ==
    CASE view = "vmas" -> AreaWalk!VmasFound
      [] view = "mounts" -> MountWalk!MountsFound /\ MountWalk!PathsLeadBack
      [] view = "inodes" -> InodeWalk!InodesFound
      [] view = "file" -> PagesInPlace /\ RangesHonest
      [] OTHER -> TRUE

\* The walk at work, if one is, has come to its end.
WalkEnded ==
    CASE view = "file" -> FileEnded
      [] view = "lists" -> ListEnded
      [] view = "vmas" -> AreaWalk!Ended
      [] view = "mounts" -> MountWalk!Ended
      [] view = "inodes" -> InodeWalk!Ended
      [] OTHER -> TRUE

-----------------------------------------------------------------------------
(* One of them at work.                                                    *)

allVars == <<view, vars, coreVars, rawVars, listVars, fileVars, walkVars>>

ViewsInit ==
    /\ Init /\ CoreInit /\ RawInit
    /\ \/ view \in {"kva", "core", "raw", "lists", "file"} /\ NotWalking
       \/ open = {} /\ vmas = <<>> /\ source = "phys" /\ (\A a \in DOMAIN mem : mem[a] = "hole") /\ WalksInit
    /\ view # "kva" => open = {}
    /\ view # "core" => vmas = <<>>
    /\ view # "raw" => source = "phys" /\ \A a \in DOMAIN mem : mem[a] = "hole"
    /\ IF view = "lists" THEN ListInit ELSE NoList
    /\ IF view = "file" THEN FileInit ELSE NoFile

KvaWorks == view = "kva" /\ Next /\ UNCHANGED <<view, coreVars, rawVars, listVars, fileVars, walkVars>>
CoreWorks == view = "core" /\ CoreNext /\ UNCHANGED <<view, vars, rawVars, listVars, fileVars, walkVars>>
RawWorks == view = "raw" /\ RawNext /\ UNCHANGED <<view, vars, coreVars, listVars, fileVars, walkVars>>
ListWorks == view = "lists" /\ ListNext /\ UNCHANGED <<view, vars, coreVars, rawVars, fileVars, walkVars>>
FileWorks == view = "file" /\ FileNext /\ UNCHANGED <<view, vars, coreVars, rawVars, listVars, walkVars>>
WalkWorks == WalksNext /\ UNCHANGED <<view, vars, coreVars, rawVars, listVars, fileVars>>

ViewsNext == KvaWorks \/ CoreWorks \/ RawWorks \/ ListWorks \/ FileWorks \/ WalkWorks

\* A read, a walk, and the loop of the client that copies, do not stop in the
\* middle.
ViewsSpec ==
    /\ ViewsInit /\ [][ViewsNext]_allVars
    /\ WF_allVars(CoreWorks \/ RawWorks \/ ListWorks \/ FileWorks \/ WalkWorks)

(* A client that copies one of the three up to size() ends, at size();     *)
(* every walk ends, on any image: only siblings among mounts that run in a *)
(* circle are followed for ever.                                           *)
CopiesAndWalksEnd == CoreCopyEnds /\ RawCopyEnds /\ <>WalkEnded
=============================================================================
