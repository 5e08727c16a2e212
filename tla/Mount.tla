------------------------------- MODULE Mount -------------------------------
(* What a mount (src/mount/winfsp_mount.cpp, src/mount/fuse_mount.cpp)     *)
(* does with a directory: Open keeps the raw Node* of what it resolved as  *)
(* the handle, later calls use it, and ReadDirectory pages through list()  *)
(* by the name of the last entry it returned.                              *)
(*                                                                         *)
(* The directory is built by DirNode::add before the mount starts, from    *)
(* entries whose names come out of the image and may repeat.  It may be    *)
(* one of the path-encoded directories of src/os/linux/v2p_misc.cpp, whose *)
(* find makes a node for every name that parses as a number and keeps no   *)
(* reference to it.  A node lives while the tree or a call in progress     *)
(* holds a shared_ptr to it.                                               *)
EXTENDS DirTree

CONSTANTS
    Clients,    \* WinFsp dispatcher threads (one, for FUSE's -s)
    EntryNames, \* names of the entries the directory is built from
    Queries,    \* names the directory's find makes a node for; {} if none
    FileKinds,  \* of file nodes: "lazy", "trivial", "sized", "stream"
    MaxEntries, \* bound on the entries offered to add
    MaxOpens    \* bound on the handles given out

ASSUME MountAssumption ==
    /\ FileKinds \subseteq {"lazy", "trivial", "sized", "stream"}
    /\ MaxEntries \in Nat /\ MaxOpens \in Nat

VARIABLES
    mountHeap, \* the nodes; 1 is the directory
    live,      \* nodes not yet destroyed
    hold,      \* per thread: the NodePtr its Open holds
    handles,   \* raw pointers given out, in order
    paging,    \* per thread: the directory listing it is reading
    ran        \* file nodes whose content has been produced or recovered

mountVars == <<mountHeap, live, hold, handles, paging, ran>>

Listed == 1

\* Bound on the names a client receives: more than the directory has.
MaxListed == MaxEntries + 2

\* A client's listing: the names received, and whether the end was marked.
\* The marker is the last name received.
NotListing == [out |-> <<>>, on |-> FALSE, eof |-> FALSE]

\* The builders of /proc, /sys, /files and /fs: one add per entry.
Build(entries) ==
    LET built[i \in 0..Len(entries)] ==
            IF i = 0 THEN <<Dir("dir")>>
            ELSE Add(built[i - 1], Listed, File(entries[i].name, entries[i].kind, Null))
    IN  built[Len(entries)]

Entries == UNION {[1..n -> [name : EntryNames, kind : FileKinds]] : n \in 0..MaxEntries}

MountInit ==
    /\ \E es \in Entries : mountHeap = Build(es)
    /\ live = DOMAIN mountHeap
    /\ hold = [t \in Clients |-> Null]
    /\ handles = <<>>
    /\ paging = [t \in Clients |-> NotListing]
    /\ ran = {}

Free(t) == hold[t] = Null /\ ~paging[t].on

\* Open, up to ResolvePath: the call holds what find returned.  A query's
\* node is made by this call alone.
OpenFind(t, name) ==
    /\ Free(t)
    /\ Len(handles) + Cardinality({u \in Clients : hold[u] # Null}) < MaxOpens
    /\ LET found == Find(mountHeap, Listed, name)
       IN  IF found # Null
           THEN hold' = [hold EXCEPT ![t] = found] /\ UNCHANGED <<mountHeap, live>>
           ELSE /\ name \in Queries
                /\ mountHeap' = Append(mountHeap, File(name, "lazy", Null))
                /\ live' = live \cup {Len(mountHeap')}
                /\ hold' = [hold EXCEPT ![t] = Len(mountHeap')]
    /\ UNCHANGED <<handles, paging, ran>>

InTree(n) == \E i \in DOMAIN mountHeap[Listed].kids : mountHeap[Listed].kids[i] = n

\* The rest of Open: the handle, the authoritative size (which runs the
\* producer, or the size function), and the NodePtr out of scope.
OpenReturn(t) ==
    LET n == hold[t]
    IN  /\ n # Null
        /\ handles' = Append(handles, n)
        /\ ran' = ran \cup {n}
        /\ hold' = [hold EXCEPT ![t] = Null]
        /\ live' = IF InTree(n) THEN live ELSE live \ {n}
        /\ UNCHANGED <<mountHeap, paging>>

\* lmpfs_open: the same, without asking for the size.
FuseOpenReturn(t) ==
    LET n == hold[t]
    IN  /\ n # Null
        /\ handles' = Append(handles, n)
        /\ hold' = [hold EXCEPT ![t] = Null]
        /\ live' = IF InTree(n) THEN live ELSE live \ {n}
        /\ UNCHANGED <<mountHeap, paging, ran>>

\* A mutant: size_hint loads a lazy node.
HintLoads(n) == mountHeap[n].kind # "stream"

\* What FillFileInfo(cheap) runs: size_hint of a lazy node produces nothing
\* unless the node is tagged trivial, a stream knows its size, and a sized
\* node's size_hint is its size(), which runs size_fn_: for recovered files
\* recovered_file_bytes(...).size().
HintRuns(n) == mountHeap[n].kind \in {"trivial", "sized"}

\* A mutant: the page starts with the marker.
StartAtMarker(t) ==
    IF paging[t].out = <<>> THEN 1
    ELSE LET at == Positions(mountHeap, Listed, Last(paging[t].out))
         IN  IF at = {} THEN Len(mountHeap[Listed].kids) + 1 ELSE First(at)

\* The position the page starts at: behind the first entry called marker.
PageStart(t) ==
    IF paging[t].out = <<>> THEN 1
    ELSE LET at == Positions(mountHeap, Listed, Last(paging[t].out))
         IN  IF at = {} THEN Len(mountHeap[Listed].kids) + 1 ELSE First(at) + 1

\* ReadDirectory: k entries fit the buffer.  FillFileInfo is called before
\* AddDirInfo finds that an entry does not fit; the end mark is written only
\* when all did.
ReadDirectory(t, k) ==
    LET names == List(mountHeap, Listed)
        from == PageStart(t)
        left == (Len(names) + 1) - from
        given == IF k < left THEN k ELSE left
        visited == IF k < left THEN from..(from + k) ELSE from..Len(names)
    IN  /\ hold[t] = Null
        /\ ~paging[t].eof
        /\ Len(paging[t].out) <= MaxListed
        /\ paging' = [paging EXCEPT ![t] =
                         [out |-> @.out \o SubSeq(names, from, (from + given) - 1),
                          on |-> TRUE,
                          eof |-> k >= left]]
        /\ ran' = ran \cup {n \in {mountHeap[Listed].kids[i] : i \in visited} : HintRuns(n)}
        /\ UNCHANGED <<mountHeap, live, hold, handles>>

\* lmpfs_readdir hands the whole of list() to the filler in one call.
FuseReaddir(t) ==
    /\ Free(t)
    /\ paging' = [paging EXCEPT ![t] = [out |-> List(mountHeap, Listed), on |-> TRUE, eof |-> TRUE]]
    /\ ran' = ran \cup {n \in {mountHeap[Listed].kids[i] : i \in DOMAIN mountHeap[Listed].kids} : HintRuns(n)}
    /\ UNCHANGED <<mountHeap, live, hold, handles>>

\* The client is done with its listing.
EndListing(t) ==
    /\ paging[t].eof
    /\ paging' = [paging EXCEPT ![t] = NotListing]
    /\ UNCHANGED <<mountHeap, live, hold, handles, ran>>

MountNext ==
    \E t \in Clients :
        \/ \E name \in EntryNames \cup Queries : OpenFind(t, name)
        \/ OpenReturn(t)
        \/ FuseOpenReturn(t)
        \/ FuseReaddir(t)
        \/ \E k \in 1..MaxEntries : ReadDirectory(t, k)
        \/ EndListing(t)

MountSpec == MountInit /\ [][MountNext]_mountVars

\* A client that has asked for a page asks for the next until the end mark.
Paging(t) == paging[t].on /\ \E k \in 1..MaxEntries : ReadDirectory(t, k)

----------------------------------------------------------------------------
(* Properties.                                                             *)

(* However the buffer cuts the directory into pages, a client receives the *)
(* entries in order, each once: what it has is always a prefix of list(),  *)
(* and all of it when the end is marked.                                   *)
ListingExact ==
    \A t \in Clients :
        /\ IsPrefix(paging[t].out, List(mountHeap, Listed))
        /\ paging[t].eof => paging[t].out = List(mountHeap, Listed)

(* vfs.h: a duplicate name would be "an infinite QueryDirectory loop".     *)
(* Every listing that is started comes to its end mark.                    *)
ListingEnds == \A t \in Clients : paging[t].on ~> paging[t].eof

(* winfsp_mount.cpp: "All Nodes live as long as the Engine which lives as  *)
(* long as the mount, so the pointer is valid for the file system's        *)
(* lifetime."                                                              *)
HandlesLive == \A i \in DOMAIN handles : handles[i] \in live

(* vfs.h, of size_hint: "MUST NOT run a lazy producer".  A node only       *)
(* listings have touched has produced nothing, except where it is tagged   *)
(* as trivial to produce or where size_hint is the node's size function.   *)
Opened == {handles[i] : i \in DOMAIN handles}
ListingProducesNothing == \A n \in ran \ Opened : mountHeap[n].kind \in {"trivial", "sized"}
=============================================================================
