--------------------------- MODULE RecoveredFile ---------------------------
(***************************************************************************)
(* recover_file_with_stats (src/os/linux/pagecache.cpp): a file is put     *)
(* together from the pages the page cache holds of it.  walk_xarray finds  *)
(* its folios, a folio's address less the base of vmemmap is a page frame, *)
(* and the statistics say which bytes are real.                            *)
(*                                                                         *)
(* fileImg is what the dump holds of the file: the size in its inode, its  *)
(* xarray, the value of the symbol vmemmap_base, and physical memory.      *)
(* Links may be torn.  A struct page is one address long; a GiB of them    *)
(* describes 64 GiB of memory.                                             *)
(***************************************************************************)
EXTENDS Integers, Sequences, FiniteSets, FiniteSetsExt, SequencesExt

CONSTANTS
    FileImages,     \* what a dump may hold
    PageBytes,      \* PAGE_SIZE
    GiB,            \* in struct pages
    MaxRecover,     \* kMaxRecoverBytes
    MaxDepth,       \* of walk_xarray
    Budget,         \* of walk_xarray
    MaxRanges       \* kMaxRecoveryRanges

\* What the head and the slots of an xarray hold.
Entries(f) == {f.head} \cup UNION {Range(f.nodes[n].slots) : n \in DOMAIN f.nodes}

\* Sizes, addresses and what was captured of a frame are numbers.
ASSUME RecoveredFileAssumption ==
    /\ PageBytes \in Nat \ {0} /\ GiB \in Nat \ {0} /\ MaxRecover \in Nat
    /\ \A f \in FileImages :
          /\ f.size \in Nat /\ f.symbol \in Nat
          /\ f.mem \in Seq(Range(f.mem)) /\ \A m \in Range(f.mem) : m.captured \in Nat
          /\ \A e \in Entries(f) : e[1] = "folio" => e[2] \in Nat
          /\ \A n \in DOMAIN f.nodes : f.nodes[n].unit \in Nat /\ f.nodes[n].slots \in Seq(Range(f.nodes[n].slots))

VARIABLES
    fileImg,
    filePc,
    calls,      \* walk_xarray: the calls that are pending, the next one first
    budget,
    pages,      \* CachedPages found: index and folio
    vmemmap,    \* vmemmap_base; 0 if none
    page,       \* the page to copy next
    content,    \* the file
    stats       \* the statistics, as far as they decide anything

fileVars == <<fileImg, filePc, calls, budget, pages, vmemmap, page, content, stats>>

NoByte == <<-1, 0>>      \* of no frame
NoStats == [copied |-> {}, dropped |-> {}, nbytes |-> 0, missing |-> <<>>, lost |-> <<>>]

FileInit ==
    /\ fileImg \in FileImages
    /\ filePc = "start"
    /\ calls = <<>> /\ budget = Budget /\ pages = <<>>
    /\ vmemmap = 0 /\ page = 1 /\ content = <<>> /\ stats = NoStats

-----------------------------------------------------------------------------
(* Entries of the xarray: <<"none">>, <<"value">>, <<"folio", address>>,   *)
(* <<"node", name>>.  A node that is not among fileImg.nodes cannot be     *)
(* read: so a sibling entry of a large folio, which looks like one.        *)
(* unit is 2^shift, the pages of a slot.                                   *)

Call(entry, index, depth) == [entry |-> entry, index |-> index, depth |-> depth]
Page(index, folio) == [index |-> index, folio |-> folio]

\* collect_cached_pages: a file of one page has it in the root.
Collect ==
    /\ filePc = "start"
    /\ pages' = IF fileImg.head[1] = "folio" THEN <<Page(0, fileImg.head[2])>> ELSE <<>>
    /\ calls' = IF fileImg.head[1] = "node" THEN <<Call(fileImg.head, 0, 0)>> ELSE <<>>
    /\ filePc' = "walk"
    /\ UNCHANGED <<fileImg, budget, vmemmap, page, content, stats>>

\* index | (i << shift), for a slot below 64: the bits that are not there are
\* added.
Or(index, i, unit) ==
    LET bit(b) == IF (i \div b) % 2 = 1 /\ (index \div (unit * b)) % 2 = 0 THEN unit * b ELSE 0
    IN  index + bit(1) + bit(2) + bit(4) + bit(8) + bit(16) + bit(32)

\* The calls a node makes, for its slots in turn.
CallsOf(c) ==
    LET node == fileImg.nodes[c.entry[2]]
    IN  [i \in 1..Len(node.slots) |-> Call(node.slots[i], Or(c.index, i - 1, node.unit), c.depth + 1)]

\* One call of walk_xarray.
WalkXarray ==
    /\ filePc = "walk" /\ calls # <<>>
    /\ LET c == Head(calls) IN
         IF c.entry[1] = "none" \/ c.depth > MaxDepth \/ budget = 0
         THEN calls' = Tail(calls) /\ UNCHANGED <<budget, pages>>
         ELSE /\ budget' = budget - 1
              /\ pages' = IF c.entry[1] = "folio"
                          THEN Append(pages, Page(c.index, c.entry[2])) ELSE pages
              /\ calls' = IF c.entry[1] = "node" /\ c.entry[2] \in DOMAIN fileImg.nodes
                          THEN CallsOf(c) \o Tail(calls) ELSE Tail(calls)
    /\ UNCHANGED <<fileImg, filePc, vmemmap, page, content, stats>>

-----------------------------------------------------------------------------
\* recover_file_size: the inode's size, or up to the last cached page.
FileSize ==
    IF fileImg.size > 0 THEN Min({fileImg.size, MaxRecover})
    ELSE IF pages = <<>> THEN 0
    ELSE Min({(Max({p.index : p \in Range(pages)}) + 1) * PageBytes, MaxRecover})

Expected == (FileSize + PageBytes - 1) \div PageBytes
Seen == {p.index : p \in Range(pages)} \cap 0..(Expected - 1)
Chunk(i) == Min({PageBytes, FileSize - i * PageBytes})

\* phys().read of the first n bytes of a frame, of which Captured are there;
\* the layer clears the rest.  A byte is the frame and the offset it is from.
Captured(pfn) == fileImg.mem[pfn + 1].captured
ReadFrame(pfn, n) == [k \in 1..n |-> IF k <= Captured(pfn) THEN <<pfn, k - 1>> ELSE NoByte]
NonZero(pfn, n) == IF fileImg.mem[pfn + 1].zero THEN 0 ELSE Min({n, Captured(pfn)})

\* What a base makes of a folio: a frame below max_address, or none.
InRam(folio, b) == folio >= b /\ folio - b < Len(fileImg.mem)

\* Mutant: a short read counts.
Copies_Short(p, b) == InRam(p.folio, b) /\ Captured(p.folio - b) > 0

Copies(p, b) == InRam(p.folio, b) /\ Captured(p.folio - b) >= Chunk(p.index)

\* attempt_copy.
Inside == {k \in 1..Len(pages) : pages[k].index < Expected}
Attempt(b) ==
    LET good == {k \in Inside : b # 0 /\ Copies(pages[k], b)}
    IN  [base |-> b,
         copied |-> {pages[k].index : k \in good},
         dropped |-> {pages[k].index : k \in Inside \ good},
         nbytes |-> FoldSet(LAMBDA k, s : s + Chunk(pages[k].index), 0, good),
         nonzero |-> FoldSet(LAMBDA k, s : s + NonZero(pages[k].folio - b, Chunk(pages[k].index)),
                             0, good)]

\* better_attempt.
Better(a, b) ==
    LET x == Cardinality(a.copied) - Cardinality(b.copied)
        y == a.nbytes - b.nbytes
        z == a.nonzero - b.nonzero
        w == Cardinality(b.dropped) - Cardinality(a.dropped)
    IN  IF x # 0 THEN x > 0 ELSE IF y # 0 THEN y > 0 ELSE IF z # 0 THEN z > 0 ELSE w > 0

\* Mutant: the lowest folio is taken to be the first struct page.
Derived_NotRounded ==
    LET folios == {p.folio : p \in Range(pages)}
    IN  IF folios = {} \/ ~(fileImg.symbol = 0 \/ Len(fileImg.mem) < GiB) THEN 0 ELSE Min(folios)

\* The base is a multiple of 1 GiB and every struct page of a machine of
\* less than 64 GiB is in the GiB that follows.
Derived ==
    LET folios == {p.folio : p \in Range(pages)}
    IN  IF folios = {} \/ ~(fileImg.symbol = 0 \/ Len(fileImg.mem) < GiB) THEN 0
        ELSE Min(folios) - (Min(folios) % GiB)

\* The symbol's base is tried first and stays unless the other is better.
Bases == {fileImg.symbol, Derived} \ {0}
Attempts == {Attempt(b) : b \in IF Bases = {} THEN {0} ELSE Bases}
Chosen ==
    CHOOSE a \in Attempts : \A c \in Attempts \ {a} :
        IF a.base = fileImg.symbol THEN ~Better(c, a) ELSE Better(a, c)

\* An empty file has no statistics; without a base nothing is copied.
ChooseBase ==
    /\ filePc = "walk" /\ calls = <<>>
    /\ content' = [k \in 1..FileSize |-> NoByte]
    /\ \E chosen \in {Chosen} :
          /\ vmemmap' = IF FileSize = 0 THEN 0 ELSE chosen.base
          /\ stats' = [stats EXCEPT !.copied = chosen.copied, !.dropped = chosen.dropped]
          /\ filePc' = IF FileSize = 0 THEN "done" ELSE IF chosen.base = 0 THEN "ranges" ELSE "copy"
    /\ UNCHANGED <<fileImg, calls, budget, pages, page>>

\* memory read straight into the buffer, a short read too.
Filled(i, frame) ==
    [k \in 1..FileSize |->
        LET o == k - i * PageBytes IN IF o \in DOMAIN frame THEN frame[o] ELSE content[k]]

\* Step 3, for one page.
CopyPage ==
    /\ filePc = "copy" /\ page <= Len(pages)
    /\ LET p == pages[page] IN
         IF page \notin Inside THEN UNCHANGED <<content, stats>>
         ELSE IF ~InRam(p.folio, vmemmap)
         THEN stats' = [stats EXCEPT !.dropped = @ \cup {p.index}] /\ UNCHANGED content
         ELSE /\ content' = Filled(p.index, ReadFrame(p.folio - vmemmap, Chunk(p.index)))
              /\ stats' = IF Copies(p, vmemmap)
                          THEN [stats EXCEPT !.copied = @ \cup {p.index}, !.nbytes = @ + Chunk(p.index)]
                          ELSE [stats EXCEPT !.dropped = @ \cup {p.index}]
    /\ page' = page + 1
    /\ UNCHANGED <<fileImg, filePc, calls, budget, pages, vmemmap>>

CopyDone ==
    /\ filePc = "copy" /\ page > Len(pages)
    /\ filePc' = "ranges"
    /\ UNCHANGED <<fileImg, calls, budget, pages, vmemmap, page, content, stats>>

-----------------------------------------------------------------------------
\* add_recovery_range: grows the last range or begins one; with MaxRanges of
\* them the rest is only counted.
AddRange(ranges, i) ==
    LET last == ranges[Len(ranges)] IN
    IF ranges # <<>> /\ last.offset + last.length = i * PageBytes
    THEN [ranges EXCEPT ![Len(ranges)].length = @ + Chunk(i)]
    ELSE IF Len(ranges) < MaxRanges
    THEN Append(ranges, [offset |-> i * PageBytes, length |-> Chunk(i)])
    ELSE ranges

RangesOf(S) == FoldLeft(AddRange, <<>>, SetToSortSeq(S, LAMBDA a, b : a < b))

Missing == 0..(Expected - 1) \ Seen
Lost == Seen \ stats.copied

Ranges ==
    /\ filePc = "ranges"
    /\ stats' = [stats EXCEPT !.dropped = @ \cup Lost, !.missing = RangesOf(Missing), !.lost = RangesOf(Lost)]
    /\ filePc' = "done"
    /\ UNCHANGED <<fileImg, calls, budget, pages, vmemmap, page, content>>

\* RecoveredFileStats::complete.
Complete ==
    /\ FileSize > 0 /\ Missing = {} /\ Lost = {}
    /\ stats.dropped = {}
    /\ Cardinality(stats.copied) = Expected
    /\ stats.nbytes = FileSize

\* describe_recovered_file_state.
Describe ==
    IF FileSize = 0 \/ pages = <<>> \/ stats.copied = {} THEN "unavailable"
    ELSE IF Missing = {} /\ Lost = {} /\ stats.dropped = {} /\ Complete THEN "checked"
    ELSE "partial"

FileNext == Collect \/ WalkXarray \/ ChooseBase \/ CopyPage \/ CopyDone \/ Ranges

FileSpec == FileInit /\ [][FileNext]_fileVars /\ WF_fileVars(FileNext)

-----------------------------------------------------------------------------
Real(k) == content[k] # NoByte
Covered(ranges) == UNION {(r.offset + 1)..(r.offset + r.length) : r \in Range(ranges)}

\* A byte of a page that was found, from the frame of its folio.
FromPage(k, p) ==
    /\ k = p.index * PageBytes + content[k][2] + 1 /\ content[k][2] < Captured(content[k][1])
    /\ content[k][1] = p.folio - vmemmap

(* A byte that is not synthetic was captured, in the frame of a page found *)
(* for its place; a file called "checked" has no other byte; and a byte    *)
(* that was not read is of a page that is missing or lost.  (A torn xarray *)
(* may hold two folios for an index; if one was read the index is both     *)
(* copied and dropped.)                                                    *)
PagesHonest ==
    filePc = "done" =>
        /\ Describe = "checked" => \A k \in 1..FileSize : Real(k)
        /\ \A k \in 1..FileSize :
              IF Real(k) THEN \E p \in Range(pages) : FromPage(k, p)
              ELSE (k - 1) \div PageBytes \in Missing \cup Lost \cup (stats.copied \cap stats.dropped)

(* "Those zeros are synthetic unless RecoveredFileStats says the range was *)
(* complete": a byte that was not read lies in a range said to be missing  *)
(* or lost, as far as the table of ranges goes, and a missing range has no *)
(* other.                                                                  *)
RangesHonest ==
    filePc = "done" =>
        /\ \A k \in 1..FileSize :
              \/ Real(k)
              \/ k \in Covered(stats.missing) \cup Covered(stats.lost)
              \/ Len(stats.missing) = MaxRanges \/ Len(stats.lost) = MaxRanges
              \/ (k - 1) \div PageBytes \in stats.copied \cap stats.dropped
        /\ Covered(stats.missing) \cap Covered(stats.lost) = {}
        /\ \A k \in Covered(stats.missing) : k <= FileSize /\ ~Real(k)

\* What the kernel finds at an index: down from the root, a digit a level.
Descend(entry, i) ==
    IF entry[1] = "node" /\ entry[2] \in DOMAIN fileImg.nodes
    THEN LET node == fileImg.nodes[entry[2]]
         IN  node.slots[((i \div node.unit) % Len(node.slots)) + 1]
    ELSE entry
Load(i) ==
    LET root == fileImg.nodes[fileImg.head[2]] IN
    IF i >= Len(root.slots) * root.unit THEN <<"none">>
    ELSE FoldLeft(LAMBDA e, d : Descend(e, i), fileImg.head, [d \in 1..MaxDepth |-> d])

\* An xarray as the kernel builds it: a level a digit, folios at the bottom,
\* of one page each, and each of a frame of memory.
Intact ==
    /\ fileImg.head[1] = "node"
    /\ \A n \in DOMAIN fileImg.nodes : \A e \in Range(fileImg.nodes[n].slots) :
          \/ e = <<"none">>
          \/ e[1] = "folio" /\ fileImg.nodes[n].unit = 1 /\ InRam(e[2], fileImg.true)
          \/ /\ e[1] = "node" /\ e[2] \in DOMAIN fileImg.nodes
             /\ fileImg.nodes[e[2]].unit * Len(fileImg.nodes[e[2]].slots) = fileImg.nodes[n].unit

(* With the right symbol, or none on a machine of less than 64 GiB, every  *)
(* page of an intact file that is in the cache and was captured stands     *)
(* where the kernel would find it, and the rest is zeros; and a file all   *)
(* of which is there is called complete.                                   *)
PagesInPlace ==
    filePc = "done" /\ Intact /\ fileImg.symbol \in {0, fileImg.true}
        /\ (Len(fileImg.mem) < GiB \/ fileImg.symbol # 0)
        => /\ \A i \in 0..(Expected - 1) : \A o \in 1..Chunk(i) :
                 content[i * PageBytes + o] =
                     IF Load(i)[1] = "folio" /\ o <= Captured(Load(i)[2] - fileImg.true)
                     THEN <<Load(i)[2] - fileImg.true, o - 1>> ELSE NoByte
           /\ FileSize > 0 /\ (\A k \in 1..FileSize : Real(k)) => Describe = "checked"

(* The recovery ends, also in an xarray that runs in a circle.             *)
FileEnded == filePc = "done"
=============================================================================
