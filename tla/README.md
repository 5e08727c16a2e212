# TLA+ models of MemNixFS

MemNixFS opens a dump of a Linux machine's memory, finds the kernel in it, and
shows what it holds as a file system: `/proc`, `/sys`, `/fs`, `/files`, `/mem`,
`/misc` and `/plugins`, mounted with WinFsp or FUSE or read through a C API.
This directory models the parts of it whose correctness depends on state,
interleaving or boundaries, checks them with TLC on small instances and proves
the central facts with TLAPS for all instances.

Paths below are relative to the repository; `PROJECT.json` gives the source
lines of every definition, and lists hazards, runs, mutants and theorems.

## The system

| Component | State | Operations | Why it is hard | What makes it correct |
|---|---|---|---|---|
| File nodes (`src/vfs/vfs.*`) | content and size caches, a mutex each | `size`, `size_hint`, `read`, `warm`; a producer runs on first use | mount threads and warm pool enter one node at once; producers throw | content produced once, seen alike by all; every call returns |
| Directory nodes (`src/vfs/vfs.*`) | children and a set of their names | `add`, `find`, `list`, `ensure_dir_child`, `resolve` | two records of one fact, rewritten in place | names unique, both records agree |
| Forensic warmer (`src/vfs/forensic_warmer.*`, options in `src/cli/main.cpp`) | target list, shared index, counters | `start`, `start_precompute`, `worker`, `report_summary`, `join` | threads start while others work; thread creation fails; unmount in the middle | work shared without overlap, one summary, joined before the Engine's members go |
| Engine (`src/app/engine.*`) | the tree and all resolvers | `create`: resolve kernel and symbols, build the tree, start warming | recovered paths contradict each other; hash order | the tree is determined by the inodes |
| User page cache (`src/arch/x86_64/page_cache.*`) | LRU list, map, byte count | `read`, `fetch` | decoding happens outside the lock | books agree, LRU, right bytes |
| Dump formats (`src/formats`) | index of ranges or frames; frame cache | factory by magic, `read`, `max_address` | hostile or cut files; cursor arithmetic; pointer into a cache | the `PhysicalLayer` contract |
| Kernel address reader (`src/os/linux/kva_reader.*`) | one process-wide cached page table | `kva_read`, `kva_read_cstr`, `kva_translate` | racing resolution; several dumps in one process | complete or rightly refused |
| Streams (`phys_raw_stream.h`, `kern_va_stream.*`, `elf_core_stream.*`) | planned layout | `size`, `read` of a window | windows across header, VMAs, holes and the end | window holds memory or zeros; a copy ends |
| Mounts (`src/mount`) | handles, the client's paging marker | `Open`, `Read`, `ReadDirectory`; FUSE's three | raw pointers as handles, paging by name | listings exact and finite |
| Plugin loader (`src/api/lmpfs.cpp`) | load context, `/plugins` | scan, load, init, `lmpfs_plugin_add_file` | clashing names and stems | nobody outside or over another's directory |
| C API (`src/api/lmpfs.cpp`, `vmmdll_compat.cpp`) | handles, the list `VMMDLL_CloseAll` closes, an error per thread | open, close, close all; paths, processes, memory, both interfaces | clients' threads close what others open; two interfaces on one handle | an engine is deleted once; a failing call leaves its own error, a read its whole answer |
| Symbol resolution (`src/symbols/symbol_resolver.*`, `symbol_cache_http.*`, `tools/fetch_symbols.sh`) | the cache directories, which outlive the process | `resolve_symbols`: file, directories, BTF of the dump, script, mirrors, fallback | any source fails; a killed run leaves a torn file; a later run trusts what it finds | what is returned loads; full symbols are not lost again |
| Symbols from the dump (`src/symbols/kallsyms.cpp`, `btf_to_isf.cpp`, `isf_symbols.cpp`, `src/os/linux/btf_probe.cpp`) | none between calls | find the kallsyms tables, expand names, find BTF blobs, convert, inline unnamed members | tables are found by guessing lengths backwards; windows; look-alikes | what is extracted is what the linker and the compiler wrote; a table that is all there is found |
| Kernel location (`banner_scan.cpp`, `kernel_resolver.cpp`, `dtb_resolver.cpp`) | none between calls | scans for banners and `init_task`, votes for the base of the direct map, choice of a page directory | stale copies, look-alikes, holes | the kernel's own task, base and page directory win |
| Process enumeration, threads, modules (`process_list.cpp`, `threads.cpp`, `modules.cpp`) | none between calls | walk of a linked list in the image | torn links, circles, garbage entries | what precedes the damage is reported, once; the walk ends |
| VMAs (`vma.cpp`) | none | maple tree or list, then sort and unique | nodes reused by the kernel, overlapping areas | all areas, sorted, once each |
| Mounts of the dumped machine and paths (`mountinfo.cpp`, `dentry_path.cpp`) | none | walk of the mount tree, path to the global root | a path crosses mounts; several mounts of one super block | a path looked up from the root leads back |
| Page cache recovery (`pagecache.*`) | none | four ways to find inodes, xarray walk, choice of the vmemmap base, copy | missing symbols, wrong base, short reads, torn trees | all inodes, pages in place, honest statistics |
| Kernel log and crash journal (`dmesg.cpp`, `crash_journal.cpp`) | none; the kernel's ring is written until the dump | walk of the printk ring, search of the log sources for signs of a crash | ids and text wrap; records reserved and never committed; sources that are not resident | the log in order; a crash is not ruled out by a source nobody read |
| Search (`strings_search.cpp`, `yara_scan.cpp`) | carry between windows, caps | scan of every process's areas in windows | matches across windows, missing pages, caps | strings whole; rules match where the pattern is |
| Time line (`timeline.cpp`) | none | conversion of three clocks, sort, caps | a machine that slept; unreadable timekeeper | chronological, nothing dropped |
| Shell history (`bash_history.cpp`) | none | search of heaps and of cached history files | entries freed, pages lost, seven formats | a command with its own time |
| Process enumeration's other views, network, analyses by rule, export (`src/os/linux`) | none between calls | table walks, predicates, formatting | torn image, bounds | not modelled |

Threads: the mount's dispatcher threads (WinFsp; FUSE runs with `-s`), the warm
pool, and the thread that owns the Engine.  Everything below the nodes (streams,
page tables, formats) is entered by all of them, so whatever keeps state there
is shared: the two caches and the cached page table.  Nothing is persisted
except the symbol cache; there are no messages.  Two processes that share a
symbol cache, and a full disk, are not modelled.

## Modules

| Module | Models |
|---|---|
| `VfsNode` | `LazyFileNode`, `SizedLazyFileNode`, and the mount's Read (size, then read) on them. An action per lock acquisition, check, producer outcome and store. |
| `OnceCell` | what such a node promises: a write-once cell. `VfsNode` implements it (`ImplementsOnceCell`). |
| `ForensicWarmer` | command line to targets (`Mask`, `Wanted`, `Selected`, `SortByRank`), the pool, the summary, the destructor. |
| `UserPageCache` | `fetch` split at its two critical sections, `read` page by page. |
| `FrameCache` | `FrameCache::get` and the copy `AvmlPhysical::read` makes after it. |
| `PhysicalLayer` | the contract of `physical_layer.h`: refused, or open with a `max_address` and faithful, honestly counted reads. |
| `LimePhysical`, `KdumpPhysical`, `AvmlPhysical` | load loop and read loop of each format, one action per turn. |
| `FormatFactory` | composes the three with the raw image behind the magic number; implements `PhysicalLayer` (`KeepsContract`). |
| `KvaReader` | the chain of strategies and the cached page table, for threads and several engines. |
| `RawStreams`, `ElfCoreStream` | the three streams with a client that copies in chunks. |
| `DirTree` | the `DirNode` operations on a heap in which a node is its index, so that replacing and changing a node differ. |
| `FsTree` | the two loops of `Engine::create` that build `/fs` and `/files/by-ino`. |
| `Mount` | handles and directory paging over a directory built by `add`, or one whose `find` makes nodes (`v2p_misc.cpp`). |
| `Plugins` | scan, load, init, registration. |
| `CApi` | calls of both C interfaces by threads that open, use and close handles, with `close` and `close all` split where they give up the lock. |
| `SymbolResolver` | runs of `resolve_symbols` after one another on the same directories, an action per step of the chain and per open and close of a file; a run may be killed anywhere. |
| `KernelLocator` | the scans for banners and tasks window by window, the votes for the base, the three ways to a page directory. |
| `Kallsyms` | `extract_kallsyms` from each candidate of the scan, walking back over the tables; tokens, offsets, `relative_base`. |
| `BtfToIsf` | the scan for BTF blobs, their conversion, and the inlining of unnamed members in an ISF of either kind. |
| `KernelLog` | the printk ring as the kernel fills it and as `format_dmesg` reads it, and the crash report over it and the cached log files. |
| `MemorySearch` | strings and rules over the windows of areas with pages missing. |
| `Timeline` | the clocks of the dumped machine, the events on them, and the listing. |
| `ShellHistory` | commands of the heaps of shells, and of history files some pages of which are lost. |
| `RecoveredFile` | `collect_cached_pages`, `recover_file_with_stats` and `describe_recovered_file_state`, a call of `walk_xarray` or a copied page an action; 2^shift of a node is its `unit`, and the `|` of indices the sum of the bits not there. |
| `CachedInodes` | `enumerate_cached_inodes` with its four walks. |
| `MountWalks` | `enumerate_mounts`, `build_sb_to_mount_map`, `dentry_to_path`. |
| `ListWalks` | `list_processes`, `enumerate_threads`, `enumerate_modules`, each with its own loop. |
| `VmaWalk` | `enumerate_vmas`. |
| `LruList` | the list in order of use of `UserPageCache` and `FrameCache`. |
| `NodesProofs`, `FormatsProofs`, `CachesProofs`, `ReadersProofs`, `FsTreeProofs` and `TreeUsersProofs` (both on `DirTreeProofs`), `ReportsProofs` | theorems; `NodesProofs` is about `VfsNode` and `ForensicWarmer`, `FormatsProofs` about the formats and their contract, `CachesProofs` about `UserPageCache`, `FrameCache` and `CApi`, `ReadersProofs` about `KvaReader`, `RawStreams`, `ElfCoreStream`, `ListWalks` and `RecoveredFile`, `TreeUsersProofs` about `Plugins` and `Mount`, `ReportsProofs` about `SymbolResolver`, `Timeline`, `KernelLocator` and `KernelLog`. |
| `MCVfsNode`, `MCCaches`, `MCFormatFactory`, `MCViews`, `MCTree`, `MCReports` | instances for TLC. |

`MCCaches`, `MCViews`, `MCTree` and `MCReports` check parts that share code, a
kind of client or an input but no state: a variable or constant chooses which
part a behaviour exercises, and the others stay in their initial state, so that
the instance has the sum and not the product of their states.

Abstractions.  A buffer of a file node is its length.  A byte of a dump is the
file offset it comes from, so that a wrong byte is a wrong number.  Physical
addresses never wrap (52 of 64 bits are used).  What walking a page table gives
is a constant of a dump and address: all, a first part, or none of the bytes.
Names and paths are model values; whether a path component is safe is a set.
In the walks a pointer is the object it leads to; an object that is torn, or a
link into memory the dump lacks, is a value of its own, and offsets of fields
are left out.  An ISF is torn, of another release, without symbols, or rich.  In the searches
memory is cells, each of a number, a token or one thing that can be found, and
the scan windows are a few cells: what matters is which cell of a thing is the
first of a window, which is missing, and what else looks like it.  In the ring a
cell is a word of text.
Snappy, YARA, HTTP and the host's file system are external.

Mutants (`_Name` or named in a comment as one) stand before the definition they
replace; each is a slip of the kind the code is exposed to, and the property it
is listed with fails under it.

## Runs

| Run | Instance | Shows |
|---|---|---|
| `vfs_node` | two dispatchers, one warm thread, a lazy and a sized node, or all on a lazy node that is warmed; three buffer lengths | On nodes whose loads all take the mutex the producer completes once, `data_` is never assigned during another access, the first content is the content (refinement of `OnceCell`), and a mount Read is never padded. No deadlock. |
| `vfs_node_warm` | as above, warm pool on the lazy node | **Violated** (`ProducedOnce`): see below. |
| `caches` | four pages, room for two; four frames of three sizes; two readers; two clients of the C interface with two handles | List, map and count agree; both caches hold the most recently used within their budget; readers of `proc.dmp` get the right bytes. An engine is deleted once, whoever opens, registers, closes or, while no `VMMDLL_Close` is at work, closes all; calls that fail leave their error, kernel reads give every mapped byte (`ClientsServed`). |
| `frame_torn` | the frame cache alone | **Violated** (`NoTornCopy`). |
| `formats` | 25 276 dumps over addresses 0..3, all windows | Each format keeps the `PhysicalLayer` contract, opening and reading end, and kdump's "shouldn't happen" branch does not. |
| `kdump_nested` | one PT_LOAD inside another | **Violated** (`KeepsContract`). |
| `tree` | three of nineteen contending inodes; four libraries and three registrations; directories of up to three entries and two clients; 38 command lines on nine files (one per kind the engine builds) and two pool threads; a dispatcher and a pool thread on a lazy and a sized node | Names unique; directories stay the same node; the finished tree is a function of the inodes; listings are exact, end and run no lazy producer; plugins stay in their directories. Claims of the pool are distinct and it is joined before the Engine is destroyed (`PoolSound`); one summary at most, and it accounts for every target; `--forensic-exclude` wins over every mode and inclusion; the summary comes without an unmount and an unmount ends (`WarmingEnds`); every call on a node returns, also after exceptions. |
| `mount_query` | a `virt2phys` directory | **Violated** (`HandlesLive`). |
| `views` | two threads, two dumps, six addresses; memories of four two-byte pages; cores of up to three VMAs; images of two or three mounts, tasks, areas, inodes and xarray nodes | `kva_read` is complete or rightly refused (`AnswersTrue`); windows hold memory or zeros and core headers describe the memory (`ImagesTrue`); copies end at `size()`, and every walk ends (`CopiesAndWalksEnd`). Every task, thread and module that the links lead to is reported, in order (`ListsFound`), and every mount, area and cached inode, and paths lead back (`AllFound`, which also has recovered pages in place and their ranges right); every byte of a recovered file is of a page found for it or said not to have been read (`PagesHonest`). |
| `reports` | three cache directories and one of the user's, 125 contents of them, two mirrors, 29 option sets; 17 824 images of twelve cells with a kernel; 10 496 symbol tables; 830 dumps with BTF or an ISF; 13 632 memories of nine cells; rings of two descriptors and five words; two clocks with sleep; 508 dumps with shells | Over any number of runs, killed at any step: an ISF that was searched for, made or downloaded loads; a dump with BTF and kallsyms gives full symbols offline; a rich file in the `--symbol-cache` directory is never lost. `init_task`, the base and the page directory are the kernel's (`KernelLocated`); symbols and types are what was built (`SymbolsRight`); strings are whole, rules match where they should, and commands are found, with no other's time (`FindingsTrue`); the log is in order (`LogInOrder`) and no source that was not read rules out a crash (`AbsenceHonest`); the time line is chronological and complete. |
| `kallsyms_padding` | the symbol tables | **Violated** (`AddressesOwn`). |
| `symbols_fetch` | the same | **Violated** (`FetchedIsRich`). |

Bounds.  Two or three threads are enough for every race between critical
sections that exist in pairs (check and store, lookup and insert, get and
copy).  Three inodes give a contender for a path, one below it and one more
that reorders them; three entries give a directory with a first, a middle and a
last page boundary; four addresses give two ranges with a hole inside and one
beyond.  Three nodes of a
list give every shape of damage: a circle to the head, past it, to itself, and
links out of the list; `MCViews` takes every set of links over them.  The limits
of the walks (`MaxWalk`, `MaxVmas`, `MaxDepth`, `Budget`, `MaxRanges`,
`MaxSiblings`, ...) are the code's, scaled to just above the largest intact
instance, so that torn ones run into them.  `MaxReported` only cuts the mount
walk that has no limit of its own.  `MaxInodes`, `MaxAdds`, `MaxOpens`, `MaxEntries`, `MaxBuffers`,
`PosBound` are the named bounds, all in guards.  Symbol resolution needs none: the
directories have finitely many contents, so that TLC covers any number of runs.
Its blob lists are longer than `MostBlobs`, and two mirrors give a bad answer
before a good one.  In the searches `Chunk`, `Window`, `Overlap` and the batches
are a few cells, smaller than an image, so that whatever is searched for lies
within a window, across two, and at the end of memory; the caps (`MaxTries`,
`MaxHits`, `PidCap`, `GlobalCap`, `FsCap`, `MaxShown`, `Cap`) are reached.  In
the log four records pass through a ring of two, ids start just below their
wrap, and the dump is taken between any two steps of a writer.  `Handles` bounds
the engines that are ever opened, to two: one to race for and one beside it.

Deadlock is checked where nothing is meant to stop: in `vfs_node` and the caches.
The other instances stop when an image has been read, a tree built, a client has
opened what it may or the Engine is gone; they say `CHECK_DEADLOCK FALSE`, and
that they do not stop earlier is what their temporal properties are about.
`SYMMETRY` (the two readers) is used in `caches` alone, which has no temporal
property.

Fairness.  `VfsNode`: running threads run, producers end in a value or an
exception, and a mutex released infinitely often is granted to each waiter
(strong fairness of the two lock actions, which `std::mutex` on the supported
hosts gives in practice and the standard does not promise).  `ForensicWarmer`:
the owner's and the pool's threads run; nobody is assumed to unmount.  A client
that has begun a listing asks for the next page until it is told the end, as the
kernel does for a directory enumeration.  These are the conjuncts of
`TreeSpec` in `MCTree`.  Formats, streams and walks: a call that has begun
goes on, which is a loop in one thread.  `MCReports` and `MCCaches` assume none:
runs may be killed, dumps taken and clients stop at any moment.

## Proofs

| Theorem | Statement |
|---|---|
| `NodesProofs!TypeCorrect` | `Spec => []TypeOK` |
| `NodesProofs!ProducesOnce` | `Spec => []GuardedProducedOnce` |
| `NodesProofs!RaceFree` | `Spec => []GuardedRaceFree` |
| `NodesProofs!NoPadding` | `Spec => []NeverPadded` |
| `NodesProofs!Refinement` | `Spec => ImplementsOnceCell` |
| `NodesProofs!SizesStable` | `Spec => SizeStable` |
| `NodesProofs!PoolIsSound` | `WarmerSpec => []PoolSound` |
| `NodesProofs!SummaryIsComplete` | `WarmerSpec => []SummaryComplete` |
| `NodesProofs!ExclusionsWin` | `WarmerSpec => []ExclusionWins` |
| `ReadersProofs!AnswersAreTrue` | `Spec => []AnswersTrue` |
| `ReadersProofs!OwnSuffice` | `Spec => []OwnStrategiesSuffice` |
| `ReadersProofs!ImagesAreTrue` | `FewSegments`: `CoreSpec /\ RawSpec => []ImagesTrue` |
| `ReadersProofs!ListsAreFound` | `ListSpec => []ListsFound` |
| `ReadersProofs!PagesAreHonest` | `FileSpec => []PagesHonest` |
| `FormatsProofs!FormatsKeepContract` | `Spec /\ Regular => KeepsContract`: all four formats implement `PhysicalLayer` |
| `CachesProofs!CacheConsistent` | `Spec => []Consistent`: the page cache's books |
| `CachesProofs!BudgetKept` | its budget, for any of at least one page |
| `CachesProofs!LeastRecentlyUsed` | `Spec => []HoldsMostRecent` |
| `CachesProofs!ReadsAreMemory` | `Spec => []ReadsMemory` |
| `CachesProofs!FramesAreKept` | `FrameSpec => []FramesKeptByUse` |
| `CachesProofs!ClientsAreServed` | `~Mixed`: `ApiSpec => []ClientsServed` |
| `FsTreeProofs!NamesUnique` | `Spec => []UniqueNames` |
| `FsTreeProofs!DirectoriesStay` | `Spec => DirsStay` |
| `FsTreeProofs!CanonicalTree` | `Spec => []TreeCanonical` |
| `TreeUsersProofs!PluginsKeepApart` | `LoaderSpec => []OwnSubtree` |
| `TreeUsersProofs!ListingsExact` | `MountSpec => []ListingExact` |
| `TreeUsersProofs!ListingsProduceNothing` | `MountSpec => []ListingProducesNothing` |
| `ReportsProofs!RichIsKept` | `Spec => RichKept` |
| `ReportsProofs!CheckedAlwaysLoads` | `Spec => []CheckedLoads` |
| `ReportsProofs!OfflineIsRich` | `Spec => []OfflineRich` |
| `ReportsProofs!TimelineIsTrue` | `TimelineSpec => []TimelineTrue` |
| `ReportsProofs!KernelIsLocated` | `LocatorSpec => []KernelLocated` |
| `ReportsProofs!LogIsInOrder` | `LogSpec => []LogInOrder` |

*VfsNode*, for any nodes, threads and lengths.  Exactly-once is not inductive:
a thread between its check of `loaded_` and its store may have produced
already.  The invariant adds that a thread inside a guarded node holds its
mutex (`MutexHeld`), that the warm pool calls `warm` only on its targets, what
a thread between check and store knows (`Pending`), that runs are counted by
`loaded` or by such a thread (`Counted`), and, for `NeverPadded`, that the size
a mount Read was capped to is the length of the loaded buffer (`WantIsSize`).

*ForensicWarmer*, for any tree, command lines and hardware.  That the summary
counts every target rests on a count kept in two places: the indices taken from
`next_` are those counted in `warmed_` and those in the hands of a thread
(`AllCounted`), and `remaining_workers_` is the number of threads, born or not,
that have not left (`Leaving`).  Who finds it at zero, or has joined the
threads, finds nobody with a target in hand; and nobody leaves before all
targets are taken (`OutOfTargets`).  `ExclusionsWin` follows the targets back to the
mask the command line selects.  The lemmas before it say how the
cardinalities of these sets change with one thread's step.

*FormatFactory*, for any files, of any number of records, headers or frames, and
any reads: a refinement, step by step.  Loading steps, and the turns of a read's
loop, leave the variables of `PhysicalLayer` alone; the last of each is its
`Open`, `Refuse` or `Return`.  What makes a read right in the middle of its loop
is the same for all: of the window, a set of addresses is done with, the buffer
has a byte of the file for each of them that is captured and zeros elsewhere, and
the count is their number (`Partial`).  A turn adds a block to the set
(`PartialCopy`), and at the end it must be all of the window that has data
(`PartialDone`).  LiME and AVML go through segments in ascending order
(`CopyKeeps`, `PassKeeps`, `NothingAbove`), and the invariant of the loader is
that what it has made are the segments of the records before the cursor:
`RecordOff` and the counts of decompressed bytes are recursive functions,
unfolded by counting up.  For LiME no more is needed, since the loader refuses
what does not ascend.  Kdump has one range for each header so far, in any order, sorted at the
end; its read goes by addresses (`Below`), where the next range is the least
start above the cursor.  AVML starts with `std::upper_bound`, shown to find the
first frame that ends above the address (`UpperBoundFacts`, the halving of a
sorted range).  `Regular` is what the loaders do not check and the theorem
needs: no PT_LOAD of a core overlaps another (`Unnested`; see `kdump_nested`
for what happens otherwise), and the frames of an AVML file ascend, the last
one not being empty (`AvmlAscends`).  Every file of the run `formats` is regular.

*KvaReader*, for any dumps, threads and addresses.  The invariant says of a
thread in a call that every usable strategy that is not left to try has failed
(`InCall`), so that giving up with none left says something about the address.
`Resolved` is what `AnswersTrue` needs of the cached page table: with one dump
open, threads that race to resolve it all resolve the same one, so that whoever
stores last stores what is there.  With more dumps the same invariant gives
`OwnStrategiesSuffice`, since the shared table is the last strategy tried.

*RawStreams* and *ElfCoreStream*, for any memories, VMAs, offsets and lengths.  A
window of `kern_va.raw` is put together page by page: up to `done` the buffer
holds what there is, and beyond it the zeros it was cleared to (`RawIInv`).  A
page's part is read whole or not at all, which is right as dumps are taken to
capture whole pages (`RawStreamsAssumption`).  Of a core the invariant says that
the segments laid out so far follow the header blob without gap or overlap
(`PlanOK`), and of a read in the middle of its loop that each place of the buffer
has the header's byte, or the byte of the one segment its offset is in if the
loop has passed that segment, or a zero (`Placed`).  A read may return before the
last segment; that nothing of the window is in the rest follows from their
order.  The theorem assumes `FewSegments`: `e_phnum` is a `u16` and `plan()` does
not check that the readable VMAs fit.  Linux gives a process 65530 mappings
unless told otherwise (`vm.max_map_count`), while `enumerate_vmas` follows up to
100 000 of them (`kMaxVmasPerProcess`): beyond 65535 readable ones the headers
would not be counted right.

*ListWalks*, for any nodes, guard and images, intact or torn.  `Linked` is where
the links of an image lead, one after the other, and the invariant (`ListIInv`)
ties a walk to it: after `n` of them `listCur` is the link `n`, the `n` before it
were undamaged (`Walking`), and `listOut` has the plausible ones of those and no
other, at places that ascend (`Listed`); for tasks `seen` is the set of those
links, no two of them equal, so that `seen` counts the turns (`Visited`).  A
walk may end at a link that is no node, at one it had already, behind damage or
at the guard; what has to be shown is that behind whatever ends it no node is
due (`Over`).  The three loops share that argument (`VisitGoesOn`, `VisitEnds`),
and only how each of them tells the end differs.  `ListIInv` was an invariant of
runs with `MaxWalk` from 0 to 5 before it was proved.

*RecoveredFile*, for any files, xarrays, torn or in circles, memories and values
of the symbol.  The invariant says of each page the copying is through with that
every byte of its place was read, or that its index is dropped (`Told`), and that
a byte which is not synthetic is of a page found (`FromPage`).  A torn xarray may
give an index twice, and the short read of the second folio overwrites what the
first left; `Told` survives since the index is dropped then.  That a frame fills
the place of its page and nothing else is division with a remainder
(`PlaceFacts`), and that the size and the base are numbers needs a last index and
a lowest folio among the pages found, which the walk keeps (`FileBounds`).  With
two bases to try, the one that is not better loses to the other whatever
`better_attempt` goes by (`ChosenFacts`): honesty does not depend on the right
base.  That the base is the right one, and the table of ranges, is `AllFound`'s.
`RecoveredFileAssumption` says that sizes, addresses and captured lengths are
numbers.

*UserPageCache*, for any number of pages and readers and any budget of at least
one page.  The invariant is the type, consistency, the prefix relation between
the LRU list and the order of last use, and that every cached entry is the
memory of its page (`MapIsMemory`).  Eviction is a loop in the code; the proof
shows that it starts at most one page over budget and so takes off at most one.

*FrameCache*, for any number of frames and readers and any sizes of frames
within the budget.  Frames differ in size, so that one insertion may take off
several, and nothing says how full the cache is when it does: a frame that is
not in the list was used less recently than all that are (`FramesKeptByUse` is
inductive with the types and what a reader is at).  `evict_if_needed()` is a
loop over the list's back; what it subtracts is compared with the sizes added up
from the list's front (`Tally`), and by induction the bytes left after `k` rounds
are the tally of what is left of the list (`EvictFacts`).  The list holding
only the frame just inserted is within the budget, so that the loop has
stopped by then.

*CApi*, for any threads, handles, processes, pages and reads.  That an engine is deleted
once is not inductive; it holds since an open handle of `VMMDLL_Initialize()` is
in one place (`HandlesPlaced`): with the thread that is to register it or has
taken it off `g_handles` to close it, in `g_handles`, or in the list one
`VMMDLL_CloseAll()` swapped out.  The theorem assumes `~Mixed`, that is, that no
such handle is closed by `lmpfs_close()`.  `vmmdll_compat.cpp:21` makes the two
handle types one and calls mixing intentional; with `Mixed = TRUE` TLC finds the
engine deleted twice, since `lmpfs_close()` leaves the handle on `g_handles`
for `VMMDLL_CloseAll()`.  Nor do the clients of the model call `VMMDLL_Close()`
while a `VMMDLL_CloseAll()` runs, which would have the same effect.  The rest of `ClientsServed` is about one call at a
time; `lmpfs_mem_read_kva` is a loop over pages, here a recursive function, and
that what it filled is the memory read is shown by counting down the bytes left.

*DirTree* has no behaviours of its own; `DirTreeProofs` says what its operators
do to a heap that is well formed, for the modules that build trees.  Three
layers: an operation on one node (`AddOK`, `EnsureOK`: names stay unique);
what a growing heap keeps of a path (`ResolveGrown`, `ResolveBelow`); and what
an operation changes of the tree seen as a function from paths to nodes (`Put`
and its lemmas: one path changes, all others are as before).  `resolve` is a
loop, here a recursive function, and facts about every path need induction; the
library's induction theorems cannot be instantiated with an operator, so the
lemmas take the shortest path for which a fact fails, which exists as the order
of the natural numbers is well founded (`CountingUp`, `PathInduction`).

*FsTree*, for every set of inodes and order of both loops.  `IInv` says that
the heap is well formed, every directory unique, that the cursor of
`get_or_make_dir` is the directory at the part of the path already walked, and
that what is in hand and kept as candidates are paths of inodes.  The case that
needs care is the replacement of a file by a directory of the same name, which
changes `children_` and not `names_`.  It gives `NamesUnique`, and with the
lemmas on paths `DirectoriesStay`: each step either leaves a path alone or puts
something where no directory stood.  `CanonicalTree` needs to know in the middle
of both loops what the tree will be.  `CInv` says it of the inodes the first loop
is through with (`Done`): directories are those some inode makes, and no other
(`DirsOK`); a link is the first that claims its path, or a directory has
displaced it (`LinksOK`); a candidate is the best of the claims so far
(`CandidatesOK`); regular files are those candidates the second loop is through
with whose path was free (`RegularsOK`), as many as `reg_count` (`CountOK`).
Nothing in it speaks of the order in which the second loop takes them.

*Plugins*, for any libraries, stems, scan directories and registrations.  The
difficulty is what no path leads to.  When a stem is taken, `add` drops the new
directory and the library registers its files into it all the same; when a file
stands where a registration needs a directory, the walk goes on with the
directory `add` dropped, or with a destroyed one.  `LoaderInv` says of the
library at work that its directory is at its stem (`Attached`) or that no path
below `/plugins` leads to it or to anything in it (`Apart`), and of `cur` that it
is where the components walked so far lead, or apart as well (`Cursor`).  That
the file at a path is the *first* registration there is then a matter of what
may still come: for every call that returned, something stands at its place, or
a file is in its way, or its directory is lost for good (`Settled`).

*Mount*, for any entries, with any names repeated, and any clients, buffers and
mix of calls.  `MountInv` ties the marker to the page: the names a client has are
the first `n` of `list()`, and since names are unique the position behind the
first child called as the last of them is `n + 1` (`PageOK`), so that a page
neither repeats nor skips.  That names are unique although entries repeat them is
`BuildOK`, by the lemmas on `add`.  The same invariant bounds what has been
produced: the nodes a handle was opened on, and those whose `size_hint` is their
size.

*SymbolResolver*, for any directories, options, dumps and mirrors and any number
of runs.  That a rich file is kept is not inductive: a step that writes does not
look at the file.  `PrefSearched` adds that every run with `--symbol-cache` that
is past its search has found no rich file of the release's name there; it holds
because that directory is the first one searched and the first hit ends the
search.  `OfflineRich` rests on where a run stands in the chain: who is past the
search without a hit and has a good blob among the first `MostBlobs` cannot pass
the conversion without a rich file.

*Timeline*, for any clock rate, boot time, naps and number of events, any dump
and whatever is read where the timekeeper may be.  The invariant says of a row
that its key is a time since boot or of UTC of the event it is of, or no time
(`TrueRows`), that the boot time found is off by less than a second
(`EpochTrue`), and of the events that those of the sources gone through have a
row or an excuse (`AllGathered`).  Each source adds rows and moves on
(`AddKeeps`).  The `n`-th of a set is the one with `n - 1` before it (`NthFacts`),
and so is the sorted listing: in a strict total order of a finite set every
rank is taken once (`Ranks`), so that sorting loses no row and leaves none
before an earlier one (`SortKeeps`).  A key is then compared with the clocks:
a dated row is less than a second from its event (`DatedClock`), hence
two seconds; rows of the clocks since boot all have the same added to them, hence their exact order.
`TimelineAssumption` says that memory at a wrong offset does not pass for a
timekeeper, as `compute_boot_epoch` takes for granted; on a machine that
slept `Chronological` says nothing.

*KernelLocator*, for any images, chunk size, alignments and numbers of tries.
`LocatorAssumption` says of an image what Linux makes of memory: `init_task` is
where it was linked, moved by a multiple of 2 MiB; the direct map starts at a
multiple of 1 GiB; what `init_task` leads to, where memory still has it, is a task.
Everything else may be in the image too, at any cell, and any cell may be missing.
What the search needs from the dump are hypotheses of the properties:
`InitSeen` (no earlier copy of `init_task`, and no hole before it),
`Anchored` (its first task, and the second or the link back), `BannerSeen` and
`OneKernel`.  `TaskFound` follows `init_task` through the scan: the window that
has it also has the cell after it, so that counting the cells read as the length to
search does not cut it off (`WindowFacts`).  The bases are tried from above;
`BaseFound` says that until the kernel's own is reached the best score is below
what that will score, and that afterwards it is the best: any other base leads to
a task without a second that links back to it, or to none (`TrueScoreWins`), and
the own base is among those tried (`BasesOverKeeps`).  Of the directory, whatever
validates has the kernel's shift, whichever strategy named it (`RightShift`); and
if a table validates the brute force goes by that shift and finds one, which
sorting and removing duplicates cannot lose, since then all candidates have
the same shift (`OneValidates`, `PickFacts`).

*KernelLog*, for rings of any size and any texts and writers.  The records in the
ring are those from some `old` on, each at the descriptor its id comes to
(`InRing`), of which there are no more than descriptors, so that two records never
share one.  Their blocks lie one behind the other within `TextSize` of the head
of the text; the block that does not fit before the end counts from where it is put
(`StartOf`), so that no cell is of two records (`CellsApart`) and what a writer
copies stays until its record is evicted (`ReserveKeeps`, `CommitKeeps`).
Taking away the records in the way of a new one takes the oldest
(`SurvivorsAreLast`), which is why `tail` is the id of the oldest that is left.
After `n` steps the walk has listed the readable ones among the `n` ids from
`tail` (`Walking`).  It ends at `head`, and then it has seen all records, or after
as many steps as there are descriptors and one, and then it has seen all of them
(`LiveVisited`, `AllVisited`), also if the ids wrap.

Assumptions on constants are those of `VfsNodeAssumption`, `KvaAssumption`,
`UserPageCacheAssumption`, `InodesAssumption`, `BoundAssumption`,
`SaveAssumption`, `InputAssumption`, `ForensicWarmerAssumption`,
`PluginsAssumption`, `MountAssumption`, `FormatAssumption`, `FileAssumption`
(fields of files are unsigned; a read ends below `PAddr(~0ULL)`),
`FrameCacheAssumption` (a frame, 64 MiB at most, fits the budget of 128 MB),
`CApiAssumption`, `ElfCoreAssumption`, `RawStreamsAssumption`,
`TimelineAssumption`, `LocatorAssumption`, `RecoveredFileAssumption`,
`ListAssumption` (what cannot be read is no link) and `LogAssumption` (the number of ids is a multiple of the number of
descriptors; a text has a word at least and fits the ring).  TLC evaluates them in the runs.

Only model-checked: every liveness property (TLAPS does not reason about
fairness), and the other walks, searches and conversions, that is `AllFound`
(mounts, areas, inodes, and where recovered pages belong), `SymbolsRight`,
`FindingsTrue` and `AbsenceHonest` (what a loop computes from the
links or cells of an image needs induction over them, which has to be built by
hand for each loop, and folds and `SelectSeq` are beyond the provers).

## Where code and comments disagree

Six disagreements are runs with `expect: violation`.

1. `LazyFileNode::warm()` calls `ensure_loaded()` without `mu_`
   (`src/vfs/vfs.h:160`), which `vfs.cpp:51` asks for. A mount thread and the
   warm pool can both run the producer and assign `data_` at once.
   (`vfs_node_warm`; the other properties of `VfsNode` are stated for *guarded*
   nodes because of it.)
2. `FrameCache::get` returns a pointer into a cached frame and releases its
   mutex; the copy that follows may read a frame another thread has evicted
   (`avml_format.cpp:166`, run `frame_torn`).
3. The mounts keep raw `Node*` handles, "All Nodes live as long as the Engine";
   the nodes of `virt2phys` and `phys2virt` are owned by nobody once Open
   returns (`winfsp_mount.cpp:158`, `fuse_mount.cpp:99`, run `mount_query`).
4. A types-only ISF in the cache "must NOT short-circuit the chain"
   (`symbol_resolver.cpp:326`) and the user is told to re-run with
   `--auto-fetch` or `--vmlinux` (`:467`); both run `fetch_symbols.sh`, which
   exits 0 when its output exists, so that the types-only file, or a torn one, is
   returned as fetched (run `symbols_fetch`).
5. `PhysicalLayer::read` counts holes and nothing else as missing; in a core with
   one PT_LOAD inside another, as the kernel's text lies in the RAM of a vmcore,
   the outer one's bytes above the inner one read as a hole
   (`kdump_format.cpp:146`, run `kdump_nested`). The instances of `formats` have
   disjoint PT_LOADs.
6. The comment on the sweep for `kallsyms_offsets` allows for padding before
   `kallsyms_relative_base`; the sweep takes the table without padding first,
   which passes its test, and every symbol gets the address of a later one
   (`kallsyms.cpp:521`, run `kallsyms_padding`).

The models show the following as well; the models do what the code does and the
properties are stated so that they hold of it.

- `--forensic=full` is documented as containing the smaller modes; through
  `start_precompute` it leaves out the SystemInfo files under
  `/sys/pagecache`. `--forensic-exclude system-info` is accepted although the
  category is called always on. `start_precompute`'s comment includes
  ThreatHunt; `collect()` treats it as a heavy category.
- `page_cache.h` says that holes are zero-filled and counted; unmapped pages
  are not counted.
- AVML: chunks whose data overlap are counted twice in the result of a read.
  The instances have ascending chunks whose last frame may overshoot into a hole.
- `kva_reader.cpp:28`: the page table of `init_mm` is cached for the process.
  With two dumps open the second is walked with the first one's table, and a
  first dump without one disables the strategy for the second. `AnswersTrue` is
  therefore about a process with one dump;
  `OwnStrategiesSuffice` says what still holds with more.
- `kern_va_stream.cpp:38` takes a failed `kva_read` to leave the buffer as it
  was; the last strategy's partial bytes stay in it. `kva_read_cstr` needs all
  `maxlen` bytes mapped, not only those of the string.
- `core/stream.h`: reads past `size()` return `len`. `phys.raw` returns 0
  there; `proc.dmp` returns `len`, so that a caller of `lmpfs_vfs_read` that
  waits for 0, "EOF reached", never ends. All streams cut a window at the end,
  where the comment asks for `len`.
- `/files/by-ino` names a file by filesystem type and inode number; two mounts
  of one type may share both, and the second orphan gets no file.
- `size_hint` of a `SizedLazyFileNode` is its size function, which for
  recovered files recovers the content: a listing of `/fs` recovers the folder.
- Plugins: a registration whose name is taken returns 0 and is dropped, as is
  the directory of a second library of the same stem; below a file of the same
  name `descend_for_file` goes on with a pointer to a directory just destroyed
  (`UseFreed`); a library whose init fails keeps its files; a failing producer
  is served, and cached, as an empty file.
- Symbols: the search ends at the first hit, types-only or not, so a rich ISF in
  a later directory is not used, and without `--symbol-cache` may be replaced by
  a download. A download that does not validate is removed together with the
  types-only file it overwrote, which was the fallback ("running degraded beats
  not running at all"). A types-only hit skips the BTF of the dump as
  "deterministic per dump", while the cache is keyed by release: another dump of
  the release may have the kallsyms the first lacked.
- Kallsyms: `kallsyms.h:24` bounds the token table by 2048 bytes, the code by
  4096 (`kallsyms.cpp:39`). A name with a hole in it is extracted with what is
  there, and a length that is not ends the list; `SymbolsTrue` says so.
- Scans for banners, tasks, the kallsyms index and BTF take what a read returns,
  a count that leaves out holes, for the length to scan, so that a hole shortens
  the window and what lies behind it at its end is not looked at; hits in the overlap
  of two windows are counted twice; `scan_swapper` does not look at the last 16
  bytes of memory.
- Kernel location: `dtb_resolver.cpp:95` picks "the first 2-MB-aligned banner
  shift if any", the code (`:101`) the first that is not 0. On a kernel that was not
  moved the task's shift, 0 too, is passed over as well, and the brute force
  looks for the shift of the first banner, which may be a copy in the log's
  buffer: the running page directory is then missed. `DirectoryRight` excludes it.
  A base with a score of zero is taken when there is none better. With 64 tries the search for the direct map covers 64 GiB. When no
  candidate is validated, `dtb_resolver.cpp:167` says that the most likely one is
  returned, "banner-anchored if present"; the candidates have been sorted by
  address and the lowest is. `BaseRight` and `DirectoryRight` ask for the
  witnesses the code needs.
- Log: `dmesg.cpp:29` gives the record's word as "flags:5; level:3", the code takes
  the level from the low three bits. Text that wraps is read as if it did not; ids
  are not masked, so that at their wrap the oldest record is listed twice; a
  record is cut at its first line end; skipped records are not reported. A log
  file that is too large is "partial" though nothing of it was read; bytes of
  lost pages are closed up, so that lines across a gap are joined.
- Time line: `timeline.cpp:53` puts all events on "ONE true chronological axis";
  the boot time is derived from a clock that stands still while the machine
  sleeps, so that after a sleep whatever is dated from boot comes too late beside
  shell and file times. `Chronological` is about a machine that never slept. The summary's
  counts by source leave out files. Start times that are garbage sort as they are.
- Strings and YARA: when a string has an indicator, its process is credited with
  the last indicator of every category, whosever that was
  (`strings_search.cpp:364`); what was carried is dropped before a window that
  cannot be read, and a hole in a window shortens it; a run longer than a window
  is split; IPv6 is promised by the header only. YARA's windows do not overlap,
  the address of a hit is that of its window, and rules are filtered after
  the cap on hits. One user rule file that does not compile spoils the others.
- C API: misses of `lmpfs_process_find_by_*` leave no message, two getters do not
  clear an old one, and `lmpfs_open` may leave one of a plugin although it
  succeeds; `VMMDLL_Initialize` without a path leaves an old one. The value of a
  flag it does not know becomes the path of the dump. `VMMDLL_Close` racing
  `VMMDLL_CloseAll`, or `lmpfs_close` on a handle of the other interface, which
  `vmmdll_compat.cpp:21` calls intentional, deletes an engine twice;
  `ClientsServed` and the theorem `ClientsAreServed` are about clients that do
  neither.
- Shell history: the note on a command of bash always says "medium", since the
  time was moved from when it is looked at (`bash_history.cpp:708`); a command
  whose time is not resident is dropped. A fish record whose `when:` is on a
  lost page gets that of a later record (`bash_history.cpp:424`), which
  `TimesOwn` leaves out.
- Mounts and paths: `dentry_to_path` does not look at `mnt_root`, so that a path
  in a bind mount of a subdirectory is not the one `d_path` gives
  (`dentry_path.h` says that it mirrors it); names that cannot be read are left
  out where the header promises `?`. The loop over the children of a mount has
  no bound, and ends in no circle that misses the head (`CopiesAndWalksEnd`
  leaves it out).
- Page cache: `pagecache.cpp:918` returns nothing when the head of
  `super_blocks` is there and cannot be read, the case the comment at 1001 says
  falls back to the walk without symbols. A hash table that leads to garbage only
  gives an empty list without trying the other ways. Inodes from the super
  blocks are not tested as the others are. `InodesFound`, in `AllFound`, leaves these out.
- Recovered files: the comment at `pagecache.cpp:1194` prefers the derived
  vmemmap base whenever it differs from the symbol's; the code keeps the symbol's
  on a tie. `pagecache.h:28` counts every page of a large folio; sibling entries
  are taken for nodes that cannot be read, so that only the first page is found
  and the rest is reported as missing. Where a torn xarray holds two folios for
  an index and one of them was read, the index counts as copied and as dropped.
- Lists: an unreadable link makes `enumerate_threads` report a thread with pid 0;
  a circle past the head is reported again and again up to the guard in threads,
  modules and chains of the inode hash (`list_processes` remembers its links).
- VMAs: two equal areas survive `std::unique` when a third with the same start
  is sorted between them, which only a torn mm has. Slots beyond the end of a
  maple node are taken to be zero.

## Plan

Done: nodes and warmer; caches; formats; kernel addresses and streams; tree,
mount and plugins; symbol resolution; the walks of lists, mounts, areas, inodes
and recovered files; the C interfaces; location of the kernel, symbols and types
from the dump; the log, searches, time line and shell history; the theorems
above.

1. The remaining walks over the image: the pid tables and the comparison of
   process views, fd tables, socket hashes, call stacks. Properties: every walk
   ends within its bound and reports what the links lead to; reported sets agree
   between views where the code compares them.
2. The four-level page-table walk as an operator with its reference definition,
   under `UserPageCache`, `KvaReader` and `MemorySearch`, which take its answers
   as constants; the one-pass writer of cores against `ElfCoreStream`.
3. Theorems to come: the searches of `MemorySearch`, window by window as in
   `KernelLocator`; the crash report over the sources in `KernelLog`.

## Not modelled

Formatting of reports, JSON and CSV, colours and logging; the rules of the
analyses (findevil, integrity checks, EDR detection, entropy), which are
predicates on data other parts read, each judged by itself; the tables of
network, IPC and system views; parsing of ISF and ELF records as such; name
conversion and security descriptors of WinFsp; YARA, Snappy, XZ and HTTP; two
processes that share a symbol cache, and a full disk.  `PROJECT.json` lists every
component with its status and reason.
