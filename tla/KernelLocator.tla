--------------------------- MODULE KernelLocator ---------------------------
(***************************************************************************)
(* How the engine finds the kernel in a dump: the scan for banners         *)
(* (src/os/linux/banner_scan.cpp), the scan for init_task by its name      *)
(* "swapper", the search for the base of the direct map                    *)
(* (src/os/linux/kernel_resolver.cpp) and the choice of a page directory   *)
(* (src/os/linux/dtb_resolver.cpp).                                        *)
(*                                                                         *)
(* A cell of physical memory holds a banner, a task_struct, a top page     *)
(* table, or nothing of interest; cells of img.holes are not in the dump.  *)
(* The kernel was moved by img.shift from where it was linked, and sees    *)
(* memory from img.base on.  Addresses in its text are Text and more.      *)
(***************************************************************************)
EXTENDS Integers, Sequences, FiniteSets

CONSTANTS
    KernelImages,
    Chunk,          \* kChunk and kScanChunk
    Overlap,        \* what a window of the banner scan reads past its chunk
    Align,          \* k2MiB
    GiB,            \* k1GB: the alignment of the direct map
    MaxTries,       \* 64
    Text,           \* kStartKernelMap
    TaskAt, BannerAt, PgtAt, \* where the image has init_task, linux_banner, init_top_pgt
    Wrap            \* 2^64

VARIABLES
    img,
    phase,
    pos,        \* where a scan is
    banners,    \* banner_candidates
    hits,       \* scan_swapper's
    best,       \* best_base and best_score
    ctx

locatorVars == <<img, phase, pos, banners, hits, best, ctx>>

Tasks == [comm : {"swapper", "printable", "garbage"}, pid : Nat, next : Nat, prev : Nat]

LooksInit(t) == t.pid = 0 /\ t.next # 0 /\ t.prev # 0
IsUser(t) == t.pid > 0 /\ t.comm # "garbage"

\* What Linux makes of memory: init_task is where it was linked, moved; the
\* kernel is moved by multiples of Align, and its pages map it there; what
\* init_task leads to, if memory still has it, is a task, and so the next,
\* which leads back.
FirstOf(im) == im.tasks[im.init].next - im.base
SecondOf(im) == im.tasks[FirstOf(im)].next - im.base
Linked(im) ==
    LET first == im.tasks[FirstOf(im)]
        second == im.tasks[SecondOf(im)]
    IN  /\ im.tasks[im.init].next >= im.base
        /\ FirstOf(im) \in DOMAIN im.tasks => IsUser(first) /\ first.next > im.base
        /\ {FirstOf(im), SecondOf(im)} \subseteq DOMAIN im.tasks =>
              IsUser(second) /\ second.prev = im.tasks[im.init].next

KernelImage(im) ==
    /\ im.max \in 0..Wrap /\ im.shift \in Int /\ im.base \in Nat /\ im.init \in Nat /\ im.holes \subseteq Nat
    /\ im.syms \in [task : BOOLEAN, banner : BOOLEAN, pgt : BOOLEAN]
    /\ DOMAIN im.banners \subseteq Nat
    /\ DOMAIN im.tasks \subseteq Nat /\ \A a \in DOMAIN im.tasks : im.tasks[a] \in Tasks
    /\ DOMAIN im.pgds \subseteq Nat
    /\ \A a \in DOMAIN im.pgds : im.pgds[a].maps \in Int /\ im.pgds[a].maps % Align = 0
    /\ im.base > 0 /\ im.base % GiB = 0 /\ im.shift % Align = 0
    /\ im.init = TaskAt + im.shift /\ im.init \in DOMAIN im.tasks
    /\ im.tasks[im.init].comm = "swapper" /\ LooksInit(im.tasks[im.init])
    /\ Linked(im)

ASSUME LocatorAssumption ==
    /\ Chunk \in Nat \ {0} /\ Overlap \in Nat /\ Align \in Nat \ {0} /\ GiB \in Nat \ {0}
    /\ MaxTries \in Nat /\ Text \in Nat \ {0} /\ Wrap \in Nat \ {0}
    /\ TaskAt \in Nat /\ BannerAt \in Nat /\ PgtAt \in Nat
    /\ \A im \in KernelImages : KernelImage(im)

NoCtx == [task |-> -1, shift |-> 0, base |-> -1, dtb |-> 0, validated |-> FALSE, strategy |-> "none",
          virt |-> 0, banner |-> -1]
NoBest == [base |-> -1, score |-> -1]

LocatorInit ==
    /\ img \in KernelImages
    /\ phase = "banners"
    /\ pos = 0 /\ banners = {} /\ hits = {} /\ best = NoBest /\ ctx = NoCtx

-----------------------------------------------------------------------------
\* Physical memory.

Captured(pa) == pa \in 0..(img.max - 1) /\ pa \notin img.holes

\* What PhysicalLayer::read() returns for a window: how many cells there are,
\* wherever in the window they lie.
Got(pa, want) == Cardinality({a \in pa..(pa + want - 1) : Captured(a)})

SmallerOf(a, b) == IF a < b THEN a ELSE b
Want(n) == SmallerOf(Chunk + n, img.max - pos)

IsBanner(pa) == Captured(pa) /\ pa \in DOMAIN img.banners
IsTask(pa) == Captured(pa) /\ pa \in DOMAIN img.tasks

\* What a scan finds in the first cells of the window at pos.
Found(cells, upto) == {a \in cells : a \in pos..(pos + upto - 1)}

\* A scan goes up, so that what it found first is the lowest.
Least(S) == CHOOSE a \in S : \A b \in S : a <= b

Banners == {a \in DOMAIN img.banners : IsBanner(a) /\ img.banners[a]}
Swappers == {a \in DOMAIN img.tasks : IsTask(a) /\ img.tasks[a].comm = "swapper"}

-----------------------------------------------------------------------------
\* scan_banner_candidates(); what a window finds past its chunk is found again.
\* banner_candidate_shifts() keeps those whose score is not negative.
ScanBanners ==
    /\ phase = "banners" /\ pos < img.max
    /\ banners' = banners \cup Found(Banners, Got(pos, Want(Overlap)))
    /\ pos' = pos + Chunk
    /\ UNCHANGED <<img, phase, hits, best, ctx>>

BannersDone ==
    /\ phase = "banners" /\ pos >= img.max
    /\ phase' = "swapper" /\ pos' = 0
    /\ UNCHANGED <<img, banners, hits, best, ctx>>

\* The shift a banner implies.
ShiftOf(pa) == IF img.syms.banner THEN pa - BannerAt ELSE 0

\* scan_swapper(): i < got - 16, where a match at got - 16 would still fit.
ScanSwapper ==
    /\ phase = "swapper" /\ pos < img.max
    /\ hits' = hits \cup Found(Swappers, Got(pos, Want(1)) - 1)
    /\ pos' = pos + Chunk
    /\ UNCHANGED <<img, phase, banners, best, ctx>>

SwapperDone ==
    /\ phase = "swapper" /\ pos >= img.max
    /\ phase' = IF hits = {} THEN "error" ELSE "task"
    /\ UNCHANGED <<img, pos, banners, hits, best, ctx>>

-----------------------------------------------------------------------------
\* resolve_kernel(): the first hit that looks like init_task is the kernel.

TaskShift(pa) == IF img.syms.task THEN pa - TaskAt ELSE 0

TakeTask ==
    /\ phase = "task" /\ hits # {}
    /\ LET a == Least(hits)
       IN  IF LooksInit(img.tasks[a])
           THEN /\ ctx' = [ctx EXCEPT !.task = a, !.shift = TaskShift(a), !.virt = TaskShift(a)]
                /\ pos' = 0 /\ phase' = "base" /\ UNCHANGED hits
           ELSE hits' = hits \ {a} /\ UNCHANGED <<ctx, pos, phase>>
    /\ UNCHANGED <<img, banners, best>>

NoTask ==
    /\ phase = "task" /\ hits = {}
    /\ phase' = "error"
    /\ UNCHANGED <<img, pos, banners, hits, best, ctx>>

Sample == img.tasks[ctx.task].next
BaseAt(k) == ((Sample \div GiB) - k) * GiB

\* init_tasks_runtime_a and _b: the list head's address as linked, or moved.
Heads == IF img.syms.task THEN {Text + TaskAt, Text + TaskAt + ctx.virt} ELSE {}

Bool(b, n) == IF b THEN n ELSE 0

\* The task after the one the candidate base leads to.
SecondFits(base, t) ==
    /\ t.next > base
    /\ IsTask(t.next - base)
    /\ IsUser(img.tasks[t.next - base]) /\ img.tasks[t.next - base].prev = Sample

\* Mutant: the second task is not looked at.
Score_FirstOnly(base, t) ==
    Bool(t.pid > 0, 3) + Bool(t.comm # "garbage", 3) + Bool(t.prev \in Heads, 4)

\* A pid counts 2 and the tgid 1; a task has both or neither.
Score(base, t) ==
    Bool(t.pid > 0, 3) + Bool(t.comm # "garbage", 3) + Bool(t.prev \in Heads, 4)
        + Bool(SecondFits(base, t), 4)

\* A memory cell that holds no task reads as one without pid or name.
TaskIn(pa) == IF pa \in DOMAIN img.tasks THEN img.tasks[pa]
              ELSE [comm |-> "garbage", pid |-> 0, next |-> 0, prev |-> 0]

Readable(base) == Sample - base + 1 < img.max /\ Captured(Sample - base)
ScoreAt(base) == IF Readable(base) THEN Score(base, TaskIn(Sample - base)) ELSE -1

\* One turn of the search, from the highest base down; a score of 11 ends it.
TryBase ==
    /\ phase = "base" /\ pos < MaxTries /\ BaseAt(pos) > 0
    /\ LET b == BaseAt(pos)
       IN  /\ best' = IF ScoreAt(b) > best.score THEN [base |-> b, score |-> ScoreAt(b)] ELSE best
           /\ phase' = IF ScoreAt(b) >= 11 THEN "based" ELSE phase
    /\ pos' = pos + 1
    /\ UNCHANGED <<img, banners, hits, ctx>>

BasesOver ==
    /\ phase = "base" /\ (pos >= MaxTries \/ BaseAt(pos) <= 0)
    /\ phase' = IF best = NoBest THEN "error" ELSE "based"
    /\ UNCHANGED <<img, pos, banners, hits, best, ctx>>

-----------------------------------------------------------------------------
\* resolve_dtb().

Address(n) == n % Wrap

\* validate_dtb_via_banner(): the tables at dtb map the banner where the shift
\* says it is.
Validates(dtb, virt) ==
    /\ img.syms.banner
    /\ dtb # 0 /\ dtb < img.max
    /\ dtb \in DOMAIN img.pgds /\ Captured(dtb)
    /\ img.pgds[dtb].maps = virt

Candidate(dtb, shift, strategy) == [dtb |-> Address(dtb), shift |-> shift, strategy |-> strategy]

Aligned == {a \in banners : ShiftOf(a) % Align = 0}
FromBanners ==
    IF img.syms.pgt THEN {Candidate(PgtAt + ShiftOf(a), ShiftOf(a), "banner") : a \in Aligned} ELSE {}

OwnShift == ctx.task - TaskAt
FromTask == IF img.syms.pgt THEN {Candidate(PgtAt + OwnShift, OwnShift, "init_task")} ELSE {}

\* Mutant: the brute force goes by the first banner, aligned or not.
BestShift_First == IF banners # {} THEN ShiftOf(Least(banners)) ELSE 0

\* The first aligned banner's, if it is not 0; the last candidate's, which is
\* the task's; the first banner's.
BestShift ==
    IF Aligned # {} /\ ShiftOf(Least(Aligned)) # 0 THEN ShiftOf(Least(Aligned))
    ELSE IF img.syms.pgt /\ OwnShift # 0 THEN OwnShift
    ELSE IF banners # {} THEN ShiftOf(Least(banners))
    ELSE 0

\* Strategy 3 walks every page whose entries look like a top table's.
Brute == {dtb \in DOMAIN img.pgds : img.pgds[dtb].sane /\ Validates(dtb, BestShift)}
FromBrute == IF Brute = {} THEN {} ELSE {Candidate(Least(Brute), BestShift, "brute-force")}

Candidates == FromBanners \cup FromTask \cup FromBrute

\* std::sort by dtb and std::unique: one candidate of each dtb is left, any.
Deduplicated ==
    {C \in SUBSET Candidates :
        /\ \A c \in Candidates : \E d \in C : d.dtb = c.dtb
        /\ \A c, d \in C : c.dtb = d.dtb => c = d}

Lowest(C) == CHOOSE c \in C : \A d \in C : c.dtb <= d.dtb

\* The lowest that validates; else the lowest.
Valid(C) == {c \in C : Validates(c.dtb, c.shift)}
Pick(C) == IF Valid(C) # {} THEN Lowest(Valid(C)) ELSE Lowest(C)

ResolveDtb ==
    \E C \in Deduplicated :
        ctx' = IF C = {} THEN [ctx EXCEPT !.base = best.base]
               ELSE [ctx EXCEPT !.base = best.base,
                                !.dtb = Pick(C).dtb, !.shift = Pick(C).shift, !.virt = Pick(C).shift,
                                !.strategy = Pick(C).strategy,
                                !.validated = Validates(Pick(C).dtb, Pick(C).shift)]

\* Without init_task's symbol there is no page directory.
Resolve ==
    /\ phase = "based"
    /\ IF img.syms.task THEN ResolveDtb
       ELSE ctx' = [ctx EXCEPT !.base = best.base, !.strategy = "btf-types-only"]
    /\ phase' = "banner"
    /\ UNCHANGED <<img, pos, banners, hits, best>>

\* The banner of the context: what is at the symbol, or the first candidate.
TakeBanner ==
    /\ phase = "banner"
    /\ ctx' = [ctx EXCEPT !.banner =
                  CASE img.syms.banner -> BannerAt + ctx.shift
                    [] ~img.syms.banner /\ banners # {} -> Least(banners)
                    [] OTHER -> -1]
    /\ phase' = "done"
    /\ UNCHANGED <<img, pos, banners, hits, best>>

LocatorNext ==
    \/ ScanBanners \/ BannersDone \/ ScanSwapper \/ SwapperDone
    \/ TakeTask \/ NoTask \/ TryBase \/ BasesOver \/ Resolve \/ TakeBanner

LocatorSpec == LocatorInit /\ [][LocatorNext]_locatorVars

-----------------------------------------------------------------------------
\* What the dump has of the kernel that ran.

\* init_task is the first of its look, with no hole before it and memory after
\* it: scan_swapper() takes the number of cells read for how far to look, and
\* never looks at the last one.
IsInit(a) == img.tasks[a].comm = "swapper" /\ LooksInit(img.tasks[a])
InitSeen ==
    /\ \A a \in DOMAIN img.tasks : IsInit(a) => img.init <= a
    /\ \A a \in 0..(img.init + 1) : Captured(a)

FirstAt == FirstOf(img)
SecondAt == SecondOf(img)

LinksBack(a) == img.tasks[a].prev \in {Text + TaskAt, Text + TaskAt + img.shift}

\* Under the base with which a is the first task, a task leads back to it.
PairedAt(a) ==
    \E c \in DOMAIN img.tasks :
        /\ img.tasks[c].prev = img.tasks[img.init].next
        /\ img.tasks[a].next - c = img.tasks[img.init].next - a

\* The list's first task is there, within the bases that are tried, and so is
\* what tells it from others: the next task, or the link back to the head,
\* which a stale copy may share with it only if it has both.
Anchored ==
    /\ IsTask(FirstAt) /\ FirstAt + 1 < img.max /\ FirstAt < MaxTries * GiB
    /\ IsTask(SecondAt) \/ (img.syms.task /\ LinksBack(FirstAt))
    /\ \A a \in DOMAIN img.tasks \ {FirstAt} : ~PairedAt(a)
    /\ \/ IsTask(SecondAt) /\ LinksBack(FirstAt)
       \/ \A a \in DOMAIN img.tasks \ {FirstAt} : ~LinksBack(a)

\* The image's own banner, found, and the only aligned one.
BannerSeen ==
    /\ img.syms.banner /\ BannerAt + img.shift \in banners
    /\ \A a \in Aligned : ShiftOf(a) = img.shift

\* No page table maps a banner as far from where it was linked as some
\* other init_task is: of a kernel that ran before, say.
OneKernel ==
    \A a \in DOMAIN img.tasks, d \in DOMAIN img.pgds :
        IsInit(a) /\ img.pgds[d].maps = a - TaskAt => a = img.init

(* init_task and the base of the direct map are the kernel's own whenever  *)
(* the dump has init_task, its first task and one witness for the latter:  *)
(* no look-alike of a task at another multiple of 1 GiB wins.              *)
BaseRight ==
    phase = "done" /\ InitSeen /\ Anchored => ctx.task = img.init /\ ctx.base = img.base

\* What a page directory is worth.
DirectoryMaps ==
    /\ ctx.validated => Validates(ctx.dtb, ctx.virt)
    /\ BannerSeen =>
          /\ OneKernel /\ ctx.validated => ctx.virt = img.shift
          /\ /\ InitSeen /\ (img.shift # 0 \/ Least(banners) \in Aligned)
             /\ \E d \in DOMAIN img.pgds : img.pgds[d].sane /\ Validates(d, img.shift)
             => ctx.validated

(* A validated page directory maps the kernel where the context says it    *)
(* is, which is where the kernel is if the image's banner is the only      *)
(* aligned one; and one is found whenever there is one, whichever of the   *)
(* three strategies names it, unless the kernel was not moved and another  *)
(* banner comes first (dtb_resolver.cpp:101 takes 0 for no shift).         *)
DirectoryRight == phase = "done" /\ img.syms.task => DirectoryMaps

(* The kernel is located right: init_task, the base of the direct map, and *)
(* a page directory that maps the kernel where it was moved to.            *)
KernelLocated == BaseRight /\ DirectoryRight
=============================================================================
