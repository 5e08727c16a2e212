----------------------------- MODULE MCReports -----------------------------
(* How a dump's kernel becomes known: the chain of symbol sources          *)
(* (SymbolResolver), and what feeds it or follows from it, the search for  *)
(* the kernel (KernelLocator), its symbol table (Kallsyms) and its types   *)
(* (BtfToIsf).  And the reports made of a dump whose kernel is known:      *)
(* strings and rules found in user memory (MemorySearch), the kernel's log *)
(* and crashes (KernelLog), the time line (Timeline) and what was typed    *)
(* into shells (ShellHistory).  Each behaviour is one of them at work, the *)
(* others as they began.  Images are made here the way a linker, a         *)
(* compiler and a boot lay them out.                                       *)
EXTENDS SymbolResolver, Timeline, KernelLocator, KernelLog, TLC

CONSTANTS
    Parts,                            \* the parts at work: "resolver", "locator", "kallsyms", "btf" ...
    cachedir, userdir, local, home    \* directories

VARIABLES
    part,
    kimg, kpc, krest, kcand, kresult,
    tdump, tpc, tpos, thits, tisf, ttodo,
    stasks, sscan, spc, sat, svmas, sva, sleft, scarry, sout, sagg, stotal, srows,
    hdump, hpc, hat, hout, hall, unavailable

-----------------------------------------------------------------------------
\* A --symbol-cache directory, two of the host's and one of the user's.
\* Each holds nothing, an ISF of the release or one of another, under the
\* name of the release or not.
Holds(named, other) == [k \in {"named", "other"} |-> IF k = "named" THEN named ELSE other]

Contents == {Holds("none", "none"), Holds("types", "none"), Holds("rich", "none"),
             Holds("torn", "rich"), Holds("foreign", "types")}

MCDisks == {d \in [{cachedir, userdir, local, home} -> Contents] : d[userdir] = Holds("foreign", "types")}

MCStdDirs == <<local, home>>

MCOptions ==
    {o \in Opts : o.user = "none"}
    \cup {o \in Opts : o.user = "dir" /\ o.vmlinux = "none" /\ ~o.fetch}
    \cup {o \in Opts : o.user = "file" /\ o.vmlinux = "none" /\ ~o.fetch /\ o.cache /\ o.http}

MCBlobs == {<<>>, <<"bad", "good">>, <<"bad", "bad", "bad", "good">>}

-----------------------------------------------------------------------------
\* Twelve cells of memory, seen from 16 on.  The image has init_task in cell
\* 1, the top table in 2 and the banner in 3, moved by shift; the first task
\* is in cell f and the next in s.  Text addresses were moved by vshift.
Task(comm, pid, to, from) == [comm |-> comm, pid |-> pid, next |-> to, prev |-> from]
Booted(shift, vshift, f, s, others, lost, syms, bs, pgds) ==
    [max |-> 12, shift |-> shift, base |-> 16, init |-> 1 + shift, holes |-> lost, syms |-> syms,
     banners |-> bs, pgds |-> pgds,
     tasks |-> others @@ (1 + shift :> Task("swapper", 0, 16 + f, 16 + s))
               @@ (f :> Task("printable", 1, 16 + s, 101 + vshift))
               @@ (s :> Task("printable", 2, 117 + shift, 16 + f))]

KnownSyms(t, b, p) == [task |-> t, banner |-> b, pgt |-> p]
NoneOf == [a \in {} |-> 0]
LostCells == {{}} \cup {{a} : a \in 0..11}

\* Look-alikes of a task, where another base would have the first or second.
LookAlikes == {NoneOf} \cup
    {(a :> Task(c, p, 16 + n, q)) :
        a \in {2, 5}, c \in {"printable", "garbage", "swapper"}, p \in {0, 7}, n \in {7, -16}, q \in {22, 101}}

TaskImages ==
    {Booted(sh, v, f, s, d, h, y, 3 + sh :> TRUE, NoneOf) :
        sh \in {0, 2}, v \in {0, 4}, f \in {6, 9}, s \in {7, 10}, d \in LookAlikes,
        h \in {{}} \cup {{a} : a \in {2, 5, 6, 7}},
        y \in {KnownSyms(TRUE, TRUE, TRUE), KnownSyms(FALSE, FALSE, FALSE)}}

\* Page tables that map the banner with one shift or another, and a stale
\* banner before or after it, whose shift is aligned or not.
PgdImages ==
    {Booted(sh, sh, 6, 7, NoneOf, h, y, (3 + sh :> TRUE) @@ (b[1] :> b[2]),
            (p1 :> [maps |-> m1, sane |-> TRUE]) @@ (8 :> [maps |-> m2, sane |-> x])) :
        sh \in {0, 2}, h \in LostCells, y \in [task : {TRUE}, banner : BOOLEAN, pgt : BOOLEAN],
        b \in {<<0, TRUE>>, <<9, TRUE>>, <<9, FALSE>>, <<10, TRUE>>},
        p1 \in {2, 4}, m1 \in {0, 2}, m2 \in {0, 2, 6}, x \in BOOLEAN}

MCKernelImages == TaskImages \cup PgdImages

-----------------------------------------------------------------------------
\* The tables in .rodata, offsets before the names, with seqs_of_names or not,
\* or after the index; p1, p2 and p3 are paddings and lead what lies before.
Zeros(n) == [i \in 1..n |-> 0]
CellsOf(names) == FlattenSeq([i \in DOMAIN names |-> <<Len(names[i])>> \o names[i]])
NamesLen(names, n) == Len(CellsOf(SubSeq(names, 1, n)))
Markers(names, w) ==
    FlattenSeq([k \in 1..((Len(names) + 1) \div 2) |-> <<NamesLen(names, 2 * (k - 1))>> \o Zeros(w - 1)])

Rodata(names, offs, layout, w, p1, p2, p3, lead) ==
    LET n == Len(names)
        table == offs \o Zeros(p1) \o <<905>>
        before == CASE layout = "before" -> table
                    [] layout = "seqs" -> table \o Zeros(p1) \o [i \in 1..n |-> n - i]
                    [] OTHER -> <<>>
        start == lead \o before \o <<n>> \o Zeros(p2)
        mem == start \o CellsOf(names) \o Markers(names, w) \o Zeros(p3) \o <<600, 601>>
                  \o (IF layout = "after" THEN table ELSE <<>>)
    IN  [mem |-> mem, holes |-> {}, width |-> w, padded |-> layout # "after" /\ p1 # 0,
         true |-> [i \in 1..n |->
                     [name |-> names[i],
                      address |-> IF offs[i] >= 0 THEN 905 + offs[i] ELSE 904 - offs[i],
                      cells |-> {Len(start) + NamesLen(names, i - 1) + j : j \in 0..Len(names[i])}]]]

NameLists ==
    {<< <<a>>, <<b, a>>, <<b>> >> : a \in {1, 2, 7}, b \in {1, 3}}
    \cup {<< <<2, 7>>, <<1>>, <<a>>, <<7, 7, 7>>, <<9>> >> : a \in {1, 5}}

Intact ==
    {Rodata(ns, [i \in DOMAIN ns |-> IF i = Len(ns) THEN -2 ELSE 3 * i], l, 1, p1, p2, p3, lead) :
        ns \in NameLists, l \in {"before", "seqs", "after"}, p1, p2, p3 \in 0..1,
        lead \in {Zeros(2), <<1, 2, 0>>, <<600, 601>>, <<601, 1, 600, 601>>}}

\* Every page of two cells missing in turn.
TableImages ==
    Intact \cup UNION {{[r EXCEPT !.holes = {2 * h, 2 * h + 1}] : h \in 0..(Len(r.mem) \div 2)} : r \in Intact}

Tables == INSTANCE Kallsyms WITH
    Images <- TableImages, Index <- 601, Table <- 600, Kernel <- 900, Chunk <- 7, Batch <- 2,
    Window <- 8, MaxNames <- 100, MaxBatch <- 6, MaxPad <- 2, MaxBack <- 2, MaxSlack <- 1,
    MinSyms <- 2, MaxSyms <- 100,
    img <- kimg, pc <- kpc, rest <- krest, cand <- kcand, result <- kresult

-----------------------------------------------------------------------------
\* Types: outer has a middle and, past a qualifier or a typedef, another or an
\* int; a middle has a leaf.  Middle and leaf have a name or are inlined.
Entry(kind, name, type, members) ==
    [kind |-> kind, name |-> name, type |-> type, members |-> members, size |-> 1,
     extra |-> CASE kind \in {"int", "var"} -> 1 [] kind \in {"struct", "union"} -> Len(members) [] OTHER -> 0]
Member(name, type, bits) == [name |-> name, type |-> type, bits |-> bits]
Unless(name, field) == IF name = "" THEN "" ELSE field
Alias(q) == IF q = "typedef" THEN "alias" ELSE ""

TypesOf(s) ==
    << Entry("int", "int", 0, <<>>),
       Entry("union", s.leaf, 0, <<Member("a", 1, 0), Member("b", 5, 4)>>),
       Entry("struct", s.middle, 0, <<Member("c", 1, 0), Member(Unless(s.leaf, "u"), 2, 16)>>),
       Entry(s.qual, Alias(s.qual), s.via, <<>>),
       Entry("pointer", "", s.ptr, <<>>),
       Entry("var", "v", 1, <<>>),
       Entry("struct", "outer", 0,
             <<Member("x", 5, 0), Member(Unless(s.middle, "m"), s.as, 8),
               Member("y", IF s.qual = "typedef" THEN 1 ELSE 4, 48)>>) >>

At4(type, field, offset, ref) == [type |-> type, field |-> field, offset |-> offset, ref |-> ref]
IntRef == <<"int", "int">>

\* What a compiler makes of them.
LayoutOf(s) ==
    LET p == <<"pointer">> \o (CASE s.ptr = 0 -> <<"void">> [] s.ptr = 1 -> IntRef
                                 [] s.ptr = 3 -> <<"struct", s.middle>> [] s.ptr = 7 -> <<"struct", "outer">>)
        leaf(t, o) == {At4(t, "a", o, IntRef), At4(t, "b", o + 1, p)}
        middle(t, o) == {At4(t, "c", o, IntRef)}
                        \cup (IF s.leaf = "" THEN leaf(t, o + 4) ELSE {At4(t, "u", o + 4, <<"union", "leaf">>)})
    IN  {At4("outer", "x", 0, p),
         At4("outer", "y", 12, IF s.qual = "typedef" \/ s.via = 1 THEN IntRef ELSE <<"struct", s.middle>>)}
        \cup (IF s.leaf = "" THEN {} ELSE leaf("leaf", 0))
        \cup (IF s.middle = "" THEN middle("outer", 2)
              ELSE middle("middle", 0) \cup {At4("outer", "m", 2, <<"struct", "middle">>)})

TypeShapes ==
    {s \in [leaf : {"", "leaf"}, middle : {"", "middle"}, via : {1, 3}, as : {3, 4}, ptr : {0, 1, 3, 7},
            qual : {"const", "volatile", "typedef"}] :
        /\ s.as = 4 => s.via = 3
        /\ s.middle = "" => s.qual # "typedef"}

Size4(ts) == FoldLeft(LAMBDA n, e : n + 1 + e.extra, 0, ts)
Blob(at, size, ts, cut) == [at |-> at, size |-> size, types |-> Size4(ts) - cut, entries |-> ts]
TypeDump(s, lost, at, cut, others) ==
    [max |-> 14, holes |-> lost, isf |-> <<>>, kernel |-> 1,
     blobs |-> <<Blob(at, 4, TypesOf(s), cut)>> \o others,
     layout |-> IF cut = 0 THEN LayoutOf(s) ELSE {}]

\* A module's BTF has few types or none; it may be larger than it should be.
Poor == <<Entry("int", "int", 0, <<>>)>>
Few == Poor \o <<Entry("struct", "outer", 0, <<Member("x", 1, 8)>>)>>
OneShape == CHOOSE s \in TypeShapes : s.leaf = "" /\ s.middle = "" /\ s.as = 4 /\ s.ptr = 7
BlobDumps ==
    {TypeDump(s, {}, 5, 0, <<>>) : s \in TypeShapes}
    \cup {TypeDump(OneShape, h, at, c, o) :
            h \in {{}} \cup {{a} : a \in 0..13}, at \in {5, 7, 10}, c \in 0..2,
            o \in {<<>>, <<Blob(0, 3, Few, 0)>>, <<Blob(0, 3, Poor, 0), Blob(3, 2, Few, 0)>>,
                   <<Blob(0, 5, Poor, 0)>>, <<Blob(0, 5, Few, 0)>>}}

\* An ISF of the community's keeps the nesting: outer has unnamed_1 and
\* unnamed_2, and unnamed_1 has unnamed_3, each nested or only pointed to.
Keyed(n) == <<n, 0>>
Field(o, t) == [offset |-> o, type |-> t]
Struct(fs) == [size |-> 1, fields |-> fs]
Community(k1, k2, o1, o2) ==
    LET toOne == <<"pointer", "unnamed_1">>
        in1 == k1 # "pointer"
        in2 == k2 # "pointer" IN
    [max |-> 0, holes |-> {}, kernel |-> 0, blobs |-> <<>>,
     isf |-> (Keyed("outer") :> Struct((Keyed("x") :> Field(0, IntRef)) @@ (Keyed("f") :> Field(o1, <<k1, "unnamed_1">>))
                                       @@ (Keyed("g") :> Field(o2, <<k2, "unnamed_2">>))))
             @@ (Keyed("unnamed_1") :> Struct((Keyed("a") :> Field(0, IntRef)) @@ (Keyed("h") :> Field(o2, <<k2, "unnamed_3">>))))
             @@ (Keyed("unnamed_2") :> Struct(Keyed("b") :> Field(1, IntRef)))
             @@ (Keyed("unnamed_3") :> Struct(Keyed("c") :> Field(2, toOne))),
     layout |-> {At4("outer", "x", 0, IntRef)}
                \cup {l \in {At4("outer", "a", o1, IntRef)} : in1}
                \cup {l \in {At4("outer", "b", o2 + 1, IntRef), At4("unnamed_1", "c", o2 + 2, toOne)} : in2}
                \cup {l \in {At4("outer", "c", o1 + o2 + 2, toOne)} : in1 /\ in2}]

IsfFiles == {Community(k1, k2, o1, o2) : k1, k2 \in {"struct", "union", "pointer"}, o1 \in {0, 4}, o2 \in {0, 8}}

Btf == INSTANCE BtfToIsf WITH
    Dumps <- BlobDumps \cup IsfFiles, Chunk <- 6, Header <- 2, Overlap <- 2, MaxTries <- 2, MinBase <- 1,
    MinTypes <- 1, MaxDepth <- 5, MaxInline <- 2, MaxExpand <- 2, Byte <- 4,
    Unnamed <- {"unnamed_1", "unnamed_2", "unnamed_3"},
    dump <- tdump, pc <- tpc, pos <- tpos, hits <- thits, isf <- tisf, todo <- ttodo

-----------------------------------------------------------------------------
(* Memory of nine cells in one VMA or in three, one of them not to be      *)
(* read, every two pages missing; then processes of the same or of other   *)
(* strings, of no memory or of too much.                                   *)

UserVma(a, b, r, w, x, f) == [start |-> a, end |-> b, read |-> r, write |-> w, exec |-> x, file |-> f]
Using(vs, s, lost) ==
    [mm |-> TRUE, pgd |-> TRUE, vmas |-> vs, cells |-> [a \in 0..(Len(s) - 1) |-> s[a + 1]], holes |-> lost]

Text9 == {<<a, b, 0, 1, c, d, e, f, 1>> : a, b, c, d \in 0..2, e, f \in 0..1}
OneVma == <<UserVma(0, 9, TRUE, FALSE, TRUE, TRUE)>>
ThreeVmas ==
    <<UserVma(0, 3, TRUE, FALSE, TRUE, TRUE), UserVma(3, 4, FALSE, FALSE, FALSE, FALSE),
      UserVma(4, 9, TRUE, TRUE, FALSE, FALSE)>>
Second == Using(<<UserVma(0, 4, TRUE, TRUE, FALSE, FALSE)>>, <<3, 1, 2, 3>>, {})
Third ==
    Using(<<UserVma(0, 10, TRUE, TRUE, FALSE, FALSE), UserVma(10, 14, TRUE, TRUE, FALSE, FALSE)>>,
          <<3, 1, 2, 3, 1, 1, 2, 1, 1, 3, 0, 0, 3, 3>>, {})

TaskLists ==
    {<<Using(vs, s, {h, g})>> : vs \in {OneVma, ThreeVmas}, s \in Text9, h, g \in 0..5}
    \cup {<<Using(vs, s, {}), p, Second>> :
             vs \in {OneVma, ThreeVmas},
             s \in {<<1, 2, 0, 0, 0, 0, 0, 1, 1>>, <<1, 1, 1, 1, 1, 1, 1, 1, 1>>, <<0, 3, 1, 3, 0, 2, 2, 0, 2>>},
             p \in {Second, Third, [Second EXCEPT !.mm = FALSE], [Second EXCEPT !.pgd = FALSE]}}

Strings == INSTANCE MemorySearch WITH
    Tasks <- TaskLists, Page <- 2, Chunk <- 4, VmaLimit <- 9, MaxLen <- 3, MinLen <- 2, PidCap <- 2,
    GlobalCap <- 3, Kinds <- {2, 3}, Rules <- {<<1, 2>>, <<2>>, <<1, 1, 1>>}, MaxHits <- 4,
    tasks <- stasks, scan <- sscan, pc <- spc, at <- sat, vmas <- svmas, va <- sva, left <- sleft,
    carry <- scarry, out <- sout, agg <- sagg, total <- stotal, rows <- srows

-----------------------------------------------------------------------------
(* A ring of two descriptors and five cells of text: ids that wrap, text   *)
(* that does, records that are reserved and never committed.               *)

LogFile(kind, large, words) == [kind |-> kind, large |-> large, words |-> words]
LogFileLists ==
    {<<>>, <<LogFile("text-log", FALSE, <<"a", "nl", "b">>)>>,
     <<LogFile("text-log", FALSE, <<"a", "gap", "trace", "nl">>)>>,
     <<LogFile("text-log", TRUE, <<"a", "oom">>), LogFile("journald", FALSE, <<"magic", "panic">>)>>,
     <<LogFile("text-log", FALSE, <<>>), LogFile("text-log", FALSE, <<"a", "skip", "oom", "nl", "oom">>),
       LogFile("journald", FALSE, <<"magic", "gap">>)>>,
     <<LogFile("text-log", FALSE, <<"gap">>), LogFile("text-log", FALSE, <<"a", "b", "oom">>)>>}

MCTexts == {<<"a">>, <<"panic", "a">>, <<"b", "nl", "oom">>}
MCHoles == {{}, {<<"ring", 0>>}, {<<"desc", 0>>}, {<<"text", 2>>}}

-----------------------------------------------------------------------------
(* Machines that sleep and that do not; timekeepers that are unreadable,   *)
(* found at the second try, or senseless.                                  *)

MCTimekeepers ==
    {<<<<"unreadable">>, <<"tk">>>>, <<<<"is", 3, 9>>, <<"is", 50, 20>>, <<"is", 9, 0>>>>}

-----------------------------------------------------------------------------
(* Heaps of entries, arrays and strings, of shells and of other programs;  *)
(* history files of every shell, every page of which may be lost.          *)

Bit(form, text, time) == [form |-> form, text |-> text, time |-> time]
Ptr(n) == Bit("ptr", "", n)
Nil == Bit("zero", "", 0)
Cmd(text) == Bit("cmd", text, 0)
Typed(text, time) == [text |-> text, time |-> time]
Shell(pid, comm, meta, heap) == [pid |-> pid, comm |-> comm, meta |-> meta, heap |-> heap, used |-> TRUE]
Heaps ==
    {<<Cmd("a"), Bit("mark", "", 5), Ptr(1), Ptr(2), Nil, Ptr(8), Nil, Cmd("b"), Ptr(1), Nil, Nil>>,
     <<Bit("env", "e", 0), Ptr(1), Nil, Nil, Ptr(6), Cmd("c"), Ptr(6), Ptr(1), Nil, Ptr(6), Nil, Nil>>,
     <<Bit("zsh", "c", 7), Bit("fish", "a", 0), Cmd("a"), Cmd("c"), Cmd("b"), Cmd("d")>>}
ShellLists ==
    {<<>>}
    \cup {<<Shell(1, c, m, h)>> : c \in {"bash", "vi"}, m \in {"", "SHELL=", "HISTFILE="}, h \in Heaps}
    \cup {<<Shell(1, "bash", "", h), [Shell(2, "bash", "", g) EXCEPT !.used = FALSE], Shell(3, "zsh", "", g)>> :
             h \in Heaps, g \in Heaps}
HistoryOf(kind, entries, lost, reads) == [kind |-> kind, entries |-> entries, lost |-> lost, reads |-> reads]
Typings ==
    {<<Typed("a", 3), Typed("b", 4)>>, <<Typed("odd", 3), Typed("b", 0), Typed("a", 3)>>,
     <<Typed("a", 6), Typed("b", 2), Typed("c", 4)>>, <<Typed("a", 6), Typed("a", 6), Typed("odd", 9)>>}
HistoryFiles ==
    {<<HistoryOf(k, e, l, "cached")>> :
        k \in {"bash", "zsh", "tcsh", "fish", "ksh", "posix", "generic"}, e \in Typings, l \in SUBSET (0..3)}
    \cup {<<HistoryOf("bash", <<Typed("a", 0)>>, {}, r), HistoryOf("unknown", <<Typed("a", 0)>>, {}, "cached")>> :
             r \in {"cached", "zero", "uncached", "large"}}
ShellDumps ==
    {[procs |-> p, files |-> f] : p \in ShellLists, f \in {<<>>, <<HistoryOf("bash", <<Typed("a", 5)>>, {}, "cached")>>}}
    \cup {[procs |-> <<>>, files |-> f] : f \in HistoryFiles}

History == INSTANCE ShellHistory WITH
    Dumps <- ShellDumps, PageTokens <- 3, Generic <- {"a", "c", "d"}, Cap <- 2, MaxGeneric <- 1,
    dump <- hdump, pc <- hpc, at <- hat, out <- hout, all <- hall

-----------------------------------------------------------------------------
kvars == <<kimg, kpc, krest, kcand, kresult>>
tvars == <<tdump, tpc, tpos, thits, tisf, ttodo>>

LocatorIdle ==
    /\ img = "idle" /\ phase = "idle" /\ pos = "idle" /\ banners = "idle" /\ hits = "idle"
    /\ best = "idle" /\ ctx = "idle"
TablesIdle == kimg = "idle" /\ kpc = "idle" /\ krest = "idle" /\ kcand = "idle" /\ kresult = "idle"
BtfIdle ==
    /\ tdump = "idle" /\ tpc = "idle" /\ tpos = "idle" /\ thits = "idle" /\ tisf = "idle" /\ ttodo = "idle"

KernelInit ==
    /\ part \in Parts
    /\ part # "resolver" => disk = CHOOSE d \in MCDisks : TRUE
    /\ Init
    /\ IF part = "locator" THEN LocatorInit ELSE LocatorIdle
    /\ IF part = "kallsyms" THEN Tables!Init ELSE TablesIdle
    /\ IF part = "btf" THEN Btf!Init ELSE BtfIdle

KernelNext ==
    \/ part = "resolver" /\ Next /\ UNCHANGED <<part, locatorVars, kvars, tvars>>
    \/ part = "locator" /\ LocatorNext /\ UNCHANGED <<part, vars, kvars, tvars>>
    \/ part = "kallsyms" /\ Tables!Next /\ UNCHANGED <<part, vars, locatorVars, tvars>>
    \/ part = "btf" /\ Btf!Next /\ UNCHANGED <<part, vars, locatorVars, kvars>>

searchVars == <<stasks, sscan, spc, sat, svmas, sva, sleft, scarry, sout, sagg, stotal, srows>>
historyVars == <<hdump, hpc, hat, hout, hall, unavailable>>
kernelVars == <<vars, locatorVars, kvars, tvars>>

SearchIdle ==
    /\ stasks = "idle" /\ sscan = "idle" /\ spc = "idle" /\ sat = "idle" /\ svmas = "idle"
    /\ sva = "idle" /\ sleft = "idle" /\ scarry = "idle" /\ sout = "idle" /\ sagg = "idle"
    /\ stotal = "idle" /\ srows = "idle"
EventsIdle ==
    /\ booted = "idle" /\ up = "idle" /\ asleep = "idle" /\ happened = "idle" /\ stage = "idle"
    /\ dumped = "idle" /\ epoch = "idle" /\ rows = "idle"
HistoryIdle ==
    /\ hdump = "idle" /\ hpc = "idle" /\ hat = "idle" /\ hout = "idle" /\ hall = "idle"
    /\ unavailable = "idle"

ReportsInit ==
    /\ KernelInit
    /\ IF part = "search" THEN Strings!Init ELSE SearchIdle
    /\ part # "log" => head = CHOOSE i \in FirstIds : TRUE
    /\ LogInit
    /\ IF part = "timeline" THEN TimelineInit ELSE EventsIdle
    /\ IF part = "history" THEN History!Init ELSE HistoryIdle

ReportsNext ==
    \/ KernelNext /\ UNCHANGED <<searchVars, logVars, timelineVars, historyVars>>
    \/ part = "search" /\ Strings!Next /\ UNCHANGED <<part, kernelVars, logVars, timelineVars, historyVars>>
    \/ part = "log" /\ LogNext /\ UNCHANGED <<part, kernelVars, searchVars, timelineVars, historyVars>>
    \/ part = "timeline" /\ TimelineNext /\ UNCHANGED <<part, kernelVars, searchVars, logVars, historyVars>>
    \/ part = "history" /\ History!Next /\ UNCHANGED <<part, kernelVars, searchVars, logVars, timelineVars>>

ReportsSpec ==
    ReportsInit /\ [][ReportsNext]_<<part, kernelVars, searchVars, logVars, timelineVars, historyVars>>

(* Each symbol has its own address.                                        *)
AddressesOwn == part = "kallsyms" => Tables!AddressesOwn

(* What is extracted of the symbol table is so, and a table that is all    *)
(* there is extracted; types are the kernel's, and every field is at its   *)
(* offset.                                                                 *)
SymbolsRight ==
    /\ part = "kallsyms" => Tables!SymbolsTrue /\ Tables!SymbolsFound
    /\ part = "btf" => Btf!LayoutTrue /\ Btf!KernelsTypes

(* A string is reported whole, whichever windows it spans; a rule matches  *)
(* where memory has its pattern within a window, and only there.  A        *)
(* command is reported if its bytes are there, with no other's time.       *)
FindingsTrue ==
    /\ part = "search" => Strings!StringsWhole /\ Strings!RulesMatched
    /\ part = "history" => History!TimesOwn /\ History!CommandsFound
=============================================================================
