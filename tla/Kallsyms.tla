------------------------------ MODULE Kallsyms ------------------------------
(***************************************************************************)
(* extract_kallsyms() (src/symbols/kallsyms.cpp): the kernel's own symbol  *)
(* table, found in a dump without any symbols.  From each place that looks *)
(* like kallsyms_token_index the code walks back over token_table, markers *)
(* and names to num_syms, then looks for offsets and relative_base.        *)
(*                                                                         *)
(* Memory is cells: img.mem[a] is the number at a, 0 where nothing is, and *)
(* a in img.holes is not in the dump.  A u32, a u64 other than a wide      *)
(* marker, a length, a token of a name, the token table and the token      *)
(* index are one cell each.                                                *)
(***************************************************************************)
EXTENDS Integers, Sequences, FiniteSets, SequencesExt, FiniteSetsExt

CONSTANTS
    Images,
    Index, Table,   \* cells that look like token_index and token_table
    Kernel,         \* the least address of the kernel's image
    Chunk,          \* kScanChunk
    Batch,          \* 256
    Window,         \* kWindow
    MaxNames,       \* kMaxNamesSize
    MaxBatch,       \* kMaxLastBatchSize
    MaxPad,         \* the largest padding before markers
    MaxBack,        \* how far before names num_syms may be
    MaxSlack,       \* padding about offsets and relative_base
    MinSyms, MaxSyms

VARIABLES
    img,
    pc,
    rest,       \* idx_hits still to try
    cand,       \* what the stages found from the first of them
    result

vars == <<img, pc, rest, cand, result>>

NoCand == [width |-> 0, markers |-> <<>>, mpa |-> 0, names |-> 0, count |-> 0, npa |-> 0, end |-> 0,
           base |-> 0, offsets |-> <<>>]
NoResult == [ok |-> FALSE, symbols |-> <<>>, base |-> 0]

Init ==
    /\ img \in Images
    /\ pc = "scan"
    /\ rest = <<>> /\ cand = NoCand /\ result = NoResult

-----------------------------------------------------------------------------
End == Len(img.mem)
Captured(a) == a \in 0..(End - 1) /\ a \notin img.holes
Have(a, n) == \A x \in a..(a + n - 1) : Captured(x)
\* What read() leaves in a zeroed buffer.
Cell(a) == IF Captured(a) THEN img.mem[a + 1] ELSE 0
Got(a, n) == Cardinality({x \in a..(a + n - 1) : Captured(x)})

\* scan_token_index(): windows of a chunk and one index more; as many cells
\* are looked at as were read.
Hits ==
    {a \in 0..(End - 1) :
        /\ Cell(a) = Index
        /\ \E w \in 0..(End \div Chunk) :
              /\ a >= w * Chunk
              /\ a - w * Chunk < Got(w * Chunk, Min({Chunk + 1, End - w * Chunk}))}

\* The sort: the best aligned first, then by address.
Rank(a) == CASE a % 4 = 0 -> 0 [] a % 4 = 2 -> 1 [] OTHER -> 2

Scan ==
    /\ pc = "scan"
    /\ rest' = SetToSortSeq(Hits, LAMBDA a, b : Rank(a) < Rank(b) \/ (Rank(a) = Rank(b) /\ a < b))
    /\ pc' = "table"
    /\ UNCHANGED <<img, cand, result>>

Failed ==
    /\ pc = "table" /\ rest = <<>>
    /\ pc' = "failed"
    /\ UNCHANGED <<img, rest, cand, result>>

\* A stage that finds nothing drops the hit.
Drop == rest' = Tail(rest) /\ pc' = "table" /\ UNCHANGED cand

\* validate_token_table(): the table ends where the index begins.
ValidateTable ==
    /\ pc = "table" /\ rest # <<>>
    /\ IF Cell(Head(rest) - 1) = Table THEN pc' = "markers" /\ UNCHANGED <<rest, cand>> ELSE Drop
    /\ UNCHANGED <<img, result>>

-----------------------------------------------------------------------------
\* find_markers_width(): slots from the table down, after at most one that is
\* zero, strictly decreasing to the next zero, which is markers[0].

TablePa == Head(rest) - 1
Top(w) == IF TablePa % w = 0 THEN TablePa - w ELSE TablePa - (TablePa % w)
ReadStart(w) == IF Top(w) > Window THEN Top(w) - Window + w ELSE 0
Span(w) == Top(w) + w - ReadStart(w)
\* Slot i, counted down from the top.
SlotPa(w, i) == Top(w) + w - i * w
Slot(w, i) == IF w = 1 THEN Cell(SlotPa(w, i))
              ELSE Cell(SlotPa(w, i)) + MaxNames * Cell(SlotPa(w, i) + 1)

\* Mutant: the slot next to the table is always the last marker.
Runs_Unpadded(w) ==
    {<<0, z>> : z \in {z \in 2..(Span(w) \div w) :
        /\ Slot(w, z) = 0
        /\ \A i \in 1..(z - 1) : Slot(w, i) # 0 /\ Slot(w, i) < MaxNames
        /\ \A i \in 2..(z - 1) : Slot(w, i) < Slot(w, i - 1)}}

\* <<p, z>>: the slots of the padding, and the slot of markers[0].
Runs(w) ==
    {<<p, z>> \in (0..1) \X (2..(Span(w) \div w)) :
        /\ z > p + 1
        /\ p = 1 => Slot(w, 1) = 0
        /\ Slot(w, z) = 0
        /\ \A i \in (p + 1)..(z - 1) : Slot(w, i) # 0 /\ Slot(w, i) < MaxNames
        /\ \A i \in (p + 2)..(z - 1) : Slot(w, i) < Slot(w, i - 1)
        /\ z - p <= MaxSyms \div Batch + 2}

FindWidth(w) ==
    IF TablePa < w \/ ~Have(ReadStart(w), Span(w)) THEN {}
    ELSE {[width |-> w, mpa |-> SlotPa(w, r[2]), markers |-> [k \in 1..(r[2] - r[1]) |-> Slot(w, r[2] + 1 - k)]] :
             r \in Runs(w)}

\* find_markers(): u32, and u64 only if that finds nothing.
FindMarkers ==
    LET found == IF FindWidth(1) # {} THEN FindWidth(1) ELSE FindWidth(2) IN
    /\ pc = "markers"
    /\ IF found = {} THEN Drop
       ELSE /\ \E m \in found : cand' = [cand EXCEPT !.width = m.width, !.markers = m.markers, !.mpa = m.mpa]
            /\ pc' = "names" /\ UNCHANGED rest
    /\ UNCHANGED <<img, result>>

-----------------------------------------------------------------------------
\* find_names_and_count(): from the last batch, which ends at the markers.

\* Where the k-th name after a begins; a length of 0 leads nowhere.
NameAt(a, n) ==
    LET at[k \in 0..n] == IF k = 0 THEN a
                          ELSE IF Cell(at[k - 1]) = 0 THEN End + 1 ELSE at[k - 1] + 1 + Cell(at[k - 1])
    IN  at[n]

\* The number of names from a that end exactly at b.
NamesBetween(a, b) == {n \in 1..Batch : NameAt(a, n) = b}

M == Len(cand.markers)

\* <<padding, K>> with the names they lead to, before num_syms is looked for.
Anchor(padding, k) ==
    LET end == cand.mpa - padding
        names == end - k - Last(cand.markers)
    IN  {[end |-> end, names |-> names, count |-> Batch * (M - 1) + n, npa |-> names - back] :
            n \in {n \in NamesBetween(end - k, end) :
                     /\ cand.mpa >= MaxBatch + padding /\ Have(end - MaxBatch, MaxBatch)
                     /\ Batch * (M - 1) + n <= MaxSyms
                     /\ names >= 0
                     /\ Have(names, cand.markers[2])
                     /\ Batch \in NamesBetween(names, names + cand.markers[2])},
            back \in 1..MaxBack}

\* num_syms is the first of the cells before names that holds the count.
Located(padding, k) ==
    LET good == {a \in Anchor(padding, k) : Captured(a.npa) /\ Cell(a.npa) = a.count}
    IN  {a \in good : \A b \in good : b.npa <= a.npa}

Tried == (0..(MaxPad - 1)) \X (2..MaxBatch)
Before(t, u) == t[1] < u[1] \/ (t[1] = u[1] /\ t[2] < u[2])

FindNames ==
    LET good == {t \in Tried : Located(t[1], t[2]) # {}} IN
    /\ pc = "names"
    /\ IF good = {} THEN Drop
       ELSE /\ LET first == CHOOSE t \in good : \A u \in good \ {t} : Before(t, u)
               IN  \E a \in Located(first[1], first[2]) :
                      cand' = [cand EXCEPT !.names = a.names, !.count = a.count, !.npa = a.npa, !.end = a.end]
            /\ pc' = "offsets" /\ UNCHANGED rest
    /\ UNCHANGED <<img, result>>

-----------------------------------------------------------------------------
\* find_offsets().

N == cand.count
IsBase(a) == Captured(a) /\ Cell(a) >= Kernel

\* Half of the offsets are not zero and nine tenths are in range; a read that
\* finds a hole among them refuses them all.
PlausibleOffsets(a) ==
    /\ Have(a, N)
    /\ Cardinality({x \in a..(a + N - 1) : Cell(x) # 0}) >= N \div 2
    /\ Cardinality({x \in a..(a + N - 1) : Cell(x) \in (-Kernel \div 2)..(Kernel \div 2)}) >= (N * 9) \div 10

\* relative_base is the nearest address of the kernel below end, and offsets
\* the nearest plausible ones below it.
Layout(end) ==
    LET bases == {a \in (end - 1 - MaxSlack)..(end - 1) : IsBase(a)} IN
    IF bases = {} THEN {}
    ELSE LET tables == {a \in (Max(bases) - N - MaxSlack)..(Max(bases) - N) : PlausibleOffsets(a)}
         IN  IF tables = {} THEN {} ELSE {<<Max(tables), Max(bases)>>}

\* The linker put offsets and relative_base after token_index.
Trailing ==
    LET at == Head(rest) + 1
        bases == {a \in (at + N)..(at + N + MaxSlack) : IsBase(a)}
    IN  IF ~PlausibleOffsets(at) \/ bases = {} THEN {} ELSE {<<at, Min(bases)>>}

\* Without seqs_of_names, with, or trailing.
Offsets ==
    CASE Layout(cand.npa) # {} -> Layout(cand.npa)
      [] Layout(cand.npa) = {} /\ Layout(cand.npa - N) # {} -> Layout(cand.npa - N)
      [] OTHER -> Trailing

\* Without them the names are extracted with no addresses.
FindOffsets ==
    /\ pc = "offsets"
    /\ \/ /\ Offsets = {}
          /\ cand' = [cand EXCEPT !.base = 0, !.offsets = [i \in 1..N |-> 0]]
       \/ \E o \in Offsets :
             cand' = [cand EXCEPT !.base = Cell(o[2]), !.offsets = [i \in 1..N |-> Cell(o[1] + i - 1)]]
    /\ pc' = "decode"
    /\ UNCHANGED <<img, rest, result>>

-----------------------------------------------------------------------------
\* decode_names(): up to the first length that is 0 or leads past the names.

Address(i) == IF cand.offsets[i] >= 0 THEN cand.base + cand.offsets[i]
              ELSE cand.base - 1 - cand.offsets[i]

NameCells(a) == [j \in 1..Cell(a) |-> Cell(a + j)]

Decodable ==
    {n \in 0..N : n = 0 \/ (NameAt(cand.names, n) <= cand.end)}
\* Mutant: a symbol takes the offset of the one before.
Symbols_Shifted ==
    [i \in 1..Max(Decodable) |-> [name |-> NameCells(NameAt(cand.names, i - 1)),
                                  address |-> Address(IF i = 1 THEN 1 ELSE i - 1)]]

Symbols ==
    [i \in 1..Max(Decodable) |-> [name |-> NameCells(NameAt(cand.names, i - 1)), address |-> Address(i)]]

Decode ==
    /\ pc = "decode"
    /\ IF Len(Symbols) < MinSyms THEN Drop /\ UNCHANGED result
       ELSE /\ result' = [ok |-> TRUE, symbols |-> Symbols, base |-> cand.base]
            /\ pc' = "done" /\ UNCHANGED <<rest, cand>>
    /\ UNCHANGED img

\* find_symbol(): the first of that name.
find_symbol(name) ==
    LET at == {i \in 1..Len(result.symbols) : result.symbols[i].name = name}
    IN  IF at = {} THEN 0 ELSE Min(at)

Next == Scan \/ Failed \/ ValidateTable \/ FindMarkers \/ FindNames \/ FindOffsets \/ Decode

Spec == Init /\ [][Next]_vars

-----------------------------------------------------------------------------
\* img.true: the symbols of the kernel in the dump, each with its address and
\* the cells of its name; img.padded: there is padding between offsets and
\* relative_base; img.width: that of the markers.

Whole(s) == \A a \in s.cells : Captured(a)
Ended == pc \in {"done", "failed"}
True(i) == img.true[i]

OwnAddresses ==
    result.ok /\ result.base # 0 =>
        \A i \in 1..Len(result.symbols) : result.symbols[i].address = True(i).address

(* What is extracted is so: names are in the kernel's order, each with its *)
(* own address, or all without; a name with a hole in it is the exception, *)
(* and a length that is not there ends the list.  Where relative_base does *)
(* not follow offsets at once, the addresses are another matter.           *)
SymbolsTrue ==
    result.ok =>
        /\ Len(result.symbols) <= Len(img.true)
        /\ \A i \in 1..Len(result.symbols) : Whole(True(i)) => result.symbols[i].name = True(i).name
        /\ \A i \in 1..Len(img.true) :
              (\A k \in 1..i : Whole(True(k))) => i <= Len(result.symbols)
        /\ ~img.padded => OwnAddresses

Complete == Len(result.symbols) = Len(img.true) /\ result.base # 0

(* A table that is all there is extracted, with addresses: offsets before  *)
(* the names or after the index, with seqs_of_names or without, whatever   *)
(* else looks like an index; all but the wide markers.                     *)
SymbolsFound == Ended /\ img.holes = {} /\ img.width = 1 => Complete

(* kallsyms.cpp:519: "offsets[N] is right before rb_pa (possibly with up   *)
(* to 15 bytes alignment padding). Sweep to find offsets_pa."  Each symbol *)
(* of a table that is all there has its own address.                       *)
AddressesOwn == img.holes = {} => OwnAddresses
=============================================================================
