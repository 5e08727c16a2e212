------------------------------ MODULE BtfToIsf ------------------------------
(***************************************************************************)
(* Types from the dump itself: the scan for BTF blobs                      *)
(* (src/os/linux/btf_probe.cpp), their conversion to an ISF                *)
(* (src/symbols/btf_to_isf.cpp), and what IsfSymbols makes of an ISF, that *)
(* one or one of the community's (src/symbols/isf_symbols.cpp).  Offsets   *)
(* of structure fields are what every walk of the engine goes by; a field  *)
(* of a nested structure without a name has to be found in the outer one.  *)
(*                                                                         *)
(* A blob is dump.blobs[i]: where it is, its cells, the cells of its type  *)
(* section, and the entries there, entry i being type i.  Bits are counted *)
(* in bytes but for Byte.  A key is <<name, n>>, n the suffix that tells   *)
(* it from an earlier one, 0 when there is none.                           *)
(***************************************************************************)
EXTENDS Integers, Sequences, FiniteSets, SequencesExt, FiniteSetsExt, Functions

CONSTANTS
    Dumps,      \* dumps, and ISF files of the community's
    Chunk,      \* kChunk
    Header,     \* sizeof(BtfHeader)
    Overlap,    \* what a window reads past its chunk
    MaxTries,   \* 3, in symbol_resolver.cpp
    MinBase, MinTypes,  \* what a blob that is not degenerate has
    MaxDepth,   \* 32
    MaxInline,  \* 8
    MaxExpand,  \* 6
    Byte,       \* bits of a byte
    Unnamed     \* type names that begin with "unnamed_"

VARIABLES
    dump,
    pc,
    pos,        \* where the scan is
    hits,       \* the blobs found, by index
    isf,        \* type key -> [size, fields: key -> [offset, type]]
    todo        \* types IsfSymbols::load() has yet to flatten

vars == <<dump, pc, pos, hits, isf, todo>>

NoIsf == <<>>

Init ==
    /\ dump \in Dumps
    /\ pc = IF dump.isf = NoIsf THEN "probe" ELSE "read"
    /\ pos = 0 /\ hits = <<>> /\ isf = dump.isf /\ todo = {}

-----------------------------------------------------------------------------
\* probe_btf_all(): a header in the last cells of a window is found again by
\* the next one; as much of a window is looked at as could be read.

Captured(a) == a \in 0..(dump.max - 1) /\ a \notin dump.holes
Got(a, n) == Cardinality({x \in a..(a + n - 1) : Captured(x)})
Want == Min({Chunk + Overlap, dump.max - pos})

\* plausible(): the header is there, and the blob ends in the dump.
Plausible(i) ==
    LET b == dump.blobs[i] IN
    /\ \A a \in b.at..(b.at + Header - 1) : Captured(a)
    /\ b.at + b.size <= dump.max
    /\ b.types > 0

Probe ==
    /\ pc = "probe" /\ pos < dump.max
    /\ hits' = hits \o SetToSortSeq({i \in DOMAIN dump.blobs :
                                        /\ dump.blobs[i].at >= pos
                                        /\ dump.blobs[i].at + Header <= pos + Got(pos, Want)
                                        /\ Plausible(i)},
                                    LAMBDA i, j : dump.blobs[i].at < dump.blobs[j].at)
    /\ pos' = pos + Chunk
    /\ UNCHANGED <<dump, pc, isf, todo>>

\* Mutant: in the order of the dump.
Sorted_ByPlace == {hits}

\* std::sort by size, the largest first.
Sorted ==
    {s \in {[i \in DOMAIN hits |-> hits[p[i]]] : p \in Bijection(DOMAIN hits, DOMAIN hits)} :
        \A i \in 1..(Len(s) - 1) : dump.blobs[s[i]].size >= dump.blobs[s[i + 1]].size}

ProbeEnds ==
    /\ pc = "probe" /\ pos >= dump.max
    /\ \E s \in Sorted : hits' = SubSeq(s, 1, Min({Len(s), MaxTries}))
    /\ pc' = "convert"
    /\ UNCHANGED <<dump, pos, isf, todo>>

-----------------------------------------------------------------------------
\* btf_to_isf() of a blob b.

\* Kinds whose extra cells must all be in the section; of others they are
\* skipped over.
Checked == {"int", "array", "struct", "union", "enum"}
Starts(b, i) == FoldLeft(LAMBDA n, e : n + 1 + e.extra, 0, SubSeq(b.entries, 1, i - 1))
Fits(b, i) == /\ Starts(b, i) < b.types
              /\ b.entries[i].kind \in Checked => Starts(b, i + 1) <= b.types

\* parse_types(): up to the end of the section or the entry it cuts off.
Parsed(b) ==
    SubSeq(b.entries, 1, Max({n \in 0..Len(b.entries) : \A i \in 1..n : Fits(b, i)}))

Quals == {"const", "volatile", "restrict", "type_tag"}

\* strip_quals(): 0, void, past the end and after too many.
strip_quals(ts, id) ==
    LET strip[i \in Nat, depth \in Nat] ==
          IF depth > MaxDepth \/ i = 0 \/ i > Len(ts) THEN 0
          ELSE IF ts[i].kind \in Quals THEN strip[ts[i].type, depth + 1]
          ELSE i
    IN  strip[id, 0]

Void == <<"void">>

\* type_ref(): the kinds on the way and the name at its end.
type_ref(ts, id) ==
    LET ref[i \in Nat, depth \in Nat] ==
          LET s == strip_quals(ts, i) IN
          IF depth > MaxDepth \/ i = 0 THEN Void
          ELSE IF i > Len(ts) THEN <<"unknown">>
          ELSE IF s = 0 THEN Void
          ELSE CASE ts[s].kind \in {"pointer", "array"} -> <<ts[s].kind>> \o ref[ts[s].type, depth + 1]
                 [] ts[s].kind = "typedef" -> ref[ts[s].type, depth + 1]
                 [] OTHER -> <<ts[s].kind, ts[s].name>>
    IN  ref[id, 0]

\* The structure a member without a name stands for, or 0.
Nested(ts, m) ==
    LET s == strip_quals(ts, m.type) IN
    IF m.name = "" /\ s # 0 /\ ts[s].kind \in {"struct", "union"} /\ ts[s].name = "" THEN s ELSE 0

\* Mutant: a nested structure's members keep their own offsets.
Inlined_AtZero(ts, id) ==
    LET at[i \in Nat, depth \in Nat] ==
          IF depth > MaxInline THEN <<>>
          ELSE FlattenSeq([k \in DOMAIN ts[i].members |->
                 LET m == ts[i].members[k] IN
                 IF Nested(ts, m) = 0 THEN <<m>> ELSE at[Nested(ts, m), depth + 1]])
    IN  at[id, 0]

\* flatten_members_into(): in order, a nested structure's members in its place.
Inlined(ts, id) ==
    LET at[i \in Nat, depth \in Nat] ==
          IF depth > MaxInline THEN <<>>
          ELSE FlattenSeq([k \in DOMAIN ts[i].members |->
                 LET m == ts[i].members[k]
                     inner == at[Nested(ts, m), depth + 1]
                 IN  IF Nested(ts, m) = 0 THEN <<m>>
                     ELSE [j \in DOMAIN inner |-> [inner[j] EXCEPT !.bits = m.bits + @]]])
    IN  at[id, 0]

With(f, k, v) == [x \in DOMAIN f \cup {k} |-> IF x = k THEN v ELSE f[x]]

\* A name already there gets the number of fields for a suffix.
FieldsOf(ts, id) ==
    LET Add(fields, m) ==
          LET n == Cardinality(DOMAIN fields)
              key == IF m.name = "" \/ <<m.name, 0>> \in DOMAIN fields THEN <<m.name, n>> ELSE <<m.name, 0>>
          IN  With(fields, key, [offset |-> m.bits \div Byte, type |-> type_ref(ts, m.type)])
    IN  FoldLeft(Add, <<>>, Inlined(ts, id))

\* build_user_types(): structures and unions with a name, again with a suffix.
UserTypes(ts) ==
    LET Add(out, i) ==
          IF ts[i].kind \notin {"struct", "union"} \/ ts[i].name = "" THEN out
          ELSE LET again == Cardinality({k \in DOMAIN out : k[2] # 0}) + 1
                   key == IF <<ts[i].name, 0>> \in DOMAIN out THEN <<ts[i].name, again>> ELSE <<ts[i].name, 0>>
               IN  With(out, key, [size |-> ts[i].size, fields |-> FieldsOf(ts, i)])
    IN  FoldLeft(Add, <<>>, [i \in DOMAIN ts |-> i])

\* build_base_types().
BaseTypes(ts) == {ts[i].name : i \in {j \in DOMAIN ts : ts[j].kind \in {"int", "float"}}} \ {""}

\* A blob that reads short has its sections out of bounds.
Whole(b) == Got(b.at, b.size) = b.size
Usable(b) ==
    /\ Whole(b)
    /\ Cardinality(BaseTypes(Parsed(b))) >= MinBase
    /\ Cardinality(DOMAIN UserTypes(Parsed(b))) >= MinTypes

Convert ==
    /\ pc = "convert" /\ hits # <<>>
    /\ LET b == dump.blobs[Head(hits)] IN
       IF Usable(b) THEN isf' = UserTypes(Parsed(b)) /\ pc' = "read" /\ UNCHANGED hits
                    ELSE hits' = Tail(hits) /\ UNCHANGED <<isf, pc>>
    /\ UNCHANGED <<dump, pos, todo>>

NoTypes == pc = "convert" /\ hits = <<>> /\ pc' = "failed" /\ UNCHANGED <<dump, pos, hits, isf, todo>>

-----------------------------------------------------------------------------
\* IsfSymbols::load().

Read ==
    /\ pc = "read"
    /\ todo' = DOMAIN isf /\ pc' = "flatten"
    /\ UNCHANGED <<dump, pos, hits, isf>>

\* The type of a field is flattened into the structure that has it.
Flattens(f) == /\ Len(f.type) = 2 /\ f.type[1] \in {"struct", "union"} /\ f.type[2] \in Unnamed
Key(f) == <<f.type[2], 0>>

\* flatten(): the fields below t, each with its offset from t.
Below(t, depth) ==
    LET below[u \in DOMAIN isf, d \in 0..(MaxExpand + 1)] ==
          UNION {LET f == isf[u].fields[k] IN
                 IF ~Flattens(f) THEN {<<k, f>>}
                 ELSE IF d + 1 > MaxExpand \/ Key(f) \notin DOMAIN isf THEN {}
                 ELSE {<<p[1], [p[2] EXCEPT !.offset = f.offset + @]>> : p \in below[Key(f), d + 1]} :
                    k \in DOMAIN isf[u].fields}
    IN  below[t, depth]

\* Types are in no order, and neither are the fields of one: of two with the
\* same name either may be the first.  One of the type's own comes before.
Flatten(t) ==
    /\ pc = "flatten"
    /\ LET own == isf[t].fields
           new == {p \in Below(t, 0) : p[1] \notin DOMAIN own}
       IN  \E pick \in {S \in SUBSET new : /\ \A p \in new : \E q \in S : q[1] = p[1]
                                           /\ \A p, q \in S : p[1] = q[1] => p = q} :
              isf' = [isf EXCEPT ![t].fields =
                        [k \in DOMAIN own \cup {p[1] : p \in pick} |->
                            IF k \in DOMAIN own THEN own[k] ELSE (CHOOSE p \in pick : p[1] = k)[2]]]
    /\ todo' = todo \ {t}
    /\ UNCHANGED <<dump, pc, pos, hits>>

Loaded ==
    /\ pc = "flatten" /\ todo = {}
    /\ pc' = "loaded"
    /\ UNCHANGED <<dump, pos, hits, isf, todo>>

\* field_offset_opt()
field_offset(t, f) ==
    IF <<t, 0>> \in DOMAIN isf /\ <<f, 0>> \in DOMAIN isf[<<t, 0>>].fields
    THEN {isf[<<t, 0>>].fields[<<f, 0>>].offset} ELSE {}

Next == Probe \/ ProbeEnds \/ Convert \/ NoTypes \/ Read \/ (\E t \in todo : Flatten(t)) \/ Loaded

Spec == Init /\ [][Next]_vars

-----------------------------------------------------------------------------
\* dump.layout is what the C compiler made of the kernel's structures: the set
\* of <<type, field, offset, ref>>, a field of an unnamed member being one of
\* the outer structure.

FromBlob == dump.isf = NoIsf
Kernel == dump.blobs[dump.kernel]

\* A scan sees the kernel's blob if nothing before it is missing.
KernelFound ==
    /\ \A i \in DOMAIN dump.blobs \ {dump.kernel} : dump.blobs[i].size < Kernel.size
    /\ Whole(Kernel) /\ Usable(Kernel) /\ Kernel.at + Kernel.size <= dump.max
    /\ \A a \in 0..(Kernel.at + Header - 1) : Captured(a)

(* Every field the compiler laid out is found at its offset, whichever way *)
(* structures nest without a name and types are qualified, and with the    *)
(* type it has; whether the types come from the dump's largest blob or     *)
(* from an ISF that keeps the nesting.                                     *)
LayoutTrue ==
    pc = "loaded" /\ (FromBlob => hits[1] = dump.kernel) =>
        \A l \in dump.layout :
            /\ field_offset(l.type, l.field) = {l.offset}
            /\ isf[<<l.type, 0>>].fields[<<l.field, 0>>].type = l.ref

(* Types come from the kernel's blob and no module's whenever it is there  *)
(* from end to end; a blob with a hole in it is never used.                *)
KernelsTypes ==
    /\ pc = "loaded" /\ FromBlob => Whole(dump.blobs[hits[1]])
    /\ pc \in {"loaded", "failed"} /\ FromBlob /\ KernelFound => pc = "loaded" /\ hits[1] = dump.kernel
=============================================================================
