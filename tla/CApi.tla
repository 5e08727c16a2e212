-------------------------------- MODULE CApi --------------------------------
(***************************************************************************)
(* The C interface (src/api/lmpfs.cpp) and the MemProcFS-shaped one on top *)
(* of it (src/api/vmmdll_compat.cpp), as threads of a client call them:    *)
(* handles, the list of handles VMMDLL_CloseAll() closes, the last error   *)
(* of each thread, and what the calls answer.                              *)
(*                                                                         *)
(* Clients keep to the interface: a handle is used by the thread that got  *)
(* it, until that thread or VMMDLL_CloseAll() closes it.                   *)
(***************************************************************************)
EXTENDS Integers, Sequences, FiniteSets, SequencesExt, FiniteSetsExt

CONSTANTS
    Threads,
    Handles,        \* bound: engines that are ever opened
    None,           \* nullptr
    Procs,          \* eng.processes(): <<pid, name>>
    Nodes,          \* path |-> [kind, children]: "dir", "file" or "throws"
    Asked,          \* paths clients ask for, each the sequence of its parts:
                    \* "/", "\\" or a name
    Argvs,          \* command lines of VMMDLL_Initialize(): flags and values
    PhysEnd,        \* the end of physical memory
    Page, Mapped,   \* kPage, and the pages of kernel memory that are mapped
    Vas, Lens,      \* addresses and lengths clients read
    Mixed           \* whether a VMMDLL handle may be closed by lmpfs_close()

ASSUME CApiAssumption ==
    /\ None \notin Handles \cup Threads
    /\ Procs \in Seq(Int \X STRING)
    /\ Page \in Nat \ {0}
    /\ Vas \subseteq Nat /\ Lens \subseteq Nat

VARIABLES
    engine,         \* handle |-> "none", "open", "closed" or "freed twice"
    owner,          \* handle |-> the thread that uses it, and its interface
    g_handles,
    last_error,     \* thread |-> "" or a message
    apiPc,          \* thread |-> "idle", or within a VMMDLL call
    arg,            \* thread |-> the handle of that call
    snapshot,       \* thread |-> the handles VMMDLL_CloseAll() took
    ret             \* the last answer: [thread, call, ok, out]

apiVars == <<engine, owner, g_handles, last_error, apiPc, arg, snapshot, ret>>
calls == <<g_handles, apiPc, arg, snapshot>>

Nothing == [thread |-> None, call |-> "", ok |-> TRUE, out |-> <<>>]

ApiInit ==
    /\ engine = [h \in Handles |-> "none"] /\ owner = [h \in Handles |-> <<>>]
    /\ g_handles = <<>>
    /\ last_error = [t \in Threads |-> ""]
    /\ apiPc = [t \in Threads |-> "idle"] /\ arg = [t \in Threads |-> None]
    /\ snapshot = [t \in Threads |-> <<>>]
    /\ ret = Nothing

Fresh == {h \in Handles : engine[h] = "none"}
Owned(t, api) == {h \in Handles : engine[h] = "open" /\ owner[h] = <<t, api>> /\ h \notin ToSet(snapshot[t])}
Closing == \E t \in Threads : apiPc[t] \in {"close", "close_all"}

Answer(t, call, ok, out, error) ==
    /\ ret' = [thread |-> t, call |-> call, ok |-> ok, out |-> out]
    /\ last_error' = [last_error EXCEPT ![t] = error]

-----------------------------------------------------------------------------
(* Handles.                                                                *)

\* lmpfs_open(): a plugin's failing lmpfs_plugin_add_file() leaves an error
\* although the engine is there.
Opens(t, api, h) ==
    /\ engine' = [engine EXCEPT ![h] = "open"]
    /\ owner' = [owner EXCEPT ![h] = <<t, api>>]
    /\ \E error \in {"", "message"} : Answer(t, "lmpfs_open", TRUE, <<>>, error)

OpenFails(t) == Answer(t, "lmpfs_open", FALSE, <<>>, "message") /\ UNCHANGED <<engine, owner>>

lmpfs_open(t) ==
    /\ apiPc[t] = "idle"
    /\ OpenFails(t) \/ \E h \in Fresh : Opens(t, "lmpfs", h)
    /\ UNCHANGED calls

Delete(h) == [engine EXCEPT ![h] = IF @ = "open" THEN "closed" ELSE "freed twice"]

lmpfs_close(t) ==
    /\ apiPc[t] = "idle"
    /\ \E h \in Owned(t, "lmpfs") \cup (IF Mixed THEN Owned(t, "vmm") ELSE {}) : engine' = Delete(h)
    /\ UNCHANGED <<owner, last_error, ret, calls>>

IsFlag(a) == a \in {"-device", "-z", "-symbol", "-norefresh"}

\* [dump, syms]: the last -device or -z, or the first value of no known flag
\* before one; `value' says which flag the next argument belongs to.
parse_argv(argv) ==
    LET step(got, i) ==
            LET word == argv[i]
            IN  IF got.value # "" THEN [got EXCEPT ![got.value] = word, !.value = ""]
                ELSE IF word \in {"-device", "-z"} /\ i < Len(argv) THEN [got EXCEPT !.value = "dump"]
                ELSE IF word = "-symbol" /\ i < Len(argv) THEN [got EXCEPT !.value = "syms"]
                ELSE IF got.dump = "" /\ ~IsFlag(word) THEN [got EXCEPT !.dump = word]
                ELSE got
    IN  FoldLeft(step, [dump |-> "", syms |-> "", value |-> ""], [i \in DOMAIN argv |-> i])

\* VMMDLL_Initialize(): without a path there is no call, and no error.
VMMDLL_Initialize(t) ==
    /\ apiPc[t] = "idle"
    /\ \E argv \in Argvs :
          \/ /\ parse_argv(argv).dump = ""
             /\ ret' = [thread |-> t, call |-> "VMMDLL_Initialize", ok |-> FALSE, out |-> <<>>]
             /\ UNCHANGED <<engine, owner, last_error, calls>>
          \/ /\ parse_argv(argv).dump # ""
             /\ OpenFails(t)
             /\ UNCHANGED calls
          \/ /\ parse_argv(argv).dump # ""
             /\ \E h \in Fresh :
                   /\ Opens(t, "vmm", h)
                   /\ apiPc' = [apiPc EXCEPT ![t] = "register"] /\ arg' = [arg EXCEPT ![t] = h]
             /\ UNCHANGED <<g_handles, snapshot>>

Idle(t) == apiPc' = [apiPc EXCEPT ![t] = "idle"] /\ arg' = [arg EXCEPT ![t] = None]

register_handle(t) ==
    /\ apiPc[t] = "register"
    /\ g_handles' = Append(g_handles, arg[t])
    /\ Idle(t)
    /\ UNCHANGED <<engine, owner, last_error, snapshot, ret>>

\* VMMDLL_Close(), not while VMMDLL_CloseAll() may have the handle.
unregister_handle(t) ==
    /\ apiPc[t] = "idle" /\ ~Closing
    /\ \E h \in Owned(t, "vmm") :
          /\ g_handles' = RemoveFirst(g_handles, h)
          /\ arg' = [arg EXCEPT ![t] = h]
    /\ apiPc' = [apiPc EXCEPT ![t] = "close"]
    /\ UNCHANGED <<engine, owner, last_error, snapshot, ret>>

VMMDLL_Close(t) ==
    /\ apiPc[t] = "close"
    /\ engine' = Delete(arg[t])
    /\ Idle(t)
    /\ UNCHANGED <<owner, last_error, g_handles, snapshot, ret>>

\* Mutant: the list is copied, not taken.
Taken_Copy == g_handles

\* snapshot.swap(g_handles): what is left of the list.
Taken == <<>>

VMMDLL_CloseAll(t) ==
    /\ apiPc[t] = "idle" /\ \A u \in Threads : apiPc[u] # "close"
    /\ snapshot' = [snapshot EXCEPT ![t] = g_handles]
    /\ g_handles' = Taken
    /\ apiPc' = [apiPc EXCEPT ![t] = "close_all"]
    /\ UNCHANGED <<engine, owner, last_error, arg, ret>>

CloseNext(t) ==
    /\ apiPc[t] = "close_all"
    /\ IF snapshot[t] = <<>> THEN apiPc' = [apiPc EXCEPT ![t] = "idle"] /\ UNCHANGED <<engine, snapshot>>
       ELSE /\ engine' = Delete(Head(snapshot[t]))
            /\ snapshot' = [snapshot EXCEPT ![t] = Tail(@)]
            /\ UNCHANGED apiPc
    /\ UNCHANGED <<owner, g_handles, last_error, arg, ret>>

-----------------------------------------------------------------------------
(* Calls on a handle, each [call, ok, out, error].                         *)

Gives(call, out) == [call |-> call, ok |-> TRUE, out |-> out, error |-> ""]
Fails(call) == [call |-> call, ok |-> FALSE, out |-> <<>>, error |-> "message"]
Misses(call) == [call |-> call, ok |-> FALSE, out |-> <<>>, error |-> ""]

lmpfs_process_count == Gives("lmpfs_process_count", <<Len(Procs)>>)
lmpfs_process_get(i) == IF i \in 0..(Len(Procs) - 1) THEN Gives("lmpfs_process_get", Procs[i + 1]) ELSE Fails("lmpfs_process_get")

\* The first process of that name; there may be none, and no error.
ByName(name) == {i \in DOMAIN Procs : Procs[i][2] = name}
lmpfs_process_find_by_name(name) ==
    IF ByName(name) = {} THEN Misses("lmpfs_process_find_by_name")
    ELSE Gives("lmpfs_process_find_by_name", Procs[Min(ByName(name))])
lmpfs_process_find_by_pid(pid) ==
    LET found == SelectSeq(Procs, LAMBDA p : p[1] = pid)
    IN  IF found = <<>> THEN Misses("lmpfs_process_find_by_pid") ELSE Gives("lmpfs_process_find_by_pid", found[1])

normalize_path(asked) ==
    LET Turned(c) == IF c = "\\" THEN "/" ELSE c
        step(s, c) == IF Turned(c) = "/" /\ s # <<>> /\ s[Len(s)] = "/" THEN s ELSE Append(s, Turned(c))
        all == FoldLeft(step, <<>>, IF asked = <<>> \/ asked[1] # "/" THEN <<"/">> \o asked ELSE asked)
    IN  IF Len(all) > 1 /\ all[Len(all)] = "/" THEN Front(all) ELSE all

Is(path, kind) == path \in DOMAIN Nodes /\ Nodes[path].kind = kind
lmpfs_vfs_list(path) ==
    IF Is(path, "dir") THEN Gives("lmpfs_vfs_list", Nodes[path].children) ELSE Fails("lmpfs_vfs_list")
lmpfs_vfs_size(path) ==
    IF Is(path, "file") THEN Gives("lmpfs_vfs_size", <<Len(Nodes[path].children)>>) ELSE Fails("lmpfs_vfs_size")
Part(s, offset, len) == SubSeq(s, offset + 1, Min({offset + len, Len(s)}))
lmpfs_vfs_read(path, offset, len) ==
    IF len = 0 THEN Gives("lmpfs_vfs_read", <<>>)
    ELSE IF Is(path, "file") THEN Gives("lmpfs_vfs_read", Part(Nodes[path].children, offset, len))
    ELSE Fails("lmpfs_vfs_read")

\* kva_read() gives all of a range or nothing: a range of at most one page.
Byte(a) == IF a \div Page \in Mapped THEN a ELSE 0
kva_read(a, n) == [k \in 1..n |-> IF \A j \in a..(a + n - 1) : j \div Page \in Mapped THEN Byte(a + k - 1) ELSE 0]

\* Mutant: pages are counted from the address that was asked for.
Chunk_Whole(a, left) == Min({Page, left})

Chunk(a, left) == Min({Page - (a % Page), left})

\* The loop over the pages: what is filled from `done' on.
lmpfs_mem_read_kva(a, n) ==
    LET filled[done \in 0..n] ==
            IF done = n THEN <<>>
            ELSE LET chunk == Chunk(a + done, n - done)
                 IN  kva_read(a + done, chunk) \o filled[done + chunk]
    IN  Gives("lmpfs_mem_read_kva", filled[0])

lmpfs_mem_read_phys(pa, n) ==
    Gives("lmpfs_mem_read_phys", [k \in 1..Min({n, Max({PhysEnd - pa, 0})}) |-> pa + k - 1])
VMMDLL_MemRead(pa, n) ==
    LET got == lmpfs_mem_read_phys(pa, n)
    IN  [got EXCEPT !.call = "VMMDLL_MemRead", !.ok = n > 0 /\ Len(got.out) = n]
VMMDLL_MemReadEx(pa, n) == [lmpfs_mem_read_phys(pa, n) EXCEPT !.call = "VMMDLL_MemReadEx", !.ok = n > 0]

\* The callbacks of VMMDLL_VfsListU(), and what VMMDLL_PidList() fills.
VMMDLL_VfsListU(path) == [lmpfs_vfs_list(path) EXCEPT !.call = "VMMDLL_VfsListU"]
VMMDLL_VfsReadU(path, offset, len) == [lmpfs_vfs_read(path, offset, len) EXCEPT !.call = "VMMDLL_VfsReadU"]
VMMDLL_PidList(cap) ==
    Gives("VMMDLL_PidList", [i \in 1..Min({cap, Len(Procs)}) |-> Procs[i][1]])
VMMDLL_PidGetFromName(name) ==
    LET found == lmpfs_process_find_by_name(name)
    IN  [found EXCEPT !.call = "VMMDLL_PidGetFromName", !.out = IF @ = <<>> THEN <<>> ELSE <<@[1]>>]

Paths == {normalize_path(asked) : asked \in Asked}

ProcessCalls ==
    {lmpfs_process_get(i) : i \in -1..Len(Procs)}
    \cup {lmpfs_process_find_by_name(n) : n \in {p[2] : p \in ToSet(Procs)} \cup {"none"}}
    \cup {lmpfs_process_find_by_pid(n) : n \in {p[1] : p \in ToSet(Procs)} \cup {0}}
NumberCalls ==
    {lmpfs_process_count} \cup {lmpfs_vfs_size(p) : p \in Paths}
    \cup {lmpfs_mem_read_kva(a, n) : a \in Vas, n \in Lens}
    \cup {lmpfs_mem_read_phys(PhysEnd - 2, n) : n \in Lens}
    \cup {VMMDLL_MemRead(PhysEnd - 2, n) : n \in Lens} \cup {VMMDLL_MemReadEx(PhysEnd - 2, n) : n \in Lens}
    \cup {VMMDLL_PidList(n) : n \in 0..(Len(Procs) + 1)}
    \cup {VMMDLL_PidGetFromName(n) : n \in {p[2] : p \in ToSet(Procs)}}
PathCalls ==
    {lmpfs_vfs_list(p) : p \in Paths} \cup {lmpfs_vfs_read(p, 1, n) : p \in Paths, n \in {0, 2}}
    \cup {VMMDLL_VfsListU(p) : p \in Paths} \cup {VMMDLL_VfsReadU(p, 0, 1) : p \in Paths}

\* VMMDLL_ConfigGet() and VMMDLL_ConfigSet() make no call.
Call(t) ==
    /\ apiPc[t] = "idle" /\ Owned(t, "lmpfs") \cup Owned(t, "vmm") # {}
    /\ \A u \in Threads : apiPc[u] # "close_all"
    /\ \/ \E c \in ProcessCalls : Answer(t, c.call, c.ok, c.out, c.error)
       \/ \E c \in NumberCalls : Answer(t, c.call, c.ok, c.out, c.error)
       \/ \E c \in PathCalls : Answer(t, c.call, c.ok, c.out, c.error)
    /\ UNCHANGED <<engine, owner, calls>>

\* check(): the handle is null.
NullHandle(t) ==
    /\ apiPc[t] = "idle"
    /\ \E call \in {"lmpfs_process_count", "lmpfs_vfs_list", "lmpfs_mem_read_kva"} : Answer(t, call, FALSE, <<>>, "message")
    /\ UNCHANGED <<engine, owner, calls>>

\* lmpfs_kernel_direct_map_base() clears no error.
lmpfs_kernel_direct_map_base(t) ==
    /\ apiPc[t] = "idle" /\ Owned(t, "lmpfs") # {}
    /\ ret' = [thread |-> t, call |-> "lmpfs_kernel_direct_map_base", ok |-> TRUE, out |-> <<>>]
    /\ UNCHANGED <<engine, owner, last_error, calls>>

ApiNext ==
    \E t \in Threads :
        \/ lmpfs_open(t) \/ lmpfs_close(t)
        \/ VMMDLL_Initialize(t) \/ register_handle(t)
        \/ unregister_handle(t) \/ VMMDLL_Close(t)
        \/ VMMDLL_CloseAll(t) \/ CloseNext(t)
        \/ Call(t) \/ NullHandle(t) \/ lmpfs_kernel_direct_map_base(t)

ApiSpec == ApiInit /\ [][ApiNext]_apiVars

-----------------------------------------------------------------------------
(* An engine is deleted once, whoever opens, closes and closes all at the  *)
(* same time; and one VMMDLL_CloseAll() will not find is closed, being     *)
(* closed, or still to be registered.                                      *)
HandlesClosedOnce ==
    /\ \A h \in Handles : engine[h] # "freed twice"
    /\ \A h \in Handles : engine[h] = "open" /\ owner[h][2] = "vmm" =>
          Cardinality({i \in DOMAIN g_handles : g_handles[i] = h})
            + Cardinality({t \in Threads : arg[t] = h \/ h \in ToSet(snapshot[t])}) = 1

(* Calls answer for themselves: a native call that fails leaves its own    *)
(* error to its thread, if it is not only a process that is not found; a   *)
(* read of kernel memory has every mapped byte and zeros for the others,   *)
(* whatever page it begins in; and a list of pids is the first of them.    *)
CallsAnswered ==
    /\ ~ret.ok /\ ret.call \in {"lmpfs_open", "lmpfs_process_get", "lmpfs_vfs_list", "lmpfs_vfs_size",
                                "lmpfs_vfs_read", "VMMDLL_VfsListU", "VMMDLL_VfsReadU"}
         => last_error[ret.thread] # ""
    /\ ret.call = "lmpfs_mem_read_kva" /\ ret.ok =>
          \E a \in Vas : ret.out = [k \in 1..Len(ret.out) |-> Byte(a + k - 1)]
    /\ ret.call = "VMMDLL_PidList" => IsPrefix(ret.out, [i \in DOMAIN Procs |-> Procs[i][1]])

(* What a client relies on: the handles and the answers.                   *)
ClientsServed == HandlesClosedOnce /\ CallsAnswered
=============================================================================
