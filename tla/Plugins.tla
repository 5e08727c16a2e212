------------------------------ MODULE Plugins ------------------------------
(* The plugin loader of src/api/lmpfs.cpp: scan_and_load_plugins,          *)
(* load_plugins_from, lmpfs_plugin_add_file and descend_for_file.          *)
(*                                                                         *)
(* Directories are scanned in order, the libraries of one directory in     *)
(* whatever order the host lists them.  Each is loaded, given a directory  *)
(* /plugins/<stem>/ and initialised; while its init runs, and only then,   *)
(* it may register files.  Directories are DirNodes of DirTree.            *)
EXTENDS DirTree, Integers

CONSTANTS
    Libs,        \* plugin libraries
    Stem,        \* Stem[l]: file name without extension
    Usable,      \* libraries that load and export lmpfs_plugin_init
    PluginDirs,  \* the directories scanned, in order: sets of libraries
    PluginNames, \* path components, stems included
    Registered,  \* paths plugins register; descend_for_file refuses an empty one
    MaxAdds      \* bound on the calls of lmpfs_plugin_add_file

ASSUME PluginsAssumption ==
    /\ \A l \in Libs : Stem[l] \in PluginNames
    /\ Usable \subseteq Libs
    /\ PluginDirs \in Seq(SUBSET Libs)
    /\ Registered \subseteq Seq(PluginNames) \ {<<>>}
    /\ MaxAdds \in Nat

VARIABLES
    pluginHeap, \* the nodes: 1 is /plugins
    pluginPc,   \* "scan", "init", "descend", "done"; "crashed" after a use of freed memory
    dir,        \* index of the directory being scanned
    libs,       \* its libraries not yet visited
    ctx,        \* g_plugin_ctx: the library and its plugin_dir
    pluginCur,  \* descend_for_file's cur, a raw pointer
    pluginRest, \* the components it has still to walk
    calls       \* the registrations that returned, in order

pluginVars == <<pluginHeap, pluginPc, dir, libs, ctx, pluginCur, pluginRest, calls>>

PluginsDir == 1
NoCtx == [lib |-> Null, dir |-> Null, path |-> <<>>]

\* A raw pointer to a node whose last shared_ptr is gone.
Freed == -1

LibsOf(d) == IF d <= Len(PluginDirs) THEN PluginDirs[d] ELSE {}

LoaderInit ==
    /\ pluginHeap = <<Dir("plugins")>>
    /\ pluginPc = "scan"
    /\ dir = 1
    /\ libs = LibsOf(1)
    /\ ctx = NoCtx
    /\ pluginCur = Null
    /\ pluginRest = <<>>
    /\ calls = <<>>

\* load_lib or resolve_sym fails.
SkipLib(l) ==
    /\ pluginPc = "scan"
    /\ l \notin Usable
    /\ libs' = libs \ {l}
    /\ UNCHANGED <<pluginHeap, pluginPc, dir, ctx, pluginCur, pluginRest, calls>>

\* The plugin's directory, which add drops if the stem is taken: the loader
\* goes on with its own shared_ptr to it either way.
LoadLib(l) ==
    /\ pluginPc = "scan"
    /\ l \in Usable
    /\ libs' = libs \ {l}
    /\ LET sub == Dir(Stem[l])
           added == Add(pluginHeap, PluginsDir, sub)
       IN  pluginHeap' = IF added = pluginHeap THEN Append(pluginHeap, sub) ELSE added
    /\ ctx' = [lib |-> l, dir |-> Len(pluginHeap'), path |-> <<>>]
    /\ pluginPc' = "init"
    /\ UNCHANGED <<dir, pluginCur, pluginRest, calls>>

\* A mutant: the walk starts at /plugins.
CallAddFileAtRoot(p) ==
    /\ pluginPc = "init"
    /\ Len(calls) < MaxAdds
    /\ ctx' = [ctx EXCEPT !.path = p]
    /\ pluginCur' = PluginsDir
    /\ pluginRest' = Front(p)
    /\ pluginPc' = "descend"
    /\ UNCHANGED <<pluginHeap, dir, libs, calls>>

\* lmpfs_plugin_add_file, called by init.
CallAddFile(p) ==
    /\ pluginPc = "init"
    /\ Len(calls) < MaxAdds
    /\ ctx' = [ctx EXCEPT !.path = p]
    /\ pluginCur' = ctx.dir
    /\ pluginRest' = Front(p)
    /\ pluginPc' = "descend"
    /\ UNCHANGED <<pluginHeap, dir, libs, calls>>

\* One component of descend_for_file.  A new directory is added with add,
\* which drops it when a file has the name; fresh goes out of scope and next
\* is the address it had.
Descend ==
    LET existing == Find(pluginHeap, pluginCur, Head(pluginRest))
        added == Add(pluginHeap, pluginCur, Dir(Head(pluginRest)))
    IN  /\ pluginPc = "descend" /\ pluginRest # <<>> /\ pluginCur # Freed
        /\ IF existing # Null /\ IsDir(pluginHeap, existing)
           THEN pluginCur' = existing /\ UNCHANGED pluginHeap
           ELSE pluginHeap' = added /\ pluginCur' = IF added = pluginHeap THEN Freed ELSE Len(added)
        /\ pluginRest' = Tail(pluginRest)
        /\ UNCHANGED <<pluginPc, dir, libs, ctx, calls>>

\* add drops the file when the name is taken; the call returns 0 all the same.
ReturnFromAdd ==
    /\ pluginPc = "descend" /\ pluginRest = <<>> /\ pluginCur # Freed
    /\ pluginHeap' = Add(pluginHeap, pluginCur, File(Last(ctx.path), "reg", Len(calls) + 1))
    /\ calls' = Append(calls, [lib |-> ctx.lib, path |-> ctx.path])
    /\ pluginCur' = Null
    /\ pluginPc' = "init"
    /\ UNCHANGED <<dir, libs, ctx, pluginRest>>

\* find or add on a destroyed node: a crash, or memory that still looks like
\* the directory, in which the file is added to what nothing refers to.
UseFreed ==
    /\ pluginPc = "descend" /\ pluginCur = Freed
    /\ \/ pluginPc' = "crashed" /\ UNCHANGED <<pluginCur, pluginRest, calls>>
       \/ /\ pluginPc' = "init"
          /\ calls' = Append(calls, [lib |-> ctx.lib, path |-> ctx.path])
          /\ pluginCur' = Null
          /\ pluginRest' = <<>>
    /\ UNCHANGED <<pluginHeap, dir, libs, ctx>>

\* init returns; the context is cleared and sub goes out of scope.  A
\* non-zero return is logged and changes nothing.
InitReturns ==
    /\ pluginPc = "init"
    /\ ctx' = NoCtx
    /\ pluginPc' = "scan"
    /\ UNCHANGED <<pluginHeap, dir, libs, pluginCur, pluginRest, calls>>

NextDir ==
    /\ pluginPc = "scan" /\ libs = {} /\ dir <= Len(PluginDirs)
    /\ dir' = dir + 1
    /\ libs' = LibsOf(dir + 1)
    /\ UNCHANGED <<pluginHeap, pluginPc, ctx, pluginCur, pluginRest, calls>>

\* README.txt is added last, so a plugin may have taken its name.
FinishScan ==
    /\ pluginPc = "scan" /\ dir > Len(PluginDirs)
    /\ pluginHeap' = Add(pluginHeap, PluginsDir, File("README.txt", "reg", Null))
    /\ pluginPc' = "done"
    /\ UNCHANGED <<dir, libs, ctx, pluginCur, pluginRest, calls>>

LoaderNext ==
    \/ \E l \in libs : SkipLib(l) \/ LoadLib(l)
    \/ \E p \in Registered : CallAddFile(p)
    \/ Descend
    \/ ReturnFromAdd
    \/ UseFreed
    \/ InitReturns
    \/ NextDir
    \/ FinishScan

LoaderSpec == LoaderInit /\ [][LoaderNext]_pluginVars

----------------------------------------------------------------------------
(* Properties.                                                             *)

PluginAt(q) == Resolve(pluginHeap, PluginsDir, q)
Where(c) == <<Stem[calls[c].lib]>> \o calls[c].path
FileAt(q) == PluginAt(q) # Null /\ ~IsDir(pluginHeap, PluginAt(q))

\* Every path a registration of this instance could end at.
Universe == Registered \cup {<<Stem[l]>> \o p : l \in Libs, p \in Registered}

(* A file that can be reached under /plugins/<stem>/ is the first          *)
(* registration at that path by a library of that stem: no plugin puts a   *)
(* file outside its directory, nor over another's.  The loader's own       *)
(* README.txt is beside the directories.                                   *)
OwnSubtree ==
    \A q \in Universe \ {<<"README.txt">>} : FileAt(q) =>
        LET c == pluginHeap[PluginAt(q)].ci
        IN  /\ c \in DOMAIN calls /\ Where(c) = q
            /\ \A k \in 1..(c - 1) : Where(k) # q
=============================================================================
