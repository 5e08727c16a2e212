-------------------------- MODULE TreeUsersProofs --------------------------
(***************************************************************************)
(* What the plugin loader and a mount's listings do with DirNodes, for any *)
(* libraries, registrations, entries and clients.                          *)
(*                                                                         *)
(* The loader's tree has nodes no path leads to: the directory add dropped *)
(* when its stem was taken, and all that is registered below it.  Its      *)
(* inductive invariant keeps the two apart.                                *)
(***************************************************************************)
EXTENDS Plugins, Mount, DirTreeProofs

PNames == PluginNames \cup {"plugins", "README.txt"}
PKinds == {"dir", "reg"}
Here(h, p) == Entry(h, PluginsDir, p)

\* Below /plugins every node has one path, and nothing else leads in.
Sound(h) ==
    /\ HeapOK(h, PNames, PKinds, Nat)
    /\ PluginsDir \in 1..Len(h) /\ IsDir(h, PluginsDir)
    /\ PathUnique(h, PluginsDir, PNames)
    /\ Rooted(h, PluginsDir)

\* Where a registration would be, from /plugins; and whether a file stands
\* in the place of one of its directories.
Place(c) == <<Stem[c.lib]>> \o c.path
Blocked(h, q) == \E p \in Prefixes(q) \ {<<>>, q} : Here(h, p).kind \notin {"none", "dir"}

\* The directory of the library at work is at its stem, or at no path.
Attached(h, c) == Resolve(h, PluginsDir, <<Stem[c.lib]>>) = c.dir
CtxSet == [lib : Libs, dir : Nat, path : Registered \cup {<<>>}]
Loaded(h, c) ==
    /\ c \in CtxSet
    /\ c.dir \in 1..Len(h) /\ IsDir(h, c.dir)
    /\ Here(h, <<Stem[c.lib]>>).kind # "none"
    /\ Attached(h, c) \/ Apart(h, PluginsDir, c.dir, PNames)

\* descend_for_file's cur is at the components walked so far, if the
\* library's directory is attached, or at no path, if it is not.
Cursor(h, c, cur, rest) ==
    /\ c.path \in Registered
    /\ Follows(rest, Place(c), PNames)
    /\ cur # Freed =>
          /\ cur \in 1..Len(h) /\ IsDir(h, cur)
          /\ IF Attached(h, c) THEN Resolve(h, PluginsDir, Walked(rest, Place(c))) = cur
             ELSE Apart(h, PluginsDir, cur, PNames)
    /\ cur = Freed /\ Attached(h, c) => Blocked(h, Place(c))

\* A file, README.txt aside, is the first registration at its path.
FilesOwn(h, cs) ==
    \A q \in Seq(PNames) \ {<<"README.txt">>} : Here(h, q).kind \notin {"none", "dir"} =>
        /\ Here(h, q).ci \in DOMAIN cs
        /\ Place(cs[Here(h, q).ci]) = q
        /\ \A k \in 1..(Here(h, q).ci - 1) : Place(cs[k]) # q

\* Nothing will come to stand at the place of a registration that returned:
\* something does, or a file is in its way, or its library's directory is
\* at no path and not that of the library at work.
Working(p) == p \in {"init", "descend"}
Lost(h, r, c, p) ==
    /\ Here(h, <<Stem[r.lib]>>).kind # "none"
    /\ Working(p) => Resolve(h, PluginsDir, <<Stem[r.lib]>>) # c.dir
Settled(h, cs, c, p) ==
    \A k \in DOMAIN cs :
        \/ Here(h, Place(cs[k])).kind # "none"
        \/ Blocked(h, Place(cs[k]))
        \/ Lost(h, cs[k], c, p)

CallSet == [lib : Libs, path : Registered]
CallsOK(cs) == cs \in Seq(CallSet)

LoaderInv ==
    /\ Sound(pluginHeap)
    /\ CallsOK(calls)
    /\ Working(pluginPc) => Loaded(pluginHeap, ctx)
    /\ pluginPc = "descend" => Cursor(pluginHeap, ctx, pluginCur, pluginRest)
    /\ FilesOwn(pluginHeap, calls)
    /\ Settled(pluginHeap, calls, ctx, pluginPc)

-----------------------------------------------------------------------------
(* Paths and nodes of the loader.                                          *)

LEMMA NamesOK ==
    /\ PluginNames \subseteq PNames /\ "plugins" \in PNames /\ "README.txt" \in PNames
    /\ \A p \in Seq(PluginNames) : p \in Seq(PNames)
    /\ \A l \in Libs : Stem[l] \in PNames /\ <<Stem[l]>> \in Seq(PNames)
    /\ \A p \in Registered : p \in Seq(PNames) /\ p # <<>>
<1>1. PluginNames \subseteq PNames /\ "plugins" \in PNames /\ "README.txt" \in PNames
  BY DEF PNames
<1>2. \A p \in Seq(PluginNames) : p \in Seq(PNames)
  BY <1>1
<1>3. \A l \in Libs : Stem[l] \in PNames
  BY <1>1, PluginsAssumption
<1>4. \A l \in Libs : <<Stem[l]>> \in Seq(PNames)
  BY <1>3
<1>5. \A p \in Registered : p \in Seq(PluginNames) /\ p # <<>>
  BY PluginsAssumption
<1> QED BY <1>1, <1>2, <1>3, <1>4, <1>5

\* The path of a registration, and the walk to it from its first component.
LEMMA PlaceOK ==
    ASSUME NEW c, c.lib \in Libs, c.path \in Registered
    PROVE  /\ Place(c) \in Seq(PNames) /\ Place(c) # <<>>
           /\ Place(c)[1] = Stem[c.lib]
           /\ Last(Place(c)) = Last(c.path)
           /\ Follows(Front(c.path), Place(c), PNames)
           /\ Walked(Front(c.path), Place(c)) = <<Stem[c.lib]>>
<1> DEFINE p == c.path
           s == Stem[c.lib]
           m == Len(p)
<1>1. p \in Seq(PNames) /\ p # <<>> /\ s \in PNames
  BY NamesOK
<1> HIDE DEF p, s
<1>2. m \in Nat \ {0}
  BY <1>1, EmptySeq
<1>3. PICK t : t = <<s>> \o p
  OBVIOUS
<1>4. t \in Seq(PNames) /\ Len(t) = m + 1 /\ t[1] = s /\ \A i \in 1..m : t[i + 1] = p[i]
  BY <1>1, <1>2, <1>3
<1>5. Front(p) \in Seq(PNames) /\ Len(Front(p)) = m - 1 /\ \A i \in 1..(m - 1) : Front(p)[i] = p[i]
  <2>1. m - 1 \in 0..Len(p)
    BY <1>2
  <2> QED BY <1>1, <2>1, FirstPart DEF Front
<1>6. Follows(Front(p), t, PNames)
  <2>1. ASSUME NEW i \in 1..(m - 1) PROVE Front(p)[i] = t[(m + 1) - 1 - (m - 1) + i]
    <3>1. (m + 1) - 1 - (m - 1) + i = i + 1 /\ i \in 1..m
      BY <1>2
    <3> QED BY <1>4, <1>5, <3>1
  <2> HIDE DEF m
  <2> QED BY <1>2, <1>4, <1>5, <2>1 DEF Follows
<1>7. Walked(Front(p), t) = <<s>>
  <2>1. (m + 1) - 1 - (m - 1) = 1
    BY <1>2
  <2>2. Walked(Front(p), t) = SubSeq(t, 1, 1)
    BY <1>4, <1>5, <2>1 DEF Walked
  <2>3. SubSeq(t, 1, 1) \in Seq(PNames) /\ Len(SubSeq(t, 1, 1)) = 1 /\ SubSeq(t, 1, 1)[1] = s
    <3>1. 1 \in 0..Len(t)
      BY <1>2, <1>4
    <3> QED BY <1>4, <3>1, FirstPart
  <2>4. <<s>> \in Seq(PNames) /\ Len(<<s>>) = 1 /\ <<s>>[1] = s
    BY <1>1
  <2>5. \A i \in 1..1 : SubSeq(t, 1, 1)[i] = <<s>>[i]
    BY <2>3, <2>4
  <2>6. SubSeq(t, 1, 1) = <<s>>
    BY <2>3, <2>4, <2>5, SeqEqual
  <2> QED BY <2>2, <2>6
<1>8. Last(t) = Last(p)
  BY <1>2, <1>4 DEF Last
<1>9. t # <<>>
  BY <1>2, <1>4
<1>10. Place(c) = t
  BY <1>3 DEF Place, p, s
<1> QED BY <1>4, <1>6, <1>7, <1>8, <1>9, <1>10 DEF p, s

LEMMA DirOK ==
    ASSUME NEW name \in PNames
    PROVE  /\ Dir(name) \in NodeSet(PNames, PKinds, Nat) /\ Dir(name).kids = <<>> /\ Dir(name).names = {}
           /\ Dir(name).name = name /\ Dir(name).kind = "dir"
<1>1. Null \in Nat /\ <<>> \in Seq(Nat) /\ {} \in SUBSET PNames
  BY DEF Null
<1> QED BY <1>1 DEF Dir, NodeSet, PKinds

LEMMA RegOK ==
    ASSUME NEW name \in PNames, NEW c \in Nat
    PROVE  /\ File(name, "reg", c) \in NodeSet(PNames, PKinds, Nat)
           /\ File(name, "reg", c).kids = <<>> /\ File(name, "reg", c).names = {}
           /\ File(name, "reg", c).name = name /\ File(name, "reg", c).kind = "reg"
           /\ File(name, "reg", c).ci = c
<1>1. <<>> \in Seq(Nat) /\ {} \in SUBSET PNames
  OBVIOUS
<1> QED BY <1>1 DEF File, NodeSet, PKinds

-----------------------------------------------------------------------------
(* What add does to a sound heap, in a directory that is attached and in   *)
(* one that is not.                                                        *)

\* What stood at a path stands there.
Kept(g, h) == \A p \in Seq(PNames) : Here(h, p).kind # "none" => AlikeAt(g, h, PluginsDir, p)
Later(g, h) == Len(h) <= Len(g) /\ \A n \in 1..Len(h) : IsDir(g, n) <=> IsDir(h, n)
Made(g, h, d, node) == g = Add(h, d, node)
Under(t, r, name) == t = Append(r, name)

\* add found the name and dropped the node, or made it d's last child.
Dropped(g, h, d, name) == Find(h, d, name) # Null /\ g = h
NewChild(g, h, d, node) ==
    Find(h, d, node.name) = Null /\ Len(g) = Len(h) + 1 /\ (IsDir(g, Len(g)) <=> node.kind = "dir")

LEMMA SoundFacts ==
    ASSUME NEW h, Sound(h)
    PROVE  /\ HeapOK(h, PNames, PKinds, Nat) /\ PluginsDir \in 1..Len(h) /\ IsDir(h, PluginsDir)
           /\ PathUnique(h, PluginsDir, PNames) /\ Rooted(h, PluginsDir)
           /\ Len(h) \in Nat
           /\ \A p \in Seq(PNames) : Resolve(h, PluginsDir, p) \in 0..Len(h)
           /\ \A p \in Seq(PNames) :
                 Here(h, p).kind = "none" <=> Resolve(h, PluginsDir, p) = Null
<1>1. /\ HeapOK(h, PNames, PKinds, Nat) /\ PluginsDir \in 1..Len(h) /\ Len(h) \in Nat
  BY DEF Sound, HeapOK
<1>2. \A p \in Seq(PNames) : Resolve(h, PluginsDir, p) \in 0..Len(h)
  BY <1>1, ResolveFacts
<1>3. \A n \in 1..Len(h) : h[n].kind # "none"
  BY <1>1, NodeFacts DEF PKinds
<1>4. \A p \in Seq(PNames) : Here(h, p).kind = "none" <=> Resolve(h, PluginsDir, p) = Null
  BY <1>1, <1>2, <1>3 DEF Here, Entry, Null
<1> QED BY <1>1, <1>2, <1>4 DEF Sound

\* The shape of the heap after add.
LEMMA AddShape ==
    ASSUME NEW h, Sound(h), NEW d \in 1..Len(h), IsDir(h, d),
           NEW node \in NodeSet(PNames, PKinds, Nat), node.kids = <<>>, node.names = {},
           NEW g, Made(g, h, d, node), PathUnique(g, PluginsDir, PNames)
    PROVE  /\ Sound(g) /\ Later(g, h)
           /\ Dropped(g, h, d, node.name) \/ NewChild(g, h, d, node)
<1>1. /\ HeapOK(h, PNames, PKinds, Nat) /\ PluginsDir \in 1..Len(h) /\ IsDir(h, PluginsDir)
      /\ Rooted(h, PluginsDir) /\ Len(h) \in Nat
  BY SoundFacts
<1>2. HeapOK(g, PNames, PKinds, Nat) /\ Len(h) <= Len(g) /\ Len(g) \in Nat
  BY <1>1, AddOK DEF Made, HeapOK
<1>3. CASE Find(h, d, node.name) # Null
  <2>1. g = h
    BY <1>1, <1>3, AddGrows DEF Made
  <2> QED BY <1>2, <1>3, <2>1 DEF Later, Dropped
<1>4. CASE Find(h, d, node.name) = Null
  <2>1. Grown(g, h, d, node.name, node)
    BY <1>1, <1>4, AddGrows DEF Made
  <2>2. Rooted(g, PluginsDir)
    BY <1>1, <2>1, RootedGrown
  <2>3. /\ Len(g) = Len(h) + 1 /\ g[Len(h) + 1] = node
        /\ \A n \in 1..Len(h) : IsDir(g, n) <=> IsDir(h, n)
    BY <2>1 DEF Grown, IsDir
  <2>4. IsDir(g, PluginsDir) /\ PluginsDir \in 1..Len(g)
    BY <1>1, <1>2, <2>3
  <2>5. (IsDir(g, Len(g)) <=> node.kind = "dir")
    BY <2>3 DEF IsDir
  <2> QED BY <1>2, <1>4, <2>2, <2>3, <2>4, <2>5 DEF Later, NewChild, Sound
<1> QED BY <1>3, <1>4

LEMMA AddReached ==
    ASSUME NEW h, Sound(h), NEW d \in 1..Len(h), IsDir(h, d),
           NEW r \in Seq(PNames), Resolve(h, PluginsDir, r) = d,
           NEW node \in NodeSet(PNames, PKinds, Nat), node.kids = <<>>, node.names = {},
           NEW g, Made(g, h, d, node), NEW t, Under(t, r, node.name)
    PROVE  /\ Sound(g) /\ Later(g, h) /\ Kept(g, h)
           /\ \/ Dropped(g, h, d, node.name) /\ Here(h, t).kind # "none"
              \/ /\ NewChild(g, h, d, node) /\ Here(h, t).kind = "none"
                 /\ Put(g, h, PluginsDir, PNames, t, node)
<1>1. /\ HeapOK(h, PNames, PKinds, Nat) /\ PluginsDir \in 1..Len(h)
      /\ PathUnique(h, PluginsDir, PNames)
  BY SoundFacts
<1>2. Reached(h, PluginsDir, r, d, PNames, PNames, PKinds, Nat)
  BY <1>1 DEF Reached
<1>3. node.name \in PNames /\ "none" \notin PKinds
  BY DEF NodeSet, PKinds
<1>4. Grew(g, h, PluginsDir, PNames, PNames, PKinds, Nat) /\ Added(g, h, PluginsDir, t, d, node, PNames)
  BY <1>2, <1>3, AddAt DEF Made, Under
<1>5. PathUnique(g, PluginsDir, PNames)
  BY <1>4 DEF Grew
<1>6. /\ Sound(g) /\ Later(g, h)
      /\ Dropped(g, h, d, node.name) \/ NewChild(g, h, d, node)
  BY <1>5, AddShape
<1>7. CASE Dropped(g, h, d, node.name)
  <2>1. Here(h, t).kind # "none" /\ g = h
    BY <1>4, <1>7 DEF Added, Dropped, Here
  <2>2. Kept(g, h)
    BY <2>1 DEF Kept, AlikeAt
  <2> QED BY <1>6, <1>7, <2>1, <2>2
<1>8. CASE NewChild(g, h, d, node)
  <2>1. Here(h, t).kind = "none" /\ Put(g, h, PluginsDir, PNames, t, node)
    BY <1>4, <1>8 DEF Added, NewChild, Here
  <2>2. Kept(g, h)
    BY <2>1 DEF Kept, Put
  <2> QED BY <1>6, <1>8, <2>1, <2>2
<1> QED BY <1>6, <1>7, <1>8

LEMMA AddApart ==
    ASSUME NEW h, Sound(h), NEW d \in 1..Len(h), IsDir(h, d), Apart(h, PluginsDir, d, PNames),
           NEW node \in NodeSet(PNames, PKinds, Nat), node.kids = <<>>, node.names = {},
           NEW g, Made(g, h, d, node)
    PROVE  /\ Sound(g) /\ Later(g, h) /\ Kept(g, h) /\ Alike(g, h, PluginsDir, PNames)
           /\ Dropped(g, h, d, node.name) \/ NewChild(g, h, d, node)
<1>1. /\ HeapOK(h, PNames, PKinds, Nat) /\ PluginsDir \in 1..Len(h)
      /\ PathUnique(h, PluginsDir, PNames)
  BY SoundFacts
<1>2. \A q \in Seq(PNames) : Resolve(h, PluginsDir, q) # d
  BY DEF Apart
<1>3. Grew(g, h, PluginsDir, PNames, PNames, PKinds, Nat) /\ Alike(g, h, PluginsDir, PNames)
  BY <1>1, <1>2, AddAside DEF Made
<1>4. PathUnique(g, PluginsDir, PNames)
  BY <1>3 DEF Grew
<1>5. /\ Sound(g) /\ Later(g, h)
      /\ Dropped(g, h, d, node.name) \/ NewChild(g, h, d, node)
  BY <1>4, AddShape
<1> QED BY <1>3, <1>5 DEF Kept, Alike

-----------------------------------------------------------------------------
(* What stays when whatever stood at a path still does.                    *)

LEMMA KeptEntry ==
    ASSUME NEW h, NEW g, Kept(g, h), NEW p \in Seq(PNames), Here(h, p).kind # "none"
    PROVE  Here(g, p) = Here(h, p) /\ Resolve(g, PluginsDir, p) = Resolve(h, PluginsDir, p)
  BY DEF Kept, AlikeAt, Here

LEMMA PrefixPath ==
    ASSUME NEW q \in Seq(PNames), NEW p \in Prefixes(q)
    PROVE  p \in Seq(PNames)
<1>1. PICK k \in 0..Len(q) : p = SubSeq(q, 1, k)
  BY DEF Prefixes
<1> QED BY <1>1, FirstPart

LEMMA KeptBlocked ==
    ASSUME NEW h, NEW g, Kept(g, h), NEW q \in Seq(PNames), Blocked(h, q)
    PROVE  Blocked(g, q)
<1>1. PICK p \in Prefixes(q) \ {<<>>, q} : Here(h, p).kind \notin {"none", "dir"}
  BY DEF Blocked
<1>2. Here(g, p) = Here(h, p)
  BY <1>1, PrefixPath, KeptEntry
<1> QED BY <1>1, <1>2 DEF Blocked

LEMMA CallOK ==
    ASSUME NEW cs, CallsOK(cs), NEW k \in DOMAIN cs
    PROVE  /\ Len(cs) \in Nat /\ k \in 1..Len(cs)
           /\ cs[k].lib \in Libs /\ cs[k].path \in Registered
           /\ Place(cs[k]) \in Seq(PNames) /\ Place(cs[k])[1] = Stem[cs[k].lib]
<1>1. cs \in Seq(CallSet)
  BY DEF CallsOK
<1>2. Len(cs) \in Nat /\ k \in 1..Len(cs) /\ cs[k] \in CallSet
  BY <1>1
<1>3. cs[k].lib \in Libs /\ cs[k].path \in Registered
  BY <1>2 DEF CallSet
<1> QED BY <1>2, <1>3, PlaceOK

LEMMA KeptSettled ==
    ASSUME NEW h, NEW g, Kept(g, h), NEW cs, CallsOK(cs), NEW c, NEW p, Settled(h, cs, c, p)
    PROVE  Settled(g, cs, c, p)
<1> SUFFICES ASSUME NEW k \in DOMAIN cs
             PROVE  \/ Here(g, Place(cs[k])).kind # "none"
                    \/ Blocked(g, Place(cs[k]))
                    \/ Lost(g, cs[k], c, p)
  BY DEF Settled
<1>1. cs[k].lib \in Libs /\ Place(cs[k]) \in Seq(PNames)
  BY CallOK
<1>2. Place(cs[k]) \in Seq(PNames) /\ <<Stem[cs[k].lib]>> \in Seq(PNames)
  BY <1>1, NamesOK
<1>3. CASE Here(h, Place(cs[k])).kind # "none"
  BY <1>2, <1>3, KeptEntry
<1>4. CASE Blocked(h, Place(cs[k]))
  BY <1>2, <1>4, KeptBlocked
<1>5. CASE Lost(h, cs[k], c, p)
  <2>1. Here(h, <<Stem[cs[k].lib]>>).kind # "none"
    BY <1>5 DEF Lost
  <2> QED BY <1>2, <1>5, <2>1, KeptEntry DEF Lost
<1> QED BY <1>3, <1>4, <1>5 DEF Settled

\* No file stands where none stood, README.txt aside.
NoNewFile(g, h) ==
    \A q \in Seq(PNames) \ {<<"README.txt">>} :
        Here(g, q).kind \notin {"none", "dir"} => Here(h, q).kind # "none"

LEMMA KeptFiles ==
    ASSUME NEW h, NEW g, Kept(g, h), NoNewFile(g, h), NEW cs, FilesOwn(h, cs)
    PROVE  FilesOwn(g, cs)
<1> SUFFICES ASSUME NEW q \in Seq(PNames) \ {<<"README.txt">>}, Here(g, q).kind \notin {"none", "dir"}
             PROVE  /\ Here(g, q).ci \in DOMAIN cs
                    /\ Place(cs[Here(g, q).ci]) = q
                    /\ \A k \in 1..(Here(g, q).ci - 1) : Place(cs[k]) # q
  BY DEF FilesOwn
<1>1. Here(g, q) = Here(h, q)
  BY KeptEntry DEF NoNewFile
<1> QED BY <1>1 DEF FilesOwn

LEMMA AlikeKeeps ==
    ASSUME NEW h, NEW g, Alike(g, h, PluginsDir, PNames)
    PROVE  Kept(g, h) /\ NoNewFile(g, h)
  BY DEF Alike, AlikeAt, Kept, NoNewFile, Here

\* A new directory is no file.
LEMMA PutDir ==
    ASSUME NEW h, NEW g, NEW t, NEW node, node.kind = "dir", Put(g, h, PluginsDir, PNames, t, node)
    PROVE  NoNewFile(g, h)
<1> SUFFICES ASSUME NEW q \in Seq(PNames), Here(g, q).kind \notin {"none", "dir"}
             PROVE  Here(h, q).kind # "none"
  BY DEF NoNewFile
<1>1. CASE q = t
  BY <1>1 DEF Put, Here
<1>2. CASE q # t
  BY <1>2 DEF Put, AlikeAt, Here
<1> QED BY <1>1, <1>2

\* The directory of the library at work stays where it is, or nowhere.
LEMMA KeptLoaded ==
    ASSUME NEW h, Sound(h), NEW g, Sound(g), Later(g, h), Kept(g, h), NEW c, Loaded(h, c),
           Attached(h, c) \/ Alike(g, h, PluginsDir, PNames)
    PROVE  Loaded(g, c) /\ (Attached(g, c) <=> Attached(h, c))
<1>1. /\ c \in CtxSet /\ c.lib \in Libs /\ c.dir \in 1..Len(h) /\ IsDir(h, c.dir)
      /\ Here(h, <<Stem[c.lib]>>).kind # "none" /\ <<Stem[c.lib]>> \in Seq(PNames)
  BY NamesOK DEF Loaded, CtxSet
<1>2. /\ Here(g, <<Stem[c.lib]>>) = Here(h, <<Stem[c.lib]>>)
      /\ Resolve(g, PluginsDir, <<Stem[c.lib]>>) = Resolve(h, PluginsDir, <<Stem[c.lib]>>)
  BY <1>1, KeptEntry
<1>3. c.dir \in 1..Len(g) /\ IsDir(g, c.dir)
  <2>1. Len(h) \in Nat /\ Len(g) \in Nat
    BY SoundFacts
  <2> QED BY <1>1, <2>1 DEF Later
<1>4. CASE Attached(h, c)
  BY <1>1, <1>2, <1>3, <1>4 DEF Attached, Loaded
<1>5. CASE ~Attached(h, c)
  <2>1. Apart(g, PluginsDir, c.dir, PNames)
    BY <1>5 DEF Apart, Alike, AlikeAt, Loaded
  <2> QED BY <1>1, <1>2, <1>3, <1>5, <2>1 DEF Attached, Loaded
<1> QED BY <1>4, <1>5

-----------------------------------------------------------------------------
(* The steps of the loader.                                                *)

LEMMA LoaderInitInv == LoaderInit => LoaderInv
<1> SUFFICES ASSUME LoaderInit PROVE LoaderInv
  OBVIOUS
<1> DEFINE node == Dir("plugins")
<1>1. /\ node \in NodeSet(PNames, PKinds, Nat) /\ node.kids = <<>> /\ node.names = {} /\ node.kind = "dir"
  BY NamesOK, DirOK
<1>2. pluginHeap = <<node>> /\ calls = <<>> /\ pluginPc = "scan"
  BY DEF LoaderInit
<1> HIDE DEF node
<1>3. /\ pluginHeap \in Seq(NodeSet(PNames, PKinds, Nat)) /\ Len(pluginHeap) = 1 /\ pluginHeap[1] = node
  BY <1>1, <1>2
<1>4. Linked(pluginHeap) /\ Unique(pluginHeap)
  BY <1>1, <1>3 DEF Linked, Unique, UniqueIn
<1>5. /\ HeapOK(pluginHeap, PNames, PKinds, Nat) /\ PluginsDir \in 1..Len(pluginHeap)
      /\ pluginHeap[PluginsDir].kids = <<>> /\ IsDir(pluginHeap, PluginsDir)
  BY <1>1, <1>3, <1>4 DEF HeapOK, PluginsDir, IsDir
<1>6. /\ \A p \in Seq(PNames) : p # <<>> => Resolve(pluginHeap, PluginsDir, p) = Null
      /\ PathUnique(pluginHeap, PluginsDir, PNames)
  BY <1>5, EmptyTree
<1>7. \A n \in 1..1 : \A x : Find(pluginHeap, n, x) = Null
  BY <1>1, <1>3 DEF Find, Positions
<1>8. Rooted(pluginHeap, PluginsDir)
  BY <1>3, <1>7 DEF Rooted
<1>9. Sound(pluginHeap)
  BY <1>5, <1>6, <1>8 DEF Sound
<1>10. FilesOwn(pluginHeap, calls)
  <2> SUFFICES ASSUME NEW q \in Seq(PNames), Here(pluginHeap, q).kind \notin {"none", "dir"} PROVE FALSE
    BY DEF FilesOwn
  <2>1. CASE q = <<>>
    <3>1. Resolve(pluginHeap, PluginsDir, q) = PluginsDir
      BY <2>1, ResolveEmpty
    <3> QED BY <1>5, <3>1 DEF Here, Entry, IsDir
  <2>2. CASE q # <<>>
    BY <1>6, <2>2 DEF Here, Entry
  <2> QED BY <2>1, <2>2
<1>11. CallsOK(calls) /\ Settled(pluginHeap, calls, ctx, pluginPc)
  BY <1>2 DEF CallsOK, Settled
<1> QED BY <1>2, <1>9, <1>10, <1>11 DEF LoaderInv, Working

(* A library whose stem is free gets a directory at its stem; any other    *)
(* gets one at no path.                                                    *)
LEMMA LoadLibInv == ASSUME LoaderInv, NEW l, LoadLib(l) PROVE LoaderInv'
<1> DEFINE sub == Dir(Stem[l])
           s == <<Stem[l]>>
<1>1. /\ Sound(pluginHeap) /\ CallsOK(calls) /\ FilesOwn(pluginHeap, calls)
      /\ Settled(pluginHeap, calls, ctx, "scan")
  BY DEF LoaderInv, LoadLib
<1>2. l \in Libs /\ Stem[l] \in PNames /\ s \in Seq(PNames)
  BY NamesOK, PluginsAssumption DEF LoadLib
<1>3. /\ sub \in NodeSet(PNames, PKinds, Nat) /\ sub.kids = <<>> /\ sub.names = {}
      /\ sub.name = Stem[l] /\ sub.kind = "dir"
  BY <1>2, DirOK
<1>4. PICK added : Made(added, pluginHeap, PluginsDir, sub)
  BY DEF Made
<1>5. pluginHeap' = IF added = pluginHeap THEN Append(pluginHeap, sub) ELSE added
  BY <1>4 DEF LoadLib, Made
<1>6. /\ ctx' = [lib |-> l, dir |-> Len(pluginHeap'), path |-> <<>>]
      /\ pluginPc' = "init" /\ calls' = calls
  BY DEF LoadLib
<1>7. /\ HeapOK(pluginHeap, PNames, PKinds, Nat) /\ PluginsDir \in 1..Len(pluginHeap)
      /\ IsDir(pluginHeap, PluginsDir) /\ PathUnique(pluginHeap, PluginsDir, PNames)
      /\ Rooted(pluginHeap, PluginsDir) /\ Len(pluginHeap) \in Nat
      /\ \A p \in Seq(PNames) : Resolve(pluginHeap, PluginsDir, p) \in 0..Len(pluginHeap)
  BY <1>1, SoundFacts
<1>8. /\ Sound(added) /\ Later(added, pluginHeap) /\ Kept(added, pluginHeap)
      /\ \/ Dropped(added, pluginHeap, PluginsDir, Stem[l]) /\ Here(pluginHeap, s).kind # "none"
         \/ /\ NewChild(added, pluginHeap, PluginsDir, sub) /\ Here(pluginHeap, s).kind = "none"
            /\ Put(added, pluginHeap, PluginsDir, PNames, s, sub)
  <2>1. <<>> \in Seq(PNames) /\ Resolve(pluginHeap, PluginsDir, <<>>) = PluginsDir
    BY ResolveEmpty
  <2>2. Under(s, <<>>, sub.name)
    BY <1>3 DEF Under
  <2> HIDE DEF s, sub
  <2> QED BY <1>1, <1>3, <1>4, <1>7, <2>1, <2>2, AddReached
<1> HIDE DEF sub, s
<1>9. /\ Sound(pluginHeap') /\ Kept(pluginHeap', pluginHeap) /\ NoNewFile(pluginHeap', pluginHeap)
      /\ Len(pluginHeap') = Len(pluginHeap) + 1 /\ IsDir(pluginHeap', Len(pluginHeap'))
      /\ Here(pluginHeap', s).kind # "none"
      /\ \/ Resolve(pluginHeap', PluginsDir, s) = Len(pluginHeap')
         \/ Apart(pluginHeap', PluginsDir, Len(pluginHeap'), PNames)
  <2>1. CASE Dropped(added, pluginHeap, PluginsDir, Stem[l]) /\ Here(pluginHeap, s).kind # "none"
    <3>1. Loose(pluginHeap', pluginHeap, sub)
      BY <1>5, <2>1 DEF Dropped, Loose
    <3>2. /\ Grew(pluginHeap', pluginHeap, PluginsDir, PNames, PNames, PKinds, Nat)
          /\ Alike(pluginHeap', pluginHeap, PluginsDir, PNames) /\ Rooted(pluginHeap', PluginsDir)
          /\ Len(pluginHeap') = Len(pluginHeap) + 1 /\ pluginHeap'[Len(pluginHeap) + 1] = sub
      BY <1>3, <1>7, <3>1, LooseNode
    <3>3. Kept(pluginHeap', pluginHeap) /\ NoNewFile(pluginHeap', pluginHeap)
      BY <3>2, AlikeKeeps
    <3>4. Sound(pluginHeap') /\ IsDir(pluginHeap', Len(pluginHeap'))
      BY <1>3, <1>7, <3>2 DEF Sound, Grew, IsDir
    <3>5. Here(pluginHeap', s).kind # "none"
      BY <1>2, <2>1, <3>3, KeptEntry DEF s
    <3>6. Apart(pluginHeap', PluginsDir, Len(pluginHeap'), PNames)
      BY <1>7, <3>2 DEF Apart, Alike, AlikeAt
    <3> QED BY <3>2, <3>3, <3>4, <3>5, <3>6
  <2>2. CASE /\ NewChild(added, pluginHeap, PluginsDir, sub) /\ Here(pluginHeap, s).kind = "none"
             /\ Put(added, pluginHeap, PluginsDir, PNames, s, sub)
    <3>1. pluginHeap' = added /\ Len(added) = Len(pluginHeap) + 1 /\ IsDir(added, Len(added))
      BY <1>3, <1>5, <1>7, <2>2 DEF NewChild
    <3>2. NoNewFile(pluginHeap', pluginHeap)
      BY <1>3, <2>2, <3>1, PutDir
    <3>3. Resolve(added, PluginsDir, s) = Len(pluginHeap) + 1 /\ Here(added, s).kind = "dir"
      BY <1>3, <2>2 DEF Put, Here
    <3> QED BY <1>8, <3>1, <3>2, <3>3
  <2> QED BY <1>8, <2>1, <2>2
<1>10. Loaded(pluginHeap', ctx')
  <2>1. Len(pluginHeap') \in 1..Len(pluginHeap')
    BY <1>7, <1>9
  <2>2. ctx' \in CtxSet /\ ctx'.lib = l /\ ctx'.dir = Len(pluginHeap')
    BY <1>2, <1>6, <2>1 DEF CtxSet
  <2> QED BY <1>2, <1>9, <2>1, <2>2 DEF Loaded, Attached, s
<1>11. FilesOwn(pluginHeap', calls')
  BY <1>1, <1>6, <1>9, KeptFiles
<1>12. Settled(pluginHeap', calls', ctx', "init")
  <2>1. Settled(pluginHeap', calls, ctx, "scan")
    BY <1>1, <1>9, KeptSettled
  <2>2. ASSUME NEW k \in DOMAIN calls, Lost(pluginHeap', calls[k], ctx, "scan"),
               Here(pluginHeap, <<Stem[calls[k].lib]>>).kind # "none"
        PROVE  Lost(pluginHeap', calls[k], ctx', "init")
    <3>1. <<Stem[calls[k].lib]>> \in Seq(PNames)
      BY <1>1, CallOK, NamesOK
    <3>2. Resolve(pluginHeap', PluginsDir, <<Stem[calls[k].lib]>>) \in 0..Len(pluginHeap)
      BY <1>7, <1>9, <2>2, <3>1, KeptEntry
    <3> QED BY <1>6, <1>7, <1>9, <2>2, <3>2 DEF Lost
  <2>3. ASSUME NEW k \in DOMAIN calls
        PROVE  \/ Here(pluginHeap', Place(calls[k])).kind # "none"
               \/ Blocked(pluginHeap', Place(calls[k]))
               \/ Lost(pluginHeap', calls[k], ctx', "init")
    <3>1. Place(calls[k]) \in Seq(PNames)
      BY <1>1, CallOK
    <3>2. CASE Here(pluginHeap, Place(calls[k])).kind # "none"
      BY <1>9, <3>1, <3>2, KeptEntry
    <3>3. CASE Blocked(pluginHeap, Place(calls[k]))
      BY <1>9, <3>1, <3>3, KeptBlocked
    <3>4. CASE Lost(pluginHeap, calls[k], ctx, "scan")
      <4>1. Here(pluginHeap, <<Stem[calls[k].lib]>>).kind # "none" /\ <<Stem[calls[k].lib]>> \in Seq(PNames)
        BY <1>1, <3>4, CallOK, NamesOK DEF Lost
      <4>2. Lost(pluginHeap', calls[k], ctx, "scan")
        BY <1>9, <4>1, KeptEntry DEF Lost, Working
      <4> QED BY <2>2, <4>1, <4>2
    <3> QED BY <1>1, <3>2, <3>3, <3>4 DEF Settled
  <2> QED BY <1>6, <2>3 DEF Settled
<1> QED BY <1>1, <1>6, <1>9, <1>10, <1>11, <1>12 DEF LoaderInv

\* What holds of the heap and the registrations after a step that keeps
\* what stood and makes no file.
LEMMA StepKeeps ==
    ASSUME LoaderInv, Working(pluginPc), NEW g, Sound(g), Later(g, pluginHeap),
           Kept(g, pluginHeap), NoNewFile(g, pluginHeap),
           Attached(pluginHeap, ctx) \/ Alike(g, pluginHeap, PluginsDir, PNames)
    PROVE  /\ Loaded(g, ctx) /\ (Attached(g, ctx) <=> Attached(pluginHeap, ctx))
           /\ FilesOwn(g, calls) /\ Settled(g, calls, ctx, pluginPc)
<1>1. /\ Sound(pluginHeap) /\ CallsOK(calls) /\ Loaded(pluginHeap, ctx)
      /\ FilesOwn(pluginHeap, calls) /\ Settled(pluginHeap, calls, ctx, pluginPc)
  BY DEF LoaderInv
<1> QED BY <1>1, KeptLoaded, KeptFiles, KeptSettled

\* Settled depends on the library at work only.
LEMMA SettledThen ==
    ASSUME NEW h, NEW cs, NEW c, NEW p, Settled(h, cs, c, p),
           NEW d, NEW q, Working(q) => Working(p) /\ d.dir = c.dir
    PROVE  Settled(h, cs, d, q)
  BY DEF Settled, Lost

\* One more registration.
Returned(ds, cs, c) == ds = Append(cs, [lib |-> c.lib, path |-> c.path])

LEMMA CallReturned ==
    ASSUME NEW cs, CallsOK(cs), NEW c \in CtxSet, c.path \in Registered, NEW ds, Returned(ds, cs, c)
    PROVE  /\ CallsOK(ds) /\ Len(cs) \in Nat
           /\ DOMAIN ds = 1..(Len(cs) + 1) /\ DOMAIN cs = 1..Len(cs)
           /\ Place(ds[Len(cs) + 1]) = Place(c) /\ ds[Len(cs) + 1].lib = c.lib
           /\ \A k \in 1..Len(cs) : ds[k] = cs[k]
<1> DEFINE r == [lib |-> c.lib, path |-> c.path]
<1>1. r \in CallSet /\ r.lib = c.lib /\ r.path = c.path
  BY DEF CallSet, CtxSet
<1>2. Place(r) = Place(c)
  BY <1>1 DEF Place
<1>3. ds = Append(cs, r) /\ cs \in Seq(CallSet)
  BY DEF CallsOK, Returned
<1> HIDE DEF r
<1>4. /\ Len(cs) \in Nat /\ DOMAIN cs = 1..Len(cs)
      /\ ds \in Seq(CallSet) /\ DOMAIN ds = 1..(Len(cs) + 1)
      /\ ds[Len(cs) + 1] = r /\ \A k \in 1..Len(cs) : ds[k] = cs[k]
  BY <1>1, <1>3
<1> QED BY <1>1, <1>2, <1>4 DEF CallsOK

LEMMA CallAdded ==
    ASSUME NEW h, NEW cs, CallsOK(cs), NEW c \in CtxSet, c.path \in Registered, NEW p,
           Settled(h, cs, c, p),
           \/ Here(h, Place(c)).kind # "none"
           \/ Blocked(h, Place(c))
           \/ Lost(h, c, c, p),
           NEW ds, Returned(ds, cs, c)
    PROVE  Settled(h, ds, c, p) /\ (FilesOwn(h, cs) => FilesOwn(h, ds))
<1>1. /\ Len(cs) \in Nat /\ DOMAIN ds = 1..(Len(cs) + 1) /\ DOMAIN cs = 1..Len(cs)
      /\ Place(ds[Len(cs) + 1]) = Place(c) /\ ds[Len(cs) + 1].lib = c.lib
      /\ \A k \in 1..Len(cs) : ds[k] = cs[k]
  BY CallReturned
<1>2. Settled(h, ds, c, p)
  <2> SUFFICES ASSUME NEW k \in DOMAIN ds
               PROVE  \/ Here(h, Place(ds[k])).kind # "none"
                      \/ Blocked(h, Place(ds[k]))
                      \/ Lost(h, ds[k], c, p)
    BY DEF Settled
  <2>1. CASE k \in 1..Len(cs)
    BY <1>1, <2>1 DEF Settled
  <2>2. CASE k = Len(cs) + 1
    BY <1>1, <2>2 DEF Lost
  <2> QED BY <1>1, <2>1, <2>2
<1>3. ASSUME FilesOwn(h, cs) PROVE FilesOwn(h, ds)
  <2> SUFFICES ASSUME NEW q \in Seq(PNames) \ {<<"README.txt">>}, Here(h, q).kind \notin {"none", "dir"}
               PROVE  /\ Here(h, q).ci \in DOMAIN ds
                      /\ Place(ds[Here(h, q).ci]) = q
                      /\ \A k \in 1..(Here(h, q).ci - 1) : Place(ds[k]) # q
    BY DEF FilesOwn
  <2> DEFINE i == Here(h, q).ci
  <2>1. i \in 1..Len(cs) /\ Place(cs[i]) = q /\ \A k \in 1..(i - 1) : Place(cs[k]) # q
    BY <1>1, <1>3 DEF FilesOwn
  <2> HIDE DEF i
  <2>2. \A k \in 1..(i - 1) : k \in 1..Len(cs)
    BY <1>1, <2>1
  <2>3. i \in DOMAIN ds /\ Place(ds[i]) = q /\ \A k \in 1..(i - 1) : Place(ds[k]) # q
    BY <1>1, <2>1, <2>2
  <2> QED BY <2>3 DEF i
<1> QED BY <1>2, <1>3

(* A registration starts the walk at the library's directory.              *)
LEMMA CallAddFileInv == ASSUME LoaderInv, NEW p \in Registered, CallAddFile(p) PROVE LoaderInv'
<1>1. /\ Loaded(pluginHeap, ctx) /\ Working(pluginPc) /\ pluginPc' = "descend"
      /\ pluginHeap' = pluginHeap /\ calls' = calls
      /\ pluginCur' = ctx.dir /\ pluginRest' = Front(p)
      /\ ctx' = [ctx EXCEPT !.path = p]
  BY DEF LoaderInv, CallAddFile, Working
<1>2. /\ ctx' \in CtxSet /\ ctx'.lib = ctx.lib /\ ctx'.dir = ctx.dir /\ ctx'.path = p
      /\ ctx.lib \in Libs /\ ctx.dir \in Nat
  BY <1>1 DEF Loaded, CtxSet
<1>3. /\ ctx.dir \in 1..Len(pluginHeap) /\ IsDir(pluginHeap, ctx.dir)
      /\ Attached(pluginHeap, ctx) \/ Apart(pluginHeap, PluginsDir, ctx.dir, PNames)
      /\ Here(pluginHeap, <<Stem[ctx.lib]>>).kind # "none"
  BY <1>1 DEF Loaded
<1>4. /\ Follows(pluginRest', Place(ctx'), PNames)
      /\ Walked(pluginRest', Place(ctx')) = <<Stem[ctx.lib]>>
  BY <1>1, <1>2, PlaceOK
<1>5. Attached(pluginHeap, ctx') <=> Attached(pluginHeap, ctx)
  BY <1>2 DEF Attached
<1>6. Loaded(pluginHeap', ctx')
  BY <1>1, <1>2, <1>3, <1>5 DEF Loaded
<1>7. ctx.dir # Freed
  BY <1>2 DEF Freed
<1>8. Cursor(pluginHeap', ctx', pluginCur', pluginRest')
  BY <1>1, <1>2, <1>3, <1>4, <1>5, <1>7 DEF Cursor, Attached
<1>9. Settled(pluginHeap', calls', ctx', pluginPc')
  BY <1>1, <1>2, SettledThen DEF LoaderInv
<1> QED BY <1>1, <1>6, <1>8, <1>9 DEF LoaderInv

(* One component of the walk: into a directory that is there, into a new   *)
(* one, or, where a file has the name, to a node that is gone.             *)
LEMMA DescendInv == ASSUME LoaderInv, Descend PROVE LoaderInv'
<1>1. /\ Loaded(pluginHeap, ctx) /\ Cursor(pluginHeap, ctx, pluginCur, pluginRest)
      /\ Sound(pluginHeap) /\ CallsOK(calls) /\ Working(pluginPc)
      /\ pluginRest # <<>> /\ pluginCur # Freed /\ pluginRest' = Tail(pluginRest)
      /\ pluginPc = "descend" /\ pluginPc' = pluginPc /\ ctx' = ctx /\ calls' = calls
  BY DEF LoaderInv, Descend, Working
<1>2. /\ ctx.lib \in Libs /\ ctx.path \in Registered
      /\ Follows(pluginRest, Place(ctx), PNames)
      /\ pluginCur \in 1..Len(pluginHeap) /\ IsDir(pluginHeap, pluginCur)
      /\ IF Attached(pluginHeap, ctx)
         THEN Resolve(pluginHeap, PluginsDir, Walked(pluginRest, Place(ctx))) = pluginCur
         ELSE Apart(pluginHeap, PluginsDir, pluginCur, PNames)
  BY <1>1 DEF Loaded, Cursor, CtxSet
<1>3. PICK P : P = Place(ctx)
  OBVIOUS
<1>4. PICK x : x = Head(pluginRest)
  OBVIOUS
<1>5. PICK r : r = Walked(pluginRest, P)
  OBVIOUS
<1>6. PICK t : t = Append(r, x)
  OBVIOUS
<1>7. /\ P \in Seq(PNames) /\ r \in Seq(PNames) /\ x \in PNames /\ t \in Seq(PNames)
      /\ Follows(pluginRest', P, PNames) /\ Walked(pluginRest', P) = t
      /\ t \in Prefixes(P) \ {<<>>, P}
  <2>1. P \in Seq(PNames)
    BY <1>2, <1>3, PlaceOK
  <2>2. Follows(pluginRest, P, PNames)
    BY <1>2, <1>3
  <2>3. r \in Seq(PNames) /\ x \in PNames /\ Follows(pluginRest', P, PNames)
    BY <1>1, <1>4, <1>5, <2>1, <2>2, FollowsStep
  <2>4. /\ Walked(Tail(pluginRest), P) = Append(Walked(pluginRest, P), Head(pluginRest))
        /\ Walked(Tail(pluginRest), P) \in Prefixes(P) \ {<<>>, P}
    BY <1>1, <2>1, <2>2, FollowsStep
  <2>5. Walked(pluginRest', P) = t /\ t \in Prefixes(P) \ {<<>>, P}
    BY <1>1, <1>4, <1>5, <1>6, <2>4
  <2> QED BY <1>6, <2>1, <2>3, <2>5
<1>8. PICK existing : existing = Find(pluginHeap, pluginCur, x)
  OBVIOUS
<1>9. PICK added : Made(added, pluginHeap, pluginCur, Dir(x))
  BY DEF Made
<1>10. IF existing # Null /\ IsDir(pluginHeap, existing)
       THEN pluginCur' = existing /\ pluginHeap' = pluginHeap
       ELSE /\ pluginHeap' = added
            /\ pluginCur' = IF added = pluginHeap THEN Freed ELSE Len(added)
  BY <1>4, <1>8, <1>9 DEF Descend, Made
<1>11. /\ HeapOK(pluginHeap, PNames, PKinds, Nat) /\ PluginsDir \in 1..Len(pluginHeap)
       /\ Rooted(pluginHeap, PluginsDir) /\ Len(pluginHeap) \in Nat
       /\ \A p \in Seq(PNames) : Resolve(pluginHeap, PluginsDir, p) \in 0..Len(pluginHeap)
  BY <1>1, SoundFacts
<1>12. existing \in 0..Len(pluginHeap)
  BY <1>2, <1>8, <1>11, FindFacts
<1>13. Attached(pluginHeap, ctx) => Resolve(pluginHeap, PluginsDir, t) = existing
  <2> SUFFICES ASSUME Attached(pluginHeap, ctx) PROVE Resolve(pluginHeap, PluginsDir, t) = existing
    OBVIOUS
  <2>1. Resolve(pluginHeap, PluginsDir, r) = pluginCur
    BY <1>2, <1>3, <1>5
  <2>2. Resolve(pluginHeap, PluginsDir, Append(r, x)) = Child(pluginHeap, Resolve(pluginHeap, PluginsDir, r), x)
    BY <1>7, <1>11, ResolveAppend
  <2> QED BY <1>2, <1>6, <1>8, <1>11, <2>1, <2>2 DEF Child, Null
<1>14. CASE existing # Null /\ IsDir(pluginHeap, existing)
  <2>1. pluginCur' = existing /\ pluginHeap' = pluginHeap /\ existing \in 1..Len(pluginHeap)
    BY <1>10, <1>11, <1>12, <1>14 DEF Null
  <2>2. ~Attached(pluginHeap, ctx) => Apart(pluginHeap, PluginsDir, existing, PNames)
    BY <1>2, <1>8, <1>11, <1>14, ApartBelow
  <2>3. existing # Freed
    BY <1>11, <2>1 DEF Freed
  <2>4. Cursor(pluginHeap, ctx, existing, pluginRest')
    BY <1>2, <1>3, <1>7, <1>13, <1>14, <2>1, <2>2, <2>3 DEF Cursor
  <2> QED BY <1>1, <2>1, <2>4 DEF LoaderInv
<1>15. CASE ~(existing # Null /\ IsDir(pluginHeap, existing))
  <2>1. /\ pluginHeap' = added
        /\ pluginCur' = IF added = pluginHeap THEN Freed ELSE Len(added)
    BY <1>10, <1>15
  <2>2. PICK node : node = Dir(x)
    OBVIOUS
  <2>3. /\ node \in NodeSet(PNames, PKinds, Nat) /\ node.kids = <<>> /\ node.names = {}
        /\ node.name = x /\ node.kind = "dir" /\ Made(added, pluginHeap, pluginCur, node)
    BY <1>7, <1>9, <2>2, DirOK
  <2>4. CASE Attached(pluginHeap, ctx)
    <3>1. Resolve(pluginHeap, PluginsDir, r) = pluginCur
      BY <1>2, <1>3, <1>5, <2>4
    <3>2. Under(t, r, node.name)
      BY <1>6, <2>3 DEF Under
    <3>0. r \in Seq(PNames)
      BY <1>7
    <3>3. /\ Sound(added) /\ Later(added, pluginHeap) /\ Kept(added, pluginHeap)
          /\ \/ Dropped(added, pluginHeap, pluginCur, node.name) /\ Here(pluginHeap, t).kind # "none"
             \/ /\ NewChild(added, pluginHeap, pluginCur, node) /\ Here(pluginHeap, t).kind = "none"
                /\ Put(added, pluginHeap, PluginsDir, PNames, t, node)
      BY <1>1, <1>2, <2>3, <3>0, <3>1, <3>2, AddReached
    <3>4. CASE Dropped(added, pluginHeap, pluginCur, node.name) /\ Here(pluginHeap, t).kind # "none"
      <4>1. added = pluginHeap /\ existing # Null
        BY <1>8, <2>3, <3>4 DEF Dropped
      <4>2. Here(pluginHeap, t).kind # "dir"
        BY <1>13, <1>15, <2>4, <4>1 DEF Here, Entry, IsDir
      <4>3. Blocked(pluginHeap, P)
        BY <1>7, <3>4, <4>2 DEF Blocked
      <4>4. Cursor(pluginHeap, ctx, Freed, pluginRest')
        BY <1>2, <1>3, <1>7, <4>3 DEF Cursor
      <4> QED BY <1>1, <2>1, <4>1, <4>4 DEF LoaderInv
    <3>5. CASE /\ NewChild(added, pluginHeap, pluginCur, node)
               /\ Put(added, pluginHeap, PluginsDir, PNames, t, node)
      <4>1. Len(added) = Len(pluginHeap) + 1 /\ IsDir(added, Len(added)) /\ added # pluginHeap
        BY <1>11, <2>3, <3>5 DEF NewChild
      <4>2. Resolve(added, PluginsDir, t) = Len(added)
        BY <3>5, <4>1 DEF Put
      <4>3. NoNewFile(added, pluginHeap)
        BY <2>3, <3>5, PutDir
      <4>4. /\ Loaded(added, ctx) /\ Attached(added, ctx)
            /\ FilesOwn(added, calls) /\ Settled(added, calls, ctx, pluginPc)
        BY <1>1, <2>4, <3>3, <4>3, StepKeeps
      <4>5. Len(added) \in 1..Len(added) /\ Len(added) # Freed
        BY <1>11, <4>1 DEF Freed
      <4>6. Cursor(added, ctx, Len(added), pluginRest')
        BY <1>2, <1>3, <1>7, <4>1, <4>2, <4>4, <4>5 DEF Cursor
      <4> QED BY <1>1, <2>1, <3>3, <4>1, <4>4, <4>6 DEF LoaderInv
    <3> QED BY <3>3, <3>4, <3>5
  <2>5. CASE ~Attached(pluginHeap, ctx)
    <3>1. /\ Sound(added) /\ Later(added, pluginHeap) /\ Kept(added, pluginHeap)
          /\ Alike(added, pluginHeap, PluginsDir, PNames)
          /\ Dropped(added, pluginHeap, pluginCur, node.name) \/ NewChild(added, pluginHeap, pluginCur, node)
      BY <1>1, <1>2, <2>3, <2>5, AddApart
    <3>2. NoNewFile(added, pluginHeap)
      BY <3>1, AlikeKeeps
    <3>3. /\ Loaded(added, ctx) /\ ~Attached(added, ctx)
          /\ FilesOwn(added, calls) /\ Settled(added, calls, ctx, pluginPc)
      BY <1>1, <2>5, <3>1, <3>2, StepKeeps
    <3>4. Cursor(added, ctx, pluginCur', pluginRest')
      <4>1. CASE added = pluginHeap
        BY <1>2, <1>3, <1>7, <2>1, <3>3, <4>1 DEF Cursor
      <4>2. CASE added # pluginHeap
        <5>1. /\ Len(added) = Len(pluginHeap) + 1 /\ IsDir(added, Len(added))
              /\ pluginCur' = Len(added)
          BY <2>1, <2>3, <3>1, <4>2 DEF NewChild, Dropped
        <5>2. Apart(added, PluginsDir, Len(added), PNames)
          BY <1>11, <3>1, <5>1 DEF Apart, Alike, AlikeAt
        <5>3. Len(added) \in 1..Len(added) /\ Len(added) # Freed
          BY <1>11, <5>1 DEF Freed
        <5> QED BY <1>2, <1>3, <1>7, <3>3, <5>1, <5>2, <5>3 DEF Cursor
      <4> QED BY <4>1, <4>2
    <3> QED BY <1>1, <2>1, <3>1, <3>3, <3>4 DEF LoaderInv
  <2> QED BY <2>4, <2>5
<1> QED BY <1>14, <1>15

(* The file: at its place, or not, because something stands there, or at   *)
(* no path.  No earlier registration can have been for a place that is     *)
(* free: the directories before it are there, and its library's directory  *)
(* is the one that is attached.                                            *)
LEMMA ReturnFromAddInv == ASSUME LoaderInv, ReturnFromAdd PROVE LoaderInv'
<1>1. /\ Loaded(pluginHeap, ctx) /\ Cursor(pluginHeap, ctx, pluginCur, <<>>)
      /\ Sound(pluginHeap) /\ CallsOK(calls) /\ Working(pluginPc)
      /\ FilesOwn(pluginHeap, calls) /\ Settled(pluginHeap, calls, ctx, pluginPc)
      /\ pluginCur # Freed /\ pluginPc' = "init" /\ ctx' = ctx
      /\ Returned(calls', calls, ctx)
  BY DEF LoaderInv, ReturnFromAdd, Working, Returned
<1>2. /\ ctx \in CtxSet /\ ctx.lib \in Libs /\ ctx.path \in Registered
      /\ pluginCur \in 1..Len(pluginHeap) /\ IsDir(pluginHeap, pluginCur)
      /\ IF Attached(pluginHeap, ctx)
         THEN Resolve(pluginHeap, PluginsDir, Walked(<<>>, Place(ctx))) = pluginCur
         ELSE Apart(pluginHeap, PluginsDir, pluginCur, PNames)
      /\ Here(pluginHeap, <<Stem[ctx.lib]>>).kind # "none" /\ Place(ctx) \in Seq(PNames)
  BY <1>1, PlaceOK DEF Loaded, Cursor, CtxSet
<1>3. PICK P : P = Place(ctx)
  OBVIOUS
<1>4. PICK r : r = Walked(<<>>, P)
  OBVIOUS
<1>5. P \in Seq(PNames) /\ P # <<>> /\ P[1] = Stem[ctx.lib] /\ Last(P) = Last(ctx.path)
  BY <1>2, <1>3, PlaceOK
<1>6. r \in Seq(PNames) /\ Last(P) \in PNames /\ P = Append(r, Last(P))
  BY <1>4, <1>5, FollowsEnd
<1>7. PICK n : n = Len(calls) + 1
  OBVIOUS
<1>8. n \in Nat /\ Len(calls) \in Nat /\ DOMAIN calls = 1..Len(calls)
  BY <1>1, <1>7 DEF CallsOK
<1>9. PICK node : node = File(Last(P), "reg", n)
  OBVIOUS
<1>10. /\ node \in NodeSet(PNames, PKinds, Nat) /\ node.kids = <<>> /\ node.names = {}
       /\ node.name = Last(P) /\ node.kind = "reg" /\ node.ci = n
  BY <1>6, <1>8, <1>9, RegOK
<1>11. PICK g : g = pluginHeap'
  OBVIOUS
<1>12. Made(g, pluginHeap, pluginCur, node)
  BY <1>5, <1>7, <1>9, <1>11 DEF Made, ReturnFromAdd
<1>13. /\ Sound(g) /\ Loaded(g, ctx)
       /\ Settled(g, calls, ctx, "init")
       /\ \/ Here(g, P).kind # "none"
          \/ Lost(g, ctx, ctx, "init")
       /\ FilesOwn(g, calls')
  <2>0. ASSUME NEW k, Settled(k, calls, ctx, pluginPc) PROVE Settled(k, calls, ctx, "init")
    BY <1>1, <2>0, SettledThen
  <2>1. CASE Attached(pluginHeap, ctx)
    <3>1. Resolve(pluginHeap, PluginsDir, r) = pluginCur
      BY <1>2, <1>3, <1>4, <2>1
    <3>2. Under(P, r, node.name)
      BY <1>6, <1>10 DEF Under
    <3>3. /\ Sound(g) /\ Later(g, pluginHeap) /\ Kept(g, pluginHeap)
          /\ \/ Dropped(g, pluginHeap, pluginCur, node.name) /\ Here(pluginHeap, P).kind # "none"
             \/ /\ NewChild(g, pluginHeap, pluginCur, node) /\ Here(pluginHeap, P).kind = "none"
                /\ Put(g, pluginHeap, PluginsDir, PNames, P, node)
      <4>1. Sound(pluginHeap) /\ pluginCur \in 1..Len(pluginHeap) /\ IsDir(pluginHeap, pluginCur)
        BY <1>1, <1>2
      <4>2. r \in Seq(PNames)
        BY <1>6
      <4>3. node \in NodeSet(PNames, PKinds, Nat) /\ node.kids = <<>> /\ node.names = {}
        BY <1>10
      <4> QED BY <1>12, <3>1, <3>2, <4>1, <4>2, <4>3, AddReached
    <3>4. Loaded(g, ctx)
      BY <1>1, <2>1, <3>3, KeptLoaded
    <3>5. Settled(g, calls, ctx, "init")
      BY <1>1, <2>0, <3>3, KeptSettled
    <3>6. CASE Dropped(g, pluginHeap, pluginCur, node.name) /\ Here(pluginHeap, P).kind # "none"
      <4>1. g = pluginHeap
        BY <3>6 DEF Dropped
      <4>2. FilesOwn(g, calls')
        BY <1>1, <1>2, <1>3, <3>5, <3>6, <4>1, CallAdded
      <4> QED BY <3>3, <3>4, <3>5, <3>6, <4>1, <4>2
    <3>7. CASE /\ NewChild(g, pluginHeap, pluginCur, node) /\ Here(pluginHeap, P).kind = "none"
               /\ Put(g, pluginHeap, PluginsDir, PNames, P, node)
      <4>1. Here(g, P).kind = "reg" /\ Here(g, P).ci = n
        BY <1>10, <3>7 DEF Put, Here
      <4>2. /\ DOMAIN calls' = 1..n /\ Place(calls'[n]) = P
            /\ \A k \in 1..Len(calls) : calls'[k] = calls[k]
        <5>1. /\ DOMAIN calls' = 1..(Len(calls) + 1)
              /\ Place(calls'[Len(calls) + 1]) = Place(ctx)
              /\ \A k \in 1..Len(calls) : calls'[k] = calls[k]
          BY <1>1, <1>2, CallReturned
        <5> QED BY <1>3, <1>7, <5>1
      <4>3. ~Blocked(pluginHeap, P)
        <5>1. \A p \in Prefixes(P) \ {<<>>, P} : Here(pluginHeap, p).kind = "dir"
          BY <1>1, <1>2, <1>4, <1>5, <3>1, ParentDirs, SoundFacts DEF Here
        <5> QED BY <5>1 DEF Blocked
      <4>4. ASSUME NEW k \in 1..Len(calls) PROVE Place(calls[k]) # P
        <5> SUFFICES ASSUME Place(calls[k]) = P PROVE FALSE
          OBVIOUS
        <5>1. Stem[calls[k].lib] = Stem[ctx.lib]
          BY <1>1, <1>5, <1>8, CallOK
        <5>2. Lost(pluginHeap, calls[k], ctx, pluginPc)
          BY <1>1, <1>8, <3>7, <4>3 DEF Settled
        <5> QED BY <1>1, <2>1, <5>1, <5>2 DEF Lost, Attached
      <4>5. FilesOwn(g, calls')
        <5> SUFFICES ASSUME NEW q \in Seq(PNames) \ {<<"README.txt">>}, Here(g, q).kind \notin {"none", "dir"}
                     PROVE  /\ Here(g, q).ci \in DOMAIN calls'
                            /\ Place(calls'[Here(g, q).ci]) = q
                            /\ \A k \in 1..(Here(g, q).ci - 1) : Place(calls'[k]) # q
          BY DEF FilesOwn
        <5>1. CASE q = P
          <6>1. \A k \in 1..(n - 1) : k \in 1..Len(calls)
            BY <1>7, <1>8
          <6>2. n \in 1..n
            BY <1>7, <1>8
          <6> QED BY <4>1, <4>2, <4>4, <5>1, <6>1, <6>2
        <5>2. CASE q # P
          <6>1. Here(g, q) = Here(pluginHeap, q)
            BY <3>7, <5>2 DEF Put, AlikeAt, Here
          <6>2. PICK i : i = Here(g, q).ci
            OBVIOUS
          <6>3. i \in 1..Len(calls) /\ Place(calls[i]) = q /\ \A k \in 1..(i - 1) : Place(calls[k]) # q
            BY <1>1, <1>8, <6>1, <6>2 DEF FilesOwn
          <6>4. i \in 1..n /\ \A k \in 1..(i - 1) : k \in 1..Len(calls)
            BY <1>7, <1>8, <6>3
          <6> QED BY <4>2, <6>2, <6>3, <6>4
        <5> QED BY <5>1, <5>2
      <4> QED BY <3>3, <3>4, <3>5, <4>1, <4>5
    <3> QED BY <3>3, <3>6, <3>7
  <2>2. CASE ~Attached(pluginHeap, ctx)
    <3>1. /\ Sound(g) /\ Later(g, pluginHeap) /\ Kept(g, pluginHeap)
          /\ Alike(g, pluginHeap, PluginsDir, PNames) /\ NoNewFile(g, pluginHeap)
      BY <1>1, <1>2, <1>10, <1>12, <2>2, AddApart, AlikeKeeps
    <3>2. /\ Loaded(g, ctx) /\ ~Attached(g, ctx)
          /\ FilesOwn(g, calls) /\ Settled(g, calls, ctx, "init")
      BY <1>1, <2>0, <2>2, <3>1, StepKeeps
    <3>3. Lost(g, ctx, ctx, "init")
      BY <3>2 DEF Lost, Loaded, Attached
    <3>4. FilesOwn(g, calls')
      BY <1>1, <1>2, <3>2, <3>3, CallAdded
    <3> QED BY <3>1, <3>2, <3>3, <3>4
  <2> QED BY <2>1, <2>2
<1>14. CallsOK(calls') /\ Settled(g, calls', ctx, "init")
  BY <1>1, <1>2, <1>3, <1>13, CallAdded, CallReturned
<1> QED BY <1>1, <1>11, <1>13, <1>14 DEF LoaderInv

(* After a use of freed memory the tree is as it was, and a file is in the *)
(* way of the registration, or its library's directory is at no path.      *)
LEMMA UseFreedInv == ASSUME LoaderInv, UseFreed PROVE LoaderInv'
<1>1. /\ Loaded(pluginHeap, ctx) /\ Cursor(pluginHeap, ctx, Freed, pluginRest)
      /\ Sound(pluginHeap) /\ CallsOK(calls) /\ Working(pluginPc)
      /\ FilesOwn(pluginHeap, calls) /\ Settled(pluginHeap, calls, ctx, pluginPc)
      /\ pluginHeap' = pluginHeap /\ ctx' = ctx
  BY DEF LoaderInv, UseFreed, Working
<1>2. CASE pluginPc' = "crashed" /\ calls' = calls
  <2>1. ~Working("crashed")
    BY DEF Working
  <2>2. Settled(pluginHeap, calls, ctx, "crashed")
    BY <1>1, <2>1, SettledThen
  <2> QED BY <1>1, <1>2, <2>1, <2>2 DEF LoaderInv
<1>3. CASE pluginPc' = "init" /\ Returned(calls', calls, ctx)
  <2>1. ctx \in CtxSet /\ ctx.path \in Registered
    BY <1>1 DEF Loaded, Cursor
  <2>2. Blocked(pluginHeap, Place(ctx)) \/ Lost(pluginHeap, ctx, ctx, "init")
    BY <1>1 DEF Loaded, Cursor, Lost, Attached
  <2>3. Settled(pluginHeap, calls, ctx, "init")
    BY <1>1, SettledThen
  <2>4. CallsOK(calls') /\ Settled(pluginHeap, calls', ctx, "init") /\ FilesOwn(pluginHeap, calls')
    BY <1>1, <1>3, <2>1, <2>2, <2>3, CallAdded, CallReturned
  <2> QED BY <1>1, <1>3, <2>4 DEF LoaderInv
<1> QED BY <1>2, <1>3 DEF UseFreed, Returned

LEMMA FinishScanInv == ASSUME LoaderInv, FinishScan PROVE LoaderInv'
<1> DEFINE node == File("README.txt", "reg", Null)
<1>1. /\ Sound(pluginHeap) /\ CallsOK(calls) /\ FilesOwn(pluginHeap, calls)
      /\ Settled(pluginHeap, calls, ctx, pluginPc)
      /\ Made(pluginHeap', pluginHeap, PluginsDir, node)
      /\ calls' = calls /\ ctx' = ctx /\ pluginPc' = "done"
  BY DEF LoaderInv, FinishScan, Made
<1>2. /\ node \in NodeSet(PNames, PKinds, Nat) /\ node.kids = <<>> /\ node.names = {}
      /\ node.name = "README.txt"
  <2>1. Null \in Nat
    BY DEF Null
  <2> QED BY <2>1, NamesOK, RegOK
<1> HIDE DEF node
<1>3. PICK t : t = Append(<<>>, "README.txt")
  OBVIOUS
<1>4. /\ Sound(pluginHeap') /\ Kept(pluginHeap', pluginHeap)
      /\ \/ Dropped(pluginHeap', pluginHeap, PluginsDir, node.name)
         \/ Put(pluginHeap', pluginHeap, PluginsDir, PNames, t, node)
  <2>1. /\ PluginsDir \in 1..Len(pluginHeap) /\ IsDir(pluginHeap, PluginsDir)
        /\ <<>> \in Seq(PNames) /\ Resolve(pluginHeap, PluginsDir, <<>>) = PluginsDir
    BY <1>1, SoundFacts, ResolveEmpty
  <2>2. Under(t, <<>>, node.name)
    BY <1>2, <1>3 DEF Under
  <2> QED BY <1>1, <1>2, <2>1, <2>2, AddReached
<1>5. NoNewFile(pluginHeap', pluginHeap)
  <2> SUFFICES ASSUME NEW q \in Seq(PNames) \ {<<"README.txt">>},
                      Here(pluginHeap', q).kind \notin {"none", "dir"}
               PROVE  Here(pluginHeap, q).kind # "none"
    BY DEF NoNewFile
  <2>1. q # t
    BY <1>3
  <2> QED BY <1>4, <2>1 DEF Put, AlikeAt, Here, Dropped
<1>6. FilesOwn(pluginHeap', calls)
  BY <1>1, <1>4, <1>5, KeptFiles
<1>7. ~Working("done")
  BY DEF Working
<1>8. Settled(pluginHeap', calls, ctx, "done")
  BY <1>1, <1>4, <1>7, KeptSettled, SettledThen
<1> QED BY <1>1, <1>4, <1>6, <1>7, <1>8 DEF LoaderInv

LEMMA LoaderNextInv == LoaderInv /\ [LoaderNext]_pluginVars => LoaderInv'
<1> SUFFICES ASSUME LoaderInv, [LoaderNext]_pluginVars PROVE LoaderInv'
  OBVIOUS
<1>1. ASSUME NEW l \in libs, SkipLib(l) PROVE LoaderInv'
  BY <1>1 DEF LoaderInv, SkipLib
<1>2. ASSUME NEW l \in libs, LoadLib(l) PROVE LoaderInv'
  BY <1>2, LoadLibInv
<1>3. ASSUME NEW p \in Registered, CallAddFile(p) PROVE LoaderInv'
  BY <1>3, CallAddFileInv
<1>4. CASE Descend
  BY <1>4, DescendInv
<1>5. CASE ReturnFromAdd
  BY <1>5, ReturnFromAddInv
<1>6. CASE UseFreed
  BY <1>6, UseFreedInv
<1>7. CASE InitReturns
  <2>1. ~Working("scan")
    BY DEF Working
  <2>2. Settled(pluginHeap, calls, NoCtx, "scan")
    BY <2>1, SettledThen DEF LoaderInv
  <2> QED BY <1>7, <2>1, <2>2 DEF LoaderInv, InitReturns
<1>8. CASE NextDir
  BY <1>8 DEF LoaderInv, NextDir
<1>9. CASE FinishScan
  BY <1>9, FinishScanInv
<1>10. CASE UNCHANGED pluginVars
  BY <1>10 DEF LoaderInv, pluginVars
<1> QED BY <1>1, <1>2, <1>3, <1>4, <1>5, <1>6, <1>7, <1>8, <1>9, <1>10 DEF LoaderNext

(* OwnSubtree: every file under /plugins is the first registration at its  *)
(* path, by a library of the stem it is under, whatever the plugins        *)
(* register and in whatever order the host lists them.                     *)
THEOREM PluginsKeepApart == LoaderSpec => []OwnSubtree
<1>1. LoaderInv => OwnSubtree
  <2> SUFFICES ASSUME LoaderInv, NEW q \in Universe \ {<<"README.txt">>}, FileAt(q)
               PROVE  LET c == pluginHeap[PluginAt(q)].ci
                      IN  /\ c \in DOMAIN calls /\ Where(c) = q
                          /\ \A k \in 1..(c - 1) : Where(k) # q
    BY DEF OwnSubtree
  <2>1. q \in Seq(PNames)
    <3>1. ASSUME NEW l \in Libs, NEW p \in Registered PROVE <<Stem[l]>> \o p \in Seq(PNames)
      <4>1. <<Stem[l]>> \in Seq(PNames) /\ p \in Seq(PNames)
        BY NamesOK
      <4> QED BY <4>1
    <3>2. \A p \in Registered : p \in Seq(PNames)
      BY NamesOK
    <3>3. q \in Registered \/ \E l \in Libs, p \in Registered : q = <<Stem[l]>> \o p
      BY DEF Universe
    <3> QED BY <3>1, <3>2, <3>3
  <2>2. Here(pluginHeap, q) = [kind |-> pluginHeap[PluginAt(q)].kind, ci |-> pluginHeap[PluginAt(q)].ci]
    BY DEF FileAt, PluginAt, Here, Entry
  <2>3. Here(pluginHeap, q).kind \notin {"none", "dir"}
    <3>1. Here(pluginHeap, q).kind # "none"
      BY <2>1, SoundFacts DEF LoaderInv, FileAt, PluginAt
    <3>2. Here(pluginHeap, q).kind # "dir"
      BY <2>2 DEF FileAt, IsDir
    <3> QED BY <3>1, <3>2
  <2>4. \A k : Where(k) = Place(calls[k])
    BY DEF Where, Place
  <2> QED BY <2>1, <2>2, <2>3, <2>4 DEF LoaderInv, FilesOwn
<1> QED BY <1>1, LoaderInitInv, LoaderNextInv, PTL DEF LoaderSpec

-----------------------------------------------------------------------------
(* A mount: the directory as its builder made it, and what a client has of *)
(* its list().                                                             *)

MNames == EntryNames \cup Queries \cup {"dir"}
MKinds == FileKinds \cup {"dir", "lazy"}

\* The first names of L.
Upto(out, L) == Len(out) \in 0..Len(L) /\ out = SubSeq(L, 1, Len(out))

Listing(L, p) ==
    /\ p \in [out : Seq(MNames), on : BOOLEAN, eof : BOOLEAN]
    /\ Upto(p.out, L)
    /\ p.eof => p.out = L

MountInv ==
    /\ HeapOK(mountHeap, MNames, MKinds, Nat) /\ Listed \in 1..Len(mountHeap)
    /\ hold \in [Clients -> 0..Len(mountHeap)]
    /\ handles \in Seq(1..Len(mountHeap))
    /\ ran \subseteq 1..Len(mountHeap)
    /\ DOMAIN paging = Clients
    /\ \A t \in Clients : Listing(List(mountHeap, Listed), paging[t])
    /\ ListingProducesNothing

\* list() has a name for each child.
LEMMA ListOK ==
    ASSUME NEW h, HeapOK(h, MNames, MKinds, Nat), Listed \in 1..Len(h)
    PROVE  /\ List(h, Listed) \in Seq(MNames)
           /\ Len(List(h, Listed)) = Len(h[Listed].kids) /\ Len(h[Listed].kids) \in Nat
           /\ \A i \in 1..Len(h[Listed].kids) : List(h, Listed)[i] = NameAt(h, Listed, i)
<1>1. /\ DOMAIN h[Listed].kids = 1..Len(h[Listed].kids) /\ Len(h[Listed].kids) \in Nat
      /\ \A i \in 1..Len(h[Listed].kids) : h[Listed].kids[i] \in 1..Len(h)
  BY NodeFacts
<1>2. \A n \in 1..Len(h) : h[n].name \in MNames
  <2> SUFFICES ASSUME NEW n \in 1..Len(h) PROVE h[n].name \in MNames
    OBVIOUS
  <2>1. h[n] \in NodeSet(MNames, MKinds, Nat)
    BY DEF HeapOK
  <2> QED BY <2>1 DEF NodeSet
<1>3. \A i \in 1..Len(h[Listed].kids) : NameAt(h, Listed, i) \in MNames
  BY <1>1, <1>2 DEF NameAt
<1>4. PICK n \in Nat : n = Len(h[Listed].kids)
  BY <1>1
<1>5. List(h, Listed) = [i \in 1..n |-> NameAt(h, Listed, i)]
  BY <1>1, <1>4 DEF List
<1> QED BY <1>3, <1>4, <1>5

(* The directory is built by adds, one for each entry of the image.        *)
LEMMA BuildOK ==
    ASSUME NEW es \in Entries
    PROVE  HeapOK(Build(es), MNames, MKinds, Nat) /\ Listed \in 1..Len(Build(es))
<1> DEFINE S == {h \in Seq(NodeSet(MNames, MKinds, Nat)) : HeapOK(h, MNames, MKinds, Nat) /\ 1 <= Len(h)}
           base == <<Dir("dir")>>
           step(i, h) == Add(h, Listed, File(es[i].name, es[i].kind, Null))
           n == Len(es)
           Rec(f) == f = [i \in 0..n |-> IF i = 0 THEN base ELSE step(i, f[i - 1])]
           built == CHOOSE f : Rec(f)
<1>1. /\ n \in Nat
      /\ \A i \in 1..n : es[i].name \in EntryNames /\ es[i].kind \in FileKinds
  BY DEF Entries
<1>2. base \in S
  <2>1. Dir("dir") \in NodeSet(MNames, MKinds, Nat)
    <3>1. "dir" \in MNames /\ Null \in Nat /\ <<>> \in Seq(Nat) /\ {} \in SUBSET MNames
      BY DEF MNames, Null
    <3> QED BY <3>1 DEF Dir, NodeSet, MKinds
  <2>2. Dir("dir").kids = <<>> /\ Dir("dir").names = {}
    BY DEF Dir
  <2>3. base \in Seq(NodeSet(MNames, MKinds, Nat)) /\ Len(base) = 1 /\ base[1] = Dir("dir")
    BY <2>1
  <2> HIDE DEF base
  <2>4. Linked(base) /\ Unique(base)
    BY <2>2, <2>3 DEF Linked, Unique, UniqueIn
  <2> QED BY <2>3, <2>4 DEF HeapOK
<1>3. ASSUME NEW i \in 1..n, NEW h \in S PROVE step(i, h) \in S
  <2>1. PICK node : node = File(es[i].name, es[i].kind, Null)
    OBVIOUS
  <2>2. node \in NodeSet(MNames, MKinds, Nat) /\ node.kids = <<>> /\ node.names = {}
    <3>1. es[i].name \in MNames /\ Null \in Nat /\ <<>> \in Seq(Nat) /\ {} \in SUBSET MNames
      BY <1>1 DEF MNames, Null
    <3>2. es[i].kind \in MKinds
      BY <1>1 DEF MKinds
    <3> QED BY <2>1, <3>1, <3>2 DEF File, NodeSet, MKinds
  <2>3. HeapOK(h, MNames, MKinds, Nat) /\ Listed \in 1..Len(h) /\ Len(h) \in Nat
    BY DEF Listed
  <2>4. HeapOK(Add(h, Listed, node), MNames, MKinds, Nat) /\ Len(h) <= Len(Add(h, Listed, node))
    BY <2>2, <2>3, AddOK
  <2>5. Add(h, Listed, node) \in Seq(NodeSet(MNames, MKinds, Nat)) /\ 1 <= Len(Add(h, Listed, node))
    BY <2>3, <2>4 DEF HeapOK
  <2> QED BY <2>1, <2>4, <2>5
<1>4. Build(es) = built[n]
  BY DEF Build
<1> HIDE DEF S, base, step, n
<1>5. \E w : Rec(w) /\ \A k \in 0..n : w[k] \in S
  <2> DEFINE f == [i \in 1..n |-> [h \in S |-> step(i, h)]]
  <2>1. Steps(f, base, n, S)
    BY <1>1, <1>2, <1>3 DEF Steps
  <2>2. PICK w : Record(w, f, base, n, S)
    <3> HIDE DEF f
    <3> QED BY <2>1, Iteration
  <2>3. w \in [0..n -> S] /\ w[0] = base /\ \A i \in 1..n : w[i] = f[i][w[i - 1]]
    BY <2>2 DEF Record
  <2>4. \A i \in 0..n : w[i] = IF i = 0 THEN base ELSE step(i, w[i - 1])
    <3> SUFFICES ASSUME NEW i \in 0..n PROVE w[i] = IF i = 0 THEN base ELSE step(i, w[i - 1])
      OBVIOUS
    <3>1. CASE i = 0
      BY <2>3, <3>1
    <3>2. CASE i # 0
      <4>1. i \in 1..n /\ i - 1 \in 0..n
        BY <1>1, <3>2
      <4>2. w[i] = f[i][w[i - 1]] /\ w[i - 1] \in S
        BY <2>3, <4>1
      <4> QED BY <3>2, <4>1, <4>2
    <3> QED BY <3>1, <3>2
  <2> QED BY <2>3, <2>4
<1>6. Rec(built)
  <2> HIDE DEF Rec
  <2> QED BY <1>5
<1> HIDE DEF built
<1>7. \A i \in 0..n : built[i] = IF i = 0 THEN base ELSE step(i, built[i - 1])
  BY <1>6
<1> DEFINE Good == {k \in 0..n : built[k] \in S}
<1>8. 0 \in Good
  BY <1>1, <1>2, <1>7
<1>9. \A k \in 0..(n - 1) : k \in Good => k + 1 \in Good
  <2> SUFFICES ASSUME NEW k \in 0..(n - 1), k \in Good PROVE k + 1 \in Good
    OBVIOUS
  <2>1. k + 1 \in 1..n /\ k + 1 \in 0..n /\ k + 1 # 0 /\ (k + 1) - 1 = k
    BY <1>1
  <2>2. built[k + 1] = step(k + 1, built[k])
    BY <1>7, <2>1
  <2> QED BY <1>3, <2>1, <2>2
<1>10. built[n] \in S
  <2> HIDE DEF Good
  <2>1. \A k \in 0..n : k \in Good
    BY <1>1, <1>8, <1>9, CountingUp
  <2> QED BY <1>1, <2>1 DEF Good
<1>11. HeapOK(Build(es), MNames, MKinds, Nat) /\ 1 <= Len(Build(es)) /\ Len(Build(es)) \in Nat
  BY <1>4, <1>10 DEF S
<1> QED BY <1>11 DEF Listed

LEMMA MountInitInv == MountInit => MountInv
<1> SUFFICES ASSUME MountInit PROVE MountInv
  OBVIOUS
<1>1. PICK es \in Entries : mountHeap = Build(es)
  BY DEF MountInit
<1>2. HeapOK(mountHeap, MNames, MKinds, Nat) /\ Listed \in 1..Len(mountHeap) /\ Len(mountHeap) \in Nat
  BY <1>1, BuildOK DEF HeapOK
<1>3. /\ hold = [t \in Clients |-> Null] /\ handles = <<>> /\ ran = {}
      /\ paging = [t \in Clients |-> NotListing]
  BY DEF MountInit
<1>4. Listing(List(mountHeap, Listed), NotListing)
  <2>1. PICK L \in Seq(MNames) : L = List(mountHeap, Listed)
    BY <1>2, ListOK
  <2>2. <<>> \in Seq(MNames) /\ Len(<<>>) = 0 /\ Len(L) \in Nat /\ SubSeq(L, 1, 0) = <<>>
    BY <2>1
  <2> QED BY <2>1, <2>2 DEF Listing, NotListing, Upto
<1>5. hold \in [Clients -> 0..Len(mountHeap)]
  BY <1>2, <1>3 DEF Null
<1>6. ListingProducesNothing
  BY <1>3 DEF ListingProducesNothing
<1> QED BY <1>2, <1>3, <1>4, <1>5, <1>6 DEF MountInv

\* What a client has is as long as where its next page starts: the last
\* name it has is the name of one child only.
LEMMA PageOK ==
    ASSUME MountInv, NEW t \in Clients
    PROVE  PageStart(t) = Len(paging[t].out) + 1
<1> DEFINE L == List(mountHeap, Listed)
           out == paging[t].out
<1>1. /\ HeapOK(mountHeap, MNames, MKinds, Nat) /\ Listed \in 1..Len(mountHeap)
      /\ Listing(L, paging[t])
  BY DEF MountInv
<1>2. /\ L \in Seq(MNames) /\ Len(L) = Len(mountHeap[Listed].kids) /\ Len(L) \in Nat
      /\ \A i \in 1..Len(L) : L[i] = NameAt(mountHeap, Listed, i)
  BY <1>1, ListOK
<1>3. out \in Seq(MNames) /\ Len(out) \in 0..Len(L) /\ out = SubSeq(L, 1, Len(out))
  BY <1>1 DEF Listing, Upto
<1> HIDE DEF L, out
<1>4. CASE out = <<>>
  BY <1>4 DEF PageStart, out
<1>5. CASE out # <<>>
  <2>0. Len(out) # 0
    BY <1>3, <1>5, EmptySeq
  <2>1. PICK n \in 1..Len(L) : n = Len(out)
    <3>1. PICK k \in 0..Len(L) : k = Len(out)
      BY <1>3
    <3>2. k # 0
      BY <2>0, <3>1
    <3>3. k \in 1..Len(L)
      <4>1. PICK c : c = Len(L)
        OBVIOUS
      <4>2. c \in Nat /\ k \in 0..c
        BY <1>2, <4>1
      <4>3. k \in 1..c
        BY <3>2, <4>2
      <4> QED BY <4>1, <4>3
    <3> QED BY <3>1, <3>3
  <2>2. Last(out) = L[n]
    <3>1. SubSeq(L, 1, n)[n] = L[n]
      BY <1>2, <2>1, FirstPart
    <3> QED BY <1>3, <2>1, <3>1 DEF Last
  <2>3. Last(out) = NameAt(mountHeap, Listed, n) /\ n \in 1..Len(mountHeap[Listed].kids)
    BY <1>2, <2>1, <2>2
  <2>4. /\ Positions(mountHeap, Listed, NameAt(mountHeap, Listed, n)) = {n}
        /\ First(Positions(mountHeap, Listed, NameAt(mountHeap, Listed, n))) = n
    BY <1>1, <2>3, FindOK
  <2> QED BY <1>5, <2>1, <2>3, <2>4 DEF PageStart, out
<1> QED BY <1>4, <1>5

(* A page is the next part of list(), and the end mark comes with its end. *)
LEMMA PageExtends ==
    ASSUME NEW L \in Seq(MNames), NEW p, Listing(L, p), NEW m \in Len(p.out)..Len(L),
           NEW full \in BOOLEAN, full => m = Len(L)
    PROVE  Listing(L, [out |-> p.out \o SubSeq(L, Len(p.out) + 1, m), on |-> TRUE, eof |-> full])
<1>1. PICK out : out = p.out
  OBVIOUS
<1>2. PICK n : n = Len(out)
  OBVIOUS
<1>3. out \in Seq(MNames) /\ n \in 0..Len(L) /\ out = SubSeq(L, 1, n) /\ Len(L) \in Nat
  BY <1>1, <1>2 DEF Listing, Upto
<1>4. m \in n..Len(L)
  BY <1>1, <1>2
<1>5. PICK new : new = out \o SubSeq(L, n + 1, m)
  OBVIOUS
<1>6. new = SubSeq(L, 1, m)
  <2>1. 1 \in 1..(Len(L) + 1) /\ n \in (1 - 1)..Len(L)
    BY <1>3
  <2>2. SubSeq(L, 1, n) \o SubSeq(L, n + 1, m) = SubSeq(L, 1, m)
    BY <1>4, <2>1, ConcatAdjacentSubSeq
  <2> QED BY <1>3, <1>5, <2>2
<1>7. m \in 0..Len(L) /\ new \in Seq(MNames) /\ Len(new) = m
  <2>1. m \in 0..Len(L)
    BY <1>3, <1>4
  <2>2. SubSeq(L, 1, m) \in Seq(MNames) /\ Len(SubSeq(L, 1, m)) = m
    BY <2>1, FirstPart
  <2> QED BY <1>6, <2>1, <2>2
<1>8. full => new = L
  BY <1>6, SubSeqFull
<1>9. Listing(L, [out |-> new, on |-> TRUE, eof |-> full])
  BY <1>6, <1>7, <1>8 DEF Listing, Upto
<1> QED BY <1>1, <1>2, <1>5, <1>9

\* All of it at once.
LEMMA WholeListing ==
    ASSUME NEW L \in Seq(MNames)
    PROVE  Listing(L, [out |-> L, on |-> TRUE, eof |-> TRUE]) /\ Listing(L, NotListing)
<1>1. Len(L) \in 0..Len(L) /\ L = SubSeq(L, 1, Len(L))
  BY SubSeqFull
<1>2. <<>> \in Seq(MNames) /\ Len(<<>>) = 0 /\ 0 \in 0..Len(L) /\ SubSeq(L, 1, 0) = <<>>
  OBVIOUS
<1> QED BY <1>1, <1>2 DEF Listing, Upto, NotListing

\* What a listing touches is of a kind whose size_hint is cheap to ask.
LEMMA HintsOnly ==
    ASSUME MountInv, NEW S, \A n \in S : n \in 1..Len(mountHeap) /\ HintRuns(n),
           ran' = ran \cup S, mountHeap' = mountHeap, handles' = handles
    PROVE  ListingProducesNothing' /\ ran' \subseteq 1..Len(mountHeap)
<1>1. ran \subseteq 1..Len(mountHeap) /\ ListingProducesNothing
  BY DEF MountInv
<1>2. Opened' = Opened
  BY DEF Opened
<1>3. \A n \in ran' \ Opened' : mountHeap[n].kind \in {"trivial", "sized"}
  BY <1>1, <1>2 DEF ListingProducesNothing, HintRuns
<1> QED BY <1>1, <1>3 DEF ListingProducesNothing

\* find in the directory, or a node that is made for the query.
LEMMA OpenFindInv ==
    ASSUME MountInv, NEW t \in Clients, NEW name \in EntryNames \cup Queries, OpenFind(t, name)
    PROVE  MountInv'
<1>1. /\ HeapOK(mountHeap, MNames, MKinds, Nat) /\ Listed \in 1..Len(mountHeap)
      /\ hold \in [Clients -> 0..Len(mountHeap)] /\ handles \in Seq(1..Len(mountHeap))
      /\ ran \subseteq 1..Len(mountHeap) /\ DOMAIN paging = Clients
      /\ \A u \in Clients : Listing(List(mountHeap, Listed), paging[u])
      /\ ListingProducesNothing /\ Len(mountHeap) \in Nat
  BY DEF MountInv, HeapOK
<1>2. handles' = handles /\ paging' = paging /\ ran' = ran
  BY DEF OpenFind
<1>3. PICK found : found = Find(mountHeap, Listed, name)
  OBVIOUS
<1>4. CASE found # Null
  <2>1. hold' = [hold EXCEPT ![t] = found] /\ mountHeap' = mountHeap
    BY <1>3, <1>4 DEF OpenFind
  <2>2. found \in 0..Len(mountHeap)
    BY <1>1, <1>3, FindFacts
  <2>3. hold' \in [Clients -> 0..Len(mountHeap')]
    BY <1>1, <2>1, <2>2
  <2>4. ListingProducesNothing'
    BY <1>1, <1>2, <2>1 DEF ListingProducesNothing, Opened
  <2> QED BY <1>1, <1>2, <2>1, <2>3, <2>4 DEF MountInv
<1>5. CASE found = Null
  <2>1. PICK node : node = File(name, "lazy", Null)
    OBVIOUS
  <2>2. /\ name \in Queries
        /\ Loose(mountHeap', mountHeap, node)
        /\ hold' = [hold EXCEPT ![t] = Len(mountHeap')]
    BY <1>3, <1>5, <2>1 DEF OpenFind, Loose
  <2>3. node \in NodeSet(MNames, MKinds, Nat) /\ node.kids = <<>> /\ node.names = {}
    <3>1. name \in MNames /\ Null \in Nat /\ <<>> \in Seq(Nat) /\ {} \in SUBSET MNames
      BY <2>2 DEF MNames, Null
    <3>2. "lazy" \in MKinds
      BY DEF MKinds
    <3> QED BY <2>1, <3>1, <3>2 DEF File, NodeSet
  <2>4. /\ HeapOK(mountHeap', MNames, MKinds, Nat) /\ Len(mountHeap') = Len(mountHeap) + 1
        /\ \A n \in 1..Len(mountHeap) : mountHeap'[n] = mountHeap[n]
    BY <1>1, <2>2, <2>3, LooseOK
  <2>5. List(mountHeap', Listed) = List(mountHeap, Listed)
    <3>1. \A i \in DOMAIN mountHeap[Listed].kids : mountHeap[Listed].kids[i] \in 1..Len(mountHeap)
      BY <1>1, NodeFacts
    <3>2. mountHeap'[Listed].kids = mountHeap[Listed].kids
      BY <1>1, <2>4
    <3>3. \A i \in DOMAIN mountHeap[Listed].kids :
              NameAt(mountHeap', Listed, i) = NameAt(mountHeap, Listed, i)
      BY <2>4, <3>1, <3>2 DEF NameAt
    <3> QED BY <3>2, <3>3 DEF List
  <2>6. /\ Listed \in 1..Len(mountHeap') /\ ran' \subseteq 1..Len(mountHeap')
        /\ handles' \in Seq(1..Len(mountHeap'))
    <3>1. \A n \in 1..Len(mountHeap) : n \in 1..Len(mountHeap')
      BY <1>1, <2>4
    <3>2. \A s \in Seq(1..Len(mountHeap)) : s \in Seq(1..Len(mountHeap'))
      BY <3>1
    <3> QED BY <1>1, <1>2, <3>1, <3>2
  <2>7. hold' \in [Clients -> 0..Len(mountHeap')]
    <3>1. \A n \in 0..Len(mountHeap) : n \in 0..Len(mountHeap')
      BY <1>1, <2>4
    <3>2. Len(mountHeap') \in 0..Len(mountHeap')
      BY <1>1, <2>4
    <3> QED BY <1>1, <2>2, <3>1, <3>2
  <2>8. ListingProducesNothing'
    BY <1>1, <1>2, <2>4 DEF ListingProducesNothing, Opened
  <2> QED BY <1>1, <1>2, <2>4, <2>5, <2>6, <2>7, <2>8 DEF MountInv
<1> QED BY <1>4, <1>5

\* The handle, and with winfsp_mount the content.
LEMMA OpenReturnInv ==
    ASSUME MountInv, NEW t \in Clients, OpenReturn(t) \/ FuseOpenReturn(t)
    PROVE  MountInv'
<1>1. PICK n : n = hold[t]
  OBVIOUS
<1>2. /\ n # Null /\ handles' = Append(handles, n) /\ hold' = [hold EXCEPT ![t] = Null]
      /\ mountHeap' = mountHeap /\ paging' = paging
      /\ ran' = ran \cup {n} \/ ran' = ran
  BY <1>1 DEF OpenReturn, FuseOpenReturn
<1>3. /\ hold \in [Clients -> 0..Len(mountHeap)] /\ handles \in Seq(1..Len(mountHeap))
      /\ ran \subseteq 1..Len(mountHeap) /\ ListingProducesNothing /\ Len(mountHeap) \in Nat
  BY DEF MountInv, HeapOK
<1>4. n \in 1..Len(mountHeap)
  BY <1>1, <1>2, <1>3 DEF Null
<1>5. hold' \in [Clients -> 0..Len(mountHeap)] /\ handles' \in Seq(1..Len(mountHeap))
      /\ ran' \subseteq 1..Len(mountHeap)
  <2>1. hold' \in [Clients -> 0..Len(mountHeap)]
    BY <1>2, <1>3 DEF Null
  <2>2. PICK S : S = 1..Len(mountHeap)
    OBVIOUS
  <2>3. handles \in Seq(S) /\ n \in S /\ ran \subseteq S
    BY <1>3, <1>4, <2>2
  <2>4. handles' = Append(handles, n)
    BY <1>2
  <2>5. handles' \in Seq(S)
    BY <2>3, <2>4
  <2>6. ran' = ran \cup {n} \/ ran' = ran
    BY <1>2
  <2>7. ran' \subseteq S
    BY <2>3, <2>6
  <2> QED BY <2>1, <2>2, <2>5, <2>7
<1>6. Opened' = Opened \cup {n}
  <2>1. /\ DOMAIN handles = 1..Len(handles) /\ DOMAIN handles' = 1..(Len(handles) + 1)
        /\ Len(handles) \in Nat
        /\ handles'[Len(handles) + 1] = n /\ \A i \in 1..Len(handles) : handles'[i] = handles[i]
    BY <1>2, <1>3, <1>4
  <2>2. \A i \in DOMAIN handles' : i \in 1..Len(handles) \/ i = Len(handles) + 1
    BY <2>1
  <2> QED BY <2>1, <2>2 DEF Opened
<1>7. ListingProducesNothing'
  BY <1>2, <1>3, <1>6 DEF ListingProducesNothing
<1> QED BY <1>2, <1>5, <1>7 DEF MountInv

\* A page, or all of it.
LEMMA ReaddirInv ==
    ASSUME MountInv, NEW t \in Clients,
           FuseReaddir(t) \/ \E k \in 1..MaxEntries : ReadDirectory(t, k)
    PROVE  MountInv'
<1> DEFINE kids == mountHeap[Listed].kids
<1>1. PICK L : L = List(mountHeap, Listed)
  OBVIOUS
<1>2. /\ HeapOK(mountHeap, MNames, MKinds, Nat) /\ Listed \in 1..Len(mountHeap)
      /\ DOMAIN paging = Clients /\ \A u \in Clients : Listing(L, paging[u])
  BY <1>1 DEF MountInv
<1>3. L \in Seq(MNames) /\ Len(L) = Len(kids) /\ Len(L) \in Nat
  BY <1>1, <1>2, ListOK
<1>4. DOMAIN kids = 1..Len(kids) /\ \A i \in 1..Len(kids) : kids[i] \in 1..Len(mountHeap)
  BY <1>2, NodeFacts
<1> HIDE DEF kids
<1>5. /\ mountHeap' = mountHeap /\ hold' = hold /\ handles' = handles
      /\ \E visited \in SUBSET (1..Len(kids)) :
            ran' = ran \cup {n \in {kids[i] : i \in visited} : HintRuns(n)}
      /\ \E p : paging' = [paging EXCEPT ![t] = p] /\ Listing(L, p)
  <2>1. CASE FuseReaddir(t)
    <3>1. /\ mountHeap' = mountHeap /\ hold' = hold /\ handles' = handles
          /\ paging' = [paging EXCEPT ![t] = [out |-> L, on |-> TRUE, eof |-> TRUE]]
          /\ ran' = ran \cup {n \in {kids[i] : i \in DOMAIN kids} : HintRuns(n)}
      BY <1>1, <2>1 DEF FuseReaddir, kids
    <3>2. Listing(L, [out |-> L, on |-> TRUE, eof |-> TRUE])
      BY <1>3, WholeListing
    <3>3. DOMAIN kids \in SUBSET (1..Len(kids))
      BY <1>4
    <3> QED BY <3>1, <3>2, <3>3
  <2>2. ASSUME NEW k \in 1..MaxEntries, ReadDirectory(t, k)
        PROVE  /\ mountHeap' = mountHeap /\ hold' = hold /\ handles' = handles
               /\ \E visited \in SUBSET (1..Len(kids)) :
                     ran' = ran \cup {n \in {kids[i] : i \in visited} : HintRuns(n)}
               /\ \E p : paging' = [paging EXCEPT ![t] = p] /\ Listing(L, p)
    <3>1. k \in Nat
      BY MountAssumption
    <3>2. PICK out : out = paging[t].out
      OBVIOUS
    <3>3. PICK from : from = Len(out) + 1
      OBVIOUS
    <3>4. PICK left : left = (Len(L) + 1) - from
      OBVIOUS
    <3>5. PICK given : given = IF k < left THEN k ELSE left
      OBVIOUS
    <3>6. PICK visited : visited = IF k < left THEN from..(from + k) ELSE from..Len(L)
      OBVIOUS
    <3>7. PageStart(t) = from
      BY <3>2, <3>3, PageOK
    <3>8. /\ mountHeap' = mountHeap /\ hold' = hold /\ handles' = handles
          /\ paging' = [paging EXCEPT ![t] =
                           [out |-> @.out \o SubSeq(L, from, (from + given) - 1),
                            on |-> TRUE, eof |-> k >= left]]
          /\ ran' = ran \cup {n \in {kids[i] : i \in visited} : HintRuns(n)}
      BY <1>1, <2>2, <3>4, <3>5, <3>6, <3>7 DEF ReadDirectory, kids
    <3>9. Len(out) \in 0..Len(L)
      BY <1>2, <3>2 DEF Listing, Upto
    <3>10. visited \in SUBSET (1..Len(kids))
      BY <1>3, <3>1, <3>3, <3>4, <3>6, <3>9
    <3>11. PICK m : m = (from + given) - 1
      OBVIOUS
    <3>12. m \in Len(out)..Len(L) /\ (k >= left => m = Len(L)) /\ (k >= left) \in BOOLEAN
      <4>1. Len(L) \in Nat /\ Len(out) \in Nat /\ k \in Nat
        BY <1>3, <3>1, <3>9
      <4>5. left = Len(L) - Len(out) /\ left \in Nat
        BY <3>3, <3>4, <3>9, <4>1
      <4>6. given \in Nat
        BY <3>5, <4>1, <4>5
      <4>2. left = Len(L) - Len(out) /\ m = Len(out) + given
        BY <3>3, <3>11, <4>1, <4>5, <4>6
      <4>3. m \in Len(out)..Len(L)
        BY <3>5, <3>9, <4>1, <4>2
      <4>4. k >= left => m = Len(L)
        BY <3>5, <4>1, <4>2
      <4> QED BY <4>3, <4>4
    <3>14. PICK p : p = [out |-> out \o SubSeq(L, from, m), on |-> TRUE, eof |-> k >= left]
      OBVIOUS
    <3>15. Listing(L, p)
      <4>1. Listing(L, [out |-> paging[t].out \o SubSeq(L, Len(paging[t].out) + 1, m),
                        on |-> TRUE, eof |-> k >= left])
        BY <1>2, <1>3, <3>2, <3>12, PageExtends
      <4> QED BY <3>2, <3>3, <3>14, <4>1
    <3>13. paging' = [paging EXCEPT ![t] = p]
      BY <3>2, <3>8, <3>11, <3>14
    <3> QED BY <3>8, <3>10, <3>13, <3>15
  <2> QED BY <2>1, <2>2
<1>6. PICK visited \in SUBSET (1..Len(kids)) :
          ran' = ran \cup {n \in {kids[i] : i \in visited} : HintRuns(n)}
  BY <1>5
<1>7. ListingProducesNothing' /\ ran' \subseteq 1..Len(mountHeap)
  <2> DEFINE S == {n \in {kids[i] : i \in visited} : HintRuns(n)}
  <2>1. \A n \in S : n \in 1..Len(mountHeap) /\ HintRuns(n)
    BY <1>4
  <2>2. ran' = ran \cup S
    BY <1>6
  <2> HIDE DEF S
  <2> QED BY <1>5, <2>1, <2>2, HintsOnly
<1>8. DOMAIN paging' = Clients /\ \A u \in Clients : Listing(L, paging'[u])
  BY <1>2, <1>5
<1> QED BY <1>1, <1>5, <1>7, <1>8 DEF MountInv

LEMMA MountNextInv == MountInv /\ [MountNext]_mountVars => MountInv'
<1> SUFFICES ASSUME MountInv, [MountNext]_mountVars PROVE MountInv'
  OBVIOUS
<1>1. ASSUME NEW t \in Clients, NEW name \in EntryNames \cup Queries, OpenFind(t, name) PROVE MountInv'
  BY <1>1, OpenFindInv
<1>2. ASSUME NEW t \in Clients, OpenReturn(t) \/ FuseOpenReturn(t) PROVE MountInv'
  BY <1>2, OpenReturnInv
<1>3. ASSUME NEW t \in Clients, FuseReaddir(t) \/ \E k \in 1..MaxEntries : ReadDirectory(t, k)
      PROVE  MountInv'
  BY <1>3, ReaddirInv
<1>4. ASSUME NEW t \in Clients, EndListing(t) PROVE MountInv'
  <2>1. /\ mountHeap' = mountHeap /\ hold' = hold /\ handles' = handles /\ ran' = ran
        /\ paging' = [paging EXCEPT ![t] = NotListing]
    BY <1>4 DEF EndListing
  <2>2. Listing(List(mountHeap, Listed), NotListing)
    BY ListOK, WholeListing DEF MountInv
  <2>3. DOMAIN paging' = Clients /\ \A u \in Clients : Listing(List(mountHeap, Listed), paging'[u])
    BY <2>1, <2>2 DEF MountInv
  <2>4. ListingProducesNothing'
    BY <2>1 DEF MountInv, ListingProducesNothing, Opened
  <2> QED BY <2>1, <2>3, <2>4 DEF MountInv
<1>5. CASE UNCHANGED mountVars
  <2>1. ListingProducesNothing'
    BY <1>5 DEF mountVars, MountInv, ListingProducesNothing, Opened
  <2> QED BY <1>5, <2>1 DEF mountVars, MountInv
<1> QED BY <1>1, <1>2, <1>3, <1>4, <1>5 DEF MountNext

(* ListingExact: a client's listing is always the first part of list(),    *)
(* and all of it at the end mark, for any entries, buffers and clients.    *)
THEOREM ListingsExact == MountSpec => []ListingExact
<1>1. MountInv => ListingExact
  <2> SUFFICES ASSUME MountInv, NEW t \in Clients
               PROVE  /\ IsPrefix(paging[t].out, List(mountHeap, Listed))
                      /\ paging[t].eof => paging[t].out = List(mountHeap, Listed)
    BY DEF ListingExact
  <2>1. PICK L : L = List(mountHeap, Listed)
    OBVIOUS
  <2>2. Listing(L, paging[t])
    BY <2>1 DEF MountInv
  <2>3. PICK out : out = paging[t].out
    OBVIOUS
  <2>4. L \in Seq(MNames)
    BY <2>1, ListOK DEF MountInv
  <2>5. out \in Seq(MNames) /\ Len(out) \in 0..Len(L) /\ out = SubSeq(L, 1, Len(out))
    BY <2>2, <2>3 DEF Listing, Upto
  <2>6. SubSeq(out, 1, Len(out)) = out
    BY <2>5, SubSeqFull
  <2>7. Len(out) <= Len(L)
    BY <2>4, <2>5
  <2> QED BY <2>1, <2>2, <2>3, <2>5, <2>6, <2>7 DEF IsPrefix, Listing
<1> QED BY <1>1, MountInitInv, MountNextInv, PTL DEF MountSpec

(* ListingProducesNothing: listing a directory produces no file's content, *)
(* except of the kinds whose size_hint is known to be their size.          *)
THEOREM ListingsProduceNothing == MountSpec => []ListingProducesNothing
<1>1. MountInv => ListingProducesNothing
  BY DEF MountInv
<1> QED BY <1>1, MountInitInv, MountNextInv, PTL DEF MountSpec
=============================================================================
