---------------------------- MODULE FsTreeProofs ----------------------------
(***************************************************************************)
(* What FsTree builds, for every set of inodes: names are unique, a        *)
(* directory stays, and the tree is a function of the inodes.              *)
(*                                                                         *)
(* DirTreeProofs says what each operation does to the tree below fs_dir;   *)
(* IInv, that the operations are used where it says so.  The last part     *)
(* then reasons about what stands at each path, and no longer about nodes. *)
(***************************************************************************)
EXTENDS FsTree, DirTreeProofs, FiniteSetTheorems

AllNames == Names \cup {"fs", "by-ino"} \cup {OrphanName(c) : c \in Inodes}
FsKinds == {"dir", "lnk", "reg"}
Contents == Inodes \cup {Null}

-----------------------------------------------------------------------------
(* The path an inode is given in /fs is a path.                            *)
LEMMA FsPathOK ==
    ASSUME NEW c \in Inodes
    PROVE  FsPath(c) \in Seq(Names)
<1>1. c.path \in Seq(Names)
  BY InodesAssumption DEF IsInode
<1>2. CASE inode_is_orphan(c) \/ c.pseudo
  BY <1>2 DEF FsPath
<1>3. CASE ~(inode_is_orphan(c) \/ c.pseudo)
  <2>1. c.path # <<>> /\ FsPath(c) = normalise_fs_path(c.path)
    BY <1>3 DEF FsPath, inode_is_orphan
  <2>2. Tail(c.path) \in Seq(Names)
    BY <1>1, <2>1
  <2> QED BY <1>1, <2>1, <2>2 DEF normalise_fs_path
<1> QED BY <1>2, <1>3

-----------------------------------------------------------------------------
\* The inductive invariant: the heap is well-formed, below fs_dir every
\* node has one path and by_ino_dir has none, and get_or_make_dir's cur is
\* the directory at the components walked so far.
TreeOK ==
    /\ HeapOK(heap, AllNames, FsKinds, Contents)
    /\ 2 <= Len(heap)
    /\ IsDir(heap, FsDir) /\ IsDir(heap, ByInoDir)
    /\ PathUnique(heap, FsDir, AllNames)
    /\ \A p \in Seq(AllNames) : At(p) # ByInoDir

InHand ==
    pc \in {"walk", "walk_candidate"} =>
        /\ item.path \in Seq(Names) \ {<<>>}
        /\ item.ci \in Inodes
        /\ Follows(rest, item.path, Names)
        /\ cur \in 1..Len(heap) /\ IsDir(heap, cur)
        /\ At(Walked(rest, item.path)) = cur

Kept ==
    /\ DOMAIN candidates \subseteq Seq(Names) \ {<<>>}
    /\ \A p \in DOMAIN candidates : candidates[p] \in Inodes
    /\ todo \subseteq DOMAIN candidates
    /\ pc = "done" => todo = {}

IInv == TreeOK /\ InHand /\ Kept

LEMMA NamesAreNames ==
    /\ Names \subseteq AllNames /\ Seq(Names) \subseteq Seq(AllNames)
    /\ "dir" \in FsKinds /\ "none" \notin FsKinds /\ Null \in Contents
<1>1. Names \subseteq AllNames
  BY DEF AllNames
<1>2. \A s \in Seq(Names) : s \in Seq(AllNames)
  BY <1>1
<1> QED BY <1>1, <1>2 DEF Contents, FsKinds

(* A file node is a node.                                                  *)
LEMMA FileOK ==
    ASSUME NEW name \in AllNames, NEW kind \in {"lnk", "reg"}, NEW c \in Inodes
    PROVE  /\ File(name, kind, c) \in NodeSet(AllNames, FsKinds, Contents)
           /\ File(name, kind, c).kids = <<>>
           /\ File(name, kind, c).names = {}
           /\ File(name, kind, c).name = name
           /\ File(name, kind, c).kind = kind
           /\ File(name, kind, c).ci = c
<1>1. c \in Contents /\ <<>> \in Seq(Nat) /\ {} \in SUBSET AllNames
  BY DEF Contents
<1> QED BY <1>1 DEF File, NodeSet, FsKinds

(* The two empty directories are a well-formed heap.                       *)
LEMMA InitIInv == Init => IInv
<1> SUFFICES ASSUME Init PROVE IInv
  OBVIOUS
<1>1. Dir("fs") \in NodeSet(AllNames, FsKinds, Contents) /\ Dir("by-ino") \in NodeSet(AllNames, FsKinds, Contents)
  <2>1. /\ "fs" \in AllNames /\ "by-ino" \in AllNames
        /\ Null \in Contents /\ <<>> \in Seq(Nat) /\ {} \in SUBSET AllNames
    BY DEF AllNames, Contents
  <2> QED BY <2>1 DEF Dir, NodeSet, FsKinds
<1>2. heap = <<Dir("fs"), Dir("by-ino")>>
  BY DEF Init
<1>3. heap \in Seq(NodeSet(AllNames, FsKinds, Contents)) /\ Len(heap) = 2
  BY <1>1, <1>2
<1>4. \A n \in 1..2 : heap[n].kids = <<>> /\ heap[n].names = {} /\ heap[n].kind = "dir"
  BY <1>2 DEF Dir
<1>5. Linked(heap) /\ Unique(heap)
  BY <1>3, <1>4 DEF Linked, Unique, UniqueIn
<1>6. HeapOK(heap, AllNames, FsKinds, Contents) /\ FsDir \in 1..Len(heap) /\ heap[FsDir].kids = <<>>
  BY <1>3, <1>4, <1>5 DEF HeapOK, FsDir
<1>7. /\ \A p \in Seq(AllNames) : p # <<>> => Resolve(heap, FsDir, p) = Null
      /\ PathUnique(heap, FsDir, AllNames)
  BY <1>6, EmptyTree
<1>8. \A p \in Seq(AllNames) : At(p) # ByInoDir
  BY <1>7, ResolveEmpty DEF At, FsDir, ByInoDir, Null
<1>9. IsDir(heap, FsDir) /\ IsDir(heap, ByInoDir)
  BY <1>4 DEF IsDir, FsDir, ByInoDir
<1>10. InHand /\ Kept
  BY DEF Init, InHand, Kept
<1> QED BY <1>3, <1>6, <1>7, <1>8, <1>9, <1>10 DEF IInv, TreeOK

\* What IInv says of the heap, for the lemmas of DirTreeProofs.
LEMMA TreeFacts ==
    ASSUME IInv
    PROVE  /\ HeapOK(heap, AllNames, FsKinds, Contents) /\ PathUnique(heap, FsDir, AllNames)
           /\ Len(heap) \in Nat /\ 2 <= Len(heap)
           /\ FsDir \in 1..Len(heap) /\ ByInoDir \in 1..Len(heap)
           /\ IsDir(heap, FsDir) /\ IsDir(heap, ByInoDir)
           /\ \A p \in Seq(AllNames) : Resolve(heap, FsDir, p) # ByInoDir
<1>1. Len(heap) \in Nat
  BY DEF IInv, TreeOK, HeapOK
<1> QED BY <1>1 DEF IInv, TreeOK, FsDir, ByInoDir, At

\* A well-formed heap that grew without a path to by_ino_dir.
LEMMA TreeKept ==
    ASSUME IInv, Grew(heap', heap, FsDir, AllNames, AllNames, FsKinds, Contents),
           \A p \in Seq(AllNames) : \/ Resolve(heap', FsDir, p) = Resolve(heap, FsDir, p)
                                    \/ Resolve(heap', FsDir, p) = Len(heap) + 1
    PROVE  TreeOK'
<1>1. /\ Len(heap) \in Nat /\ 2 <= Len(heap) /\ FsDir \in 1..Len(heap) /\ ByInoDir \in 1..Len(heap)
      /\ IsDir(heap, FsDir) /\ IsDir(heap, ByInoDir)
      /\ \A p \in Seq(AllNames) : Resolve(heap, FsDir, p) # ByInoDir
  BY TreeFacts
<1>2. /\ HeapOK(heap', AllNames, FsKinds, Contents) /\ PathUnique(heap', FsDir, AllNames)
      /\ Len(heap) <= Len(heap') /\ Len(heap') \in Nat
  BY DEF Grew, HeapOK
<1>3. IsDir(heap', FsDir) /\ IsDir(heap', ByInoDir)
  BY <1>1 DEF Grew
<1>4. \A p \in Seq(AllNames) : Resolve(heap', FsDir, p) # ByInoDir
  BY <1>1 DEF ByInoDir
<1> QED BY <1>1, <1>2, <1>3, <1>4 DEF TreeOK, At

LEMMA TreeUnmoved == IInv /\ heap' = heap => TreeOK'
  BY DEF IInv, TreeOK, At

\* The first loop takes an inode: the tree is as it was.
LEMMA TakeInodeStep ==
    ASSUME IInv, NEW c \in Inodes, TakeInode(c)
    PROVE  IInv' /\ Alike(heap', heap, FsDir, AllNames)
<1> USE TreeFacts
<1>1. TreeOK' /\ Alike(heap', heap, FsDir, AllNames)
  <2>1. CASE GoesByIno(c)
    <3> DEFINE node == File(OrphanName(c), "reg", c)
    <3>1. OrphanName(c) \in AllNames
      BY DEF AllNames
    <3>2. node \in NodeSet(AllNames, FsKinds, Contents) /\ node.kids = <<>> /\ node.names = {}
      BY <3>1, FileOK
    <3>3. heap' = Add(heap, ByInoDir, node)
      BY <2>1 DEF TakeInode
    <3> HIDE DEF node
    <3>4. /\ Grew(heap', heap, FsDir, AllNames, AllNames, FsKinds, Contents)
          /\ Alike(heap', heap, FsDir, AllNames)
      BY <3>2, <3>3, AddAside
    <3> QED BY <3>4, TreeKept DEF Alike, AlikeAt
  <2>2. CASE ~GoesByIno(c)
    BY <2>2, TreeUnmoved DEF TakeInode, Alike, AlikeAt
  <2> QED BY <2>1, <2>2
<1>2. InHand'
  <2>1. CASE Exposed(c)
    <3>1. FsPath(c) \in Seq(Names) /\ FsPath(c) # <<>>
      BY <2>1, FsPathOK DEF Exposed, validate_recovered_fs_path
    <3>2. /\ Follows(Front(FsPath(c)), FsPath(c), Names)
          /\ Walked(Front(FsPath(c)), FsPath(c)) = <<>>
      BY <3>1, FollowsStart
    <3>3. /\ pc' = "walk" /\ cur' = FsDir /\ rest' = Front(FsPath(c))
          /\ item' = [path |-> FsPath(c), ci |-> c]
      BY <2>1 DEF TakeInode
    <3>4. Resolve(heap', FsDir, <<>>) = FsDir
      BY ResolveEmpty
    <3>5. FsDir \in 1..Len(heap') /\ IsDir(heap', FsDir)
      BY <1>1 DEF TreeOK, HeapOK, FsDir
    <3> QED BY <3>1, <3>2, <3>3, <3>4, <3>5 DEF InHand, At
  <2>2. CASE ~Exposed(c)
    <3>1. pc' = "inodes"
      BY <2>2 DEF TakeInode
    <3> QED BY <3>1 DEF InHand
  <2> QED BY <2>1, <2>2
<1>3. Kept'
  BY DEF TakeInode, IInv, Kept
<1> QED BY <1>1, <1>2, <1>3 DEF IInv

\* What a Put changes and what it leaves.
LEMMA PutKeeps ==
    ASSUME NEW g, NEW h, NEW t, NEW node, Put(g, h, FsDir, AllNames, t, node),
           NEW p \in Seq(AllNames)
    PROVE  \/ Resolve(g, FsDir, p) = Resolve(h, FsDir, p)
           \/ Resolve(g, FsDir, p) = Len(h) + 1
  BY DEF Put, AlikeAt

\* One turn of get_or_make_dir: the directory is there, or it is made.
LEMMA MakeComponentStep ==
    ASSUME IInv, MakeComponent, NEW t, t = Walked(rest', item.path)
    PROVE  /\ IInv'
           /\ t \in Prefixes(item.path) \ {<<>>, item.path} /\ t \in Seq(Names)
           /\ \/ Entry(heap, FsDir, t).kind = "dir" /\ heap' = heap
              \/ /\ Entry(heap, FsDir, t).kind # "dir"
                 /\ \E name : Put(heap', heap, FsDir, AllNames, t, Dir(name))
<1> USE TreeFacts
<1> DEFINE r == Walked(rest, item.path)
           x == Head(rest)
<1>1. /\ item.path \in Seq(Names) /\ item.path # <<>> /\ item.ci \in Inodes
      /\ Follows(rest, item.path, Names) /\ rest # <<>>
      /\ cur \in 1..Len(heap) /\ IsDir(heap, cur)
      /\ Resolve(heap, FsDir, r) = cur
  BY DEF MakeComponent, IInv, InHand, At
<1>2. /\ heap' = EnsureDirChild(heap, cur, x)
      /\ cur' = Find(heap', cur, x) /\ rest' = Tail(rest) /\ item' = item
  BY DEF MakeComponent
<1>3. /\ Follows(rest', item.path, Names) /\ r \in Seq(Names) /\ x \in Names /\ t = Append(r, x)
      /\ t \in Prefixes(item.path) \ {<<>>, item.path}
  BY <1>1, <1>2, FollowsStep
<1>4. x \in AllNames /\ r \in Seq(AllNames) /\ Null \in Contents /\ "dir" \in FsKinds
  BY <1>3, NamesAreNames
<1> HIDE DEF r, x
<1>5. /\ Grew(heap', heap, FsDir, AllNames, AllNames, FsKinds, Contents)
      /\ Ensured(heap', heap, FsDir, t, cur, x, AllNames)
  <2>1. Reached(heap, FsDir, r, cur, AllNames, AllNames, FsKinds, Contents)
    BY <1>1, <1>4 DEF Reached
  <2> QED BY <1>2, <1>3, <1>4, <2>1, EnsureAt
<1>6. TreeOK'
  BY <1>5, PutKeeps, TreeKept DEF Ensured
<1>7. InHand'
  BY <1>1, <1>2, <1>3, <1>5 DEF InHand, At, Ensured
<1>8. Kept'
  BY DEF MakeComponent, IInv, Kept
<1>9. t \in Seq(Names)
  BY <1>3
<1> QED BY <1>3, <1>5, <1>6, <1>7, <1>8, <1>9 DEF IInv, Ensured

\* get_or_make_dir is through: cur is the directory of the item's path.
LEMMA ArrivedAt ==
    ASSUME IInv, pc \in {"walk", "walk_candidate"}, rest = <<>>
    PROVE  \E r, x, t :
              /\ Reached(heap, FsDir, r, cur, AllNames, AllNames, FsKinds, Contents)
              /\ t = Append(r, x)
              /\ item.path = t /\ Last(item.path) = x
              /\ x \in AllNames
<1>1. /\ item.path \in Seq(Names) /\ item.path # <<>>
      /\ cur \in 1..Len(heap) /\ IsDir(heap, cur)
      /\ Resolve(heap, FsDir, Walked(<<>>, item.path)) = cur
  BY DEF IInv, InHand, At
<1>2. /\ Walked(<<>>, item.path) \in Seq(Names) /\ Last(item.path) \in Names
      /\ Append(Walked(<<>>, item.path), Last(item.path)) = item.path
  BY <1>1, FollowsEnd
<1>3. Walked(<<>>, item.path) \in Seq(AllNames) /\ Last(item.path) \in AllNames
  BY <1>2, NamesAreNames
<1>4. Reached(heap, FsDir, Walked(<<>>, item.path), cur, AllNames, AllNames, FsKinds, Contents)
  BY <1>1, <1>3, TreeFacts DEF Reached
<1> QED BY <1>2, <1>3, <1>4

LEMMA PlaceDirStep ==
    ASSUME IInv, PlaceDir
    PROVE  /\ IInv'
           /\ \/ Entry(heap, FsDir, item.path).kind = "dir" /\ heap' = heap
              \/ /\ Entry(heap, FsDir, item.path).kind # "dir"
                 /\ \E name : Put(heap', heap, FsDir, AllNames, item.path, Dir(name))
<1>1. PICK r, x, t :
         /\ Reached(heap, FsDir, r, cur, AllNames, AllNames, FsKinds, Contents)
         /\ t = Append(r, x) /\ item.path = t /\ Last(item.path) = x /\ x \in AllNames
  BY ArrivedAt DEF PlaceDir, Arrived
<1>2. heap' = EnsureDirChild(heap, cur, x) /\ pc' = "inodes"
  BY <1>1 DEF PlaceDir, Return
<1>3. /\ Grew(heap', heap, FsDir, AllNames, AllNames, FsKinds, Contents)
      /\ Ensured(heap', heap, FsDir, t, cur, x, AllNames)
  <2>1. Null \in Contents /\ "dir" \in FsKinds
    BY NamesAreNames
  <2> QED BY <1>1, <1>2, <2>1, EnsureAt
<1>4. TreeOK'
  BY <1>3, PutKeeps, TreeKept DEF Ensured
<1>5. InHand' /\ Kept'
  BY <1>2 DEF InHand, IInv, Kept, PlaceDir, Return
<1> QED BY <1>1, <1>3, <1>4, <1>5 DEF IInv, Ensured

\* What add does for a link and for a regular file.
LEMMA AddFileStep ==
    ASSUME IInv, pc \in {"walk", "walk_candidate"}, rest = <<>>, NEW kind \in {"lnk", "reg"},
           NEW g, g = Add(heap, cur, File(Last(item.path), kind, item.ci))
    PROVE  /\ Grew(g, heap, FsDir, AllNames, AllNames, FsKinds, Contents)
           /\ Find(heap, cur, Last(item.path)) # Null <=> Entry(heap, FsDir, item.path).kind # "none"
           /\ Find(heap, cur, Last(item.path)) = Null =>
                 \E node : /\ node.kind = kind /\ node.ci = item.ci
                           /\ Put(g, heap, FsDir, AllNames, item.path, node)
<1>1. PICK r, x, t :
         /\ Reached(heap, FsDir, r, cur, AllNames, AllNames, FsKinds, Contents)
         /\ t = Append(r, x) /\ item.path = t /\ Last(item.path) = x /\ x \in AllNames
  BY ArrivedAt
<1>2. item.ci \in Inodes
  BY DEF IInv, InHand
<1>3. PICK node \in NodeSet(AllNames, FsKinds, Contents) :
         /\ node = File(x, kind, item.ci)
         /\ node.kids = <<>> /\ node.names = {}
         /\ node.name = x /\ node.kind = kind /\ node.ci = item.ci
  BY <1>1, <1>2, FileOK
<1>4. g = Add(heap, cur, node) /\ t = Append(r, node.name) /\ node.name \in AllNames
  BY <1>1, <1>3
<1>5. /\ Grew(g, heap, FsDir, AllNames, AllNames, FsKinds, Contents)
      /\ Added(g, heap, FsDir, t, cur, node, AllNames)
  BY <1>1, <1>3, <1>4, NamesAreNames, AddAt
<1> QED BY <1>1, <1>3, <1>5 DEF Added

LEMMA PlaceLinkStep ==
    ASSUME IInv, PlaceLink
    PROVE  /\ IInv'
           /\ \/ Entry(heap, FsDir, item.path).kind # "none" /\ heap' = heap
              \/ /\ Entry(heap, FsDir, item.path).kind = "none"
                 /\ \E node : /\ node.kind = "lnk" /\ node.ci = item.ci
                              /\ Put(heap', heap, FsDir, AllNames, item.path, node)
<1> USE TreeFacts
<1> DEFINE g == Add(heap, cur, File(Last(item.path), "lnk", item.ci))
<1>1. rest = <<>> /\ pc = "walk" /\ pc' = "inodes"
  BY DEF PlaceLink, Arrived, Return
<1>2. /\ Grew(g, heap, FsDir, AllNames, AllNames, FsKinds, Contents)
      /\ Find(heap, cur, Last(item.path)) # Null <=> Entry(heap, FsDir, item.path).kind # "none"
      /\ Find(heap, cur, Last(item.path)) = Null =>
            \E node : /\ node.kind = "lnk" /\ node.ci = item.ci
                      /\ Put(g, heap, FsDir, AllNames, item.path, node)
  <2> HIDE DEF g
  <2>1. "lnk" \in {"lnk", "reg"}
    OBVIOUS
  <2> QED BY <1>1, <2>1, AddFileStep DEF g
<1>3. heap' = IF Find(heap, cur, Last(item.path)) # Null THEN heap ELSE g
  BY DEF PlaceLink
<1> HIDE DEF g
<1>4. TreeOK'
  <2>1. CASE heap' = heap
    BY <2>1, TreeUnmoved
  <2>2. CASE heap' = g /\ Find(heap, cur, Last(item.path)) = Null
    BY <1>2, <2>2, PutKeeps, TreeKept
  <2> QED BY <1>3, <2>1, <2>2
<1>5. InHand' /\ Kept'
  BY <1>1 DEF InHand, IInv, Kept, PlaceLink, Return
<1> QED BY <1>2, <1>3, <1>4, <1>5 DEF IInv

LEMMA PlaceRegularStep ==
    ASSUME IInv, PlaceRegular
    PROVE  /\ IInv'
           /\ \/ Entry(heap, FsDir, item.path).kind # "none" /\ heap' = heap /\ reg_count' = reg_count
              \/ /\ Entry(heap, FsDir, item.path).kind = "none" /\ reg_count' = reg_count + 1
                 /\ \E node : /\ node.kind = "reg" /\ node.ci = item.ci
                              /\ Put(heap', heap, FsDir, AllNames, item.path, node)
<1> USE TreeFacts
<1> DEFINE g == Add(heap, cur, File(Last(item.path), "reg", item.ci))
<1>1. rest = <<>> /\ pc = "walk_candidate" /\ pc' = "candidates"
  BY DEF PlaceRegular, Arrived, Return
<1>2. /\ Grew(g, heap, FsDir, AllNames, AllNames, FsKinds, Contents)
      /\ Find(heap, cur, Last(item.path)) # Null <=> Entry(heap, FsDir, item.path).kind # "none"
      /\ Find(heap, cur, Last(item.path)) = Null =>
            \E node : /\ node.kind = "reg" /\ node.ci = item.ci
                      /\ Put(g, heap, FsDir, AllNames, item.path, node)
  <2> HIDE DEF g
  <2>1. "reg" \in {"lnk", "reg"}
    OBVIOUS
  <2> QED BY <1>1, <2>1, AddFileStep DEF g
<1>3. /\ heap' = IF Find(heap, cur, Last(item.path)) # Null THEN heap ELSE g
      /\ reg_count' = IF Find(heap, cur, Last(item.path)) # Null THEN reg_count ELSE reg_count + 1
  BY DEF PlaceRegular
<1> HIDE DEF g
<1>4. TreeOK'
  <2>1. CASE heap' = heap
    BY <2>1, TreeUnmoved
  <2>2. CASE heap' = g /\ Find(heap, cur, Last(item.path)) = Null
    BY <1>2, <2>2, PutKeeps, TreeKept
  <2> QED BY <1>3, <2>1, <2>2
<1>5. InHand' /\ Kept'
  BY <1>1 DEF InHand, IInv, Kept, PlaceRegular, Return
<1> QED BY <1>2, <1>3, <1>4, <1>5 DEF IInv

\* The steps that leave the heap alone.
Elsewhere ==
    KeepCandidate \/ PlaceOther \/ EndOfInodes \/ (\E p \in todo : TakeCandidate(p))
    \/ EndOfCandidates \/ UNCHANGED vars

LEMMA ElsewhereStep ==
    ASSUME IInv, Elsewhere
    PROVE  IInv' /\ heap' = heap
<1> USE TreeFacts
<1>1. heap' = heap /\ TreeOK'
  <2>1. heap' = heap
    BY DEF Elsewhere, KeepCandidate, PlaceOther, EndOfInodes, TakeCandidate, EndOfCandidates, vars
  <2> QED BY <2>1, TreeUnmoved
<1>2. ASSUME KeepCandidate PROVE InHand' /\ Kept'
  <2>1. pc' = "inodes" /\ todo' = todo
    BY <1>2 DEF KeepCandidate, Return
  <2>2. item.path \in Seq(Names) \ {<<>>} /\ item.ci \in Inodes
    BY <1>2 DEF KeepCandidate, Arrived, IInv, InHand
  <2>3. \/ candidates' = candidates
        \/ candidates' = [q \in DOMAIN candidates \cup {item.path} |->
                             IF q = item.path THEN item.ci ELSE candidates[q]]
    BY <1>2 DEF KeepCandidate
  <2>4. Kept'
    BY <2>1, <2>2, <2>3 DEF IInv, Kept
  <2> QED BY <2>1, <2>4 DEF InHand
<1>3. ASSUME NEW p \in todo, TakeCandidate(p) PROVE InHand' /\ Kept'
  <2>1. p \in Seq(Names) /\ p # <<>> /\ candidates[p] \in Inodes
    BY DEF IInv, Kept
  <2>2. Follows(Front(p), p, Names) /\ Walked(Front(p), p) = <<>>
    BY <2>1, FollowsStart
  <2>3. Resolve(heap, FsDir, <<>>) = FsDir
    BY ResolveEmpty
  <2>4. /\ pc' = "walk_candidate" /\ cur' = FsDir /\ rest' = Front(p)
        /\ item' = [path |-> p, ci |-> candidates[p]]
        /\ candidates' = candidates /\ todo' = todo \ {p}
    BY <1>3 DEF TakeCandidate
  <2>5. Kept'
    BY <2>4 DEF IInv, Kept
  <2> QED BY <1>1, <2>1, <2>2, <2>3, <2>4, <2>5 DEF InHand, At
<1>4. ASSUME PlaceOther PROVE InHand' /\ Kept'
  BY <1>4 DEF PlaceOther, Return, InHand, IInv, Kept
<1>5. ASSUME EndOfInodes \/ EndOfCandidates PROVE InHand' /\ Kept'
  BY <1>5 DEF EndOfInodes, EndOfCandidates, InHand, IInv, Kept
<1>6. ASSUME UNCHANGED vars PROVE InHand' /\ Kept'
  BY <1>6 DEF vars, InHand, IInv, Kept, At
<1> QED BY <1>1, <1>2, <1>3, <1>4, <1>5, <1>6 DEF Elsewhere, IInv

LEMMA NextCases ==
    ASSUME [Next]_vars
    PROVE  \/ \E c \in Inodes : TakeInode(c)
           \/ MakeComponent \/ PlaceDir \/ PlaceLink \/ PlaceRegular
           \/ Elsewhere
  BY DEF Next, Terminating, Elsewhere

LEMMA StepIInv == IInv /\ [Next]_vars => IInv'
  BY NextCases, TakeInodeStep, MakeComponentStep, PlaceDirStep, PlaceLinkStep,
     PlaceRegularStep, ElsewhereStep

(* vfs.h calls it "a hard invariant": whatever inodes the image holds and  *)
(* in whatever order the two loops of Engine::create meet them, no         *)
(* directory of /fs or /files/by-ino ever has two children of one name,    *)
(* and names_ is always the set of the children's names.                   *)
THEOREM NamesUnique == Spec => []UniqueNames
<1>1. IInv => UniqueNames
  <2> SUFFICES ASSUME IInv, NEW d \in Nodes PROVE UniqueIn(heap, d)
    BY DEF UniqueNames
  <2>1. d \in 1..Len(heap)
    BY DEF Nodes, IInv, TreeOK, HeapOK
  <2> QED BY <2>1 DEF IInv, TreeOK, HeapOK, Unique
<1> QED BY <1>1, InitIInv, StepIInv, PTL DEF Spec

(* A step that puts something at a path does so where no directory stands, *)
(* so that a directory's path leads to the same node for good: the         *)
(* shared_ptr get_or_make_dir walks on with, and all that was placed below *)
(* it, are never dropped for a later inode that claims the path.           *)
THEOREM DirectoriesStay == Spec => DirsStay
<1>1. ASSUME IInv, [Next]_vars, NEW p \in Paths, DirAt(p) PROVE At(p)' = At(p)
  <2>1. p \in Seq(AllNames)
    <3>1. PICK c \in Inodes : p \in Prefixes(FsPath(c))
      BY DEF Paths
    <3>2. FsPath(c) \in Seq(AllNames)
      BY FsPathOK, NamesAreNames
    <3>3. PICK k \in 0..Len(FsPath(c)) : p = SubSeq(FsPath(c), 1, k)
      BY <3>1 DEF Prefixes
    <3> QED BY <3>2, <3>3, FirstPart
  <2>2. Entry(heap, FsDir, p).kind = "dir"
    BY <1>1 DEF DirAt, At, Entry, IsDir
  <2>3. CASE heap' = heap
    BY <2>3 DEF At
  <2>4. CASE Alike(heap', heap, FsDir, AllNames)
    BY <2>1, <2>4 DEF At, Alike, AlikeAt
  <2>5. ASSUME NEW t, Entry(heap, FsDir, t).kind # "dir", NEW node,
               Put(heap', heap, FsDir, AllNames, t, node)
        PROVE  At(p)' = At(p)
    BY <2>1, <2>2, <2>5 DEF Put, AlikeAt, At
  <2>6. CASE \E c \in Inodes : TakeInode(c)
    BY <1>1, <2>4, <2>6, TakeInodeStep
  <2>7. CASE MakeComponent
    BY <1>1, <2>3, <2>5, <2>7, MakeComponentStep
  <2>8. CASE PlaceDir
    BY <1>1, <2>3, <2>5, <2>8, PlaceDirStep
  <2>9. CASE PlaceLink
    BY <1>1, <2>3, <2>5, <2>9, PlaceLinkStep
  <2>10. CASE PlaceRegular
    BY <1>1, <2>3, <2>5, <2>10, PlaceRegularStep
  <2>11. CASE Elsewhere
    BY <1>1, <2>3, <2>11, ElsewhereStep
  <2> QED BY <1>1, <2>6, <2>7, <2>8, <2>9, <2>10, <2>11, NextCases
<1>2. IInv /\ [Next]_vars => [\A p \in Paths : DirAt(p) => (At(p)' = At(p))]_vars
  BY <1>1
<1> QED BY <1>2, InitIInv, StepIInv, PTL DEF Spec, DirsStay

-----------------------------------------------------------------------------
(* From here on a tree is what stands at each path.                        *)

Under == Seq(AllNames) \ {<<>>}
E(p) == Entry(heap, FsDir, p)

\* The first loop; the inodes it is through with; the candidates the
\* second is not.
Loop1 == pc \in {"inodes", "walk"}
Done == IF pc = "walk" THEN Taken \ {Len(seen)} ELSE Taken
Pending ==
    IF Loop1 THEN {} ELSE todo \cup (IF pc = "walk_candidate" THEN {item.path} ELSE {})

SeenOK ==
    /\ seen \in Seq(Inodes)
    /\ pc = "walk" =>
        /\ Len(seen) \in Taken
        /\ item = [path |-> FsPath(seen[Len(seen)]), ci |-> seen[Len(seen)]]

\* The i-th inode needs, or is, a directory at p.
MakesDir(i, p) ==
    /\ p \in Prefixes(FsPath(seen[i])) /\ p # <<>>
    /\ FsPath(seen[i]) # p \/ seen[i].type = "dir"

DirsOK ==
    \A p \in Under :
        /\ E(p).kind = "dir" => E(p).ci = Null /\ \E i \in Taken : MakesDir(i, p)
        /\ \A i \in Done : MakesDir(i, p) => E(p).kind = "dir"

\* A link stands for the first inode that claims its path, and is only
\* displaced by a directory.
LinksOK ==
    \A p \in Under :
        /\ E(p).kind = "lnk" =>
             \E i \in Claims(p, "lnk") : E(p).ci = seen[i] /\ \A j \in Claims(p, "lnk") : i <= j
        /\ Claims(p, "lnk") \cap Done # {} => E(p).kind \in {"dir", "lnk"}

Better(i, j) == seen[i].rank > seen[j].rank \/ (seen[i].rank = seen[j].rank /\ i <= j)
Best(p, i) ==
    /\ i \in Claims(p, "reg") \cap Done
    /\ \A j \in Claims(p, "reg") \cap Done : Better(i, j)

CandidatesOK ==
    /\ \A p \in DOMAIN candidates : \E i \in Nat : Best(p, i) /\ candidates[p] = seen[i]
    /\ \A i \in Done : seen[i].type = "reg" => FsPath(seen[i]) \in DOMAIN candidates
    /\ Pending \subseteq DOMAIN candidates
    /\ pc = "walk_candidate" => item.ci = candidates[item.path] /\ item.path \notin todo

\* Regular files are placed by the second loop, one per candidate it is
\* through with, unless the path was taken.
RegularsOK ==
    \A p \in Under :
        /\ Loop1 => E(p).kind # "reg"
        /\ E(p).kind = "reg" => p \in DOMAIN candidates \ Pending /\ E(p).ci = candidates[p]
        /\ ~Loop1 /\ p \in DOMAIN candidates \ Pending => E(p).kind # "none"

RegPaths == {p \in Paths : E(p).kind = "reg"}
CountOK == IsFiniteSet(RegPaths) /\ reg_count = Cardinality(RegPaths)

CInv == SeenOK /\ DirsOK /\ LinksOK /\ CandidatesOK /\ RegularsOK /\ CountOK

LEMMA EntryKind ==
    ASSUME IInv, NEW p \in Seq(AllNames)
    PROVE  /\ E(p).kind \in {"none", "dir", "lnk", "reg"}
           /\ E(p).kind = "none" <=> At(p) = Null
           /\ At(p) # Null => E(p).kind = heap[At(p)].kind /\ E(p).ci = heap[At(p)].ci
<1>1. HeapOK(heap, AllNames, FsKinds, Contents) /\ FsDir \in 1..Len(heap) /\ Len(heap) \in Nat
  BY TreeFacts
<1>2. Resolve(heap, FsDir, p) \in 0..Len(heap)
  BY <1>1, ResolveFacts
<1>3. CASE Resolve(heap, FsDir, p) = Null
  BY <1>3 DEF E, Entry, At
<1>4. CASE Resolve(heap, FsDir, p) # Null
  <2>1. Resolve(heap, FsDir, p) \in 1..Len(heap)
    BY <1>1, <1>2, <1>4 DEF Null
  <2>2. heap[Resolve(heap, FsDir, p)].kind \in FsKinds
    BY <1>1, <2>1, NodeFacts
  <2> QED BY <1>4, <2>2 DEF E, Entry, At, FsKinds
<1> QED BY <1>3, <1>4

\* The paths of the exposed inodes.
LEMMA TakenFacts ==
    ASSUME SeenOK, NEW i \in Taken
    PROVE  /\ i \in 1..Len(seen) /\ i \in Nat
           /\ seen[i] \in Inodes /\ seen[i].rank \in Nat
           /\ FsPath(seen[i]) \in Seq(Names) /\ FsPath(seen[i]) \in Under
           /\ FsPath(seen[i]) \in Paths
<1>1. i \in 1..Len(seen) /\ i \in Nat /\ seen[i] \in Inodes /\ Exposed(seen[i])
  BY DEF SeenOK, Taken
<1>2. FsPath(seen[i]) \in Seq(Names) /\ FsPath(seen[i]) # <<>>
  BY <1>1, FsPathOK DEF Exposed, validate_recovered_fs_path
<1>3. FsPath(seen[i]) \in Prefixes(FsPath(seen[i]))
  BY <1>2, FollowsEnd
<1>4. FsPath(seen[i]) \in Paths
  BY <1>1, <1>2, <1>3 DEF Paths
<1> QED BY <1>1, <1>2, <1>4, NamesAreNames, InodesAssumption DEF Under, IsInode

LEMMA DoneIsTaken == Done \subseteq Taken
  BY DEF Done

\* Paths of the run are paths under fs_dir.
LEMMA PathsUnder == Paths \subseteq Under
<1> SUFFICES ASSUME NEW p \in Paths PROVE p \in Under
  OBVIOUS
<1>1. PICK c \in Inodes : p \in Prefixes(FsPath(c))
  BY DEF Paths
<1>2. FsPath(c) \in Seq(AllNames)
  BY FsPathOK, NamesAreNames
<1>3. PICK k \in 0..Len(FsPath(c)) : p = SubSeq(FsPath(c), 1, k)
  BY <1>1 DEF Prefixes
<1>4. p # <<>>
  BY DEF Paths
<1> QED BY <1>2, <1>3, <1>4, FirstPart DEF Under

\* At the end of a walk every proper prefix is a directory.
LEMMA ParentsThere ==
    ASSUME IInv, pc \in {"walk", "walk_candidate"}, rest = <<>>,
           NEW p \in Prefixes(item.path) \ {<<>>, item.path}
    PROVE  E(p).kind = "dir"
<1>1. /\ item.path \in Seq(Names) /\ item.path # <<>> /\ cur \in 1..Len(heap) /\ IsDir(heap, cur)
      /\ Resolve(heap, FsDir, Walked(<<>>, item.path)) = cur
  BY DEF IInv, InHand, At
<1>2. HeapOK(heap, AllNames, FsKinds, Contents) /\ FsDir \in 1..Len(heap)
  BY TreeFacts
<1> QED BY <1>1, <1>2, ParentDirs DEF E

LEMMA CountSame ==
    ASSUME CountOK, reg_count' = reg_count,
           \A p \in Under : Entry(heap', FsDir, p).kind = "reg" <=> Entry(heap, FsDir, p).kind = "reg"
    PROVE  CountOK'
<1>1. RegPaths' = RegPaths
  BY PathsUnder DEF RegPaths, E
<1> QED BY <1>1 DEF CountOK

LEMMA InitCInv == Init => CInv
<1> SUFFICES ASSUME Init PROVE CInv
  OBVIOUS
<1>1. heap = <<Dir("fs"), Dir("by-ino")>> /\ pc = "inodes" /\ seen = <<>> /\ candidates = <<>>
      /\ todo = {} /\ reg_count = 0
  BY DEF Init
<1>2. IInv
  BY InitIInv
<1>3. heap[FsDir].kids = <<>>
  BY <1>1 DEF FsDir, Dir
<1>4. HeapOK(heap, AllNames, FsKinds, Contents) /\ FsDir \in 1..Len(heap)
  BY <1>2, TreeFacts
<1>5. \A p \in Under : E(p) = [kind |-> "none", ci |-> Null]
  <2>1. \A p \in Seq(AllNames) : p # <<>> => Resolve(heap, FsDir, p) = Null
    BY <1>3, <1>4, EmptyTree
  <2> QED BY <2>1 DEF Under, E, Entry
<1>6. Taken = {} /\ Done = {}
  BY <1>1 DEF Taken, Done
<1>7. \A p : Claims(p, "lnk") = {}
  BY <1>6 DEF Claims
<1>8. DirsOK /\ LinksOK /\ RegularsOK
  BY <1>1, <1>5, <1>6, <1>7 DEF DirsOK, LinksOK, RegularsOK, Loop1
<1>9. SeenOK /\ CandidatesOK
  BY <1>1, <1>6 DEF SeenOK, CandidatesOK, Pending, Loop1
<1>10. RegPaths = {}
  BY <1>5, PathsUnder DEF RegPaths
<1>11. CountOK
  BY <1>1, <1>10, FS_EmptySet DEF CountOK
<1> QED BY <1>8, <1>9, <1>11 DEF CInv

\* An inode is taken: nothing placed so far is claimed by it alone.
LEMMA TakeInodeCanonical ==
    ASSUME IInv, CInv, NEW c \in Inodes, TakeInode(c)
    PROVE  CInv'
<1> DEFINE n == Len(seen) + 1
<1>1. /\ seen \in Seq(Inodes) /\ seen' = Append(seen, c) /\ pc = "inodes"
      /\ candidates' = candidates /\ todo' = todo /\ reg_count' = reg_count
  BY DEF TakeInode, CInv, SeenOK
<1>2. /\ seen' \in Seq(Inodes) /\ Len(seen) \in Nat /\ Len(seen') = n /\ seen'[n] = c
      /\ \A i \in 1..Len(seen) : seen'[i] = seen[i]
      /\ DOMAIN seen = 1..Len(seen) /\ DOMAIN seen' = 1..n
  BY <1>1
<1>3. Taken \subseteq 1..Len(seen) /\ n \notin Taken
  BY <1>2 DEF Taken
<1>4. Taken' = Taken \cup (IF Exposed(c) THEN {n} ELSE {})
  <2>1. \A i \in 1..n : i = n \/ i \in 1..Len(seen)
    BY <1>2
  <2>2. \A i \in 1..Len(seen) : i \in 1..n
    BY <1>2
  <2>3. n \in 1..n
    BY <1>2
  <2> HIDE DEF n
  <2> QED BY <1>2, <2>1, <2>2, <2>3 DEF Taken
<1>5. /\ Exposed(c) => pc' = "walk" /\ item' = [path |-> FsPath(c), ci |-> c]
      /\ ~Exposed(c) => pc' = "inodes"
  BY <1>1 DEF TakeInode
<1>6. Done = Taken /\ Done' = Taken
  BY <1>1, <1>2, <1>3, <1>4, <1>5 DEF Done
<1>7. SeenOK'
  <2>1. Exposed(c) => Len(seen') \in Taken'
    BY <1>2, <1>4
  <2> HIDE DEF n
  <2> QED BY <1>2, <1>5, <2>1 DEF SeenOK
<1>8. \A i \in Taken : seen'[i] = seen[i]
  BY <1>2, <1>3
<1> HIDE DEF n
<1>9. \A p : \A type : /\ Claims(p, type)' \cap Taken = Claims(p, type)
                       /\ Claims(p, type)' \subseteq Claims(p, type) \cup {n}
  BY <1>3, <1>4, <1>8 DEF Claims
<1>10. \A p : \A i \in Taken : MakesDir(i, p)' <=> MakesDir(i, p)
  BY <1>8 DEF MakesDir
<1>11. \A p \in Under : E(p)' = E(p)
  BY TakeInodeStep DEF E, Alike, AlikeAt, Under
<1>12. DirsOK'
  <2> SUFFICES ASSUME NEW p \in Under
               PROVE  /\ E(p)'.kind = "dir" => E(p)'.ci = Null /\ \E i \in Taken' : MakesDir(i, p)'
                      /\ \A i \in Done' : MakesDir(i, p)' => E(p)'.kind = "dir"
    BY DEF DirsOK
  <2>1. /\ E(p).kind = "dir" => E(p).ci = Null /\ \E i \in Taken : MakesDir(i, p)
        /\ \A i \in Done : MakesDir(i, p) => E(p).kind = "dir"
    BY DEF CInv, DirsOK
  <2> QED BY <2>1, <1>4, <1>6, <1>10, <1>11
<1>13. LinksOK'
  <2> SUFFICES ASSUME NEW p \in Under
               PROVE  /\ E(p)'.kind = "lnk" =>
                           \E i \in Claims(p, "lnk")' :
                              E(p)'.ci = seen'[i] /\ \A j \in Claims(p, "lnk")' : i <= j
                      /\ Claims(p, "lnk")' \cap Done' # {} => E(p)'.kind \in {"dir", "lnk"}
    BY DEF LinksOK
  <2>1. /\ E(p).kind = "lnk" =>
             \E i \in Claims(p, "lnk") : E(p).ci = seen[i] /\ \A j \in Claims(p, "lnk") : i <= j
        /\ Claims(p, "lnk") \cap Done # {} => E(p).kind \in {"dir", "lnk"}
    BY DEF CInv, LinksOK
  <2>2. Claims(p, "lnk")' \cap Taken = Claims(p, "lnk") /\ Claims(p, "lnk")' \subseteq Claims(p, "lnk") \cup {n}
    BY <1>9
  <2>3. Claims(p, "lnk") \subseteq Taken
    BY DEF Claims
  <2>4. ASSUME E(p).kind = "lnk"
        PROVE  \E i \in Claims(p, "lnk")' : E(p).ci = seen'[i] /\ \A j \in Claims(p, "lnk")' : i <= j
    <3>1. PICK i \in Claims(p, "lnk") : E(p).ci = seen[i] /\ \A j \in Claims(p, "lnk") : i <= j
      BY <2>1, <2>4
    <3>2. i <= n
      <4>1. i \in Taken
        BY <2>3
      <4>2. i \in 1..Len(seen)
        BY <1>3, <4>1
      <4>3. Len(seen) \in Nat
        BY <1>2
      <4> QED BY <4>2, <4>3 DEF n
    <3> QED BY <1>8, <2>2, <2>3, <3>1, <3>2
  <2> QED BY <2>1, <2>2, <2>3, <2>4, <1>6, <1>11
<1>14. /\ CandidatesOK /\ Pending = {} /\ pc' \in {"inodes", "walk"}
  BY <1>1, <1>5 DEF CInv, Pending, Loop1
<1>15. CandidatesOK'
  <2>1. Pending' = {}
    BY <1>14 DEF Pending, Loop1
  <2>2. \A p : \A i : Best(p, i)' <=> Best(p, i)
    <3> SUFFICES ASSUME NEW p, NEW i PROVE Best(p, i)' <=> Best(p, i)
      OBVIOUS
    <3>1. Claims(p, "reg")' \cap Done' = Claims(p, "reg") \cap Done
      BY <1>6, <1>9
    <3>2. \A k, j \in Done : Better(k, j)' <=> Better(k, j)
      BY <1>6, <1>8 DEF Better
    <3> QED BY <3>1, <3>2 DEF Best
  <2>3. \A p : \A i : Best(p, i) => seen'[i] = seen[i]
    BY <1>6, <1>8 DEF Best
  <2>4. \A p \in DOMAIN candidates : \E i \in Nat : Best(p, i)' /\ candidates[p] = seen'[i]
    BY <1>14, <2>2, <2>3 DEF CandidatesOK
  <2>5. \A i \in Done' : seen'[i].type = "reg" => FsPath(seen'[i]) \in DOMAIN candidates
    BY <1>6, <1>8, <1>14 DEF CandidatesOK
  <2>6. pc' # "walk_candidate"
    BY <1>14
  <2> QED BY <1>1, <2>1, <2>4, <2>5, <2>6 DEF CandidatesOK
<1>16. RegularsOK'
  <2>1. Loop1 /\ Loop1'
    BY <1>1, <1>14 DEF Loop1
  <2> QED BY <1>11, <2>1 DEF CInv, RegularsOK
<1>17. CountOK'
  BY <1>1, <1>11, CountSame DEF CInv, E
<1> QED BY <1>7, <1>12, <1>13, <1>15, <1>16, <1>17 DEF CInv

\* What does not change when seen does not.
LEMMA SeenSame ==
    ASSUME seen' = seen
    PROVE  /\ Taken' = Taken
           /\ \A p : \A type : Claims(p, type)' = Claims(p, type)
           /\ \A i : \A p : MakesDir(i, p)' <=> MakesDir(i, p)
           /\ \A i : \A j : Better(i, j)' <=> Better(i, j)
  BY DEF Taken, Claims, MakesDir, Better

\* What stands at the other paths when a node is put at t.
LEMMA PutElsewhere ==
    ASSUME NEW t, NEW node, Put(heap', heap, FsDir, AllNames, t, node)
    PROVE  /\ \A p \in Under : p # t => Entry(heap', FsDir, p) = Entry(heap, FsDir, p)
           /\ Entry(heap', FsDir, t) = [kind |-> node.kind, ci |-> node.ci]
  BY DEF Put, AlikeAt, Under

\* A turn of get_or_make_dir: the first loop makes a directory the inode in
\* hand needs, the second finds one.
LEMMA MakeComponentCanonical ==
    ASSUME IInv, CInv, MakeComponent
    PROVE  CInv'
<1>1. PICK t : /\ t = Walked(rest', item.path)
               /\ t \in Prefixes(item.path) \ {<<>>, item.path} /\ t \in Seq(Names)
               /\ \/ Entry(heap, FsDir, t).kind = "dir" /\ heap' = heap
                  \/ /\ Entry(heap, FsDir, t).kind # "dir"
                     /\ \E name : Put(heap', heap, FsDir, AllNames, t, Dir(name))
  BY MakeComponentStep
<1>2. /\ pc' = pc /\ seen' = seen /\ item' = item /\ candidates' = candidates
      /\ todo' = todo /\ reg_count' = reg_count
      /\ pc \in {"walk", "walk_candidate"}
  BY DEF MakeComponent
<1>3. /\ Taken' = Taken /\ \A p : \A type : Claims(p, type)' = Claims(p, type)
      /\ \A i : \A p : MakesDir(i, p)' <=> MakesDir(i, p)
      /\ \A i : \A j : Better(i, j)' <=> Better(i, j)
  BY <1>2, SeenSame
<1>4. Done' = Done /\ Pending' = Pending /\ Loop1' = Loop1
  BY <1>2, <1>3 DEF Done, Pending, Loop1
<1>5. t \in Under
  BY <1>1, NamesAreNames DEF Under
<1>6. \A p : \A i : Best(p, i)' <=> Best(p, i)
  BY <1>3, <1>4 DEF Best
<1>7. SeenOK' /\ CandidatesOK'
  BY <1>2, <1>3, <1>4, <1>6 DEF CInv, SeenOK, CandidatesOK
<1>8. CASE heap' = heap
  <2>1. \A p : E(p)' = E(p)
    BY <1>8 DEF E
  <2>2. DirsOK' /\ LinksOK'
    BY <1>2, <1>3, <1>4, <2>1 DEF CInv, DirsOK, LinksOK
  <2>3. RegularsOK'
    BY <1>2, <1>4, <2>1 DEF CInv, RegularsOK
  <2>4. CountOK'
    BY <1>2, <1>8, CountSame DEF CInv
  <2> QED BY <1>7, <2>2, <2>3, <2>4 DEF CInv
<1>9. CASE heap' # heap
  <2>1. PICK name : /\ E(t).kind # "dir"
                    /\ Put(heap', heap, FsDir, AllNames, t, Dir(name))
    BY <1>1, <1>9 DEF E
  <2>2. /\ \A p \in Under : p # t => E(p)' = E(p)
        /\ Entry(heap', FsDir, t).kind = "dir" /\ Entry(heap', FsDir, t).ci = Null
    BY <2>1, PutElsewhere DEF E, Dir
  <2>3. /\ E(t)'.kind = "dir" /\ E(t)'.ci = Null
    BY <2>2 DEF E
  <2>4. pc = "walk"
    <3> SUFFICES ASSUME pc = "walk_candidate" PROVE FALSE
      BY <1>2
    <3>1. item.path \in DOMAIN candidates
      BY DEF CInv, CandidatesOK, Pending, Loop1
    <3>2. PICK i \in Done : FsPath(seen[i]) = item.path
      BY <3>1 DEF CInv, CandidatesOK, Best, Claims
    <3>3. MakesDir(i, t)
      BY <1>1, <3>2 DEF MakesDir
    <3> QED BY <1>5, <2>1, <3>3 DEF CInv, DirsOK
  <2>5. \E i \in Taken : MakesDir(i, t)
    <3>1. Len(seen) \in Taken /\ item.path = FsPath(seen[Len(seen)])
      BY <2>4 DEF CInv, SeenOK
    <3> QED BY <1>1, <3>1 DEF MakesDir
  <2>6. Loop1
    BY <2>4 DEF Loop1
  <2>7. DirsOK'
    <3> SUFFICES ASSUME NEW p \in Under
                 PROVE  /\ E(p)'.kind = "dir" => E(p)'.ci = Null /\ \E i \in Taken' : MakesDir(i, p)'
                        /\ \A i \in Done' : MakesDir(i, p)' => E(p)'.kind = "dir"
      BY DEF DirsOK
    <3>1. CASE p = t
      BY <1>3, <2>3, <2>5, <3>1
    <3>2. CASE p # t
      BY <1>3, <1>4, <2>2, <3>2 DEF CInv, DirsOK
    <3> QED BY <3>1, <3>2
  <2>8. LinksOK'
    <3> SUFFICES ASSUME NEW p \in Under
                 PROVE  /\ E(p)'.kind = "lnk" =>
                             \E i \in Claims(p, "lnk")' :
                                E(p)'.ci = seen'[i] /\ \A j \in Claims(p, "lnk")' : i <= j
                        /\ Claims(p, "lnk")' \cap Done' # {} => E(p)'.kind \in {"dir", "lnk"}
      BY DEF LinksOK
    <3>1. CASE p = t
      BY <2>3, <3>1
    <3>2. CASE p # t
      BY <1>2, <1>3, <1>4, <2>2, <3>2 DEF CInv, LinksOK
    <3> QED BY <3>1, <3>2
  <2>9. \A p \in Under : E(p).kind # "reg" /\ E(p)'.kind # "reg"
    BY <2>2, <2>3, <2>6 DEF CInv, RegularsOK
  <2>10. RegularsOK'
    BY <1>4, <2>6, <2>9 DEF RegularsOK
  <2>11. CountOK'
    BY <1>2, <2>9, CountSame DEF CInv, E
  <2> QED BY <1>7, <2>7, <2>8, <2>10, <2>11 DEF CInv
<1> QED BY <1>8, <1>9

\* The first loop is through with the inode in hand.
LEMMA DoneGrows ==
    ASSUME CInv, pc = "walk", pc' = "inodes", seen' = seen
    PROVE  /\ Done' = Done \cup {Len(seen)} /\ Len(seen) \in Taken /\ Len(seen) \notin Done
           /\ \A j \in Done : j <= Len(seen)
<1>1. Len(seen) \in Taken /\ Taken' = Taken /\ seen \in Seq(Inodes)
  BY SeenSame DEF CInv, SeenOK
<1>2. Len(seen) \in Nat /\ Taken \subseteq 1..Len(seen)
  BY <1>1 DEF Taken
<1> QED BY <1>1, <1>2 DEF Done

\* What its type asked for is at its path.
ArrivedWith(old, new, c) ==
    \/ /\ new = old
       /\ c.type = "dir" => old.kind = "dir"
       /\ c.type = "lnk" => old.kind # "none"
    \/ c.type = "dir" /\ old.kind # "dir" /\ new.kind = "dir" /\ new.ci = Null
    \/ c.type = "lnk" /\ old.kind = "none" /\ new.kind = "lnk" /\ new.ci = c

LEMMA ArrivalCanonical ==
    ASSUME IInv, CInv, pc = "walk", rest = <<>>, pc' = "inodes", seen' = seen,
           reg_count' = reg_count,
           \A p \in Under : p # item.path => Entry(heap', FsDir, p) = Entry(heap, FsDir, p),
           ArrivedWith(Entry(heap, FsDir, item.path), Entry(heap', FsDir, item.path), item.ci)
    PROVE  SeenOK' /\ DirsOK' /\ LinksOK' /\ RegularsOK' /\ CountOK'
<1> DEFINE n == Len(seen)
<1>1. /\ Done' = Done \cup {n} /\ n \in Taken /\ n \notin Done /\ \A j \in Done : j <= n
  BY DoneGrows
<1>2. PICK t : t = item.path
  OBVIOUS
<1>3. SeenOK /\ t = FsPath(seen[n]) /\ item.ci = seen[n] /\ t \in Under /\ n \in Nat
  <2>1. SeenOK /\ t = FsPath(seen[n]) /\ item.ci = seen[n]
    BY <1>2 DEF CInv, SeenOK
  <2> QED BY <1>1, <2>1, TakenFacts
<1>4. /\ Taken' = Taken /\ \A p : \A type : Claims(p, type)' = Claims(p, type)
      /\ \A i : \A p : MakesDir(i, p)' <=> MakesDir(i, p)
  BY SeenSame
<1>5. /\ \A p \in Under : p # t => E(p)' = E(p)
      /\ ArrivedWith(E(t), Entry(heap', FsDir, t), seen[n])
  BY <1>2, <1>3 DEF E
<1>6. ArrivedWith(E(t), E(t)', seen[n])
  BY <1>5 DEF E
<1>7. Loop1 /\ Loop1'
  BY DEF Loop1
<1>8. \A p \in Under : E(p).kind # "reg"
  BY <1>7 DEF CInv, RegularsOK
<1>9. \A p \in Under : E(p)'.kind # "reg"
  <2>1. E(t)'.kind # "reg"
    BY <1>3, <1>6, <1>8 DEF ArrivedWith
  <2> QED BY <1>5, <1>8, <2>1
<1> HIDE DEF n
<1>10. DirsOK'
  <2> SUFFICES ASSUME NEW p \in Under
               PROVE  /\ E(p)'.kind = "dir" => E(p)'.ci = Null /\ \E i \in Taken : MakesDir(i, p)
                      /\ \A i \in Done' : MakesDir(i, p) => E(p)'.kind = "dir"
    BY <1>4 DEF DirsOK
  <2>1. /\ E(p).kind = "dir" => E(p).ci = Null /\ \E i \in Taken : MakesDir(i, p)
        /\ \A i \in Done : MakesDir(i, p) => E(p).kind = "dir"
    BY DEF CInv, DirsOK
  <2>2. CASE p = t
    <3>1. seen[n].type = "dir" => MakesDir(n, t)
      <4>1. t \in Prefixes(t) /\ t # <<>>
        BY <1>1, <1>3, TakenFacts, FollowsEnd DEF Under
      <4> QED BY <1>3, <4>1 DEF MakesDir
    <3>2. MakesDir(n, t) => seen[n].type = "dir"
      BY <1>3 DEF MakesDir
    <3>3. E(t).kind = "dir" => E(t)' = E(t)
      BY <1>6 DEF ArrivedWith
    <3>4. E(t)'.kind = "dir" => E(t).kind = "dir" \/ (seen[n].type = "dir" /\ E(t)'.ci = Null)
      BY <1>6 DEF ArrivedWith
    <3>5. seen[n].type = "dir" => E(t)'.kind = "dir"
      BY <1>6 DEF ArrivedWith
    <3> QED BY <1>1, <2>1, <2>2, <3>1, <3>2, <3>3, <3>4, <3>5
  <2>3. CASE p # t
    <3>1. E(p)' = E(p)
      BY <1>5, <2>3
    <3>2. MakesDir(n, p) => E(p).kind = "dir"
      BY <1>2, <1>3, <2>3, ParentsThere DEF MakesDir
    <3> QED BY <1>1, <2>1, <3>1, <3>2
  <2> QED BY <2>2, <2>3
<1>11. LinksOK'
  <2> SUFFICES ASSUME NEW p \in Under
               PROVE  /\ E(p)'.kind = "lnk" =>
                           \E i \in Claims(p, "lnk") :
                              E(p)'.ci = seen[i] /\ \A j \in Claims(p, "lnk") : i <= j
                      /\ Claims(p, "lnk") \cap Done' # {} => E(p)'.kind \in {"dir", "lnk"}
    BY <1>4 DEF LinksOK
  <2>1. /\ E(p).kind = "lnk" =>
             \E i \in Claims(p, "lnk") : E(p).ci = seen[i] /\ \A j \in Claims(p, "lnk") : i <= j
        /\ Claims(p, "lnk") \cap Done # {} => E(p).kind \in {"dir", "lnk"}
    BY DEF CInv, LinksOK
  <2>2. Claims(p, "lnk") \subseteq Taken /\ Taken \subseteq Done \cup {n}
    BY DEF Claims, Done, n
  <2>3. CASE p = t
    <3>1. n \in Claims(t, "lnk") <=> seen[n].type = "lnk"
      BY <1>1, <1>3 DEF Claims
    <3>2. E(t).kind \in {"none", "dir", "lnk", "reg"}
      BY <1>3, EntryKind DEF Under
    <3>3. CASE E(t)' = E(t)
      <4>1. seen[n].type = "lnk" => E(t).kind \in {"dir", "lnk"}
        <5>1. seen[n].type = "lnk" => E(t).kind # "none"
          BY <1>6, <3>3 DEF ArrivedWith
        <5> QED BY <1>3, <1>8, <3>2, <5>1
      <4> QED BY <1>1, <2>1, <2>2, <2>3, <3>1, <3>3, <4>1
    <3>4. CASE E(t)' # E(t) /\ E(t)'.kind = "dir"
      BY <2>3, <3>4
    <3>5. CASE E(t)' # E(t) /\ E(t)'.kind # "dir"
      <4>1. seen[n].type = "lnk" /\ E(t).kind = "none" /\ E(t)'.kind = "lnk" /\ E(t)'.ci = seen[n]
        BY <1>6, <3>5 DEF ArrivedWith
      <4>2. Claims(t, "lnk") \cap Done = {}
        BY <2>1, <2>3, <4>1
      <4>3. Claims(t, "lnk") = {n}
        BY <2>2, <2>3, <3>1, <4>1, <4>2
      <4> QED BY <1>3, <2>3, <4>1, <4>3
    <3> QED BY <3>3, <3>4, <3>5
  <2>4. CASE p # t
    <3>1. E(p)' = E(p)
      BY <1>5, <2>4
    <3>2. n \notin Claims(p, "lnk")
      BY <1>3, <2>4 DEF Claims
    <3> QED BY <1>1, <2>1, <3>1, <3>2
  <2> QED BY <2>3, <2>4
<1>12. RegularsOK'
  BY <1>7, <1>9 DEF RegularsOK
<1>13. CountOK'
  BY <1>8, <1>9, CountSame DEF CInv, E
<1>14. SeenOK'
  BY <1>3 DEF SeenOK
<1> QED BY <1>10, <1>11, <1>12, <1>13, <1>14

\* The candidates, when the inode in hand is no regular file.
LEMMA CandidatesSame ==
    ASSUME CInv, pc = "walk", pc' = "inodes", seen' = seen, candidates' = candidates,
           item.ci.type # "reg"
    PROVE  CandidatesOK'
<1> DEFINE n == Len(seen)
<1>1. Done' = Done \cup {n} /\ n \notin Done /\ item.ci = seen[n]
  BY DoneGrows DEF CInv, SeenOK
<1>2. /\ \A p : \A type : Claims(p, type)' = Claims(p, type)
      /\ \A i : \A j : Better(i, j)' <=> Better(i, j)
  BY SeenSame
<1>3. \A p : n \notin Claims(p, "reg")
  BY <1>1 DEF Claims
<1> HIDE DEF n
<1>4. \A p : \A i : Best(p, i)' <=> Best(p, i)
  BY <1>1, <1>2, <1>3 DEF Best
<1>5. CandidatesOK /\ Pending' = {}
  BY DEF CInv, Pending, Loop1
<1>6. \A p \in DOMAIN candidates : \E i \in Nat : Best(p, i)' /\ candidates[p] = seen'[i]
  BY <1>4, <1>5 DEF CandidatesOK
<1>7. \A i \in Done' : seen[i].type = "reg" => FsPath(seen[i]) \in DOMAIN candidates
  BY <1>1, <1>5 DEF CandidatesOK
<1> QED BY <1>5, <1>6, <1>7 DEF CandidatesOK

LEMMA PlaceDirCanonical == IInv /\ CInv /\ PlaceDir => CInv'
<1> SUFFICES ASSUME IInv, CInv, PlaceDir PROVE CInv'
  OBVIOUS
<1>1. /\ pc = "walk" /\ rest = <<>> /\ item.ci.type = "dir" /\ pc' = "inodes" /\ seen' = seen
      /\ candidates' = candidates /\ reg_count' = reg_count
  BY DEF PlaceDir, Arrived, Return
<1>2. PICK t : t = item.path
  OBVIOUS
<1>3. \/ Entry(heap, FsDir, t).kind = "dir" /\ heap' = heap
      \/ /\ Entry(heap, FsDir, t).kind # "dir"
         /\ \E name : Put(heap', heap, FsDir, AllNames, t, Dir(name))
  BY <1>2, PlaceDirStep
<1>4. /\ \A p \in Under : p # t => Entry(heap', FsDir, p) = Entry(heap, FsDir, p)
      /\ ArrivedWith(Entry(heap, FsDir, t), Entry(heap', FsDir, t), item.ci)
  <2>1. CASE Entry(heap, FsDir, t).kind = "dir"
    <3>1. heap' = heap
      BY <1>3, <2>1
    <3>2. Entry(heap', FsDir, t) = Entry(heap, FsDir, t)
      BY <3>1
    <3> QED BY <1>1, <2>1, <3>1, <3>2 DEF ArrivedWith
  <2>2. CASE Entry(heap, FsDir, t).kind # "dir"
    <3>1. PICK name : Put(heap', heap, FsDir, AllNames, t, Dir(name))
      BY <1>3, <2>2
    <3>2. /\ \A p \in Under : p # t => Entry(heap', FsDir, p) = Entry(heap, FsDir, p)
          /\ Entry(heap', FsDir, t) = [kind |-> Dir(name).kind, ci |-> Dir(name).ci]
      BY <3>1, PutElsewhere
    <3>3. Dir(name).kind = "dir" /\ Dir(name).ci = Null
      BY DEF Dir
    <3> QED BY <1>1, <1>3, <2>2, <3>2, <3>3 DEF ArrivedWith
  <2> QED BY <2>1, <2>2
<1>5. CandidatesOK'
  BY <1>1, CandidatesSame
<1> QED BY <1>1, <1>2, <1>4, <1>5, ArrivalCanonical DEF CInv

LEMMA PlaceLinkCanonical == IInv /\ CInv /\ PlaceLink => CInv'
<1> SUFFICES ASSUME IInv, CInv, PlaceLink PROVE CInv'
  OBVIOUS
<1>1. /\ pc = "walk" /\ rest = <<>> /\ item.ci.type = "lnk" /\ pc' = "inodes" /\ seen' = seen
      /\ candidates' = candidates /\ reg_count' = reg_count
  BY DEF PlaceLink, Arrived, Return
<1>2. PICK t : t = item.path
  OBVIOUS
<1>3. \/ Entry(heap, FsDir, t).kind # "none" /\ heap' = heap
      \/ /\ Entry(heap, FsDir, t).kind = "none"
         /\ \E node : /\ node.kind = "lnk" /\ node.ci = item.ci
                      /\ Put(heap', heap, FsDir, AllNames, t, node)
  BY <1>2, PlaceLinkStep
<1>4. /\ \A p \in Under : p # t => Entry(heap', FsDir, p) = Entry(heap, FsDir, p)
      /\ ArrivedWith(Entry(heap, FsDir, t), Entry(heap', FsDir, t), item.ci)
  <2>1. CASE Entry(heap, FsDir, t).kind # "none"
    BY <1>1, <1>3, <2>1 DEF ArrivedWith
  <2>2. CASE Entry(heap, FsDir, t).kind = "none"
    <3>1. PICK node : /\ node.kind = "lnk" /\ node.ci = item.ci
                      /\ Put(heap', heap, FsDir, AllNames, t, node)
      BY <1>3, <2>2
    <3>2. /\ \A p \in Under : p # t => Entry(heap', FsDir, p) = Entry(heap, FsDir, p)
          /\ Entry(heap', FsDir, t) = [kind |-> node.kind, ci |-> node.ci]
      BY <3>1, PutElsewhere
    <3> QED BY <1>1, <2>2, <3>1, <3>2 DEF ArrivedWith
  <2> QED BY <2>1, <2>2
<1>5. CandidatesOK'
  BY <1>1, CandidatesSame
<1> QED BY <1>1, <1>2, <1>4, <1>5, ArrivalCanonical DEF CInv

LEMMA PlaceOtherCanonical == IInv /\ CInv /\ PlaceOther => CInv'
<1> SUFFICES ASSUME IInv, CInv, PlaceOther PROVE CInv'
  OBVIOUS
<1>1. /\ pc = "walk" /\ rest = <<>> /\ item.ci.type = "other" /\ pc' = "inodes" /\ seen' = seen
      /\ candidates' = candidates /\ reg_count' = reg_count /\ heap' = heap
  BY DEF PlaceOther, Arrived, Return
<1>2. ArrivedWith(Entry(heap, FsDir, item.path), Entry(heap', FsDir, item.path), item.ci)
  BY <1>1 DEF ArrivedWith
<1>3. CandidatesOK'
  BY <1>1, CandidatesSame
<1> QED BY <1>1, <1>2, <1>3, ArrivalCanonical DEF CInv

\* Of two claims one is the better, and better is transitive.
LEMMA BetterOrder ==
    ASSUME SeenOK
    PROVE  /\ \A i \in Taken : Better(i, i)
           /\ \A i, j, k \in Taken : Better(i, j) /\ Better(j, k) => Better(i, k)
           /\ \A i, j \in Taken : Better(i, j) /\ Better(j, i) => i = j
<1>1. \A i \in Taken : i \in Nat /\ seen[i].rank \in Nat
  BY TakenFacts
<1>2. \A i \in Taken : Better(i, i)
  BY <1>1 DEF Better
<1>3. ASSUME NEW i \in Taken, NEW j \in Taken, NEW k \in Taken, Better(i, j), Better(j, k)
      PROVE  Better(i, k)
  <2>1. /\ i \in Nat /\ j \in Nat /\ k \in Nat
        /\ seen[i].rank \in Nat /\ seen[j].rank \in Nat /\ seen[k].rank \in Nat
    BY <1>1
  <2> QED BY <1>3, <2>1 DEF Better
<1>4. ASSUME NEW i \in Taken, NEW j \in Taken, Better(i, j), Better(j, i) PROVE i = j
  <2>1. i \in Nat /\ j \in Nat /\ seen[i].rank \in Nat /\ seen[j].rank \in Nat
    BY <1>1
  <2> QED BY <1>4, <2>1 DEF Better
<1> QED BY <1>2, <1>3, <1>4

\* better_regular keeps the best of the claims met so far, of equals the
\* first.
LEMMA KeepCandidateCanonical == IInv /\ CInv /\ KeepCandidate => CInv'
<1> SUFFICES ASSUME IInv, CInv, KeepCandidate PROVE CInv'
  OBVIOUS
<1> DEFINE K == candidates
<1>0. PICK n : n = Len(seen)
  OBVIOUS
<1>1. /\ pc = "walk" /\ rest = <<>> /\ item.ci.type = "reg" /\ pc' = "inodes" /\ seen' = seen
      /\ heap' = heap /\ reg_count' = reg_count
  BY DEF KeepCandidate, Arrived, Return
<1>2. ArrivedWith(Entry(heap, FsDir, item.path), Entry(heap', FsDir, item.path), item.ci)
  BY <1>1 DEF ArrivedWith
<1>3. SeenOK' /\ DirsOK' /\ LinksOK' /\ RegularsOK' /\ CountOK'
  BY <1>1, <1>2, ArrivalCanonical
<1>4. /\ Done' = Done \cup {n} /\ n \in Taken /\ n \notin Done /\ \A j \in Done : j <= n
  BY <1>0, <1>1, DoneGrows
<1>5. PICK t, c : t = item.path /\ c = item.ci
  OBVIOUS
<1>6. SeenOK /\ t = FsPath(seen[n]) /\ c = seen[n] /\ c.type = "reg" /\ n \in Nat
  BY <1>0, <1>1, <1>4, <1>5, TakenFacts DEF CInv, SeenOK
<1>7. /\ \A p : \A type : Claims(p, type)' = Claims(p, type)
      /\ \A i : \A j : Better(i, j)' <=> Better(i, j)
  BY <1>1, SeenSame
<1>8. /\ \A p : p # t => Claims(p, "reg") \cap Done' = Claims(p, "reg") \cap Done
      /\ Claims(t, "reg") \cap Done' = (Claims(t, "reg") \cap Done) \cup {n}
  BY <1>4, <1>6 DEF Claims
<1>9. \A p : \A i : p # t => (Best(p, i)' <=> Best(p, i))
  BY <1>7, <1>8 DEF Best
<1>10. CandidatesOK /\ Pending' = {} /\ Done \subseteq Taken
  BY <1>1 DEF CInv, Pending, Loop1, Done
<1>11. \A p \in DOMAIN K : \E i \in Nat : Best(p, i) /\ K[p] = seen[i]
  BY <1>10 DEF CandidatesOK
<1>12. \A i \in Done : seen[i].type = "reg" => FsPath(seen[i]) \in DOMAIN K
  BY <1>10 DEF CandidatesOK
<1>13. CASE t \in DOMAIN K /\ ~(c.rank > K[t].rank)
  <2>1. candidates' = K
    BY <1>5, <1>13 DEF KeepCandidate
  <2>2. PICK i \in Nat : Best(t, i) /\ K[t] = seen[i]
    BY <1>11, <1>13
  <2>3. i \in Done /\ i \in Taken /\ seen[i].rank \in Nat /\ seen[n].rank \in Nat /\ i <= n
    BY <1>4, <1>6, <1>10, <2>2, TakenFacts DEF Best
  <2>4. Better(i, n)
    BY <1>6, <1>13, <2>2, <2>3 DEF Better
  <2>5. Best(t, i)'
    BY <1>7, <1>8, <2>2, <2>4 DEF Best
  <2>6. \A p \in DOMAIN K : \E j \in Nat : Best(p, j)' /\ K[p] = seen[j]
    BY <1>9, <1>11, <2>2, <2>5
  <2>7. \A j \in Done' : seen[j].type = "reg" => FsPath(seen[j]) \in DOMAIN K
    BY <1>4, <1>6, <1>12, <1>13
  <2>8. CandidatesOK'
    BY <1>1, <1>10, <2>1, <2>6, <2>7 DEF CandidatesOK
  <2> QED BY <1>3, <2>8 DEF CInv
<1>14. CASE ~(t \in DOMAIN K /\ ~(c.rank > K[t].rank))
  <2>1. candidates' = [q \in DOMAIN K \cup {t} |-> IF q = t THEN c ELSE K[q]]
    BY <1>5, <1>14 DEF KeepCandidate
  <2> HIDE DEF K
  <2>2. \A j \in Claims(t, "reg") \cap Done : Better(n, j)
    <3> SUFFICES ASSUME NEW j \in Claims(t, "reg") \cap Done PROVE Better(n, j)
      OBVIOUS
    <3>1. t \in DOMAIN K
      BY <1>12 DEF Claims
    <3>2. PICK i \in Nat : Best(t, i) /\ K[t] = seen[i]
      BY <1>11, <3>1
    <3>3. Better(n, i)
      BY <1>6, <1>14, <3>1, <3>2 DEF Better
    <3>4. Better(i, j) /\ i \in Taken /\ j \in Taken
      BY <1>10, <3>2 DEF Best
    <3> QED BY <1>4, <1>6, <3>3, <3>4, BetterOrder
  <2>3. Best(t, n)'
    <3>1. Better(n, n)
      BY <1>4, <1>6, BetterOrder
    <3>2. n \in Claims(t, "reg")' \cap Done'
      BY <1>7, <1>8
    <3>3. \A j \in Claims(t, "reg")' \cap Done' : Better(n, j)
      BY <1>7, <1>8, <2>2, <3>1
    <3>4. \A j \in Claims(t, "reg")' \cap Done' : Better(n, j)'
      BY <1>7, <3>3
    <3> QED BY <3>2, <3>4 DEF Best
  <2>4. \A p \in DOMAIN candidates' : \E j \in Nat : Best(p, j)' /\ candidates'[p] = seen[j]
    <3> SUFFICES ASSUME NEW p \in DOMAIN K \cup {t}
                 PROVE  \E j \in Nat : Best(p, j)' /\ candidates'[p] = seen[j]
      BY <2>1
    <3>1. CASE p = t
      <4>1. candidates'[p] = c
        BY <2>1, <3>1
      <4>2. Best(p, n)' /\ candidates'[p] = seen[n]
        BY <1>6, <2>3, <3>1, <4>1
      <4> QED BY <1>6, <4>2
    <3>2. CASE p # t
      BY <1>9, <1>11, <2>1, <3>2
    <3> QED BY <3>1, <3>2
  <2>5. \A j \in Done' : seen[j].type = "reg" => FsPath(seen[j]) \in DOMAIN candidates'
    BY <1>4, <1>6, <1>12, <2>1
  <2>6. CandidatesOK'
    BY <1>1, <1>10, <2>4, <2>5 DEF CandidatesOK
  <2> QED BY <1>3, <2>6 DEF CInv
<1> QED BY <1>13, <1>14

\* A regular file is placed where nothing stood, and counted.
LEMMA PlaceRegularCanonical == IInv /\ CInv /\ PlaceRegular => CInv'
<1> SUFFICES ASSUME IInv, CInv, PlaceRegular PROVE CInv'
  OBVIOUS
<1>1. /\ pc = "walk_candidate" /\ rest = <<>> /\ pc' = "candidates" /\ seen' = seen
      /\ candidates' = candidates /\ todo' = todo
  BY DEF PlaceRegular, Arrived, Return
<1>2. PICK t : t = item.path
  OBVIOUS
<1>3. \/ E(t).kind # "none" /\ heap' = heap /\ reg_count' = reg_count
      \/ /\ E(t).kind = "none" /\ reg_count' = reg_count + 1
         /\ \E node : /\ node.kind = "reg" /\ node.ci = item.ci
                      /\ Put(heap', heap, FsDir, AllNames, t, node)
  BY <1>2, PlaceRegularStep DEF E
<1>4. /\ Taken' = Taken /\ \A p : \A type : Claims(p, type)' = Claims(p, type)
      /\ \A i : \A p : MakesDir(i, p)' <=> MakesDir(i, p)
      /\ \A i : \A j : Better(i, j)' <=> Better(i, j)
  BY <1>1, SeenSame
<1>5. /\ Done' = Done /\ ~Loop1 /\ ~Loop1'
      /\ Pending = todo \cup {t} /\ Pending' = todo
  BY <1>1, <1>2, <1>4 DEF Done, Pending, Loop1
<1>6. /\ CandidatesOK /\ t \in DOMAIN candidates /\ t \notin todo /\ item.ci = candidates[t]
  BY <1>1, <1>2, <1>5 DEF CInv, CandidatesOK
<1>7. t \in Under /\ t \in Paths
  <2>1. PICK i \in Done : FsPath(seen[i]) = t
    BY <1>6 DEF CandidatesOK, Best, Claims
  <2>2. SeenOK /\ i \in Taken
    BY DEF CInv, Done
  <2> QED BY <2>1, <2>2, TakenFacts
<1>8. \A p : \A i : Best(p, i)' <=> Best(p, i)
  BY <1>4, <1>5 DEF Best
<1>9. CandidatesOK'
  BY <1>1, <1>4, <1>5, <1>6, <1>8 DEF CandidatesOK
<1>10. SeenOK'
  BY <1>1 DEF CInv, SeenOK
<1>11. CASE E(t).kind # "none"
  <2>1. heap' = heap /\ reg_count' = reg_count
    BY <1>3, <1>11
  <2>2. \A p : E(p)' = E(p)
    BY <2>1 DEF E
  <2>3. DirsOK' /\ LinksOK'
    BY <1>1, <1>4, <1>5, <2>2 DEF CInv, DirsOK, LinksOK
  <2>4. RegularsOK'
    BY <1>1, <1>5, <1>11, <2>2 DEF CInv, RegularsOK
  <2>5. CountOK'
    BY <2>1, CountSame DEF CInv
  <2> QED BY <1>9, <1>10, <2>3, <2>4, <2>5 DEF CInv
<1>12. CASE E(t).kind = "none"
  <2>1. PICK node : /\ node.kind = "reg" /\ node.ci = candidates[t]
                    /\ Put(heap', heap, FsDir, AllNames, t, node)
    BY <1>3, <1>6, <1>12
  <2>2. /\ \A p \in Under : p # t => E(p)' = E(p)
        /\ E(t)'.kind = "reg" /\ E(t)'.ci = candidates[t]
    <3>1. /\ \A p \in Under : p # t => Entry(heap', FsDir, p) = Entry(heap, FsDir, p)
          /\ Entry(heap', FsDir, t).kind = "reg" /\ Entry(heap', FsDir, t).ci = candidates[t]
      BY <2>1, PutElsewhere
    <3> QED BY <3>1 DEF E
  <2>3. DirsOK'
    <3> SUFFICES ASSUME NEW p \in Under
                 PROVE  /\ E(p)'.kind = "dir" => E(p)'.ci = Null /\ \E i \in Taken' : MakesDir(i, p)'
                        /\ \A i \in Done' : MakesDir(i, p)' => E(p)'.kind = "dir"
      BY DEF DirsOK
    <3>1. /\ E(p).kind = "dir" => E(p).ci = Null /\ \E i \in Taken : MakesDir(i, p)
          /\ \A i \in Done : MakesDir(i, p) => E(p).kind = "dir"
      BY DEF CInv, DirsOK
    <3>2. CASE p = t
      BY <1>4, <1>5, <1>12, <2>2, <3>1, <3>2
    <3>3. CASE p # t
      BY <1>4, <1>5, <2>2, <3>1, <3>3
    <3> QED BY <3>2, <3>3
  <2>4. LinksOK'
    <3> SUFFICES ASSUME NEW p \in Under
                 PROVE  /\ E(p)'.kind = "lnk" =>
                             \E i \in Claims(p, "lnk") :
                                E(p)'.ci = seen[i] /\ \A j \in Claims(p, "lnk") : i <= j
                        /\ Claims(p, "lnk") \cap Done # {} => E(p)'.kind \in {"dir", "lnk"}
      BY <1>1, <1>4, <1>5 DEF LinksOK
    <3>1. /\ E(p).kind = "lnk" =>
               \E i \in Claims(p, "lnk") : E(p).ci = seen[i] /\ \A j \in Claims(p, "lnk") : i <= j
          /\ Claims(p, "lnk") \cap Done # {} => E(p).kind \in {"dir", "lnk"}
      BY DEF CInv, LinksOK
    <3>2. CASE p = t
      BY <1>12, <2>2, <3>1, <3>2
    <3>3. CASE p # t
      BY <2>2, <3>1, <3>3
    <3> QED BY <3>2, <3>3
  <2>5. RegularsOK'
    <3> SUFFICES ASSUME NEW p \in Under
                 PROVE  /\ E(p)'.kind = "reg" => p \in DOMAIN candidates \ todo /\ E(p)'.ci = candidates[p]
                        /\ p \in DOMAIN candidates \ todo => E(p)'.kind # "none"
      BY <1>1, <1>5 DEF RegularsOK
    <3>1. CASE p = t
      BY <1>6, <2>2, <3>1
    <3>2. CASE p # t
      BY <1>5, <2>2, <3>2 DEF CInv, RegularsOK
    <3> QED BY <3>1, <3>2
  <2>6. CountOK'
    <3>1. RegPaths' = RegPaths \cup {t}
      <4>1. \A p \in Paths : p \in Under
        BY PathsUnder
      <4> QED BY <1>7, <2>2, <4>1 DEF RegPaths
    <3>2. t \notin RegPaths
      BY <1>12 DEF RegPaths
    <3>3. IsFiniteSet(RegPaths) /\ reg_count = Cardinality(RegPaths) /\ reg_count' = reg_count + 1
      BY <1>3, <1>12 DEF CInv, CountOK
    <3>4. IsFiniteSet(RegPaths \cup {t}) /\ Cardinality(RegPaths \cup {t}) = Cardinality(RegPaths) + 1
      BY <3>2, <3>3, FS_AddElement
    <3> QED BY <3>1, <3>3, <3>4 DEF CountOK
  <2> QED BY <1>9, <1>10, <2>3, <2>4, <2>5, <2>6 DEF CInv
<1> QED BY <1>11, <1>12

\* The rest of the steps only turn from one loop, or candidate, to the next.
TurnOver ==
    EndOfInodes \/ (\E p \in todo : TakeCandidate(p)) \/ EndOfCandidates \/ UNCHANGED vars

LEMMA TurnOverCanonical == IInv /\ CInv /\ TurnOver => CInv'
<1> SUFFICES ASSUME IInv, CInv, TurnOver PROVE CInv'
  OBVIOUS
<1>1. /\ heap' = heap /\ seen' = seen /\ candidates' = candidates /\ reg_count' = reg_count
  BY DEF TurnOver, EndOfInodes, TakeCandidate, EndOfCandidates, vars
<1>2. /\ Taken' = Taken /\ \A p : \A type : Claims(p, type)' = Claims(p, type)
      /\ \A i : \A p : MakesDir(i, p)' <=> MakesDir(i, p)
      /\ \A i : \A j : Better(i, j)' <=> Better(i, j)
  BY <1>1, SeenSame
<1>3. \A p : E(p)' = E(p)
  BY <1>1 DEF E
<1>4. \/ UNCHANGED <<pc, item, todo>>
      \/ pc' \notin {"inodes", "walk"} /\ pc # "walk"
  BY DEF TurnOver, EndOfInodes, TakeCandidate, EndOfCandidates, vars
<1>5. Done' = Done /\ SeenOK'
  BY <1>1, <1>2, <1>4 DEF Done, CInv, SeenOK
<1>6. DirsOK' /\ LinksOK'
  BY <1>1, <1>2, <1>3, <1>5 DEF CInv, DirsOK, LinksOK
<1>7. CountOK'
  BY <1>1, CountSame DEF CInv
<1>8. \A p : \A i : Best(p, i)' <=> Best(p, i)
  BY <1>2, <1>5 DEF Best
<1>9. CandidatesOK /\ RegularsOK /\ todo \subseteq DOMAIN candidates
  BY DEF CInv, IInv, Kept
<1>10. CandidatesOK' /\ RegularsOK'
  <2>1. /\ \A p \in DOMAIN candidates : \E i \in Nat : Best(p, i)' /\ candidates[p] = seen[i]
        /\ \A i \in Done' : seen[i].type = "reg" => FsPath(seen[i]) \in DOMAIN candidates
    BY <1>5, <1>8, <1>9 DEF CandidatesOK
  <2>2. CASE EndOfInodes
    <3>1. /\ Loop1 /\ ~Loop1' /\ pc' = "candidates" /\ todo' = DOMAIN candidates
      BY <2>2 DEF EndOfInodes, Loop1
    <3>2. Pending' = DOMAIN candidates
      BY <3>1 DEF Pending
    <3>3. CandidatesOK'
      BY <1>1, <2>1, <3>1, <3>2 DEF CandidatesOK
    <3>4. RegularsOK'
      BY <1>1, <1>3, <1>9, <3>1, <3>2 DEF RegularsOK
    <3> QED BY <3>3, <3>4
  <2>3. ASSUME NEW p \in todo, TakeCandidate(p) PROVE CandidatesOK' /\ RegularsOK'
    <3>1. /\ ~Loop1 /\ ~Loop1' /\ pc = "candidates" /\ pc' = "walk_candidate"
          /\ todo' = todo \ {p} /\ item' = [path |-> p, ci |-> candidates[p]]
      BY <2>3 DEF TakeCandidate, Loop1
    <3>2. Pending' = Pending
      BY <3>1 DEF Pending
    <3>3. CandidatesOK'
      BY <1>1, <1>9, <2>1, <3>1, <3>2 DEF CandidatesOK
    <3>4. RegularsOK'
      BY <1>1, <1>3, <1>9, <3>1, <3>2 DEF RegularsOK
    <3> QED BY <3>3, <3>4
  <2>4. CASE EndOfCandidates
    <3>1. ~Loop1 /\ ~Loop1' /\ pc = "candidates" /\ pc' = "done" /\ todo' = todo
      BY <2>4 DEF EndOfCandidates, Loop1
    <3>2. Pending' = Pending
      BY <3>1 DEF Pending
    <3>3. CandidatesOK'
      BY <1>1, <1>9, <2>1, <3>1, <3>2 DEF CandidatesOK
    <3>4. RegularsOK'
      BY <1>1, <1>3, <1>9, <3>1, <3>2 DEF RegularsOK
    <3> QED BY <3>3, <3>4
  <2>5. CASE UNCHANGED vars
    <3>1. pc' = pc /\ item' = item /\ todo' = todo
      BY <2>5 DEF vars
    <3>2. Pending' = Pending /\ Loop1' = Loop1
      BY <3>1 DEF Pending, Loop1
    <3>3. CandidatesOK'
      BY <1>1, <1>9, <2>1, <3>1, <3>2 DEF CandidatesOK
    <3>4. RegularsOK'
      BY <1>1, <1>3, <1>9, <3>1, <3>2 DEF RegularsOK
    <3> QED BY <3>3, <3>4
  <2> QED BY <2>2, <2>3, <2>4, <2>5 DEF TurnOver
<1> QED BY <1>5, <1>6, <1>7, <1>10 DEF CInv

LEMMA StepCInv == IInv /\ CInv /\ [Next]_vars => CInv'
<1>1. [Next]_vars => \/ \E c \in Inodes : TakeInode(c)
                     \/ MakeComponent \/ PlaceDir \/ KeepCandidate \/ PlaceLink \/ PlaceOther
                     \/ PlaceRegular \/ TurnOver
  BY DEF Next, Terminating, TurnOver
<1> QED BY <1>1, TakeInodeCanonical, MakeComponentCanonical, PlaceDirCanonical,
           KeepCandidateCanonical, PlaceLinkCanonical, PlaceOtherCanonical,
           PlaceRegularCanonical, TurnOverCanonical

(* What /fs holds is a function of the inodes the image gave, and neither  *)
(* of the order of the unordered_map nor, but for ties, of the inodes: a   *)
(* directory wherever an inode is one or lies below, else the first link,  *)
(* else the best recovered regular file, else nothing; and reg_count is    *)
(* the number of regular files that can be reached.                        *)
THEOREM CanonicalTree == Spec => []TreeCanonical
<1>1. ASSUME IInv, CInv, pc = "done" PROVE TreeCanonical
  <2>1. Done = Taken /\ ~Loop1 /\ SeenOK /\ CandidatesOK
    BY <1>1 DEF Done, Loop1, CInv
  <2>2. \A p \in Under : \A kind, ci : kind # "none" =>
           (Stands(p, kind, ci) <=> E(p).kind = kind /\ E(p).ci = ci)
    BY <1>1, EntryKind DEF Stands, Under
  <2>3. ASSUME NEW p \in Paths
        PROVE  IF IsDirPath(p) THEN Stands(p, "dir", Null)
               ELSE IF Claims(p, "lnk") # {} THEN Stands(p, "lnk", seen[First(Claims(p, "lnk"))])
               ELSE IF Claims(p, "reg") # {} THEN Stands(p, "reg", seen[BestOf(Claims(p, "reg"))])
               ELSE At(p) = Null
    <3>1. p \in Under /\ p # <<>> /\ p \in Seq(AllNames)
      BY PathsUnder DEF Under
    <3>2. IsDirPath(p) <=> \E i \in Taken : MakesDir(i, p)
      <4>1. \A i \in Taken : FsPath(seen[i]) \in Prefixes(FsPath(seen[i]))
        <5> SUFFICES ASSUME NEW i \in Taken PROVE FsPath(seen[i]) \in Prefixes(FsPath(seen[i]))
          OBVIOUS
        <5>1. FsPath(seen[i]) \in Seq(Names) /\ FsPath(seen[i]) # <<>>
          BY <2>1, TakenFacts DEF Under
        <5> QED BY <5>1, FollowsEnd
      <4> QED BY <3>1, <4>1 DEF IsDirPath, MakesDir
    <3>3. /\ E(p).kind \in {"none", "dir", "lnk", "reg"}
          /\ E(p).kind = "none" <=> At(p) = Null
      BY <1>1, <3>1, EntryKind
    <3>4. E(p).kind = "dir" <=> IsDirPath(p)
      BY <1>1, <2>1, <3>1, <3>2 DEF CInv, DirsOK
    <3>5. /\ E(p).kind = "dir" => E(p).ci = Null
          /\ E(p).kind = "lnk" =>
               \E i \in Claims(p, "lnk") : E(p).ci = seen[i] /\ \A j \in Claims(p, "lnk") : i <= j
          /\ Claims(p, "lnk") # {} => E(p).kind \in {"dir", "lnk"}
          /\ E(p).kind = "reg" => p \in DOMAIN candidates /\ E(p).ci = candidates[p]
          /\ p \in DOMAIN candidates => E(p).kind # "none"
      <4>1. Claims(p, "lnk") \cap Done = Claims(p, "lnk")
        BY <2>1 DEF Claims
      <4>2. Pending = {}
        <5>1. todo = {}
          BY <1>1 DEF IInv, Kept
        <5> QED BY <1>1, <2>1, <5>1 DEF Pending
      <4>3. /\ E(p).kind = "dir" => E(p).ci = Null
        BY <1>1, <3>1 DEF CInv, DirsOK
      <4>4. /\ E(p).kind = "lnk" =>
                 \E i \in Claims(p, "lnk") : E(p).ci = seen[i] /\ \A j \in Claims(p, "lnk") : i <= j
            /\ Claims(p, "lnk") # {} => E(p).kind \in {"dir", "lnk"}
        BY <1>1, <3>1, <4>1 DEF CInv, LinksOK
      <4>5. /\ E(p).kind = "reg" => p \in DOMAIN candidates /\ E(p).ci = candidates[p]
            /\ p \in DOMAIN candidates => E(p).kind # "none"
        BY <1>1, <2>1, <3>1, <4>2 DEF CInv, RegularsOK
      <4> QED BY <4>3, <4>4, <4>5
    <3>6. CASE IsDirPath(p)
      BY <2>2, <3>1, <3>4, <3>5, <3>6
    <3>7. CASE ~IsDirPath(p) /\ Claims(p, "lnk") # {}
      <4>1. E(p).kind = "lnk"
        BY <3>4, <3>5, <3>7
      <4>2. PICK i \in Claims(p, "lnk") : E(p).ci = seen[i] /\ \A j \in Claims(p, "lnk") : i <= j
        BY <3>5, <4>1
      <4>3. First(Claims(p, "lnk")) = i
        <5>1. \A j \in Claims(p, "lnk") : j \in Nat
          BY <2>1, TakenFacts DEF Claims
        <5>2. \A j \in Claims(p, "lnk") : (\A k \in Claims(p, "lnk") : j <= k) => j = i
          BY <4>2, <5>1
        <5> QED BY <4>2, <5>2 DEF First
      <4> QED BY <2>2, <3>1, <3>7, <4>1, <4>2, <4>3
    <3>8. CASE ~IsDirPath(p) /\ Claims(p, "lnk") = {} /\ Claims(p, "reg") # {}
      <4>1. p \in DOMAIN candidates
        BY <2>1, <3>8 DEF CandidatesOK, Claims
      <4>2. E(p).kind = "reg" /\ E(p).ci = candidates[p]
        BY <3>3, <3>4, <3>5, <3>8, <4>1
      <4>3. PICK i \in Nat : Best(p, i) /\ candidates[p] = seen[i]
        BY <2>1, <4>1 DEF CandidatesOK
      <4>4. Claims(p, "reg") \cap Done = Claims(p, "reg") /\ Claims(p, "reg") \subseteq Taken
        BY <2>1 DEF Claims
      <4>5. i \in Claims(p, "reg") /\ \A j \in Claims(p, "reg") : Better(i, j)
        BY <4>3, <4>4 DEF Best
      <4>6. BestOf(Claims(p, "reg")) = i
        <5>1. \A k \in Claims(p, "reg") : (\A j \in Claims(p, "reg") : Better(k, j)) => k = i
          BY <2>1, <4>4, <4>5, BetterOrder
        <5>2. BestOf(Claims(p, "reg")) =
                CHOOSE k \in Claims(p, "reg") : \A j \in Claims(p, "reg") : Better(k, j)
          BY DEF BestOf, Better
        <5> QED BY <4>5, <5>1, <5>2
      <4> QED BY <2>2, <3>1, <3>8, <4>2, <4>3, <4>6
    <3>9. CASE ~IsDirPath(p) /\ Claims(p, "lnk") = {} /\ Claims(p, "reg") = {}
      <4>1. p \notin DOMAIN candidates
        BY <2>1, <3>9 DEF CandidatesOK, Best
      <4> QED BY <3>3, <3>4, <3>5, <3>9, <4>1
    <3> QED BY <3>6, <3>7, <3>8, <3>9
  <2>4. {p \in Paths : At(p) # Null /\ heap[At(p)].kind = "reg"} = RegPaths
    <3>1. \A p \in Paths : E(p).kind = "reg" <=> At(p) # Null /\ heap[At(p)].kind = "reg"
      <4> SUFFICES ASSUME NEW p \in Paths
                   PROVE  E(p).kind = "reg" <=> At(p) # Null /\ heap[At(p)].kind = "reg"
        OBVIOUS
      <4>1. p \in Seq(AllNames)
        BY PathsUnder DEF Under
      <4> QED BY <1>1, <4>1, EntryKind
    <3> QED BY <3>1 DEF RegPaths
  <2>5. reg_count = Cardinality(RegPaths)
    BY <1>1 DEF CInv, CountOK
  <2> QED BY <2>3, <2>4, <2>5 DEF TreeCanonical
<1>2. IInv /\ CInv => TreeCanonical
  BY <1>1 DEF TreeCanonical
<1> QED BY <1>2, InitIInv, StepIInv, InitCInv, StepCInv, PTL DEF Spec
=============================================================================
