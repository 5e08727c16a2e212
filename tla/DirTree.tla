------------------------------ MODULE DirTree ------------------------------
(* The in-memory directories of src/vfs: DirNode::add, find, list and      *)
(* ensure_dir_child, and resolve.                                          *)
(*                                                                         *)
(* A heap is a sequence of nodes and a node's identity is its index, so    *)
(* that replacing a child and mutating it are told apart.  A node that no  *)
(* directory refers to any more stays in the heap: lifetimes are the       *)
(* subject of Mount.  A directory keeps children_, in order, and           *)
(* names_, the set that makes the uniqueness test O(1); nothing but the    *)
(* code of these operations keeps the two together.                        *)
EXTENDS Naturals, Sequences, SequencesExt, FiniteSets

\* The null NodePtr.
Null == 0

\* Node::Node and DirNode::DirNode.  "lnk" and "reg" are file nodes; what
\* a file node serves is its inode, ci.
Dir(name) == [name |-> name, kind |-> "dir", ci |-> Null, kids |-> <<>>, names |-> {}]
File(name, kind, ci) == [name |-> name, kind |-> kind, ci |-> ci, kids |-> <<>>, names |-> {}]

IsDir(h, n) == h[n].kind = "dir"

\* The names of the entries DirNode::list returns, in its order.
NameAt(h, d, i) == h[h[d].kids[i]].name
List(h, d) == [i \in DOMAIN h[d].kids |-> NameAt(h, d, i)]

\* Positions of the children called name; find and ensure_dir_child stop
\* at the first.
Positions(h, d, name) == {i \in DOMAIN h[d].kids : NameAt(h, d, i) = name}
First(S) == CHOOSE i \in S : \A j \in S : i <= j

Find(h, d, name) ==
    IF Positions(h, d, name) = {} THEN Null
    ELSE h[d].kids[First(Positions(h, d, name))]

\* push_back of a new node, and its name into names_.
PushChild(h, d, node) ==
    Append([h EXCEPT ![d].kids = Append(@, Len(h) + 1),
                     ![d].names = @ \cup {node.name}], node)

\* DirNode::add: a name names_ already holds keeps its first child.
Add(h, d, node) == IF node.name \in h[d].names THEN h ELSE PushChild(h, d, node)

\* Mutants: a directory beside the file that has its name; a new directory
\* in the place of whatever has the name.
EnsureBeside(h, d, name) ==
    LET found == Find(h, d, name)
    IN  IF found = Null \/ ~IsDir(h, found) THEN PushChild(h, d, Dir(name)) ELSE h

EnsureAnew(h, d, name) ==
    LET at == Positions(h, d, name)
    IN  IF at = {} THEN PushChild(h, d, Dir(name))
        ELSE Append([h EXCEPT ![d].kids[First(at)] = Len(h) + 1], Dir(name))

\* DirNode::ensure_dir_child: the child directory of this name, made if
\* there is none, in the place of a file that has the name.
EnsureDirChild(h, d, name) ==
    LET at == Positions(h, d, name)
    IN  IF at = {} THEN PushChild(h, d, Dir(name))
        ELSE IF IsDir(h, h[d].kids[First(at)]) THEN h
        ELSE Append([h EXCEPT ![d].kids[First(at)] = Len(h) + 1], Dir(name))

\* One component of vfs::resolve.
Child(h, cur, part) ==
    IF cur = Null THEN Null ELSE IF IsDir(h, cur) THEN Find(h, cur, part) ELSE Null

\* vfs::resolve: one find per component, from root.
Resolve(h, root, path) ==
    LET at[i \in 0..Len(path)] == IF i = 0 THEN root ELSE Child(h, at[i - 1], path[i])
    IN  at[Len(path)]

(* Name uniqueness of one directory, and its two records of it in step.    *)
UniqueIn(h, d) ==
    /\ h[d].names = {NameAt(h, d, i) : i \in DOMAIN h[d].kids}
    /\ \A i, j \in DOMAIN h[d].kids : NameAt(h, d, i) = NameAt(h, d, j) => i = j
=============================================================================
