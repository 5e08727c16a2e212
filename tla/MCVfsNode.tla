----------------------------- MODULE MCVfsNode -----------------------------
(* Instances of VfsNode for TLC: two dispatcher threads and one warm-pool  *)
(* thread on a LazyFileNode and a SizedLazyFileNode, or all on a           *)
(* LazyFileNode that the warm pool warms and that is not cheap to size.    *)
EXTENDS VfsNode, TLC

CONSTANTS d1, d2, w1, lazy, sized, hot

VARIABLE used   \* the nodes entered

Dispatcher_symmetry == Permutations({d1, d2})

NodesInit == Init /\ used \in {Nodes \ {hot}, Nodes \cap {hot}} \ {{}}

NodesNext ==
    /\ Next
    /\ \A t \in Threads : pc'[t] # "idle" => cur'[t] \in used
    /\ UNCHANGED used

NodesSpec == NodesInit /\ [][NodesNext]_<<vars, used>>
===========================================================================
