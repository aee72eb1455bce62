----------------------------- MODULE MerkleTree -----------------------------
(***************************************************************************)
(* crates/verity-integrity, merkle.rs: the leaves of a batch, the loop     *)
(* that computes their root, and the root it caches.                       *)
(*                                                                         *)
(* Leaves are digests, of one length, and SHA-256 is taken to have no      *)
(* collisions: a parent is the pair of its children, and no leaf is one.   *)
(***************************************************************************)
EXTENDS Naturals, Sequences

CONSTANTS
    Hashes,         \* the digests leaves are made of
    MaxLeaves       \* bound on the number of leaves

ASSUME MerkleTreeAssumption == MaxLeaves \in Nat

VARIABLES
    leaves, root,
    computing,      \* whether compute_root is in its loop
    current_level   \* the loop's variable

treeVars == <<leaves, root, computing, current_level>>

\* Option<String>: the cached root.
NoRoot == <<>>
Cached(hash) == <<hash>>

Parent(left, right) == [left |-> left, right |-> right]

\* Seeded fault: a last node without a sibling is left out.
NextLevelWithoutOdd(level) ==
    [i \in 1..(Len(level) \div 2) |-> Parent(level[2 * i - 1], level[2 * i])]

\* One round of the loop: nodes are paired, one without a sibling with itself.
NextLevel(level) ==
    [i \in 1..((Len(level) + 1) \div 2) |->
        Parent(level[2 * i - 1], level[IF 2 * i <= Len(level) THEN 2 * i ELSE 2 * i - 1])]
----------------------------------------------------------------------------
TreeInit == leaves = <<>> /\ root = NoRoot /\ computing = FALSE /\ current_level = <<>>

\* Seeded fault: the cached root is kept.
AddLeafKeepingRoot(hash) ==
    /\ ~computing
    /\ Len(leaves) < MaxLeaves
    /\ leaves' = Append(leaves, hash)
    /\ UNCHANGED <<root, computing, current_level>>

\* add_leaf; compute_root borrows the tree, so no leaf is added while it runs.
AddLeaf(hash) ==
    /\ ~computing
    /\ Len(leaves) < MaxLeaves
    /\ leaves' = Append(leaves, hash)
    /\ root' = NoRoot
    /\ UNCHANGED <<computing, current_level>>

\* Seeded fault: the loop is entered without a leaf.
ComputeRootErrIgnored ==
    /\ ~computing
    /\ leaves = <<>>
    /\ computing' = TRUE
    /\ UNCHANGED <<leaves, root, current_level>>

\* compute_root of a tree without leaves.
ComputeRootErr == ~computing /\ leaves = <<>> /\ UNCHANGED treeVars

ComputeRoot ==
    /\ ~computing
    /\ leaves # <<>>
    /\ computing' = TRUE
    /\ current_level' = leaves
    /\ UNCHANGED <<leaves, root>>

\* Seeded fault: the round's result is not assigned.
RoundLost == computing /\ Len(current_level) > 1 /\ UNCHANGED treeVars

Round ==
    /\ computing
    /\ Len(current_level) > 1
    /\ current_level' = NextLevel(current_level)
    /\ UNCHANGED <<leaves, root, computing>>

\* The loop's exit: its one node is cached and returned.
Computed ==
    /\ computing
    /\ Len(current_level) <= 1
    /\ root' = Cached(current_level[1])
    /\ computing' = FALSE
    /\ current_level' = <<>>
    /\ UNCHANGED leaves

TreeNext ==
    \/ \E hash \in Hashes : AddLeaf(hash)
    \/ ComputeRootErr \/ ComputeRoot \/ Round \/ Computed

\* A call that was made runs on; nobody has to make one.
TreeSpec == TreeInit /\ [][TreeNext]_treeVars /\ WF_treeVars(Round \/ Computed)
----------------------------------------------------------------------------
\* The loop always has a node: the unwrap() after it cannot fail.
TreeTypeOK ==
    /\ leaves \in Seq(Hashes) /\ Len(leaves) <= MaxLeaves
    /\ Len(root) <= 1
    /\ computing \in BOOLEAN
    /\ IF computing THEN Len(current_level) \in 1..Len(leaves) ELSE current_level = <<>>

(***************************************************************************)
(* The root of a list of leaves, from above: node i of a level joins nodes *)
(* 2i and 2i + 1 of the level below, and the last one stands in for one    *)
(* that is missing.  Levels and nodes count from 0.                        *)
(***************************************************************************)
Levels(list) ==
    LET level[k \in 0..Len(list)] ==
            IF k = 0 THEN [last |-> Len(list) - 1, node |-> [i \in Nat |-> list[i + 1]]]
            ELSE LET below == level[k - 1] IN
                 [last |-> below.last \div 2,
                  node |-> [i \in Nat |->
                      Parent(below.node[2 * i],
                             below.node[IF 2 * i < below.last THEN 2 * i + 1 ELSE 2 * i])]]
    IN  level

\* The first level with a single node.
Top(levels) ==
    CHOOSE k \in DOMAIN levels : levels[k].last = 0 /\ \A j \in 0..(k - 1) : levels[j].last # 0

RootOf(list) == Levels(list)[Top(Levels(list))].node[0]

\* A cached root is the root of the leaves that are in the tree now: no order
\* of additions and computations leaves an older one in place.
RootFresh == root # NoRoot => root = Cached(RootOf(leaves))

\* The levels the code's own rounds make of a list; a single node stays.
Rounds(list) ==
    LET level[k \in 0..Len(list)] ==
            IF k = 0 THEN list
            ELSE LET below == level[k - 1] IN
                 IF Len(below) > 1 THEN NextLevel(below) ELSE below
    IN  level

\* A root fixes its leaves, all of them and in order, once their number is
\* known: no other list of as many digests has it.  (Without the number it
\* does not: an odd last leaf and its duplicate have the same parent.)
RootFixesLeaves ==
    root # NoRoot =>
        \A others \in [1..Len(leaves) -> Hashes] :
            Cached(Rounds(others)[Len(leaves)][1]) = root => others = leaves

\* compute_root returns, whatever the number of leaves.
Returns == computing ~> ~computing
=============================================================================
