---------------------------- MODULE CommitGraph ----------------------------
(***************************************************************************)
(* The commit graph the store keeps in its git objects, and the questions  *)
(* internal/store asks of it: is one commit an ancestor of another, what   *)
(* are the merge bases of two, which commits does the walk back from a tip *)
(* collect.                                                                *)
(*                                                                         *)
(* A graph is a sequence of commits; a commit is named by its position, so *)
(* that a parent has a smaller name than its child.  Each commit carries   *)
(* its ancestors and its first-parent chain, both fixed when it is made:   *)
(* commits are immutable, and no definition has to recurse.                *)
(***************************************************************************)
EXTENDS Naturals, Sequences, TreeMerge

NoCommit == 0       \* plumbing.ZeroHash; as a ref, "reference not found"

Commit == [first : Nat, second : Nat, tree : Tree,
           anc : SUBSET Nat, line : SUBSET Nat]

Commits(g) == 1 .. Len(g)

TreeAt(g, c)    == IF c = NoCommit THEN EmptyTree ELSE g[c].tree
Ancestors(g, c) == IF c = NoCommit THEN {} ELSE g[c].anc
Line(g, c)      == IF c = NoCommit THEN {} ELSE g[c].line

(* object.Commit.IsAncestor: a commit is an ancestor of itself.             *)
IsAncestor(g, a, b) == a \in Ancestors(g, b)

(* object.Commit.MergeBase: the common ancestors no other common ancestor
   descends from.  There are several after a criss-cross and the code takes
   bases[0], in an order of go-git's own.                                   *)
Common(g, a, b) == Ancestors(g, a) \cap Ancestors(g, b)

MergeBases(g, a, b) ==
    {c \in Common(g, a, b) :
        \A d \in Common(g, a, b) : c \in Ancestors(g, d) => d = c}

Disjoint(g, a, b) == Common(g, a, b) = {}

(* No common ancestor descends from all the others, so there are several.   *)
CrissCross(g, a, b) ==
    /\ ~Disjoint(g, a, b)
    /\ \A c \in Common(g, a, b) : ~(Common(g, a, b) \subseteq Ancestors(g, c))

(* Faulty variant: the second parent of a merge is not recorded.            *)
ForgetSecondParent(g, first, second, tree) ==
    [first |-> first, second |-> second, tree |-> tree,
     anc   |-> {Len(g) + 1} \cup Ancestors(g, first),
     line  |-> {Len(g) + 1} \cup Line(g, first)]

(* A commit with one parent has second = NoCommit, a root has neither.      *)
NewCommit(g, first, second, tree) ==
    [first |-> first, second |-> second, tree |-> tree,
     anc   |-> {Len(g) + 1} \cup Ancestors(g, first) \cup Ancestors(g, second),
     line  |-> {Len(g) + 1} \cup Line(g, first)]

(* Faulty variant: the walk never stops before the root.                    *)
WalkToRoot(g, local, stop) == Line(g, local)

(* unpushedCommits: the walk from local down its first parents until it
   meets stop, or the root when stop is not on that chain.                  *)
Walked(g, local, stop) ==
    IF stop \in Line(g, local) THEN Line(g, local) \ Line(g, stop)
                               ELSE Line(g, local)

(* ... and it collects the commits that are not merges, unless one tip
   already contains the other.                                              *)
Unpushed(g, local, upstream, stop) ==
    IF \/ IsAncestor(g, local, upstream)
       \/ IsAncestor(g, upstream, local)
    THEN {}
    ELSE {c \in Walked(g, local, stop) : g[c].second = NoCommit}

(* Where the walk stops: the watermark, or without one a merge base.        *)
WalkStops(g, local, upstream, watermark) ==
    IF watermark # NoCommit THEN {watermark}
    ELSE IF Disjoint(g, local, upstream) THEN {NoCommit}
    ELSE MergeBases(g, local, upstream)

(* What makes a sequence of commits a graph: parents come first, a commit is
   its own ancestor, and the recorded ancestors are closed.                 *)
GraphOK(g) ==
    \A c \in Commits(g) :
        /\ g[c].first \in 0 .. c - 1
        /\ g[c].second \in 0 .. c - 1
        /\ g[c].anc \subseteq 1 .. c
        /\ g[c].line \subseteq g[c].anc
        /\ c \in g[c].line
        /\ \A p \in {g[c].first, g[c].second} \ {NoCommit} : p \in g[c].anc
        /\ \A a \in g[c].anc : g[a].anc \subseteq g[c].anc
        /\ \A a \in g[c].line : g[a].line \subseteq g[c].line
=============================================================================
