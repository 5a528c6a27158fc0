------------------------- MODULE CommitGraph_proofs -------------------------
(***************************************************************************)
(* What the operators of TreeMerge and CommitGraph preserve, for any sets  *)
(* of paths and blobs and any graph.                                       *)
(***************************************************************************)
EXTENDS CommitGraph, TLAPS

(* The merge of trees is a tree: every entry is one of dst's or src's.      *)
LEMMA MergeTreesType ==
    ASSUME NEW base \in Tree, NEW src \in Tree, NEW dst \in Tree, NEW strategy
    PROVE  /\ MergeTrees(base, src, dst, strategy) \in Tree
           /\ \A p \in Paths :
                 MergeTrees(base, src, dst, strategy)[p] \in {src[p], dst[p]}
BY DEF MergeTrees, MergeEntry, Tree

(* So is what a replayed commit holds.                                      *)
LEMMA ReplayTreeType ==
    ASSUME NEW parent \in Tree, NEW orig \in Tree, NEW onto \in Tree,
           NEW strategy
    PROVE  ReplayTree(parent, orig, onto, strategy) \in Tree
BY MergeTreesType DEF ReplayTree

(* What a merge makes of a path (mergeTreesWithStrategy): a side that changed
   nothing gives way to the other, and two that agree are kept.  Where both
   changed what base holds the strategy decides -- but what src holds and base
   does not is applied under either, whatever dst has there.                *)
THEOREM MergeDecides ==
    ASSUME NEW base \in Tree, NEW src \in Tree, NEW dst \in Tree,
           NEW strategy \in Strategies, NEW p \in Paths
    PROVE  LET merged == MergeTrees(base, src, dst, strategy)
           IN  /\ src[p] = base[p] => merged[p] = dst[p]
               /\ dst[p] = base[p] => merged[p] = src[p]
               /\ src[p] = dst[p] => merged[p] = dst[p]
               /\ base[p] # Absent /\ src[p] # base[p] /\ dst[p] # base[p] =>
                     merged[p] = IF strategy = "LocalWins" THEN dst[p] ELSE src[p]
               /\ base[p] = Absent /\ src[p] # Absent => merged[p] = src[p]
BY DEF MergeTrees, MergeEntry, Kept, Conflict, Strategies

(* A merge that is repeated, as by a tick after one whose watermark was not
   recorded, changes nothing more.                                          *)
THEOREM MergeRepeats ==
    ASSUME NEW base \in Tree, NEW src \in Tree, NEW dst \in Tree, NEW strategy
    PROVE  LET merged == MergeTrees(base, src, dst, strategy)
           IN  MergeTrees(base, src, merged, strategy) = merged
<1> DEFINE merged == MergeTrees(base, src, dst, strategy)
<1>1. \A p \in Paths : MergeEntry(base[p], src[p], merged[p], strategy) = merged[p]
  BY DEF MergeTrees, MergeEntry
<1>2. merged = [p \in Paths |-> merged[p]]
  BY DEF MergeTrees
<1> HIDE DEF merged
<1>3. MergeTrees(base, src, merged, strategy) = [p \in Paths |-> merged[p]]
  BY <1>1 DEF MergeTrees
<1>4. QED  BY <1>2, <1>3 DEF merged

(* A commit replayed onto its own parent is that commit again, so a replay onto
   the history the agent is on rebuilds the tree it has (replayCommit).     *)
THEOREM ReplayOntoParent ==
    ASSUME NEW parent \in Tree, NEW orig \in Tree, NEW strategy \in Strategies
    PROVE  ReplayTree(parent, orig, parent, strategy) = orig
<1>1. \A p \in Paths :
         MergeEntry(parent[p], orig[p], parent[p], Invert(strategy)) = orig[p]
  BY DEF MergeEntry, Kept, Conflict
<1>2. orig = [p \in Paths |-> orig[p]]
  BY DEF Tree
<1>3. QED  BY <1>1, <1>2 DEF ReplayTree, MergeTrees

LEMMA EmptyTreeType == EmptyTree \in Tree
BY DEF EmptyTree, Tree, Entry

LEMMA ApplyChangeType ==
    ASSUME NEW tree \in Tree, NEW written \in SUBSET Paths,
           NEW files \in [written -> Blobs], NEW deletes \in SUBSET Paths
    PROVE  ApplyChange(tree, files, deletes) \in Tree
<1>1. DOMAIN files = written /\ \A p \in written : files[p] \in Blobs
  OBVIOUS
<1>2. QED  BY <1>1 DEF ApplyChange, Tree, Entry

LEMMA TreeAtType ==
    ASSUME NEW g \in Seq(Commit), NEW c \in 0 .. Len(g)
    PROVE  TreeAt(g, c) \in Tree
<1>1. CASE c = NoCommit
  BY <1>1, EmptyTreeType DEF TreeAt
<1>2. CASE c # NoCommit
  <2>1. c \in 1 .. Len(g)
    BY <1>2 DEF NoCommit
  <2>2. g[c] \in Commit
    BY <2>1
  <2>3. QED  BY <1>2, <2>2 DEF TreeAt, Commit
<1>3. QED  BY <1>1, <1>2

(* A commit is an ancestor of itself, and an ancestor's ancestor is one.    *)
LEMMA SelfAncestor ==
    ASSUME NEW g \in Seq(Commit), GraphOK(g), NEW c \in Commits(g)
    PROVE  IsAncestor(g, c, c)
BY DEF GraphOK, IsAncestor, Ancestors, Commits, NoCommit

LEMMA AncestorsInRange ==
    ASSUME NEW g \in Seq(Commit), GraphOK(g), NEW c \in 0 .. Len(g)
    PROVE  Ancestors(g, c) \subseteq Commits(g)
<1>1. CASE c = NoCommit
  BY <1>1 DEF Ancestors
<1>2. CASE c # NoCommit
  <2>1. c \in Commits(g)
    BY <1>2 DEF NoCommit, Commits
  <2>2. g[c].anc \subseteq 1 .. c
    BY <2>1 DEF GraphOK
  <2>3. QED  BY <1>2, <2>1, <2>2 DEF Ancestors, Commits
<1>3. QED  BY <1>1, <1>2

LEMMA AncestorTransitive ==
    ASSUME NEW g \in Seq(Commit), GraphOK(g), NEW c \in 0 .. Len(g),
           NEW b \in 0 .. Len(g), NEW a,
           IsAncestor(g, a, b), IsAncestor(g, b, c)
    PROVE  IsAncestor(g, a, c)
<1>1. c # NoCommit /\ b # NoCommit
  BY DEF IsAncestor, Ancestors
<1>2. c \in Commits(g) /\ b \in g[c].anc /\ a \in g[b].anc
  BY <1>1 DEF IsAncestor, Ancestors, Commits, NoCommit
<1>3. g[b].anc \subseteq g[c].anc
  BY <1>2 DEF GraphOK
<1>4. QED  BY <1>1, <1>2, <1>3 DEF IsAncestor, Ancestors

(* The walk collects commits of the graph.                                  *)
LEMMA UnpushedInRange ==
    ASSUME NEW g \in Seq(Commit), GraphOK(g), NEW local \in 0 .. Len(g),
           NEW upstream, NEW stop
    PROVE  Unpushed(g, local, upstream, stop) \subseteq Commits(g)
<1>1. Line(g, local) \subseteq Commits(g)
  <2>1. CASE local = NoCommit
    BY <2>1 DEF Line
  <2>2. CASE local # NoCommit
    <3>1. local \in Commits(g)
      BY <2>2 DEF NoCommit, Commits
    <3>2. g[local].line \subseteq g[local].anc /\ g[local].anc \subseteq 1 .. local
      BY <3>1 DEF GraphOK
    <3>3. QED  BY <2>2, <3>1, <3>2 DEF Line, Commits
  <2>3. QED  BY <2>1, <2>2
<1>2. QED  BY <1>1 DEF Unpushed, Walked
-----------------------------------------------------------------------------
(* Making a commit changes no commit there is, and leaves a graph.          *)
Grows(g, h) ==
    /\ Len(g) <= Len(h)
    /\ \A c \in 0 .. Len(g) : Ancestors(h, c) = Ancestors(g, c)

LEMMA AppendCommit ==
    ASSUME NEW g \in Seq(Commit), GraphOK(g),
           NEW first \in 0 .. Len(g), NEW second \in 0 .. Len(g),
           NEW tree \in Tree
    PROVE  LET h == Append(g, NewCommit(g, first, second, tree))
           IN  /\ h \in Seq(Commit)
               /\ GraphOK(h)
               /\ Grows(g, h)
               /\ Len(h) = Len(g) + 1
               /\ Ancestors(h, Len(h)) = {Len(h)} \cup Ancestors(g, first)
                                                  \cup Ancestors(g, second)
<1> DEFINE new == NewCommit(g, first, second, tree)
           h   == Append(g, new)
<1>1. \A x \in {first, second} : Ancestors(g, x) \subseteq Commits(g)
  BY AncestorsInRange
<1>2. \A x \in {first, second} : Line(g, x) \subseteq Ancestors(g, x)
  <2> SUFFICES ASSUME NEW x \in {first, second}
               PROVE  Line(g, x) \subseteq Ancestors(g, x)
    OBVIOUS
  <2>1. CASE x = NoCommit
    BY <2>1 DEF Line
  <2>2. CASE x # NoCommit
    <3>1. x \in Commits(g)
      BY <2>2 DEF NoCommit, Commits
    <3>2. QED  BY <2>2, <3>1 DEF GraphOK, Line, Ancestors
  <2>3. QED  BY <2>1, <2>2
<1>3. /\ new.first = first /\ new.second = second /\ new.tree = tree
      /\ new.anc = {Len(g) + 1} \cup Ancestors(g, first) \cup Ancestors(g, second)
      /\ new.line = {Len(g) + 1} \cup Line(g, first)
  BY DEF NewCommit
<1>4. new \in Commit
  <2>1. Ancestors(g, first) \subseteq Nat /\ Ancestors(g, second) \subseteq Nat
    BY <1>1 DEF Commits
  <2>2. Line(g, first) \subseteq Nat
    BY <1>2, <2>1
  <2>3. QED  BY <2>1, <2>2 DEF NewCommit, Commit
<1>5. h \in Seq(Commit) /\ Len(h) = Len(g) + 1
  BY <1>4
<1>6. (\A c \in Commits(g) : h[c] = g[c]) /\ h[Len(g) + 1] = new
  BY <1>4 DEF Commits
<1>7. \A c \in 0 .. Len(g) : Ancestors(h, c) = Ancestors(g, c)
  BY <1>6 DEF Ancestors, Commits, NoCommit
<1>8. GraphOK(h)
  <2> SUFFICES ASSUME NEW c \in Commits(h)
               PROVE  /\ h[c].first \in 0 .. c - 1
                      /\ h[c].second \in 0 .. c - 1
                      /\ h[c].anc \subseteq 1 .. c
                      /\ h[c].line \subseteq h[c].anc
                      /\ c \in h[c].line
                      /\ \A p \in {h[c].first, h[c].second} \ {NoCommit} :
                            p \in h[c].anc
                      /\ \A a \in h[c].anc : h[a].anc \subseteq h[c].anc
                      /\ \A a \in h[c].line : h[a].line \subseteq h[c].line
    BY DEF GraphOK
  <2>1. CASE c \in Commits(g)
    <3>1. h[c] = g[c] /\ g[c].anc \subseteq Commits(g) /\ g[c].line \subseteq g[c].anc
      BY <1>6, <2>1 DEF GraphOK, Commits
    <3>2. \A a \in g[c].anc : h[a] = g[a]
      BY <3>1, <1>6
    <3>3. QED  BY <2>1, <3>1, <3>2 DEF GraphOK
  <2>2. CASE c = Len(g) + 1
    <3>1. h[c] = new
      BY <1>6, <2>2
    <3>2. new.anc \subseteq 1 .. c /\ new.line \subseteq new.anc /\ c \in new.line
      BY <1>1, <1>2, <1>3, <2>2 DEF Commits
    <3>3. \A x \in {first, second} \ {NoCommit} : x \in Ancestors(g, x)
      BY SelfAncestor DEF IsAncestor, Commits, NoCommit
    <3>4. \A x \in {first, second} : \A a \in Ancestors(g, x) :
             h[a] = g[a] /\ g[a].anc \subseteq Ancestors(g, x)
      <4> SUFFICES ASSUME NEW x \in {first, second}, NEW a \in Ancestors(g, x)
                   PROVE  h[a] = g[a] /\ g[a].anc \subseteq Ancestors(g, x)
        OBVIOUS
      <4>1. a \in Commits(g) /\ h[a] = g[a]
        BY <1>1, <1>6
      <4>2. x # NoCommit /\ x \in Commits(g) /\ Ancestors(g, x) = g[x].anc
        BY DEF Ancestors, Commits, NoCommit
      <4>3. g[a].anc \subseteq g[x].anc
        BY <4>2 DEF GraphOK
      <4>4. QED  BY <4>1, <4>2, <4>3
    <3>5. \A a \in new.anc : h[a].anc \subseteq new.anc
      BY <1>3, <3>1, <3>4, <2>2
    <3>6. \A a \in Line(g, first) : h[a] = g[a] /\ g[a].line \subseteq Line(g, first)
      BY <1>1, <1>2, <1>6 DEF GraphOK, Line, Commits, NoCommit
    <3>7. \A a \in new.line : h[a].line \subseteq new.line
      BY <1>3, <3>1, <3>6, <2>2
    <3>8. QED  BY <1>3, <2>2, <3>1, <3>2, <3>3, <3>5, <3>7
  <2>3. QED  BY <1>5, <2>1, <2>2 DEF Commits
<1>9. Ancestors(h, Len(h)) = new.anc
  BY <1>5, <1>6 DEF Ancestors, NoCommit
<1>10. QED  BY <1>3, <1>5, <1>7, <1>8, <1>9 DEF Grows

(* The first commit of an empty graph.                                      *)
LEMMA RootGraph ==
    ASSUME NEW tree \in Tree
    PROVE  LET g == <<NewCommit(<<>>, NoCommit, NoCommit, tree)>>
           IN  g \in Seq(Commit) /\ GraphOK(g) /\ Len(g) = 1
<1> SUFFICES ASSUME NEW e, e = <<>>
             PROVE  LET g == <<NewCommit(e, NoCommit, NoCommit, tree)>>
                    IN  g \in Seq(Commit) /\ GraphOK(g) /\ Len(g) = 1
  OBVIOUS
<1>1. e \in Seq(Commit) /\ Len(e) = 0 /\ GraphOK(e)
  BY DEF GraphOK, Commits
<1>2. NoCommit \in 0 .. Len(e)
  BY <1>1 DEF NoCommit
<1> DEFINE new == NewCommit(e, NoCommit, NoCommit, tree)
<1>3. /\ Append(e, new) \in Seq(Commit)
      /\ GraphOK(Append(e, new))
      /\ Len(Append(e, new)) = 1
  <2>1. /\ Append(e, new) \in Seq(Commit)
        /\ GraphOK(Append(e, new))
        /\ Len(Append(e, new)) = Len(e) + 1
    BY <1>1, <1>2, AppendCommit, Zenon
  <2>2. QED  BY <1>1, <2>1
<1> HIDE DEF new
<1>4. Append(e, new) = <<new>>
  OBVIOUS
<1>5. QED  BY <1>3, <1>4 DEF new
-----------------------------------------------------------------------------
(* What the merges of a path rest on: the commits with one parent that changed
   it, and which of them a commit has behind it.                            *)
Writes(g, p) ==
    {c \in Commits(g) :
        /\ g[c].first # NoCommit /\ g[c].second = NoCommit
        /\ TreeAt(g, c)[p] # TreeAt(g, g[c].first)[p]}

Story(g, c, p) == Ancestors(g, c) \cap Writes(g, p)

(* Commits with the same writes behind them hold the same at the path.      *)
StoryDecides(g, p) ==
    \A x, y \in Commits(g) :
        Story(g, x, p) = Story(g, y, p) => TreeAt(g, x)[p] = TreeAt(g, y)[p]

(* h is g and one more commit.                                              *)
IsOneMore(g, h, first, second, tree) ==
    h = Append(g, NewCommit(g, first, second, tree))

(* What a commit c made of that tree adds to the story.                     *)
MarkedBy(g, first, second, tree, p, c) ==
    IF /\ first # NoCommit /\ second = NoCommit
       /\ tree[p] # TreeAt(g, first)[p]
    THEN {c} ELSE {}

(* Every other commit keeps its story, and the new one has that of its parents. *)
Continues(g, h, first, second, tree, p) ==
    /\ \A c \in 0 .. Len(g) : /\ Story(h, c, p) = Story(g, c, p)
                              /\ TreeAt(h, c) = TreeAt(g, c)
    /\ TreeAt(h, Len(h)) = tree
    /\ Story(h, Len(h), p) =
         Story(g, first, p) \cup Story(g, second, p) \cup
         MarkedBy(g, first, second, tree, p, Len(h))

LEMMA StoryGrows ==
    ASSUME NEW g \in Seq(Commit), GraphOK(g), NEW p,
           NEW a \in 0 .. Len(g), NEW c \in 0 .. Len(g), IsAncestor(g, a, c)
    PROVE  Story(g, a, p) \subseteq Story(g, c, p)
BY AncestorTransitive DEF Story, IsAncestor

LEMMA AppendStory ==
    ASSUME NEW g \in Seq(Commit), GraphOK(g), NEW p,
           NEW first \in 0 .. Len(g), NEW second \in 0 .. Len(g),
           NEW tree \in Tree,
           NEW h, IsOneMore(g, h, first, second, tree)
    PROVE  Continues(g, h, first, second, tree, p)
<1>1. /\ h \in Seq(Commit) /\ GraphOK(h) /\ Grows(g, h) /\ Len(h) = Len(g) + 1
      /\ Ancestors(h, Len(h)) = {Len(h)} \cup Ancestors(g, first)
                                         \cup Ancestors(g, second)
  BY AppendCommit DEF IsOneMore
<1>2. /\ \A c \in Commits(g) : h[c] = g[c]
      /\ h[Len(h)] = NewCommit(g, first, second, tree)
  BY <1>1 DEF Commits, IsOneMore
<1>3. \A c \in 0 .. Len(g) : TreeAt(h, c) = TreeAt(g, c)
  BY <1>2 DEF TreeAt, Commits, NoCommit
<1>4. TreeAt(h, Len(h)) = tree
  BY <1>1, <1>2 DEF TreeAt, NewCommit, NoCommit
<1>5. \A c \in Commits(g) : c \in Writes(h, p) <=> c \in Writes(g, p)
  <2> SUFFICES ASSUME NEW c \in Commits(g)
               PROVE  c \in Writes(h, p) <=> c \in Writes(g, p)
    OBVIOUS
  <2>1. h[c] = g[c] /\ c \in 0 .. Len(g) /\ c \in Commits(h)
    BY <1>1, <1>2 DEF Commits
  <2>2. g[c].first \in 0 .. Len(g)
    BY DEF GraphOK, Commits
  <2>3. QED  BY <1>3, <2>1, <2>2 DEF Writes
<1>6. Len(h) \in Writes(h, p) <=> /\ first # NoCommit /\ second = NoCommit
                                  /\ tree[p] # TreeAt(g, first)[p]
  <2>1. Len(h) \in Commits(h)
    BY <1>1 DEF Commits
  <2>2. h[Len(h)].first = first /\ h[Len(h)].second = second
    BY <1>2 DEF NewCommit
  <2>3. QED  BY <1>3, <1>4, <2>1, <2>2 DEF Writes
<1>7. \A c \in 0 .. Len(g) : /\ Ancestors(h, c) = Ancestors(g, c)
                             /\ Ancestors(g, c) \subseteq Commits(g)
  BY <1>1, AncestorsInRange DEF Grows
<1>8. \A c \in 0 .. Len(g) : Story(h, c, p) = Story(g, c, p)
  BY <1>5, <1>7 DEF Story
<1>9. Story(h, Len(h), p) = Story(g, first, p) \cup Story(g, second, p)
                              \cup ({Len(h)} \cap Writes(h, p))
  BY <1>1, <1>5, <1>7 DEF Story
<1>10. {Len(h)} \cap Writes(h, p) =
         MarkedBy(g, first, second, tree, p, Len(h))
  BY <1>6 DEF MarkedBy
<1>11. QED  BY <1>3, <1>4, <1>8, <1>9, <1>10 DEF Continues

(* A commit that changes the path starts a story of its own; any other has to
   hold what a commit with its story holds.                                 *)
LEMMA AppendDecides ==
    ASSUME NEW g \in Seq(Commit), GraphOK(g), NEW p, StoryDecides(g, p),
           NEW first \in 0 .. Len(g), NEW second \in 0 .. Len(g),
           NEW tree \in Tree,
           NEW h, IsOneMore(g, h, first, second, tree),
           \/ first # NoCommit /\ second = NoCommit
           \/ /\ second # NoCommit
              /\ first # NoCommit
              /\ Story(g, second, p) \subseteq Story(g, first, p)
              /\ tree[p] = TreeAt(g, first)[p]
           \/ /\ second # NoCommit
              /\ first # NoCommit
              /\ Story(g, first, p) \subseteq Story(g, second, p)
              /\ tree[p] = TreeAt(g, second)[p]
    PROVE  StoryDecides(h, p)
<1>1. h \in Seq(Commit) /\ Len(h) = Len(g) + 1
  BY AppendCommit DEF IsOneMore
<1>0. Continues(g, h, first, second, tree, p)
  BY AppendStory
<1>2. /\ \A c \in 0 .. Len(g) : /\ Story(h, c, p) = Story(g, c, p)
                                /\ TreeAt(h, c) = TreeAt(g, c)
      /\ TreeAt(h, Len(h)) = tree
      /\ Story(h, Len(h), p) =
           Story(g, first, p) \cup Story(g, second, p) \cup
           MarkedBy(g, first, second, tree, p, Len(h))
  BY <1>0 DEF Continues
<1>3. \A c \in Commits(g) : Len(h) \notin Story(g, c, p)
  BY <1>1, AncestorsInRange DEF Story, Commits
<1>4. \A c \in Commits(g) :
         Story(h, c, p) = Story(h, Len(h), p) => TreeAt(g, c)[p] = tree[p]
  <2> SUFFICES ASSUME NEW c \in Commits(g), Story(h, c, p) = Story(h, Len(h), p)
               PROVE  TreeAt(g, c)[p] = tree[p]
    OBVIOUS
  <2>1. c \in 0 .. Len(g) /\ Story(g, c, p) = Story(h, Len(h), p)
    BY <1>2 DEF Commits
  <2>2. \A x \in {first, second} \ {NoCommit} : x \in Commits(g)
    BY DEF Commits, NoCommit
  <2>3. CASE first # NoCommit /\ second = NoCommit
    <3>1. tree[p] = TreeAt(g, first)[p]
      BY <1>2, <1>3, <2>1, <2>3 DEF MarkedBy
    <3>2. Story(g, second, p) = {}
      BY <2>3 DEF Story, Ancestors
    <3>3. Story(g, c, p) = Story(g, first, p)
      BY <1>2, <2>1, <3>1, <3>2 DEF MarkedBy
    <3>4. QED  BY <2>2, <2>3, <3>1, <3>3 DEF StoryDecides
  <2>4. CASE /\ second # NoCommit /\ first # NoCommit
             /\ Story(g, second, p) \subseteq Story(g, first, p)
             /\ tree[p] = TreeAt(g, first)[p]
    <3>1. Story(g, c, p) = Story(g, first, p)
      BY <1>2, <2>1, <2>4 DEF MarkedBy
    <3>2. QED  BY <2>2, <2>4, <3>1 DEF StoryDecides
  <2>5. CASE /\ second # NoCommit /\ first # NoCommit
             /\ Story(g, first, p) \subseteq Story(g, second, p)
             /\ tree[p] = TreeAt(g, second)[p]
    <3>1. Story(g, c, p) = Story(g, second, p)
      BY <1>2, <2>1, <2>5 DEF MarkedBy
    <3>2. QED  BY <2>2, <2>5, <3>1 DEF StoryDecides
  <2>6. QED  BY <2>3, <2>4, <2>5
<1>5. Commits(h) = Commits(g) \cup {Len(h)} /\ Commits(g) \subseteq 0 .. Len(g)
  BY <1>1 DEF Commits
<1>6. QED  BY <1>2, <1>4, <1>5 DEF StoryDecides

(* Where no criss-cross leaves a choice, the merge base has all of the story of
   a side whose story the other side has too.                               *)
LEMMA BaseStory ==
    ASSUME NEW g \in Seq(Commit), GraphOK(g), NEW p,
           NEW a \in 0 .. Len(g), NEW b \in 0 .. Len(g),
           ~CrissCross(g, a, b), NEW c \in MergeBases(g, a, b),
           NEW x \in {a, b},
           Story(g, x, p) \subseteq Story(g, a, p),
           Story(g, x, p) \subseteq Story(g, b, p)
    PROVE  c \in Commits(g) /\ Story(g, c, p) = Story(g, x, p)
<1>1. c \in Common(g, a, b)
  BY DEF MergeBases
<1>2. PICK d \in Common(g, a, b) : Common(g, a, b) \subseteq Ancestors(g, d)
  BY <1>1 DEF CrissCross, Disjoint
<1>3. c = d
  BY <1>1, <1>2 DEF MergeBases
<1>4. c \in Commits(g) /\ c \in 0 .. Len(g)
  BY <1>1, AncestorsInRange DEF Common, Commits
<1>5. Story(g, c, p) \subseteq Story(g, x, p)
  BY <1>1, <1>4, StoryGrows DEF Common, IsAncestor
<1>6. Story(g, x, p) \subseteq Story(g, c, p)
  BY <1>2, <1>3 DEF Story, Common
<1>7. QED  BY <1>4, <1>5, <1>6
-----------------------------------------------------------------------------
(* A graph that has all the commits of another one answers every question about
   them alike.                                                              *)
Extends(g, h) == Len(g) <= Len(h) /\ \A c \in Commits(g) : h[c] = g[c]

LEMMA ExtendsKeeps ==
    ASSUME NEW g \in Seq(Commit), GraphOK(g), NEW h \in Seq(Commit), Extends(g, h),
           NEW c \in 0 .. Len(g)
    PROVE  /\ TreeAt(h, c) = TreeAt(g, c)
           /\ Ancestors(h, c) = Ancestors(g, c)
           /\ Line(h, c) = Line(g, c)
BY DEF Extends, TreeAt, Ancestors, Line, Commits, NoCommit

LEMMA LineInRange ==
    ASSUME NEW g \in Seq(Commit), GraphOK(g), NEW c \in 0 .. Len(g)
    PROVE  Line(g, c) \subseteq Commits(g)
<1>1. CASE c = NoCommit
  BY <1>1 DEF Line
<1>2. CASE c # NoCommit
  <2>1. c \in Commits(g)
    BY <1>2 DEF NoCommit, Commits
  <2>2. g[c].line \subseteq g[c].anc /\ g[c].anc \subseteq 1 .. c
    BY <2>1 DEF GraphOK
  <2>3. QED  BY <1>2, <2>1, <2>2 DEF Line, Commits
<1>3. QED  BY <1>1, <1>2

LEMMA StopsInRange ==
    ASSUME NEW g \in Seq(Commit), GraphOK(g), NEW a \in 0 .. Len(g),
           NEW b \in 0 .. Len(g), NEW watermark \in 0 .. Len(g)
    PROVE  WalkStops(g, a, b, watermark) \subseteq 0 .. Len(g)
<1>1. Ancestors(g, a) \subseteq Commits(g)
  BY AncestorsInRange
<1>2. MergeBases(g, a, b) \subseteq 0 .. Len(g)
  BY <1>1 DEF MergeBases, Common, Commits
<1>3. QED  BY <1>2 DEF WalkStops, NoCommit

LEMMA ExtendsWalk ==
    ASSUME NEW g \in Seq(Commit), GraphOK(g), NEW h \in Seq(Commit), Extends(g, h),
           NEW a \in 0 .. Len(g), NEW b \in 0 .. Len(g),
           NEW watermark \in 0 .. Len(g)
    PROVE  /\ WalkStops(h, a, b, watermark) = WalkStops(g, a, b, watermark)
           /\ \A stop \in 0 .. Len(g) : Unpushed(h, a, b, stop) = Unpushed(g, a, b, stop)
<1>1. \A c \in 0 .. Len(g) : Ancestors(h, c) = Ancestors(g, c) /\ Line(h, c) = Line(g, c)
  BY ExtendsKeeps
<1>2. Common(h, a, b) = Common(g, a, b) /\ Common(g, a, b) \subseteq 0 .. Len(g)
  BY <1>1, AncestorsInRange DEF Common, Commits
<1>3. MergeBases(h, a, b) = MergeBases(g, a, b)
  BY <1>1, <1>2 DEF MergeBases
<1>4. WalkStops(h, a, b, watermark) = WalkStops(g, a, b, watermark)
  BY <1>2, <1>3 DEF WalkStops, Disjoint
<1>5. ASSUME NEW stop \in 0 .. Len(g)
      PROVE  Unpushed(h, a, b, stop) = Unpushed(g, a, b, stop)
  <2>1. Walked(h, a, stop) = Walked(g, a, stop)
    BY <1>1 DEF Walked
  <2>2. Walked(g, a, stop) \subseteq Commits(g)
    BY LineInRange DEF Walked
  <2>3. \A c \in Walked(g, a, stop) : h[c].second = g[c].second
    BY <2>2 DEF Extends
  <2>4. {c \in Walked(h, a, stop) : h[c].second = NoCommit}
          = {c \in Walked(g, a, stop) : g[c].second = NoCommit}
    BY <2>1, <2>3
  <2>5. IsAncestor(h, a, b) = IsAncestor(g, a, b) /\ IsAncestor(h, b, a) = IsAncestor(g, b, a)
    BY <1>1 DEF IsAncestor
  <2>6. QED  BY <2>4, <2>5 DEF Unpushed
<1>6. QED  BY <1>4, <1>5

(* The first-parent chain of a commit is one: of two commits on it, the earlier
   lies on the chain of the later.                                          *)
ChainOK(g) ==
    \A c \in Commits(g) : \A a, b \in g[c].line : a <= b => a \in g[b].line

LEMMA ChainBelow ==
    ASSUME NEW g \in Seq(Commit), GraphOK(g), ChainOK(g), NEW c \in 0 .. Len(g),
           NEW a \in Line(g, c), NEW b \in Line(g, c), a \in Ancestors(g, b)
    PROVE  a \in Line(g, b)
<1>1. c \in Commits(g) /\ a \in g[c].line /\ b \in g[c].line
  BY DEF Line, Commits, NoCommit
<1>2. b \in Commits(g) /\ b # NoCommit
  BY LineInRange DEF Commits, NoCommit
<1>3. a <= b
  BY <1>2 DEF Ancestors, GraphOK
<1>4. a \in g[b].line
  BY <1>1, <1>3 DEF ChainOK
<1>5. QED  BY <1>2, <1>4 DEF Line

LEMMA LineIsAncestors ==
    ASSUME NEW g \in Seq(Commit), GraphOK(g), NEW c \in 0 .. Len(g)
    PROVE  Line(g, c) \subseteq Ancestors(g, c)
BY DEF GraphOK, Line, Ancestors, Commits, NoCommit

LEMMA AppendChain ==
    ASSUME NEW g \in Seq(Commit), GraphOK(g), ChainOK(g),
           NEW first \in 0 .. Len(g), NEW second \in 0 .. Len(g),
           NEW tree \in Tree,
           NEW h, IsOneMore(g, h, first, second, tree)
    PROVE  /\ ChainOK(h)
           /\ Line(h, Len(h)) = {Len(h)} \cup Line(g, first)
           /\ h[Len(h)].first = first /\ h[Len(h)].second = second
<1>1. h \in Seq(Commit) /\ Len(h) = Len(g) + 1
  BY AppendCommit DEF IsOneMore
<1>2. /\ \A c \in Commits(g) : h[c] = g[c]
      /\ h[Len(h)] = NewCommit(g, first, second, tree)
  BY <1>1 DEF Commits, IsOneMore
<1>3. /\ h[Len(h)].line = {Len(h)} \cup Line(g, first)
      /\ h[Len(h)].first = first /\ h[Len(h)].second = second
  BY <1>1, <1>2 DEF NewCommit
<1>4. Line(h, Len(h)) = {Len(h)} \cup Line(g, first)
  BY <1>1, <1>3 DEF Line, NoCommit
<1>5. ASSUME NEW c \in Commits(h), NEW a \in h[c].line, NEW b \in h[c].line, a <= b
      PROVE  a \in h[b].line
  <2>1. CASE c \in Commits(g)
    <3>1. a \in g[c].line /\ b \in g[c].line
      BY <1>2, <2>1
    <3>2. g[c].line \subseteq Commits(g)
      BY <2>1 DEF GraphOK, Commits
    <3>3. h[b] = g[b] /\ a \in g[b].line
      BY <1>2, <1>5, <2>1, <3>1, <3>2 DEF ChainOK
    <3>4. QED  BY <3>3
  <2>2. CASE c = Len(h)
    <3>1. Line(g, first) \subseteq Commits(g)
      BY LineInRange
    <3>2. CASE b = Len(h)
      BY <1>3, <2>2, <3>2
    <3>3. CASE b # Len(h)
      <4>1. b \in Line(g, first) /\ b \in Commits(g)
        BY <1>3, <2>2, <3>1, <3>3
      <4>2. a # Len(h)
        BY <1>1, <1>5, <4>1 DEF Commits
      <4>3. a \in Line(g, first)
        BY <1>3, <2>2, <4>2
      <4>4. first \in Commits(g) /\ Line(g, first) = g[first].line
        BY <4>1 DEF Line, Commits, NoCommit
      <4>5. a \in g[first].line /\ b \in g[first].line
        BY <4>1, <4>3, <4>4
      <4>6. a \in g[b].line
        BY <1>5, <4>4, <4>5 DEF ChainOK
      <4>7. h[b] = g[b]
        BY <1>2, <4>1
      <4>8. QED  BY <4>6, <4>7
    <3>4. QED  BY <3>2, <3>3
  <2>3. QED  BY <1>1, <2>1, <2>2 DEF Commits
<1>6. QED  BY <1>3, <1>4, <1>5 DEF ChainOK
=============================================================================
