----------------------------- MODULE TreeMerge -----------------------------
(***************************************************************************)
(* The three-way tree merge every branch operation of the store is built   *)
(* from (internal/store/branch_merge.go, mergeTreesWithStrategy).  A git   *)
(* tree is a function from paths to blobs; Absent marks a path the tree    *)
(* does not hold.  The code walks the changes of diff(base, src) one path  *)
(* at a time and a change never reads another path, so the merge of two    *)
(* trees is the merge of their paths.                                      *)
(***************************************************************************)

CONSTANTS
    Paths,      \* the paths a tree may hold
    Blobs,      \* the contents a path may have (blob hashes)
    Absent      \* the path is not in the tree

ASSUME AbsentAssumption == Absent \notin Blobs

Entry == Blobs \cup {Absent}
Tree  == [Paths -> Entry]

EmptyTree == [p \in Paths |-> Absent]

(* ConflictStrategy: whose version of a path stays when both sides changed it.
   "Local" is dst, the branch being updated; "Remote" is src.               *)
Strategies == {"LocalWins", "RemoteWins"}

(* treeBlobHash(dst) against treeBlobHash(base): dst changed or dropped a
   path that base holds.                                                    *)
Conflict(b, d) == d # b

(* One change of diff(base, src) applied to dst.  An insert is applied under
   either strategy, whatever dst holds; a modify or delete that meets a local
   change is skipped under LocalWins; deleting what dst does not hold is a
   no-op.                                                                   *)
Kept(b, s, d, strategy) ==
    \/ s = b                                             \* not in the diff
    \/ /\ b # Absent                                     \* Modify, Delete
       /\ \/ Conflict(b, d) /\ strategy = "LocalWins"
          \/ s = Absent /\ d = Absent

(* Faulty variant: a delete on src is never applied.                        *)
IgnoreDelete(b, s, d, strategy) ==
    IF Kept(b, s, d, strategy) \/ s = Absent THEN d ELSE s

MergeEntry(b, s, d, strategy) == IF Kept(b, s, d, strategy) THEN d ELSE s

MergeTrees(base, src, dst, strategy) ==
    [p \in Paths |-> MergeEntry(base[p], src[p], dst[p], strategy)]

(* replayCommit: the delta of commit orig over its first parent, applied to
   onto.  The caller's LocalWins (the agent wins) is RemoteWins here, because
   the agent's commit is src.                                               *)
Invert(strategy) == IF strategy = "LocalWins" THEN "RemoteWins" ELSE "LocalWins"

ReplayTree(parentTree, origTree, ontoTree, strategy) ==
    MergeTrees(parentTree, origTree, ontoTree, Invert(strategy))

(* writeFile, deleteFile, batchWrite: the writes, then the deletes, applied
   to the parent's tree in one commit.                                      *)
ApplyChange(tree, files, deletes) ==
    [p \in Paths |-> IF p \in deletes THEN Absent
                     ELSE IF p \in DOMAIN files THEN files[p] ELSE tree[p]]
=============================================================================
