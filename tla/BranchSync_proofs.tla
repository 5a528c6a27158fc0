-------------------------- MODULE BranchSync_proofs --------------------------
(***************************************************************************)
(* BranchSync for any paths, blobs, roots, changes and budget: its types,  *)
(* and that until somebody rewrites the server's main no tick, failure,    *)
(* interruption or reinstallation rewrites what the agent pushed.          *)
(***************************************************************************)
EXTENDS BranchSync, CommitGraph_proofs

(* A tick past its fetch has a main to reconcile with.                      *)
TypeInv == TypeOK /\ (phase = "main" => trackMain # NoCommit)

(* What making a commit does to the graph.                                  *)
LEMMA CreateCommit ==
    ASSUME TypeOK, NEW first \in Ref, NEW second \in Ref, NEW tree \in Tree,
           Create(first, second, tree)
    PROVE  /\ commits' \in Seq(Commit) /\ GraphOK(commits')
           /\ Grows(commits, commits')
           /\ Len(commits') = Len(commits) + 1
           /\ NextId = Len(commits')
           /\ Ancestors(commits', NextId) =
                {NextId} \cup Ancestors(commits, first) \cup Ancestors(commits, second)
<1>1. commits \in Seq(Commit) /\ GraphOK(commits)
  BY DEF TypeOK
<1>2. first \in 0 .. Len(commits) /\ second \in 0 .. Len(commits)
  BY DEF Ref
<1>3. commits' = Append(commits, NewCommit(commits, first, second, tree))
  BY DEF Create
<1>4. QED  BY <1>1, <1>2, <1>3, AppendCommit DEF NextId

LEMMA AtType == ASSUME TypeOK, NEW c \in Ref PROVE At(c) \in Tree
BY TreeAtType DEF TypeOK, At, Ref

LEMMA ParentInRange ==
    ASSUME TypeOK, NEW c \in Commits(commits)
    PROVE  c \in Ref /\ commits[c].first \in Ref
<1>1. Len(commits) \in Nat /\ c \in 1 .. Len(commits)
  BY DEF TypeOK, Commits
<1>2. commits[c].first \in 0 .. c - 1
  BY DEF TypeOK, GraphOK
<1>3. QED  BY <1>1, <1>2 DEF Ref

LEMMA RefFacts ==
    ASSUME TypeOK
    PROVE  /\ NoCommit \in Ref /\ agent \in Ref /\ main \in Ref
           /\ base \in Ref /\ trackMain \in Ref /\ trackAgent \in Ref
           /\ rMain \in Ref /\ rAgent \in Ref /\ current \in Ref
           /\ Len(commits) \in Nat
BY DEF TypeOK, Ref, Commits, NoCommit

(* Every step leaves the graph alone or adds one commit to it.              *)
GraphStep ==
    /\ commits' \in Seq(Commit) /\ GraphOK(commits')
    /\ Grows(commits, commits')

LEMMA Unmoved == ASSUME TypeOK, UNCHANGED commits PROVE GraphStep
BY DEF GraphStep, Grows, TypeOK

LEMMA CreateStep ==
    ASSUME TypeOK, NEW first \in Ref, NEW second \in Ref, NEW tree \in Tree,
           Create(first, second, tree)
    PROVE  /\ GraphStep /\ NextId \in Commits(commits)' /\ NextId \in Ref'
           /\ first # NoCommit => IsAncestor(commits', first, NextId)
           /\ second # NoCommit => IsAncestor(commits', second, NextId)
<1>1. commits \in Seq(Commit) /\ GraphOK(commits)
  BY DEF TypeOK
<1>2. \A c \in {first, second} : c # NoCommit => c \in Ancestors(commits, c)
  BY <1>1, SelfAncestor DEF IsAncestor, Ref, Commits, NoCommit
<1>3. /\ commits' \in Seq(Commit) /\ GraphOK(commits')
      /\ Grows(commits, commits')
      /\ Len(commits') = Len(commits) + 1
      /\ NextId = Len(commits')
      /\ Ancestors(commits', NextId) =
           {NextId} \cup Ancestors(commits, first) \cup Ancestors(commits, second)
  BY CreateCommit
<1>4. NextId \in Commits(commits') /\ NextId \in 0 .. Len(commits')
  BY <1>1, <1>3 DEF Commits
<1>5. QED  BY <1>2, <1>3, <1>4 DEF GraphStep, Ref, Commits, IsAncestor

LEMMA StepKeepsRefs ==
    ASSUME TypeOK, GraphStep
    PROVE  /\ Ref \subseteq Ref'
           /\ Commits(commits) \subseteq Commits(commits)'
BY DEF GraphStep, Grows, Ref, Commits, TypeOK
-----------------------------------------------------------------------------
LEMMA InitTypes == Init => TypeInv
<1> SUFFICES ASSUME Init PROVE TypeInv
  OBVIOUS
<1> USE DEF NoCommit
<1>1. /\ commits \in Seq(Commit) /\ GraphOK(commits) /\ Len(commits) \in {1, 2}
      /\ base \in {0, 1} /\ trackMain \in {0, 1}
      /\ rMain \in 0 .. Len(commits)
      /\ foreign \subseteq Paths /\ rewritten \in BOOLEAN
  <2>1. PICK tree \in Roots :
           \/ InitCloned(tree) \/ InitTakenOver(tree) \/ InitEmptyOrigin(tree)
           \/ \E other \in Roots : InitAttached(tree, other)
    BY DEF Init
  <2>2. tree \in Tree
    BY RootsAssumption
  <2> DEFINE one == <<FirstRoot(tree)>>
  <2>3. one \in Seq(Commit) /\ GraphOK(one) /\ Len(one) = 1
    BY <2>2, RootGraph DEF FirstRoot
  <2>4. CASE InitCloned(tree) \/ InitTakenOver(tree) \/ InitEmptyOrigin(tree)
    <3>1. commits = one
      BY <2>4 DEF InitCloned, InitTakenOver, InitEmptyOrigin
    <3>2. /\ base \in {0, 1} /\ trackMain \in {0, 1} /\ rMain \in {0, 1}
          /\ foreign = {} /\ rewritten = FALSE
      BY <2>4 DEF InitCloned, InitTakenOver, InitEmptyOrigin
    <3> HIDE DEF one
    <3>3. commits \in Seq(Commit) /\ GraphOK(commits) /\ Len(commits) = 1
      BY <2>3, <3>1
    <3>4. rMain \in 0 .. Len(commits)
      BY <3>2, <3>3
    <3>5. foreign \subseteq Paths /\ rewritten \in BOOLEAN
      BY <3>2
    <3>6. QED  BY <3>2, <3>3, <3>4, <3>5
  <2>5. CASE \E other \in Roots : InitAttached(tree, other)
    <3>1. PICK other \in Roots : InitAttached(tree, other)
      BY <2>5
    <3>2. other \in Tree
      BY RootsAssumption
    <3> DEFINE new == NewCommit(one, NoCommit, NoCommit, other)
    <3>3. commits = <<FirstRoot(tree), new>>
      BY <3>1 DEF InitAttached
    <3>4. /\ base = 1 /\ trackMain = 0 /\ rMain = 2
          /\ foreign \subseteq Paths /\ rewritten = TRUE
      BY <3>1 DEF InitAttached
    <3>5. commits = Append(one, new)
      BY <3>3
    <3> HIDE DEF one
    <3>6. /\ Append(one, new) \in Seq(Commit)
          /\ GraphOK(Append(one, new))
          /\ Len(Append(one, new)) = Len(one) + 1
      <4>1. NoCommit \in 0 .. Len(one)
        BY <2>3
      <4>2. QED  BY <2>3, <3>2, <4>1, AppendCommit, Zenon
    <3> HIDE DEF new
    <3>7. Len(commits) = 2 /\ commits \in Seq(Commit) /\ GraphOK(commits)
      BY <2>3, <3>5, <3>6
    <3>8. QED  BY <3>4, <3>7
  <2>6. QED  BY <2>1, <2>4, <2>5
<1>2. /\ agent = 1 /\ main = 1 /\ trackAgent = 0 /\ rAgent = 0
      /\ phase = "idle" /\ todo = {} /\ current = 0 /\ budget = Budget
      /\ own = [p \in Paths |-> NoWrite] /\ crossed = FALSE /\ strayed = FALSE
  BY DEF Init
<1>3. own \in [Paths -> Entry \cup {NoWrite}] /\ budget \in [BudgetKinds -> Nat]
  BY <1>2, BudgetAssumption
<1>4. /\ agent \in Commits(commits) /\ main \in Commits(commits)
      /\ base \in Ref /\ trackMain \in Ref /\ trackAgent \in Ref
      /\ rMain \in Ref /\ rAgent \in Ref /\ current \in Ref
  <2>1. Len(commits) \in {1, 2}
    BY <1>1
  <2>2. 0 \in Ref /\ 1 \in Ref /\ 1 \in Commits(commits)
    BY <2>1 DEF Ref, Commits
  <2>3. base \in Ref /\ trackMain \in Ref /\ rMain \in Ref
    BY <1>1, <2>1, <2>2 DEF Ref
  <2>4. QED  BY <1>2, <2>2, <2>3
<1>5. QED  BY <1>1, <1>2, <1>3, <1>4 DEF TypeInv, TypeOK, Phases
LEMMA SpendType ==
    ASSUME TypeOK, NEW k \in BudgetKinds, Spend(k)
    PROVE  budget' \in [BudgetKinds -> Nat]
BY DEF TypeOK, Spend

LEMMA CrossedType ==
    ASSUME TypeOK, NEW a, NEW b, ChooseBase(a, b)
    PROVE  crossed' \in BOOLEAN
BY DEF ChooseBase

LEMMA StillTypes == ASSUME TypeInv, UNCHANGED vars PROVE TypeInv'
BY DEF TypeInv, TypeOK, vars, refs, origin, replay, ghosts, Ref, Commits

(* The steps of a tick that make no commit.                                 *)
LEMMA TickTypes ==
    ASSUME TypeInv, UNCHANGED commits,
           Fetch \/ FetchFails \/ ReconcileMain \/ MergeNoop
             \/ MergeFastForward \/ MergeRefused \/ Rebase \/ ReplayFinish
             \/ ReplayFails \/ PushNoop \/ Push \/ PushFails \/ Interrupt
    PROVE  TypeInv'
<1>1. TypeOK
  BY DEF TypeInv
<1>2. UNCHANGED budget => budget' \in [BudgetKinds -> Nat]
  BY <1>1 DEF TypeOK
<1>3. Spend("fault") => budget' \in [BudgetKinds -> Nat]
  BY <1>1, SpendType DEF BudgetKinds
<1>4. Commits(commits)' = Commits(commits) /\ Ref' = Ref
  BY DEF Commits, Ref
<1>5. commits' \in Seq(Commit) /\ GraphOK(commits')
  BY <1>1 DEF TypeOK
<1>6. \A c \in Ref : c # NoCommit => c \in Commits(commits)
  BY <1>1 DEF Ref, Commits, NoCommit, TypeOK
<1>7. NoCommit \in Ref /\ Commits(commits) \subseteq Ref /\ NoCommit \notin Commits(commits)
  BY <1>1 DEF Ref, Commits, NoCommit, TypeOK
<1> USE <1>2, <1>3, <1>4, <1>5, <1>6, <1>7
    DEF TypeInv, TypeOK, Phases, refs, origin, replay, ghosts
<1>8. CASE Fetch
  BY <1>8 DEF Fetch
<1>9. CASE FetchFails
  BY <1>9 DEF FetchFails
<1>10. CASE ReconcileMain
  <2>1. main' \in Commits(commits)
    BY <1>10 DEF ReconcileMain
  <2>2. phase' \in {"rebase", "merge", "push"} /\ budget' \in [BudgetKinds -> Nat]
    BY <1>10 DEF ReconcileMain
  <2>3. QED  BY <1>10, <2>1, <2>2 DEF ReconcileMain
<1>11. CASE MergeNoop
  BY <1>11 DEF MergeNoop, MergeDone
<1>12. CASE MergeFastForward
  BY <1>12 DEF MergeFastForward, MergeDone
<1>13. CASE MergeRefused
  BY <1>13 DEF MergeRefused
<1>14. CASE Rebase
  <2>1. PICK stop : RebaseNothing(stop) \/ ReplayStart(stop)
    BY <1>14 DEF Rebase
  <2>2. UNCHANGED <<main, trackMain, trackAgent, rMain, rAgent, own, foreign, rewritten,
                     crossed>>
        /\ phase = "rebase"
    BY <1>14 DEF Rebase
  <2>3. CASE RebaseNothing(stop)
    <3>1. strayed' \in BOOLEAN
      BY <2>3 DEF RebaseNothing
    <3>2. QED  BY <2>2, <2>3, <3>1 DEF RebaseNothing
  <2>4. CASE ReplayStart(stop)
    <3>1. todo' \subseteq Commits(commits)
      BY <2>4, UnpushedInRange DEF ReplayStart, Ref
    <3>2. strayed' \in BOOLEAN
      BY <2>4 DEF ReplayStart
    <3>3. QED  BY <2>2, <2>4, <3>1, <3>2 DEF ReplayStart
  <2>5. QED  BY <2>1, <2>3, <2>4
<1>15. CASE ReplayFinish
  BY <1>15 DEF ReplayFinish
<1>16. CASE ReplayFails
  BY <1>16 DEF ReplayFails
<1>17. CASE PushNoop
  BY <1>17 DEF PushNoop
<1>18. CASE Push
  BY <1>18 DEF Push
<1>19. CASE PushFails
  BY <1>19 DEF PushFails
<1>20. CASE Interrupt
  BY <1>20 DEF Interrupt
<1>21. QED
  BY <1>8, <1>9, <1>10, <1>11, <1>12, <1>13, <1>14, <1>15, <1>16, <1>17,
     <1>18, <1>19, <1>20
(* Facts every step that makes a commit uses: the references there are stay
   references, and the new commit is one.                                   *)
LEMMA CreateTypes ==
    ASSUME TypeInv, NEW first \in Ref, NEW second \in Ref, NEW tree \in Tree,
           Create(first, second, tree)
    PROVE  /\ commits' \in Seq(Commit) /\ GraphOK(commits')
           /\ Ref \subseteq Ref' /\ Commits(commits) \subseteq Commits(commits)'
           /\ NextId \in Commits(commits)' /\ NextId \in Ref' /\ NextId # NoCommit
<1>1. TypeOK
  BY DEF TypeInv
<1>2. GraphStep /\ NextId \in Commits(commits)' /\ NextId \in Ref'
  BY <1>1, CreateStep
<1>3. NextId # NoCommit
  BY <1>1, RefFacts DEF NextId, NoCommit
<1>4. QED  BY <1>1, <1>2, <1>3, StepKeepsRefs DEF GraphStep

LEMMA LocalWriteTypes ==
    ASSUME TypeInv, NEW change \in Changes,
           LocalWrite(change.files, change.deletes)
    PROVE  TypeInv'
<1>1. TypeOK /\ agent \in Ref /\ NoCommit \in Ref
  BY RefFacts DEF TypeInv
<1> DEFINE tree == ApplyChange(At(agent), change.files, change.deletes)
<1>2. tree \in Tree
  <2>1. At(agent) \in Tree
    BY <1>1, AtType
  <2>2. PICK written \in SUBSET Paths : change.files \in [written -> Blobs]
    BY ChangesAssumption
  <2>3. change.deletes \in SUBSET Paths
    BY ChangesAssumption
  <2>4. QED  BY <2>1, <2>2, <2>3, ApplyChangeType
<1>3. Create(agent, NoCommit, tree)
  BY DEF LocalWrite
<1>4. /\ commits' \in Seq(Commit) /\ GraphOK(commits')
      /\ Ref \subseteq Ref' /\ Commits(commits) \subseteq Commits(commits)'
      /\ NextId \in Commits(commits)'
  BY <1>1, <1>2, <1>3, CreateTypes
<1>5. budget' \in [BudgetKinds -> Nat]
  BY <1>1, SpendType DEF LocalWrite, BudgetKinds
<1>6. own' \in [Paths -> Entry \cup {NoWrite}]
  BY <1>1, <1>2 DEF LocalWrite, TypeOK, Tree
<1>7. /\ agent' = NextId
      /\ UNCHANGED <<main, base, trackMain, trackAgent, rMain, rAgent, phase,
                     todo, current, foreign, rewritten, crossed,
                     strayed>>
  BY DEF LocalWrite, origin, replay
<1>8. QED  BY <1>1, <1>4, <1>5, <1>6, <1>7 DEF TypeInv, TypeOK

LEMMA MergeDivergedTypes == ASSUME TypeInv, MergeDiverged PROVE TypeInv'
<1>1. TypeOK /\ agent \in Ref /\ main \in Ref /\ NoCommit \in Ref
  BY RefFacts DEF TypeInv
<1>2. PICK b \in MergeBases(commits, main, agent) :
         LET merged == MergeTrees(At(b), At(main), At(agent), "LocalWins")
         IN \/ MergeDone(FALSE) /\ UNCHANGED <<commits, agent>>
            \/ Create(agent, main, merged) /\ agent' = NextId /\ MergeDone(TRUE)
  BY DEF MergeDiverged
<1> DEFINE merged == MergeTrees(At(b), At(main), At(agent), "LocalWins")
<1>3. merged \in Tree
  <2>1. b \in Ref
    <3>1. Ancestors(commits, main) \subseteq Commits(commits)
      BY <1>1, AncestorsInRange DEF TypeOK, Ref
    <3>2. QED  BY <1>1, <1>2, <3>1 DEF MergeBases, Common, Ref, Commits, TypeOK
  <2>2. QED  BY <1>1, <2>1, AtType, MergeTreesType
<1>4. /\ UNCHANGED <<main, trackMain, trackAgent, rMain, rAgent, todo, current,
                     own, foreign, rewritten>>
      /\ phase = "merge" /\ crossed' \in BOOLEAN /\ UNCHANGED strayed
  BY <1>1, CrossedType DEF MergeDiverged, origin, replay
<1>5. /\ phase' = "push" /\ base' \in Ref
      /\ budget' \in [BudgetKinds -> Nat]
  <2>1. Spend("fault") => budget' \in [BudgetKinds -> Nat]
    BY <1>1, SpendType DEF BudgetKinds
  <2>2. MergeDone(TRUE) \/ MergeDone(FALSE)
    BY <1>2
  <2>3. QED  BY <1>1, <2>1, <2>2 DEF MergeDone, TypeOK
<1>6. CASE UNCHANGED <<commits, agent>>
  <2>1. Ref' = Ref /\ Commits(commits)' = Commits(commits)
    BY <1>6 DEF Ref, Commits
  <2>2. QED  BY <1>1, <1>4, <1>5, <1>6, <2>1 DEF TypeInv, TypeOK, Phases
<1>7. CASE Create(agent, main, merged) /\ agent' = NextId
  <2>1. /\ commits' \in Seq(Commit) /\ GraphOK(commits')
        /\ Ref \subseteq Ref' /\ Commits(commits) \subseteq Commits(commits)'
        /\ NextId \in Commits(commits)'
    BY <1>1, <1>3, <1>7, CreateTypes
  <2>2. QED  BY <1>1, <1>4, <1>5, <1>7, <2>1 DEF TypeInv, TypeOK, Phases
<1>8. QED  BY <1>2, <1>6, <1>7

LEMMA ReplayStepTypes == ASSUME TypeInv, ReplayStep PROVE TypeInv'
<1>1. TypeOK /\ current \in Ref /\ NoCommit \in Ref
  BY RefFacts DEF TypeInv
<1>2. PICK c \in todo :
         /\ Create(current, NoCommit,
                   ReplayTree(At(commits[c].first), At(c), At(current), "LocalWins"))
         /\ todo' = todo \ {c}
  BY DEF ReplayStep
<1> DEFINE tree == ReplayTree(At(commits[c].first), At(c), At(current), "LocalWins")
<1>3. tree \in Tree
  <2>1. c \in Commits(commits)
    BY <1>1 DEF TypeOK
  <2>2. c \in Ref /\ commits[c].first \in Ref
    BY <1>1, <2>1, ParentInRange
  <2>3. QED  BY <1>1, <2>1, <2>2, AtType, ReplayTreeType
<1>4. /\ commits' \in Seq(Commit) /\ GraphOK(commits')
      /\ Ref \subseteq Ref' /\ Commits(commits) \subseteq Commits(commits)'
      /\ NextId \in Ref' /\ NextId # NoCommit
  BY <1>1, <1>2, <1>3, CreateTypes
<1>5. /\ current' = NextId /\ phase = "replay"
      /\ UNCHANGED <<agent, main, base, trackMain, trackAgent, rMain, rAgent,
                     phase, budget, own, foreign, rewritten, crossed,
                     strayed>>
  BY DEF ReplayStep, refs, origin, ghosts
<1>6. QED  BY <1>1, <1>2, <1>4, <1>5 DEF TypeInv, TypeOK
LEMMA ReinstallTypes == ASSUME TypeInv, Reinstall PROVE TypeInv'
<1>1. TypeOK /\ rMain \in Commits(commits) /\ rMain # NoCommit
  BY DEF TypeInv, Reinstall, TypeOK, Ref, Commits, NoCommit
<1>2. Ref' = Ref /\ Commits(commits)' = Commits(commits) /\ NoCommit \in Ref
  BY <1>1, RefFacts DEF Reinstall, Ref, Commits
<1>3. budget' \in [BudgetKinds -> Nat]
  BY <1>1, SpendType DEF Reinstall, BudgetKinds
<1>4. /\ agent' \in Commits(commits) /\ trackAgent' \in Ref /\ base' \in Ref
      /\ own' \in [Paths -> Entry \cup {NoWrite}]
  <2>1. CASE rAgent = NoCommit /\ agent' = rMain /\ trackAgent' = NoCommit
             /\ base' = rMain /\ own' = [p \in Paths |-> NoWrite]
    BY <1>1, <1>2, <2>1 DEF TypeOK
  <2>2. CASE /\ rAgent # NoCommit /\ agent' = rAgent /\ trackAgent' = rAgent
             /\ base' = rMain \/ base' \in MergeBases(commits, rAgent, rMain)
             /\ own' = [p \in Paths |-> IF own[p] = NoWrite THEN NoWrite
                                        ELSE At(rAgent)[p]]
    <3>1. rAgent \in Ref /\ rMain \in Ref /\ rAgent \in Commits(commits)
      BY <1>1, <2>2 DEF TypeOK, Ref, Commits, NoCommit
    <3>2. MergeBases(commits, rAgent, rMain) \subseteq Ref
      <4>1. Ancestors(commits, rMain) \subseteq Commits(commits)
        BY <1>1, <3>1, AncestorsInRange DEF TypeOK, Ref
      <4>2. QED  BY <1>1, <4>1 DEF MergeBases, Common, Ref, Commits, TypeOK
    <3>3. At(rAgent) \in Tree
      BY <1>1, <3>1, AtType
    <3>4. own' \in [Paths -> Entry \cup {NoWrite}]
      BY <2>2, <3>3 DEF Tree
    <3>5. QED  BY <2>2, <3>1, <3>2, <3>4
  <2>3. QED  BY <2>1, <2>2 DEF Reinstall
<1>5. /\ main' = rMain /\ trackMain' = rMain
      /\ UNCHANGED <<commits, rMain, rAgent, phase, todo, current, foreign,
                     rewritten, crossed,
                     strayed>>
  BY DEF Reinstall, origin, replay
<1>6. QED  BY <1>1, <1>2, <1>3, <1>4, <1>5 DEF TypeInv, TypeOK

LEMMA OriginTypes == ASSUME TypeInv, Origin PROVE TypeInv'
<1>1. /\ TypeOK /\ rMain \in Ref /\ rAgent \in Ref /\ NoCommit \in Ref
  BY RefFacts DEF TypeInv
<1>2. /\ UNCHANGED <<agent, main, base, trackMain, trackAgent, rAgent, phase,
                     todo, current, own, strayed>>
  BY DEF Origin, OriginEdit, OriginMerge, OriginRewind, OriginReplace,
         MoveMain, refs, replay
<1>3. /\ budget' \in [BudgetKinds -> Nat]
      /\ foreign' \subseteq Paths /\ rewritten' \in BOOLEAN /\ crossed' \in BOOLEAN
  <2>1. Spend("main") \/ Spend("rewrite")
    BY DEF Origin, OriginEdit, OriginMerge, OriginRewind, OriginReplace
  <2>2. budget' \in [BudgetKinds -> Nat]
    BY <1>1, <2>1, SpendType DEF BudgetKinds
  <2>3. foreign' \subseteq Paths /\ rewritten' \in BOOLEAN
    BY <1>1 DEF Origin, OriginEdit, OriginMerge, OriginRewind, OriginReplace,
                Changed, TypeOK
  <2>4. crossed' \in BOOLEAN
    <3>1. \/ UNCHANGED crossed
          \/ ChooseBase(rAgent, rMain)
      BY DEF Origin, OriginEdit, OriginMerge, OriginRewind, OriginReplace
    <3>2. QED  BY <1>1, <3>1, CrossedType DEF TypeOK
  <2>5. QED  BY <2>2, <2>3, <2>4
<1>4. /\ commits' \in Seq(Commit) /\ GraphOK(commits')
      /\ Ref \subseteq Ref' /\ Commits(commits) \subseteq Commits(commits)'
      /\ rMain' \in Ref'
  <2>1. CASE \E p \in Paths, blob \in Entry : OriginEdit(p, blob)
    <3>1. PICK p \in Paths, blob \in Entry : OriginEdit(p, blob)
      BY <2>1
    <3>2. [At(rMain) EXCEPT ![p] = blob] \in Tree
      BY <1>1, AtType DEF Tree
    <3>3. Create(rMain, NoCommit, [At(rMain) EXCEPT ![p] = blob]) /\ rMain' = NextId
      BY <3>1 DEF OriginEdit, MoveMain
    <3>4. QED  BY <1>1, <3>2, <3>3, CreateTypes
  <2>2. CASE OriginMerge
    <3>1. CASE UNCHANGED commits /\ rMain' = rAgent
      BY <1>1, <3>1 DEF TypeOK, Ref, Commits
    <3>2. CASE /\ \E b \in MergeBases(commits, rAgent, rMain), s \in Strategies :
                     Create(rMain, rAgent, MergeTrees(At(b), At(rAgent), At(rMain), s))
               /\ rMain' = NextId
      <4>1. PICK b \in MergeBases(commits, rAgent, rMain), s \in Strategies :
               Create(rMain, rAgent, MergeTrees(At(b), At(rAgent), At(rMain), s))
        BY <3>2
      <4>2. b \in Ref
        <5>1. Ancestors(commits, rMain) \subseteq Commits(commits)
          BY <1>1, AncestorsInRange DEF TypeOK, Ref
        <5>2. QED  BY <1>1, <4>1, <5>1 DEF MergeBases, Common, Ref, Commits, TypeOK
      <4>3. MergeTrees(At(b), At(rAgent), At(rMain), s) \in Tree
        BY <1>1, <4>2, AtType, MergeTreesType
      <4>4. QED  BY <1>1, <3>2, <4>1, <4>3, CreateTypes
    <3>3. QED  BY <2>2, <3>1, <3>2 DEF OriginMerge, MoveMain
  <2>3. CASE OriginRewind
    <3>1. PICK c \in Ancestors(commits, rMain) : rMain' = c
      BY <2>3 DEF OriginRewind, MoveMain
    <3>2. c \in Commits(commits)
      BY <1>1, AncestorsInRange DEF TypeOK, Ref
    <3>3. UNCHANGED commits
      BY <2>3 DEF OriginRewind
    <3>4. QED  BY <1>1, <3>1, <3>2, <3>3 DEF TypeOK, Ref, Commits
  <2>4. CASE \E scrubbed \in SUBSET Paths : OriginReplace(scrubbed)
    <3>1. PICK scrubbed \in SUBSET Paths : OriginReplace(scrubbed)
      BY <2>4
    <3> DEFINE tree == [p \in Paths |-> IF p \in scrubbed THEN Absent ELSE At(rMain)[p]]
    <3>2. tree \in Tree
      BY <1>1, AtType DEF Tree, Entry
    <3>3. Create(NoCommit, NoCommit, tree) /\ rMain' = NextId
      BY <3>1 DEF OriginReplace, MoveMain
    <3>4. QED  BY <1>1, <3>2, <3>3, CreateTypes
  <2>5. QED  BY <2>1, <2>2, <2>3, <2>4 DEF Origin
<1>5. QED  BY <1>1, <1>2, <1>3, <1>4 DEF TypeInv, TypeOK

LEMMA TypeStep == ASSUME TypeInv, [Next]_vars PROVE TypeInv'
<1>1. CASE Fetch \/ FetchFails \/ ReconcileMain \/ MergeNoop
             \/ MergeFastForward \/ MergeRefused \/ Rebase \/ ReplayFinish
             \/ ReplayFails \/ PushNoop \/ Push \/ PushFails \/ Interrupt
  <2>1. UNCHANGED commits
    BY <1>1 DEF Fetch, FetchFails, ReconcileMain, MergeNoop, MergeFastForward,
                MergeRefused, Rebase, ReplayFinish, ReplayFails, PushNoop, Push,
                PushFails, Interrupt
  <2>2. QED  BY <1>1, <2>1, TickTypes
<1>2. CASE MergeDiverged
  BY <1>2, MergeDivergedTypes
<1>3. CASE ReplayStep
  BY <1>3, ReplayStepTypes
<1>4. CASE Write
  BY <1>4, LocalWriteTypes DEF Write
<1>5. CASE Reinstall
  BY <1>5, ReinstallTypes
<1>6. CASE Origin
  BY <1>6, OriginTypes
<1>7. CASE UNCHANGED vars
  BY <1>7, StillTypes
<1>8. QED
  BY <1>1, <1>2, <1>3, <1>4, <1>5, <1>6, <1>7 DEF Next, Tick

(* The types hold in every state a repository and its origin can reach.     *)
THEOREM TypeCorrect == Spec => []TypeOK
<1>1. TypeInv => TypeOK
  BY DEF TypeInv
<1>2. TypeInv /\ [Next]_vars => TypeInv'
  BY TypeStep
<1>3. QED  BY InitTypes, <1>1, <1>2, PTL DEF Spec
-----------------------------------------------------------------------------
(* Ancestry in the next state: what was an ancestor stays one, the relation is
   transitive, and a commit is its own ancestor.                            *)
LEMMA AncestorGrows ==
    ASSUME TypeOK, GraphStep, NEW a, NEW b \in Ref, IsAncestor(commits, a, b)
    PROVE  IsAncestor(commits', a, b)
BY DEF GraphStep, Grows, IsAncestor, Ref

LEMMA AncestorChain ==
    ASSUME TypeOK, NEW a, NEW b \in Ref, NEW c \in Ref,
           IsAncestor(commits, a, b), IsAncestor(commits, b, c)
    PROVE  IsAncestor(commits, a, c)
BY AncestorTransitive DEF TypeOK, Ref

LEMMA SelfChain ==
    ASSUME TypeOK, NEW c \in Ref, c # NoCommit
    PROVE  IsAncestor(commits, c, c)
BY SelfAncestor DEF TypeOK, Ref, Commits, NoCommit

(* A commit made on top of another one has all its ancestors.               *)
LEMMA CreateChain ==
    ASSUME TypeOK, NEW first \in Ref, NEW second \in Ref, NEW tree \in Tree,
           Create(first, second, tree), NEW a,
           IsAncestor(commits, a, first)
    PROVE  IsAncestor(commits', a, NextId)
BY CreateCommit DEF IsAncestor

LEMMA InitLinear == Init => LinearHistory
<1> SUFFICES ASSUME Init, ~rewritten PROVE LinearHistory
  BY DEF LinearHistory
<1>1. TypeOK
  BY InitTypes DEF TypeInv
<1>2. /\ agent = 1 /\ main = 1 /\ trackAgent = 0 /\ rAgent = 0 /\ phase = "idle"
  BY DEF Init, NoCommit
<1>3. base \in {0, 1} /\ trackMain = rMain /\ rMain \in {0, 1}
  BY DEF Init, InitCloned, InitTakenOver, InitEmptyOrigin, InitAttached, NoCommit
<1>4. IsAncestor(commits, 1, 1)
  BY <1>1, <1>2, SelfChain DEF TypeOK, Ref, Commits, NoCommit
<1>5. QED  BY <1>2, <1>3, <1>4 DEF LinearHistory, NoCommit

(* LinearHistory of a history nobody has rewritten, as a fact to cite.      *)
Linear ==
    /\ phase \notin {"rebase", "replay"}
    /\ rAgent # NoCommit => IsAncestor(commits, rAgent, agent)
    /\ base # NoCommit => IsAncestor(commits, base, main)
    /\ trackMain # NoCommit => IsAncestor(commits, main, trackMain)
    /\ rMain # NoCommit =>
          /\ IsAncestor(commits, main, rMain)
          /\ trackMain # NoCommit => IsAncestor(commits, trackMain, rMain)
    /\ rMain = NoCommit =>
          /\ trackMain = NoCommit
          /\ IsAncestor(commits, main, agent)
          /\ rAgent # NoCommit => IsAncestor(commits, main, rAgent)

LEMMA LinearDef == LinearHistory <=> (~rewritten => Linear)
BY DEF LinearHistory, Linear

LEMMA StillLinear ==
    ASSUME Linear, UNCHANGED <<commits, refs, origin>>,
           phase' \notin {"rebase", "replay"}
    PROVE  Linear'
BY DEF Linear, refs, origin

(* The steps of a tick, and its end, on a main that was never rewritten.  A
   tick that makes no commit moves references along the order only.         *)
LEMMA TickLinear ==
    ASSUME TypeInv, Linear, UNCHANGED commits,
           Fetch \/ FetchFails \/ ReconcileMain \/ MergeNoop
             \/ MergeFastForward \/ MergeRefused \/ Rebase \/ ReplayFinish
             \/ ReplayFails \/ PushNoop \/ Push \/ PushFails \/ Interrupt
    PROVE  Linear'
<1>1. TypeOK
  BY DEF TypeInv
<1>2. /\ agent \in Ref /\ main \in Ref /\ base \in Ref /\ trackMain \in Ref
      /\ rMain \in Ref /\ rAgent \in Ref
  BY <1>1, RefFacts
<1>3. agent # NoCommit /\ main # NoCommit
  BY <1>1 DEF TypeOK, Commits, NoCommit
<1>4. \A c \in Ref : c # NoCommit => IsAncestor(commits, c, c)
  BY <1>1, SelfChain
<1>5. \A a, b, c \in Ref :
         IsAncestor(commits, a, b) /\ IsAncestor(commits, b, c)
           => IsAncestor(commits, a, c)
  BY <1>1, AncestorChain
<1> DEFINE A(a, b) == IsAncestor(commits, a, b)
<1>6. CASE Fetch
  BY <1>2, <1>4, <1>6 DEF Fetch, Linear, origin
<1>7. CASE FetchFails
  BY <1>7, StillLinear DEF FetchFails
<1>8. CASE ReconcileMain
  <2>1. trackMain # NoCommit /\ rMain # NoCommit
    BY <1>8 DEF ReconcileMain, TypeInv, Linear
  <2>2. A(main, trackMain)
    BY <2>1 DEF Linear
  <2>3. phase' \notin {"rebase", "replay"} /\ main' = trackMain
    BY <1>8, <2>2 DEF ReconcileMain, Rewound
  <2>4. base # NoCommit => A(base, trackMain)
    BY <1>2, <1>5, <2>2 DEF Linear
  <2>5. UNCHANGED <<agent, base, trackMain, rMain, rAgent>>
    BY <1>8 DEF ReconcileMain, origin
  <2>6. QED  BY <1>2, <1>4, <2>1, <2>3, <2>4, <2>5 DEF Linear
<1>9. CASE MergeNoop
  <2>1. A(main, main)
    BY <1>2, <1>3, <1>4
  <2>2. QED  BY <1>9, <2>1 DEF MergeNoop, MergeDone, Linear, origin
<1>10. CASE MergeFastForward
  <2>1. A(main, main)
    BY <1>2, <1>3, <1>4
  <2>2. rAgent # NoCommit => A(rAgent, main)
    BY <1>2, <1>5, <1>10 DEF MergeFastForward, Linear
  <2>3. QED  BY <1>10, <2>1, <2>2 DEF MergeFastForward, MergeDone, Linear, origin
<1>11. CASE MergeRefused
  BY <1>11, StillLinear DEF MergeRefused
<1>12. CASE Rebase \/ ReplayFinish \/ ReplayFails
  BY <1>12 DEF Rebase, ReplayFinish, ReplayFails, Linear
<1>13. CASE PushNoop
  BY <1>13, StillLinear DEF PushNoop
<1>14. CASE Push \/ PushFails
  <2>1. rAgent' \in {rAgent, agent} /\ phase' = "idle"
    BY <1>14 DEF Push, PushFails
  <2>2. UNCHANGED <<agent, base, main, trackMain, rMain>>
    BY <1>14 DEF Push, PushFails, refs
  <2>3. A(agent, agent)
    BY <1>2, <1>3, <1>4
  <2>4. QED  BY <2>1, <2>2, <2>3 DEF Linear
<1>15. CASE Interrupt
  BY <1>15, StillLinear DEF Interrupt
<1>16. QED
  BY <1>6, <1>7, <1>8, <1>9, <1>10, <1>11, <1>12, <1>13, <1>14, <1>15

(* Making a commit keeps the order among the references that do not move.   *)
LEMMA LinearGrows ==
    ASSUME TypeOK, Linear, GraphStep
    PROVE  /\ rAgent # NoCommit => IsAncestor(commits', rAgent, agent)
           /\ base # NoCommit => IsAncestor(commits', base, main)
           /\ trackMain # NoCommit => IsAncestor(commits', main, trackMain)
           /\ rMain # NoCommit =>
                 /\ IsAncestor(commits', main, rMain)
                 /\ trackMain # NoCommit => IsAncestor(commits', trackMain, rMain)
           /\ rMain = NoCommit =>
                 /\ trackMain = NoCommit
                 /\ IsAncestor(commits', main, agent)
                 /\ rAgent # NoCommit => IsAncestor(commits', main, rAgent)
BY RefFacts, AncestorGrows DEF Linear

(* A commit on the agent's branch, a write or a merge of main, has all that
   the server has of the branch as an ancestor.                             *)
LEMMA AgentCommitLinear ==
    ASSUME TypeOK, Linear, NEW second \in Ref, NEW tree \in Tree,
           Create(agent, second, tree), agent' = NextId,
           base' = base \/ (base' = main /\ IsAncestor(commits, main, main)),
           UNCHANGED <<main, trackMain, rMain, rAgent>>,
           phase' \notin {"rebase", "replay"}
    PROVE  Linear'
<1>1. agent \in Ref /\ main \in Ref /\ rAgent \in Ref
  BY RefFacts
<1>2. GraphStep
  BY <1>1, CreateStep
<1>3. rAgent # NoCommit => IsAncestor(commits', rAgent, NextId)
  BY <1>1, CreateChain DEF Linear
<1>4. rMain = NoCommit => IsAncestor(commits', main, NextId)
  BY <1>1, CreateChain DEF Linear
<1>5. IsAncestor(commits, main, main) => IsAncestor(commits', main, main)
  BY <1>1, <1>2, AncestorGrows
<1>6. QED  BY <1>2, <1>3, <1>4, <1>5, LinearGrows DEF Linear

LEMMA WriteLinear == ASSUME TypeInv, Linear, Write PROVE Linear'
<1>1. TypeOK /\ agent \in Ref /\ NoCommit \in Ref
  BY RefFacts DEF TypeInv
<1>2. PICK change \in Changes : LocalWrite(change.files, change.deletes)
  BY DEF Write
<1>3. ApplyChange(At(agent), change.files, change.deletes) \in Tree
  <2>1. At(agent) \in Tree
    BY <1>1, AtType
  <2>2. /\ change.deletes \in SUBSET Paths
        /\ \E written \in SUBSET Paths : change.files \in [written -> Blobs]
    BY ChangesAssumption
  <2>3. QED  BY <2>1, <2>2, ApplyChangeType
<1>4. /\ Create(agent, NoCommit, ApplyChange(At(agent), change.files, change.deletes))
      /\ agent' = NextId
      /\ UNCHANGED <<base, main, trackMain, rMain, rAgent, phase>>
  BY <1>2 DEF LocalWrite, origin
<1>5. phase' \notin {"rebase", "replay"}
  BY <1>4 DEF Linear
<1>6. QED  BY <1>1, <1>3, <1>4, <1>5, AgentCommitLinear

LEMMA MergeDivergedLinear == ASSUME TypeInv, Linear, MergeDiverged PROVE Linear'
<1>1. TypeOK /\ agent \in Ref /\ main \in Ref /\ main # NoCommit
  BY RefFacts DEF TypeInv, TypeOK, Commits, NoCommit
<1>2. PICK b \in MergeBases(commits, main, agent) :
         \/ MergeDone(FALSE) /\ UNCHANGED <<commits, agent>>
         \/ /\ Create(agent, main,
                      MergeTrees(At(b), At(main), At(agent), "LocalWins"))
            /\ agent' = NextId
            /\ MergeDone(TRUE)
  BY DEF MergeDiverged
<1>3. UNCHANGED <<main, trackMain, rMain, rAgent>> /\ phase' = "push"
  BY <1>2 DEF MergeDiverged, MergeDone, origin
<1>4. IsAncestor(commits, main, main)
  BY <1>1, SelfChain
<1>5. base' = base \/ base' = main
  BY <1>2 DEF MergeDone
<1>6. CASE UNCHANGED <<commits, agent>>
  BY <1>3, <1>4, <1>5, <1>6 DEF Linear
<1>7. CASE Create(agent, main, MergeTrees(At(b), At(main), At(agent), "LocalWins"))
             /\ agent' = NextId
  <2>1. b \in Ref
    BY <1>1, AncestorsInRange DEF MergeBases, Common, TypeOK, Ref, Commits
  <2>2. MergeTrees(At(b), At(main), At(agent), "LocalWins") \in Tree
    BY <1>1, <2>1, AtType, MergeTreesType
  <2>3. QED  BY <1>1, <1>3, <1>4, <1>5, <1>7, <2>2, AgentCommitLinear
<1>8. QED  BY <1>2, <1>6, <1>7

(* A reinstallation takes over the server's refs, which are in order.       *)
LEMMA ReinstallLinear == ASSUME TypeInv, Linear, Reinstall PROVE Linear'
<1>1. TypeOK /\ rMain \in Ref /\ rAgent \in Ref /\ rMain # NoCommit
  BY RefFacts DEF TypeInv, Reinstall
<1>2. /\ UNCHANGED <<commits, rMain, rAgent, phase>>
      /\ trackMain' = rMain /\ main' = rMain
  BY DEF Reinstall, origin
<1>3. \A c \in {rMain, rAgent} : c # NoCommit => IsAncestor(commits, c, c)
  BY <1>1, SelfChain
<1>4. rAgent # NoCommit => agent' = rAgent
  BY DEF Reinstall
<1>5. base' = rMain \/ base' \in Ancestors(commits, rMain)
  BY DEF Reinstall, MergeBases, Common
<1>6. QED  BY <1>1, <1>2, <1>3, <1>4, <1>5 DEF Linear, IsAncestor

(* The server's main grows: a commit on top of it, or a merge with the agent's
   branch there.                                                            *)
LEMMA OriginLinear ==
    ASSUME TypeInv, Linear, Origin, ~rewritten'
    PROVE  Linear'
<1>1. /\ TypeOK /\ agent \in Ref /\ main \in Ref /\ base \in Ref
      /\ trackMain \in Ref /\ rMain \in Ref /\ rAgent \in Ref /\ NoCommit \in Ref
  BY RefFacts DEF TypeInv
<1>2. (\E p \in Paths, blob \in Entry : OriginEdit(p, blob)) \/ OriginMerge
  BY DEF Origin, OriginRewind, OriginReplace
<1>3. UNCHANGED <<agent, main, base, trackMain, rAgent, phase>>
  BY <1>2 DEF OriginEdit, OriginMerge, MoveMain, refs
<1>4. CASE \E p \in Paths, blob \in Entry : OriginEdit(p, blob)
  <2>1. PICK p \in Paths, blob \in Entry : OriginEdit(p, blob)
    BY <1>4
  <2>2. [At(rMain) EXCEPT ![p] = blob] \in Tree
    BY <1>1, AtType DEF Tree
  <2>3. /\ Create(rMain, NoCommit, [At(rMain) EXCEPT ![p] = blob])
        /\ rMain' = NextId /\ rMain # NoCommit
    BY <2>1 DEF OriginEdit, MoveMain
  <2>4. GraphStep /\ NextId # NoCommit
    BY <1>1, <2>2, <2>3, CreateStep, CreateTypes DEF TypeInv
  <2>5. \A a : IsAncestor(commits, a, rMain) => IsAncestor(commits', a, NextId)
    BY <1>1, <2>2, <2>3, CreateChain
  <2>6. QED  BY <1>1, <1>3, <2>3, <2>4, <2>5, LinearGrows DEF Linear
<1>5. CASE /\ rAgent # NoCommit
           /\ rMain = NoCommit \/ IsAncestor(commits, rMain, rAgent)
           /\ MoveMain(rAgent)
           /\ UNCHANGED commits
  <2>1. rAgent # NoCommit /\ rMain' = rAgent
    BY <1>5 DEF MoveMain
  <2>2. IsAncestor(commits, main, rAgent)
          /\ (trackMain # NoCommit => IsAncestor(commits, trackMain, rAgent))
    <3>1. CASE rMain = NoCommit
      BY <2>1, <3>1 DEF Linear
    <3>2. CASE rMain # NoCommit
      <4>1. IsAncestor(commits, rMain, rAgent)
        BY <1>5, <3>2
      <4>2. QED  BY <1>1, <3>2, <4>1, AncestorChain DEF Linear
    <3>3. QED  BY <3>1, <3>2
  <2>3. QED  BY <1>3, <1>5, <2>1, <2>2 DEF Linear
<1>6. CASE \E b \in MergeBases(commits, rAgent, rMain), s \in Strategies :
              /\ Create(rMain, rAgent, MergeTrees(At(b), At(rAgent), At(rMain), s))
              /\ MoveMain(NextId)
  <2>1. PICK b \in MergeBases(commits, rAgent, rMain), s \in Strategies :
            /\ Create(rMain, rAgent, MergeTrees(At(b), At(rAgent), At(rMain), s))
            /\ MoveMain(NextId)
    BY <1>6
  <2>2. b \in Ref /\ rMain # NoCommit
    <3>1. b \in Ancestors(commits, rMain)
      BY <2>1 DEF MergeBases, Common
    <3>2. Ancestors(commits, rMain) \subseteq Ref
      BY <1>1, AncestorsInRange DEF TypeOK, Ref, Commits
    <3>3. QED  BY <3>1, <3>2 DEF Ancestors
  <2>3. MergeTrees(At(b), At(rAgent), At(rMain), s) \in Tree
    BY <1>1, <2>2, AtType, MergeTreesType
  <2>4. rMain' = NextId
    BY <2>1 DEF MoveMain
  <2>5. GraphStep /\ NextId # NoCommit
    BY <1>1, <2>1, <2>3, CreateStep, CreateTypes DEF TypeInv
  <2>6. \A a : IsAncestor(commits, a, rMain) => IsAncestor(commits', a, NextId)
    BY <1>1, <2>1, <2>3, CreateChain
  <2>7. QED  BY <1>1, <1>3, <2>2, <2>4, <2>5, <2>6, LinearGrows DEF Linear
<1>7. QED  BY <1>2, <1>4, <1>5, <1>6 DEF OriginMerge
-----------------------------------------------------------------------------
LEMMA StillAll == ASSUME Linear, UNCHANGED vars PROVE Linear'
BY DEF Linear, vars, refs, origin

(* One step, on a main nobody has rewritten.  The ghost never falls back, so
   the order held before the step.                                          *)
LEMMA LinearStep ==
    ASSUME TypeInv, LinearHistory, [Next]_vars
    PROVE  LinearHistory'
<1>1. rewritten => rewritten'
  BY DEF Next, Tick, Write, LocalWrite, Origin, OriginEdit, OriginMerge,
         OriginRewind, OriginReplace, Interrupt, Reinstall, Fetch, FetchFails,
         ReconcileMain, MergeNoop, MergeFastForward, MergeDiverged, MergeRefused,
         Rebase, ReplayStep, ReplayFinish, ReplayFails, PushNoop, Push,
         PushFails, vars, ghosts
<1> SUFFICES ASSUME ~rewritten' PROVE Linear'
  BY LinearDef DEF LinearHistory, Linear
<1>2. Linear
  BY <1>1, LinearDef
<1>3. CASE Fetch \/ FetchFails \/ ReconcileMain \/ MergeNoop
             \/ MergeFastForward \/ MergeRefused \/ Rebase \/ ReplayFinish
             \/ ReplayFails \/ PushNoop \/ Push \/ PushFails \/ Interrupt
  <2>1. UNCHANGED commits
    BY <1>3 DEF Fetch, FetchFails, ReconcileMain, MergeNoop, MergeFastForward,
                MergeRefused, Rebase, ReplayFinish, ReplayFails, PushNoop, Push,
                PushFails, Interrupt
  <2>2. QED  BY <1>2, <1>3, <2>1, TickLinear
<1>4. CASE MergeDiverged
  BY <1>2, <1>4, MergeDivergedLinear
<1>5. CASE ReplayStep
  BY <1>2, <1>5 DEF ReplayStep, Linear
<1>6. CASE Write
  BY <1>2, <1>6, WriteLinear
<1>7. CASE Reinstall
  BY <1>2, <1>7, ReinstallLinear
<1>8. CASE Origin
  BY <1>2, <1>8, OriginLinear
<1>9. CASE UNCHANGED vars
  BY <1>2, <1>9, StillAll
<1>10. QED
  BY <1>3, <1>4, <1>5, <1>6, <1>7, <1>8, <1>9 DEF Next, Tick

(* While nobody rewrites the server's main, the local and the remote references
   stay in one order, whatever fails, is interrupted or is installed again. *)
THEOREM LinearCorrect == Spec => []LinearHistory
<1>1. Init => TypeInv /\ LinearHistory
  BY InitTypes, InitLinear
<1>2. TypeInv /\ LinearHistory /\ [Next]_vars => (TypeInv /\ LinearHistory)'
  BY TypeStep, LinearStep
<1>3. QED  BY <1>1, <1>2, PTL DEF Spec

(* So the force-push of the agent's branch only ever fast-forwards what the
   server has of it.                                                        *)
THEOREM PushCorrect == Spec => []PushIsFastForward
<1>1. LinearHistory => PushIsFastForward
  BY DEF LinearHistory, PushIsFastForward
<1>2. QED  BY <1>1, LinearCorrect, PTL
-----------------------------------------------------------------------------
(* Why a merge keeps what the agent wrote.  At a path nobody else changes, all
   the commits that change it are the agent's own; a commit holds there what
   its story tells; and the server's main has no more of the story than the
   agent's branch it was merged from.  So main's story at a merge is that of
   the merge base, main holds there what the base holds, and nothing of main's
   is applied.                                                              *)
OwnAt(p) ==
    /\ StoryDecides(commits, p)
    /\ Story(commits, rMain, p) \subseteq Story(commits, rAgent, p)
    /\ own[p] # NoWrite => At(agent)[p] = own[p]

OwnInv == ~rewritten /\ ~crossed => \A p \in Paths \ foreign : OwnAt(p)

LEMMA NoStory == ASSUME NEW g, NEW p PROVE Story(g, NoCommit, p) = {}
BY DEF Story, Ancestors

LEMMA Behind ==
    ASSUME TypeOK, Linear, NEW p, OwnAt(p)
    PROVE  /\ Story(commits, rAgent, p) \subseteq Story(commits, agent, p)
           /\ Story(commits, rMain, p) \subseteq Story(commits, agent, p)
           /\ Story(commits, main, p) \subseteq Story(commits, agent, p)
<1>1. /\ agent \in 0 .. Len(commits) /\ main \in 0 .. Len(commits)
      /\ rMain \in 0 .. Len(commits) /\ rAgent \in 0 .. Len(commits)
      /\ commits \in Seq(Commit) /\ GraphOK(commits)
  BY RefFacts DEF Ref, TypeOK
<1>2. Story(commits, rAgent, p) \subseteq Story(commits, agent, p)
  <2>1. CASE rAgent = NoCommit
    BY <2>1, NoStory
  <2>2. CASE rAgent # NoCommit
    BY <1>1, <2>2, StoryGrows DEF Linear
  <2>3. QED  BY <2>1, <2>2
<1>3. Story(commits, rMain, p) \subseteq Story(commits, agent, p)
  BY <1>2 DEF OwnAt
<1>4. Story(commits, main, p) \subseteq Story(commits, agent, p)
  <2>1. CASE rMain = NoCommit
    BY <1>1, <2>1, StoryGrows DEF Linear
  <2>2. CASE rMain # NoCommit
    <3>1. Story(commits, main, p) \subseteq Story(commits, rMain, p)
      BY <1>1, <2>2, StoryGrows DEF Linear
    <3>2. QED  BY <1>3, <3>1
  <2>3. QED  BY <2>1, <2>2
<1>5. QED  BY <1>2, <1>3, <1>4

LEMMA CreateStory ==
    ASSUME TypeOK, NEW first \in Ref, NEW second \in Ref, NEW tree \in Tree,
           Create(first, second, tree), NEW p
    PROVE  /\ \A c \in Ref : /\ Story(commits', c, p) = Story(commits, c, p)
                             /\ TreeAt(commits', c) = At(c)
           /\ TreeAt(commits', NextId) = tree
           /\ Story(commits', NextId, p) =
                Story(commits, first, p) \cup Story(commits, second, p)
                  \cup MarkedBy(commits, first, second, tree, p, NextId)
<1>1. IsOneMore(commits, commits', first, second, tree)
  BY DEF Create, IsOneMore
<1>2. /\ commits \in Seq(Commit) /\ GraphOK(commits)
      /\ first \in 0 .. Len(commits) /\ second \in 0 .. Len(commits)
  BY DEF TypeOK, Ref
<1>3. Continues(commits, commits', first, second, tree, p)
  BY <1>1, <1>2, AppendStory
<1>4. NextId = Len(commits')
  BY CreateCommit
<1>5. QED  BY <1>3, <1>4 DEF Continues, Ref, At

LEMMA CreateDecides ==
    ASSUME TypeOK, NEW first \in Ref, NEW second \in Ref, NEW tree \in Tree,
           Create(first, second, tree), NEW p, StoryDecides(commits, p),
           first # NoCommit,
           \/ second = NoCommit
           \/ /\ second # NoCommit
              /\ Story(commits, second, p) \subseteq Story(commits, first, p)
              /\ tree[p] = At(first)[p]
           \/ /\ second # NoCommit
              /\ Story(commits, first, p) \subseteq Story(commits, second, p)
              /\ tree[p] = At(second)[p]
    PROVE  StoryDecides(commits', p)
<1>1. IsOneMore(commits, commits', first, second, tree)
  BY DEF Create, IsOneMore
<1>2. /\ commits \in Seq(Commit) /\ GraphOK(commits)
      /\ first \in 0 .. Len(commits) /\ second \in 0 .. Len(commits)
  BY DEF TypeOK, Ref
<1>3. QED  BY <1>1, <1>2, AppendDecides DEF At

LEMMA InitOwn == Init => OwnInv
<1> SUFFICES ASSUME Init, ~rewritten, NEW p \in Paths PROVE OwnAt(p)
  BY DEF OwnInv
<1>1. TypeOK
  BY InitTypes DEF TypeInv
<1>2. PICK tree \in Roots : /\ commits = <<FirstRoot(tree)>>
                            /\ rMain \in {NoCommit, 1}
  BY DEF Init, InitCloned, InitTakenOver, InitEmptyOrigin, InitAttached
<1>3. commits[1].first = NoCommit /\ Commits(commits) = {1}
  BY <1>2 DEF FirstRoot, NewCommit, Commits
<1>4. Writes(commits, p) = {}
  BY <1>3 DEF Writes
<1>5. QED  BY <1>3, <1>4 DEF OwnAt, StoryDecides, Story, Init

(* Steps that make no commit and move nothing on the server but its copy of the
   agent's branch.                                                          *)
LEMMA TickOwn ==
    ASSUME TypeInv, Linear, NEW p \in Paths, OwnAt(p),
           Fetch \/ FetchFails \/ ReconcileMain \/ MergeNoop
             \/ MergeFastForward \/ MergeRefused \/ Rebase \/ ReplayFinish
             \/ ReplayFails \/ PushNoop \/ Push \/ PushFails \/ Interrupt
    PROVE  OwnAt(p)'
<1>1. TypeOK
  BY DEF TypeInv
<1>2. UNCHANGED <<commits, rMain, own>>
  BY DEF Fetch, FetchFails, ReconcileMain, MergeNoop, MergeFastForward,
         MergeRefused, Rebase, ReplayFinish, ReplayFails, PushNoop, Push,
         PushFails, Interrupt, origin, ghosts
<1>3. rAgent' = rAgent \/ rAgent' = agent
  BY DEF Fetch, FetchFails, ReconcileMain, MergeNoop, MergeFastForward,
         MergeRefused, Rebase, ReplayFinish, ReplayFails, PushNoop, Push,
         PushFails, Interrupt, origin
<1>4. Story(commits, rMain, p) \subseteq Story(commits, rAgent', p)
  BY <1>1, <1>3, Behind DEF OwnAt
<1>5. At(agent')[p] = At(agent)[p]
  <2>1. CASE MergeFastForward
    <3>1. agent' = main /\ IsAncestor(commits, agent, main)
      BY <2>1 DEF MergeFastForward
    <3>2. Story(commits, agent, p) \subseteq Story(commits, main, p)
      BY <1>1, <3>1, RefFacts, StoryGrows DEF TypeOK, Ref
    <3>3. Story(commits, agent, p) = Story(commits, main, p)
      BY <1>1, <3>2, Behind
    <3>4. agent \in Commits(commits) /\ main \in Commits(commits)
      BY <1>1 DEF TypeOK
    <3>5. QED  BY <3>1, <3>3, <3>4 DEF OwnAt, StoryDecides, At
  <2>2. CASE ~MergeFastForward
    <3>1. phase \notin {"rebase", "replay"}
      BY DEF Linear
    <3>2. agent' = agent
      BY <2>2, <3>1 DEF Fetch, FetchFails, ReconcileMain, MergeNoop, MergeRefused,
            Rebase, ReplayFinish, ReplayFails, PushNoop, Push, PushFails,
            Interrupt, refs
    <3>3. QED  BY <3>2
  <2>3. QED  BY <2>1, <2>2
<1>6. QED  BY <1>2, <1>4, <1>5 DEF OwnAt, At

LEMMA WriteOwn ==
    ASSUME TypeInv, Linear, NEW p \in Paths, OwnAt(p), Write
    PROVE  OwnAt(p)'
<1>1. TypeOK /\ agent \in Ref /\ NoCommit \in Ref /\ rMain \in Ref /\ rAgent \in Ref
      /\ agent # NoCommit
  BY RefFacts DEF TypeInv, TypeOK, Commits, NoCommit
<1>2. PICK change \in Changes : LocalWrite(change.files, change.deletes)
  BY DEF Write
<1> DEFINE tree == ApplyChange(At(agent), change.files, change.deletes)
<1>3. tree \in Tree
  <2>1. At(agent) \in Tree
    BY <1>1, AtType
  <2>2. /\ change.deletes \in SUBSET Paths
        /\ \E written \in SUBSET Paths : change.files \in [written -> Blobs]
    BY ChangesAssumption
  <2>3. QED  BY <2>1, <2>2, ApplyChangeType
<1>4. /\ Create(agent, NoCommit, tree) /\ agent' = NextId
      /\ UNCHANGED <<rMain, rAgent>>
      /\ own' = [q \in Paths |->
                   IF q \in DOMAIN change.files \cup change.deletes
                   THEN tree[q] ELSE own[q]]
  BY <1>2 DEF LocalWrite, origin
<1>5. /\ \A c \in Ref : /\ Story(commits', c, p) = Story(commits, c, p)
                        /\ TreeAt(commits', c) = At(c)
      /\ TreeAt(commits', NextId) = tree
  BY <1>1, <1>3, <1>4, CreateStory
<1>6. StoryDecides(commits', p)
  BY <1>1, <1>3, <1>4, CreateDecides DEF OwnAt
<1>7. Story(commits', rMain', p) \subseteq Story(commits', rAgent', p)
  BY <1>1, <1>4, <1>5 DEF OwnAt
<1>8. own'[p] # NoWrite => TreeAt(commits', agent')[p] = own'[p]
  <2>1. TreeAt(commits', agent') = tree
    BY <1>4, <1>5
  <2>2. CASE p \in DOMAIN change.files \cup change.deletes
    BY <1>4, <2>1, <2>2
  <2>3. CASE p \notin DOMAIN change.files \cup change.deletes
    <3>1. tree[p] = At(agent)[p]
      BY <2>3 DEF ApplyChange
    <3>2. own'[p] = own[p]
      BY <1>4, <2>3
    <3>3. QED  BY <2>1, <3>1, <3>2 DEF OwnAt
  <2>4. QED  BY <2>2, <2>3
<1>9. QED  BY <1>6, <1>7, <1>8 DEF OwnAt, At

(* The merge bases of two commits are commits.                              *)
LEMMA BaseInRange ==
    ASSUME TypeOK, NEW a \in Ref, NEW b \in Ref, NEW c \in MergeBases(commits, a, b)
    PROVE  c \in Commits(commits) /\ c \in Ref
BY AncestorsInRange DEF MergeBases, Common, TypeOK, Ref, Commits

LEMMA MergeDivergedOwn ==
    ASSUME TypeInv, Linear, NEW p \in Paths, OwnAt(p), MergeDiverged, ~crossed'
    PROVE  OwnAt(p)'
<1>1. /\ TypeOK /\ agent \in Ref /\ main \in Ref /\ rMain \in Ref /\ rAgent \in Ref
      /\ agent # NoCommit /\ main # NoCommit
      /\ agent \in Commits(commits) /\ main \in Commits(commits)
  BY RefFacts DEF TypeInv, TypeOK, Commits, NoCommit
<1>2. PICK b \in MergeBases(commits, main, agent) :
         LET merged == MergeTrees(At(b), At(main), At(agent), "LocalWins")
         IN \/ UNCHANGED <<commits, agent>>
            \/ Create(agent, main, merged) /\ agent' = NextId
  BY DEF MergeDiverged
<1> DEFINE merged == MergeTrees(At(b), At(main), At(agent), "LocalWins")
<1>3. UNCHANGED <<rMain, rAgent, own>> /\ ~CrissCross(commits, main, agent)
  BY DEF MergeDiverged, origin, ChooseBase
<1>4. Story(commits, main, p) \subseteq Story(commits, agent, p)
  BY <1>1, Behind
<1>5. b \in Commits(commits) /\ Story(commits, b, p) = Story(commits, main, p)
  BY <1>1, <1>3, <1>4, BaseStory DEF TypeOK, Ref
<1>6. At(b)[p] = At(main)[p]
  BY <1>1, <1>5 DEF OwnAt, StoryDecides, At
<1>7. merged \in Tree
  <2>1. b \in Ref
    BY <1>1, <1>2, BaseInRange
  <2>2. QED  BY <1>1, <2>1, AtType, MergeTreesType
<1>8. merged[p] = At(agent)[p]
  BY <1>6 DEF MergeTrees, MergeEntry, Kept
<1>9. CASE UNCHANGED <<commits, agent>>
  BY <1>3, <1>9 DEF OwnAt, At
<1>10. CASE Create(agent, main, merged) /\ agent' = NextId
  <2>1. /\ \A c \in Ref : /\ Story(commits', c, p) = Story(commits, c, p)
                          /\ TreeAt(commits', c) = At(c)
        /\ TreeAt(commits', NextId) = merged
    BY <1>1, <1>7, <1>10, CreateStory
  <2> HIDE DEF merged
  <2>2. StoryDecides(commits', p)
    <3>1. StoryDecides(commits, p)
      BY DEF OwnAt
    <3>2. QED  BY <1>1, <1>4, <1>7, <1>8, <1>10, <3>1, CreateDecides
  <2>3. QED  BY <1>1, <1>3, <1>8, <1>10, <2>1, <2>2 DEF OwnAt, At
<1>11. QED  BY <1>2, <1>9, <1>10

(* What the agent wrote is then what the server has of it.                  *)
LEMMA ReinstallOwn ==
    ASSUME TypeInv, NEW p \in Paths, OwnAt(p), Reinstall
    PROVE  OwnAt(p)'
<1>1. UNCHANGED <<commits, rMain, rAgent>>
  BY DEF Reinstall, origin
<1>2. own'[p] # NoWrite => At(agent')[p] = own'[p]
  <2>1. CASE /\ agent' = rAgent
             /\ own' = [q \in Paths |-> IF own[q] = NoWrite THEN NoWrite
                                        ELSE At(rAgent)[q]]
    BY <2>1
  <2>2. CASE own' = [q \in Paths |-> NoWrite]
    BY <2>2
  <2>3. QED  BY <2>1, <2>2 DEF Reinstall
<1>3. QED  BY <1>1, <1>2 DEF OwnAt, At

(* Others change other paths, and a merge of the agent's branch brings main the
   agent's story and its entry.                                             *)
LEMMA OriginOwn ==
    ASSUME TypeInv, Linear, NEW p \in Paths, p \notin foreign', OwnAt(p), Origin,
           ~rewritten', ~crossed'
    PROVE  OwnAt(p)'
<1>1. /\ TypeOK /\ agent \in Ref /\ rMain \in Ref /\ rAgent \in Ref /\ NoCommit \in Ref
  BY RefFacts DEF TypeInv
<1>2. (\E q \in Paths, blob \in Entry : OriginEdit(q, blob)) \/ OriginMerge
  BY DEF Origin, OriginRewind, OriginReplace
<1>3. UNCHANGED <<agent, rAgent, own>>
  BY <1>2 DEF OriginEdit, OriginMerge, MoveMain, refs
<1>4. CASE \E q \in Paths, blob \in Entry : OriginEdit(q, blob)
  <2>1. PICK q \in Paths, blob \in Entry : OriginEdit(q, blob)
    BY <1>4
  <2> DEFINE tree == [At(rMain) EXCEPT ![q] = blob]
  <2>2. tree \in Tree /\ At(rMain) \in Tree
    BY <1>1, AtType DEF Tree
  <2>3. /\ Create(rMain, NoCommit, tree) /\ rMain' = NextId /\ rMain # NoCommit
        /\ q # p
    BY <2>1 DEF OriginEdit, MoveMain
  <2>4. tree[p] = At(rMain)[p]
    BY <2>2, <2>3 DEF Tree
  <2> HIDE DEF tree
  <2>5. /\ \A c \in Ref : /\ Story(commits', c, p) = Story(commits, c, p)
                          /\ TreeAt(commits', c) = At(c)
        /\ Story(commits', NextId, p) =
             Story(commits, rMain, p) \cup Story(commits, NoCommit, p)
               \cup MarkedBy(commits, rMain, NoCommit, tree, p, NextId)
    BY <1>1, <2>2, <2>3, CreateStory
  <2>6. Story(commits', NextId, p) = Story(commits, rMain, p)
    BY <2>4, <2>5, NoStory DEF MarkedBy, At
  <2>7. StoryDecides(commits', p)
    BY <1>1, <2>2, <2>3, CreateDecides DEF OwnAt
  <2>8. QED  BY <1>1, <1>3, <2>3, <2>5, <2>6, <2>7 DEF OwnAt, At
<1>5. CASE UNCHANGED commits /\ rMain' = rAgent
  BY <1>3, <1>5 DEF OwnAt, At
<1>6. CASE /\ OriginMerge
           /\ \E b \in MergeBases(commits, rAgent, rMain), s \in Strategies :
                 /\ Create(rMain, rAgent, MergeTrees(At(b), At(rAgent), At(rMain), s))
                 /\ MoveMain(NextId)
  <2>1. PICK b \in MergeBases(commits, rAgent, rMain), s \in Strategies :
            /\ Create(rMain, rAgent, MergeTrees(At(b), At(rAgent), At(rMain), s))
            /\ MoveMain(NextId)
    BY <1>6
  <2> DEFINE tree == MergeTrees(At(b), At(rAgent), At(rMain), s)
  <2>2. ~CrissCross(commits, rAgent, rMain) /\ rAgent # NoCommit
    BY <1>6 DEF OriginMerge, ChooseBase
  <2>3. b \in Commits(commits) /\ b \in Ref /\ rMain # NoCommit
    <3>1. b \in Ancestors(commits, rMain)
      BY <2>1 DEF MergeBases, Common
    <3>2. QED  BY <1>1, <2>1, <3>1, BaseInRange DEF Ancestors
  <2>4. Story(commits, b, p) = Story(commits, rMain, p)
    <3>1. /\ commits \in Seq(Commit) /\ GraphOK(commits)
          /\ rAgent \in 0 .. Len(commits) /\ rMain \in 0 .. Len(commits)
      BY <1>1 DEF TypeOK, Ref
    <3>2. Story(commits, rMain, p) \subseteq Story(commits, rAgent, p)
      BY DEF OwnAt
    <3>3. b \in MergeBases(commits, rAgent, rMain)
      BY <2>1
    <3>4. QED  BY <2>2, <3>1, <3>2, <3>3, BaseStory
  <2>5. At(b)[p] = At(rMain)[p]
    BY <1>1, <2>3, <2>4 DEF OwnAt, StoryDecides, At, Commits, Ref, NoCommit
  <2>6. tree[p] = At(rAgent)[p] /\ tree \in Tree
    <3>1. tree[p] = At(rAgent)[p]
      BY <2>5 DEF MergeTrees, MergeEntry, Kept, Conflict
    <3>2. QED  BY <1>1, <2>3, <3>1, AtType, MergeTreesType
  <2>7. rMain' = NextId /\ Create(rMain, rAgent, tree)
    BY <2>1 DEF MoveMain
  <2> HIDE DEF tree
  <2>8. /\ \A c \in Ref : /\ Story(commits', c, p) = Story(commits, c, p)
                          /\ TreeAt(commits', c) = At(c)
        /\ Story(commits', NextId, p) =
             Story(commits, rMain, p) \cup Story(commits, rAgent, p)
               \cup MarkedBy(commits, rMain, rAgent, tree, p, NextId)
    BY <1>1, <2>6, <2>7, CreateStory
  <2>9. Story(commits', NextId, p) = Story(commits, rAgent, p)
    BY <2>2, <2>8 DEF MarkedBy, OwnAt
  <2>10. StoryDecides(commits', p)
    <3>1. /\ StoryDecides(commits, p)
          /\ Story(commits, rMain, p) \subseteq Story(commits, rAgent, p)
      BY DEF OwnAt
    <3>2. QED  BY <1>1, <2>2, <2>3, <2>6, <2>7, <3>1, CreateDecides
  <2>11. QED  BY <1>1, <1>3, <2>7, <2>8, <2>9, <2>10 DEF OwnAt, At
<1>7. QED  BY <1>2, <1>4, <1>5, <1>6 DEF OriginMerge, MoveMain

(* The ghosts only grow.                                                    *)
LEMMA GhostsGrow ==
    ASSUME [Next]_vars
    PROVE  /\ foreign \subseteq foreign'
           /\ rewritten => rewritten'
           /\ crossed => crossed'
<1>1. CASE Tick \/ Write \/ Interrupt \/ Reinstall \/ UNCHANGED vars
  <2>1. UNCHANGED <<foreign, rewritten>>
    BY <1>1 DEF Tick, Write, LocalWrite, Interrupt, Reinstall, Fetch, FetchFails,
       ReconcileMain, MergeNoop, MergeFastForward, MergeDiverged, MergeRefused,
       Rebase, ReplayStep, ReplayFinish, ReplayFails, PushNoop, Push, PushFails,
       vars, ghosts
  <2>2. UNCHANGED crossed \/ ChooseBase(main, agent)
    <3>1. CASE MergeDiverged
      BY <3>1 DEF MergeDiverged
    <3>2. CASE ~MergeDiverged
      BY <1>1, <3>2 DEF Tick, Write, LocalWrite, Interrupt, Reinstall, Fetch, FetchFails,
         ReconcileMain, MergeNoop, MergeFastForward, MergeRefused,
         Rebase, ReplayStep, ReplayFinish, ReplayFails, PushNoop, Push, PushFails,
         vars, ghosts
    <3>3. QED  BY <3>1, <3>2
  <2>3. crossed => crossed'
    BY <2>2 DEF ChooseBase
  <2>4. QED  BY <2>1, <2>3
<1>2. CASE Origin
  <2>1. foreign \subseteq foreign' /\ (rewritten => rewritten')
    <3>1. foreign \subseteq foreign'
      BY <1>2 DEF Origin, OriginEdit, OriginMerge, OriginRewind, OriginReplace
    <3>2. UNCHANGED rewritten \/ rewritten' = TRUE
      BY <1>2 DEF Origin, OriginEdit, OriginMerge, OriginRewind, OriginReplace
    <3>3. QED  BY <3>1, <3>2
  <2>2. UNCHANGED crossed \/ ChooseBase(rAgent, rMain)
    BY <1>2 DEF Origin, OriginEdit, OriginMerge, OriginRewind, OriginReplace
  <2>3. crossed => crossed'
    BY <2>2 DEF ChooseBase
  <2>4. QED  BY <2>1, <2>3
<1>3. QED  BY <1>1, <1>2 DEF Next

LEMMA OwnStep ==
    ASSUME TypeInv, LinearHistory, OwnInv, [Next]_vars
    PROVE  OwnInv'
<1> SUFFICES ASSUME ~rewritten', ~crossed', NEW p \in Paths, p \notin foreign'
             PROVE  OwnAt(p)'
  BY DEF OwnInv
<1>1. ~rewritten /\ ~crossed /\ p \notin foreign
  BY GhostsGrow
<1>2. Linear /\ OwnAt(p)
  BY <1>1, LinearDef DEF OwnInv
<1>3. CASE Fetch \/ FetchFails \/ ReconcileMain \/ MergeNoop
             \/ MergeFastForward \/ MergeRefused \/ Rebase \/ ReplayFinish
             \/ ReplayFails \/ PushNoop \/ Push \/ PushFails \/ Interrupt
  BY <1>2, <1>3, TickOwn
<1>4. CASE MergeDiverged
  BY <1>2, <1>4, MergeDivergedOwn
<1>5. CASE ReplayStep
  BY <1>2, <1>5 DEF ReplayStep, Linear
<1>6. CASE Write
  BY <1>2, <1>6, WriteOwn
<1>7. CASE Reinstall
  BY <1>2, <1>7, ReinstallOwn
<1>8. CASE Origin
  BY <1>2, <1>8, OriginOwn
<1>9. CASE UNCHANGED vars
  BY <1>2, <1>9 DEF OwnAt, At, vars, refs, origin, ghosts
<1>10. QED
  BY <1>3, <1>4, <1>5, <1>6, <1>7, <1>8, <1>9 DEF Next, Tick
-----------------------------------------------------------------------------
(* What a replay has made so far.  It takes the commits oldest first, so what a
   commit leaves at a path it touched is not overwritten by an older one.   *)
CarryInv ==
    phase = "replay" =>
       \E stop \in WalkStops(commits, agent, main, base) :
          LET collected == Unpushed(commits, agent, main, stop)
          IN  /\ todo \subseteq collected
              /\ \A d \in collected \ todo, c \in todo : d < c
              /\ \A p \in Paths : Carried(collected \ todo, p)

LEMMA CreateExtends ==
    ASSUME TypeOK, NEW first \in Ref, NEW second \in Ref, NEW tree \in Tree,
           Create(first, second, tree)
    PROVE  /\ commits' \in Seq(Commit) /\ Extends(commits, commits')
           /\ TreeAt(commits', NextId) = tree
<1>1. /\ commits \in Seq(Commit) /\ GraphOK(commits)
      /\ commits' \in Seq(Commit) /\ Len(commits') = Len(commits) + 1
      /\ NextId = Len(commits')
  BY CreateCommit DEF TypeOK
<1>2. commits' = Append(commits, NewCommit(commits, first, second, tree))
  BY DEF Create
<1>3. \A c \in Commits(commits) : commits'[c] = commits[c]
  BY <1>1, <1>2 DEF Commits
<1>4. TreeAt(commits', NextId) = tree
  BY <1>1, CreateStory
<1>5. QED  BY <1>1, <1>3, <1>4 DEF Extends

LEMMA OriginExtends ==
    ASSUME TypeInv, Origin
    PROVE  commits' \in Seq(Commit) /\ Extends(commits, commits')
<1>1. /\ TypeOK /\ rMain \in Ref /\ rAgent \in Ref /\ NoCommit \in Ref
      /\ commits \in Seq(Commit)
  BY RefFacts DEF TypeInv, TypeOK
<1>2. CASE UNCHANGED commits
  BY <1>1, <1>2 DEF Extends
<1>3. CASE \E p \in Paths, blob \in Entry : OriginEdit(p, blob)
  <2>1. PICK p \in Paths, blob \in Entry : OriginEdit(p, blob)
    BY <1>3
  <2>2. [At(rMain) EXCEPT ![p] = blob] \in Tree
    BY <1>1, AtType DEF Tree
  <2>3. Create(rMain, NoCommit, [At(rMain) EXCEPT ![p] = blob])
    BY <2>1 DEF OriginEdit
  <2>4. QED  BY <1>1, <2>2, <2>3, CreateExtends
<1>4. CASE \E b \in MergeBases(commits, rAgent, rMain), s \in Strategies :
              Create(rMain, rAgent, MergeTrees(At(b), At(rAgent), At(rMain), s))
  <2>1. PICK b \in MergeBases(commits, rAgent, rMain), s \in Strategies :
            Create(rMain, rAgent, MergeTrees(At(b), At(rAgent), At(rMain), s))
    BY <1>4
  <2>2. b \in Ref
    BY <1>1, BaseInRange
  <2>3. MergeTrees(At(b), At(rAgent), At(rMain), s) \in Tree
    BY <1>1, <2>2, AtType, MergeTreesType
  <2>4. QED  BY <1>1, <2>1, <2>3, CreateExtends
<1>5. CASE \E scrubbed \in SUBSET Paths : OriginReplace(scrubbed)
  <2>1. PICK scrubbed \in SUBSET Paths : OriginReplace(scrubbed)
    BY <1>5
  <2> DEFINE tree == [p \in Paths |-> IF p \in scrubbed THEN Absent ELSE At(rMain)[p]]
  <2>2. tree \in Tree
    BY <1>1, AtType DEF Tree, Entry
  <2>3. Create(NoCommit, NoCommit, tree)
    BY <2>1 DEF OriginReplace
  <2> HIDE DEF tree
  <2>4. QED  BY <1>1, <2>2, <2>3, CreateExtends
<1>6. QED  BY <1>2, <1>3, <1>4, <1>5 DEF Origin, OriginMerge, OriginRewind

(* Where the graph only grows, old commits touch what they touched.         *)
LEMMA TouchesKept ==
    ASSUME TypeOK, commits' \in Seq(Commit), Extends(commits, commits'),
           NEW c \in Commits(commits), NEW p
    PROVE  Touches(c, p)' <=> Touches(c, p)
<1>1. commits'[c] = commits[c] /\ commits[c].first \in Ref /\ c \in Ref
  BY DEF Extends, TypeOK, GraphOK, Commits, Ref
<1>2. /\ TreeAt(commits', c) = TreeAt(commits, c)
      /\ TreeAt(commits', commits[c].first) = TreeAt(commits, commits[c].first)
  BY <1>1, ExtendsKeeps DEF TypeOK, Ref
<1>3. QED  BY <1>1, <1>2 DEF Touches, At

LEMMA CarryStays ==
    ASSUME TypeInv, CarryInv, phase = "replay",
           commits' \in Seq(Commit), Extends(commits, commits'),
           UNCHANGED <<agent, main, base, todo, current>>
    PROVE  CarryInv'
<1>1. /\ TypeOK /\ commits \in Seq(Commit) /\ GraphOK(commits)
      /\ agent \in 0 .. Len(commits) /\ main \in 0 .. Len(commits)
      /\ base \in 0 .. Len(commits) /\ current \in 0 .. Len(commits)
  BY RefFacts DEF TypeInv, TypeOK, Ref
<1>2. PICK stop \in WalkStops(commits, agent, main, base) :
         LET collected == Unpushed(commits, agent, main, stop)
         IN  /\ todo \subseteq collected
             /\ \A d \in collected \ todo, c \in todo : d < c
             /\ \A p \in Paths : Carried(collected \ todo, p)
  BY DEF CarryInv
<1>3. stop \in 0 .. Len(commits)
  BY <1>1, StopsInRange
<1>4. PICK collected : collected = Unpushed(commits, agent, main, stop)
  OBVIOUS
<1>5. PICK done : done = collected \ todo
  OBVIOUS
<1>6. /\ stop \in WalkStops(commits', agent', main', base')
      /\ collected = Unpushed(commits', agent', main', stop)
  BY <1>1, <1>2, <1>3, <1>4, ExtendsWalk
<1>7. done \subseteq Commits(commits)
  BY <1>1, <1>3, <1>4, <1>5, UnpushedInRange
<1>8. ASSUME NEW p \in Paths
      PROVE  Carried(done, p)'
  <2>1. Carried(done, p)
    BY <1>2, <1>4, <1>5
  <2>2. \A c \in done : Touches(c, p)' <=> Touches(c, p)
    BY <1>1, <1>7, TouchesKept
  <2>3. \A c \in done : TreeAt(commits', c) = TreeAt(commits, c)
    BY <1>1, <1>7, ExtendsKeeps DEF Commits
  <2>4. /\ TreeAt(commits', current') = TreeAt(commits, current)
        /\ TreeAt(commits', main') = TreeAt(commits, main)
    BY <1>1, ExtendsKeeps
  <2>5. QED  BY <2>1, <2>2, <2>3, <2>4 DEF Carried, At
<1>9. done = collected \ todo'
  BY <1>5
<1>10. \A p \in Paths : Carried(collected \ todo, p)'
  BY <1>5, <1>8
<1>11. QED  BY <1>2, <1>4, <1>5, <1>6, <1>9, <1>10 DEF CarryInv

LEMMA StartCarries ==
    ASSUME TypeInv, NEW stop \in WalkStops(commits, agent, main, base),
           ReplayStart(stop), UNCHANGED <<commits, main>>
    PROVE  CarryInv'
<1>1. /\ current' = main /\ todo' = Unpushed(commits, agent, main, stop)
      /\ UNCHANGED <<agent, base>>
  BY DEF ReplayStart
<1>2. PICK collected : collected = Unpushed(commits, agent, main, stop)
  OBVIOUS
<1>3. /\ collected = Unpushed(commits, agent, main, stop)'
      /\ stop \in WalkStops(commits, agent, main, base)'
  BY <1>1, <1>2
<1>4. collected \ todo' = {}
  BY <1>1, <1>2
<1>5. \A p \in Paths : Carried({}, p)'
  BY <1>1 DEF Carried, At
<1>6. \A p \in Paths : Carried(collected \ todo, p)'
  BY <1>4, <1>5
<1>7. QED  BY <1>1, <1>2, <1>3, <1>4, <1>6 DEF CarryInv

(* What replayCommit makes of a path: the commit's entry if it touched the path,
   the chain's otherwise.                                                   *)
LEMMA ReplayEntry ==
    ASSUME NEW parent \in Tree, NEW orig \in Tree, NEW onto \in Tree,
           NEW p \in Paths
    PROVE  LET tree == ReplayTree(parent, orig, onto, "LocalWins")
           IN  /\ orig[p] # parent[p] => tree[p] = orig[p]
               /\ orig[p] = parent[p] => tree[p] = onto[p]
BY DEF ReplayTree, Invert, MergeTrees, MergeEntry, Kept

LEMMA ReplayStepCarries ==
    ASSUME TypeInv, CarryInv, ReplayStep
    PROVE  CarryInv'
<1>1. /\ TypeOK /\ commits \in Seq(Commit) /\ GraphOK(commits)
      /\ agent \in 0 .. Len(commits) /\ main \in 0 .. Len(commits)
      /\ base \in 0 .. Len(commits) /\ current \in 0 .. Len(commits)
      /\ todo \subseteq Commits(commits) /\ phase = "replay"
  BY RefFacts DEF TypeInv, TypeOK, Ref, ReplayStep
<1>2. PICK stop \in WalkStops(commits, agent, main, base) :
         LET collected == Unpushed(commits, agent, main, stop)
         IN  /\ todo \subseteq collected
             /\ \A d \in collected \ todo, c \in todo : d < c
             /\ \A p \in Paths : Carried(collected \ todo, p)
  BY <1>1 DEF CarryInv
<1>3. PICK c \in todo :
         /\ IsNext(c)
         /\ Create(current, NoCommit,
                   ReplayTree(At(commits[c].first), At(c), At(current), "LocalWins"))
         /\ todo' = todo \ {c}
  BY DEF ReplayStep
<1> DEFINE tree == ReplayTree(At(commits[c].first), At(c), At(current), "LocalWins")
<1>4. current' = NextId /\ UNCHANGED <<agent, main, base>>
  BY DEF ReplayStep, refs
<1>5. stop \in 0 .. Len(commits)
  BY <1>1, StopsInRange
<1>6. PICK collected : collected = Unpushed(commits, agent, main, stop)
  OBVIOUS
<1>7. PICK done : done = collected \ todo
  OBVIOUS
<1>8. /\ collected \subseteq Commits(commits) /\ done \subseteq Commits(commits)
      /\ c \in collected /\ c \notin done /\ c \in Commits(commits)
      /\ collected \ todo' = done \cup {c}
  <2>1. collected \subseteq Commits(commits)
    BY <1>1, <1>5, <1>6, UnpushedInRange
  <2>2. c \in collected
    BY <1>2, <1>3, <1>6
  <2>3. QED  BY <1>3, <1>7, <2>1, <2>2
<1>9. /\ At(commits[c].first) \in Tree /\ At(c) \in Tree /\ At(current) \in Tree
      /\ current \in Ref /\ NoCommit \in Ref
  <2>1. c \in Ref /\ commits[c].first \in Ref /\ current \in Ref /\ NoCommit \in Ref
    BY <1>1, <1>8, RefFacts DEF GraphOK, Commits, Ref
  <2>2. QED  BY <1>1, <2>1, AtType
<1>10. tree \in Tree
  BY <1>9, ReplayTreeType
<1>11. /\ commits' \in Seq(Commit) /\ Extends(commits, commits')
       /\ TreeAt(commits', NextId) = tree
  BY <1>1, <1>3, <1>9, <1>10, CreateExtends
<1>12. /\ stop \in WalkStops(commits', agent', main', base')
       /\ collected = Unpushed(commits', agent', main', stop)
  BY <1>1, <1>4, <1>2, <1>5, <1>6, <1>11, ExtendsWalk
<1>13. \A d \in done : d < c
  BY <1>2, <1>6, <1>7
<1>14. \A d \in done \cup {c}, e \in todo' : d < e
  <2>1. \A e \in todo' : c < e
    <3>1. \A e \in todo : c <= e /\ e \in Nat
      BY <1>1, <1>3 DEF IsNext, Commits
    <3>2. c \in Nat
      BY <1>8 DEF Commits
    <3>3. \A e \in todo' : e \in todo /\ e # c
      BY <1>3
    <3>4. ASSUME NEW e \in todo' PROVE c < e
      <4>1. e \in Nat /\ c <= e /\ e # c
        BY <3>1, <3>3
      <4>2. QED  BY <3>2, <4>1
    <3>5. QED  BY <3>4
  <2>2. \A d \in done, e \in todo' : d < e
    BY <1>2, <1>3, <1>6, <1>7
  <2>3. QED  BY <2>1, <2>2
<1>15. ASSUME NEW p \in Paths
       PROVE  Carried(done \cup {c}, p)'
  <2>1. Carried(done, p)
    BY <1>2, <1>6, <1>7
  <2>2. /\ \A d \in done : Touches(d, p)' <=> Touches(d, p)
        /\ Touches(c, p)' <=> Touches(c, p)
    BY <1>1, <1>8, <1>11, TouchesKept
  <2>3. /\ \A d \in done : TreeAt(commits', d) = TreeAt(commits, d)
        /\ TreeAt(commits', c) = TreeAt(commits, c)
        /\ TreeAt(commits', main') = TreeAt(commits, main)
    BY <1>1, <1>4, <1>8, <1>11, ExtendsKeeps DEF Commits
  <2>4. /\ Touches(c, p) => TreeAt(commits', current')[p] = TreeAt(commits, c)[p]
        /\ ~Touches(c, p) =>
             TreeAt(commits', current')[p] = TreeAt(commits, current)[p]
    BY <1>4, <1>9, <1>11, ReplayEntry DEF Touches, At
  <2>5. \A d \in done : d <= c
    BY <1>8, <1>13 DEF Commits
  <2>6. CASE Touches(c, p)
    <3>1. Touches(c, p)' /\ TreeAt(commits', current')[p] = TreeAt(commits', c)[p]
      BY <2>2, <2>3, <2>4, <2>6
    <3>2. \A d \in done \cup {c} : Touches(d, p)' => d <= c
      BY <1>8, <2>5 DEF Commits
    <3>3. QED  BY <3>1, <3>2 DEF Carried, At
  <2>7. CASE ~Touches(c, p)
    <3>1. TreeAt(commits', current')[p] = TreeAt(commits, current)[p]
      BY <2>4, <2>7
    <3>2. ~Touches(c, p)'
      BY <2>2, <2>7
    <3>3. QED  BY <2>1, <2>2, <2>3, <3>1, <3>2 DEF Carried, At
  <2>8. QED  BY <2>6, <2>7
<1>16. \A p \in Paths : Carried(collected \ todo, p)'
  BY <1>8, <1>15
<1>17. todo' \subseteq collected
  BY <1>2, <1>3, <1>6
<1> HIDE DEF tree
<1>18. QED
  BY <1>6, <1>8, <1>12, <1>14, <1>16, <1>17 DEF CarryInv

LEMMA CarryStep ==
    ASSUME TypeInv, CarryInv, [Next]_vars
    PROVE  CarryInv'
<1> SUFFICES ASSUME phase' = "replay" PROVE CarryInv'
  BY DEF CarryInv
<1>1. CASE Rebase
  <2>1. PICK stop \in WalkStops(commits, agent, main, base) :
            RebaseNothing(stop) \/ ReplayStart(stop)
    BY <1>1 DEF Rebase
  <2>2. UNCHANGED <<commits, main>>
    BY <1>1 DEF Rebase
  <2>3. CASE RebaseNothing(stop)
    BY <2>3 DEF RebaseNothing
  <2>4. CASE ReplayStart(stop)
    BY <2>2, <2>4, StartCarries
  <2>5. QED  BY <2>1, <2>3, <2>4
<1>2. CASE ReplayStep
  BY <1>2, ReplayStepCarries
<1>3. CASE Origin
  <2>1. UNCHANGED <<agent, main, base, todo, current, phase>>
    BY <1>3 DEF Origin, OriginEdit, OriginMerge, OriginRewind, OriginReplace,
                MoveMain, refs, replay
  <2>2. QED  BY <1>3, <2>1, OriginExtends, CarryStays
<1>4. CASE UNCHANGED vars
  <2>1. UNCHANGED <<commits, agent, main, base, todo, current, phase>>
    BY <1>4 DEF vars, refs, replay
  <2>2. commits' \in Seq(Commit) /\ Extends(commits, commits')
    BY <2>1 DEF TypeInv, TypeOK, Extends
  <2>3. QED  BY <2>1, <2>2, CarryStays
<1>5. CASE Tick /\ ~Rebase /\ ~ReplayStep
  BY <1>5 DEF Tick, Fetch, FetchFails, ReconcileMain, MergeNoop,
     MergeFastForward, MergeDiverged, MergeDone, MergeRefused, ReplayFinish,
     ReplayFails, PushNoop, Push, PushFails
<1>6. CASE Write \/ Interrupt \/ Reinstall
  BY <1>6 DEF Write, LocalWrite, Interrupt, Reinstall
<1>7. QED  BY <1>1, <1>2, <1>3, <1>4, <1>5, <1>6 DEF Next

(* The agent's own writes survive: every merge keeps them while main is not
   rewritten, and a replay takes them over, the newest last, when it is.    *)
THEOREM OwnWritesCorrect == Spec => []OwnWritesSurvive
<1> DEFINE Inv == TypeInv /\ LinearHistory /\ OwnInv /\ CarryInv
<1>1. Init => Inv
  BY InitTypes, InitLinear, InitOwn DEF CarryInv, Init
<1>2. Inv /\ [Next]_vars => Inv'
  BY TypeStep, LinearStep, OwnStep, CarryStep
<1>3. Inv => OwnWritesSurvive
  <2>1. OwnInv => MergesKeepOwn
    BY DEF OwnInv, OwnAt, MergesKeepOwn
  <2>2. CarryInv => ReplayCarriesOwn
    BY DEF CarryInv, ReplayCarriesOwn
  <2>3. QED  BY <2>1, <2>2 DEF OwnWritesSurvive
<1> HIDE DEF Inv
<1>4. QED  BY <1>1, <1>2, <1>3, PTL DEF Spec

(* A replay leaves main's content at every path the agent changed by nothing but
   merges since its watermark.                                              *)
LEMMA FinishFollows ==
    ASSUME TypeInv, CarryInv, [Next]_vars, phase = "replay", agent' # agent,
           NEW p \in Paths, Unchanged(p)
    PROVE  At(agent)'[p] = At(main)[p]
<1>1. ReplayFinish
  BY DEF Next, Tick, Write, LocalWrite, Interrupt, Reinstall, Fetch, FetchFails,
     ReconcileMain, MergeNoop, MergeFastForward, MergeDiverged, MergeRefused,
     Rebase, ReplayStep, ReplayFails, PushNoop, Push, PushFails, Origin,
     OriginEdit, OriginMerge, OriginRewind, OriginReplace, MoveMain, vars, refs
<1>2. PICK stop \in WalkStops(commits, agent, main, base) :
         \A q \in Paths : Carried(Unpushed(commits, agent, main, stop) \ todo, q)
  BY DEF CarryInv
<1>3. PICK collected : collected = Unpushed(commits, agent, main, stop)
  OBVIOUS
<1>4. Carried(collected, p)
  <2>1. collected = collected \ todo
    BY <1>1 DEF ReplayFinish
  <2>2. QED  BY <1>2, <1>3, <2>1
<1>5. \A c \in collected : ~Touches(c, p)
  <2> SUFFICES ASSUME NEW c \in collected PROVE ~Touches(c, p)
    OBVIOUS
  <2>1. /\ c \in Line(commits, agent) /\ commits[c].second = NoCommit
        /\ stop \in Line(commits, agent) => c \notin Line(commits, stop)
    BY <1>3 DEF Unpushed, Walked
  <2>2. base \in Line(commits, agent) => stop = base
    <3>1. base = NoCommit => base \notin Line(commits, agent)
      BY LineInRange, RefFacts DEF TypeInv, TypeOK, Ref, Commits, NoCommit
    <3>2. QED  BY <3>1 DEF WalkStops
  <2>3. QED  BY <2>1, <2>2 DEF Unchanged
<1>6. At(current)[p] = At(main)[p]
  BY <1>4, <1>5 DEF Carried
<1>7. agent' = current /\ UNCHANGED commits
  BY <1>1 DEF ReplayFinish
<1>8. QED  BY <1>6, <1>7 DEF At

-----------------------------------------------------------------------------
(* Why a replay brings back nothing of others.  As long as no tick fails and no
   rebase strays, the watermark has behind it every commit of the agent's
   first-parent chain that is not the agent's own; so on that chain nothing but
   the agent's own commits lies beyond it.                                  *)
From == IF base = NoCommit THEN 1 ELSE base

(* The commits that touch a path the agent never wrote.                     *)
Foreigners(cs) ==
    {c \in cs : /\ commits[c].second = NoCommit
                /\ \E p \in Paths : own[p] = NoWrite /\ Touches(c, p)}

Consumed ==
    /\ Foreigners(Line(commits, agent)) \subseteq Ancestors(commits, From)
    /\ phase \notin {"rebase", "replay"} => IsAncestor(commits, From, main)
    /\ phase = "replay" =>
          /\ \A c \in todo, p \in Paths : own[p] = NoWrite => ~Touches(c, p)
          /\ Foreigners(Line(commits, current)) \subseteq Ancestors(commits, main)

ScrubInv ==
    /\ ChainOK(commits)
    /\ budget["fault"] <= Budget["fault"]
    /\ NoFaultYet /\ ~strayed => Consumed

LEMMA StepSpends ==
    ASSUME [Next]_vars
    PROVE  UNCHANGED budget \/ \E k \in BudgetKinds : Spend(k)
<1>1. CASE Tick \/ Write \/ Interrupt \/ Reinstall
  <2>1. UNCHANGED budget \/ Spend("write") \/ Spend("fault")
    BY <1>1 DEF Tick, Write, LocalWrite, Interrupt, Reinstall, Fetch, FetchFails,
       ReconcileMain, MergeNoop, MergeFastForward, MergeDiverged, MergeDone,
       MergeRefused, Rebase, RebaseNothing, ReplayStart, ReplayStep, ReplayFinish,
       ReplayFails, PushNoop, Push, PushFails
  <2>2. QED  BY <2>1 DEF BudgetKinds
<1>2. CASE Origin
  <2>1. Spend("main") \/ Spend("rewrite")
    BY <1>2 DEF Origin, OriginEdit, OriginMerge, OriginRewind, OriginReplace
  <2>2. QED  BY <2>1 DEF BudgetKinds
<1>3. CASE UNCHANGED vars
  BY <1>3 DEF vars
<1>4. QED  BY <1>1, <1>2, <1>3 DEF Next

(* What a step without a fault, after none, looks like.                     *)
LEMMA FaultFree ==
    ASSUME TypeOK, budget["fault"] <= Budget["fault"], [Next]_vars
    PROVE  /\ budget'["fault"] <= Budget["fault"]
           /\ NoFaultYet' => NoFaultYet /\ ~Spend("fault")
<1>1. budget["fault"] \in Nat /\ Budget["fault"] \in Nat
  BY BudgetAssumption DEF TypeOK, BudgetKinds
<1>2. CASE UNCHANGED budget
  BY <1>1, <1>2 DEF NoFaultYet, Spend, TypeOK, BudgetKinds
<1>3. CASE \E k \in BudgetKinds : Spend(k)
  <2>1. PICK k \in BudgetKinds : Spend(k)
    BY <1>3
  <2>2. budget' = [budget EXCEPT ![k] = @ - 1] /\ budget[k] > 0
    BY <2>1 DEF Spend
  <2>3. CASE k = "fault"
    <3>1. budget'["fault"] = budget["fault"] - 1
      BY <2>2, <2>3 DEF TypeOK, BudgetKinds
    <3>2. QED  BY <1>1, <3>1 DEF NoFaultYet
  <2>4. CASE k # "fault"
    <3>1. budget'["fault"] = budget["fault"]
      BY <2>2, <2>4 DEF TypeOK, BudgetKinds
    <3>2. ~Spend("fault")
      <4> SUFFICES ASSUME Spend("fault") PROVE FALSE
        OBVIOUS
      <4>1. budget'["fault"] = budget["fault"] - 1
        BY DEF Spend, TypeOK, BudgetKinds
      <4>2. QED  BY <1>1, <3>1, <4>1
    <3>3. QED  BY <1>1, <3>1, <3>2 DEF NoFaultYet
  <2>5. QED  BY <2>3, <2>4
<1>4. QED  BY <1>2, <1>3, StepSpends

LEMMA StraysOnce == ASSUME [Next]_vars, strayed PROVE strayed'
<1>1. CASE Rebase
  BY <1>1 DEF Rebase, RebaseNothing, ReplayStart
<1>2. CASE ~Rebase
  <2>1. UNCHANGED strayed
    BY <1>2 DEF Next, Tick, Write, LocalWrite, Origin, OriginEdit, OriginMerge,
       OriginRewind, OriginReplace, MoveMain, Interrupt, Reinstall, Fetch,
       FetchFails, ReconcileMain, MergeNoop, MergeFastForward, MergeDiverged,
       MergeRefused, ReplayStep, ReplayFinish, ReplayFails, PushNoop, Push,
       PushFails, vars, ghosts
  <2>2. QED  BY <2>1
<1>3. QED  BY <1>1, <1>2

LEMMA FromInRange ==
    ASSUME TypeOK
    PROVE  From \in Ref /\ From # NoCommit /\ From \in Commits(commits)
BY DEF TypeOK, From, Ref, Commits, NoCommit

(* A commit keeps its kind while the graph grows and the agent's writes stay. *)
LEMMA ForeignersKept ==
    ASSUME TypeOK, commits' \in Seq(Commit), Extends(commits, commits'),
           NEW cs, cs \subseteq Commits(commits),
           \A p \in Paths : own'[p] = NoWrite => own[p] = NoWrite
    PROVE  Foreigners(cs)' \subseteq Foreigners(cs)
<1> SUFFICES ASSUME NEW c \in cs, commits'[c].second = NoCommit,
                    NEW p \in Paths, own'[p] = NoWrite, Touches(c, p)'
             PROVE  c \in Foreigners(cs)
  BY DEF Foreigners
<1>1. c \in Commits(commits) /\ commits'[c] = commits[c]
  BY DEF Extends
<1>2. Touches(c, p)
  BY <1>1, TouchesKept
<1>3. QED  BY <1>1, <1>2 DEF Foreigners

(* Steps that leave the agent, its watermark, its writes and local main alone. *)
LEMMA ConsumedStays ==
    ASSUME TypeOK, Consumed, commits' \in Seq(Commit), Extends(commits, commits'),
           UNCHANGED <<agent, main, base, own, todo, current>>,
           \/ UNCHANGED phase
           \/ /\ phase \notin {"rebase", "replay"}
              /\ phase' \notin {"rebase", "replay"}
    PROVE  Consumed'
<1>1. /\ commits \in Seq(Commit) /\ GraphOK(commits)
      /\ agent \in 0 .. Len(commits) /\ main \in 0 .. Len(commits)
      /\ base \in 0 .. Len(commits) /\ current \in 0 .. Len(commits)
      /\ todo \subseteq Commits(commits)
  BY RefFacts DEF TypeOK, Ref
<1>2. From' = From /\ From \in 0 .. Len(commits)
  BY FromInRange DEF From, Ref
<1>3. /\ Ancestors(commits', From) = Ancestors(commits, From)
      /\ Ancestors(commits', main) = Ancestors(commits, main)
      /\ Line(commits', agent) = Line(commits, agent)
      /\ Line(commits', current) = Line(commits, current)
  BY <1>1, <1>2, ExtendsKeeps
<1>4. Foreigners(Line(commits, agent))' \subseteq Ancestors(commits, From)
  <2>1. PICK line : line = Line(commits, agent)
    OBVIOUS
  <2>2. line' = line /\ line = Line(commits, agent)'
    BY <1>3, <2>1
  <2>3. Foreigners(line)' \subseteq Foreigners(line)
    BY <1>1, <2>1, LineInRange, ForeignersKept
  <2>4. QED  BY <2>1, <2>2, <2>3 DEF Consumed
<1>5. phase = "replay" =>
         Foreigners(Line(commits, current))' \subseteq Ancestors(commits, main)
  <2>1. PICK line : line = Line(commits, current)
    OBVIOUS
  <2>2. line = Line(commits, current)'
    BY <1>3, <2>1
  <2>3. Foreigners(line)' \subseteq Foreigners(line)
    BY <1>1, <2>1, LineInRange, ForeignersKept
  <2>4. QED  BY <2>1, <2>2, <2>3 DEF Consumed
<1>6. phase = "replay" =>
         \A c \in todo, p \in Paths : own'[p] = NoWrite => ~Touches(c, p)'
  BY <1>1, TouchesKept DEF Consumed
<1>7. phase' = "replay" => phase = "replay"
  OBVIOUS
<1>8. phase' \notin {"rebase", "replay"} => IsAncestor(commits, From, main)
  BY DEF Consumed
<1>9. QED
  BY <1>2, <1>3, <1>4, <1>5, <1>6, <1>7, <1>8 DEF Consumed, IsAncestor
(* A step makes at most one commit.                                         *)
LEMMA StepCreates ==
    ASSUME TypeInv, [Next]_vars
    PROVE  \/ UNCHANGED commits
           \/ \E first, second \in Ref, tree \in Tree : Create(first, second, tree)
<1>1. /\ TypeOK /\ agent \in Ref /\ main \in Ref /\ current \in Ref
      /\ rMain \in Ref /\ rAgent \in Ref /\ NoCommit \in Ref
  BY RefFacts DEF TypeInv
<1>2. CASE Write
  <2>1. PICK change \in Changes : LocalWrite(change.files, change.deletes)
    BY <1>2 DEF Write
  <2>2. PICK written \in SUBSET Paths : change.files \in [written -> Blobs]
    BY ChangesAssumption
  <2>3. change.deletes \in SUBSET Paths
    BY ChangesAssumption
  <2>4. ApplyChange(At(agent), change.files, change.deletes) \in Tree
    BY <1>1, <2>2, <2>3, AtType, ApplyChangeType
  <2>5. Create(agent, NoCommit, ApplyChange(At(agent), change.files, change.deletes))
    BY <2>1 DEF LocalWrite
  <2>6. QED  BY <1>1, <2>4, <2>5
<1>3. CASE MergeDiverged
  <2>1. PICK b \in MergeBases(commits, main, agent) :
          \/ UNCHANGED commits
          \/ Create(agent, main, MergeTrees(At(b), At(main), At(agent), "LocalWins"))
    BY <1>3 DEF MergeDiverged
  <2>2. b \in Ref
    BY <1>1, BaseInRange
  <2>3. MergeTrees(At(b), At(main), At(agent), "LocalWins") \in Tree
    BY <1>1, <2>2, AtType, MergeTreesType
  <2>4. QED  BY <1>1, <2>1, <2>3
<1>4. CASE ReplayStep
  <2>1. PICK c \in todo :
           Create(current, NoCommit,
                  ReplayTree(At(commits[c].first), At(c), At(current), "LocalWins"))
    BY <1>4 DEF ReplayStep
  <2>2. c \in Ref /\ commits[c].first \in Ref
    <3>1. c \in Commits(commits)
      BY <1>1 DEF TypeOK
    <3>2. QED  BY <1>1, <3>1, ParentInRange
  <2>3. ReplayTree(At(commits[c].first), At(c), At(current), "LocalWins") \in Tree
    BY <1>1, <2>2, AtType, ReplayTreeType
  <2>4. QED  BY <1>1, <2>1, <2>3
<1>5. CASE \E p \in Paths, blob \in Entry : OriginEdit(p, blob)
  <2>1. PICK p \in Paths, blob \in Entry : OriginEdit(p, blob)
    BY <1>5
  <2>2. [At(rMain) EXCEPT ![p] = blob] \in Tree
    BY <1>1, AtType DEF Tree
  <2>3. Create(rMain, NoCommit, [At(rMain) EXCEPT ![p] = blob])
    BY <2>1 DEF OriginEdit
  <2>4. QED  BY <1>1, <2>2, <2>3
<1>6. CASE OriginMerge
  <2>1. CASE UNCHANGED commits
    BY <2>1
  <2>2. CASE \E b \in MergeBases(commits, rAgent, rMain), s \in Strategies :
                Create(rMain, rAgent, MergeTrees(At(b), At(rAgent), At(rMain), s))
    <3>1. PICK b \in MergeBases(commits, rAgent, rMain), s \in Strategies :
              Create(rMain, rAgent, MergeTrees(At(b), At(rAgent), At(rMain), s))
      BY <2>2
    <3>2. b \in Ref
      BY <1>1, BaseInRange
    <3>3. MergeTrees(At(b), At(rAgent), At(rMain), s) \in Tree
      BY <1>1, <3>2, AtType, MergeTreesType
    <3>4. QED  BY <1>1, <3>1, <3>3
  <2>3. QED  BY <1>6, <2>1, <2>2 DEF OriginMerge
<1>7. CASE \E scrubbed \in SUBSET Paths : OriginReplace(scrubbed)
  <2>1. PICK scrubbed \in SUBSET Paths : OriginReplace(scrubbed)
    BY <1>7
  <2> DEFINE tree == [p \in Paths |-> IF p \in scrubbed THEN Absent ELSE At(rMain)[p]]
  <2>2. tree \in Tree
    BY <1>1, AtType DEF Tree, Entry
  <2>3. Create(NoCommit, NoCommit, tree)
    BY <2>1 DEF OriginReplace
  <2> HIDE DEF tree
  <2>4. QED  BY <1>1, <2>2, <2>3
<1>8. CASE UNCHANGED commits
  BY <1>8
<1>9. QED
  <2>1. \/ Write \/ MergeDiverged \/ ReplayStep \/ OriginMerge \/ UNCHANGED commits
        \/ \E p \in Paths, blob \in Entry : OriginEdit(p, blob)
        \/ \E scrubbed \in SUBSET Paths : OriginReplace(scrubbed)
    BY DEF Next, Tick, Origin, OriginRewind, Interrupt, Reinstall, Fetch,
       FetchFails, ReconcileMain, MergeNoop, MergeFastForward, MergeRefused,
       Rebase, ReplayFinish, ReplayFails, PushNoop, Push, PushFails, vars
  <2>2. QED  BY <1>2, <1>3, <1>4, <1>5, <1>6, <1>7, <1>8, <2>1

LEMMA CreateLine ==
    ASSUME TypeOK, ChainOK(commits), NEW first \in Ref, NEW second \in Ref,
           NEW tree \in Tree, Create(first, second, tree)
    PROVE  /\ ChainOK(commits')
           /\ Line(commits', NextId) = {NextId} \cup Line(commits, first)
           /\ commits'[NextId].first = first /\ commits'[NextId].second = second
           /\ NextId # NoCommit
<1>1. IsOneMore(commits, commits', first, second, tree)
  BY DEF Create, IsOneMore
<1>2. /\ commits \in Seq(Commit) /\ GraphOK(commits)
      /\ first \in 0 .. Len(commits) /\ second \in 0 .. Len(commits)
  BY DEF TypeOK, Ref
<1>3. NextId = Len(commits') /\ Len(commits') = Len(commits) + 1
  BY CreateCommit
<1>4. QED  BY <1>1, <1>2, <1>3, AppendChain DEF NoCommit

LEMMA ChainStep ==
    ASSUME TypeInv, ChainOK(commits), [Next]_vars
    PROVE  /\ ChainOK(commits)'
           /\ commits' \in Seq(Commit) /\ Extends(commits, commits')
<1>1. CASE UNCHANGED commits
  BY <1>1 DEF TypeInv, TypeOK, Extends
<1>2. CASE \E first, second \in Ref, tree \in Tree : Create(first, second, tree)
  BY <1>2, CreateLine, CreateExtends DEF TypeInv
<1>3. QED  BY <1>1, <1>2, StepCreates

LEMMA InitScrub == Init => ScrubInv
<1> SUFFICES ASSUME Init PROVE ScrubInv
  OBVIOUS
<1>1. TypeOK /\ budget = Budget /\ agent = 1 /\ main = 1 /\ phase = "idle"
  BY InitTypes DEF TypeInv, Init
<1>2. /\ \A c \in Commits(commits) : commits[c].line = {c} /\ commits[c].anc = {c}
      /\ base \in {NoCommit, 1}
  <2>1. CASE \E tree \in Roots : /\ commits = <<FirstRoot(tree)>>
                                 /\ base \in {NoCommit, 1}
    BY <2>1 DEF FirstRoot, NewCommit, Commits, Ancestors, Line
  <2>2. CASE \E tree, other \in Roots : InitAttached(tree, other)
    BY <2>2 DEF InitAttached, FirstRoot, NewCommit, Commits, Ancestors, Line
  <2>3. QED  BY <2>1, <2>2 DEF Init, InitCloned, InitTakenOver, InitEmptyOrigin
<1>3. ChainOK(commits)
  BY <1>2 DEF ChainOK
<1>4. From = 1 /\ Line(commits, agent) = {1} /\ Ancestors(commits, 1) = {1}
  BY <1>1, <1>2 DEF From, Line, Ancestors, TypeOK, Commits, NoCommit
<1>5. Consumed
  BY <1>1, <1>4 DEF Consumed, Foreigners, IsAncestor
<1>6. budget["fault"] <= Budget["fault"]
  BY <1>1, BudgetAssumption DEF BudgetKinds
<1>7. QED  BY <1>3, <1>5, <1>6 DEF ScrubInv

(* A new commit joins the foreigners of its line only if it has one parent and
   touches a path the agent never wrote.                                    *)
LEMMA CreateForeigners ==
    ASSUME TypeOK, ChainOK(commits), NEW first \in Ref, NEW second \in Ref,
           NEW tree \in Tree, Create(first, second, tree),
           NEW tip, tip = NextId,
           \A p \in Paths : own'[p] = NoWrite => own[p] = NoWrite,
           \/ second # NoCommit
           \/ \A p \in Paths : own'[p] = NoWrite => tree[p] = At(first)[p]
    PROVE  Foreigners(Line(commits, tip))' \subseteq Foreigners(Line(commits, first))
<1>1. /\ commits \in Seq(Commit) /\ GraphOK(commits) /\ first \in 0 .. Len(commits)
      /\ commits' \in Seq(Commit) /\ Extends(commits, commits')
      /\ TreeAt(commits', tip) = tree
  BY CreateExtends DEF TypeOK, Ref
<1>2. /\ Line(commits', tip) = {tip} \cup Line(commits, first)
      /\ commits'[tip].first = first /\ commits'[tip].second = second
  BY CreateLine
<1>3. PICK line : line = Line(commits, first)
  OBVIOUS
<1>4. Foreigners(line)' \subseteq Foreigners(line)
  BY <1>1, <1>3, LineInRange, ForeignersKept
<1>5. TreeAt(commits', first) = At(first)
  BY <1>1, ExtendsKeeps DEF At
<1>6. tip \notin Foreigners({tip})'
  <2> SUFFICES ASSUME second = NoCommit, NEW p \in Paths, own'[p] = NoWrite
               PROVE  ~Touches(tip, p)'
    BY <1>2 DEF Foreigners
  <2>1. tree[p] = At(first)[p]
    OBVIOUS
  <2>2. QED  BY <1>1, <1>2, <1>5, <2>1 DEF Touches, At
<1>7. PICK longer : longer = {tip} \cup line
  OBVIOUS
<1>8. Foreigners(longer)' \subseteq Foreigners(line)
  BY <1>4, <1>6, <1>7 DEF Foreigners
<1>9. longer = Line(commits, tip)'
  BY <1>2, <1>3, <1>7
<1>10. Foreigners(longer)' = Foreigners(Line(commits, tip))'
  BY <1>9 DEF Foreigners
<1>11. QED  BY <1>3, <1>8, <1>10

LEMMA WriteConsumed ==
    ASSUME TypeInv, ChainOK(commits), Consumed, Write
    PROVE  Consumed'
<1>1. /\ TypeOK /\ agent \in Ref /\ NoCommit \in Ref
      /\ commits \in Seq(Commit) /\ GraphOK(commits)
      /\ main \in 0 .. Len(commits) /\ From \in 0 .. Len(commits)
  BY RefFacts, FromInRange DEF TypeInv, TypeOK, Ref
<1>2. PICK change \in Changes : LocalWrite(change.files, change.deletes)
  BY DEF Write
<1>3. PICK tree : tree = ApplyChange(At(agent), change.files, change.deletes)
  OBVIOUS
<1>4. tree \in Tree
  <2>1. PICK written \in SUBSET Paths : change.files \in [written -> Blobs]
    BY ChangesAssumption
  <2>2. change.deletes \in SUBSET Paths
    BY ChangesAssumption
  <2>3. QED  BY <1>1, <1>3, <2>1, <2>2, AtType, ApplyChangeType
<1>5. Create(agent, NoCommit, tree) /\ agent' = NextId
  BY <1>2, <1>3 DEF LocalWrite
<1>6. /\ UNCHANGED <<main, base, phase, todo, current>> /\ phase # "replay"
      /\ \A p \in Paths : own'[p] = IF p \in DOMAIN change.files \cup change.deletes
                                    THEN tree[p] ELSE own[p]
  BY <1>2, <1>3 DEF LocalWrite, replay
<1>7. \A p \in Paths : own'[p] = NoWrite => own[p] = NoWrite /\ tree[p] = At(agent)[p]
  <2> SUFFICES ASSUME NEW p \in Paths, own'[p] = NoWrite
               PROVE  own[p] = NoWrite /\ tree[p] = At(agent)[p]
    OBVIOUS
  <2>1. tree[p] \in Entry
    BY <1>4 DEF Tree
  <2>2. p \notin DOMAIN change.files \cup change.deletes
    BY <1>6, <2>1, NoWriteAssumption
  <2>3. tree[p] = At(agent)[p]
    BY <1>3, <2>2 DEF ApplyChange
  <2>4. QED  BY <1>6, <2>2, <2>3
<1>8. Foreigners(Line(commits, agent))' \subseteq Foreigners(Line(commits, agent))
  <2>1. PICK tip : tip = NextId
    OBVIOUS
  <2>2. Foreigners(Line(commits, tip))' \subseteq Foreigners(Line(commits, agent))
    BY <1>1, <1>4, <1>5, <1>7, <2>1, CreateForeigners
  <2>3. Foreigners(Line(commits, tip))' = Foreigners(Line(commits, agent))'
    BY <1>5, <2>1 DEF Foreigners
  <2>4. QED  BY <2>2, <2>3
<1>9. /\ Ancestors(commits', From) = Ancestors(commits, From)
      /\ Ancestors(commits', main) = Ancestors(commits, main)
  BY <1>1, <1>4, <1>5, CreateExtends, ExtendsKeeps
<1>10. From' = From
  BY <1>6 DEF From
<1>11. QED  BY <1>6, <1>8, <1>9, <1>10 DEF Consumed, IsAncestor

(* What a merge or a rebase leaves: the agent's line has behind it nothing of
   others that main has not, and main is the watermark.                     *)
LEMMA UpToDate ==
    ASSUME TypeOK', base' = main',
           (Foreigners(Line(commits, agent)) \subseteq Ancestors(commits, main))',
           phase' = "push"
    PROVE  Consumed'
<1>1. /\ commits' \in Seq(Commit) /\ GraphOK(commits')
      /\ main' \in Commits(commits') /\ main' # NoCommit
  BY DEF TypeOK, Commits, NoCommit
<1>2. From' = main'
  BY <1>1 DEF From
<1>3. IsAncestor(commits', main', main')
  BY <1>1, SelfAncestor
<1>4. QED  BY <1>2, <1>3 DEF Consumed

(* What a merge finds: whatever was consumed lies behind main.              *)
LEMMA MergeFinds ==
    ASSUME TypeInv, Consumed, phase \notin {"rebase", "replay"}
    PROVE  Foreigners(Line(commits, agent)) \subseteq Ancestors(commits, main)
<1>1. /\ commits \in Seq(Commit) /\ GraphOK(commits)
      /\ main \in 0 .. Len(commits) /\ From \in 0 .. Len(commits)
  BY RefFacts, FromInRange DEF TypeInv, TypeOK, Ref
<1>2. IsAncestor(commits, From, main)
  BY DEF Consumed
<1>3. Ancestors(commits, From) \subseteq Ancestors(commits, main)
  BY <1>1, <1>2, AncestorTransitive DEF IsAncestor
<1>4. QED  BY <1>3 DEF Consumed

LEMMA MainHasItsLine ==
    ASSUME TypeOK
    PROVE  Foreigners(Line(commits, main)) \subseteq Ancestors(commits, main)
<1>1. Line(commits, main) \subseteq Ancestors(commits, main)
  BY RefFacts, LineIsAncestors DEF TypeOK, Ref
<1>2. QED  BY <1>1 DEF Foreigners

LEMMA MergeConsumed ==
    ASSUME TypeInv, TypeInv', ChainOK(commits), Consumed, ~Spend("fault"),
           MergeNoop \/ MergeFastForward \/ MergeDiverged
    PROVE  Consumed'
<1>1. /\ TypeOK /\ TypeOK' /\ main \in Ref /\ agent \in Ref
      /\ commits \in Seq(Commit) /\ GraphOK(commits)
      /\ main \in 0 .. Len(commits) /\ main # NoCommit
  <2>1. TypeOK /\ TypeOK'
    BY DEF TypeInv
  <2>2. commits \in Seq(Commit) /\ GraphOK(commits) /\ main # NoCommit
    BY <2>1 DEF TypeOK, Commits, NoCommit
  <2>3. main \in 0 .. Len(commits)
    BY <2>1, RefFacts DEF Ref
  <2>4. QED  BY <2>1, <2>2, <2>3, RefFacts
<1>2. phase = "merge" /\ phase' = "push" /\ base' = main /\ UNCHANGED <<main, own>>
  BY DEF MergeNoop, MergeFastForward, MergeDiverged, MergeDone, ghosts
<1>3. Foreigners(Line(commits, agent)) \subseteq Ancestors(commits, main)
  BY <1>2, MergeFinds
<1>4. CASE UNCHANGED <<commits, agent>>
  <2>1. Foreigners(Line(commits, agent))' = Foreigners(Line(commits, agent))
    BY <1>2, <1>4 DEF Foreigners, Touches, At
  <2>2. (Foreigners(Line(commits, agent)) \subseteq Ancestors(commits, main))'
    BY <1>2, <1>3, <1>4, <2>1
  <2>3. QED  BY <1>1, <1>2, <2>2, UpToDate
<1>5. CASE agent' = main /\ UNCHANGED commits
  <2>1. Foreigners(Line(commits, agent))' = Foreigners(Line(commits, main))
    BY <1>2, <1>5 DEF Foreigners, Touches, At
  <2>2. (Foreigners(Line(commits, agent)) \subseteq Ancestors(commits, main))'
    BY <1>1, <1>2, <1>5, <2>1, MainHasItsLine
  <2>3. QED  BY <1>1, <1>2, <2>2, UpToDate
<1>6. CASE \E tree \in Tree : Create(agent, main, tree) /\ agent' = NextId
  <2>1. PICK tree \in Tree : Create(agent, main, tree) /\ agent' = NextId
    BY <1>6
  <2>2. PICK tip : tip = NextId
    OBVIOUS
  <2>3. Foreigners(Line(commits, tip))' \subseteq Foreigners(Line(commits, agent))
    BY <1>1, <1>2, <2>1, <2>2, CreateForeigners
  <2>4. Foreigners(Line(commits, tip))' = Foreigners(Line(commits, agent))'
    BY <2>1, <2>2 DEF Foreigners
  <2>5. Ancestors(commits', main) = Ancestors(commits, main)
    BY <1>1, <2>1, CreateExtends, ExtendsKeeps
  <2>6. (Foreigners(Line(commits, agent)) \subseteq Ancestors(commits, main))'
    BY <1>2, <1>3, <2>3, <2>4, <2>5
  <2>7. QED  BY <1>1, <1>2, <2>6, UpToDate
<1>7. QED
  <2>1. CASE MergeNoop \/ MergeFastForward
    BY <1>4, <1>5, <2>1 DEF MergeNoop, MergeFastForward
  <2>2. CASE MergeDiverged
    <3>1. PICK b \in MergeBases(commits, main, agent) :
            \/ UNCHANGED <<commits, agent>>
            \/ /\ Create(agent, main, MergeTrees(At(b), At(main), At(agent), "LocalWins"))
               /\ agent' = NextId
      BY <2>2 DEF MergeDiverged
    <3>2. MergeTrees(At(b), At(main), At(agent), "LocalWins") \in Tree
      BY <1>1, AtType, BaseInRange, MergeTreesType
    <3>3. QED  BY <1>4, <1>6, <3>1, <3>2
  <2>3. QED  BY <2>1, <2>2

(* A rebase with nothing to replay fast-forwards, or it strays.             *)
LEMMA NothingConsumed ==
    ASSUME TypeInv, TypeInv', ~Spend("fault"), ~strayed', NEW stop,
           RebaseNothing(stop), UNCHANGED <<commits, main, own>>
    PROVE  Consumed'
<1>1. /\ agent' = main /\ base' = main /\ phase' = "push"
  BY DEF RebaseNothing
<1>2. Foreigners(Line(commits, agent))' = Foreigners(Line(commits, main))
  BY <1>1 DEF Foreigners, Touches, At
<1>3. (Foreigners(Line(commits, agent)) \subseteq Ancestors(commits, main))'
  BY <1>2, MainHasItsLine DEF TypeInv
<1>4. QED  BY <1>1, <1>3, UpToDate DEF TypeInv

(* A walk that stops on the agent's line collects nothing that touches a path
   the agent never wrote: all of that lies at or behind the stop.           *)
LEMMA StartConsumed ==
    ASSUME TypeInv, ChainOK(commits), Consumed, ~strayed',
           NEW stop \in WalkStops(commits, agent, main, base),
           ReplayStart(stop), UNCHANGED <<commits, main, own>>
    PROVE  Consumed'
<1>1. /\ todo' = Unpushed(commits, agent, main, stop) /\ current' = main
      /\ phase' = "replay" /\ stop \in Line(commits, agent)
      /\ UNCHANGED <<agent, base>>
  BY DEF ReplayStart
<1>2. /\ TypeOK /\ commits \in Seq(Commit) /\ GraphOK(commits)
      /\ agent \in 0 .. Len(commits) /\ base \in 0 .. Len(commits)
  BY RefFacts DEF TypeInv, TypeOK, Ref
<1>3. Line(commits, agent) \subseteq Commits(commits)
  BY <1>2, LineInRange
<1>4. ASSUME NEW c \in Line(commits, agent), c \in Ancestors(commits, From)
      PROVE  c \in Line(commits, stop)
  <2>1. CASE base # NoCommit
    <3>1. stop = From
      BY <2>1 DEF WalkStops, From
    <3>2. QED  BY <1>1, <1>2, <1>4, <3>1, ChainBelow
  <2>2. CASE base = NoCommit
    <3>1. From = 1 /\ 1 \in Commits(commits)
      BY <1>2, <2>2, FromInRange DEF From
    <3>2. c = 1
      BY <1>2, <1>4, <3>1 DEF GraphOK, Ancestors, NoCommit
    <3>3. agent \in Commits(commits) /\ stop \in Commits(commits)
      BY <1>1, <1>2, <1>3 DEF TypeOK
    <3>4. /\ Line(commits, agent) = commits[agent].line
          /\ Line(commits, stop) = commits[stop].line
      BY <3>3 DEF Line, Commits, NoCommit
    <3>5. 1 <= stop
      BY <3>3 DEF Commits
    <3>6. QED  BY <1>1, <1>4, <3>2, <3>3, <3>4, <3>5 DEF ChainOK
  <2>3. QED  BY <2>1, <2>2
<1>5. \A c \in todo', p \in Paths : own[p] = NoWrite => ~Touches(c, p)
  <2> SUFFICES ASSUME NEW c \in todo', NEW p \in Paths, own[p] = NoWrite, Touches(c, p)
               PROVE  FALSE
    OBVIOUS
  <2>1. /\ c \in Line(commits, agent) /\ c \notin Line(commits, stop)
        /\ commits[c].second = NoCommit
    BY <1>1 DEF Unpushed, Walked
  <2>2. c \in Foreigners(Line(commits, agent))
    BY <2>1 DEF Foreigners
  <2>3. QED  BY <1>4, <2>1, <2>2 DEF Consumed
<1>6. Foreigners(Line(commits, main)) \subseteq Ancestors(commits, main)
  BY <1>2, MainHasItsLine
<1>7. /\ Foreigners(Line(commits, agent))' = Foreigners(Line(commits, agent))
      /\ Foreigners(Line(commits, current))' = Foreigners(Line(commits, main))
      /\ From' = From
      /\ \A c \in todo', p \in Paths : Touches(c, p)' = Touches(c, p)
  BY <1>1 DEF Foreigners, From, Touches, At
<1>8. QED  BY <1>1, <1>5, <1>6, <1>7 DEF Consumed

(* What is replayed of a commit touches no path the commit did not touch.   *)
LEMMA ReplayStepConsumed ==
    ASSUME TypeInv, ChainOK(commits), Consumed, ReplayStep
    PROVE  Consumed'
<1>1. /\ TypeOK /\ commits \in Seq(Commit) /\ GraphOK(commits)
      /\ agent \in 0 .. Len(commits) /\ main \in 0 .. Len(commits)
      /\ From \in 0 .. Len(commits) /\ current \in Ref /\ NoCommit \in Ref
      /\ todo \subseteq Commits(commits)
  BY RefFacts, FromInRange DEF TypeInv, TypeOK, Ref
<1>2. /\ phase = "replay" /\ current' = NextId
      /\ UNCHANGED <<agent, main, base, phase, own>>
  BY DEF ReplayStep, refs, ghosts
<1>3. PICK c \in todo :
         /\ Create(current, NoCommit,
                   ReplayTree(At(commits[c].first), At(c), At(current), "LocalWins"))
         /\ todo' = todo \ {c}
  BY DEF ReplayStep
<1>4. PICK tree :
         tree = ReplayTree(At(commits[c].first), At(c), At(current), "LocalWins")
  OBVIOUS
<1>5. /\ At(commits[c].first) \in Tree /\ At(c) \in Tree /\ At(current) \in Tree
  <2>1. c \in Ref /\ commits[c].first \in Ref
    BY <1>1, ParentInRange
  <2>2. QED  BY <1>1, <2>1, AtType
<1>6. tree \in Tree
  BY <1>4, <1>5, ReplayTreeType
<1>7. \A p \in Paths : own'[p] = NoWrite => tree[p] = At(current)[p]
  <2> SUFFICES ASSUME NEW p \in Paths, own'[p] = NoWrite
               PROVE  tree[p] = At(current)[p]
    OBVIOUS
  <2>1. At(c)[p] = At(commits[c].first)[p]
    BY <1>2 DEF Consumed, Touches
  <2>2. QED  BY <1>4, <1>5, <2>1, ReplayEntry
<1>8. Create(current, NoCommit, tree)
  BY <1>3, <1>4
<1>9. commits' \in Seq(Commit) /\ Extends(commits, commits')
  BY <1>1, <1>6, <1>8, CreateExtends
<1>10. /\ Ancestors(commits', From) = Ancestors(commits, From)
       /\ Ancestors(commits', main) = Ancestors(commits, main)
       /\ Line(commits', agent) = Line(commits, agent)
  BY <1>1, <1>9, ExtendsKeeps
<1>11. Foreigners(Line(commits, agent))' \subseteq Ancestors(commits, From)
  <2>1. PICK line : line = Line(commits, agent)
    OBVIOUS
  <2>2. line = Line(commits, agent)'
    BY <1>2, <1>10, <2>1
  <2>3. Foreigners(line)' \subseteq Foreigners(line)
    BY <1>1, <1>2, <1>9, <2>1, LineInRange, ForeignersKept
  <2>4. QED  BY <2>1, <2>2, <2>3 DEF Consumed
<1>12. Foreigners(Line(commits, current))' \subseteq Ancestors(commits, main)
  <2>1. PICK tip : tip = NextId
    OBVIOUS
  <2>2. Foreigners(Line(commits, tip))' \subseteq Foreigners(Line(commits, current))
    BY <1>1, <1>2, <1>6, <1>7, <1>8, <2>1, CreateForeigners
  <2>3. Foreigners(Line(commits, tip))' = Foreigners(Line(commits, current))'
    BY <1>2, <2>1 DEF Foreigners
  <2>4. QED  BY <1>2, <2>2, <2>3 DEF Consumed
<1>13. \A d \in todo', p \in Paths : own'[p] = NoWrite => ~Touches(d, p)'
  BY <1>1, <1>2, <1>3, <1>9, TouchesKept DEF Consumed
<1>14. From' = From
  BY <1>2 DEF From
<1>15. QED  BY <1>2, <1>10, <1>11, <1>12, <1>13, <1>14 DEF Consumed

LEMMA FinishConsumed ==
    ASSUME TypeInv, TypeInv', Consumed, ~Spend("fault"), ReplayFinish
    PROVE  Consumed'
<1>1. /\ agent' = current /\ base' = main /\ phase = "replay" /\ phase' = "push"
      /\ UNCHANGED <<commits, main, own>>
  BY DEF ReplayFinish, ghosts
<1>2. Foreigners(Line(commits, agent))' = Foreigners(Line(commits, current))
  BY <1>1 DEF Foreigners, Touches, At
<1>3. (Foreigners(Line(commits, agent)) \subseteq Ancestors(commits, main))'
  BY <1>1, <1>2 DEF Consumed
<1>4. QED  BY <1>1, <1>3, UpToDate DEF TypeInv

LEMMA ReconcileConsumed ==
    ASSUME TypeInv, Consumed, ~Spend("fault"), ReconcileMain
    PROVE  Consumed'
<1>1. /\ phase = "main" /\ main' = trackMain
      /\ phase' = IF Rewound THEN "rebase" ELSE "merge"
      /\ UNCHANGED <<commits, agent, base, own>>
  BY DEF ReconcileMain, ghosts
<1>2. /\ commits \in Seq(Commit) /\ GraphOK(commits)
      /\ main \in 0 .. Len(commits) /\ trackMain \in 0 .. Len(commits)
      /\ From \in 0 .. Len(commits)
  BY RefFacts, FromInRange DEF TypeInv, TypeOK, Ref
<1>3. /\ Foreigners(Line(commits, agent))' = Foreigners(Line(commits, agent))
      /\ From' = From
  BY <1>1 DEF Foreigners, From, Touches, At
<1>4. ~Rewound => IsAncestor(commits, From, trackMain)
  <2>1. IsAncestor(commits, From, main)
    BY <1>1 DEF Consumed
  <2>2. QED  BY <1>2, <2>1, AncestorTransitive DEF Rewound
<1>5. phase' # "replay"
  BY <1>1
<1>6. phase' \notin {"rebase", "replay"} => IsAncestor(commits, From, main)'
  BY <1>1, <1>3, <1>4
<1>7. QED  BY <1>1, <1>3, <1>5, <1>6 DEF Consumed

LEMMA ConsumedStep ==
    ASSUME TypeInv, TypeInv', ChainOK(commits), Consumed, [Next]_vars,
           ~Spend("fault"), ~strayed'
    PROVE  Consumed'
<1>1. TypeOK /\ commits' \in Seq(Commit) /\ Extends(commits, commits')
  BY ChainStep DEF TypeInv
<1>2. CASE Write
  BY <1>2, WriteConsumed
<1>3. CASE MergeNoop \/ MergeFastForward \/ MergeDiverged
  BY <1>3, MergeConsumed
<1>4. CASE Rebase
  <2>1. PICK stop \in WalkStops(commits, agent, main, base) :
            RebaseNothing(stop) \/ ReplayStart(stop)
    BY <1>4 DEF Rebase
  <2>2. UNCHANGED <<commits, main, own>>
    BY <1>4 DEF Rebase
  <2>3. QED  BY <2>1, <2>2, NothingConsumed, StartConsumed
<1>5. CASE ReplayStep
  BY <1>5, ReplayStepConsumed
<1>6. CASE ReplayFinish
  BY <1>6, FinishConsumed
<1>7. CASE ReconcileMain
  BY <1>7, ReconcileConsumed
<1>8. CASE Fetch \/ FetchFails \/ MergeRefused \/ PushNoop \/ Push
  <2>1. /\ UNCHANGED <<agent, main, base, own, todo, current>>
        /\ phase \notin {"rebase", "replay"} /\ phase' \notin {"rebase", "replay"}
    BY <1>8 DEF Fetch, FetchFails, MergeRefused, PushNoop, Push, refs, replay, ghosts
  <2>2. QED  BY <1>1, <2>1, ConsumedStays
<1>9. CASE Origin
  <2>1. UNCHANGED <<agent, main, base, own, todo, current, phase>>
    BY <1>9 DEF Origin, OriginEdit, OriginMerge, OriginRewind, OriginReplace,
                MoveMain, refs, replay
  <2>2. QED  BY <1>1, <2>1, ConsumedStays
<1>10. CASE UNCHANGED vars
  <2>1. UNCHANGED <<agent, main, base, own, todo, current, phase>>
    BY <1>10 DEF vars, refs, replay, ghosts
  <2>2. QED  BY <1>1, <2>1, ConsumedStays
<1>11. CASE PushFails \/ ReplayFails \/ Interrupt \/ Reinstall
  BY <1>11 DEF PushFails, ReplayFails, Interrupt, Reinstall
<1>12. QED
  BY <1>2, <1>3, <1>4, <1>5, <1>6, <1>7, <1>8, <1>9, <1>10, <1>11 DEF Next, Tick

LEMMA ScrubStep == ASSUME TypeInv, ScrubInv, [Next]_vars PROVE ScrubInv'
<1>1. TypeInv' /\ TypeOK
  BY TypeStep DEF TypeInv
<1>2. ChainOK(commits)'
  BY ChainStep DEF ScrubInv
<1>3. /\ budget'["fault"] <= Budget["fault"]
      /\ NoFaultYet' => NoFaultYet /\ ~Spend("fault")
  BY <1>1, FaultFree DEF ScrubInv
<1>4. ASSUME NoFaultYet', ~strayed' PROVE Consumed'
  <2>1. ~strayed
    BY <1>4, StraysOnce
  <2>2. QED  BY <1>1, <1>3, <1>4, <2>1, ConsumedStep DEF ScrubInv
<1>5. QED  BY <1>2, <1>3, <1>4 DEF ScrubInv

(* Where nothing failed and nothing strayed, a path the agent never wrote is one
   its own commits beyond the watermark left alone.                         *)
LEMMA NeverWritten ==
    ASSUME TypeInv, ScrubInv, NEW p \in Paths, own[p] = NoWrite,
           base \in Line(commits, agent), NoFaultYet, ~strayed
    PROVE  Unchanged(p)
<1>1. /\ commits \in Seq(Commit) /\ GraphOK(commits) /\ ChainOK(commits)
      /\ agent \in 0 .. Len(commits)
  BY RefFacts DEF TypeInv, TypeOK, Ref, ScrubInv
<1>2. From = base
  <2>1. base # NoCommit
    BY <1>1, LineInRange DEF Commits, NoCommit
  <2>2. QED  BY <2>1 DEF From
<1>3. SUFFICES ASSUME NEW c \in Line(commits, agent), c \notin Line(commits, base),
                      commits[c].second = NoCommit, Touches(c, p)
               PROVE  FALSE
  BY DEF Unchanged
<1>4. c \in Foreigners(Line(commits, agent))
  BY <1>3 DEF Foreigners
<1>5. c \in Ancestors(commits, base)
  BY <1>2, <1>4 DEF ScrubInv, Consumed
<1>6. QED  BY <1>1, <1>3, <1>5, ChainBelow

(* A replay leaves on a path what the new main has, where the agent changed
   nothing since its watermark but by merges, and where it never wrote.     *)
Scrubbed ==
    phase = "replay" /\ agent' # agent
      => \A p \in Paths :
            \/ Unchanged(p)
            \/ /\ own[p] = NoWrite /\ base \in Line(commits, agent)
               /\ NoFaultYet /\ ~strayed
            => At(agent)'[p] = At(main)[p]

THEOREM ScrubsCorrect == Spec => ReplayScrubs
<1> DEFINE Inv == TypeInv /\ CarryInv /\ ScrubInv
<1>1. Init => Inv
  BY InitTypes, InitScrub DEF CarryInv, Init
<1>2. Inv /\ [Next]_vars => Inv'
  BY TypeStep, CarryStep, ScrubStep
<1>3. Inv /\ [Next]_vars => [Scrubbed]_vars
  BY FinishFollows, NeverWritten DEF Scrubbed
<1>4. ReplayScrubs <=> [][Scrubbed]_vars
  BY PTL DEF ReplayScrubs, Scrubbed
<1> HIDE DEF Inv
<1>5. QED  BY <1>1, <1>2, <1>3, <1>4, PTL DEF Spec
=============================================================================
