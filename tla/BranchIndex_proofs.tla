------------------------- MODULE BranchIndex_proofs -------------------------
(***************************************************************************)
(* BranchIndex for any branches, paths, contents and models: what is in    *)
(* its tables, that no branch points at a row that was deleted, that a     *)
(* watermark at HEAD means what it says, and that a half-done rebuild is   *)
(* found again.                                                            *)
(***************************************************************************)
EXTENDS BranchIndex, SequenceTheorems, TLAPS

USE DEF ghosts

LEMMA AgentIsABranch == Agent \in Branches
BY OrderAssumption DEF Branches, Agent

LEMMA OpTypes ==
    /\ Idle \in Op
    /\ \A o \in Op : /\ \A s \in {"idle"} \cup SyncSteps \cup Rebuilding :
                          [o EXCEPT !.step = s] \in Op /\ [o EXCEPT !.step = s].step = s
                     /\ \A q \in SUBSET Paths : [o EXCEPT !.paths = q] \in Op
                     /\ \A w \in SUBSET Versions : [o EXCEPT !.versions = w] \in Op
BY DEF Idle, Op, NoRow

LEMMA TreeTypes ==
    ASSUME HeadTypes, NEW b \in Branches
    PROVE  HeadOf(b) \in Nat \ {0} /\ TreeOf(b) \in Trees
BY DEF HeadTypes, HeadOf, TreeOf

LEMMA ChangedTypes ==
    ASSUME NEW b, NEW l, NEW t PROVE Changed(b, l, t) \in SUBSET Paths
BY DEF Changed

LEMMA SyncOfTypes ==
    ASSUME HeadTypes, NEW b \in Branches, NEW t, NEW head,
           NEW who \in {"write", "observer", "heal"}
    PROVE  /\ SyncOf(b, t, head, who) \in Op
           /\ last[b] = head => SyncOf(b, t, head, who) = Idle
           /\ last[b] # head =>
                /\ SyncOf(b, t, head, who).step = "sync"
                /\ SyncOf(b, t, head, who).from = last[b]
                /\ SyncOf(b, t, head, who).paths = Changed(b, last[b], t)
<1>1. Changed(b, last[b], t) \in SUBSET Paths /\ last[b] \in Int
  BY ChangedTypes DEF HeadTypes
<1> DEFINE o == [step |-> "sync", by |-> who, from |-> last[b], paths |-> Changed(b, last[b], t),
                 versions |-> {}]
<1>2. o \in Op
  BY <1>1 DEF Op, SyncSteps
<1>3. SyncOf(b, t, head, who) = IF last[b] = head THEN Idle ELSE o
  BY DEF SyncOf
<1>4. QED  BY <1>2, <1>3, OpTypes

(* The tables a sync and a rebuild write.                                  *)
LEMMA VersionTypes ==
    ASSUME IndexTypes, NEW b \in Branches, NEW p \in Paths, NEW v \in Blobs \cup {Absent}
    PROVE  /\ [links EXCEPT ![b][p] = v] \in [Branches -> Trees]
           /\ v # Absent => <<p, v>> \in Versions
BY DEF IndexTypes, Trees, Versions

LEMMA HealPlanTypes ==
    ASSUME NEW m PROVE HealPlan(m) \in Seq([branch : Branches, stale : BOOLEAN])
<1>1. Len(Order) \in Nat /\ DOMAIN Order = 1 .. Len(Order)
  BY OrderAssumption
<1>2. \A i \in DOMAIN Order : Order[i] \in Branches /\ NeedsRebuild(Order[i], m) \in BOOLEAN
  BY DEF Branches, NeedsRebuild
<1>3. HealPlan(m) \in [1 .. Len(Order) -> [branch : Branches, stale : BOOLEAN]]
  BY <1>1, <1>2 DEF HealPlan
<1>4. QED  BY <1>1, <1>3, SeqDef

LEMMA SpendTypes ==
    ASSUME WorkTypes, NEW e \in Events, Spend(e) PROVE budget' \in [Events -> Nat]
BY DEF WorkTypes, Spend

LEMMA InitTypes == Init => TypeOK
<1> SUFFICES ASSUME Init PROVE TypeOK
  OBVIOUS
<1>1. PICK t \in Trees : heads = [b \in Branches |-> <<t>>]
  BY DEF Init
<1>2. heads \in [Branches -> Seq(Trees)] /\ \A b \in Branches : heads[b] # <<>> /\ HeadOf(b) = 1 /\ TreeOf(b) = t
  BY <1>1 DEF HeadOf, TreeOf
<1>3. HeadTypes
  BY <1>2 DEF Init, InitFresh, InitIndexed, HeadTypes, NoRow
<1>4. IndexTypes
  <2>1. CASE InitFresh
    BY <2>1, AbsentAssumption DEF InitFresh, IndexTypes, Trees, Versions
  <2>2. CASE InitIndexed
    <3>1. links \in [Branches -> Trees]
      BY <2>2, <1>2 DEF InitIndexed
    <3>2. facts \subseteq Versions /\ live \subseteq Versions
      BY <2>2 DEF InitIndexed
    <3>3. vector \in [Versions -> Models \cup {NoModel}]
      BY <2>2 DEF InitIndexed
    <3>4. QED  BY <2>2, <3>1, <3>2, <3>3 DEF InitIndexed, IndexTypes
  <2>3. QED  BY <2>1, <2>2 DEF Init
<1>5. WorkTypes
  <2>1. HealPlan(embedder) \in Seq([branch : Branches, stale : BOOLEAN])
    BY HealPlanTypes
  <2>2. op \in [Branches -> Op]
    BY OpTypes DEF Init
  <2>3. QED  BY <2>1, <2>2, BudgetAssumption DEF Init, WorkTypes
<1>6. QED  BY <1>3, <1>4, <1>5 DEF TypeOK

(* Taking and releasing a branch's lock.                                   *)
LEMMA TakeTypes ==
    ASSUME WorkTypes, NEW b \in Branches, NEW o \in Op, Take(b, o)
    PROVE  op' \in [Branches -> Op] /\ mingled' \in BOOLEAN
BY DEF WorkTypes, Take

LEMMA GoTypes ==
    ASSUME WorkTypes, NEW b \in Branches, NEW s \in {"idle"} \cup SyncSteps \cup Rebuilding, Go(b, s)
    PROVE  op' \in [Branches -> Op]
BY OpTypes DEF WorkTypes, Go

-----------------------------------------------------------------------------
(* What each action leaves in the tables.                                  *)

LEMMA CommitTypes ==
    ASSUME TypeOK, NEW b \in Branches, Commit(b) PROVE TypeOK'
<1>1. PICK p \in Paths, v \in Blobs \cup {Absent} :
        LET t == [TreeOf(b) EXCEPT ![p] = v]
        IN  /\ heads' = [heads EXCEPT ![b] = Append(@, t)]
            /\ Take(b, SyncOf(b, t, HeadOf(b) + 1, "write"))
  BY DEF Commit
<1> DEFINE t == [TreeOf(b) EXCEPT ![p] = v]
<1>2. t \in Trees
  BY TreeTypes DEF TypeOK, Trees
<1>3. /\ heads'[b] = Append(heads[b], t) /\ heads[b] \in Seq(Trees)
      /\ \A c \in Branches \ {b} : heads'[c] = heads[c]
      /\ heads' \in [Branches -> Seq(Trees)]
  BY <1>1, <1>2 DEF TypeOK, HeadTypes
<1>4. HeadTypes'
  <2> SUFFICES ASSUME NEW c \in Branches PROVE heads'[c] # <<>> /\ last[c] \in NoRow .. Len(heads'[c])
    BY <1>3 DEF Commit, meta, TypeOK, HeadTypes, HeadOf
  <2>1. CASE c = b
    <3>1. Len(heads'[b]) = Len(heads[b]) + 1 /\ Len(heads[b]) \in Nat
      BY <1>2, <1>3
    <3>2. last[b] \in NoRow .. Len(heads[b])
      BY DEF TypeOK, HeadTypes, HeadOf
    <3>3. heads'[b] # <<>>
      BY <3>1
    <3>4. QED  BY <2>1, <3>1, <3>2, <3>3 DEF NoRow
  <2>2. QED  BY <2>1, <1>3 DEF TypeOK, HeadTypes, HeadOf
<1>5. op' \in [Branches -> Op] /\ mingled' \in BOOLEAN
  <2>1. SyncOf(b, t, HeadOf(b) + 1, "write") \in Op
    BY SyncOfTypes DEF TypeOK
  <2>2. QED  BY <1>1, <2>1, TakeTypes DEF TypeOK
<1>6. IndexTypes'
  BY DEF Commit, store, meta, TypeOK, IndexTypes
<1>7. WorkTypes'
  <2>1. budget' \in [Events -> Nat]
    BY SpendTypes DEF Commit, TypeOK, Events
  <2>2. QED  BY <1>5, <2>1 DEF Commit, TypeOK, WorkTypes
<1>8. QED  BY <1>4, <1>6, <1>7 DEF TypeOK

LEMMA IndexFileTypes ==
    ASSUME TypeOK, NEW b \in Branches, IndexFile(b) PROVE TypeOK'
<1>1. PICK p \in op[b].paths :
         LET f == <<p, TreeOf(b)[p]>>
         IN  /\ TreeOf(b)[p] # Absent
             /\ links' = [links EXCEPT ![b][p] = TreeOf(b)[p]]
             /\ \/ UNCHANGED <<facts, vector, live>>
                \/ /\ facts' = facts \cup {f}
                   /\ vector' = [vector EXCEPT ![f] = embedder]
                   /\ live' = live \cup {f}
             /\ op' = [op EXCEPT ![b].paths = @ \ {p}]
  BY DEF IndexFile
<1>2. op[b] \in Op /\ op[b].paths \in SUBSET Paths
  BY DEF TypeOK, WorkTypes, Op
<1>3. p \in Paths /\ TreeOf(b)[p] \in Blobs \cup {Absent}
  BY <1>1, <1>2, TreeTypes DEF TypeOK, Trees
<1>4. links' \in [Branches -> Trees] /\ <<p, TreeOf(b)[p]>> \in Versions
  BY <1>1, <1>3, VersionTypes DEF TypeOK
<1>5. IndexTypes'
  <2>1. facts' \subseteq Versions /\ live' \subseteq Versions
    BY <1>1, <1>4 DEF TypeOK, IndexTypes
  <2>2. vector' \in [Versions -> Models \cup {NoModel}]
    BY <1>1, <1>4 DEF TypeOK, IndexTypes, WorkTypes
  <2>3. QED  BY <1>4, <2>1, <2>2 DEF IndexFile, meta, TypeOK, IndexTypes
<1>6. [op[b] EXCEPT !.paths = @ \ {p}] \in Op
  BY <1>2, OpTypes
<1>7. op' \in [Branches -> Op]
  BY <1>1, <1>6 DEF TypeOK, WorkTypes
<1>8. WorkTypes'
  BY <1>7 DEF IndexFile, TypeOK, WorkTypes
<1>9. HeadTypes'
  BY DEF IndexFile, meta, TypeOK, HeadTypes, HeadOf
<1>10. QED  BY <1>5, <1>8, <1>9 DEF TypeOK

LEMMA DeleteTypes ==
    ASSUME TypeOK, NEW b \in Branches, Delete(b) PROVE TypeOK'
<1>1. PICK p \in op[b].paths :
         LET f      == <<p, links[b][p]>>
             orphan == Orphaned(b, f)
         IN  /\ links' = [links EXCEPT ![b][p] = Absent]
             /\ facts' = IF orphan THEN facts \ {f} ELSE facts
             /\ vector' = IF orphan THEN [vector EXCEPT ![f] = NoModel] ELSE vector
             /\ op' = [op EXCEPT ![b].paths = @ \ {p},
                                 ![b].step = IF orphan THEN "retract" ELSE "sync",
                                 ![b].versions = IF orphan THEN {f} ELSE {}]
  BY DEF Delete
<1> DEFINE f == <<p, links[b][p]>>
<1> DEFINE orphan == Orphaned(b, f)
<1>2. op[b] \in Op /\ op[b].paths \in SUBSET Paths
  BY DEF TypeOK, WorkTypes, Op
<1>3. p \in Paths /\ links[b][p] \in Blobs \cup {Absent}
  BY <1>1, <1>2 DEF TypeOK, IndexTypes, Trees
<1>4. orphan => f \in Versions
  BY <1>3 DEF Orphaned, Versions
<1>5. links' \in [Branches -> Trees]
  BY <1>1, <1>3, VersionTypes DEF TypeOK
<1>6. IndexTypes'
  BY <1>1, <1>5 DEF Delete, meta, TypeOK, IndexTypes
<1>7. op'[b] \in Op /\ \A c \in Branches \ {b} : op'[c] = op[c]
  <2> DEFINE o == [op[b] EXCEPT !.paths = @ \ {p}, !.step = IF orphan THEN "retract" ELSE "sync",
                                !.versions = IF orphan THEN {f} ELSE {}]
  <2>1. op' = [op EXCEPT ![b] = o]
    BY <1>1
  <2>2. o \in Op
    BY <1>2, <1>4 DEF Op, SyncSteps
  <2>3. QED  BY <2>1, <2>2 DEF TypeOK, WorkTypes
<1>8. op' \in [Branches -> Op]
  BY <1>1, <1>7 DEF TypeOK, WorkTypes
<1>9. WorkTypes'
  BY <1>8 DEF Delete, TypeOK, WorkTypes
<1>10. HeadTypes'
  BY DEF Delete, meta, TypeOK, HeadTypes, HeadOf
<1>11. QED  BY <1>6, <1>9, <1>10 DEF TypeOK

(* A sync releases the lock with the watermark the compare-and-swap left.  *)
LEMMA CasTypes ==
    ASSUME TypeOK, NEW b \in Branches
    PROVE  /\ CasLastCommit(b) \in [Branches -> Int]
           /\ CasLastCommit(b)[b] \in {last[b], HeadOf(b)}
           /\ CasLastCommit(b)[b] # last[b] => last[b] = NoRow \/ last[b] = op[b].from
           /\ \A c \in Branches \ {b} : CasLastCommit(b)[c] = last[c]
BY TreeTypes DEF CasLastCommit, TypeOK, HeadTypes, Cleared

LEMMA SyncFinishTypes ==
    ASSUME TypeOK, NEW b \in Branches, SyncFinish(b) PROVE TypeOK'
<1>1. HeadTypes'
  BY CasTypes, TreeTypes DEF SyncFinish, TypeOK, HeadTypes, HeadOf, NoRow
<1>2. WorkTypes'
  BY TakeTypes, OpTypes DEF SyncFinish, TypeOK, WorkTypes
<1>3. IndexTypes'
  BY DEF SyncFinish, store, TypeOK, IndexTypes
<1>4. QED  BY <1>1, <1>2, <1>3 DEF TypeOK

LEMMA StepWithVersionsTypes ==
    ASSUME WorkTypes, NEW b \in Branches, NEW w \in SUBSET Versions,
           NEW s \in {"sync"} \cup Rebuilding,
           op' = [op EXCEPT ![b].step = s, ![b].versions = w]
    PROVE  op' \in [Branches -> Op]
<1>1. s \in {"idle"} \cup SyncSteps \cup Rebuilding
  BY DEF SyncSteps
<1>2. op[b] \in Op
  BY DEF WorkTypes
<1>3. [op[b] EXCEPT !.step = s] \in Op
  BY <1>1, <1>2, OpTypes
<1>4. [[op[b] EXCEPT !.step = s] EXCEPT !.versions = w] \in Op
  BY <1>3, OpTypes
<1>5. op' = [op EXCEPT ![b] = [[op[b] EXCEPT !.step = s] EXCEPT !.versions = w]]
  OBVIOUS
<1>6. QED  BY <1>4, <1>5 DEF WorkTypes

LEMMA RetractTypes ==
    ASSUME TypeOK, NEW b \in Branches, Retract(b) PROVE TypeOK'
<1>1. op' \in [Branches -> Op]
  BY StepWithVersionsTypes DEF Retract, TypeOK
<1>2. WorkTypes'
  BY <1>1 DEF Retract, TypeOK, WorkTypes
<1>3. IndexTypes'
  BY DEF Retract, meta, TypeOK, IndexTypes
<1>4. HeadTypes'
  BY DEF Retract, meta, TypeOK, HeadTypes, HeadOf
<1>5. QED  BY <1>2, <1>3, <1>4 DEF TypeOK

LEMMA SyncStartTypes ==
    ASSUME TypeOK, NEW b \in Branches, NEW who \in {"observer", "heal"},
           Take(b, SyncOf(b, TreeOf(b), HeadOf(b), who))
    PROVE  op' \in [Branches -> Op] /\ mingled' \in BOOLEAN
<1>1. SyncOf(b, TreeOf(b), HeadOf(b), who) \in Op
  BY SyncOfTypes DEF TypeOK
<1>2. QED  BY <1>1, TakeTypes DEF TypeOK

LEMMA ObserverSyncTypes ==
    ASSUME TypeOK, ObserverSync PROVE TypeOK'
<1>1. op' \in [Branches -> Op] /\ mingled' \in BOOLEAN
  BY SyncStartTypes, AgentIsABranch DEF ObserverSync
<1>2. WorkTypes'
  BY <1>1 DEF ObserverSync, TypeOK, WorkTypes
<1>3. IndexTypes' /\ HeadTypes'
  BY DEF ObserverSync, store, meta, TypeOK, IndexTypes, HeadTypes, HeadOf
<1>4. QED  BY <1>2, <1>3 DEF TypeOK

LEMMA RebuildBeginTypes ==
    ASSUME TypeOK, NEW b \in Branches, NEW who \in {"heal", "job"}, RebuildBegin(b, who),
           budget' \in [Events -> Nat], heal' \in Seq([branch : Branches, stale : BOOLEAN])
    PROVE  TypeOK'
<1>1. [Idle EXCEPT !.step = "table", !.by = who] \in Op
  <2>1. [Idle EXCEPT !.step = "table"] \in Op
    BY OpTypes DEF Rebuilding
  <2>2. \A o \in Op : [o EXCEPT !.by = who] \in Op
    BY DEF Op
  <2>3. QED  BY <2>1, <2>2
<1>2. op' \in [Branches -> Op] /\ mingled' \in BOOLEAN
  BY <1>1, TakeTypes DEF RebuildBegin, TypeOK
<1>3. WorkTypes'
  BY <1>2 DEF RebuildBegin, TypeOK, WorkTypes
<1>4. IndexTypes'
  BY DEF RebuildBegin, store, TypeOK, IndexTypes
<1>5. HeadTypes'
  BY TreeTypes DEF RebuildBegin, TypeOK, HeadTypes, HeadOf, Cleared, NoRow
<1>6. QED  BY <1>3, <1>4, <1>5 DEF TypeOK

(* The steps of a rebuild that only move on.                               *)
LEMMA EnsureFactsVecTypes ==
    ASSUME TypeOK, NEW b \in Branches, EnsureFactsVec(b) PROVE TypeOK'
<1>1. WorkTypes'
  BY GoTypes DEF EnsureFactsVec, TypeOK, WorkTypes, Rebuilding
<1>2. IndexTypes'
  BY DEF EnsureFactsVec, meta, TypeOK, IndexTypes, WorkTypes
<1>3. HeadTypes'
  BY DEF EnsureFactsVec, meta, TypeOK, HeadTypes, HeadOf
<1>4. QED  BY <1>1, <1>2, <1>3 DEF TypeOK

LEMMA RebuildFactsTypes ==
    ASSUME TypeOK, NEW b \in Branches, RebuildFacts(b) PROVE TypeOK'
<1>1. WorkTypes'
  BY GoTypes DEF RebuildFacts, TypeOK, WorkTypes, Rebuilding
<1>2. IndexTypes'
  BY TreeTypes DEF RebuildFacts, meta, TypeOK, IndexTypes
<1>3. HeadTypes'
  BY DEF RebuildFacts, meta, TypeOK, HeadTypes, HeadOf
<1>4. QED  BY <1>1, <1>2, <1>3 DEF TypeOK

LEMMA CollectUnembeddedTypes ==
    ASSUME TypeOK, NEW b \in Branches, CollectUnembedded(b) PROVE TypeOK'
<1>1. Unembedded \in SUBSET Versions
  BY DEF Unembedded, TypeOK, IndexTypes
<1>2. op' \in [Branches -> Op]
  BY <1>1, StepWithVersionsTypes DEF CollectUnembedded, TypeOK, Rebuilding
<1>3. QED
  BY <1>2 DEF CollectUnembedded, store, meta, TypeOK, HeadTypes, IndexTypes, WorkTypes, HeadOf

LEMMA EmbedTypes ==
    ASSUME TypeOK, NEW b \in Branches, Embed(b) PROVE TypeOK'
<1>1. PICK f \in op[b].versions :
         /\ vector' \in {vector, [vector EXCEPT ![f] = embedder]}
         /\ op' = [op EXCEPT ![b].versions = @ \ {f}]
  BY DEF Embed
<1>2. op[b] \in Op /\ op[b].versions \in SUBSET Versions
  BY DEF TypeOK, WorkTypes, Op
<1>3. [op[b] EXCEPT !.versions = @ \ {f}] \in Op
  BY <1>2, OpTypes
<1>4. op' \in [Branches -> Op]
  BY <1>1, <1>3 DEF TypeOK, WorkTypes
<1>5. WorkTypes'
  BY <1>4 DEF Embed, TypeOK, WorkTypes
<1>6. IndexTypes'
  BY <1>1, <1>2 DEF Embed, meta, TypeOK, IndexTypes, WorkTypes
<1>7. HeadTypes'
  BY DEF Embed, meta, TypeOK, HeadTypes, HeadOf
<1>8. QED  BY <1>5, <1>6, <1>7 DEF TypeOK

LEMMA EmbedFinishTypes ==
    ASSUME TypeOK, NEW b \in Branches, EmbedFinish(b) PROVE TypeOK'
<1>1. op' \in [Branches -> Op]
  BY GoTypes DEF EmbedFinish, TypeOK, Rebuilding
<1>2. QED
  BY <1>1 DEF EmbedFinish, store, meta, TypeOK, HeadTypes, IndexTypes, WorkTypes, HeadOf

LEMMA ReadFactsTypes ==
    ASSUME TypeOK, NEW b \in Branches, ReadFacts(b) PROVE TypeOK'
<1>1. op' \in [Branches -> Op]
  BY StepWithVersionsTypes DEF ReadFacts, TypeOK, IndexTypes, Rebuilding
<1>2. QED
  BY <1>1 DEF ReadFacts, store, meta, TypeOK, HeadTypes, IndexTypes, WorkTypes, HeadOf

LEMMA WriteGraphTypes ==
    ASSUME TypeOK, NEW b \in Branches, WriteGraph(b) PROVE TypeOK'
<1>1. op' \in [Branches -> Op]
  BY StepWithVersionsTypes DEF WriteGraph, TypeOK, Rebuilding
<1>2. op[b].versions \in SUBSET Versions
  BY DEF TypeOK, WorkTypes, Op
<1>3. live' \subseteq live \cup op[b].versions
  BY DEF WriteGraph
<1>4. IndexTypes'
  BY <1>2, <1>3 DEF WriteGraph, meta, TypeOK, IndexTypes
<1>5. QED
  BY <1>1, <1>4 DEF WriteGraph, meta, TypeOK, HeadTypes, WorkTypes, HeadOf

LEMMA MarkTypes ==
    ASSUME TypeOK, NEW b \in Branches, BumpVersion(b) \/ PersistIdentity(b) PROVE TypeOK'
<1>1. op' \in [Branches -> Op]
  BY GoTypes DEF BumpVersion, PersistIdentity, TypeOK, Rebuilding
<1>2. WorkTypes'
  BY <1>1 DEF BumpVersion, PersistIdentity, TypeOK, WorkTypes
<1>3. IndexTypes' /\ HeadTypes'
  BY DEF BumpVersion, PersistIdentity, store, TypeOK, HeadTypes, IndexTypes, WorkTypes, HeadOf
<1>4. QED  BY <1>2, <1>3 DEF TypeOK

LEMMA SetLastCommitTypes ==
    ASSUME TypeOK, NEW b \in Branches, SetLastCommit(b) PROVE TypeOK'
<1>1. WorkTypes'
  BY TakeTypes, OpTypes DEF SetLastCommit, TypeOK, WorkTypes
<1>2. IndexTypes'
  BY DEF SetLastCommit, store, TypeOK, IndexTypes
<1>3. HeadTypes'
  BY TreeTypes DEF SetLastCommit, TypeOK, HeadTypes, HeadOf, NoRow
<1>4. QED  BY <1>1, <1>2, <1>3 DEF TypeOK

LEMMA FailTypes ==
    ASSUME TypeOK, NEW b \in Branches, Fail(b) PROVE TypeOK'
<1>1. op' \in [Branches -> Op] /\ mingled' \in BOOLEAN
  <2>1. CASE At(b, "retract")
    BY <2>1, StepWithVersionsTypes DEF Fail, Stops, TypeOK, WorkTypes
  <2>2. CASE ~At(b, "retract")
    BY <2>2, TakeTypes, OpTypes DEF Fail, Stops, TypeOK
  <2>3. QED  BY <2>1, <2>2
<1>2. budget' \in [Events -> Nat]
  BY SpendTypes DEF Fail, TypeOK, WorkTypes, Events
<1>3. torn' \in [Branches -> BOOLEAN]
  BY DEF Fail, Stops, TypeOK, WorkTypes
<1>4. WorkTypes'
  BY <1>1, <1>2, <1>3 DEF Fail, TypeOK, WorkTypes
<1>5. IndexTypes'
  BY DEF Fail, Stops, ClearSchemaVersion, store, TypeOK, IndexTypes
<1>6. HeadTypes'
  BY DEF Fail, TypeOK, HeadTypes, HeadOf
<1>7. QED  BY <1>4, <1>5, <1>6 DEF TypeOK

LEMMA RestartTypes ==
    ASSUME TypeOK, NEW e \in {"restart", "crash"}, Restart(e) PROVE TypeOK'
<1>1. PICK m \in Models :
         /\ m # embedder => budget["switch"] > 0
         /\ embedder' = m
         /\ heal' = HealPlan(m)
         /\ budget' = [budget EXCEPT ![e] = @ - 1,
                                     !["switch"] = IF m = embedder THEN @ ELSE @ - 1]
  BY DEF Restart
<1>2. budget' \in [Events -> Nat]
  BY <1>1 DEF Restart, TypeOK, WorkTypes, Events
<1>3. WorkTypes'
  BY <1>1, <1>2, HealPlanTypes, OpTypes DEF Restart, TypeOK, WorkTypes
<1>4. IndexTypes' /\ HeadTypes'
  BY DEF Restart, store, meta, TypeOK, IndexTypes, HeadTypes, HeadOf
<1>5. QED  BY <1>3, <1>4 DEF TypeOK

LEMMA HealBranch ==
    ASSUME TypeOK, HealNext
    PROVE  /\ heal[1].branch \in Branches
           /\ Tail(heal) \in Seq([branch : Branches, stale : BOOLEAN])
<1> DEFINE Turn == [branch : Branches, stale : BOOLEAN]
<1>1. heal \in Seq(Turn) /\ heal # <<>>
  BY DEF HealNext, TypeOK, WorkTypes
<1>2. heal[1] \in Turn /\ Tail(heal) \in Seq(Turn)
  <2> HIDE DEF Turn
  <2>1. QED  BY <1>1
<1>3. QED  BY <1>2

LEMMA HealNextTypes ==
    ASSUME TypeOK, HealNext PROVE TypeOK'
<1> DEFINE b == heal[1].branch
<1>1. b \in Branches /\ Tail(heal) \in Seq([branch : Branches, stale : BOOLEAN])
  BY HealBranch
<1>2. heal' \in Seq([branch : Branches, stale : BOOLEAN])
  BY <1>1 DEF HealNext
<1>3. CASE RebuildBegin(b, "heal") /\ UNCHANGED budget
  BY <1>1, <1>2, <1>3, RebuildBeginTypes DEF TypeOK, WorkTypes
<1>4. CASE /\ Take(b, SyncOf(b, TreeOf(b), HeadOf(b), "heal"))
           /\ UNCHANGED <<heads, store, meta, embedder, pending, budget, torn, killed, undone>>
  <2>1. op' \in [Branches -> Op] /\ mingled' \in BOOLEAN
    BY <1>1, <1>4, SyncStartTypes
  <2>2. QED
    BY <1>2, <1>4, <2>1 DEF store, meta, TypeOK, IndexTypes, HeadTypes, WorkTypes, HeadOf
<1>5. QED  BY <1>3, <1>4 DEF HealNext

LEMMA NextTypes ==
    ASSUME TypeOK, [Next]_vars PROVE TypeOK'
<1>1. ASSUME NEW b \in Branches, Step(b) PROVE TypeOK'
  BY <1>1, IndexFileTypes, DeleteTypes, RetractTypes, SyncFinishTypes, EnsureFactsVecTypes,
     RebuildFactsTypes, CollectUnembeddedTypes, EmbedTypes, EmbedFinishTypes, ReadFactsTypes,
     WriteGraphTypes, MarkTypes, SetLastCommitTypes DEF Step
<1>2. ASSUME NEW b \in Branches, RebuildJob(b) PROVE TypeOK'
  <2>1. budget' \in [Events -> Nat] /\ heal' = heal /\ RebuildBegin(b, "job")
    BY <1>2, SpendTypes DEF RebuildJob, TypeOK, Events
  <2>2. QED  BY <2>1, RebuildBeginTypes DEF TypeOK, WorkTypes
<1>3. ASSUME CleanRestart \/ Crash PROVE TypeOK'
  BY <1>3, RestartTypes DEF CleanRestart, Crash
<1>4. CASE UNCHANGED vars
  BY <1>4 DEF vars, store, meta, TypeOK, HeadTypes, IndexTypes, WorkTypes, HeadOf
<1>5. QED
  BY <1>1, <1>2, <1>3, <1>4, CommitTypes, FailTypes, ObserverSyncTypes, HealNextTypes DEF Next

(* The tables hold branches, positions, pointers, rows and operations of   *)
(* the declared kinds, and a watermark is a commit the branch has had.     *)
THEOREM TypeCorrect == Spec => []TypeOK
BY InitTypes, NextTypes, PTL DEF Spec

-----------------------------------------------------------------------------
(* The rows.  Only three transactions write pointers or rows.              *)

LEMMA RowsWriters ==
    ASSUME [Next]_vars, ~(\E b \in Branches : IndexFile(b) \/ Delete(b) \/ RebuildFacts(b))
    PROVE  UNCHANGED <<links, facts>>
<1>1. ASSUME NEW b \in Branches, Step(b) PROVE UNCHANGED <<links, facts>>
  BY <1>1 DEF Step, Retract, SyncFinish, EnsureFactsVec, CollectUnembedded, Embed, EmbedFinish,
     ReadFacts, WriteGraph, BumpVersion, PersistIdentity, SetLastCommit, store
<1>2. ASSUME NEW b \in Branches, Commit(b) \/ RebuildJob(b) \/ Fail(b)
      PROVE UNCHANGED <<links, facts>>
  BY <1>2 DEF Commit, RebuildJob, RebuildBegin, Fail, store
<1>3. ObserverSync \/ HealNext \/ CleanRestart \/ Crash => UNCHANGED <<links, facts>>
  BY DEF ObserverSync, HealNext, RebuildBegin, CleanRestart, Crash, Restart, store
<1>4. UNCHANGED vars => UNCHANGED <<links, facts>>
  BY DEF vars, store
<1>5. QED  BY <1>1, <1>2, <1>3, <1>4 DEF Next

LEMMA RowsNext ==
    ASSUME TypeOK, RowsAreKept, [Next]_vars PROVE RowsAreKept'
<1> USE DEF RowsAreKept, Referenced, Linked
<1>1. ASSUME NEW b \in Branches, IndexFile(b) PROVE RowsAreKept'
  <2>1. PICK p \in op[b].paths :
           LET f == <<p, TreeOf(b)[p]>>
           IN  /\ TreeOf(b)[p] # Absent
               /\ links' = [links EXCEPT ![b][p] = TreeOf(b)[p]]
               /\ facts \subseteq facts' /\ f \in facts'
    BY <1>1 DEF IndexFile, CowHit
  <2>2. p \in Paths
    BY DEF TypeOK, WorkTypes, Op
  <2> SUFFICES ASSUME NEW c \in Branches, NEW g \in Versions, links'[c][g[1]] = g[2]
               PROVE  g \in facts'
    OBVIOUS
  <2>3. CASE c = b /\ g[1] = p
    <3>1. links'[b][p] = TreeOf(b)[p]
      BY <2>1, <2>2 DEF TypeOK, IndexTypes, Trees
    <3>2. g = <<p, TreeOf(b)[p]>>
      BY <2>3, <3>1 DEF Versions
    <3>3. QED  BY <2>1, <3>2
  <2>4. CASE ~(c = b /\ g[1] = p)
    <3>1. links[c][g[1]] = g[2]
      BY <2>1, <2>4 DEF TypeOK, IndexTypes, Trees, Versions
    <3>2. QED  BY <2>1, <3>1
  <2>5. QED  BY <2>3, <2>4
<1>2. ASSUME NEW b \in Branches, Delete(b) PROVE RowsAreKept'
  <2>1. PICK p \in op[b].paths :
           /\ links' = [links EXCEPT ![b][p] = Absent]
           /\ facts' = IF Orphaned(b, <<p, links[b][p]>>) THEN facts \ {<<p, links[b][p]>>} ELSE facts
    BY <1>2 DEF Delete
  <2>2. p \in Paths
    BY DEF TypeOK, WorkTypes, Op
  <2> DEFINE f == <<p, links[b][p]>>
  <2> SUFFICES ASSUME NEW c \in Branches, NEW g \in Versions, links'[c][g[1]] = g[2]
               PROVE  g \in facts'
    OBVIOUS
  <2>3. ~(c = b /\ g[1] = p)
    BY <2>1, <2>2, AbsentAssumption DEF TypeOK, IndexTypes, Trees, Versions
  <2>4. links[c][g[1]] = g[2]
    BY <2>1, <2>3 DEF TypeOK, IndexTypes, Trees, Versions
  <2>5. ASSUME Orphaned(b, f) PROVE g # f
    <3>1. CASE c = b
      BY <2>3, <3>1
    <3>2. CASE c # b
      BY <2>4, <2>5, <3>2 DEF Orphaned
    <3>3. QED  BY <3>1, <3>2
  <2>6. QED  BY <2>1, <2>4, <2>5
<1>3. ASSUME NEW b \in Branches, RebuildFacts(b) PROVE RowsAreKept'
  <2> SUFFICES ASSUME NEW c \in Branches, NEW g \in Versions, links'[c][g[1]] = g[2]
               PROVE  g \in facts'
    OBVIOUS
  <2>1. CASE c = b
    BY <1>3, <2>1 DEF RebuildFacts, TypeOK, IndexTypes
  <2>2. CASE c # b
    BY <1>3, <2>2 DEF RebuildFacts, TypeOK, IndexTypes
  <2>3. QED  BY <2>1, <2>2
<1>4. QED  BY <1>1, <1>2, <1>3, RowsWriters

LEMMA RowsInit == Init => RowsAreKept
<1>1. ASSUME Init, InitFresh PROVE RowsAreKept
  BY <1>1, AbsentAssumption DEF InitFresh, RowsAreKept, Referenced, Linked, Versions
<1>2. ASSUME Init, InitIndexed PROVE RowsAreKept
  BY <1>2 DEF InitIndexed, RowsAreKept, Referenced, Linked
<1>3. QED  BY <1>1, <1>2 DEF Init

(* No branch ever points at a row that another branch's sync deleted.      *)
THEOREM RowsCorrect == Spec => []RowsAreKept
BY InitTypes, NextTypes, RowsInit, RowsNext, PTL DEF Spec

-----------------------------------------------------------------------------
(* The watermark.  What a branch's pointers are, whatever it is in the     *)
(* middle of; and where an empty watermark can be left behind.             *)

Untorn(b) ==
    /\ At(b, "idle") /\ last[b] = NoRow  => \A p \in Paths : links[b][p] = Absent
    /\ At(b, "idle") /\ last[b] > Cleared => links[b] = heads[b][last[b]]
    /\ op[b].step \in SyncSteps /\ last[b] # Cleared =>
          \A p \in Paths \ op[b].paths : links[b][p] = TreeOf(b)[p]

Marked(b) ==
    /\ ~torn[b] => Untorn(b)
    /\ op[b].step \in SyncSteps => op[b].from = last[b]
    /\ op[b].step \in Rebuilding => last[b] = Cleared
    /\ op[b].step \in Rebuilding \ {"table", "facts"} => links[b] = TreeOf(b)
    /\ last[b] = Cleared /\ ~killed[b] /\ version[b] = "current" => op[b].step \in Rebuilding

MarkInv == \A b \in Branches : Marked(b)

(* All that Marked(b) speaks of.                                           *)
Of(b) == <<heads[b], last[b], version[b], links[b], op[b], torn[b], killed[b]>>

LEMMA MarkedStays ==
    ASSUME NEW b \in Branches, Marked(b), Of(b)' = Of(b) PROVE Marked(b)'
BY DEF Marked, Untorn, Of, At, TreeOf, HeadOf

(* An action of one branch leaves the others'.                             *)
LEMMA Elsewhere ==
    ASSUME TypeOK, NEW b \in Branches, NEW c \in Branches \ {b},
           \/ Commit(b) \/ Step(b) \/ RebuildJob(b) \/ Fail(b)
           \/ ObserverSync /\ b = Agent
           \/ HealNext /\ b = heal[1].branch
    PROVE  Of(c)' = Of(c)
<1> USE DEF Of, TypeOK, HeadTypes, IndexTypes, WorkTypes
<1>1. CASE Commit(b)
  BY <1>1 DEF Commit, Take, store, meta
<1>2. CASE IndexFile(b) \/ Delete(b) \/ Retract(b)
  BY <1>2 DEF IndexFile, Delete, Retract, meta
<1>3. CASE SyncFinish(b)
  BY <1>3, CasTypes DEF SyncFinish, Take, store
<1>4. CASE EnsureFactsVec(b) \/ RebuildFacts(b) \/ CollectUnembedded(b) \/ Embed(b)
  BY <1>4 DEF EnsureFactsVec, RebuildFacts, CollectUnembedded, Embed, Go, store, meta
<1>5. CASE EmbedFinish(b) \/ ReadFacts(b) \/ WriteGraph(b)
  BY <1>5 DEF EmbedFinish, ReadFacts, WriteGraph, Go, store, meta
<1>6. CASE BumpVersion(b) \/ PersistIdentity(b) \/ SetLastCommit(b)
  BY <1>6 DEF BumpVersion, PersistIdentity, SetLastCommit, Go, Take, store
<1>7. CASE RebuildJob(b)
  BY <1>7 DEF RebuildJob, RebuildBegin, Take, store
<1>8. CASE Fail(b)
  BY <1>8 DEF Fail, Stops, ClearSchemaVersion, Take, store
<1>9. CASE ObserverSync /\ b = Agent
  BY <1>9 DEF ObserverSync, Take, store, meta
<1>10. CASE HealNext /\ b = heal[1].branch
  BY <1>10 DEF HealNext, RebuildBegin, Take, store, meta
<1>11. QED
  BY <1>1, <1>2, <1>3, <1>4, <1>5, <1>6, <1>7, <1>8, <1>9, <1>10 DEF Step

(* A sync that starts from an idle branch looks at every difference.       *)
LEMMA SyncLooksAtAll ==
    ASSUME TypeOK, NEW b \in Branches, Marked(b), Free(b), ~torn[b], NEW t \in Trees,
           last[b] # Cleared
    PROVE  \A p \in Paths \ Changed(b, last[b], t) : links[b][p] = t[p]
<1>1. CASE last[b] = NoRow
  BY <1>1 DEF Marked, Untorn, Free, Changed, NoRow, Cleared
<1>2. CASE last[b] > Cleared
  <2>1. ~(last[b] <= Cleared) /\ links[b] = heads[b][last[b]]
    BY <1>2 DEF Marked, Untorn, Free, TypeOK, HeadTypes, Cleared
  <2>2. QED  BY <2>1 DEF Changed
<1>3. QED  BY <1>1, <1>2 DEF TypeOK, HeadTypes, NoRow, Cleared

LEMMA StepNames ==
    /\ "idle" \notin SyncSteps \cup Rebuilding
    /\ SyncSteps \cap Rebuilding = {} /\ NoRow # Cleared
    /\ SyncSteps = {"sync", "retract"}
BY DEF SyncSteps, Rebuilding, NoRow, Cleared

LEMMA CommitMarked ==
    ASSUME TypeOK, NEW b \in Branches, Marked(b), Commit(b) PROVE Marked(b)'
<1>1. PICK p \in Paths, v \in Blobs \cup {Absent} :
        LET t == [TreeOf(b) EXCEPT ![p] = v]
        IN  /\ heads' = [heads EXCEPT ![b] = Append(@, t)]
            /\ Take(b, SyncOf(b, t, HeadOf(b) + 1, "write"))
  BY DEF Commit
<1> DEFINE t == [TreeOf(b) EXCEPT ![p] = v]
<1>2. t \in Trees
  BY TreeTypes DEF TypeOK, Trees
<1>3. TreeOf(b)' = t
  <2>1. heads'[b] = Append(heads[b], t) /\ heads[b] \in Seq(Trees)
    BY <1>1 DEF TypeOK, HeadTypes
  <2>2. QED  BY <2>1, <1>2 DEF TreeOf, HeadOf
<1>4. /\ op'[b].step = "sync" /\ op'[b].from = last[b]
      /\ op'[b].paths = Changed(b, last[b], t)
  <2>1. last[b] # HeadOf(b) + 1
    BY TreeTypes DEF TypeOK, HeadTypes
  <2>2. op'[b] = SyncOf(b, t, HeadOf(b) + 1, "write")
    BY <1>1 DEF Take, TypeOK, WorkTypes
  <2>3. QED  BY <2>1, <2>2, SyncOfTypes DEF TypeOK
<1>5. UNCHANGED <<last, version, links, torn, killed>> /\ Free(b)
  BY DEF Commit, store, meta
<1>6. ~torn[b] /\ last[b] # Cleared => \A q \in Paths \ op'[b].paths : links[b][q] = t[q]
  BY <1>2, <1>4, <1>5, SyncLooksAtAll
<1>7. QED
  BY <1>3, <1>4, <1>5, <1>6, StepNames DEF Marked, Untorn, At, Free

LEMMA SyncStartMarked ==
    ASSUME TypeOK, NEW b \in Branches, Marked(b), Free(b), NEW who \in {"observer", "heal"},
           Take(b, SyncOf(b, TreeOf(b), HeadOf(b), who)),
           UNCHANGED <<heads, last, version, links, torn, killed>>
    PROVE  Marked(b)'
<1>1. op'[b] = SyncOf(b, TreeOf(b), HeadOf(b), who)
  BY DEF Take, TypeOK, WorkTypes
<1>2. CASE last[b] = HeadOf(b)
  <2>1. op'[b].step = "idle"
    BY <1>1, <1>2, SyncOfTypes DEF TypeOK, Idle
  <2>2. QED
    BY <2>1, StepNames DEF Marked, Untorn, At, Free
<1>3. CASE last[b] # HeadOf(b)
  <2>1. /\ op'[b].step = "sync" /\ op'[b].from = last[b]
        /\ op'[b].paths = Changed(b, last[b], TreeOf(b))
    BY <1>1, <1>3, SyncOfTypes DEF TypeOK
  <2>2. ~torn[b] /\ last[b] # Cleared =>
          \A q \in Paths \ op'[b].paths : links[b][q] = TreeOf(b)[q]
    BY <2>1, TreeTypes, SyncLooksAtAll DEF TypeOK
  <2>3. TreeOf(b)' = TreeOf(b)
    BY DEF TreeOf, HeadOf
  <2>4. QED
    BY <2>1, <2>2, <2>3, StepNames DEF Marked, Untorn, At, Free
<1>4. QED  BY <1>2, <1>3

LEMMA RebuildBeginMarked ==
    ASSUME TypeOK, NEW b \in Branches, NEW who, RebuildBegin(b, who) PROVE Marked(b)'
<1>1. op'[b].step = "table" /\ last'[b] = Cleared
  BY DEF RebuildBegin, Take, Idle, TypeOK, WorkTypes, HeadTypes
<1>2. QED
  BY <1>1, StepNames DEF Marked, Untorn, At, Rebuilding, Cleared

LEMMA DeleteWork ==
    ASSUME TypeOK, NEW b \in Branches, Delete(b)
    PROVE  /\ op'[b].step \in {"sync", "retract"} /\ op'[b].from = op[b].from
           /\ \E p \in op[b].paths :
                /\ TreeOf(b)[p] = Absent
                /\ links' = [links EXCEPT ![b][p] = Absent]
                /\ op'[b].paths = op[b].paths \ {p}
<1>1. PICK p \in op[b].paths :
         LET f      == <<p, links[b][p]>>
             orphan == Orphaned(b, f)
         IN  /\ links' = [links EXCEPT ![b][p] = Absent]
             /\ op' = [op EXCEPT ![b].paths = @ \ {p},
                                 ![b].step = IF orphan THEN "retract" ELSE "sync",
                                 ![b].versions = IF orphan THEN {f} ELSE {}]
  BY DEF Delete
<1> DEFINE s == IF Orphaned(b, <<p, links[b][p]>>) THEN "retract" ELSE "sync"
<1> DEFINE w == IF Orphaned(b, <<p, links[b][p]>>) THEN {<<p, links[b][p]>>} ELSE {}
<1>2. op[b] \in Op /\ op \in [Branches -> Op]
  BY DEF TypeOK, WorkTypes
<1>3. op'[b] = [op[b] EXCEPT !.paths = @ \ {p}, !.step = s, !.versions = w]
  BY <1>1, <1>2
<1>4. s \in {"sync", "retract"}
  OBVIOUS
<1>5. TreeOf(b)[p] = Absent
  BY DEF Delete
<1> HIDE DEF s, w
<1>6. QED  BY <1>1, <1>2, <1>3, <1>4, <1>5 DEF Op

LEMMA SyncStepMarked ==
    ASSUME TypeOK, NEW b \in Branches, Marked(b), IndexFile(b) \/ Delete(b) \/ Retract(b)
    PROVE  Marked(b)'
<1>1. /\ UNCHANGED <<heads, last, version, torn, killed>>
      /\ op[b].step \in SyncSteps
  BY DEF IndexFile, Delete, Retract, meta, At, SyncSteps
<1>2. op'[b].step \in SyncSteps /\ op'[b].from = op[b].from
  <2>1. CASE IndexFile(b)
    BY <2>1 DEF IndexFile, TypeOK, WorkTypes, Op, At, SyncSteps
  <2>2. CASE Delete(b)
    BY <2>2, DeleteWork DEF SyncSteps
  <2>3. CASE Retract(b)
    BY <2>3 DEF Retract, TypeOK, WorkTypes, Op, At, SyncSteps
  <2>4. QED  BY <2>1, <2>2, <2>3
<1>3. ASSUME NEW q \in Paths \ op'[b].paths,
             \A r \in Paths \ op[b].paths : links[b][r] = TreeOf(b)[r]
      PROVE  links'[b][q] = TreeOf(b)[q]
  <2>1. CASE IndexFile(b)
    BY <1>3, <2>1 DEF IndexFile, TypeOK, WorkTypes, IndexTypes, Trees, Op
  <2>2. CASE Delete(b)
    <3>1. PICK p \in op[b].paths :
             /\ TreeOf(b)[p] = Absent
             /\ links' = [links EXCEPT ![b][p] = Absent]
             /\ op'[b].paths = op[b].paths \ {p}
      BY <2>2, DeleteWork
    <3>2. QED  BY <1>3, <3>1 DEF TypeOK, IndexTypes, Trees
  <2>3. CASE Retract(b)
    BY <1>3, <2>3 DEF Retract, TypeOK, WorkTypes, Op
  <2>4. QED  BY <2>1, <2>2, <2>3
<1>4. TreeOf(b)' = TreeOf(b)
  BY <1>1 DEF TreeOf, HeadOf
<1>5. QED
  BY <1>1, <1>2, <1>3, <1>4, StepNames DEF Marked, Untorn, At

LEMMA SyncFinishMarked ==
    ASSUME TypeOK, NEW b \in Branches, Marked(b), SyncFinish(b) PROVE Marked(b)'
<1>1. /\ op'[b].step = "idle" /\ last' = CasLastCommit(b)
      /\ UNCHANGED <<heads, links, version, torn, killed>>
      /\ At(b, "sync") /\ op[b].paths = {} /\ op[b].from = last[b]
  BY DEF SyncFinish, Take, Idle, store, TypeOK, WorkTypes, Marked, At, SyncSteps
<1>2. last'[b] = IF last[b] = Cleared THEN Cleared ELSE HeadOf(b)
  BY <1>1, TreeTypes DEF CasLastCommit, TypeOK, HeadTypes, NoRow, Cleared
<1>3. ~torn[b] /\ last[b] # Cleared => links[b] = TreeOf(b)
  <2>1. links[b] \in Trees /\ TreeOf(b) \in Trees
    BY TreeTypes DEF TypeOK, IndexTypes
  <2>2. ~torn[b] /\ last[b] # Cleared => \A p \in Paths : links[b][p] = TreeOf(b)[p]
    BY <1>1 DEF Marked, Untorn, At, SyncSteps
  <2>3. QED  BY <2>1, <2>2 DEF Trees
<1>4. HeadOf(b) \in Nat \ {0}
  BY TreeTypes DEF TypeOK
<1>5. ~torn'[b] => Untorn(b)'
  BY <1>1, <1>2, <1>3, <1>4, StepNames DEF Untorn, At, TreeOf, HeadOf, NoRow, Cleared
<1>6. last[b] = Cleared => ~(~killed[b] /\ version[b] = "current")
  BY <1>1, StepNames DEF Marked, At
<1>7. QED
  BY <1>1, <1>2, <1>4, <1>5, <1>6, StepNames DEF Marked, Cleared

LEMMA RebuildStepMarked ==
    ASSUME TypeOK, NEW b \in Branches, Marked(b),
           \/ EnsureFactsVec(b) \/ RebuildFacts(b) \/ CollectUnembedded(b) \/ Embed(b)
           \/ EmbedFinish(b) \/ ReadFacts(b) \/ WriteGraph(b)
           \/ BumpVersion(b) \/ PersistIdentity(b)
    PROVE  Marked(b)'
<1>1. UNCHANGED <<heads, last, torn, killed>> /\ op[b].step \in Rebuilding
  BY DEF EnsureFactsVec, RebuildFacts, CollectUnembedded, Embed, EmbedFinish, ReadFacts, WriteGraph,
     BumpVersion, PersistIdentity, meta, At, Rebuilding
<1>2. op'[b].step \in Rebuilding
  BY DEF EnsureFactsVec, RebuildFacts, CollectUnembedded, Embed, EmbedFinish, ReadFacts, WriteGraph,
     BumpVersion, PersistIdentity, Go, At, Rebuilding, TypeOK, WorkTypes, Op
<1>3. TreeOf(b)' = TreeOf(b)
  BY <1>1 DEF TreeOf, HeadOf
<1>4. op'[b].step \notin {"table", "facts"} => links'[b] = TreeOf(b)
  <2>1. CASE EnsureFactsVec(b)
    BY <2>1 DEF EnsureFactsVec, Go, TypeOK, WorkTypes, Op
  <2>2. CASE RebuildFacts(b)
    BY <2>2 DEF RebuildFacts, TypeOK, IndexTypes
  <2>3. CASE ~EnsureFactsVec(b) /\ ~RebuildFacts(b)
    <3>1. links' = links /\ op[b].step \in Rebuilding \ {"table", "facts"}
      BY <2>3 DEF CollectUnembedded, Embed, EmbedFinish, ReadFacts, WriteGraph, BumpVersion,
         PersistIdentity, store, At, Rebuilding
    <3>2. QED  BY <3>1 DEF Marked
  <2>4. QED  BY <2>1, <2>2, <2>3
<1>5. last[b] = Cleared
  BY <1>1 DEF Marked
<1>6. QED
  BY <1>1, <1>2, <1>3, <1>4, <1>5, StepNames DEF Marked, Untorn, At, Cleared

LEMMA SetLastCommitMarked ==
    ASSUME TypeOK, NEW b \in Branches, Marked(b), SetLastCommit(b) PROVE Marked(b)'
<1>1. /\ op'[b].step = "idle" /\ last'[b] = HeadOf(b)
      /\ UNCHANGED <<heads, links>> /\ links[b] = TreeOf(b)
  BY DEF SetLastCommit, Take, Idle, store, TypeOK, WorkTypes, HeadTypes, Marked, At, Rebuilding
<1>2. HeadOf(b) \in Nat \ {0}
  BY TreeTypes DEF TypeOK
<1>3. QED
  BY <1>1, <1>2, StepNames DEF Marked, Untorn, At, TreeOf, HeadOf, NoRow, Cleared

LEMMA FailMarked ==
    ASSUME TypeOK, NEW b \in Branches, Marked(b), Fail(b) PROVE Marked(b)'
<1>1. UNCHANGED <<heads, last, links, killed>> /\ ~Free(b)
  BY DEF Fail, store
<1>2. CASE At(b, "retract")
  <2>1. op'[b].step = "sync" /\ op'[b].from = op[b].from /\ torn'[b] /\ version' = version
    BY <1>2 DEF Fail, Stops, TypeOK, WorkTypes, Op
  <2>2. QED
    BY <1>1, <1>2, <2>1, StepNames DEF Marked, At, SyncSteps, Rebuilding
<1>3. CASE At(b, "sync")
  <2>1. op'[b].step = "idle" /\ torn'[b] /\ version' = version
    BY <1>3 DEF Fail, Stops, Take, Idle, ClearSchemaVersion, At, Rebuilding, TypeOK, WorkTypes
  <2>2. QED
    BY <1>1, <1>3, <2>1, StepNames DEF Marked, At, Rebuilding
<1>4. CASE op[b].step \in Rebuilding
  <2>1. op'[b].step = "idle" /\ version'[b] = "missing" /\ last[b] = Cleared
    BY <1>4 DEF Fail, Stops, Take, Idle, ClearSchemaVersion, At, Rebuilding, TypeOK, WorkTypes,
       IndexTypes, Marked
  <2>2. QED
    BY <1>1, <2>1, StepNames DEF Marked, Untorn, At, Cleared
<1>5. QED
  BY <1>1, <1>2, <1>3, <1>4 DEF TypeOK, WorkTypes, Op, Free, At, SyncSteps

LEMMA RestartMarked ==
    ASSUME TypeOK, MarkInv, NEW e, Restart(e) PROVE MarkInv'
<1> SUFFICES ASSUME NEW b \in Branches PROVE Marked(b)'
  BY DEF MarkInv
<1>1. /\ op'[b].step = "idle" /\ UNCHANGED <<heads, last, links, version>>
      /\ torn'[b] = (torn[b] \/ op[b].step \in SyncSteps)
      /\ killed'[b] = (killed[b] \/ op[b].step \in Rebuilding)
  BY DEF Restart, Idle, store, meta
<1>2. Marked(b)
  BY DEF MarkInv
<1>3. CASE At(b, "idle")
  BY <1>1, <1>2, <1>3, StepNames DEF Marked, Untorn, At
<1>4. CASE op[b].step \in SyncSteps
  BY <1>1, <1>2, <1>4, StepNames DEF Marked
<1>5. CASE op[b].step \in Rebuilding
  <2>1. last'[b] = Cleared /\ killed'[b] /\ (torn[b] => torn'[b])
    BY <1>1, <1>2, <1>5 DEF Marked
  <2>2. QED
    BY <1>1, <2>1, StepNames DEF Marked, Untorn, At, Cleared
<1>6. QED  BY <1>3, <1>4, <1>5 DEF TypeOK, WorkTypes, Op, At

LEMMA MarkNext ==
    ASSUME TypeOK, MarkInv, [Next]_vars PROVE MarkInv'
<1>1. ASSUME NEW b \in Branches, Marked(b)',
             \/ Commit(b) \/ Step(b) \/ RebuildJob(b) \/ Fail(b)
             \/ ObserverSync /\ b = Agent
             \/ HealNext /\ b = heal[1].branch
      PROVE  MarkInv'
  BY <1>1, Elsewhere, MarkedStays DEF MarkInv
<1>2. ASSUME NEW b \in Branches, Commit(b) \/ Step(b) \/ RebuildJob(b) \/ Fail(b)
      PROVE  MarkInv'
  <2>1. Marked(b)
    BY DEF MarkInv
  <2>2. Step(b) => Marked(b)'
    BY <2>1, SyncStepMarked, SyncFinishMarked, RebuildStepMarked, SetLastCommitMarked DEF Step
  <2>3. RebuildJob(b) => Marked(b)'
    BY RebuildBeginMarked DEF RebuildJob
  <2>4. QED
    BY <1>1, <1>2, <2>1, <2>2, <2>3, CommitMarked, FailMarked
<1>3. CASE ObserverSync
  <2>1. Agent \in Branches /\ Marked(Agent)
    BY AgentIsABranch DEF MarkInv
  <2>2. Marked(Agent)'
    BY <1>3, <2>1, SyncStartMarked DEF ObserverSync, store, meta
  <2>3. QED  BY <1>1, <1>3, <2>1, <2>2
<1>4. CASE HealNext
  <2>1. PICK b \in Branches : b = heal[1].branch
    BY <1>4, HealBranch
  <2>2. Marked(b)
    BY DEF MarkInv
  <2>3. Marked(b)'
    <3>1. CASE RebuildBegin(b, "heal")
      BY <3>1, RebuildBeginMarked
    <3>2. CASE ~RebuildBegin(b, "heal")
      <4>1. /\ Free(b) /\ Take(b, SyncOf(b, TreeOf(b), HeadOf(b), "heal"))
            /\ UNCHANGED <<heads, last, version, links, torn, killed>>
        BY <1>4, <2>1, <3>2 DEF HealNext, store, meta
      <4>2. QED  BY <2>2, <4>1, SyncStartMarked
    <3>3. QED  BY <3>1, <3>2
  <2>4. QED  BY <1>1, <1>4, <2>1, <2>2, <2>3
<1>5. CASE CleanRestart \/ Crash
  BY <1>5, RestartMarked DEF CleanRestart, Crash
<1>6. CASE UNCHANGED vars
  <2>1. \A b \in Branches : Of(b)' = Of(b)
    BY <1>6 DEF vars, store, meta, Of
  <2>2. QED  BY <2>1, MarkedStays DEF MarkInv
<1>7. QED  BY <1>2, <1>3, <1>4, <1>5, <1>6 DEF Next

LEMMA MarkInit == Init => MarkInv
<1> SUFFICES ASSUME Init, NEW b \in Branches PROVE Marked(b)
  BY DEF MarkInv
<1>1. op[b].step = "idle" /\ HeadOf(b) = 1
  BY DEF Init, Idle, HeadOf
<1>2. CASE InitFresh
  BY <1>1, <1>2, StepNames DEF InitFresh, Marked, Untorn, At, NoRow, Cleared
<1>3. CASE InitIndexed
  BY <1>1, <1>3, StepNames DEF InitIndexed, Marked, Untorn, At, NoRow, Cleared, TreeOf
<1>4. QED  BY <1>2, <1>3 DEF Init

(* The pointers, the watermark and the marks of every branch go together   *)
(* at every step of every operation.                                       *)
THEOREM MarkCorrect == Spec => []MarkInv
BY InitTypes, NextTypes, MarkInit, MarkNext, PTL DEF Spec

(* A branch whose watermark is at HEAD holds exactly the facts of HEAD,    *)
(* unless a sync of it stopped part-way and no rebuild has followed.       *)
THEOREM WatermarkCorrect == Spec => []AtWatermarkIsCoherent
<1>1. ASSUME TypeOK, MarkInv, RowsAreKept PROVE AtWatermarkIsCoherent
  <2> SUFFICES ASSUME NEW b \in Branches, Free(b), last[b] = HeadOf(b), ~torn[b]
               PROVE  FactsCoherent(b)
    BY DEF AtWatermarkIsCoherent
  <2>1. links[b] = TreeOf(b)
    BY <1>1, TreeTypes DEF MarkInv, Marked, Untorn, Free, TreeOf, TypeOK, Cleared
  <2>2. Linked(b) \subseteq facts
    BY <1>1 DEF RowsAreKept, Referenced
  <2>3. QED  BY <2>1, <2>2 DEF FactsCoherent
<1>2. QED  BY <1>1, TypeCorrect, MarkCorrect, RowsCorrect, PTL

(* A rebuild that failed leaves its branch marked for another: only a      *)
(* process that was killed can leave one that looks up to date.            *)
THEOREM RetryCorrect == Spec => []HalfRebuiltIsRetried
<1>1. MarkInv => HalfRebuiltIsRetried
  BY StepNames DEF MarkInv, Marked, HalfRebuiltIsRetried, Free, At
<1>2. QED  BY <1>1, MarkCorrect, PTL

-----------------------------------------------------------------------------
(* Rebuilds that were not finished, and what they leave to be done.  The   *)
(* actions of a branch fall into those that touch no row, vector or node,  *)
(* those of a sync and those of a rebuild.                                 *)

Outside(b) ==
    \/ Commit(b) \/ SyncFinish(b) \/ RebuildJob(b) \/ Fail(b)
    \/ ObserverSync /\ b = Agent
    \/ HealNext /\ b = heal[1].branch

SyncStep(b) == IndexFile(b) \/ Delete(b) \/ Retract(b)

RebuildStep(b) ==
    \/ EnsureFactsVec(b) \/ RebuildFacts(b) \/ CollectUnembedded(b) \/ Embed(b) \/ EmbedFinish(b)
    \/ ReadFacts(b) \/ WriteGraph(b) \/ BumpVersion(b) \/ PersistIdentity(b) \/ SetLastCommit(b)

LEMMA NextCases ==
    ASSUME TypeOK, [Next]_vars
    PROVE  \/ \E b \in Branches : Outside(b) \/ SyncStep(b) \/ RebuildStep(b)
           \/ CleanRestart \/ Crash \/ UNCHANGED vars
BY AgentIsABranch, HealBranch DEF Next, Step, Outside, SyncStep, RebuildStep

(* Nothing but its own operation moves a branch.                           *)
LEMMA OthersStay ==
    ASSUME TypeOK, NEW b \in Branches, Outside(b) \/ SyncStep(b) \/ RebuildStep(b),
           NEW c \in Branches \ {b}
    PROVE  op'[c] = op[c] /\ UNCHANGED <<heads[c], links[c], version[c], torn[c], killed[c]>>
<1>1. Of(c)' = Of(c)
  BY Elsewhere DEF Outside, SyncStep, RebuildStep, Step
<1>2. QED  BY <1>1 DEF Of

LEMMA OutsideKeeps ==
    ASSUME NEW b \in Branches, Outside(b)
    PROVE  UNCHANGED <<links, facts, vector, table, live, identity, embedder, undone>>
BY DEF Outside, Commit, SyncFinish, RebuildJob, RebuildBegin, Fail, ObserverSync, HealNext, store, meta

(* A rebuild of b is due at the next start, or nobody knows that it is.    *)
Unhealed(b) ==
    op[b].step \in {"idle"} \cup SyncSteps /\ (killed[b] \/ version[b] # "current")

(* Outside its steps a rebuild is only begun or given up, and one that is  *)
(* due stays so until it begins.                                           *)
LEMMA OutsideMoves ==
    ASSUME TypeOK, NEW b \in Branches, Outside(b)
    PROVE  /\ op'[b].step \in {"idle", "sync", "table"}
           /\ op'[b].step = "table" => Free(b)
           /\ Unhealed(b) \/ op[b].step \in Rebuilding => Unhealed(b)' \/ op'[b].step = "table"
<1>1. ASSUME op'[b].step \in {"idle", "sync"}, op[b].step \in {"idle"} \cup SyncSteps,
             UNCHANGED <<version, killed>>
      PROVE  /\ op'[b].step # "table"
             /\ Unhealed(b) \/ op[b].step \in Rebuilding => Unhealed(b)'
  BY <1>1, StepNames DEF Unhealed
<1>2. ASSUME NEW who, RebuildBegin(b, who) PROVE op'[b].step = "table" /\ Free(b)
  BY <1>2 DEF RebuildBegin, Take, Idle, TypeOK, WorkTypes
<1>3. ASSUME NEW t, NEW h, NEW who \in {"write", "observer", "heal"},
             Take(b, SyncOf(b, t, h, who))
      PROVE  op'[b].step \in {"idle", "sync"}
  <2>1. op'[b] = SyncOf(b, t, h, who)
    BY <1>3 DEF Take, TypeOK, WorkTypes
  <2>2. SyncOf(b, t, h, who) = Idle \/ SyncOf(b, t, h, who).step = "sync"
    BY SyncOfTypes DEF TypeOK
  <2>3. QED  BY <2>1, <2>2 DEF Idle
<1>4. CASE Commit(b)
  BY <1>1, <1>3, <1>4 DEF Commit, Free, At, meta
<1>5. CASE SyncFinish(b)
  BY <1>1, <1>5, StepNames DEF SyncFinish, Take, Idle, At, TypeOK, WorkTypes
<1>6. CASE RebuildJob(b)
  BY <1>2, <1>6 DEF RebuildJob
<1>7. CASE Fail(b)
  <2>1. CASE At(b, "retract")
    <3>1. op'[b].step = "sync" /\ UNCHANGED <<version, killed>>
      BY <1>7, <2>1 DEF Fail, Stops, TypeOK, WorkTypes, Op
    <3>2. QED  BY <1>1, <2>1, <3>1, StepNames DEF At
  <2>2. CASE op[b].step \in Rebuilding
    <3>1. op'[b].step = "idle" /\ version'[b] = "missing"
      BY <1>7, <2>2 DEF Fail, Stops, Take, Idle, ClearSchemaVersion, At, Rebuilding, TypeOK,
         WorkTypes, IndexTypes
    <3>2. QED  BY <3>1 DEF Unhealed
  <2>3. CASE At(b, "sync")
    <3>1. op'[b].step = "idle" /\ UNCHANGED <<version, killed>>
      BY <1>7, <2>3 DEF Fail, Stops, Take, Idle, ClearSchemaVersion, At, Rebuilding, TypeOK,
         WorkTypes
    <3>2. QED  BY <1>1, <2>3, <3>1, StepNames DEF At
  <2>4. op[b].step \in {"idle"} \cup SyncSteps \cup Rebuilding /\ ~At(b, "idle")
    BY <1>7 DEF Fail, Free, TypeOK, WorkTypes, Op
  <2>5. QED  BY <2>1, <2>2, <2>3, <2>4, StepNames DEF At
<1>8. CASE ObserverSync /\ b = Agent
  BY <1>1, <1>3, <1>8 DEF ObserverSync, Free, At, meta
<1>9. CASE HealNext /\ b = heal[1].branch
  <2>1. CASE RebuildBegin(b, "heal")
    BY <1>2, <2>1
  <2>2. CASE ~RebuildBegin(b, "heal")
    <3>1. /\ Free(b) /\ Take(b, SyncOf(b, TreeOf(b), HeadOf(b), "heal"))
          /\ UNCHANGED <<version, killed>>
      BY <1>9, <2>2 DEF HealNext, meta
    <3>2. QED  BY <1>1, <1>3, <3>1 DEF Free, At
  <2>3. QED  BY <2>1, <2>2
<1>10. QED  BY <1>4, <1>5, <1>6, <1>7, <1>8, <1>9 DEF Outside

LEMMA SyncStepMoves ==
    ASSUME TypeOK, NEW b \in Branches, SyncStep(b)
    PROVE  /\ op[b].step \in SyncSteps /\ op'[b].step \in SyncSteps
           /\ UNCHANGED <<heads, version, table, identity, embedder, undone, ghosts>>
           /\ Unhealed(b) => Unhealed(b)'
<1>1. CASE IndexFile(b)
  BY <1>1 DEF IndexFile, TypeOK, WorkTypes, At, SyncSteps, meta, Unhealed
<1>2. CASE Delete(b)
  BY <1>2, DeleteWork DEF Delete, At, SyncSteps, meta, Unhealed
<1>3. CASE Retract(b)
  BY <1>3 DEF Retract, TypeOK, WorkTypes, Op, At, SyncSteps, meta, Unhealed
<1>4. QED  BY <1>1, <1>2, <1>3 DEF SyncStep

(* A restart ends every operation, and a rebuild it ends is due.           *)
LEMMA RestartMoves ==
    ASSUME TypeOK, NEW e, Restart(e)
    PROVE  /\ \A b \in Branches : /\ op'[b] = Idle
                                  /\ Unhealed(b) \/ op[b].step \in Rebuilding => Unhealed(b)'
           /\ UNCHANGED <<heads, store, meta, mingled>>
           /\ \E m \in Models : /\ embedder' = m
                                /\ undone' = (undone \/ (m # embedder /\ m = identity))
<1>1. ASSUME NEW b \in Branches
      PROVE  op'[b] = Idle /\ (Unhealed(b) \/ op[b].step \in Rebuilding => Unhealed(b)')
  BY DEF Restart, Unhealed, Idle, meta
<1>2. QED  BY <1>1 DEF Restart

-----------------------------------------------------------------------------
(* The vectors.  A row without one is on the list of a rebuild, or a       *)
(* rebuild is due that will list it; and the vectors there are of the      *)
(* configured model whenever that is the one on record, or a rebuild has   *)
(* made the table of it.                                                   *)

OwesVector(b, f) ==
    \/ op[b].step \in {"table", "facts", "collect"}
    \/ At(b, "embed") /\ f \in op[b].versions
    \/ Unhealed(b)

NoStray == \A f \in Versions \ facts : vector[f] = NoModel
Owed    == \A f \in Unembedded : \E b \in Branches : OwesVector(b, f)

PastTable(b) == op[b].step \in Rebuilding \ {"table"}
OneModel ==
    ~undone /\ (identity = embedder \/ \E b \in Branches : PastTable(b)) =>
        \A f \in Versions : vector[f] \in {NoModel, embedder}

VectorInv == NoStray /\ Owed /\ OneModel

LEMMA VectorInit == Init => VectorInv
<1>1. ASSUME Init, InitFresh PROVE VectorInv
  BY <1>1 DEF InitFresh, VectorInv, NoStray, Owed, OneModel, Unembedded
<1>2. ASSUME Init, InitIndexed PROVE VectorInv
  <2>1. NoStray /\ Unembedded = {}
    BY <1>2, ModelAssumption DEF InitIndexed, NoStray, Unembedded
  <2>2. \A b \in Branches : ~PastTable(b)
    BY <1>2, StepNames DEF Init, Idle, PastTable
  <2>3. \A f \in Versions : vector[f] \in {NoModel, identity}
    BY <1>2 DEF InitIndexed
  <2>4. QED  BY <2>1, <2>2, <2>3 DEF VectorInv, Owed, OneModel
<1>3. QED  BY <1>1, <1>2 DEF Init

(* What others owe they go on owing.                                       *)
LEMMA OwedByAll ==
    ASSUME TypeOK, Owed, NEW b \in Branches, Outside(b) \/ SyncStep(b) \/ RebuildStep(b),
           \A f \in Unembedded' : f \in Unembedded \/ OwesVector(b, f)',
           \A f \in Unembedded' : OwesVector(b, f) => OwesVector(b, f)'
    PROVE  Owed'
<1> SUFFICES ASSUME NEW f \in Unembedded' PROVE \E c \in Branches : OwesVector(c, f)'
  BY DEF Owed
<1>1. CASE OwesVector(b, f)'
  BY <1>1
<1>2. CASE ~OwesVector(b, f)'
  <2>1. PICK c \in Branches : OwesVector(c, f)
    BY <1>2 DEF Owed
  <2>2. c # b
    BY <1>2, <2>1
  <2>3. OwesVector(c, f)'
    BY <2>1, <2>2, OthersStay DEF OwesVector, Unhealed, At
  <2>4. QED  BY <2>3
<1>3. QED  BY <1>1, <1>2

LEMMA OutsideVector ==
    ASSUME TypeOK, VectorInv, NEW b \in Branches, Outside(b) PROVE VectorInv'
<1>1. NoStray' /\ Unembedded' = Unembedded
  BY OutsideKeeps DEF VectorInv, NoStray, Unembedded
<1>2. \A f : OwesVector(b, f) => OwesVector(b, f)'
  BY OutsideMoves DEF OwesVector, At, Rebuilding
<1>3. Owed'
  BY <1>1, <1>2, OwedByAll DEF VectorInv
<1>4. \A c \in Branches : PastTable(c)' => PastTable(c)
  BY OutsideMoves, OthersStay, StepNames DEF PastTable, Rebuilding
<1>5. OneModel'
  BY <1>4, OutsideKeeps DEF VectorInv, OneModel
<1>6. QED  BY <1>1, <1>3, <1>5 DEF VectorInv

LEMMA SyncStepVector ==
    ASSUME TypeOK, VectorInv, NEW b \in Branches, SyncStep(b) PROVE VectorInv'
<1>1. /\ \A f : OwesVector(b, f) => OwesVector(b, f)'
      /\ \A c \in Branches : PastTable(c)' => PastTable(c)
      /\ UNCHANGED <<identity, embedder, undone>> /\ embedder # NoModel
  BY SyncStepMoves, OthersStay, StepNames, ModelAssumption
     DEF OwesVector, PastTable, At, Rebuilding, SyncSteps, TypeOK, WorkTypes
<1>2. NoStray' /\ Unembedded' \subseteq Unembedded
      /\ \A f \in Versions : vector'[f] \in {vector[f], NoModel, embedder}
  <2>1. CASE IndexFile(b)
    <3>1. PICK p \in op[b].paths : LET f == <<p, TreeOf(b)[p]>> IN
              /\ TreeOf(b)[p] # Absent
              /\ \/ UNCHANGED <<facts, vector>>
                 \/ facts' = facts \cup {f} /\ vector' = [vector EXCEPT ![f] = embedder]
      BY <2>1 DEF IndexFile
    <3>2. <<p, TreeOf(b)[p]>> \in Versions
      BY <3>1, TreeTypes DEF TypeOK, WorkTypes, Op, Trees, Versions
    <3>3. QED  BY <1>1, <3>1, <3>2 DEF VectorInv, NoStray, Unembedded, TypeOK, IndexTypes
  <2>2. CASE Delete(b)
    BY <2>2 DEF Delete, VectorInv, NoStray, Unembedded, TypeOK, IndexTypes
  <2>3. CASE Retract(b)
    BY <2>3 DEF Retract, VectorInv, NoStray, Unembedded
  <2>4. QED  BY <2>1, <2>2, <2>3 DEF SyncStep
<1>3. Owed'
  BY <1>1, <1>2, OwedByAll DEF VectorInv
<1>4. OneModel'
  BY <1>1, <1>2 DEF VectorInv, OneModel
<1>5. QED  BY <1>2, <1>3, <1>4 DEF VectorInv

(* Until its vectors are listed a rebuild owes every one of them.          *)
LEMMA TableVector ==
    ASSUME TypeOK, VectorInv, NEW b \in Branches, EnsureFactsVec(b) PROVE VectorInv'
<1>1. At(b, "table") /\ op'[b].step = "facts" /\ UNCHANGED <<facts, identity, embedder>>
  BY DEF EnsureFactsVec, Go, meta, TypeOK, WorkTypes, Op, At
<1>2. Owed'
  BY <1>1, OwedByAll DEF VectorInv, OwesVector, RebuildStep
<1>3. NoStray'
  BY DEF EnsureFactsVec, VectorInv, NoStray
<1>4. OneModel'
  <2>1. CASE identity = embedder
    BY <1>1, <2>1 DEF EnsureFactsVec, VectorInv, OneModel
  <2>2. CASE identity # embedder
    BY <2>2 DEF EnsureFactsVec, OneModel
  <2>3. QED  BY <2>1, <2>2
<1>5. QED  BY <1>2, <1>3, <1>4 DEF VectorInv

LEMMA FactsVector ==
    ASSUME TypeOK, VectorInv, NEW b \in Branches, RebuildFacts(b) PROVE VectorInv'
<1>1. /\ PastTable(b) /\ op'[b].step = "collect" /\ facts \subseteq facts'
      /\ UNCHANGED <<vector, identity, embedder, undone>>
  BY DEF RebuildFacts, Go, meta, TypeOK, WorkTypes, Op, At, PastTable, Rebuilding
<1>2. Owed'
  BY <1>1, OwedByAll DEF VectorInv, OwesVector, RebuildStep
<1>3. NoStray'
  BY <1>1 DEF VectorInv, NoStray
<1>4. OneModel'
  BY <1>1 DEF VectorInv, OneModel
<1>5. QED  BY <1>2, <1>3, <1>4 DEF VectorInv

LEMMA CollectVector ==
    ASSUME TypeOK, VectorInv, NEW b \in Branches, CollectUnembedded(b) PROVE VectorInv'
<1>1. /\ PastTable(b) /\ op'[b].step = "embed" /\ op'[b].versions = Unembedded
      /\ UNCHANGED <<facts, vector, identity, embedder, undone>>
  BY DEF CollectUnembedded, store, meta, TypeOK, WorkTypes, Op, At, PastTable, Rebuilding
<1>2. Unembedded' = Unembedded
  BY <1>1 DEF Unembedded
<1>3. Owed'
  BY <1>1, <1>2, OwedByAll DEF VectorInv, OwesVector, At, RebuildStep
<1>4. NoStray' /\ OneModel'
  BY <1>1 DEF VectorInv, NoStray, OneModel
<1>5. QED  BY <1>3, <1>4 DEF VectorInv

(* What it has listed is embedded one by one, unless its row has gone.     *)
LEMMA EmbedVector ==
    ASSUME TypeOK, VectorInv, NEW b \in Branches, Embed(b) PROVE VectorInv'
<1>1. PICK f \in op[b].versions :
         /\ \/ f \notin facts /\ UNCHANGED vector
            \/ f \in Unembedded /\ vector' = [vector EXCEPT ![f] = embedder]
         /\ op' = [op EXCEPT ![b].versions = @ \ {f}]
  BY DEF Embed
<1>2. /\ At(b, "embed") /\ PastTable(b) /\ op'[b].step = "embed"
      /\ op'[b].versions = op[b].versions \ {f}
      /\ UNCHANGED <<facts, identity, embedder, undone>> /\ embedder # NoModel
  BY <1>1, ModelAssumption
     DEF Embed, meta, TypeOK, WorkTypes, Op, At, PastTable, Rebuilding
<1>3. Unembedded' \subseteq Unembedded \ {f}
  BY <1>1, <1>2 DEF Unembedded, TypeOK, IndexTypes
<1>4. Owed'
  BY <1>2, <1>3, OwedByAll DEF VectorInv, OwesVector, Unhealed, At, SyncSteps, RebuildStep
<1>5. NoStray' /\ OneModel'
  BY <1>1, <1>2 DEF VectorInv, NoStray, OneModel, Unembedded, TypeOK, IndexTypes
<1>6. QED  BY <1>4, <1>5 DEF VectorInv

(* After that it owes none.                                                *)
LEMMA LaterVector ==
    ASSUME TypeOK, VectorInv, NEW b \in Branches,
           EmbedFinish(b) \/ ReadFacts(b) \/ WriteGraph(b) \/ BumpVersion(b) \/ PersistIdentity(b)
           \/ SetLastCommit(b)
    PROVE  VectorInv'
<1>1. /\ \A f : ~OwesVector(b, f)
      /\ PastTable(b)
      /\ UNCHANGED <<facts, vector, embedder, undone>>
  BY StepNames
     DEF EmbedFinish, ReadFacts, WriteGraph, BumpVersion, PersistIdentity, SetLastCommit, store,
         At, OwesVector, Unhealed, PastTable, Rebuilding
<1>2. Unembedded' = Unembedded
  BY <1>1 DEF Unembedded
<1>3. Owed'
  BY <1>1, <1>2, OwedByAll DEF VectorInv, RebuildStep
<1>4. NoStray' /\ OneModel'
  BY <1>1 DEF VectorInv, NoStray, OneModel
<1>5. QED  BY <1>3, <1>4 DEF VectorInv

LEMMA RestartVector ==
    ASSUME TypeOK, VectorInv, NEW e, Restart(e) PROVE VectorInv'
<1>1. NoStray' /\ Unembedded' = Unembedded
  BY RestartMoves DEF VectorInv, NoStray, Unembedded, store
<1>2. \A b \in Branches, f \in Versions : OwesVector(b, f) => OwesVector(b, f)'
  BY RestartMoves DEF OwesVector, At, Rebuilding
<1>3. Owed'
  BY <1>1, <1>2 DEF VectorInv, Owed, Unembedded, TypeOK, IndexTypes
<1>4. \A b \in Branches : ~PastTable(b)'
  BY RestartMoves, StepNames DEF Idle, PastTable
<1>5. OneModel'
  BY <1>4, RestartMoves DEF VectorInv, OneModel, store, meta
<1>6. QED  BY <1>1, <1>3, <1>5 DEF VectorInv

LEMMA VectorNext == TypeOK /\ VectorInv /\ [Next]_vars => VectorInv'
<1> SUFFICES ASSUME TypeOK, VectorInv, [Next]_vars PROVE VectorInv'
  OBVIOUS
<1>1. ASSUME NEW b \in Branches, RebuildStep(b) PROVE VectorInv'
  BY <1>1, TableVector, FactsVector, CollectVector, EmbedVector, LaterVector DEF RebuildStep
<1>2. CASE UNCHANGED vars
  BY <1>2 DEF vars, store, meta, VectorInv, NoStray, Owed, OneModel, Unembedded, OwesVector,
     Unhealed, At, PastTable
<1>3. QED
  BY <1>1, <1>2, NextCases, OutsideVector, SyncStepVector, RestartVector DEF CleanRestart, Crash

(* Every row without a vector is somebody's to embed, and no row has one   *)
(* of another model than the index claims.                                 *)
THEOREM VectorInvCorrect == Spec => []VectorInv
BY InitTypes, NextTypes, VectorInit, VectorNext, PTL DEF Spec

(* Once no branch needs a rebuild every row has a vector, of the model     *)
(* that is configured, whatever failed or overlapped on the way there.     *)
THEOREM VectorsCorrect == Spec => []VectorsComplete
<1>1. ASSUME TypeOK, VectorInv PROVE VectorsComplete
  <2> SUFFICES ASSUME ~undone,
                      \A b \in Branches : Free(b) /\ ~killed[b] /\ ~NeedsRebuild(b, embedder)
               PROVE  EmbeddingsCovered /\ \A f \in facts : vector[f] = embedder
    BY DEF VectorsComplete
  <2>1. \A b \in Branches : \A f : ~OwesVector(b, f)
    BY StepNames DEF OwesVector, Unhealed, NeedsRebuild, Free, At, Rebuilding, SyncSteps
  <2>2. Unembedded = {}
    BY <1>1, <2>1 DEF VectorInv, Owed
  <2>3. identity = embedder
    BY AgentIsABranch DEF NeedsRebuild
  <2>4. \A f \in facts : vector[f] = embedder
    BY <1>1, <2>2, <2>3 DEF VectorInv, OneModel, Unembedded, TypeOK, IndexTypes
  <2>5. QED  BY <1>1, <2>2, <2>4 DEF VectorInv, NoStray, EmbeddingsCovered
<1>2. QED  BY <1>1, TypeCorrect, VectorInvCorrect, PTL

-----------------------------------------------------------------------------
(* The graph.  As long as one branch works at a time, a row without a live *)
(* node is that of a rebuild that has yet to write the graph, or is due,   *)
(* and a live node without a row is of a branch whose sync was cut short,  *)
(* or is about to retract it; the branch's next rebuild will.              *)

Alone == \A b, c \in Branches : b # c => Free(b) \/ Free(c)

OwesNodes(b) ==
    op[b].step \in {"table", "facts", "collect", "embed", "read", "graph"} \/ Unhealed(b)
OwesRetract(b, f) ==
    f \in Ever(b) /\ (torn[b] \/ (At(b, "retract") /\ f \in op[b].versions))

InHand(b) ==
    /\ At(b, "graph") => op[b].versions = facts
    /\ At(b, "retract") => op[b].versions \cap facts = {}
    /\ op[b].step \in {"version", "identity", "mark"} =>
          facts \subseteq live /\ live \cap Ever(b) \subseteq facts

Missing == facts \subseteq live \/ \E b \in Branches : OwesNodes(b)
Extra   == \A f \in live \ facts : \E b \in Branches : OwesRetract(b, f)

LinkedEver == \A b \in Branches : Linked(b) \subseteq Ever(b)
GraphInv ==
    /\ LinkedEver
    /\ ~mingled => Alone /\ Missing /\ Extra /\ \A b \in Branches : InHand(b)

LEMMA TreeEver ==
    ASSUME TypeOK, NEW b \in Branches, NEW f \in Versions, TreeOf(b)[f[1]] = f[2]
    PROVE  f \in Ever(b)
BY TreeTypes DEF TypeOK, TreeOf, Ever

LEMMA GraphInit == Init => GraphInv
<1> SUFFICES ASSUME Init PROVE GraphInv
  OBVIOUS
<1>1. \A b \in Branches : op[b].step = "idle" /\ HeadOf(b) = 1
  BY DEF Init, Idle, HeadOf
<1>2. Alone /\ live = facts /\ \A b \in Branches : InHand(b)
  BY <1>1 DEF Init, InitFresh, InitIndexed, Alone, Free, At, InHand
<1>3. LinkedEver
  <2> SUFFICES ASSUME NEW b \in Branches, NEW f \in Versions, links[b][f[1]] = f[2]
               PROVE  f \in Ever(b)
    BY DEF LinkedEver, Linked
  <2>1. CASE InitFresh
    BY <2>1, AbsentAssumption DEF InitFresh, Versions
  <2>2. CASE InitIndexed
    BY <2>2, TreeEver, InitTypes DEF InitIndexed
  <2>3. QED  BY <2>1, <2>2 DEF Init
<1>4. QED  BY <1>2, <1>3 DEF GraphInv, Missing, Extra

(* Who works alone when the step is over.                                  *)
LEMMA AloneNext ==
    ASSUME TypeOK, GraphInv, ~mingled', NEW b \in Branches,
           Outside(b) \/ SyncStep(b) \/ RebuildStep(b)
    PROVE  ~mingled /\ Alone'
<1>1. CASE ~Free(b)
  <2>1. ~mingled
    BY <1>1, SyncStepMoves DEF Outside, Commit, SyncFinish, RebuildJob, RebuildBegin, Fail, Stops,
       ObserverSync, HealNext, RebuildStep, EnsureFactsVec, RebuildFacts, CollectUnembedded, Embed,
       EmbedFinish, ReadFacts, WriteGraph, BumpVersion, PersistIdentity, SetLastCommit, Take
  <2>2. \A c \in Branches \ {b} : Free(c)'
    BY <1>1, <2>1, OthersStay DEF GraphInv, Alone, Free, At
  <2>3. QED  BY <2>1, <2>2 DEF Alone
<1>2. CASE Free(b)
  <2>1. PICK o : Take(b, o)
    BY <1>2, SyncStepMoves, StepNames DEF Outside, Commit, SyncFinish, RebuildJob, RebuildBegin,
       Fail, ObserverSync, HealNext, RebuildStep, EnsureFactsVec, RebuildFacts, CollectUnembedded,
       Embed, EmbedFinish, ReadFacts, WriteGraph, BumpVersion, PersistIdentity, SetLastCommit,
       Free, At
  <2>2. ~mingled /\ (o = Idle \/ \A c \in Branches \ {b} : Free(c))
    BY <2>1 DEF Take
  <2>3. (o = Idle /\ Free(b)') \/ \A c \in Branches \ {b} : Free(c)'
    BY <2>1, <2>2, OthersStay DEF Take, Free, At, Idle, TypeOK, WorkTypes
  <2>4. \A c, d \in Branches \ {b} : c # d => Free(c)' \/ Free(d)'
    BY <2>2, OthersStay DEF GraphInv, Alone, Free, At
  <2>5. QED  BY <2>2, <2>3, <2>4 DEF Alone
<1>3. QED  BY <1>1, <1>2

LEMMA EverStays ==
    ASSUME TypeOK, NEW b \in Branches, Outside(b) \/ SyncStep(b) \/ RebuildStep(b)
    PROVE  /\ \A c \in Branches : Ever(c) \subseteq Ever(c)'
           /\ \A c \in Branches \ {b} : Ever(c)' = Ever(c)
           /\ ~Outside(b) => UNCHANGED heads /\ Ever(b)' = Ever(b)
<1>1. \A c \in Branches \ {b} : Ever(c)' = Ever(c)
  BY OthersStay DEF Ever, HeadOf
<1>2. CASE UNCHANGED heads
  BY <1>1, <1>2 DEF Ever, HeadOf
<1>3. CASE ~UNCHANGED heads
  <2>1. Commit(b)
    BY <1>3, SyncStepMoves DEF Outside, SyncFinish, RebuildJob, RebuildBegin, Fail, ObserverSync,
       HealNext, RebuildStep, EnsureFactsVec, RebuildFacts, CollectUnembedded, Embed, EmbedFinish,
       ReadFacts, WriteGraph, BumpVersion, PersistIdentity, SetLastCommit
  <2>2. PICK t \in Trees : heads' = [heads EXCEPT ![b] = Append(@, t)]
    <3>1. \A p \in Paths, v \in Blobs \cup {Absent} : [TreeOf(b) EXCEPT ![p] = v] \in Trees
      BY TreeTypes DEF TypeOK, Trees
    <3>2. QED  BY <2>1, <3>1 DEF Commit
  <2>3. heads'[b] = Append(heads[b], t) /\ heads[b] \in Seq(Trees)
    BY <2>2 DEF TypeOK, HeadTypes
  <2>4. Len(heads'[b]) = Len(heads[b]) + 1 /\ Len(heads[b]) \in Nat
        /\ \A i \in 1 .. Len(heads[b]) : heads'[b][i] = heads[b][i]
    BY <2>3
  <2>5. Ever(b) \subseteq Ever(b)'
    BY <2>4 DEF Ever, HeadOf
  <2>6. QED  BY <1>1, <2>1, <2>5 DEF Outside
<1>4. QED  BY <1>2, <1>3

LEMMA LinkedNext ==
    ASSUME TypeOK, GraphInv, NEW b \in Branches, Outside(b) \/ SyncStep(b) \/ RebuildStep(b)
    PROVE  LinkedEver'
<1> SUFFICES ASSUME NEW c \in Branches, NEW f \in Versions, links'[c][f[1]] = f[2]
             PROVE  f \in Ever(c)'
  BY DEF LinkedEver, Linked
<1>1. CASE links[c][f[1]] = f[2]
  BY <1>1, EverStays DEF GraphInv, LinkedEver, Linked
<1>2. CASE links[c][f[1]] # f[2]
  <2>1. IndexFile(b) \/ Delete(b) \/ RebuildFacts(b)
    BY <1>2, OutsideKeeps DEF SyncStep, Retract, RebuildStep, EnsureFactsVec, CollectUnembedded,
       Embed, EmbedFinish, ReadFacts, WriteGraph, BumpVersion, PersistIdentity, SetLastCommit, store
  <2>2. TreeOf(c)[f[1]] = f[2]
    <3>1. CASE IndexFile(b)
      BY <1>2, <3>1 DEF IndexFile, TypeOK, IndexTypes, Trees
    <3>2. CASE Delete(b)
      <4>1. PICK p \in Paths : links' = [links EXCEPT ![b][p] = Absent]
        BY <3>2, DeleteWork DEF TypeOK, WorkTypes, Op
      <4>2. links'[c][f[1]] \in {links[c][f[1]], Absent}
        BY <4>1 DEF TypeOK, IndexTypes, Trees, Versions
      <4>3. QED  BY <1>2, <4>2, AbsentAssumption DEF Versions
    <3>3. CASE RebuildFacts(b)
      BY <1>2, <3>3 DEF RebuildFacts, TypeOK, IndexTypes
    <3>4. QED  BY <2>1, <3>1, <3>2, <3>3
  <2>3. QED  BY <2>2, TreeEver, EverStays
<1>3. QED  BY <1>1, <1>2

LEMMA OutsideGraph ==
    ASSUME TypeOK, GraphInv, NEW b \in Branches, Outside(b) PROVE GraphInv'
<1> SUFFICES ASSUME ~mingled' PROVE (Missing /\ Extra /\ \A c \in Branches : InHand(c))'
  BY LinkedNext, AloneNext DEF GraphInv
<1>1. Alone /\ Missing /\ Extra /\ \A c \in Branches : InHand(c)
  BY AloneNext DEF GraphInv
<1>2. UNCHANGED <<facts, live>>
  BY OutsideKeeps
<1>3. ASSUME NEW c \in Branches \ {b}
      PROVE  /\ InHand(c)' /\ (OwesNodes(c) => OwesNodes(c)')
             /\ \A f : OwesRetract(c, f) => OwesRetract(c, f)'
  BY <1>1, <1>2, OthersStay, EverStays DEF InHand, OwesNodes, OwesRetract, Unhealed, At
<1>4. InHand(b)'
  BY OutsideMoves DEF InHand, At
<1>5. OwesNodes(b) => OwesNodes(b)'
  BY OutsideMoves DEF OwesNodes, Rebuilding
<1>6. torn[b] \/ At(b, "retract") => torn'[b]
  BY StepNames DEF Outside, Commit, SyncFinish, RebuildJob, RebuildBegin, Fail, Stops, ObserverSync,
     HealNext, Free, At, TypeOK, WorkTypes
<1>7. \A f : OwesRetract(b, f) => OwesRetract(b, f)'
  BY <1>6, EverStays DEF OwesRetract
<1>8. QED  BY <1>1, <1>2, <1>3, <1>4, <1>5, <1>7 DEF Missing, Extra

LEMMA SyncStepGraph ==
    ASSUME TypeOK, GraphInv, NEW b \in Branches, SyncStep(b) PROVE GraphInv'
<1> SUFFICES ASSUME ~mingled' PROVE (Missing /\ Extra /\ \A c \in Branches : InHand(c))'
  BY LinkedNext, AloneNext DEF GraphInv
<1>1. Alone /\ Missing /\ Extra /\ \A c \in Branches : InHand(c)
  BY AloneNext DEF GraphInv
<1>2. \A c \in Branches \ {b} : Free(c) /\ InHand(c)'
  BY <1>1, SyncStepMoves, OthersStay, StepNames DEF Alone, Free, At, InHand
<1>3. \A c \in Branches : OwesNodes(c) => OwesNodes(c)'
  BY SyncStepMoves, OthersStay, StepNames DEF OwesNodes, Unhealed, SyncSteps
<1>4. \A c \in Branches : \A f : f \in Ever(c) /\ torn[c] => OwesRetract(c, f)'
  BY SyncStepMoves, EverStays DEF OwesRetract
<1>5. \A f : ~At(b, "retract") /\ f \in live \ facts => \E c \in Branches : OwesRetract(c, f)'
  BY <1>1, <1>2, <1>4 DEF Extra, OwesRetract, Free, At
<1>6. CASE IndexFile(b)
  <2>1. At(b, "sync") /\ op'[b].step = "sync" /\ live' \ facts' \subseteq live \ facts
        /\ (facts \subseteq live => facts' \subseteq live')
    BY <1>6 DEF IndexFile, At, TypeOK, WorkTypes, Op
  <2>2. QED  BY <1>1, <1>2, <1>3, <1>5, <2>1 DEF Missing, Extra, InHand, At
<1>7. CASE Delete(b)
  <2>1. PICK p, f :
          LET orphan == Orphaned(b, f)
          IN  /\ p \in op[b].paths /\ f = <<p, links[b][p]>>
              /\ facts' = IF orphan THEN facts \ {f} ELSE facts
              /\ op' = [op EXCEPT ![b].paths = @ \ {p},
                                  ![b].step = IF orphan THEN "retract" ELSE "sync",
                                  ![b].versions = IF orphan THEN {f} ELSE {}]
    BY <1>7 DEF Delete
  <2>2. At(b, "sync") /\ live' = live
    BY <1>7 DEF Delete
  <2>3. CASE ~Orphaned(b, f)
    <3>1. facts' = facts /\ op'[b].step = "sync"
      BY <2>1, <2>3 DEF TypeOK, WorkTypes, Op
    <3>2. QED  BY <1>1, <1>2, <1>3, <1>5, <2>2, <3>1 DEF Missing, Extra, InHand, At
  <2>4. CASE Orphaned(b, f)
    <3>1. facts' = facts \ {f} /\ op'[b].step = "retract" /\ op'[b].versions = {f}
      BY <2>1, <2>4 DEF TypeOK, WorkTypes, Op
    <3>2. f \in Linked(b)
      BY <2>1, <2>4 DEF Orphaned, Linked, Versions, TypeOK, WorkTypes, IndexTypes, Trees, Op
    <3>3. OwesRetract(b, f)'
      BY <3>1, <3>2, EverStays DEF GraphInv, LinkedEver, OwesRetract, At
    <3>4. Extra'
      <4> SUFFICES ASSUME NEW g \in live' \ facts' PROVE \E c \in Branches : OwesRetract(c, g)'
        BY DEF Extra
      <4>1. g = f \/ g \in live \ facts
        BY <2>2, <3>1
      <4>2. QED  BY <1>5, <2>2, <3>3, <4>1 DEF At
    <3>5. InHand(b)'
      BY <3>1 DEF InHand, At
    <3>6. Missing'
      BY <1>1, <1>3, <2>2, <3>1 DEF Missing
    <3>7. QED  BY <1>2, <3>4, <3>5, <3>6
  <2>5. QED  BY <2>3, <2>4
<1>8. CASE Retract(b)
  <2>1. /\ live' = live \ op[b].versions /\ facts' = facts /\ At(b, "retract")
        /\ op'[b].step = "sync"
    BY <1>8 DEF Retract, TypeOK, WorkTypes, Op
  <2>2. op[b].versions \cap facts = {}
    BY <1>1, <2>1 DEF InHand
  <2>3. Extra'
    <3> SUFFICES ASSUME NEW g \in live' \ facts' PROVE \E c \in Branches : OwesRetract(c, g)'
      BY DEF Extra
    <3>1. PICK c \in Branches : OwesRetract(c, g)
      BY <1>1, <2>1 DEF Extra
    <3>2. torn[c]
      BY <1>2, <2>1, <3>1 DEF OwesRetract, Free, At
    <3>3. QED  BY <1>4, <3>1, <3>2 DEF OwesRetract
  <2>4. Missing'
    BY <1>1, <1>3, <2>1, <2>2 DEF Missing
  <2>5. QED  BY <1>2, <2>1, <2>3, <2>4 DEF InHand, At
<1>9. QED  BY <1>6, <1>7, <1>8 DEF SyncStep

(* Until the graph is written the rebuild owes the nodes of all rows.      *)
LEMMA BeforeGraph ==
    ASSUME TypeOK, GraphInv, NEW b \in Branches,
           EnsureFactsVec(b) \/ RebuildFacts(b) \/ CollectUnembedded(b) \/ Embed(b)
           \/ EmbedFinish(b) \/ ReadFacts(b)
    PROVE  GraphInv'
<1> SUFFICES ASSUME ~mingled' PROVE (Missing /\ Extra /\ \A c \in Branches : InHand(c))'
  BY LinkedNext, AloneNext DEF GraphInv, RebuildStep
<1>1. Alone /\ Extra /\ RebuildStep(b)
  BY AloneNext DEF GraphInv, RebuildStep
<1>2. /\ op[b].step \in Rebuilding /\ ~Free(b)
      /\ op'[b].step \in {"facts", "collect", "embed", "read", "graph"}
      /\ op'[b].step = "graph" => op'[b].versions = facts'
      /\ live' = live /\ facts \subseteq facts' /\ torn' = torn
  BY DEF EnsureFactsVec, RebuildFacts, CollectUnembedded, Embed, EmbedFinish, ReadFacts, Go, store,
     At, Free, Rebuilding, TypeOK, WorkTypes, Op
<1>3. \A c \in Branches \ {b} : Free(c) /\ op'[c] = op[c]
  BY <1>1, <1>2, OthersStay DEF Alone
<1>4. \A c \in Branches : InHand(c)'
  BY <1>2, <1>3 DEF InHand, Free, At
<1>5. Missing'
  BY <1>2 DEF Missing, OwesNodes
<1>6. Extra'
  BY <1>1, <1>2, <1>3, EverStays DEF Extra, OwesRetract, Free, At, Rebuilding
<1>7. QED  BY <1>4, <1>5, <1>6

(* It writes the rows it has read, which are still those there are.        *)
LEMMA WriteGraphGraph ==
    ASSUME TypeOK, GraphInv, NEW b \in Branches, WriteGraph(b) PROVE GraphInv'
<1> SUFFICES ASSUME ~mingled' PROVE (Missing /\ Extra /\ \A c \in Branches : InHand(c))'
  BY LinkedNext, AloneNext DEF GraphInv, RebuildStep
<1>1. Alone /\ Extra /\ RebuildStep(b) /\ InHand(b)
  BY AloneNext DEF GraphInv, RebuildStep
<1>2. /\ At(b, "graph") /\ ~Free(b) /\ op'[b].step = "version"
      /\ live' = (live \cup facts) \ (Ever(b) \ facts)
      /\ UNCHANGED <<facts, torn>>
  BY <1>1 DEF WriteGraph, InHand, At, Free, TypeOK, WorkTypes, Op
<1>3. \A c \in Branches \ {b} : Free(c) /\ op'[c] = op[c]
  BY <1>1, <1>2, OthersStay DEF Alone
<1>4. Ever(b)' = Ever(b) /\ \A c \in Branches \ {b} : Ever(c)' = Ever(c)
  BY EverStays, <1>1, <1>2, OutsideKeeps DEF WriteGraph, Ever, HeadOf
<1>5. \A c \in Branches : InHand(c)'
  BY <1>2, <1>3, <1>4 DEF InHand, Free, At
<1>6. Missing'
  BY <1>2 DEF Missing
<1>7. Extra'
  BY <1>1, <1>2, <1>3, <1>4 DEF Extra, OwesRetract, Free, At
<1>8. QED  BY <1>5, <1>6, <1>7

LEMMA AfterGraph ==
    ASSUME TypeOK, GraphInv, NEW b \in Branches,
           BumpVersion(b) \/ PersistIdentity(b) \/ SetLastCommit(b)
    PROVE  GraphInv'
<1> SUFFICES ASSUME ~mingled' PROVE (Missing /\ Extra /\ \A c \in Branches : InHand(c))'
  BY LinkedNext, AloneNext DEF GraphInv, RebuildStep
<1>1. Alone /\ Extra /\ RebuildStep(b) /\ InHand(b)
  BY AloneNext DEF GraphInv, RebuildStep
<1>2. /\ op[b].step \in {"version", "identity", "mark"}
      /\ op'[b].step \in {"identity", "mark", "idle"}
      /\ UNCHANGED <<heads, facts, live>>
      /\ \A c \in Branches \ {b} : torn'[c] = torn[c]
  BY DEF BumpVersion, PersistIdentity, SetLastCommit, Go, Take, Idle, store, At, TypeOK, WorkTypes, Op
<1>3. facts \subseteq live /\ live \cap Ever(b) \subseteq facts
  BY <1>1, <1>2 DEF InHand
<1>4. \A c \in Branches \ {b} : Free(c) /\ op'[c] = op[c]
  BY <1>1, <1>2, OthersStay DEF Alone, Free, At
<1>5. \A c \in Branches : Ever(c)' = Ever(c)
  BY <1>2 DEF Ever, HeadOf
<1>6. \A c \in Branches : InHand(c)'
  BY <1>2, <1>3, <1>4, <1>5 DEF InHand, Free, At
<1>7. Missing'
  BY <1>2, <1>3 DEF Missing
<1>8. Extra'
  BY <1>1, <1>2, <1>3, <1>4, <1>5 DEF Extra, OwesRetract, Free, At
<1>9. QED  BY <1>6, <1>7, <1>8

LEMMA RestartGraph ==
    ASSUME TypeOK, GraphInv, NEW e, Restart(e) PROVE GraphInv'
<1>1. \A c \in Branches : Ever(c)' = Ever(c) /\ Linked(c)' = Linked(c)
  BY RestartMoves DEF Ever, HeadOf, Linked, store
<1>2. LinkedEver'
  BY <1>1 DEF GraphInv, LinkedEver
<1>3. \A c \in Branches : op'[c].step = "idle" /\ InHand(c)'
  BY RestartMoves DEF Idle, InHand, At
<1>4. \A c \in Branches : OwesNodes(c) => OwesNodes(c)'
  BY RestartMoves DEF OwesNodes, Rebuilding
<1>5. \A c \in Branches : \A f : OwesRetract(c, f) => OwesRetract(c, f)'
  BY <1>1 DEF Restart, OwesRetract, At, SyncSteps
<1>6. UNCHANGED <<facts, live, mingled>>
  BY RestartMoves DEF store
<1>7. QED
  BY <1>2, <1>3, <1>4, <1>5, <1>6 DEF GraphInv, Alone, Missing, Extra, Free, At

LEMMA GraphNext == TypeOK /\ GraphInv /\ [Next]_vars => GraphInv'
<1> SUFFICES ASSUME TypeOK, GraphInv, [Next]_vars PROVE GraphInv'
  OBVIOUS
<1>1. ASSUME NEW b \in Branches, RebuildStep(b) PROVE GraphInv'
  BY <1>1, BeforeGraph, WriteGraphGraph, AfterGraph DEF RebuildStep
<1>2. CASE UNCHANGED vars
  BY <1>2 DEF vars, store, meta, GraphInv, LinkedEver, Alone, Missing, Extra, InHand, Linked, Ever,
     HeadOf, OwesNodes, OwesRetract, Unhealed, Free, At
<1>3. QED
  BY <1>1, <1>2, NextCases, OutsideGraph, SyncStepGraph, RestartGraph DEF CleanRestart, Crash

(* Which rows may lack a live node, which live nodes a row, and whose      *)
(* work it is to make them agree.                                          *)
THEOREM GraphInvCorrect == Spec => []GraphInv
BY InitTypes, NextTypes, GraphInit, GraphNext, PTL DEF Spec

(* Fact rows and live nodes agree when nothing runs or is due, as long as  *)
(* operations on two branches never overlapped.                            *)
THEOREM GraphCorrect == Spec => []GraphIsCoherent
<1>1. GraphInv => GraphIsCoherent
  BY StepNames DEF GraphInv, GraphIsCoherent, GraphCoherent, Missing, Extra, OwesNodes, OwesRetract,
     Unhealed, Free, At
<1>2. QED  BY <1>1, GraphInvCorrect, PTL
=============================================================================
