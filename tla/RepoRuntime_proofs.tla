------------------------- MODULE RepoRuntime_proofs -------------------------
(***************************************************************************)
(* RepoRuntime for any number of users, activations, swaps and teardowns:  *)
(* an acquired store stays open, and unless an activation or another swap  *)
(* overlaps it, so does the store of the background work.                  *)
(***************************************************************************)
EXTENDS RepoRuntime, FiniteSetTheorems, TLAPS

LEMMA Roles ==
    /\ Users \subseteq Procs /\ Activators \subseteq Procs
    /\ Detachers \subseteq Procs /\ Swappers \subseteq Detachers
    /\ Closers \subseteq Detachers
    /\ \A u \in Users : u \notin Activators /\ u \notin Detachers
    /\ \A a \in Activators : a \notin Detachers
    /\ \A s \in Swappers : s \notin Closers
BY RolesAssumption DEF Procs, Detachers

LEMMA Bounds == 1 \in Gens /\ 1 \in Ctxs /\ Gens \subseteq Nat /\ Ctxs \subseteq Nat
BY BoundAssumption DEF Gens, Ctxs

(* The steps a process may be sent to.                                      *)
LEMMA GotoType ==
    ASSUME pc \in [Procs -> PcType], NEW p \in Procs, NEW step \in PcType,
           Goto(p, step)
    PROVE  /\ pc' \in [Procs -> PcType] /\ pc'[p] = step
           /\ \A q \in Procs : q # p => pc'[q] = pc[q]
BY DEF Goto

LEMMA InitTypes == Init => TypeOK
<1> SUFFICES ASSUME Init PROVE TypeOK
  OBVIOUS
<1> USE Bounds DEF Init, NoGen, NoCtx
<1>1. gens \in Gens /\ open \subseteq 1 .. gens
  OBVIOUS
<1>2. root \in [Gens -> Roots \cup {NoRoot}]
  OBVIOUS
<1>3. StoreTypes
  BY <1>1, <1>2 DEF StoreTypes
<1>4. SyncTypes
  <2>1. pc \in [Procs -> PcType]
    BY DEF PcType
  <2>2. overlapped \in BOOLEAN /\ origin \in BOOLEAN
    OBVIOUS
  <2>3. QED  BY <2>1, <2>2 DEF SyncTypes
<1>5. \A u \in Users : pc[u] # "using"
  BY Roles
<1>6. QED  BY <1>3, <1>4, <1>5 DEF TypeOK

LEMMA UserTypes ==
    ASSUME TypeOK, NEW u \in Users, UserStep(u) PROVE TypeOK'
<1> USE Roles DEF TypeOK, StoreTypes, SyncTypes, Acquire, Release
<1>0. {"using", "idle", "deactivate"} \subseteq PcType
  BY DEF PcType
<1>1. CASE UserAcquires(u)
  BY <1>0, <1>1, GotoType DEF UserAcquires, stores, cancels, loops, indexer
<1>2. CASE UserReleases(u)
  BY <1>0, <1>2, GotoType DEF UserReleases, stores, cancels, loops, indexer
<1>3. CASE Identify(u)
  BY <1>3, Bounds DEF Identify, stores, cancels, loops, indexer
<1>4. CASE DeleteOrigin(u)
  <2>1. /\ pc' \in [Procs -> PcType] /\ pc'[u] = "deactivate"
        /\ \A q \in Procs : q # u => pc'[q] = pc[q]
    BY <1>0, <1>4, GotoType DEF DeleteOrigin
  <2>2. held' = [held EXCEPT ![u] = NoGen] /\ origin' = FALSE
    BY <1>4 DEF DeleteOrigin
  <2>3. UNCHANGED <<stores, cancels, loops, indexer, id, overlapped>>
    BY <1>4 DEF DeleteOrigin
  <2>4. QED  BY <2>1, <2>2, <2>3 DEF stores, cancels, loops, indexer
<1>5. CASE DeactivateSync(u)
  BY <1>0, <1>5, GotoType DEF DeactivateSync, Cancelled, stores, loops, indexer
<1>6. QED  BY <1>1, <1>2, <1>3, <1>4, <1>5 DEF UserStep

LEMMA ActivationTypes ==
    ASSUME TypeOK, NEW a \in Activators, Activate(a) \/ ActivationStep(a)
    PROVE  TypeOK'
<1> USE Roles DEF TypeOK, StoreTypes, SyncTypes, Acquire, Release
<1>0. {"idle", "check", "wait", "renew", "publish", "sync"} \subseteq PcType
  BY DEF PcType, ActivationSteps
<1>1. CASE Activate(a)
  BY <1>0, <1>1, GotoType DEF Activate, Overlap, stores, cancels, loops, indexer
<1>2. CASE ActivateRefused(a)
  BY <1>0, <1>2, GotoType
     DEF ActivateRefused, ActivationEnds, stores, loops, indexer
<1>3. CASE CancelLast(a)
  BY <1>0, <1>3, GotoType DEF CancelLast, Cancelled, stores, loops, indexer
<1>4. CASE AwaitOldLoop(a)
  BY <1>0, <1>4, GotoType DEF AwaitOldLoop, stores, cancels, loops, indexer
<1>5. CASE Renew(a)
  <2>1. nctx + 1 \in Ctxs
    BY <1>5, BoundAssumption DEF Renew, Ctxs
  <2>2. QED
    BY <1>0, <1>5, <2>1, GotoType DEF Renew, stores, loops, indexer
<1>6. CASE Publish(a)
  BY <1>0, <1>6, GotoType DEF Publish, stores, loops, indexer
<1>7. CASE ActivateFails(a)
  BY <1>0, <1>7, GotoType
     DEF ActivateFails, ActivationEnds, stores, loops, indexer
<1>8. CASE StartLoop(a)
  <2>1. /\ pc' \in [Procs -> PcType] /\ pc'[a] = "idle"
        /\ \A q \in Procs : q # a => pc'[q] = pc[q]
    BY <1>0, <1>8, GotoType DEF StartLoop, ActivationEnds
  <2>2. /\ held' = [held EXCEPT ![a] = NoGen] /\ mine' = [mine EXCEPT ![a] = NoCtx]
        /\ loop' \in [Ctxs -> {"none", "returned"} \cup Live]
        /\ loopGen' \in [Ctxs -> Gens \cup {NoGen}]
    BY <1>8 DEF StartLoop, ActivationEnds, Spawn, Live
  <2>3. UNCHANGED <<stores, origin, nctx, cancelled, lastCancel, riCancel,
                    indexer, id, overlapped>>
    BY <1>8 DEF StartLoop
  <2>4. QED  BY <2>1, <2>2, <2>3 DEF stores, indexer
<1>9. QED
  BY <1>1, <1>2, <1>3, <1>4, <1>5, <1>6, <1>7, <1>8 DEF ActivationStep

LEMMA LoopTypes ==
    ASSUME TypeOK, NEW c \in Ctxs, LoopStep(c) PROVE TypeOK'
<1>1. /\ UNCHANGED <<stores, held, pc, origin, cancels, loopGen, indexer, id,
                     overlapped>>
      /\ loop' \in [Ctxs -> {"none", "returned"} \cup Live]
  BY DEF LoopStep, FirstTick, NextTick, TickBegins, TickEnds, LoopReturns,
         TypeOK, SyncTypes, Live
<1>2. QED
  BY <1>1 DEF TypeOK, StoreTypes, SyncTypes, stores, cancels, indexer

LEMMA HealTypes == ASSUME TypeOK, HealStep PROVE TypeOK'
<1>1. /\ UNCHANGED <<stores, held, pc, origin, cancels, id, overlapped>>
      /\ UNCHANGED healCancelled /\ heal' \in {"activating", "done"}
      /\ index' \in {"indexing", "ready", "failed"}
      /\ UNCHANGED loops \/ Spawn(1, 1)
  BY DEF HealStep, HealAborts, HealRecovers, HealActivates, TypeOK, SyncTypes
<1>2. /\ loop' \in [Ctxs -> {"none", "returned"} \cup Live]
      /\ loopGen' \in [Ctxs -> Gens \cup {NoGen}]
  BY <1>1, Bounds DEF Spawn, Live, loops, TypeOK, SyncTypes
<1>3. QED
  BY <1>1, <1>2 DEF TypeOK, StoreTypes, SyncTypes, stores, cancels

(* The store a swap opens.                                                  *)
LEMMA NextGen ==
    ASSUME TypeOK, gens < MaxGen
    PROVE  /\ gens + 1 \in Gens /\ gens + 1 # NoGen
           /\ gens + 1 \notin open
           /\ open \cup {gens + 1} \subseteq 1 .. gens + 1
BY BoundAssumption DEF TypeOK, StoreTypes, Gens, NoGen

LEMMA DetachTypes ==
    ASSUME TypeOK, NEW p \in Detachers, CancelBackground(p) \/ DetachStep(p)
    PROVE  TypeOK'
<1> USE Roles DEF TypeOK, StoreTypes, SyncTypes
<1>0. {"index", "loops", "detach", "drain", "done", "open"} \subseteq PcType
  BY DEF PcType, DetachSteps, SwapSteps
<1>1. CASE CancelBackground(p)
  BY <1>0, <1>1, GotoType
     DEF CancelBackground, Cancelled, Overlap, stores, loops
<1>2. CASE AwaitHeal(p)
  BY <1>0, <1>2, GotoType DEF AwaitHeal, stores, cancels, loops, indexer
<1>3. CASE AwaitLoops(p)
  BY <1>0, <1>3, GotoType DEF AwaitLoops, stores, cancels, loops, indexer
<1>4. CASE Detach(p)
  BY <1>0, <1>4, GotoType DEF Detach, cancels, loops, indexer
<1>5. CASE DrainAndClose(p)
  BY <1>0, <1>5, GotoType DEF DrainAndClose, cancels, loops, indexer
<1>6. QED  BY <1>1, <1>2, <1>3, <1>4, <1>5 DEF DetachStep

LEMMA SwapTypes ==
    ASSUME TypeOK, NEW s \in Swappers, SwapStep(s) PROVE TypeOK'
<1> USE Roles DEF TypeOK, StoreTypes, SyncTypes
<1>0. {"idle", "attach", "reattach", "record"} \subseteq PcType
  BY DEF PcType, SwapSteps
<1>1. CASE OpenSwapped(s)
  BY <1>0, <1>1, GotoType, NextGen DEF OpenSwapped, cancels, loops, indexer
<1>2. CASE ReopenLocal(s)
  BY <1>0, <1>2, GotoType, NextGen DEF ReopenLocal, cancels, loops, indexer
<1>3. CASE StoreLost(s)
  BY <1>0, <1>3, GotoType DEF StoreLost, cancels, loops, indexer
<1>4. CASE Reattach(s)
  <2>1. /\ handle' \in Gens \cup {NoGen} /\ open' \subseteq 1 .. gens
        /\ closed => handle' = NoGen
    BY <1>4 DEF Reattach, Attach
  <2>2. (IF pc[s] = "attach" THEN "record" ELSE "idle") \in PcType
    BY <1>0
  <2>3. pc' \in [Procs -> PcType] /\ \A q \in Procs : q # s => pc'[q] = pc[q]
    BY <1>4, <2>2, GotoType DEF Reattach
  <2>4. taken' \in [Detachers -> Gens \cup {NoGen}]
    BY <1>4 DEF Reattach
  <2>5. QED
    BY <1>4, <2>1, <2>3, <2>4 DEF Reattach, cancels, loops, indexer
<1>5. CASE RecordIdentity(s)
  BY <1>0, <1>5, GotoType, Bounds
     DEF RecordIdentity, FreshIdentity, stores, cancels, loops, indexer
<1>6. QED  BY <1>1, <1>2, <1>3, <1>4, <1>5 DEF SwapStep

LEMMA NextTypes == ASSUME TypeOK, [Next]_vars PROVE TypeOK'
<1>1. CASE UNCHANGED vars
  BY <1>1 DEF vars, stores, cancels, loops, indexer, TypeOK, StoreTypes, SyncTypes
<1>2. CASE Next
  BY <1>2, UserTypes, ActivationTypes, LoopTypes, HealTypes, DetachTypes,
     SwapTypes DEF Next
<1>3. QED  BY <1>1, <1>2

(* The types of the instance, and that teardown is for good, for any number of
   callers and any bounds.                                                  *)
THEOREM TypeCorrect == Spec => []TypeOK
BY InitTypes, NextTypes, PTL DEF Spec
-----------------------------------------------------------------------------
(* What keeps an acquired store open: the attached store is open, and so is
   one that was taken out and not yet closed, which is nobody else's; one that
   is about to be attached has no users yet.                                *)
Owns(p) == pc[p] \in {"drain", "attach", "reattach"} /\ taken[p] # NoGen

StoreInv ==
    /\ handle # NoGen => handle \in open
    /\ \A p \in Detachers : Owns(p) => taken[p] \in open /\ taken[p] # handle
    /\ \A p, q \in Detachers :
          p # q /\ Owns(p) /\ Owns(q) => taken[p] # taken[q]
    /\ \A p \in Detachers :
          pc[p] \in {"attach", "reattach"} =>
             taken[p] # NoGen /\ \A q \in Procs : held[q] # taken[p]
    /\ AcquiredStaysOpen

(* What keeps the store of the background work open: nobody gets past the wait
   for the heal before it is done; and without an overlap, nobody gets past the
   wait for the loops while there is one, or may be one.                    *)
HealInv ==
    /\ \A p \in Detachers :
          pc[p] \in {"loops", "detach", "drain"} \cup SwapSteps => heal = "done"
    /\ heal # "done" => handle = 1

LoopInv ==
    ~overlapped =>
       /\ \A a \in Activating :
             /\ held[a] = handle /\ handle # NoGen
             /\ \A p \in Detachers : pc[p] \in {"idle", "done"}
       /\ \A p \in Detachers :
             pc[p] \in {"detach", "drain"} \cup SwapSteps => NoLoops
       /\ \A c \in Ctxs : loop[c] \in Live => loopGen[c] = handle /\ handle # NoGen

Inv == TypeOK /\ StoreInv /\ HealInv /\ LoopInv

LEMMA InitInv == Init => Inv
<1> SUFFICES ASSUME Init PROVE Inv
  OBVIOUS
<1>1. TypeOK
  BY InitTypes
<1>2. \A p \in Procs : pc[p] = "idle" /\ held[p] = NoGen
  BY DEF Init
<1>3. StoreInv
  BY <1>2, Roles DEF Init, StoreInv, Owns, AcquiredStaysOpen, NoGen
<1>4. HealInv
  BY <1>2, Roles DEF Init, HealInv, SwapSteps
<1>5. LoopInv
  BY <1>2, Roles DEF Init, LoopInv, Activating, SwapSteps, Live
<1>6. QED  BY <1>1, <1>3, <1>4, <1>5 DEF Inv

(* A step that leaves the stores alone, and sends no detacher where it would
   own one; references are released, or taken to the attached store.        *)
LEMMA StoresAlone ==
    ASSUME Inv, UNCHANGED stores,
           \A p \in Detachers : pc'[p] \in {"drain", "attach", "reattach"}
                                   => pc'[p] = pc[p],
           \A q \in Procs : held'[q] \in {held[q], NoGen, handle}
    PROVE  StoreInv'
<1> USE DEF Inv, stores
<1>1. \A p \in Detachers : Owns(p)' => Owns(p)
  BY DEF Owns
<1>2. /\ (handle # NoGen => handle \in open)'
      /\ (\A p \in Detachers : Owns(p) => taken[p] \in open /\ taken[p] # handle)'
      /\ (\A p, q \in Detachers :
             p # q /\ Owns(p) /\ Owns(q) => taken[p] # taken[q])'
  BY <1>1 DEF StoreInv
<1>3. ASSUME NEW p \in Detachers, pc'[p] \in {"attach", "reattach"}
      PROVE  taken[p] # NoGen /\ \A q \in Procs : held'[q] # taken[p]
  BY <1>3 DEF StoreInv, Owns
<1>4. AcquiredStaysOpen'
  BY DEF StoreInv, AcquiredStaysOpen
<1>5. QED  BY <1>2, <1>3, <1>4 DEF StoreInv

LEMMA UserInv ==
    ASSUME Inv, NEW u \in Users, UserStep(u) PROVE Inv'
<1> USE Roles DEF Inv
<1>1. /\ UNCHANGED <<stores, loops, indexer, overlapped>>
      /\ \A p \in Procs : p # u => pc'[p] = pc[p] /\ held'[p] = held[p]
      /\ held'[u] \in {held[u], NoGen, handle}
  BY DEF UserStep, UserAcquires, UserReleases, Identify, DeleteOrigin,
         DeactivateSync, Acquire, Release, Goto, TypeOK, StoreTypes, SyncTypes
<1>2. TypeOK'
  BY UserTypes
<1>3. StoreInv'
  BY <1>1, StoresAlone
<1>4. HealInv'
  BY <1>1 DEF HealInv, stores, indexer
<1>5. LoopInv'
  BY <1>1 DEF LoopInv, Activating, NoLoops, stores, loops
<1>6. QED  BY <1>2, <1>3, <1>4, <1>5

LEMMA ActivationInv ==
    ASSUME Inv, NEW a \in Activators, Activate(a) \/ ActivationStep(a)
    PROVE  Inv'
<1> USE Roles DEF Inv
<1>1. /\ UNCHANGED <<stores, indexer>>
      /\ \A p \in Procs : p # a => pc'[p] = pc[p] /\ held'[p] = held[p]
      /\ held'[a] \in {held[a], NoGen, handle}
  BY DEF ActivationStep, Activate, ActivateRefused, CancelLast, AwaitOldLoop,
         Renew, Publish, ActivateFails, StartLoop, ActivationEnds, Acquire,
         Release, Goto, TypeOK, StoreTypes, SyncTypes
<1>2. TypeOK'
  BY ActivationTypes
<1>3. StoreInv'
  BY <1>1, StoresAlone
<1>4. HealInv'
  BY <1>1 DEF HealInv, stores, indexer
<1>5. ASSUME ~overlapped' PROVE LoopInv'
  <2>1. CASE Activate(a)
    <3>1. /\ ~overlapped /\ Activating = {} /\ Swapping = {} /\ TearingDown = {}
      BY <1>5, <2>1 DEF Activate, Overlap, TypeOK, SyncTypes
    <3>2. \A p \in Detachers : pc[p] \in {"idle", "done"}
      BY <3>1 DEF Swapping, TearingDown, Detachers
    <3>3. handle # NoGen /\ held'[a] = handle /\ UNCHANGED loops
      BY <2>1 DEF Activate, Acquire, TypeOK, StoreTypes
    <3>4. Activating' \subseteq {a}
      BY <1>1, <3>1 DEF Activating
    <3>5. QED
      BY <1>1, <3>1, <3>2, <3>3, <3>4 DEF LoopInv, NoLoops, SwapSteps, stores, loops
  <2>2. CASE ActivationStep(a)
    <3>1. overlapped' = overlapped /\ a \in Activating
      BY <2>2 DEF ActivationStep, ActivateRefused, CancelLast, AwaitOldLoop,
                  Renew, Publish, ActivateFails, StartLoop, Activating
    <3>2. held[a] = handle /\ handle # NoGen
          /\ \A p \in Detachers : pc[p] \in {"idle", "done"}
      BY <1>5, <3>1 DEF LoopInv
    <3>3. /\ Activating' \subseteq Activating
          /\ a \in Activating' => held'[a] = held[a]
      BY <1>1, <2>2, <3>1
         DEF ActivationStep, ActivateRefused, CancelLast, AwaitOldLoop, Renew,
             Publish, ActivateFails, StartLoop, ActivationEnds, Goto, Activating,
             TypeOK, SyncTypes
    <3>4. \A c \in Ctxs : loop'[c] \in Live
                             => loopGen'[c] = handle
      <4>1. UNCHANGED loops \/ Spawn(mine[a], held[a])
        BY <2>2 DEF ActivationStep, ActivateRefused, CancelLast, AwaitOldLoop,
                    Renew, Publish, ActivateFails, StartLoop
      <4>2. QED
        BY <1>5, <3>1, <3>2, <4>1 DEF LoopInv, Spawn, loops, TypeOK, SyncTypes
    <3>5. \A p \in Detachers : pc'[p] \in {"idle", "done"}
      BY <1>1, <3>2
    <3>6. \A b \in Activating' : held'[b] = handle
      BY <1>1, <1>5, <3>1, <3>2, <3>3 DEF LoopInv, Activating
    <3>7. QED
      BY <1>1, <3>2, <3>4, <3>5, <3>6 DEF LoopInv, SwapSteps, stores
  <2>3. QED  BY <2>1, <2>2
<1>6. LoopInv'
  BY <1>5 DEF LoopInv
<1>7. QED  BY <1>2, <1>3, <1>4, <1>6

LEMMA LoopsInv ==
    ASSUME Inv, NEW c \in Ctxs, LoopStep(c) PROVE Inv'
<1> USE DEF Inv
<1>1. /\ UNCHANGED <<stores, held, pc, loopGen, indexer, overlapped>>
      /\ \A d \in Ctxs : loop'[d] \in Live => loop[d] \in Live
  BY DEF LoopStep, FirstTick, NextTick, TickBegins, TickEnds, LoopReturns,
         TypeOK, SyncTypes, Live
<1>2. TypeOK'
  BY LoopTypes
<1>3. StoreInv'
  BY <1>1, StoresAlone
<1>4. HealInv'
  BY <1>1 DEF HealInv, stores, indexer
<1>5. LoopInv'
  BY <1>1 DEF LoopInv, Activating, NoLoops, stores
<1>6. QED  BY <1>2, <1>3, <1>4, <1>5

LEMMA HealingInv == ASSUME Inv, HealStep PROVE Inv'
<1> USE DEF Inv
<1>1. /\ UNCHANGED <<stores, held, pc, overlapped>>
      /\ heal # "done"
      /\ UNCHANGED loops \/ Spawn(1, 1)
  BY DEF HealStep, HealAborts, HealRecovers, HealActivates
<1>2. TypeOK'
  BY HealTypes
<1>3. StoreInv'
  BY <1>1, StoresAlone
<1>4. handle = 1 /\ \A p \in Detachers :
                       pc[p] \notin {"loops", "detach", "drain"} \cup SwapSteps
  BY <1>1 DEF HealInv
<1>5. HealInv'
  BY <1>1, <1>4 DEF HealInv, stores
<1>6. \A d \in Ctxs : loop'[d] \in Live => loop[d] \in Live \/ loopGen'[d] = 1
  BY <1>1 DEF Spawn, loops, TypeOK, SyncTypes
<1>7. \A d \in Ctxs : loopGen'[d] \in {loopGen[d], 1}
  BY <1>1 DEF Spawn, loops, TypeOK, SyncTypes
<1>8. LoopInv'
  BY <1>1, <1>4, <1>6, <1>7 DEF LoopInv, Activating, stores, NoGen
<1>9. QED  BY <1>2, <1>3, <1>5, <1>8

LEMMA DetachInv ==
    ASSUME Inv, NEW p \in Detachers, CancelBackground(p) \/ DetachStep(p)
    PROVE  Inv'
<1> USE Roles DEF Inv
<1>1. /\ UNCHANGED <<held, loops, heal>>
      /\ \A q \in Procs : q # p => pc'[q] = pc[q]
  BY DEF DetachStep, CancelBackground, AwaitHeal, AwaitLoops, Detach,
         DrainAndClose, Goto, indexer, TypeOK, SyncTypes
<1>2. TypeOK'
  BY DetachTypes
<1>3. UNCHANGED Activating
  BY <1>1 DEF Activating
<1>4. CASE CancelBackground(p)
  <2>1. UNCHANGED stores /\ pc'[p] = "index"
    BY <1>4 DEF CancelBackground, Goto, TypeOK, SyncTypes
  <2>2. StoreInv'
    BY <1>1, <2>1, StoresAlone
  <2>3. HealInv'
    BY <1>1, <2>1 DEF HealInv, SwapSteps, stores
  <2>4. ~overlapped' => ~overlapped /\ Activating = {}
    BY <1>4 DEF CancelBackground, Overlap, TypeOK, SyncTypes
  <2>5. LoopInv'
    BY <1>1, <1>3, <2>1, <2>4 DEF LoopInv, NoLoops, SwapSteps, stores, loops
  <2>6. QED  BY <1>2, <2>2, <2>3, <2>5
<1>5. CASE AwaitHeal(p)
  <2>1. /\ UNCHANGED <<stores, overlapped>> /\ pc'[p] = "loops"
        /\ pc[p] = "index" /\ heal = "done"
    BY <1>5 DEF AwaitHeal, Goto, TypeOK, SyncTypes
  <2>2. StoreInv'
    BY <1>1, <2>1, StoresAlone
  <2>3. HealInv'
    BY <1>1, <2>1 DEF HealInv, stores
  <2>4. LoopInv'
    BY <1>1, <1>3, <2>1 DEF LoopInv, NoLoops, SwapSteps, stores, loops
  <2>5. QED  BY <1>2, <2>2, <2>3, <2>4
<1>6. CASE AwaitLoops(p)
  <2>1. /\ UNCHANGED <<stores, overlapped>> /\ pc'[p] = "detach"
        /\ pc[p] = "loops" /\ NoLoops
    BY <1>6 DEF AwaitLoops, Goto, TypeOK, SyncTypes
  <2>2. StoreInv'
    BY <1>1, <2>1, StoresAlone
  <2>3. HealInv'
    BY <1>1, <2>1 DEF HealInv, stores
  <2>4. LoopInv'
    BY <1>1, <1>3, <2>1 DEF LoopInv, NoLoops, stores, loops
  <2>5. QED  BY <1>2, <2>2, <2>3, <2>4
<1>7. CASE Detach(p)
  <2>1. /\ UNCHANGED <<open, overlapped>> /\ handle' = NoGen
        /\ pc[p] = "detach" /\ pc'[p] = "drain" /\ taken'[p] = handle
        /\ \A q \in Detachers : q # p => taken'[q] = taken[q]
    BY <1>7 DEF Detach, Goto, TypeOK, StoreTypes, SyncTypes
  <2>2. /\ \A q \in Detachers : q # p => (Owns(q)' <=> Owns(q))
        /\ Owns(p)' => handle # NoGen
    BY <1>1, <2>1 DEF Owns
  <2>3. StoreInv'
    BY <1>1, <2>1, <2>2 DEF StoreInv, AcquiredStaysOpen, Owns
  <2>4. heal = "done"
    BY <2>1 DEF HealInv
  <2>5. HealInv'
    BY <1>1, <2>4 DEF HealInv
  <2>6. ~overlapped => NoLoops /\ Activating = {}
    BY <2>1 DEF LoopInv
  <2>7. LoopInv'
    BY <1>1, <1>3, <2>1, <2>6 DEF LoopInv, NoLoops, loops
  <2>8. QED  BY <1>2, <2>3, <2>5, <2>7
<1>8. CASE DrainAndClose(p)
  <2>1. /\ UNCHANGED <<handle, taken, overlapped>> /\ open' = open \ {taken[p]}
        /\ pc[p] = "drain" /\ pc'[p] \in {"done", "open"}
        /\ taken[p] # NoGen => Drained(taken[p])
    BY <1>8 DEF DrainAndClose, Goto, TypeOK, StoreTypes, SyncTypes
  <2>2. /\ ~Owns(p)'
        /\ \A q \in Detachers : q # p => (Owns(q)' <=> Owns(q))
    BY <1>1, <2>1 DEF Owns
  <2>3. taken[p] # NoGen => Owns(p)
    BY <2>1 DEF Owns
  <2>4. (handle # NoGen => handle \in open)'
    BY <2>1, <2>3 DEF StoreInv
  <2>5. ASSUME NEW q \in Detachers, Owns(q)'
        PROVE  (taken[q] \in open /\ taken[q] # handle)'
    BY <2>1, <2>2, <2>3, <2>5 DEF StoreInv, Owns
  <2>6. AcquiredStaysOpen'
    BY <1>1, <2>1 DEF StoreInv, AcquiredStaysOpen, Drained
  <2>7. /\ (\A q, r \in Detachers :
               q # r /\ Owns(q) /\ Owns(r) => taken[q] # taken[r])'
        /\ (\A q \in Detachers :
               pc[q] \in {"attach", "reattach"} =>
                  taken[q] # NoGen /\ \A r \in Procs : held[r] # taken[q])'
    BY <1>1, <2>1, <2>2 DEF StoreInv
  <2>8. StoreInv'
    BY <2>4, <2>5, <2>6, <2>7 DEF StoreInv
  <2>9. HealInv'
    BY <1>1, <2>1 DEF HealInv, SwapSteps
  <2>10. LoopInv'
    BY <1>1, <1>3, <2>1 DEF LoopInv, NoLoops, SwapSteps, loops
  <2>11. QED  BY <1>2, <2>8, <2>9, <2>10
<1>9. QED  BY <1>4, <1>5, <1>6, <1>7, <1>8 DEF DetachStep

(* Both ways a swap opens a store: nobody else has it, and nobody uses it.  *)
LEMMA OpensStore ==
    ASSUME Inv, NEW s \in Swappers, OpenSwapped(s) \/ ReopenLocal(s)
    PROVE  StoreInv'
<1> USE Roles DEF Inv
<1> DEFINE new == gens + 1
<1>1. /\ gens < MaxGen /\ open' = open \cup {new} /\ UNCHANGED <<handle, held>>
      /\ taken' = [taken EXCEPT ![s] = new]
      /\ pc[s] = "open" /\ pc'[s] \in {"attach", "reattach"}
      /\ \A q \in Procs : q # s => pc'[q] = pc[q]
  BY DEF OpenSwapped, ReopenLocal, Goto, TypeOK, SyncTypes
<1>2. new \notin open /\ new # NoGen
  BY <1>1, NextGen
<1> HIDE DEF new
<1>3. taken'[s] = new /\ \A q \in Detachers : q # s => taken'[q] = taken[q]
  BY <1>1 DEF TypeOK, StoreTypes
<1>4. \A q \in Detachers : q # s => (Owns(q)' <=> Owns(q))
  BY <1>1, <1>3 DEF Owns
<1>5. new # handle /\ \A q \in Procs : held[q] # new
  BY <1>2 DEF StoreInv, AcquiredStaysOpen
<1>6. \A q \in Detachers : Owns(q) => taken[q] # new
  BY <1>2 DEF StoreInv
<1>7. (\A q, r \in Detachers : q # r /\ Owns(q) /\ Owns(r) => taken[q] # taken[r])'
  BY <1>3, <1>4, <1>6 DEF StoreInv
<1>8. (\A q \in Detachers : Owns(q) => taken[q] \in open /\ taken[q] # handle)'
  BY <1>1, <1>3, <1>4, <1>5 DEF StoreInv
<1>9. (\A q \in Detachers : pc[q] \in {"attach", "reattach"} =>
                              taken[q] # NoGen /\ \A r \in Procs : held[r] # taken[q])'
  BY <1>1, <1>2, <1>3, <1>5 DEF StoreInv
<1>10. (handle # NoGen => handle \in open)' /\ AcquiredStaysOpen'
  BY <1>1 DEF StoreInv, AcquiredStaysOpen
<1>11. QED  BY <1>7, <1>8, <1>9, <1>10 DEF StoreInv

(* The store a swap attaches, or closes again, is nobody else's.            *)
LEMMA AttachesStore ==
    ASSUME Inv, NEW s \in Swappers, Reattach(s) PROVE StoreInv'
<1> USE Roles DEF Inv
<1>1. /\ pc[s] \in {"attach", "reattach"} /\ pc'[s] \in {"record", "idle"}
      /\ \A q \in Procs : q # s => pc'[q] = pc[q]
      /\ \A q \in Detachers : q # s => taken'[q] = taken[q]
      /\ UNCHANGED held
  BY DEF Reattach, Goto, TypeOK, StoreTypes, SyncTypes
<1>2. /\ Owns(s) /\ taken[s] \in open /\ taken[s] # handle
      /\ \A q \in Procs : held[q] # taken[s]
  BY <1>1 DEF StoreInv, Owns
<1>3. \/ open' = open \ {taken[s]} /\ UNCHANGED handle
      \/ handle' = taken[s] /\ UNCHANGED open
  BY DEF Reattach, Attach
<1>4. ~Owns(s)' /\ \A q \in Detachers : q # s => (Owns(q)' <=> Owns(q))
  BY <1>1 DEF Owns
<1>5. \A q \in Detachers : q # s /\ Owns(q) => taken[q] # taken[s]
  BY <1>2 DEF StoreInv
<1>6. (\A q \in Detachers : Owns(q) => taken[q] \in open /\ taken[q] # handle)'
  BY <1>1, <1>3, <1>4, <1>5 DEF StoreInv
<1>7. (\A q, r \in Detachers : q # r /\ Owns(q) /\ Owns(r) => taken[q] # taken[r])'
  BY <1>1, <1>4 DEF StoreInv
<1>8. (\A q \in Detachers : pc[q] \in {"attach", "reattach"} =>
                              taken[q] # NoGen /\ \A r \in Procs : held[r] # taken[q])'
  BY <1>1 DEF StoreInv
<1>9. (handle # NoGen => handle \in open)' /\ AcquiredStaysOpen'
  BY <1>1, <1>2, <1>3 DEF StoreInv, AcquiredStaysOpen
<1>10. QED  BY <1>6, <1>7, <1>8, <1>9 DEF StoreInv

LEMMA SwapInv ==
    ASSUME Inv, NEW s \in Swappers, SwapStep(s) PROVE Inv'
<1> USE Roles DEF Inv
<1>1. /\ UNCHANGED <<held, loops, heal, overlapped>>
      /\ \A q \in Procs : q # s => pc'[q] = pc[q]
      /\ pc[s] \in SwapSteps
      /\ pc'[s] \in {"idle", "attach", "reattach", "record"}
  BY DEF SwapStep, OpenSwapped, ReopenLocal, StoreLost, Reattach, RecordIdentity,
         Goto, SwapSteps, indexer, TypeOK, SyncTypes
<1>2. TypeOK'
  BY SwapTypes
<1>3. StoreInv'
  <2>1. CASE StoreLost(s)
    <3>1. /\ UNCHANGED <<handle, open>> /\ pc'[s] = "idle"
          /\ \A q \in Detachers : q # s => taken'[q] = taken[q]
      BY <2>1 DEF StoreLost, Goto, TypeOK, StoreTypes, SyncTypes
    <3>2. ~Owns(s)' /\ \A q \in Detachers : q # s => (Owns(q)' <=> Owns(q))
      BY <1>1, <3>1 DEF Owns
    <3>3. QED
      BY <1>1, <3>1, <3>2 DEF StoreInv, AcquiredStaysOpen
  <2>2. CASE RecordIdentity(s)
    BY <1>1, <2>2, StoresAlone DEF RecordIdentity, Goto, TypeOK, SyncTypes
  <2>3. QED
    BY <2>1, <2>2, OpensStore, AttachesStore DEF SwapStep
<1>4. heal = "done"
  BY <1>1 DEF HealInv
<1>5. HealInv'
  BY <1>1, <1>4 DEF HealInv
<1>6. ~overlapped => NoLoops /\ Activating = {}
  BY <1>1 DEF LoopInv, SwapSteps
<1>7. UNCHANGED Activating
  BY <1>1 DEF Activating
<1>8. LoopInv'
  BY <1>1, <1>6, <1>7 DEF LoopInv, NoLoops, loops
<1>9. QED  BY <1>2, <1>3, <1>5, <1>8

LEMMA NextInv == ASSUME Inv, [Next]_vars PROVE Inv'
<1>1. CASE UNCHANGED vars
  BY <1>1 DEF vars, stores, cancels, loops, indexer, Inv, TypeOK, StoreTypes,
              SyncTypes, StoreInv, Owns, AcquiredStaysOpen, HealInv, LoopInv,
              Activating, NoLoops
<1>2. CASE Next
  BY <1>2, UserInv, ActivationInv, LoopsInv, HealingInv, DetachInv, SwapInv
     DEF Next
<1>3. QED  BY <1>1, <1>2

THEOREM InvCorrect == Spec => []Inv
BY InitInv, NextInv, PTL DEF Spec

(* Acquire's promise, for any number of users, activations, swaps and
   teardowns in any overlap.                                                *)
THEOREM AcquireCorrect == Spec => []AcquiredStaysOpen
<1>1. Inv => AcquiredStaysOpen
  BY DEF Inv, StoreInv
<1>2. QED  BY <1>1, InvCorrect, PTL

(* The heal, and every tick of a reconcile loop, run on a store that is open,
   unless an activation overlapped a swap, a teardown or another activation,
   or two swaps overlapped.                                                 *)
THEOREM BackgroundCorrect == Spec => []BackgroundKeepsStore
<1>1. Inv => BackgroundKeepsStore
  BY DEF Inv, StoreInv, HealInv, LoopInv, BackgroundKeepsStore,
         BackgroundOnOpenStore, Live, NoGen
<1>2. QED  BY <1>1, InvCorrect, PTL
-----------------------------------------------------------------------------
(* What is left behind.  Steps of one process leave the others where they
   are.                                                                     *)
LEMMA OthersStay ==
    ASSUME TypeOK, NEW p \in Procs,
           \/ p \in Users /\ UserStep(p)
           \/ p \in Activators /\ (Activate(p) \/ ActivationStep(p))
           \/ p \in Detachers /\ (CancelBackground(p) \/ DetachStep(p))
           \/ p \in Swappers /\ SwapStep(p)
    PROVE  \A q \in Procs \ {p} : pc'[q] = pc[q] /\ held'[q] = held[q]
<1> USE DEF Goto, Release, Acquire, TypeOK, StoreTypes, SyncTypes
<1>1. CASE UserStep(p)
  BY <1>1 DEF UserStep, UserAcquires, UserReleases, Identify, DeleteOrigin, DeactivateSync
<1>2. CASE Activate(p) \/ ActivationStep(p)
  BY <1>2 DEF Activate, ActivationStep, ActivateRefused, CancelLast, AwaitOldLoop, Renew, Publish,
              ActivateFails, StartLoop, ActivationEnds
<1>3. CASE CancelBackground(p) \/ DetachStep(p)
  BY <1>3 DEF CancelBackground, DetachStep, AwaitHeal, AwaitLoops, Detach, DrainAndClose
<1>4. CASE SwapStep(p)
  BY <1>4 DEF SwapStep, OpenSwapped, ReopenLocal, StoreLost, Reattach, RecordIdentity
<1>5. QED  BY <1>1, <1>2, <1>3, <1>4

(* Without an overlap there is one activation, and one swap; while a swap has
   the store out nothing is attached.                                       *)
Separate == ~overlapped \/ LoneSwapper
HasStoreOut(s) == pc[s] \in {"drain", "open", "attach", "reattach"}

ApartInv ==
    /\ Separate => /\ \A s, t \in Swapping : s = t
                   /\ \A s \in Swappers : HasStoreOut(s) => handle = NoGen
    /\ ~overlapped => \A a, b \in Activating : a = b
    /\ \A k \in Closers : pc[k] \in {"drain", "done"} => closed

LEMMA ApartInit == Init => ApartInv
BY Roles DEF Init, ApartInv, Swapping, Activating, HasStoreOut

(* No detacher moves, and nothing is attached.                              *)
LEMMA ApartStays ==
    ASSUME ApartInv, UNCHANGED <<handle, closed, overlapped>>,
           \A p \in Detachers : pc'[p] = pc[p], Activating' \subseteq Activating
    PROVE  ApartInv'
BY Roles DEF ApartInv, Separate, Swapping, HasStoreOut

LEMMA ActivationApart ==
    ASSUME TypeOK, ApartInv, NEW a \in Activators, Activate(a) \/ ActivationStep(a)
    PROVE  ApartInv'
<1>1. UNCHANGED <<handle, closed>> /\ \A p \in Procs \ {a} : pc'[p] = pc[p]
  BY OthersStay, Roles DEF Activate, ActivationStep, ActivateRefused, CancelLast, AwaitOldLoop,
     Renew, Publish, ActivateFails, StartLoop, stores
<1>2. CASE Activate(a)
  <2>1. ~overlapped' => ~overlapped /\ Activating' \subseteq {a}
    BY <1>1, <1>2, Roles DEF Activate, Overlap, Activating, TypeOK, SyncTypes
  <2>2. QED
    BY <1>1, <2>1, Roles DEF ApartInv, Separate, Swapping, HasStoreOut
<1>3. CASE ActivationStep(a)
  <2>1. overlapped' = overlapped /\ a \in Activating
    BY <1>3 DEF ActivationStep, ActivateRefused, CancelLast, AwaitOldLoop, Renew, Publish,
       ActivateFails, StartLoop, Activating
  <2>2. Activating' \subseteq Activating
    BY <1>1, <2>1, Roles DEF Activating
  <2>3. QED  BY <1>1, <2>1, <2>2, ApartStays, Roles
<1>4. QED  BY <1>2, <1>3

LEMMA DetachApart ==
    ASSUME TypeOK, ApartInv, NEW p \in Detachers, CancelBackground(p) \/ DetachStep(p)
    PROVE  ApartInv'
<1>1. \A q \in Procs \ {p} : pc'[q] = pc[q]
  BY OthersStay, Roles
<1>2. Activating' = Activating
  BY <1>1, Roles DEF Activating
<1>3. CASE CancelBackground(p)
  <2>1. UNCHANGED <<handle, closed>> /\ pc'[p] = "index" /\ (~overlapped' => ~overlapped)
    BY <1>3, Roles DEF CancelBackground, Overlap, Goto, stores, TypeOK, SyncTypes
  <2>2. \/ LoneSwapper
        \/ p \notin Swappers /\ Swapping' = Swapping
        \/ ~overlapped' => Swapping' \subseteq {p}
    BY <1>1, <1>3, Roles DEF CancelBackground, Overlap, Swapping, TypeOK, SyncTypes
  <2>3. Separate' => \A s, t \in Swapping' : s = t
    BY <2>1, <2>2 DEF ApartInv, Separate, LoneSwapper, Swapping
  <2>4. QED
    BY <1>1, <1>2, <2>1, <2>3, Roles DEF ApartInv, Separate, HasStoreOut
<1>4. CASE DetachStep(p)
  <2>1. /\ overlapped' = overlapped /\ pc[p] \notin {"idle", "done"}
        /\ handle' \in {handle, NoGen} /\ (closed => closed')
        /\ HasStoreOut(p)' => handle' = NoGen \/ HasStoreOut(p)
        /\ p \in Closers /\ pc'[p] \in {"drain", "done"} => closed' \/ pc[p] = "drain"
    BY <1>4, Roles DEF DetachStep, AwaitHeal, AwaitLoops, Detach, DrainAndClose, Goto, HasStoreOut,
       stores, TypeOK, StoreTypes, SyncTypes
  <2>2. Swapping' \subseteq Swapping
    BY <1>1, <2>1, Roles DEF Swapping
  <2>3. QED
    BY <1>1, <1>2, <2>1, <2>2, Roles DEF ApartInv, Separate, HasStoreOut
<1>5. QED  BY <1>3, <1>4

LEMMA SwapApart ==
    ASSUME TypeOK, ApartInv, NEW s \in Swappers, SwapStep(s) PROVE ApartInv'
<1>1. \A q \in Procs \ {s} : pc'[q] = pc[q]
  BY OthersStay, Roles
<1>2. Activating' = Activating
  BY <1>1, Roles DEF Activating
<1>3. /\ UNCHANGED <<overlapped, closed>> /\ s \in Swapping
      /\ HasStoreOut(s)' => HasStoreOut(s) /\ handle' = handle
      /\ handle' = handle \/ HasStoreOut(s)
  BY Roles DEF SwapStep, OpenSwapped, ReopenLocal, StoreLost, Reattach, RecordIdentity, Goto,
     HasStoreOut, Swapping, stores, TypeOK, SyncTypes
<1>4. Swapping' \subseteq Swapping
  BY <1>1, <1>3, Roles DEF Swapping
<1>5. ASSUME Separate, NEW t \in Swappers, HasStoreOut(t)' PROVE handle' = NoGen
  <2>1. CASE t = s
    BY <1>3, <1>5, <2>1 DEF ApartInv
  <2>2. CASE t # s
    <3>1. t \in Swapping
      BY <1>1, <1>5, <2>2, Roles DEF HasStoreOut, Swapping
    <3>2. QED  BY <1>3, <1>5, <2>2, <3>1 DEF ApartInv
  <2>3. QED  BY <2>1, <2>2
<1>6. QED
  BY <1>1, <1>2, <1>3, <1>4, <1>5, Roles DEF ApartInv, Separate

LEMMA ApartNext == TypeOK /\ ApartInv /\ [Next]_vars => ApartInv'
<1> SUFFICES ASSUME TypeOK, ApartInv, [Next]_vars PROVE ApartInv'
  OBVIOUS
<1>1. ASSUME NEW u \in Users, UserStep(u) PROVE ApartInv'
  <2>1. UNCHANGED <<handle, closed, overlapped>>
    BY <1>1 DEF UserStep, UserAcquires, UserReleases, Identify, DeleteOrigin, DeactivateSync, stores
  <2>2. \A p \in Procs \ {u} : pc'[p] = pc[p]
    BY <1>1, OthersStay, Roles
  <2>3. (\A p \in Detachers : pc'[p] = pc[p]) /\ Activating' = Activating
    BY <2>2, Roles DEF Activating
  <2>4. QED  BY <2>1, <2>3, ApartStays
<1>2. CASE (\E c \in Ctxs : LoopStep(c)) \/ HealStep \/ UNCHANGED vars
  <2>1. UNCHANGED <<handle, closed, overlapped, pc>>
    BY <1>2 DEF LoopStep, FirstTick, NextTick, TickBegins, TickEnds, LoopReturns, HealStep,
       HealAborts, HealRecovers, HealActivates, stores, vars
  <2>2. QED  BY <2>1, ApartStays DEF Activating
<1>3. QED
  BY <1>1, <1>2, ActivationApart, DetachApart, SwapApart DEF Next

(* One activation and one swap at a time.                                   *)
LEMMA ApartCorrect == Spec => []ApartInv
BY InitTypes, NextTypes, ApartInit, ApartNext, PTL DEF Spec

(* Without an overlap, every open generation is attached, or one that a
   detacher is draining or about to attach.                                 *)
LeakInv ==
    ~overlapped => \A g \in open : g = handle \/ \E p \in Detachers : Owns(p) /\ g = taken[p]

LEMMA LeakInit == Init => LeakInv
BY DEF Init, LeakInv

(* Only detachers and swaps touch the stores.                               *)
LEMMA StoreWriters ==
    ASSUME TypeOK, [Next]_vars,
           ~ \E p \in Detachers : CancelBackground(p) \/ DetachStep(p),
           ~ \E s \in Swappers : SwapStep(s)
    PROVE  UNCHANGED stores /\ \A p \in Detachers : pc'[p] = pc[p]
<1>1. ASSUME NEW u \in Users, UserStep(u)
      PROVE  UNCHANGED stores /\ \A p \in Detachers : pc'[p] = pc[p]
  <2>1. UNCHANGED stores
    BY <1>1 DEF UserStep, UserAcquires, UserReleases, Identify, DeleteOrigin, DeactivateSync
  <2>2. \A p \in Procs \ {u} : pc'[p] = pc[p]
    BY <1>1, OthersStay, Roles
  <2>3. QED  BY <2>1, <2>2, Roles
<1>2. ASSUME NEW a \in Activators, Activate(a) \/ ActivationStep(a)
      PROVE  UNCHANGED stores /\ \A p \in Detachers : pc'[p] = pc[p]
  <2>1. UNCHANGED stores
    BY <1>2 DEF Activate, ActivationStep, ActivateRefused, CancelLast, AwaitOldLoop, Renew, Publish,
       ActivateFails, StartLoop
  <2>2. \A p \in Procs \ {a} : pc'[p] = pc[p]
    BY <1>2, OthersStay, Roles
  <2>3. QED  BY <2>1, <2>2, Roles
<1>3. (\E c \in Ctxs : LoopStep(c)) \/ HealStep \/ UNCHANGED vars => UNCHANGED <<stores, pc>>
  BY DEF LoopStep, FirstTick, NextTick, TickBegins, TickEnds, LoopReturns, HealStep, HealAborts,
     HealRecovers, HealActivates, vars
<1>4. QED  BY <1>1, <1>2, <1>3 DEF Next

LEMMA OverlapsLast == ASSUME TypeOK, [Next]_vars, overlapped PROVE overlapped'
BY DEF Next, UserStep, UserAcquires, UserReleases, Identify, DeleteOrigin, DeactivateSync, Activate,
   Overlap, ActivationStep, ActivateRefused, CancelLast, AwaitOldLoop, Renew, Publish, ActivateFails,
   StartLoop, LoopStep, FirstTick, NextTick, TickBegins, TickEnds, LoopReturns, HealStep, HealAborts,
   HealRecovers, HealActivates, CancelBackground, DetachStep, AwaitHeal, AwaitLoops, Detach,
   DrainAndClose, SwapStep, OpenSwapped, ReopenLocal, StoreLost, Reattach, RecordIdentity, vars

LEMMA DetachLeak ==
    ASSUME TypeOK, LeakInv, ~overlapped, NEW p \in Detachers, CancelBackground(p) \/ DetachStep(p)
    PROVE  LeakInv'
<1>1. \A q \in Detachers \ {p} : pc'[q] = pc[q]
  BY OthersStay, Roles
<1>2. CASE CancelBackground(p) \/ AwaitHeal(p) \/ AwaitLoops(p)
  <2>1. UNCHANGED stores /\ pc[p] \notin {"drain", "attach", "reattach"}
    BY <1>2 DEF CancelBackground, AwaitHeal, AwaitLoops
  <2>2. \A q \in Detachers : Owns(q) => Owns(q)'
    BY <1>1, <2>1 DEF Owns, stores
  <2>3. QED  BY <2>1, <2>2 DEF LeakInv, stores
<1>3. CASE Detach(p)
  <2>1. /\ pc[p] = "detach" /\ pc'[p] = "drain" /\ open' = open
        /\ taken'[p] = handle /\ \A q \in Detachers \ {p} : taken'[q] = taken[q]
    BY <1>3, Roles DEF Detach, Goto, TypeOK, StoreTypes, SyncTypes
  <2>2. \A q \in Detachers : Owns(q) => Owns(q)' /\ taken'[q] = taken[q]
    BY <1>1, <2>1 DEF Owns
  <2>3. ASSUME NEW g \in open PROVE \E q \in Detachers : Owns(q)' /\ g = taken'[q]
    <3>1. g # NoGen
      BY DEF TypeOK, StoreTypes, NoGen
    <3>2. g = handle => Owns(p)' /\ g = taken'[p]
      BY <2>1, <3>1 DEF Owns
    <3>3. QED  BY <2>2, <3>2 DEF LeakInv
  <2>4. QED  BY <2>1, <2>3 DEF LeakInv
<1>4. CASE DrainAndClose(p)
  <2>1. pc[p] = "drain" /\ open' = open \ {taken[p]} /\ UNCHANGED <<taken, handle>>
    BY <1>4 DEF DrainAndClose
  <2>2. \A q \in Detachers : Owns(q) /\ taken[q] # taken[p] => Owns(q)'
    BY <1>1, <2>1 DEF Owns
  <2>3. QED  BY <2>1, <2>2 DEF LeakInv
<1>5. QED  BY <1>2, <1>3, <1>4 DEF DetachStep

LEMMA SwapLeak ==
    ASSUME TypeOK, ApartInv, LeakInv, ~overlapped, NEW s \in Swappers, SwapStep(s)
    PROVE  LeakInv'
<1>1. s \in Detachers /\ \A q \in Detachers \ {s} : pc'[q] = pc[q]
  BY OthersStay, Roles
<1>2. CASE OpenSwapped(s) \/ ReopenLocal(s)
  <2>1. /\ pc[s] = "open" /\ pc'[s] \in {"attach", "reattach"} /\ handle' = handle
        /\ gens < MaxGen /\ open' = open \cup {gens + 1} /\ taken'[s] = gens + 1
        /\ \A q \in Detachers \ {s} : taken'[q] = taken[q]
    BY <1>1, <1>2, Roles DEF OpenSwapped, ReopenLocal, Goto, TypeOK, StoreTypes, SyncTypes
  <2>2. Owns(s)'
    BY <2>1, NextGen DEF Owns
  <2>3. \A q \in Detachers : Owns(q) => Owns(q)' /\ taken'[q] = taken[q]
    BY <1>1, <2>1 DEF Owns
  <2>4. QED  BY <1>1, <2>1, <2>2, <2>3 DEF LeakInv
<1>3. CASE StoreLost(s)
  <2>1. /\ pc[s] = "open" /\ UNCHANGED <<handle, open>>
        /\ \A q \in Detachers \ {s} : taken'[q] = taken[q]
    BY <1>3 DEF StoreLost, TypeOK, StoreTypes
  <2>2. \A q \in Detachers : Owns(q) => Owns(q)' /\ taken'[q] = taken[q]
    BY <1>1, <2>1 DEF Owns
  <2>3. QED  BY <2>1, <2>2 DEF LeakInv
<1>4. CASE Reattach(s)
  <2>1. /\ pc[s] \in {"attach", "reattach"}
        /\ \/ open' = open \ {taken[s]} /\ UNCHANGED handle
           \/ handle' = taken[s] /\ UNCHANGED open
        /\ \A q \in Detachers \ {s} : taken'[q] = taken[q]
    BY <1>4 DEF Reattach, Attach, TypeOK, StoreTypes
  <2>2. handle = NoGen
    BY <2>1 DEF ApartInv, Separate, HasStoreOut
  <2>3. \A q \in Detachers \ {s} : Owns(q) => Owns(q)'
    BY <1>1, <2>1 DEF Owns
  <2>4. \A g \in open : g # NoGen
    BY DEF TypeOK, StoreTypes, NoGen
  <2>5. QED  BY <2>1, <2>2, <2>3, <2>4 DEF LeakInv
<1>5. CASE RecordIdentity(s)
  <2>1. UNCHANGED stores /\ pc[s] = "record"
    BY <1>5 DEF RecordIdentity
  <2>2. \A q \in Detachers : Owns(q) => Owns(q)'
    BY <1>1, <2>1 DEF Owns, stores
  <2>3. QED  BY <2>1, <2>2 DEF LeakInv, stores
<1>6. QED  BY <1>2, <1>3, <1>4, <1>5 DEF SwapStep

LEMMA LeakNext == TypeOK /\ ApartInv /\ LeakInv /\ [Next]_vars => LeakInv'
<1> SUFFICES ASSUME TypeOK, ApartInv, LeakInv, [Next]_vars, ~overlapped PROVE LeakInv'
  BY OverlapsLast DEF LeakInv
<1>1. ASSUME UNCHANGED stores, \A p \in Detachers : pc'[p] = pc[p] PROVE LeakInv'
  BY <1>1 DEF LeakInv, Owns, stores
<1>2. QED  BY <1>1, StoreWriters, DetachLeak, SwapLeak

LEMMA LeakCorrect == Spec => []LeakInv
BY InitTypes, NextTypes, ApartCorrect, LeakInit, LeakNext, TypeCorrect, PTL DEF Spec
-----------------------------------------------------------------------------
(* The loops.  Without an overlap every context but the last one made is
   cancelled, and the last one is before another is made.                   *)
CtxInv ==
    ~overlapped =>
       /\ \A c \in Ctxs : c <= nctx /\ c # lastCancel => c \in cancelled
       /\ \A a \in Activators : /\ pc[a] \in {"wait", "renew"} => lastCancel \in cancelled
                                /\ pc[a] \in {"publish", "sync"} => mine[a] = lastCancel
       /\ lastCancel <= nctx
       /\ \A c \in Ctxs : loop[c] \in Live => c <= nctx

LEMMA CtxInit == Init => CtxInv
<1>1. Init => \A c \in Ctxs : loop[c] = "none" /\ (c <= 1 => c = 1)
  BY Bounds DEF Init, Ctxs
<1>2. QED  BY <1>1, Roles DEF Init, CtxInv, Live

(* No activation moves, and a loop that starts is one of the contexts.      *)
LEMMA CtxStays ==
    ASSUME TypeOK, CtxInv, UNCHANGED <<nctx, lastCancel, mine>>, cancelled \subseteq cancelled',
           overlapped => overlapped', \A a \in Activators : pc'[a] = pc[a],
           \A c \in Ctxs : loop'[c] \in Live => loop[c] \in Live \/ c = 1
    PROVE  CtxInv'
<1>1. 1 <= nctx
  BY Bounds DEF TypeOK, SyncTypes, Ctxs
<1>2. QED  BY <1>1 DEF CtxInv

LEMMA ActivationCtx ==
    ASSUME TypeOK, ApartInv, CtxInv, NEW a \in Activators, Activate(a) \/ ActivationStep(a)
    PROVE  CtxInv'
<1> SUFFICES ASSUME ~overlapped' PROVE CtxInv'
  BY DEF CtxInv
<1>1. ~overlapped
  BY OverlapsLast DEF Next
<1>2. \A b \in Activators \ {a} : pc'[b] = pc[b]
  BY OthersStay, Roles
<1>3. CASE Activate(a)
  <2>1. UNCHANGED <<cancels, loops>> /\ pc'[a] = "check"
    BY <1>3, Roles DEF Activate, Goto, TypeOK, SyncTypes
  <2>2. QED  BY <1>1, <1>2, <2>1 DEF CtxInv, cancels, loops
<1>4. CASE ActivateRefused(a) \/ ActivateFails(a)
  <2>1. /\ UNCHANGED <<nctx, cancelled, lastCancel, loops>> /\ pc'[a] = "idle"
        /\ \A b \in Activators \ {a} : mine'[b] = mine[b]
    BY <1>4, Roles DEF ActivateRefused, ActivateFails, ActivationEnds, Goto, TypeOK, SyncTypes
  <2>2. QED  BY <1>1, <1>2, <2>1 DEF CtxInv, loops
<1>5. CASE CancelLast(a)
  <2>1. /\ UNCHANGED <<nctx, lastCancel, mine, loops>> /\ pc'[a] = "wait"
        /\ cancelled \subseteq cancelled' /\ lastCancel \in cancelled'
    BY <1>5, Roles, Bounds DEF CancelLast, Cancelled, NoCtx, Goto, TypeOK, SyncTypes, Ctxs
  <2>2. QED  BY <1>1, <1>2, <2>1 DEF CtxInv, loops
<1>6. CASE AwaitOldLoop(a) \/ Publish(a)
  <2>1. /\ UNCHANGED <<nctx, cancelled, lastCancel, mine, loops>>
        /\ (pc[a] = "wait" /\ pc'[a] = "renew") \/ (pc[a] = "publish" /\ pc'[a] = "sync")
    BY <1>6, Roles DEF AwaitOldLoop, Publish, Goto, cancels, TypeOK, SyncTypes
  <2>2. QED  BY <1>1, <1>2, <2>1 DEF CtxInv, loops
<1>7. CASE Renew(a)
  <2>1. /\ UNCHANGED <<cancelled, loops>> /\ pc[a] = "renew" /\ pc'[a] = "publish"
        /\ nctx' = nctx + 1 /\ lastCancel' = nctx + 1 /\ mine'[a] = nctx + 1
    BY <1>7, Roles DEF Renew, Goto, TypeOK, SyncTypes
  <2>2. \A b \in Activators \ {a} : pc[b] = "idle"
    BY <1>1, <2>1 DEF ApartInv, Activating
  <2>3. \A c \in Ctxs : c <= nctx => c \in cancelled
    BY <1>1, <2>1 DEF CtxInv
  <2>4. nctx \in Nat /\ \A c \in Ctxs : c \in Nat
    BY Bounds DEF TypeOK, SyncTypes
  <2>5. \A c \in Ctxs : c <= nctx + 1 /\ c # nctx + 1 => c <= nctx
    BY <2>4
  <2>6. \A c \in Ctxs : loop'[c] \in Live => c <= nctx + 1
    BY <1>1, <2>1, <2>4 DEF CtxInv, loops
  <2>7. QED  BY <1>2, <2>1, <2>2, <2>3, <2>4, <2>5, <2>6 DEF CtxInv
<1>8. CASE StartLoop(a)
  <2>1. /\ UNCHANGED <<nctx, cancelled, lastCancel>> /\ pc[a] = "sync" /\ pc'[a] = "idle"
        /\ \A b \in Activators \ {a} : mine'[b] = mine[b]
        /\ \A c \in Ctxs : loop'[c] \in Live => loop[c] \in Live \/ c = mine[a]
    BY <1>8, Roles DEF StartLoop, Spawn, ActivationEnds, Goto, TypeOK, SyncTypes
  <2>2. QED  BY <1>1, <1>2, <2>1 DEF CtxInv
<1>9. QED
  BY <1>3, <1>4, <1>5, <1>6, <1>7, <1>8 DEF ActivationStep

LEMMA CtxNext == TypeOK /\ ApartInv /\ CtxInv /\ [Next]_vars => CtxInv'
<1> SUFFICES ASSUME TypeOK, ApartInv, CtxInv, [Next]_vars PROVE CtxInv'
  OBVIOUS
<1>1. ASSUME NEW u \in Users, UserStep(u) PROVE CtxInv'
  <2>1. \A a \in Activators : pc'[a] = pc[a]
    BY <1>1, OthersStay, Roles
  <2>2. UNCHANGED <<nctx, lastCancel, mine, loops, overlapped>> /\ cancelled \subseteq cancelled'
    BY <1>1 DEF UserStep, UserAcquires, UserReleases, Identify, DeleteOrigin, DeactivateSync,
       cancels, Cancelled
  <2>3. QED  BY <2>1, <2>2, CtxStays DEF loops
<1>2. ASSUME NEW p \in Detachers, CancelBackground(p) \/ DetachStep(p) PROVE CtxInv'
  <2>1. \A a \in Activators : pc'[a] = pc[a]
    BY <1>2, OthersStay, Roles
  <2>2. UNCHANGED <<nctx, lastCancel, mine, loops>> /\ cancelled \subseteq cancelled'
    BY <1>2 DEF CancelBackground, DetachStep, AwaitHeal, AwaitLoops, Detach, DrainAndClose, cancels,
       Cancelled
  <2>3. QED  BY <2>1, <2>2, CtxStays, OverlapsLast DEF loops
<1>3. ASSUME NEW s \in Swappers, SwapStep(s) PROVE CtxInv'
  <2>1. \A a \in Activators : pc'[a] = pc[a]
    BY <1>3, OthersStay, Roles
  <2>2. UNCHANGED <<cancels, loops>>
    BY <1>3 DEF SwapStep, OpenSwapped, ReopenLocal, StoreLost, Reattach, RecordIdentity
  <2>3. QED  BY <2>1, <2>2, CtxStays, OverlapsLast DEF cancels, loops
<1>4. CASE (\E c \in Ctxs : LoopStep(c)) \/ HealStep
  <2>1. /\ UNCHANGED <<cancels, pc>>
        /\ \A c \in Ctxs : loop'[c] \in Live => loop[c] \in Live \/ c = 1
    BY <1>4 DEF LoopStep, FirstTick, NextTick, TickBegins, TickEnds, LoopReturns, HealStep,
       HealAborts, HealRecovers, HealActivates, Spawn, loops, Live, TypeOK, SyncTypes
  <2>2. QED  BY <2>1, CtxStays, OverlapsLast DEF cancels
<1>5. CASE UNCHANGED vars
  BY <1>5, CtxStays DEF vars, cancels, loops
<1>6. QED  BY <1>1, <1>2, <1>3, <1>4, <1>5, ActivationCtx DEF Next

LEMMA CtxCorrect == Spec => []CtxInv
BY InitTypes, NextTypes, ApartCorrect, CtxInit, CtxNext, TypeCorrect, PTL DEF Spec
-----------------------------------------------------------------------------
(* The cached identity.  While one swap runs at most and the instance is not
   closed, references are to the attached store or to the one being drained,
   and the identity, if cached, is that of the store a swap may still put back,
   or of the attached one until a swap has attached another.                *)
Outgoing(s) == pc[s] \in {"drain", "open", "reattach"} /\ taken[s] # NoGen
Replaced    == \E s \in Swappers : pc[s] = "record"

HeldIsCurrent ==
    \A q \in Procs : held[q] # NoGen =>
       held[q] = handle \/ \E s \in Swappers : pc[s] = "drain" /\ held[q] = taken[s]

IdIsCurrent ==
    /\ \A s \in Swappers : Outgoing(s) => id \in {NoRoot, root[taken[s]]}
    /\ handle # NoGen /\ ~Replaced => id \in {NoRoot, root[handle]}

IdInv == Separate /\ ~closed => HeldIsCurrent /\ IdIsCurrent

LEMMA IdInit == Init => IdInv
BY Roles DEF Init, IdInv, HeldIsCurrent, IdIsCurrent, Outgoing

LEMMA SeparateBefore == ASSUME TypeOK, [Next]_vars, Separate' PROVE Separate
BY OverlapsLast DEF Separate, LoneSwapper

(* No swap and no teardown moves, and references are taken to the attached
   store only.                                                              *)
LEMMA IdStays ==
    ASSUME TypeOK, [Next]_vars, IdInv, UNCHANGED <<stores, id>>,
           \A s \in Swappers : pc'[s] = pc[s],
           \A q \in Procs : held'[q] \in {held[q], handle, NoGen}
    PROVE  IdInv'
<1> SUFFICES ASSUME Separate', ~closed' PROVE (HeldIsCurrent /\ IdIsCurrent)'
  BY DEF IdInv
<1>1. HeldIsCurrent /\ IdIsCurrent
  BY SeparateBefore DEF IdInv, stores
<1>2. HeldIsCurrent'
  BY <1>1 DEF HeldIsCurrent, stores
<1>3. IdIsCurrent'
  BY <1>1 DEF IdIsCurrent, Outgoing, Replaced, stores
<1>4. QED  BY <1>2, <1>3

LEMMA UserId ==
    ASSUME TypeOK, [Next]_vars, ApartInv, IdInv, NEW u \in Users, UserStep(u) PROVE IdInv'
<1>1. u \in Procs /\ \A q \in Procs \ {u} : pc'[q] = pc[q] /\ held'[q] = held[q]
  BY OthersStay, Roles
<1>2. \A s \in Swappers : pc'[s] = pc[s]
  BY <1>1, Roles
<1>3. CASE Identify(u)
  <2> SUFFICES ASSUME Separate', ~closed' PROVE (HeldIsCurrent /\ IdIsCurrent)'
    BY DEF IdInv
  <2>1. UNCHANGED <<stores, held, pc>> /\ id' = root[held[u]] /\ held[u] # NoGen
    BY <1>3 DEF Identify, TypeOK
  <2>2. HeldIsCurrent /\ Separate
    BY <2>1, SeparateBefore DEF IdInv, stores
  <2>3. HeldIsCurrent'
    BY <2>1, <2>2 DEF HeldIsCurrent, stores
  <2>4. \A s \in Swappers : Outgoing(s) => s \in Swapping /\ handle = NoGen
    BY <2>2 DEF ApartInv, Outgoing, HasStoreOut, Swapping
  <2>5. CASE held[u] = handle
    BY <2>1, <2>3, <2>4, <2>5 DEF IdIsCurrent, Outgoing, stores
  <2>6. ASSUME NEW t \in Swappers, pc[t] = "drain", held[u] = taken[t] PROVE IdIsCurrent'
    <3>1. Outgoing(t)
      BY <2>1, <2>6 DEF Outgoing
    <3>2. handle = NoGen /\ \A s \in Swappers : Outgoing(s) => s = t
      BY <2>2, <2>4, <3>1 DEF ApartInv
    <3>3. QED  BY <2>1, <2>6, <3>2 DEF IdIsCurrent, Outgoing, stores
  <2>7. QED  BY <1>1, <2>1, <2>2, <2>3, <2>5, <2>6 DEF HeldIsCurrent
<1>4. CASE ~Identify(u)
  <2>1. UNCHANGED <<stores, id>> /\ held'[u] \in {held[u], handle, NoGen}
    BY <1>1, <1>4 DEF UserStep, UserAcquires, UserReleases, DeleteOrigin, DeactivateSync, Acquire,
       Release, TypeOK, StoreTypes
  <2>2. QED  BY <1>1, <1>2, <2>1, IdStays
<1>5. QED  BY <1>3, <1>4

LEMMA ActivationId ==
    ASSUME TypeOK, [Next]_vars, IdInv, NEW a \in Activators, Activate(a) \/ ActivationStep(a)
    PROVE  IdInv'
<1>1. a \in Procs /\ \A q \in Procs \ {a} : pc'[q] = pc[q] /\ held'[q] = held[q]
  BY OthersStay, Roles
<1>2. \A s \in Swappers : pc'[s] = pc[s]
  BY <1>1, Roles
<1>3. UNCHANGED <<stores, id>> /\ held'[a] \in {held[a], handle, NoGen}
  BY <1>1 DEF Activate, ActivationStep, ActivateRefused, CancelLast, AwaitOldLoop, Renew, Publish,
     ActivateFails, StartLoop, ActivationEnds, Acquire, Release, TypeOK, StoreTypes
<1>4. QED  BY <1>1, <1>2, <1>3, IdStays

LEMMA DetachId ==
    ASSUME TypeOK, [Next]_vars, ApartInv, IdInv, NEW p \in Detachers,
           CancelBackground(p) \/ DetachStep(p)
    PROVE  IdInv'
<1> SUFFICES ASSUME Separate', ~closed' PROVE (HeldIsCurrent /\ IdIsCurrent)'
  BY DEF IdInv
<1>1. /\ p \in Procs /\ p \in Swappers \cup Closers
      /\ \A s \in Swappers \ {p} : pc'[s] = pc[s]
  BY OthersStay, Roles DEF Detachers
<1>2. UNCHANGED <<held, root, id>> /\ ~closed
  BY DEF CancelBackground, DetachStep, AwaitHeal, AwaitLoops, Detach, DrainAndClose, stores, TypeOK,
     StoreTypes
<1>3. HeldIsCurrent /\ IdIsCurrent /\ Separate
  BY <1>2, SeparateBefore DEF IdInv
<1>4. CASE CancelBackground(p) \/ AwaitHeal(p) \/ AwaitLoops(p)
  <2>1. /\ UNCHANGED stores /\ pc[p] \in {"idle", "index", "loops"}
        /\ pc'[p] \in {"index", "loops", "detach"}
    BY <1>1, <1>4 DEF CancelBackground, AwaitHeal, AwaitLoops, Goto, TypeOK, SyncTypes
  <2>2. HeldIsCurrent'
    BY <1>1, <1>2, <1>3, <2>1 DEF HeldIsCurrent, stores
  <2>3. IdIsCurrent'
    BY <1>1, <1>2, <1>3, <2>1 DEF IdIsCurrent, Outgoing, Replaced, stores
  <2>4. QED  BY <2>2, <2>3
<1>5. CASE Detach(p)
  <2>1. /\ p \in Swappers /\ pc[p] = "detach" /\ pc'[p] = "drain" /\ handle' = NoGen
        /\ taken'[p] = handle /\ \A s \in Swappers \ {p} : taken'[s] = taken[s]
    BY <1>1, <1>5, Roles DEF Detach, Goto, TypeOK, StoreTypes, SyncTypes
  <2>2. \A s \in Swappers \ {p} : pc[s] = "idle"
    BY <1>3, <2>1 DEF ApartInv, Swapping
  <2>3. ~Replaced
    BY <2>1, <2>2 DEF Replaced
  <2>4. HeldIsCurrent'
    BY <1>2, <1>3, <2>1, <2>2 DEF HeldIsCurrent
  <2>5. IdIsCurrent'
    BY <1>1, <1>2, <1>3, <2>1, <2>2, <2>3 DEF IdIsCurrent, Outgoing
  <2>6. QED  BY <2>4, <2>5
<1>6. CASE DrainAndClose(p)
  <2>1. pc[p] = "drain" /\ UNCHANGED <<handle, taken>> /\ (taken[p] # NoGen => Drained(taken[p]))
    BY <1>6 DEF DrainAndClose
  <2>2. p \in Swappers
    BY <1>1, <1>2, <2>1 DEF ApartInv
  <2>3. pc'[p] = "open"
    BY <1>1, <1>6, <2>2, Roles DEF DrainAndClose, Goto, TypeOK, SyncTypes
  <2>4. HeldIsCurrent'
    BY <1>1, <1>2, <1>3, <2>1, <2>3 DEF HeldIsCurrent, Drained
  <2>5. IdIsCurrent'
    BY <1>1, <1>2, <1>3, <2>1, <2>3 DEF IdIsCurrent, Outgoing, Replaced
  <2>6. QED  BY <2>4, <2>5
<1>7. QED  BY <1>4, <1>5, <1>6 DEF DetachStep

LEMMA SwapId ==
    ASSUME TypeOK, [Next]_vars, ApartInv, IdInv, NEW s \in Swappers, SwapStep(s) PROVE IdInv'
<1> SUFFICES ASSUME Separate', ~closed' PROVE (HeldIsCurrent /\ IdIsCurrent)'
  BY DEF IdInv
<1>1. s \in Procs /\ s \in Detachers /\ \A t \in Swappers \ {s} : pc'[t] = pc[t]
  BY OthersStay, Roles
<1>2. UNCHANGED held /\ ~closed
  BY DEF SwapStep, OpenSwapped, ReopenLocal, StoreLost, Reattach, RecordIdentity, stores
<1>3. HeldIsCurrent /\ IdIsCurrent /\ Separate
  BY <1>2, SeparateBefore DEF IdInv
<1>4. pc[s] \in SwapSteps
  BY DEF SwapStep, OpenSwapped, ReopenLocal, StoreLost, Reattach, RecordIdentity, SwapSteps
<1>5. \A t \in Swappers \ {s} : pc[t] = "idle"
  BY <1>3, <1>4 DEF ApartInv, Swapping, SwapSteps
<1>6. pc[s] # "record" => handle = NoGen
  BY <1>3, <1>4 DEF ApartInv, HasStoreOut, SwapSteps
<1>7. \A q \in Procs : held[q] # NoGen => held[q] = handle
  BY <1>3, <1>4, <1>5 DEF HeldIsCurrent, SwapSteps
<1>8. CASE OpenSwapped(s)
  <2>1. pc[s] = "open" /\ pc'[s] = "attach" /\ UNCHANGED <<handle, id>>
    BY <1>1, <1>8 DEF OpenSwapped, Goto, TypeOK, SyncTypes
  <2>2. QED
    BY <1>1, <1>2, <1>5, <1>6, <1>7, <2>1 DEF HeldIsCurrent, IdIsCurrent, Outgoing
<1>9. CASE ReopenLocal(s)
  <2>1. /\ pc[s] = "open" /\ pc'[s] = "reattach" /\ UNCHANGED <<handle, id>>
        /\ taken[s] # NoGen /\ taken'[s] = gens + 1
    BY <1>1, <1>9 DEF ReopenLocal, Goto, TypeOK, StoreTypes, SyncTypes
  <2>2. gens + 1 \in Gens
    BY <1>9, NextGen DEF ReopenLocal, TypeOK, StoreTypes
  <2>3. root'[taken'[s]] = root[taken[s]]
    BY <1>9, <2>1, <2>2 DEF ReopenLocal, TypeOK, StoreTypes
  <2>4. id \in {NoRoot, root[taken[s]]}
    BY <1>3, <2>1 DEF IdIsCurrent, Outgoing
  <2>5. QED
    BY <1>1, <1>2, <1>5, <1>6, <1>7, <2>1, <2>3, <2>4 DEF HeldIsCurrent, IdIsCurrent, Outgoing
<1>10. CASE StoreLost(s)
  <2>1. pc[s] = "open" /\ pc'[s] = "idle" /\ UNCHANGED <<handle, id>>
    BY <1>1, <1>10 DEF StoreLost, Goto, TypeOK, SyncTypes
  <2>2. QED
    BY <1>1, <1>2, <1>5, <1>6, <1>7, <2>1 DEF HeldIsCurrent, IdIsCurrent, Outgoing
<1>11. CASE Reattach(s)
  <2>1. /\ pc[s] \in {"attach", "reattach"} /\ UNCHANGED <<id, root>> /\ handle' = taken[s]
        /\ pc'[s] = IF pc[s] = "attach" THEN "record" ELSE "idle"
    BY <1>1, <1>2, <1>11 DEF Reattach, Attach, Goto, TypeOK, SyncTypes
  <2>2. \A q \in Procs : held[q] = NoGen
    BY <1>6, <1>7, <2>1
  <2>3. \A t \in Swappers : ~Outgoing(t)'
    BY <1>1, <1>5, <2>1 DEF Outgoing
  <2>4. handle' # NoGen /\ ~Replaced' => id \in {NoRoot, root[handle']}
    BY <1>3, <2>1 DEF IdIsCurrent, Outgoing, Replaced
  <2>5. QED
    BY <1>2, <2>1, <2>2, <2>3, <2>4 DEF HeldIsCurrent, IdIsCurrent
<1>12. CASE RecordIdentity(s)
  <2>1. pc'[s] = "idle" /\ UNCHANGED stores /\ id' = FreshIdentity
    BY <1>1, <1>12 DEF RecordIdentity, Goto, TypeOK, SyncTypes
  <2>2. \A t \in Swappers : ~Outgoing(t)'
    BY <1>1, <1>5, <2>1 DEF Outgoing
  <2>3. QED
    BY <1>2, <1>7, <2>1, <2>2 DEF HeldIsCurrent, IdIsCurrent, FreshIdentity, stores
<1>13. QED  BY <1>8, <1>9, <1>10, <1>11, <1>12 DEF SwapStep

LEMMA IdNext == TypeOK /\ ApartInv /\ IdInv /\ [Next]_vars => IdInv'
<1> SUFFICES ASSUME TypeOK, ApartInv, IdInv, [Next]_vars PROVE IdInv'
  OBVIOUS
<1>1. CASE (\E c \in Ctxs : LoopStep(c)) \/ HealStep \/ UNCHANGED vars
  <2>1. UNCHANGED <<stores, id, pc, held>>
    BY <1>1 DEF LoopStep, FirstTick, NextTick, TickBegins, TickEnds, LoopReturns, HealStep,
       HealAborts, HealRecovers, HealActivates, vars
  <2>2. QED  BY <2>1, IdStays
<1>2. QED
  BY <1>1, UserId, ActivationId, DetachId, SwapId DEF Next

LEMMA IdCorrect == Spec => []IdInv
BY InitTypes, NextTypes, ApartCorrect, IdInit, IdNext, TypeCorrect, PTL DEF Spec
-----------------------------------------------------------------------------
(* At the end of every teardown nothing is open.                            *)
LEMMA NoLeak == TypeOK /\ ApartInv /\ LeakInv /\ ~overlapped => NoStoreLeaks
<1> SUFFICES ASSUME TypeOK, ApartInv, LeakInv, ~overlapped PROVE NoStoreLeaks
  OBVIOUS
<1>1. \A g \in open : g = handle \/ \E p \in Detachers : Owns(p) /\ g = taken[p]
  BY DEF LeakInv
<1>2. open \subseteq {handle} \cup {taken[p] : p \in Detachers}
  BY <1>1
<1>3. ASSUME NEW k \in Closers, pc[k] = "done", TearingDown = {}, Swapping = {} PROVE open = {}
  <2>1. handle = NoGen
    BY <1>3 DEF ApartInv, TypeOK
  <2>2. \A p \in Detachers : ~Owns(p)
    BY <1>3 DEF Owns, Detachers, TearingDown, Swapping
  <2>3. NoGen \notin open
    BY DEF TypeOK, StoreTypes, NoGen
  <2>4. QED  BY <1>1, <2>1, <2>2, <2>3
<1>4. QED  BY <1>2, <1>3 DEF NoStoreLeaks

LEMMA OneLoop == TypeOK /\ CtxInv /\ ~overlapped => OneLiveLoop
<1> SUFFICES ASSUME TypeOK, CtxInv, ~overlapped PROVE OneLiveLoop
  OBVIOUS
<1> DEFINE L == {c \in Ctxs \ cancelled : loop[c] \in Live}
<1>1. L \subseteq {lastCancel}
  BY DEF CtxInv
<1>2. IsFiniteSet({lastCancel}) /\ Cardinality({lastCancel}) = 1
  BY FS_Singleton
<1>3. Cardinality(L) <= 1
  BY <1>1, <1>2, FS_Subset
<1>4. QED  BY <1>3 DEF OneLiveLoop

LEMMA IdFollows == TypeOK /\ IdInv /\ Separate => IdentityFollowsStore
<1> SUFFICES ASSUME TypeOK, IdInv, Separate, Swapping = {}, handle # NoGen
             PROVE  id \in {NoRoot, root[handle]}
  BY DEF IdentityFollowsStore
<1>1. ~closed /\ ~Replaced
  BY DEF TypeOK, Replaced, Swapping
<1>2. QED  BY <1>1 DEF IdInv, IdIsCurrent

(* No store, no loop and no identity outlives the swap or the teardown that
   replaced it.                                                             *)
THEOREM NothingLeftCorrect == Spec => []NothingIsLeftBehind
<1>1. TypeOK /\ ApartInv /\ LeakInv /\ CtxInv /\ IdInv => NothingIsLeftBehind
  BY NoLeak, OneLoop, IdFollows DEF NothingIsLeftBehind, Separate
<1>2. QED
  BY <1>1, TypeCorrect, ApartCorrect, LeakCorrect, CtxCorrect, IdCorrect, PTL
=============================================================================
