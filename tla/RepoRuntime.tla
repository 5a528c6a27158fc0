---------------------------- MODULE RepoRuntime -----------------------------
(***************************************************************************)
(* The running instance of one repository (internal/repos/instance.go,     *)
(* builder.go, swapstore.go, sync.go): the generations of its store, who   *)
(* may use which, and the background work that uses one without holding a  *)
(* reference -- the index heal and the reconcile loop.                     *)
(*                                                                         *)
(* Handlers, the commit observer and the reaper acquire the current        *)
(* generation and release it; ActivateSync restarts the reconcile loop;    *)
(* SwapStore replaces the generation, shutdown (Archive, Remove) ends it.  *)
(* These run on goroutines of their own and no lock spans any of them.     *)
(***************************************************************************)
EXTENDS Naturals, FiniteSets

CONSTANTS
    Users,      \* what acquires and releases the store
    Activators, \* callers of ActivateSync
    Swappers,   \* callers of SwapStore
    Closers,    \* callers of shutdown
    Roots,      \* the root commits a store may hold: its identity
    NoRoot,     \* no identity, or none cached
    MaxGen,     \* bound on the store generations opened
    MaxCtx      \* bound on the sync contexts made

Detachers == Swappers \cup Closers
Procs     == Users \cup Activators \cup Detachers
Gens      == 1 .. MaxGen
NoGen     == 0              \* no store attached, no reference held
Ctxs      == 1 .. MaxCtx
NoCtx     == 0              \* a cancel function that does nothing

ASSUME NoRootAssumption == NoRoot \notin Roots
ASSUME BoundAssumption  == MaxGen \in Nat \ {0} /\ MaxCtx \in Nat \ {0}
ASSUME RolesAssumption ==
    /\ Users \cap (Activators \cup Detachers) = {}
    /\ Activators \cap Detachers = {}
    /\ Swappers \cap Closers = {}

VARIABLES
    handle,     \* ri.handle: the attached generation
    closed,     \* ri.closed
    gens,       \* how many generations were opened so far
    open,       \* the generations that are open
    root,       \* the root commit of each generation
    held,       \* the generation each process holds a reference to
    taken,      \* the generation a detacher took out, or is about to attach
    pc,         \* where each process is
    origin,     \* a remote named "origin" is configured
    nctx,       \* how many sync contexts were made so far
    cancelled,  \* the cancelled ones
    lastCancel, \* the closure variable syncCancel of build
    riCancel,   \* ri.syncCancel
    mine,       \* the context an activation made
    loop,       \* the reconcile loop of each context
    loopGen,    \* the generation it captured
    heal,       \* the background index heal
    healCancelled, \* indexCtx is cancelled
    index,      \* ri.indexState
    id,         \* ri.id, the cached identity
    overlapped  \* ghost: see Overlap

stores  == <<handle, closed, gens, open, root, taken>>
cancels == <<nctx, cancelled, lastCancel, riCancel, mine>>
loops   == <<loop, loopGen>>
indexer == <<heal, healCancelled, index>>
vars    == <<stores, held, pc, origin, cancels, loops, indexer, id, overlapped>>

ActivationSteps == {"check", "cancel", "wait", "renew", "publish", "sync"}
DetachSteps     == {"index", "loops", "detach", "drain"}
SwapSteps       == {"open", "attach", "reattach", "record"}
Live            == {"starting", "waiting", "tick"}

Goto(p, step)    == pc' = [pc EXCEPT ![p] = step]
Cancelled(c)     == cancelled \cup ({c} \ {NoCtx})
Activating       == {a \in Activators : pc[a] # "idle"}
Swapping         == {s \in Swappers : pc[s] # "idle"}
TearingDown      == {k \in Closers : pc[k] \notin {"idle", "done"}}

(* Calls that no lock keeps apart and whose steps interfere: an activation and
   anything else, or two swaps.  A teardown may overlap a swap.             *)
Overlap(p) ==
    overlapped' = \/ overlapped
                  \/ Activating # {}
                  \/ p \notin Closers /\ Swapping # {}
                  \/ p \in Activators /\ TearingDown # {}

Init ==
    /\ handle = 1 /\ closed = FALSE /\ gens = 1 /\ open = {1}
    /\ \E r \in Roots : root = [g \in Gens |-> IF g = 1 THEN r ELSE NoRoot]
    /\ held = [p \in Procs |-> NoGen] /\ taken = [p \in Detachers |-> NoGen]
    /\ pc = [p \in Procs |-> "idle"]
    /\ origin \in BOOLEAN
    /\ nctx = 1 /\ cancelled = {} /\ lastCancel = 1 /\ riCancel = 1
    /\ mine = [a \in Activators |-> NoCtx]
    /\ loop = [c \in Ctxs |-> "none"] /\ loopGen = [c \in Ctxs |-> NoGen]
    /\ heal = "healing" /\ healCancelled = FALSE /\ index = "indexing"
    /\ id = NoRoot /\ overlapped = FALSE
-----------------------------------------------------------------------------
(* Acquire, under mu.RLock.                                                 *)
Acquire(p) ==
    /\ ~closed
    /\ handle # NoGen
    /\ held' = [held EXCEPT ![p] = handle]

Release(p) == held' = [held EXCEPT ![p] = NoGen]

UserAcquires(u) ==
    /\ pc[u] = "idle" /\ Acquire(u)
    /\ Goto(u, "using")
    /\ UNCHANGED <<stores, origin, cancels, loops, indexer, id, overlapped>>

UserReleases(u) ==
    /\ pc[u] = "using" /\ Release(u)
    /\ Goto(u, "idle")
    /\ UNCHANGED <<stores, origin, cancels, loops, indexer, id, overlapped>>

(* ID: resolves the root commit once, through a reference of its own.       *)
Identify(u) ==
    /\ pc[u] = "using"
    /\ id = NoRoot
    /\ id' = root[held[u]]
    /\ UNCHANGED <<stores, held, pc, origin, cancels, loops, indexer,
                   overlapped>>

(* DeleteOrigin removes the remote while it holds the store ...             *)
DeleteOrigin(u) ==
    /\ pc[u] = "using" /\ Release(u)
    /\ origin' = FALSE
    /\ Goto(u, "deactivate")
    /\ UNCHANGED <<stores, cancels, loops, indexer, id, overlapped>>

(* ... and DeactivateSync takes the cancel function out and calls it.       *)
DeactivateSync(u) ==
    /\ pc[u] = "deactivate"
    /\ cancelled' = Cancelled(riCancel)
    /\ riCancel' = NoCtx
    /\ Goto(u, "idle")
    /\ UNCHANGED <<stores, held, origin, nctx, lastCancel, mine, loops,
                   indexer, id, overlapped>>
-----------------------------------------------------------------------------
(* The caller stores the origin and calls ActivateSync, which holds the store
   for its whole duration.                                                  *)
Activate(a) ==
    /\ pc[a] = "idle"
    /\ nctx + Cardinality({b \in Activating : mine[b] = NoCtx}) < MaxCtx
    /\ Acquire(a)
    /\ origin' = TRUE
    /\ Goto(a, "check")
    /\ Overlap(a)
    /\ UNCHANGED <<stores, cancels, loops, indexer, id>>

ActivationEnds(a) ==
    /\ Release(a)
    /\ mine' = [mine EXCEPT ![a] = NoCtx]
    /\ Goto(a, "idle")

(* No remote, an origin the policy forbids, another ontology: nothing has been
   torn down yet.                                                           *)
ActivateRefused(a) ==
    /\ pc[a] = "check"
    /\ ActivationEnds(a)
    /\ UNCHANGED <<stores, origin, nctx, cancelled, lastCancel, riCancel,
                   loops, indexer, id, overlapped>>

(* syncCancel()                                                             *)
CancelLast(a) ==
    /\ pc[a] = "check"
    /\ origin
    /\ cancelled' = Cancelled(lastCancel)
    /\ Goto(a, "wait")
    /\ UNCHANGED <<stores, held, origin, nctx, lastCancel, riCancel, mine,
                   loops, indexer, id, overlapped>>

(* The counter of syncWg is zero.                                           *)
NoLoops == \A c \in Ctxs : loop[c] \notin Live

(* syncWg.Wait()                                                            *)
AwaitOldLoop(a) ==
    /\ pc[a] = "wait"
    /\ NoLoops
    /\ Goto(a, "renew")
    /\ UNCHANGED <<stores, held, origin, cancels, loops, indexer, id,
                   overlapped>>

(* newCtx, syncCancel = context.WithCancel(ctx)                             *)
Renew(a) ==
    /\ pc[a] = "renew"
    /\ nctx < MaxCtx
    /\ nctx' = nctx + 1
    /\ lastCancel' = nctx + 1
    /\ mine' = [mine EXCEPT ![a] = nctx + 1]
    /\ Goto(a, "publish")
    /\ UNCHANGED <<stores, held, origin, cancelled, riCancel, loops, indexer,
                   id, overlapped>>

(* Faulty variant: the new cancel function stays in the closure.            *)
PublishNothing(a) ==
    /\ pc[a] = "publish"
    /\ UNCHANGED riCancel
    /\ Goto(a, "sync")
    /\ UNCHANGED <<stores, held, origin, nctx, cancelled, lastCancel, mine,
                   loops, indexer, id, overlapped>>

(* ri.syncCancel = syncCancel, whatever the closure variable now holds.     *)
Publish(a) ==
    /\ pc[a] = "publish"
    /\ riCancel' = lastCancel
    /\ Goto(a, "sync")
    /\ UNCHANGED <<stores, held, origin, nctx, cancelled, lastCancel, mine,
                   loops, indexer, id, overlapped>>

(* The first reconcile fails, or its credentials do: no loop is started.    *)
ActivateFails(a) ==
    /\ pc[a] = "sync"
    /\ ActivationEnds(a)
    /\ UNCHANGED <<stores, origin, nctx, cancelled, lastCancel, riCancel,
                   loops, indexer, id, overlapped>>

(* syncWg.Add(1); go runReconcileLoop(newCtx, &syncWg, currentSvc, ...)      *)
Spawn(c, g) ==
    /\ loop' = [loop EXCEPT ![c] = "starting"]
    /\ loopGen' = [loopGen EXCEPT ![c] = g]

StartLoop(a) ==
    /\ pc[a] = "sync"
    /\ Spawn(mine[a], held[a])
    /\ ActivationEnds(a)
    /\ UNCHANGED <<stores, origin, nctx, cancelled, lastCancel, riCancel,
                   indexer, id, overlapped>>
-----------------------------------------------------------------------------
(* runReconcileLoop.  A tick reads the remote from the store it captured.   *)
TickBegins(c) ==
    /\ origin
    /\ loopGen[c] \in open
    /\ loop' = [loop EXCEPT ![c] = "tick"]
    /\ UNCHANGED <<stores, held, pc, origin, cancels, loopGen, indexer, id,
                   overlapped>>

(* The first one does not wait, and does not look at the context.           *)
FirstTick(c) == loop[c] = "starting" /\ TickBegins(c)

NextTick(c) == loop[c] = "waiting" /\ c \notin cancelled /\ TickBegins(c)

TickEnds(c) ==
    /\ loop[c] = "tick"
    /\ loop' = [loop EXCEPT ![c] = "waiting"]
    /\ UNCHANGED <<stores, held, pc, origin, cancels, loopGen, indexer, id,
                   overlapped>>

(* The remote disappeared, it cannot be read, or the context is cancelled.  *)
LoopReturns(c) ==
    /\ loop[c] \in {"starting", "waiting"}
    /\ \/ ~origin
       \/ loopGen[c] \notin open
       \/ loop[c] = "waiting" /\ c \in cancelled
    /\ loop' = [loop EXCEPT ![c] = "returned"]
    /\ UNCHANGED <<stores, held, pc, origin, cancels, loopGen, indexer, id,
                   overlapped>>
-----------------------------------------------------------------------------
(* The heal of openOne rebuilds the index; cancelled, it returns as it is.  *)
HealAborts ==
    /\ heal = "healing" /\ healCancelled
    /\ heal' = "done"
    /\ UNCHANGED <<stores, held, pc, origin, cancels, loops, healCancelled,
                   index, id, overlapped>>

(* ... otherwise activate: recoverFromOrigin ...                            *)
HealRecovers ==
    /\ heal = "healing" /\ ~healCancelled
    /\ heal' = "activating"
    /\ UNCHANGED <<stores, held, pc, origin, cancels, loops, healCancelled,
                   index, id, overlapped>>

(* ... and startSyncLoops, on the first store and the first context.        *)
HealActivates ==
    /\ heal = "activating"
    /\ heal' = "done"
    /\ index' \in {"ready", "failed"}
    /\ IF origin THEN Spawn(1, 1) ELSE UNCHANGED loops
    /\ UNCHANGED <<stores, held, pc, origin, cancels, healCancelled, id,
                   overlapped>>
-----------------------------------------------------------------------------
(* SwapStore and shutdown begin alike: cancel the heal and the loop, wait for
   the one and then for the other.                                          *)
CancelBackground(p) ==
    /\ pc[p] = "idle"
    /\ p \in Swappers => gens + Cardinality(Swapping) < MaxGen
    /\ healCancelled' = TRUE
    /\ cancelled' = Cancelled(riCancel)
    /\ Goto(p, "index")
    /\ Overlap(p)
    /\ UNCHANGED <<stores, held, origin, nctx, lastCancel, riCancel, mine,
                   loops, heal, index, id>>

(* Faulty variant: the heal, which starts a loop, is not waited for.        *)
AwaitNoHeal(p) ==
    /\ pc[p] = "index"
    /\ Goto(p, "loops")
    /\ UNCHANGED <<stores, held, origin, cancels, loops, indexer, id,
                   overlapped>>

(* indexWg.Wait()                                                           *)
AwaitHeal(p) ==
    /\ pc[p] = "index"
    /\ heal = "done"
    /\ Goto(p, "loops")
    /\ UNCHANGED <<stores, held, origin, cancels, loops, indexer, id,
                   overlapped>>

(* syncWg.Wait()                                                            *)
AwaitLoops(p) ==
    /\ pc[p] = "loops"
    /\ NoLoops
    /\ Goto(p, "detach")
    /\ UNCHANGED <<stores, held, origin, cancels, loops, indexer, id,
                   overlapped>>

(* detachStore: no new Acquire reaches the generation, under mu.Lock.       *)
Detach(p) ==
    /\ pc[p] = "detach"
    /\ taken' = [taken EXCEPT ![p] = handle]
    /\ handle' = NoGen
    /\ closed' = (closed \/ p \in Closers)
    /\ Goto(p, "drain")
    /\ UNCHANGED <<gens, open, root, held, origin, cancels, loops, indexer, id,
                   overlapped>>

(* Faulty variant: the write lock of Detach is taken for a barrier.         *)
TakenAtOnce(g) == TRUE

(* The counter of the handle's wait group is zero.                          *)
Drained(g) == \A p \in Procs : held[p] # g

(* h.wg.Wait(); h.svc.Close()                                               *)
DrainAndClose(p) ==
    /\ pc[p] = "drain"
    /\ taken[p] # NoGen => Drained(taken[p])
    /\ open' = open \ {taken[p]}
    /\ Goto(p, IF p \in Closers THEN "done" ELSE "open")
    /\ UNCHANGED <<handle, closed, gens, root, taken, held, origin, cancels,
                   loops, indexer, id, overlapped>>
-----------------------------------------------------------------------------
(* SwapStore: copy the new database over the old one and open it.           *)
OpenSwapped(s) ==
    /\ pc[s] = "open"
    /\ gens < MaxGen
    /\ gens' = gens + 1 /\ open' = open \cup {gens + 1}
    /\ \E r \in Roots : root' = [root EXCEPT ![gens + 1] = r]
    /\ taken' = [taken EXCEPT ![s] = gens + 1]
    /\ Goto(s, "attach")
    /\ UNCHANGED <<handle, closed, held, origin, cancels, loops, indexer, id,
                   overlapped>>

(* Either failed: the backup is copied back and opened.                     *)
ReopenLocal(s) ==
    /\ pc[s] = "open"
    /\ taken[s] # NoGen
    /\ gens < MaxGen
    /\ gens' = gens + 1 /\ open' = open \cup {gens + 1}
    /\ root' = [root EXCEPT ![gens + 1] = root[taken[s]]]
    /\ taken' = [taken EXCEPT ![s] = gens + 1]
    /\ Goto(s, "reattach")
    /\ UNCHANGED <<handle, closed, held, origin, cancels, loops, indexer, id,
                   overlapped>>

(* So did that: the repository stays without a store.                       *)
StoreLost(s) ==
    /\ pc[s] = "open"
    /\ taken' = [taken EXCEPT ![s] = NoGen]
    /\ Goto(s, "idle")
    /\ UNCHANGED <<handle, closed, gens, open, root, held, origin, cancels,
                   loops, indexer, id, overlapped>>

(* Faulty variant: a closed instance is given a store.                      *)
AttachAnyway(s) ==
    /\ handle' = taken[s]
    /\ UNCHANGED open

(* attachStore, or the new store is closed: the instance was meanwhile.     *)
Attach(s) ==
    IF closed THEN open' = open \ {taken[s]} /\ UNCHANGED handle
              ELSE handle' = taken[s] /\ UNCHANGED open

Reattach(s) ==
    /\ pc[s] \in {"attach", "reattach"}
    /\ Attach(s)
    /\ taken' = [taken EXCEPT ![s] = NoGen]
    /\ Goto(s, IF pc[s] = "attach" THEN "record" ELSE "idle")
    /\ UNCHANGED <<closed, gens, root, held, origin, cancels, loops, indexer,
                   id, overlapped>>

(* recordSwappedIdentity: forget the cached identity and resolve it again.  *)
FreshIdentity == IF handle = NoGen THEN NoRoot ELSE root[handle]

RecordIdentity(s) ==
    /\ pc[s] = "record"
    /\ id' = FreshIdentity
    /\ Goto(s, "idle")
    /\ UNCHANGED <<stores, held, origin, cancels, loops, indexer, overlapped>>
-----------------------------------------------------------------------------
UserStep(u) ==
    UserAcquires(u) \/ UserReleases(u) \/ Identify(u) \/ DeleteOrigin(u)
    \/ DeactivateSync(u)

ActivationStep(a) ==
    \/ ActivateRefused(a) \/ CancelLast(a) \/ AwaitOldLoop(a) \/ Renew(a)
    \/ Publish(a) \/ ActivateFails(a) \/ StartLoop(a)

LoopStep(c) == FirstTick(c) \/ NextTick(c) \/ TickEnds(c) \/ LoopReturns(c)

HealStep == HealAborts \/ HealRecovers \/ HealActivates

DetachStep(p) ==
    AwaitHeal(p) \/ AwaitLoops(p) \/ Detach(p) \/ DrainAndClose(p)

SwapStep(s) ==
    OpenSwapped(s) \/ ReopenLocal(s) \/ StoreLost(s) \/ Reattach(s)
    \/ RecordIdentity(s)

Next ==
    \/ \E u \in Users : UserStep(u)
    \/ \E a \in Activators : Activate(a) \/ ActivationStep(a)
    \/ \E c \in Ctxs : LoopStep(c)
    \/ HealStep
    \/ \E p \in Detachers : CancelBackground(p) \/ DetachStep(p)
    \/ \E s \in Swappers : SwapStep(s)

Spec == Init /\ [][Next]_vars

(* Every goroutine that has begun goes on: references are released ("the caller
   MUST invoke" the release function), a tick ends (its network operations are
   bounded), a heal returns, and a wait whose condition holds is left.  Nobody
   has to begin anything, and no loop to tick again.                         *)
FairSpec ==
    /\ Spec
    /\ \A u \in Users :
          WF_vars(UserReleases(u) \/ DeleteOrigin(u) \/ DeactivateSync(u))
    /\ \A a \in Activators : WF_vars(ActivationStep(a))
    /\ \A c \in Ctxs : WF_vars(FirstTick(c) \/ TickEnds(c) \/ LoopReturns(c))
    /\ WF_vars(HealStep)
    /\ \A p \in Detachers : WF_vars(DetachStep(p))
    /\ \A s \in Swappers : WF_vars(SwapStep(s))
-----------------------------------------------------------------------------
StoreTypes ==
    /\ handle \in Gens \cup {NoGen} /\ closed \in BOOLEAN
    /\ gens \in Gens /\ open \subseteq 1 .. gens
    /\ root \in [Gens -> Roots \cup {NoRoot}]
    /\ held \in [Procs -> Gens \cup {NoGen}]
    /\ taken \in [Detachers -> Gens \cup {NoGen}]
    /\ id \in Roots \cup {NoRoot}

PcType == {"idle", "using", "deactivate", "done"}
          \cup ActivationSteps \cup DetachSteps \cup SwapSteps

SyncTypes ==
    /\ pc \in [Procs -> PcType]
    /\ nctx \in Ctxs /\ cancelled \subseteq Ctxs
    /\ lastCancel \in Ctxs /\ riCancel \in Ctxs \cup {NoCtx}
    /\ mine \in [Activators -> Ctxs \cup {NoCtx}]
    /\ loop \in [Ctxs -> {"none", "returned"} \cup Live]
    /\ loopGen \in [Ctxs -> Gens \cup {NoGen}]
    /\ heal \in {"healing", "activating", "done"} /\ healCancelled \in BOOLEAN
    /\ index \in {"indexing", "ready", "failed"}
    /\ origin \in BOOLEAN /\ overlapped \in BOOLEAN

(* The types; and who uses a store holds one, and a closed instance has none:
   teardown is for good.                                                    *)
TypeOK ==
    /\ StoreTypes /\ SyncTypes
    /\ \A u \in Users : pc[u] = "using" => held[u] # NoGen
    /\ closed => handle = NoGen

(* Acquire: "Between Acquire and release the service is guaranteed to stay
   open", against any number of overlapping swaps, teardowns and activations. *)
AcquiredStaysOpen == \A p \in Procs : held[p] # NoGen => held[p] \in open

(* The work that holds no reference runs on an open store as well: the heal on
   the first one, a tick of a loop on the one it captured.                  *)
BackgroundOnOpenStore ==
    /\ heal # "done" => 1 \in open
    /\ \A c \in Ctxs : loop[c] = "tick" => loopGen[c] \in open

BackgroundKeepsStore == ~overlapped => BackgroundOnOpenStore

(* Nothing of an earlier store is left behind: every open generation is
   attached or held by a detacher that will close it, none is open once every
   teardown and swap has ended, at most one reconcile loop is not told to stop,
   and between swaps the cached identity is that of the attached store.  The
   identity needs only that no two swaps overlap, as with a single swapper.  *)
LoneSwapper == \A s, t \in Swappers : s = t

NoStoreLeaks ==
    /\ open \subseteq {handle} \cup {taken[p] : p \in Detachers}
    /\ (\E k \in Closers : pc[k] = "done") /\ TearingDown = {} /\ Swapping = {} => open = {}

OneLiveLoop == Cardinality({c \in Ctxs \ cancelled : loop[c] \in Live}) <= 1

IdentityFollowsStore == Swapping = {} /\ handle # NoGen => id \in {NoRoot, root[handle]}

NothingIsLeftBehind ==
    /\ ~overlapped => NoStoreLeaks /\ OneLiveLoop
    /\ ~overlapped \/ LoneSwapper => IdentityFollowsStore

(* A teardown ends, and so does a swap: every loop they wait for was told to
   stop, and every reference they drain is released.                        *)
DetachersEnd ==
    \A p \in Detachers : pc[p] = "index" ~> pc[p] \in {"idle", "done"} \/ overlapped
-----------------------------------------------------------------------------
(* What comments of the code say, and the code does not do.                 *)

(* builder.go, startSync: the loop may use the store it captured, "because
   every close/swap path cancels the loop and waits syncWg before touching the
   store" -- with no proviso on what overlaps.                              *)
LoopsUseOpenStore == \A c \in Ctxs : loop[c] = "tick" => loopGen[c] \in open
=============================================================================
