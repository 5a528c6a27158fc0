-------------------------- MODULE PipelineSession ---------------------------
(***************************************************************************)
(* The sessions of one synthesis tool on one branch                        *)
(* (internal/synthesize/pipeline.go, review_strategy.go;                   *)
(* internal/store/pipeline_index.go, service.go).                          *)
(*                                                                         *)
(* A session is a queue of work items a client answers one by one.  Every  *)
(* call is served by an engine that knows nothing of earlier calls; calls  *)
(* run concurrently, are sent again, and die between any two statements.   *)
(* What ties them together are the rows of the session database, changed   *)
(* by compare-and-set, and the watermark: the commit up to which the tool  *)
(* has looked at the branch.                                               *)
(*                                                                         *)
(* Two things a call does to rows nobody else has read yet are one step    *)
(* (creating a session and marking it scoped; scanning and planning).      *)
(***************************************************************************)
EXTENDS Integers, Sequences

CONSTANTS
    Callers,     \* goroutines that serve calls
    Plans,       \* the queues Plan may come up with: sequences of step types,
                 \* the prune clusters by size
    MaxSessions, \* bound on the sessions started
    MaxItems,    \* bound on the work items
    MaxDepth,    \* maxRaptorDepth
    MaxHead,     \* bound on the commits of the branch
    Faults       \* bound on the calls that die and the restarts

Sessions  == 1 .. MaxSessions
Items     == 1 .. MaxItems
NoItem    == 0      \* nil
StepTypes == {"prune", "distill", "discover", "reflect"}

ASSUME BoundsAssumption ==
    /\ MaxSessions \in Nat /\ MaxItems \in Nat /\ MaxDepth \in Nat
    /\ MaxHead \in Nat \ {0} /\ Faults \in Nat
ASSUME PlansAssumption == Plans \subseteq Seq(StepTypes \ {"reflect"})

VARIABLES
    status,     \* pipeline_sessions.status; "none" before, "gone" after the row
    phase,      \* pipeline_sessions.phase
    scoped,     \* pipeline_sessions.scoped
    items,      \* pipeline_work_items: of which session and type, how deep
    answered,   \* the items whose response is not NULL
    head,       \* the tip of the branch, its commits being 1 .. head
    watermark,  \* pipeline_watermarks; 0 is none
    call,       \* what each caller is doing
    known,      \* the sessions some client has been told of
    faults,     \* what is left of Faults
    applied,    \* ghost: how often each item was applied
    strayed,    \* ghost: the items to which an answer that names another was
    from,       \* ghost: the commit after which each session's seeds begin
    looked,     \* ghost: the commits unscoped sessions that completed began before
    shared      \* ghost: the sessions two calls were in at once

sessions == <<status, phase, scoped, known>>
queue    == <<items, answered>>
ghosts   == <<applied, strayed, from, looked, shared>>
vars     == <<sessions, queue, head, watermark, call, faults, ghosts>>

After(p) == IF p = "work" THEN "reflect" ELSE "done"

CallSteps == {"idle", "scan", "claim", "apply", "follow", "dispatch", "advance",
              "hook", "refetch", "complete", "head", "record"}

Idle == [at |-> "idle", session |-> 0, phase |-> "work", item |-> NoItem,
         stray |-> FALSE, head |-> 0]

At(c, step) == call[c].at = step
Mine(c)     == call[c].session
Goto(c, at) == call' = [call EXCEPT ![c].at = at]
Return(c)   == call' = [call EXCEPT ![c] = Idle]
Enter(c, s, at) ==
    call' = [call EXCEPT ![c] = [Idle EXCEPT !.at = at, !.session = s,
                                             !.phase = phase[s]]]
(* nextItem on the row the call has read; the item is done with.            *)
Dispatch(c) ==
    call' = [call EXCEPT ![c].at = "dispatch", ![c].item = NoItem,
                         ![c].stray = FALSE]
InUse(s) == \E c \in Callers : ~At(c, "idle") /\ Mine(c) = s

Init ==
    /\ status = [s \in Sessions |-> "none"]
    /\ phase = [s \in Sessions |-> "work"]
    /\ scoped = [s \in Sessions |-> FALSE]
    /\ known = {} /\ items = <<>> /\ answered = {}
    /\ head = 1 /\ watermark = 0
    /\ call = [c \in Callers |-> Idle]
    /\ faults = Faults
    /\ applied = [i \in Items |-> 0] /\ strayed = {}
    /\ from = [s \in Sessions |-> 0]
    /\ looked = {} /\ shared = {}
-----------------------------------------------------------------------------
(* The bands of the priority column.  A prune item has the size of its cluster;
   discover items count down from -10 and are capped above reflect.         *)
Priority(w) ==
    CASE w.type = "prune"    -> 2
      [] w.type = "distill"  -> -w.depth
      [] w.type = "discover" -> -10
      [] w.type = "reflect"  -> -100

Open(s) == {i \in DOMAIN items : items[i].session = s /\ i \notin answered}

(* "ORDER BY priority DESC, id ASC"                                         *)
Served(i, s) ==
    /\ i \in Open(s)
    /\ \A j \in Open(s) :
          \/ Priority(items[j]) < Priority(items[i])
          \/ Priority(items[j]) = Priority(items[i]) /\ i <= j

Insert(s, type, depth) ==
    /\ Len(items) < MaxItems
    /\ items' = Append(items, [session |-> s, type |-> type, depth |-> depth])

(* A step that writes facts, if it has any to write.                        *)
Write == head' \in {head, head + 1} /\ head' <= MaxHead
-----------------------------------------------------------------------------
(* CreatePipelineSession: the active session is abandoned for the new one.  *)
Start(c, isScoped) ==
    /\ At(c, "idle")
    /\ \E s \in Sessions :
          /\ \A t \in Sessions : status[t] = "none" <=> t >= s
          /\ status' = [t \in Sessions |->
                          IF t = s THEN "active"
                          ELSE IF status[t] = "active" THEN "abandoned"
                          ELSE status[t]]
          /\ scoped' = [scoped EXCEPT ![s] = isScoped]
          /\ Enter(c, s, "scan")
    /\ UNCHANGED <<phase, known, queue, head, watermark, faults, ghosts>>

(* dirtyFacts takes what changed since the watermark, or everything in a
   scoped session; nothing may be left of it when the strategy and the scope
   have filtered it.  Plan merges near-duplicates and inserts its items.    *)
Scan(c) ==
    /\ At(c, "scan")
    /\ LET since == IF scoped[Mine(c)] THEN 0 ELSE watermark
       IN /\ from' = [from EXCEPT ![Mine(c)] = since]
          /\ \/ Goto(c, "complete") /\ UNCHANGED <<items, head>>
             \/ /\ since < head
                /\ \E plan \in Plans :
                      /\ Len(items) + Len(plan) <= MaxItems
                      /\ items' = items \o [k \in DOMAIN plan |->
                                     [session |-> Mine(c), type |-> plan[k],
                                      depth |-> 0]]
                /\ Write
                /\ Goto(c, "dispatch")
    /\ UNCHANGED <<sessions, answered, watermark, faults, applied, strayed,
                   looked, shared>>
-----------------------------------------------------------------------------
(* Faulty variant: the staleness guard is left out.                         *)
AnyItem(i, current, named) == TRUE

(* "itemID != 0 && itemID != item.ID" is an error that touches nothing.     *)
ForThisItem(i, current, named) == named => i = current

(* continueSessionForItem: the session must be active; the item at the head
   of the queue is peeked, and the answer decoded against it.  The answer was
   made for item i, and names it or not.  An answer that is refused or cannot
   be decoded touches nothing.                                              *)
Continue(c, i, named) ==
    LET s == items[i].session
    IN /\ At(c, "idle")
       /\ s \in known /\ status[s] = "active"
       /\ \/ Open(s) = {} /\ Enter(c, s, "dispatch")
          \/ \E current \in Items :
                /\ Served(current, s)
                /\ ForThisItem(i, current, named)
                /\ call' = [call EXCEPT ![c] =
                              [at |-> "claim", session |-> s,
                               phase |-> phase[s], item |-> current,
                               stray |-> named /\ i # current, head |-> 0]]
       /\ shared' = IF InUse(s) THEN shared \cup {s} ELSE shared
       /\ UNCHANGED <<sessions, queue, head, watermark, faults, applied,
                      strayed, from, looked>>

(* Faulty variant: the UPDATE does not ask for response IS NULL.            *)
ClaimAnyway(c) ==
    /\ At(c, "claim")
    /\ answered' = answered \cup {call[c].item}
    /\ Goto(c, "apply")
    /\ UNCHANGED <<sessions, items, head, watermark, faults, ghosts>>

(* AnswerPipelineWorkItem: the claim.  Who loses it skips the apply.        *)
Claim(c) ==
    /\ At(c, "claim")
    /\ answered' = answered \cup {call[c].item}
    /\ \/ call[c].item \notin answered /\ Goto(c, "apply")
       \/ call[c].item \in answered /\ Dispatch(c)
    /\ UNCHANGED <<sessions, items, head, watermark, faults, ghosts>>

(* Strategy.Apply                                                           *)
Apply(c) ==
    LET i == call[c].item
    IN /\ At(c, "apply")
       /\ Write
       /\ applied' = [applied EXCEPT ![i] = @ + 1]
       /\ strayed' = IF call[c].stray THEN strayed \cup {i} ELSE strayed
       /\ IF items[i].type = "distill" THEN Goto(c, "follow") ELSE Dispatch(c)
       /\ UNCHANGED <<sessions, queue, watermark, faults, from, looked, shared>>

(* Faulty variant: one level too many.                                      *)
FollowUpDeeper(c) ==
    /\ At(c, "follow")
    /\ \/ Dispatch(c) /\ UNCHANGED items
       \/ /\ items[call[c].item].depth <= MaxDepth
          /\ Insert(Mine(c), "distill", items[call[c].item].depth + 1)
          /\ UNCHANGED call
    /\ UNCHANGED <<sessions, answered, head, watermark, faults, ghosts>>

(* enqueueRaptorFollowups: another distill item one level deeper, or no more.  *)
FollowUp(c) ==
    /\ At(c, "follow")
    /\ \/ Dispatch(c) /\ UNCHANGED items
       \/ /\ items[call[c].item].depth < MaxDepth
          /\ Insert(Mine(c), "distill", items[call[c].item].depth + 1)
          /\ UNCHANGED call
    /\ UNCHANGED <<sessions, answered, head, watermark, faults, ghosts>>
-----------------------------------------------------------------------------
(* nextItem, handlePhase: serve the next item.  They go by the phase the call
   read, which may be behind.                                               *)
Serve(c) ==
    /\ At(c, "dispatch")
    /\ call[c].phase # "done" /\ Open(Mine(c)) # {}
    /\ known' = known \cup {Mine(c)}
    /\ Return(c)
    /\ UNCHANGED <<status, phase, scoped, queue, head, watermark, faults, ghosts>>

(* Faulty variant: the session advances with its items unanswered.          *)
Hurry(c) ==
    /\ At(c, "dispatch")
    /\ Goto(c, IF call[c].phase = "done" THEN "complete" ELSE "advance")
    /\ UNCHANGED <<sessions, queue, head, watermark, faults, ghosts>>

(* ... there is none, or the phase is done.                                 *)
NoneToServe(c) ==
    /\ At(c, "dispatch")
    /\ \/ call[c].phase = "done" /\ Goto(c, "complete")
       \/ /\ call[c].phase # "done" /\ Open(Mine(c)) = {}
          /\ Goto(c, "advance")
    /\ UNCHANGED <<sessions, queue, head, watermark, faults, ghosts>>

(* Faulty variant: the UPDATE does not ask for the phase it comes from.     *)
AdvanceAnyway(c) ==
    /\ At(c, "advance")
    /\ phase' = [phase EXCEPT ![Mine(c)] = After(call[c].phase)]
    /\ Goto(c, IF call[c].phase = "work" THEN "hook" ELSE "refetch")
    /\ UNCHANGED <<status, scoped, known, queue, head, watermark, faults, ghosts>>

(* AdvancePipelineSessionPhase                                              *)
AdvancePhase(c) ==
    /\ At(c, "advance")
    /\ \/ /\ phase[Mine(c)] = call[c].phase
          /\ phase' = [phase EXCEPT ![Mine(c)] = After(call[c].phase)]
          /\ Goto(c, IF call[c].phase = "work" THEN "hook" ELSE "refetch")
       \/ /\ phase[Mine(c)] # call[c].phase
          /\ Goto(c, "refetch")
          /\ UNCHANGED phase
    /\ UNCHANGED <<status, scoped, known, queue, head, watermark, faults, ghosts>>

(* OnPhaseAdvance: the reflect item, if there is anything to reflect on.    *)
Hook(c) ==
    /\ At(c, "hook")
    /\ UNCHANGED items \/ Insert(Mine(c), "reflect", 0)
    /\ Goto(c, "refetch")
    /\ UNCHANGED <<sessions, answered, head, watermark, faults, ghosts>>

(* Faulty variant: the row the call read first is dispatched on again.      *)
NoRefetch(c) ==
    /\ At(c, "refetch")
    /\ Goto(c, "dispatch")
    /\ UNCHANGED <<sessions, queue, head, watermark, faults, ghosts>>

(* refetchAndDispatch                                                       *)
Refetch(c) ==
    /\ At(c, "refetch")
    /\ Enter(c, Mine(c), "dispatch")
    /\ UNCHANGED <<sessions, queue, head, watermark, faults, ghosts>>
-----------------------------------------------------------------------------
(* Faulty variant: the scope is that of the engine, which a continue call
   builds without one.                                                      *)
CompleteUnscoped(c) ==
    /\ At(c, "complete")
    /\ status' = [status EXCEPT ![Mine(c)] = "completed"]
    /\ Goto(c, "head")
    /\ UNCHANGED <<phase, scoped, known, queue, head, watermark, faults, ghosts>>

(* completeSession: CompletePipelineSession asks nothing of the row ...     *)
Complete(c) ==
    /\ At(c, "complete")
    /\ status' = [status EXCEPT ![Mine(c)] = "completed"]
    /\ IF scoped[Mine(c)] THEN Return(c) ELSE Goto(c, "head")
    /\ UNCHANGED <<phase, scoped, known, queue, head, watermark, faults, ghosts>>

(* ... and the watermark of an unscoped session moves to the branch's head: to
   what it looked at, and to what was written since.                        *)
ReadHead(c) ==
    /\ At(c, "head")
    /\ call' = [call EXCEPT ![c].at = "record", ![c].head = head]
    /\ looked' = IF scoped[Mine(c)] THEN looked
                 ELSE looked \cup (from[Mine(c)] + 1 .. head)
    /\ UNCHANGED <<sessions, queue, head, watermark, faults, applied, strayed,
                   from, shared>>

SetWatermark(c) ==
    /\ At(c, "record")
    /\ watermark' = call[c].head
    /\ Return(c)
    /\ UNCHANGED <<sessions, queue, head, faults, ghosts>>
-----------------------------------------------------------------------------
(* The request is cancelled, or a statement fails: the call returns an error.
   Below the claim this loses the item's decisions.                         *)
Fail(c) ==
    /\ ~At(c, "idle")
    /\ faults > 0 /\ faults' = faults - 1
    /\ Return(c)
    /\ UNCHANGED <<sessions, queue, head, watermark, ghosts>>

(* The session database is made anew when the server starts.                *)
Restart ==
    /\ faults > 0 /\ faults' = faults - 1
    /\ status' = [s \in Sessions |-> IF status[s] = "none" THEN "none" ELSE "gone"]
    /\ call' = [c \in Callers |-> Idle]
    /\ UNCHANGED <<phase, scoped, known, queue, head, watermark, ghosts>>

(* Another tool, or the reconcile loop, commits to the branch.              *)
Commit ==
    /\ head < MaxHead
    /\ head' = head + 1
    /\ UNCHANGED <<sessions, queue, watermark, call, faults, ghosts>>
-----------------------------------------------------------------------------
CallStep(c) ==
    \/ Scan(c) \/ Claim(c) \/ Apply(c) \/ FollowUp(c)
    \/ Serve(c) \/ NoneToServe(c) \/ AdvancePhase(c) \/ Hook(c) \/ Refetch(c)
    \/ Complete(c) \/ ReadHead(c) \/ SetWatermark(c)

Next ==
    \/ \E c \in Callers, isScoped \in BOOLEAN : Start(c, isScoped)
    \/ \E c \in Callers, i \in DOMAIN items, named \in BOOLEAN : Continue(c, i, named)
    \/ \E c \in Callers : CallStep(c) \/ Fail(c)
    \/ Restart
    \/ Commit

Spec == Init /\ [][Next]_vars

(* A goroutine that serves a call goes on until the call returns.  No client
   has to call.                                                             *)
FairSpec == Spec /\ \A c \in Callers : WF_vars(CallStep(c))
-----------------------------------------------------------------------------
Statuses == {"none", "active", "completed", "abandoned", "gone"}
Phases   == {"work", "reflect", "done"}

Call == [at : CallSteps, session : {0} \cup Sessions, phase : Phases,
         item : {NoItem} \cup Items, stray : BOOLEAN, head : Nat]

WorkItem == [session : Sessions, type : StepTypes, depth : 0 .. MaxDepth]

TypeOK ==
    /\ status \in [Sessions -> Statuses]
    /\ phase \in [Sessions -> Phases]
    /\ scoped \in [Sessions -> BOOLEAN]
    /\ known \subseteq Sessions
    /\ items \in Seq(WorkItem) /\ Len(items) <= MaxItems
    /\ answered \subseteq DOMAIN items
    /\ head \in Nat \ {0} /\ watermark \in 0 .. head
    /\ call \in [Callers -> Call]
    /\ \A c \in Callers : ~At(c, "idle") => Mine(c) \in Sessions
    /\ \A c \in Callers : At(c, "claim") \/ At(c, "apply") \/ At(c, "follow")
                          => call[c].item \in DOMAIN items
    /\ \A c \in Callers : call[c].head <= head
    /\ faults \in Nat
    /\ applied \in [Items -> Nat] /\ strayed \subseteq Items
    /\ from \in [Sessions -> Nat]
    /\ looked \subseteq Nat /\ shared \subseteq Sessions

(* A response is applied once, however often it is sent and by however many
   callers at a time; one that names its item never takes effect on another
   (pipeline.go: "a resubmitted response loses and its mutations are skipped
   entirely"; continueSessionForItem's staleness guard).                    *)
AnswersTakeEffectOnce ==
    strayed = {} /\ \A i \in Items : applied[i] <= 1

(* The reflect item of a session is enqueued at most once, although the call
   that enqueues it is one of several that found the queue empty
   (AdvancePipelineSessionPhase: "guarantees the reflect step is enqueued at
   most once per session").                                                 *)
ReflectOnce ==
    \A i, j \in DOMAIN items :
        /\ items[i].type = "reflect" /\ items[j].type = "reflect"
        /\ items[i].session = items[j].session
        => i = j

(* pipeline_index.go: "done" (all items including reflect answered, ready for
   completion), and so for a completed session -- of sessions no two calls
   were in at the same time: those that answer one item, wait for the next,
   and lose calls to faults.                                                *)
AloneAllAnsweredWhenDone ==
    \A s \in Sessions \ shared :
        phase[s] = "done" \/ status[s] = "completed" => Open(s) = {}

(* The watermark hides nothing: every commit up to it is one that a completed,
   unscoped session began its seeds before.  Scoped, abandoned, failed and
   concurrent sessions leave no gap under it, and it may go back
   (completeSession, dirtyFacts).                                           *)
WatermarkIsEarned == 1 .. watermark \subseteq looked

(* Every call returns: the phase machine never turns in circles, whatever the
   other callers do to the session in between (nextItem, refetchAndDispatch). *)
CallsReturn == \A c \in Callers : ~At(c, "idle") ~> At(c, "idle")
-----------------------------------------------------------------------------
Taken(i) == \E c \in Callers : At(c, "apply") /\ call[c].item = i

(* The abstract queue: an item that is answered, that nobody applies any more
   and that was not applied is lost.                                        *)
Work ==
    [i \in Items |->
        IF i \notin DOMAIN items THEN "none"
        ELSE IF i \notin answered THEN "open"
        ELSE IF Taken(i) THEN "taken"
        ELSE IF applied[i] = 0 THEN "lost"
        ELSE "applied"]

Queue == INSTANCE WorkQueue WITH work <- Work, stage <- phase

(* The pipeline implements the queue of WorkQueue: an item is taken by one
   caller and applied once or lost, and phases follow each other.           *)
QueueSpec == Queue!Spec
=============================================================================
