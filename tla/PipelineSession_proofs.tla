----------------------- MODULE PipelineSession_proofs -----------------------
(***************************************************************************)
(* PipelineSession for any number of callers, sessions and items, and for  *)
(* any plans: answers take effect once, a session reflects once, the       *)
(* watermark is earned, and the pipeline implements WorkQueue.             *)
(***************************************************************************)
EXTENDS PipelineSession, SequenceTheorems, TLAPS

(* What a call becomes.                                                     *)
LEMMA GotoCall ==
    ASSUME call \in [Callers -> Call], NEW c \in Callers,
           NEW at \in CallSteps, Goto(c, at)
    PROVE  /\ call' \in [Callers -> Call]
           /\ call'[c].at = at
           /\ call'[c].session = call[c].session
           /\ call'[c].phase = call[c].phase
           /\ call'[c].item = call[c].item
           /\ call'[c].stray = call[c].stray
           /\ call'[c].head = call[c].head
           /\ \A d \in Callers : d # c => call'[d] = call[d]
BY DEF Goto, Call

LEMMA ReturnCall ==
    ASSUME call \in [Callers -> Call], NEW c \in Callers, Return(c)
    PROVE  /\ call' \in [Callers -> Call]
           /\ call'[c] = Idle
           /\ \A d \in Callers : d # c => call'[d] = call[d]
<1>1. Idle \in Call
  BY DEF Idle, Call, CallSteps, Phases
<1>2. QED  BY <1>1 DEF Return

LEMMA EnterCall ==
    ASSUME call \in [Callers -> Call], NEW c \in Callers,
           NEW at \in CallSteps, NEW s \in Sessions,
           phase \in [Sessions -> Phases], Enter(c, s, at)
    PROVE  /\ call' \in [Callers -> Call]
           /\ call'[c].at = at /\ call'[c].session = s
           /\ call'[c].phase = phase[s]
           /\ call'[c].item = NoItem /\ call'[c].stray = FALSE
           /\ call'[c].head = 0
           /\ \A d \in Callers : d # c => call'[d] = call[d]
BY DEF Enter, Idle, Call

LEMMA DispatchCall ==
    ASSUME call \in [Callers -> Call], NEW c \in Callers, Dispatch(c)
    PROVE  /\ call' \in [Callers -> Call]
           /\ call'[c].at = "dispatch"
           /\ call'[c].session = call[c].session
           /\ call'[c].phase = call[c].phase
           /\ call'[c].item = NoItem /\ call'[c].stray = FALSE
           /\ call'[c].head = call[c].head
           /\ \A d \in Callers : d # c => call'[d] = call[d]
<1>1. /\ call[c] \in Call
      /\ call' = [call EXCEPT ![c] = [call[c] EXCEPT !.at = "dispatch",
                                       !.item = NoItem, !.stray = FALSE]]
  BY DEF Dispatch, Call
<1> DEFINE new == [call[c] EXCEPT !.at = "dispatch", !.item = NoItem, !.stray = FALSE]
<1>2. /\ new \in Call
      /\ new.at = "dispatch" /\ new.item = NoItem /\ new.stray = FALSE
      /\ new.session = call[c].session
      /\ new.phase = call[c].phase /\ new.head = call[c].head
  BY <1>1 DEF Call, CallSteps
<1> HIDE DEF new
<1>3. call' = [call EXCEPT ![c] = new]
  BY <1>1 DEF new
<1>4. QED  BY <1>2, <1>3

(* The queue only grows.                                                    *)
Grows ==
    /\ items' \in Seq(WorkItem) /\ Len(items') <= MaxItems
    /\ DOMAIN items \subseteq DOMAIN items'
    /\ \A k \in DOMAIN items : items'[k] = items[k]

LEMMA InsertGrows ==
    ASSUME items \in Seq(WorkItem), NEW s \in Sessions,
           NEW type \in StepTypes, NEW depth \in 0 .. MaxDepth,
           Insert(s, type, depth)
    PROVE  /\ Grows /\ Len(items') = Len(items) + 1
           /\ items'[Len(items) + 1]
                = [session |-> s, type |-> type, depth |-> depth]
<1>1. [session |-> s, type |-> type, depth |-> depth] \in WorkItem
  BY DEF WorkItem
<1>2. Len(items) \in Nat /\ MaxItems \in Nat /\ DOMAIN items = 1 .. Len(items)
  BY BoundsAssumption
<1>3. QED  BY <1>1, <1>2, AppendProperties DEF Insert, Grows

Planned(c, plan) ==
    items \o [k \in DOMAIN plan |->
                [session |-> Mine(c), type |-> plan[k], depth |-> 0]]

LEMMA PlanGrows ==
    ASSUME items \in Seq(WorkItem), NEW c \in Callers, Mine(c) \in Sessions,
           NEW plan \in Plans, Len(items) + Len(plan) <= MaxItems,
           items' = Planned(c, plan)
    PROVE  /\ Grows
           /\ \A k \in DOMAIN items' \ DOMAIN items :
                 items'[k].type # "reflect" /\ items'[k].session = Mine(c)
<1> DEFINE added == [k \in DOMAIN plan |->
                       [session |-> Mine(c), type |-> plan[k], depth |-> 0]]
<1>1. plan \in Seq(StepTypes \ {"reflect"})
  BY PlansAssumption
<1>2. \A k \in DOMAIN plan : plan[k] \in StepTypes \ {"reflect"}
  BY <1>1
<1>3. /\ \A k \in DOMAIN added : added[k] \in WorkItem /\ added[k].type # "reflect" /\ added[k].session = Mine(c)
      /\ DOMAIN added = DOMAIN plan
  BY <1>2, BoundsAssumption DEF WorkItem
<1>4. added \in Seq(WorkItem) /\ Len(added) = Len(plan)
  <2>1. DOMAIN added = 1 .. Len(plan) /\ Len(plan) \in Nat
    BY <1>1, <1>3
  <2>2. QED  BY <1>3, <2>1, SeqDef, LenProperties
<1>5. items' = items \o added
  BY DEF Planned
<1>6. /\ items' \in Seq(WorkItem)
      /\ Len(items') = Len(items) + Len(added)
      /\ \A k \in 1 .. Len(items') :
            items'[k] = IF k <= Len(items) THEN items[k] ELSE added[k - Len(items)]
  <2> HIDE DEF added
  <2>1. QED  BY <1>4, <1>5, ConcatProperties
<1>7. /\ Len(items) \in Nat /\ Len(added) \in Nat /\ DOMAIN items = 1 .. Len(items)
      /\ DOMAIN items' = 1 .. Len(items') /\ DOMAIN added = 1 .. Len(added)
  <2> HIDE DEF added
  <2>1. QED  BY <1>4, <1>6
<1>8. Grows
  <2> HIDE DEF added
  <2>1. QED  BY <1>4, <1>6, <1>7 DEF Grows
<1>9. \A k \in DOMAIN items' \ DOMAIN items :
         items'[k].type # "reflect" /\ items'[k].session = Mine(c)
  <2> HIDE DEF added
  <2>1. SUFFICES ASSUME NEW k \in DOMAIN items' \ DOMAIN items
                 PROVE  items'[k].type # "reflect" /\ items'[k].session = Mine(c)
    OBVIOUS
  <2>2. k - Len(items) \in DOMAIN added /\ items'[k] = added[k - Len(items)]
    BY <1>6, <1>7
  <2>3. QED  BY <1>3, <2>2
<1>10. QED  BY <1>8, <1>9
-----------------------------------------------------------------------------
(* A caller's record, and the queue's part of TypeOK.                       *)
QueueTypes ==
    /\ items \in Seq(WorkItem) /\ Len(items) <= MaxItems
    /\ answered \subseteq DOMAIN items

WithItem(c) == At(c, "claim") \/ At(c, "apply") \/ At(c, "follow")

CallTypes ==
    /\ call \in [Callers -> Call]
    /\ \A c \in Callers : ~At(c, "idle") => Mine(c) \in Sessions
    /\ \A c \in Callers : WithItem(c) => call[c].item \in DOMAIN items
    /\ \A c \in Callers : call[c].head <= head

RestTypes ==
    /\ status \in [Sessions -> Statuses]
    /\ phase \in [Sessions -> Phases]
    /\ scoped \in [Sessions -> BOOLEAN]
    /\ known \subseteq Sessions
    /\ head \in Nat \ {0} /\ watermark \in 0 .. head
    /\ faults \in Nat
    /\ applied \in [Items -> Nat] /\ strayed \subseteq Items
    /\ from \in [Sessions -> Nat]
    /\ looked \subseteq Nat /\ shared \subseteq Sessions

LEMMA TypeParts == TypeOK <=> QueueTypes /\ CallTypes /\ RestTypes
BY DEF TypeOK, QueueTypes, CallTypes, RestTypes, WithItem

LEMMA TypePartsNext ==
    ASSUME QueueTypes', CallTypes', RestTypes' PROVE TypeOK'
BY DEF TypeOK, QueueTypes, CallTypes, RestTypes, WithItem

LEMMA QueueFacts ==
    ASSUME QueueTypes
    PROVE  /\ Len(items) \in Nat /\ DOMAIN items = 1 .. Len(items)
           /\ DOMAIN items \subseteq Items
           /\ \A i \in DOMAIN items : items[i] \in WorkItem
<1>1. Len(items) \in Nat /\ DOMAIN items = 1 .. Len(items)
  BY DEF QueueTypes
<1>2. DOMAIN items \subseteq Items
  BY <1>1, BoundsAssumption DEF QueueTypes, Items
<1>3. \A i \in DOMAIN items : items[i] \in WorkItem
  BY <1>1 DEF QueueTypes
<1>4. QED  BY <1>1, <1>2, <1>3

LEMMA InitTypes == Init => TypeOK
<1> SUFFICES ASSUME Init PROVE QueueTypes /\ CallTypes /\ RestTypes
  BY TypeParts
<1>1. QueueTypes
  BY BoundsAssumption, EmptySeq DEF Init, QueueTypes
<1>2. Idle \in Call /\ Idle.at = "idle" /\ Idle.head = 0
  BY DEF Idle, Call, CallSteps, Phases
<1>3. CallTypes
  BY <1>2 DEF Init, CallTypes, WithItem, At
<1>4. RestTypes
  BY BoundsAssumption DEF Init, RestTypes, Statuses, Phases
<1>5. QED  BY <1>1, <1>3, <1>4

(* A step of one caller, which leaves it a record that is in order.         *)
LEMMA CallerTypes ==
    ASSUME TypeOK, NEW c \in Callers, call' \in [Callers -> Call],
           \A d \in Callers : d # c => call'[d] = call[d],
           DOMAIN items \subseteq DOMAIN items', head' \in Nat, head <= head',
           call'[c].at # "idle" => call'[c].session \in Sessions,
           call'[c].at \in {"claim", "apply", "follow"}
              => call'[c].item \in DOMAIN items',
           call'[c].head <= head'
    PROVE  CallTypes'
<1> USE TypeParts DEF CallTypes
<1>1. \A d \in Callers : ~At(d, "idle")' => Mine(d)' \in Sessions
  BY DEF At, Mine
<1>2. \A d \in Callers : WithItem(d)' => call'[d].item \in DOMAIN items'
  <2> SUFFICES ASSUME NEW d \in Callers, WithItem(d)'
               PROVE  call'[d].item \in DOMAIN items'
    OBVIOUS
  <2>1. CASE d = c
    BY <2>1 DEF WithItem, At
  <2>2. CASE d # c
    BY <2>2 DEF WithItem, At
  <2>3. QED  BY <2>1, <2>2
<1>3. \A d \in Callers : call'[d].head <= head'
  <2> SUFFICES ASSUME NEW d \in Callers PROVE call'[d].head <= head'
    OBVIOUS
  <2>1. CASE d = c
    BY <2>1
  <2>2. CASE d # c
    <3>1. call[d].head \in Nat /\ call[d].head <= head /\ head \in Nat
      BY DEF Call, RestTypes
    <3>2. QED  BY <2>2, <3>1
  <2>3. QED  BY <2>1, <2>2
<1>4. QED  BY <1>1, <1>2, <1>3

LEMMA StartTypes ==
    ASSUME TypeOK, NEW c \in Callers, NEW isScoped \in BOOLEAN,
           Start(c, isScoped)
    PROVE  TypeOK'
<1> USE TypeParts
<1>1. PICK s \in Sessions :
         /\ status' = [t \in Sessions |->
                         IF t = s THEN "active"
                         ELSE IF status[t] = "active" THEN "abandoned"
                         ELSE status[t]]
         /\ scoped' = [scoped EXCEPT ![s] = isScoped]
         /\ Enter(c, s, "scan")
  BY DEF Start
<1>2. QueueTypes'
  BY DEF Start, queue, QueueTypes
<1>3. /\ call' \in [Callers -> Call] /\ call'[c].at = "scan"
      /\ call'[c].session = s /\ call'[c].head = 0
      /\ \A d \in Callers : d # c => call'[d] = call[d]
  BY <1>1, EnterCall DEF CallTypes, RestTypes, CallSteps
<1>4. CallTypes'
  <2>1. head' = head /\ items' = items /\ head \in Nat
    BY DEF Start, queue, RestTypes
  <2>2. QED  BY <1>3, <2>1, CallerTypes
<1>5. RestTypes'
  BY <1>1 DEF Start, RestTypes, ghosts, Statuses
<1>6. QED  BY <1>2, <1>4, <1>5, TypePartsNext

LEMMA ScanTypes ==
    ASSUME TypeOK, NEW c \in Callers, Scan(c) PROVE TypeOK' /\ Grows
<1> USE TypeParts
<1>0. Mine(c) \in Sessions
  BY DEF Scan, CallTypes, At
<1>1. /\ Grows
      /\ call'[c].at \in {"complete", "dispatch"} /\ call' \in [Callers -> Call]
      /\ call'[c].session = Mine(c) /\ call'[c].head = call[c].head
      /\ \A d \in Callers : d # c => call'[d] = call[d]
      /\ head' \in {head, head + 1}
  <2>1. CASE Goto(c, "complete") /\ UNCHANGED <<items, head>>
    BY <2>1, GotoCall DEF Grows, QueueTypes, CallTypes, CallSteps, Mine
  <2>2. CASE ~(Goto(c, "complete") /\ UNCHANGED <<items, head>>)
    <3>1. /\ Write /\ Goto(c, "dispatch")
          /\ \E plan \in Plans : /\ Len(items) + Len(plan) <= MaxItems
                                 /\ items' = Planned(c, plan)
      BY <2>2 DEF Scan, Planned
    <3>2. Grows
      BY <1>0, <3>1, PlanGrows DEF QueueTypes
    <3>3. QED  BY <3>1, <3>2, GotoCall DEF CallTypes, CallSteps, Write, Mine
  <2>3. QED  BY <2>1, <2>2
<1>2. head \in Nat \ {0} /\ head' \in Nat \ {0} /\ head <= head'
  BY <1>1 DEF RestTypes
<1>3. QueueTypes'
  BY <1>1 DEF Scan, Grows, QueueTypes
<1>4. CallTypes'
  <2>1. call[c].head \in Nat /\ call[c].head <= head
    BY DEF CallTypes, Call
  <2>2. DOMAIN items \subseteq DOMAIN items'
    BY <1>1 DEF Grows
  <2>3. call'[c].head <= head'
    BY <1>1, <1>2, <2>1
  <2>4. QED  BY <1>0, <1>1, <1>2, <2>2, <2>3, CallerTypes
<1>5. RestTypes'
  <2>1. from' \in [Sessions -> Nat]
    BY <1>0 DEF Scan, RestTypes
  <2>2. watermark' \in 0 .. head'
    BY <1>2 DEF Scan, RestTypes
  <2>3. QED  BY <1>2, <2>1, <2>2 DEF Scan, RestTypes, sessions
<1>6. QED  BY <1>1, <1>3, <1>4, <1>5, TypePartsNext

LEMMA ContinueTypes ==
    ASSUME TypeOK, NEW c \in Callers, NEW i \in DOMAIN items,
           NEW named \in BOOLEAN, Continue(c, i, named)
    PROVE  TypeOK'
<1> USE TypeParts
<1> DEFINE s == items[i].session
<1>0. s \in Sessions
  BY QueueFacts DEF WorkItem
<1>1. UNCHANGED <<sessions, queue, head, watermark, faults, applied, strayed,
                  from, looked>>
  BY DEF Continue
<1>2. shared' \subseteq Sessions
  BY <1>0 DEF Continue, RestTypes
<1>3. QueueTypes' /\ RestTypes'
  BY <1>1, <1>2 DEF queue, sessions, QueueTypes, RestTypes
<1>4. head' = head /\ items' = items /\ head \in Nat
  BY <1>1 DEF queue, RestTypes
<1>5. CASE Open(s) = {} /\ Enter(c, s, "dispatch")
  <2> HIDE DEF s
  <2>1. /\ call' \in [Callers -> Call] /\ call'[c].at = "dispatch"
        /\ call'[c].session = s /\ call'[c].head = 0
        /\ \A d \in Callers : d # c => call'[d] = call[d]
    BY <1>0, <1>5, EnterCall DEF CallTypes, RestTypes, CallSteps
  <2>2. CallTypes'
    BY <1>0, <1>4, <2>1, CallerTypes
  <2>3. QED  BY <1>3, <2>2, TypePartsNext
<1>6. CASE \E current \in Items :
              /\ Served(current, s)
              /\ ForThisItem(i, current, named)
              /\ call' = [call EXCEPT ![c] =
                            [at |-> "claim", session |-> s,
                             phase |-> phase[s], item |-> current,
                             stray |-> named /\ i # current, head |-> 0]]
  <2> HIDE DEF s
  <2>1. PICK current \in Items :
              /\ Served(current, s)
              /\ call' = [call EXCEPT ![c] =
                            [at |-> "claim", session |-> s,
                             phase |-> phase[s], item |-> current,
                             stray |-> named /\ i # current, head |-> 0]]
    BY <1>6
  <2>2. current \in DOMAIN items
    BY <2>1 DEF Served, Open
  <2>3. (named /\ i # current) \in BOOLEAN
    OBVIOUS
  <2>4. [at |-> "claim", session |-> s, phase |-> phase[s], item |-> current,
         stray |-> named /\ i # current, head |-> 0] \in Call
    BY <1>0, <2>3 DEF Call, CallSteps, RestTypes
  <2>5. /\ call' \in [Callers -> Call] /\ call'[c].at = "claim"
        /\ call'[c].session = s /\ call'[c].head = 0 /\ call'[c].item = current
        /\ \A d \in Callers : d # c => call'[d] = call[d]
    BY <2>1, <2>4 DEF CallTypes
  <2>6. CallTypes'
    BY <1>0, <1>4, <2>2, <2>5, CallerTypes
  <2>7. QED  BY <1>3, <2>6, TypePartsNext
<1>7. QED  BY <1>5, <1>6 DEF Continue

(* The steps of a call after it has entered, but for the scan.              *)
LEMMA ClaimTypes ==
    ASSUME TypeOK, NEW c \in Callers, Claim(c) PROVE TypeOK'
<1> USE TypeParts
<1>1. call[c].item \in DOMAIN items /\ Mine(c) \in Sessions
  BY DEF Claim, CallTypes, WithItem, At
<1>2. /\ call' \in [Callers -> Call] /\ call'[c].at \in {"apply", "dispatch"}
      /\ call'[c].session = Mine(c) /\ call'[c].head = call[c].head
      /\ call'[c].at = "apply" => call'[c].item = call[c].item
      /\ \A d \in Callers : d # c => call'[d] = call[d]
  BY GotoCall, DispatchCall DEF Claim, CallTypes, CallSteps, Mine
<1>3. UNCHANGED <<sessions, items, head, watermark, faults, ghosts>>
  BY DEF Claim
<1>4. QueueTypes'
  BY <1>1, <1>3 DEF Claim, QueueTypes
<1>5. CallTypes'
  BY <1>1, <1>2, <1>3, CallerTypes DEF CallTypes, RestTypes
<1>6. RestTypes'
  BY <1>3 DEF RestTypes, sessions, ghosts
<1>7. QED  BY <1>4, <1>5, <1>6, TypePartsNext

LEMMA ApplyTypes ==
    ASSUME TypeOK, NEW c \in Callers, Apply(c) PROVE TypeOK'
<1> USE TypeParts
<1>1. /\ call[c].item \in DOMAIN items /\ Mine(c) \in Sessions
      /\ call[c].item \in Items
  BY QueueFacts DEF Apply, CallTypes, WithItem, At
<1>2. /\ call' \in [Callers -> Call] /\ call'[c].at \in {"follow", "dispatch"}
      /\ call'[c].session = Mine(c) /\ call'[c].head = call[c].head
      /\ call'[c].at = "follow" => call'[c].item = call[c].item
      /\ \A d \in Callers : d # c => call'[d] = call[d]
  <2>1. CASE items[call[c].item].type = "distill"
    BY <2>1, GotoCall DEF Apply, CallTypes, CallSteps, Mine
  <2>2. CASE items[call[c].item].type # "distill"
    BY <2>2, DispatchCall DEF Apply, CallTypes, Mine
  <2>3. QED  BY <2>1, <2>2
<1>3. UNCHANGED <<sessions, queue, watermark, faults, from, looked, shared>>
  BY DEF Apply
<1>4. head \in Nat \ {0} /\ head' \in Nat \ {0} /\ head <= head'
  BY DEF Apply, Write, RestTypes
<1>5. QueueTypes'
  BY <1>3 DEF QueueTypes, queue
<1>6. CallTypes'
  <2>1. call[c].head \in Nat /\ call[c].head <= head
    BY DEF CallTypes, Call
  <2>2. call'[c].head <= head' /\ items' = items
    BY <1>2, <1>3, <1>4, <2>1 DEF queue
  <2>3. QED  BY <1>1, <1>2, <1>4, <2>2, CallerTypes
<1>7. RestTypes'
  <2>1. applied' \in [Items -> Nat] /\ strayed' \subseteq Items
    BY <1>1 DEF Apply, RestTypes
  <2>2. watermark' \in 0 .. head'
    BY <1>3, <1>4 DEF RestTypes
  <2>3. QED  BY <1>3, <1>4, <2>1, <2>2 DEF RestTypes, sessions
<1>8. QED  BY <1>5, <1>6, <1>7, TypePartsNext

LEMMA FollowUpTypes ==
    ASSUME TypeOK, NEW c \in Callers, FollowUp(c) PROVE TypeOK' /\ Grows
<1> USE TypeParts
<1>1. call[c].item \in DOMAIN items /\ Mine(c) \in Sessions
  BY DEF FollowUp, CallTypes, WithItem, At
<1>2. items[call[c].item].depth \in 0 .. MaxDepth
  BY <1>1, QueueFacts DEF WorkItem
<1>3. Grows
  <2>1. CASE UNCHANGED items
    BY <2>1 DEF Grows, QueueTypes
  <2>2. CASE /\ items[call[c].item].depth < MaxDepth
             /\ Insert(Mine(c), "distill", items[call[c].item].depth + 1)
    <3>1. items[call[c].item].depth + 1 \in 0 .. MaxDepth
      BY <1>2, <2>2, BoundsAssumption
    <3>2. QED  BY <1>1, <2>2, <3>1, InsertGrows DEF QueueTypes, StepTypes
  <2>3. QED  BY <2>1, <2>2 DEF FollowUp
<1>4. /\ call' \in [Callers -> Call]
      /\ call'[c].at = "dispatch" \/ call'[c].item = call[c].item
      /\ call'[c].session = Mine(c) /\ call'[c].head = call[c].head
      /\ \A d \in Callers : d # c => call'[d] = call[d]
  <2>1. CASE Dispatch(c)
    BY <2>1, DispatchCall DEF CallTypes, Mine
  <2>2. CASE UNCHANGED call
    BY <2>2 DEF CallTypes, Mine
  <2>3. QED  BY <2>1, <2>2 DEF FollowUp
<1>5. UNCHANGED <<sessions, answered, head, watermark, faults, ghosts>>
  BY DEF FollowUp
<1>6. QueueTypes'
  BY <1>3, <1>5 DEF Grows, QueueTypes
<1>7. CallTypes'
  <2>1. /\ DOMAIN items \subseteq DOMAIN items' /\ head' = head /\ head \in Nat
        /\ call'[c].head <= head
    BY <1>3, <1>4, <1>5 DEF Grows, RestTypes, CallTypes
  <2>2. QED  BY <1>1, <1>4, <2>1, CallerTypes
<1>8. RestTypes'
  BY <1>5 DEF RestTypes, sessions, ghosts
<1>9. QED  BY <1>3, <1>6, <1>7, <1>8, TypePartsNext

LEMMA HookTypes ==
    ASSUME TypeOK, NEW c \in Callers, Hook(c) PROVE TypeOK' /\ Grows
<1> USE TypeParts
<1>1. Mine(c) \in Sessions
  BY DEF Hook, CallTypes, At
<1>2. Grows
  <2>1. CASE UNCHANGED items
    BY <2>1 DEF Grows, QueueTypes
  <2>2. CASE Insert(Mine(c), "reflect", 0)
    <3>1. 0 \in 0 .. MaxDepth
      BY BoundsAssumption
    <3>2. QED  BY <1>1, <2>2, <3>1, InsertGrows DEF QueueTypes, StepTypes
  <2>3. QED  BY <2>1, <2>2 DEF Hook
<1>3. /\ call' \in [Callers -> Call] /\ call'[c].at = "refetch"
      /\ call'[c].session = Mine(c) /\ call'[c].head = call[c].head
      /\ \A d \in Callers : d # c => call'[d] = call[d]
  BY GotoCall DEF Hook, CallTypes, CallSteps, Mine
<1>4. UNCHANGED <<sessions, answered, head, watermark, faults, ghosts>>
  BY DEF Hook
<1>5. QueueTypes'
  BY <1>2, <1>4 DEF Grows, QueueTypes
<1>6. CallTypes'
  <2>1. /\ DOMAIN items \subseteq DOMAIN items' /\ head' = head /\ head \in Nat
        /\ call'[c].head <= head
    BY <1>2, <1>3, <1>4 DEF Grows, RestTypes, CallTypes
  <2>2. QED  BY <1>1, <1>3, <2>1, CallerTypes
<1>7. RestTypes'
  BY <1>4 DEF RestTypes, sessions, ghosts
<1>8. QED  BY <1>2, <1>5, <1>6, <1>7, TypePartsNext

LEMMA ReturnTypes ==
    ASSUME TypeOK, NEW c \in Callers, Serve(c) \/ SetWatermark(c) \/ Fail(c)
    PROVE  TypeOK'
<1> USE TypeParts
<1>1. Return(c) /\ UNCHANGED <<queue, head>>
  BY DEF Serve, SetWatermark, Fail
<1>2. QueueTypes'
  BY <1>1 DEF queue, QueueTypes
<1>3. CallTypes'
  <2>1. /\ call' \in [Callers -> Call] /\ call'[c].at = "idle"
        /\ call'[c].head = 0 /\ \A d \in Callers : d # c => call'[d] = call[d]
    BY <1>1, ReturnCall DEF CallTypes, Idle
  <2>2. items' = items /\ head' = head /\ head \in Nat
    BY <1>1 DEF queue, RestTypes
  <2>3. QED  BY <2>1, <2>2, CallerTypes
<1>4. RestTypes'
  <2>1. CASE Serve(c)
    <3>1. Mine(c) \in Sessions
      BY <2>1 DEF Serve, CallTypes, At
    <3>2. QED  BY <2>1, <3>1 DEF Serve, RestTypes, ghosts
  <2>2. CASE SetWatermark(c)
    <3>1. call[c].head \in Nat /\ call[c].head <= head
      BY DEF CallTypes, Call
    <3>2. watermark' \in 0 .. head'
      BY <2>2, <3>1 DEF SetWatermark, RestTypes
    <3>3. QED  BY <2>2, <3>2 DEF SetWatermark, RestTypes, sessions, ghosts
  <2>3. CASE Fail(c)
    BY <2>3 DEF Fail, RestTypes, sessions, ghosts
  <2>4. QED  BY <2>1, <2>2, <2>3
<1>5. QED  BY <1>2, <1>3, <1>4, TypePartsNext

LEMMA PhaseTypes ==
    ASSUME TypeOK, NEW c \in Callers,
           NoneToServe(c) \/ AdvancePhase(c) \/ Refetch(c)
    PROVE  TypeOK'
<1> USE TypeParts
<1>0. /\ Mine(c) \in Sessions /\ phase \in [Sessions -> Phases]
      /\ call \in [Callers -> Call]
  BY DEF NoneToServe, AdvancePhase, Refetch, CallTypes, RestTypes, At
<1>1. /\ call' \in [Callers -> Call]
      /\ call'[c].at \in {"complete", "advance", "hook", "refetch", "dispatch"}
      /\ call'[c].session = Mine(c) /\ call'[c].head \in {0, call[c].head}
      /\ \A d \in Callers : d # c => call'[d] = call[d]
  <2>1. CASE NoneToServe(c)
    BY <1>0, <2>1, GotoCall DEF NoneToServe, CallSteps, Mine
  <2>2. CASE AdvancePhase(c)
    BY <1>0, <2>2, GotoCall DEF AdvancePhase, CallSteps, Mine
  <2>3. CASE Refetch(c)
    BY <1>0, <2>3, EnterCall DEF Refetch, CallSteps
  <2>4. QED  BY <2>1, <2>2, <2>3
<1>2. UNCHANGED <<status, scoped, known, queue, head, watermark, faults, ghosts>>
  BY DEF NoneToServe, AdvancePhase, Refetch, sessions
<1>3. QueueTypes'
  BY <1>2 DEF queue, QueueTypes
<1>4. CallTypes'
  <2>1. call[c].head <= head /\ 0 <= head /\ head \in Nat
    BY DEF CallTypes, RestTypes
  <2>2. items' = items /\ head' = head
    BY <1>2 DEF queue
  <2>3. QED  BY <1>0, <1>1, <2>1, <2>2, CallerTypes
<1>5. RestTypes'
  <2>1. phase' \in [Sessions -> Phases]
    BY <1>0 DEF NoneToServe, AdvancePhase, Refetch, sessions, After, Phases
  <2>2. QED  BY <1>2, <2>1 DEF RestTypes, ghosts
<1>6. QED  BY <1>3, <1>4, <1>5, TypePartsNext

LEMMA CompletionTypes ==
    ASSUME TypeOK, NEW c \in Callers, Complete(c) \/ ReadHead(c) PROVE TypeOK'
<1> USE TypeParts
<1>0. /\ Mine(c) \in Sessions /\ call \in [Callers -> Call]
      /\ head \in Nat /\ call[c].head <= head
  BY DEF Complete, ReadHead, CallTypes, RestTypes, At
<1>1. /\ call' \in [Callers -> Call]
      /\ call'[c].at \in {"idle", "head", "record"}
      /\ call'[c].at # "idle" => call'[c].session = Mine(c)
      /\ call'[c].head \in {0, call[c].head, head}
      /\ \A d \in Callers : d # c => call'[d] = call[d]
  <2>1. CASE Complete(c) /\ scoped[Mine(c)]
    BY <1>0, <2>1, ReturnCall DEF Complete, Idle
  <2>2. CASE Complete(c) /\ ~scoped[Mine(c)]
    BY <1>0, <2>2, GotoCall DEF Complete, CallSteps, Mine
  <2>3. CASE ReadHead(c)
    <3> DEFINE new == [call[c] EXCEPT !.at = "record", !.head = head]
    <3>1. /\ call' = [call EXCEPT ![c] = new]
          /\ new \in Call /\ new.at = "record" /\ new.head = head
          /\ new.session = Mine(c)
      BY <1>0, <2>3 DEF ReadHead, Call, CallSteps, Mine
    <3> HIDE DEF new
    <3>2. QED  BY <1>0, <3>1
  <2>4. QED  BY <2>1, <2>2, <2>3
<1>2. UNCHANGED <<phase, scoped, known, queue, head, watermark, faults,
                  applied, strayed, from, shared>>
  BY DEF Complete, ReadHead, sessions, ghosts
<1>3. QueueTypes'
  BY <1>2 DEF queue, QueueTypes
<1>4. CallTypes'
  <2>1. items' = items /\ head' = head
    BY <1>2 DEF queue
  <2>2. call'[c].head <= head'
    BY <1>0, <1>1, <2>1
  <2>3. QED  BY <1>0, <1>1, <2>1, <2>2, CallerTypes
<1>5. RestTypes'
  <2>1. status' \in [Sessions -> Statuses]
    BY <1>0 DEF Complete, ReadHead, sessions, RestTypes, Statuses
  <2>2. looked' \subseteq Nat
    BY <1>0 DEF Complete, ReadHead, ghosts, RestTypes
  <2>3. QED  BY <1>2, <2>1, <2>2 DEF RestTypes
<1>6. QED  BY <1>3, <1>4, <1>5, TypePartsNext

LEMMA WorldTypes == ASSUME TypeOK, Restart \/ Commit PROVE TypeOK'
<1> USE TypeParts
<1>1. QueueTypes'
  BY DEF Restart, Commit, queue, QueueTypes
<1>2. CASE Restart
  <2>1. Idle \in Call /\ Idle.at = "idle" /\ Idle.head = 0
    BY DEF Idle, Call, CallSteps, Phases
  <2>2. CallTypes'
    BY <1>2, <2>1 DEF Restart, CallTypes, WithItem, At, RestTypes
  <2>3. status' \in [Sessions -> Statuses]
    BY <1>2 DEF Restart, RestTypes, Statuses
  <2>4. RestTypes'
    BY <1>2, <2>3 DEF Restart, RestTypes, sessions, ghosts
  <2>5. QED  BY <1>1, <2>2, <2>4, TypePartsNext
<1>3. CASE Commit
  <2>1. head \in Nat /\ head' = head + 1 /\ head' \in Nat \ {0}
    BY <1>3 DEF Commit, RestTypes
  <2>2. CallTypes'
    <3>1. \A d \in Callers : call[d].head <= head'
      BY <2>1 DEF CallTypes, Call
    <3>2. call' = call /\ items' = items
      BY <1>3 DEF Commit, queue
    <3>3. QED  BY <3>1, <3>2 DEF CallTypes, WithItem, At, Mine
  <2>3. watermark' \in 0 .. head'
    BY <1>3, <2>1 DEF Commit, RestTypes
  <2>4. RestTypes'
    BY <1>3, <2>1, <2>3 DEF Commit, RestTypes, sessions, ghosts
  <2>5. QED  BY <1>1, <2>2, <2>4, TypePartsNext
<1>4. QED  BY <1>2, <1>3

LEMMA NextTypes == TypeOK /\ [Next]_vars => TypeOK'
<1> SUFFICES ASSUME TypeOK, [Next]_vars PROVE TypeOK'
  OBVIOUS
<1>1. ASSUME NEW c \in Callers, NEW isScoped \in BOOLEAN, Start(c, isScoped)
      PROVE  TypeOK'
  BY <1>1, StartTypes
<1>2. ASSUME NEW c \in Callers, NEW i \in DOMAIN items, NEW named \in BOOLEAN,
             Continue(c, i, named)
      PROVE  TypeOK'
  BY <1>2, ContinueTypes
<1>3. ASSUME NEW c \in Callers, CallStep(c) \/ Fail(c) PROVE TypeOK'
  BY <1>3, ScanTypes, ClaimTypes, ApplyTypes, FollowUpTypes, ReturnTypes,
     PhaseTypes, HookTypes, CompletionTypes DEF CallStep
<1>4. CASE Restart \/ Commit
  BY <1>4, WorldTypes
<1>5. CASE UNCHANGED vars
  BY <1>5 DEF vars, sessions, queue, ghosts, TypeOK, At, Mine
<1>6. QED  BY <1>1, <1>2, <1>3, <1>4, <1>5 DEF Next

(* The types of the pipeline's state hold throughout, for any number of callers,
   sessions and items (pipeline.go, pipeline_index.go).                     *)
THEOREM TypeCorrect == Spec => []TypeOK
<1>1. QED  BY InitTypes, NextTypes, PTL DEF Spec
-----------------------------------------------------------------------------
(* The steps of a call that neither claim nor apply.                        *)
QuietStep(c) ==
    \/ Scan(c) \/ FollowUp(c) \/ Serve(c) \/ NoneToServe(c) \/ AdvancePhase(c)
    \/ Hook(c) \/ Refetch(c) \/ Complete(c) \/ ReadHead(c) \/ SetWatermark(c)

LEMMA QuietCall ==
    ASSUME TypeOK, NEW c \in Callers, QuietStep(c) \/ Fail(c)
    PROVE  /\ UNCHANGED <<answered, applied, strayed>>
           /\ ~At(c, "idle") /\ Mine(c) \in Sessions
           /\ call'[c].at \notin {"claim", "apply"}
           /\ call'[c].at # "idle" => call'[c].session = call[c].session
           /\ call'[c].stray \in {FALSE, call[c].stray}
           /\ \A d \in Callers : d # c => call'[d] = call[d]
           /\ QuietStep(c) => ~At(c, "apply") /\ ~At(c, "claim")
<1> USE TypeParts
<1>0. call \in [Callers -> Call] /\ phase \in [Sessions -> Phases]
  BY DEF CallTypes, RestTypes
<1>1. UNCHANGED <<answered, applied, strayed>>
  BY DEF QuietStep, Scan, FollowUp, Serve, NoneToServe, AdvancePhase, Hook,
         Refetch, Complete, ReadHead, SetWatermark, Fail, queue, ghosts
<1>2. ~At(c, "idle") /\ (QuietStep(c) => ~At(c, "apply") /\ ~At(c, "claim"))
  BY DEF QuietStep, Scan, FollowUp, Serve, NoneToServe, AdvancePhase, Hook,
         Refetch, Complete, ReadHead, SetWatermark, Fail, At
<1>3. Mine(c) \in Sessions
  BY <1>2 DEF CallTypes
<1>4. CASE Scan(c) \/ NoneToServe(c) \/ AdvancePhase(c) \/ Hook(c)
  <2>1. PICK at \in CallSteps \ {"claim", "apply"} : Goto(c, at)
    BY <1>4 DEF Scan, NoneToServe, AdvancePhase, Hook, CallSteps
  <2>2. QED  BY <1>0, <1>1, <1>2, <1>3, <2>1, GotoCall
<1>5. CASE Serve(c) \/ SetWatermark(c) \/ Fail(c) \/ (Complete(c) /\ scoped[Mine(c)])
  <2>1. Return(c)
    BY <1>5 DEF Serve, SetWatermark, Fail, Complete
  <2>2. Idle.at = "idle" /\ Idle.stray = FALSE
    BY DEF Idle
  <2>3. /\ call'[c].at = "idle" /\ call'[c].stray = FALSE
        /\ \A d \in Callers : d # c => call'[d] = call[d]
    BY <1>0, <2>1, <2>2, ReturnCall
  <2>4. QED  BY <1>1, <1>2, <1>3, <2>3
<1>6. CASE Complete(c) /\ ~scoped[Mine(c)]
  BY <1>0, <1>1, <1>2, <1>3, <1>6, GotoCall DEF Complete, CallSteps
<1>7. CASE FollowUp(c)
  <2>1. CASE Dispatch(c)
    BY <1>0, <1>1, <1>2, <1>3, <1>7, <2>1, DispatchCall
  <2>2. CASE UNCHANGED call
    BY <1>1, <1>2, <1>3, <1>7, <2>2 DEF FollowUp, At
  <2>3. QED  BY <1>7, <2>1, <2>2 DEF FollowUp
<1>8. CASE Refetch(c)
  BY <1>0, <1>1, <1>2, <1>3, <1>8, EnterCall DEF Refetch, CallSteps, Mine
<1>9. CASE ReadHead(c)
  <2>1. /\ call'[c].at = "record" /\ call'[c].session = call[c].session
        /\ call'[c].stray = call[c].stray
        /\ \A d \in Callers : d # c => call'[d] = call[d]
    BY <1>0, <1>9 DEF ReadHead, Call
  <2>2. QED  BY <1>1, <1>2, <1>3, <2>1
<1>10. QED  BY <1>4, <1>5, <1>6, <1>7, <1>8, <1>9 DEF QuietStep

(* What a call is after it began.                                           *)
LEMMA BeginCall ==
    ASSUME TypeOK, NEW c \in Callers,
           \/ \E isScoped \in BOOLEAN : Start(c, isScoped)
           \/ \E i \in DOMAIN items, named \in BOOLEAN : Continue(c, i, named)
    PROVE  /\ UNCHANGED <<phase, items, answered, head, watermark, applied,
                          strayed, from, looked>>
           /\ At(c, "idle")
           /\ call'[c].at \in {"scan", "claim", "dispatch"}
           /\ call'[c].stray = FALSE
           /\ \A d \in Callers : d # c => call'[d] = call[d]
<1> USE TypeParts
<1>0. call \in [Callers -> Call] /\ phase \in [Sessions -> Phases]
  BY DEF CallTypes, RestTypes
<1>1. ASSUME NEW isScoped \in BOOLEAN, Start(c, isScoped)
      PROVE  /\ UNCHANGED <<phase, items, answered, head, watermark, applied,
                            strayed, from, looked>>
             /\ At(c, "idle")
             /\ call'[c].at \in {"scan", "claim", "dispatch"}
             /\ call'[c].stray = FALSE
             /\ \A d \in Callers : d # c => call'[d] = call[d]
  <2>1. \E s \in Sessions : Enter(c, s, "scan")
    BY <1>1 DEF Start
  <2>2. /\ call'[c].at = "scan" /\ call'[c].stray = FALSE
        /\ \A d \in Callers : d # c => call'[d] = call[d]
    BY <1>0, <2>1, EnterCall DEF CallSteps
  <2>3. QED  BY <1>1, <2>2 DEF Start, queue, ghosts
<1>2. ASSUME NEW i \in DOMAIN items, NEW named \in BOOLEAN, Continue(c, i, named)
      PROVE  /\ UNCHANGED <<phase, items, answered, head, watermark, applied,
                            strayed, from, looked>>
             /\ At(c, "idle")
             /\ call'[c].at \in {"scan", "claim", "dispatch"}
             /\ call'[c].stray = FALSE
             /\ \A d \in Callers : d # c => call'[d] = call[d]
  <2>0. /\ UNCHANGED <<phase, items, answered, head, watermark, applied,
                       strayed, from, looked>>
        /\ At(c, "idle")
    BY <1>2 DEF Continue, sessions, queue
  <2>1. items[i].session \in Sessions
    BY QueueFacts DEF WorkItem
  <2>2. CASE Enter(c, items[i].session, "dispatch")
    BY <1>0, <2>0, <2>1, <2>2, EnterCall DEF CallSteps
  <2>3. CASE \E current \in Items :
                /\ ForThisItem(i, current, named)
                /\ call' = [call EXCEPT ![c] =
                              [at |-> "claim", session |-> items[i].session,
                               phase |-> phase[items[i].session],
                               item |-> current,
                               stray |-> named /\ i # current, head |-> 0]]
    <3>1. PICK current \in Items :
                /\ ForThisItem(i, current, named)
                /\ call' = [call EXCEPT ![c] =
                              [at |-> "claim", session |-> items[i].session,
                               phase |-> phase[items[i].session],
                               item |-> current,
                               stray |-> named /\ i # current, head |-> 0]]
      BY <2>3
    <3>2. call'[c] = [at |-> "claim", session |-> items[i].session,
                      phase |-> phase[items[i].session], item |-> current,
                      stray |-> named /\ i # current, head |-> 0]
      BY <1>0, <3>1
    <3>3. (named /\ i # current) = FALSE
      BY <3>1 DEF ForThisItem
    <3>4. call'[c].stray = (named /\ i # current)
      BY <3>2
    <3>5. call'[c].at = "claim"
      BY <3>2
    <3>6. call'[c].stray = FALSE
      BY <3>3, <3>4
    <3>7. \A d \in Callers : d # c => call'[d] = call[d]
      BY <1>0, <3>1
    <3>8. QED  BY <2>0, <3>5, <3>6, <3>7
  <2>4. QED  BY <1>2, <2>2, <2>3 DEF Continue
<1>3. QED  BY <1>1, <1>2
-----------------------------------------------------------------------------
(* Why answers take effect once: an item that was applied, or is about to be,
   is answered, and only one call is about to apply it.                     *)
AnswersInv ==
    /\ strayed = {}
    /\ \A c \in Callers : call[c].stray = FALSE
    /\ \A i \in Items : applied[i] = 0 \/ (applied[i] = 1 /\ i \in answered)
    /\ \A c \in Callers : At(c, "apply") =>
          call[c].item \in answered /\ applied[call[c].item] = 0
    /\ \A c, d \in Callers :
          At(c, "apply") /\ At(d, "apply") /\ call[c].item = call[d].item
          => c = d

LEMMA InitAnswers == Init => AnswersInv
BY DEF Init, AnswersInv, At, Idle

LEMMA ClaimAnswers ==
    ASSUME TypeOK, AnswersInv, NEW c \in Callers, Claim(c) PROVE AnswersInv'
<1> USE DEF AnswersInv
<1>1. UNCHANGED <<applied, strayed>> /\ call \in [Callers -> Call]
  BY TypeParts DEF Claim, ghosts, CallTypes
<1>2. /\ answered' = answered \cup {call[c].item}
      /\ call[c].item \in Items
  BY TypeParts, QueueFacts DEF Claim, CallTypes, WithItem, At
<1>3. CASE call[c].item \notin answered /\ Goto(c, "apply")
  <2>1. /\ call'[c].at = "apply" /\ call'[c].item = call[c].item
        /\ call'[c].stray = FALSE
        /\ \A d \in Callers : d # c => call'[d] = call[d]
    BY <1>1, <1>3, GotoCall DEF CallSteps
  <2>2. applied[call[c].item] = 0
    BY <1>2, <1>3
  <2>3. \A d \in Callers : At(d, "apply") => call[d].item # call[c].item
    BY <1>3
  <2>4. QED  BY <1>1, <1>2, <2>1, <2>2, <2>3 DEF At
<1>4. CASE Dispatch(c)
  <2>1. /\ call'[c].at = "dispatch" /\ call'[c].stray = FALSE
        /\ \A d \in Callers : d # c => call'[d] = call[d]
    BY <1>1, <1>4, DispatchCall
  <2>2. QED  BY <1>1, <1>2, <2>1 DEF At
<1>5. QED  BY <1>3, <1>4 DEF Claim

LEMMA ApplyAnswers ==
    ASSUME TypeOK, AnswersInv, NEW c \in Callers, Apply(c) PROVE AnswersInv'
<1> USE DEF AnswersInv
<1> DEFINE i == call[c].item
<1>1. /\ i \in Items /\ i \in answered /\ applied[i] = 0
      /\ applied \in [Items -> Nat] /\ call \in [Callers -> Call]
  BY TypeParts, QueueFacts DEF Apply, CallTypes, RestTypes, WithItem, At
<1>2. /\ applied' = [applied EXCEPT ![i] = 1]
      /\ answered' = answered /\ strayed' = {}
  <2>1. call[c].stray = FALSE /\ applied[i] + 1 = 1
    BY <1>1
  <2>2. QED  BY <1>1, <2>1 DEF Apply, queue
<1>3. /\ call'[c].at \in {"follow", "dispatch"} /\ call'[c].stray = FALSE
      /\ \A d \in Callers : d # c => call'[d] = call[d]
  <2>1. CASE items[i].type = "distill"
    BY <1>1, <2>1, GotoCall DEF Apply, CallSteps
  <2>2. CASE items[i].type # "distill"
    BY <1>1, <2>2, DispatchCall DEF Apply
  <2>3. QED  BY <2>1, <2>2
<1>4. \A d \in Callers : d # c /\ At(d, "apply") => call[d].item # i
  BY DEF Apply
<1>5. \A j \in Items : applied'[j] = 0 \/ (applied'[j] = 1 /\ j \in answered')
  BY <1>1, <1>2
<1>6. \A d \in Callers : At(d, "apply")' =>
         d # c /\ At(d, "apply") /\ call'[d].item = call[d].item
  BY <1>3 DEF At
<1>7. \A d \in Callers : At(d, "apply")' =>
         call'[d].item \in answered' /\ applied'[call'[d].item] = 0
  <2> SUFFICES ASSUME NEW d \in Callers, At(d, "apply")'
               PROVE  call'[d].item \in answered' /\ applied'[call'[d].item] = 0
    OBVIOUS
  <2>1. /\ call'[d].item = call[d].item /\ call[d].item # i
        /\ call[d].item \in answered /\ applied[call[d].item] = 0
    BY <1>4, <1>6
  <2>2. call[d].item \in Items
    BY <1>6, TypeParts, QueueFacts DEF CallTypes, WithItem
  <2>3. QED  BY <1>1, <1>2, <2>1, <2>2
<1>8. \A d \in Callers : call'[d].stray = FALSE
  BY <1>3
<1>9. \A d, e \in Callers :
         At(d, "apply")' /\ At(e, "apply")' /\ call'[d].item = call'[e].item
         => d = e
  BY <1>6
<1>10. QED  BY <1>2, <1>5, <1>7, <1>8, <1>9

LEMMA QuietAnswers ==
    ASSUME TypeOK, AnswersInv, NEW c \in Callers,
           UNCHANGED <<answered, applied, strayed>>,
           call'[c].at # "apply", call'[c].stray = FALSE,
           \A d \in Callers : d # c => call'[d] = call[d]
    PROVE  AnswersInv'
BY DEF AnswersInv, At

LEMMA NextAnswers == TypeOK /\ AnswersInv /\ [Next]_vars => AnswersInv'
<1> SUFFICES ASSUME TypeOK, AnswersInv, [Next]_vars PROVE AnswersInv'
  OBVIOUS
<1>1. ASSUME NEW c \in Callers,
             \/ \E isScoped \in BOOLEAN : Start(c, isScoped)
             \/ \E i \in DOMAIN items, named \in BOOLEAN : Continue(c, i, named)
      PROVE  AnswersInv'
  <2>1. /\ UNCHANGED <<answered, applied, strayed>>
        /\ call'[c].at # "apply" /\ call'[c].stray = FALSE
        /\ \A d \in Callers : d # c => call'[d] = call[d]
    BY <1>1, BeginCall
  <2>2. QED  BY <2>1, QuietAnswers
<1>2. ASSUME NEW c \in Callers, Claim(c) PROVE AnswersInv'
  BY <1>2, ClaimAnswers
<1>3. ASSUME NEW c \in Callers, Apply(c) PROVE AnswersInv'
  BY <1>3, ApplyAnswers
<1>4. ASSUME NEW c \in Callers, QuietStep(c) \/ Fail(c) PROVE AnswersInv'
  <2>1. /\ UNCHANGED <<answered, applied, strayed>>
        /\ call'[c].at # "apply" /\ call'[c].stray \in {FALSE, call[c].stray}
        /\ \A d \in Callers : d # c => call'[d] = call[d]
    BY <1>4, QuietCall
  <2>2. call[c].stray = FALSE
    BY DEF AnswersInv
  <2>3. QED  BY <2>1, <2>2, QuietAnswers
<1>5. CASE Restart
  BY <1>5 DEF Restart, AnswersInv, At, Idle, queue, ghosts
<1>6. CASE Commit \/ UNCHANGED vars
  BY <1>6 DEF Commit, vars, AnswersInv, At, queue, ghosts
<1>7. QED
  BY <1>1, <1>2, <1>3, <1>4, <1>5, <1>6 DEF Next, CallStep, QuietStep

(* A response is applied once, however often it is sent and by however many
   callers, and one that names its item is applied to no other
   (continueSessionForItem, AnswerPipelineWorkItem).                        *)
THEOREM AnswersCorrect == Spec => []AnswersTakeEffectOnce
<1>1. AnswersInv => AnswersTakeEffectOnce
  BY DEF AnswersInv, AnswersTakeEffectOnce
<1>2. QED  BY <1>1, TypeCorrect, InitAnswers, NextAnswers, PTL DEF Spec
-----------------------------------------------------------------------------
(* Where the steps of a call lead.                                          *)
LEMMA CallAfter ==
    ASSUME TypeOK, NEW c \in Callers, CallStep(c) \/ Fail(c)
    PROVE  /\ call'[c].at = "hook"
                 => AdvancePhase(c) /\ phase[Mine(c)] = "work"
           /\ call'[c].at = "record" => ReadHead(c)
           /\ call'[c].at = "head" => Complete(c) /\ ~scoped[Mine(c)]
           /\ call'[c].at = "advance" => call'[c].phase # "done"
           /\ call'[c].at # "scan"
           /\ ~At(c, "idle")
           /\ call'[c].at # "idle" => call'[c].session = Mine(c)
           /\ \A d \in Callers : d # c => call'[d] = call[d]
<1> USE TypeParts
<1>0. call \in [Callers -> Call] /\ phase \in [Sessions -> Phases]
  BY DEF CallTypes, RestTypes
<1>1. ~At(c, "idle") /\ Mine(c) \in Sessions
  <2>1. ~At(c, "idle")
    BY DEF CallStep, Scan, Claim, Apply, FollowUp, Serve, NoneToServe,
           AdvancePhase, Hook, Refetch, Complete, ReadHead, SetWatermark, Fail, At
  <2>2. QED  BY <2>1 DEF CallTypes
<1>2. CASE Dispatch(c)
  <2>1. /\ call'[c].at = "dispatch" /\ call'[c].session = Mine(c)
        /\ \A d \in Callers : d # c => call'[d] = call[d]
    BY <1>0, <1>2, DispatchCall DEF Mine
  <2>2. QED  BY <1>1, <2>1
<1>3. CASE Return(c)
  <2>1. Idle.at = "idle"
    BY DEF Idle
  <2>2. call'[c].at = "idle" /\ \A d \in Callers : d # c => call'[d] = call[d]
    BY <1>0, <1>3, <2>1, ReturnCall
  <2>3. QED  BY <1>1, <2>2
<1>4. CASE \E at \in {"complete", "dispatch", "apply", "follow", "refetch"} : Goto(c, at)
  <2>1. PICK at \in {"complete", "dispatch", "apply", "follow", "refetch"} : Goto(c, at)
    BY <1>4
  <2>2. /\ call'[c].at = at /\ call'[c].session = Mine(c)
        /\ \A d \in Callers : d # c => call'[d] = call[d]
    BY <1>0, <2>1, GotoCall DEF CallSteps, Mine
  <2>3. QED  BY <1>1, <2>2
<1>5. CASE call[c].phase # "done" /\ Goto(c, "advance")
  <2>1. /\ call'[c].at = "advance" /\ call'[c].session = Mine(c)
        /\ call'[c].phase = call[c].phase
        /\ \A d \in Callers : d # c => call'[d] = call[d]
    BY <1>0, <1>5, GotoCall DEF CallSteps, Mine
  <2>2. QED  BY <1>1, <1>5, <2>1
<1>6. CASE Refetch(c)
  <2>1. /\ call'[c].at = "dispatch" /\ call'[c].session = Mine(c)
        /\ \A d \in Callers : d # c => call'[d] = call[d]
    BY <1>0, <1>1, <1>6, EnterCall DEF Refetch, CallSteps
  <2>2. QED  BY <1>1, <2>1
<1>7. CASE AdvancePhase(c) /\ phase[Mine(c)] = "work" /\ Goto(c, "hook")
  <2>1. /\ call'[c].at = "hook" /\ call'[c].session = Mine(c)
        /\ \A d \in Callers : d # c => call'[d] = call[d]
    BY <1>0, <1>7, GotoCall DEF CallSteps, Mine
  <2>2. QED  BY <1>1, <1>7, <2>1
<1>8. CASE Complete(c) /\ ~scoped[Mine(c)]
  <2>1. /\ call'[c].at = "head" /\ call'[c].session = Mine(c)
        /\ \A d \in Callers : d # c => call'[d] = call[d]
    BY <1>0, <1>8, GotoCall DEF Complete, CallSteps, Mine
  <2>2. QED  BY <1>1, <1>8, <2>1
<1>9. CASE ReadHead(c)
  <2>1. /\ call'[c].at = "record" /\ call'[c].session = Mine(c)
        /\ \A d \in Callers : d # c => call'[d] = call[d]
    BY <1>0, <1>9 DEF ReadHead, Call, Mine
  <2>2. QED  BY <1>1, <1>9, <2>1
<1>10. CASE Scan(c) \/ Claim(c) \/ Apply(c) \/ FollowUp(c) \/ Hook(c)
  <2>1. \/ Dispatch(c)
        \/ At(c, "follow") /\ UNCHANGED call
        \/ \E at \in {"complete", "dispatch", "apply", "follow", "refetch"} : Goto(c, at)
    BY <1>10 DEF Scan, Claim, Apply, FollowUp, Hook
  <2>2. CASE At(c, "follow") /\ UNCHANGED call
    BY <1>1, <2>2 DEF At, Mine
  <2>3. QED  BY <1>2, <1>4, <2>1, <2>2
<1>11. CASE NoneToServe(c)
  <2>1. Goto(c, "complete") \/ (call[c].phase # "done" /\ Goto(c, "advance"))
    BY <1>11 DEF NoneToServe
  <2>2. QED  BY <1>4, <1>5, <2>1
<1>12. CASE AdvancePhase(c)
  <2>1. Goto(c, "refetch") \/ (phase[Mine(c)] = "work" /\ Goto(c, "hook"))
    BY <1>12 DEF AdvancePhase
  <2>2. QED  BY <1>4, <1>7, <1>12, <2>1
<1>13. CASE Serve(c) \/ SetWatermark(c) \/ Fail(c) \/ (Complete(c) /\ scoped[Mine(c)])
  <2>1. Return(c)
    BY <1>13 DEF Serve, SetWatermark, Fail, Complete
  <2>2. QED  BY <1>3, <2>1
<1>14. QED
  BY <1>6, <1>8, <1>9, <1>10, <1>11, <1>12, <1>13 DEF CallStep
-----------------------------------------------------------------------------
(* Why a session reflects once: only the call that took it out of "work" is at
   the hook, and there is no reflect item before it has been there.         *)
Reflects(i) == items[i].type = "reflect"

ReflectInv ==
    /\ ReflectOnce
    /\ \A i \in DOMAIN items : Reflects(i) => phase[items[i].session] # "work"
    /\ \A c \in Callers : At(c, "hook") =>
          /\ phase[Mine(c)] # "work"
          /\ \A i \in DOMAIN items : Reflects(i) => items[i].session # Mine(c)
    /\ \A c, d \in Callers :
          At(c, "hook") /\ At(d, "hook") /\ Mine(c) = Mine(d) => c = d

LEMMA InitReflect == Init => ReflectInv
<1> SUFFICES ASSUME Init PROVE ReflectInv
  OBVIOUS
<1>1. DOMAIN items = {} /\ \A c \in Callers : ~At(c, "hook")
  BY DEF Init, At, Idle
<1>2. QED  BY <1>1 DEF ReflectInv, ReflectOnce

(* A step that adds no reflect item and brings no call to the hook.         *)
LEMMA ReflectFrame ==
    ASSUME TypeOK, ReflectInv, Grows, UNCHANGED phase,
           \A k \in DOMAIN items' \ DOMAIN items : items'[k].type # "reflect",
           \A d \in Callers : At(d, "hook")' => At(d, "hook") /\ Mine(d)' = Mine(d)
    PROVE  ReflectInv'
<1> USE DEF ReflectInv, Reflects
<1>1. \A k \in DOMAIN items' : items'[k].type = "reflect" =>
         k \in DOMAIN items /\ items[k].type = "reflect" /\ items'[k] = items[k]
  BY DEF Grows
<1>2. ReflectOnce'
  BY <1>1 DEF ReflectOnce
<1>3. \A k \in DOMAIN items' : Reflects(k)' => phase'[items'[k].session] # "work"
  BY <1>1
<1>4. \A d \in Callers : At(d, "hook")' =>
         /\ phase'[Mine(d)'] # "work"
         /\ \A k \in DOMAIN items' : Reflects(k)' => items'[k].session # Mine(d)'
  BY <1>1
<1>5. \A d, e \in Callers :
         At(d, "hook")' /\ At(e, "hook")' /\ Mine(d)' = Mine(e)' => d = e
  OBVIOUS
<1>6. QED  BY <1>2, <1>3, <1>4, <1>5

LEMMA ScanAdds ==
    ASSUME TypeOK, NEW c \in Callers, Scan(c) \/ FollowUp(c)
    PROVE  \A k \in DOMAIN items' \ DOMAIN items : items'[k].type # "reflect"
<1> USE TypeParts
<1>1. Mine(c) \in Sessions /\ items \in Seq(WorkItem)
  BY DEF Scan, FollowUp, CallTypes, QueueTypes, At
<1>2. CASE Scan(c) /\ items' # items
  <2>1. \E plan \in Plans : /\ Len(items) + Len(plan) <= MaxItems
                            /\ items' = Planned(c, plan)
    BY <1>2 DEF Scan, Planned
  <2>2. QED  BY <1>1, <2>1, PlanGrows
<1>3. CASE FollowUp(c) /\ items' # items
  <2>1. call[c].item \in DOMAIN items
    BY <1>3 DEF FollowUp, CallTypes, WithItem, At
  <2>2. items[call[c].item].depth + 1 \in 0 .. MaxDepth
    <3>1. items[call[c].item].depth \in 0 .. MaxDepth
      BY <2>1, QueueFacts DEF WorkItem
    <3>2. QED  BY <1>3, <3>1, BoundsAssumption DEF FollowUp
  <2>3. Insert(Mine(c), "distill", items[call[c].item].depth + 1)
    BY <1>3 DEF FollowUp
  <2>4. /\ Grows /\ Len(items') = Len(items) + 1
        /\ items'[Len(items) + 1].type = "distill"
    <3>1. "distill" \in StepTypes
      BY DEF StepTypes
    <3> DEFINE depth == items[call[c].item].depth + 1
    <3>2. /\ Grows /\ Len(items') = Len(items) + 1
          /\ items'[Len(items) + 1]
                = [session |-> Mine(c), type |-> "distill", depth |-> depth]
      <4> HIDE DEF depth
      <4>1. depth \in 0 .. MaxDepth /\ Insert(Mine(c), "distill", depth)
        BY <2>2, <2>3 DEF depth
      <4>2. QED  BY <1>1, <3>1, <4>1, InsertGrows
    <3>3. QED  BY <3>2
  <2>5. DOMAIN items' \ DOMAIN items = {Len(items) + 1}
    BY <1>1, <2>4 DEF Grows
  <2>6. QED  BY <2>4, <2>5
<1>4. QED  BY <1>2, <1>3

LEMMA HookReflect ==
    ASSUME TypeOK, ReflectInv, NEW c \in Callers, Hook(c) PROVE ReflectInv'
<1> USE TypeParts DEF ReflectInv, Reflects
<1>0. /\ Mine(c) \in Sessions /\ items \in Seq(WorkItem)
      /\ call \in [Callers -> Call] /\ At(c, "hook")
  BY DEF Hook, CallTypes, QueueTypes, At
<1>1. /\ ~At(c, "hook")'
      /\ \A d \in Callers : d # c => (At(d, "hook")' <=> At(d, "hook"))
                                     /\ Mine(d)' = Mine(d)
  <2>1. call'[c].at = "refetch" /\ \A d \in Callers : d # c => call'[d] = call[d]
    BY <1>0, GotoCall DEF Hook, CallSteps
  <2>2. QED  BY <2>1 DEF At, Mine
<1>2. UNCHANGED phase
  BY DEF Hook, sessions
<1>3. CASE UNCHANGED items
  <2>1. Grows
    BY <1>3 DEF Grows, QueueTypes
  <2>2. \A d \in Callers : At(d, "hook")' => At(d, "hook") /\ Mine(d)' = Mine(d)
    BY <1>1
  <2>3. QED  BY <1>2, <1>3, <2>1, <2>2, ReflectFrame
<1>4. CASE Insert(Mine(c), "reflect", 0)
  <2> DEFINE n == Len(items) + 1
  <2>1. /\ Grows /\ Len(items') = n
        /\ items'[n] = [session |-> Mine(c), type |-> "reflect", depth |-> 0]
    BY <1>0, <1>4, InsertGrows, BoundsAssumption DEF StepTypes
  <2>2. DOMAIN items' = DOMAIN items \cup {n} /\ n \notin DOMAIN items
    BY <1>0, <2>1 DEF Grows
  <2>3. items'[n].type = "reflect" /\ items'[n].session = Mine(c)
    BY <2>1
  <2>4. \A k \in DOMAIN items : items'[k] = items[k]
    BY <2>1 DEF Grows
  <2> HIDE DEF n
  <2>5. \A k \in DOMAIN items :
           items[k].type = "reflect" => items[k].session # Mine(c)
    BY <1>0
  <2>6. ReflectOnce'
    <3> SUFFICES ASSUME NEW k \in DOMAIN items', NEW m \in DOMAIN items',
                        items'[k].type = "reflect", items'[m].type = "reflect",
                        items'[k].session = items'[m].session
                 PROVE  k = m
      BY DEF ReflectOnce
    <3>1. CASE k = n /\ m # n
      BY <2>2, <2>3, <2>4, <2>5, <3>1
    <3>2. CASE k # n /\ m = n
      BY <2>2, <2>3, <2>4, <2>5, <3>2
    <3>3. CASE k # n /\ m # n
      BY <2>2, <2>4, <3>3 DEF ReflectOnce
    <3>4. QED  BY <3>1, <3>2, <3>3
  <2>7. \A k \in DOMAIN items' : Reflects(k)' => phase'[items'[k].session] # "work"
    BY <1>0, <1>2, <2>2, <2>3, <2>4
  <2>8. \A d \in Callers : At(d, "hook")' =>
           /\ phase'[Mine(d)'] # "work"
           /\ \A k \in DOMAIN items' : Reflects(k)' => items'[k].session # Mine(d)'
    <3> SUFFICES ASSUME NEW d \in Callers, At(d, "hook")'
                 PROVE  /\ phase'[Mine(d)'] # "work"
                        /\ \A k \in DOMAIN items' :
                              Reflects(k)' => items'[k].session # Mine(d)'
      OBVIOUS
    <3>1. d # c /\ At(d, "hook") /\ Mine(d)' = Mine(d) /\ Mine(d) # Mine(c)
      BY <1>0, <1>1
    <3>2. QED  BY <1>2, <2>2, <2>3, <2>4, <3>1
  <2>9. \A d, e \in Callers :
           At(d, "hook")' /\ At(e, "hook")' /\ Mine(d)' = Mine(e)' => d = e
    BY <1>1
  <2>10. QED  BY <2>6, <2>7, <2>8, <2>9
<1>5. QED  BY <1>3, <1>4 DEF Hook

LEMMA AdvanceReflect ==
    ASSUME TypeOK, ReflectInv, NEW c \in Callers, AdvancePhase(c)
    PROVE  ReflectInv'
<1> USE TypeParts DEF ReflectInv, Reflects
<1>0. /\ Mine(c) \in Sessions /\ items' = items
      /\ phase \in [Sessions -> Phases] /\ ~At(c, "hook")
  BY DEF AdvancePhase, CallTypes, RestTypes, queue, At
<1>1. /\ call'[c].at = "hook" => phase[Mine(c)] = "work"
      /\ call'[c].at # "idle" => call'[c].session = Mine(c)
      /\ \A d \in Callers : d # c => call'[d] = call[d]
  BY CallAfter DEF CallStep
<1>2. \A s \in Sessions : phase[s] # "work" => phase'[s] # "work"
  BY <1>0 DEF AdvancePhase, After
<1>3. At(c, "hook")' => phase'[Mine(c)] # "work"
  <2>1. CASE phase[Mine(c)] = call[c].phase
    BY <1>0, <2>1 DEF AdvancePhase, After
  <2>2. CASE phase[Mine(c)] # call[c].phase
    <3>1. Goto(c, "refetch")
      BY <2>2 DEF AdvancePhase
    <3>2. call'[c].at = "refetch"
      BY <3>1, GotoCall DEF CallTypes, CallSteps
    <3>3. QED  BY <3>2 DEF At
  <2>3. QED  BY <2>1, <2>2
<1>4. \A i \in DOMAIN items : items[i].session \in Sessions
  BY QueueFacts DEF WorkItem
<1>5. \A d \in Callers : At(d, "hook") => Mine(d) \in Sessions
  BY DEF CallTypes, At
<1>6. At(c, "hook")' =>
         /\ phase[Mine(c)] = "work" /\ Mine(c)' = Mine(c)
         /\ \A i \in DOMAIN items : Reflects(i) => items[i].session # Mine(c)
         /\ \A d \in Callers : At(d, "hook") => Mine(d) # Mine(c)
  BY <1>1 DEF At, Mine
<1>7. ReflectOnce'
  BY <1>0 DEF ReflectOnce
<1>8. \A i \in DOMAIN items' : Reflects(i)' => phase'[items'[i].session] # "work"
  BY <1>0, <1>2, <1>4
<1>9. \A d \in Callers : d # c /\ At(d, "hook")' => At(d, "hook") /\ Mine(d)' = Mine(d)
  BY <1>1 DEF At, Mine
<1>10. \A d \in Callers : At(d, "hook")' =>
          /\ phase'[Mine(d)'] # "work"
          /\ \A i \in DOMAIN items' : Reflects(i)' => items'[i].session # Mine(d)'
  <2> SUFFICES ASSUME NEW d \in Callers, At(d, "hook")'
               PROVE  /\ phase'[Mine(d)'] # "work"
                      /\ \A i \in DOMAIN items' :
                            Reflects(i)' => items'[i].session # Mine(d)'
    OBVIOUS
  <2>1. CASE d = c
    BY <1>0, <1>3, <1>6, <2>1
  <2>2. CASE d # c
    BY <1>0, <1>2, <1>5, <1>9, <2>2
  <2>3. QED  BY <2>1, <2>2
<1>11. \A d, e \in Callers :
          At(d, "hook")' /\ At(e, "hook")' /\ Mine(d)' = Mine(e)' => d = e
  BY <1>6, <1>9
<1>12. QED  BY <1>7, <1>8, <1>10, <1>11

LEMMA NextReflect == TypeOK /\ ReflectInv /\ [Next]_vars => ReflectInv'
<1> SUFFICES ASSUME TypeOK, ReflectInv, [Next]_vars PROVE ReflectInv'
  OBVIOUS
<1>0. ASSUME UNCHANGED <<items, phase>>,
             \A d \in Callers : At(d, "hook")' => At(d, "hook") /\ Mine(d)' = Mine(d)
      PROVE  ReflectInv'
  <2>1. Grows
    BY <1>0, TypeParts DEF Grows, QueueTypes
  <2>2. QED  BY <1>0, <2>1, ReflectFrame
<1>1. ASSUME NEW c \in Callers,
             \/ \E isScoped \in BOOLEAN : Start(c, isScoped)
             \/ \E i \in DOMAIN items, named \in BOOLEAN : Continue(c, i, named)
      PROVE  ReflectInv'
  <2>1. /\ UNCHANGED <<items, phase>> /\ call'[c].at # "hook"
        /\ \A d \in Callers : d # c => call'[d] = call[d]
    BY <1>1, BeginCall
  <2>2. \A d \in Callers : At(d, "hook")' => At(d, "hook") /\ Mine(d)' = Mine(d)
    BY <2>1 DEF At, Mine
  <2>3. QED  BY <1>0, <2>1, <2>2
<1>2. ASSUME NEW c \in Callers, CallStep(c) \/ Fail(c), ~AdvancePhase(c), ~Hook(c)
      PROVE  ReflectInv'
  <2>1. \A d \in Callers : At(d, "hook")' => At(d, "hook") /\ Mine(d)' = Mine(d)
    <3>1. call'[c].at # "hook" /\ \A d \in Callers : d # c => call'[d] = call[d]
      BY <1>2, CallAfter
    <3>2. QED  BY <3>1 DEF At, Mine
  <2>2. CASE Scan(c) \/ FollowUp(c)
    <3>1. Grows /\ UNCHANGED phase
      BY <2>2, ScanTypes, FollowUpTypes DEF Scan, FollowUp, sessions
    <3>2. QED  BY <2>1, <2>2, <3>1, ScanAdds, ReflectFrame
  <2>3. CASE ~(Scan(c) \/ FollowUp(c))
    <3>1. UNCHANGED <<items, phase>>
      BY <1>2, <2>3 DEF CallStep, Claim, Apply, Serve, NoneToServe, Refetch,
         Complete, ReadHead, SetWatermark, Fail, sessions, queue
    <3>2. QED  BY <1>0, <2>1, <3>1
  <2>4. QED  BY <2>2, <2>3
<1>3. ASSUME NEW c \in Callers, Hook(c) \/ AdvancePhase(c) PROVE ReflectInv'
  BY <1>3, HookReflect, AdvanceReflect
<1>4. CASE Restart
  <2>1. \A d \in Callers : ~At(d, "hook")'
    BY <1>4 DEF Restart, At, Idle
  <2>2. UNCHANGED <<items, phase>>
    BY <1>4 DEF Restart, queue
  <2>3. QED  BY <1>0, <2>1, <2>2
<1>5. CASE Commit \/ UNCHANGED vars
  <2>1. UNCHANGED <<items, phase, call>>
    BY <1>5 DEF Commit, vars, sessions, queue
  <2>2. QED  BY <1>0, <2>1 DEF At, Mine
<1>6. QED  BY <1>1, <1>2, <1>3, <1>4, <1>5 DEF Next

(* A session is given at most one reflect item, however many calls find its
   queue empty (handlePhase, AdvancePipelineSessionPhase).                  *)
THEOREM ReflectCorrect == Spec => []ReflectOnce
<1>1. ReflectInv => ReflectOnce
  BY DEF ReflectInv
<1>2. QED  BY <1>1, TypeCorrect, InitReflect, NextReflect, PTL DEF Spec
-----------------------------------------------------------------------------
(* Why the watermark is earned: no session begins after a commit that was not
   looked at, and only an unscoped one moves the watermark.                 *)
WatermarkInv ==
    /\ WatermarkIsEarned
    /\ \A s \in Sessions : 1 .. from[s] \subseteq looked
    /\ \A c \in Callers : ~At(c, "idle") => status[Mine(c)] # "none"
    /\ \A c \in Callers : At(c, "head") => ~scoped[Mine(c)]
    /\ \A c \in Callers : At(c, "record") => 1 .. call[c].head \subseteq looked

LEMMA InitWatermark == Init => WatermarkInv
BY DEF Init, WatermarkInv, WatermarkIsEarned, At, Idle

(* A step that leaves the watermark's inputs alone.                         *)
LEMMA WatermarkFrame ==
    ASSUME TypeOK, WatermarkInv, UNCHANGED <<scoped, watermark, from, looked>>,
           \A s \in Sessions : status[s] # "none" => status'[s] # "none",
           \A d \in Callers : ~At(d, "idle")' =>
              ~At(d, "idle") /\ Mine(d)' = Mine(d),
           \A d \in Callers : At(d, "head")' => ~scoped[Mine(d)],
           \A d \in Callers : At(d, "record")' =>
              At(d, "record") /\ call'[d].head = call[d].head
    PROVE  WatermarkInv'
<1> USE DEF WatermarkInv
<1>1. \A d \in Callers : ~At(d, "idle") => Mine(d) \in Sessions
  BY TypeParts DEF CallTypes
<1>2. WatermarkIsEarned' /\ \A s \in Sessions : 1 .. from'[s] \subseteq looked'
  BY DEF WatermarkIsEarned
<1>3. \A d \in Callers : ~At(d, "idle")' => status'[Mine(d)'] # "none"
  BY <1>1
<1>4. \A d \in Callers : At(d, "head")' => ~scoped'[Mine(d)']
  BY DEF At
<1>5. \A d \in Callers : At(d, "record")' => 1 .. call'[d].head \subseteq looked'
  OBVIOUS
<1>6. QED  BY <1>2, <1>3, <1>4, <1>5

LEMMA BeginWatermark ==
    ASSUME TypeOK, WatermarkInv, NEW c \in Callers,
           \/ \E isScoped \in BOOLEAN : Start(c, isScoped)
           \/ \E i \in DOMAIN items, named \in BOOLEAN : Continue(c, i, named)
    PROVE  WatermarkInv'
<1> USE TypeParts DEF WatermarkInv
<1>0. /\ call \in [Callers -> Call] /\ status \in [Sessions -> Statuses]
      /\ scoped \in [Sessions -> BOOLEAN] /\ phase \in [Sessions -> Phases]
      /\ \A d \in Callers : ~At(d, "idle") => Mine(d) \in Sessions
  BY DEF CallTypes, RestTypes
<1>1. /\ UNCHANGED <<watermark, from, looked>>
      /\ call'[c].at \in {"scan", "claim", "dispatch"}
      /\ \A d \in Callers : d # c => call'[d] = call[d]
  BY BeginCall
<1>2. PICK s \in Sessions :
         /\ call'[c].session = s /\ status'[s] # "none"
         /\ \A t \in Sessions : status[t] # "none" => status'[t] # "none"
         /\ \A t \in Sessions : status[t] # "none" => scoped'[t] = scoped[t]
  <2>1. ASSUME NEW isScoped \in BOOLEAN, Start(c, isScoped)
        PROVE  \E s \in Sessions :
                  /\ call'[c].session = s /\ status'[s] # "none"
                  /\ \A t \in Sessions : status[t] # "none" => status'[t] # "none"
                  /\ \A t \in Sessions : status[t] # "none" => scoped'[t] = scoped[t]
    <3>1. PICK s \in Sessions :
             /\ \A t \in Sessions : status[t] = "none" <=> t >= s
             /\ status' = [t \in Sessions |->
                             IF t = s THEN "active"
                             ELSE IF status[t] = "active" THEN "abandoned"
                             ELSE status[t]]
             /\ scoped' = [scoped EXCEPT ![s] = isScoped]
             /\ Enter(c, s, "scan")
      BY <2>1 DEF Start
    <3>2. call'[c].session = s
      <4>1. Enter(c, s, "scan") /\ call \in [Callers -> Call]
        BY <1>0, <3>1
      <4>2. QED  BY <1>0, <4>1, EnterCall DEF CallSteps
    <3>3. status[s] = "none"
      BY <3>1, BoundsAssumption DEF Sessions
    <3>4. /\ status'[s] # "none"
          /\ \A t \in Sessions : status[t] # "none" => status'[t] # "none"
          /\ \A t \in Sessions : status[t] # "none" => scoped'[t] = scoped[t]
      BY <1>0, <3>1, <3>3
    <3>5. QED  BY <3>2, <3>4
  <2>2. ASSUME NEW i \in DOMAIN items, NEW named \in BOOLEAN, Continue(c, i, named)
        PROVE  \E s \in Sessions :
                  /\ call'[c].session = s /\ status'[s] # "none"
                  /\ \A t \in Sessions : status[t] # "none" => status'[t] # "none"
                  /\ \A t \in Sessions : status[t] # "none" => scoped'[t] = scoped[t]
    <3> DEFINE s == items[i].session
    <3>1. s \in Sessions
      BY QueueFacts DEF WorkItem
    <3>2. UNCHANGED <<status, scoped>> /\ status[s] = "active"
      BY <2>2 DEF Continue, sessions
    <3>3. call'[c].session = s
      <4>1. CASE Enter(c, s, "dispatch")
        <5> HIDE DEF s
        <5>1. QED  BY <1>0, <3>1, <4>1, EnterCall DEF CallSteps
      <4>2. CASE ~Enter(c, s, "dispatch")
        <5>1. PICK current \in Items :
                 call' = [call EXCEPT ![c] =
                            [at |-> "claim", session |-> s, phase |-> phase[s],
                             item |-> current, stray |-> named /\ i # current,
                             head |-> 0]]
          BY <2>2, <4>2 DEF Continue
        <5> HIDE DEF s
        <5>2. QED  BY <1>0, <5>1
      <4>3. QED  BY <4>1, <4>2
    <3>4. QED  BY <3>1, <3>2, <3>3
  <2>3. QED  BY <2>1, <2>2
<1>3. WatermarkIsEarned' /\ \A t \in Sessions : 1 .. from'[t] \subseteq looked'
  BY <1>1 DEF WatermarkIsEarned
<1>4. \A d \in Callers : ~At(d, "idle")' => status'[Mine(d)'] # "none"
  <2> SUFFICES ASSUME NEW d \in Callers, ~At(d, "idle")'
               PROVE  status'[Mine(d)'] # "none"
    OBVIOUS
  <2>1. CASE d = c
    BY <1>2, <2>1 DEF Mine
  <2>2. CASE d # c
    BY <1>0, <1>1, <1>2, <2>2 DEF At, Mine
  <2>3. QED  BY <2>1, <2>2
<1>5. \A d \in Callers : At(d, "head")' => ~scoped'[Mine(d)']
  <2> SUFFICES ASSUME NEW d \in Callers, At(d, "head")' PROVE ~scoped'[Mine(d)']
    OBVIOUS
  <2>1. d # c /\ call'[d] = call[d]
    BY <1>1 DEF At
  <2>2. At(d, "head") /\ ~At(d, "idle") /\ Mine(d)' = Mine(d)
    BY <2>1 DEF At, Mine
  <2>3. QED  BY <1>0, <1>2, <2>2
<1>6. \A d \in Callers : At(d, "record")' => 1 .. call'[d].head \subseteq looked'
  <2> SUFFICES ASSUME NEW d \in Callers, At(d, "record")'
               PROVE  1 .. call'[d].head \subseteq looked'
    OBVIOUS
  <2>1. d # c /\ call'[d] = call[d]
    BY <1>1 DEF At
  <2>2. QED  BY <1>1, <2>1 DEF At
<1>7. QED  BY <1>3, <1>4, <1>5, <1>6

LEMMA ScanWatermark ==
    ASSUME TypeOK, WatermarkInv, NEW c \in Callers, Scan(c) PROVE WatermarkInv'
<1> USE TypeParts DEF WatermarkInv
<1>1. /\ UNCHANGED <<status, scoped, watermark, looked>>
      /\ from' = [from EXCEPT ![Mine(c)] = IF scoped[Mine(c)] THEN 0 ELSE watermark]
      /\ from \in [Sessions -> Nat] /\ Mine(c) \in Sessions
  BY DEF Scan, sessions, RestTypes, CallTypes, At
<1>2. /\ ~At(c, "idle") /\ call'[c].at \notin {"head", "record"}
      /\ call'[c].at # "idle" => call'[c].session = Mine(c)
      /\ \A d \in Callers : d # c => call'[d] = call[d]
  <2>1. ~ReadHead(c) /\ ~Complete(c)
    BY DEF Scan, ReadHead, Complete, At
  <2>2. QED  BY <2>1, CallAfter DEF CallStep
<1>3. \A s \in Sessions : 1 .. from'[s] \subseteq looked'
  <2> SUFFICES ASSUME NEW s \in Sessions PROVE 1 .. from'[s] \subseteq looked'
    OBVIOUS
  <2>1. CASE s = Mine(c) /\ ~scoped[s]
    BY <1>1, <2>1 DEF WatermarkIsEarned
  <2>2. CASE s = Mine(c) /\ scoped[s]
    BY <1>1, <2>2
  <2>3. CASE s # Mine(c)
    BY <1>1, <2>3
  <2>4. QED  BY <2>1, <2>2, <2>3
<1>4. WatermarkIsEarned'
  BY <1>1 DEF WatermarkIsEarned
<1>5. \A d \in Callers : ~At(d, "idle")' => status'[Mine(d)'] # "none"
  BY <1>1, <1>2 DEF At, Mine
<1>6. \A d \in Callers : At(d, "head")' => ~scoped'[Mine(d)']
  BY <1>1, <1>2 DEF At, Mine
<1>7. \A d \in Callers : At(d, "record")' => 1 .. call'[d].head \subseteq looked'
  BY <1>1, <1>2 DEF At
<1>8. QED  BY <1>3, <1>4, <1>5, <1>6, <1>7

LEMMA HeadWatermark ==
    ASSUME TypeOK, WatermarkInv, NEW c \in Callers, ReadHead(c)
    PROVE  WatermarkInv'
<1> USE TypeParts DEF WatermarkInv
<1>0. /\ At(c, "head") /\ ~At(c, "idle") /\ Mine(c) \in Sessions
      /\ call \in [Callers -> Call] /\ head \in Nat /\ from[Mine(c)] \in Nat
      /\ ~scoped[Mine(c)]
  BY DEF ReadHead, At, CallTypes, RestTypes
<1>1. /\ UNCHANGED <<status, scoped, watermark, from>>
      /\ looked' = looked \cup (from[Mine(c)] + 1 .. head)
  BY <1>0 DEF ReadHead, sessions
<1>2. /\ call'[c].at = "record" /\ call'[c].head = head
      /\ call'[c].session = Mine(c)
      /\ \A d \in Callers : d # c => call'[d] = call[d]
  BY <1>0 DEF ReadHead, Call, Mine
<1>3. 1 .. head \subseteq looked'
  BY <1>0, <1>1
<1>4. WatermarkIsEarned' /\ \A s \in Sessions : 1 .. from'[s] \subseteq looked'
  BY <1>1 DEF WatermarkIsEarned
<1>5. \A d \in Callers : ~At(d, "idle")' => status'[Mine(d)'] # "none"
  BY <1>0, <1>1, <1>2 DEF At, Mine
<1>6. \A d \in Callers : At(d, "head")' => ~scoped'[Mine(d)']
  BY <1>1, <1>2 DEF At, Mine
<1>7. \A d \in Callers : At(d, "record")' => 1 .. call'[d].head \subseteq looked'
  <2> SUFFICES ASSUME NEW d \in Callers, At(d, "record")'
               PROVE  1 .. call'[d].head \subseteq looked'
    OBVIOUS
  <2>1. CASE d = c
    BY <1>2, <1>3, <2>1
  <2>2. CASE d # c
    BY <1>1, <1>2, <2>2 DEF At
  <2>3. QED  BY <2>1, <2>2
<1>8. QED  BY <1>4, <1>5, <1>6, <1>7

LEMMA RecordWatermark ==
    ASSUME TypeOK, WatermarkInv, NEW c \in Callers, SetWatermark(c)
    PROVE  WatermarkInv'
<1> USE TypeParts DEF WatermarkInv
<1>1. /\ UNCHANGED <<status, scoped, from, looked>> /\ watermark' = call[c].head
      /\ At(c, "record")
  BY DEF SetWatermark, sessions, ghosts
<1>2. call'[c].at = "idle" /\ \A d \in Callers : d # c => call'[d] = call[d]
  <2>1. Idle.at = "idle"
    BY DEF Idle
  <2>2. QED  BY <2>1, ReturnCall DEF SetWatermark, CallTypes
<1>3. WatermarkIsEarned'
  BY <1>1 DEF WatermarkIsEarned
<1>4. \A d \in Callers : d # c \/ At(d, "idle")'
  BY <1>2 DEF At
<1>5. \A d \in Callers : ~At(d, "idle")' => status'[Mine(d)'] # "none"
  BY <1>1, <1>2 DEF At, Mine
<1>6. \A d \in Callers : At(d, "head")' => ~scoped'[Mine(d)']
  BY <1>1, <1>2 DEF At, Mine
<1>7. \A d \in Callers : At(d, "record")' => 1 .. call'[d].head \subseteq looked'
  BY <1>1, <1>2 DEF At
<1>8. QED  BY <1>1, <1>3, <1>5, <1>6, <1>7

LEMMA NextWatermark == TypeOK /\ WatermarkInv /\ [Next]_vars => WatermarkInv'
<1> SUFFICES ASSUME TypeOK, WatermarkInv, [Next]_vars PROVE WatermarkInv'
  OBVIOUS
<1>1. ASSUME NEW c \in Callers,
             \/ \E isScoped \in BOOLEAN : Start(c, isScoped)
             \/ \E i \in DOMAIN items, named \in BOOLEAN : Continue(c, i, named)
      PROVE  WatermarkInv'
  BY <1>1, BeginWatermark
<1>2. ASSUME NEW c \in Callers, Scan(c) \/ ReadHead(c) \/ SetWatermark(c)
      PROVE  WatermarkInv'
  BY <1>2, ScanWatermark, HeadWatermark, RecordWatermark
<1>3. ASSUME NEW c \in Callers, CallStep(c) \/ Fail(c),
             ~Scan(c), ~ReadHead(c), ~SetWatermark(c)
      PROVE  WatermarkInv'
  <2>1. UNCHANGED <<scoped, watermark, from, looked>>
    BY <1>3 DEF CallStep, Claim, Apply, FollowUp, Serve, NoneToServe,
       AdvancePhase, Hook, Refetch, Complete, Fail, sessions, ghosts
  <2>2. \A s \in Sessions : status[s] # "none" => status'[s] # "none"
    <3>1. CASE Complete(c)
      BY <3>1, TypeParts DEF Complete, RestTypes
    <3>2. CASE ~Complete(c)
      BY <1>3, <3>2 DEF CallStep, Claim, Apply, FollowUp, Serve, NoneToServe,
         AdvancePhase, Hook, Refetch, Fail, sessions
    <3>3. QED  BY <3>1, <3>2
  <2>3. /\ ~At(c, "idle") /\ call'[c].at # "record"
        /\ call'[c].at = "head" => ~scoped[Mine(c)]
        /\ call'[c].at # "idle" => call'[c].session = Mine(c)
        /\ \A d \in Callers : d # c => call'[d] = call[d]
    BY <1>3, CallAfter
  <2>4. \A d \in Callers : ~At(d, "idle")' => ~At(d, "idle") /\ Mine(d)' = Mine(d)
    BY <2>3 DEF At, Mine
  <2>5. \A d \in Callers : At(d, "head")' => ~scoped[Mine(d)]
    BY <2>3 DEF At, WatermarkInv
  <2>6. \A d \in Callers : At(d, "record")' =>
           At(d, "record") /\ call'[d].head = call[d].head
    BY <2>3 DEF At
  <2>7. QED  BY <2>1, <2>2, <2>4, <2>5, <2>6, WatermarkFrame
<1>4. CASE Restart
  <2>1. \A d \in Callers : At(d, "idle")'
    BY <1>4 DEF Restart, At, Idle
  <2>2. UNCHANGED <<scoped, watermark, from, looked>>
    BY <1>4 DEF Restart, ghosts
  <2>3. \A s \in Sessions : status[s] # "none" => status'[s] # "none"
    BY <1>4 DEF Restart
  <2>4. QED  BY <2>1, <2>2, <2>3, WatermarkFrame DEF At
<1>5. CASE Commit \/ UNCHANGED vars
  BY <1>5 DEF Commit, vars, sessions, ghosts, WatermarkInv, WatermarkIsEarned,
     At, Mine
<1>6. QED  BY <1>1, <1>2, <1>3, <1>4, <1>5 DEF Next, CallStep

(* The watermark moves over commits that a completed unscoped session began
   before, and over no others (completeSession, dirtyFacts).                *)
THEOREM WatermarkCorrect == Spec => []WatermarkIsEarned
<1>1. WatermarkInv => WatermarkIsEarned
  BY DEF WatermarkInv
<1>2. QED  BY <1>1, TypeCorrect, InitWatermark, NextWatermark, PTL DEF Spec
-----------------------------------------------------------------------------
(* Why everything is answered when a session is done.  A session nobody began,
   or still scanned by the call that began it, has no items and is known to no
   client; and unless two calls were in it at once, one call at most is in it. *)
In(c, s) == ~At(c, "idle") /\ Mine(c) = s
Empty(s) == \A i \in DOMAIN items : items[i].session # s

BornInv ==
    /\ \A s \in Sessions :
          status[s] = "none" => phase[s] = "work" /\ s \notin known /\ Empty(s)
    /\ \A c \in Callers : At(c, "scan") => Mine(c) \notin known /\ Empty(Mine(c))
    /\ shared \subseteq known
    /\ \A s \in Sessions \ shared : \A c, d \in Callers : In(c, s) /\ In(d, s) => c = d

(* The call that is alone in a session dispatches on the phase the session is
   in, adds items before the session is done only, and leaves the queue behind
   empty.                                                                   *)
AloneAt(c) ==
    ~At(c, "idle") /\ Mine(c) \notin shared =>
       /\ call[c].at \in {"scan", "claim", "apply", "follow", "dispatch", "advance"} =>
             call[c].phase = phase[Mine(c)]
       /\ call[c].at \in {"scan", "claim", "apply", "follow", "advance", "hook"} =>
             phase[Mine(c)] # "done"
       /\ call[c].at \in {"advance", "complete"} => Open(Mine(c)) = {}
       /\ call[c].at \notin {"head", "record"} => status[Mine(c)] # "completed"

AloneInv == AloneAllAnsweredWhenDone /\ \A c \in Callers : AloneAt(c)

LEMMA InitAlone == Init => BornInv /\ AloneInv
<1> SUFFICES ASSUME Init PROVE BornInv /\ AloneInv
  OBVIOUS
<1>1. DOMAIN items = {} /\ \A c \in Callers : At(c, "idle") /\ ~At(c, "scan")
  BY DEF Init, At, Idle
<1>2. BornInv
  BY <1>1 DEF Init, BornInv, Empty, In
<1>3. \A s \in Sessions : Open(s) = {}
  BY <1>1 DEF Open
<1>4. QED  BY <1>1, <1>2, <1>3 DEF AloneInv, AloneAt, AloneAllAnsweredWhenDone

LEMMA ItemsMine ==
    ASSUME TypeOK, NEW c \in Callers, CallStep(c) \/ Fail(c)
    PROVE  Grows /\ \A k \in DOMAIN items' \ DOMAIN items : items'[k].session = Mine(c)
<1> USE TypeParts
<1>0. items \in Seq(WorkItem) /\ Mine(c) \in Sessions
  BY CallAfter DEF QueueTypes, CallTypes
<1>1. CASE UNCHANGED items
  BY <1>1 DEF Grows, QueueTypes
<1>2. CASE Scan(c) /\ items' # items
  <2>1. \E plan \in Plans : /\ Len(items) + Len(plan) <= MaxItems
                            /\ items' = Planned(c, plan)
    BY <1>2 DEF Scan, Planned
  <2>2. QED  BY <1>0, <2>1, PlanGrows
<1>3. ASSUME NEW type \in StepTypes, NEW depth \in 0 .. MaxDepth, Insert(Mine(c), type, depth)
      PROVE  Grows /\ \A k \in DOMAIN items' \ DOMAIN items : items'[k].session = Mine(c)
  <2>1. /\ Grows /\ Len(items') = Len(items) + 1
        /\ items'[Len(items) + 1]
             = [session |-> Mine(c), type |-> type, depth |-> depth]
    BY <1>0, <1>3, InsertGrows
  <2>2. DOMAIN items' \ DOMAIN items = {Len(items) + 1}
    BY <1>0, <2>1 DEF Grows
  <2>3. QED  BY <2>1, <2>2
<1>4. CASE FollowUp(c) /\ items' # items
  <2>1. call[c].item \in DOMAIN items
    BY <1>4 DEF FollowUp, CallTypes, WithItem, At
  <2>2. items[call[c].item].depth \in 0 .. MaxDepth
    BY <2>1, QueueFacts DEF WorkItem
  <2>3. items[call[c].item].depth + 1 \in 0 .. MaxDepth
    BY <1>4, <2>2, BoundsAssumption DEF FollowUp
  <2>4. Insert(Mine(c), "distill", items[call[c].item].depth + 1)
    BY <1>4 DEF FollowUp
  <2>5. QED  BY <1>3, <2>3, <2>4 DEF StepTypes
<1>5. CASE Hook(c) /\ items' # items
  BY <1>3, <1>5, BoundsAssumption DEF Hook, StepTypes
<1>6. QED
  BY <1>1, <1>2, <1>4, <1>5 DEF CallStep, Claim, Apply, Serve, NoneToServe, AdvancePhase, Refetch,
     Complete, ReadHead, SetWatermark, Fail, queue

(* A call changes the rows of its own session only.                         *)
LEMMA OtherSessions ==
    ASSUME TypeOK, NEW c \in Callers, CallStep(c) \/ Fail(c)
    PROVE  /\ \A t \in Sessions : t # Mine(c) =>
                 status'[t] = status[t] /\ phase'[t] = phase[t] /\ Open(t)' \subseteq Open(t)
           /\ status'[Mine(c)] \in {status[Mine(c)], "completed"}
           /\ known \subseteq known' /\ known' \subseteq known \cup {Mine(c)}
           /\ UNCHANGED shared /\ answered \subseteq answered'
<1> USE TypeParts
<1>1. status \in [Sessions -> Statuses] /\ phase \in [Sessions -> Phases] /\ Mine(c) \in Sessions
  BY CallAfter DEF RestTypes, CallTypes
<1>2. /\ status' = status \/ status' = [status EXCEPT ![Mine(c)] = "completed"]
      /\ phase' = phase \/ phase' = [phase EXCEPT ![Mine(c)] = After(call[c].phase)]
      /\ known' = known \/ known' = known \cup {Mine(c)}
      /\ UNCHANGED shared /\ answered \subseteq answered'
  BY DEF CallStep, Scan, Claim, Apply, FollowUp, Serve, NoneToServe, AdvancePhase, Hook, Refetch,
     Complete, ReadHead, SetWatermark, Fail, sessions, queue, ghosts
<1>3. ASSUME NEW t \in Sessions, t # Mine(c) PROVE Open(t)' \subseteq Open(t)
  BY <1>2, <1>3, ItemsMine DEF Open, Grows
<1>4. QED  BY <1>1, <1>2, <1>3

(* Who else is about is in another session, or in one two calls were in.    *)
LEMMA NobodyElse ==
    ASSUME TypeOK, BornInv, NEW c \in Callers, ~At(c, "idle"), NEW d \in Callers \ {c},
           ~At(d, "idle"), Mine(d) \notin shared
    PROVE  Mine(d) \in Sessions /\ Mine(d) # Mine(c)
BY TypeParts DEF BornInv, In, CallTypes

LEMMA StepBorn ==
    ASSUME TypeOK, WatermarkInv, BornInv, NEW c \in Callers, CallStep(c) \/ Fail(c)
    PROVE  BornInv'
<1>1. /\ ~At(c, "idle") /\ call'[c].at # "scan"
      /\ call'[c].at # "idle" => call'[c].session = Mine(c)
      /\ \A d \in Callers : d # c => call'[d] = call[d]
  BY CallAfter
<1>2. Mine(c) \in Sessions /\ status[Mine(c)] # "none" /\ shared \subseteq Sessions
  BY <1>1, TypeParts DEF CallTypes, RestTypes, WatermarkInv
<1>3. \A t \in Sessions : t # Mine(c) => (Empty(t) => Empty(t)')
  BY ItemsMine DEF Empty, Grows
<1>4. \A t \in Sessions : status'[t] = "none" => t # Mine(c) /\ status[t] = "none"
  BY <1>2, OtherSessions
<1>5. \A t \in Sessions :
         status'[t] = "none" => phase'[t] = "work" /\ t \notin known' /\ Empty(t)'
  BY <1>3, <1>4, OtherSessions DEF BornInv
<1>6. ASSUME NEW d \in Callers, At(d, "scan")' PROVE Mine(d)' \notin known' /\ Empty(Mine(d))'
  <2>1. d # c /\ call'[d] = call[d] /\ At(d, "scan") /\ ~At(d, "idle")
    BY <1>1, <1>6 DEF At
  <2>2. Mine(d) \notin known /\ Mine(d) \notin shared /\ Empty(Mine(d))
    BY <2>1 DEF BornInv
  <2>3. PICK t \in Sessions : t = Mine(d) /\ t # Mine(c)
    BY <1>1, <2>1, <2>2, NobodyElse
  <2>4. t = Mine(d)'
    BY <2>1, <2>3 DEF Mine
  <2>5. t \notin known' /\ Empty(t)'
    BY <1>3, <2>2, <2>3, OtherSessions
  <2>6. QED  BY <2>4, <2>5 DEF Empty
<1>7. shared' \subseteq known'
  BY OtherSessions DEF BornInv
<1>8. \A t \in Sessions, d \in Callers : In(d, t)' => In(d, t)
  BY <1>1 DEF In, At, Mine
<1>9. \A t \in Sessions \ shared' : \A d, e \in Callers : In(d, t)' /\ In(e, t)' => d = e
  BY <1>8, OtherSessions DEF BornInv
<1>10. QED  BY <1>5, <1>6, <1>7, <1>9 DEF BornInv

(* The other calls of AloneInv, and the other sessions, stay as they are.   *)
LEMMA StepAlone ==
    ASSUME TypeOK, BornInv, AloneInv, NEW c \in Callers, CallStep(c) \/ Fail(c),
           Mine(c) \notin shared =>
              /\ AloneAt(c)'
              /\ phase'[Mine(c)] = "done" \/ status'[Mine(c)] = "completed" =>
                    \A i \in DOMAIN items' : items'[i].session = Mine(c) => i \in answered'
    PROVE  AloneInv'
<1>1. /\ ~At(c, "idle") /\ (call'[c].at # "idle" => call'[c].session = Mine(c))
      /\ \A d \in Callers : d # c => call'[d] = call[d]
  BY CallAfter
<1>2. ASSUME NEW s \in Sessions \ shared', phase'[s] = "done" \/ status'[s] = "completed"
      PROVE  Open(s)' = {}
  <2>1. CASE s = Mine(c)
    BY <1>2, <2>1, OtherSessions DEF Open
  <2>2. CASE s # Mine(c)
    BY <1>2, <2>2, OtherSessions DEF AloneInv, AloneAllAnsweredWhenDone
  <2>3. QED  BY <2>1, <2>2
<1>3. ASSUME NEW d \in Callers, ~At(d, "idle")', Mine(d)' \notin shared' PROVE AloneAt(d)'
  <2>1. CASE d = c
    BY <1>1, <1>3, <2>1, OtherSessions DEF At, Mine
  <2>2. CASE d # c
    <3>1. call'[d] = call[d] /\ ~At(d, "idle") /\ Mine(d)' = Mine(d) /\ Mine(d) \notin shared
      BY <1>1, <1>3, <2>2, OtherSessions DEF At, Mine
    <3>2. PICK t \in Sessions : t = Mine(d) /\ t # Mine(c)
      BY <1>1, <2>2, <3>1, NobodyElse
    <3>3. status'[t] = status[t] /\ phase'[t] = phase[t] /\ Open(t)' \subseteq Open(t)
      BY <3>2, OtherSessions
    <3>4. t = Mine(d)' /\ Open(Mine(d))' = Open(t)'
      BY <3>1, <3>2 DEF Open
    <3>5. QED  BY <3>1, <3>2, <3>3, <3>4 DEF AloneInv, AloneAt
  <2>3. QED  BY <2>1, <2>2
<1>4. QED  BY <1>2, <1>3 DEF AloneInv, AloneAllAnsweredWhenDone, AloneAt

(* What a step does in its own session: all the conditions of StepAlone but
   those on the phase and the status.                                       *)
LEMMA CallAlone ==
    ASSUME TypeOK, BornInv, AloneInv, NEW c \in Callers, CallStep(c) \/ Fail(c) PROVE AloneInv'
<1> USE TypeParts
<1> DEFINE s == Mine(c)
           AllAnswered == \A i \in DOMAIN items : items[i].session = s => i \in answered
           Done == phase[s] = "done" \/ status[s] = "completed"
<1> SUFFICES ASSUME s \notin shared
             PROVE  /\ AloneAt(c)'
                    /\ phase'[s] = "done" \/ status'[s] = "completed" =>
                          \A i \in DOMAIN items' : items'[i].session = s => i \in answered'
  BY StepAlone
<1>0. /\ call \in [Callers -> Call] /\ phase \in [Sessions -> Phases]
      /\ status \in [Sessions -> Statuses] /\ s \in Sessions /\ ~At(c, "idle")
  BY CallAfter DEF CallTypes, RestTypes
<1>1. /\ call[c].at \in {"scan", "claim", "apply", "follow", "dispatch", "advance"} =>
            call[c].phase = phase[s]
      /\ call[c].at \in {"scan", "claim", "apply", "follow", "advance", "hook"} =>
            phase[s] # "done"
      /\ call[c].at \in {"advance", "complete"} => AllAnswered
      /\ call[c].at \notin {"head", "record"} => status[s] # "completed"
      /\ Done => AllAnswered
  BY <1>0 DEF AloneInv, AloneAt, AloneAllAnsweredWhenDone, Open
<1>2. UNCHANGED shared
  BY OtherSessions
<1> DEFINE Settled == \A i \in DOMAIN items' : items'[i].session = s => i \in answered'
<1>3. UNCHANGED items /\ AllAnswered => Settled
  BY OtherSessions
<1> HIDE DEF AllAnswered, Settled, Done
<1>4. ASSUME NEW at \in CallSteps, Goto(c, at) \/ (at = "dispatch" /\ Dispatch(c)),
             at \in {"scan", "claim", "apply", "follow", "dispatch", "advance"} =>
                call[c].phase = phase'[s],
             at \in {"scan", "claim", "apply", "follow", "advance", "hook"} => phase'[s] # "done",
             at \in {"advance", "complete"} => Settled,
             at \notin {"head", "record"} => status'[s] # "completed"
      PROVE  AloneAt(c)'
  <2>1. call'[c].at = at /\ call'[c].session = s /\ call'[c].phase = call[c].phase
    BY <1>0, <1>4, GotoCall, DispatchCall DEF Mine
  <2>2. Mine(c)' = s
    BY <2>1 DEF Mine
  <2>3. PICK t \in Sessions : t = s
    BY <1>0
  <2>4. at \in {"advance", "complete"} => Open(t)' = {}
    BY <1>4, <2>3 DEF Settled, Open
  <2>5. Open(Mine(c))' = Open(t)'
    BY <2>2, <2>3 DEF Open
  <2>6. QED  BY <1>4, <2>1, <2>2, <2>4, <2>5 DEF AloneAt, At
<1>5. ASSUME Return(c) PROVE AloneAt(c)'
  <2>1. call'[c].at = "idle"
    BY <1>0, <1>5, ReturnCall DEF Idle
  <2>2. QED  BY <2>1 DEF AloneAt, At
<1>6. CASE Scan(c)
  <2>1. At(c, "scan") /\ UNCHANGED <<phase, status>>
    BY <1>6 DEF Scan, sessions
  <2>2. ~Done
    BY <1>1, <2>1 DEF At, Done
  <2>3. AllAnswered
    BY <2>1 DEF BornInv, Empty, AllAnswered
  <2>4. CASE Goto(c, "complete") /\ UNCHANGED items
    BY <1>0, <1>1, <1>3, <1>4, <2>1, <2>2, <2>3, <2>4 DEF Done, CallSteps
  <2>5. CASE Goto(c, "dispatch")
    BY <1>1, <1>4, <2>1, <2>2, <2>5 DEF Done, At, CallSteps
  <2>6. QED  BY <1>6, <2>1, <2>2, <2>4, <2>5 DEF Scan, Done, Settled
<1>7. CASE Claim(c) \/ Apply(c) \/ FollowUp(c)
  <2>1. UNCHANGED <<phase, status>> /\ call[c].at \in {"claim", "apply", "follow"}
    BY <1>7 DEF Claim, Apply, FollowUp, sessions, At
  <2>2. ~Done
    BY <1>1, <2>1 DEF Done
  <2>3. \/ Dispatch(c)
        \/ \E at \in {"apply", "follow"} : Goto(c, at)
        \/ UNCHANGED call
    BY <1>7 DEF Claim, Apply, FollowUp
  <2>4. CASE UNCHANGED call
    BY <1>1, <1>2, <2>1, <2>4 DEF AloneAt, At, Mine
  <2>5. CASE ~UNCHANGED call
    BY <1>1, <1>4, <2>1, <2>2, <2>3, <2>5 DEF Done, CallSteps
  <2>6. QED  BY <2>1, <2>2, <2>4, <2>5 DEF Done, Settled
<1>8. CASE Serve(c) \/ ReadHead(c) \/ SetWatermark(c) \/ Fail(c)
  <2>1. UNCHANGED <<phase, status, items>>
    BY <1>8 DEF Serve, ReadHead, SetWatermark, Fail, sessions, queue
  <2>2. AloneAt(c)'
    <3>1. CASE Return(c)
      BY <1>5, <3>1
    <3>2. CASE ReadHead(c)
      <4>1. call'[c].at = "record"
        BY <1>0, <3>2 DEF ReadHead, Call
      <4>2. QED  BY <4>1 DEF AloneAt, At
    <3>3. QED  BY <1>8, <3>1, <3>2 DEF Serve, SetWatermark, Fail
  <2>3. QED  BY <1>1, <1>3, <2>1, <2>2 DEF Done, Settled
<1>9. CASE NoneToServe(c)
  <2>1. /\ UNCHANGED <<phase, status, items>> /\ At(c, "dispatch")
        /\ \/ call[c].phase = "done" /\ Goto(c, "complete")
           \/ call[c].phase # "done" /\ Open(s) = {} /\ Goto(c, "advance")
    BY <1>9 DEF NoneToServe, sessions, queue
  <2>2. AllAnswered
    BY <1>1, <2>1 DEF At, Done, AllAnswered, Open
  <2>3. Settled
    BY <1>3, <2>1, <2>2
  <2>4. AloneAt(c)'
    BY <1>1, <1>4, <2>1, <2>3 DEF At, CallSteps
  <2>5. QED  BY <2>3, <2>4 DEF Settled
<1>10. CASE AdvancePhase(c)
  <2>1. UNCHANGED <<status, items>> /\ At(c, "advance")
    BY <1>10 DEF AdvancePhase, queue
  <2>2. call[c].phase = phase[s] /\ phase[s] # "done" /\ AllAnswered /\ status[s] # "completed"
    BY <1>1, <2>1 DEF At
  <2>3. /\ phase'[s] = After(phase[s])
        /\ Goto(c, IF phase[s] = "work" THEN "hook" ELSE "refetch")
    BY <1>0, <1>10, <2>2 DEF AdvancePhase
  <2>4. phase[s] = "work" => phase'[s] = "reflect"
    BY <2>3 DEF After
  <2>5. AloneAt(c)'
    BY <1>4, <2>1, <2>2, <2>3, <2>4 DEF CallSteps
  <2>6. QED  BY <1>3, <2>1, <2>2, <2>5 DEF Settled
<1>11. CASE Hook(c)
  <2>1. UNCHANGED <<phase, status>> /\ At(c, "hook") /\ Goto(c, "refetch")
    BY <1>11 DEF Hook, sessions
  <2>2. phase[s] # "done" /\ status[s] # "completed"
    BY <1>1, <2>1 DEF At
  <2>3. AloneAt(c)'
    BY <1>4, <2>1, <2>2 DEF CallSteps
  <2>4. QED  BY <2>1, <2>2, <2>3
<1>12. CASE Refetch(c)
  <2>1. UNCHANGED <<phase, status, items>> /\ At(c, "refetch")
    BY <1>12 DEF Refetch, sessions, queue
  <2>2. call'[c].at = "dispatch" /\ call'[c].session = s /\ call'[c].phase = phase[s]
    BY <1>0, <1>12, EnterCall DEF Refetch, CallSteps
  <2>3. status[s] # "completed"
    BY <1>1, <2>1 DEF At
  <2>4. AloneAt(c)'
    BY <2>1, <2>2, <2>3 DEF AloneAt, At, Mine
  <2>5. QED  BY <1>1, <1>3, <2>1, <2>4 DEF Done, Settled
<1>13. CASE Complete(c)
  <2>1. UNCHANGED <<phase, items>> /\ At(c, "complete") /\ (Return(c) \/ Goto(c, "head"))
    BY <1>13 DEF Complete, queue
  <2>2. Settled
    BY <1>1, <1>3, <2>1 DEF At
  <2>3. AloneAt(c)'
    BY <1>4, <1>5, <2>1 DEF CallSteps
  <2>4. QED  BY <2>2, <2>3 DEF Settled
<1>14. QED
  BY <1>6, <1>7, <1>8, <1>9, <1>10, <1>11, <1>12, <1>13 DEF CallStep

LEMMA StartAlone ==
    ASSUME TypeOK, WatermarkInv, BornInv, AloneInv, NEW c \in Callers,
           NEW isScoped \in BOOLEAN, Start(c, isScoped)
    PROVE  BornInv' /\ AloneInv'
<1> USE TypeParts
<1>1. PICK s \in Sessions :
         /\ \A t \in Sessions : status[t] = "none" <=> t >= s
         /\ status' = [t \in Sessions |-> IF t = s THEN "active"
                                          ELSE IF status[t] = "active" THEN "abandoned"
                                          ELSE status[t]]
         /\ Enter(c, s, "scan")
  BY DEF Start
<1>2. /\ UNCHANGED <<phase, known, items, answered, shared>> /\ At(c, "idle")
      /\ call \in [Callers -> Call] /\ phase \in [Sessions -> Phases]
  BY DEF Start, queue, ghosts, CallTypes, RestTypes
<1>3. /\ call'[c].at = "scan" /\ call'[c].session = s /\ call'[c].phase = phase[s]
      /\ \A d \in Callers : d # c => call'[d] = call[d]
  BY <1>1, <1>2, EnterCall DEF CallSteps
<1>4. status[s] = "none" /\ phase[s] = "work" /\ s \notin known /\ Empty(s)
  BY <1>1 DEF BornInv, Sessions
<1>5. \A d \in Callers : ~At(d, "idle") => Mine(d) \in Sessions /\ Mine(d) # s
  BY <1>4 DEF WatermarkInv, CallTypes
<1>6. \A t \in Sessions : Empty(t)' = Empty(t) /\ Open(t)' = Open(t)
  BY <1>2 DEF Empty, Open
<1>7. BornInv'
  <2>1. \A t \in Sessions : status'[t] = "none" => status[t] = "none"
    BY <1>1
  <2>2. \A d \in Callers : At(d, "scan")' => Mine(d)' \notin known' /\ Empty(Mine(d))'
    <3> SUFFICES ASSUME NEW d \in Callers, At(d, "scan")'
                 PROVE  Mine(d)' \notin known' /\ Empty(Mine(d))'
      OBVIOUS
    <3>1. CASE d = c
      BY <1>2, <1>3, <1>4, <3>1 DEF Mine, Empty
    <3>2. CASE d # c
      BY <1>2, <1>3, <3>2 DEF BornInv, At, Mine, Empty
    <3>3. QED  BY <3>1, <3>2
  <2>3. ASSUME NEW t \in Sessions \ shared', NEW d \in Callers, NEW e \in Callers,
               In(d, t)', In(e, t)'
        PROVE  d = e
    <3>1. \A f \in Callers : f # c => (In(f, t)' <=> In(f, t)) /\ (In(f, s)' => FALSE)
      BY <1>3, <1>5 DEF In, At, Mine
    <3>2. In(c, t)' => t = s
      BY <1>3 DEF In, Mine
    <3>3. QED  BY <1>2, <2>3, <3>1, <3>2 DEF BornInv
  <2>4. QED  BY <1>2, <1>6, <2>1, <2>2, <2>3 DEF BornInv
<1>8. \A t \in Sessions : status'[t] = "completed" => status[t] = "completed"
  BY <1>1
<1>9. AloneAllAnsweredWhenDone'
  BY <1>2, <1>6, <1>8 DEF AloneInv, AloneAllAnsweredWhenDone
<1>10. AloneAt(c)'
  BY <1>1, <1>2, <1>3, <1>4 DEF AloneAt, At, Mine
<1>11. ASSUME NEW d \in Callers \ {c}, ~At(d, "idle")', Mine(d)' \notin shared' PROVE AloneAt(d)'
  <2>1. call'[d] = call[d] /\ ~At(d, "idle") /\ Mine(d)' = Mine(d) /\ Mine(d) \notin shared
    BY <1>2, <1>3, <1>11 DEF At, Mine
  <2>2. Open(Mine(d))' = Open(Mine(d))
    BY <1>2, <2>1 DEF Open
  <2>3. Mine(d) \in Sessions
    BY <1>5, <2>1
  <2>4. QED  BY <1>2, <1>8, <2>1, <2>2, <2>3 DEF AloneInv, AloneAt
<1>12. QED  BY <1>7, <1>9, <1>10, <1>11 DEF AloneInv, AloneAt

LEMMA ContinueAlone ==
    ASSUME TypeOK, BornInv, AloneInv, NEW c \in Callers, NEW i \in DOMAIN items,
           NEW named \in BOOLEAN, Continue(c, i, named)
    PROVE  BornInv' /\ AloneInv'
<1> USE TypeParts
<1> DEFINE s == items[i].session
<1>1. /\ UNCHANGED <<status, phase, known, items, answered>> /\ At(c, "idle")
      /\ call \in [Callers -> Call] /\ phase \in [Sessions -> Phases] /\ s \in Sessions
      /\ s \in known /\ status[s] = "active"
      /\ shared' = IF InUse(s) THEN shared \cup {s} ELSE shared
  BY QueueFacts DEF Continue, sessions, queue, CallTypes, RestTypes, WorkItem
<1>2. /\ \/ call'[c].at = "dispatch" /\ Open(s) = {}
         \/ call'[c].at = "claim" /\ Open(s) # {}
      /\ call'[c].session = s /\ call'[c].phase = phase[s]
      /\ \A d \in Callers : d # c => call'[d] = call[d]
  <2>1. CASE Open(s) = {} /\ Enter(c, s, "dispatch")
    BY <1>1, <2>1, EnterCall DEF CallSteps
  <2>2. ASSUME NEW current \in Items, Served(current, s),
               call' = [call EXCEPT ![c] =
                          [at |-> "claim", session |-> s, phase |-> phase[s], item |-> current,
                           stray |-> named /\ i # current, head |-> 0]]
        PROVE  /\ call'[c].at = "claim" /\ Open(s) # {}
               /\ call'[c].session = s /\ call'[c].phase = phase[s]
               /\ \A d \in Callers : d # c => call'[d] = call[d]
    <3>1. call'[c] = [at |-> "claim", session |-> s, phase |-> phase[s], item |-> current,
                      stray |-> named /\ i # current, head |-> 0]
      BY <1>1, <2>2
    <3>2. call'[c].at = "claim" /\ call'[c].session = s /\ call'[c].phase = phase[s]
      BY <3>1
    <3>3. QED  BY <1>1, <2>2, <3>2 DEF Served
  <2>3. QED  BY <2>1, <2>2 DEF Continue
<1> HIDE DEF s
<1>3. \A d \in Callers : In(d, s) => s \in shared'
  BY <1>1 DEF In, InUse
<1>4. BornInv'
  <2>1. shared' \subseteq known' /\ shared \subseteq shared'
    BY <1>1 DEF BornInv
  <2>2. \A d \in Callers : At(d, "scan")' => Mine(d)' \notin known' /\ Empty(Mine(d))'
    BY <1>1, <1>2 DEF BornInv, At, Mine, Empty
  <2>3. ASSUME NEW t \in Sessions \ shared', NEW d \in Callers, NEW e \in Callers,
               In(d, t)', In(e, t)'
        PROVE  d = e
    <3>1. \A f \in Callers : f # c => (In(f, t)' <=> In(f, t))
      BY <1>2 DEF In, At, Mine
    <3>2. In(c, t)' => t = s
      BY <1>2 DEF In, Mine
    <3>3. QED  BY <1>3, <2>1, <2>3, <3>1, <3>2 DEF BornInv
  <2>4. QED  BY <1>1, <2>1, <2>2, <2>3 DEF BornInv, Empty
<1>5. shared \subseteq shared'
  BY <1>1
<1>6. AloneAllAnsweredWhenDone'
  BY <1>1, <1>5 DEF AloneInv, AloneAllAnsweredWhenDone, Open
<1>7. AloneAt(c)'
  <2> SUFFICES ASSUME s \notin shared' PROVE AloneAt(c)'
    BY <1>2 DEF AloneAt, Mine
  <2>1. phase[s] = "done" => Open(s) = {}
    BY <1>1, <1>5 DEF AloneInv, AloneAllAnsweredWhenDone
  <2>2. QED  BY <1>1, <1>2, <2>1 DEF AloneAt, At, Mine
<1>8. ASSUME NEW d \in Callers \ {c}, ~At(d, "idle")', Mine(d)' \notin shared' PROVE AloneAt(d)'
  <2>1. call'[d] = call[d] /\ ~At(d, "idle") /\ Mine(d)' = Mine(d) /\ Mine(d) \notin shared
    BY <1>2, <1>5, <1>8 DEF At, Mine
  <2>2. Open(Mine(d))' = Open(Mine(d))
    BY <1>1, <2>1 DEF Open
  <2>3. QED  BY <1>1, <2>1, <2>2 DEF AloneInv, AloneAt
<1>9. QED  BY <1>4, <1>6, <1>7, <1>8 DEF AloneInv, AloneAt

LEMMA NextAlone ==
    TypeOK /\ WatermarkInv /\ BornInv /\ AloneInv /\ [Next]_vars => BornInv' /\ AloneInv'
<1> SUFFICES ASSUME TypeOK, WatermarkInv, BornInv, AloneInv, [Next]_vars
             PROVE  BornInv' /\ AloneInv'
  OBVIOUS
<1>1. ASSUME NEW c \in Callers, CallStep(c) \/ Fail(c) PROVE BornInv' /\ AloneInv'
  BY <1>1, StepBorn, CallAlone
<1>2. CASE Restart
  <2>1. /\ \A c \in Callers : At(c, "idle")' /\ ~At(c, "scan")'
        /\ UNCHANGED <<phase, known, items, answered, shared>>
    BY <1>2 DEF Restart, At, Idle, queue, ghosts
  <2>2. \A s \in Sessions : /\ status'[s] = "none" => status[s] = "none"
                            /\ status'[s] # "completed"
    BY <1>2 DEF Restart
  <2>3. BornInv'
    BY <2>1, <2>2 DEF BornInv, Empty, In
  <2>4. AloneAllAnsweredWhenDone'
    BY <2>1, <2>2 DEF AloneInv, AloneAllAnsweredWhenDone, Open
  <2>5. QED  BY <2>1, <2>3, <2>4 DEF AloneInv, AloneAt
<1>3. CASE Commit \/ UNCHANGED vars
  <2>1. UNCHANGED <<status, phase, known, items, answered, call, shared>>
    BY <1>3 DEF Commit, vars, sessions, queue, ghosts
  <2>2. BornInv'
    BY <2>1 DEF BornInv, Empty, In, At, Mine
  <2>3. AloneInv'
    BY <2>1 DEF AloneInv, AloneAllAnsweredWhenDone, AloneAt, Open, At, Mine
  <2>4. QED  BY <2>2, <2>3
<1>4. QED
  BY <1>1, <1>2, <1>3, StartAlone, ContinueAlone DEF Next

(* A session that is done, or completed, has no open item, unless two calls
   were in it at once (pipeline_index.go, PhaseDone).                       *)
THEOREM AloneCorrect == Spec => []AloneAllAnsweredWhenDone
<1>1. AloneInv => AloneAllAnsweredWhenDone
  BY DEF AloneInv
<1>2. QED
  BY <1>1, TypeCorrect, InitWatermark, NextWatermark, InitAlone, NextAlone, PTL DEF Spec
-----------------------------------------------------------------------------
(* The pipeline implements WorkQueue.                                       *)
LEMMA WorkAt ==
    ASSUME NEW i \in Items
    PROVE  Work[i] = IF i \notin DOMAIN items THEN "none"
                     ELSE IF i \notin answered THEN "open"
                     ELSE IF Taken(i) THEN "taken"
                     ELSE IF applied[i] = 0 THEN "lost"
                     ELSE "applied"
BY DEF Work

LEMMA WorkAtNext ==
    ASSUME NEW i \in Items
    PROVE  Work'[i] = IF i \notin DOMAIN items' THEN "none"
                      ELSE IF i \notin answered' THEN "open"
                      ELSE IF Taken(i)' THEN "taken"
                      ELSE IF applied'[i] = 0 THEN "lost"
                      ELSE "applied"
BY DEF Work

LEMMA WorkTypes ==
    /\ Work \in [Items -> Queue!Places] /\ Work' \in [Items -> Queue!Places]
    /\ DOMAIN Work = Items /\ DOMAIN Work' = Items
BY DEF Work, Queue!Places

(* A step that adds items, and takes and applies none.                      *)
LEMMA QueueFrame ==
    ASSUME TypeOK, Grows, UNCHANGED <<answered, applied, phase>>,
           \A i \in Items : Taken(i)' <=> Taken(i)
    PROVE  Queue!Enqueue
<1>1. answered \subseteq DOMAIN items /\ DOMAIN items \subseteq DOMAIN items'
  BY TypeParts DEF QueueTypes, Grows
<1>2. \A i \in Items : Work'[i] # Work[i] => Work[i] = "none" /\ Work'[i] = "open"
  BY <1>1, WorkAt, WorkAtNext
<1>3. QED  BY <1>2, WorkTypes DEF Queue!Enqueue, Queue!Move

LEMMA ClaimQueue ==
    ASSUME TypeOK, AnswersInv, NEW c \in Callers, Claim(c)
    PROVE  Queue!Next
<1> USE TypeParts
<1> DEFINE i == call[c].item
<1>1. /\ i \in DOMAIN items /\ i \in Items /\ call \in [Callers -> Call]
      /\ UNCHANGED <<items, phase, applied>> /\ ~At(c, "apply")
      /\ answered' = answered \cup {i}
  BY QueueFacts DEF Claim, CallTypes, WithItem, At, sessions, ghosts
<1>2. CASE i \notin answered /\ Goto(c, "apply")
  <2>1. /\ call'[c].at = "apply" /\ call'[c].item = i
        /\ \A d \in Callers : d # c => call'[d] = call[d]
    BY <1>1, <1>2, GotoCall DEF CallSteps
  <2>2. \A j \in Items : Taken(j)' <=> Taken(j) \/ j = i
    BY <1>1, <2>1 DEF Taken, At
  <2> HIDE DEF i
  <2>3. Work[i] = "open" /\ Work'[i] = "taken"
    BY <1>1, <1>2, <2>2, WorkAt, WorkAtNext
  <2>4. \A j \in Items : j # i => Work'[j] = Work[j]
    BY <1>1, <2>2, WorkAt, WorkAtNext
  <2>5. Work' = [Work EXCEPT ![i] = "taken"]
    BY <1>1, <2>3, <2>4, WorkTypes
  <2>6. Queue!Take(i)
    BY <1>1, <2>3, <2>5 DEF Queue!Take, Queue!Hand
  <2>7. QED  BY <1>1, <2>6 DEF Queue!Next
<1>3. CASE i \in answered /\ Dispatch(c)
  <2>1. call'[c].at = "dispatch" /\ \A d \in Callers : d # c => call'[d] = call[d]
    BY <1>1, <1>3, DispatchCall
  <2>2. \A j \in Items : Taken(j)' <=> Taken(j)
    BY <1>1, <2>1 DEF Taken, At
  <2>3. Grows /\ answered' = answered
    BY <1>1, <1>3 DEF Grows, QueueTypes
  <2>4. QED  BY <1>1, <2>2, <2>3, QueueFrame DEF Queue!Next
<1>4. QED  BY <1>2, <1>3 DEF Claim

LEMMA ApplyQueue ==
    ASSUME TypeOK, AnswersInv, NEW c \in Callers, Apply(c) PROVE Queue!Next
<1> USE TypeParts
<1> DEFINE i == call[c].item
<1>1. /\ i \in DOMAIN items /\ i \in Items /\ call \in [Callers -> Call]
      /\ UNCHANGED <<items, phase, answered>> /\ At(c, "apply")
      /\ i \in answered /\ applied[i] = 0 /\ applied \in [Items -> Nat]
  BY QueueFacts DEF Apply, AnswersInv, CallTypes, RestTypes, WithItem, At,
                    sessions, queue
<1>2. applied' = [applied EXCEPT ![i] = 1]
  <2>1. applied[i] + 1 = 1
    BY <1>1
  <2>2. QED  BY <1>1, <2>1 DEF Apply
<1>3. /\ call'[c].at \in {"follow", "dispatch"}
      /\ \A d \in Callers : d # c => call'[d] = call[d]
  <2>1. CASE items[i].type = "distill"
    BY <1>1, <2>1, GotoCall DEF Apply, CallSteps
  <2>2. CASE items[i].type # "distill"
    BY <1>1, <2>2, DispatchCall DEF Apply
  <2>3. QED  BY <2>1, <2>2
<1>4. \A j \in Items : Taken(j)' <=> Taken(j) /\ j # i
  BY <1>1, <1>3 DEF Taken, At, AnswersInv
<1>5. Taken(i)
  BY <1>1 DEF Taken
<1> HIDE DEF i
<1>6. Work[i] = "taken" /\ Work'[i] = "applied"
  BY <1>1, <1>2, <1>4, <1>5, WorkAt, WorkAtNext
<1>7. \A j \in Items : j # i => Work'[j] = Work[j]
  BY <1>1, <1>2, <1>4, WorkAt, WorkAtNext
<1>8. Work' = [Work EXCEPT ![i] = "applied"]
  BY <1>1, <1>6, <1>7, WorkTypes
<1>9. Queue!Apply(i)
  BY <1>1, <1>6, <1>8 DEF Queue!Apply, Queue!Hand
<1>10. QED  BY <1>1, <1>9 DEF Queue!Next

(* Calls die: what they had taken is lost.                                  *)
LEMMA LossQueue ==
    ASSUME TypeOK, AnswersInv, UNCHANGED <<items, answered, applied, phase>>,
           \A i \in Items : Taken(i)' => Taken(i)
    PROVE  Queue!Lose
<1>1. \A i \in Items : Taken(i) => applied[i] = 0
  BY DEF Taken, AnswersInv
<1>2. \A i \in Items : Work'[i] # Work[i] => Work[i] = "taken" /\ Work'[i] = "lost"
  BY <1>1, WorkAt, WorkAtNext
<1>3. QED  BY <1>2, WorkTypes DEF Queue!Lose, Queue!Move

AdvanceInv == \A c \in Callers : At(c, "advance") => call[c].phase # "done"

LEMMA PhaseQueue ==
    ASSUME TypeOK, AdvanceInv, NEW c \in Callers, AdvancePhase(c)
    PROVE  Queue!Next \/ UNCHANGED <<Work, phase>>
<1> USE TypeParts
<1>1. /\ Mine(c) \in Sessions /\ phase \in [Sessions -> Phases]
      /\ UNCHANGED <<items, answered, applied>> /\ call[c].phase # "done"
  BY DEF AdvancePhase, CallTypes, RestTypes, At, queue, ghosts, AdvanceInv
<1>2. \A i \in Items : Taken(i)' <=> Taken(i)
  <2>1. /\ call'[c].at \notin {"claim", "apply"} /\ ~At(c, "apply")
        /\ \A d \in Callers : d # c => call'[d] = call[d]
    BY QuietCall DEF QuietStep
  <2>2. QED  BY <2>1 DEF Taken, At
<1>3. Work' = Work
  BY <1>1, <1>2 DEF Work
<1>4. CASE /\ phase[Mine(c)] = call[c].phase
           /\ phase' = [phase EXCEPT ![Mine(c)] = After(call[c].phase)]
  <2>1. /\ Queue!Follows(phase[Mine(c)], After(call[c].phase))
        /\ After(call[c].phase) \in {"reflect", "done"}
    BY <1>1, <1>4 DEF Queue!Follows, After, Phases
  <2>2. Queue!Advance(Mine(c))
    BY <1>3, <1>4, <2>1 DEF Queue!Advance
  <2>3. QED  BY <1>1, <2>2 DEF Queue!Next
<1>5. CASE UNCHANGED phase
  BY <1>3, <1>5
<1>6. QED  BY <1>4, <1>5 DEF AdvancePhase

LEMMA NextQueue ==
    TypeOK /\ AnswersInv /\ AdvanceInv /\ [Next]_vars
    => [Queue!Next]_<<Work, phase>>
<1> SUFFICES ASSUME TypeOK, AnswersInv, AdvanceInv, [Next]_vars
             PROVE  Queue!Next \/ UNCHANGED <<Work, phase>>
  OBVIOUS
<1>0. UNCHANGED items => Grows
  BY TypeParts DEF Grows, QueueTypes
<1>1. ASSUME NEW c \in Callers,
             \/ \E isScoped \in BOOLEAN : Start(c, isScoped)
             \/ \E i \in DOMAIN items, named \in BOOLEAN : Continue(c, i, named)
      PROVE  Queue!Next
  <2>1. /\ UNCHANGED <<phase, items, answered, applied>> /\ At(c, "idle")
        /\ call'[c].at # "apply"
        /\ \A d \in Callers : d # c => call'[d] = call[d]
    BY <1>1, BeginCall
  <2>2. \A i \in Items : Taken(i)' <=> Taken(i)
    BY <2>1 DEF Taken, At
  <2>3. QED  BY <1>0, <2>1, <2>2, QueueFrame DEF Queue!Next
<1>2. ASSUME NEW c \in Callers, Claim(c) \/ Apply(c) PROVE Queue!Next
  BY <1>2, ClaimQueue, ApplyQueue
<1>3. ASSUME NEW c \in Callers, QuietStep(c), ~AdvancePhase(c) PROVE Queue!Next
  <2>1. /\ UNCHANGED <<answered, applied>>
        /\ call'[c].at # "apply" /\ ~At(c, "apply")
        /\ \A d \in Callers : d # c => call'[d] = call[d]
    BY <1>3, QuietCall
  <2>2. \A i \in Items : Taken(i)' <=> Taken(i)
    BY <2>1 DEF Taken, At
  <2>3. UNCHANGED phase
    BY <1>3 DEF QuietStep, Scan, FollowUp, Serve, NoneToServe, Hook, Refetch,
       Complete, ReadHead, SetWatermark, sessions
  <2>4. Grows
    <3>1. CASE Scan(c) \/ FollowUp(c) \/ Hook(c)
      BY <3>1, ScanTypes, FollowUpTypes, HookTypes
    <3>2. CASE ~(Scan(c) \/ FollowUp(c) \/ Hook(c))
      BY <1>0, <1>3, <3>2 DEF QuietStep, Serve, NoneToServe, Refetch, Complete,
         ReadHead, SetWatermark, queue
    <3>3. QED  BY <3>1, <3>2
  <2>5. QED  BY <2>1, <2>2, <2>3, <2>4, QueueFrame DEF Queue!Next
<1>4. ASSUME NEW c \in Callers, AdvancePhase(c)
      PROVE  Queue!Next \/ UNCHANGED <<Work, phase>>
  BY <1>4, PhaseQueue
<1>5. ASSUME NEW c \in Callers, Fail(c) PROVE Queue!Next
  <2>1. /\ UNCHANGED <<answered, applied>> /\ call'[c].at # "apply"
        /\ \A d \in Callers : d # c => call'[d] = call[d]
    BY <1>5, QuietCall
  <2>2. \A i \in Items : Taken(i)' => Taken(i)
    BY <2>1 DEF Taken, At
  <2>3. UNCHANGED <<items, phase>>
    BY <1>5 DEF Fail, sessions, queue
  <2>4. QED  BY <2>1, <2>2, <2>3, LossQueue DEF Queue!Next
<1>6. CASE Restart
  <2>1. \A i \in Items : ~Taken(i)'
    BY <1>6 DEF Restart, Taken, At, Idle
  <2>2. UNCHANGED <<items, answered, applied, phase>>
    BY <1>6 DEF Restart, queue, ghosts
  <2>3. QED  BY <2>1, <2>2, LossQueue DEF Queue!Next
<1>7. CASE Commit \/ UNCHANGED vars
  <2>1. UNCHANGED <<items, answered, applied, phase, call>>
    BY <1>7 DEF Commit, vars, sessions, queue, ghosts
  <2>2. \A i \in Items : Taken(i)' <=> Taken(i)
    BY <2>1 DEF Taken, At
  <2>3. QED  BY <1>0, <2>1, <2>2, QueueFrame DEF Queue!Next
<1>8. QED
  BY <1>1, <1>2, <1>3, <1>4, <1>5, <1>6, <1>7 DEF Next, CallStep, QuietStep

LEMMA InitQueue == Init => Queue!Init
<1> SUFFICES ASSUME Init PROVE Queue!Init
  OBVIOUS
<1>1. DOMAIN items = {} /\ phase = [s \in Sessions |-> "work"]
  BY DEF Init
<1>2. Work = [i \in Items |-> "none"]
  BY <1>1 DEF Work
<1>3. QED  BY <1>1, <1>2 DEF Queue!Init

LEMMA NextAdvance == TypeOK /\ AdvanceInv /\ [Next]_vars => AdvanceInv'
<1> SUFFICES ASSUME TypeOK, AdvanceInv, [Next]_vars PROVE AdvanceInv'
  OBVIOUS
<1>1. ASSUME NEW c \in Callers,
             \/ \E isScoped \in BOOLEAN : Start(c, isScoped)
             \/ \E i \in DOMAIN items, named \in BOOLEAN : Continue(c, i, named)
      PROVE  AdvanceInv'
  <2>1. /\ call'[c].at # "advance"
        /\ \A d \in Callers : d # c => call'[d] = call[d]
    BY <1>1, BeginCall
  <2>2. QED  BY <2>1 DEF AdvanceInv, At
<1>2. ASSUME NEW c \in Callers, CallStep(c) \/ Fail(c) PROVE AdvanceInv'
  <2>1. /\ call'[c].at = "advance" => call'[c].phase # "done"
        /\ \A d \in Callers : d # c => call'[d] = call[d]
    BY <1>2, CallAfter
  <2>2. QED  BY <2>1 DEF AdvanceInv, At
<1>3. CASE Restart
  BY <1>3 DEF Restart, AdvanceInv, At, Idle
<1>4. CASE Commit \/ UNCHANGED vars
  BY <1>4 DEF Commit, vars, AdvanceInv, At
<1>5. QED  BY <1>1, <1>2, <1>3, <1>4 DEF Next

(* Every step of the pipeline is a step of the abstract queue or a stutter: an
   item is taken by one caller, and applied once or lost; a session's phases
   follow each other (AnswerPipelineWorkItem, AdvancePipelineSessionPhase). *)
THEOREM ImplementsWorkQueue == Spec => QueueSpec
<1>1. Init => AdvanceInv
  BY DEF Init, AdvanceInv, At, Idle
<1>2. Spec => [](TypeOK /\ AnswersInv /\ AdvanceInv)
  BY <1>1, TypeCorrect, InitAnswers, NextAnswers, NextAdvance, PTL DEF Spec
<1>3. Spec => Queue!Init /\ [][Queue!Next]_<<Work, phase>>
  BY <1>2, InitQueue, NextQueue, PTL DEF Spec
<1>4. QED  BY <1>3 DEF QueueSpec, Queue!Spec
=============================================================================
