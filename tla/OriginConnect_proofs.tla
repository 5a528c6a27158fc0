------------------------- MODULE OriginConnect_proofs ------------------------
(***************************************************************************)
(* OriginConnect for any number of sessions, requests, remotes, facts and  *)
(* events: no handler waits for another in a circle, no knowledge base is  *)
(* taken over that another repository held, the origin on record is that   *)
(* of what the repository holds, directories do not outlive their session, *)
(* and a commit installs the merge that was asked for.                     *)
(***************************************************************************)
EXTENDS OriginConnect, TLAPS

(* The requests.                                                           *)

LEMMA IdleRequest == \A n : IsRequest(Idle, n)
BY NoValueAssumption DEF IsRequest, RequestSet, Idle, Stage, CommitSteps, Strategies, Facts

LEMMA CommitStages ==
    ASSUME NEW q, NEW n, IsRequest(q, n),
           q.pc \in {"ask", "close", "swap", "drain", "copy", "acquire", "persist", "finish"}
    PROVE  q.op = "commit"
BY DEF IsRequest, Stage, CommitSteps

LEMMA BusyRequest ==
    ASSUME SessionTypes, NEW q, IsRequest(q, created), q.pc # "idle"
    PROVE  q.op # "none" /\ q.s \in 1..created /\ q.s \in Sessions
BY SessionAssumption DEF SessionTypes, IsRequest, Stage, CommitSteps, Sessions, Idle

LEMMA Moved ==
    ASSUME NEW q, IsRequest(q, created), q.op # "none", NEW pc, Stage(q.op, pc), pc # "write"
    PROVE  IsRequest([q EXCEPT !.pc = pc], created)
<1>1. [q EXCEPT !.pc = pc].todo = q.todo /\ q \in RequestSet
  BY DEF IsRequest, RequestSet
<1>2. [q EXCEPT !.pc = pc] \in RequestSet
  BY <1>1 DEF RequestSet, Stage, CommitSteps
<1>3. /\ [q EXCEPT !.pc = pc].op = q.op /\ [q EXCEPT !.pc = pc].pc = pc
      /\ [q EXCEPT !.pc = pc].s = q.s
  BY DEF IsRequest, RequestSet
<1>4. QED  BY <1>2, <1>3 DEF IsRequest

LEMMA CreatedNat == SessionTypes => created \in Nat
BY SessionAssumption DEF SessionTypes

(* Request r, alone, has moved.                                            *)
Only(r) == DOMAIN req' = Requests /\ \A d \in Requests \ {r} : req'[d] = req[d]

LEMMA Becomes ==
    ASSUME SessionTypes, RequestTypes, NEW r \in Requests, Only(r), IsRequest(req'[r], created'),
           created' \in Nat, created <= created'
    PROVE  RequestTypes'
<1>1. ASSUME NEW d \in Requests PROVE IsRequest(req'[d], created')
  <2>1. CASE d # r
    <3>1. req'[d] = req[d] /\ IsRequest(req[d], created) /\ created \in Nat
      BY <2>1, CreatedNat DEF RequestTypes, Only
    <3>2. QED  BY <3>1 DEF IsRequest
  <2>2. QED  BY <2>1
<1>2. QED  BY <1>1 DEF RequestTypes, Only

LEMMA ReturnTypes ==
    ASSUME SessionTypes, RequestTypes, NEW r \in Requests, Return(r), created' = created
    PROVE  RequestTypes' /\ Only(r) /\ req'[r] = Idle
<1>1. Only(r) /\ req'[r] = Idle
  BY DEF Return, Only, RequestTypes
<1>2. QED  BY <1>1, Becomes, IdleRequest, CreatedNat

LEMMA GoTypes ==
    ASSUME SessionTypes, RequestTypes, NEW r \in Requests, NEW pc, Go(r, pc), created' = created,
           req[r].pc # "idle", Stage(req[r].op, pc), pc # "write"
    PROVE  RequestTypes' /\ Only(r) /\ req'[r] = [req[r] EXCEPT !.pc = pc]
<1>1. IsRequest(req[r], created) /\ req[r].op # "none"
  BY BusyRequest DEF RequestTypes
<1>2. IsRequest([req[r] EXCEPT !.pc = pc], created)
  BY <1>1, Moved
<1>3. Only(r) /\ req'[r] = [req[r] EXCEPT !.pc = pc]
  BY DEF Go, Only, RequestTypes
<1>4. QED  BY <1>2, <1>3, Becomes, CreatedNat

LEMMA BeginTypes ==
    ASSUME WorldTypes, SessionTypes, RequestTypes, NEW r \in Requests, NEW op, NEW pc, NEW s,
           Begin(r, op, pc, s), op # "none", Stage(op, pc), pc # "write",
           created' \in Nat, created <= created', s \in Sessions, s \in 1..created'
    PROVE  /\ RequestTypes' /\ Only(r)
           /\ req'[r].op = op /\ req'[r].pc = pc /\ req'[r].s = s /\ req'[r].pin = PinFor(op)
<1> DEFINE q == [Idle EXCEPT !.op = op, !.pc = pc, !.s = s, !.pin = PinFor(op)]
<1>1. PinFor(op) \in Nat
  BY DEF PinFor, WorldTypes
<1>2. /\ op \in {"create", "delete", "test", "preview", "apply", "commit"}
      /\ pc \in {"store", "clone", "analyze", "compare", "replay", "done"} \cup CommitSteps
  BY DEF Stage, CommitSteps
<1>3. Idle \in RequestSet /\ Idle.todo = {}
  BY IdleRequest DEF IsRequest, Idle
<1>4. q \in RequestSet
  BY <1>1, <1>2, <1>3 DEF RequestSet
<1>5. q.op = op /\ q.pc = pc /\ q.s = s /\ q.pin = PinFor(op)
  BY <1>3 DEF RequestSet
<1>6. Only(r) /\ req'[r] = q
  BY DEF Begin, Only, RequestTypes
<1> HIDE DEF q
<1>7. IsRequest(q, created')
  BY <1>4, <1>5 DEF IsRequest
<1>8. QED  BY <1>5, <1>6, <1>7, Becomes

(* The sessions.                                                           *)

LEMMA SpendTypes ==
    ASSUME WorldTypes, NEW e \in Events, \/ Spend(e) \/ UNCHANGED budget
    PROVE  budget' \in [Events -> Nat] /\ \A x \in Events : budget'[x] <= Budget[x]
BY BudgetAssumption DEF WorldTypes, Spend

LEMMA FailsTypes ==
    ASSUME WorldTypes, NEW must, Fails(must)
    PROVE  budget' \in [Events -> Nat] /\ \A x \in Events : budget'[x] <= Budget[x]
BY SpendTypes DEF Fails, Events

CloneSet == [cloned : BOOLEAN, open : BOOLEAN, facts : Facts]

(* Session s, if any, has another state, and the same URL.                 *)
OnlySession(s) ==
    /\ sess' \in [Sessions -> SessionSet]
    /\ \A d \in Sessions \ {s} : sess'[d] = sess[d]
    /\ sess'[s].url = sess[s].url

LEMMA SessTypes ==
    ASSUME SessionTypes, NEW s \in 1..created, OnlySession(s), created' = created,
           current' \in 1..created \cup {NoSession}, clone' \in [Sessions -> CloneSet],
           asked' \in [Sessions -> [facts : Facts, with : Strategies]], dirs' \subseteq 1..created
    PROVE  SessionTypes'
<1>1. s <= created /\ \A d \in Sessions : d # s => sess'[d] = sess[d]
  BY CreatedNat DEF OnlySession
<1>2. \A d \in Sessions : IF d <= created THEN sess'[d].url \in Urls ELSE sess'[d] = Unborn
  BY <1>1 DEF SessionTypes, OnlySession
<1>3. QED  BY <1>2 DEF SessionTypes, CloneSet, OnlySession

LEMMA SetStateTypes ==
    ASSUME SessionTypes, NEW s \in 1..created, NEW st, SetState(s, st),
           st \in {"created", "tested", "previewed", "applied", "committed", "error"}
    PROVE  /\ OnlySession(s)
           /\ sess'[s].state = st /\ sess'[s].history = sess[s].history
           /\ sess'[s].remoteStore = sess[s].remoteStore
<1>1. s \in Sessions /\ sess' = [sess EXCEPT ![s].state = st]
  BY SessionAssumption DEF SetState, SessionTypes, Sessions
<1>2. sess \in [Sessions -> SessionSet] /\ sess[s] \in SessionSet
  BY <1>1 DEF SessionTypes
<1>3. sess'[s] = [sess[s] EXCEPT !.state = st]
  BY <1>1, <1>2
<1>4. [sess[s] EXCEPT !.state = st] \in SessionSet
  BY <1>2 DEF SessionSet
<1>5. /\ sess'[s].url = sess[s].url /\ sess'[s].state = st
      /\ sess'[s].history = sess[s].history /\ sess'[s].remoteStore = sess[s].remoteStore
  BY <1>2, <1>3 DEF SessionSet
<1>6. QED  BY <1>1, <1>2, <1>4, <1>5 DEF OnlySession

-----------------------------------------------------------------------------
(* What each action leaves in the variables.                               *)

LEMMA StartCreateTypes ==
    ASSUME TypeOK, NEW r \in Requests, StartCreate(r) PROVE TypeOK' /\ Only(r)
<1> USE DEF TypeOK
<1>1. created \in Nat /\ created' = created + 1 /\ created' \in Sessions /\ created' \in 1..created'
  BY CreatedNat, SessionAssumption DEF StartCreate, Sessions
<1>2. RequestTypes' /\ Only(r)
  BY <1>1, BeginTypes DEF StartCreate, Stage
<1>3. PICK u \in Urls : sess' = [sess EXCEPT ![created'].url = u]
  BY DEF StartCreate
<1>4. sess'[created'] \in SessionSet /\ sess'[created'].url = u
  BY <1>1, <1>3 DEF SessionTypes, SessionSet
<1>5. \A d \in Sessions : d # created' => sess'[d] = sess[d]
  BY <1>3 DEF SessionTypes
<1>6. sess' \in [Sessions -> SessionSet]
  BY <1>3, <1>4, <1>5 DEF SessionTypes
<1>7. \A d \in Sessions : IF d <= created' THEN sess'[d].url \in Urls ELSE sess'[d] = Unborn
  BY <1>1, <1>4, <1>5 DEF SessionTypes, Sessions
<1>8. dirs' \subseteq 1..created' /\ created' \in 0..MaxSession
  BY <1>1, SessionAssumption DEF SessionTypes, StartCreate, DeleteByRepo, Sessions
<1>9. SessionTypes'
  BY <1>6, <1>7, <1>8 DEF SessionTypes, StartCreate, ghosts
<1>10. WorldTypes'
  BY DEF StartCreate, store, world, WorldTypes
<1>11. QED  BY <1>2, <1>9, <1>10

(* A request that has begun is on behalf of some session.                  *)
LEMMA OfSession ==
    ASSUME TypeOK, NEW r \in Requests, req[r].pc # "idle"
    PROVE  /\ req[r].op # "none" /\ req[r].s \in 1..created /\ req[r].s \in Sessions
           /\ sess[req[r].s].url \in Urls /\ created \in Nat
           /\ req[r] \in RequestSet /\ Stage(req[r].op, req[r].pc)
BY BusyRequest, CreatedNat DEF TypeOK, RequestTypes, SessionTypes, IsRequest

LEMMA StoreSessionTypes ==
    ASSUME TypeOK, NEW r \in Requests, StoreSession(r)
    PROVE  TypeOK' /\ Only(r) /\ req'[r] = Idle
<1> USE DEF TypeOK
<1>1. req[r].s \in 1..created
  BY OfSession DEF StoreSession, At
<1>2. RequestTypes' /\ Only(r) /\ req'[r] = Idle
  BY ReturnTypes DEF StoreSession
<1>3. WorldTypes'
  BY SpendTypes DEF StoreSession, store, world, WorldTypes, Events
<1>4. SessionTypes'
  <2>1. CASE SetState(req[r].s, "created") /\ current' = req[r].s /\ dirs' = dirs \cup {req[r].s}
    BY <1>1, <2>1, SetStateTypes, SessTypes DEF StoreSession, SessionTypes, CloneSet
  <2>2. CASE UNCHANGED <<current, dirs, sess>>
    BY <2>2 DEF StoreSession, SessionTypes
  <2>3. QED  BY <2>1, <2>2 DEF StoreSession
<1>5. QED  BY <1>2, <1>3, <1>4

LEMMA StartTypes ==
    ASSUME TypeOK, NEW r \in Requests, NEW s \in Sessions,
           \/ StartDelete(r) /\ s = current
           \/ StartTest(r, s) \/ StartPreview(r, s) \/ StartApply(r, s) \/ StartCommit(r, s)
    PROVE  TypeOK' /\ Only(r) /\ req'[r].s = s /\ req'[r].pin = PinFor(req'[r].op)
<1> USE DEF TypeOK
<1>1. s \in 1..created /\ UNCHANGED created /\ created \in Nat
  BY CreatedNat, NoValueAssumption
  DEF SessionTypes, StartDelete, StartTest, StartPreview, StartApply, StartCommit, Get, sessions
<1>2. PICK op, pc : Begin(r, op, pc, s) /\ op # "none" /\ Stage(op, pc) /\ pc # "write"
  <2>1. CASE StartDelete(r) /\ s = current
    BY <2>1 DEF StartDelete, Stage
  <2>2. CASE StartTest(r, s) \/ StartPreview(r, s)
    BY <2>2 DEF StartTest, StartPreview, Stage
  <2>3. CASE StartApply(r, s)
    BY <2>3 DEF StartApply, Stage
  <2>4. CASE StartCommit(r, s)
    BY <2>4 DEF StartCommit, Stage, CommitSteps
  <2>5. QED  BY <2>1, <2>2, <2>3, <2>4
<1>3. RequestTypes' /\ Only(r) /\ req'[r].s = s /\ req'[r].pin = PinFor(req'[r].op)
  BY <1>1, <1>2, BeginTypes
<1>4. WorldTypes'
  <2>1. \E e \in Events : Spend(e)
    BY DEF StartDelete, StartTest, StartPreview, StartApply, StartCommit, Events
  <2>2. QED
    BY <2>1, SpendTypes DEF StartDelete, StartTest, StartPreview, StartApply, StartCommit, store,
       world, WorldTypes
<1>5. SessionTypes'
  BY DEF StartDelete, StartTest, StartPreview, StartApply, StartCommit, sessions, ghosts, SessionTypes
<1>6. QED  BY <1>3, <1>4, <1>5

LEMMA EvictTypes ==
    ASSUME TypeOK, NEW r \in Requests, Delete(r) \/ EndSession(r)
    PROVE  TypeOK' /\ Only(r) /\ req'[r] = Idle
<1> USE DEF TypeOK
<1>1. RequestTypes' /\ Only(r) /\ req'[r] = Idle
  BY ReturnTypes DEF Delete, EndSession
<1>2. WorldTypes' /\ SessionTypes'
  BY DEF Delete, EndSession, Evict, store, world, WorldTypes, SessionTypes
<1>3. QED  BY <1>1, <1>2

LEMMA CloneTypes ==
    ASSUME TypeOK, NEW r \in Requests, Clone(r)
    PROVE  TypeOK' /\ Only(r)
<1> USE DEF TypeOK
<1> DEFINE s == req[r].s
<1>1. s \in 1..created /\ s \in Sessions /\ sess[s].url \in Urls
  BY OfSession DEF Clone, At
<1>2. RequestTypes' /\ Only(r)
  BY ReturnTypes, GoTypes DEF Clone, At, Stage
<1>3. WorldTypes'
  BY FailsTypes DEF Clone, store, world, WorldTypes
<1>4. clone' \in [Sessions -> CloneSet]
  <2>1. Remote[sess[s].url] \in Facts
    BY <1>1, RemoteAssumption
  <2>2. [cloned |-> TRUE, open |-> TRUE, facts |-> Remote[sess[s].url]] \in CloneSet
    BY <2>1 DEF CloneSet
  <2>3. [clone[s] EXCEPT !.cloned = TRUE] \in CloneSet
    BY <1>1 DEF CloneSet, SessionTypes
  <2>4. QED  BY <1>1, <2>2, <2>3 DEF Clone, SessionTypes, CloneSet
<1>5. SessionTypes'
  <2>1. CASE SetState(s, "error")
    BY <1>1, <1>4, <2>1, SetStateTypes, SessTypes DEF Clone, ghosts, SessionTypes
  <2>2. CASE UNCHANGED sess
    BY <1>4, <2>2 DEF Clone, ghosts, SessionTypes, CloneSet
  <2>3. QED  BY <2>1, <2>2 DEF Clone
<1>6. QED  BY <1>2, <1>3, <1>5

LEMMA AnalyzeTypes ==
    ASSUME TypeOK, NEW r \in Requests, Analyze(r)
    PROVE  TypeOK' /\ Only(r) /\ req'[r] = Idle /\ OnlySession(req[r].s)
<1> USE DEF TypeOK
<1> DEFINE s == req[r].s
<1>1. s \in 1..created /\ s \in Sessions
  BY OfSession DEF Analyze, At
<1>2. RequestTypes' /\ Only(r) /\ req'[r] = Idle
  BY ReturnTypes DEF Analyze
<1>3. WorldTypes'
  BY FailsTypes DEF Analyze, store, world, WorldTypes
<1>4. clone' \in [Sessions -> CloneSet]
  <2>1. clone' = clone \/ clone' = [clone EXCEPT ![s].open = FALSE]
    BY DEF Analyze
  <2>2. clone \in [Sessions -> CloneSet]
    BY DEF SessionTypes, CloneSet
  <2>3. QED  BY <1>1, <2>1, <2>2 DEF CloneSet
<1>5. OnlySession(s)
  <2>1. CASE SetState(s, "error")
    BY <1>1, <2>1, SetStateTypes
  <2>2. ASSUME NEW h \in {"shared", "disjoint"},
               sess' = [sess EXCEPT ![s] = [@ EXCEPT !.state = "tested", !.remoteStore = TRUE,
                                                     !.history = h]]
        PROVE  OnlySession(s)
    <3>1. sess \in [Sessions -> SessionSet] /\ sess[s] \in SessionSet
      BY <1>1 DEF SessionTypes
    <3>2. sess'[s] = [sess[s] EXCEPT !.state = "tested", !.remoteStore = TRUE, !.history = h]
      BY <1>1, <2>2, <3>1
    <3>3. sess'[s] \in SessionSet /\ sess'[s].url = sess[s].url
      BY <3>1, <3>2 DEF SessionSet
    <3>4. QED  BY <1>1, <2>2, <3>1, <3>3 DEF OnlySession
  <2>3. QED  BY <2>1, <2>2 DEF Analyze
<1>6. SessionTypes'
  BY <1>1, <1>4, <1>5, SessTypes DEF Analyze, ghosts, SessionTypes
<1>7. QED  BY <1>2, <1>3, <1>5, <1>6

LEMMA CompareTypes ==
    ASSUME TypeOK, NEW r \in Requests, Compare(r)
    PROVE  TypeOK' /\ Only(r) /\ req'[r] = Idle
<1> USE DEF TypeOK
<1>1. req[r].s \in 1..created
  BY OfSession DEF Compare, At
<1>2. RequestTypes' /\ Only(r) /\ req'[r] = Idle
  BY ReturnTypes DEF Compare
<1>3. WorldTypes'
  BY DEF Compare, store, world, WorldTypes
<1>4. SessionTypes'
  BY <1>1, SetStateTypes, SessTypes DEF Compare, ghosts, SessionTypes, CloneSet
<1>5. QED  BY <1>2, <1>3, <1>4

(* Facts of a version each.                                                *)
LEMMA FactTypes ==
    ASSUME NEW f \in Facts, NEW p \in Paths, NEW v \in Versions \cup {NoFact}
    PROVE  [f EXCEPT ![p] = v] \in Facts
BY DEF Facts

LEMMA ReplayTypes ==
    ASSUME TypeOK, NEW r \in Requests, Replay(r)
    PROVE  TypeOK' /\ Only(r)
<1> USE DEF TypeOK
<1> DEFINE s == req[r].s
           base == BaseOf(s)
<1>1. s \in 1..created /\ s \in Sessions /\ sess[s].url \in Urls /\ req[r] \in RequestSet
      /\ req[r].op = "apply" /\ UNCHANGED created /\ created \in Nat
  BY OfSession DEF Replay, At
<1>2. base \in Facts
  BY <1>1, RemoteAssumption DEF BaseOf, SessionTypes
<1>3. RequestTypes' /\ Only(r)
  <2>1. CASE Return(r)
    BY <2>1, <1>1, ReturnTypes
  <2>2. CASE ~Return(r)
    <3>1. PICK w \in Strategies :
            req' = [req EXCEPT ![r] = [@ EXCEPT !.pc = "write", !.with = w, !.facts = local.facts,
                       !.todo = {p \in Paths : /\ local.facts[p] # NoFact
                                               /\ w = "local_wins" \/ base[p] = NoFact}]]
      BY <2>2 DEF Replay, ReplayFails
    <3> DEFINE todo == {p \in Paths : /\ local.facts[p] # NoFact
                                      /\ w = "local_wins" \/ base[p] = NoFact}
               q == [req[r] EXCEPT !.pc = "write", !.with = w, !.facts = local.facts, !.todo = todo]
    <3>2. Only(r) /\ req'[r] = q
      BY <3>1 DEF Only, RequestTypes
    <3>3. local.facts \in Facts /\ todo \subseteq Paths
      BY DEF WorldTypes
    <3>4. /\ q \in RequestSet /\ q.op = "apply" /\ q.pc = "write" /\ q.s = s
          /\ q.todo \subseteq Paths
      <4> HIDE DEF todo
      <4>1. QED  BY <1>1, <3>3 DEF RequestSet
    <3> HIDE DEF q
    <3>5. IsRequest(q, created)
      BY <1>1, <3>4 DEF IsRequest, Stage
    <3>6. QED  BY <1>1, <3>2, <3>5, Becomes
  <2>3. QED  BY <2>1, <2>2
<1>4. WorldTypes'
  BY FailsTypes DEF Replay, store, world, WorldTypes
<1>5. clone' \in [Sessions -> CloneSet]
  <2>1. clone \in [Sessions -> CloneSet]
    BY DEF SessionTypes, CloneSet
  <2>2. [clone[s] EXCEPT !.facts = base] \in CloneSet
    BY <1>1, <1>2, <2>1 DEF CloneSet
  <2>3. clone' = clone \/ clone' = [clone EXCEPT ![s] = [clone[s] EXCEPT !.facts = base]]
    BY DEF Replay
  <2>4. QED  BY <2>1, <2>2, <2>3
<1>6. SessionTypes'
  <2>1. CASE SetState(s, "error")
    BY <1>1, <1>5, <2>1, SetStateTypes, SessTypes DEF Replay, SessionTypes
  <2>2. CASE UNCHANGED sess
    BY <1>5, <2>2 DEF Replay, SessionTypes, CloneSet
  <2>3. QED  BY <2>1, <2>2 DEF Replay, ReplayFails
<1>7. QED  BY <1>3, <1>4, <1>6

LEMMA WriteFactTypes ==
    ASSUME TypeOK, NEW r \in Requests, WriteFact(r)
    PROVE  TypeOK' /\ Only(r)
<1> USE DEF TypeOK
<1> DEFINE s == req[r].s
<1>1. s \in 1..created /\ s \in Sessions /\ req[r] \in RequestSet
      /\ req[r].op = "apply" /\ req[r].pc = "write" /\ UNCHANGED created /\ created \in Nat
  BY OfSession DEF WriteFact, At
<1>2. req[r].todo \subseteq Paths
  BY <1>1 DEF RequestTypes, IsRequest
<1>3. PICK p \in req[r].todo :
        \/ /\ clone' = [clone EXCEPT ![s].facts[p] = req[r].facts[p]]
           /\ req' = [req EXCEPT ![r].todo = @ \ {p}]
           /\ UNCHANGED <<sess, budget>>
        \/ Fails(~clone[s].open) /\ ReplayFails(r) /\ UNCHANGED clone
  BY DEF WriteFact
<1>4. p \in Paths /\ req[r].facts[p] \in Versions \cup {NoFact}
  BY <1>1, <1>2 DEF RequestSet, Facts
<1>5. CASE /\ clone' = [clone EXCEPT ![s].facts[p] = req[r].facts[p]]
           /\ req' = [req EXCEPT ![r].todo = @ \ {p}]
           /\ UNCHANGED <<sess, budget>>
  <2> DEFINE q == [req[r] EXCEPT !.todo = @ \ {p}]
  <2>1. Only(r) /\ req'[r] = q
    BY <1>5 DEF Only, RequestTypes
  <2>2. /\ q \in RequestSet /\ q.op = "apply" /\ q.pc = "write" /\ q.s = s
        /\ q.todo \subseteq Paths
    BY <1>1, <1>2 DEF RequestSet
  <2> HIDE DEF q
  <2>3. IsRequest(q, created)
    BY <1>1, <2>2 DEF IsRequest, Stage
  <2>4. RequestTypes' /\ Only(r)
    BY <1>1, <2>1, <2>3, Becomes
  <2>5. clone' \in [Sessions -> CloneSet]
    <3>1. clone[s] \in CloneSet /\ [clone[s].facts EXCEPT ![p] = req[r].facts[p]] \in Facts
      BY <1>1, <1>4, FactTypes DEF SessionTypes, CloneSet
    <3>2. [clone[s] EXCEPT !.facts[p] = req[r].facts[p]] \in CloneSet
      BY <3>1 DEF CloneSet
    <3>3. QED  BY <1>1, <1>5, <3>2 DEF SessionTypes, CloneSet
  <2>6. SessionTypes' /\ WorldTypes'
    BY <1>5, <2>5 DEF WriteFact, store, world, ghosts, SessionTypes, CloneSet, WorldTypes
  <2>7. QED  BY <2>4, <2>6
<1>6. CASE Fails(~clone[s].open) /\ ReplayFails(r) /\ UNCHANGED clone
  <2>1. RequestTypes' /\ Only(r)
    BY <1>1, <1>6, ReturnTypes DEF ReplayFails
  <2>2. WorldTypes'
    BY <1>6, FailsTypes DEF WriteFact, store, world, WorldTypes
  <2>3. SessionTypes'
    BY <1>1, <1>6, SetStateTypes, SessTypes DEF ReplayFails, WriteFact, ghosts, SessionTypes, CloneSet
  <2>4. QED  BY <2>1, <2>2, <2>3
<1>7. QED  BY <1>3, <1>5, <1>6

LEMMA AppliedTypes ==
    ASSUME TypeOK, NEW r \in Requests, Applied(r)
    PROVE  TypeOK' /\ Only(r) /\ req'[r] = Idle
<1> USE DEF TypeOK
<1>1. req[r].s \in 1..created /\ req[r].s \in Sessions /\ req[r] \in RequestSet
  BY OfSession DEF Applied, At
<1>2. RequestTypes' /\ Only(r) /\ req'[r] = Idle
  BY ReturnTypes DEF Applied
<1>3. asked' \in [Sessions -> [facts : Facts, with : Strategies]]
  <2>1. [facts |-> req[r].facts, with |-> req[r].with] \in [facts : Facts, with : Strategies]
    BY <1>1 DEF RequestSet
  <2>2. QED  BY <1>1, <2>1 DEF Applied, SessionTypes
<1>4. SessionTypes'
  BY <1>1, <1>3, SetStateTypes, SessTypes DEF Applied, SessionTypes, CloneSet
<1>5. WorldTypes'
  BY DEF Applied, store, world, WorldTypes
<1>6. QED  BY <1>2, <1>4, <1>5

(* A handler that goes on with the store it pins at that point.            *)
LEMMA PinTypes ==
    ASSUME SessionTypes, RequestTypes, WorldTypes, NEW r \in Requests, created' = created,
           req' = [req EXCEPT ![r] = [@ EXCEPT !.pc = "persist", !.pin = gen]],
           req[r].op = "commit"
    PROVE  RequestTypes' /\ Only(r) /\ req'[r] = [req[r] EXCEPT !.pc = "persist", !.pin = gen]
<1> DEFINE q == [req[r] EXCEPT !.pc = "persist", !.pin = gen]
<1>1. Only(r) /\ req'[r] = q
  BY DEF Only, RequestTypes
<1>2. IsRequest(req[r], created) /\ gen \in Nat
  BY DEF RequestTypes, WorldTypes
<1>3. q \in RequestSet /\ q.op = "commit" /\ q.pc = "persist" /\ q.s = req[r].s
  BY <1>2 DEF IsRequest, RequestSet, CommitSteps
<1> HIDE DEF q
<1>4. IsRequest(q, created)
  BY <1>2, <1>3 DEF IsRequest, Stage, CommitSteps
<1>5. QED  BY <1>1, <1>4, Becomes, CreatedNat DEF q

LEMMA CommitOp ==
    ASSUME TypeOK, NEW r \in Requests,
           req[r].pc \in {"ask", "close", "swap", "drain", "copy", "acquire", "persist", "finish"}
    PROVE  req[r].op = "commit" /\ req[r].s \in 1..created /\ req[r].s \in Sessions
BY CommitStages, OfSession DEF TypeOK, RequestTypes

LEMMA CloseCloneTypes ==
    ASSUME TypeOK, NEW r \in Requests, CloseClone(r)
    PROVE  TypeOK' /\ Only(r)
<1> USE DEF TypeOK
<1> DEFINE s == req[r].s
<1>1. req[r].op = "commit" /\ s \in 1..created /\ s \in Sessions /\ created' = created
  BY CommitOp DEF CloseClone
<1>2. RequestTypes' /\ Only(r)
  BY <1>1, PinTypes, GoTypes DEF CloseClone, Stage, CommitSteps
<1>3. OnlySession(s)
  <2>1. sess \in [Sessions -> SessionSet] /\ sess[s] \in SessionSet
    BY <1>1 DEF SessionTypes
  <2>2. sess' = [sess EXCEPT ![s] = [sess[s] EXCEPT !.remoteStore = FALSE]]
    BY <1>1, <2>1 DEF CloseClone
  <2>3. [sess[s] EXCEPT !.remoteStore = FALSE] \in SessionSet
    BY <2>1 DEF SessionSet
  <2>4. sess'[s].url = sess[s].url
    BY <1>1, <2>1, <2>2 DEF SessionSet
  <2>5. QED  BY <1>1, <2>1, <2>2, <2>3, <2>4 DEF OnlySession
<1>4. clone' \in [Sessions -> CloneSet]
  BY <1>1 DEF CloseClone, SessionTypes, CloneSet
<1>5. SessionTypes'
  BY <1>1, <1>3, <1>4, SessTypes DEF CloseClone, ghosts, SessionTypes
<1>6. WorldTypes'
  BY DEF CloseClone, store, world, WorldTypes
<1>7. QED  BY <1>2, <1>5, <1>6

LEMMA AskTypes ==
    ASSUME TypeOK, NEW r \in Requests, Ask(r)
    PROVE  TypeOK' /\ Only(r)
<1> USE DEF TypeOK
<1>1. req[r].op = "commit" /\ created' = created
  BY CommitOp DEF Ask, sessions
<1>2. RequestTypes' /\ Only(r)
  <2>1. PICK pc \in {"close", "swap"} : Return(r) \/ Go(r, pc)
    BY DEF Ask
  <2>2. QED
    BY <1>1, <2>1, ReturnTypes, GoTypes DEF Ask, Stage, CommitSteps
<1>3. WorldTypes'
  BY SpendTypes, FailsTypes DEF Ask, store, world, WorldTypes, Events
<1>4. SessionTypes'
  BY DEF Ask, sessions, SessionTypes
<1>5. QED  BY <1>2, <1>3, <1>4

LEMMA DetachTypes ==
    ASSUME TypeOK, NEW r \in Requests, Detach(r)
    PROVE  TypeOK' /\ Only(r) /\ req'[r].pc = "drain" /\ req'[r].pin = req[r].pin
           /\ req'[r].s = req[r].s
<1> USE DEF TypeOK
<1> DEFINE q == [req[r] EXCEPT !.pc = "drain", !.todo = {gen}]
<1>1. req[r].op = "commit" /\ created' = created /\ IsRequest(req[r], created) /\ gen \in Nat
  BY CommitOp DEF Detach, sessions, RequestTypes, WorldTypes
<1>2. Only(r) /\ req'[r] = q
  BY DEF Detach, Only, RequestTypes
<1>3. /\ q \in RequestSet /\ q.op = "commit" /\ q.pc = "drain" /\ q.s = req[r].s
      /\ q.pin = req[r].pin
  BY <1>1 DEF IsRequest, RequestSet, CommitSteps
<1> HIDE DEF q
<1>4. IsRequest(q, created)
  BY <1>1, <1>3 DEF IsRequest, Stage, CommitSteps
<1>5. RequestTypes'
  BY <1>1, <1>2, <1>4, Becomes, CreatedNat
<1>6. WorldTypes' /\ SessionTypes'
  BY DEF Detach, world, sessions, ghosts, WorldTypes, SessionTypes
<1>7. QED  BY <1>2, <1>3, <1>5, <1>6

LEMMA DrainTypes ==
    ASSUME TypeOK, NEW r \in Requests, Drain(r)
    PROVE  TypeOK' /\ Only(r) /\ req'[r].pc = "copy" /\ req'[r].pin = req[r].pin
           /\ req'[r].s = req[r].s
<1> USE DEF TypeOK
<1> DEFINE q == [req[r] EXCEPT !.pc = "copy", !.todo = {}]
<1>1. req[r].op = "commit" /\ created' = created /\ IsRequest(req[r], created)
  BY CommitOp DEF Drain, sessions, RequestTypes
<1>2. Only(r) /\ req'[r] = q
  BY DEF Drain, Only, RequestTypes
<1>3. /\ q \in RequestSet /\ q.op = "commit" /\ q.pc = "copy" /\ q.s = req[r].s
      /\ q.pin = req[r].pin
  BY <1>1 DEF IsRequest, RequestSet, CommitSteps
<1> HIDE DEF q
<1>4. IsRequest(q, created)
  BY <1>1, <1>3 DEF IsRequest, Stage, CommitSteps
<1>5. RequestTypes'
  BY <1>1, <1>2, <1>4, Becomes, CreatedNat
<1>6. WorldTypes' /\ SessionTypes'
  BY DEF Drain, store, world, sessions, ghosts, WorldTypes, SessionTypes
<1>7. QED  BY <1>2, <1>3, <1>5, <1>6

LEMMA CopyTypes ==
    ASSUME TypeOK, NEW r \in Requests, Copy(r)
    PROVE  TypeOK' /\ Only(r)
<1> USE DEF TypeOK
<1>1. /\ req[r].op = "commit" /\ req[r].s \in Sessions /\ created' = created
      /\ sess[req[r].s].url \in Urls
  BY CommitOp, OfSession DEF Copy, sessions
<1>2. RequestTypes' /\ Only(r)
  BY <1>1, ReturnTypes, GoTypes DEF Copy, SwapFails, Stage, CommitSteps
<1>3. WorldTypes'
  BY <1>1, FailsTypes DEF Copy, Attach, world, WorldTypes, SessionTypes
<1>4. SessionTypes'
  BY DEF Copy, sessions, SessionTypes
<1>5. QED  BY <1>2, <1>3, <1>4

LEMMA AcquireSwappedTypes ==
    ASSUME TypeOK, NEW r \in Requests, AcquireSwapped(r)
    PROVE  TypeOK' /\ Only(r)
<1> USE DEF TypeOK
<1>1. req[r].op = "commit" /\ created' = created
  BY CommitOp DEF AcquireSwapped, sessions
<1>2. RequestTypes' /\ Only(r)
  BY <1>1, PinTypes DEF AcquireSwapped
<1>3. WorldTypes' /\ SessionTypes'
  BY DEF AcquireSwapped, store, world, sessions, ghosts, WorldTypes, SessionTypes
<1>4. QED  BY <1>2, <1>3

LEMMA PersistOriginTypes ==
    ASSUME TypeOK, NEW r \in Requests, PersistOrigin(r)
    PROVE  TypeOK' /\ Only(r)
<1> USE DEF TypeOK
<1>1. req[r].op = "commit" /\ created' = created /\ sess[req[r].s].url \in Urls
  BY CommitOp, OfSession DEF PersistOrigin, sessions
<1>2. RequestTypes' /\ Only(r)
  BY <1>1, ReturnTypes, GoTypes DEF PersistOrigin, Stage, CommitSteps
<1>3. WorldTypes'
  BY <1>1, FailsTypes DEF PersistOrigin, store, WorldTypes
<1>4. SessionTypes'
  BY DEF PersistOrigin, sessions, SessionTypes
<1>5. QED  BY <1>2, <1>3, <1>4

LEMMA FinishTypes ==
    ASSUME TypeOK, NEW r \in Requests, Finish(r)
    PROVE  TypeOK' /\ Only(r)
<1> USE DEF TypeOK
<1>1. req[r].op = "commit" /\ created' = created /\ req[r].s \in 1..created
  BY CommitOp DEF Finish
<1>2. RequestTypes' /\ Only(r)
  BY <1>1, ReturnTypes, GoTypes DEF Finish, Stage, CommitSteps
<1>3. SessionTypes'
  BY <1>1, SetStateTypes, SessTypes DEF Finish, ghosts, SessionTypes, CloneSet
<1>4. WorldTypes'
  BY DEF Finish, store, world, WorldTypes
<1>5. QED  BY <1>2, <1>3, <1>4

LEMMA WriteTypes ==
    ASSUME TypeOK, NEW p \in Paths, Write(p) PROVE TypeOK' /\ UNCHANGED req
<1> USE DEF TypeOK
<1>1. PICK v \in {budget["world"], NoFact} : local' = [local EXCEPT !.facts[p] = v]
  BY DEF Write
<1>2. v \in Versions \cup {NoFact}
  BY BudgetAssumption DEF WorldTypes, Versions, Events
<1>3. local' \in [facts : Facts, kb : Urls \cup {Own}]
  BY <1>1, <1>2, FactTypes DEF WorldTypes
<1>4. WorldTypes'
  BY <1>3, SpendTypes DEF Write, world, WorldTypes, Events
<1>5. SessionTypes' /\ RequestTypes'
  BY DEF Write, sessions, ghosts, SessionTypes, RequestTypes
<1>6. QED  BY <1>4, <1>5 DEF Write

LEMMA OtherTakesTypes ==
    ASSUME TypeOK, NEW u \in Urls, OtherTakes(u) PROVE TypeOK' /\ UNCHANGED req
<1> USE DEF TypeOK
<1>1. WorldTypes'
  BY SpendTypes DEF OtherTakes, store, WorldTypes, Events
<1>2. SessionTypes' /\ RequestTypes'
  BY DEF OtherTakes, sessions, SessionTypes, RequestTypes
<1>3. QED  BY <1>1, <1>2 DEF OtherTakes

LEMMA CrashTypes ==
    ASSUME TypeOK, Crash PROVE TypeOK' /\ \A r \in Requests : req'[r] = Idle
<1> USE DEF TypeOK
<1>1. RequestTypes' /\ \A r \in Requests : req'[r] = Idle
  BY IdleRequest DEF Crash, RequestTypes
<1>2. WorldTypes'
  BY SpendTypes DEF Crash, Attach, world, WorldTypes, Events
<1>3. clone' \in [Sessions -> CloneSet]
  BY DEF Crash, SessionTypes, CloneSet
<1>4. SessionTypes'
  BY <1>3 DEF Crash, SessionTypes, CloneSet
<1>5. QED  BY <1>1, <1>2, <1>4

LEMMA InitTypes == Init => TypeOK
<1> SUFFICES ASSUME Init PROVE TypeOK
  OBVIOUS
<1>1. NoClone.facts \in Facts
  BY DEF NoClone, Facts
<1>2. local \in [facts : Facts, kb : Urls \cup {Own}]
  BY HomeAssumption DEF Init
<1>3. WorldTypes
  BY <1>2, BudgetAssumption DEF Init, WorldTypes
<1>4. Unborn \in SessionSet /\ NoClone \in [cloned : BOOLEAN, open : BOOLEAN, facts : Facts]
  BY <1>1 DEF Unborn, SessionSet, NoClone
<1>5. asked \in [Sessions -> [facts : Facts, with : Strategies]]
  BY <1>1 DEF Init, Strategies
<1>6. SessionTypes
  BY <1>4, <1>5, SessionAssumption DEF Init, SessionTypes, Sessions
<1>7. RequestTypes
  BY IdleRequest DEF Init, RequestTypes
<1>8. QED  BY <1>3, <1>6, <1>7 DEF TypeOK

LEMMA StepTypes ==
    ASSUME TypeOK, NEW r \in Requests, Arrive(r) \/ Step(r) PROVE TypeOK' /\ Only(r)
<1>1. CASE StartDelete(r)
  <2>1. current \in Sessions
    BY <1>1, SessionAssumption DEF StartDelete, TypeOK, SessionTypes, Sessions
  <2>2. QED  BY <1>1, <2>1, StartTypes
<1>2. CASE Arrive(r) /\ ~StartDelete(r)
  BY <1>2, StartCreateTypes, StartTypes DEF Arrive
<1>3. CASE Step(r)
  BY <1>3, StoreSessionTypes, EvictTypes, CloneTypes, AnalyzeTypes, CompareTypes, ReplayTypes,
     WriteFactTypes, AppliedTypes, CloseCloneTypes, AskTypes, DetachTypes, DrainTypes, CopyTypes,
     AcquireSwappedTypes, PersistOriginTypes, FinishTypes DEF Step
<1>4. QED  BY <1>1, <1>2, <1>3

LEMMA NextTypes ==
    ASSUME TypeOK, [Next]_vars PROVE TypeOK'
<1>1. CASE UNCHANGED vars
  BY <1>1 DEF vars, store, world, sessions, ghosts, TypeOK, WorldTypes, SessionTypes, RequestTypes
<1>2. QED
  BY <1>1, StepTypes, WriteTypes, OtherTakesTypes, CrashTypes DEF Next

(* Sessions, clones, directories and requests are of the declared kinds,   *)
(* and every handler is on behalf of a session and at a step of its own    *)
(* operation.                                                              *)
THEOREM TypeCorrect == Spec => []TypeOK
BY InitTypes, NextTypes, PTL DEF Spec

-----------------------------------------------------------------------------
(* What a request is at after it has arrived or gone on.                   *)

LEMMA Begun ==
    ASSUME NEW r \in Requests, RequestTypes, NEW op, NEW pc, NEW s, Begin(r, op, pc, s)
    PROVE  /\ req[r] = Idle /\ req'[r].op = op /\ req'[r].pc = pc /\ req'[r].s = s
           /\ req'[r].pin = PinFor(op)
<1>1. req'[r] = [Idle EXCEPT !.op = op, !.pc = pc, !.s = s, !.pin = PinFor(op)] /\ req[r] = Idle
  BY DEF Begin, RequestTypes
<1>2. QED  BY <1>1 DEF Idle

LEMMA Arrived ==
    ASSUME TypeOK, NEW r \in Requests, Arrive(r)
    PROVE  /\ req[r] = Idle /\ req'[r].pin = PinFor(req'[r].op)
           /\ \/ /\ StartCreate(r) /\ req'[r].op = "create" /\ req'[r].pc = "store"
                 /\ req'[r].s = created + 1
              \/ /\ StartDelete(r) /\ req'[r].op = "delete" /\ req'[r].pc = "evict"
                 /\ req'[r].s = current
              \/ \E s \in Sessions :
                   /\ s = current /\ req'[r].s = s
                   /\ \/ StartTest(r, s) /\ req'[r].op = "test" /\ req'[r].pc = "clone"
                      \/ StartPreview(r, s) /\ req'[r].op = "preview" /\ req'[r].pc = "compare"
                      \/ /\ StartApply(r, s) /\ req'[r].op = "apply"
                         /\ req'[r].pc = IF sess[s].history = "shared" THEN "done" ELSE "replay"
                      \/ /\ StartCommit(r, s) /\ req'[r].op = "commit"
                         /\ req'[r].pc = IF sess[s].history = "shared" THEN "ask" ELSE "close"
<1>1. CASE StartCreate(r)
  <2>1. created' = created + 1 /\ Begin(r, "create", "store", created + 1)
    BY <1>1 DEF StartCreate
  <2>2. QED  BY <1>1, <2>1, Begun DEF TypeOK
<1>2. CASE StartDelete(r)
  BY <1>2, Begun DEF StartDelete, TypeOK
<1>3. ASSUME NEW s \in Sessions, StartTest(r, s) PROVE
        s = current /\ req[r] = Idle /\ req'[r].s = s /\ req'[r].op = "test" /\ req'[r].pc = "clone"
        /\ req'[r].pin = PinFor("test")
  BY <1>3, Begun DEF StartTest, Get, TypeOK
<1>4. ASSUME NEW s \in Sessions, StartPreview(r, s) PROVE
        s = current /\ req[r] = Idle /\ req'[r].s = s /\ req'[r].op = "preview" /\ req'[r].pc = "compare"
        /\ req'[r].pin = PinFor("preview")
  BY <1>4, Begun DEF StartPreview, Get, TypeOK
<1>5. ASSUME NEW s \in Sessions, StartApply(r, s) PROVE
        s = current /\ req[r] = Idle /\ req'[r].s = s /\ req'[r].op = "apply"
        /\ req'[r].pc = (IF sess[s].history = "shared" THEN "done" ELSE "replay")
        /\ req'[r].pin = PinFor("apply")
  BY <1>5, Begun DEF StartApply, Get, TypeOK
<1>6. ASSUME NEW s \in Sessions, StartCommit(r, s) PROVE
        s = current /\ req[r] = Idle /\ req'[r].s = s /\ req'[r].op = "commit"
        /\ req'[r].pc = (IF sess[s].history = "shared" THEN "ask" ELSE "close")
        /\ req'[r].pin = PinFor("commit")
  BY <1>6, Begun DEF StartCommit, Get, TypeOK
<1>7. QED
  BY <1>1, <1>2, <1>3, <1>4, <1>5, <1>6 DEF Arrive

LEMMA Went ==
    ASSUME TypeOK, NEW r \in Requests, NEW pc, Go(r, pc)
    PROVE  /\ req'[r].pc = pc /\ req'[r].op = req[r].op /\ req'[r].s = req[r].s
           /\ req'[r].pin = req[r].pin /\ req'[r].todo = req[r].todo
<1>1. req[r] \in RequestSet /\ req'[r] = [req[r] EXCEPT !.pc = pc]
  BY DEF Go, TypeOK, RequestTypes, IsRequest
<1>2. QED  BY <1>1 DEF RequestSet

LEMMA Returned ==
    ASSUME TypeOK, NEW r \in Requests, Return(r)
    PROVE  req'[r] = Idle /\ req'[r].op = "none" /\ req'[r].pc = "idle" /\ req'[r].s = NoSession
BY DEF Return, Idle, TypeOK, RequestTypes

(* What a request is at decides which step it can take.                    *)
LEMMA Stepped ==
    ASSUME TypeOK, NEW r \in Requests, Step(r)
    PROVE  /\ req[r].pc # "idle"
           /\ req[r].op \notin {"commit", "apply"} => req'[r].op \notin {"commit", "apply"}
           /\ req[r].op = "apply" => req'[r].op # "commit"
           /\ req'[r].op = "create" => FALSE
           /\ req'[r].op # "none" => req'[r].op = req[r].op /\ req'[r].s = req[r].s
<1>1. CASE StoreSession(r) \/ Delete(r) \/ Compare(r) \/ Analyze(r) \/ Applied(r) \/ EndSession(r)
  BY <1>1, Returned, EvictTypes
     DEF StoreSession, Delete, Compare, Analyze, Applied, EndSession, At
<1>2. CASE Clone(r)
  BY <1>2, Returned, Went DEF Clone, At
<1>3. CASE Replay(r)
  <2>1. req[r].op = "apply" /\ req[r].pc = "replay" /\ req[r] \in RequestSet
    BY <1>3 DEF Replay, At, TypeOK, RequestTypes, IsRequest
  <2>2. req'[r].op \in {"none", "apply"} /\ (req'[r].op # "none" => req'[r].s = req[r].s)
    <3>1. CASE Return(r)
      BY <3>1, Returned
    <3>2. CASE ~Return(r)
      <4>1. PICK w \in Strategies :
              req' = [req EXCEPT ![r] = [@ EXCEPT !.pc = "write", !.with = w, !.facts = local.facts,
                         !.todo = {p \in Paths : /\ local.facts[p] # NoFact
                                                 /\ w = "local_wins" \/ BaseOf(req[r].s)[p] = NoFact}]]
        BY <1>3, <3>2 DEF Replay, ReplayFails
      <4>2. req'[r].op = req[r].op /\ req'[r].s = req[r].s
        BY <2>1, <4>1 DEF TypeOK, RequestTypes, RequestSet
      <4>3. QED  BY <2>1, <4>2
    <3>3. QED  BY <3>1, <3>2
  <2>3. QED  BY <2>1, <2>2
<1>4. CASE WriteFact(r)
  <2>1. req[r].op = "apply" /\ req[r].pc = "write" /\ req[r] \in RequestSet
    BY <1>4 DEF WriteFact, At, TypeOK, RequestTypes, IsRequest
  <2>2. req'[r].op \in {"none", "apply"} /\ (req'[r].op # "none" => req'[r].s = req[r].s)
    <3>1. CASE Return(r)
      BY <3>1, Returned
    <3>2. CASE ~Return(r)
      BY <1>4, <2>1, <3>2 DEF WriteFact, ReplayFails, RequestSet, TypeOK, RequestTypes
    <3>3. QED  BY <3>1, <3>2
  <2>3. QED  BY <2>1, <2>2
<1>5. CASE CloseClone(r) \/ Ask(r) \/ Detach(r) \/ Drain(r) \/ Copy(r) \/ AcquireSwapped(r)
           \/ PersistOrigin(r) \/ Finish(r)
  <2>1. /\ req[r].op = "commit" /\ req[r].pc # "idle" /\ req[r] \in RequestSet
    BY <1>5, CommitOp DEF CloseClone, Ask, Detach, Drain, Copy, AcquireSwapped, PersistOrigin, Finish,
       TypeOK, RequestTypes, IsRequest
  <2>2. req'[r].op \in {"none", "commit"} /\ (req'[r].op # "none" => req'[r].s = req[r].s)
    <3>1. CASE Return(r)
      BY <3>1, Returned
    <3>2. ASSUME NEW pc, Go(r, pc) PROVE req'[r].op = "commit" /\ req'[r].s = req[r].s
      BY <2>1, <3>2, Went
    <3>3. CASE \/ req' = [req EXCEPT ![r] = [@ EXCEPT !.pc = "persist", !.pin = gen]]
               \/ req' = [req EXCEPT ![r] = [@ EXCEPT !.pc = "drain", !.todo = {gen}]]
               \/ req' = [req EXCEPT ![r] = [@ EXCEPT !.pc = "copy", !.todo = {}]]
      BY <2>1, <3>3 DEF RequestSet, TypeOK, RequestTypes
    <3>4. QED
      BY <1>5, <3>1, <3>2, <3>3 DEF CloseClone, Ask, Detach, Drain, Copy, SwapFails, AcquireSwapped,
         PersistOrigin, Finish
  <2>3. QED  BY <2>1, <2>2
<1>6. QED  BY <1>1, <1>2, <1>3, <1>4, <1>5 DEF Step

-----------------------------------------------------------------------------
(* No circular wait: a commit has nothing pinned until its swap is done.   *)

Swapping == {"ask", "close", "swap", "drain", "copy", "acquire"}

HoldsNothing == \A r \in Requests : req[r].pc \in Swapping => req[r].pin = 0

LEMMA HoldsNext ==
    ASSUME TypeOK, HoldsNothing, [Next]_vars PROVE HoldsNothing'
<1>1. ASSUME NEW r \in Requests, Arrive(r) PROVE req'[r].pc \in Swapping => req'[r].pin = 0
  BY <1>1, Arrived DEF Swapping, PinFor
<1>2. ASSUME NEW r \in Requests, Step(r) PROVE req'[r].pc \in Swapping => req'[r].pin = 0
  <2> SUFFICES ASSUME req'[r].pc \in Swapping PROVE req'[r].pin = 0
    OBVIOUS
  <2>1. ~Return(r)
    BY Returned DEF Swapping
  <2>2. CASE CloseClone(r)
    <3>1. req[r].pin = 0
      BY <2>2 DEF CloseClone, HoldsNothing, Swapping
    <3>2. CASE Go(r, "ask")
      BY <3>1, <3>2, Went
    <3>3. CASE req' = [req EXCEPT ![r] = [@ EXCEPT !.pc = "persist", !.pin = gen]]
      BY <3>3 DEF Swapping, TypeOK, RequestTypes, IsRequest, RequestSet
    <3>4. QED  BY <2>2, <3>2, <3>3 DEF CloseClone
  <2>3. CASE Ask(r)
    BY <2>1, <2>3, Went DEF Ask, HoldsNothing, Swapping
  <2>4. CASE Detach(r) \/ Drain(r)
    BY <2>4, DetachTypes, DrainTypes DEF Detach, Drain, HoldsNothing, Swapping
  <2>5. CASE Copy(r)
    BY <2>1, <2>5, Went DEF Copy, SwapFails, HoldsNothing, Swapping
  <2>6. CASE AcquireSwapped(r)
    BY <2>6 DEF AcquireSwapped, Swapping, TypeOK, RequestTypes, IsRequest, RequestSet
  <2>7. CASE PersistOrigin(r) \/ Finish(r) \/ Clone(r)
    BY <2>1, <2>7, Went DEF PersistOrigin, Finish, Clone, Swapping
  <2>8. CASE Replay(r) \/ WriteFact(r)
    <3>1. req[r].op = "apply" /\ req'[r].op \in {"none", "apply"}
      BY <2>8, Stepped DEF Step, Replay, WriteFact, At
    <3>2. req'[r].op = "commit"
      BY <2>8, StepTypes, CommitStages DEF Step, Swapping, TypeOK, RequestTypes
    <3>3. QED  BY <3>1, <3>2
  <2>9. QED
    BY <1>2, <2>1, <2>2, <2>3, <2>4, <2>5, <2>6, <2>7, <2>8
    DEF Step, StoreSession, Delete, Analyze, Compare, Applied, EndSession
<1>3. ASSUME NEW r \in Requests, Arrive(r) \/ Step(r) PROVE HoldsNothing'
  BY <1>1, <1>2, <1>3, StepTypes DEF Only, HoldsNothing
<1>4. CASE Crash
  BY <1>4, CrashTypes DEF HoldsNothing, Idle, Swapping
<1>5. CASE UNCHANGED req
  BY <1>5 DEF HoldsNothing
<1>6. QED
  BY <1>3, <1>4, <1>5, WriteTypes, OtherTakesTypes DEF Next, vars

LEMMA HoldsInit == Init => HoldsNothing
BY DEF Init, HoldsNothing, Idle, Swapping

(* No handler waits for ever for another that waits for it: whom a swap    *)
(* waits for is never itself in a swap that waits.                         *)
THEOREM NoCircularWaitCorrect == Spec => []NoCircularWait
<1>1. TypeOK /\ HoldsNothing => NoCircularWait
  BY DEF HoldsNothing, NoCircularWait, Swapping
<1>2. QED
  BY <1>1, InitTypes, NextTypes, HoldsInit, HoldsNext, PTL DEF Spec

-----------------------------------------------------------------------------
(* The directories.                                                        *)

LEMMA DirsNext ==
    ASSUME TypeOK, DirsAreTracked, [Next]_vars PROVE DirsAreTracked'
<1> USE DEF DirsAreTracked
<1>1. ASSUME NEW r \in Requests, StartCreate(r) PROVE DirsAreTracked'
  BY <1>1 DEF StartCreate, DeleteByRepo, ghosts
<1>2. ASSUME NEW r \in Requests, StoreSession(r) PROVE DirsAreTracked'
  <2>1. req[r].s # NoSession
    BY <1>2, OfSession, NoValueAssumption DEF StoreSession, At
  <2>2. NoSession \notin dirs
    <3>1. dirs \subseteq 1..created /\ created \in 0..MaxSession
      BY DEF TypeOK, SessionTypes
    <3>2. 1..created \subseteq Sessions
      BY <3>1, SessionAssumption DEF Sessions
    <3>3. QED  BY <3>1, <3>2, NoValueAssumption
  <2>3. CASE UNCHANGED <<current, dirs, sess, strays>>
    BY <2>3
  <2>4. CASE /\ current' = req[r].s /\ dirs' = dirs \cup {req[r].s}
             /\ strays' = IF current = NoSession THEN strays ELSE strays \cup {current}
    BY <2>1, <2>2, <2>4
  <2>5. QED  BY <1>2, <2>3, <2>4 DEF StoreSession
<1>3. ASSUME NEW r \in Requests, Delete(r) \/ EndSession(r) PROVE DirsAreTracked'
  BY <1>3 DEF Delete, EndSession, Evict
<1>4. CASE Crash
  BY <1>4 DEF Crash
<1>5. CASE UNCHANGED <<dirs, current, strays>>
  BY <1>5
<1>6. ASSUME NEW r \in Requests, Arrive(r), ~StartCreate(r) PROVE UNCHANGED <<dirs, current, strays>>
  BY <1>6 DEF Arrive, StartDelete, StartTest, StartPreview, StartApply, StartCommit, sessions, ghosts
<1>7. ASSUME NEW r \in Requests, Step(r), ~(StoreSession(r) \/ Delete(r) \/ EndSession(r))
      PROVE  UNCHANGED <<dirs, current, strays>>
  BY <1>7 DEF Step, Clone, Analyze, Compare, Replay, WriteFact, Applied, CloseClone, Ask, Detach, Drain,
     Copy, AcquireSwapped, PersistOrigin, Finish, sessions, ghosts
<1>8. ASSUME (\E p \in Paths : Write(p)) \/ (\E u \in Urls : OtherTakes(u)) \/ UNCHANGED vars
      PROVE  UNCHANGED <<dirs, current, strays>>
  BY <1>8 DEF Write, OtherTakes, vars, sessions, ghosts
<1>9. QED
  BY <1>1, <1>2, <1>3, <1>4, <1>5, <1>6, <1>7, <1>8 DEF Next

(* The directory of every session but the current one is gone, short of a  *)
(* lost race in the map of sessions or a crash.                            *)
THEOREM DirsCorrect == Spec => []DirsAreTracked
<1>1. Init => DirsAreTracked
  BY DEF Init, DirsAreTracked
<1>2. QED
  BY <1>1, InitTypes, NextTypes, DirsNext, PTL DEF Spec

-----------------------------------------------------------------------------
(* What a session has been compared with is decided once.                  *)

LEMMA SessionsKeep ==
    ASSUME TypeOK, [Next]_vars, NEW s \in 1..created
    PROVE  /\ sess'[s].url = sess[s].url
           /\ (\A r \in Requests : ~(Analyze(r) /\ req[r].s = s)) =>
                sess'[s].history = sess[s].history
<1>1. s \in Sessions /\ created \in Nat /\ s # created + 1
  BY SessionAssumption, CreatedNat DEF TypeOK, SessionTypes, Sessions
<1>2. CASE UNCHANGED sess
  BY <1>2
<1>3. ASSUME NEW d \in 1..created, NEW st, SetState(d, st),
             st \in {"created", "tested", "previewed", "applied", "committed", "error"}
      PROVE  sess'[s].url = sess[s].url /\ sess'[s].history = sess[s].history
  BY <1>1, <1>3, SetStateTypes DEF OnlySession, TypeOK
<1>4. ASSUME NEW r \in Requests, StartCreate(r) PROVE sess'[s] = sess[s]
  BY <1>1, <1>4 DEF StartCreate, TypeOK, SessionTypes
<1>5. ASSUME NEW r \in Requests, CloseClone(r)
      PROVE  sess'[s].url = sess[s].url /\ sess'[s].history = sess[s].history
  <2>1. sess[req[r].s] \in SessionSet /\ req[r].s \in Sessions
    BY <1>5, CommitOp DEF CloseClone, TypeOK, SessionTypes
  <2>2. sess' = [sess EXCEPT ![req[r].s] = [sess[req[r].s] EXCEPT !.remoteStore = FALSE]]
    BY <1>5 DEF CloseClone
  <2>3. QED  BY <1>1, <2>1, <2>2 DEF SessionSet, TypeOK, SessionTypes
<1>6. ASSUME NEW r \in Requests, Analyze(r) PROVE
        sess'[s].url = sess[s].url /\ (req[r].s # s => sess'[s].history = sess[s].history)
  BY <1>1, <1>6, AnalyzeTypes DEF OnlySession
<1>7. ASSUME NEW r \in Requests, Arrive(r), ~StartCreate(r) PROVE UNCHANGED sess
  BY <1>7 DEF Arrive, StartDelete, StartTest, StartPreview, StartApply, StartCommit, sessions
<1>8. ASSUME NEW r \in Requests, Step(r), ~CloseClone(r), ~Analyze(r)
      PROVE  UNCHANGED sess \/ \E st \in {"created", "tested", "previewed", "applied", "committed", "error"} :
               SetState(req[r].s, st)
  BY <1>8 DEF Step, StoreSession, Delete, Clone, Compare, Replay, ReplayFails, WriteFact, Applied, Ask,
     Detach, Drain, Copy, AcquireSwapped, PersistOrigin, Finish, EndSession, sessions
<1>9. ASSUME NEW r \in Requests, Step(r) PROVE req[r].s \in 1..created
  BY <1>9, Stepped, OfSession
<1>10. ASSUME (\E p \in Paths : Write(p)) \/ (\E u \in Urls : OtherTakes(u)) \/ Crash \/ UNCHANGED vars
       PROVE  UNCHANGED sess
  BY <1>10 DEF Write, OtherTakes, Crash, vars, sessions
<1>11. ASSUME NEW r \in Requests, Arrive(r)
       PROVE  sess'[s].url = sess[s].url /\ sess'[s].history = sess[s].history
  BY <1>4, <1>7, <1>11
<1>12. ASSUME NEW r \in Requests, Step(r)
       PROVE  sess'[s].url = sess[s].url /\ (~(Analyze(r) /\ req[r].s = s) => sess'[s].history = sess[s].history)
  <2>1. CASE CloseClone(r) \/ Analyze(r)
    BY <1>5, <1>6, <2>1
  <2>2. CASE ~CloseClone(r) /\ ~Analyze(r)
    BY <1>3, <1>8, <1>9, <1>12, <2>2
  <2>3. QED  BY <2>1, <2>2
<1>13. QED
  BY <1>10, <1>11, <1>12 DEF Next

-----------------------------------------------------------------------------
(* One live copy: what the last question found, and what changed since.    *)

Swaps(r) == req[r].pc \in {"swap", "drain", "copy"}

SwapsAsked ==
    \A r \in Requests : Swaps(r) /\ sess[req[r].s].url \in held => sess[req[r].s].url \in late

LEMMA SwapsFrom ==
    ASSUME TypeOK, NEW r \in Requests, Arrive(r) \/ Step(r), Swaps(r)'
    PROVE  /\ (Ask(r) /\ Go(r, "swap")) \/ Swaps(r)
           /\ Step(r) /\ req'[r].s = req[r].s /\ req[r].s \in 1..created
           /\ req[r].op = "commit"
<1>1. ~Arrive(r)
  BY Arrived DEF Swaps
<1>2. Step(r) /\ ~Return(r)
  BY <1>1, Returned DEF Swaps
<1>3. req'[r].op = "commit"
  BY StepTypes, CommitStages DEF Swaps, TypeOK, RequestTypes
<1>4. req'[r].s = req[r].s /\ req[r].op = "commit" /\ req[r].s \in 1..created
  BY <1>2, <1>3, Stepped, OfSession
<1>5. (Ask(r) /\ Go(r, "swap")) \/ Swaps(r)
  <2>1. CASE CloseClone(r)
    <3>1. CASE Go(r, "ask")
      BY <3>1, Went DEF Swaps
    <3>2. CASE req' = [req EXCEPT ![r] = [@ EXCEPT !.pc = "persist", !.pin = gen]]
      BY <3>2 DEF Swaps, TypeOK, RequestTypes, IsRequest, RequestSet
    <3>3. QED  BY <2>1, <3>1, <3>2 DEF CloseClone
  <2>2. CASE Ask(r)
    BY <1>2, <2>2, Went DEF Ask, Swaps
  <2>3. CASE Detach(r) \/ Drain(r) \/ Copy(r)
    BY <2>3 DEF Detach, Drain, Copy, Swaps
  <2>4. CASE AcquireSwapped(r)
    BY <2>4 DEF AcquireSwapped, Swaps, TypeOK, RequestTypes, IsRequest, RequestSet
  <2>5. CASE PersistOrigin(r) \/ Finish(r)
    BY <1>2, <2>5, Went DEF PersistOrigin, Finish, Swaps
  <2>6. CASE Clone(r) \/ Replay(r) \/ WriteFact(r)
    BY <1>4, <2>6 DEF Clone, Replay, WriteFact, At
  <2>7. QED
    BY <1>2, <2>1, <2>2, <2>3, <2>4, <2>5, <2>6
    DEF Step, StoreSession, Delete, Analyze, Compare, Applied, EndSession
<1>6. QED  BY <1>2, <1>4, <1>5

(* Who takes knowledge bases, and who records that it was late.            *)
LEMMA HeldKeeps ==
    ASSUME [Next]_vars
    PROVE  /\ held' = held \/ \E u \in Urls : OtherTakes(u)
           /\ late \subseteq late'
           /\ local'.kb = local.kb \/ \E r \in Requests : Copy(r)
<1>1. ASSUME NEW r \in Requests, Arrive(r)
      PROVE  UNCHANGED <<held, late, local>>
  BY <1>1 DEF Arrive, StartCreate, StartDelete, StartTest, StartPreview, StartApply, StartCommit,
     world, store, ghosts
<1>2. ASSUME NEW r \in Requests, Step(r), ~Copy(r)
      PROVE  held' = held /\ late \subseteq late' /\ local' = local
  BY <1>2 DEF Step, StoreSession, Delete, Clone, Analyze, Compare, Replay, WriteFact, Applied, CloseClone,
     Ask, Detach, Drain, AcquireSwapped, PersistOrigin, Finish, EndSession, world, store, ghosts
<1>3. ASSUME NEW r \in Requests, Copy(r) PROVE held' = held /\ late' = late
  BY <1>3 DEF Copy, world
<1>4. ASSUME NEW p \in Paths, Write(p) PROVE held' = held /\ late' = late /\ local'.kb = local.kb
  <2>1. PICK v : local' = [local EXCEPT !.facts[p] = v]
    BY <1>4 DEF Write
  <2>2. QED  BY <1>4, <2>1 DEF Write, world, ghosts
<1>5. ASSUME NEW u \in Urls, OtherTakes(u) PROVE late \subseteq late' /\ local' = local
  BY <1>5 DEF OtherTakes, store
<1>6. ASSUME Crash \/ UNCHANGED vars PROVE UNCHANGED <<held, late, local>>
  BY <1>6 DEF Crash, vars, world, store, ghosts
<1>7. QED  BY <1>1, <1>2, <1>3, <1>4, <1>5, <1>6 DEF Next

LEMMA OneCopyNext ==
    ASSUME TypeOK, OneCopy, SwapsAsked, [Next]_vars PROVE OneCopy' /\ SwapsAsked'
<1>1. ASSUME NEW u \in Urls, OtherTakes(u) PROVE OneCopy' /\ SwapsAsked'
  BY <1>1 DEF OtherTakes, OneCopy, SwapsAsked, Swaps, store, sessions
<1>2. ASSUME held' = held PROVE SwapsAsked'
  <2> SUFFICES ASSUME NEW r \in Requests, Swaps(r)', sess'[req'[r].s].url \in held
               PROVE  sess'[req'[r].s].url \in late'
    BY <1>2 DEF SwapsAsked, Swaps
  <2>1. CASE Arrive(r) \/ Step(r)
    <3>1. sess'[req'[r].s].url = sess[req[r].s].url
      BY <2>1, SwapsFrom, SessionsKeep
    <3>2. CASE Swaps(r)
      BY <3>1, <3>2, HeldKeeps DEF SwapsAsked
    <3>3. CASE Ask(r) /\ Go(r, "swap")
      <4>1. ~Return(r)
        BY <3>3, Returned, Went
      <4>2. late' = late \cup {sess[req[r].s].url} \/ ~HeldByAnother(sess[req[r].s].url)
        <5>1. req'[r].pc = "swap"
          BY <3>3, Went
        <5>2. sess[req[r].s].history = "shared" =>
                 \A pc : Go(r, IF sess[req[r].s].history = "shared" THEN "close" ELSE "swap") => FALSE
          BY <5>1, Went
        <5>3. QED  BY <3>3, <4>1, <5>2 DEF Ask
      <4>3. QED  BY <3>1, <4>2 DEF HeldByAnother
    <3>4. QED  BY <2>1, <3>2, <3>3, SwapsFrom
  <2>2. CASE req'[r] = req[r]
    <3>1. req[r].s \in 1..created /\ Swaps(r)
      BY <2>2, OfSession DEF Swaps
    <3>2. QED  BY <2>2, <3>1, SessionsKeep, HeldKeeps DEF SwapsAsked
  <2>3. CASE Crash
    BY <2>3, CrashTypes DEF Swaps, Idle
  <2>4. QED
    BY <2>1, <2>2, <2>3, StepTypes, WriteTypes, OtherTakesTypes DEF Next, Only, vars
<1>3. ASSUME held' = held PROVE OneCopy'
  <2>1. CASE local'.kb = local.kb
    BY <1>3, <2>1, HeldKeeps DEF OneCopy
  <2>2. ASSUME NEW r \in Requests, Copy(r), local'.kb # local.kb PROVE OneCopy'
    <3>1. local'.kb = sess[req[r].s].url /\ late' = late
      BY <2>2 DEF Copy
    <3>2. QED
      BY <1>3, <2>2, <3>1 DEF Copy, SwapsAsked, Swaps, OneCopy
  <2>3. QED  BY <2>1, <2>2, HeldKeeps
<1>4. QED  BY <1>1, <1>2, <1>3, HeldKeeps

(* A knowledge base that another repository held when the commit asked for *)
(* the last time is not taken over.                                        *)
THEOREM OneCopyCorrect == Spec => []OneCopy
<1>1. Init => OneCopy /\ SwapsAsked
  BY DEF Init, OneCopy, SwapsAsked
<1>2. QED
  BY <1>1, InitTypes, NextTypes, OneCopyNext, PTL DEF Spec

-----------------------------------------------------------------------------
(* Sessions are compared once, before anything is applied or committed;    *)
(* and one that is being created is nobody else's yet.                     *)

Compared(s) == sess[s].history # "unknown"

ComparedOnce ==
    /\ \A s \in Sessions : Compared(s) \/ sess[s].remoteStore => Compared(s) /\ clone[s].cloned
    /\ \A r \in Requests : req[r].pc = "analyze" =>
          /\ ~Compared(req[r].s) /\ clone[req[r].s].cloned
          /\ \A d \in Requests \ {r} : req[d].pc = "analyze" => req[d].s # req[r].s
    /\ \A r \in Requests : req[r].op \in {"preview", "apply", "commit"} => Compared(req[r].s)
    /\ \A r \in Requests : req[r].op = "create" =>
          /\ ~Compared(req[r].s) /\ current # req[r].s
          /\ \A d \in Requests \ {r} : req[d].s # req[r].s

(* What becomes of what has been found out, and of a clone.                *)
LEMMA ComparedKeeps ==
    ASSUME TypeOK, ComparedOnce, [Next]_vars, NEW s \in 1..created
    PROVE  /\ Compared(s) => sess'[s].history = sess[s].history
           /\ clone[s].cloned => clone'[s].cloned
<1>1. s \in Sessions /\ clone[s] \in CloneSet
  BY SessionAssumption DEF TypeOK, SessionTypes, Sessions, CloneSet
<1>2. Compared(s) => sess'[s].history = sess[s].history
  BY SessionsKeep DEF ComparedOnce, Analyze, At
<1>3. clone[s].cloned => clone'[s].cloned
  <2>1. ASSUME NEW r \in Requests, Clone(r) \/ Analyze(r) \/ CloseClone(r)
        PROVE  clone[s].cloned => clone'[s].cloned
    <3>1. CASE Clone(r)
      BY <1>1, <3>1 DEF Clone, TypeOK, SessionTypes, CloneSet
    <3>2. CASE Analyze(r) \/ CloseClone(r)
      BY <1>1, <3>2 DEF Analyze, CloseClone, TypeOK, SessionTypes, CloneSet
    <3>3. QED  BY <2>1, <3>1, <3>2
  <2>2. ASSUME NEW r \in Requests, Replay(r) \/ WriteFact(r)
        PROVE  clone[s].cloned => clone'[s].cloned
    <3>1. clone \in [Sessions -> CloneSet]
      BY DEF TypeOK, SessionTypes, CloneSet
    <3>2. CASE Replay(r)
      BY <1>1, <3>1, <3>2 DEF Replay, CloneSet
    <3>3. CASE WriteFact(r)
      BY <1>1, <3>1, <3>3 DEF WriteFact, CloneSet
    <3>4. QED  BY <2>2, <3>2, <3>3
  <2>3. CASE Crash
    BY <1>1, <2>3 DEF Crash, TypeOK, SessionTypes, CloneSet
  <2>4. ASSUME NEW r \in Requests, Arrive(r) PROVE clone' = clone
    BY <2>4 DEF Arrive, StartCreate, StartDelete, StartTest, StartPreview, StartApply, StartCommit, sessions
  <2>5. ASSUME NEW r \in Requests, Step(r),
               ~(Clone(r) \/ Analyze(r) \/ CloseClone(r) \/ Replay(r) \/ WriteFact(r))
        PROVE  clone' = clone
    BY <2>5 DEF Step, StoreSession, Delete, Compare, Applied, Ask, Detach, Drain, Copy, AcquireSwapped,
       PersistOrigin, Finish, EndSession, sessions
  <2>6. ASSUME (\E p \in Paths : Write(p)) \/ (\E u \in Urls : OtherTakes(u)) \/ UNCHANGED vars
        PROVE  clone' = clone
    BY <2>6 DEF Write, OtherTakes, vars, sessions
  <2>7. QED
    BY <2>1, <2>2, <2>3, <2>4, <2>5, <2>6 DEF Next
<1>4. QED  BY <1>2, <1>3

(* A session is found comparable, or with its clone, by Analyze alone.     *)
LEMMA FoundBy ==
    ASSUME TypeOK, [Next]_vars, NEW s \in Sessions,
           sess'[s].history # "unknown" \/ sess'[s].remoteStore
    PROVE  /\ s \in 1..created
           /\ \/ Compared(s) \/ sess[s].remoteStore
              \/ \E r \in Requests : Analyze(r) /\ req[r].s = s /\ sess'[s].history # "unknown"
<1>1. created \in Nat /\ 1..created \subseteq Sessions /\ sess[s] \in SessionSet
  BY CreatedNat, SessionAssumption DEF TypeOK, SessionTypes, Sessions
<1>2. s \notin 1..created => sess[s] = Unborn
  BY <1>1 DEF TypeOK, SessionTypes, Sessions
<1>3. ASSUME sess'[s].history = sess[s].history,
             sess'[s].remoteStore => sess[s].remoteStore
      PROVE  s \in 1..created /\ (Compared(s) \/ sess[s].remoteStore)
  BY <1>2, <1>3 DEF Compared, Unborn
<1>4. CASE UNCHANGED sess
  BY <1>3, <1>4
<1>5. ASSUME NEW d \in 1..created, NEW st, SetState(d, st),
             st \in {"created", "tested", "previewed", "applied", "committed", "error"}
      PROVE  s \in 1..created /\ (Compared(s) \/ sess[s].remoteStore)
  BY <1>3, <1>5, SetStateTypes DEF OnlySession, TypeOK
<1>6. ASSUME NEW r \in Requests, StartCreate(r)
      PROVE  s \in 1..created /\ (Compared(s) \/ sess[s].remoteStore)
  <2>1. PICK u \in Urls : sess' = [sess EXCEPT ![created + 1].url = u]
    BY <1>6 DEF StartCreate
  <2>2. sess'[s].history = sess[s].history /\ sess'[s].remoteStore = sess[s].remoteStore
    BY <1>1, <2>1 DEF TypeOK, SessionTypes, SessionSet
  <2>3. QED  BY <1>3, <2>2
<1>7. ASSUME NEW r \in Requests, CloseClone(r)
      PROVE  s \in 1..created /\ (Compared(s) \/ sess[s].remoteStore)
  <2>1. sess' = [sess EXCEPT ![req[r].s] = [sess[req[r].s] EXCEPT !.remoteStore = FALSE]]
    BY <1>7 DEF CloseClone
  <2>2. sess'[s].history = sess[s].history /\ (sess'[s].remoteStore => sess[s].remoteStore)
    BY <1>1, <2>1 DEF TypeOK, SessionTypes, SessionSet
  <2>3. QED  BY <1>3, <2>2
<1>8. ASSUME NEW r \in Requests, Analyze(r)
      PROVE  s \in 1..created /\ (\/ Compared(s) \/ sess[s].remoteStore
                                  \/ req[r].s = s /\ sess'[s].history # "unknown")
  <2>1. req[r].s \in 1..created
    BY <1>8, OfSession DEF Analyze, At
  <2>2. CASE SetState(req[r].s, "error")
    BY <1>5, <2>1, <2>2
  <2>3. ASSUME NEW h \in {"shared", "disjoint"},
               sess' = [sess EXCEPT ![req[r].s] = [@ EXCEPT !.state = "tested", !.remoteStore = TRUE,
                                                            !.history = h]]
        PROVE  s \in 1..created /\ (\/ Compared(s) \/ sess[s].remoteStore
                                    \/ req[r].s = s /\ sess'[s].history # "unknown")
    <3>1. CASE s = req[r].s
      <4>1. sess'[s] = [sess[s] EXCEPT !.state = "tested", !.remoteStore = TRUE, !.history = h]
        BY <2>3, <3>1 DEF TypeOK, SessionTypes
      <4>2. sess'[s].history = h
        BY <1>1, <4>1 DEF SessionSet
      <4>3. QED  BY <2>1, <3>1, <4>2
    <3>2. CASE s # req[r].s
      <4>1. sess'[s] = sess[s]
        BY <2>3, <3>2 DEF TypeOK, SessionTypes
      <4>2. QED  BY <1>3, <4>1
    <3>3. QED  BY <3>1, <3>2
  <2>4. QED  BY <1>8, <2>2, <2>3 DEF Analyze
<1>9. ASSUME NEW r \in Requests, Arrive(r), ~StartCreate(r) PROVE UNCHANGED sess
  BY <1>9 DEF Arrive, StartDelete, StartTest, StartPreview, StartApply, StartCommit, sessions
<1>10. ASSUME NEW r \in Requests, Step(r), ~CloseClone(r), ~Analyze(r)
       PROVE  UNCHANGED sess \/ \E st \in {"created", "tested", "previewed", "applied", "committed", "error"} :
               SetState(req[r].s, st)
  BY <1>10 DEF Step, StoreSession, Delete, Clone, Compare, Replay, ReplayFails, WriteFact, Applied, Ask,
     Detach, Drain, Copy, AcquireSwapped, PersistOrigin, Finish, EndSession, sessions
<1>11. ASSUME NEW r \in Requests, Step(r) PROVE req[r].s \in 1..created
  BY <1>11, Stepped, OfSession
<1>12. ASSUME (\E p \in Paths : Write(p)) \/ (\E u \in Urls : OtherTakes(u)) \/ Crash \/ UNCHANGED vars
       PROVE  UNCHANGED sess
  BY <1>12 DEF Write, OtherTakes, Crash, vars, sessions
<1>13. ASSUME NEW r \in Requests, Step(r), ~Analyze(r)
       PROVE  s \in 1..created /\ (Compared(s) \/ sess[s].remoteStore)
  <2>1. CASE CloseClone(r)
    BY <1>7, <1>11, <1>13, <2>1
  <2>2. CASE UNCHANGED sess
    BY <1>3, <2>2
  <2>3. ASSUME NEW st \in {"created", "tested", "previewed", "applied", "committed", "error"},
               SetState(req[r].s, st)
        PROVE  s \in 1..created /\ (Compared(s) \/ sess[s].remoteStore)
    BY <1>5, <1>11, <1>13, <2>3
  <2>4. QED  BY <1>10, <1>13, <2>1, <2>2, <2>3
<1>14. QED
  BY <1>4, <1>6, <1>8, <1>9, <1>12, <1>13 DEF Next

(* One request moves, or the process ends, or no request and no session.   *)
LEMMA Moves ==
    ASSUME TypeOK, [Next]_vars
    PROVE  \/ \E r \in Requests : (Arrive(r) \/ Step(r)) /\ Only(r)
           \/ Crash /\ current' = NoSession /\ \A r \in Requests : req'[r] = Idle
           \/ UNCHANGED <<req, sessions>>
BY StepTypes, CrashTypes DEF Next, Write, OtherTakes, Crash, vars

LEMMA CurrentMoves ==
    ASSUME TypeOK, [Next]_vars, current' \notin {current, NoSession}
    PROVE  \E r \in Requests : StoreSession(r) /\ current' = req[r].s /\ req[r].op = "create"
<1>1. ASSUME NEW r \in Requests, Arrive(r) PROVE current' \in {current, NoSession}
  BY <1>1 DEF Arrive, StartCreate, StartDelete, StartTest, StartPreview, StartApply, StartCommit, sessions
<1>2. ASSUME NEW r \in Requests, Step(r), ~StoreSession(r) PROVE current' \in {current, NoSession}
  BY <1>2 DEF Step, Delete, Clone, Analyze, Compare, Replay, WriteFact, Applied, CloseClone, Ask, Detach,
     Drain, Copy, AcquireSwapped, PersistOrigin, Finish, EndSession, Evict, sessions
<1>3. ASSUME NEW r \in Requests, StoreSession(r)
      PROVE  req[r].op = "create" /\ current' \in {current, req[r].s}
  BY <1>3 DEF StoreSession, At
<1>4. QED
  BY <1>1, <1>2, <1>3, Moves DEF Step, sessions

LEMMA ComparedNext ==
    ASSUME TypeOK, ComparedOnce, [Next]_vars PROVE ComparedOnce'
<1>1. ASSUME NEW s \in Sessions, sess'[s].history # "unknown" \/ sess'[s].remoteStore
      PROVE  sess'[s].history # "unknown" /\ clone'[s].cloned
  <2>1. s \in 1..created
    BY <1>1, FoundBy
  <2>2. CASE Compared(s) \/ sess[s].remoteStore
    BY <2>1, <2>2, ComparedKeeps DEF ComparedOnce, Compared
  <2>3. ASSUME NEW r \in Requests, Analyze(r), req[r].s = s, sess'[s].history # "unknown"
        PROVE  clone'[s].cloned
    BY <2>1, <2>3, ComparedKeeps DEF ComparedOnce, Analyze, At
  <2>4. QED  BY <1>1, <2>2, <2>3, FoundBy
<1>2. ASSUME NEW r \in Requests, req'[r].pc = "analyze"
      PROVE  /\ req'[r].s \in 1..created /\ req'[r].s = req[r].s
             /\ ~Compared(req[r].s) /\ clone'[req[r].s].cloned
             /\ \/ Clone(r) /\ ~clone[req[r].s].cloned /\ Only(r)
                \/ req[r].pc = "analyze"
  <2>1. CASE (Arrive(r) \/ Step(r)) /\ Only(r)
    <3>1. Step(r) /\ ~Return(r)
      BY <1>2, <2>1, Arrived, Returned
    <3>2. req'[r].op = "test"
      BY <2>1, <1>2, StepTypes DEF TypeOK, RequestTypes, IsRequest, Stage, CommitSteps
    <3>3. req[r].op = "test" /\ req'[r].s = req[r].s /\ req[r].s \in 1..created
      BY <3>1, <3>2, Stepped, OfSession
    <3>4. Clone(r)
      BY <3>1, <3>3, CommitOp
         DEF Step, StoreSession, Delete, Analyze, Compare, Replay, WriteFact, Applied, CloseClone, Ask, Detach,
             Drain, Copy, AcquireSwapped, PersistOrigin, Finish, EndSession, At
    <3>5. /\ ~clone[req[r].s].cloned
          /\ clone' = [clone EXCEPT ![req[r].s] = [cloned |-> TRUE, open |-> TRUE,
                                                   facts |-> Remote[sess[req[r].s].url]]]
      BY <3>1, <3>4 DEF Clone
    <3>6. clone'[req[r].s].cloned
      BY <3>3, <3>5, OfSession, <3>4 DEF Clone, At, TypeOK, SessionTypes
    <3>7. ~Compared(req[r].s)
      BY <3>5, <3>4, OfSession DEF ComparedOnce, Clone, At
    <3>8. QED  BY <2>1, <3>3, <3>4, <3>5, <3>6, <3>7
  <2>2. CASE req'[r] = req[r]
    <3>1. req[r].s \in 1..created
      BY <1>2, <2>2, OfSession
    <3>2. QED  BY <1>2, <2>2, <3>1, ComparedKeeps DEF ComparedOnce
  <2>3. CASE Crash
    BY <1>2, <2>3, CrashTypes DEF Idle
  <2>4. QED  BY <2>1, <2>2, <2>3, Moves DEF Only
<1>3. ASSUME NEW r \in Requests, req'[r].pc = "analyze"
      PROVE  /\ sess'[req'[r].s].history = "unknown" /\ clone'[req'[r].s].cloned
             /\ \A d \in Requests \ {r} : req'[d].pc = "analyze" => req'[d].s # req'[r].s
  <2>1. \A d \in Requests \ {r} : req'[d].pc = "analyze" => req'[d].s # req'[r].s
    <3> SUFFICES ASSUME NEW d \in Requests \ {r}, req'[d].pc = "analyze", req[d].s = req[r].s
                 PROVE  FALSE
      BY <1>2, <1>3
    <3>1. CASE req[r].pc = "analyze" /\ req[d].pc = "analyze"
      BY <3>1 DEF ComparedOnce
    <3>2. CASE Clone(r) /\ ~clone[req[r].s].cloned /\ Only(r)
      BY <1>2, <3>2 DEF Only, ComparedOnce
    <3>3. CASE Clone(d) /\ ~clone[req[d].s].cloned /\ Only(d)
      BY <1>2, <1>3, <3>3 DEF Only, ComparedOnce
    <3>4. QED  BY <1>2, <1>3, <3>1, <3>2, <3>3
  <2>2. ASSUME NEW d \in Requests, Analyze(d) PROVE req[d].s # req[r].s
    <3>1. d # r /\ req[d].pc = "analyze"
      <4>1. req[d].pc = "analyze" /\ Return(d)
        BY <2>2 DEF Analyze, At
      <4>2. req'[d] = Idle
        BY <4>1 DEF Return, TypeOK, RequestTypes
      <4>3. QED  BY <1>3, <4>1, <4>2 DEF Idle
    <3>2. req[r].pc = "analyze"
      BY <2>2, <3>1, AnalyzeTypes, <1>3 DEF Only
    <3>3. QED  BY <3>1, <3>2 DEF ComparedOnce
  <2>3. sess'[req[r].s].history = sess[req[r].s].history
    BY <1>2, <1>3, <2>2, SessionsKeep
  <2>4. QED  BY <1>2, <1>3, <2>1, <2>3 DEF Compared
<1>4. ASSUME NEW r \in Requests, req'[r].op \in {"preview", "apply", "commit"}
      PROVE  sess'[req'[r].s].history # "unknown"
  <2>1. CASE Arrive(r)
    <3>1. PICK s \in Sessions : /\ s = current /\ req'[r].s = s
                                /\ StartPreview(r, s) \/ StartApply(r, s) \/ StartCommit(r, s)
      BY <1>4, <2>1, Arrived
    <3>2. sess[s].remoteStore /\ s \in 1..created
      BY <3>1, NoValueAssumption
         DEF StartPreview, StartApply, StartCommit, Ready, TypeOK, SessionTypes
    <3>3. QED  BY <3>1, <3>2, ComparedKeeps DEF ComparedOnce, Compared
  <2>2. CASE req'[r] = req[r] \/ Step(r)
    <3>1. req[r].op = req'[r].op /\ req[r].s = req'[r].s
      BY <1>4, <2>2, Stepped
    <3>2. req[r].pc # "idle"
      BY <1>4, <3>1 DEF TypeOK, RequestTypes, IsRequest, Stage, CommitSteps
    <3>3. req[r].s \in 1..created
      BY <3>2, OfSession
    <3>4. QED  BY <1>4, <3>1, <3>3, ComparedKeeps DEF ComparedOnce, Compared
  <2>3. CASE Crash
    BY <1>4, <2>3, CrashTypes DEF Idle
  <2>4. QED  BY <2>1, <2>2, <2>3, Moves DEF Only
<1>5. ASSUME NEW r \in Requests, req'[r].op = "create"
      PROVE  /\ sess'[req'[r].s].history = "unknown" /\ current' # req'[r].s
             /\ \A d \in Requests \ {r} : req'[d].s # req'[r].s
  <2>1. CASE Arrive(r)
    <3>1. StartCreate(r) /\ req'[r].s = created + 1
      BY <1>5, <2>1, Arrived
    <3>2. \A d \in Requests \ {r} : req'[d] = req[d] /\ req[d].s # created + 1
      <4>1. \A d \in Requests \ {r} : req'[d] = req[d]
        BY <2>1, StepTypes DEF Only
      <4>2. created + 1 \in Sessions /\ created + 1 \notin 1..created
        BY <3>1, SessionAssumption, CreatedNat DEF StartCreate, Sessions, TypeOK
      <4>3. ASSUME NEW d \in Requests PROVE req[d].s # created + 1
        <5>1. IsRequest(req[d], created)
          BY DEF TypeOK, RequestTypes
        <5>2. CASE req[d].op = "none"
          BY <4>2, <5>1, <5>2, NoValueAssumption DEF IsRequest, Idle
        <5>3. CASE req[d].op # "none"
          BY <4>2, <5>1, <5>3 DEF IsRequest
        <5>4. QED  BY <5>2, <5>3
      <4>4. QED  BY <4>1, <4>3
    <3>3. current' # created + 1
      BY <3>1, SessionAssumption, NoValueAssumption, CreatedNat DEF StartCreate, Sessions, TypeOK
    <3>4. sess'[created + 1].history = "unknown"
      <4>1. created + 1 \in Sessions /\ created + 1 \notin 1..created
        BY <3>1, SessionAssumption, CreatedNat DEF StartCreate, Sessions, TypeOK
      <4>2. QED  BY <4>1, FoundBy
    <3>5. QED  BY <3>1, <3>2, <3>3, <3>4
  <2>2. CASE req'[r] = req[r]
    <3>1. req[r].s \in 1..created /\ req[r].op = "create"
      BY <1>5, <2>2, OfSession DEF TypeOK, RequestTypes, IsRequest, Stage, CommitSteps
    <3>2. \A d \in Requests : ~(Analyze(d) /\ req[d].s = req[r].s)
      BY <3>1 DEF Analyze, At, ComparedOnce
    <3>3. sess'[req[r].s].history = sess[req[r].s].history
      BY <3>1, <3>2, SessionsKeep
    <3>4. current' # req[r].s
      <4>1. CASE current' \in {current, NoSession}
        BY <3>1, <4>1, OfSession, NoValueAssumption DEF ComparedOnce, TypeOK, RequestTypes, IsRequest,
           RequestSet, SessionTypes, Stage, CommitSteps
      <4>2. ASSUME NEW d \in Requests, StoreSession(d), current' = req[d].s
            PROVE  current' # req[r].s
        <5>1. d # r
          BY <1>5, <4>2, StoreSessionTypes DEF Idle
        <5>2. QED  BY <3>1, <4>2, <5>1 DEF ComparedOnce
      <4>3. QED  BY <4>1, <4>2, CurrentMoves
    <3>5. \A d \in Requests \ {r} : req'[d].s # req[r].s
      <4>1. \A d \in Requests \ {r} : req[d].s # req[r].s
        BY <3>1 DEF ComparedOnce
      <4>2. ASSUME NEW d \in Requests, Arrive(d) PROVE req'[d].s # req[r].s
        <5>1. req'[d].s \in {current, created + 1}
          BY <4>2, Arrived
        <5>2. QED  BY <3>1, <5>1, CreatedNat DEF ComparedOnce, TypeOK
      <4>3. ASSUME NEW d \in Requests \ {r}, Step(d) PROVE req'[d].s # req[r].s
        <5>1. CASE req'[d].op = "none"
          <6>1. req'[d] = Idle
            BY <4>3, <5>1, StepTypes DEF TypeOK, RequestTypes, IsRequest
          <6>2. req[r].s \in Sessions
            BY <3>1, <1>5, <2>2, OfSession DEF TypeOK, RequestTypes, IsRequest, Stage, CommitSteps
          <6>3. QED  BY <6>1, <6>2, NoValueAssumption DEF Idle
        <5>2. CASE req'[d].op # "none"
          BY <4>1, <4>3, <5>2, Stepped
        <5>3. QED  BY <5>1, <5>2
      <4>4. CASE Crash
        BY <1>5, <4>4, CrashTypes DEF Idle
      <4>5. QED  BY <4>1, <4>2, <4>3, <4>4, Moves DEF Only
    <3>6. QED  BY <2>2, <3>1, <3>3, <3>4, <3>5 DEF ComparedOnce, Compared
  <2>3. CASE Step(r)
    BY <1>5, <2>3, Stepped
  <2>4. CASE Crash
    BY <1>5, <2>4, CrashTypes DEF Idle
  <2>5. QED  BY <2>1, <2>2, <2>3, <2>4, Moves DEF Only
<1>6. QED  BY <1>1, <1>3, <1>4, <1>5 DEF ComparedOnce, Compared

LEMMA ComparedInit == Init => ComparedOnce
BY NoValueAssumption DEF Init, ComparedOnce, Compared, Idle, Unborn

-----------------------------------------------------------------------------
(* The origin on record.                                                   *)

(* A copy fails, or takes the knowledge base and notes a race.             *)
LEMMA CopyRaced ==
    ASSUME NEW r \in Requests, Copy(r)
    PROVE  \/ local' = local /\ Return(r)
           \/ /\ local'.kb = sess[req[r].s].url /\ Go(r, "acquire")
              /\ raced' \/ ~(current \notin {req[r].s, NoSession} /\ sess[current].history = "shared")
<1>1. \/ local' = local /\ Return(r)
      \/ /\ local' = [facts |-> clone[req[r].s].facts, kb |-> sess[req[r].s].url]
         /\ Go(r, "acquire")
         /\ raced' = (raced \/ (current \notin {req[r].s, NoSession} /\ sess[current].history = "shared"))
  BY Zenon DEF Copy, SwapFails
<1>2. [facts |-> clone[req[r].s].facts, kb |-> sess[req[r].s].url].kb = sess[req[r].s].url
  OBVIOUS
<1>3. QED  BY <1>1, <1>2, Zenon

(* Where a step of a commit leads, and what it does to what is recorded.   *)
LEMMA CommitMoves ==
    ASSUME TypeOK, NEW r \in Requests, Step(r), req[r].op = "commit"
    PROVE  LET s == req[r].s
               shared == sess[s].history = "shared"
           IN  \/ /\ CloseClone(r) /\ req[r].pc = "close"
                  /\ req'[r].pc = IF shared THEN "persist" ELSE "ask"
               \/ /\ Ask(r) /\ req[r].pc = "ask"
                  /\ req'[r] = Idle \/ req'[r].pc = IF shared THEN "close" ELSE "swap"
               \/ Detach(r) /\ req[r].pc = "swap" /\ req'[r].pc = "drain"
               \/ Drain(r) /\ req[r].pc = "drain" /\ req'[r].pc = "copy"
               \/ /\ Copy(r) /\ req[r].pc = "copy"
                  /\ \/ req'[r] = Idle /\ local' = local
                     \/ /\ req'[r].pc = "acquire" /\ local'.kb = sess[s].url
                        /\ raced' \/ ~(current \notin {s, NoSession} /\ sess[current].history = "shared")
               \/ AcquireSwapped(r) /\ req[r].pc = "acquire" /\ req'[r].pc = "persist"
               \/ /\ PersistOrigin(r) /\ req[r].pc = "persist"
                  /\ raced' \/ (req'[r].pc = "finish" /\ origin' = sess[s].url)
               \/ Finish(r) /\ req[r].pc = "finish" /\ (req'[r] = Idle \/ req'[r].pc = "evict")
               \/ EndSession(r) /\ req[r].pc = "evict" /\ req'[r] = Idle
<1>1. req[r] \in RequestSet
  BY DEF TypeOK, RequestTypes, IsRequest
<1>2. CASE CloseClone(r)
  BY <1>1, <1>2, Went DEF CloseClone, RequestSet, TypeOK, RequestTypes
<1>3. CASE Ask(r)
  BY <1>3, Went, Returned DEF Ask
<1>4. CASE Detach(r)
  BY <1>1, <1>4 DEF Detach, RequestSet, TypeOK, RequestTypes
<1>5. CASE Drain(r)
  BY <1>1, <1>5 DEF Drain, RequestSet, TypeOK, RequestTypes
<1>6. CASE Copy(r)
  <2>1. \/ Return(r) /\ local' = local
        \/ /\ Go(r, "acquire") /\ local'.kb = sess[req[r].s].url
           /\ raced' \/ ~(current \notin {req[r].s, NoSession} /\ sess[current].history = "shared")
    BY <1>6, CopyRaced
  <2>2. QED  BY <1>6, <2>1, Went, Returned DEF Copy
<1>7. CASE AcquireSwapped(r)
  BY <1>1, <1>7 DEF AcquireSwapped, RequestSet, TypeOK, RequestTypes
<1>8. CASE PersistOrigin(r)
  <2>1. raced' \/ (Go(r, "finish") /\ origin' = sess[req[r].s].url)
    <3>1. raced' = TRUE \/ (Go(r, "finish") /\ origin' = sess[req[r].s].url)
      BY <1>8 DEF PersistOrigin
    <3>2. QED  BY <3>1, Zenon
  <2>2. Go(r, "finish") => req'[r].pc = "finish"
    BY Went
  <2>3. req[r].pc = "persist"
    BY <1>8 DEF PersistOrigin
  <2>4. QED  BY <1>8, <2>1, <2>2, <2>3, Zenon
<1>9. CASE Finish(r)
  BY <1>9, Went, Returned DEF Finish
<1>10. CASE EndSession(r)
  BY <1>10, Returned DEF EndSession, At
<1>11. QED
  BY <1>2, <1>3, <1>4, <1>5, <1>6, <1>7, <1>8, <1>9, <1>10
     DEF Step, StoreSession, Delete, Clone, Analyze, Compare, Replay, WriteFact, Applied, At

(* What is on record changes in one place, and a race is not forgotten.    *)
LEMMA RecordKeeps ==
    ASSUME [Next]_vars
    PROVE  /\ raced => raced'
           /\ origin' = origin \/ \E r \in Requests : PersistOrigin(r)
<1>1. ASSUME NEW r \in Requests, Arrive(r)
      PROVE  origin' = origin /\ (raced' = raced \/ \E s \in Sessions : StartCommit(r, s))
  BY <1>1 DEF Arrive, StartCreate, StartDelete, StartTest, StartPreview, StartApply, StartCommit,
     world, ghosts
<1>2. ASSUME NEW r \in Requests, Step(r), ~PersistOrigin(r), ~Copy(r)
      PROVE  origin' = origin /\ raced' = raced
  BY <1>2 DEF Step, StoreSession, Delete, Clone, Analyze, Compare, Replay, WriteFact, Applied,
     CloseClone, Ask, Detach, Drain, AcquireSwapped, Finish, EndSession, world, ghosts
<1>3. ASSUME NEW p \in Paths, Write(p) PROVE origin' = origin /\ raced' = raced
  BY <1>3 DEF Write, world, ghosts
<1>4. ASSUME NEW u \in Urls, OtherTakes(u) PROVE origin' = origin /\ raced' = raced
  BY <1>4 DEF OtherTakes
<1>5. UNCHANGED vars => origin' = origin /\ raced' = raced
  BY DEF vars, world, ghosts
<1>6. ASSUME NEW r \in Requests, Copy(r) PROVE (raced => raced') /\ origin' = origin
  <2>1. origin' = origin
    BY <1>6 DEF Copy, world
  <2>2. raced => raced'
    BY <1>6, Zenon DEF Copy
  <2>3. QED  BY <2>1, <2>2
<1>7. ASSUME NEW r \in Requests, PersistOrigin(r) PROVE raced => raced'
  BY <1>7, Zenon DEF PersistOrigin
<1>8. ASSUME NEW r \in Requests, NEW s \in Sessions, StartCommit(r, s) PROVE raced => raced'
  BY <1>8, Zenon DEF StartCommit
<1>9. ASSUME Crash PROVE (raced => raced') /\ origin' = origin
  <2>1. origin' = origin
    BY <1>9 DEF Crash, world
  <2>2. raced => raced'
    BY <1>9, Zenon DEF Crash
  <2>3. QED  BY <2>1, <2>2
<1>10. ASSUME NEW r \in Requests, Arrive(r) PROVE raced => raced'
  BY <1>1, <1>8, <1>10, Zenon
<1>11. raced => raced'
  BY <1>2, <1>3, <1>4, <1>5, <1>6, <1>7, <1>9, <1>10, Zenon DEF Next
<1>12. origin' = origin \/ \E r \in Requests : PersistOrigin(r)
  BY <1>1, <1>2, <1>3, <1>4, <1>5, <1>6, <1>9 DEF Next
<1>13. QED  BY <1>11, <1>12

Named == origin = IF local.kb = Own THEN NoUrl ELSE local.kb

OneCommit == \A r, d \in Requests : req[r].op = "commit" /\ req[d].op = "commit" => r = d

(* Between the swap and the record, the repository holds what is about to  *)
(* be recorded; before and after, what is on record.                       *)
CommitKnows(r) ==
    LET s == req[r].s
    IN  /\ IF req[r].pc \in {"acquire", "persist"} THEN local.kb = sess[s].url ELSE Named
        /\ req[r].pc \in {"ask", "close"} /\ sess[s].history = "shared" => local.kb = sess[s].url

CurrentHolds ==
    current # NoSession /\ sess[current].history = "shared" => local.kb = sess[current].url

OriginInv ==
    ~raced => /\ OneCommit
              /\ \A r \in Requests : req[r].op = "commit" => CommitKnows(r)
              /\ (\A r \in Requests : req[r].op # "commit") => Named
              /\ CurrentHolds

LEMMA CurrentHoldsNext ==
    ASSUME TypeOK, ComparedOnce, CurrentHolds, [Next]_vars, ~raced'
    PROVE  CurrentHolds'
<1> SUFFICES ASSUME current' # NoSession, sess'[current'].history = "shared"
             PROVE  local'.kb = sess'[current'].url
  BY DEF CurrentHolds
<1>1. CASE current' \notin {current, NoSession}
  <2>1. PICK r \in Requests : StoreSession(r) /\ current' = req[r].s /\ req[r].op = "create"
    BY <1>1, CurrentMoves
  <2>2. req[r].s \in 1..created /\ sess[req[r].s].history = "unknown"
    BY <2>1, OfSession DEF StoreSession, At, ComparedOnce, Compared
  <2>3. \A d \in Requests : ~(Analyze(d) /\ req[d].s = req[r].s)
    BY <2>1 DEF Analyze, At, ComparedOnce
  <2>4. sess'[current'].history = "unknown"
    BY <2>1, <2>2, <2>3, SessionsKeep
  <2>5. QED  BY <2>4
<1>2. CASE current' = current
  <2>1. current \in 1..created
    BY <1>2 DEF TypeOK, SessionTypes
  <2>2. sess'[current].url = sess[current].url
    BY <2>1, SessionsKeep
  <2>3. ASSUME NEW r \in Requests, Analyze(r), req[r].s = current PROVE local'.kb = sess[current].url
    <3>1. local' = local
      BY <2>3 DEF Analyze, store
    <3>2. CASE sess[current].history = "shared"
      BY <1>2, <3>1, <3>2 DEF CurrentHolds
    <3>3. CASE sess[current].history # "shared"
      <4>1. CASE local.kb = sess[current].url
        BY <3>1, <4>1
      <4>2. CASE local.kb # sess[current].url
        <5>1. \/ SetState(current, "error")
              \/ sess' = [sess EXCEPT ![current] = [@ EXCEPT !.state = "tested",
                                  !.remoteStore = TRUE, !.history = "disjoint"]]
          BY <2>3, <4>2 DEF Analyze
        <5>2. sess \in [Sessions -> SessionSet] /\ current \in Sessions
          BY <2>3, OfSession DEF Analyze, At, TypeOK, SessionTypes
        <5>3. sess'[current].history # "shared"
          BY <3>3, <5>1, <5>2 DEF SetState, SessionSet
        <5>4. QED  BY <1>2, <5>3
      <4>3. QED  BY <4>1, <4>2
    <3>4. QED  BY <3>2, <3>3
  <2>4. ASSUME \A r \in Requests : ~(Analyze(r) /\ req[r].s = current) PROVE local'.kb = sess[current].url
    <3>1. sess[current].history = "shared" /\ local.kb = sess[current].url
      BY <1>2, <2>1, <2>4, SessionsKeep DEF CurrentHolds
    <3>2. ASSUME NEW r \in Requests, Copy(r) PROVE local'.kb = sess[current].url
      <4>1. Step(r) /\ req[r].op = "commit"
        BY <3>2, CommitOp DEF Step, Copy
      <4>2. \/ local' = local
            \/ /\ local'.kb = sess[req[r].s].url
               /\ raced' \/ ~(current \notin {req[r].s, NoSession} /\ sess[current].history = "shared")
        BY <3>2, CopyRaced
      <4>3. QED  BY <1>2, <3>1, <4>2
    <3>3. QED  BY <3>1, <3>2, HeldKeeps
  <2>5. QED  BY <1>2, <2>2, <2>3, <2>4
<1>3. QED  BY <1>1, <1>2

LEMMA OneCommitNext ==
    ASSUME TypeOK, OneCommit, [Next]_vars, ~raced' PROVE OneCommit'
<1> SUFFICES ASSUME NEW r \in Requests, NEW d \in Requests, r # d,
                    req'[r].op = "commit", req'[d].op = "commit"
             PROVE  FALSE
  BY DEF OneCommit
<1>1. ASSUME NEW a \in Requests, Arrive(a), req'[a].op = "commit"
      PROVE  \A b \in Requests : req[b].op # "commit"
  <2>1. PICK s \in Sessions : StartCommit(a, s)
    BY <1>1, Arrived
  <2>2. QED  BY <2>1 DEF StartCommit
<1>2. ASSUME NEW a \in Requests, Step(a), req'[a].op = "commit" PROVE req[a].op = "commit"
  BY <1>2, Stepped
<1>3. CASE Crash /\ \A a \in Requests : req'[a] = Idle
  BY <1>3 DEF Idle
<1>4. ASSUME NEW a \in Requests, Arrive(a) \/ Step(a), Only(a) PROVE FALSE
  <2>1. \E b \in {r, d} \ {a} : req[b].op = "commit"
    BY <1>4 DEF Only
  <2>2. CASE a \in {r, d}
    BY <1>1, <1>2, <1>4, <2>1, <2>2 DEF OneCommit
  <2>3. CASE a \notin {r, d}
    BY <1>4, <2>3 DEF Only, OneCommit
  <2>4. QED  BY <2>2, <2>3
<1>5. QED  BY <1>3, <1>4, Moves DEF OneCommit

LEMMA CommitKnowsNext ==
    ASSUME TypeOK, ComparedOnce, OneCommit, CurrentHolds, [Next]_vars, ~raced',
           \A r \in Requests : req[r].op = "commit" => CommitKnows(r),
           (\A r \in Requests : req[r].op # "commit") => Named,
           NEW r \in Requests, req'[r].op = "commit"
    PROVE  CommitKnows(r)'
<1>1. ASSUME Arrive(r) PROVE CommitKnows(r)'
  <2>1. PICK s \in Sessions :
          /\ s = current /\ req'[r].s = s /\ StartCommit(r, s)
          /\ req'[r].pc = IF sess[s].history = "shared" THEN "ask" ELSE "close"
    BY <1>1, Arrived
  <2>2. \A d \in Requests : req[d].op # "commit"
    BY <2>1 DEF StartCommit
  <2>3. local' = local /\ sess' = sess /\ origin' = origin
    BY <2>1 DEF StartCommit, store, sessions, world
  <2>4. current # NoSession
    BY <2>1, NoValueAssumption
  <2>5. QED  BY <2>1, <2>2, <2>3, <2>4 DEF CommitKnows, CurrentHolds, Named
<1>2. ASSUME req[r].op = "commit", req'[r].op = "commit"
      PROVE  /\ req[r].s \in 1..created /\ sess[req[r].s].url \in Urls
             /\ sess'[req[r].s].url = sess[req[r].s].url
             /\ sess'[req[r].s].history = sess[req[r].s].history
  <2>1. req[r].s \in 1..created /\ sess[req[r].s].url \in Urls
    <3>1. req[r].s \in 1..created /\ req[r].pc # "idle"
      BY <1>2 DEF TypeOK, RequestTypes, IsRequest, Stage, CommitSteps
    <3>2. QED  BY <3>1, OfSession
  <2>2. Compared(req[r].s)
    BY <1>2 DEF ComparedOnce
  <2>3. QED  BY <2>1, <2>2, SessionsKeep, ComparedKeeps
<1>3. ASSUME Step(r) PROVE CommitKnows(r)'
  <2>1. req[r].op = "commit" /\ req'[r].s = req[r].s /\ req'[r] # Idle
    BY <1>3, Stepped DEF Idle
  <2>2. CASE Copy(r)
    BY <1>2, <1>3, <2>1, <2>2, CommitMoves DEF CommitKnows, Copy
  <2>3. CASE PersistOrigin(r)
    <3>1. req'[r].pc = "finish" /\ origin' = sess[req[r].s].url /\ local' = local
      BY <1>3, <2>1, <2>3, CommitMoves DEF PersistOrigin, Copy, CloseClone, Ask, Detach, Drain,
         AcquireSwapped, Finish, EndSession, At, store
    <3>2. local.kb = sess[req[r].s].url /\ sess[req[r].s].url # Own
      BY <1>2, <2>1, <2>3, NoValueAssumption DEF CommitKnows, PersistOrigin
    <3>3. QED  BY <3>1, <3>2 DEF CommitKnows, Named
  <2>4. CASE ~Copy(r) /\ ~PersistOrigin(r)
    <3>1. local' = local /\ origin' = origin
      BY <1>3, <2>1, <2>4, CommitMoves DEF CloseClone, Ask, Detach, Drain, AcquireSwapped, Finish,
         EndSession, store, world
    <3>2. CommitKnows(r)
      BY <2>1
    <3>3. QED
      BY <1>2, <1>3, <2>1, <2>4, <3>1, <3>2, CommitMoves DEF CommitKnows, Named
  <2>5. QED  BY <2>2, <2>3, <2>4
<1>4. ASSUME req'[r] = req[r] PROVE CommitKnows(r)'
  <2>1. ASSUME NEW d \in Requests, Copy(d) \/ PersistOrigin(d) PROVE FALSE
    <3>1. Step(d) /\ req[d].op = "commit"
      BY <2>1, CommitOp DEF Step, Copy, PersistOrigin
    <3>2. d = r
      BY <1>4, <3>1 DEF OneCommit
    <3>3. QED
      BY <1>4, <2>1, <3>1, <3>2, CommitMoves, Returned, Went
         DEF Copy, SwapFails, PersistOrigin
  <2>2. local'.kb = local.kb /\ origin' = origin
    BY <2>1, HeldKeeps, RecordKeeps
  <2>3. QED  BY <1>2, <1>4, <2>2 DEF CommitKnows, Named
<1>5. CASE Crash
  BY <1>5, CrashTypes DEF Idle
<1>6. QED  BY <1>1, <1>3, <1>4, <1>5, Moves DEF Only

LEMMA NamedNext ==
    ASSUME TypeOK, OneCommit, [Next]_vars, ~raced',
           \A r \in Requests : req[r].op = "commit" => CommitKnows(r),
           (\A r \in Requests : req[r].op # "commit") => Named,
           \A r \in Requests : req'[r].op # "commit"
    PROVE  Named'
<1>1. CASE \A r \in Requests : req[r].op # "commit"
  <2>1. \A r \in Requests : ~Copy(r) /\ ~PersistOrigin(r)
    BY <1>1, CommitOp DEF Copy, PersistOrigin
  <2>2. QED  BY <1>1, <2>1, HeldKeeps, RecordKeeps DEF Named
<1>2. ASSUME NEW r \in Requests, req[r].op = "commit" PROVE Named'
  <2>1. CASE Crash
    BY <1>2, <2>1 DEF Crash, CommitKnows, Named, world
  <2>2. CASE Step(r)
    <3>1. req'[r].op # "commit"
      OBVIOUS
    <3>2. req'[r] = Idle
      BY <2>2, <3>1, <1>2, StepTypes, CommitStages, Stepped DEF TypeOK, RequestTypes, IsRequest
    <3>3. req[r].pc \notin {"acquire", "persist"} /\ local' = local /\ origin' = origin
      <4>1. req'[r].pc = "idle"
        BY <3>2 DEF Idle
      <4>2. ~PersistOrigin(r) /\ ~CloseClone(r) /\ ~AcquireSwapped(r) /\ ~Detach(r) /\ ~Drain(r)
        BY <1>2, <2>2, <4>1, CommitMoves DEF CloseClone, PersistOrigin, AcquireSwapped, Detach, Drain
      <4>3. CASE Copy(r)
        BY <1>2, <2>2, <4>1, <4>3, CommitMoves DEF Copy, Ask, Finish, EndSession, At, world
      <4>4. CASE Ask(r) \/ Finish(r) \/ EndSession(r)
        BY <4>4 DEF Ask, Finish, EndSession, At, store, world
      <4>5. QED  BY <1>2, <2>2, <4>2, <4>3, <4>4, CommitMoves
    <3>4. QED  BY <1>2, <3>3 DEF CommitKnows, Named
  <2>3. QED  BY <1>2, <2>1, <2>2, Moves, Arrived DEF Only, Idle
<1>3. QED  BY <1>1, <1>2

LEMMA OriginNext ==
    ASSUME TypeOK, ComparedOnce, OriginInv, [Next]_vars PROVE OriginInv'
<1> SUFFICES ASSUME ~raced'
             PROVE  /\ OneCommit' /\ CurrentHolds'
                    /\ \A r \in Requests : req'[r].op = "commit" => CommitKnows(r)'
                    /\ (\A r \in Requests : req'[r].op # "commit") => Named'
  BY DEF OriginInv
<1>1. ~raced
  BY RecordKeeps
<1>2. OneCommit' /\ CurrentHolds'
  BY <1>1, OneCommitNext, CurrentHoldsNext DEF OriginInv
<1>3. QED  BY <1>1, <1>2, CommitKnowsNext, NamedNext DEF OriginInv

(* When no commit is running, control.db names the remote whose knowledge  *)
(* base the repository holds, short of a race between two swaps.           *)
THEOREM OriginCorrect == Spec => []OriginFollowsStore
<1>1. Init => OriginInv
  BY DEF Init, OriginInv, OneCommit, CurrentHolds, Named, Idle
<1>2. OriginInv => OriginFollowsStore
  BY DEF OriginInv, OriginFollowsStore, Named
<1>3. QED
  BY <1>1, <1>2, InitTypes, NextTypes, ComparedInit, ComparedNext, OriginNext, PTL DEF Spec

-----------------------------------------------------------------------------
(* A commit installs the merge that was asked for.                         *)

(* The steps of an apply.                                                  *)
LEMMA ApplyMoves ==
    ASSUME TypeOK, NEW r \in Requests, Step(r), req[r].op = "apply"
    PROVE  LET s == req[r].s
           IN  \/ Replay(r) /\ req[r].pc = "replay" /\ req'[r] = Idle /\ clone' = clone
               \/ /\ Replay(r) /\ req[r].pc = "replay" /\ sess' = sess
                  /\ req'[r].pc = "write" /\ req'[r].op = "apply" /\ req'[r].s = s
                  /\ req'[r].facts = local.facts
                  /\ req'[r].todo = {p \in Paths : /\ local.facts[p] # NoFact
                                                   /\ req'[r].with = "local_wins" \/ BaseOf(s)[p] = NoFact}
                  /\ clone'[s].facts = BaseOf(s)
                  /\ s \notin blurred' => BaseOf(s) = Remote[sess[s].url]
               \/ /\ WriteFact(r) /\ req[r].pc = "write"
                  /\ req'[r] = Idle /\ clone' = clone /\ sess'[s].state = "error"
               \/ /\ WriteFact(r) /\ req[r].pc = "write"
                  /\ \E p \in req[r].todo :
                        /\ clone'[s].facts = [clone[s].facts EXCEPT ![p] = req[r].facts[p]]
                        /\ req'[r].todo = req[r].todo \ {p}
                  /\ req'[r].pc = "write" /\ req'[r].op = "apply" /\ req'[r].s = s /\ sess' = sess
                  /\ req'[r].with = req[r].with /\ req'[r].facts = req[r].facts
               \/ Applied(r) /\ req'[r] = Idle /\ clone' = clone
<1>1. /\ req[r] \in RequestSet /\ req[r].s \in Sessions /\ clone[req[r].s] \in CloneSet
      /\ DOMAIN req = Requests /\ sess \in [Sessions -> SessionSet]
      /\ clone \in [Sessions -> CloneSet] /\ req[r].s \in 1..created
  BY Stepped, OfSession DEF TypeOK, RequestTypes, SessionTypes, CloneSet
<1>2. CASE Replay(r)
  <2>1. CASE Return(r) /\ clone' = clone
    BY <1>2, <2>1, Returned DEF Replay, At
  <2>2. CASE ~(Return(r) /\ clone' = clone)
    <3>1. PICK w \in Strategies :
            req' = [req EXCEPT ![r] = [@ EXCEPT !.pc = "write", !.with = w, !.facts = local.facts,
                       !.todo = {p \in Paths : /\ local.facts[p] # NoFact
                                               /\ w = "local_wins" \/ BaseOf(req[r].s)[p] = NoFact}]]
      BY <1>2, <2>2 DEF Replay, ReplayFails
    <3>2. /\ clone' = [clone EXCEPT ![req[r].s].facts = BaseOf(req[r].s)] /\ sess' = sess
          /\ blurred' = IF BaseOf(req[r].s) # Remote[sess[req[r].s].url] THEN blurred \cup {req[r].s}
                                                                         ELSE blurred
      BY <1>2, <2>2 DEF Replay, ReplayFails
    <3>3. clone'[req[r].s].facts = BaseOf(req[r].s)
      BY <1>1, <3>2 DEF CloneSet
    <3>4. req[r].pc = "replay"
      BY <1>2 DEF Replay, At
    <3>5. /\ req'[r].pc = "write" /\ req'[r].op = "apply" /\ req'[r].s = req[r].s
          /\ req'[r].facts = local.facts /\ req'[r].with = w
          /\ req'[r].todo = {p \in Paths : /\ local.facts[p] # NoFact
                                           /\ w = "local_wins" \/ BaseOf(req[r].s)[p] = NoFact}
      BY <1>1, <3>1 DEF RequestSet
    <3>6. QED  BY <1>2, <3>2, <3>3, <3>4, <3>5
  <2>3. QED  BY <2>1, <2>2
<1>3. CASE WriteFact(r)
  <2>1. req[r].pc = "write"
    BY <1>3 DEF WriteFact, At
  <2>2. CASE ReplayFails(r) /\ clone' = clone
    <3>1. req'[r] = Idle
      BY <2>2, Returned DEF ReplayFails
    <3>2. sess'[req[r].s].state = "error"
      BY <1>1, <2>2 DEF ReplayFails, SetState, SessionSet
    <3>3. QED  BY <1>3, <2>1, <2>2, <3>1, <3>2
  <2>3. CASE ~(ReplayFails(r) /\ clone' = clone)
    <3>1. PICK p \in req[r].todo :
            /\ clone' = [clone EXCEPT ![req[r].s].facts[p] = req[r].facts[p]]
            /\ req' = [req EXCEPT ![r].todo = @ \ {p}] /\ sess' = sess
      BY <1>3, <2>3 DEF WriteFact
    <3>2. clone'[req[r].s].facts = [clone[req[r].s].facts EXCEPT ![p] = req[r].facts[p]]
      BY <1>1, <3>1 DEF CloneSet
    <3>3. req'[r] = [req[r] EXCEPT !.todo = req[r].todo \ {p}]
      BY <1>1, <3>1
    <3>4. QED  BY <1>1, <1>3, <2>1, <3>1, <3>2, <3>3 DEF RequestSet
  <2>4. QED  BY <2>2, <2>3
<1>4. CASE Applied(r)
  BY <1>4, Returned DEF Applied
<1>5. QED
  BY <1>2, <1>3, <1>4, CommitOp
     DEF Step, StoreSession, Delete, Clone, Analyze, Compare, EndSession, CloseClone, Ask, Detach, Drain,
         Copy, AcquireSwapped, PersistOrigin, Finish, At

(* The facts of a clone, what an apply was given, the state "applied" and  *)
(* what is blurred: who changes them.                                      *)
LEMMA ClonesKeep ==
    ASSUME TypeOK, ComparedOnce, [Next]_vars, NEW s \in Sessions, clone[s].cloned
    PROVE  \/ clone'[s].facts = clone[s].facts
           \/ \E r \in Requests : (Replay(r) \/ WriteFact(r)) /\ req[r].s = s /\ clone' # clone
<1>1. clone \in [Sessions -> CloneSet]
  BY DEF TypeOK, SessionTypes, CloneSet
<1>2. ASSUME NEW r \in Requests, Clone(r) PROVE clone'[s].facts = clone[s].facts
  <2>1. req[r].s \in Sessions
    BY <1>2, OfSession DEF Clone, At
  <2>2. CASE req[r].s = s
    BY <1>1, <1>2, <2>1, <2>2 DEF Clone, CloneSet
  <2>3. CASE req[r].s # s
    BY <1>1, <1>2, <2>1, <2>3 DEF Clone, CloneSet
  <2>4. QED  BY <2>2, <2>3
<1>3. ASSUME NEW r \in Requests, Analyze(r) \/ CloseClone(r) PROVE clone'[s].facts = clone[s].facts
  <2>1. \/ clone' = clone
        \/ clone' = [clone EXCEPT ![req[r].s].open = FALSE]
    BY <1>3 DEF Analyze, CloseClone
  <2>2. QED  BY <1>1, <2>1 DEF CloneSet
<1>4. CASE Crash
  BY <1>1, <1>4 DEF Crash, CloneSet
<1>5. ASSUME NEW r \in Requests, Replay(r) \/ WriteFact(r), req[r].s # s
      PROVE  clone'[s].facts = clone[s].facts
  <2>1. \/ clone' = clone
        \/ \E f : clone' = [clone EXCEPT ![req[r].s].facts = f]
        \/ \E p \in Paths \cup Nat : \E f : clone' = [clone EXCEPT ![req[r].s].facts[p] = f]
    <3>1. CASE Replay(r)
      BY <3>1 DEF Replay
    <3>2. CASE WriteFact(r)
      <4>1. req[r].todo \subseteq Paths \cup Nat
        BY DEF TypeOK, RequestTypes, IsRequest, RequestSet
      <4>2. QED  BY <3>2, <4>1 DEF WriteFact
    <3>3. QED  BY <1>5, <3>1, <3>2
  <2>2. QED  BY <1>1, <1>5, <2>1 DEF CloneSet
<1>6. ASSUME NEW r \in Requests, Arrive(r) PROVE clone' = clone
  BY <1>6 DEF Arrive, StartCreate, StartDelete, StartTest, StartPreview, StartApply, StartCommit, sessions
<1>7. ASSUME NEW r \in Requests, Step(r),
             ~(Clone(r) \/ Analyze(r) \/ CloseClone(r) \/ Replay(r) \/ WriteFact(r))
      PROVE  clone' = clone
  BY <1>7 DEF Step, StoreSession, Delete, Compare, Applied, Ask, Detach, Drain, Copy, AcquireSwapped,
     PersistOrigin, Finish, EndSession, sessions
<1>8. ASSUME (\E p \in Paths : Write(p)) \/ (\E u \in Urls : OtherTakes(u)) \/ UNCHANGED vars
      PROVE  clone' = clone
  BY <1>8 DEF Write, OtherTakes, vars, sessions
<1>9. QED
  BY <1>2, <1>3, <1>4, <1>5, <1>6, <1>7, <1>8 DEF Next

LEMMA AskedKeeps ==
    ASSUME TypeOK, [Next]_vars, NEW s \in Sessions
    PROVE  /\ asked'[s] = asked[s] \/ \E r \in Requests : Applied(r) /\ req[r].s = s
           /\ sess'[s].state = "applied" =>
                sess[s].state = "applied" \/ \E r \in Requests : Applied(r) /\ req[r].s = s
           /\ blurred \subseteq blurred'
<1>1. sess \in [Sessions -> SessionSet]
  BY DEF TypeOK, SessionTypes
<1>2. ASSUME NEW r \in Requests, Arrive(r) PROVE asked' = asked /\ blurred \subseteq blurred'
  BY <1>2 DEF Arrive, StartCreate, StartDelete, StartTest, StartPreview, StartApply, StartCommit, ghosts
<1>3. ASSUME NEW r \in Requests, Step(r), ~Applied(r) PROVE asked' = asked /\ blurred \subseteq blurred'
  BY <1>3 DEF Step, StoreSession, Delete, Clone, Analyze, Compare, Replay, WriteFact, CloseClone, Ask,
     Detach, Drain, Copy, AcquireSwapped, PersistOrigin, Finish, EndSession, ghosts
<1>4. ASSUME NEW r \in Requests, Applied(r)
      PROVE  blurred' = blurred /\ (req[r].s # s => asked'[s] = asked[s])
  <2>1. asked' = [asked EXCEPT ![req[r].s] = [facts |-> req[r].facts, with |-> req[r].with]]
    BY <1>4 DEF Applied
  <2>2. QED  BY <1>4, <2>1 DEF Applied, TypeOK, SessionTypes
<1>5. ASSUME (\E p \in Paths : Write(p)) \/ (\E u \in Urls : OtherTakes(u)) \/ Crash \/ UNCHANGED vars
      PROVE  asked' = asked /\ blurred' = blurred /\ sess' = sess
  BY <1>5 DEF Write, OtherTakes, Crash, vars, sessions, ghosts
<1>6. ASSUME NEW r \in Requests, NEW st, SetState(req[r].s, st), st # "applied" \/ req[r].s # s
      PROVE  sess'[s].state = "applied" => sess[s].state = "applied"
  BY <1>1, <1>6 DEF SetState, SessionSet
<1>7. ASSUME NEW r \in Requests, Arrive(r), sess'[s].state = "applied" PROVE sess[s].state = "applied"
  <2>1. sess' = sess \/ \E u \in Urls, c \in Nat : sess' = [sess EXCEPT ![c].url = u]
    BY <1>7, CreatedNat DEF Arrive, StartCreate, StartDelete, StartTest, StartPreview, StartApply, StartCommit, sessions, TypeOK
  <2>2. QED  BY <1>1, <1>7, <2>1 DEF SessionSet
<1>8. ASSUME NEW r \in Requests, Step(r), ~(Applied(r) /\ req[r].s = s), sess'[s].state = "applied"
      PROVE  sess[s].state = "applied"
  <2>1. CASE \/ sess' = sess
             \/ sess' = [sess EXCEPT ![req[r].s].remoteStore = FALSE]
             \/ \E h \in {"shared", "disjoint"} :
                  sess' = [sess EXCEPT ![req[r].s] = [@ EXCEPT !.state = "tested",
                                                               !.remoteStore = TRUE, !.history = h]]
    <3>1. CASE sess' = sess \/ sess' = [sess EXCEPT ![req[r].s].remoteStore = FALSE]
      BY <1>1, <1>8, <3>1 DEF SessionSet
    <3>2. ASSUME NEW h \in {"shared", "disjoint"},
                 sess' = [sess EXCEPT ![req[r].s] = [@ EXCEPT !.state = "tested",
                                                              !.remoteStore = TRUE, !.history = h]]
          PROVE  sess[s].state = "applied"
      <4>1. req[r].s = s => sess'[s] = [sess[s] EXCEPT !.state = "tested", !.remoteStore = TRUE,
                                                       !.history = h]
        BY <1>1, <3>2
      <4>2. req[r].s # s
        BY <1>1, <1>8, <4>1 DEF SessionSet
      <4>3. QED  BY <1>1, <1>8, <3>2, <4>2
    <3>3. QED  BY <2>1, <3>1, <3>2
  <2>2. CASE \E st \in {"created", "tested", "previewed", "committed", "error"} : SetState(req[r].s, st)
    BY <1>6, <1>8, <2>2
  <2>3. CASE Applied(r)
    BY <1>6, <1>8, <2>3 DEF Applied
  <2>4. CASE Analyze(r)
    BY <2>1, <2>2, <2>4 DEF Analyze
  <2>5. CASE ~Applied(r) /\ ~Analyze(r)
    BY <1>8, <2>1, <2>2, <2>5
       DEF Step, StoreSession, Delete, Clone, Compare, Replay, ReplayFails, WriteFact, CloseClone, Ask,
           Detach, Drain, Copy, AcquireSwapped, PersistOrigin, Finish, EndSession, sessions
  <2>6. QED  BY <2>3, <2>4, <2>5
<1>9. asked'[s] = asked[s] \/ \E r \in Requests : Applied(r) /\ req[r].s = s
  BY <1>2, <1>3, <1>4, <1>5 DEF Next
<1>10. sess'[s].state = "applied" =>
         sess[s].state = "applied" \/ \E r \in Requests : Applied(r) /\ req[r].s = s
  BY <1>5, <1>7, <1>8 DEF Next
<1>11. blurred \subseteq blurred'
  BY <1>2, <1>3, <1>4, <1>5 DEF Next
<1>12. QED  BY <1>9, <1>10, <1>11

Working(r) == req[r].op \in {"apply", "commit"}

(* Nobody else works on what a request works on.                           *)
WorksAlone ==
    \A r, d \in Requests :
        Working(r) /\ Working(d) /\ req[r].s = req[d].s /\ req[r].s \notin blurred => r = d

(* What an apply has written is of the merge, and so is what it will.      *)
HalfMerged(r) ==
    LET s == req[r].s
        m == Merged(req[r].facts, Remote[sess[s].url], req[r].with)
    IN  At(r, "apply", "write") /\ s \notin blurred =>
          \A p \in Paths : m[p] = IF p \in req[r].todo THEN req[r].facts[p] ELSE clone[s].facts[p]

(* Where a shared history leads.                                           *)
HistoryLeads(r) ==
    /\ At(r, "apply", "done") => sess[req[r].s].history = "shared"
    /\ Swaps(r) => sess[req[r].s].history # "shared"

MergeOf(s) == Merged(asked[s].facts, Remote[sess[s].url], asked[s].with)

(* A clone of its own history that nobody works on holds what was asked.   *)
Whole(s) == sess[s].history # "shared" /\ s \notin blurred => clone[s].facts = MergeOf(s)

Writing(s) == \E r \in Requests : At(r, "apply", "write") /\ req[r].s = s

MergeInv ==
    /\ WorksAlone
    /\ \A r \in Requests : HalfMerged(r) /\ HistoryLeads(r)
    /\ \A s \in Sessions : sess[s].state = "applied" => Compared(s)
    /\ current # NoSession /\ sess[current].state = "applied" /\ ~Writing(current) => Whole(current)
    /\ \A r \in Requests : req[r].op = "commit" => Whole(req[r].s)

(* The operations that work on a session are with it from the start.       *)
LEMMA WorkedBefore ==
    ASSUME TypeOK, [Next]_vars, NEW r \in Requests, Working(r)'
    PROVE  \/ /\ Working(r) /\ req'[r].op = req[r].op /\ req'[r].s = req[r].s
              /\ req[r].s \in 1..created /\ (Step(r) \/ req'[r] = req[r])
           \/ /\ Arrive(r) /\ req[r] = Idle
              /\ \E s \in Sessions : /\ s = current /\ req'[r].s = s
                                     /\ \/ StartApply(r, s) /\ req'[r].op = "apply"
                                        \/ StartCommit(r, s) /\ req'[r].op = "commit"
<1>1. CASE Arrive(r)
  BY <1>1, Arrived DEF Working
<1>2. CASE Step(r)
  BY <1>2, Stepped, OfSession DEF Working
<1>3. CASE req'[r] = req[r]
  <2>1. req[r].pc # "idle"
    BY <1>3 DEF Working, TypeOK, RequestTypes, IsRequest, Stage, CommitSteps
  <2>2. QED  BY <1>3, <2>1, OfSession DEF Working
<1>4. CASE Crash
  BY <1>4, CrashTypes DEF Working, Idle
<1>5. QED  BY <1>1, <1>2, <1>3, <1>4, Moves DEF Only

LEMMA WorksAloneNext ==
    ASSUME TypeOK, WorksAlone, [Next]_vars PROVE WorksAlone'
<1> SUFFICES ASSUME NEW r \in Requests, NEW d \in Requests, r # d, Working(r)', Working(d)',
                    req'[r].s = req'[d].s, req'[r].s \notin blurred'
             PROVE  FALSE
  BY DEF WorksAlone, Working
<1>1. req'[r].s \in Sessions
  BY WorkedBefore, SessionAssumption, CreatedNat DEF Sessions, TypeOK, SessionTypes
<1>2. req'[r].s \notin blurred
  BY <1>1, AskedKeeps
<1>3. ASSUME NEW a \in Requests, NEW b \in Requests, a # b, req'[a].s = req'[b].s, Arrive(a),
             Working(a)', Working(b)'
      PROVE  req'[a].s \in blurred'
  <2>1. PICK s \in Sessions : req'[a].s = s /\ (StartApply(a, s) \/ StartCommit(a, s))
    BY <1>3, WorkedBefore, Arrived, Stepped DEF Idle, Working
  <2>2. req'[b] = req[b]
    BY <1>3, StepTypes DEF Only
  <2>3. Overlaps(s, {"apply", "commit"})
    BY <1>3, <2>1, <2>2 DEF Overlaps, Working
  <2>4. QED  BY <2>1, <2>3 DEF StartApply, StartCommit
<1>4. ~Arrive(r) /\ ~Arrive(d)
  BY <1>3
<1>5. Working(r) /\ Working(d) /\ req[r].s = req'[r].s /\ req[d].s = req'[d].s
  BY <1>4, WorkedBefore
<1>6. QED  BY <1>2, <1>5 DEF WorksAlone

LEMMA HistoryLeadsNext ==
    ASSUME TypeOK, ComparedOnce, [Next]_vars, \A r \in Requests : HistoryLeads(r), NEW r \in Requests
    PROVE  HistoryLeads(r)'
<1>1. ASSUME Working(r), req'[r].s = req[r].s, req[r].s \in 1..created
      PROVE  sess'[req'[r].s].history = sess[req[r].s].history
  BY <1>1, ComparedKeeps DEF Working, ComparedOnce
<1>2. CASE At(r, "apply", "done")'
  <2>1. req'[r].op = "apply" /\ req'[r].pc = "done" /\ Working(r)'
    BY <1>2 DEF At, Working
  <2>2. CASE Arrive(r)
    <3>1. PICK s \in Sessions : /\ req'[r].s = s /\ StartApply(r, s)
                                /\ req'[r].pc = IF sess[s].history = "shared" THEN "done" ELSE "replay"
      BY <2>1, <2>2, Arrived
    <3>2. QED  BY <2>1, <3>1 DEF StartApply, sessions, HistoryLeads, At, Swaps
  <2>3. CASE ~Arrive(r)
    <3>1. Working(r) /\ req[r].op = "apply" /\ req'[r].s = req[r].s /\ req[r].s \in 1..created
      BY <2>1, <2>3, WorkedBefore
    <3>2. req'[r] = req[r]
      BY <2>1, <2>3, <3>1, WorkedBefore, ApplyMoves DEF Idle
    <3>3. QED  BY <1>1, <2>1, <3>1, <3>2 DEF HistoryLeads, At, Swaps
  <2>4. QED  BY <2>2, <2>3
<1>3. CASE Swaps(r)'
  <2>1. Working(r)' /\ req'[r].op = "commit"
    BY <1>3, CommitStages, NextTypes DEF Swaps, TypeOK, RequestTypes, Working
  <2>2. ~Arrive(r)
    BY <1>3, Arrived DEF Swaps
  <2>3. Working(r) /\ req[r].op = "commit" /\ req'[r].s = req[r].s /\ req[r].s \in 1..created
        /\ (Step(r) \/ req'[r] = req[r])
    BY <2>1, <2>2, WorkedBefore
  <2>4. sess[req[r].s].history # "shared"
    <3>1. CASE req'[r] = req[r] \/ Swaps(r)
      BY <1>3, <3>1 DEF Swaps, HistoryLeads
    <3>2. CASE Step(r) /\ ~Swaps(r)
      <4>1. req'[r].pc \in {"swap", "drain", "copy"} /\ req'[r] # Idle
        BY <1>3 DEF Swaps, Idle
      <4>2. Ask(r) /\ Go(r, "swap")
        BY <1>3, <3>2, SwapsFrom
      <4>3. req'[r].pc = "swap" /\ req[r].pc = "ask"
        BY <4>2, Went DEF Ask
      <4>4. req'[r].pc = IF sess[req[r].s].history = "shared" THEN "close" ELSE "swap"
        BY <2>3, <3>2, <4>1, <4>3, CommitMoves
      <4>5. QED  BY <4>3, <4>4
    <3>3. QED  BY <2>3, <3>1, <3>2
  <2>5. QED  BY <1>1, <1>3, <2>1, <2>3, <2>4 DEF HistoryLeads, At, Swaps
<1>4. QED  BY <1>2, <1>3 DEF HistoryLeads

(* Nobody but who works on a session changes its clone, once it is there,  *)
(* or what was asked of it.                                                *)
LEMMA OthersKeep ==
    ASSUME TypeOK, ComparedOnce, WorksAlone, [Next]_vars, NEW r \in Requests, Working(r),
           req[r].s \notin blurred, ~Replay(r), ~WriteFact(r)
    PROVE  /\ clone'[req[r].s].facts = clone[req[r].s].facts
           /\ ~Applied(r) => asked'[req[r].s] = asked[req[r].s]
           /\ sess'[req[r].s].url = sess[req[r].s].url
           /\ sess'[req[r].s].history = sess[req[r].s].history
<1>1. req[r].s \in 1..created /\ req[r].s \in Sessions /\ clone[req[r].s].cloned /\ Compared(req[r].s)
  <2>1. req[r].pc # "idle"
    BY DEF Working, TypeOK, RequestTypes, IsRequest, Stage, CommitSteps
  <2>2. QED  BY <2>1, OfSession DEF Working, ComparedOnce
<1>2. ASSUME NEW d \in Requests, Replay(d) \/ WriteFact(d) \/ Applied(d), req[d].s = req[r].s
      PROVE  d = r
  BY <1>2 DEF Replay, WriteFact, Applied, At, Working, WorksAlone
<1>3. QED
  BY <1>1, <1>2, ClonesKeep, AskedKeeps, SessionsKeep, ComparedKeeps

LEMMA HalfMergedNext ==
    ASSUME TypeOK, ComparedOnce, WorksAlone, [Next]_vars, NEW r \in Requests, HalfMerged(r)
    PROVE  HalfMerged(r)'
<1> SUFFICES ASSUME At(r, "apply", "write")', req'[r].s \notin blurred', NEW p \in Paths
             PROVE  Merged(req'[r].facts, Remote[sess'[req'[r].s].url], req'[r].with)[p]
                      = IF p \in req'[r].todo THEN req'[r].facts[p] ELSE clone'[req'[r].s].facts[p]
  BY DEF HalfMerged, Merged
<1>1. Working(r)' /\ req'[r].op = "apply" /\ req'[r].pc = "write"
  BY DEF At, Working
<1>2. ~Arrive(r)
  BY <1>1, Arrived
<1>3. Working(r) /\ req[r].op = "apply" /\ req'[r].s = req[r].s /\ req[r].s \in 1..created
      /\ (Step(r) \/ req'[r] = req[r])
  BY <1>1, <1>2, WorkedBefore
<1>4. req[r].s \notin blurred /\ req[r].s \in Sessions
  BY <1>3, AskedKeeps, SessionAssumption, CreatedNat DEF Sessions, TypeOK, SessionTypes
<1>5. sess'[req[r].s].url = sess[req[r].s].url
  BY <1>3, SessionsKeep
<1>6. CASE req[r].pc = "write"
  <2>1. Merged(req[r].facts, Remote[sess[req[r].s].url], req[r].with)[p]
          = IF p \in req[r].todo THEN req[r].facts[p] ELSE clone[req[r].s].facts[p]
    BY <1>3, <1>4, <1>6 DEF HalfMerged, At
  <2>2. CASE WriteFact(r)
    <3>1. PICK q \in req[r].todo :
            /\ clone'[req[r].s].facts = [clone[req[r].s].facts EXCEPT ![q] = req[r].facts[q]]
            /\ req'[r].todo = req[r].todo \ {q}
            /\ req'[r].with = req[r].with /\ req'[r].facts = req[r].facts
      <4>1. req'[r] # Idle
        BY <1>1 DEF Idle
      <4>2. Step(r)
        BY <2>2 DEF Step
      <4>3. QED  BY <1>3, <1>6, <4>1, <4>2, ApplyMoves
    <3>3. clone[req[r].s].facts \in Facts
      BY <1>4 DEF TypeOK, SessionTypes
    <3>4. clone'[req[r].s].facts[p] = IF p = q THEN req[r].facts[p] ELSE clone[req[r].s].facts[p]
      BY <3>1, <3>3 DEF Facts
    <3>5. QED  BY <1>3, <1>5, <2>1, <3>1, <3>4
  <2>3. CASE ~WriteFact(r)
    <3>1. req'[r] = req[r]
      BY <1>1, <1>3, <1>6, <2>3, ApplyMoves DEF Idle
    <3>2. ~Replay(r)
      BY <1>6 DEF Replay, At
    <3>3. clone'[req[r].s].facts = clone[req[r].s].facts
      BY <1>3, <1>4, <2>3, <3>2, OthersKeep
    <3>4. QED  BY <1>5, <2>1, <3>1, <3>3
  <2>4. QED  BY <2>2, <2>3
<1>7. CASE req[r].pc # "write"
  <2>1. Step(r)
    BY <1>1, <1>3, <1>7
  <2>2. /\ req'[r].facts = local.facts
        /\ req'[r].todo = {x \in Paths : /\ local.facts[x] # NoFact
                                         /\ req'[r].with = "local_wins" \/ BaseOf(req[r].s)[x] = NoFact}
        /\ clone'[req[r].s].facts = BaseOf(req[r].s)
        /\ BaseOf(req[r].s) = Remote[sess[req[r].s].url]
    BY <1>1, <1>3, <1>7, <2>1, ApplyMoves DEF Idle
  <2>3. QED  BY <1>3, <1>5, <2>2 DEF Merged
<1>8. QED  BY <1>6, <1>7

LEMMA AppliedCompared ==
    ASSUME TypeOK, ComparedOnce, [Next]_vars, NEW s \in Sessions, sess'[s].state = "applied",
           sess[s].state = "applied" => Compared(s)
    PROVE  s \in 1..created /\ Compared(s) /\ sess'[s].history = sess[s].history
<1>1. ASSUME NEW r \in Requests, Applied(r), req[r].s = s PROVE Compared(s)
  BY <1>1 DEF Applied, At, ComparedOnce
<1>2. Compared(s)
  BY <1>1, AskedKeeps
<1>3. s \in 1..created
  <2>1. s <= created
    BY <1>2 DEF TypeOK, SessionTypes, Unborn, Compared
  <2>2. QED  BY <2>1, CreatedNat DEF Sessions, TypeOK
<1>4. QED  BY <1>2, <1>3, ComparedKeeps

LEMMA ReadyNext ==
    ASSUME TypeOK, ComparedOnce, MergeInv, [Next]_vars,
           current' # NoSession, sess'[current'].state = "applied", ~Writing(current)'
    PROVE  Whole(current)'
<1> SUFFICES ASSUME sess'[current'].history # "shared", current' \notin blurred'
             PROVE  clone'[current'].facts = MergeOf(current)'
  BY DEF Whole
<1>1. current' = current
  <2> SUFFICES ASSUME current' \notin {current, NoSession} PROVE FALSE
    OBVIOUS
  <2>1. PICK r \in Requests : StoreSession(r) /\ current' = req[r].s
    BY CurrentMoves
  <2>2. SetState(req[r].s, "created") /\ req[r].s \in Sessions
    BY <2>1, OfSession DEF StoreSession, At
  <2>3. QED  BY <2>1, <2>2 DEF SetState, TypeOK, SessionTypes, SessionSet
<1>2. current \in Sessions
  BY <1>1, CreatedNat, SessionAssumption DEF Sessions, TypeOK, SessionTypes
<1>3. /\ current \in 1..created /\ Compared(current) /\ clone[current].cloned
      /\ sess[current].history # "shared" /\ current \notin blurred
      /\ sess'[current].url = sess[current].url
  BY <1>1, <1>2, AppliedCompared, AskedKeeps, SessionsKeep DEF MergeInv, ComparedOnce
<1>4. ASSUME NEW r \in Requests, Applied(r), req[r].s = current
      PROVE  clone'[current'].facts = MergeOf(current)'
  <2>1. At(r, "apply", "write") /\ req[r].todo = {}
    BY <1>3, <1>4 DEF Applied, MergeInv, HistoryLeads
  <2>2. clone' = clone /\ asked' = [asked EXCEPT ![current] = [facts |-> req[r].facts, with |-> req[r].with]]
    BY <1>4 DEF Applied
  <2>3. asked'[current].facts = req[r].facts /\ asked'[current].with = req[r].with
    BY <1>2, <2>2 DEF TypeOK, SessionTypes
  <2>4. clone[current].facts \in [Paths -> Versions \cup {NoFact}]
    BY <1>2 DEF TypeOK, SessionTypes, Facts
  <2>5. \A p \in Paths : Merged(req[r].facts, Remote[sess[current].url], req[r].with)[p] = clone[current].facts[p]
    BY <1>3, <1>4, <2>1 DEF MergeInv, HalfMerged
  <2>6. clone[current].facts = Merged(req[r].facts, Remote[sess[current].url], req[r].with)
    BY <2>4, <2>5 DEF Merged
  <2>7. QED  BY <1>1, <1>3, <2>2, <2>3, <2>6 DEF MergeOf
<1>5. ASSUME \A r \in Requests : ~(Applied(r) /\ req[r].s = current)
      PROVE  clone'[current'].facts = MergeOf(current)'
  <2>1. sess[current].state = "applied" /\ asked'[current] = asked[current]
    BY <1>1, <1>2, <1>5, AskedKeeps
  <2>2. ~Writing(current)
    <3> SUFFICES ASSUME NEW r \in Requests, At(r, "apply", "write"), req[r].s = current PROVE FALSE
      BY DEF Writing
    <3>1. CASE Step(r)
      BY <1>1, <1>5, <3>1, ApplyMoves DEF Writing, At, Replay
    <3>2. CASE req'[r] = req[r]
      BY <1>1, <3>2 DEF Writing, At
    <3>3. CASE Arrive(r)
      BY <3>3, Arrived DEF Idle, At
    <3>4. CASE Crash
      BY <3>4 DEF Crash
    <3>5. QED  BY <3>1, <3>2, <3>3, <3>4, Moves DEF Only
  <2>3. clone[current].facts = MergeOf(current)
    BY <1>1, <1>3, <2>1, <2>2 DEF MergeInv, Whole
  <2>4. ASSUME NEW r \in Requests, Replay(r) \/ WriteFact(r), req[r].s = current, clone' # clone
        PROVE  FALSE
    BY <1>1, <2>2, <2>4, ApplyMoves DEF Writing, At, Replay, WriteFact, Step, Applied
  <2>5. clone'[current].facts = clone[current].facts
    BY <1>2, <1>3, <2>4, ClonesKeep
  <2>6. QED  BY <1>1, <1>3, <2>1, <2>3, <2>5 DEF MergeOf
<1>6. QED  BY <1>4, <1>5

LEMMA CommittedNext ==
    ASSUME TypeOK, ComparedOnce, MergeInv, [Next]_vars, NEW r \in Requests, req'[r].op = "commit"
    PROVE  Whole(req[r].s)'
<1> SUFFICES ASSUME sess'[req'[r].s].history # "shared", req'[r].s \notin blurred'
             PROVE  clone'[req'[r].s].facts = MergeOf(req[r].s)'
  BY DEF Whole
<1>1. CASE Arrive(r)
  <2>1. PICK s \in Sessions : s = current /\ req'[r].s = s /\ StartCommit(r, s)
    BY <1>1, Arrived
  <2>2. sess[s].state = "applied" /\ sess' = sess /\ clone' = clone /\ asked' = asked
    BY <2>1 DEF StartCommit, sessions
  <2>3. s \notin blurred /\ ~Overlaps(s, {"apply", "commit"})
    BY <2>1 DEF StartCommit
  <2>4. ~Writing(s)
    BY <2>3 DEF Writing, Overlaps, At
  <2>5. QED
    BY <2>1, <2>2, <2>3, <2>4, NoValueAssumption DEF MergeInv, Whole, MergeOf
<1>2. CASE ~Arrive(r)
  <2>1. Working(r) /\ req[r].op = "commit" /\ req'[r].s = req[r].s /\ req[r].s \in 1..created
    BY <1>2, WorkedBefore DEF Working
  <2>2. req[r].s \notin blurred
    BY <2>1, AskedKeeps, SessionAssumption, CreatedNat DEF Sessions, TypeOK, SessionTypes
  <2>3. ~Replay(r) /\ ~WriteFact(r) /\ ~Applied(r)
    BY <2>1 DEF Replay, WriteFact, Applied, At
  <2>4. QED
    BY <2>1, <2>2, <2>3, OthersKeep DEF MergeInv, Whole, MergeOf
<1>3. QED  BY <1>1, <1>2

LEMMA MergeNext ==
    ASSUME TypeOK, ComparedOnce, MergeInv, [Next]_vars PROVE MergeInv'
<1>1. WorksAlone'
  BY WorksAloneNext DEF MergeInv
<1>2. ASSUME NEW r \in Requests PROVE HalfMerged(r)' /\ HistoryLeads(r)'
  BY HalfMergedNext, HistoryLeadsNext DEF MergeInv
<1>3. ASSUME NEW s \in Sessions, sess'[s].state = "applied" PROVE Compared(s)'
  BY <1>3, AppliedCompared DEF MergeInv, Compared
<1>4. current' # NoSession /\ sess'[current'].state = "applied" /\ ~Writing(current)' => Whole(current)'
  BY ReadyNext
<1>5. ASSUME NEW r \in Requests, req'[r].op = "commit" PROVE Whole(req[r].s)'
  BY <1>5, CommittedNext
<1>6. QED  BY <1>1, <1>2, <1>3, <1>4, <1>5 DEF MergeInv

(* What a commit installs is the whole merge of the remote with the local  *)
(* facts as the last apply found them.                                     *)
THEOREM MergeCorrect == Spec => SwapInstallsMerge
<1>1. ASSUME TypeOK, MergeInv, [Next]_vars, NEW r \in Requests,
             req[r].pc = "copy", req'[r].pc = "acquire", req[r].s \notin blurred
      PROVE  local'.facts = Merged(asked[req[r].s].facts, Remote[sess[req[r].s].url], asked[req[r].s].with)
  <2>1. Step(r) /\ req[r].op = "commit"
    BY <1>1, Moves, Arrived, CommitOp DEF Only, Idle
  <2>2. Copy(r)
    BY <1>1, <2>1, CommitMoves
  <2>3. local' = [facts |-> clone[req[r].s].facts, kb |-> sess[req[r].s].url]
    BY <1>1, <2>2, Returned DEF Copy, SwapFails
  <2>4. sess[req[r].s].history # "shared"
    BY <1>1 DEF MergeInv, HistoryLeads, Swaps
  <2>5. QED  BY <1>1, <2>1, <2>3, <2>4 DEF MergeInv, Whole, MergeOf
<1>2. Init => MergeInv
  BY DEF Init, MergeInv, WorksAlone, Working, HalfMerged, HistoryLeads, At, Swaps, Idle, Unborn
<1>3. TypeOK /\ MergeInv /\ [Next]_vars =>
        \A r \in Requests :
          LET s == req[r].s
          IN  req[r].pc = "copy" /\ req'[r].pc = "acquire" /\ s \notin blurred
                => local'.facts = Merged(asked[s].facts, Remote[sess[s].url], asked[s].with)
  BY <1>1
<1>4. QED
  BY <1>2, <1>3, InitTypes, NextTypes, ComparedInit, ComparedNext, MergeNext, PTL DEF Spec, SwapInstallsMerge
=============================================================================
