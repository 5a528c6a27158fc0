---------------------------- MODULE OriginConnect ---------------------------
(***************************************************************************)
(* Connecting a repository to an origin (internal/web/origin_session.go,   *)
(* handlers_origin_session.go, internal/store/replay.go): a session clones *)
(* the remote, the local facts are replayed into the clone, and the commit *)
(* puts the clone in the place of the repository's database.               *)
(*                                                                         *)
(* The steps are HTTP requests, and nothing but the state of the session   *)
(* orders them: a handler reads it under sess.mu, lets go, works, and      *)
(* writes it at the end.  Handlers overlap, their session may be replaced, *)
(* deleted or expire under them, and agents write to the repository all    *)
(* the time.  One action is what a handler does under one lock, on one     *)
(* database, or between two such.                                          *)
(***************************************************************************)
EXTENDS Integers, FiniteSets

CONSTANTS
    MaxSession,  \* sessions are numbered as they are created
    Paths,
    Urls,
    Remote,      \* the facts of each remote, a path to a version
    Matched,     \* URLs whose remote has a branch of this agent
    Homes,       \* what the repository may hold at first: [facts, kb]
    Requests,    \* concurrent requests
    Own, NoFact, NoUrl, NoSession,
    Budget       \* bound on each kind of event

Events     == {"call", "world"}
Sessions   == 1..MaxSession
Strategies == {"local_wins", "remote_wins"}
Versions   == Urls \cup 0..Budget["world"]
Facts      == [Paths -> Versions \cup {NoFact}]

ASSUME SessionAssumption == MaxSession \in Nat
ASSUME RemoteAssumption  == Remote \in [Urls -> Facts] /\ Matched \subseteq Urls
ASSUME HomeAssumption    == Homes \subseteq [facts : Facts, kb : Urls \cup {Own}]
ASSUME NoValueAssumption == Own \notin Urls /\ NoUrl \notin Urls /\ NoFact \notin Versions
                            /\ NoSession \notin Sessions
ASSUME BudgetAssumption  == Budget \in [Events -> Nat]

VARIABLES
    local,    \* the repository's database: its facts and knowledge base
    gen,      \* the attached generation of its store, 0 while detached
    gens,     \* generations so far
    origin,   \* control.db: the origin of the repository
    held,     \* knowledge bases of the other active repositories
    current,  \* SessionManager.sessions, for this repository
    created,  \* sessions so far
    sess,     \* OriginSession: what is common to its handlers
    clone,    \* <TempDir>/clone.db, and whether its handle is open
    dirs,     \* sessions whose temporary directory exists
    req,      \* where each request is
    budget,   \* what is left of each event
    asked,    \* ghost: what the last finished apply was given
    blurred,  \* ghost: sessions whose applies and commits overlapped
    raced,    \* ghost: two commits overlapped, the current session was found to share its
              \* history with what another's swap then replaced, or an origin was not recorded
    late,     \* ghost: knowledge bases taken after the last question
    strays    \* ghost: directories lost to a race or a crash

store    == <<local, gen, gens>>
sessions == <<current, created, sess, clone, dirs>>
world    == <<origin, held>>
ghosts   == <<asked, blurred, raced, late, strays>>
vars     == <<store, world, sessions, req, budget, ghosts>>

Spend(e) == budget[e] > 0 /\ budget' = [budget EXCEPT ![e] = @ - 1]

(* A step fails because it must, or because of an error from outside.      *)
Fails(must) == IF must THEN UNCHANGED budget ELSE Spend("world")

Unborn  == [state |-> "unborn", url |-> NoUrl, history |-> "unknown", remoteStore |-> FALSE]
NoClone == [cloned |-> FALSE, open |-> FALSE, facts |-> [p \in Paths |-> NoFact]]

-----------------------------------------------------------------------------
(* Requests.                                                               *)

Idle == [op |-> "none", pc |-> "idle", s |-> NoSession, pin |-> 0, todo |-> {},
         with |-> "local_wins", facts |-> [p \in Paths |-> NoFact]]

At(r, op, pc) == req[r].op = op /\ req[r].pc = pc

(* mutant: the reference to the store is not given back                    *)
ReturnHolding(r) == req' = [req EXCEPT ![r] = [Idle EXCEPT !.pin = req[r].pin]]

(* A handler returns; its deferred release gives the store back.           *)
Return(r) == req' = [req EXCEPT ![r] = Idle]
Go(r, pc) == req' = [req EXCEPT ![r].pc = pc]

(* mutant: commit, too, acquires the store before it swaps it              *)
PinAlways(op) == gen

(* Acquire at the start of a handler: nothing while the store is detached. *)
PinFor(op) == IF op \in {"test", "preview", "apply"} THEN gen ELSE 0

(* A handler begins with what sm.Get, or the map, gives it.                *)
Begin(r, op, pc, s) ==
    /\ req[r] = Idle
    /\ req' = [req EXCEPT ![r] = [Idle EXCEPT !.op = op, !.pc = pc, !.s = s, !.pin = PinFor(op)]]

Get(s) == current = s

Overlaps(s, ops) == \E r \in Requests : req[r].s = s /\ req[r].op \in ops

SetState(s, st) == sess' = [sess EXCEPT ![s].state = st]

(* The entry of the map goes, whichever session it holds by now, and then  *)
(* the directory of the session that was looked at.                        *)
Evict(s) ==
    /\ current' = NoSession
    /\ dirs' = dirs \ {s}
    /\ strays' = IF current \in {s, NoSession} THEN strays ELSE strays \cup {current}

-----------------------------------------------------------------------------
(* Creating and ending sessions.                                           *)

(* mutant: the session that is replaced keeps its directory                *)
ReplaceOnly == UNCHANGED dirs

DeleteByRepo == dirs' = dirs \ {current}

(* Create, first half: deleteByRepo.                                       *)
StartCreate(r) ==
    /\ created < MaxSession
    /\ created' = created + 1
    /\ \E u \in Urls : sess' = [sess EXCEPT ![created'].url = u]
    /\ Begin(r, "create", "store", created')
    /\ DeleteByRepo
    /\ current' = NoSession
    /\ UNCHANGED <<store, world, clone, budget, ghosts>>

(* Second half: a directory, and Store over whatever is there by now.      *)
StoreSession(r) ==
    /\ At(r, "create", "store")
    /\ \/ /\ current' = req[r].s
          /\ dirs' = dirs \cup {req[r].s}
          /\ SetState(req[r].s, "created")
          /\ strays' = IF current = NoSession THEN strays ELSE strays \cup {current}
          /\ UNCHANGED budget
       \/ /\ Spend("world")
          /\ UNCHANGED <<current, dirs, sess, strays>>
    /\ Return(r)
    /\ UNCHANGED <<store, world, created, clone, asked, blurred, raced, late>>

(* Delete, and runCleanup, which expires what no request has begun on for  *)
(* ten minutes: a handler may have been running for as long.               *)
StartDelete(r) ==
    /\ current # NoSession
    /\ Spend("call")
    /\ Begin(r, "delete", "evict", current)
    /\ UNCHANGED <<store, world, sessions, ghosts>>

Delete(r) ==
    /\ At(r, "delete", "evict")
    /\ Evict(req[r].s)
    /\ Return(r)
    /\ UNCHANGED <<store, world, created, sess, clone, budget, asked, blurred, raced, late>>

-----------------------------------------------------------------------------
(* Test: clone the remote, and tell shared history from disjoint.          *)

StartTest(r, s) ==
    /\ Get(s)
    /\ Spend("call")
    /\ Begin(r, "test", "clone", s)
    /\ UNCHANGED <<store, world, sessions, ghosts>>

(* A second clone into the same database is refused by go-git.             *)
Clone(r) ==
    /\ At(r, "test", "clone")
    /\ LET s == req[r].s
       IN  \/ /\ s \in dirs /\ ~clone[s].cloned
              /\ clone' = [clone EXCEPT ![s] = [cloned |-> TRUE, open |-> TRUE,
                                                facts |-> Remote[sess[s].url]]]
              /\ Go(r, "analyze")
              /\ UNCHANGED <<sess, budget>>
           \/ /\ s \in dirs
              /\ Fails(clone[s].cloned)
              /\ SetState(s, "error")
              /\ Return(r)
              /\ clone' = [clone EXCEPT ![s].cloned = TRUE]
           \/ /\ Fails(s \notin dirs)
              /\ Return(r)
              /\ UNCHANGED <<sess, clone>>
    /\ UNCHANGED <<store, world, current, created, dirs, ghosts>>

(* mutant: nobody else is asked                                            *)
NobodyHolds(u) == FALSE

HeldByAnother(u) == u \in held

(* The root commits are compared on the store pinned at the start; without *)
(* one, or on an error, the histories count as disjoint.                   *)
Analyze(r) ==
    /\ At(r, "test", "analyze")
    /\ LET s == req[r].s
           u == sess[s].url
       IN  \/ /\ Fails(HeldByAnother(u))
              /\ SetState(s, "error")
              /\ clone' = [clone EXCEPT ![s].open = FALSE]
           \/ /\ ~HeldByAnother(u)
              /\ \/ /\ req[r].pin # 0 /\ local.kb = u
                    /\ sess' = [sess EXCEPT ![s] = [@ EXCEPT !.state = "tested",
                                  !.remoteStore = TRUE, !.history = "shared"]]
                    /\ UNCHANGED budget
                 \/ /\ Fails(req[r].pin = 0 \/ local.kb # u)
                    /\ sess' = [sess EXCEPT ![s] = [@ EXCEPT !.state = "tested",
                                  !.remoteStore = TRUE, !.history = "disjoint"]]
              /\ UNCHANGED clone
    /\ Return(r)
    /\ UNCHANGED <<store, world, current, created, dirs, ghosts>>

-----------------------------------------------------------------------------
(* Preview and apply.                                                      *)

Ready(s) == sess[s].state \in {"tested", "previewed", "applied"} /\ sess[s].remoteStore

StartPreview(r, s) ==
    /\ Get(s) /\ Ready(s)
    /\ Spend("call")
    /\ Begin(r, "preview", "compare", s)
    /\ UNCHANGED <<store, world, sessions, ghosts>>

(* Whatever the state is by now, it is "previewed" next.                   *)
Compare(r) ==
    /\ At(r, "preview", "compare")
    /\ SetState(req[r].s, "previewed")
    /\ Return(r)
    /\ UNCHANGED <<store, world, current, created, clone, dirs, budget, ghosts>>

StartApply(r, s) ==
    /\ Get(s) /\ Ready(s)
    /\ Spend("call")
    /\ Begin(r, "apply", IF sess[s].history = "shared" THEN "done" ELSE "replay", s)
    /\ blurred' = IF Overlaps(s, {"apply", "commit"}) THEN blurred \cup {s} ELSE blurred
    /\ UNCHANGED <<store, world, sessions, asked, raced, late, strays>>

(* mutant: a failed replay leaves the session in its state                 *)
ReplayStops(r) == Return(r) /\ UNCHANGED sess

ReplayFails(r) == Return(r) /\ SetState(req[r].s, "error")

(* The branch the facts go to: a branch of this agent on the remote is     *)
(* gone on with, another one made anew from the remote's main.             *)
BaseOf(s) == IF sess[s].url \in Matched THEN clone[s].facts ELSE Remote[sess[s].url]

(* Replay starts: the branch, and the list of local facts.                 *)
Replay(r) ==
    /\ At(r, "apply", "replay")
    /\ LET s    == req[r].s
           base == BaseOf(s)
       IN  \/ /\ clone[s].open /\ req[r].pin # 0
              /\ clone' = [clone EXCEPT ![s].facts = base]
              /\ \E w \in Strategies :
                   req' = [req EXCEPT ![r] = [@ EXCEPT !.pc = "write", !.with = w, !.facts = local.facts,
                       !.todo = {p \in Paths : /\ local.facts[p] # NoFact
                                               /\ w = "local_wins" \/ base[p] = NoFact}]]
              /\ blurred' = IF base # Remote[sess[s].url] THEN blurred \cup {s} ELSE blurred
              /\ UNCHANGED <<sess, budget>>
           \/ /\ req[r].pin # 0
              /\ Fails(~clone[s].open)
              /\ ReplayFails(r)
              /\ UNCHANGED <<clone, blurred>>
           \/ /\ req[r].pin = 0
              /\ Return(r)
              /\ UNCHANGED <<sess, clone, budget, blurred>>
    /\ UNCHANGED <<store, world, current, created, dirs, asked, raced, late, strays>>

(* One commit for each fact.                                               *)
WriteFact(r) ==
    /\ At(r, "apply", "write")
    /\ \E p \in req[r].todo :
         LET s == req[r].s
         IN  \/ /\ clone[s].open
                /\ clone' = [clone EXCEPT ![s].facts[p] = req[r].facts[p]]
                /\ req' = [req EXCEPT ![r].todo = @ \ {p}]
                /\ UNCHANGED <<sess, budget>>
             \/ /\ Fails(~clone[s].open)
                /\ ReplayFails(r)
                /\ UNCHANGED clone
    /\ UNCHANGED <<store, world, current, created, dirs, ghosts>>

Applied(r) ==
    /\ At(r, "apply", "write") \/ At(r, "apply", "done")
    /\ req[r].todo = {}
    /\ SetState(req[r].s, "applied")
    /\ asked' = [asked EXCEPT ![req[r].s] = [facts |-> req[r].facts, with |-> req[r].with]]
    /\ Return(r)
    /\ UNCHANGED <<store, world, current, created, clone, dirs, budget, blurred, raced, late, strays>>

-----------------------------------------------------------------------------
(* Commit.  What the ontology gate refuses does not begin.                 *)

StartCommit(r, s) ==
    /\ Get(s)
    /\ sess[s].state = "applied" /\ sess[s].remoteStore
    /\ Spend("call")
    /\ Begin(r, "commit", IF sess[s].history = "shared" THEN "ask" ELSE "close", s)
    /\ blurred' = IF Overlaps(s, {"apply", "commit"}) THEN blurred \cup {s} ELSE blurred
    /\ raced' = (raced \/ \E d \in Requests : req[d].op = "commit")
    /\ UNCHANGED <<store, world, sessions, asked, late, strays>>

(* The clone is closed and detached from the session.                      *)
CloseClone(r) ==
    /\ req[r].pc = "close"
    /\ clone' = [clone EXCEPT ![req[r].s].open = FALSE]
    /\ sess' = [sess EXCEPT ![req[r].s].remoteStore = FALSE]
    /\ IF sess[req[r].s].history = "shared"
       THEN req' = [req EXCEPT ![r] = [@ EXCEPT !.pc = "persist", !.pin = gen]]
       ELSE Go(r, "ask")
    /\ UNCHANGED <<store, world, current, created, dirs, budget, ghosts>>

(* The last question whether another repository holds the knowledge base.  *)
(* It is not asked of a clone that cannot be opened.                       *)
Ask(r) ==
    /\ req[r].pc = "ask"
    /\ LET s    == req[r].s
           next == IF sess[s].history = "shared" THEN "close" ELSE "swap"
       IN  \/ /\ s \in dirs \/ sess[s].history = "shared"
              /\ IF HeldByAnother(sess[s].url) THEN Return(r) ELSE Go(r, next)
              /\ UNCHANGED <<budget, late>>
           \/ Spend("world") /\ Return(r) /\ UNCHANGED late
           \/ /\ sess[s].history # "shared"
              /\ Fails(s \notin dirs)
              /\ Go(r, next)
              /\ late' = late \cup {sess[s].url}
    /\ UNCHANGED <<store, world, sessions, asked, blurred, raced, strays>>

(* SwapStore detaches the store, waits for those who use it ...            *)
Detach(r) ==
    /\ req[r].pc = "swap"
    /\ gen' = 0
    /\ req' = [req EXCEPT ![r] = [@ EXCEPT !.pc = "drain", !.todo = {gen}]]
    /\ UNCHANGED <<local, gens, world, sessions, budget, ghosts>>

Drain(r) ==
    /\ req[r].pc = "drain"
    /\ \A d \in Requests : req[d].pin \notin req[r].todo \ {0}
    /\ req' = [req EXCEPT ![r] = [@ EXCEPT !.pc = "copy", !.todo = {}]]
    /\ UNCHANGED <<store, world, sessions, budget, ghosts>>

Attach == gens' = gens + 1 /\ gen' = gens'

(* mutant: the commit goes on after a failed swap                          *)
GoOn(r) == Go(r, "acquire")

SwapFails(r) == Return(r)

(* ... copies the clone over the database, or takes the backup, reopens.   *)
Copy(r) ==
    /\ req[r].pc = "copy"
    /\ LET s == req[r].s
       IN  \/ /\ s \in dirs
              /\ local' = [facts |-> clone[s].facts, kb |-> sess[s].url]
              /\ raced' = (raced \/ (current \notin {s, NoSession} /\ sess[current].history = "shared"))
              /\ Go(r, "acquire")
              /\ UNCHANGED budget
           \/ /\ Fails(s \notin dirs)
              /\ SwapFails(r)
              /\ UNCHANGED <<local, raced>>
    /\ Attach
    /\ UNCHANGED <<world, sessions, asked, blurred, late, strays>>

(* Only after the swap does commit acquire the store itself.               *)
AcquireSwapped(r) ==
    /\ req[r].pc = "acquire"
    /\ req' = [req EXCEPT ![r] = [@ EXCEPT !.pc = "persist", !.pin = gen]]
    /\ UNCHANGED <<store, world, sessions, budget, ghosts>>

(* persistSessionOrigin: a failure is a warning.  Without a store a swap   *)
(* goes on, and a shared history gives up.                                 *)
PersistOrigin(r) ==
    /\ req[r].pc = "persist"
    /\ LET s == req[r].s
       IN  \/ /\ req[r].pin # 0
              /\ origin' = sess[s].url
              /\ Go(r, "finish")
              /\ UNCHANGED <<budget, raced>>
           \/ /\ Fails(req[r].pin = 0)
              /\ IF req[r].pin = 0 /\ sess[s].history = "shared" THEN Return(r) ELSE Go(r, "finish")
              /\ raced' = TRUE
              /\ UNCHANGED origin
    /\ UNCHANGED <<store, held, sessions, asked, blurred, late, strays>>

(* The index is rebuilt, the loops start (BranchIndex, RepoRuntime).       *)
Finish(r) ==
    /\ req[r].pc = "finish"
    /\ SetState(req[r].s, "committed")
    /\ IF Get(req[r].s) THEN Go(r, "evict") ELSE Return(r)
    /\ UNCHANGED <<store, world, current, created, clone, dirs, budget, ghosts>>

EndSession(r) ==
    /\ At(r, "commit", "evict")
    /\ Evict(req[r].s)
    /\ Return(r)
    /\ UNCHANGED <<store, world, created, sess, clone, budget, asked, blurred, raced, late>>

-----------------------------------------------------------------------------
(* The world around.                                                       *)

(* An agent writes or deletes a fact; one that holds the store still may,  *)
(* while it is being drained.                                              *)
Write(p) ==
    /\ gen # 0 \/ \E r \in Requests : req[r].pc = "drain"
    /\ Spend("world")
    /\ \E v \in {budget["world"], NoFact} : local' = [local EXCEPT !.facts[p] = v]
    /\ UNCHANGED <<gen, gens, world, sessions, req, ghosts>>

(* Another repository with the knowledge base becomes active: the registry *)
(* refuses what this one holds.                                            *)
OtherTakes(u) ==
    /\ u \notin held /\ u # local.kb
    /\ Spend("world")
    /\ held' = held \cup {u}
    /\ late' = IF \E r \in Requests : req[r].pc \in {"swap", "drain", "copy"} /\ sess[req[r].s].url = u
               THEN late \cup {u} ELSE late
    /\ UNCHANGED <<store, origin, sessions, req, asked, blurred, raced, strays>>

(* The process ends -- not in the middle of the copy, which leaves half a  *)
(* database and its backup: nothing at start looks for it.                 *)
Crash ==
    /\ Spend("world")
    /\ \A r \in Requests : req[r].pc # "copy"
    /\ Attach
    /\ req' = [r \in Requests |-> Idle]
    /\ current' = NoSession
    /\ strays' = dirs
    /\ clone' = [s \in Sessions |-> [clone[s] EXCEPT !.open = FALSE]]
    /\ raced' = (raced \/ \E r \in Requests : req[r].pc \in {"acquire", "persist"})
    /\ UNCHANGED <<local, world, created, sess, dirs, asked, blurred, late>>

-----------------------------------------------------------------------------
Init ==
    /\ local \in Homes
    /\ gen = 1 /\ gens = 1
    /\ origin = IF local.kb = Own THEN NoUrl ELSE local.kb
    /\ held = {}
    /\ current = NoSession /\ created = 0
    /\ sess = [s \in Sessions |-> Unborn]
    /\ clone = [s \in Sessions |-> NoClone]
    /\ dirs = {}
    /\ req = [r \in Requests |-> Idle]
    /\ budget = Budget
    /\ asked = [s \in Sessions |-> [facts |-> NoClone.facts, with |-> "local_wins"]]
    /\ blurred = {} /\ raced = FALSE /\ late = {} /\ strays = {}

(* A request that has begun goes on.                                       *)
Step(r) ==
    \/ StoreSession(r) \/ Delete(r) \/ Clone(r) \/ Analyze(r) \/ Compare(r)
    \/ Replay(r) \/ WriteFact(r) \/ Applied(r)
    \/ CloseClone(r) \/ Ask(r) \/ Detach(r) \/ Drain(r) \/ Copy(r)
    \/ AcquireSwapped(r) \/ PersistOrigin(r) \/ Finish(r) \/ EndSession(r)

Arrive(r) ==
    \/ StartCreate(r) \/ StartDelete(r)
    \/ \E s \in Sessions : StartTest(r, s) \/ StartPreview(r, s) \/ StartApply(r, s) \/ StartCommit(r, s)

Next ==
    \/ \E r \in Requests : Arrive(r) \/ Step(r)
    \/ \E p \in Paths : Write(p)
    \/ \E u \in Urls : OtherTakes(u)
    \/ Crash

Spec == Init /\ [][Next]_vars

-----------------------------------------------------------------------------
(* Properties.                                                             *)

SessionSet == [state : {"unborn", "created", "tested", "previewed", "applied", "committed", "error"},
               url : Urls \cup {NoUrl}, history : {"unknown", "shared", "disjoint"},
               remoteStore : BOOLEAN]

(* Where the handler of each operation can be.                             *)
CommitSteps == {"ask", "close", "swap", "drain", "copy", "acquire", "persist", "finish", "evict"}

Stage(op, pc) ==
    \/ op = "none" /\ pc = "idle"
    \/ op = "create" /\ pc = "store"
    \/ op = "delete" /\ pc = "evict"
    \/ op = "test" /\ pc \in {"clone", "analyze"}
    \/ op = "preview" /\ pc = "compare"
    \/ op = "apply" /\ pc \in {"replay", "write", "done"}
    \/ op = "commit" /\ pc \in CommitSteps

RequestSet == [op : {"none", "create", "delete", "test", "preview", "apply", "commit"},
               pc : {"idle", "store", "clone", "analyze", "compare", "replay", "write", "done"}
                    \cup CommitSteps,
               s : Sessions \cup {NoSession}, pin : Nat, todo : SUBSET (Paths \cup Nat),
               with : Strategies, facts : Facts]

(* A request, after n sessions.                                            *)
IsRequest(q, n) ==
    /\ q \in RequestSet /\ Stage(q.op, q.pc)
    /\ IF q.op = "none" THEN q = Idle ELSE q.s \in 1..n
    /\ q.pc = "write" => q.todo \subseteq Paths

WorldTypes ==
    /\ local \in [facts : Facts, kb : Urls \cup {Own}]
    /\ gens \in Nat /\ gen \in 0..gens
    /\ origin \in Urls \cup {NoUrl} /\ held \subseteq Urls
    /\ budget \in [Events -> Nat] /\ \A e \in Events : budget[e] <= Budget[e]

SessionTypes ==
    /\ created \in 0..MaxSession /\ current \in 1..created \cup {NoSession}
    /\ sess \in [Sessions -> SessionSet]
    /\ \A s \in Sessions : IF s <= created THEN sess[s].url \in Urls ELSE sess[s] = Unborn
    /\ clone \in [Sessions -> [cloned : BOOLEAN, open : BOOLEAN, facts : Facts]]
    /\ asked \in [Sessions -> [facts : Facts, with : Strategies]]
    /\ dirs \subseteq 1..created

RequestTypes ==
    DOMAIN req = Requests /\ \A r \in Requests : IsRequest(req[r], created)

TypeOK == WorldTypes /\ SessionTypes /\ RequestTypes

(* The union of two sets of facts, under a strategy for what both have.    *)
Merged(l, r, strategy) ==
    [p \in Paths |-> IF l[p] # NoFact /\ (r[p] = NoFact \/ strategy = "local_wins")
                     THEN l[p] ELSE r[p]]

(* What a commit installs is the whole merge of the remote with the local  *)
(* facts as the last successful apply found them: after failed, repeated   *)
(* and abandoned applies, previews, replaced sessions and failed commits.  *)
(* (Not when an apply overlaps another or a commit of the same session, or *)
(* goes on with the agent's branch an earlier one has written.)            *)
SwapInstallsMerge ==
    [][ \A r \in Requests :
          LET s == req[r].s
          IN  req[r].pc = "copy" /\ req'[r].pc = "acquire" /\ s \notin blurred
                => local'.facts = Merged(asked[s].facts, Remote[sess[s].url], asked[s].with) ]_vars

(* When no commit is running, control.db names the remote whose knowledge  *)
(* base the repository holds -- unless it could not be recorded, two       *)
(* commits overlapped, or a swap made a later session's comparison stale.  *)
OriginFollowsStore ==
    (~raced /\ \A r \in Requests : req[r].op # "commit")
        => origin = IF local.kb = Own THEN NoUrl ELSE local.kb

(* A knowledge base is not taken over that another repository held when    *)
(* the commit asked for the last time (and could ask).                     *)
OneCopy == local.kb \in held => local.kb \in late

(* At any moment the directory of every session but the current one is     *)
(* gone, and that one's is there: however sessions were replaced, deleted  *)
(* or committed, short of a lost race in the map.                          *)
DirsAreTracked ==
    dirs \ strays \subseteq {current} /\ (current # NoSession => current \in dirs \cup strays)

(* No handler waits for ever: whom a swap waits for, to give back the old  *)
(* store, is never itself waiting for one to do so.                        *)
NoCircularWait ==
    \A r, d \in Requests : req[r].pc = "drain" /\ req[d].pc = "drain"
        => req[d].pin \notin req[r].todo \ {0}
-----------------------------------------------------------------------------
(* What a comment of the code says, and the code does not do.              *)

(* handlers_origin_session.go, handleCommit: after the swap "the local     *)
(* store already IS the merged result" -- of what the repository holds,    *)
(* with no proviso on writes since the apply.                              *)
SwapMergesLocal ==
    [][ \A r \in Requests :
          LET s == req[r].s
          IN  req[r].pc = "copy" /\ req'[r].pc = "acquire" /\ s \notin blurred
                => local'.facts = Merged(local.facts, Remote[sess[s].url], asked[s].with) ]_vars
=============================================================================
