----------------------------- MODULE BranchSync -----------------------------
(***************************************************************************)
(* One repository of the store synchronising with its origin server        *)
(* (internal/store/remote_sync.go, remote_reconcile*.go, branch_merge.go,  *)
(* fact_write.go, repo.go; the loop of internal/repos/sync.go).            *)
(*                                                                         *)
(* Facts are written on the agent's branch.  A tick of the reconcile loop  *)
(* fetches, moves local main to what was fetched, merges main into the     *)
(* agent branch -- or, when main was rewritten, replays the agent's own    *)
(* commits onto it -- and force-pushes the agent branch.  Local writes run *)
(* between the steps of a tick, which takes the agent's branch lock only   *)
(* inside a step; the replay alone holds it across steps.  The origin's    *)
(* main is moved by others at any time.                                    *)
(***************************************************************************)
EXTENDS CommitGraph

CONSTANTS
    Starts,     \* the ways the repository came to be, of StartKinds
    Roots,      \* the trees a root commit may hold
    Changes,    \* the batches written: a record of files and deletes
    Budget,     \* how often each bounded event may happen: BudgetKinds -> Nat
    Left,       \* what may be left of it: which events may come together
    NoWrite     \* the agent has not written the path

StartKinds  == {"cloned", "takenOver", "emptyOrigin", "attached"}
BudgetKinds == {"write",     \* local commits
                "main",      \* commits to and merges into the server's main
                "rewrite",   \* force-pushes of the server's main
                "fault"}     \* failed steps, interrupted ticks, reinstalls

ASSUME NoWriteAssumption == NoWrite \notin Entry
ASSUME BudgetAssumption  == Budget \in [BudgetKinds -> Nat]
ASSUME StartsAssumption  == Starts \subseteq StartKinds
ASSUME RootsAssumption   == Roots \subseteq Tree
ASSUME ChangesAssumption ==
    \A change \in Changes :
        /\ change.deletes \subseteq Paths
        /\ \E written \in SUBSET Paths : change.files \in [written -> Blobs]

VARIABLES
    commits,    \* every commit object, local and on the server
    agent,      \* refs/heads/agent/<host>
    main,       \* refs/heads/<upstreamMain>
    base,       \* refs/knomit/agent-base/<agent>, the watermark
    trackMain,  \* refs/remotes/origin/<upstreamMain>
    trackAgent, \* refs/remotes/origin/agent/<host>
    rMain,      \* the server's main
    rAgent,     \* the server's agent branch
    phase,      \* where the tick is
    todo,       \* replayOntoUpstream: the commits still to be replayed
    current,    \* replayOntoUpstream: the tip of the replayed chain
    budget,     \* what is left of Budget
    own,        \* ghost: what the agent last wrote at each path
    foreign,    \* ghost: the paths others changed on the server's main
    rewritten,  \* ghost: the server's main left its history at least once
    crossed,    \* ghost: a merge had several merge bases to choose from
    strayed     \* ghost: a rebase went past the watermark, or left the agent
                \*   on a history that main is off

refs   == <<agent, main, base, trackMain, trackAgent>>
origin == <<rMain, rAgent>>
replay == <<todo, current>>
ghosts == <<own, foreign, rewritten, crossed, strayed>>
vars   == <<commits, refs, origin, phase, replay, budget, ghosts>>

Phases == {"idle", "main", "merge", "rebase", "replay", "push"}

At(c)     == TreeAt(commits, c)
NextId    == Len(commits) + 1
Spend(k)  ==
    /\ budget[k] > 0
    /\ budget' = [budget EXCEPT ![k] = @ - 1]
    /\ budget' \in Left
Create(first, second, tree) ==
    commits' = Append(commits, NewCommit(commits, first, second, tree))
-----------------------------------------------------------------------------
FirstRoot(tree) == NewCommit(<<>>, NoCommit, NoCommit, tree)

(* InitFromRemote on an origin that has main and no agent branch: the agent
   starts on origin's main, and so does its watermark.                      *)
InitCloned(tree) ==
    /\ commits = <<FirstRoot(tree)>>
    /\ rMain = 1 /\ trackMain = 1 /\ base = 1
    /\ foreign = {} /\ rewritten = FALSE

(* A restored repository taken over under another agent name: CreateBranch
   makes the branch, and nothing makes its watermark.                       *)
InitTakenOver(tree) ==
    /\ commits = <<FirstRoot(tree)>>
    /\ rMain = 1 /\ trackMain = 1 /\ base = NoCommit
    /\ foreign = {} /\ rewritten = FALSE

(* initFromEmptyRemote: the root commit is made here, the origin is empty.  *)
InitEmptyOrigin(tree) ==
    /\ commits = <<FirstRoot(tree)>>
    /\ rMain = NoCommit /\ trackMain = NoCommit /\ base = 1
    /\ foreign = {} /\ rewritten = FALSE

(* InitRepoWithUpstream, then an origin is configured whose main has a root
   of its own.                                                              *)
InitAttached(tree, other) ==
    /\ commits = <<FirstRoot(tree),
                   NewCommit(<<FirstRoot(tree)>>, NoCommit, NoCommit, other)>>
    /\ rMain = 2 /\ trackMain = NoCommit /\ base = 1
    /\ foreign = {p \in Paths : other[p] # tree[p]} /\ rewritten = TRUE

Init ==
    /\ \E tree \in Roots :
          \/ "cloned" \in Starts /\ InitCloned(tree)
          \/ "takenOver" \in Starts /\ InitTakenOver(tree)
          \/ "emptyOrigin" \in Starts /\ InitEmptyOrigin(tree)
          \/ "attached" \in Starts /\ \E other \in Roots : InitAttached(tree, other)
    /\ agent = 1 /\ main = 1
    /\ trackAgent = NoCommit /\ rAgent = NoCommit
    /\ phase = "idle" /\ todo = {} /\ current = NoCommit
    /\ budget = Budget
    /\ own = [p \in Paths |-> NoWrite] /\ crossed = FALSE /\ strayed = FALSE
-----------------------------------------------------------------------------
(* writeFile, deleteFile, batchWrite: one commit on the agent's branch.  A
   delete of what the branch does not hold is an error, and a batch with
   nothing in it returns before it commits.                                 *)
LocalWrite(files, deletes) ==
    /\ phase # "replay"
    /\ Spend("write")
    /\ DOMAIN files \cup deletes # {}
    /\ \A p \in deletes : p \in DOMAIN files \/ At(agent)[p] # Absent
    /\ Create(agent, NoCommit, ApplyChange(At(agent), files, deletes))
    /\ agent' = NextId
    /\ own' = [p \in Paths |->
                 IF p \in DOMAIN files \cup deletes
                 THEN ApplyChange(At(agent), files, deletes)[p] ELSE own[p]]
    /\ UNCHANGED <<main, base, trackMain, trackAgent, origin, phase, replay,
                   foreign, rewritten, crossed, strayed>>
-----------------------------------------------------------------------------
(* fetchOrigin brings both remote-tracking refs up to date.  While the server
   has no agent branch it fetches main alone, and leaves the other as it is. *)
Fetch ==
    /\ phase = "idle"
    /\ rMain # NoCommit
    /\ trackMain' = rMain
    /\ trackAgent' = IF rAgent = NoCommit THEN trackAgent ELSE rAgent
    /\ phase' = "main"
    /\ UNCHANGED <<commits, agent, main, base, origin, replay, budget, ghosts>>

(* A server without main fails both of fetchOrigin's attempts; a network
   failure may come at any time.  The tick goes on to push.                 *)
FetchFails ==
    /\ phase = "idle"
    /\ \/ rMain = NoCommit /\ UNCHANGED budget
       \/ rMain # NoCommit /\ Spend("fault")
    /\ phase' = "push"
    /\ UNCHANGED <<commits, refs, origin, replay, ghosts>>

(* Whether reconcileMain reports ModeRewound.                               *)
Rewound ==
    /\ main # trackMain
    /\ ~IsAncestor(commits, main, trackMain)

(* reconcileMain: local main follows the fetched one, fast-forward or not.
   Its index update may fail after the ref has moved; Sync then returns and
   ModeRewound is not seen by reconcileAgent.                               *)
ReconcileMain ==
    /\ phase = "main"
    /\ main' = trackMain
    /\ \/ /\ phase' = IF Rewound THEN "rebase" ELSE "merge"
          /\ UNCHANGED budget
       \/ /\ main # trackMain
          /\ Spend("fault")
          /\ phase' = "push"
    /\ UNCHANGED <<commits, agent, base, trackMain, trackAgent, origin,
                   replay, ghosts>>
-----------------------------------------------------------------------------
(* Faulty variant: the watermark is the agent's old tip.                    *)
WatermarkAtAgent(moved) ==
    /\ phase' = "push"
    /\ \/ base' = agent /\ UNCHANGED budget
       \/ moved /\ Spend("fault") /\ UNCHANGED base

(* reconcileAgentMerge ends by recording the main it consumed -- unless the
   index update failed after the agent's ref moved.                         *)
MergeDone(moved) ==
    /\ phase' = "push"
    /\ \/ base' = main /\ UNCHANGED budget
       \/ moved /\ Spend("fault") /\ UNCHANGED base

MergeNoop ==
    /\ phase = "merge"
    /\ IsAncestor(commits, main, agent)
    /\ MergeDone(FALSE)
    /\ UNCHANGED <<commits, agent, main, trackMain, trackAgent, origin,
                   replay, ghosts>>

MergeFastForward ==
    /\ phase = "merge"
    /\ IsAncestor(commits, agent, main)
    /\ agent # main
    /\ agent' = main
    /\ MergeDone(TRUE)
    /\ UNCHANGED <<commits, main, trackMain, trackAgent, origin, replay,
                   ghosts>>

Diverged ==
    /\ ~IsAncestor(commits, main, agent)
    /\ ~IsAncestor(commits, agent, main)

(* The merge takes bases[0], whichever that is.                             *)
ChooseBase(a, b) == crossed' = (crossed \/ CrissCross(commits, a, b))

(* A merge that changes nothing in the agent's tree makes no commit.        *)
MergeDiverged ==
    /\ phase = "merge"
    /\ Diverged
    /\ \E b \in MergeBases(commits, main, agent) :
          LET merged == MergeTrees(At(b), At(main), At(agent), "LocalWins")
          IN \/ /\ merged = At(agent)
                /\ MergeDone(FALSE)
                /\ UNCHANGED <<commits, agent>>
             \/ /\ merged # At(agent)
                /\ Create(agent, main, merged)
                /\ agent' = NextId
                /\ MergeDone(TRUE)
    /\ ChooseBase(main, agent)
    /\ UNCHANGED <<main, trackMain, trackAgent, origin, replay, own, foreign,
                   rewritten, strayed>>

(* "no common ancestor between ... (disjoint histories)": an error, and the
   watermark stays.                                                         *)
MergeRefused ==
    /\ phase = "merge"
    /\ Disjoint(commits, main, agent)
    /\ phase' = "push"
    /\ UNCHANGED <<commits, refs, origin, replay, budget, ghosts>>
-----------------------------------------------------------------------------
(* reconcileAgentRebase: with nothing to replay the agent fast-forwards, or
   stays where it is when it already contains main.                         *)
RebaseNothing(stop) ==
    /\ Unpushed(commits, agent, main, stop) = {}
    /\ agent' = IF IsAncestor(commits, agent, main) THEN main ELSE agent
    /\ \/ base' = main /\ UNCHANGED budget
       \/ agent' # agent /\ Spend("fault") /\ UNCHANGED base
    /\ phase' = "push"
    /\ strayed' = (strayed \/ ~IsAncestor(commits, agent, main))
    /\ UNCHANGED replay

(* ... otherwise it takes the agent's branch lock for the whole replay, and
   starts a chain on main's tip.                                            *)
ReplayStart(stop) ==
    /\ Unpushed(commits, agent, main, stop) # {}
    /\ todo' = Unpushed(commits, agent, main, stop)
    /\ current' = main
    /\ phase' = "replay"
    /\ strayed' = (strayed \/ stop \notin Line(commits, agent))
    /\ UNCHANGED <<agent, base, budget>>

Rebase ==
    /\ phase = "rebase"
    /\ \E stop \in WalkStops(commits, agent, main, base) :
          RebaseNothing(stop) \/ ReplayStart(stop)
    /\ UNCHANGED <<commits, main, trackMain, trackAgent, origin, own, foreign,
                   rewritten, crossed>>

(* Faulty variant: the order of the walk, newest first.                     *)
IsNewest(c) == \A d \in todo : d <= c

(* The commits were collected walking back and are replayed oldest first.   *)
IsNext(c) == \A d \in todo : c <= d

(* replayCommit: the delta of the next commit over its first parent, put on
   top of the chain.                                                        *)
ReplayStep ==
    /\ phase = "replay"
    /\ \E c \in todo :
          /\ IsNext(c)
          /\ Create(current, NoCommit,
                    ReplayTree(At(commits[c].first), At(c), At(current),
                               "LocalWins"))
          /\ todo' = todo \ {c}
    /\ current' = NextId
    /\ UNCHANGED <<refs, origin, phase, budget, ghosts>>

(* The "atomic move" of the agent's ref, then the watermark -- unless the
   index update between the two failed.                                     *)
ReplayFinish ==
    /\ phase = "replay"
    /\ todo = {}
    /\ agent' = current
    /\ \/ base' = main /\ UNCHANGED budget
       \/ Spend("fault") /\ UNCHANGED base
    /\ current' = NoCommit
    /\ phase' = "push"
    /\ UNCHANGED <<commits, main, trackMain, trackAgent, origin, todo, ghosts>>

(* A replay step fails: no ref of the agent's has moved, the tick pushes.   *)
ReplayFails ==
    /\ phase = "replay"
    /\ Spend("fault")
    /\ todo' = {} /\ current' = NoCommit
    /\ phase' = "push"
    /\ UNCHANGED <<commits, refs, origin, ghosts>>
-----------------------------------------------------------------------------
(* Push: nothing to do when the server's branch was last seen at our tip.   *)
PushNoop ==
    /\ phase = "push"
    /\ agent = trackAgent
    /\ phase' = "idle"
    /\ UNCHANGED <<commits, refs, origin, replay, budget, ghosts>>

(* Force-push.  A server that has our tip already -- the answer to an earlier
   push was lost -- is "already up to date", and the remote-tracking ref waits
   for the next fetch.                                                      *)
Push ==
    /\ phase = "push"
    /\ agent # trackAgent
    /\ rAgent' = agent
    /\ trackAgent' = IF rAgent = agent THEN trackAgent ELSE agent
    /\ phase' = "idle"
    /\ UNCHANGED <<commits, agent, main, base, trackMain, rMain, replay,
                   budget, ghosts>>

(* Faulty variant: the remote-tracking ref moves before the answer is in.   *)
PushFailsTracked ==
    /\ phase = "push"
    /\ agent # trackAgent
    /\ Spend("fault")
    /\ rAgent' \in {rAgent, agent} /\ trackAgent' = agent
    /\ phase' = "idle"
    /\ UNCHANGED <<commits, agent, main, base, trackMain, rMain, replay, ghosts>>

(* The push is refused, or it is carried out and its answer is lost.        *)
PushFails ==
    /\ phase = "push"
    /\ agent # trackAgent
    /\ Spend("fault")
    /\ rAgent' \in {rAgent, agent}
    /\ phase' = "idle"
    /\ UNCHANGED <<commits, refs, rMain, replay, ghosts>>

(* The loop is cancelled (ActivateSync restarts it), or the process ends: the
   tick is gone, the refs it wrote stay.                                    *)
Interrupt ==
    /\ phase # "idle"
    /\ Spend("fault")
    /\ phase' = "idle"
    /\ todo' = {} /\ current' = NoCommit
    /\ UNCHANGED <<commits, refs, origin, ghosts>>

(* The data directory is gone and the repository is created again from its
   origin: InitFromRemote adopts the agent branch the server has, with the
   merge base as its watermark, or starts on main.                          *)
Reinstall ==
    /\ phase = "idle"
    /\ rMain # NoCommit
    /\ Spend("fault")
    /\ trackMain' = rMain /\ main' = rMain
    /\ \/ /\ rAgent # NoCommit
          /\ agent' = rAgent /\ trackAgent' = rAgent
          /\ \/ Disjoint(commits, rAgent, rMain) /\ base' = rMain
             \/ base' \in MergeBases(commits, rAgent, rMain)
          /\ own' = [p \in Paths |-> IF own[p] = NoWrite THEN NoWrite
                                     ELSE At(rAgent)[p]]
       \/ /\ rAgent = NoCommit
          /\ agent' = rMain /\ trackAgent' = NoCommit
          /\ base' = rMain
          /\ own' = [p \in Paths |-> NoWrite]
    /\ UNCHANGED <<commits, origin, phase, replay, foreign, rewritten, crossed,
                   strayed>>
-----------------------------------------------------------------------------
(* The origin server, external.  Its main is moved by others; a path whose
   content that changes, other than by taking over the agent's own branch, is
   from then on foreign.                                                    *)
MoveMain(c) ==
    /\ rMain' = c
    /\ UNCHANGED <<refs, rAgent, phase, replay, own, strayed>>

Changed(old, new) == {p \in Paths : old[p] # new[p]}

OriginEdit(p, blob) ==
    /\ rMain # NoCommit
    /\ Spend("main")
    /\ At(rMain)[p] # blob
    /\ Create(rMain, NoCommit, [At(rMain) EXCEPT ![p] = blob])
    /\ MoveMain(NextId)
    /\ foreign' = foreign \cup {p}
    /\ UNCHANGED <<rewritten, crossed>>

(* Somebody merges the agent's branch into main: a fast-forward, a merge
   commit, or main itself when the server had none.                         *)
OriginMerge ==
    /\ rAgent # NoCommit
    /\ ~IsAncestor(commits, rAgent, rMain)
    /\ Spend("main")
    /\ \/ /\ rMain = NoCommit \/ IsAncestor(commits, rMain, rAgent)
          /\ MoveMain(rAgent)
          /\ UNCHANGED commits
       \/ /\ ~IsAncestor(commits, rMain, rAgent)
          /\ \E b \in MergeBases(commits, rAgent, rMain), s \in Strategies :
                Create(rMain, rAgent,
                       MergeTrees(At(b), At(rAgent), At(rMain), s))
          /\ MoveMain(NextId)
    /\ ChooseBase(rAgent, rMain)
    /\ UNCHANGED <<foreign, rewritten>>

(* Somebody force-pushes main back to an earlier commit of it ...           *)
OriginRewind ==
    /\ Spend("rewrite")
    /\ \E c \in Ancestors(commits, rMain) \ {rMain} :
          /\ MoveMain(c)
          /\ foreign' = foreign \cup Changed(At(rMain), At(c))
    /\ rewritten' = TRUE
    /\ UNCHANGED <<commits, crossed>>

(* ... or replaces its whole history by one that never held some paths.     *)
OriginReplace(scrubbed) ==
    /\ rMain # NoCommit
    /\ Spend("rewrite")
    /\ Create(NoCommit, NoCommit,
              [p \in Paths |-> IF p \in scrubbed THEN Absent ELSE At(rMain)[p]])
    /\ MoveMain(NextId)
    /\ foreign' = foreign \cup {p \in scrubbed : At(rMain)[p] # Absent}
    /\ rewritten' = TRUE
    /\ UNCHANGED crossed
-----------------------------------------------------------------------------
Tick ==
    \/ Fetch \/ FetchFails \/ ReconcileMain
    \/ MergeNoop \/ MergeFastForward \/ MergeDiverged \/ MergeRefused
    \/ Rebase \/ ReplayStep \/ ReplayFinish \/ ReplayFails
    \/ PushNoop \/ Push \/ PushFails

Write == \E change \in Changes : LocalWrite(change.files, change.deletes)

Origin ==
    \/ \E p \in Paths, blob \in Entry : OriginEdit(p, blob)
    \/ OriginMerge
    \/ OriginRewind
    \/ \E scrubbed \in SUBSET Paths : OriginReplace(scrubbed)

Next == Tick \/ Write \/ Interrupt \/ Reinstall \/ Origin

Spec == Init /\ [][Next]_vars

(* The loop's timer starts a tick again and again, and a tick runs to its
   end; nothing makes anybody write, merge or rewind.                       *)
FairSpec == Spec /\ WF_vars(Tick)
-----------------------------------------------------------------------------
Ref == 0 .. Len(commits)

TypeOK ==
    /\ commits \in Seq(Commit) /\ GraphOK(commits)
    /\ agent \in Commits(commits) /\ main \in Commits(commits)
    /\ base \in Ref /\ trackMain \in Ref /\ trackAgent \in Ref
    /\ rMain \in Ref /\ rAgent \in Ref
    /\ phase \in Phases
    /\ todo \subseteq Commits(commits) /\ current \in Ref
    /\ phase = "replay" <=> current # NoCommit
    /\ phase # "replay" => todo = {}
    /\ budget \in [BudgetKinds -> Nat]
    /\ own \in [Paths -> Entry \cup {NoWrite}]
    /\ foreign \subseteq Paths /\ rewritten \in BOOLEAN
    /\ crossed \in BOOLEAN /\ strayed \in BOOLEAN

(* What the agent wrote last at a path is what its branch holds there, through
   every merge, failure and restart, as long as nobody else changed that path on
   main and nobody rewrote main: "the agent's local edits are preserved"
   (replayCommit), and a tick that dies half way loses none of them.  But not
   through a merge of a criss-cross.                                        *)
MergesKeepOwn ==
    ~rewritten /\ ~crossed =>
       \A p \in Paths \ foreign : own[p] # NoWrite => At(agent)[p] = own[p]

(* On a rewritten main a replay does it: wherever the commits replayed so far
   changed a path, the chain holds what the last of them left there, and
   everywhere else what main has.                                           *)
Touches(c, p) == At(c)[p] # At(commits[c].first)[p]

Carried(done, p) ==
    \/ /\ \A c \in done : ~Touches(c, p)
       /\ At(current)[p] = At(main)[p]
    \/ \E c \in done : /\ Touches(c, p)
                       /\ \A d \in done : Touches(d, p) => d <= c
                       /\ At(current)[p] = At(c)[p]

ReplayCarriesOwn ==
    phase = "replay" =>
       \E stop \in WalkStops(commits, agent, main, base) :
          LET collected == Unpushed(commits, agent, main, stop)
          IN  /\ todo \subseteq collected
              /\ \A p \in Paths : Carried(collected \ todo, p)

OwnWritesSurvive == MergesKeepOwn /\ ReplayCarriesOwn

(* Until main is rewritten the force-push is a fast-forward of what the server
   has: a tick merges and never rewrites the agent's hashes
   (remote_reconcile_merge.go, "Hash rewriting NEVER happens here").        *)
PushIsFastForward ==
    ~rewritten => rAgent = NoCommit \/ IsAncestor(commits, rAgent, agent)

(* The order behind it: the watermark is a commit of local main, which runs
   behind the fetched main, and that behind the server's -- a failed or
   interrupted tick leaves each of them behind, never ahead or beside.  While
   the server has no main, the agent and what it pushed hold all of local
   main.                                                                    *)
LinearHistory ==
    ~rewritten =>
        /\ phase \notin {"rebase", "replay"}
        /\ rAgent # NoCommit => IsAncestor(commits, rAgent, agent)
        /\ base # NoCommit => IsAncestor(commits, base, main)
        /\ trackMain # NoCommit => IsAncestor(commits, main, trackMain)
        /\ rMain # NoCommit =>
              /\ IsAncestor(commits, main, rMain)
              /\ trackMain # NoCommit => IsAncestor(commits, trackMain, rMain)
        /\ rMain = NoCommit =>
              /\ trackMain = NoCommit
              /\ IsAncestor(commits, main, agent)
              /\ rAgent # NoCommit => IsAncestor(commits, main, rAgent)

NoFaultYet == budget["fault"] = Budget["fault"]

(* No commit of the agent's first-parent chain but merges touched the path, as
   far back as the watermark, or as the root when that is not on the chain. *)
Unchanged(p) ==
    \A c \in Line(commits, agent) :
        /\ base \in Line(commits, agent) => c \notin Line(commits, base)
        /\ commits[c].second = NoCommit
        => ~Touches(c, p)

(* A replay leaves on a path exactly what the new main has, so that what a
   rewind scrubbed is gone (unpushedCommits, "resurrect"; "Merge commits ...
   are skipped", reconcileAgentRebase): where the agent changed nothing since
   its watermark but by merges; and where it never wrote, when the watermark
   lies on its first-parent chain.  For the latter the watermark has to be the
   main consumed last, so no tick may have failed between moving the agent's ref
   and recording it; and no rebase may have strayed before, because one that
   walked past its watermark has already brought things back, and one that left
   the agent where it was has recorded a main the agent is not on.          *)
ReplayScrubs ==
    [][ phase = "replay" /\ agent' # agent
        => \A p \in Paths :
              \/ Unchanged(p)
              \/ /\ own[p] = NoWrite /\ base \in Line(commits, agent)
                 /\ NoFaultYet /\ ~strayed
              => At(agent)'[p] = At(main)[p] ]_vars

(* When nobody writes any more, the server gets the agent's last commit: a
   failed or interrupted push is made up for by a later tick.               *)
AgentReachesOrigin == <>[](rAgent = agent)

(* ... and everything on the server's main reaches the agent, however the ticks
   failed: the watermark catches up with it, and a path the agent never wrote
   reads as on main.  (Main not being rewritten: an agent with nothing of
   its own does not follow a main that was.)                                *)
MainReachesAgent ==
    <>[](rMain # NoCommit =>
            /\ base = rMain
            /\ \A p \in Paths : own[p] = NoWrite => At(agent)[p] = At(rMain)[p])
-----------------------------------------------------------------------------
(* What comments of the code say, and the code does not do.                 *)

(* What main gained since the agent last consumed it.                       *)
NewOnMain == Ancestors(commits, main) \ Ancestors(commits, base)

(* reconcileAgentMerge: "the agent's local edits win overlapping paths against
   main".  A path that no commit new on main touches does not even overlap.  *)
UntouchedPathsAreKept ==
    [][ /\ phase = "merge" /\ phase' = "push"
        => \A p \in Paths :
              (\A c \in NewOnMain : At(c)[p] = At(base)[p])
                  => At(agent)'[p] = At(agent)[p] ]_vars
=============================================================================
