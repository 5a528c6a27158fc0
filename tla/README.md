# knomit: models, checks and proofs

knomit keeps a knowledge base in git, one SQLite file per repository, and serves it to
agents over MCP and HTTP. This directory holds TLA+ modules that model its core, TLC
configurations that check them on small instances, and TLAPS proofs for every value of the
constants. `PROJECT.json` lists the runs, the lines of code each definition stands for, the
hazards the properties are aimed at, what the runs found, and the proved theorems.

    tlc -workers 2 -config BranchSyncSafety.cfg MCBranchSync     # a run
    tlapm BranchSync_proofs.tla                                  # a proof module

## The system

| component | code | state it keeps | operations | what is hard about it |
|---|---|---|---|---|
| facts and branches | `internal/store` `fact_write.go`, `branch*.go` | commits and trees in git, one ref per branch | write, delete, batch, create, drop and merge branches | three-way merges per path, a ref that moves before its index does |
| remote sync | `remote_sync.go`, `remote_reconcile*.go` | local main, the agent's branch, the watermark, the remote-tracking refs | fetch, reconcile main, merge or rebase the agent, force-push | rewritten histories, failed and interrupted ticks, writes in between, lost answers |
| search index | `search_index.go`, `search_crud.go` | per branch: facts, embeddings, graph, `last_commit`, schema version | rebuild, incremental sync, heal | a watermark that must not run ahead of what is indexed, failed rebuilds |
| pipeline sessions | `synthesize/pipeline.go`, `store/pipeline_index.go` | sessions, work items, one watermark per tool and branch | start, continue (claim, apply), advance, complete, reap | stateless callers, duplicate answers, transitions by compare-and-set |
| repository instance | `repos/instance.go`, `builder.go`, `swapstore.go`, `sync.go` | store generations and references to them, the loop's context, the index state | acquire, activate, deactivate, swap, shut down | goroutines that outlive the call that made them |
| lifecycle and registry | `repos/lifecycle.go`, `registry.go`, `manager.go`, `lens.go` | registry rows, lenses, database files, open instances | create, rename, archive, restore, purge, start; create, edit, rename, delete a lens | steps on three stores of state, with compensations and crashes |
| conversion to the registry | `cmd/migrate_registry.go` | `control.db`, file names, archive manifests, the connection columns | plan, back up, commit, rename, remove manifests, migrate | an irreversible last step, runs that die half-way, an operator in between |
| task hub, observer | `repos/hub.go`, `observer.go` | running and finished tasks, the pending commit | start, emit, subscribe, notify, stop | events out of order, dropped notifications |
| origin session | `web/origin_session.go`, `handlers_origin_session.go`, `store/replay.go` | a session with a state, a clone and a directory | test, preview, apply, commit, replace, delete, expire | handlers of one session at the same time, a swap under what is written meanwhile |
| federation, lenses | `internal/federate`, `repos/lens.go` | none (lens definitions in the registry) | ranked fan-out | - |
| fact format, ontology | `internal/fact`, `internal/refs` | none | parse, validate, rewrite | - |
| LLM adapters | `internal/llm` | circuit breaker, retry counters | complete | retries against external services |
| HTTP, MCP, CLI, desktop, exporters, observability | `internal/web`, `internal/mcp`, `cmd`, `tools`, `internal/okf`, `internal/obs` | none of their own to speak of | call the components above | - |

How they interact. A handler *acquires* the store generation of a repository instance, calls
the store and releases it. A write commits to the agent's branch under that branch's lock,
moves the ref, and notifies the index and, debounced, the commit observer. Each instance with
an origin has one reconcile loop (`runReconcileLoop`), a goroutine whose ticks call
`Sync` (fetch, reconcile main, reconcile the agent) and `Push`. Opening an instance starts a
background heal of its index, which ends by starting that loop. Configuring an origin goes
through `ActivateSync`, which replaces the loop, or through an origin session, which replaces
the whole store (`SwapStore`). Archiving and removing shut the instance down. Pipelines read
seeds from the index and write through the store, over many stateless calls.

## Modules

| module | what it is |
|---|---|
| `TreeMerge` | pure: trees as functions from paths to blobs; `MergeTrees`, `ReplayTree`, `ApplyChange` |
| `CommitGraph` | pure: commits as a sequence of records; ancestry, merge bases, `Unpushed` |
| `BranchSync` | one repository and its origin: the reconcile tick step by step, writes, failures, the server |
| `MCBranchSync` | two paths, two contents, and the budgets of the runs |
| `CommitGraph_proofs`, `BranchSync_proofs` | proofs |
| `RepoRuntime` | one repository instance: store generations, references, activation, loops, heal, swap, teardown |
| `MCRepoRuntime` | its model values |
| `RepoRuntime_proofs` | proofs |
| `WorkQueue` | abstract: what the synthesis pipeline promises of its work items and phases |
| `PipelineSession` | the sessions of one synthesis tool on one branch: items, claims, phases, watermark; implements `WorkQueue` |
| `MCPipelineSession` | the plans the runs start from |
| `PipelineSession_proofs` | proofs, the refinement included |
| `BranchIndex` | the search index of a repository: what each branch has and what branches share, maintained by syncs, the heal and rebuilds |
| `MCBranchIndex` | an agent's branch and its upstream, two models |
| `BranchIndex_proofs` | proofs |
| `RepoLifecycle` | the registry, the files, the map of what is served and the lenses, under concurrent calls |
| `MCRepoLifecycle` | three repositories, two URLs of one knowledge base |
| `RepoLifecycle_proofs` | proofs |
| `OriginConnect` | origin sessions of one repository: test, preview, apply, commit, and the swap they end in |
| `MCOriginConnect` | two URLs, three facts |
| `OriginConnect_proofs` | proofs |
| `RegistryMigration` | `migrate-registry`: the runs of the tool, the operator and the server around them |
| `MCRegistryMigration` | an active, an archived, a new and a stray repository, one lens |
| `RegistryMigration_proofs` | proofs |

### BranchSync

A commit is `[first, second, tree]` in the sequence `commits`; its position stands
for its hash, and a commit's parents come before it. Ancestors are kept
in the record, which makes ancestry a set membership and keeps recursion out of what is
proved about. A path is opaque; a blob is a model value.

| variable | code |
|---|---|
| `agent`, `main`, `base` | `refs/heads/agent/<host>`, `refs/heads/<upstream>`, `refs/knomit/agent-base/<agent>` |
| `trackMain`, `trackAgent` | `refs/remotes/origin/...` |
| `rMain`, `rAgent` | the server's refs |
| `phase`, `todo`, `current` | where the tick is; the locals of `replayOntoUpstream` |
| `budget` | what is left of each bounded event (`Budget`, and `Left`: which may come together) |
| `own`, `foreign`, `rewritten` | ghosts: what the agent wrote, what others changed, whether main left its history |
| `crossed`, `strayed` | ghosts: whether a merge met several merge bases; whether a rebase walked past its watermark, or left the agent on a history that main is off |

A tick runs `Fetch | FetchFails`, `ReconcileMain`, then one of `MergeNoop`,
`MergeFastForward`, `MergeDiverged`, `MergeRefused` or, when main was rewritten, `Rebase` with
`ReplayStep`s and `ReplayFinish | ReplayFails`, then `PushNoop | Push | PushFails`. One action
is what happens under one hold of the branch lock, or between two points at which the code
returns an error after some of its effects. So `ReconcileMain` may move main and yet end the
tick (the index update after the ref failed), and a merge may move the agent and not the
watermark. `LocalWrite` runs between any two steps except inside a replay, which holds the
branch lock throughout. `Interrupt` is a cancelled tick or a process that ends;
`Reinstall` a data directory lost and made again from the origin. The initial states are the
four ways a repository comes to be: cloned from an origin, taken over under another agent
name (no watermark), made for an empty origin, and local with an unrelated origin attached.
The origin (`OriginEdit`, `OriginMerge`, `OriginRewind`, `OriginReplace`) is external.

### RepoRuntime

Generations of the store are numbered; `open` says which are open, `handle` which is attached,
`held[p]` which one `p` has a reference to, `taken[p]` which one a swap or teardown took out.
A user, an activation, a swap and a teardown are processes with a program counter; one action
is what the code does under `ri.mu`, or one call that may block (`syncWg.Wait`, `indexWg.Wait`,
`h.wg.Wait`). Sync contexts are numbered as well: the closure variable `syncCancel` of `build`
(`lastCancel`) and the field `ri.syncCancel` (`riCancel`) are modelled apart, because the code
reads and writes them apart. `loop[c]` is the loop that runs on context `c`, `loopGen[c]` the
store it captured. `overlapped` is a ghost that remembers whether an activation ever
overlapped another operation, or two swaps each other: the code has no lock against either,
and what such an overlap breaks is the subject of the findings; the properties marked
`~overlapped` say what holds without it. A teardown that overlaps a swap is *not* excluded.

### PipelineSession

A session's items are answered over many calls, each served by an engine built for that call;
what one call leaves to the next is in the session database. `call[c]` is where caller `c` is
in the code and what it holds in its locals: the session row's phase *as it read it*, the item
it peeked, the head it looked up. One action is one statement on the database (each is atomic
in SQLite, and no transaction spans two of them), or one call of the strategy:

| actions | code |
|---|---|
| `Start`, `Scan` | `StartSession`: create the row (abandoning the active one), mark it scoped, `dirtyFacts`, `Plan` |
| `Continue`, `Claim`, `Apply`, `FollowUp` | `continueSessionForItem`: peek and check, `AnswerPipelineWorkItem`, `Strategy.Apply`, `enqueueRaptorFollowups` |
| `Serve`, `NoneToServe`, `AdvancePhase`, `Hook`, `Refetch` | `nextItem`, `handlePhase`, `OnPhaseAdvance`, `refetchAndDispatch` |
| `Complete`, `ReadHead`, `SetWatermark` | `completeSession` |
| `Fail`, `Restart`, `Commit` | an error or cancelled request between any two of these; the session database made anew; others' commits |

A client is any caller: it may send an answer to any item of a session it knows of, with or without
naming the item, again and again, and two of them at a time. What a plan holds, how many
follow-ups a distill answer has and whether there is something to reflect on are nondeterministic.
Two things are one step that are two statements: creating a session and marking it
scoped, and scanning and planning; nobody knows the session's id yet in between.

The ghosts say what happened and decide nothing: how often each item was applied, which
answers went astray, after which commit each session's seeds begin, what completed
sessions looked at, and which sessions two calls were in at once.

`WorkQueue` has two variables, the place of each item (none, open, taken, applied, lost) and
the phase of each session. An item is mapped to *taken* while a caller that won its claim is at
`Apply`, and to *lost* when nobody is and it was not applied. So a failure between claim and
apply loses the decisions of that answer, and this is what the code accepts in exchange for
never applying one twice.

### BranchIndex

Per branch there is a watermark (`last`, a position in the sequence `heads` of trees its ref has
pointed at), the schema version, and a row per path (`links`, the table `branch_facts`).
Shared by all branches are the fact rows (`facts`, one per path and content), their vectors
(`vector`), the graph nodes (`live`), the embedding identity and the table's width. Each of a
write's own sync, the observer, the heal at start and an operator's rebuild holds its branch's
lock throughout, so `op[b]` is the one operation on `b`; two branches have only single SQLite
transactions between them, and one action is one of those. `Fail` stops an operation between
any two, `Crash` the process. The ghosts `torn`, `killed`, `mingled`, `undone` mark where
the code gives a promise up (a sync that stopped half-way and was not followed by a rebuild, a
rebuild that was killed, operations on two branches that overlapped, a switch of model taken back
before a rebuild had recorded it).

| actions | code |
|---|---|
| `Commit`, `IndexFile`, `Delete`, `Retract`, `SyncFinish` | `notifyCommit` and `Sync`: additions, deletions, the graph node after the row, the compare-and-set watermark |
| `RebuildBegin`, `EnsureFactsVec`, `RebuildFacts`, `CollectUnembedded`, `Embed`, `ReadFacts`, `WriteGraph`, `BumpVersion`, `PersistIdentity`, `SetLastCommit` | `Rebuild` |
| `ObserverSync`, `HealNext`, `RebuildJob` | who else maintains the index |

### RepoLifecycle

`rows` joins the tables `repos` and `repo_origins`; `files` says which knowledge base lies under
a uid; `opened`, `repos` and `byUID` are the manager's instances and maps; `lenses` maps a name
to the uids it mounts. A call (`call[c]`) is a Create, Restore, Purge or RenameRepo with its
locals, and an action is one statement on `control.db`, one step on the files, or what happens
under one hold of `m.mu`. Archive and the lens operations run under `m.mu` from beginning to end
and are one action each. `reserveNameAndOrigin` is the pair `NameReserved`, `OriginReserved`.
Compensation is modelled step by step (`Rearchive`, `Unrename`, `RemoveFile`, `RemoveRow`,
`Revert`), and may fail as well. `Crash` empties what is in memory and `OpenRegistered` is what
Start does with each active row.

### OriginConnect

Two requests at a time on the sessions of one repository. A session has the states of the code
and a clone (`SetState`, `StoreSession`, `Evict`), and a directory that outlives it or not.
`Clone` and `Analyze` are `/test`, `StartPreview` and `Compare` `/preview`, `StartApply`,
`WriteFact`, `ReplayFails` and `Applied` `/apply`, and `StartCommit` to `Finish` are `/commit`,
with `SwapStore` in between (`Detach`, `Drain`, `Attach`, `Copy`). Handlers check the state of a
session under its lock and then work without it for a long time, and one action is what happens
between two such points. Agents write at any time (`Write`), another repository may take the
knowledge base (`OtherTakes`), and the process may end.

### RegistryMigration

`control` is `control.db` (the shape of its lens tables, rows, origins, lenses), `file` the
directory and the name of each database, `wal` where frames lie that were not checkpointed,
`columns` the databases that still hold their own origin, `manifests` those of the archive.
`Start` is the read-only plan with its refusals: a home it refuses stays as it is, so there is no
step. Then come `Backup`, `Apply` (one transaction), for each database `Checkpoint` and `Rename`,
`RemoveManifest`, and `Migrate`, which drops the columns. Every one of them may fail, and the run
may die between any two. Between runs the operator does what the tool's own texts advise
(`FinishByHand`, `MoveBack`, putting a file back, restoring the backup) and what happens to files
anyhow (`LosesFile`), and the server boots on what `refuseUnmigratedHome` accepts, opens
what is registered and creates repositories.

## Runs

| run | shows |
|---|---|
| `branch_sync_safety` | from all four starts: merges keep own writes and a replay carries them over, the refs stay in line (so that pushes are fast-forwards) until main is rewritten, a replay drops what the new main dropped |
| `branch_sync_liveness` | with ticks that keep coming, the agent's last commit reaches the server and main reaches the agent, although any step fails once |
| `untouched_paths_are_kept` | found: a merge overwrites the agent's edit of a path nothing new on main touches |
| `repo_runtime` | references keep a store open, nothing of an earlier store is left behind, swap and teardown end |
| `repo_runtime_loops` | found: a loop started by an activation that a teardown overtook ticks on a closed store |
| `pipeline_session` | answers take effect once, one reflect item, an earned watermark, `WorkQueue` is implemented |
| `pipeline_session_returns` | every call returns |
| `branch_index` | what the watermark, the schema version and the embedding identity claim of the index is true, through failures, crashes and work on another branch |
| `repo_lifecycle` | rows, files, the map of what is served and the lenses agree, whatever two calls do to one another and whichever step fails |
| `origin_connect` | what is installed, what is recorded of it and the directories on disk agree, one copy of a knowledge base is served, no swap waits in a circle |
| `connect_drops_writes` | found: a fact written between apply and commit is in neither store after the swap |
| `registry_migration` | no origin, lens or database is lost by up to three runs, what cuts them short, and the operator and server between them |

The runs marked *found* check one sentence of a comment against what the code does, and TLC
refutes it; `PROJECT.json` quotes the sentence under `findings`.

### Bounds

`BranchSync`: two paths and two contents (one path the agent owns and one it never writes are
both needed to tell survival from scrubbing; a conflict needs two contents). `Budget` bounds
events, not steps: `SafetyBudget` allows two writes, two moves of main, one rewrite and one
fault, which is a write on each side of a merge, a criss-cross, a rewind of what was merged, and
one thing going wrong; a run has at most four of these events, a fault counting
for two (`FewLeft`, the value of `Left`, which says what may be left of the budget); 2.9 million
states. The invariants the proofs use (`ScrubInv`, `OwnInv`) were checked under the same
budgets, and the properties under others with two rewrites. `LivenessBudget` allows two writes, two moves of main and a
fault, without rewrites. Ticks themselves are unbounded. The interesting cases do happen:
each property has a plausible bug in the code's place (listed as mutants) that the same run
catches.

`RepoRuntime`: one process of each kind, two generations (`MaxGen`) and two sync contexts
(`MaxCtx`), two possible identities; 386 thousand states. One of each suffices to reach every
pair of overlapping operations, and the proofs cover any number. Deadlock is not checked
there because the system really may stop: after a teardown, once the bounds are spent, nobody
has to do anything. It is checked in every `BranchSync` run.

`PipelineSession`: two callers, two sessions, four items, RAPTOR depth one, two commits and one
fault; 924 thousand states. The plan is a discover and a distill item, so that a
session may grow by two follow-ups, or by a follow-up and a reflect item, or both sessions may
have a plan: a start during an answer, a second answer during a first, a completion that meets
a late insert, a scoped session next to an unscoped one, and a failure at any step all happen.
`pipeline_session_returns` keeps to one session, which is where calls can hold each other up,
with one fault, and has the empty plan as well. Deadlock is not checked: nobody has to call once
the bounds are spent.

`BranchIndex`: two branches, one path with two contents (one of which names an entity), two
embedding models of different width; at most three of two writes, a fault, a crash, a restart
and a rebuild job, and one switch of model; 1.3 million states. Rows are per path and the branches meet in the rows of
one, so a second path adds nothing they share; a repository may begin with a table of the other
model, which is a change of model at start.

`RepoLifecycle`: three uids and names, two URLs that lead to one knowledge base, two calls at a
time and three in all, one lens operation, one fault or crash, at most one lens to begin with;
602 thousand states.

`OriginConnect`: two sessions, two URLs, three paths, two requests at a time and four in all, and
one event of the world (a fault, a crash, a write, another repository); 1.2 million states.

`RegistryMigration`: four repositories, three runs, two faults, three moves of the operator, one
boot; 163 thousand states. Three runs are a first one, one that finds its wreckage, and one that
finds what the second made of it. In these four, too, the system may stop and deadlock is not
checked.

### Fairness

`BranchSync.FairSpec` is weak fairness of a tick's steps: `runReconcileLoop` ticks on a timer
for as long as it lives, and every network operation has a time limit. Nothing makes anybody
write, merge or rewind, and a fault needs budget, so a tick eventually succeeds.
`RepoRuntime.FairSpec` is weak fairness per goroutine once it has begun: a reference that was
acquired is released, a tick ends, the heal returns, a wait whose condition holds is left.
Nobody has to begin anything, and a loop does not have to tick again.
`PipelineSession.FairSpec` is weak fairness per caller of the steps of a call that has begun:
the goroutine that serves it goes on. No client has to call, or to call again.

## What is proved

All proofs hold for any paths, blobs, processes, generations and budgets; the assumptions are
those of the modules (`NoWrite` is no entry, the roots are trees, the roles are disjoint).

* `BranchSync_proofs!TypeCorrect`, `LinearCorrect`, `PushCorrect`. That a force-push is a
  fast-forward (`PushIsFastForward`) is not inductive: whether the server's agent branch stays
  behind the agent depends on what merges and fast-forwards do to the agent, which depends on
  where main and the watermark are. `LinearHistory` is the order behind it (watermark <= local
  main <= fetched main <= server's main, server's agent branch <= agent, and what holds while
  the server has no main). It is inductive together with `TypeInv`, which holds the types and
  the shape of the graph: parents precede children, ancestor sets are transitive and contain
  their commit. `CommitGraph_proofs` proves that ancestry is reflexive, transitive, and kept by
  appending a commit, which is all these step proofs use.
* `CommitGraph_proofs!MergeDecides`, `MergeRepeats`, `ReplayOntoParent`. Facts about the two tree
  operators, for all trees. The first says what `MergeTrees` makes of a path: the side that
  changed it wins, the strategy decides where both changed what the base has, and an entry that
  source has and the base does not is applied under either strategy. A merge repeated over its
  own result changes nothing, and a commit replayed onto its own parent is that commit again.
* `BranchSync_proofs!OwnWritesCorrect`. What a merge leaves at a path depends on trees the three
  tips have, and nothing an invariant over refs says bounds those. The *story* of a commit at a path
  is the set of the commits behind it that have one parent and changed the path (`Story`).
  `StoryDecides` says that commits with one story hold the same there. It survives every commit
  the model makes, because a merge takes the side whose story contains the other's. On a path nobody
  else changed only the agent's own commits are in any story, and the server's main has no more of it
  than the agent's branch it was merged from (`OwnAt`); by `LinearHistory` the story of local main
  lies within that of the agent. So the merge base has main's story, main's side counts as
  unchanged, and the agent's entry stays. A merge base is
  one commit that all common ancestors lie behind, unless the merge is a criss-cross (`BaseStory`);
  hence the ghost `crossed`. For replays, `CarryInv` adds to what is stated that everything
  replayed is older than everything still to be: so nothing newer is ever overwritten.
* `BranchSync_proofs!ScrubsCorrect`. At a path no collected commit touched, the end of the replay
  holds what main does (`CarryInv` again). That the agent's *unwritten* paths are among those rests on
  `ScrubInv`: short of a fault or a strayed rebase, every commit of the agent's first-parent chain
  that touches a path the agent never wrote lies behind the watermark, in the graph although not
  always on the chain (`Consumed`). The walk looks at the chain only, and `ChainBelow` closes the gap:
  a first-parent chain is one (`ChainOK`), so what lies behind a commit of the chain and on the
  chain lies on that commit's own. The watermark has to be on the chain for that, as the property says.
* `RepoRuntime_proofs!TypeCorrect`, `AcquireCorrect`, `BackgroundCorrect`. `AcquiredStaysOpen`
  needs that the attached generation is open, that a detacher who is draining holds a
  generation that is detached for good, and that no two detachers hold the same one: then
  closing is only ever of a generation nobody can newly acquire, and whose references are
  gone. `BackgroundKeepsStore` needs besides that, without overlaps, whoever passed the waits
  for heal and loops finds both still ended: new loops only come from the heal and from
  activations.
* `RepoRuntime_proofs!NothingLeftCorrect`, for any number of processes, generations and contexts.
  Without overlaps there is one activation and one swap at a time, and while a swap has the store
  out nothing is attached (`ApartInv`). With that, an open generation is attached or is owned
  by the detacher that is draining it or about to attach it (`LeakInv`), every context but the last is
  cancelled before another is made (`CtxInv`), and whoever may still record an identity holds the
  attached store or the one going out, whose identity the swap overwrites at its end (`IdInv`).
  The part about the identity needs only that no two swaps overlap.

* `PipelineSession_proofs!TypeCorrect`, `AnswersCorrect`, `ReflectCorrect`,
  `WatermarkCorrect`, `AloneCorrect`, `ImplementsWorkQueue`, for any number of callers, sessions and items, any
  plans and any depth. That an item is applied once (`AnswersInv`) rests on: whoever is at
  `Apply` holds an item that is answered and not yet applied, and no two hold the same. A
  session's one reflect item (`ReflectInv`): whoever is at `Hook` is alone there for its
  session, the session's phase is past *work*, and it has no reflect item; a session in *work*
  has none either, and nobody is at its hook. The watermark (`WatermarkInv`): what lies before
  a session's seeds was looked at by earlier ones, a caller about to record a head has put all
  that lies up to it into `looked`, and nobody in a scoped session ever gets to read the head.
  The last needs that the flag is never lost once a session is known (`scoped` is
  changed for sessions that do not exist yet only). That a session no two calls were in at once is
  done only when all is answered (`AloneInv`): the call in it dispatches on the phase the session is in,
  whatever it inserts it inserts before the session is done, and it leaves an empty queue behind when
  it advances; that no other call can be in it follows from who may know of a session at all
  (`BornInv`). `ImplementsWorkQueue` maps every action:
  inserting actions to `Enqueue`, a won claim to `Take`, `Apply` to `Apply`, a failure or
  restart to `Lose` or a stutter, a won compare-and-set to `Advance`, the rest to stutters.

* `BranchIndex_proofs!TypeCorrect`, `RowsCorrect`, `MarkCorrect`, `WatermarkCorrect`,
  `RetryCorrect`, `VectorsCorrect`, `GraphCorrect`, for any branches, paths, contents, entities and models. `RowsAreKept` is nearly
  inductive by itself: a row goes only in the transaction that removes its last pointer. The
  watermark is not: in the middle of a sync or rebuild the pointers are partly those of the old
  tree and partly of the new. `MarkInv` says for every operation and step which is which (the
  pointers of an idle branch are those of its watermark's tree unless `torn`; those of a syncing
  one differ from it in the files yet to do; a rebuilding one has what it has been through), and what
  the watermark and version are at each step; `MarkCorrect`, `WatermarkCorrect` and `RetryCorrect`
  follow from it. `VectorsCorrect` rests on debts (`VectorInv`): for a row without a vector there is
  always a branch that owes it one, since its sync or rebuild has the row in hand or it still needs a
  rebuild; debts of one branch are never paid by another's step without the vector being there; and
  from the first rebuild past the width of the table on, no vector is of another model. `GraphCorrect`
  (`GraphInv`) does the same for nodes: rows without a live node, and live nodes without a row, have a
  branch that owes making or retracting them, and the latter only among the versions its branch ever had.
* `OriginConnect_proofs!TypeCorrect`, `NoCircularWaitCorrect`, `DirsCorrect`, `OneCopyCorrect`,
  `OriginCorrect`, `MergeCorrect`, for any sessions, requests, remotes and facts. No circle of
  waits: between its first question and the end of its swap a commit holds no reference
  (`HoldsNothing`). One copy: a commit on its way to the copy has asked, and what was taken since
  is in `late` (`SwapsAsked`). The other two rest on `ComparedOnce`: what a session was compared
  with is decided once and before anything is applied or committed, a clone is made once, and two
  analyses are never of one session. Then the origin on record (`OriginInv`): short of a race there
  is one commit, between its swap and its record the repository holds what is about to be
  recorded and at every other step what is on record, and a current session of shared history is of
  what the repository holds. And the merge (`MergeInv`): on a session that is not blurred one
  request works at a time, an apply under way has written its part of the merge and holds what is
  left of it, and a session that is *applied* or being committed has the whole merge.
* `RegistryMigration_proofs!TypeCorrect`, `OriginCorrect`, `DatabasesCorrect`, `LensesCorrect`, for
  any repositories, lenses and budgets, as long as uids do not run out. All rest on `OneOwner`:
  the archive, the rows of `control.db` and of every backup of it, the names of the files and the
  plan of a run may all name a uid, and all that do mean one repository. So a row found under the
  name of a file is that of the file, and the rows a second run writes replace those of the same
  databases. Then `PlanHolds` (until the transaction, the plan is that of the home as it still
  is), `PlanApplied` (from there to the end of the run its rows are in `control.db`, which is why
  dropping the columns last is safe), and `OriginInv` (a database without the columns has a row,
  and by `OriginsOnRows` the row has the origin). `LensesCorrect` assumes that no two
  repositories of the old home have one name (`NamesDiffer`), which an archived and an active one
  may; what happens then is under the known deviations.
* `RepoLifecycle_proofs!TypeCorrect`, `InvariantHolds`, `FilesCorrect`, `LensMembersCorrect`,
  `MapCorrect`, `OneLiveCopyCorrect`, `NamesCorrect`, for any repositories, names, URLs, calls and
  budgets. None of the five is inductive, because what row, file, maps and lenses hold of a
  repository depends on how far the calls on it are. A name claimed past the checks belongs to one
  call and to no lens (`NamesHeld`); a create, restore or purge has its repository to itself, or
  the repository counts as strayed. With that, `Kept` says of every repository that is not
  strayed, by the step of the call on it, whether there is a row, a file and an instance; that the
  renames on one repository form a chain from the name in the map to the name in the row
  (`RenamesLead`), so that when the last one returns the two agree; and that lenses mount only
  what is active. One live copy then follows from the unique index
  on the knowledge base, since what an instance serves is `Recorded` in its row.

Every safety invariant and action property that a passing run checks is proved. Model-checked
only are the liveness properties (`AgentReachesOrigin`, `MainReachesAgent`, `DetachersEnd`,
`CallsReturn`): they are temporal, under fairness, and out of the prover's reach. That the chain and
ancestor sets the commits carry are the transitive closures of their parents holds by how
`NewCommit` makes them; that they are, for every graph, would be an induction over its length.

## Known deviations

What the models show of the code beyond the runs marked *found*, each of it in the actions and
left out of the properties by the proviso that the property states:

* An agent with nothing of its own does not follow a main that was rewound or replaced
  (`remote_reconcile_rebase.go:341`). Disjoint histories that were not routed to the rebase
  fallback are refused by the merge path on every later tick (`branch_merge.go:136`). After a
  reconcile merge the watermark is off the agent's first-parent chain, and a replay after a
  rewind brings back what the rewind scrubbed (`remote_reconcile_rebase.go:105`).
* A merge of a criss-cross takes `bases[0]` of several merge bases, and an insert of main's is applied
  whatever the agent holds: the agent's newer write may be replaced by its own older one
  (`branch_merge.go:139`, `:253`). `OwnWritesSurvive` speaks of merges without `crossed`.
* Once main was rewritten, own writes may be lost by what comes after a replay, which by itself
  carries them over. A replay whose watermark is absent or off the first-parent chain goes to the
  root, replays it, and does not see the agent's own commits where they are only second-parent
  ancestors, as they are after the server has merged the agent's branch and the agent has
  fast-forwarded to that (`remote_reconcile_rebase.go:105`). And when somebody merges the old agent
  branch into a rewound main before the replayed one is pushed, the next merge inserts the older
  version over the newer. For the same reason `ReplayScrubs` is without `strayed`: with two
  rewrites, what the first replay copied past a missing watermark the second one keeps.
* A swap during the heal leaves the instance "indexing" (`manager.go:989`). With two calls in one
  pipeline session, it completes with the reflect item or follow-ups yet to come
  (`pipeline.go:645`).
* A sync that stopped half-way, followed by a commit that takes the path back, leaves a stale row
  behind a watermark at HEAD (`search_index.go:365`). When one branch deletes the last pointer to
  a version while another adds it, the row is left without a live graph node
  (`search_crud.go:462`). When the embedding model is switched and switched back between a
  rebuild that changed the vector table and the moment it would have put the new model on record,
  no branch needs a rebuild any more and vectors of the other model stay (`search_index.go:561`,
  `vec_table.go:50`).
* Two swaps that overlap may leave the cached identity of the first one's store; a second shutdown
  returns before the first one has drained (`instance.go:483`).
* Purge deletes by uid whatever the state has become since it looked: a Restore in between
  loses its row and its file (`lifecycle.go:1263`). CreateLens, unlike RenameLens, does not look
  at repositories that are registered and not served. Two Restores of one repository without
  origin are not kept apart. A crash in Create leaves an active row whose file is missing.
  A rename that finds the map moved takes its row write back, and where it reports no row changed
  `lifecycle.go:1331` holds that "a racer legitimately holds the name now"; that racer may itself
  be on its way to a revert, of which the first knows nothing: with three stale renames of one
  repository at once (five in all, found by a run with four names) registry and map disagree
  until restart, with no failure. `Revert` takes such a repository out of the properties.
* A session's comparison with the repository is made once, by its test. When the swap of an
  earlier session's commit lands after it, a session that was found to share the old history
  records its own URL over the new one (`handlers_origin_session.go:1067`): the origin on record is
  then not that of the knowledge base the repository holds.
* A commit of an origin session during a second apply installs a half-replayed clone; deleting a
  session does not close its clone; a second test of a session fails for ever, since it clones
  into a store that exists; a commit refused after it closed the clone cannot be retried; a
  Delete that races a Create evicts the newer session; two Creates leave a directory behind.
* migrate-registry: when a lens names an active repository whose file is away, and an archived one
  has the same name, the lens is given the archived one without a word
  (`cmd/migrate_registry.go:1157`); the mapping it prints names the database and not the frames beside it; the
  marker of a running server is looked at once, at the start; moving files back for a second run,
  as it advises, is refused for archived ones whose manifest is gone; a process that ends inside
  VACUUM INTO leaves a backup that is none; `--force` drops the rows of missing files that have
  no origin without asking.
* Of the parts without a module, by reading: the task hub publishes a terminal event before it takes the task
  out of the active set (`hub.go:108`), and a notification that comes while the observer's
  callback runs is dropped (`observer.go:50`).

## What is not modelled

In the modelled components: read-only repositories, an upstream that is the agent's own
branch, the sync status columns, the temporary `-replaying` ref, a reinstallation from a server
without main, failures that move nothing, the in-memory variant of `SwapStore`; paging of large
work items, session statistics, the reaper, the hypothesize strategy (it has no reflect step);
the commit log, DERIVED_FROM and similarity edges and GC of the index; profiles, rehydration of a
lost file and seeding from a bundle; the progress events of an origin session; the fold of
profiles, a home without `control.db` and files that are no repositories in the conversion.
Commits others make between a session's scan and its completion are passed by the watermark
without having been looked at; `WatermarkIsEarned` counts them as looked at, and speaks of gaps
below the seeds only. Components
without a module are listed in `PROJECT.json` with the reason; most are sequential
transformations (formats, queries, exports), pure I/O, or generated and user-interface code.
