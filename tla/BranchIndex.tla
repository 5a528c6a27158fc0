---------------------------- MODULE BranchIndex -----------------------------
(***************************************************************************)
(* The search index of a repository (internal/store/search_index.go,       *)
(* search_crud.go, vec_table.go): what it holds per branch and what its    *)
(* branches share, and the four things that maintain it -- a write's own   *)
(* sync, the debounced observer, the heal at start and an operator's       *)
(* rebuild.                                                                *)
(*                                                                         *)
(* Each of them holds the branch's lock throughout, so there is at most    *)
(* one operation per branch; two branches have nothing but single SQLite   *)
(* transactions to keep them apart, and they share the fact rows, the      *)
(* vectors, the graph nodes and the embedding identity.  One action is one *)
(* transaction.  Any operation may fail between two of them, and the       *)
(* process may end there.                                                  *)
(***************************************************************************)
EXTENDS Integers, Sequences, FiniteSets

CONSTANTS
    Order,      \* the branches the index maintains, the agent's first
    Paths,      \* fact paths
    Blobs,      \* contents of a fact
    Tagged,     \* those that name an entity
    Absent,     \* no content
    Models,     \* embedding models
    Dim,        \* how wide a model's vectors are
    NoModel,    \* no model on record
    Starts,     \* how a run begins: "fresh", "indexed"
    Budget      \* bound on each kind of event

Branches == {Order[i] : i \in DOMAIN Order}
Agent    == Order[1]
Trees    == [Paths -> Blobs \cup {Absent}]
Versions == Paths \X Blobs              \* (path, blob_hash): the key of facts
NoRow    == -1                          \* no last_commit row
Cleared  == 0                           \* the row is there and empty
Events   == {"write", "fault", "crash", "restart", "job", "switch"}

ASSUME OrderAssumption  == Order \in Seq(Branches) /\ Order # <<>>
ASSUME AbsentAssumption == Absent \notin Blobs
ASSUME TaggedAssumption == Tagged \subseteq Blobs
ASSUME ModelAssumption  == NoModel \notin Models /\ Dim \in [Models -> Nat]
ASSUME BudgetAssumption == Budget \in [Events -> Nat]

VARIABLES
    heads,      \* per branch, the trees its ref has pointed at, HEAD last
    last,       \* meta last_commit:<branch>, as a position in heads
    version,    \* meta graph_schema_version:<branch>
    links,      \* branch_facts
    facts,      \* the rows of facts
    vector,     \* facts_vec: which model embedded a version
    table,      \* the model facts_vec was created for
    identity,   \* meta embed_model_id and embed_dim
    live,       \* Fact nodes that are not marked deleted
    embedder,   \* the configured model
    op,         \* per branch, the operation that holds its lock
    heal,       \* what the background heal has yet to do
    pending,    \* the observer has a commit to sync
    budget,     \* what is left of each event
    torn,       \* ghost: a sync of the branch stopped part-way since its last rebuild
    killed,     \* ghost: a process ended during a rebuild of the branch since its last one
    mingled,    \* ghost: operations on two branches overlapped
    undone      \* ghost: a switch of model was undone before it was on record

store  == <<links, facts, vector, table, live>>
meta   == <<last, version, identity>>
ghosts == <<torn, killed, mingled, undone>>
vars   == <<heads, store, meta, embedder, op, heal, pending, budget, ghosts>>

Spend(e) == budget[e] > 0 /\ budget' = [budget EXCEPT ![e] = @ - 1]

HeadOf(b) == Len(heads[b])
TreeOf(b) == heads[b][HeadOf(b)]

(* What an operation is at, on whose behalf, and what it has yet to do.    *)
Idle == [step |-> "idle", by |-> "nobody", from |-> NoRow, paths |-> {}, versions |-> {}]
At(b, s)   == op[b].step = s
Free(b)    == At(b, "idle")
Go(b, s)   == op' = [op EXCEPT ![b].step = s]
SyncSteps  == {"sync", "retract"}
Rebuilding == {"table", "facts", "collect", "embed", "read", "graph", "version", "identity", "mark"}

(* Something takes the lock of branch b for operation o.                   *)
Take(b, o) ==
    /\ op' = [op EXCEPT ![b] = o]
    /\ mingled' = (mingled \/ (o # Idle /\ \E c \in Branches \ {b} : ~Free(c)))

-----------------------------------------------------------------------------
(* The rows a branch needs, and what Verify says of them.                  *)

Linked(b)   == {f \in Versions : links[b][f[1]] = f[2]}
Referenced  == UNION {Linked(b) : b \in Branches}
Unembedded  == {f \in facts : vector[f] = NoModel}

(* Version f is fully indexed: its junction rows are there, or it has none *)
(* and some branch points at it.                                           *)
CowHit(f) == f \in facts /\ (f[2] \in Tagged \/ f \in Referenced)

(* A vector of the configured model fits facts_vec.                        *)
Fits == Dim[table] = Dim[embedder]

NeedsRebuild(b, m) == version[b] # "current" \/ identity # m

FactsCoherent(b)    == links[b] = TreeOf(b) /\ Linked(b) \subseteq facts
EmbeddingsCovered   == Unembedded = {} /\ \A f \in Versions \ facts : vector[f] = NoModel
IdentityMatches     == identity \in {NoModel, embedder}
GraphCoherent       == live = facts

-----------------------------------------------------------------------------
(* Sync.                                                                   *)

(* mutant: what was deleted is not in the difference                       *)
ChangedNoDeletes(b, l, t) ==
    {p \in Paths : t[p] # Absent /\ (l <= Cleared \/ heads[b][l][p] # t[p])}

(* What a sync of a branch from position l to the tree t has to look at:   *)
(* the difference, or without a watermark everything that is there.        *)
Changed(b, l, t) ==
    IF l <= Cleared THEN {p \in Paths : t[p] # Absent}
                    ELSE {p \in Paths : heads[b][l][p] # t[p]}

SyncOf(b, t, head, who) ==
    IF last[b] = head THEN Idle
    ELSE [step |-> "sync", by |-> who, from |-> last[b], paths |-> Changed(b, last[b], t),
          versions |-> {}]

(* Write, delete, merge or reconcile: under the lock the ref moves, then   *)
(* notifyCommit syncs the index.                                           *)
Commit(b) ==
    /\ Free(b)
    /\ Spend("write")
    /\ \E p \in Paths, v \in Blobs \cup {Absent} :
         LET t == [TreeOf(b) EXCEPT ![p] = v]
         IN  /\ t # TreeOf(b)
             /\ heads' = [heads EXCEPT ![b] = Append(@, t)]
             /\ Take(b, SyncOf(b, t, HeadOf(b) + 1, "write"))
    /\ UNCHANGED <<store, meta, embedder, heal, pending, torn, killed, undone>>

(* indexFile and upsert, one transaction: what is fully indexed only gets  *)
(* the branch's pointer.                                                   *)
IndexFile(b) ==
    /\ At(b, "sync")
    /\ \E p \in op[b].paths :
         LET f == <<p, TreeOf(b)[p]>>
         IN  /\ TreeOf(b)[p] # Absent
             /\ links' = [links EXCEPT ![b][p] = TreeOf(b)[p]]
             /\ \/ /\ CowHit(f)
                   /\ UNCHANGED <<facts, vector, live>>
                \/ /\ ~CowHit(f)
                   /\ Fits
                   /\ facts' = facts \cup {f}
                   /\ vector' = [vector EXCEPT ![f] = embedder]
                   /\ live' = live \cup {f}
             /\ op' = [op EXCEPT ![b].paths = @ \ {p}]
    /\ UNCHANGED <<heads, table, meta, embedder, heal, pending, budget, ghosts>>

(* mutant: a row goes with the first pointer                               *)
OrphanedAtOnce(b, f) == f[2] # Absent

(* Branch b points at version f, and is the last to.                       *)
Orphaned(b, f) == f[2] # Absent /\ f \notin UNION {Linked(c) : c \in Branches \ {b}}

(* delete, one transaction: the pointer, and the row when it was the last. *)
(* Deletions come after what was added and modified.                       *)
Delete(b) ==
    /\ At(b, "sync")
    /\ \A p \in op[b].paths : TreeOf(b)[p] = Absent
    /\ \E p \in op[b].paths :
         LET f      == <<p, links[b][p]>>
             orphan == Orphaned(b, f)
         IN  /\ links' = [links EXCEPT ![b][p] = Absent]
             /\ facts' = IF orphan THEN facts \ {f} ELSE facts
             /\ vector' = IF orphan THEN [vector EXCEPT ![f] = NoModel] ELSE vector
             /\ op' = [op EXCEPT ![b].paths = @ \ {p},
                                 ![b].step = IF orphan THEN "retract" ELSE "sync",
                                 ![b].versions = IF orphan THEN {f} ELSE {}]
    /\ UNCHANGED <<heads, table, live, meta, embedder, heal, pending, budget, ghosts>>

(* mutant: the node is left as it is                                       *)
RetractNothing(b) ==
    /\ At(b, "retract")
    /\ op' = [op EXCEPT ![b].step = "sync", ![b].versions = {}]
    /\ UNCHANGED <<heads, store, meta, embedder, heal, pending, budget, ghosts>>

(* graphDeleteFact, after that transaction.  Its failure is only logged.   *)
Retract(b) ==
    /\ At(b, "retract")
    /\ live' = live \ op[b].versions
    /\ op' = [op EXCEPT ![b].step = "sync", ![b].versions = {}]
    /\ UNCHANGED <<heads, links, facts, vector, table, meta, embedder, heal, pending, budget,
                   ghosts>>

(* mutant: the position after HEAD is recorded                             *)
CasPastHead(b) == [last EXCEPT ![b] = HeadOf(b) + 1]

(* casLastCommit: without a watermark it inserts a row, and leaves alone   *)
(* one that is there.  A write that got this far tells the observer.       *)
CasLastCommit(b) ==
    LET swapped == IF op[b].from <= Cleared THEN last[b] = NoRow ELSE last[b] = op[b].from
    IN  IF swapped THEN [last EXCEPT ![b] = HeadOf(b)] ELSE last

SyncFinish(b) ==
    /\ At(b, "sync")
    /\ op[b].paths = {}
    /\ last' = CasLastCommit(b)
    /\ pending' = (pending \/ op[b].by = "write")
    /\ Take(b, Idle)
    /\ UNCHANGED <<heads, store, version, identity, embedder, heal, budget, torn, killed, undone>>

(* The observer's SyncLocked, on the agent's branch whoever committed.     *)
ObserverSync ==
    /\ pending
    /\ Free(Agent)
    /\ pending' = FALSE
    /\ Take(Agent, SyncOf(Agent, TreeOf(Agent), HeadOf(Agent), "observer"))
    /\ UNCHANGED <<heads, store, meta, embedder, heal, budget, torn, killed, undone>>

-----------------------------------------------------------------------------
(* Rebuild.                                                                *)

(* The watermark is emptied before anything else.                          *)
RebuildBegin(b, who) ==
    /\ Free(b)
    /\ last' = [last EXCEPT ![b] = Cleared]
    /\ Take(b, [Idle EXCEPT !.step = "table", !.by = who])
    /\ UNCHANGED <<heads, store, version, identity, embedder, pending, torn, killed, undone>>

(* An operator's rebuild; the task hub runs one at a time.                 *)
RebuildJob(b) ==
    /\ \A c \in Branches : op[c].by # "job"
    /\ Spend("job")
    /\ RebuildBegin(b, "job")
    /\ UNCHANGED heal

(* mutant: the vectors of another model are kept                           *)
KeepFactsVec(b) ==
    /\ At(b, "table")
    /\ Go(b, "facts")
    /\ UNCHANGED <<heads, store, meta, embedder, heal, pending, budget, ghosts>>

(* A table of another identity is dropped, with every vector in it.        *)
EnsureFactsVec(b) ==
    /\ At(b, "table")
    /\ IF identity = embedder
       THEN UNCHANGED <<vector, table, undone>>
       ELSE /\ vector' = [f \in Versions |-> NoModel]
            /\ table' = embedder
            /\ undone' = FALSE
    /\ Go(b, "facts")
    /\ UNCHANGED <<heads, links, facts, live, meta, embedder, heal, pending, budget, torn, killed,
                   mingled>>

(* One transaction: the branch's pointers are exactly HEAD's tree, and     *)
(* rows that exist stay, so their vectors do.                              *)
RebuildFacts(b) ==
    /\ At(b, "facts")
    /\ links' = [links EXCEPT ![b] = TreeOf(b)]
    /\ facts' = facts \cup {f \in Versions : TreeOf(b)[f[1]] = f[2]}
    /\ Go(b, "collect")
    /\ UNCHANGED <<heads, vector, table, live, meta, embedder, heal, pending, budget, ghosts>>

(* rebuildEmbeddings: the rows without a vector, of every branch, are      *)
(* listed once, then embedded and inserted.  A row that has gone by then   *)
(* is skipped; one that got a vector meanwhile makes the insert fail, and  *)
(* so does a table of another width: see Fail.                             *)
CollectUnembedded(b) ==
    /\ At(b, "collect")
    /\ op' = [op EXCEPT ![b].step = "embed", ![b].versions = Unembedded]
    /\ UNCHANGED <<heads, store, meta, embedder, heal, pending, budget, ghosts>>

Embed(b) ==
    /\ At(b, "embed")
    /\ \E f \in op[b].versions :
         /\ \/ f \notin facts /\ UNCHANGED vector
            \/ /\ f \in Unembedded
               /\ Fits
               /\ vector' = [vector EXCEPT ![f] = embedder]
         /\ op' = [op EXCEPT ![b].versions = @ \ {f}]
    /\ UNCHANGED <<heads, links, facts, table, live, meta, embedder, heal, pending, budget, ghosts>>

EmbedFinish(b) ==
    /\ At(b, "embed")
    /\ op[b].versions = {}
    /\ Go(b, "read")
    /\ UNCHANGED <<heads, store, meta, embedder, heal, pending, budget, ghosts>>

(* rebuildGraph reads the rows of every branch ...                         *)
ReadFacts(b) ==
    /\ At(b, "read")
    /\ op' = [op EXCEPT ![b].step = "graph", ![b].versions = facts]
    /\ UNCHANGED <<heads, store, meta, embedder, heal, pending, budget, ghosts>>

(* The versions a branch has had at any of its commits.                    *)
Ever(b) == {f \in Versions : \E i \in 1 .. HeadOf(b) : heads[b][i][f[1]] = f[2]}

(* ... and then, in one transaction, makes their nodes live and those of   *)
(* the branch's other versions deleted.                                    *)
WriteGraph(b) ==
    /\ At(b, "graph")
    /\ live' = (live \cup op[b].versions) \ (Ever(b) \ op[b].versions)
    /\ op' = [op EXCEPT ![b].step = "version", ![b].versions = {}]
    /\ UNCHANGED <<heads, links, facts, vector, table, meta, embedder, heal, pending, budget, ghosts>>

(* The three marks of a rebuild that succeeded, one statement each.        *)
BumpVersion(b) ==
    /\ At(b, "version")
    /\ version' = [version EXCEPT ![b] = "current"]
    /\ Go(b, "identity")
    /\ UNCHANGED <<heads, store, last, identity, embedder, heal, pending, budget, ghosts>>

PersistIdentity(b) ==
    /\ At(b, "identity")
    /\ identity' = embedder
    /\ Go(b, "mark")
    /\ UNCHANGED <<heads, store, last, version, embedder, heal, pending, budget, ghosts>>

SetLastCommit(b) ==
    /\ At(b, "mark")
    /\ last' = [last EXCEPT ![b] = HeadOf(b)]
    /\ torn' = [torn EXCEPT ![b] = FALSE]
    /\ killed' = [killed EXCEPT ![b] = FALSE]
    /\ Take(b, Idle)
    /\ UNCHANGED <<heads, store, version, identity, embedder, heal, pending, budget, undone>>

-----------------------------------------------------------------------------
(* Failures, the end of the process, and the heal at start.                *)

(* An insert of a vector that is bound to fail.                            *)
CannotEmbed(b) ==
    \/ /\ At(b, "embed")
       /\ \E f \in op[b].versions \cap facts : vector[f] # NoModel \/ ~Fits
    \/ /\ At(b, "sync")
       /\ ~Fits
       /\ \E p \in op[b].paths : TreeOf(b)[p] # Absent /\ ~CowHit(<<p, TreeOf(b)[p]>>)

(* mutant: a failed rebuild leaves the schema version                      *)
KeepVersion(b) == version

(* clearSchemaVersion, when it was a rebuild that failed.                  *)
ClearSchemaVersion(b) ==
    IF op[b].step \in Rebuilding THEN [version EXCEPT ![b] = "missing"] ELSE version

(* An operation stops with an error; what it did so far stays.  A failing  *)
(* graphDeleteFact stops nothing.                                          *)
Stops(b) ==
    IF At(b, "retract")
    THEN /\ op' = [op EXCEPT ![b].step = "sync", ![b].versions = {}]
         /\ torn' = [torn EXCEPT ![b] = TRUE]
         /\ UNCHANGED <<version, mingled>>
    ELSE /\ Take(b, Idle)
         /\ version' = ClearSchemaVersion(b)
         /\ torn' = IF At(b, "sync") THEN [torn EXCEPT ![b] = TRUE] ELSE torn

Fail(b) ==
    /\ ~Free(b)
    /\ \/ CannotEmbed(b) /\ UNCHANGED budget
       \/ Spend("fault")
    /\ Stops(b)
    /\ UNCHANGED <<heads, store, last, identity, embedder, heal, pending, killed, undone>>

(* setupIndex: with the model m configured, each branch is asked once      *)
(* whether it needs a rebuild; the heal then takes them in this order.     *)
HealPlan(m) ==
    [i \in DOMAIN Order |-> [branch |-> Order[i], stale |-> NeedsRebuild(Order[i], m)]]

Restart(e) ==
    /\ budget[e] > 0
    /\ \E m \in Models :
         /\ m # embedder => budget["switch"] > 0
         /\ embedder' = m
         /\ undone' = (undone \/ (m # embedder /\ m = identity))
         /\ heal' = HealPlan(m)
         /\ budget' = [budget EXCEPT ![e] = @ - 1,
                                     !["switch"] = IF m = embedder THEN @ ELSE @ - 1]
    /\ op' = [b \in Branches |-> Idle]
    /\ pending' = FALSE
    /\ torn' = [b \in Branches |-> torn[b] \/ op[b].step \in SyncSteps]
    /\ killed' = [b \in Branches |-> killed[b] \/ op[b].step \in Rebuilding]
    /\ UNCHANGED <<heads, store, meta, mingled>>

(* A stop that waits for what runs, and one that does not.                 *)
CleanRestart == (\A b \in Branches : Free(b)) /\ Restart("restart")
Crash        == (\E b \in Branches : ~Free(b)) /\ Restart("crash")

(* healIndexBranches: a rebuild or a SyncLocked of one branch after the    *)
(* other, whatever became of the one before.                               *)
HealNext ==
    /\ heal # <<>>
    /\ \A b \in Branches : op[b].by # "heal"
    /\ LET b == heal[1].branch
       IN  /\ Free(b)
           /\ heal' = Tail(heal)
           /\ \/ /\ heal[1].stale
                 /\ RebuildBegin(b, "heal")
                 /\ UNCHANGED budget
              \/ /\ ~heal[1].stale
                 /\ Take(b, SyncOf(b, TreeOf(b), HeadOf(b), "heal"))
                 /\ UNCHANGED <<heads, store, meta, embedder, pending, budget, torn, killed, undone>>

-----------------------------------------------------------------------------
(* A repository just cloned or created, and one whose index is up to date; *)
(* the heal of the first start is about to run.                            *)
InitFresh ==
    /\ links = [b \in Branches |-> [p \in Paths |-> Absent]]
    /\ facts = {} /\ live = {}
    /\ vector = [f \in Versions |-> NoModel]
    /\ last = [b \in Branches |-> NoRow]
    /\ version = [b \in Branches |-> "missing"]
    /\ identity = NoModel
    /\ table \in Models

InitIndexed ==
    /\ links = [b \in Branches |-> TreeOf(b)]
    /\ facts = {f \in Versions : \E b \in Branches : TreeOf(b)[f[1]] = f[2]}
    /\ live = facts
    /\ identity \in Models
    /\ vector = [f \in Versions |-> IF f \in facts THEN identity ELSE NoModel]
    /\ last = [b \in Branches |-> 1]
    /\ version = [b \in Branches |-> "current"]
    /\ table = identity

Init ==
    /\ \E t \in Trees : heads = [b \in Branches |-> <<t>>]
    /\ \/ "fresh" \in Starts /\ InitFresh
       \/ "indexed" \in Starts /\ InitIndexed
    /\ embedder \in Models
    /\ heal = HealPlan(embedder)
    /\ op = [b \in Branches |-> Idle]
    /\ pending = FALSE
    /\ budget = Budget
    /\ torn = [b \in Branches |-> FALSE]
    /\ killed = [b \in Branches |-> FALSE]
    /\ mingled = FALSE /\ undone = FALSE

Step(b) ==
    \/ IndexFile(b) \/ Delete(b) \/ Retract(b) \/ SyncFinish(b)
    \/ EnsureFactsVec(b) \/ RebuildFacts(b)
    \/ CollectUnembedded(b) \/ Embed(b) \/ EmbedFinish(b)
    \/ ReadFacts(b) \/ WriteGraph(b)
    \/ BumpVersion(b) \/ PersistIdentity(b) \/ SetLastCommit(b)

Next ==
    \/ \E b \in Branches : Commit(b) \/ Step(b) \/ RebuildJob(b) \/ Fail(b)
    \/ ObserverSync \/ HealNext \/ CleanRestart \/ Crash

Spec == Init /\ [][Next]_vars

-----------------------------------------------------------------------------
(* Correctness.                                                            *)

Op == [step : {"idle"} \cup SyncSteps \cup Rebuilding,
       by : {"nobody", "write", "observer", "heal", "job"},
       from : Int,
       paths : SUBSET Paths,
       versions : SUBSET Versions]

HeadTypes ==
    /\ heads \in [Branches -> Seq(Trees)] /\ last \in [Branches -> Int]
    /\ \A b \in Branches : heads[b] # <<>> /\ last[b] \in NoRow .. HeadOf(b)

IndexTypes ==
    /\ version \in [Branches -> {"missing", "current"}]
    /\ links \in [Branches -> Trees]
    /\ facts \subseteq Versions /\ live \subseteq Versions
    /\ vector \in [Versions -> Models \cup {NoModel}]
    /\ table \in Models /\ identity \in Models \cup {NoModel}

WorkTypes ==
    /\ op \in [Branches -> Op] /\ embedder \in Models
    /\ heal \in Seq([branch : Branches, stale : BOOLEAN])
    /\ pending \in BOOLEAN /\ mingled \in BOOLEAN /\ undone \in BOOLEAN
    /\ torn \in [Branches -> BOOLEAN] /\ killed \in [Branches -> BOOLEAN]
    /\ budget \in [Events -> Nat]

TypeOK == HeadTypes /\ IndexTypes /\ WorkTypes

(* A branch whose watermark is at HEAD holds exactly the facts of HEAD,    *)
(* through failures, crashes and operations on the other branch -- unless  *)
(* a sync of it stopped part-way and no rebuild has followed.              *)
AtWatermarkIsCoherent ==
    \A b \in Branches : Free(b) /\ last[b] = HeadOf(b) /\ ~torn[b] => FactsCoherent(b)

(* Rows are shared between branches and counted, not owned: no branch ever *)
(* points at a row that the other branch's sync deleted.                   *)
RowsAreKept == Referenced \subseteq facts

(* A rebuild that failed is found and done again at the next start: a      *)
(* branch left without watermark reports stale -- unless the process was   *)
(* killed during the rebuild.                                              *)
HalfRebuiltIsRetried ==
    \A b \in Branches : Free(b) /\ last[b] = Cleared /\ ~killed[b] => version[b] # "current"

(* Once no branch needs a rebuild, every row has a vector, of the model    *)
(* that is configured, although the model changed, rebuilds of two         *)
(* branches overlapped or one failed -- unless a switch of model was       *)
(* undone before a rebuild had put it on record.                           *)
VectorsComplete ==
    ~undone /\ (\A b \in Branches : Free(b) /\ ~killed[b] /\ ~NeedsRebuild(b, embedder)) =>
        EmbeddingsCovered /\ \A f \in facts : vector[f] = embedder

(* Fact rows and live nodes agree (Verify's graph-coherence) when nothing  *)
(* runs, as long as operations on two branches never overlapped.           *)
GraphIsCoherent ==
    ~mingled /\ (\A b \in Branches : Free(b) /\ version[b] = "current" /\ ~torn[b] /\ ~killed[b])
        => GraphCoherent
=============================================================================
