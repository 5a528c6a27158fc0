-------------------------- MODULE RegistryMigration -------------------------
(***************************************************************************)
(* The conversion of a home to the repository registry (knomit             *)
(* migrate-registry, cmd/migrate_registry.go): what names and archive      *)
(* manifests said of the databases goes to control.db, the files are       *)
(* renamed to their uids, and only then the columns that held the origins  *)
(* are dropped.  A run may fail or die between any two steps; what follows *)
(* is up to the operator (finish by hand, move files back, restore the     *)
(* backup, lose a file, run again with flags) and to the server, which     *)
(* boots on some half-converted homes and opens what is registered.        *)
(*                                                                         *)
(* The server is kept stopped while the tool runs; the marker it looks for *)
(* at its start is all that sees to it.                                    *)
(***************************************************************************)
EXTENDS Integers, FiniteSets, Functions

CONSTANTS
    Repos,       \* knowledge bases; each is one database file
    Archived,    \* those in the archive of the old home
    Fresh,       \* those the server may create after a conversion
    Apart,       \* those whose file is elsewhere at first
    Names, Uids,
    Name,        \* [Repos -> Names]
    ArchiveId,   \* [Archived -> Uids], the name of the archived file
    Root,        \* root commits
    HasOrigin,   \* repositories connected to a remote
    Lenses,      \* [lens |-> [write |-> name, reads |-> names]], of the old home
    NoWal, NoRepo,
    Budget       \* bound on each kind of event

Events == {"run", "fault", "operator", "server"}
Flags  == {"force", "dropDanglingLensRefs", "ignoreRunningMarker", "discardUnbackedOrigins"}
Places == {"repos", "archive", "elsewhere", "nowhere"} \X (Names \cup Uids)

ASSUME RepoAssumption ==
    /\ Archived \subseteq Repos /\ Fresh \subseteq Repos \ Archived
    /\ Apart \subseteq Repos \ (Archived \cup Fresh)
    /\ HasOrigin \subseteq Repos /\ NoRepo \notin Repos
    /\ Name \in [Repos -> Names]
    /\ \A r, q \in Repos \ Archived : Name[r] = Name[q] => r = q
ASSUME IdAssumption ==
    /\ Names \cap Uids = {} /\ NoWal \notin Places
    /\ ArchiveId \in [Archived -> Uids] /\ IsInjective(ArchiveId)
ASSUME LensAssumption ==
    \A l \in DOMAIN Lenses :
        /\ Lenses[l].write \in Lenses[l].reads
        /\ Lenses[l].reads \subseteq {Name[r] : r \in Repos \ (Fresh \cup Apart)}
ASSUME BudgetAssumption == Budget \in [Events -> Nat]

VARIABLES
    control,    \* control.db
    baks,       \* its backups
    file,       \* directory and name of each database
    wal,        \* where committed frames lie beside a database, if any do
    columns,    \* databases that still have the connection columns
    manifests,  \* archived repositories with a manifest
    server,     \* whether it is up
    marker,     \* running.marker
    run,        \* the run of the tool
    budget,     \* what is left of each event
    dropped,    \* ghost: lenses the operator let the tool cut
    discarded,  \* ghost: repositories whose origin the operator gave up
    undone      \* ghost: repositories the operator moved back

disk   == <<file, wal, columns, manifests>>
ghosts == <<dropped, discarded, undone>>
vars   == <<control, baks, disk, server, marker, run, budget, ghosts>>

Spend(e) == budget[e] > 0 /\ budget' = [budget EXCEPT ![e] = @ - 1]

NoRun == [pc |-> "idle", uid |-> << >>, lenses |-> << >>, cuts |-> {}, gives |-> {}, todo |-> {}, at |-> NoRepo, moved |-> {}, failed |-> FALSE]

Dir(r)  == file[r][1]
Stem(r) == file[r][2]

OldPlace(r) == IF r \in Archived THEN <<"archive", ArchiveId[r]>> ELSE <<"repos", Name[r]>>

Registered(r) == {u \in DOMAIN control.rows : control.rows[u].of = r}

-----------------------------------------------------------------------------
(* The plan.  A home it refuses stays as it is: there is no step.          *)

(* A live server, or one that died without cleaning up.                    *)
NotRunning(flags) == marker => "ignoreRunningMarker" \in flags /\ ~server

Listed    == {r \in Repos : Dir(r) = "repos"}
InArchive == {r \in Repos : Dir(r) = "archive"}
Captured  == Listed \cup manifests

(* A file named by a registered uid, or by a ksuid, was renamed by a run   *)
(* before; one without the columns was migrated.                           *)
ActiveOnesAreLegacy ==
    \A r \in Listed : /\ Stem(r) \notin DOMAIN control.rows
                      /\ r \in columns
                      /\ Stem(r) \notin Uids

(* Each manifest has its database, and each database a manifest.           *)
ArchiveIsLegacy ==
    /\ \A r \in manifests : file[r] = OldPlace(r) /\ r \in columns
    /\ InArchive \subseteq manifests

Named(n) == {u \in DOMAIN control.rows : control.rows[u].name = n /\ control.rows[u].state = "active"}

(* Uids nothing has had; that they do not run out is a bound.              *)
FreeUids == {u \in Uids : /\ u \notin DOMAIN control.rows \cup Range(ArchiveId)
                          /\ \A b \in baks : u \notin DOMAIN b.rows
                          /\ \A r \in Repos : Stem(r) # u}

Unnamed == {r \in Listed : Named(Stem(r)) = {}}
Mints   == {f \in [Unnamed -> FreeUids] : IsInjective(f)}

(* The uid of the row an earlier run made, the archive's, or a new one.    *)
PlannedUids ==
    LET mint == CHOOSE f \in Mints : TRUE
    IN  [r \in Captured |-> IF r \in manifests    THEN ArchiveId[r]
                            ELSE IF r \in Unnamed THEN mint[r]
                            ELSE CHOOSE u \in Named(Stem(r)) : TRUE]

NoDuplicates ==
    \A r, q \in Listed : Root[r] = Root[q] => r = q

(* What a lens member is under the plan: a uid stays, a name is that of an *)
(* active repository, or else of an archived one.                          *)
ResolveUid(uid, ref) == {u \in {uid[r] : r \in DOMAIN uid} : u = ref}

ResolveName(uid, ref) ==
    LET active == {uid[r] : r \in {q \in Listed : Stem(q) = ref}}
    IN  IF active # {} THEN active ELSE {uid[r] : r \in {q \in manifests : Name[q] = ref}}

Resolve(uid, ref) ==
    IF control.shape = "uids" THEN ResolveUid(uid, ref) ELSE ResolveName(uid, ref)

Dangles(uid, ref) == Resolve(uid, ref) = {}
Target(uid, ref)  == CHOOSE u \in Resolve(uid, ref) : TRUE

PlannedLenses(uid) ==
    [l \in {k \in DOMAIN control.lenses : ~Dangles(uid, control.lenses[k].write)} |->
        [write |-> Target(uid, control.lenses[l].write),
         reads |-> {Target(uid, m) : m \in {n \in control.lenses[l].reads : ~Dangles(uid, n)}}]]

Cut(uid) == {l \in DOMAIN control.lenses : \E m \in control.lenses[l].reads : Dangles(uid, m)}

(* Origins that only the rows hold which --force is about to delete.       *)
Unbacked(uid) == DOMAIN control.origins \ {uid[r] : r \in DOMAIN uid}

(* mutant: the plan reads the databases through the store, which migrates  *)
ReadThroughStore == columns' = columns \ Captured

(* Raw, read-only handles.                                                 *)
ReadRaw == UNCHANGED columns

Start(flags) ==
    /\ run = NoRun
    /\ Spend("run")
    /\ NotRunning(flags)
    /\ DOMAIN control.rows # {} => "force" \in flags
    /\ ActiveOnesAreLegacy /\ ArchiveIsLegacy /\ NoDuplicates /\ Mints # {}
    /\ Captured # {} \/ control.shape = "names"
    /\ LET uid == PlannedUids
       IN  /\ Cut(uid) # {} => "dropDanglingLensRefs" \in flags
           /\ Unbacked(uid) # {} => "discardUnbackedOrigins" \in flags
           /\ run' = [NoRun EXCEPT !.pc = "backup", !.uid = uid, !.lenses = PlannedLenses(uid),
                                   !.cuts = Cut(uid),
                                   !.gives = {control.origins[u] : u \in Unbacked(uid)}]
    /\ ReadRaw
    /\ UNCHANGED <<control, baks, file, wal, manifests, server, marker, ghosts>>

-----------------------------------------------------------------------------
(* The writes.                                                             *)

(* mutant: what was moved is kept for the next run                         *)
ReturnPartly == run' = [NoRun EXCEPT !.moved = run.moved]

Return == run' = NoRun

(* VACUUM INTO a name no backup has yet.                                   *)
Backup ==
    /\ run.pc = "backup"
    /\ \/ /\ baks' = baks \cup {control}
          /\ run' = [run EXCEPT !.pc = "apply"]
          /\ UNCHANGED budget
       \/ /\ Spend("fault")
          /\ Return
          /\ UNCHANGED baks
    /\ UNCHANGED <<control, disk, server, marker, ghosts>>

(* mutant: the old lens tables are dropped before the transaction          *)
DropsCommitted == control' = [control EXCEPT !.lenses = << >>]

RollBack == UNCHANGED control

StateOf(r) == IF r \in manifests THEN "archived" ELSE "active"
RepoAt(u)  == CHOOSE r \in DOMAIN run.uid : run.uid[r] = u

(* One transaction: rows and origins as on disk, lenses by uid.            *)
Apply ==
    /\ run.pc = "apply"
    /\ LET planned == Range(run.uid)
       IN  \/ /\ control' =
                    [shape   |-> "uids",
                     rows    |-> [u \in planned |-> [name  |-> IF RepoAt(u) \in manifests THEN Name[RepoAt(u)]
                                                               ELSE Stem(RepoAt(u)),
                                                     state |-> StateOf(RepoAt(u)), of |-> RepoAt(u)]],
                     origins |-> [u \in {run.uid[r] : r \in DOMAIN run.uid \cap HasOrigin} |-> RepoAt(u)],
                     lenses  |-> run.lenses]
              /\ run' = [run EXCEPT !.pc = "move", !.todo = DOMAIN run.uid]
              /\ dropped' = dropped \cup run.cuts
              /\ discarded' = discarded \cup run.gives
              /\ UNCHANGED budget
           \/ /\ Spend("fault")
              /\ RollBack
              /\ Return
              /\ UNCHANGED <<dropped, discarded>>
    /\ UNCHANGED <<baks, disk, server, marker, undone>>

(* The renaming stops at the first failure.                                *)
StopMoving == run' = [run EXCEPT !.pc = "manifests", !.todo = {}, !.failed = TRUE]

FoldWal(r) == wal' = [wal EXCEPT ![r] = NoWal]

Checkpoint(r) ==
    /\ run.pc = "move" /\ r \in run.todo
    /\ \/ /\ FoldWal(r)
          /\ run' = [run EXCEPT !.pc = "rename", !.at = r]
          /\ UNCHANGED budget
       \/ Spend("fault") /\ StopMoving /\ UNCHANGED wal
    /\ UNCHANGED <<control, baks, file, columns, manifests, server, marker, ghosts>>

NewPlace(r) == <<"repos", run.uid[r]>>

(* The file first, then what is beside it: a run may die in between.       *)
Rename ==
    /\ run.pc = "rename"
    /\ LET r == run.at
       IN  \/ /\ file' = [file EXCEPT ![r] = NewPlace(r)]
              /\ wal' \in {wal, [wal EXCEPT ![r] = IF @ = NoWal THEN NoWal ELSE NewPlace(r)]}
              /\ run' = [run EXCEPT !.pc = "move", !.at = NoRepo, !.todo = @ \ {r}, !.moved = @ \cup {r}]
              /\ UNCHANGED budget
           \/ Spend("fault") /\ StopMoving /\ UNCHANGED <<file, wal>>
    /\ UNCHANGED <<control, baks, columns, manifests, server, marker, ghosts>>

AllMoved ==
    /\ run.pc = "move" /\ run.todo = {}
    /\ run' = [run EXCEPT !.pc = "manifests"]
    /\ UNCHANGED <<control, baks, disk, server, marker, budget, ghosts>>

(* mutant: the manifests go, whatever has become of the databases          *)
AllManifests == manifests

(* Manifests of databases that have arrived.                               *)
ServedManifests == manifests \cap run.moved

RemoveManifest(r) ==
    /\ run.pc = "manifests" /\ r \in ServedManifests
    /\ \/ /\ manifests' = manifests \ {r}
          /\ UNCHANGED <<run, budget>>
       \/ /\ Spend("fault")
          /\ run' = [run EXCEPT !.failed = TRUE, !.moved = @ \ {r}]
          /\ UNCHANGED manifests
    /\ UNCHANGED <<control, baks, file, wal, columns, server, marker, ghosts>>

(* After a failure the databases are not migrated.                         *)
ManifestsRemoved ==
    /\ run.pc = "manifests" /\ ServedManifests = {}
    /\ IF run.failed THEN Return
       ELSE run' = [run EXCEPT !.pc = "migrate", !.todo = DOMAIN run.uid]
    /\ UNCHANGED <<control, baks, disk, server, marker, budget, ghosts>>

(* The store opens a database: frames are folded in, the columns go.       *)
StoreOpens(r) ==
    /\ columns' = columns \ {r}
    /\ FoldWal(r)

Migrate(r) ==
    /\ run.pc = "migrate" /\ r \in run.todo
    /\ \/ /\ StoreOpens(r)
          /\ run' = [run EXCEPT !.todo = @ \ {r}]
          /\ UNCHANGED budget
       \/ Spend("fault") /\ Return /\ UNCHANGED <<columns, wal>>
    /\ UNCHANGED <<control, baks, file, manifests, server, marker, ghosts>>

Done ==
    /\ run.pc = "migrate" /\ run.todo = {}
    /\ Return
    /\ UNCHANGED <<control, baks, disk, server, marker, budget, ghosts>>

(* The run dies.                                                           *)
Crash ==
    /\ run # NoRun
    /\ Spend("fault")
    /\ Return
    /\ UNCHANGED <<control, baks, disk, server, marker, ghosts>>

-----------------------------------------------------------------------------
(* The server (external to the tool: Manager.Start and what it serves).    *)

(* refuseUnmigratedHome: not on lenses by name, nor with files in the old  *)
(* archive.                                                                *)
Boots ==
    /\ ~server /\ run = NoRun
    /\ Spend("server")
    /\ control.shape = "uids" /\ InArchive = {}
    /\ server' = TRUE /\ marker' = TRUE
    /\ UNCHANGED <<control, baks, disk, run, ghosts>>

(* Active repositories at boot, one after the other; an archived one when  *)
(* it is restored.                                                         *)
Opens(r) ==
    /\ server
    /\ Dir(r) = "repos" /\ Stem(r) \in DOMAIN control.rows
    /\ r \in columns \/ wal[r] # NoWal
    /\ StoreOpens(r)
    /\ UNCHANGED <<control, baks, file, manifests, server, marker, run, budget, ghosts>>

(* Neither its name nor its knowledge base is that of an active one.       *)
Creates(r) ==
    /\ server
    /\ r \in Fresh /\ Dir(r) = "nowhere"
    /\ \A u \in DOMAIN control.rows : control.rows[u].state = "active" =>
          control.rows[u].name # Name[r] /\ Root[control.rows[u].of] # Root[r]
    /\ FreeUids # {}
    /\ LET u    == CHOOSE v \in FreeUids : TRUE
           uids == DOMAIN control.origins \cup (IF r \in HasOrigin THEN {u} ELSE {})
       IN  /\ control' =
                [shape   |-> control.shape,
                 rows    |-> [v \in DOMAIN control.rows \cup {u} |->
                                IF v = u THEN [name |-> Name[r], state |-> "active", of |-> r] ELSE control.rows[v]],
                 origins |-> [v \in uids |-> IF v = u THEN r ELSE control.origins[v]],
                 lenses  |-> control.lenses]
           /\ file' = [file EXCEPT ![r] = <<"repos", u>>]
    /\ UNCHANGED <<baks, wal, columns, manifests, server, marker, run, budget, ghosts>>

(* It stops, or dies and leaves the marker.                                *)
Stops ==
    /\ server
    /\ server' = FALSE
    /\ marker' \in BOOLEAN
    /\ UNCHANGED <<control, baks, disk, run, budget, ghosts>>

-----------------------------------------------------------------------------
(* The operator, between runs and with the server stopped.                 *)

(* A file is moved with what is beside it.                                 *)
Moves(r, place) ==
    /\ run = NoRun /\ ~server
    /\ Spend("operator")
    /\ file' = [file EXCEPT ![r] = place]
    /\ wal' = [wal EXCEPT ![r] = IF @ = NoWal THEN NoWal ELSE place]
    /\ UNCHANGED <<control, baks, columns, manifests, server, marker, run, dropped, discarded>>

(* "Finish these renames by hand."                                         *)
FinishByHand(r) ==
    /\ file[r] = OldPlace(r)
    /\ \E u \in Registered(r) : Moves(r, <<"repos", u>>)
    /\ UNCHANGED undone

(* "Move the already-renamed files back to their original names."          *)
MoveBack(r) ==
    /\ r \notin Fresh /\ Dir(r) = "repos" /\ file[r] # OldPlace(r)
    /\ Moves(r, OldPlace(r))
    /\ undone' = undone \cup {r}

LosesFile(r) ==
    /\ Dir(r) \in {"repos", "archive"}
    /\ Moves(r, <<"elsewhere", Stem(r)>>)
    /\ UNCHANGED undone

FindsFile(r) ==
    /\ Dir(r) = "elsewhere"
    /\ Moves(r, <<IF r \in manifests THEN "archive" ELSE "repos", Stem(r)>>)
    /\ UNCHANGED undone

(* As long as every database still holds its own origin.                   *)
RestoreBackup ==
    /\ run = NoRun /\ ~server
    /\ Spend("operator")
    /\ \A r \in HasOrigin : r \in columns \/ Dir(r) = "nowhere"
    /\ control' \in baks
    /\ UNCHANGED <<baks, disk, server, marker, run, ghosts>>

-----------------------------------------------------------------------------
(* A home of the old kind: its server was stopped, or died.                *)
Init ==
    /\ control = [shape |-> "names", rows |-> << >>, origins |-> << >>, lenses |-> Lenses]
    /\ baks = {}
    /\ file = [r \in Repos |-> CASE r \in Fresh -> <<"nowhere", Name[r]>>
                                [] r \in Apart -> <<"elsewhere", Name[r]>>
                                [] OTHER -> OldPlace(r)]
    /\ marker \in BOOLEAN
    /\ wal \in [Repos -> Places \cup {NoWal}]
    /\ \A r \in Repos : wal[r] \in {NoWal} \cup (IF marker /\ r \notin Fresh THEN {file[r]} ELSE {})
    /\ columns = Repos \ Fresh
    /\ manifests = Archived
    /\ server = FALSE
    /\ run = NoRun
    /\ budget = Budget
    /\ dropped = {} /\ discarded = {} /\ undone = {}

Next ==
    \/ \E flags \in SUBSET Flags : Start(flags)
    \/ Backup \/ Apply \/ Rename \/ AllMoved \/ ManifestsRemoved \/ Done \/ Crash
    \/ \E r \in Repos : Checkpoint(r) \/ RemoveManifest(r) \/ Migrate(r)
    \/ Boots \/ Stops
    \/ \E r \in Repos : Opens(r) \/ Creates(r)
    \/ \E r \in Repos : FinishByHand(r) \/ MoveBack(r) \/ LosesFile(r) \/ FindsFile(r)
    \/ RestoreBackup

Spec == Init /\ [][Next]_vars

-----------------------------------------------------------------------------
(* Properties.                                                             *)

PlaceOrNot == Places \cup {NoWal}

ControlOK(c) ==
    /\ c.shape \in {"names", "uids"}
    /\ DOMAIN c.origins \subseteq DOMAIN c.rows /\ DOMAIN c.rows \subseteq Uids
    /\ \A u \in DOMAIN c.rows : c.rows[u] \in [name : Names, state : {"active", "archived"}, of : Repos]
    /\ \A l \in DOMAIN c.lenses : c.lenses[l].write \in c.lenses[l].reads

(* Types, and that a lens writes where it also reads.                      *)
TypeOK ==
    /\ ControlOK(control) /\ \A b \in baks : ControlOK(b)
    /\ file \in [Repos -> Places] /\ wal \in [Repos -> PlaceOrNot]
    /\ columns \subseteq Repos /\ manifests \subseteq Archived
    /\ run.todo \cup run.moved \subseteq DOMAIN run.uid
    /\ budget \in [Events -> Nat]

(* The origin of a repository -- its URL and credentials, which nothing    *)
(* else holds -- is in its database or in control.db, on the row of that   *)
(* database, whatever fails, dies, is moved, lost, found, restored and run *)
(* again, as long as the operator does not give it up by a flag ("THE      *)
(* ORDERING INVARIANT").                                                   *)
OriginKept ==
    \A r \in HasOrigin \ discarded :
        Dir(r) # "nowhere" /\ r \notin columns
            => \E u \in Registered(r) : u \in DOMAIN control.origins /\ control.origins[u] = r

(* A lens of the old home is in control.db, and each of its members is the *)
(* repository its name meant then, unless the operator let it be cut       *)
(* ("silently discarded every lens definition", applyControlDB).           *)
Meant(n) == {r \in Repos \ (Fresh \cup Apart) :
                Name[r] = n /\ (r \in Archived => \A q \in Repos \ (Archived \cup Fresh \cup Apart) : Name[q] # n)}

Means(ref) == IF control.shape = "names" THEN Meant(ref) ELSE {control.rows[u].of : u \in {ref} \cap DOMAIN control.rows}

LensesKept ==
    \A l \in DOMAIN Lenses \ dropped :
        /\ l \in DOMAIN control.lenses
        /\ Means(control.lenses[l].write) = Meant(Lenses[l].write)
        /\ UNION {Means(m) : m \in control.lenses[l].reads} = UNION {Meant(n) : n \in Lenses[l].reads}

(* Every database can be found with all that was committed to it, and is   *)
(* registered once and as what it is: an archived one has its manifest     *)
(* until it is where its row says, frames are never left behind, no        *)
(* repository is called after a uid, no row names another's file, and no   *)
(* two active ones hold one knowledge base.                                *)
DatabasesAreKept ==
    /\ \A r \in Repos : Dir(r) = "archive" /\ r \notin undone => r \in manifests
    /\ \A r \in Repos : wal[r] \in {NoWal, file[r]}
    /\ \A r \in Repos : Cardinality(Registered(r)) <= 1
    /\ \A u \in DOMAIN control.rows : control.rows[u].name = Name[control.rows[u].of]
    /\ \A r \in Repos : Dir(r) = "repos" /\ Stem(r) \in DOMAIN control.rows => control.rows[Stem(r)].of = r
    /\ \A u, v \in DOMAIN control.rows :
          /\ control.rows[u].state = "active" /\ control.rows[v].state = "active"
          /\ Root[control.rows[u].of] = Root[control.rows[v].of]
          => u = v
=============================================================================
