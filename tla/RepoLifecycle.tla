---------------------------- MODULE RepoLifecycle ---------------------------
(***************************************************************************)
(* The life of a repository (internal/repos/lifecycle.go, manager.go,      *)
(* registry.go, lens.go): its row in control.db, its database file, the    *)
(* maps of what is served, and the lenses that mount it.                   *)
(*                                                                         *)
(* A row is changed by single SQL statements, the maps under m.mu, and     *)
(* names and origins are reserved under inflightMu; no lock spans two of   *)
(* these, so one action is one of them and calls interleave in between.    *)
(* What keeps them apart is the reservations, the unique indexes on active *)
(* rows, the compare-and-set of a rename and the order of the steps.  Any  *)
(* step may fail, the process may end between any two, and what a failed   *)
(* call compensates is modelled with the failures of compensating.         *)
(***************************************************************************)
EXTENDS Integers, Sequences, FiniteSets

CONSTANTS
    Uids,       \* repositories, by registry uid
    Names,      \* display names, of repositories and lenses
    Origins,    \* URLs of remotes
    KbOf,       \* the knowledge base (root commit) behind each URL
    Calls,      \* concurrent calls of the manager
    Mounts,     \* sets of members a lens may be given
    Homes,      \* registries a process may find at its first start
    NoName, NoOrigin, NoKb, NoFile, NoUid,
    Budget      \* bound on each kind of event

Events == {"call", "lens", "fault"}
Kbs    == Uids \cup {KbOf[o] : o \in Origins}

(* A repository made here has a base of its own.                           *)
KbFrom(u, o) == IF o = NoOrigin THEN u ELSE KbOf[o]

NoRow == [state |-> "none", name |-> NoName, kb |-> NoKb, origin |-> NoOrigin]

RowSet == [state : {"active", "archived"}, name : Names, kb : Kbs \cup {NoKb},
           origin : Origins \cup {NoOrigin}] \cup {NoRow}

(* A registry the indexes allow; migrate-registry leaves the base unset.   *)
WellFormed(h) ==
    /\ h \in [Uids -> RowSet]
    /\ \A u \in Uids : h[u].kb \in {NoKb, KbFrom(u, h[u].origin)}
    /\ \A u, v \in Uids :
         u # v /\ h[u].state = "active" /\ h[v].state = "active"
           => h[u].name # h[v].name /\ (h[u].kb = NoKb \/ h[u].kb # h[v].kb)

ASSUME NoValueAssumption ==
    NoName \notin Names /\ NoOrigin \notin Origins /\ NoKb \notin Kbs /\ NoFile \notin Kbs
    /\ NoUid \notin Uids
ASSUME HomesAssumption == \A h \in Homes : WellFormed(h)
ASSUME MountsAssumption == Mounts \subseteq (SUBSET Uids) \ {{}}
ASSUME KbAssumption     == DOMAIN KbOf = Origins
ASSUME BudgetAssumption == Budget \in [Events -> Nat]

VARIABLES
    rows,        \* control.db: repos joined with repo_origins
    lenses,      \* control.db: the members of the lens of each name
    files,       \* the knowledge base in <home>/repos/<uid>.db
    opened,      \* the instances this process has opened: uid and knowledge base
    repos,       \* m.repos: the instance served under a name, 0 for none
    byUID,       \* m.byUID
    unavailable, \* m.unavailable
    boot,        \* active rows Start has yet to open
    call,        \* where each call is
    budget,      \* what is left of each event
    born,        \* ghost: repositories a call has finished making
    strayed,     \* ghost: left to calls no lock keeps apart (Strays, Revert)
    shadowed,    \* ghost: names a lens took while an unavailable repository had them
    unrecorded   \* ghost: repositories whose identity could not be recorded

registry == <<rows, lenses>>
maps     == <<opened, repos, byUID, unavailable>>
ghosts   == <<born, strayed, shadowed, unrecorded>>
vars     == <<registry, files, maps, boot, call, budget, ghosts>>

Spend(e) == budget[e] > 0 /\ budget' = [budget EXCEPT ![e] = @ - 1]

(* A step fails because it must, or because of an error from outside.      *)
Fails(must) == IF must THEN UNCHANGED budget ELSE Spend("fault")

Row(u)    == rows[u].state # "none"
Active(u) == rows[u].state = "active"

(* The unique indexes on active rows.                                      *)
NameTaken(u, n) == \E v \in Uids \ {u} : Active(v) /\ rows[v].name = n
KbTaken(u, k)   == k # NoKb /\ \E v \in Uids \ {u} : Active(v) /\ rows[v].kb = k

(* mutant: a row that is gone comes back                                   *)
Upsert(u, st) == [rows EXCEPT ![u].state = st]

(* An UPDATE of no row where the row is gone.                              *)
SetState(u, st) == IF Row(u) THEN [rows EXCEPT ![u].state = st] ELSE rows

RefsRepo(u) == {n \in Names : u \in lenses[n]}

Served(n, u) == repos[n] # 0 /\ opened[repos[n]].uid = u

-----------------------------------------------------------------------------
(* Calls.                                                                  *)

Idle == [op |-> "none", pc |-> "idle", uid |-> NoUid, name |-> NoName, was |-> NoName,
         origin |-> NoOrigin, inst |-> 0]

At(c, op, pc) == call[c].op = op /\ call[c].pc = pc
Reaches(c, pc) == call[c].pc = pc
Reserving     == {"create", "restore", "rename"}

(* What calls have reserved in m.creating and in m.creatingOrigins: from   *)
(* the reservation to their return.                                        *)
Reservers  == {d \in Calls : call[d].op \in Reserving /\ ~Reaches(d, "reserve")}
Holding(c) == Reservers \ {c}

(* mutant: names are not reserved                                          *)
NothingReserved(calls, n) == FALSE

AmongNames(calls, n) == \E d \in calls : call[d].name = n
NameReserved(c, n)   == AmongNames(Holding(c), n)
OriginReserved(c, o) == o # NoOrigin /\ \E d \in Holding(c) : call[d].origin = o

(* Two calls that no lock keeps apart: a create, restore or purge of a     *)
(* repository, and another of these or a rename of the same.               *)
Strays(calls) ==
    {u \in Uids : \E c, d \in Calls :
        /\ c # d /\ calls[c].uid = u /\ calls[d].uid = u
        /\ calls[c].op \in {"create", "restore", "purge"}}

(* Call c goes on as r.                                                    *)
Become(c, r) ==
    /\ call' = [call EXCEPT ![c] = r]
    /\ strayed' = strayed \cup Strays([call EXCEPT ![c] = r])

Go(c, pc) == Become(c, [call[c] EXCEPT !.pc = pc])
Return(c) == Become(c, Idle)

(* A call starts, on a manager that has come up.                           *)
Begin(c, r) ==
    /\ boot = {}
    /\ Reaches(c, "idle")
    /\ Spend("call")
    /\ Become(c, r)

-----------------------------------------------------------------------------
(* Create and Restore: what they share.                                    *)

(* A uid nothing has heard of.                                             *)
Fresh(u) ==
    /\ ~Row(u) /\ files[u] = NoFile /\ u \notin born /\ RefsRepo(u) = {}
    /\ byUID[u] = 0 /\ \A n \in Names : ~Served(n, u)
    /\ \A c \in Calls : call[c].uid # u

StartCreate(c) ==
    \E n \in Names, o \in Origins \cup {NoOrigin}, u \in Uids :
        /\ Fresh(u)
        /\ ~NameReserved(c, n) /\ ~OriginReserved(c, o)
        /\ Begin(c, [Idle EXCEPT !.op = "create", !.uid = u, !.name = n, !.origin = o,
                                 !.pc = IF o = NoOrigin THEN "check" ELSE "scan"])
        /\ UNCHANGED <<registry, files, maps, boot, born, shadowed, unrecorded>>

(* The row as it was read decides what follows: the state, the name to     *)
(* return to, the origin to reserve.                                       *)
StartRestore(c) ==
    \E u \in Uids, n \in Names :
        /\ rows[u].state = "archived"
        /\ Begin(c, [Idle EXCEPT !.op = "restore", !.pc = "reserve", !.uid = u, !.name = n,
                                 !.was = rows[u].name, !.origin = rows[u].origin])
        /\ UNCHANGED <<registry, files, maps, boot, born, shadowed, unrecorded>>

Reserve(c) ==
    /\ Reaches(c, "reserve")
    /\ \/ /\ (NameReserved(c, call[c].name) \/ OriginReserved(c, call[c].origin))
          /\ Return(c)
       \/ /\ ~NameReserved(c, call[c].name) /\ ~OriginReserved(c, call[c].origin)
          /\ Go(c, IF call[c].origin = NoOrigin THEN "check" ELSE "scan")
    /\ UNCHANGED <<registry, files, maps, boot, budget, born, shadowed, unrecorded>>

(* ActiveRepoWithOrigin, once the origin is reserved.                      *)
Scan(c) ==
    /\ Reaches(c, "scan")
    /\ IF \E u \in Uids : Active(u) /\ rows[u].origin = call[c].origin
       THEN Return(c)
       ELSE Go(c, "check")
    /\ UNCHANGED <<registry, files, maps, boot, budget, born, shadowed, unrecorded>>

(* Get and lensNameConflict, once the name is reserved.                    *)
Check(c) ==
    /\ Reaches(c, "check")
    /\ IF repos[call[c].name] # 0 \/ lenses[call[c].name] # {}
       THEN Return(c)
       ELSE Go(c, CASE call[c].op = "create" -> "insert"
                    [] call[c].op = "rename" -> "cas"
                    [] OTHER -> IF call[c].name = call[c].was THEN "activate" ELSE "rename")
    /\ UNCHANGED <<registry, files, maps, boot, budget, born, shadowed, unrecorded>>

(* Set, under m.mu: u's new instance i is served as n.                     *)
Serve(u, n, i) ==
    LET old     == repos[n]
        evicted == IF old # 0 THEN [byUID EXCEPT ![opened[old].uid] = 0] ELSE byUID
    IN  /\ opened' = Append(opened, [uid |-> u, kb |-> files[u]])
        /\ repos' = [repos EXCEPT ![n] = i]
        /\ byUID' = [evicted EXCEPT ![u] = i]

(* Add: open the database, and serve it.                                   *)
Add(c) ==
    /\ Reaches(c, "add")
    /\ \/ /\ files[call[c].uid] # NoFile
          /\ Serve(call[c].uid, call[c].name, Len(opened) + 1)
          /\ Go(c, "get")
          /\ UNCHANGED budget
       \/ /\ Fails(files[call[c].uid] = NoFile)
          /\ Go(c, IF call[c].op = "create" THEN "unfile" ELSE "rearchive")
          /\ UNCHANGED <<opened, repos, byUID>>
    /\ UNCHANGED <<registry, files, unavailable, boot, born, shadowed, unrecorded>>

(* The instance is looked up by its name again: somebody may have archived *)
(* or renamed it since.                                                    *)
GetBack(c) ==
    /\ Reaches(c, "get")
    /\ IF repos[call[c].name] = 0
       THEN Return(c) /\ born' = born \cup {call[c].uid}
       ELSE Become(c, [call[c] EXCEPT !.pc = "record", !.inst = repos[call[c].name]]) /\ UNCHANGED born
    /\ UNCHANGED <<registry, files, maps, boot, budget, shadowed, unrecorded>>

(* mutant: the identity of a repository that had none is left alone        *)
RecordKnown(u, kb) == [rows EXCEPT ![u].kb = IF @ = NoKb THEN NoKb ELSE kb]

RecordRepoID(u, kb) == [rows EXCEPT ![u].kb = kb]

(* RecordRepoID: a knowledge base another active repository holds undoes   *)
(* the call; any other failure is only logged.                             *)
Record(c) ==
    /\ Reaches(c, "record")
    /\ LET u        == call[c].uid
           kb       == opened[call[c].inst].kb
           conflict == Active(u) /\ KbTaken(u, kb)
       IN  \/ /\ conflict
              /\ Go(c, "conflict")
              /\ UNCHANGED <<rows, born, unrecorded, budget>>
           \/ /\ ~conflict
              /\ rows' = IF Row(u) THEN RecordRepoID(u, kb) ELSE rows
              /\ unrecorded' = unrecorded \ {u}
              /\ born' = born \cup {u}
              /\ Return(c)
              /\ UNCHANGED budget
           \/ /\ Spend("fault")
              /\ unrecorded' = unrecorded \cup {u}
              /\ born' = born \cup {u}
              /\ Return(c)
              /\ UNCHANGED rows
    /\ UNCHANGED <<lenses, files, maps, boot, shadowed>>

(* Remove, under m.mu: whatever the name serves by now.                    *)
Remove(c) ==
    /\ Reaches(c, "conflict")
    /\ LET i == repos[call[c].name]
       IN  /\ repos' = [repos EXCEPT ![call[c].name] = 0]
           /\ IF i = 0
              THEN UNCHANGED <<byUID, unavailable>>
              ELSE /\ byUID' = [byUID EXCEPT ![opened[i].uid] = 0]
                   /\ unavailable' = unavailable \ {opened[i].uid}
    /\ Go(c, IF call[c].op = "create" THEN "unfile" ELSE "rearchive")
    /\ UNCHANGED <<registry, files, opened, boot, budget, born, shadowed, unrecorded>>

-----------------------------------------------------------------------------
(* Create.                                                                 *)

Insert(c) ==
    /\ At(c, "create", "insert")
    /\ LET u == call[c].uid
       IN  IF NameTaken(u, call[c].name)
           THEN Return(c) /\ UNCHANGED rows
           ELSE /\ rows' = [rows EXCEPT ![u] = [NoRow EXCEPT !.state = "active", !.name = call[c].name]]
                /\ Go(c, "init")
    /\ UNCHANGED <<lenses, files, maps, boot, budget, born, shadowed, unrecorded>>

(* initLocal, initClone or initInitialize, or the caller's cancellation.   *)
InitStore(c) ==
    /\ At(c, "create", "init")
    /\ LET u == call[c].uid
           o == call[c].origin
       IN  \/ /\ files' = [files EXCEPT ![u] = KbFrom(u, o)]
              /\ Go(c, IF o = NoOrigin THEN "add" ELSE "origin")
              /\ UNCHANGED budget
           \/ /\ Spend("fault")
              /\ Go(c, "unfile")
              /\ UNCHANGED files
    /\ UNCHANGED <<registry, maps, boot, born, shadowed, unrecorded>>

PersistOrigin(c) ==
    /\ At(c, "create", "origin")
    /\ \/ /\ rows' = [rows EXCEPT ![call[c].uid].origin = call[c].origin]
          /\ Go(c, "add")
          /\ UNCHANGED budget
       \/ /\ Spend("fault")
          /\ Go(c, "unfile")
          /\ UNCHANGED rows
    /\ UNCHANGED <<lenses, files, maps, boot, born, shadowed, unrecorded>>

(* cleanup: the file, and then the row -- which a lens that mounts it      *)
(* keeps, by its foreign key.                                              *)
RemoveFile(c) ==
    /\ At(c, "create", "unfile")
    /\ files' = [files EXCEPT ![call[c].uid] = NoFile]
    /\ Go(c, "unrow")
    /\ UNCHANGED <<registry, maps, boot, budget, born, shadowed, unrecorded>>

RemoveRow(c) ==
    /\ At(c, "create", "unrow")
    /\ \/ /\ RefsRepo(call[c].uid) = {}
          /\ rows' = [rows EXCEPT ![call[c].uid] = NoRow]
          /\ UNCHANGED budget
       \/ /\ Fails(RefsRepo(call[c].uid) # {})
          /\ UNCHANGED rows
    /\ Return(c)
    /\ UNCHANGED <<lenses, files, maps, boot, born, shadowed, unrecorded>>

-----------------------------------------------------------------------------
(* Restore.                                                                *)

RenameRow(c) ==
    /\ At(c, "restore", "rename")
    /\ LET u == call[c].uid
           n == call[c].name
       IN  IF ~Row(u) \/ (Active(u) /\ NameTaken(u, n))
           THEN Return(c) /\ UNCHANGED rows
           ELSE /\ rows' = [rows EXCEPT ![u].name = n]
                /\ Go(c, "activate")
    /\ UNCHANGED <<lenses, files, maps, boot, budget, born, shadowed, unrecorded>>

(* Where a restore goes that has to take back the new name, if any.        *)
TakeBack(c) == IF call[c].name = call[c].was THEN Return(c) ELSE Go(c, "unrename")

Activate(c) ==
    /\ At(c, "restore", "activate")
    /\ LET u       == call[c].uid
           refused == ~Row(u) \/ NameTaken(u, rows[u].name) \/ KbTaken(u, rows[u].kb)
       IN  \/ /\ ~refused
              /\ rows' = SetState(u, "active")
              /\ Go(c, "add")
              /\ UNCHANGED budget
           \/ /\ Fails(refused)
              /\ TakeBack(c)
              /\ UNCHANGED rows
    /\ UNCHANGED <<lenses, files, maps, boot, born, shadowed, unrecorded>>

(* A compensation that fails is not even logged: the row stays as it is.   *)
Rearchive(c) ==
    /\ At(c, "restore", "rearchive")
    /\ LET u == call[c].uid
       IN  \/ /\ rows' = SetState(u, "archived")
              /\ TakeBack(c)
              /\ UNCHANGED budget
           \/ /\ Spend("fault")
              /\ call' = [call EXCEPT ![c].pc = "unrename"]
              /\ strayed' = strayed \cup {u}
              /\ UNCHANGED rows
    /\ UNCHANGED <<lenses, files, maps, boot, born, shadowed, unrecorded>>

Unrename(c) ==
    /\ At(c, "restore", "unrename")
    /\ LET u == call[c].uid
       IN  \/ /\ rows' = IF Row(u) /\ ~(Active(u) /\ NameTaken(u, call[c].was))
                         THEN [rows EXCEPT ![u].name = call[c].was] ELSE rows
              /\ UNCHANGED budget
           \/ Spend("fault") /\ UNCHANGED rows
    /\ Return(c)
    /\ UNCHANGED <<lenses, files, maps, boot, born, shadowed, unrecorded>>

-----------------------------------------------------------------------------
(* Purge and Archive.                                                      *)

StartPurge(c) ==
    \E u \in Uids :
        /\ rows[u].state = "archived"
        /\ RefsRepo(u) = {}
        /\ Begin(c, [Idle EXCEPT !.op = "purge", !.pc = "delete", !.uid = u])
        /\ UNCHANGED <<registry, files, maps, boot, born, shadowed, unrecorded>>

(* mutant: the file goes first                                             *)
FileFirst(c) ==
    /\ At(c, "purge", "delete")
    /\ files' = [files EXCEPT ![call[c].uid] = NoFile]
    /\ Go(c, "unlink")
    /\ UNCHANGED <<registry, maps, boot, budget, born, shadowed, unrecorded>>

(* The row first, whatever its state is by now; then the file.             *)
DeleteRow(c) ==
    /\ At(c, "purge", "delete")
    /\ LET u == call[c].uid
       IN  \/ /\ RefsRepo(u) = {}
              /\ rows' = [rows EXCEPT ![u] = NoRow]
              /\ unavailable' = unavailable \ {u}
              /\ Go(c, "unlink")
              /\ UNCHANGED budget
           \/ /\ Fails(RefsRepo(u) # {})
              /\ Return(c)
              /\ UNCHANGED <<rows, unavailable>>
    /\ UNCHANGED <<lenses, files, opened, repos, byUID, boot, born, shadowed, unrecorded>>

Unlink(c) ==
    /\ At(c, "purge", "unlink")
    /\ \/ files' = [files EXCEPT ![call[c].uid] = NoFile] /\ UNCHANGED budget
       \/ Spend("fault") /\ UNCHANGED files
    /\ Return(c)
    /\ UNCHANGED <<registry, maps, boot, born, shadowed, unrecorded>>

(* mutant: Archive does not ask the lenses                                 *)
NoRefs(u) == TRUE

NotMounted(u) == RefsRepo(u) = {}

(* Archive: all under m.mu, as CreateLens is; the instance is shut down    *)
(* afterwards, the file stays where it is.                                 *)
Archive(n) ==
    /\ boot = {}
    /\ repos[n] # 0
    /\ LET u == opened[repos[n]].uid
       IN  /\ NotMounted(u)
           /\ Row(u)
           /\ rows' = SetState(u, "archived")
           /\ repos' = [repos EXCEPT ![n] = 0]
           /\ byUID' = [byUID EXCEPT ![u] = 0]
           /\ unavailable' = unavailable \ {u}
    /\ Spend("call")
    /\ UNCHANGED <<lenses, files, opened, boot, call, ghosts>>

-----------------------------------------------------------------------------
(* RenameRepo.                                                             *)

StartRename(c) ==
    \E was, n \in Names :
        /\ repos[was] # 0
        /\ n # was /\ ~NameReserved(c, n)
        /\ Begin(c, [Idle EXCEPT !.op = "rename", !.pc = "check", !.name = n, !.was = was,
                                 !.uid = opened[repos[was]].uid, !.inst = repos[was]])
        /\ UNCHANGED <<registry, files, maps, boot, born, shadowed, unrecorded>>

(* mutant: the name the row had is not compared                            *)
RenameAnyway(u, from) == Row(u)

RenameIfNamed(u, from) == Row(u) /\ rows[u].name = from

Cas(c) ==
    /\ At(c, "rename", "cas")
    /\ LET u == call[c].uid
       IN  IF RenameIfNamed(u, call[c].was) /\ ~(Active(u) /\ NameTaken(u, call[c].name))
           THEN rows' = [rows EXCEPT ![u].name = call[c].name] /\ Go(c, "swap")
           ELSE Return(c) /\ UNCHANGED rows
    /\ UNCHANGED <<lenses, files, maps, boot, budget, born, shadowed, unrecorded>>

(* Revalidated under the lock that swaps the keys.                         *)
Swap(c) ==
    /\ At(c, "rename", "swap")
    /\ IF repos[call[c].was] = call[c].inst /\ repos[call[c].name] = 0
       THEN /\ repos' = [repos EXCEPT ![call[c].name] = call[c].inst, ![call[c].was] = 0]
            /\ Return(c)
       ELSE Go(c, "revert") /\ UNCHANGED repos
    /\ UNCHANGED <<registry, files, opened, byUID, unavailable, boot, budget, born, shadowed, unrecorded>>

(* Undone, unless the row has been renamed again or the UPDATE fails.      *)
Revert(c) ==
    /\ At(c, "rename", "revert")
    /\ LET u == call[c].uid
       IN  \/ /\ RenameIfNamed(u, call[c].name) /\ ~(Active(u) /\ NameTaken(u, call[c].was))
              /\ rows' = [rows EXCEPT ![u].name = call[c].was]
              /\ Return(c)
              /\ UNCHANGED budget
           \/ /\ Fails(~RenameIfNamed(u, call[c].name) \/ (Active(u) /\ NameTaken(u, call[c].was)))
              /\ call' = [call EXCEPT ![c] = Idle]
              /\ strayed' = strayed \cup {u}
              /\ UNCHANGED rows
    /\ UNCHANGED <<lenses, files, maps, boot, born, shadowed, unrecorded>>

-----------------------------------------------------------------------------
(* Lenses.  Creating, updating and renaming one is a single hold of m.mu,  *)
(* and a new name is reserved for as long.                                 *)

Mountable(n, members) == repos[n] = 0 /\ \A u \in members : byUID[u] # 0

(* The name belongs to a repository that is registered and not served.     *)
Shadows(n) ==
    shadowed' = IF \E u \in unavailable : rows[u].name = n THEN shadowed \cup {n} ELSE shadowed

LensStep == boot = {} /\ Spend("lens")

CreateLens(n) ==
    /\ LensStep
    /\ ~AmongNames(Reservers, n)
    /\ lenses[n] = {}
    /\ \E members \in Mounts :
         /\ Mountable(n, members)
         /\ lenses' = [lenses EXCEPT ![n] = members]
         /\ strayed' = strayed \cup {u \in members : \E c \in Calls : call[c].uid = u
                                                       /\ call[c].op \in {"create", "restore"}}
    /\ Shadows(n)
    /\ UNCHANGED <<rows, files, maps, boot, call, born, unrecorded>>

UpdateLens(n) ==
    /\ LensStep
    /\ lenses[n] # {}
    /\ \E members \in Mounts :
         /\ Mountable(n, members)
         /\ members # lenses[n]
         /\ lenses' = [lenses EXCEPT ![n] = members]
         /\ strayed' = strayed \cup {u \in members : \E c \in Calls : call[c].uid = u
                                                       /\ call[c].op \in {"create", "restore"}}
    /\ UNCHANGED <<rows, files, maps, boot, call, born, shadowed, unrecorded>>

RenameLens(n, new) ==
    /\ LensStep
    /\ ~AmongNames(Reservers, new)
    /\ lenses[n] # {} /\ lenses[new] = {}
    /\ repos[new] = 0
    /\ \A u \in unavailable : rows[u].name # new
    /\ lenses' = [lenses EXCEPT ![new] = lenses[n], ![n] = {}]
    /\ UNCHANGED <<rows, files, maps, boot, call, ghosts>>

DeleteLens(n) ==
    /\ LensStep
    /\ lenses[n] # {}
    /\ lenses' = [lenses EXCEPT ![n] = {}]
    /\ UNCHANGED <<rows, files, maps, boot, call, ghosts>>

-----------------------------------------------------------------------------
(* The process ends, and Start opens what the registry lists.              *)

Crash ==
    /\ Spend("fault")
    /\ call' = [c \in Calls |-> Idle]
    /\ opened' = <<>>
    /\ repos' = [n \in Names |-> 0]
    /\ byUID' = [u \in Uids |-> 0]
    /\ unavailable' = {}
    /\ boot' = {u \in Uids : Active(u)}
    /\ UNCHANGED <<registry, files, ghosts>>

MarkUnavailable(u) == unavailable \cup {u}

(* openRegistered: missing, unopenable, in conflict, or served.            *)
OpenRegistered(u) ==
    /\ u \in boot
    /\ boot' = boot \ {u}
    /\ \/ /\ \/ files[u] = NoFile /\ UNCHANGED budget
             \/ KbTaken(u, files[u]) /\ UNCHANGED budget
             \/ Spend("fault")
          /\ unavailable' = MarkUnavailable(u)
          /\ UNCHANGED <<rows, opened, repos, byUID, unrecorded>>
       \/ /\ files[u] # NoFile
          /\ Serve(u, rows[u].name, Len(opened) + 1)
          /\ \/ /\ ~KbTaken(u, files[u])
                /\ rows' = RecordRepoID(u, files[u])
                /\ unrecorded' = unrecorded \ {u}
                /\ UNCHANGED budget
             \/ /\ Spend("fault")
                /\ unrecorded' = unrecorded \cup {u}
                /\ UNCHANGED rows
          /\ UNCHANGED unavailable
    /\ UNCHANGED <<lenses, files, call, born, strayed, shadowed>>

-----------------------------------------------------------------------------
(* A home with at most one lens, about to be opened.                       *)
Init ==
    /\ rows \in Homes
    /\ lenses \in [Names -> Mounts \cup {{}}]
    /\ \A n \in Names : \A u \in lenses[n] : Active(u)
    /\ \A n \in Names, u \in Uids : Active(u) /\ rows[u].name = n => lenses[n] = {}
    /\ \A m, n \in Names : lenses[m] # {} /\ lenses[n] # {} => m = n
    /\ files = [u \in Uids |-> IF Row(u) THEN KbFrom(u, rows[u].origin) ELSE NoFile]
    /\ opened = <<>>
    /\ repos = [n \in Names |-> 0]
    /\ byUID = [u \in Uids |-> 0]
    /\ unavailable = {}
    /\ boot = {u \in Uids : Active(u)}
    /\ call = [c \in Calls |-> Idle]
    /\ budget = Budget
    /\ born = {u \in Uids : Row(u)}
    /\ strayed = {} /\ shadowed = {} /\ unrecorded = {}

Step(c) ==
    \/ StartCreate(c) \/ StartRestore(c) \/ StartPurge(c) \/ StartRename(c)
    \/ Reserve(c) \/ Scan(c) \/ Check(c) \/ Add(c) \/ GetBack(c) \/ Record(c) \/ Remove(c)
    \/ Insert(c) \/ InitStore(c) \/ PersistOrigin(c) \/ RemoveFile(c) \/ RemoveRow(c)
    \/ RenameRow(c) \/ Activate(c) \/ Rearchive(c) \/ Unrename(c)
    \/ DeleteRow(c) \/ Unlink(c)
    \/ Cas(c) \/ Swap(c) \/ Revert(c)

Next ==
    \/ \E c \in Calls : Step(c)
    \/ \E n \in Names : Archive(n) \/ CreateLens(n) \/ UpdateLens(n) \/ DeleteLens(n)
    \/ \E n, new \in Names : RenameLens(n, new)
    \/ \E u \in Uids : OpenRegistered(u)
    \/ Crash

Spec == Init /\ [][Next]_vars

-----------------------------------------------------------------------------
(* Properties.                                                             *)

CreateSteps  == {"scan", "check", "insert", "init", "origin", "add", "get", "record", "conflict",
                 "unfile", "unrow"}
RestoreSteps == {"reserve", "scan", "check", "rename", "activate", "add", "get", "record", "conflict",
                 "rearchive", "unrename"}
PurgeSteps   == {"delete", "unlink"}
RenameSteps  == {"check", "cas", "swap", "revert"}

Stage(op, pc) ==
    \/ op = "none"    /\ pc = "idle"
    \/ op = "create"  /\ pc \in CreateSteps
    \/ op = "restore" /\ pc \in RestoreSteps
    \/ op = "purge"   /\ pc \in PurgeSteps
    \/ op = "rename"  /\ pc \in RenameSteps

CallSet ==
    [op : Reserving \cup {"purge", "none"},
     pc : {"idle"} \cup CreateSteps \cup RestoreSteps \cup PurgeSteps \cup RenameSteps,
     uid : Uids \cup {NoUid},
     name : Names \cup {NoName}, was : Names \cup {NoName}, origin : Origins \cup {NoOrigin},
     inst : Nat]

IsCall(q, instances) ==
    /\ q \in CallSet
    /\ Stage(q.op, q.pc)
    /\ q.uid = NoUid <=> q.op = "none"
    /\ q.op \in Reserving => q.name \in Names
    /\ q.op \in {"restore", "rename"} => q.was \in Names
    /\ q.pc = "record" \/ q.op = "rename" => q.inst \in 1..instances

(* Types, and that a call is at a step of its own operation.               *)
TypeOK ==
    /\ rows \in [Uids -> RowSet]
    /\ lenses \in [Names -> SUBSET Uids]
    /\ files \in [Uids -> Kbs \cup {NoFile}]
    /\ opened \in Seq([uid : Uids, kb : Kbs])
    /\ repos \in [Names -> 0..Len(opened)]
    /\ byUID \in [Uids -> 0..Len(opened)]
    /\ unavailable \subseteq Uids /\ boot \subseteq Uids
    /\ DOMAIN call = Calls /\ \A c \in Calls : IsCall(call[c], Len(opened))
    /\ budget \in [Events -> Nat]
    /\ born \subseteq Uids /\ strayed \subseteq Uids /\ unrecorded \subseteq Uids
    /\ shadowed \subseteq Names

(* No call is running and Start is done.                                   *)
Quiet == boot = {} /\ \A c \in Calls : Reaches(c, "idle")

(* When no call is running, the registry and the maps agree: a repository  *)
(* is served under the name of its active row and no other, both maps know *)
(* the same instance, and an active row is served or listed as unavailable *)
(* -- after any renames, archivings and restores that raced, any failed    *)
(* step and its compensation, and any crash.                               *)
MapFollowsRegistry ==
    Quiet => \A u \in Uids \ strayed :
        /\ \A n \in Names : Served(n, u) =>
              Active(u) /\ rows[u].name = n /\ byUID[u] = repos[n]
        /\ u \in born /\ Active(u) => u \in unavailable \/ \E n \in Names : Served(n, u)

(* A registered repository has its file: no failed, compensated or         *)
(* interrupted step leaves a row that offers a repository that is gone.    *)
FilesAreKept == \A u \in born \ strayed : Row(u) => files[u] # NoFile

(* Two served repositories never hold the same knowledge base, whichever   *)
(* URLs they were cloned from, except while the identity of one of them    *)
(* could not be recorded.                                                  *)
OneLiveCopy ==
    Quiet => \A m, n \in Names :
        LET p == opened[repos[m]]
            q == opened[repos[n]]
        IN  repos[m] # 0 /\ repos[n] # 0 /\ p.uid # q.uid
              => p.kb # q.kb \/ {p.uid, q.uid} \cap (unrecorded \cup strayed) # {}

(* A lens never mounts a repository that is archived or purged.            *)
LensMembersActive ==
    \A n \in Names : \A u \in lenses[n] \ strayed : Active(u)

(* One name is never a served repository's and a lens's, unless the lens   *)
(* took the name of a repository that was registered and not served, which *)
(* CreateLens, unlike RenameLens, does not look for.                       *)
NamesAreDisjoint ==
    \A n \in Names \ shadowed :
        repos[n] = 0 \/ lenses[n] = {} \/ opened[repos[n]].uid \in strayed
=============================================================================
