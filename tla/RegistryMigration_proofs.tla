----------------------- MODULE RegistryMigration_proofs -----------------------
(***************************************************************************)
(* RegistryMigration for any home and any number of runs, faults and       *)
(* interventions: no origin is lost, no database is, and no lens, provided *)
(* that no two knowledge bases of the old home have one name.              *)
(*                                                                         *)
(* The argument rests on who a uid belongs to.  The archive, the rows of   *)
(* control.db and of its backups, the names of the files and the plan of a *)
(* run may all name a uid, and all that do mean one repository.            *)
(***************************************************************************)
EXTENDS RegistryMigration, FiniteSetTheorems, TLAPS

Controls == {control} \cup baks

(* What a control.db holds, this one or a backup.                          *)
OriginsOnRows(c) ==
    \A u \in DOMAIN c.rows : c.rows[u].of \in HasOrigin =>
        u \in DOMAIN c.origins /\ c.origins[u] = c.rows[u].of

RowsAreTrue(c) ==
    /\ \A u \in DOMAIN c.rows : c.rows[u].name = Name[c.rows[u].of]
    /\ \A u \in DOMAIN c.rows : c.rows[u].state = "active" => c.rows[u].of \notin Archived
    /\ \A u, v \in DOMAIN c.rows : c.rows[u].of = c.rows[v].of => u = v
    /\ \A u, v \in DOMAIN c.rows :
          /\ c.rows[u].state = "active" /\ c.rows[v].state = "active"
          /\ Root[c.rows[u].of] = Root[c.rows[v].of]
          => u = v

LensShape(c) ==
    /\ c.shape = "names" => DOMAIN c.rows = {} /\ c.lenses = Lenses
    /\ c.shape = "uids" => \A l \in DOMAIN c.lenses : c.lenses[l].reads \subseteq DOMAIN c.rows

ControlGood(c) == ControlOK(c) /\ OriginsOnRows(c) /\ RowsAreTrue(c) /\ LensShape(c)

ControlInv == \A c \in Controls : ControlGood(c)

(* Whatever names a uid names the repository it belongs to.                *)
Claim(u, r) ==
    \/ r \in Archived /\ ArchiveId[r] = u
    \/ \E c \in Controls : u \in DOMAIN c.rows /\ c.rows[u].of = r
    \/ Stem(r) = u
    \/ r \in DOMAIN run.uid /\ run.uid[r] = u

OneOwner == \A u \in Uids : \A r, q \in Repos : Claim(u, r) /\ Claim(u, q) => r = q

(* The files.                                                              *)
FileInv ==
    /\ file \in [Repos -> Places] /\ wal \in [Repos -> PlaceOrNot]
    /\ columns \subseteq Repos /\ manifests \subseteq Archived
    /\ \A r \in Repos :
         /\ Stem(r) \in Names => Stem(r) = Name[r] /\ r \notin Archived
         /\ Dir(r) = "nowhere" => r \in Fresh /\ wal[r] = NoWal
         /\ Dir(r) = "archive" /\ r \notin undone => r \in manifests
         /\ wal[r] \in {NoWal, file[r]}

(* What was never made is nowhere recorded.                                *)
NowhereInv ==
    \A r \in Repos : Dir(r) = "nowhere" =>
        /\ r \notin DOMAIN run.uid
        /\ \A c \in Controls : \A u \in DOMAIN c.rows : c.rows[u].of # r

(* A run.                                                                  *)
IsRun ==
    run = [pc |-> run.pc, uid |-> run.uid, lenses |-> run.lenses, cuts |-> run.cuts,
           gives |-> run.gives, todo |-> run.todo, at |-> run.at, moved |-> run.moved,
           failed |-> run.failed]

Before == {"backup", "apply"}
After  == {"move", "rename", "manifests", "migrate"}

(* The plan is that of the home as it still is.                            *)
PlanHolds ==
    /\ DOMAIN run.uid = Captured
    /\ \A r \in Listed : Stem(r) \notin Uids
    /\ \A r \in manifests : Dir(r) = "archive"
    /\ NoDuplicates
    /\ \A l \in DOMAIN run.lenses :
          /\ run.lenses[l].write \in run.lenses[l].reads
          /\ run.lenses[l].reads \subseteq {run.uid[r] : r \in DOMAIN run.uid}
    /\ \A u \in DOMAIN control.origins : \/ u \in {run.uid[r] : r \in DOMAIN run.uid}
                                          \/ control.origins[u] \in run.gives

(* The rows are those of the plan.                                         *)
PlanApplied ==
    \A r \in DOMAIN run.uid : run.uid[r] \in DOMAIN control.rows /\ control.rows[run.uid[r]].of = r

RunInv ==
    /\ IsRun
    /\ run.pc \in {"idle"} \cup Before \cup After
    /\ run.pc = "idle" => run = NoRun
    /\ DOMAIN run.uid \subseteq Repos /\ \A r \in DOMAIN run.uid : run.uid[r] \in Uids
    /\ run.todo \cup run.moved \subseteq DOMAIN run.uid
    /\ run.pc \in Before => PlanHolds
    /\ run.pc \in After => PlanApplied
    /\ run.pc = "rename" => run.at \in run.todo /\ wal[run.at] = NoWal
    /\ \A r \in run.moved : Dir(r) = "repos"
    /\ server => marker /\ run.pc = "idle" /\ control.shape = "uids"

(* A database without the columns has a row.                               *)
OriginInv ==
    \A r \in HasOrigin \ discarded :
        Dir(r) # "nowhere" /\ r \notin columns => \E u \in DOMAIN control.rows : control.rows[u].of = r

IInv ==
    /\ ControlInv /\ OneOwner /\ FileInv /\ NowhereInv /\ RunInv /\ OriginInv
    /\ budget \in [Events -> Nat]

(* With names that differ: lenses, of this control.db and of its backups.  *)
NamesDiffer == \A r, q \in Repos : Name[r] = Name[q] => r = q

MeansIn(c, ref) == IF c.shape = "names" THEN Meant(ref) ELSE {c.rows[u].of : u \in {ref} \cap DOMAIN c.rows}

LensKept(c, l) ==
    /\ l \in DOMAIN c.lenses
    /\ MeansIn(c, c.lenses[l].write) = Meant(Lenses[l].write)
    /\ UNION {MeansIn(c, m) : m \in c.lenses[l].reads} = UNION {Meant(n) : n \in Lenses[l].reads}

LensInv == \A c \in Controls : \A l \in DOMAIN Lenses \ dropped : LensKept(c, l)

(* A member under the plan is what it was.                                 *)
SameMember(c, uid, m, t) == MeansIn(c, m) = {r \in DOMAIN uid : uid[r] = t}

LensPlan ==
    run.pc \in Before => \A l \in DOMAIN control.lenses \ run.cuts :
        /\ l \in DOMAIN run.lenses
        /\ SameMember(control, run.uid, control.lenses[l].write, run.lenses[l].write)
        /\ \A m \in control.lenses[l].reads : \E t \in run.lenses[l].reads : SameMember(control, run.uid, m, t)
        /\ \A t \in run.lenses[l].reads : \E m \in control.lenses[l].reads : SameMember(control, run.uid, m, t)

-----------------------------------------------------------------------------
(* Steps that leave a part alone.                                          *)

LEMMA FileAt ==
    ASSUME FileInv, NEW r \in Repos
    PROVE  /\ Dir(r) \in {"repos", "archive", "elsewhere", "nowhere"}
           /\ Stem(r) \in Names \cup Uids
           /\ file[r] = <<Dir(r), Stem(r)>>
BY DEF FileInv, Places, Dir, Stem

LEMMA Placed ==
    ASSUME FileInv, NEW r \in Repos, NEW d \in {"repos", "archive", "elsewhere", "nowhere"},
           NEW x \in Names \cup Uids, file' = [file EXCEPT ![r] = <<d, x>>]
    PROVE  /\ file' \in [Repos -> Places] /\ file'[r] = <<d, x>>
           /\ Dir(r)' = d /\ Stem(r)' = x
           /\ \A q \in Repos \ {r} : file'[q] = file[q] /\ Dir(q)' = Dir(q) /\ Stem(q)' = Stem(q)
<1>1. <<d, x>> \in Places
  BY DEF Places
<1>2. file' \in [Repos -> Places] /\ file'[r] = <<d, x>> /\ \A q \in Repos \ {r} : file'[q] = file[q]
  BY <1>1 DEF FileInv
<1>3. QED  BY <1>2 DEF Dir, Stem

LEMMA Spent ==
    ASSUME budget \in [Events -> Nat], NEW e \in Events, Spend(e)
    PROVE  budget' \in [Events -> Nat]
BY DEF Spend

LEMMA ControlSame ==
    ASSUME ControlInv, Controls' \subseteq Controls
    PROVE  ControlInv'
BY DEF ControlInv

LEMMA OwnerSame ==
    ASSUME OneOwner, Controls' \subseteq Controls,
           \A r \in Repos : Stem(r)' = Stem(r),
           run'.uid = run.uid \/ run'.uid = << >>
    PROVE  OneOwner'
<1>1. \A r : r \in DOMAIN run'.uid => r \in DOMAIN run.uid /\ run'.uid[r] = run.uid[r]
  OBVIOUS
<1>2. ASSUME NEW u \in Uids, NEW r \in Repos, Claim(u, r)' PROVE Claim(u, r)
  BY <1>1, <1>2 DEF Claim
<1>3. QED  BY <1>2 DEF OneOwner

LEMMA FileSame ==
    ASSUME FileInv, UNCHANGED <<file, wal, manifests, undone>>, columns' \subseteq columns
    PROVE  FileInv'
BY DEF FileInv, Dir, Stem

LEMMA NowhereSame ==
    ASSUME NowhereInv, Controls' \subseteq Controls, run'.uid = run.uid \/ run'.uid = << >>,
           \A r \in Repos : Dir(r)' = "nowhere" => Dir(r) = "nowhere"
    PROVE  NowhereInv'
<1>1. \A r : r \in DOMAIN run'.uid => r \in DOMAIN run.uid
  OBVIOUS
<1>2. QED  BY <1>1 DEF NowhereInv

LEMMA OriginSame ==
    ASSUME OriginInv, UNCHANGED <<control, columns, discarded>>,
           \A r \in Repos : Dir(r)' = "nowhere" <=> Dir(r) = "nowhere"
    PROVE  OriginInv'
BY RepoAssumption DEF OriginInv

LEMMA RunReturns ==
    ASSUME run' = NoRun, server' => marker' /\ control'.shape = "uids"
    PROVE  RunInv'
<1>1. /\ NoRun.pc = "idle" /\ NoRun.uid = << >> /\ NoRun.todo = {} /\ NoRun.moved = {}
      /\ DOMAIN << >> = {}
  BY DEF NoRun
<1>2. IsRun'
  BY DEF IsRun, NoRun
<1>3. QED  BY <1>1, <1>2 DEF RunInv, Before, After

(* What a step leaves alone that changes neither files nor control.db.     *)
LEMMA Undisturbed ==
    ASSUME IInv, UNCHANGED <<control, file, wal, columns, manifests, undone, discarded>>,
           baks' \subseteq Controls, run'.uid = run.uid \/ run'.uid = << >>
    PROVE  ControlInv' /\ OneOwner' /\ FileInv' /\ NowhereInv' /\ OriginInv'
<1>1. Controls' \subseteq Controls
  BY DEF Controls
<1>2. \A r \in Repos : Dir(r)' = Dir(r) /\ Stem(r)' = Stem(r)
  BY DEF Dir, Stem
<1>3. QED  BY <1>1, <1>2, ControlSame, OwnerSame, FileSame, NowhereSame, OriginSame DEF IInv

-----------------------------------------------------------------------------
(* The writes of a run.                                                    *)

LEMMA RunDown == RunInv /\ run.pc # "idle" => ~server
BY DEF RunInv

LEMMA PlanSame ==
    ASSUME PlanHolds, UNCHANGED <<control, file, manifests>>, run'.uid = run.uid,
           run'.lenses = run.lenses, run'.cuts = run.cuts, run'.gives = run.gives
    PROVE  PlanHolds'
<1>1. Listed' = Listed /\ Captured' = Captured /\ \A r : Dir(r)' = Dir(r) /\ Stem(r)' = Stem(r)
  BY DEF Listed, Captured, Dir, Stem
<1>2. QED  BY <1>1 DEF PlanHolds, NoDuplicates

LEMMA BackupStep == IInv /\ Backup => IInv'
<1> SUFFICES ASSUME IInv, Backup PROVE IInv'
  OBVIOUS
<1>1. budget' \in [Events -> Nat]
  BY Spent DEF IInv, Backup, Events
<1>2. run'.uid = run.uid \/ run'.uid = << >>
  BY DEF Backup, Return, NoRun, IInv, RunInv, IsRun
<1>3. baks' \subseteq Controls
  BY DEF Backup, Controls
<1>4. ControlInv' /\ OneOwner' /\ FileInv' /\ NowhereInv' /\ OriginInv'
  BY <1>2, <1>3, Undisturbed DEF Backup, disk, ghosts
<1>5. ~server /\ ~server'
  BY RunDown DEF IInv, Backup
<1>6. RunInv'
  <2>1. CASE Return
    BY <2>1, <1>5, RunReturns DEF Return
  <2>2. CASE run' = [run EXCEPT !.pc = "apply"]
    <3>1. PlanHolds'
      BY <2>2, PlanSame DEF Backup, disk, ghosts, IInv, RunInv, IsRun, Before
    <3>2. QED  BY <3>1, <2>2, <1>5 DEF Backup, disk, ghosts, IInv, RunInv, IsRun, Before, After, Dir
  <2>3. QED  BY <2>1, <2>2 DEF Backup
<1>7. QED  BY <1>1, <1>4, <1>6 DEF IInv

LEMMA UidsDiffer ==
    ASSUME OneOwner, RunInv, NEW r \in DOMAIN run.uid, NEW q \in DOMAIN run.uid,
           run.uid[r] = run.uid[q]
    PROVE  r = q
BY DEF OneOwner, RunInv, Claim

LEMMA RepoAtUid ==
    ASSUME OneOwner, RunInv, NEW r \in DOMAIN run.uid
    PROVE  RepoAt(run.uid[r]) = r
<1>1. RepoAt(run.uid[r]) \in DOMAIN run.uid /\ run.uid[RepoAt(run.uid[r])] = run.uid[r]
  BY DEF RepoAt
<1>2. QED  BY <1>1, UidsDiffer

(* A planned repository that is not archived has the name it had.          *)
LEMMA PlannedName ==
    ASSUME FileInv, PlanHolds, NEW r \in DOMAIN run.uid
    PROVE  /\ r \in Repos /\ Dir(r) # "nowhere"
           /\ r \notin manifests => r \in Listed /\ Stem(r) = Name[r] /\ r \notin Archived
<1>1. r \in Listed \/ r \in manifests
  BY DEF PlanHolds, Captured
<1>2. r \in Repos
  BY <1>1, RepoAssumption DEF Listed, FileInv
<1>3. CASE r \in Listed
  <2>1. Dir(r) = "repos" /\ Stem(r) \in Names
    BY <1>2, <1>3, FileAt DEF Listed, PlanHolds
  <2>2. QED  BY <1>2, <1>3, <2>1 DEF FileInv
<1>4. CASE r \in manifests
  BY <1>2, <1>4 DEF PlanHolds
<1>5. QED  BY <1>1, <1>3, <1>4

(* The rows the transaction writes.                                        *)
Written ==
    /\ control'.shape = "uids"
    /\ DOMAIN control'.rows = Range(run.uid)
    /\ DOMAIN control'.origins = {run.uid[r] : r \in DOMAIN run.uid \cap HasOrigin}
    /\ control'.lenses = run.lenses
    /\ \A r \in DOMAIN run.uid :
          /\ run.uid[r] \in DOMAIN control'.rows
          /\ control'.rows[run.uid[r]] = [name |-> Name[r], state |-> StateOf(r), of |-> r]
          /\ control'.rows[run.uid[r]].of = r
          /\ r \in HasOrigin => control'.origins[run.uid[r]] = r

LEMMA WrittenRows ==
    ASSUME OneOwner, RunInv, FileInv, PlanHolds,
           control' =
             [shape   |-> "uids",
              rows    |-> [u \in Range(run.uid) |->
                             [name  |-> IF RepoAt(u) \in manifests THEN Name[RepoAt(u)] ELSE Stem(RepoAt(u)),
                              state |-> StateOf(RepoAt(u)), of |-> RepoAt(u)]],
              origins |-> [u \in {run.uid[r] : r \in DOMAIN run.uid \cap HasOrigin} |-> RepoAt(u)],
              lenses  |-> run.lenses]
    PROVE  Written
<1>1. ASSUME NEW r \in DOMAIN run.uid
      PROVE  /\ run.uid[r] \in Range(run.uid) /\ RepoAt(run.uid[r]) = r
             /\ Name[r] = IF r \in manifests THEN Name[r] ELSE Stem(r)
  BY RepoAtUid, PlannedName DEF Range
<1>2. ASSUME NEW r \in DOMAIN run.uid
      PROVE  /\ control'.rows[run.uid[r]] = [name |-> Name[r], state |-> StateOf(r), of |-> r]
             /\ r \in HasOrigin => control'.origins[run.uid[r]] = r
  BY <1>1
<1>3. QED  BY <1>1, <1>2 DEF Written

LEMMA WrittenGood ==
    ASSUME OneOwner, RunInv, FileInv, PlanHolds, Written
    PROVE  ControlGood(control')
<1> DEFINE rows == control'.rows
<1>1. ASSUME NEW u \in DOMAIN rows
      PROVE  \E r \in DOMAIN run.uid : /\ u = run.uid[r] /\ r \in Repos /\ u \in Uids
                                       /\ rows[u] = [name |-> Name[r], state |-> StateOf(r), of |-> r]
                                       /\ rows[u].name = Name[r] /\ rows[u].of = r
                                       /\ rows[u].state = StateOf(r)
                                       /\ r \in HasOrigin => u \in DOMAIN control'.origins /\ control'.origins[u] = r
  BY DEF Written, Range, RunInv
<1>2. \A r : StateOf(r) \in {"active", "archived"} /\ (StateOf(r) = "active" => r \notin manifests)
  BY DEF StateOf
<1>3. ControlOK(control')
  <2>1. ASSUME NEW u \in DOMAIN rows
        PROVE  rows[u] \in [name : Names, state : {"active", "archived"}, of : Repos]
    <3>1. PICK r \in DOMAIN run.uid : r \in Repos /\ rows[u] = [name |-> Name[r], state |-> StateOf(r), of |-> r]
      BY <1>1
    <3>2. Name[r] \in Names
      BY <3>1, RepoAssumption
    <3>3. QED  BY <3>1, <3>2, <1>2
  <2>2. DOMAIN rows \subseteq Uids
    BY <1>1
  <2>4. ASSUME NEW u \in DOMAIN control'.origins PROVE u \in DOMAIN rows
    <3>1. PICK r \in DOMAIN run.uid : u = run.uid[r]
      BY DEF Written
    <3>2. QED  BY <3>1 DEF Written
  <2>5. /\ control'.shape = "uids" /\ control'.lenses = run.lenses
        /\ \A l \in DOMAIN run.lenses : run.lenses[l].write \in run.lenses[l].reads
    BY DEF Written, PlanHolds
  <2>3. QED  BY <2>1, <2>2, <2>4, <2>5 DEF ControlOK
<1>4. OriginsOnRows(control')
  BY <1>1 DEF OriginsOnRows
<1>5. RowsAreTrue(control')
  <2>1. ASSUME NEW u \in DOMAIN rows
        PROVE  /\ rows[u].name = Name[rows[u].of]
               /\ rows[u].state = "active" => rows[u].of \in Listed /\ rows[u].of \notin Archived
    <3>1. PICK r \in DOMAIN run.uid : rows[u].name = Name[r] /\ rows[u].of = r /\ rows[u].state = StateOf(r)
      BY <1>1
    <3>2. r \notin manifests => r \in Listed /\ r \notin Archived
      BY <3>1, PlannedName
    <3>3. QED  BY <3>1, <3>2, <1>2
  <2>2. \A u, v \in DOMAIN rows : rows[u].of = rows[v].of => u = v
    <3>1. ASSUME NEW u \in DOMAIN rows PROVE rows[u].of \in DOMAIN run.uid /\ u = run.uid[rows[u].of]
      BY <1>1
    <3>2. QED  BY <3>1, Zenon
  <2>3. \A u, v \in DOMAIN rows :
          /\ rows[u].state = "active" /\ rows[v].state = "active" /\ Root[rows[u].of] = Root[rows[v].of]
          => u = v
    BY <2>1, <2>2 DEF PlanHolds, NoDuplicates
  <2>4. QED  BY <2>1, <2>2, <2>3 DEF RowsAreTrue
<1>6. LensShape(control')
  BY DEF LensShape, Written, PlanHolds, Range
<1>7. QED  BY <1>3, <1>4, <1>5, <1>6 DEF ControlGood

LEMMA AppliedRun ==
    ASSUME IInv, run.pc = "apply", Written, UNCHANGED <<baks, disk, server, marker, undone>>,
           run' = [run EXCEPT !.pc = "move", !.todo = DOMAIN run.uid],
           discarded' = discarded \cup run.gives
    PROVE  ControlInv' /\ OneOwner' /\ FileInv' /\ NowhereInv' /\ RunInv' /\ OriginInv'
<1>0. /\ PlanHolds /\ FileInv /\ RunInv /\ OneOwner /\ ~server /\ ~server'
      /\ run'.uid = run.uid /\ run'.pc = "move" /\ run'.todo = DOMAIN run.uid /\ run'.moved = run.moved
      /\ IsRun'
  BY RunDown DEF IInv, RunInv, Before, IsRun
<1>1. ControlInv'
  <2>1. ControlGood(control')
    BY <1>0, WrittenGood
  <2>2. QED  BY <2>1 DEF IInv, ControlInv, Controls
<1>2. \A r \in Repos : Dir(r)' = Dir(r) /\ Stem(r)' = Stem(r)
  BY DEF Dir, Stem, disk
<1>3. ASSUME NEW u \in DOMAIN control'.rows
      PROVE  \E r \in DOMAIN run.uid : u = run.uid[r] /\ control'.rows[u].of = r
  <2>1. PICK r \in DOMAIN run.uid : u = run.uid[r]
    BY DEF Written, Range
  <2>2. control'.rows[run.uid[r]].of = r
    BY DEF Written
  <2>3. QED  BY <2>1, <2>2
<1>4. OneOwner'
  <2>1. ASSUME NEW u \in Uids, NEW r \in Repos, Claim(u, r)' PROVE Claim(u, r)
    BY <1>0, <1>2, <1>3, <2>1 DEF Claim, Controls
  <2>2. QED  BY <1>0, <2>1 DEF OneOwner
<1>5. FileInv'
  BY <1>0, FileSame DEF disk
<1>6. NowhereInv'
  BY <1>0, <1>2, <1>3 DEF NowhereInv, IInv, Controls
<1>7. RunInv'
  <2>1. PlanApplied'
    BY <1>0 DEF PlanApplied, Written
  <2>2. \A r \in run'.moved : Dir(r)' = "repos"
    BY <1>0, <1>2 DEF RunInv
  <2>3. run'.todo \cup run'.moved \subseteq DOMAIN run'.uid
    BY <1>0 DEF RunInv
  <2>4. QED  BY <1>0, <2>1, <2>2, <2>3 DEF RunInv, Before, After
<1>8. OriginInv'
  <2>1. SUFFICES ASSUME NEW r \in HasOrigin, r \notin discarded', Dir(r)' # "nowhere", r \notin columns'
                 PROVE  \E u \in DOMAIN control'.rows : control'.rows[u].of = r
    BY DEF OriginInv
  <2>2. r \in Repos
    BY RepoAssumption
  <2>3. PICK u \in DOMAIN control.rows : control.rows[u].of = r
    BY <1>2, <2>1, <2>2 DEF IInv, OriginInv, disk
  <2>4. u \in Uids /\ u \in DOMAIN control.origins /\ control.origins[u] = r
    BY <2>1, <2>3 DEF IInv, ControlInv, ControlGood, ControlOK, OriginsOnRows, Controls
  <2>5. PICK q \in DOMAIN run.uid : u = run.uid[q]
    BY <1>0, <2>1, <2>4 DEF PlanHolds
  <2>6. Claim(u, q) /\ Claim(u, r) /\ q \in Repos
    BY <1>0, <2>3, <2>5 DEF Claim, Controls, RunInv
  <2>7. q = r
    BY <1>0, <2>2, <2>4, <2>6 DEF OneOwner
  <2>8. QED  BY <2>5, <2>7 DEF Written
<1>9. QED  BY <1>1, <1>4, <1>5, <1>6, <1>7, <1>8

LEMMA ApplyStep == IInv /\ Apply => IInv'
<1> SUFFICES ASSUME IInv, Apply PROVE IInv'
  OBVIOUS
<1>1. budget' \in [Events -> Nat]
  BY Spent DEF IInv, Apply, Events
<1>2. ~server /\ ~server' /\ OneOwner /\ RunInv /\ FileInv /\ PlanHolds /\ run.pc = "apply"
  BY RunDown DEF IInv, Apply, RunInv, Before
<1>3. CASE RollBack /\ Return /\ UNCHANGED discarded
  <2>1. run'.uid = << >>
    BY <1>3 DEF Return, NoRun
  <2>2. ControlInv' /\ OneOwner' /\ FileInv' /\ NowhereInv' /\ OriginInv'
    BY <1>3, <2>1, Undisturbed DEF Apply, disk, RollBack, Controls
  <2>3. RunInv'
    BY <1>2, <1>3, RunReturns DEF Return
  <2>4. QED  BY <1>1, <2>2, <2>3 DEF IInv
<1>4. CASE ~(RollBack /\ Return /\ UNCHANGED discarded)
  <2>1. Written
    BY <1>2, <1>4, WrittenRows DEF Apply
  <2>2. /\ run' = [run EXCEPT !.pc = "move", !.todo = DOMAIN run.uid]
        /\ discarded' = discarded \cup run.gives
        /\ UNCHANGED <<baks, disk, server, marker, undone>>
    BY <1>4 DEF Apply
  <2>3. QED  BY <1>1, <1>2, <2>1, <2>2, AppliedRun DEF IInv
<1>5. QED  BY <1>3, <1>4

(* A step of the second half of a run, that leaves its plan.               *)
LEMMA RunGoesOn ==
    ASSUME RunInv, run.pc \in After, IsRun', run'.uid = run.uid, run'.pc \in After,
           UNCHANGED <<control, server>>,
           run'.todo \cup run'.moved \subseteq DOMAIN run.uid,
           \A r \in run'.moved : Dir(r)' = "repos",
           run'.pc = "rename" => run'.at \in run'.todo /\ wal'[run'.at] = NoWal
    PROVE  RunInv'
<1>1. run.pc # "idle" /\ run'.pc # "idle" /\ run'.pc \notin Before /\ run.pc \notin Before
  BY DEF After, Before
<1>2. PlanApplied'
  BY DEF RunInv, PlanApplied
<1>3. ~server'
  BY <1>1 DEF RunInv
<1>4. QED  BY <1>1, <1>2, <1>3 DEF RunInv

LEMMA AllMovedStep == IInv /\ AllMoved => IInv'
<1> SUFFICES ASSUME IInv, AllMoved PROVE IInv'
  OBVIOUS
<1>1. /\ run'.uid = run.uid /\ run'.pc = "manifests" /\ run'.todo = run.todo /\ run'.moved = run.moved
      /\ IsRun' /\ run.pc \in After
  BY DEF IInv, RunInv, IsRun, AllMoved, After
<1>2. \A r : Dir(r)' = Dir(r)
  BY DEF AllMoved, disk, Dir
<1>3. RunInv'
  BY <1>1, <1>2, RunGoesOn DEF AllMoved, IInv, RunInv, After
<1>4. ControlInv' /\ OneOwner' /\ FileInv' /\ NowhereInv' /\ OriginInv'
  BY <1>1, Undisturbed DEF AllMoved, disk, ghosts, Controls
<1>5. QED  BY <1>3, <1>4 DEF IInv, AllMoved

LEMMA CheckpointStep == IInv /\ (\E r \in Repos : Checkpoint(r)) => IInv'
<1> SUFFICES ASSUME IInv, NEW r \in Repos, Checkpoint(r) PROVE IInv'
  OBVIOUS
<1>1. budget' \in [Events -> Nat]
  BY Spent DEF IInv, Checkpoint, Events
<1>2. /\ run'.uid = run.uid /\ run'.moved = run.moved /\ IsRun' /\ run.pc \in After /\ run'.pc \in After
      /\ run'.todo \subseteq run.todo
  BY DEF IInv, RunInv, IsRun, Checkpoint, StopMoving, After
<1>3. \A q \in Repos : Dir(q)' = Dir(q) /\ Stem(q)' = Stem(q)
  BY DEF Checkpoint, Dir, Stem
<1>4. RunInv'
  <2>1. run'.pc = "rename" => run'.at = r /\ r \in run'.todo /\ wal'[r] = NoWal
    BY DEF IInv, RunInv, IsRun, Checkpoint, StopMoving, FoldWal, FileInv
  <2>2. \A q \in run'.moved : Dir(q)' = "repos"
    BY <1>2, <1>3 DEF IInv, RunInv
  <2>3. run'.todo \cup run'.moved \subseteq DOMAIN run.uid
    BY <1>2 DEF IInv, RunInv
  <2>4. QED  BY <1>2, <2>1, <2>2, <2>3, RunGoesOn DEF IInv, Checkpoint
<1>5. FileInv'
  <2>1. wal' \in [Repos -> PlaceOrNot] /\ \A q \in Repos : wal'[q] \in {wal[q], NoWal}
    BY DEF Checkpoint, FoldWal, IInv, FileInv, PlaceOrNot
  <2>2. QED  BY <2>1, <1>3 DEF Checkpoint, ghosts, IInv, FileInv
<1>6. Controls' = Controls
  BY DEF Checkpoint, Controls
<1>7. QED
  BY <1>1, <1>2, <1>3, <1>4, <1>5, <1>6, ControlSame, OwnerSame, NowhereSame, OriginSame
     DEF IInv, Checkpoint, ghosts

LEMMA RenameStep == IInv /\ Rename => IInv'
<1> SUFFICES ASSUME IInv, Rename PROVE IInv'
  OBVIOUS
<1> PICK r : r = run.at
  OBVIOUS
<1>1. budget' \in [Events -> Nat]
  BY Spent DEF IInv, Rename, Events
<1>2. /\ r \in DOMAIN run.uid /\ r \in Repos /\ run.uid[r] \in Uids /\ wal[r] = NoWal
      /\ Dir(r) # "nowhere" /\ run.pc \in After
  BY DEF IInv, RunInv, Rename, After, NowhereInv
<1>3. Controls' = Controls
  BY DEF Rename, Controls
<1>4. CASE StopMoving /\ UNCHANGED <<file, wal>>
  <2>1. /\ run'.uid = run.uid /\ run'.moved = run.moved /\ run'.todo = {} /\ run'.pc = "manifests" /\ IsRun'
    BY <1>4 DEF IInv, RunInv, IsRun, StopMoving
  <2>2. \A q \in Repos : Dir(q)' = Dir(q)
    BY <1>4 DEF Dir
  <2>3. RunInv'
    BY <1>2, <2>1, <2>2, RunGoesOn DEF IInv, RunInv, Rename, After
  <2>4. ControlInv' /\ OneOwner' /\ FileInv' /\ NowhereInv' /\ OriginInv'
    BY <1>4, <2>1, Undisturbed DEF Rename, ghosts, Controls
  <2>5. QED  BY <1>1, <2>3, <2>4 DEF IInv
<1>5. CASE /\ file' = [file EXCEPT ![r] = NewPlace(r)]
           /\ wal' \in {wal, [wal EXCEPT ![r] = IF @ = NoWal THEN NoWal ELSE NewPlace(r)]}
           /\ run' = [run EXCEPT !.pc = "move", !.at = NoRepo, !.todo = @ \ {r}, !.moved = @ \cup {r}]
  <2>1. /\ run'.uid = run.uid /\ run'.moved = run.moved \cup {r} /\ run'.todo = run.todo \ {r}
        /\ run'.pc = "move" /\ IsRun'
    BY <1>5 DEF IInv, RunInv, IsRun
  <2>2. /\ file' \in [Repos -> Places] /\ file'[r] = <<"repos", run.uid[r]>>
        /\ Dir(r)' = "repos" /\ Stem(r)' = run.uid[r]
        /\ \A q \in Repos \ {r} : file'[q] = file[q] /\ Dir(q)' = Dir(q) /\ Stem(q)' = Stem(q)
    BY <1>2, <1>5, Placed DEF NewPlace, IInv
  <2>3. wal' = wal
    BY <1>2, <1>5 DEF IInv, FileInv
  <2>4. RunInv'
    <3>1. \A q \in run'.moved : Dir(q)' = "repos"
      BY <2>1, <2>2 DEF IInv, RunInv
    <3>2. run'.todo \cup run'.moved \subseteq DOMAIN run.uid
      BY <1>2, <2>1 DEF IInv, RunInv
    <3>3. QED  BY <1>2, <2>1, <3>1, <3>2, RunGoesOn DEF IInv, Rename, After
  <2>5. FileInv'
    <3>1. UNCHANGED <<columns, manifests, undone>>
      BY DEF Rename, ghosts
    <3>2. run.uid[r] \notin Names
      BY <1>2, IdAssumption
    <3>3. QED  BY <1>2, <2>2, <2>3, <3>1, <3>2 DEF IInv, FileInv
  <2>6. OneOwner'
    <3>1. ASSUME NEW u \in Uids, NEW q \in Repos, Claim(u, q)' PROVE Claim(u, q)
      BY <1>2, <1>3, <2>1, <2>2, <3>1 DEF Claim
    <3>2. QED  BY <3>1 DEF IInv, OneOwner
  <2>7. \A q \in Repos : Dir(q)' = "nowhere" <=> Dir(q) = "nowhere"
    BY <1>2, <2>2
  <2>8. ControlInv' /\ NowhereInv' /\ OriginInv'
    BY <1>3, <2>1, <2>7, ControlSame, NowhereSame, OriginSame DEF IInv, Rename, ghosts
  <2>9. QED  BY <1>1, <2>4, <2>5, <2>6, <2>8 DEF IInv
<1>6. QED  BY <1>4, <1>5 DEF Rename

LEMMA RemoveManifestStep == IInv /\ (\E r \in Repos : RemoveManifest(r)) => IInv'
<1> SUFFICES ASSUME IInv, NEW r \in Repos, RemoveManifest(r) PROVE IInv'
  OBVIOUS
<1>1. budget' \in [Events -> Nat]
  BY Spent DEF IInv, RemoveManifest, Events
<1>2. /\ run'.uid = run.uid /\ run'.moved \subseteq run.moved /\ run'.todo = run.todo
      /\ run'.pc = "manifests" /\ run.pc \in After /\ IsRun'
  BY DEF IInv, RunInv, IsRun, RemoveManifest, After
<1>3. \A q \in Repos : Dir(q)' = Dir(q) /\ Stem(q)' = Stem(q)
  BY DEF RemoveManifest, Dir, Stem
<1>4. RunInv'
  <2>1. \A q \in run'.moved : Dir(q)' = "repos"
    BY <1>2, <1>3 DEF IInv, RunInv
  <2>2. run'.todo \cup run'.moved \subseteq DOMAIN run.uid
    BY <1>2 DEF IInv, RunInv
  <2>3. QED  BY <1>2, <2>1, <2>2, RunGoesOn DEF IInv, RemoveManifest, After
<1>5. FileInv'
  <2>1. Dir(r) = "repos"
    BY DEF IInv, RunInv, RemoveManifest, ServedManifests
  <2>2. manifests' \in {manifests, manifests \ {r}}
    BY DEF RemoveManifest
  <2>3. QED  BY <1>3, <2>1, <2>2 DEF RemoveManifest, ghosts, IInv, FileInv
<1>6. Controls' = Controls
  BY DEF RemoveManifest, Controls
<1>7. QED
  BY <1>1, <1>2, <1>3, <1>4, <1>5, <1>6, ControlSame, OwnerSame, NowhereSame, OriginSame
     DEF IInv, RemoveManifest, ghosts

LEMMA ManifestsRemovedStep == IInv /\ ManifestsRemoved => IInv'
<1> SUFFICES ASSUME IInv, ManifestsRemoved PROVE IInv'
  OBVIOUS
<1>1. \A r : Dir(r)' = Dir(r)
  BY DEF ManifestsRemoved, disk, Dir
<1>2. run.pc \in After /\ ~server /\ ~server'
  BY RunDown DEF ManifestsRemoved, IInv, After
<1>3. RunInv' /\ (run'.uid = run.uid \/ run'.uid = << >>)
  <2>1. CASE Return
    BY <2>1, <1>2, RunReturns DEF Return, NoRun
  <2>2. CASE run' = [run EXCEPT !.pc = "migrate", !.todo = DOMAIN run.uid]
    <3>1. /\ run'.uid = run.uid /\ run'.pc = "migrate" /\ run'.todo = DOMAIN run.uid
          /\ run'.moved = run.moved /\ IsRun'
      BY <2>2 DEF IInv, RunInv, IsRun
    <3>2. QED  BY <1>1, <1>2, <3>1, RunGoesOn DEF ManifestsRemoved, IInv, RunInv, After
  <2>3. QED  BY <2>1, <2>2 DEF ManifestsRemoved
<1>4. ControlInv' /\ OneOwner' /\ FileInv' /\ NowhereInv' /\ OriginInv'
  BY <1>3, Undisturbed DEF ManifestsRemoved, disk, ghosts, Controls
<1>5. QED  BY <1>3, <1>4 DEF IInv, ManifestsRemoved

(* A database loses its columns where it has a row.                        *)
LEMMA Opened ==
    ASSUME IInv, NEW r \in Repos, StoreOpens(r), UNCHANGED <<control, baks, file, manifests, ghosts>>,
           \E u \in DOMAIN control.rows : control.rows[u].of = r,
           run'.uid = run.uid
    PROVE  ControlInv' /\ OneOwner' /\ FileInv' /\ NowhereInv' /\ OriginInv'
<1>1. \A q \in Repos : Dir(q)' = Dir(q) /\ Stem(q)' = Stem(q)
  BY DEF Dir, Stem
<1>2. Controls' = Controls
  BY DEF Controls
<1>3. FileInv'
  <2>1. wal' \in [Repos -> PlaceOrNot] /\ \A q \in Repos : wal'[q] \in {wal[q], NoWal}
    BY DEF StoreOpens, FoldWal, IInv, FileInv, PlaceOrNot
  <2>2. QED  BY <2>1, <1>1 DEF StoreOpens, ghosts, IInv, FileInv
<1>4. OriginInv'
  BY <1>1, RepoAssumption DEF IInv, OriginInv, StoreOpens, ghosts
<1>5. QED  BY <1>1, <1>2, <1>3, <1>4, ControlSame, OwnerSame, NowhereSame DEF IInv

LEMMA MigrateStep == IInv /\ (\E r \in Repos : Migrate(r)) => IInv'
<1> SUFFICES ASSUME IInv, NEW r \in Repos, Migrate(r) PROVE IInv'
  OBVIOUS
<1>1. budget' \in [Events -> Nat]
  BY Spent DEF IInv, Migrate, Events
<1>2. run.pc \in After /\ ~server /\ ~server'
  BY RunDown DEF Migrate, IInv, After
<1>3. CASE Return /\ UNCHANGED <<columns, wal>>
  <2>1. run'.uid = << >> /\ RunInv'
    BY <1>2, <1>3, RunReturns DEF Return, NoRun
  <2>2. QED  BY <1>1, <1>3, <2>1, Undisturbed DEF Migrate, ghosts, Controls, IInv
<1>4. CASE StoreOpens(r) /\ run' = [run EXCEPT !.todo = @ \ {r}]
  <2>1. /\ run'.uid = run.uid /\ run'.pc = "migrate" /\ run'.todo = run.todo \ {r}
        /\ run'.moved = run.moved /\ IsRun'
    BY <1>4 DEF IInv, RunInv, IsRun, Migrate
  <2>2. \A q : Dir(q)' = Dir(q)
    BY DEF Migrate, Dir
  <2>3. RunInv'
    BY <1>2, <2>1, <2>2, RunGoesOn DEF Migrate, IInv, RunInv, After
  <2>4. \E u \in DOMAIN control.rows : control.rows[u].of = r
    BY <1>2 DEF Migrate, IInv, RunInv, PlanApplied
  <2>5. QED  BY <1>1, <1>4, <2>1, <2>3, <2>4, Opened DEF Migrate, IInv
<1>5. QED  BY <1>3, <1>4 DEF Migrate

LEMMA EndStep == IInv /\ (Done \/ Crash) => IInv'
<1> SUFFICES ASSUME IInv, Done \/ Crash PROVE IInv'
  OBVIOUS
<1>1. budget' \in [Events -> Nat]
  BY Spent DEF IInv, Done, Crash, Events
<1>2. run.pc # "idle"
  BY DEF Done, Crash, IInv, RunInv
<1>3. ~server /\ ~server'
  BY <1>2, RunDown DEF Done, Crash, IInv
<1>4. RunInv' /\ run'.uid = << >>
  BY <1>3, RunReturns DEF Done, Crash, Return, NoRun
<1>5. ControlInv' /\ OneOwner' /\ FileInv' /\ NowhereInv' /\ OriginInv'
  BY <1>4, Undisturbed DEF Done, Crash, disk, ghosts, Controls
<1>6. QED  BY <1>1, <1>4, <1>5 DEF IInv

-----------------------------------------------------------------------------
(* The server.                                                             *)

LEMMA IdleRun == NoRun.pc = "idle" /\ NoRun.uid = << >> /\ DOMAIN NoRun.uid = {} /\ NoRun.moved = {} /\ NoRun.todo = {}
BY DEF NoRun

LEMMA ServerStep == IInv /\ (Boots \/ Stops) => IInv'
<1> SUFFICES ASSUME IInv, Boots \/ Stops PROVE IInv'
  OBVIOUS
<1>1. budget' \in [Events -> Nat]
  BY Spent DEF IInv, Boots, Stops, Events
<1>2. run = NoRun /\ run' = NoRun
  BY DEF Boots, Stops, IInv, RunInv
<1>3. RunInv'
  BY <1>2, RunReturns DEF Boots, Stops
<1>4. ControlInv' /\ OneOwner' /\ FileInv' /\ NowhereInv' /\ OriginInv'
  BY <1>2, Undisturbed DEF Boots, Stops, disk, ghosts, Controls
<1>5. QED  BY <1>1, <1>3, <1>4 DEF IInv

LEMMA OpensStep == IInv /\ (\E r \in Repos : Opens(r)) => IInv'
<1> SUFFICES ASSUME IInv, NEW r \in Repos, Opens(r) PROVE IInv'
  OBVIOUS
<1>1. run = NoRun /\ run' = NoRun
  BY DEF Opens, IInv, RunInv
<1>2. RunInv'
  BY <1>1, RunReturns DEF Opens, IInv, RunInv
<1>3. control.rows[Stem(r)].of = r
  <2>1. Stem(r) \in Uids /\ control.rows[Stem(r)].of \in Repos
    BY DEF Opens, IInv, ControlInv, ControlGood, ControlOK, Controls
  <2>2. Claim(Stem(r), r) /\ Claim(Stem(r), control.rows[Stem(r)].of)
    BY DEF Opens, Claim, Controls
  <2>3. QED  BY <2>1, <2>2 DEF IInv, OneOwner
<1>4. ControlInv' /\ OneOwner' /\ FileInv' /\ NowhereInv' /\ OriginInv'
  BY <1>3, Opened DEF Opens
<1>5. QED  BY <1>2, <1>4 DEF IInv, Opens

(* What a fresh uid is not.                                                *)
LEMMA FreeIsUnclaimed ==
    ASSUME run = NoRun, NEW u \in FreeUids, NEW r \in Repos
    PROVE  ~Claim(u, r)
<1>1. \A c \in Controls : u \notin DOMAIN c.rows
  BY DEF FreeUids, Controls
<1>2. r \in Archived => ArchiveId[r] # u
  BY IdAssumption DEF FreeUids, Range
<1>3. Stem(r) # u
  BY DEF FreeUids
<1>4. QED  BY <1>1, <1>2, <1>3, IdleRun DEF Claim

LEMMA CreatesStep == IInv /\ (\E r \in Repos : Creates(r)) => IInv'
<1> SUFFICES ASSUME IInv, NEW r \in Repos, Creates(r) PROVE IInv'
  OBVIOUS
<1>1. run = NoRun /\ run' = NoRun /\ control.shape = "uids"
  BY DEF Creates, IInv, RunInv
<1>2. PICK u \in FreeUids :
        /\ control' =
             [shape   |-> control.shape,
              rows    |-> [v \in DOMAIN control.rows \cup {u} |->
                             IF v = u THEN [name |-> Name[r], state |-> "active", of |-> r] ELSE control.rows[v]],
              origins |-> [v \in DOMAIN control.origins \cup (IF r \in HasOrigin THEN {u} ELSE {}) |->
                             IF v = u THEN r ELSE control.origins[v]],
              lenses  |-> control.lenses]
        /\ file' = [file EXCEPT ![r] = <<"repos", u>>]
  BY DEF Creates
<1>3. u \in Uids /\ u \notin DOMAIN control.rows /\ \A q \in Repos : ~Claim(u, q)
  BY <1>1, FreeIsUnclaimed DEF FreeUids
<1> DEFINE new == [name |-> Name[r], state |-> "active", of |-> r]
<1>4. /\ control'.shape = "uids" /\ control'.lenses = control.lenses
      /\ DOMAIN control'.rows = DOMAIN control.rows \cup {u} /\ control'.rows[u] = new
      /\ \A v \in DOMAIN control.rows : control'.rows[v] = control.rows[v]
      /\ DOMAIN control'.origins = DOMAIN control.origins \cup (IF r \in HasOrigin THEN {u} ELSE {})
      /\ r \in HasOrigin => control'.origins[u] = r
      /\ \A v \in DOMAIN control.origins : v # u => control'.origins[v] = control.origins[v]
  BY <1>1, <1>2, <1>3
<1>5. ControlGood(control)
  BY DEF IInv, ControlInv, Controls
<1>6. new \in [name : Names, state : {"active", "archived"}, of : Repos] /\ new.of = r /\ new.name = Name[r] /\ new.state = "active"
  BY RepoAssumption
<1> HIDE DEF new
<1>7. r \notin Archived /\ Dir(r) = "nowhere" /\ \A v \in DOMAIN control.rows : control.rows[v].of # r
  BY RepoAssumption DEF Creates, IInv, NowhereInv, Controls
<1>8. ControlGood(control')
  <2>1. ControlOK(control')
    BY <1>3, <1>4, <1>5, <1>6 DEF ControlGood, ControlOK
  <2>2. OriginsOnRows(control')
    BY <1>3, <1>4, <1>5, <1>6 DEF ControlGood, ControlOK, OriginsOnRows
  <2>3. RowsAreTrue(control')
    <3>1. \A v \in DOMAIN control.rows : control.rows[v].state = "active" => Root[control.rows[v].of] # Root[r]
      BY DEF Creates
    <3>2. QED  BY <3>1, <1>4, <1>5, <1>6, <1>7 DEF ControlGood, RowsAreTrue
  <2>4. LensShape(control')
    BY <1>1, <1>4, <1>5 DEF ControlGood, LensShape
  <2>5. QED  BY <2>1, <2>2, <2>3, <2>4 DEF ControlGood
<1>9. ControlInv'
  BY <1>8 DEF IInv, ControlInv, Controls, Creates
<1>10. /\ file' \in [Repos -> Places] /\ file'[r] = <<"repos", u>>
       /\ Dir(r)' = "repos" /\ Stem(r)' = u
       /\ \A q \in Repos \ {r} : file'[q] = file[q] /\ Dir(q)' = Dir(q) /\ Stem(q)' = Stem(q)
  BY <1>2, <1>3, Placed DEF IInv
<1>11. OneOwner'
  <2>1. ASSUME NEW v \in Uids, NEW q \in Repos, Claim(v, q)'
        PROVE  Claim(v, q) \/ (v = u /\ q = r)
    <3>1. CASE \E c \in Controls' : v \in DOMAIN c.rows /\ c.rows[v].of = q
      <4>1. PICK c \in Controls' : v \in DOMAIN c.rows /\ c.rows[v].of = q
        BY <3>1
      <4>2. c \in baks \/ c = control'
        BY <4>1 DEF Controls, Creates
      <4>3. CASE c \in baks
        BY <4>1, <4>3 DEF Claim, Controls
      <4>4. CASE c = control'
        BY <4>1, <4>4, <1>4, <1>6 DEF Claim, Controls
      <4>5. QED  BY <4>2, <4>3, <4>4
    <3>2. CASE Stem(q)' = v
      BY <3>2, <1>10 DEF Claim
    <3>3. q \notin DOMAIN run'.uid
      BY <1>1, IdleRun
    <3>4. CASE q \in Archived /\ ArchiveId[q] = v
      BY <3>4 DEF Claim
    <3>5. QED  BY <2>1, <3>1, <3>2, <3>3, <3>4 DEF Claim
  <2>2. QED  BY <1>3, <2>1 DEF IInv, OneOwner
<1>12. FileInv'
  <2>1. wal[r] = NoWal
    BY <1>7 DEF IInv, FileInv
  <2>2. QED  BY <1>3, <1>10, <2>1, IdAssumption DEF IInv, FileInv, Creates, ghosts
<1>13. NowhereInv'
  BY <1>1, <1>4, <1>6, <1>10, IdleRun DEF IInv, NowhereInv, Controls, Creates
<1>14. RunInv'
  BY <1>1, <1>4, RunReturns DEF Creates, IInv, RunInv
<1>15. OriginInv'
  <2>1. SUFFICES ASSUME NEW q \in HasOrigin, q \notin discarded, Dir(q)' # "nowhere", q \notin columns
                 PROVE  \E v \in DOMAIN control'.rows : control'.rows[v].of = q
    BY DEF OriginInv, Creates, ghosts
  <2>2. CASE q = r
    BY <2>2, <1>4, <1>6
  <2>3. CASE q # r
    <3>1. q \in Repos /\ Dir(q) # "nowhere"
      BY <2>1, <2>3, <1>10, RepoAssumption
    <3>2. PICK v \in DOMAIN control.rows : control.rows[v].of = q
      BY <2>1, <3>1 DEF IInv, OriginInv
    <3>3. QED  BY <3>2, <1>4
  <2>4. QED  BY <2>2, <2>3
<1>16. QED  BY <1>9, <1>11, <1>12, <1>13, <1>14, <1>15 DEF IInv, Creates

-----------------------------------------------------------------------------
(* The operator.                                                           *)

(* A file is put where it may be.                                          *)
LEMMA Relocated ==
    ASSUME IInv, NEW r \in Repos, NEW d \in {"repos", "archive", "elsewhere"}, NEW x \in Names \cup Uids,
           Moves(r, <<d, x>>), Dir(r) # "nowhere",
           x \in Names => x = Name[r] /\ r \notin Archived,
           x \in Uids => Claim(x, r),
           undone \subseteq undone', d = "archive" => r \in manifests \cup undone'
    PROVE  IInv'
<1>1. budget' \in [Events -> Nat]
  BY Spent DEF IInv, Moves, Events
<1>2. run = NoRun /\ run' = NoRun /\ ~server /\ ~server'
  BY DEF Moves
<1>3. RunInv'
  BY <1>2, RunReturns
<1>4. Controls' = Controls
  BY DEF Moves, Controls
<1>5. /\ file' \in [Repos -> Places] /\ file'[r] = <<d, x>>
      /\ Dir(r)' = d /\ Stem(r)' = x
      /\ \A q \in Repos \ {r} : file'[q] = file[q] /\ Dir(q)' = Dir(q) /\ Stem(q)' = Stem(q)
  BY Placed DEF IInv, Moves
<1>6. FileInv'
  <2>1. /\ wal' \in [Repos -> PlaceOrNot] /\ wal'[r] \in {NoWal, <<d, x>>}
        /\ \A q \in Repos \ {r} : wal'[q] = wal[q]
    BY DEF IInv, FileInv, Moves, PlaceOrNot, Places
  <2>2. UNCHANGED <<columns, manifests>>
    BY DEF Moves
  <2>3. QED  BY <1>5, <2>1, <2>2 DEF IInv, FileInv
<1>7. OneOwner'
  <2>1. ASSUME NEW u \in Uids, NEW q \in Repos, Claim(u, q)' PROVE Claim(u, q)
    BY <1>2, <1>4, <1>5, <2>1 DEF Claim
  <2>2. QED  BY <2>1 DEF IInv, OneOwner
<1>8. \A q \in Repos : Dir(q)' = "nowhere" <=> Dir(q) = "nowhere"
  BY <1>5
<1>9. ControlInv' /\ NowhereInv' /\ OriginInv'
  BY <1>2, <1>4, <1>8, ControlSame, NowhereSame, OriginSame DEF IInv, Moves
<1>10. QED  BY <1>1, <1>3, <1>6, <1>7, <1>9 DEF IInv

LEMMA FinishStep == IInv /\ (\E r \in Repos : FinishByHand(r)) => IInv'
<1> SUFFICES ASSUME IInv, NEW r \in Repos, FinishByHand(r) PROVE IInv'
  OBVIOUS
<1>1. PICK u \in Registered(r) : Moves(r, <<"repos", u>>)
  BY DEF FinishByHand
<1>2. u \in DOMAIN control.rows /\ control.rows[u].of = r
  BY DEF Registered
<1>3. u \in Uids
  BY <1>2 DEF IInv, ControlInv, ControlGood, ControlOK, Controls
<1>4. Claim(u, r) /\ Dir(r) # "nowhere"
  BY <1>2 DEF Claim, Controls, IInv, NowhereInv
<1>5. undone' = undone /\ u \notin Names
  BY <1>3, IdAssumption DEF FinishByHand
<1>6. QED  BY <1>1, <1>3, <1>4, <1>5, Relocated

LEMMA MoveBackStep == IInv /\ (\E r \in Repos : MoveBack(r)) => IInv'
<1> SUFFICES ASSUME IInv, NEW r \in Repos, MoveBack(r) PROVE IInv'
  OBVIOUS
<1>1. Dir(r) # "nowhere" /\ undone' = undone \cup {r} /\ Moves(r, OldPlace(r))
  BY DEF MoveBack
<1>2. CASE r \in Archived
  <2>1. ArchiveId[r] \in Uids /\ ArchiveId[r] \notin Names /\ OldPlace(r) = <<"archive", ArchiveId[r]>>
    BY <1>2, IdAssumption DEF OldPlace
  <2>2. Claim(ArchiveId[r], r)
    BY <1>2 DEF Claim
  <2>3. QED  BY <1>1, <2>1, <2>2, Relocated
<1>3. CASE r \notin Archived
  <2>1. Name[r] \in Names /\ Name[r] \notin Uids /\ OldPlace(r) = <<"repos", Name[r]>>
    BY <1>3, IdAssumption, RepoAssumption DEF OldPlace
  <2>2. QED  BY <1>1, <1>3, <2>1, Relocated
<1>4. QED  BY <1>2, <1>3

LEMMA LosesStep == IInv /\ (\E r \in Repos : LosesFile(r) \/ FindsFile(r)) => IInv'
<1> SUFFICES ASSUME IInv, NEW r \in Repos, LosesFile(r) \/ FindsFile(r) PROVE IInv'
  OBVIOUS
<1>1. Dir(r) # "nowhere" /\ undone' = undone
  BY DEF LosesFile, FindsFile
<1>2. /\ Stem(r) \in Names \cup Uids
      /\ Stem(r) \in Names => Stem(r) = Name[r] /\ r \notin Archived
      /\ Claim(Stem(r), r)
  BY FileAt DEF IInv, FileInv, Claim
<1>3. PICK d \in {"repos", "archive", "elsewhere"} :
         Moves(r, <<d, Stem(r)>>) /\ (d = "archive" => r \in manifests)
  BY DEF LosesFile, FindsFile
<1>4. PICK x : x = Stem(r)
  OBVIOUS
<1>5. QED  BY <1>1, <1>2, <1>3, <1>4, Relocated

LEMMA RestoreStep == IInv /\ RestoreBackup => IInv'
<1> SUFFICES ASSUME IInv, RestoreBackup PROVE IInv'
  OBVIOUS
<1>1. budget' \in [Events -> Nat]
  BY Spent DEF IInv, RestoreBackup, Events
<1>2. run = NoRun /\ run' = NoRun /\ ~server /\ ~server' /\ UNCHANGED disk /\ UNCHANGED ghosts
  BY DEF RestoreBackup
<1>3. Controls' \subseteq Controls
  BY DEF RestoreBackup, Controls
<1>4. \A r : Dir(r)' = Dir(r) /\ Stem(r)' = Stem(r)
  BY <1>2 DEF disk, Dir, Stem
<1>5. OriginInv'
  BY <1>2, <1>4 DEF RestoreBackup, OriginInv, disk
<1>6. RunInv'
  BY <1>2, RunReturns
<1>7. ControlInv' /\ OneOwner' /\ FileInv' /\ NowhereInv'
  BY <1>2, <1>3, <1>4, ControlSame, OwnerSame, FileSame, NowhereSame DEF IInv, disk, ghosts
<1>8. QED  BY <1>1, <1>5, <1>6, <1>7 DEF IInv

-----------------------------------------------------------------------------
(* The plan.                                                               *)

LEMMA MintIsOne ==
    ASSUME Mints # {}
    PROVE  LET mint == CHOOSE f \in Mints : TRUE
           IN  mint \in [Unnamed -> FreeUids] /\ IsInjective(mint)
BY DEF Mints

(* The uid planned for a repository is its own, or nobody's.               *)
Planned(r, u) ==
    /\ u \in Uids
    /\ r \in Unnamed \ manifests => u \in FreeUids
    /\ ~(r \in Unnamed \ manifests) => Claim(u, r)

LEMMA LegacyListed ==
    ASSUME FileInv, ActiveOnesAreLegacy, NEW r \in Listed
    PROVE  r \in Repos /\ Stem(r) = Name[r] /\ r \notin Archived /\ Stem(r) \notin Uids
<1>1. r \in Repos /\ Stem(r) \notin Uids
  BY DEF Listed, ActiveOnesAreLegacy
<1>2. QED  BY <1>1, FileAt DEF FileInv

LEMMA PlannedOwn ==
    ASSUME IInv, ActiveOnesAreLegacy, Mints # {}
    PROVE  /\ DOMAIN PlannedUids = Captured
           /\ \A r \in Captured : r \in Repos /\ Planned(r, PlannedUids[r])
           /\ \A r, q \in Unnamed \ manifests : PlannedUids[r] = PlannedUids[q] => r = q
<1>1. PICK mint \in [Unnamed -> FreeUids] :
         /\ IsInjective(mint)
         /\ PlannedUids = [r \in Captured |-> IF r \in manifests    THEN ArchiveId[r]
                                             ELSE IF r \in Unnamed THEN mint[r]
                                             ELSE CHOOSE u \in Named(Stem(r)) : TRUE]
  BY MintIsOne DEF PlannedUids
<1>2. DOMAIN PlannedUids = Captured
  BY <1>1
<1>3. Unnamed \subseteq Captured /\ FreeUids \subseteq Uids
  BY DEF Unnamed, Captured, FreeUids
<1>4. ASSUME NEW r \in Captured PROVE r \in Repos /\ Planned(r, PlannedUids[r])
  <2>1. r \in Repos
    BY RepoAssumption DEF Captured, Listed, IInv, FileInv
  <2>2. CASE r \in manifests
    <3>1. r \in Archived /\ PlannedUids[r] = ArchiveId[r]
      BY <1>1, <2>2 DEF IInv, FileInv
    <3>2. QED  BY <2>1, <2>2, <3>1, IdAssumption DEF Planned, Claim
  <2>3. CASE r \in Unnamed \ manifests
    <3>1. PlannedUids[r] = mint[r] /\ mint[r] \in FreeUids
      BY <1>1, <2>3
    <3>2. QED  BY <1>3, <2>1, <2>3, <3>1 DEF Planned
  <2>4. CASE r \notin Unnamed /\ r \notin manifests
    <3>1. r \in Listed /\ Named(Stem(r)) # {}
      BY <2>4 DEF Captured, Unnamed
    <3>2. PlannedUids[r] \in Named(Stem(r))
      BY <1>1, <2>4, <3>1
    <3>3. PICK u : u = PlannedUids[r]
      OBVIOUS
    <3>4. u \in DOMAIN control.rows /\ control.rows[u].name = Stem(r) /\ control.rows[u].state = "active"
      BY <3>2, <3>3 DEF Named
    <3>5. /\ u \in Uids /\ control.rows[u].of \in Repos \ Archived
          /\ control.rows[u].name = Name[control.rows[u].of]
      BY <3>4 DEF IInv, ControlInv, ControlGood, ControlOK, RowsAreTrue, Controls
    <3>6. control.rows[u].of = r
      BY <2>1, <3>1, <3>4, <3>5, LegacyListed, RepoAssumption DEF IInv
    <3>7. Claim(u, r)
      BY <3>4, <3>6 DEF Claim, Controls
    <3>8. QED  BY <2>1, <2>4, <3>3, <3>5, <3>7 DEF Planned
  <2>5. QED  BY <2>2, <2>3, <2>4
<1>5. ASSUME NEW r \in Unnamed \ manifests, NEW q \in Unnamed \ manifests, PlannedUids[r] = PlannedUids[q]
      PROVE  r = q
  <2>1. PlannedUids[r] = mint[r] /\ PlannedUids[q] = mint[q] /\ DOMAIN mint = Unnamed
    BY <1>1, <1>3
  <2>2. QED  BY <1>1, <1>5, <2>1 DEF IsInjective
<1>6. QED  BY <1>2, <1>4, <1>5

LEMMA LensesAreReads ==
    ASSUME NEW uid, DOMAIN uid = Captured, ControlInv
    PROVE  \A l \in DOMAIN PlannedLenses(uid) :
              /\ PlannedLenses(uid)[l].write \in PlannedLenses(uid)[l].reads
              /\ PlannedLenses(uid)[l].reads \subseteq {uid[r] : r \in DOMAIN uid}
<1>1. ASSUME NEW ref, ~Dangles(uid, ref) PROVE Target(uid, ref) \in {uid[r] : r \in DOMAIN uid}
  <2>1. Resolve(uid, ref) \subseteq {uid[r] : r \in DOMAIN uid}
    <3>1. ResolveUid(uid, ref) \subseteq {uid[r] : r \in DOMAIN uid}
      BY DEF ResolveUid
    <3>2. ResolveName(uid, ref) \subseteq {uid[r] : r \in DOMAIN uid}
      BY DEF ResolveName, Captured
    <3>3. QED  BY <3>1, <3>2 DEF Resolve
  <2>2. Target(uid, ref) \in Resolve(uid, ref)
    BY <1>1 DEF Target, Dangles
  <2>3. QED  BY <2>1, <2>2
<1>2. ASSUME NEW l \in DOMAIN PlannedLenses(uid)
      PROVE  /\ PlannedLenses(uid)[l].write = Target(uid, control.lenses[l].write)
             /\ PlannedLenses(uid)[l].reads =
                   {Target(uid, m) : m \in {n \in control.lenses[l].reads : ~Dangles(uid, n)}}
             /\ l \in DOMAIN control.lenses /\ ~Dangles(uid, control.lenses[l].write)
  BY DEF PlannedLenses
<1>3. ASSUME NEW l \in DOMAIN PlannedLenses(uid)
      PROVE  control.lenses[l].write \in control.lenses[l].reads
  BY <1>2 DEF ControlInv, ControlGood, ControlOK, Controls
<1>4. QED  BY <1>1, <1>2, <1>3

LEMMA StartStep == IInv /\ (\E flags \in SUBSET Flags : Start(flags)) => IInv'
<1> SUFFICES ASSUME IInv, NEW flags, Start(flags) PROVE IInv'
  OBVIOUS
<1>1. PICK uid : uid = PlannedUids
  OBVIOUS
<1>2. /\ run = NoRun
      /\ run' = [NoRun EXCEPT !.pc = "backup", !.uid = uid, !.lenses = PlannedLenses(uid),
                              !.cuts = Cut(uid), !.gives = {control.origins[u] : u \in Unbacked(uid)}]
      /\ ActiveOnesAreLegacy /\ ArchiveIsLegacy /\ NoDuplicates /\ Mints # {}
      /\ UNCHANGED <<control, baks, file, wal, columns, manifests, server, marker, ghosts>>
  BY <1>1 DEF Start, ReadRaw
<1>3. /\ run'.pc = "backup" /\ run'.uid = uid /\ run'.lenses = PlannedLenses(uid)
      /\ run'.gives = {control.origins[u] : u \in Unbacked(uid)}
      /\ run'.todo = {} /\ run'.moved = {} /\ IsRun'
  BY <1>2 DEF NoRun, IsRun
<1>4. /\ DOMAIN uid = Captured
      /\ \A r \in Captured : r \in Repos /\ Planned(r, uid[r])
      /\ \A r, q \in Unnamed \ manifests : uid[r] = uid[q] => r = q
  BY <1>1, <1>2, PlannedOwn
<1>5. budget' \in [Events -> Nat]
  BY Spent DEF IInv, Start, Events
<1>6. Controls' = Controls /\ \A r : Dir(r)' = Dir(r) /\ Stem(r)' = Stem(r)
  BY <1>2 DEF Controls, Dir, Stem
<1>7. OneOwner'
  <2>1. ASSUME NEW u \in Uids, NEW r \in Repos, Claim(u, r)'
        PROVE  Claim(u, r) \/ (r \in Unnamed \ manifests /\ uid[r] = u /\ u \in FreeUids)
    <3>1. CASE r \in DOMAIN uid /\ uid[r] = u
      BY <1>4, <3>1 DEF Planned
    <3>2. CASE ~(r \in DOMAIN uid /\ uid[r] = u)
      BY <1>3, <1>6, <2>1, <3>2 DEF Claim
    <3>3. QED  BY <3>1, <3>2
  <2>2. \A u \in FreeUids : \A r \in Repos : ~Claim(u, r)
    BY <1>2, FreeIsUnclaimed
  <2>3. QED  BY <1>4, <2>1, <2>2 DEF IInv, OneOwner
<1>8. NowhereInv'
  <2>1. ASSUME NEW r \in Captured PROVE Dir(r) # "nowhere"
    BY RepoAssumption DEF Captured, Listed, IInv, FileInv
  <2>2. QED  BY <1>3, <1>4, <1>6, <2>1 DEF IInv, NowhereInv
<1>9. PlanHolds'
  <2>1. Captured' = Captured /\ Listed' = Listed /\ manifests' = manifests /\ control' = control
    BY <1>2, <1>6 DEF Captured, Listed
  <2>2. NoDuplicates'
    BY <1>2, <2>1 DEF NoDuplicates
  <2>3. \A r \in Listed : Stem(r) \notin Uids
    BY <1>2 DEF ActiveOnesAreLegacy
  <2>4. ASSUME NEW r \in manifests PROVE Dir(r) = "archive"
    <3>1. file[r] = OldPlace(r) /\ r \in Archived
      BY <1>2 DEF ArchiveIsLegacy, IInv, FileInv
    <3>2. file[r] = <<"archive", ArchiveId[r]>>
      BY <3>1 DEF OldPlace
    <3>3. QED  BY <3>2 DEF Dir
  <2>5. \A l \in DOMAIN PlannedLenses(uid) :
           /\ PlannedLenses(uid)[l].write \in PlannedLenses(uid)[l].reads
           /\ PlannedLenses(uid)[l].reads \subseteq {uid[r] : r \in DOMAIN uid}
    BY <1>4, LensesAreReads DEF IInv
  <2>6. \A u \in DOMAIN control.origins : u \in {uid[r] : r \in DOMAIN uid} \/ control.origins[u] \in run'.gives
    BY <1>3 DEF Unbacked
  <2>7. QED  BY <1>3, <1>4, <1>6, <2>1, <2>2, <2>3, <2>4, <2>5, <2>6 DEF PlanHolds
<1>10. RunInv'
  <2>1. ~server'
    BY <1>2 DEF Start, NotRunning, IInv, RunInv
  <2>2. DOMAIN uid \subseteq Repos /\ \A r \in DOMAIN uid : uid[r] \in Uids
    BY <1>4 DEF Planned
  <2>3. QED  BY <1>3, <1>9, <2>1, <2>2 DEF RunInv, Before, After
<1>11. ControlInv' /\ FileInv' /\ OriginInv'
  BY <1>2, <1>6, ControlSame, FileSame, OriginSame DEF IInv, ghosts
<1>12. QED  BY <1>5, <1>7, <1>8, <1>10, <1>11 DEF IInv

-----------------------------------------------------------------------------
(* The invariant.                                                          *)

LEMMA FirstPlace ==
    ASSUME Init, NEW r \in Repos
    PROVE  /\ file[r] \in Places
           /\ r \in Archived => file[r] = <<"archive", ArchiveId[r]>>
           /\ r \notin Archived => \E d \in {"repos", "elsewhere", "nowhere"} : file[r] = <<d, Name[r]>>
           /\ Dir(r) = "nowhere" => r \in Fresh
<1>1. file[r] = CASE r \in Fresh -> <<"nowhere", Name[r]>>
                  [] r \in Apart -> <<"elsewhere", Name[r]>>
                  [] OTHER -> OldPlace(r)
  BY DEF Init
<1>2. CASE r \in Archived
  <2>1. r \notin Fresh /\ r \notin Apart /\ ArchiveId[r] \in Uids
    BY <1>2, RepoAssumption, IdAssumption
  <2>2. file[r] = <<"archive", ArchiveId[r]>>
    BY <1>1, <1>2, <2>1 DEF OldPlace
  <2>3. QED  BY <1>2, <2>1, <2>2 DEF Places, Dir
<1>3. CASE r \notin Archived
  <2>1. Name[r] \in Names
    BY RepoAssumption
  <2>2. CASE r \in Fresh
    BY <1>1, <1>3, <2>1, <2>2 DEF Places, Dir
  <2>3. CASE r \in Apart /\ r \notin Fresh
    BY <1>1, <1>3, <2>1, <2>3 DEF Places, Dir
  <2>4. CASE r \notin Apart /\ r \notin Fresh
    BY <1>1, <1>3, <2>1, <2>4 DEF Places, Dir, OldPlace
  <2>5. QED  BY <2>2, <2>3, <2>4
<1>4. QED  BY <1>2, <1>3

LEMMA InitInv == Init => IInv
<1> SUFFICES ASSUME Init PROVE IInv
  OBVIOUS
<1>1. /\ run = NoRun /\ ~server /\ Controls = {control} /\ control.shape = "names"
      /\ DOMAIN control.rows = {} /\ DOMAIN control.origins = {} /\ control.lenses = Lenses
  BY DEF Init, Controls
<1>2. ControlInv
  BY <1>1, LensAssumption DEF ControlInv, ControlGood, ControlOK, OriginsOnRows, RowsAreTrue, LensShape
<1>3. ASSUME NEW r \in Repos
      PROVE  /\ r \in Archived => Stem(r) = ArchiveId[r] /\ Dir(r) = "archive" /\ Stem(r) \in Uids
             /\ r \notin Archived => Stem(r) = Name[r] /\ Dir(r) # "archive" /\ Stem(r) \in Names
  BY FirstPlace, RepoAssumption, IdAssumption DEF Stem, Dir
<1>4. OneOwner
  <2>1. ASSUME NEW u \in Uids, NEW r \in Repos, Claim(u, r) PROVE r \in Archived /\ ArchiveId[r] = u
    BY <1>1, <1>3, <2>1, IdleRun, IdAssumption DEF Claim
  <2>2. QED  BY <2>1, IdAssumption DEF OneOwner, IsInjective
<1>5. FileInv
  <2>1. file \in [Repos -> Places]
    BY FirstPlace DEF Init
  <2>2. wal \in [Repos -> PlaceOrNot] /\ \A r \in Repos : wal[r] \in {NoWal, file[r]}
    BY DEF Init, PlaceOrNot
  <2>3. columns \subseteq Repos /\ manifests = Archived
    BY DEF Init
  <2>4. ASSUME NEW r \in Repos PROVE Dir(r) = "nowhere" => r \in Fresh /\ wal[r] = NoWal
    BY FirstPlace DEF Init
  <2>5. QED  BY <1>3, <2>1, <2>2, <2>3, <2>4, IdAssumption DEF FileInv
<1>6. NowhereInv
  BY <1>1, IdleRun DEF NowhereInv
<1>7. RunInv
  BY <1>1, IdleRun DEF RunInv, IsRun, NoRun, Before, After
<1>8. OriginInv
  <2>1. ASSUME NEW r \in HasOrigin, r \notin columns PROVE Dir(r) = "nowhere"
    BY <2>1, RepoAssumption DEF Init, Dir
  <2>2. QED  BY <2>1 DEF OriginInv
<1>9. QED  BY <1>2, <1>4, <1>5, <1>6, <1>7, <1>8, BudgetAssumption DEF IInv, Init

LEMMA Stutters == IInv /\ UNCHANGED vars => IInv'
<1> SUFFICES ASSUME IInv, UNCHANGED vars PROVE IInv'
  OBVIOUS
<1>1. Controls' = Controls /\ (\A r : Dir(r)' = Dir(r) /\ Stem(r)' = Stem(r))
  BY DEF Controls, Dir, Stem, vars, disk
<1>2. RunInv'
  <2>1. PlanHolds => PlanHolds'
    BY PlanSame DEF vars, disk
  <2>2. PlanApplied => PlanApplied'
    BY DEF PlanApplied, vars
  <2>3. QED  BY <1>1, <2>1, <2>2 DEF IInv, RunInv, IsRun, vars, disk
<1>3. ControlInv' /\ OneOwner' /\ FileInv' /\ NowhereInv' /\ OriginInv'
  BY Undisturbed DEF vars, disk, ghosts, Controls
<1>4. QED  BY <1>2, <1>3 DEF IInv, vars

LEMMA StepKeepsInv == IInv /\ [Next]_vars => IInv'
<1> SUFFICES ASSUME IInv, [Next]_vars PROVE IInv'
  OBVIOUS
<1>1. CASE UNCHANGED vars
  BY <1>1, Stutters
<1>2. CASE Next
  BY <1>2, StartStep, BackupStep, ApplyStep, RenameStep, AllMovedStep, ManifestsRemovedStep, EndStep,
     CheckpointStep, RemoveManifestStep, MigrateStep, ServerStep, OpensStep, CreatesStep, FinishStep,
     MoveBackStep, LosesStep, RestoreStep
     DEF Next
<1>3. QED  BY <1>1, <1>2

THEOREM Invariance == Spec => []IInv
BY InitInv, StepKeepsInv, PTL DEF Spec

(* Control.db and its backups are well-formed, and what the files are is.  *)
THEOREM TypeCorrect == Spec => []TypeOK
<1>1. IInv => TypeOK
  BY DEF IInv, ControlInv, ControlGood, Controls, FileInv, RunInv, TypeOK
<1>2. QED  BY Invariance, <1>1, PTL

(* The origin of a repository that has lost the columns is on its row.     *)
THEOREM OriginCorrect == Spec => []OriginKept
<1>1. IInv => OriginKept
  <2> SUFFICES ASSUME IInv, NEW r \in HasOrigin \ discarded, Dir(r) # "nowhere", r \notin columns
               PROVE  \E u \in Registered(r) : u \in DOMAIN control.origins /\ control.origins[u] = r
    BY DEF OriginKept
  <2>1. PICK u \in DOMAIN control.rows : control.rows[u].of = r
    BY DEF IInv, OriginInv
  <2>2. u \in DOMAIN control.origins /\ control.origins[u] = r
    BY <2>1 DEF IInv, ControlInv, ControlGood, OriginsOnRows, Controls
  <2>3. QED  BY <2>1, <2>2 DEF Registered
<1>2. QED  BY Invariance, <1>1, PTL

(* Databases keep their frames, their manifests until they have arrived,   *)
(* their names, and one row each, which is theirs.                         *)
THEOREM DatabasesCorrect == Spec => []DatabasesAreKept
<1>1. IInv => DatabasesAreKept
  <2> SUFFICES ASSUME IInv PROVE DatabasesAreKept
    OBVIOUS
  <2>1. ControlGood(control)
    BY DEF IInv, ControlInv, Controls
  <2>2. ASSUME NEW r \in Repos PROVE Cardinality(Registered(r)) <= 1
    <3>1. CASE Registered(r) = {}
      BY <3>1, FS_EmptySet
    <3>2. CASE Registered(r) # {}
      <4>1. PICK u : u \in Registered(r)
        BY <3>2
      <4>2. Registered(r) = {u}
        BY <2>1, <4>1 DEF Registered, ControlGood, RowsAreTrue
      <4>3. QED  BY <4>2, FS_Singleton
    <3>3. QED  BY <3>1, <3>2
  <2>3. ASSUME NEW r \in Repos, Dir(r) = "repos", Stem(r) \in DOMAIN control.rows
        PROVE  control.rows[Stem(r)].of = r
    <3>1. Stem(r) \in Uids /\ control.rows[Stem(r)].of \in Repos
      BY <2>1, <2>3 DEF ControlGood, ControlOK
    <3>2. Claim(Stem(r), r) /\ Claim(Stem(r), control.rows[Stem(r)].of)
      BY <2>3 DEF Claim, Controls
    <3>3. QED  BY <3>1, <3>2 DEF IInv, OneOwner
  <2>4. QED  BY <2>1, <2>2, <2>3 DEF IInv, FileInv, ControlGood, RowsAreTrue, DatabasesAreKept
<1>2. QED  BY Invariance, <1>1, PTL

-----------------------------------------------------------------------------
(* Lenses.                                                                 *)

LEMMA LensSame ==
    ASSUME LensInv, Controls' \subseteq Controls, dropped \subseteq dropped'
    PROVE  LensInv'
BY DEF LensInv

LEMMA LensPlanSame ==
    ASSUME LensPlan,
           run'.pc \notin Before \/ (run.pc \in Before /\ run'.uid = run.uid /\ run'.lenses = run.lenses
                                     /\ run'.cuts = run.cuts /\ control' = control)
    PROVE  LensPlan'
BY DEF LensPlan

(* What a name of the old home meant, when names differ.                   *)
LEMMA MeantIsOne ==
    ASSUME NamesDiffer, NEW r \in Repos \ (Fresh \cup Apart)
    PROVE  Meant(Name[r]) = {r}
BY RepoAssumption DEF NamesDiffer, Meant

LEMMA MemberPlanned ==
    ASSUME NamesDiffer, IInv, ActiveOnesAreLegacy, NEW uid, DOMAIN uid = Captured,
           \A r \in DOMAIN uid : r \in Repos,
           \A r, q \in DOMAIN uid : uid[r] = uid[q] => r = q,
           \A r \in DOMAIN uid : \A u \in DOMAIN control.rows : uid[r] = u => control.rows[u].of = r,
           NEW l \in DOMAIN control.lenses, NEW m \in control.lenses[l].reads, ~Dangles(uid, m)
    PROVE  MeansIn(control, m) = {r \in DOMAIN uid : uid[r] = Target(uid, m)}
<1>1. PICK t : t = Target(uid, m) /\ t \in Resolve(uid, m)
  BY DEF Dangles, Target
<1>2. ControlGood(control)
  BY DEF IInv, ControlInv, Controls
<1>3. CASE control.shape = "uids"
  <2>1. t = m /\ \E r \in DOMAIN uid : uid[r] = m
    BY <1>1, <1>3 DEF Resolve, ResolveUid
  <2>2. PICK r \in DOMAIN uid : uid[r] = m
    BY <2>1
  <2>3. m \in DOMAIN control.rows /\ control.rows[m].of = r
    BY <1>2, <1>3, <2>2 DEF ControlGood, LensShape
  <2>4. MeansIn(control, m) = {r}
    BY <1>3, <2>3 DEF MeansIn
  <2>5. {q \in DOMAIN uid : uid[q] = t} = {r}
    BY <2>1, <2>2
  <2>6. QED  BY <1>1, <2>4, <2>5
<1>4. CASE control.shape = "names"
  <2>1. l \in DOMAIN Lenses /\ m \in Lenses[l].reads
    BY <1>2, <1>4 DEF ControlGood, LensShape
  <2>2. PICK r \in Repos \ (Fresh \cup Apart) : m = Name[r]
    BY <2>1, LensAssumption
  <2>3. PICK q \in DOMAIN uid : t = uid[q] /\ ((q \in Listed /\ Stem(q) = m) \/ (q \in manifests /\ Name[q] = m))
    <3>1. t \in ResolveName(uid, m)
      BY <1>1, <1>4 DEF Resolve
    <3>2. \/ t \in {uid[q] : q \in {p \in Listed : Stem(p) = m}}
          \/ t \in {uid[q] : q \in {p \in manifests : Name[p] = m}}
      BY <3>1 DEF ResolveName
    <3>3. CASE t \in {uid[q] : q \in {p \in Listed : Stem(p) = m}}
      <4>1. PICK q \in {p \in Listed : Stem(p) = m} : t = uid[q]
        BY <3>3
      <4>2. q \in DOMAIN uid /\ q \in Listed /\ Stem(q) = m
        BY <4>1 DEF Captured
      <4>3. QED  BY <4>1, <4>2, Zenon
    <3>4. CASE t \in {uid[q] : q \in {p \in manifests : Name[p] = m}}
      <4>1. PICK q \in {p \in manifests : Name[p] = m} : t = uid[q]
        BY <3>4
      <4>2. q \in DOMAIN uid /\ q \in manifests /\ Name[q] = m
        BY <4>1 DEF Captured
      <4>3. QED  BY <4>1, <4>2
    <3>5. QED  BY <3>2, <3>3, <3>4
  <2>4. Name[q] = m
    BY <2>3, LegacyListed DEF IInv
  <2>5. q = r
    BY <2>2, <2>4 DEF NamesDiffer
  <2>6. MeansIn(control, m) = {r}
    BY <1>4, <2>2, MeantIsOne DEF MeansIn
  <2>7. {p \in DOMAIN uid : uid[p] = t} = {r}
    BY <2>3, <2>5
  <2>8. QED  BY <1>1, <2>6, <2>7
<1>5. QED  BY <1>2, <1>3, <1>4 DEF ControlGood, ControlOK

LEMMA StartLenses ==
    ASSUME NamesDiffer, IInv, NEW flags, Start(flags)
    PROVE  LensPlan'
<1>1. PICK uid : uid = PlannedUids
  OBVIOUS
<1>2. /\ run = NoRun /\ ActiveOnesAreLegacy /\ Mints # {} /\ control' = control
      /\ run'.uid = uid /\ run'.lenses = PlannedLenses(uid) /\ run'.cuts = Cut(uid)
  BY <1>1 DEF Start, NoRun
<1>3. /\ DOMAIN uid = Captured /\ \A r \in DOMAIN uid : r \in Repos
      /\ \A r \in Captured : Planned(r, uid[r])
      /\ \A r, q \in Unnamed \ manifests : uid[r] = uid[q] => r = q
  BY <1>1, <1>2, PlannedOwn
<1>4. ASSUME NEW r \in DOMAIN uid, NEW q \in Repos, Claim(uid[r], q) PROVE r = q
  <2>1. uid[r] \notin FreeUids
    BY <1>2, <1>4, FreeIsUnclaimed
  <2>2. Claim(uid[r], r) /\ uid[r] \in Uids /\ r \in Repos
    BY <1>3, <2>1 DEF Planned
  <2>3. QED  BY <1>4, <2>2 DEF IInv, OneOwner
<1>5. ASSUME NEW r \in DOMAIN uid, NEW q \in DOMAIN uid, uid[r] = uid[q] PROVE r = q
  <2>1. CASE Claim(uid[q], q)
    BY <1>3, <1>4, <1>5, <2>1
  <2>2. CASE Claim(uid[r], r)
    BY <1>3, <1>4, <1>5, <2>2
  <2>3. CASE ~Claim(uid[q], q) /\ ~Claim(uid[r], r)
    BY <1>3, <1>5, <2>3 DEF Planned
  <2>4. QED  BY <2>1, <2>2, <2>3
<1>6. ASSUME NEW r \in DOMAIN uid, NEW u \in DOMAIN control.rows, uid[r] = u PROVE control.rows[u].of = r
  <2>1. control.rows[u].of \in Repos
    BY DEF IInv, ControlInv, ControlGood, ControlOK, Controls
  <2>2. Claim(uid[r], control.rows[u].of)
    BY <1>6 DEF Claim, Controls
  <2>3. QED  BY <1>4, <2>1, <2>2
<1>7. ASSUME NEW l \in DOMAIN control.lenses, NEW m \in control.lenses[l].reads, ~Dangles(uid, m)
      PROVE  SameMember(control, uid, m, Target(uid, m))
  BY <1>2, <1>3, <1>5, <1>6, <1>7, MemberPlanned DEF SameMember
<1>8. ASSUME NEW l \in DOMAIN control.lenses, l \notin Cut(uid)
      PROVE  /\ l \in DOMAIN PlannedLenses(uid)
             /\ SameMember(control, uid, control.lenses[l].write, PlannedLenses(uid)[l].write)
             /\ \A m \in control.lenses[l].reads : \E t \in PlannedLenses(uid)[l].reads : SameMember(control, uid, m, t)
             /\ \A t \in PlannedLenses(uid)[l].reads : \E m \in control.lenses[l].reads : SameMember(control, uid, m, t)
  <2>1. \A m \in control.lenses[l].reads : ~Dangles(uid, m)
    BY <1>8 DEF Cut
  <2>2. control.lenses[l].write \in control.lenses[l].reads
    BY DEF IInv, ControlInv, ControlGood, ControlOK, Controls
  <2>3. /\ l \in DOMAIN PlannedLenses(uid)
        /\ PlannedLenses(uid)[l].write = Target(uid, control.lenses[l].write)
        /\ PlannedLenses(uid)[l].reads =
              {Target(uid, m) : m \in {n \in control.lenses[l].reads : ~Dangles(uid, n)}}
    BY <2>1, <2>2 DEF PlannedLenses
  <2>4. \A m \in control.lenses[l].reads : SameMember(control, uid, m, Target(uid, m))
    BY <1>7, <2>1
  <2>5. \A m \in control.lenses[l].reads : Target(uid, m) \in PlannedLenses(uid)[l].reads
    BY <2>1, <2>3
  <2>6. \A t \in PlannedLenses(uid)[l].reads : \E m \in control.lenses[l].reads : t = Target(uid, m)
    BY <2>3
  <2>7. QED  BY <2>2, <2>3, <2>4, <2>5, <2>6
<1>9. QED  BY <1>2, <1>8 DEF LensPlan

(* The transaction keeps what is not cut.                                  *)
LEMMA ApplyLenses ==
    ASSUME IInv, LensInv, LensPlan, run.pc = "apply", Written, baks' = baks,
           dropped' = dropped \cup run.cuts
    PROVE  LensInv'
<1>1. RunInv /\ OneOwner /\ run.pc \in Before /\ ControlOK(control)
  BY DEF IInv, ControlInv, ControlGood, Controls, Before
<1>2. ASSUME NEW t, NEW m, t \in {run.uid[r] : r \in DOMAIN run.uid}, SameMember(control, run.uid, m, t)
      PROVE  MeansIn(control', t) = MeansIn(control, m)
  <2>1. PICK r \in DOMAIN run.uid : t = run.uid[r]
    BY <1>2
  <2>2. {q \in DOMAIN run.uid : run.uid[q] = t} = {r}
    BY <1>1, <2>1, UidsDiffer
  <2>3. t \in DOMAIN control'.rows /\ control'.rows[t].of = r /\ control'.shape = "uids"
    BY <2>1 DEF Written
  <2>4. MeansIn(control', t) = {r}
    BY <2>3 DEF MeansIn
  <2>5. QED  BY <1>2, <2>2, <2>4 DEF SameMember
<1>3. ASSUME NEW l \in DOMAIN Lenses, l \notin dropped, l \notin run.cuts PROVE LensKept(control', l)
  <2>1. LensKept(control, l)
    BY <1>3 DEF LensInv, Controls
  <2>2. l \in DOMAIN control.lenses
    BY <2>1 DEF LensKept
  <2>3. /\ l \in DOMAIN run.lenses
        /\ SameMember(control, run.uid, control.lenses[l].write, run.lenses[l].write)
        /\ \A m \in control.lenses[l].reads : \E t \in run.lenses[l].reads : SameMember(control, run.uid, m, t)
        /\ \A t \in run.lenses[l].reads : \E m \in control.lenses[l].reads : SameMember(control, run.uid, m, t)
    BY <1>1, <1>3, <2>2 DEF LensPlan
  <2>4. /\ run.lenses[l].write \in run.lenses[l].reads
        /\ run.lenses[l].reads \subseteq {run.uid[r] : r \in DOMAIN run.uid}
    BY <1>1, <2>3 DEF RunInv, PlanHolds
  <2>5. MeansIn(control', run.lenses[l].write) = MeansIn(control, control.lenses[l].write)
    BY <1>2, <2>3, <2>4
  <2>6. /\ \A m \in control.lenses[l].reads : \E t \in run.lenses[l].reads : MeansIn(control', t) = MeansIn(control, m)
        /\ \A t \in run.lenses[l].reads : \E m \in control.lenses[l].reads : MeansIn(control', t) = MeansIn(control, m)
    BY <1>2, <2>3, <2>4
  <2>7. UNION {MeansIn(control', t) : t \in run.lenses[l].reads}
          = UNION {MeansIn(control, m) : m \in control.lenses[l].reads}
    BY <2>6
  <2>8. control'.lenses = run.lenses
    BY DEF Written
  <2>9. QED  BY <2>1, <2>3, <2>5, <2>7, <2>8 DEF LensKept
<1>4. QED  BY <1>3 DEF LensInv, Controls

LEMMA CreatesLenses ==
    ASSUME IInv, LensInv, NEW r \in Repos, Creates(r)
    PROVE  LensInv'
<1>1. control.shape = "uids" /\ ControlGood(control)
  BY DEF Creates, IInv, RunInv, ControlInv, Controls
<1>2. /\ control'.shape = "uids" /\ control'.lenses = control.lenses
      /\ DOMAIN control.rows \subseteq DOMAIN control'.rows
      /\ \A v \in DOMAIN control.rows : control'.rows[v] = control.rows[v]
  BY <1>1 DEF Creates, FreeUids
<1>3. ASSUME NEW m \in DOMAIN control.rows PROVE MeansIn(control', m) = MeansIn(control, m)
  BY <1>1, <1>2 DEF MeansIn
<1>4. ASSUME NEW l \in DOMAIN Lenses, l \notin dropped PROVE LensKept(control', l)
  <2>1. LensKept(control, l)
    BY <1>4 DEF LensInv, Controls
  <2>2. control.lenses[l].write \in control.lenses[l].reads /\ control.lenses[l].reads \subseteq DOMAIN control.rows
    BY <1>1, <2>1 DEF ControlGood, ControlOK, LensShape, LensKept
  <2>3. {MeansIn(control', m) : m \in control.lenses[l].reads} = {MeansIn(control, m) : m \in control.lenses[l].reads}
    BY <1>3, <2>2
  <2>4. MeansIn(control', control.lenses[l].write) = MeansIn(control, control.lenses[l].write)
    BY <1>3, <2>2
  <2>5. QED  BY <1>2, <2>1, <2>3, <2>4 DEF LensKept
<1>5. QED  BY <1>4 DEF LensInv, Controls, Creates, ghosts

LEMMA LensesHold ==
    ASSUME NamesDiffer
    PROVE  Spec => [](LensInv /\ LensPlan)
<1>1. Init => LensInv /\ LensPlan
  <2> SUFFICES ASSUME Init PROVE LensInv /\ LensPlan
    OBVIOUS
  <2>1. Controls = {control} /\ control.shape = "names" /\ control.lenses = Lenses /\ run.pc = "idle"
    BY DEF Init, Controls, NoRun
  <2>2. \A l \in DOMAIN Lenses : LensKept(control, l)
    BY <2>1 DEF LensKept, MeansIn
  <2>3. QED  BY <2>1, <2>2 DEF LensInv, LensPlan, Before
<1>2. IInv /\ LensInv /\ LensPlan /\ [Next]_vars => (LensInv /\ LensPlan)'
  <2> SUFFICES ASSUME IInv, LensInv, LensPlan, [Next]_vars PROVE LensInv' /\ LensPlan'
    OBVIOUS
  <2>1. ASSUME Controls' \subseteq Controls, dropped' = dropped,
               \/ run'.pc \notin Before
               \/ run.pc \in Before /\ run'.uid = run.uid /\ run'.lenses = run.lenses
                  /\ run'.cuts = run.cuts /\ control' = control
        PROVE  LensInv' /\ LensPlan'
    BY <2>1, LensSame, LensPlanSame
  <2>2. CASE UNCHANGED vars
    BY <2>1, <2>2, LensPlanSame, LensSame DEF vars, ghosts, Controls, LensPlan
  <2>3. ASSUME NEW flags \in SUBSET Flags, Start(flags) PROVE LensInv' /\ LensPlan'
    <3>1. Controls' = Controls /\ dropped' = dropped
      BY <2>3 DEF Start, Controls, ghosts
    <3>2. QED  BY <2>3, <3>1, StartLenses, LensSame
  <2>4. CASE Backup
    <3>1. Controls' \subseteq Controls /\ dropped' = dropped /\ control' = control
      BY <2>4 DEF Backup, Controls, ghosts
    <3>2. \/ run'.pc = "idle"
          \/ run.pc \in Before /\ run'.uid = run.uid /\ run'.lenses = run.lenses /\ run'.cuts = run.cuts
      BY <2>4 DEF Backup, Return, NoRun, Before, IInv, RunInv, IsRun
    <3>3. QED  BY <2>1, <3>1, <3>2 DEF Before
  <2>5. CASE Apply
    <3>1. CASE RollBack /\ Return /\ UNCHANGED <<dropped, discarded>>
      <4>1. Controls' = Controls /\ run'.pc = "idle"
        BY <2>5, <3>1 DEF Apply, RollBack, Return, NoRun, Controls
      <4>2. QED  BY <2>1, <3>1, <4>1 DEF Before
    <3>2. CASE ~(RollBack /\ Return /\ UNCHANGED <<dropped, discarded>>)
      <4>1. run.pc = "apply" /\ OneOwner /\ RunInv /\ FileInv /\ PlanHolds
        BY <2>5 DEF Apply, IInv, RunInv, Before
      <4>2. Written /\ dropped' = dropped \cup run.cuts /\ baks' = baks
        BY <2>5, <3>2, <4>1, WrittenRows DEF Apply
      <4>3. run' = [run EXCEPT !.pc = "move", !.todo = DOMAIN run.uid]
        BY <2>5, <3>2 DEF Apply
      <4>4. run'.pc = "move"
        BY <4>1, <4>3 DEF RunInv, IsRun
      <4>5. LensPlan'
        BY <4>4 DEF LensPlan, Before
      <4>6. QED  BY <4>1, <4>2, <4>5, ApplyLenses
    <3>3. QED  BY <3>1, <3>2
  <2>6. ASSUME NEW r \in Repos, Creates(r) PROVE LensInv' /\ LensPlan'
    <3>1. run'.pc \notin Before
      BY <2>6 DEF Creates, IInv, RunInv, Before
    <3>2. QED  BY <2>6, <3>1, CreatesLenses, LensPlanSame
  <2>7. CASE RestoreBackup
    BY <2>1, <2>7, IdleRun DEF RestoreBackup, Controls, ghosts, Before
  <2>8. CASE \/ AllMoved \/ ManifestsRemoved \/ Done \/ Crash \/ Rename \/ Boots \/ Stops
             \/ \E r \in Repos : \/ Checkpoint(r) \/ RemoveManifest(r) \/ Migrate(r) \/ Opens(r)
                               \/ FinishByHand(r) \/ MoveBack(r) \/ LosesFile(r) \/ FindsFile(r)
    <3>1. Controls' = Controls /\ dropped' = dropped
      BY <2>8 DEF AllMoved, ManifestsRemoved, Done, Crash, Rename, Boots, Stops, Checkpoint, RemoveManifest,
         Migrate, Opens, FinishByHand, MoveBack, LosesFile, FindsFile, Moves, Controls, ghosts
    <3>2. run'.pc \notin Before
      <4>0. IsRun
        BY DEF IInv, RunInv
      <4>6. StopMoving \/ Return => run'.pc \notin Before
        BY <4>0, IdleRun DEF StopMoving, Return, IsRun, Before
      <4>1. CASE AllMoved \/ ManifestsRemoved \/ Rename
        <5>1. CASE AllMoved
          BY <5>1, <4>0 DEF AllMoved, IsRun, Before
        <5>2. CASE ManifestsRemoved
          BY <5>2, <4>0, <4>6 DEF ManifestsRemoved, IsRun, Before
        <5>3. CASE Rename
          BY <5>3, <4>0, <4>6 DEF Rename, IsRun, Before
        <5>4. QED  BY <4>1, <5>1, <5>2, <5>3
      <4>2. CASE Done \/ Crash \/ Boots \/ Stops
        BY <4>2, IdleRun DEF Done, Crash, Return, Boots, Stops, Before, IInv, RunInv
      <4>3. ASSUME NEW r \in Repos, Checkpoint(r) \/ RemoveManifest(r) \/ Migrate(r) PROVE run'.pc \notin Before
        <5>1. CASE Checkpoint(r)
          BY <5>1, <4>0, <4>6 DEF Checkpoint, IsRun, Before
        <5>2. CASE RemoveManifest(r)
          BY <5>2, <4>0 DEF RemoveManifest, IsRun, Before
        <5>3. CASE Migrate(r)
          BY <5>3, <4>0, <4>6 DEF Migrate, IsRun, Before
        <5>4. QED  BY <4>3, <5>1, <5>2, <5>3
      <4>4. ASSUME NEW r \in Repos,
                   Opens(r) \/ FinishByHand(r) \/ MoveBack(r) \/ LosesFile(r) \/ FindsFile(r)
            PROVE  run'.pc \notin Before
        BY <4>4, IdleRun DEF Opens, FinishByHand, MoveBack, LosesFile, FindsFile, Moves, Before, IInv, RunInv
      <4>5. QED  BY <2>8, <4>1, <4>2, <4>3, <4>4
    <3>3. QED  BY <2>1, <3>1, <3>2
  <2>9. QED  BY <2>2, <2>3, <2>4, <2>5, <2>6, <2>7, <2>8 DEF Next
<1>3. QED  BY Invariance, <1>1, <1>2, PTL DEF Spec

(* Lenses keep their members, where no two knowledge bases of the old home *)
(* have one name.                                                          *)
THEOREM LensesCorrect ==
    ASSUME NamesDiffer
    PROVE  Spec => []LensesKept
<1>1. LensInv => LensesKept
  <2> SUFFICES ASSUME LensInv, NEW l \in DOMAIN Lenses \ dropped
               PROVE  /\ l \in DOMAIN control.lenses
                      /\ Means(control.lenses[l].write) = Meant(Lenses[l].write)
                      /\ UNION {Means(m) : m \in control.lenses[l].reads} = UNION {Meant(n) : n \in Lenses[l].reads}
    BY DEF LensesKept
  <2>1. \A ref : Means(ref) = MeansIn(control, ref)
    BY DEF Means, MeansIn
  <2>2. LensKept(control, l)
    BY DEF LensInv, Controls
  <2>3. {Means(m) : m \in control.lenses[l].reads} = {MeansIn(control, m) : m \in control.lenses[l].reads}
    BY <2>1
  <2>4. QED  BY <2>1, <2>2, <2>3 DEF LensKept
<1>2. QED  BY LensesHold, <1>1, PTL
=============================================================================
