------------------------- MODULE RepoLifecycle_proofs -------------------------
(***************************************************************************)
(* RepoLifecycle for any repositories, names, URLs, calls and budgets.     *)
(*                                                                         *)
(* What a call may rely on is what it reserved and what it alone has in    *)
(* hand.  A name it has claimed is no lens's and no other call's; a        *)
(* repository that is made, restored or purged is in the hands of one call *)
(* (or is counted as strayed), and its row, its file and the maps are then *)
(* a matter of where that call is.                                         *)
(***************************************************************************)
EXTENDS RepoLifecycle, SequenceTheorems, TLAPS

(* What belongs to no one repository.                                      *)

NamesApart == \A c, d \in Reservers : c # d => call[c].name # call[d].name

(* Past its checks a call has the name to itself: no lens has it, and no   *)
(* instance but what the call itself put there.                            *)
Claims(c) == call[c].op \in Reserving /\ call[c].pc \notin {"reserve", "scan", "check"}
Installed == {"get", "record", "conflict"}

NamesHeld ==
    \A c \in Calls : Claims(c) =>
        /\ lenses[call[c].name] = {}
        /\ repos[call[c].name] # 0 => call[c].pc \in Installed /\ Served(call[c].name, call[c].uid)

Instances ==
    /\ \A m, n \in Names : repos[m] = repos[n] /\ repos[m] # 0 => m = n
    /\ \A c \in Calls : call[c].op = "rename" => opened[call[c].inst].uid = call[c].uid

(* The unique indexes.                                                     *)
Indexes ==
    \A u, v \in Uids : u # v /\ Active(u) /\ Active(v) =>
        rows[u].name # rows[v].name /\ (rows[u].kb = NoKb \/ rows[u].kb # rows[v].kb)

Booting ==
    /\ boot # {} => /\ \A c \in Calls : call[c] = Idle
                    /\ \A n \in Names, u \in Uids : Served(n, u) => Active(u) /\ rows[u].name = n
    /\ \A u \in boot : Active(u) /\ byUID[u] = 0 /\ u \notin unavailable /\ \A n \in Names : ~Served(n, u)

WideInv == NamesApart /\ NamesHeld /\ Instances /\ Indexes /\ Booting /\ Strays(call) \subseteq strayed

(* A repository that is being made is nobody else's.                       *)
Early  == {"scan", "check", "insert"}
Making == {"init", "origin", "add"}

Fledgling(c, u) ==
    /\ \A d \in Calls \ {c} : call[d].uid # u
    /\ \A n \in Names : ~Served(n, u)
    /\ IF call[c].pc \in Early THEN ~Row(u) ELSE Active(u)

EarlyInv ==
    /\ \A c \in Calls :
         call[c].op = "create" /\ call[c].pc \in Early \cup Making => Fledgling(c, call[c].uid)
    /\ boot # {} => \A c \in Calls : call[c] = Idle
    /\ \A u \in boot : Active(u)

TypeInv == TypeOK /\ EarlyInv

-----------------------------------------------------------------------------
(* What holds of a repository that was not left to stray calls.            *)

(* The maps: what is served is what byUID has, is active, and is available.*)
MapsAgree(u) ==
    /\ u \in unavailable => Active(u)
    /\ \A n \in Names : Served(n, u) => byUID[u] = repos[n]
    /\ byUID[u] # 0 => /\ Active(u)
                       /\ u \notin unavailable
                       /\ \E n \in Names : Served(n, u)

(* A repository that is there to be served is.                             *)
Present(u) ==
    Active(u) /\ files[u] # NoFile /\ u \notin boot =>
        \/ u \in unavailable \/ byUID[u] # 0
        \/ \E c \in Calls : call[c].uid = u /\ call[c].op \in {"create", "restore"}

(* A create, restore or purge has the repository to itself.                *)
Pending == {"reserve", "scan", "check", "rename"}

Owns(c, u) ==
    LET q == call[c]
    IN  /\ q.pc \notin Installed => byUID[u] = 0
        /\ q.pc \in Installed => /\ Active(u) <=> byUID[u] # 0
                                 /\ byUID[u] # 0 => Served(q.name, u)
        /\ q.pc = "record" /\ byUID[u] # 0 => q.inst = byUID[u]
        /\ q.pc \in {"get", "record"} => files[u] # NoFile
        /\ q.pc = "add" => Active(u)

Creates(c, u) ==
    LET q == call[c]
    IN  /\ q.pc \in Early => ~Row(u)
        /\ q.pc \in {"init", "origin"} => Active(u)
        /\ Row(u) => rows[u].name = q.name
        /\ q.pc \in Early \cup {"init", "unrow"} => files[u] = NoFile
        /\ u \notin born

Restores(c, u) ==
    LET q == call[c]
    IN  /\ q.pc \in Pending \cup {"activate", "unrename"} => ~Active(u)
        /\ Row(u) /\ q.pc \in Pending => rows[u].name = q.was
        /\ Row(u) /\ q.pc \notin Pending \cup {"unrename"} => rows[u].name = q.name
        /\ RefsRepo(u) = {}

Purges(c, u) ==
    /\ ~Active(u)
    /\ call[c].pc = "unlink" => ~Row(u)

CallsInOrder(u) ==
    \A c \in Calls : call[c].uid = u =>
        /\ u \notin unavailable
        /\ call[c].op \in {"create", "restore", "purge"} => Owns(c, u)
        /\ call[c].op = "create" => Creates(c, u)
        /\ call[c].op = "restore" => Restores(c, u)
        /\ call[c].op = "purge" => Purges(c, u)

(* The renames that have written the row and not yet moved the map lead    *)
(* from the name in the map to the name in the row.                        *)
Written(c, u) == call[c].uid = u /\ call[c].op = "rename" /\ call[c].pc \in {"swap", "revert"}
Reaching(u, n) == \E c \in Calls : Written(c, u) /\ call[c].name = n

RenamesLead(u) ==
    \A n \in Names : Served(n, u) =>
        /\ rows[u].name = n \/ Reaching(u, rows[u].name)
        /\ \A c \in Calls : Written(c, u) =>
              /\ call[c].was = n \/ Reaching(u, call[c].was)
              /\ call[c].was # rows[u].name
              /\ \A d \in Calls : Written(d, u) /\ call[d].was = call[c].was => c = d

(* The row has the identity of the instance.                               *)
Recorded(u) ==
    \A n \in Names : Served(n, u) /\ u \notin unrecorded =>
        \/ rows[u].kb = opened[repos[n]].kb
        \/ \E c \in Calls : call[c].uid = u /\ call[c].pc \in Installed

FilesKept(u) == u \in born /\ Row(u) => files[u] # NoFile

LensesKnow(u) ==
    /\ ~Active(u) => RefsRepo(u) = {}
    /\ Active(u) /\ files[u] # NoFile /\ rows[u].name \notin shadowed => lenses[rows[u].name] = {}
    /\ \A n \in Names \ shadowed : Served(n, u) => lenses[n] = {}

Kept(u) ==
    /\ MapsAgree(u) /\ Present(u) /\ CallsInOrder(u) /\ RenamesLead(u) /\ Recorded(u)
    /\ FilesKept(u) /\ LensesKnow(u)

KeptInv == \A u \in Uids \ strayed : Kept(u)

IInv == TypeOK /\ WideInv /\ KeptInv

-----------------------------------------------------------------------------
(* Types.                                                                  *)

LEMMA GoType ==
    ASSUME TypeOK, NEW c \in Calls, NEW r, IsCall(r, Len(opened')), Become(c, r),
           Len(opened') \in Nat, Len(opened) <= Len(opened')
    PROVE  /\ DOMAIN call' = Calls /\ \A d \in Calls : IsCall(call'[d], Len(opened'))
           /\ strayed' \subseteq Uids
           /\ call' = [call EXCEPT ![c] = r]
<1>1. call' = [call EXCEPT ![c] = r] /\ DOMAIN call = Calls
  BY DEF TypeOK, Become
<1>2. \A d \in Calls : IsCall(call[d], Len(opened'))
  <2>1. \A d \in Calls : IsCall(call[d], Len(opened))
    BY DEF TypeOK
  <2>2. Len(opened) \in Nat
    BY DEF TypeOK
  <2>3. QED  BY <2>1, <2>2 DEF IsCall, CallSet
<1>3. strayed' \subseteq Uids
  BY DEF Become, TypeOK, Strays
<1>4. QED  BY <1>1, <1>2, <1>3

CallsTyped ==
    /\ DOMAIN call = Calls /\ \A c \in Calls : IsCall(call[c], Len(opened))
    /\ strayed \subseteq Uids

DataTyped ==
    /\ rows \in [Uids -> RowSet]
    /\ lenses \in [Names -> SUBSET Uids]
    /\ files \in [Uids -> Kbs \cup {NoFile}]
    /\ opened \in Seq([uid : Uids, kb : Kbs])
    /\ repos \in [Names -> 0..Len(opened)]
    /\ byUID \in [Uids -> 0..Len(opened)]
    /\ unavailable \subseteq Uids /\ boot \subseteq Uids
    /\ budget \in [Events -> Nat]
    /\ born \subseteq Uids /\ unrecorded \subseteq Uids
    /\ shadowed \subseteq Names

LEMMA TypeParts == TypeOK <=> CallsTyped /\ DataTyped
BY DEF TypeOK, CallsTyped, DataTyped

LEMMA RowFields ==
    ASSUME NEW r \in RowSet
    PROVE  IF r.state = "none" THEN r = NoRow
           ELSE /\ r.state \in {"active", "archived"} /\ r.name \in Names
                /\ r.kb \in Kbs \cup {NoKb} /\ r.origin \in Origins \cup {NoOrigin}
                /\ r = [state |-> r.state, name |-> r.name, kb |-> r.kb, origin |-> r.origin]
BY DEF RowSet, NoRow

LEMMA RowEdit ==
    ASSUME NEW r \in RowSet, r.state # "none"
    PROVE  /\ \A n \in Names : [r EXCEPT !.name = n] \in RowSet
           /\ \A k \in Kbs : [r EXCEPT !.kb = k] \in RowSet
           /\ \A o \in Origins : [r EXCEPT !.origin = o] \in RowSet
           /\ \A s \in {"active", "archived"} : [r EXCEPT !.state = s] \in RowSet
BY RowFields DEF RowSet

LEMMA NewRow ==
    /\ NoRow \in RowSet
    /\ \A n \in Names : [NoRow EXCEPT !.state = "active", !.name = n] \in RowSet
BY DEF RowSet, NoRow

LEMMA BudgetTyped ==
    ASSUME budget \in [Events -> Nat], NEW e \in Events, Spend(e) \/ budget' = budget
    PROVE  budget' \in [Events -> Nat]
BY DEF Spend

LEMMA CallAt ==
    ASSUME CallsTyped, NEW c \in Calls
    PROVE  /\ call[c] \in CallSet
           /\ Stage(call[c].op, call[c].pc)
           /\ call[c].op # "none" => call[c].uid \in Uids
           /\ call[c].op \in Reserving => call[c].name \in Names
           /\ call[c].op \in {"restore", "rename"} => call[c].was \in Names
           /\ call[c].origin \in Origins \cup {NoOrigin}
           /\ call[c].pc = "record" \/ call[c].op = "rename" => call[c].inst \in 1..Len(opened)
           /\ IsCall(call[c], Len(opened))
BY DEF CallsTyped, IsCall, CallSet

LEMMA IdleTyped == \A k \in Nat : IsCall(Idle, k)
<1>1. \A k \in Nat : Idle \in CallSet
  BY DEF CallSet, Idle
<1>2. QED  BY <1>1, NoValueAssumption DEF IsCall, Idle, Stage, Reserving

LEMMA Returns ==
    ASSUME TypeOK, NEW c \in Calls, Return(c), Len(opened') \in Nat, Len(opened) <= Len(opened')
    PROVE  CallsTyped' /\ call' = [call EXCEPT ![c] = Idle]
BY GoType, IdleTyped DEF Return, CallsTyped

LEMMA Goes ==
    ASSUME TypeOK, NEW c \in Calls, NEW p, Go(c, p), Stage(call[c].op, p), p # "record",
           Len(opened') \in Nat, Len(opened) <= Len(opened')
    PROVE  CallsTyped' /\ call' = [call EXCEPT ![c] = [call[c] EXCEPT !.pc = p]]
<1>0. CallsTyped
  BY TypeParts
<1>1. IsCall([call[c] EXCEPT !.pc = p], Len(opened'))
  <2>2. Len(opened) \in Nat
    BY DEF TypeOK
  <2>3. QED  BY <1>0, <2>2, CallAt DEF IsCall, CallSet, Stage
<1>2. QED  BY <1>1, GoType DEF Go, CallsTyped

LEMMA BaseOf == \A u \in Uids, o \in Origins \cup {NoOrigin} : KbFrom(u, o) \in Kbs
BY NoValueAssumption DEF KbFrom, Kbs

LEMMA BudgetIs ==
    /\ "call" \in Events /\ "lens" \in Events /\ "fault" \in Events
    /\ \A must : Fails(must) => budget' = budget \/ Spend("fault")
BY DEF Events, Fails

LEMMA Begins ==
    ASSUME TypeOK, NEW c \in Calls, NEW r, Begin(c, r), IsCall(r, Len(opened)), opened' = opened
    PROVE  CallsTyped' /\ budget' \in [Events -> Nat] /\ call' = [call EXCEPT ![c] = r]
<1>1. Len(opened) \in Nat
  BY DEF TypeOK
<1>2. budget' \in [Events -> Nat]
  BY BudgetTyped, BudgetIs DEF Begin, TypeOK
<1>3. QED  BY <1>1, <1>2, GoType DEF Begin, CallsTyped

LEMMA InstanceAt ==
    ASSUME DataTyped
    PROVE  /\ Len(opened) \in Nat
           /\ \A i \in 1..Len(opened) : opened[i].uid \in Uids /\ opened[i].kb \in Kbs
           /\ \A n \in Names : repos[n] \in Nat /\ (repos[n] # 0 => repos[n] \in 1..Len(opened))
<1>1. Len(opened) \in Nat
  BY DEF DataTyped
<1>2. \A i \in 1..Len(opened) : opened[i] \in [uid : Uids, kb : Kbs]
  BY ElementOfSeq DEF DataTyped
<1>3. \A n \in Names : repos[n] \in 0..Len(opened)
  BY DEF DataTyped
<1>4. QED  BY <1>1, <1>2, <1>3

(* Steps that change no more than where a call is.                         *)
LEMMA StartsTyped ==
    ASSUME TypeInv, NEW c \in Calls,
           StartCreate(c) \/ StartRestore(c) \/ StartPurge(c) \/ StartRename(c)
    PROVE  CallsTyped' /\ DataTyped'
<1>0. TypeOK /\ DataTyped /\ Len(opened) \in Nat
  BY TypeParts DEF TypeInv, TypeOK
<1>1. opened' = opened /\ UNCHANGED <<registry, files, maps, boot, born, shadowed, unrecorded>>
  BY DEF StartCreate, StartRestore, StartPurge, StartRename, maps
<1>2. CallsTyped' /\ budget' \in [Events -> Nat]
  <2>1. CASE StartCreate(c)
    <3>1. PICK n \in Names, o \in Origins \cup {NoOrigin}, u \in Uids :
            Begin(c, [Idle EXCEPT !.op = "create", !.uid = u, !.name = n, !.origin = o,
                                  !.pc = IF o = NoOrigin THEN "check" ELSE "scan"])
      BY <2>1 DEF StartCreate
    <3>2. IsCall([Idle EXCEPT !.op = "create", !.uid = u, !.name = n, !.origin = o,
                              !.pc = IF o = NoOrigin THEN "check" ELSE "scan"], Len(opened))
      BY NoValueAssumption, <1>0
         DEF Idle, IsCall, CallSet, Stage, Reserving, CreateSteps, RestoreSteps, PurgeSteps, RenameSteps
    <3>3. QED  BY <3>1, <3>2, <1>0, <1>1, Begins
  <2>2. CASE StartRestore(c)
    <3>1. PICK u \in Uids, n \in Names :
            /\ rows[u].state = "archived"
            /\ Begin(c, [Idle EXCEPT !.op = "restore", !.pc = "reserve", !.uid = u, !.name = n,
                                     !.was = rows[u].name, !.origin = rows[u].origin])
      BY <2>2 DEF StartRestore
    <3>2. rows[u].name \in Names /\ rows[u].origin \in Origins \cup {NoOrigin}
      BY <3>1, <1>0, RowFields DEF DataTyped
    <3>3. IsCall([Idle EXCEPT !.op = "restore", !.pc = "reserve", !.uid = u, !.name = n,
                              !.was = rows[u].name, !.origin = rows[u].origin], Len(opened))
      BY NoValueAssumption, <1>0, <3>2
         DEF Idle, IsCall, CallSet, Stage, Reserving, CreateSteps, RestoreSteps, PurgeSteps, RenameSteps
    <3>4. QED  BY <3>1, <3>3, <1>0, <1>1, Begins
  <2>3. CASE StartPurge(c)
    <3>1. PICK u \in Uids : Begin(c, [Idle EXCEPT !.op = "purge", !.pc = "delete", !.uid = u])
      BY <2>3 DEF StartPurge
    <3>2. IsCall([Idle EXCEPT !.op = "purge", !.pc = "delete", !.uid = u], Len(opened))
      BY NoValueAssumption, <1>0
         DEF Idle, IsCall, CallSet, Stage, Reserving, CreateSteps, RestoreSteps, PurgeSteps, RenameSteps
    <3>3. QED  BY <3>1, <3>2, <1>0, <1>1, Begins
  <2>4. CASE StartRename(c)
    <3>1. PICK was \in Names, n \in Names :
            /\ repos[was] # 0
            /\ Begin(c, [Idle EXCEPT !.op = "rename", !.pc = "check", !.name = n, !.was = was,
                                     !.uid = opened[repos[was]].uid, !.inst = repos[was]])
      BY <2>4 DEF StartRename
    <3>2. repos[was] \in 1..Len(opened) /\ repos[was] \in Nat /\ opened[repos[was]].uid \in Uids
      BY <3>1, <1>0, InstanceAt
    <3>3. IsCall([Idle EXCEPT !.op = "rename", !.pc = "check", !.name = n, !.was = was,
                              !.uid = opened[repos[was]].uid, !.inst = repos[was]], Len(opened))
      BY NoValueAssumption, <1>0, <3>2
         DEF Idle, IsCall, CallSet, Stage, Reserving, CreateSteps, RestoreSteps, PurgeSteps, RenameSteps
    <3>4. QED  BY <3>1, <3>3, <1>0, <1>1, Begins
  <2>5. QED  BY <2>1, <2>2, <2>3, <2>4
<1>3. QED  BY <1>0, <1>1, <1>2 DEF DataTyped, registry, maps

AnyStep(c) ==
    \/ Reserve(c) \/ Scan(c) \/ Check(c) \/ Add(c) \/ GetBack(c) \/ Record(c) \/ Remove(c)
    \/ Insert(c) \/ InitStore(c) \/ PersistOrigin(c) \/ RemoveFile(c) \/ RemoveRow(c)
    \/ RenameRow(c) \/ Activate(c) \/ Rearchive(c) \/ Unrename(c)
    \/ DeleteRow(c) \/ Unlink(c)
    \/ Cas(c) \/ Swap(c) \/ Revert(c)

(* A call goes on as r, which is of the same operation or idle.            *)
SameCall(c, r) ==
    /\ r.op = call[c].op /\ r.uid = call[c].uid /\ r.name = call[c].name
    /\ r.was = call[c].was /\ r.origin = call[c].origin

Becomes(c, r) == r \in CallSet /\ call' = [call EXCEPT ![c] = r] /\ (r = Idle \/ SameCall(c, r))

(* A call is at a step of its operation.                                   *)
LEMMA StepTyped ==
    ASSUME TypeInv, NEW c \in Calls, AnyStep(c)
    PROVE  /\ CallsTyped'
           /\ call[c].op # "none" /\ call[c].uid \in Uids
           /\ \E r : Becomes(c, r)
<1>0. TypeOK /\ CallsTyped /\ DataTyped /\ Len(opened) \in Nat
  BY TypeParts DEF TypeInv, TypeOK
<1>1. /\ call[c] \in CallSet /\ Stage(call[c].op, call[c].pc)
      /\ call[c].op # "none" => call[c].uid \in Uids
  BY <1>0, CallAt
<1> DEFINE Goal == /\ CallsTyped'
                   /\ call[c].op # "none" /\ call[c].uid \in Uids
                   /\ \E r : Becomes(c, r)
<1>2. ASSUME Return(c), Len(opened') \in Nat, Len(opened) <= Len(opened'), call[c].op # "none"
      PROVE  Goal
  <2>1. CallsTyped' /\ call' = [call EXCEPT ![c] = Idle]
    BY <1>0, <1>2, Returns
  <2>2. Idle \in CallSet
    BY IdleTyped DEF IsCall
  <2>3. Becomes(c, Idle)
    BY <2>1, <2>2 DEF Becomes
  <2>4. \E r : Becomes(c, r)
    BY <2>3
  <2>5. QED  BY <1>1, <1>2, <2>1, <2>4
<1>3. ASSUME NEW p, Go(c, p), p # "record", Len(opened') \in Nat, Len(opened) <= Len(opened'),
             call[c].op # "none", Stage(call[c].op, p)
      PROVE  Goal
  <2>1. CallsTyped' /\ call' = [call EXCEPT ![c] = [call[c] EXCEPT !.pc = p]]
    BY <1>0, <1>3, Goes
  <2>2. [call[c] EXCEPT !.pc = p] \in CallSet
    BY <1>1, <1>3 DEF CallSet, Stage
  <2>3. Becomes(c, [call[c] EXCEPT !.pc = p])
    BY <1>1, <2>1, <2>2 DEF CallSet, Becomes, SameCall
  <2>4. \E r : Becomes(c, r)
    BY <2>3
  <2>5. QED  BY <1>1, <1>3, <2>1, <2>4
<1> HIDE DEF Goal
<1>4. ASSUME opened' = opened PROVE Len(opened') \in Nat /\ Len(opened) <= Len(opened')
  BY <1>0, <1>4
<1>5. CASE Reserve(c) \/ Scan(c) \/ Check(c)
  <2>1. opened' = opened
    BY <1>5 DEF Reserve, Scan, Check, maps
  <2>2. call[c].op \in Reserving
    BY <1>5, <1>1 DEF Reserve, Scan, Check, Reaches, Stage, Reserving,
       CreateSteps, RestoreSteps, PurgeSteps, RenameSteps
  <2>3. \/ Return(c)
        \/ \E p : Go(c, p) /\ p # "record" /\ Stage(call[c].op, p)
    <3>1. CASE Reserve(c)
      BY <3>1, <1>1 DEF Reserve, Reaches, Stage, CreateSteps, RestoreSteps, PurgeSteps, RenameSteps
    <3>2. CASE Scan(c)
      BY <3>2, <1>1 DEF Scan, Reaches, Stage, CreateSteps, RestoreSteps, PurgeSteps, RenameSteps
    <3>3. CASE Check(c)
      BY <3>3, <1>1 DEF Check, Reaches, Stage, CreateSteps, RestoreSteps, PurgeSteps, RenameSteps
    <3>4. QED  BY <1>5, <3>1, <3>2, <3>3
  <2>4. QED  BY <2>1, <2>2, <2>3, <1>2, <1>3, <1>4 DEF Goal, Reserving
<1>6. CASE Add(c)
  <2>1. call[c].op \in {"create", "restore"}
    BY <1>6, <1>1 DEF Add, Reaches, Stage, CreateSteps, RestoreSteps, PurgeSteps, RenameSteps
  <2>2. Len(opened') \in Nat /\ Len(opened) <= Len(opened')
    <3>1. opened' = opened \/ \E e : opened' = Append(opened, e)
      BY <1>6 DEF Add, Serve
    <3>2. QED  BY <3>1, <1>0, AppendProperties, InstanceAt DEF DataTyped
  <2>3. \E p : Go(c, p) /\ p # "record" /\ Stage(call[c].op, p)
    BY <1>6, <2>1 DEF Add, Stage, CreateSteps, RestoreSteps
  <2>4. QED  BY <2>1, <2>2, <2>3, <1>3 DEF Goal
<1>7. CASE GetBack(c)
  <2>1. call[c].op \in {"create", "restore"} /\ opened' = opened
    BY <1>7, <1>1 DEF GetBack, Reaches, Stage, CreateSteps, RestoreSteps, PurgeSteps, RenameSteps, maps
  <2>2. CASE repos[call[c].name] = 0
    BY <2>1, <2>2, <1>7, <1>2, <1>4 DEF GetBack, Goal
  <2>3. CASE repos[call[c].name] # 0
    <3> DEFINE r == [call[c] EXCEPT !.pc = "record", !.inst = repos[call[c].name]]
    <3>1. Become(c, r)
      BY <2>3, <1>7 DEF GetBack
    <3>2. call[c].name \in Names
      BY <2>1, <1>0, CallAt DEF Reserving
    <3>3. repos[call[c].name] \in 1..Len(opened) /\ repos[call[c].name] \in Nat
      BY <3>2, <2>3, <1>0, InstanceAt
    <3>4. r \in CallSet /\ r.op = call[c].op /\ r.uid = call[c].uid /\ r.name = call[c].name
          /\ r.was = call[c].was /\ r.origin = call[c].origin /\ r.pc = "record" /\ r.inst \in 1..Len(opened)
      BY <1>1, <3>3 DEF CallSet, CreateSteps
    <3>5. IsCall(r, Len(opened))
      BY <3>4, <2>1, <1>0, CallAt DEF IsCall, Stage, CreateSteps, RestoreSteps
    <3> HIDE DEF r
    <3>6. CallsTyped' /\ call' = [call EXCEPT ![c] = r]
      BY <3>1, <3>5, <2>1, <1>0, <1>4, GoType DEF CallsTyped
    <3>7. Becomes(c, r)
      BY <3>4, <3>6 DEF Becomes, SameCall
    <3>8. QED  BY <3>6, <3>7, <2>1, <1>1 DEF Goal
  <2>4. QED  BY <2>2, <2>3
<1>8. CASE Record(c) \/ Remove(c)
  <2>1. call[c].op \in {"create", "restore"} /\ opened' = opened
    BY <1>8, <1>1 DEF Record, Remove, Reaches, Stage, CreateSteps, RestoreSteps, PurgeSteps, RenameSteps, maps
  <2>2. \/ Return(c)
        \/ \E p : Go(c, p) /\ p # "record" /\ Stage(call[c].op, p)
    BY <1>8, <2>1 DEF Record, Remove, Stage, CreateSteps, RestoreSteps
  <2>3. QED  BY <2>1, <2>2, <1>2, <1>3, <1>4 DEF Goal
<1>9. CASE Insert(c) \/ InitStore(c) \/ PersistOrigin(c) \/ RemoveFile(c) \/ RemoveRow(c)
  <2>1. call[c].op = "create" /\ opened' = opened
    BY <1>9 DEF Insert, InitStore, PersistOrigin, RemoveFile, RemoveRow, At, maps
  <2>2. \/ Return(c)
        \/ \E p : Go(c, p) /\ p # "record" /\ Stage(call[c].op, p)
    BY <1>9, <2>1 DEF Insert, InitStore, PersistOrigin, RemoveFile, RemoveRow, Stage, CreateSteps
  <2>3. QED  BY <2>1, <2>2, <1>2, <1>3, <1>4 DEF Goal
<1>10. CASE RenameRow(c) \/ Activate(c) \/ Unrename(c)
  <2>1. call[c].op = "restore" /\ opened' = opened
    BY <1>10 DEF RenameRow, Activate, Unrename, At, maps
  <2>2. \/ Return(c)
        \/ \E p : Go(c, p) /\ p # "record" /\ Stage(call[c].op, p)
    BY <1>10, <2>1 DEF RenameRow, Activate, Unrename, TakeBack, Stage, RestoreSteps
  <2>3. QED  BY <2>1, <2>2, <1>2, <1>3, <1>4 DEF Goal
<1>11. CASE Rearchive(c)
  <2>1. call[c].op = "restore" /\ opened' = opened
    BY <1>11 DEF Rearchive, At, maps
  <2>2. CASE TakeBack(c)
    <3>1. \/ Return(c)
          \/ \E p : Go(c, p) /\ p # "record" /\ Stage(call[c].op, p)
      BY <2>2, <2>1 DEF TakeBack, Stage, RestoreSteps
    <3>2. QED  BY <2>1, <3>1, <1>2, <1>3, <1>4 DEF Goal
  <2>3. CASE call' = [call EXCEPT ![c].pc = "unrename"] /\ strayed' = strayed \cup {call[c].uid}
    <3> DEFINE r == [call[c] EXCEPT !.pc = "unrename"]
    <3>1. r \in CallSet /\ r.op = call[c].op /\ r.uid = call[c].uid /\ r.name = call[c].name
          /\ r.was = call[c].was /\ r.origin = call[c].origin /\ r.pc = "unrename"
      BY <1>1 DEF CallSet, RestoreSteps
    <3>2. IsCall(r, Len(opened))
      BY <3>1, <2>1, <1>0, CallAt DEF IsCall, Stage, RestoreSteps
    <3>3. call' = [call EXCEPT ![c] = r]
      BY <2>3
    <3> HIDE DEF r
    <3>4. CallsTyped'
      BY <3>2, <3>3, <2>1, <2>3, <1>0, <1>1 DEF CallsTyped
    <3>5. Becomes(c, r)
      BY <3>1, <3>3 DEF Becomes, SameCall
    <3>6. QED  BY <3>4, <3>5, <2>1, <1>1 DEF Goal
  <2>4. QED  BY <1>11, <2>2, <2>3 DEF Rearchive
<1>12. CASE DeleteRow(c) \/ Unlink(c)
  <2>1. call[c].op = "purge" /\ opened' = opened
    BY <1>12 DEF DeleteRow, Unlink, At, maps
  <2>2. \/ Return(c)
        \/ \E p : Go(c, p) /\ p # "record" /\ Stage(call[c].op, p)
    BY <1>12, <2>1 DEF DeleteRow, Unlink, Stage, PurgeSteps
  <2>3. QED  BY <2>1, <2>2, <1>2, <1>3, <1>4 DEF Goal
<1>13. CASE Cas(c) \/ Swap(c)
  <2>1. call[c].op = "rename" /\ opened' = opened
    BY <1>13 DEF Cas, Swap, At, maps
  <2>2. \/ Return(c)
        \/ \E p : Go(c, p) /\ p # "record" /\ Stage(call[c].op, p)
    BY <1>13, <2>1 DEF Cas, Swap, Stage, RenameSteps
  <2>3. QED  BY <2>1, <2>2, <1>2, <1>3, <1>4 DEF Goal
<1>14. CASE Revert(c)
  <2>1. call[c].op = "rename" /\ opened' = opened
    BY <1>14 DEF Revert, At, maps
  <2>2. CASE Return(c)
    BY <2>1, <2>2, <1>2, <1>4 DEF Goal
  <2>3. CASE call' = [call EXCEPT ![c] = Idle] /\ strayed' = strayed \cup {call[c].uid}
    <3>1. Idle \in CallSet
      BY IdleTyped DEF IsCall
    <3>2. CallsTyped'
      BY <2>1, <2>3, <1>0, <1>1, IdleTyped DEF CallsTyped
    <3>3. Becomes(c, Idle)
      BY <2>3, <3>1 DEF Becomes
    <3>4. \E r : Becomes(c, r)
      BY <3>3
    <3>5. QED  BY <2>1, <1>1, <3>2, <3>4 DEF Goal
  <2>4. QED  BY <1>14, <2>2, <2>3 DEF Revert
<1>15. QED  BY <1>5, <1>6, <1>7, <1>8, <1>9, <1>10, <1>11, <1>12, <1>13, <1>14 DEF AnyStep

LEMMA ServeTyped ==
    ASSUME DataTyped, NEW u \in Uids, NEW n \in Names, files[u] # NoFile, Serve(u, n, Len(opened) + 1)
    PROVE  /\ opened' \in Seq([uid : Uids, kb : Kbs]) /\ Len(opened') = Len(opened) + 1
           /\ repos' \in [Names -> 0..Len(opened')]
           /\ byUID' \in [Uids -> 0..Len(opened')]
           /\ \A i \in 1..Len(opened) : opened'[i] = opened[i]
           /\ opened'[Len(opened) + 1] = [uid |-> u, kb |-> files[u]]
<1>1. files[u] \in Kbs
  BY DEF DataTyped
<1>2. [uid |-> u, kb |-> files[u]] \in [uid : Uids, kb : Kbs]
  BY <1>1
<1>3. opened' = Append(opened, [uid |-> u, kb |-> files[u]])
  BY DEF Serve
<1>4. /\ opened' \in Seq([uid : Uids, kb : Kbs]) /\ Len(opened') = Len(opened) + 1
      /\ \A i \in 1..Len(opened) : opened'[i] = opened[i]
      /\ opened'[Len(opened) + 1] = [uid |-> u, kb |-> files[u]]
  BY <1>2, <1>3, AppendProperties DEF DataTyped
<1>5. Len(opened) \in Nat
  BY InstanceAt
<1>6. repos' \in [Names -> 0..Len(opened')]
  BY <1>4, <1>5 DEF DataTyped, Serve
<1>7. byUID' \in [Uids -> 0..Len(opened')]
  BY <1>4, <1>5 DEF DataTyped, Serve
<1>8. QED  BY <1>4, <1>6, <1>7

LEMMA RowSame ==
    ASSUME DataTyped, NEW u \in Uids, Row(u)
    PROVE  /\ \A n \in Names : [rows EXCEPT ![u].name = n] \in [Uids -> RowSet]
           /\ \A k \in Kbs : [rows EXCEPT ![u].kb = k] \in [Uids -> RowSet]
           /\ \A o \in Origins : [rows EXCEPT ![u].origin = o] \in [Uids -> RowSet]
           /\ \A s \in {"active", "archived"} : [rows EXCEPT ![u].state = s] \in [Uids -> RowSet]
BY RowEdit DEF DataTyped, Row

LEMMA SetStateTyped ==
    ASSUME DataTyped, NEW u \in Uids, NEW s \in {"active", "archived"}
    PROVE  SetState(u, s) \in [Uids -> RowSet]
BY RowSame DEF SetState, DataTyped

LEMMA StepData ==
    ASSUME TypeInv, NEW c \in Calls, AnyStep(c)
    PROVE  DataTyped'
<1>0. DataTyped /\ CallsTyped /\ Len(opened) \in Nat /\ budget \in [Events -> Nat]
  BY TypeParts DEF TypeInv, TypeOK
<1> DEFINE u == call[c].uid
           n == call[c].name
<1>1. /\ call[c] \in CallSet /\ Stage(call[c].op, call[c].pc) /\ call[c].op # "none"
      /\ u \in Uids /\ call[c].origin \in Origins \cup {NoOrigin}
      /\ call[c].op \in Reserving => n \in Names
      /\ call[c].op \in {"restore", "rename"} => call[c].was \in Names
      /\ call[c].pc = "record" => call[c].inst \in 1..Len(opened)
      /\ call[c].op = "rename" => call[c].inst \in 1..Len(opened)
  BY <1>0, CallAt, StepTyped
<1>2. \A must : Fails(must) \/ UNCHANGED budget \/ Spend("fault") => budget' \in [Events -> Nat]
  BY <1>0, BudgetTyped, BudgetIs
<1>3. CASE Reserve(c) \/ Scan(c) \/ Check(c)
  BY <1>3, <1>0 DEF Reserve, Scan, Check, DataTyped, registry, maps
<1>4. CASE Add(c)
  <2>1. call[c].op \in Reserving /\ n \in Names
    BY <1>4, <1>1 DEF Add, Reaches, Stage, CreateSteps, RestoreSteps, PurgeSteps, RenameSteps, Reserving
  <2>2. budget' \in [Events -> Nat]
    BY <1>4, <1>2 DEF Add
  <2>3. UNCHANGED <<registry, files, unavailable, boot, born, shadowed, unrecorded>>
    BY <1>4 DEF Add
  <2>4. CASE files[u] # NoFile /\ Serve(u, n, Len(opened) + 1)
    BY <2>1, <2>2, <2>3, <2>4, <1>0, <1>1, ServeTyped DEF DataTyped, registry
  <2>5. CASE UNCHANGED <<opened, repos, byUID>>
    BY <2>2, <2>3, <2>5, <1>0 DEF DataTyped, registry
  <2>6. QED  BY <1>4, <2>4, <2>5 DEF Add
<1>5. CASE GetBack(c)
  BY <1>5, <1>0, <1>1 DEF GetBack, DataTyped, registry, maps
<1>6. CASE Record(c)
  <2>1. budget' \in [Events -> Nat]
    BY <1>6, <1>2 DEF Record
  <2>2. opened[call[c].inst].kb \in Kbs
    BY <1>6, <1>0, <1>1, InstanceAt DEF Record, Reaches
  <2>3. rows' = rows \/ (Row(u) /\ rows' = RecordRepoID(u, opened[call[c].inst].kb))
    BY <1>6 DEF Record
  <2>4. rows' \in [Uids -> RowSet]
    <3>1. Row(u) => [rows EXCEPT ![u].kb = opened[call[c].inst].kb] \in [Uids -> RowSet]
      BY <2>2, <1>0, <1>1, RowSame
    <3>2. QED  BY <2>3, <3>1, <1>0 DEF RecordRepoID, DataTyped
  <2>5. born' \subseteq Uids /\ unrecorded' \subseteq Uids
    BY <1>6, <1>0, <1>1 DEF Record, DataTyped
  <2>6. UNCHANGED <<lenses, files, maps, boot, shadowed>>
    BY <1>6 DEF Record
  <2>7. QED  BY <2>1, <2>4, <2>5, <2>6, <1>0 DEF DataTyped, maps
<1>7. CASE Remove(c)
  <2>1. call[c].op \in Reserving /\ n \in Names
    BY <1>7, <1>1 DEF Remove, Reaches, Stage, CreateSteps, RestoreSteps, PurgeSteps, RenameSteps, Reserving
  <2>2. repos' \in [Names -> 0..Len(opened)]
    BY <1>7, <1>0, <2>1 DEF Remove, DataTyped
  <2>3. byUID' \in [Uids -> 0..Len(opened)] /\ unavailable' \subseteq Uids
    <3>1. CASE repos[n] = 0
      BY <1>7, <3>1, <1>0 DEF Remove, DataTyped
    <3>2. CASE repos[n] # 0
      <4>1. /\ byUID' = [byUID EXCEPT ![opened[repos[n]].uid] = 0]
            /\ unavailable' = unavailable \ {opened[repos[n]].uid}
        BY <1>7, <3>2 DEF Remove
      <4>2. byUID' \in [Uids -> 0..Len(opened)]
        <5>1. 0 \in 0..Len(opened)
          BY <1>0
        <5>2. QED  BY <4>1, <5>1, <1>0 DEF DataTyped
      <4>3. QED  BY <4>1, <4>2, <1>0 DEF DataTyped
    <3>3. QED  BY <3>1, <3>2
  <2>4. UNCHANGED <<registry, files, opened, boot, budget, born, shadowed, unrecorded>>
    BY <1>7 DEF Remove
  <2>5. QED  BY <2>2, <2>3, <2>4, <1>0 DEF DataTyped, registry
<1>8. CASE Insert(c)
  <2>1. call[c].op \in Reserving
    BY <1>8 DEF Insert, At, Reserving
  <2>2. rows' = rows \/ rows' = [rows EXCEPT ![u] = [NoRow EXCEPT !.state = "active", !.name = n]]
    BY <1>8 DEF Insert
  <2>3. rows' \in [Uids -> RowSet]
    BY <2>1, <2>2, <1>0, <1>1, NewRow DEF DataTyped
  <2>4. QED  BY <1>8, <2>3, <1>0 DEF Insert, DataTyped, maps
<1>9. CASE InitStore(c)
  <2>1. budget' \in [Events -> Nat] /\ UNCHANGED <<registry, maps, boot, born, shadowed, unrecorded>>
    BY <1>9, <1>2 DEF InitStore
  <2>2. files' = files \/ files' = [files EXCEPT ![u] = KbFrom(u, call[c].origin)]
    BY <1>9 DEF InitStore
  <2>3. files' \in [Uids -> Kbs \cup {NoFile}]
    BY <2>2, <1>0, <1>1, BaseOf DEF DataTyped
  <2>4. QED  BY <2>1, <2>3, <1>0 DEF DataTyped, registry, maps
<1>10. CASE PersistOrigin(c)
  <2>1. budget' \in [Events -> Nat] /\ UNCHANGED <<lenses, files, maps, boot, born, shadowed, unrecorded>>
    BY <1>10, <1>2 DEF PersistOrigin
  <2>2. Row(u)
    BY <1>10 DEF PersistOrigin, At, TypeInv, EarlyInv, Fledgling, Early, Making, Active, Row
  <2>3. rows' = rows \/ rows' = [rows EXCEPT ![u].origin = call[c].origin]
    BY <1>10 DEF PersistOrigin
  <2>4. [rows EXCEPT ![u].origin = NoOrigin] \in [Uids -> RowSet]
    <3>1. [rows[u] EXCEPT !.origin = NoOrigin] \in RowSet
      <4>1. rows[u] \in RowSet /\ rows[u].state # "none"
        BY <2>2, <1>0, <1>1 DEF DataTyped, Row
      <4>2. \A r \in RowSet : r.state # "none" => [r EXCEPT !.origin = NoOrigin] \in RowSet
        BY RowFields DEF RowSet
      <4>3. QED  BY <4>1, <4>2
    <3>2. QED  BY <3>1, <1>0, <1>1 DEF DataTyped
  <2>5. rows' \in [Uids -> RowSet]
    <3>1. \A o \in Origins : [rows EXCEPT ![u].origin = o] \in [Uids -> RowSet]
      BY <2>2, <1>0, <1>1, RowSame
    <3>2. CASE rows' = rows
      BY <3>2, <1>0 DEF DataTyped
    <3>3. CASE rows' = [rows EXCEPT ![u].origin = call[c].origin]
      <4>1. call[c].origin \in Origins \cup {NoOrigin}
        BY <1>0, <1>1, CallAt
      <4>2. QED  BY <2>4, <3>1, <3>3, <4>1
    <3>4. QED  BY <2>3, <3>2, <3>3
  <2>6. QED  BY <2>1, <2>5, <1>0 DEF DataTyped, maps
<1>11. CASE RemoveFile(c)
  BY <1>11, <1>0, <1>1 DEF RemoveFile, DataTyped, registry, maps
<1>12. CASE RemoveRow(c)
  <2>1. rows' \in [Uids -> RowSet]
    BY <1>12, <1>0, NewRow DEF RemoveRow, DataTyped
  <2>2. budget' \in [Events -> Nat]
    BY <1>12, <1>2 DEF RemoveRow
  <2>3. QED  BY <1>12, <2>1, <2>2, <1>0 DEF RemoveRow, DataTyped, maps
<1>13. CASE RenameRow(c)
  <2>1. n \in Names
    BY <1>13, <1>1 DEF RenameRow, At, Reserving
  <2>2. rows' \in [Uids -> RowSet]
    <3>1. rows' = rows \/ (Row(u) /\ rows' = [rows EXCEPT ![u].name = n])
      BY <1>13 DEF RenameRow
    <3>2. Row(u) => [rows EXCEPT ![u].name = n] \in [Uids -> RowSet]
      BY <2>1, <1>0, <1>1, RowSame
    <3>3. QED  BY <3>1, <3>2, <1>0 DEF DataTyped
  <2>3. QED  BY <1>13, <2>2, <1>0 DEF RenameRow, DataTyped, maps
<1>14. CASE Activate(c)
  <2>1. rows' \in [Uids -> RowSet]
    BY <1>14, <1>0, <1>1, SetStateTyped DEF Activate, DataTyped
  <2>2. budget' \in [Events -> Nat]
    BY <1>14, <1>2 DEF Activate
  <2>3. QED  BY <1>14, <2>1, <2>2, <1>0 DEF Activate, DataTyped, maps
<1>15. CASE Rearchive(c)
  <2>1. rows' \in [Uids -> RowSet]
    BY <1>15, <1>0, <1>1, SetStateTyped DEF Rearchive, DataTyped
  <2>2. budget' \in [Events -> Nat]
    BY <1>15, <1>2 DEF Rearchive
  <2>3. QED  BY <1>15, <2>1, <2>2, <1>0 DEF Rearchive, DataTyped, maps
<1>16. CASE Unrename(c)
  <2>1. call[c].was \in Names
    BY <1>16, <1>1 DEF Unrename, At
  <2>2. rows' \in [Uids -> RowSet]
    <3>1. rows' = rows \/ (Row(u) /\ rows' = [rows EXCEPT ![u].name = call[c].was])
      BY <1>16 DEF Unrename
    <3>2. Row(u) => [rows EXCEPT ![u].name = call[c].was] \in [Uids -> RowSet]
      BY <2>1, <1>0, <1>1, RowSame
    <3>3. QED  BY <3>1, <3>2, <1>0 DEF DataTyped
  <2>3. budget' \in [Events -> Nat]
    BY <1>16, <1>2 DEF Unrename
  <2>4. UNCHANGED <<lenses, files, maps, boot, born, shadowed, unrecorded>>
    BY <1>16 DEF Unrename
  <2>5. QED  BY <2>2, <2>3, <2>4, <1>0 DEF DataTyped, maps
<1>17. CASE DeleteRow(c)
  <2>1. rows' \in [Uids -> RowSet] /\ unavailable' \subseteq Uids
    <3>1. rows' \in {rows, [rows EXCEPT ![u] = NoRow]} /\ unavailable' \subseteq unavailable
      BY <1>17 DEF DeleteRow
    <3>2. QED  BY <3>1, <1>0, NewRow DEF DataTyped
  <2>2. budget' \in [Events -> Nat]
    BY <1>17, <1>2 DEF DeleteRow
  <2>3. QED  BY <1>17, <2>1, <2>2, <1>0 DEF DeleteRow, DataTyped
<1>18. CASE Unlink(c)
  <2>1. budget' \in [Events -> Nat]
    BY <1>18, <1>2 DEF Unlink
  <2>2. QED  BY <1>18, <2>1, <1>0 DEF Unlink, DataTyped, registry, maps
<1>19. CASE Cas(c)
  <2>1. n \in Names
    BY <1>19, <1>1 DEF Cas, At, Reserving
  <2>2. rows' \in [Uids -> RowSet]
    <3>1. rows' = rows \/ (Row(u) /\ rows' = [rows EXCEPT ![u].name = n])
      BY <1>19 DEF Cas, RenameIfNamed
    <3>2. Row(u) => [rows EXCEPT ![u].name = n] \in [Uids -> RowSet]
      BY <2>1, <1>0, <1>1, RowSame
    <3>3. QED  BY <3>1, <3>2, <1>0 DEF DataTyped
  <2>3. QED  BY <1>19, <2>2, <1>0 DEF Cas, DataTyped, maps
<1>20. CASE Swap(c)
  <2>1. n \in Names /\ call[c].inst \in 0..Len(opened)
    BY <1>20, <1>0, <1>1 DEF Swap, At, Reserving
  <2>2. repos' \in [Names -> 0..Len(opened)]
    BY <1>20, <2>1, <1>0 DEF Swap, DataTyped
  <2>3. QED  BY <1>20, <2>2, <1>0 DEF Swap, DataTyped, registry
<1>21. CASE Revert(c)
  <2>1. call[c].was \in Names
    BY <1>21, <1>1 DEF Revert, At
  <2>2. rows' \in [Uids -> RowSet]
    <3>1. rows' = rows \/ (Row(u) /\ rows' = [rows EXCEPT ![u].name = call[c].was])
      BY <1>21 DEF Revert, RenameIfNamed
    <3>2. Row(u) => [rows EXCEPT ![u].name = call[c].was] \in [Uids -> RowSet]
      BY <2>1, <1>0, <1>1, RowSame
    <3>3. QED  BY <3>1, <3>2, <1>0 DEF DataTyped
  <2>3. budget' \in [Events -> Nat]
    BY <1>21, <1>2 DEF Revert
  <2>4. QED  BY <1>21, <2>2, <2>3, <1>0 DEF Revert, DataTyped, maps
<1>22. QED  BY <1>3, <1>4, <1>5, <1>6, <1>7, <1>8, <1>9, <1>10, <1>11, <1>12, <1>13, <1>14, <1>15,
               <1>16, <1>17, <1>18, <1>19, <1>20, <1>21 DEF AnyStep

(* A step of a call changes nothing of the other calls, and of the other   *)
(* repositories no row and no file.                                        *)
LEMMA StepLocal ==
    ASSUME TypeInv, NEW c \in Calls, AnyStep(c)
    PROVE  /\ boot = {} /\ boot' = {} /\ lenses' = lenses /\ shadowed' = shadowed /\ strayed \subseteq strayed'
           /\ \A d \in Calls \ {c} : call'[d] = call[d]
           /\ \A v \in Uids \ {call[c].uid} :
                /\ rows'[v] = rows[v] /\ files'[v] = files[v]
                /\ v \in born' <=> v \in born
                /\ v \in unrecorded' <=> v \in unrecorded
<1>0. DataTyped /\ CallsTyped /\ EarlyInv
  BY TypeParts DEF TypeInv
<1>1. call[c].op # "none" /\ \E r : Becomes(c, r)
  BY StepTyped
<1>2. boot = {}
  BY <1>0, <1>1 DEF EarlyInv, Idle
<1>3. \A d \in Calls \ {c} : call'[d] = call[d]
  BY <1>0, <1>1 DEF Becomes, CallsTyped
<1>4. strayed \subseteq strayed'
  BY DEF AnyStep, Reserve, Scan, Check, Add, GetBack, Record, Remove, Insert, InitStore, PersistOrigin,
         RemoveFile, RemoveRow, RenameRow, Activate, Rearchive, Unrename, DeleteRow, Unlink, Cas, Swap,
         Revert, TakeBack, Return, Go, Become
<1>5. boot' = boot /\ lenses' = lenses /\ shadowed' = shadowed
  BY DEF AnyStep, Reserve, Scan, Check, Add, GetBack, Record, Remove, Insert, InitStore, PersistOrigin,
         RemoveFile, RemoveRow, RenameRow, Activate, Rearchive, Unrename, DeleteRow, Unlink, Cas, Swap,
         Revert, registry, maps
<1>6. \/ rows' = rows
      \/ \E r : rows' = [rows EXCEPT ![call[c].uid] = r]
  BY DEF AnyStep, Reserve, Scan, Check, Add, GetBack, Record, Remove, Insert, InitStore, PersistOrigin,
         RemoveFile, RemoveRow, RenameRow, Activate, Rearchive, Unrename, DeleteRow, Unlink, Cas, Swap,
         Revert, registry, RecordRepoID, SetState
<1>7. \/ files' = files
      \/ \E f : files' = [files EXCEPT ![call[c].uid] = f]
  BY DEF AnyStep, Reserve, Scan, Check, Add, GetBack, Record, Remove, Insert, InitStore, PersistOrigin,
         RemoveFile, RemoveRow, RenameRow, Activate, Rearchive, Unrename, DeleteRow, Unlink, Cas, Swap, Revert
<1>8. (born' = born \/ born' = born \cup {call[c].uid})
      /\ (unrecorded' = unrecorded \/ unrecorded' = unrecorded \cup {call[c].uid}
                                   \/ unrecorded' = unrecorded \ {call[c].uid})
  BY DEF AnyStep, Reserve, Scan, Check, Add, GetBack, Record, Remove, Insert, InitStore, PersistOrigin,
         RemoveFile, RemoveRow, RenameRow, Activate, Rearchive, Unrename, DeleteRow, Unlink, Cas, Swap, Revert
<1>9. \A v \in Uids \ {call[c].uid} : rows'[v] = rows[v] /\ files'[v] = files[v]
  BY <1>0, <1>6, <1>7 DEF DataTyped
<1>10. QED  BY <1>2, <1>3, <1>4, <1>5, <1>8, <1>9

(* Nothing else is served after it.                                        *)
LEMMA StepServes ==
    ASSUME TypeInv, NEW c \in Calls, AnyStep(c), NEW n \in Names, NEW v \in Uids, Served(n, v)'
    PROVE  \/ \E m \in Names : Served(m, v)
           \/ Reaches(c, "add") /\ v = call[c].uid
<1>0. DataTyped /\ CallsTyped /\ Len(opened) \in Nat
  BY TypeParts DEF TypeInv, TypeOK
<1>1. call[c].uid \in Uids /\ (call[c].op \in Reserving => call[c].name \in Names)
      /\ Stage(call[c].op, call[c].pc)
  BY <1>0, StepTyped, CallAt
<1>2. CASE Add(c)
  <2>1. CASE files[call[c].uid] # NoFile /\ Serve(call[c].uid, call[c].name, Len(opened) + 1)
    <3>1. call[c].name \in Names
      BY <1>1, <1>2 DEF Add, Reaches, Stage, CreateSteps, RestoreSteps, PurgeSteps, RenameSteps, Reserving
    <3>2. /\ \A i \in 1..Len(opened) : opened'[i] = opened[i]
          /\ opened'[Len(opened) + 1].uid = call[c].uid
      <4>1. opened'[Len(opened) + 1] = [uid |-> call[c].uid, kb |-> files[call[c].uid]]
        BY <1>0, <1>1, <2>1, <3>1, ServeTyped
      <4>2. QED  BY <4>1, <1>0, <1>1, <2>1, <3>1, ServeTyped
    <3>3. repos' = [repos EXCEPT ![call[c].name] = Len(opened) + 1]
      BY <2>1 DEF Serve
    <3>4. CASE n = call[c].name
      BY <3>2, <3>3, <3>4, <1>0, <1>2 DEF Served, DataTyped, Add
    <3>5. CASE n # call[c].name
      <4>1. repos'[n] = repos[n] /\ (repos[n] # 0 => repos[n] \in 1..Len(opened))
        BY <3>3, <3>5, <1>0, InstanceAt DEF DataTyped
      <4>2. QED  BY <3>2, <4>1 DEF Served
    <3>6. QED  BY <3>4, <3>5
  <2>2. CASE UNCHANGED <<opened, repos, byUID>>
    BY <2>2 DEF Served
  <2>3. QED  BY <1>2, <2>1, <2>2 DEF Add
<1>3. CASE Swap(c)
  <2>0. opened' = opened
    BY <1>3 DEF Swap
  <2>1. call[c].name \in Names /\ call[c].was \in Names
    BY <1>0, <1>3, CallAt DEF Swap, At, Reserving
  <2>2. CASE repos' = repos
    BY <2>0, <2>2 DEF Served
  <2>3. CASE /\ repos[call[c].was] = call[c].inst
             /\ repos' = [repos EXCEPT ![call[c].name] = call[c].inst, ![call[c].was] = 0]
    <3>1. repos'[n] = repos[n] \/ repos'[n] = 0 \/ (n = call[c].name /\ repos'[n] = repos[call[c].was])
      BY <2>3, <2>1, <1>0 DEF DataTyped
    <3>2. QED  BY <2>0, <2>1, <3>1 DEF Served
  <2>4. QED  BY <1>3, <2>2, <2>3 DEF Swap
<1>4. CASE Remove(c)
  <2>1. opened' = opened /\ (repos'[n] = repos[n] \/ repos'[n] = 0)
    BY <1>4, <1>0 DEF Remove, DataTyped
  <2>2. QED  BY <2>1 DEF Served
<1>5. CASE \/ Reserve(c) \/ Scan(c) \/ Check(c) \/ GetBack(c) \/ Record(c)
           \/ Insert(c) \/ InitStore(c) \/ PersistOrigin(c) \/ RemoveFile(c) \/ RemoveRow(c)
           \/ RenameRow(c) \/ Activate(c) \/ Rearchive(c) \/ Unrename(c)
           \/ DeleteRow(c) \/ Unlink(c) \/ Cas(c) \/ Revert(c)
  <2>1. opened' = opened /\ repos' = repos
    BY <1>5 DEF Reserve, Scan, Check, GetBack, Record, Insert, InitStore, PersistOrigin, RemoveFile, RemoveRow,
       RenameRow, Activate, Rearchive, Unrename, DeleteRow, Unlink, Cas, Revert, maps
  <2>2. QED  BY <2>1 DEF Served
<1>6. QED  BY <1>2, <1>3, <1>4, <1>5 DEF AnyStep

LEMMA EarlyStep ==
    ASSUME TypeInv, NEW c \in Calls, AnyStep(c)
    PROVE  EarlyInv'
<1>0. DataTyped /\ CallsTyped /\ EarlyInv /\ Len(opened) \in Nat
  BY TypeParts DEF TypeInv, TypeOK
<1>1. call[c].uid \in Uids /\ call[c].op # "none" /\ CallsTyped'
  BY StepTyped
<1>2. PICK r : Becomes(c, r)
  BY StepTyped
<1>3. \A d \in Calls : call'[d].uid \in {call[d].uid, NoUid}
  BY <1>0, <1>2 DEF Becomes, SameCall, CallsTyped, Idle
<1>4. ASSUME NEW d \in Calls, call'[d].op = "create", call'[d].pc \in Early \cup Making
      PROVE  Fledgling(d, call[d].uid)'
  <2>1. call'[d].uid \in Uids
    BY <1>1, <1>4, CallAt DEF CallsTyped, IsCall, CallSet
  <2>2. call'[d].uid = call[d].uid /\ call[d].uid \in Uids
    BY <1>3, <2>1, NoValueAssumption
  <2>3. ASSUME Fledgling(d, call[d].uid),
               IF call'[d].pc \in Early THEN ~Row(call[d].uid)' ELSE Active(call[d].uid)',
               ~(Reaches(c, "add") /\ c = d)
        PROVE  Fledgling(d, call[d].uid)'
    <3>1. \A e \in Calls \ {d} : call'[e].uid # call[d].uid
      BY <1>3, <2>2, <2>3, NoValueAssumption DEF Fledgling
    <3>2. ASSUME NEW n \in Names, Served(n, call[d].uid)' PROVE FALSE
      <4>1. Reaches(c, "add") /\ call[d].uid = call[c].uid
        BY <3>2, <2>2, <2>3, StepServes DEF Fledgling
      <4>2. c = d
        BY <4>1, <2>3 DEF Fledgling
      <4>3. QED  BY <4>1, <4>2, <2>3
    <3>3. QED  BY <2>2, <2>3, <3>1, <3>2 DEF Fledgling
  <2>4. CASE d # c
    <3>1. call'[d] = call[d]
      BY <2>4, StepLocal
    <3>2. Fledgling(d, call[d].uid)
      BY <1>0, <1>4, <3>1 DEF EarlyInv
    <3>3. rows'[call[d].uid] = rows[call[d].uid]
      BY <2>2, <2>4, <3>2, StepLocal DEF Fledgling
    <3>4. QED  BY <2>3, <2>4, <3>1, <3>2, <3>3 DEF Fledgling, Row, Active
  <2>5. CASE d = c
    <3>1. r.op = "create" /\ r.pc \in Early \cup Making /\ call'[c] = r /\ call[c].op = "create"
      BY <1>0, <1>2, <1>4, <2>5 DEF Becomes, SameCall, CallsTyped, Idle
    <3>2. CASE Scan(c) \/ Check(c)
      BY <3>1, <3>2, <2>3, <2>5, <1>0 DEF Scan, Check, Reaches, EarlyInv, Early, Making, Fledgling, Go, Become,
         Return, Idle,
         Row, Active, registry, CallsTyped, IsCall, CallSet
    <3>3. CASE Insert(c) \/ InitStore(c) \/ PersistOrigin(c)
      <4>1. Fledgling(c, call[c].uid)
        BY <3>1, <3>3, <1>0 DEF Insert, InitStore, PersistOrigin, At, EarlyInv, Early, Making
      <4>2. call[c] \in CallSet /\ DOMAIN call = Calls
        BY <1>0, CallAt DEF CallsTyped
      <4>3. CASE Insert(c)
        <5>1. call' = [call EXCEPT ![c] = Idle] \/ (call'[c].pc = "init" /\ Active(call[c].uid)')
          <6>1. CASE call' = [call EXCEPT ![c] = Idle]
            BY <6>1
          <6>2. CASE /\ rows' = [rows EXCEPT ![call[c].uid] =
                                    [NoRow EXCEPT !.state = "active", !.name = call[c].name]]
                     /\ call' = [call EXCEPT ![c] = [call[c] EXCEPT !.pc = "init"]]
            <7>1. rows'[call[c].uid].state = "active"
              BY <6>2, <1>0, <1>1 DEF DataTyped, NoRow
            <7>2. call'[c].pc = "init"
              BY <6>2, <4>2 DEF CallSet
            <7>3. QED  BY <7>1, <7>2, <2>2, <2>5 DEF Active
          <6>3. QED  BY <4>3, <6>1, <6>2 DEF Insert, Go, Become, Return
        <5>2. call'[c].pc = "init" /\ Active(call[c].uid)'
          BY <5>1, <3>1, <4>2 DEF Idle
        <5>3. QED  BY <5>2, <4>1, <4>3, <2>3, <2>5 DEF Early, Insert, At, Reaches
      <4>4. CASE InitStore(c)
        <5>1. call'[c].pc \in {"add", "origin", "unfile"} /\ rows' = rows
          BY <4>2, <4>4 DEF InitStore, Go, Become, CallSet, registry
        <5>2. Active(call[c].uid)
          BY <4>1, <4>4 DEF InitStore, At, Fledgling, Early
        <5>3. Active(call[c].uid)'
          BY <5>1, <5>2, <2>2, <2>5 DEF Active
        <5>4. QED  BY <5>1, <5>3, <4>1, <4>4, <2>3, <2>5 DEF Early, InitStore, At, Reaches
      <4>5. CASE PersistOrigin(c)
        <5>1. call'[c].pc \in {"add", "unfile"}
          BY <4>2, <4>5 DEF PersistOrigin, Go, Become, CallSet
        <5>2. Active(call[c].uid)
          BY <4>1, <4>5 DEF PersistOrigin, At, Fledgling, Early
        <5>3. Active(call[c].uid)'
          <6>1. rows' = rows \/ rows' = [rows EXCEPT ![call[c].uid].origin = call[c].origin]
            BY <4>5 DEF PersistOrigin
          <6>2. rows[call[c].uid] \in RowSet /\ rows[call[c].uid].state # "none"
            BY <5>2, <1>0, <1>1 DEF Active, DataTyped
          <6>3. rows'[call[c].uid].state = rows[call[c].uid].state
            <7>1. \A row \in RowSet : row.state # "none" => [row EXCEPT !.origin = call[c].origin].state = row.state
              BY RowFields
            <7>2. QED  BY <6>1, <6>2, <7>1, <1>0, <1>1 DEF DataTyped
          <6>4. QED  BY <5>2, <6>3, <2>2, <2>5 DEF Active
        <5>4. QED  BY <5>1, <5>3, <4>1, <4>5, <2>3, <2>5 DEF Early, PersistOrigin, At, Reaches
      <4>6. QED  BY <3>3, <4>3, <4>4, <4>5
    <3>4. CASE \/ Reserve(c) \/ Add(c) \/ GetBack(c) \/ Record(c) \/ Remove(c) \/ RemoveFile(c) \/ RemoveRow(c)
               \/ RenameRow(c) \/ Activate(c) \/ Rearchive(c) \/ Unrename(c)
               \/ DeleteRow(c) \/ Unlink(c) \/ Cas(c) \/ Swap(c) \/ Revert(c)
      <4>1. call[c] \in CallSet /\ DOMAIN call = Calls /\ Stage(call[c].op, call[c].pc)
        BY <1>0, CallAt DEF CallsTyped
      <4>2. call[c].pc # "reserve"
        BY <4>1, <3>1 DEF Stage, CreateSteps
      <4>3. CASE Add(c) \/ GetBack(c) \/ Record(c) \/ Remove(c) \/ RemoveFile(c) \/ RemoveRow(c)
        <5>1. call'[c].pc \notin Early \cup Making
          <6>1. ASSUME NEW p, Go(c, p) PROVE call'[c].pc = p
            BY <6>1, <4>1 DEF Go, Become, CallSet
          <6>2. ~Return(c)
            BY <3>1, <4>1 DEF Return, Become, Idle, Early, Making
          <6>3. CASE Add(c)
            BY <3>1, <6>1, <6>3 DEF Add, Early, Making
          <6>4. CASE GetBack(c)
            BY <4>1, <6>2, <6>4 DEF GetBack, Become, CallSet, Early, Making
          <6>5. CASE Record(c) \/ Remove(c) \/ RemoveFile(c) \/ RemoveRow(c)
            BY <3>1, <6>1, <6>2, <6>5 DEF Record, Remove, RemoveFile, RemoveRow, Early, Making
          <6>6. QED  BY <4>3, <6>3, <6>4, <6>5
        <5>2. QED  BY <5>1, <3>1
      <4>4. QED  BY <3>1, <3>4, <4>2, <4>3 DEF Reserve, RenameRow, Activate, Rearchive, Unrename, DeleteRow,
               Unlink, Cas, Swap, Revert, At, Reaches
    <3>5. QED  BY <3>2, <3>3, <3>4 DEF AnyStep
  <2>6. QED  BY <2>4, <2>5
<1>5. QED  BY <1>4, StepLocal DEF EarlyInv

AnyStart(c) == StartCreate(c) \/ StartRestore(c) \/ StartPurge(c) \/ StartRename(c)

(* A call starts on a manager that has come up, as r.                      *)
LEMMA StartIs ==
    ASSUME TypeInv, NEW c \in Calls, AnyStart(c)
    PROVE  /\ boot = {} /\ boot' = {} /\ call[c].op = "none" /\ call[c].uid = NoUid
           /\ UNCHANGED <<registry, files, maps, born, shadowed, unrecorded>>
           /\ strayed' = strayed \cup Strays(call')
           /\ \E r : /\ call' = [call EXCEPT ![c] = r] /\ r.uid \in Uids
                     /\ \/ /\ r.op = "create" /\ r.pc \in {"scan", "check"} /\ Fresh(r.uid)
                           /\ ~NameReserved(c, r.name)
                        \/ /\ r.op = "restore" /\ r.pc = "reserve" /\ rows[r.uid].state = "archived"
                           /\ r.was = rows[r.uid].name
                        \/ /\ r.op = "purge" /\ r.pc = "delete" /\ rows[r.uid].state = "archived"
                           /\ RefsRepo(r.uid) = {}
                        \/ /\ r.op = "rename" /\ r.pc = "check" /\ r.was \in Names /\ repos[r.was] = r.inst
                           /\ r.inst # 0 /\ opened[r.inst].uid = r.uid /\ ~NameReserved(c, r.name)
                           /\ r.name # r.was
<1>0. DataTyped /\ CallsTyped
  BY TypeParts DEF TypeInv
<1>1. UNCHANGED <<registry, files, maps, boot, born, shadowed, unrecorded>>
  BY DEF AnyStart, StartCreate, StartRestore, StartPurge, StartRename
<1>2. ASSUME NEW r, Begin(c, r)
      PROVE  /\ boot = {} /\ call[c].op = "none" /\ call[c].uid = NoUid
             /\ strayed' = strayed \cup Strays(call') /\ call' = [call EXCEPT ![c] = r]
  <2>1. boot = {} /\ call[c].pc = "idle" /\ strayed' = strayed \cup Strays(call') /\ call' = [call EXCEPT ![c] = r]
    BY <1>2 DEF Begin, Become, Reaches
  <2>2. call[c].op = "none" /\ call[c].uid = NoUid
    BY <2>1, <1>0 DEF CallsTyped, IsCall, Stage, CreateSteps, RestoreSteps, PurgeSteps, RenameSteps
  <2>3. QED  BY <2>1, <2>2
<1> DEFINE Starts(r) == /\ Begin(c, r) /\ r.uid \in Uids
                        /\ \/ /\ r.op = "create" /\ r.pc \in {"scan", "check"} /\ Fresh(r.uid)
                              /\ ~NameReserved(c, r.name)
                           \/ /\ r.op = "restore" /\ r.pc = "reserve" /\ rows[r.uid].state = "archived"
                              /\ r.was = rows[r.uid].name
                           \/ /\ r.op = "purge" /\ r.pc = "delete" /\ rows[r.uid].state = "archived"
                              /\ RefsRepo(r.uid) = {}
                           \/ /\ r.op = "rename" /\ r.pc = "check" /\ r.was \in Names /\ repos[r.was] = r.inst
                              /\ r.inst # 0 /\ opened[r.inst].uid = r.uid /\ ~NameReserved(c, r.name)
                              /\ r.name # r.was
<1>3. CASE StartCreate(c)
  <2>1. PICK n \in Names, o \in Origins \cup {NoOrigin}, u \in Uids :
          /\ Fresh(u) /\ ~NameReserved(c, n)
          /\ Begin(c, [Idle EXCEPT !.op = "create", !.uid = u, !.name = n, !.origin = o,
                                   !.pc = IF o = NoOrigin THEN "check" ELSE "scan"])
    BY <1>3 DEF StartCreate
  <2>2. Starts([Idle EXCEPT !.op = "create", !.uid = u, !.name = n, !.origin = o,
                            !.pc = IF o = NoOrigin THEN "check" ELSE "scan"])
    BY <2>1 DEF Idle
  <2> HIDE DEF Starts
  <2>3. \E r : Starts(r)
    BY <2>2
  <2>4. QED  BY <1>1, <1>2, <2>3 DEF Starts
<1>4. CASE StartRestore(c)
  <2>1. PICK u \in Uids, n \in Names :
          /\ rows[u].state = "archived"
          /\ Begin(c, [Idle EXCEPT !.op = "restore", !.pc = "reserve", !.uid = u, !.name = n,
                                   !.was = rows[u].name, !.origin = rows[u].origin])
    BY <1>4 DEF StartRestore
  <2>2. Starts([Idle EXCEPT !.op = "restore", !.pc = "reserve", !.uid = u, !.name = n,
                            !.was = rows[u].name, !.origin = rows[u].origin])
    BY <2>1 DEF Idle
  <2> HIDE DEF Starts
  <2>3. \E r : Starts(r)
    BY <2>2
  <2>4. QED  BY <1>1, <1>2, <2>3 DEF Starts
<1>5. CASE StartPurge(c)
  <2>1. PICK u \in Uids : /\ rows[u].state = "archived" /\ RefsRepo(u) = {}
                          /\ Begin(c, [Idle EXCEPT !.op = "purge", !.pc = "delete", !.uid = u])
    BY <1>5 DEF StartPurge
  <2>2. Starts([Idle EXCEPT !.op = "purge", !.pc = "delete", !.uid = u])
    BY <2>1 DEF Idle
  <2> HIDE DEF Starts
  <2>3. \E r : Starts(r)
    BY <2>2
  <2>4. QED  BY <1>1, <1>2, <2>3 DEF Starts
<1>6. CASE StartRename(c)
  <2>1. PICK was \in Names, n \in Names :
          /\ repos[was] # 0 /\ n # was /\ ~NameReserved(c, n)
          /\ Begin(c, [Idle EXCEPT !.op = "rename", !.pc = "check", !.name = n, !.was = was,
                                   !.uid = opened[repos[was]].uid, !.inst = repos[was]])
    BY <1>6 DEF StartRename
  <2>2. opened[repos[was]].uid \in Uids
    BY <2>1, <1>0, InstanceAt
  <2>3. Starts([Idle EXCEPT !.op = "rename", !.pc = "check", !.name = n, !.was = was,
                            !.uid = opened[repos[was]].uid, !.inst = repos[was]])
    BY <2>1, <2>2 DEF Idle
  <2> HIDE DEF Starts
  <2>4. \E r : Starts(r)
    BY <2>3
  <2>5. QED  BY <1>1, <1>2, <2>4 DEF Starts
<1>7. QED  BY <1>3, <1>4, <1>5, <1>6 DEF AnyStart

LEMMA EarlyStart ==
    ASSUME TypeInv, NEW c \in Calls, AnyStart(c)
    PROVE  EarlyInv'
<1>0. DataTyped /\ CallsTyped /\ EarlyInv
  BY TypeParts DEF TypeInv
<1>1. boot' = {} /\ UNCHANGED <<rows, opened, repos>>
  BY StartIs DEF registry, maps
<1>2. PICK r : /\ call' = [call EXCEPT ![c] = r] /\ r.uid \in Uids
               /\ \/ r.op = "create" /\ r.pc \in {"scan", "check"} /\ Fresh(r.uid)
                  \/ r.op \in {"restore", "purge"} /\ rows[r.uid].state = "archived"
                  \/ r.op = "rename" /\ \E n \in Names : Served(n, r.uid)
  BY StartIs DEF Served
<1>3. call'[c] = r /\ \A d \in Calls \ {c} : call'[d] = call[d]
  BY <1>0, <1>2 DEF CallsTyped
<1>4. ASSUME NEW d \in Calls, call'[d].op = "create", call'[d].pc \in Early \cup Making
      PROVE  Fledgling(d, call[d].uid)'
  <2>1. CASE d = c
    <3>1. Fresh(r.uid) /\ r.pc \in Early
      BY <1>2, <1>3, <1>4, <2>1 DEF Early
    <3>2. QED  BY <1>1, <1>3, <2>1, <3>1 DEF Fresh, Fledgling, Row, Served
  <2>2. CASE d # c
    <3>1. Fledgling(d, call[d].uid) /\ call'[d] = call[d]
      BY <1>0, <1>3, <1>4, <2>2 DEF EarlyInv
    <3>2. r.uid # call[d].uid
      BY <1>2, <3>1 DEF Fledgling, Fresh, Row, Active
    <3>3. QED  BY <1>1, <1>3, <3>1, <3>2 DEF Fledgling, Row, Active, Served
  <2>3. QED  BY <2>1, <2>2
<1>5. QED  BY <1>1, <1>4 DEF EarlyInv

AnyLens ==
    \/ \E n \in Names : CreateLens(n) \/ UpdateLens(n) \/ DeleteLens(n)
    \/ \E n, new \in Names : RenameLens(n, new)

LEMMA LensTyped ==
    ASSUME TypeInv, AnyLens
    PROVE  /\ CallsTyped' /\ DataTyped' /\ EarlyInv'
           /\ boot = {} /\ UNCHANGED <<rows, files, maps, boot, call, born, unrecorded>>
           /\ strayed \subseteq strayed' /\ shadowed \subseteq shadowed'
<1>0. DataTyped /\ CallsTyped /\ EarlyInv /\ budget \in [Events -> Nat]
  BY TypeParts DEF TypeInv, TypeOK
<1>1. boot = {} /\ budget' \in [Events -> Nat]
  BY <1>0, BudgetTyped, BudgetIs DEF AnyLens, CreateLens, UpdateLens, DeleteLens, RenameLens, LensStep
<1>2. UNCHANGED <<rows, files, maps, boot, call, born, unrecorded>>
  BY DEF AnyLens, CreateLens, UpdateLens, DeleteLens, RenameLens, ghosts
<1>3. lenses' \in [Names -> SUBSET Uids]
  <2>1. Mounts \subseteq SUBSET Uids
    BY MountsAssumption
  <2>2. ASSUME NEW n \in Names, CreateLens(n) \/ UpdateLens(n) \/ DeleteLens(n)
        PROVE  lenses' \in [Names -> SUBSET Uids]
    <3>1. lenses' = [lenses EXCEPT ![n] = {}] \/ \E members \in Mounts : lenses' = [lenses EXCEPT ![n] = members]
      BY <2>2 DEF CreateLens, UpdateLens, DeleteLens
    <3>2. QED  BY <2>1, <3>1, <1>0 DEF DataTyped
  <2>3. ASSUME NEW n \in Names, NEW new \in Names, RenameLens(n, new)
        PROVE  lenses' \in [Names -> SUBSET Uids]
    BY <2>3, <1>0 DEF RenameLens, DataTyped
  <2>4. QED  BY <2>2, <2>3 DEF AnyLens
<1>4. /\ strayed \subseteq strayed' /\ shadowed \subseteq shadowed' /\ shadowed' \subseteq Names
      /\ \A u \in strayed' : u \in strayed \/ u \in Uids
  <2>1. Mounts \subseteq SUBSET Uids
    BY MountsAssumption
  <2>2. ASSUME NEW n \in Names, CreateLens(n)
        PROVE  /\ strayed \subseteq strayed' /\ shadowed \subseteq shadowed' /\ shadowed' \subseteq Names
               /\ \A u \in strayed' : u \in strayed \/ u \in Uids
    BY <2>1, <2>2, <1>0 DEF CreateLens, Shadows, DataTyped
  <2>3. ASSUME NEW n \in Names, UpdateLens(n)
        PROVE  /\ strayed \subseteq strayed' /\ shadowed \subseteq shadowed' /\ shadowed' \subseteq Names
               /\ \A u \in strayed' : u \in strayed \/ u \in Uids
    BY <2>1, <2>3, <1>0 DEF UpdateLens, DataTyped
  <2>4. ASSUME NEW n \in Names, DeleteLens(n) \/ \E new \in Names : RenameLens(n, new)
        PROVE  strayed' = strayed /\ shadowed' = shadowed
    BY <2>4 DEF DeleteLens, RenameLens, ghosts
  <2>5. QED  BY <2>2, <2>3, <2>4, <1>0 DEF AnyLens, DataTyped
<1>5. CallsTyped'
  BY <1>0, <1>2, <1>4 DEF CallsTyped, maps
<1>6. DataTyped'
  BY <1>0, <1>1, <1>2, <1>3, <1>4 DEF DataTyped, maps
<1>7. EarlyInv'
  BY <1>0, <1>2 DEF EarlyInv, Fledgling, Served, Row, Active, maps
<1>8. QED  BY <1>1, <1>2, <1>4, <1>5, <1>6, <1>7

LEMMA ArchiveIs ==
    ASSUME TypeInv, NEW n \in Names, Archive(n)
    PROVE  LET u == opened[repos[n]].uid
           IN  /\ boot = {} /\ repos[n] # 0 /\ repos[n] \in 1..Len(opened)
               /\ u \in Uids /\ Row(u) /\ RefsRepo(u) = {}
               /\ rows' = [rows EXCEPT ![u].state = "archived"]
               /\ rows'[u].state = "archived" /\ \A v \in Uids \ {u} : rows'[v] = rows[v]
               /\ repos' = [repos EXCEPT ![n] = 0] /\ byUID' = [byUID EXCEPT ![u] = 0]
               /\ unavailable' = unavailable \ {u}
               /\ UNCHANGED <<lenses, files, opened, boot, call, ghosts>>
               /\ CallsTyped' /\ DataTyped' /\ EarlyInv'
<1> DEFINE u == opened[repos[n]].uid
<1>0. DataTyped /\ CallsTyped /\ EarlyInv /\ budget \in [Events -> Nat] /\ Len(opened) \in Nat
  BY TypeParts DEF TypeInv, TypeOK
<1>1. boot = {} /\ repos[n] # 0 /\ repos[n] \in 1..Len(opened) /\ u \in Uids
  BY <1>0, InstanceAt DEF Archive
<1>2. /\ Row(u) /\ RefsRepo(u) = {}
      /\ rows' = [rows EXCEPT ![u].state = "archived"]
      /\ repos' = [repos EXCEPT ![n] = 0] /\ byUID' = [byUID EXCEPT ![u] = 0]
      /\ unavailable' = unavailable \ {u}
      /\ UNCHANGED <<lenses, files, opened, boot, call, ghosts>> /\ Spend("call")
  BY DEF Archive, SetState, NotMounted
<1> HIDE DEF u
<1>3. rows'[u].state = "archived" /\ \A v \in Uids \ {u} : rows'[v] = rows[v]
  <2>1. rows[u] \in RowSet /\ rows[u].state # "none"
    BY <1>0, <1>1, <1>2 DEF DataTyped, Row
  <2>2. \A row \in RowSet : row.state # "none" => [row EXCEPT !.state = "archived"].state = "archived"
    BY RowFields
  <2>3. QED  BY <1>0, <1>1, <1>2, <2>1, <2>2 DEF DataTyped
<1>4. CallsTyped'
  BY <1>0, <1>2 DEF CallsTyped, ghosts
<1>5. DataTyped'
  <2>1. rows' \in [Uids -> RowSet]
    BY <1>0, <1>1, <1>2, RowSame
  <2>2. budget' \in [Events -> Nat]
    BY <1>0, <1>2, BudgetTyped, BudgetIs
  <2>3. repos' \in [Names -> 0..Len(opened)] /\ byUID' \in [Uids -> 0..Len(opened)]
    <3>1. 0 \in 0..Len(opened)
      BY <1>0
    <3>2. QED  BY <3>1, <1>0, <1>2 DEF DataTyped
  <2>4. QED  BY <2>1, <2>2, <2>3, <1>0, <1>2 DEF DataTyped, ghosts
<1>6. EarlyInv'
  <2>1. ASSUME NEW d \in Calls, call[d].op = "create", call[d].pc \in Early \cup Making
        PROVE  Fledgling(d, call[d].uid)'
    <3>1. Fledgling(d, call[d].uid) /\ Served(n, u) /\ call' = call
      BY <1>0, <1>1, <1>2, <2>1 DEF EarlyInv, Served, u
    <3>2. call[d].uid # u /\ call[d].uid \in Uids
      BY <3>1, <2>1, <1>0, CallAt DEF Fledgling
    <3>3. rows'[call[d].uid] = rows[call[d].uid]
      BY <1>3, <3>2
    <3>4. \A m \in Names : Served(m, call[d].uid)' => Served(m, call[d].uid)
      BY <1>2, <3>1, <1>0 DEF Served, DataTyped
    <3>5. QED  BY <3>1, <3>3, <3>4 DEF Fledgling, Row, Active
  <2>2. QED  BY <2>1, <1>1, <1>2 DEF EarlyInv
<1>7. QED  BY <1>1, <1>2, <1>3, <1>4, <1>5, <1>6 DEF u

LEMMA CrashIs ==
    ASSUME TypeInv, Crash
    PROVE  /\ UNCHANGED <<registry, files, ghosts>>
           /\ \A c \in Calls : call'[c] = Idle
           /\ \A n \in Names, u \in Uids : ~Served(n, u)'
           /\ \A n \in Names : repos'[n] = 0
           /\ \A u \in Uids : byUID'[u] = 0
           /\ unavailable' = {} /\ boot' = {u \in Uids : Active(u)}
           /\ CallsTyped' /\ DataTyped' /\ EarlyInv'
<1>0. DataTyped /\ CallsTyped /\ EarlyInv /\ budget \in [Events -> Nat]
  BY TypeParts DEF TypeInv, TypeOK
<1>1. /\ UNCHANGED <<registry, files, ghosts>> /\ Spend("fault")
      /\ call' = [c \in Calls |-> Idle] /\ opened' = <<>> /\ repos' = [n \in Names |-> 0]
      /\ byUID' = [u \in Uids |-> 0] /\ unavailable' = {} /\ boot' = {u \in Uids : Active(u)}
  BY DEF Crash
<1>2. \A n \in Names, u \in Uids : ~Served(n, u)'
  BY <1>1 DEF Served
<1>3. CallsTyped'
  <2>1. Len(opened') \in Nat
    BY <1>1
  <2>2. QED  BY <2>1, <1>0, <1>1, IdleTyped DEF CallsTyped, ghosts
<1>4. DataTyped'
  <2>1. budget' \in [Events -> Nat]
    BY <1>0, <1>1, BudgetTyped, BudgetIs
  <2>2. opened' \in Seq([uid : Uids, kb : Kbs]) /\ Len(opened') = 0
    BY <1>1
  <2>3. QED  BY <2>1, <2>2, <1>0, <1>1 DEF DataTyped, registry, ghosts
<1>5. EarlyInv'
  BY <1>1 DEF EarlyInv, Idle, Active, registry
<1>6. QED  BY <1>1, <1>2, <1>3, <1>4, <1>5

(* What Start does with a row: put it aside, or serve it, with or without  *)
(* writing down its identity.                                              *)
LEMMA OpenIs ==
    ASSUME TypeInv, NEW u \in Uids, OpenRegistered(u)
    PROVE  /\ u \in boot /\ boot' = boot \ {u} /\ Active(u) /\ \A c \in Calls : call[c] = Idle
           /\ UNCHANGED <<lenses, files, call, born, strayed, shadowed>>
           /\ \A v \in Uids : /\ rows'[v].state = rows[v].state /\ rows'[v].name = rows[v].name
                              /\ v # u => rows'[v] = rows[v]
           /\ \/ unavailable' = unavailable \cup {u} /\ UNCHANGED <<rows, opened, repos, byUID, unrecorded>>
              \/ /\ unavailable' = unavailable /\ files[u] # NoFile
                 /\ Serve(u, rows[u].name, Len(opened) + 1)
                 /\ \/ /\ ~KbTaken(u, files[u]) /\ rows'[u].kb = files[u]
                       /\ unrecorded' = unrecorded \ {u}
                    \/ rows' = rows /\ unrecorded' = unrecorded \cup {u}
           /\ rows[u].name \in Names
           /\ CallsTyped' /\ DataTyped' /\ EarlyInv'
<1>0. DataTyped /\ CallsTyped /\ EarlyInv /\ budget \in [Events -> Nat] /\ Len(opened) \in Nat
  BY TypeParts DEF TypeInv, TypeOK
<1>1. u \in boot /\ boot' = boot \ {u} /\ UNCHANGED <<lenses, files, call, born, strayed, shadowed>>
  BY DEF OpenRegistered
<1>2. Active(u) /\ Row(u) /\ \A c \in Calls : call[c] = Idle
  BY <1>0, <1>1 DEF EarlyInv, Active, Row
<1>3. rows[u].name \in Names /\ rows[u] \in RowSet
  BY <1>0, <1>2, RowFields DEF DataTyped, Active
<1>4. budget' \in [Events -> Nat]
  BY <1>0, BudgetTyped, BudgetIs DEF OpenRegistered
<1>5. CASE unavailable' = MarkUnavailable(u) /\ UNCHANGED <<rows, opened, repos, byUID, unrecorded>>
  <2>1. CallsTyped'
    BY <1>0, <1>1, <1>5 DEF CallsTyped
  <2>2. DataTyped'
    BY <1>0, <1>1, <1>4, <1>5 DEF DataTyped, MarkUnavailable
  <2>3. EarlyInv'
    BY <1>0, <1>1, <1>2, <1>5 DEF EarlyInv, Idle, Active
  <2>4. QED  BY <2>1, <2>2, <2>3, <1>1, <1>2, <1>3, <1>5 DEF MarkUnavailable
<1>6. CASE /\ files[u] # NoFile /\ unavailable' = unavailable
           /\ Serve(u, rows[u].name, Len(opened) + 1)
           /\ \/ /\ ~KbTaken(u, files[u]) /\ rows' = RecordRepoID(u, files[u])
                 /\ unrecorded' = unrecorded \ {u}
              \/ rows' = rows /\ unrecorded' = unrecorded \cup {u}
  <2>1. files[u] \in Kbs
    BY <1>0, <1>6 DEF DataTyped
  <2>2. rows' \in [Uids -> RowSet]
    <3>1. [rows EXCEPT ![u].kb = files[u]] \in [Uids -> RowSet]
      BY <1>0, <1>2, <2>1, RowSame
    <3>2. QED  BY <3>1, <1>0, <1>6 DEF RecordRepoID, DataTyped
  <2>3. /\ rows' = rows \/ rows'[u].kb = files[u]
        /\ \A v \in Uids : /\ rows'[v].state = rows[v].state /\ rows'[v].name = rows[v].name
                           /\ v # u => rows'[v] = rows[v]
    <3>1. \A row \in RowSet, k \in Kbs : row.state # "none" =>
              /\ [row EXCEPT !.kb = k].kb = k
              /\ [row EXCEPT !.kb = k].state = row.state
              /\ [row EXCEPT !.kb = k].name = row.name
      BY RowFields
    <3>2. CASE rows' = rows
      BY <3>2
    <3>3. CASE rows' = RecordRepoID(u, files[u])
      <4>1. rows'[u] = [rows[u] EXCEPT !.kb = files[u]] /\ \A v \in Uids \ {u} : rows'[v] = rows[v]
        BY <3>3, <1>0 DEF RecordRepoID, DataTyped
      <4>2. /\ rows'[u].kb = files[u] /\ rows'[u].state = rows[u].state /\ rows'[u].name = rows[u].name
        <5>1. rows[u].state # "none"
          BY <1>2 DEF Active
        <5>2. QED  BY <3>1, <4>1, <5>1, <1>3, <2>1
      <4>3. QED  BY <4>1, <4>2
    <3>4. QED  BY <3>2, <3>3, <1>6
  <2>4. /\ opened' \in Seq([uid : Uids, kb : Kbs]) /\ Len(opened') = Len(opened) + 1
        /\ repos' \in [Names -> 0..Len(opened')] /\ byUID' \in [Uids -> 0..Len(opened')]
    BY <1>0, <1>3, <1>6, ServeTyped
  <2>5. CallsTyped'
    BY <2>4, <1>0, <1>1, <1>2, IdleTyped DEF CallsTyped
  <2>6. DataTyped'
    BY <2>2, <2>4, <1>0, <1>1, <1>4, <1>6 DEF DataTyped
  <2>7. EarlyInv'
    <3>1. \A c \in Calls : call'[c] = Idle /\ call'[c].op # "create"
      BY <1>1, <1>2 DEF Idle
    <3>2. \A v \in boot' : Active(v)'
      <4>1. \A v \in boot : v \in Uids /\ rows[v].state = "active"
        BY <1>0 DEF EarlyInv, Active, DataTyped
      <4>2. QED  BY <4>1, <2>3, <1>1 DEF Active
    <3>3. QED  BY <3>1, <3>2 DEF EarlyInv
  <2>8. ASSUME rows' = RecordRepoID(u, files[u]) PROVE rows'[u].kb = files[u]
    <3>1. rows'[u] = [rows[u] EXCEPT !.kb = files[u]]
      BY <2>8, <1>0 DEF RecordRepoID, DataTyped
    <3>2. \A row \in RowSet, k \in Kbs : row.state # "none" => [row EXCEPT !.kb = k].kb = k
      BY RowFields
    <3>3. QED  BY <3>1, <3>2, <2>1, <1>2, <1>3 DEF Active
  <2>9. QED  BY <2>3, <2>5, <2>6, <2>7, <2>8, <1>1, <1>2, <1>3, <1>6
<1>7. QED  BY <1>5, <1>6 DEF OpenRegistered

LEMMA NextIs ==
    ASSUME Next
    PROVE  \/ \E c \in Calls : AnyStart(c) \/ AnyStep(c)
           \/ \E n \in Names : Archive(n)
           \/ AnyLens
           \/ \E u \in Uids : OpenRegistered(u)
           \/ Crash
BY DEF Next, Step, AnyStart, AnyStep, AnyLens

LEMMA InitTyped == Init => CallsTyped /\ DataTyped /\ EarlyInv
<1> SUFFICES ASSUME Init PROVE CallsTyped /\ DataTyped /\ EarlyInv
  OBVIOUS
<1>1. opened = <<>> /\ Len(opened) = 0 /\ opened \in Seq([uid : Uids, kb : Kbs])
  BY DEF Init
<1>2. CallsTyped
  <2>1. call = [c \in Calls |-> Idle] /\ strayed = {}
    BY DEF Init
  <2>2. QED  BY <2>1, <1>1, IdleTyped DEF CallsTyped
<1>3. DataTyped
  <2>1. rows \in [Uids -> RowSet]
    BY HomesAssumption DEF Init, WellFormed
  <2>2. lenses \in [Names -> SUBSET Uids]
    BY MountsAssumption DEF Init
  <2>3. files \in [Uids -> Kbs \cup {NoFile}]
    <3>1. \A u \in Uids : Row(u) => rows[u].origin \in Origins \cup {NoOrigin}
      BY <2>1, RowFields DEF Row
    <3>2. \A u \in Uids : Row(u) => KbFrom(u, rows[u].origin) \in Kbs
      BY <3>1, BaseOf
    <3>3. files = [u \in Uids |-> IF Row(u) THEN KbFrom(u, rows[u].origin) ELSE NoFile]
      BY DEF Init
    <3>4. QED  BY <3>2, <3>3
  <2>4. budget \in [Events -> Nat]
    BY BudgetAssumption DEF Init
  <2>5. QED  BY <1>1, <2>1, <2>2, <2>3, <2>4 DEF Init, DataTyped
<1>4. EarlyInv
  BY DEF Init, EarlyInv, Idle, Active
<1>5. QED  BY <1>2, <1>3, <1>4

LEMMA TypeNext == TypeInv /\ [Next]_vars => CallsTyped' /\ DataTyped' /\ EarlyInv'
<1> SUFFICES ASSUME TypeInv, [Next]_vars PROVE CallsTyped' /\ DataTyped' /\ EarlyInv'
  OBVIOUS
<1>1. CASE UNCHANGED vars
  <2>1. CallsTyped /\ DataTyped /\ EarlyInv
    BY TypeParts DEF TypeInv
  <2>2. QED  BY <2>1, <1>1 DEF vars, maps, registry, ghosts, CallsTyped, DataTyped, EarlyInv, Fledgling, Served,
       Row, Active
<1>2. ASSUME NEW c \in Calls, AnyStart(c) PROVE CallsTyped' /\ DataTyped' /\ EarlyInv'
  BY <1>2, StartsTyped, EarlyStart DEF AnyStart
<1>3. ASSUME NEW c \in Calls, AnyStep(c) PROVE CallsTyped' /\ DataTyped' /\ EarlyInv'
  BY <1>3, StepTyped, StepData, EarlyStep
<1>4. ASSUME NEW n \in Names, Archive(n) PROVE CallsTyped' /\ DataTyped' /\ EarlyInv'
  BY <1>4, ArchiveIs
<1>5. ASSUME NEW u \in Uids, OpenRegistered(u) PROVE CallsTyped' /\ DataTyped' /\ EarlyInv'
  BY <1>5, OpenIs
<1>6. QED  BY <1>1, <1>2, <1>3, <1>4, <1>5, LensTyped, CrashIs, NextIs

LEMMA TypesHold == Spec => []TypeInv
<1>1. Init => TypeInv
  BY InitTyped, TypeParts DEF TypeInv
<1>2. TypeInv /\ [Next]_vars => TypeInv'
  BY TypeNext DEF TypeInv, TypeOK, CallsTyped, DataTyped
<1>3. QED  BY <1>1, <1>2, PTL DEF Spec

(* Every state of the model is well typed, and a call is at a step of its  *)
(* own operation.                                                          *)
THEOREM TypeCorrect == Spec => []TypeOK
BY TypesHold, PTL DEF TypeInv

-----------------------------------------------------------------------------
(* Names, instances and indexes.                                           *)

LEMMA Typed ==
    ASSUME TypeInv
    PROVE  /\ DataTyped /\ CallsTyped /\ EarlyInv /\ TypeOK /\ Len(opened) \in Nat
           /\ \A c \in Calls :
                /\ call[c].uid \in Uids \cup {NoUid} /\ (call[c].uid = NoUid <=> call[c].op = "none")
                /\ call[c].op \in Reserving => call[c].name \in Names
                /\ call[c].op \in {"restore", "rename"} => call[c].was \in Names
                /\ Stage(call[c].op, call[c].pc)
           /\ NoUid \notin Uids
BY TypeParts, NoValueAssumption DEF TypeInv, TypeOK, IsCall, CallSet

(* A step of c as seen from the other calls.                               *)
LEMMA StepCall ==
    ASSUME TypeInv, NEW c \in Calls, AnyStep(c)
    PROVE  /\ call[c].op # "none" /\ call[c].uid \in Uids
           /\ \A d \in Calls \ {c} : call'[d] = call[d]
           /\ \/ call'[c] = Idle
              \/ /\ call'[c].op = call[c].op /\ call'[c].uid = call[c].uid /\ call'[c].name = call[c].name
                 /\ call'[c].was = call[c].was /\ call'[c].origin = call[c].origin
BY StepTyped, StepLocal, Typed DEF Becomes, SameCall, CallsTyped

LEMMA StepPc ==
    ASSUME TypeInv, NEW c \in Calls
    PROVE  /\ \A p : Go(c, p) => call'[c].pc = p /\ call'[c].op = call[c].op /\ call'[c].uid = call[c].uid
                                 /\ call'[c].name = call[c].name /\ call'[c].inst = call[c].inst
                                 /\ call'[c].was = call[c].was
           /\ Return(c) => call'[c] = Idle
<1>1. DOMAIN call = Calls /\ call[c] \in CallSet
  BY Typed, CallAt DEF CallsTyped
<1>2. QED  BY <1>1 DEF Go, Return, Become, CallSet

LEMMA StaysApart ==
    ASSUME TypeInv, Strays(call) \subseteq strayed, [Next]_vars
    PROVE  Strays(call') \subseteq strayed'
<1>1. ASSUME NEW c \in Calls, AnyStep(c) PROVE Strays(call') \subseteq strayed'
  <2>1. Strays(call') \subseteq Strays(call)
    BY <1>1, StepCall, Typed DEF Strays, Idle
  <2>2. QED  BY <1>1, <2>1, StepLocal
<1>2. ASSUME NEW c \in Calls, AnyStart(c) PROVE Strays(call') \subseteq strayed'
  BY <1>2, StartIs
<1>3. ASSUME call' = call, strayed \subseteq strayed' PROVE Strays(call') \subseteq strayed'
  BY <1>3
<1>4. ASSUME Crash PROVE Strays(call') \subseteq strayed'
  BY <1>4, CrashIs, Typed DEF Strays, Idle
<1>5. ASSUME NEW n \in Names, Archive(n) PROVE call' = call /\ strayed \subseteq strayed'
  BY <1>5 DEF Archive, ghosts
<1>6. ASSUME NEW u \in Uids, OpenRegistered(u) PROVE call' = call /\ strayed \subseteq strayed'
  BY <1>6 DEF OpenRegistered
<1>7. UNCHANGED vars => call' = call /\ strayed \subseteq strayed'
  BY DEF vars, ghosts
<1>8. QED  BY <1>1, <1>2, <1>3, <1>4, <1>5, <1>6, <1>7, LensTyped, NextIs

LEMMA NamesStayApart ==
    ASSUME TypeInv, NamesApart, [Next]_vars
    PROVE  NamesApart'
<1>1. ASSUME NEW c \in Calls, AnyStep(c) PROVE NamesApart'
  <2>1. \A d \in Calls \ {c} : call'[d] = call[d]
    BY <1>1, StepCall
  <2>2. CASE call'[c] = Idle
    BY <2>1, <2>2 DEF NamesApart, Reservers, Idle, Reserving, Reaches
  <2>3. CASE /\ call'[c].op = call[c].op /\ call'[c].name = call[c].name
             /\ Reaches(c, "reserve") => ~NameReserved(c, call[c].name)
    BY <2>1, <2>3 DEF NamesApart, Reservers, Reserving, Reaches, NameReserved, AmongNames, Holding
  <2>4. CASE Reserve(c)
    BY <1>1, <2>2, <2>3, <2>4, StepCall, StepPc DEF Reserve
  <2>5. CASE ~Reserve(c)
    <3>1. ~Reaches(c, "reserve")
      BY <1>1, <2>5, Typed DEF AnyStep, Scan, Check, Add, GetBack, Record, Remove, Insert, InitStore, PersistOrigin,
         RemoveFile, RemoveRow, RenameRow, Activate, Rearchive, Unrename, DeleteRow, Unlink, Cas, Swap, Revert,
         Reaches, At
    <3>2. QED  BY <1>1, <2>2, <2>3, <3>1, StepCall
  <2>6. QED  BY <2>4, <2>5
<1>2. ASSUME NEW c \in Calls, AnyStart(c) PROVE NamesApart'
  <2>1. PICK r : /\ call' = [call EXCEPT ![c] = r]
                 /\ r.op \in Reserving /\ r.pc # "reserve" => ~NameReserved(c, r.name)
    BY <1>2, StartIs DEF Reserving
  <2>2. call'[c] = r /\ \A d \in Calls \ {c} : call'[d] = call[d]
    BY <2>1, Typed DEF CallsTyped
  <2>3. QED  BY <2>1, <2>2 DEF NamesApart, Reservers, Reserving, Reaches, NameReserved, AmongNames, Holding
<1>3. ASSUME call' = call PROVE NamesApart'
  BY <1>3 DEF NamesApart, Reservers, Reaches
<1>4. ASSUME Crash PROVE NamesApart'
  BY <1>4, CrashIs DEF NamesApart, Reservers, Idle, Reserving
<1>5. ASSUME NEW n \in Names, Archive(n) PROVE call' = call
  BY <1>5 DEF Archive
<1>6. ASSUME NEW u \in Uids, OpenRegistered(u) PROVE call' = call
  BY <1>6 DEF OpenRegistered
<1>7. UNCHANGED vars => call' = call
  BY DEF vars
<1>8. QED  BY <1>1, <1>2, <1>3, <1>4, <1>5, <1>6, <1>7, LensTyped, NextIs

(* What a step does to the maps, when names are held.                      *)
Moves(c, inst) ==
    /\ Reaches(c, "swap") /\ call[c].op = "rename" /\ call[c].inst = inst
    /\ repos[call[c].was] = inst /\ repos[call[c].name] = 0 /\ inst # 0
    /\ repos' = [repos EXCEPT ![call[c].name] = inst, ![call[c].was] = 0]
    /\ UNCHANGED <<opened, byUID, unavailable>> /\ call'[c] = Idle

Serves(c) ==
    LET u == call[c].uid
        n == call[c].name
        i == Len(opened) + 1
    IN  /\ Reaches(c, "add") /\ repos[n] = 0 /\ files[u] \in Kbs
        /\ repos' = [repos EXCEPT ![n] = i]
        /\ byUID' = [byUID EXCEPT ![u] = i]
        /\ opened' = Append(opened, [uid |-> u, kb |-> files[u]])
        /\ unavailable' = unavailable
        /\ call'[c].pc = "get"

Unserves(c) ==
    LET u == call[c].uid
        n == call[c].name
    IN  /\ Reaches(c, "conflict") /\ Served(n, u)
        /\ repos' = [repos EXCEPT ![n] = 0]
        /\ byUID' = [byUID EXCEPT ![u] = 0]
        /\ opened' = opened
        /\ unavailable' = unavailable \ {u}
        /\ call'[c].pc \in {"unfile", "rearchive"}

MapsSame(c) ==
    /\ UNCHANGED <<opened, repos, byUID>>
    /\ unavailable' = unavailable
         \/ (call[c].op = "purge" /\ rows'[call[c].uid] = NoRow /\ unavailable' = unavailable \ {call[c].uid})
    /\ Reaches(c, "conflict") => repos[call[c].name] = 0

LEMMA StepMaps ==
    ASSUME TypeInv, NamesApart, NamesHeld, NEW c \in Calls, AnyStep(c)
    PROVE  MapsSame(c) \/ Serves(c) \/ Unserves(c) \/ \E i \in 1..Len(opened) : Moves(c, i)
<1>0. /\ call[c].uid \in Uids /\ Stage(call[c].op, call[c].pc) /\ DataTyped
      /\ call[c].op \in Reserving => call[c].name \in Names
      /\ call[c].op = "rename" => call[c].inst \in 1..Len(opened) /\ call[c].was \in Names
  BY StepTyped, Typed, CallAt
<1>1. CASE Add(c)
  <2>1. call[c].op \in Reserving /\ call[c].name \in Names /\ Claims(c)
    BY <1>0, <1>1 DEF Add, Reaches, Stage, CreateSteps, RestoreSteps, PurgeSteps, RenameSteps, Reserving,
         Claims
  <2>2. repos[call[c].name] = 0
    BY <2>1, <1>1 DEF NamesHeld, Add, Reaches, Installed
  <2>3. CASE files[call[c].uid] # NoFile /\ Serve(call[c].uid, call[c].name, Len(opened) + 1) /\ Go(c, "get")
    BY <1>0, <1>1, <2>2, <2>3, StepPc DEF Serve, Serves, Add, DataTyped
  <2>4. CASE UNCHANGED <<opened, repos, byUID>>
    BY <2>4, <1>1 DEF Add, MapsSame, Reaches
  <2>5. QED  BY <1>1, <2>3, <2>4 DEF Add
<1>2. CASE Remove(c)
  <2>1. call[c].op \in Reserving /\ call[c].name \in Names /\ Claims(c)
    BY <1>0, <1>2 DEF Remove, Reaches, Stage, CreateSteps, RestoreSteps, PurgeSteps, RenameSteps,
         Reserving, Claims
  <2>2. repos[call[c].name] # 0 => Served(call[c].name, call[c].uid)
    BY <2>1 DEF NamesHeld
  <2>3. CASE repos[call[c].name] = 0
    BY <1>0, <1>2, <2>1, <2>3 DEF Remove, MapsSame, DataTyped, Reaches
  <2>4. CASE repos[call[c].name] # 0
    BY <1>2, <2>2, <2>4, StepPc DEF Remove, Unserves, Served
  <2>5. QED  BY <2>3, <2>4
<1>3. CASE Swap(c)
  <2>1. CASE repos[call[c].was] = call[c].inst /\ repos[call[c].name] = 0
    BY <1>0, <1>3, <2>1, StepPc DEF Swap, Moves, At, Reaches
  <2>2. CASE repos' = repos
    BY <1>3, <2>2 DEF Swap, MapsSame, At, Reaches
  <2>3. QED  BY <1>3, <2>1, <2>2 DEF Swap
<1>4. CASE DeleteRow(c)
  <2>1. UNCHANGED <<opened, repos, byUID>> /\ ~Reaches(c, "conflict") /\ call[c].op = "purge"
    BY <1>4 DEF DeleteRow, At, Reaches
  <2>2. unavailable' = unavailable \/ (rows'[call[c].uid] = NoRow /\ unavailable' = unavailable \ {call[c].uid})
    BY <1>0, <1>4 DEF DeleteRow, DataTyped
  <2>3. QED  BY <2>1, <2>2 DEF MapsSame
<1>5. CASE \/ Reserve(c) \/ Scan(c) \/ Check(c) \/ GetBack(c) \/ Record(c)
           \/ Insert(c) \/ InitStore(c) \/ PersistOrigin(c) \/ RemoveFile(c) \/ RemoveRow(c)
           \/ RenameRow(c) \/ Activate(c) \/ Rearchive(c) \/ Unrename(c)
           \/ Unlink(c) \/ Cas(c) \/ Revert(c)
  BY <1>5 DEF Reserve, Scan, Check, GetBack, Record, Insert, InitStore, PersistOrigin, RemoveFile, RemoveRow,
       RenameRow, Activate, Rearchive, Unrename, Unlink, Cas, Revert, maps, MapsSame, At, Reaches
<1>6. QED  BY <1>1, <1>2, <1>3, <1>4, <1>5 DEF AnyStep

LEMMA AfterServes ==
    ASSUME TypeInv, NEW c \in Calls, Serves(c), call[c].uid \in Uids, call[c].name \in Names
    PROVE  /\ \A n \in Names, v \in Uids :
                Served(n, v)' <=> IF n = call[c].name THEN v = call[c].uid ELSE Served(n, v)
           /\ repos'[call[c].name] = Len(opened) + 1
           /\ opened'[Len(opened) + 1].kb = files[call[c].uid] /\ opened'[Len(opened) + 1].uid = call[c].uid
           /\ \A n \in Names \ {call[c].name} : repos'[n] = repos[n]
           /\ \A i \in 1..Len(opened) : opened'[i] = opened[i]
           /\ \A v \in Uids \ {call[c].uid} : byUID'[v] = byUID[v]
           /\ byUID'[call[c].uid] = Len(opened) + 1
<1>0. DataTyped /\ Len(opened) \in Nat
  BY Typed
<1>1. /\ opened'[Len(opened) + 1] = [uid |-> call[c].uid, kb |-> files[call[c].uid]]
      /\ \A i \in 1..Len(opened) : opened'[i] = opened[i]
  <2>1. [uid |-> call[c].uid, kb |-> files[call[c].uid]] \in [uid : Uids, kb : Kbs]
    BY DEF Serves
  <2>2. QED  BY <2>1, <1>0, AppendProperties DEF Serves, DataTyped
<1>2. /\ repos'[call[c].name] = Len(opened) + 1
      /\ \A n \in Names \ {call[c].name} : repos'[n] = repos[n]
      /\ \A v \in Uids \ {call[c].uid} : byUID'[v] = byUID[v]
      /\ byUID'[call[c].uid] = Len(opened) + 1
  BY <1>0 DEF Serves, DataTyped
<1>3. opened'[Len(opened) + 1].kb = files[call[c].uid] /\ opened'[Len(opened) + 1].uid = call[c].uid
  BY <1>1
<1>4. ASSUME NEW n \in Names, NEW v \in Uids
      PROVE  Served(n, v)' <=> IF n = call[c].name THEN v = call[c].uid ELSE Served(n, v)
  <2>1. CASE n = call[c].name
    BY <2>1, <1>0, <1>2, <1>3 DEF Served
  <2>2. CASE n # call[c].name
    <3>1. repos'[n] = repos[n] /\ (repos[n] # 0 => repos[n] \in 1..Len(opened))
      BY <2>2, <1>0, <1>2, InstanceAt
    <3>2. QED  BY <2>2, <3>1, <1>1 DEF Served
  <2>3. QED  BY <2>1, <2>2
<1>5. QED  BY <1>1, <1>2, <1>3, <1>4

LEMMA AfterUnserves ==
    ASSUME TypeInv, NEW c \in Calls, Unserves(c), call[c].uid \in Uids, call[c].name \in Names
    PROVE  /\ \A n \in Names, v \in Uids : Served(n, v)' <=> n # call[c].name /\ Served(n, v)
           /\ repos'[call[c].name] = 0 /\ byUID'[call[c].uid] = 0
           /\ \A n \in Names \ {call[c].name} : repos'[n] = repos[n]
           /\ \A v \in Uids \ {call[c].uid} : byUID'[v] = byUID[v]
           /\ opened' = opened
BY Typed DEF Unserves, Served, DataTyped

LEMMA AfterMoves ==
    ASSUME TypeInv, NEW c \in Calls, NEW i \in 1..Len(opened), Moves(c, i)
    PROVE  /\ call[c].name \in Names /\ call[c].was \in Names /\ call[c].was # call[c].name
           /\ \A n \in Names, v \in Uids :
                Served(n, v)' <=> \/ n = call[c].name /\ Served(call[c].was, v)
                                  \/ n \notin {call[c].name, call[c].was} /\ Served(n, v)
           /\ repos'[call[c].name] = i /\ repos[call[c].was] = i /\ repos'[call[c].was] = 0
           /\ \A n \in Names \ {call[c].name, call[c].was} : repos'[n] = repos[n]
           /\ byUID' = byUID /\ opened' = opened
<1>1. call[c].name \in Names /\ call[c].was \in Names /\ DataTyped
  BY Typed DEF Moves, Reserving
<1>2. call[c].was # call[c].name
  BY DEF Moves
<1>3. /\ repos'[call[c].name] = i /\ repos'[call[c].was] = 0
      /\ \A n \in Names \ {call[c].name, call[c].was} : repos'[n] = repos[n]
  BY <1>1, <1>2 DEF Moves, DataTyped
<1>4. QED  BY <1>1, <1>2, <1>3 DEF Moves, Served

LEMMA ClaimsReserve ==
    ASSUME TypeInv, NamesApart, NEW c \in Calls, NEW d \in Calls, c # d, Claims(c),
           call[d].op \in Reserving, ~Reaches(d, "reserve")
    PROVE  call[c].name # call[d].name
BY DEF NamesApart, Reservers, Claims, Reaches

LEMMA MapsOwned ==
    ASSUME TypeInv, NEW c \in Calls, Serves(c) \/ Unserves(c) \/ \E i \in 1..Len(opened) : Moves(c, i)
    PROVE  Claims(c) /\ call[c].name \in Names /\ call[c].uid \in Uids
           /\ (Serves(c) \/ Unserves(c) => call[c].op \in {"create", "restore"})
BY Typed DEF Serves, Unserves, Moves, Claims, Reaches, Stage, CreateSteps, RestoreSteps, PurgeSteps,
             RenameSteps, Reserving

LEMMA NamesStayHeld ==
    ASSUME TypeInv, NamesApart, NamesHeld, [Next]_vars
    PROVE  NamesHeld'
<1>1. ASSUME NEW c \in Calls, AnyStep(c) PROVE NamesHeld'
  <2> SUFFICES ASSUME NEW d \in Calls, Claims(d)'
               PROVE  /\ lenses[call'[d].name] = {}
                      /\ repos'[call'[d].name] # 0
                           => call'[d].pc \in Installed /\ Served(call[d].name, call[d].uid)'
    BY <1>1, StepLocal DEF NamesHeld
  <2>1. CASE d # c
    <3>1. call'[d] = call[d] /\ Claims(d)
      BY <1>1, <2>1, StepCall DEF Claims
    <3>2. /\ lenses[call[d].name] = {}
          /\ repos[call[d].name] # 0 => call[d].pc \in Installed /\ Served(call[d].name, call[d].uid)
          /\ call[d].name \in Names /\ call[d].uid \in Uids
      BY <3>1, Typed DEF NamesHeld, Claims, Reserving
    <3>3. ASSUME repos'[call[d].name] # 0
          PROVE  /\ repos[call[d].name] # 0
                 /\ Served(call[d].name, call[d].uid)' <=> Served(call[d].name, call[d].uid)
      <4>1. CASE MapsSame(c)
        BY <4>1, <3>1, <3>3 DEF MapsSame, Served
      <4>2. ASSUME Serves(c) \/ Unserves(c) \/ \E i \in 1..Len(opened) : Moves(c, i)
            PROVE  call[d].name # call[c].name
        BY <2>1, <3>1, <4>2, MapsOwned, ClaimsReserve DEF Claims, Reaches
      <4>3. CASE Serves(c)
        BY <3>1, <3>2, <3>3, <4>2, <4>3, MapsOwned, AfterServes
      <4>4. CASE Unserves(c)
        BY <3>1, <3>2, <3>3, <4>2, <4>4, MapsOwned, AfterUnserves
      <4>5. ASSUME NEW i \in 1..Len(opened), Moves(c, i)
            PROVE  /\ repos[call[d].name] # 0
                   /\ Served(call[d].name, call[d].uid)' <=> Served(call[d].name, call[d].uid)
        BY <3>1, <3>2, <3>3, <4>2, <4>5, AfterMoves
      <4>6. QED  BY <1>1, <4>1, <4>3, <4>4, <4>5, StepMaps
    <3>4. QED  BY <3>1, <3>2, <3>3
  <2>2. CASE d = c
    <3>0. call'[c] # Idle
      BY <2>2 DEF Claims, Idle, Reserving
    <3>1. call'[c].op = call[c].op /\ call'[c].uid = call[c].uid /\ call'[c].name = call[c].name
      BY <1>1, <3>0, StepCall
    <3>2. call[c].op \in Reserving /\ call[c].name \in Names /\ call[c].uid \in Uids
      BY <1>1, <2>2, <3>1, StepCall, Typed DEF Claims
    <3>3. CASE ~Claims(c)
      <4>1. Reserve(c) \/ Scan(c) \/ Check(c)
        BY <1>1, <3>2, <3>3 DEF AnyStep, Add, GetBack, Record, Remove, Insert, InitStore, PersistOrigin,
         RemoveFile, RemoveRow, RenameRow, Activate, Rearchive, Unrename, DeleteRow, Unlink, Cas, Swap, Revert,
         Reaches, At, Claims
      <4>2. UNCHANGED <<repos, opened>> /\ ~Return(c)
        BY <1>1, <3>0, <4>1, StepPc DEF Reserve, Scan, Check, maps
      <4>3. call'[c].pc \notin {"scan", "check"}
        BY <2>2, <3>1 DEF Claims
      <4>4. Check(c)
        BY <4>1, <4>2, <4>3, StepPc DEF Reserve, Scan
      <4>5. QED  BY <2>2, <3>1, <4>2, <4>4 DEF Check
    <3>4. CASE Claims(c)
      <4>1. /\ lenses[call[c].name] = {}
            /\ repos[call[c].name] # 0 => call[c].pc \in Installed /\ Served(call[c].name, call[c].uid)
        BY <3>4 DEF NamesHeld
      <4>2. CASE MapsSame(c)
        <5>1. CASE call[c].pc \in Installed /\ repos[call[c].name] # 0
          <6>1. GetBack(c) \/ Record(c)
            BY <1>1, <3>2, <4>2, <5>1 DEF AnyStep, Reserve, Scan, Check, Add, Remove, Insert, InitStore, PersistOrigin,
               RemoveFile, RemoveRow, RenameRow, Activate, Rearchive, Unrename, DeleteRow, Unlink, Cas, Swap, Revert,
               Reaches, At, Installed, MapsSame
          <6>2. call'[c].pc \in Installed
            <7>1. CASE GetBack(c)
              <8>1. call[c] \in CallSet /\ c \in DOMAIN call
                BY Typed, CallAt DEF CallsTyped
              <8>2. \/ Return(c)
                    \/ call' = [call EXCEPT ![c] = [call[c] EXCEPT !.pc = "record", !.inst = repos[call[c].name]]]
                BY <7>1 DEF GetBack, Become
              <8>3. Return(c) => call'[c] = Idle
                BY StepPc
              <8>4. \A i : [call[c] EXCEPT !.pc = "record", !.inst = i].pc = "record"
                BY <8>1 DEF CallSet
              <8>5. call'[c] = Idle \/ call'[c].pc = "record"
                BY <8>1, <8>2, <8>3, <8>4
              <8>6. QED  BY <5>1, <3>0, <8>5 DEF Installed
            <7>2. CASE Record(c)
              BY <7>2, <3>0, StepPc DEF Record, Installed
            <7>3. QED  BY <6>1, <7>1, <7>2
          <6>3. QED  BY <2>2, <3>1, <4>1, <4>2, <5>1, <6>2 DEF MapsSame, Served
        <5>2. CASE repos[call[c].name] = 0
          BY <2>2, <3>1, <4>1, <4>2, <5>2 DEF MapsSame
        <5>3. QED  BY <4>1, <5>1, <5>2
      <4>3. CASE Serves(c)
        <5>1. call'[c].pc \in Installed
          BY <4>3 DEF Serves, Installed
        <5>2. Served(call[c].name, call[c].uid)'
          BY <3>1, <3>2, <4>3, AfterServes
        <5>3. QED  BY <2>2, <3>1, <4>1, <5>1, <5>2
      <4>4. CASE Unserves(c)
        BY <2>2, <3>1, <3>2, <4>1, <4>4, AfterUnserves
      <4>5. ASSUME NEW i \in 1..Len(opened), Moves(c, i) PROVE FALSE
        BY <3>0, <4>5 DEF Moves
      <4>6. QED  BY <1>1, <4>2, <4>3, <4>4, <4>5, StepMaps
    <3>5. QED  BY <3>3, <3>4
  <2>3. QED  BY <2>1, <2>2
<1>2. ASSUME NEW c \in Calls, AnyStart(c) PROVE NamesHeld'
  <2>1. PICK r : call' = [call EXCEPT ![c] = r]
                 /\ (r.op \notin Reserving \/ r.pc \in {"reserve", "scan", "check"})
    BY <1>2, StartIs DEF Reserving
  <2>2. call'[c] = r /\ \A d \in Calls \ {c} : call'[d] = call[d]
    BY <2>1, Typed DEF CallsTyped
  <2>3. UNCHANGED <<lenses, repos, opened>>
    BY <1>2, StartIs DEF registry, maps
  <2>4. QED  BY <2>1, <2>2, <2>3 DEF NamesHeld, Claims, Served
<1>3. ASSUME NEW n \in Names, Archive(n) PROVE NamesHeld'
  <2>1. UNCHANGED <<lenses, opened, call>> /\ repos' = [repos EXCEPT ![n] = 0]
    BY <1>3, ArchiveIs
  <2>2. QED  BY <2>1, Typed DEF NamesHeld, Claims, Served, DataTyped
<1>4. ASSUME AnyLens PROVE NamesHeld'
  <2>1. UNCHANGED <<maps, call>>
    BY <1>4, LensTyped
  <2>2. ASSUME NEW d \in Calls, Claims(d) PROVE lenses'[call[d].name] = {}
    <3>1. lenses[call[d].name] = {} /\ d \in Reservers /\ call[d].name \in Names
      BY <2>2, Typed DEF NamesHeld, Claims, Reservers, Reaches
    <3>2. ASSUME NEW n \in Names, CreateLens(n) PROVE lenses'[call[d].name] = {}
      BY <3>1, <3>2, Typed DEF CreateLens, AmongNames, DataTyped
    <3>3. ASSUME NEW n \in Names, UpdateLens(n) \/ DeleteLens(n) PROVE lenses'[call[d].name] = {}
      BY <3>1, <3>3, Typed DEF UpdateLens, DeleteLens, DataTyped
    <3>4. ASSUME NEW n \in Names, NEW new \in Names, RenameLens(n, new) PROVE lenses'[call[d].name] = {}
      BY <3>1, <3>4, Typed DEF RenameLens, AmongNames, DataTyped
    <3>5. QED  BY <1>4, <3>2, <3>3, <3>4 DEF AnyLens
  <2>3. QED  BY <2>1, <2>2 DEF NamesHeld, Claims, Served, maps
<1>5. ASSUME NEW u \in Uids, OpenRegistered(u) PROVE NamesHeld'
  BY <1>5, OpenIs DEF NamesHeld, Claims, Idle, Reserving
<1>6. ASSUME Crash PROVE NamesHeld'
  BY <1>6, CrashIs DEF NamesHeld, Claims, Idle, Reserving
<1>7. UNCHANGED vars => NamesHeld'
  BY DEF vars, registry, maps, NamesHeld, Claims, Served
<1>8. QED  BY <1>1, <1>2, <1>3, <1>4, <1>5, <1>6, <1>7, NextIs

LEMMA StepInst ==
    ASSUME TypeInv, NEW c \in Calls, AnyStep(c), call[c].op = "rename"
    PROVE  call'[c] = Idle \/ call'[c].inst = call[c].inst
<1>1. call[c].pc \in RenameSteps
  BY Typed DEF Stage
<1>2. Check(c) \/ Cas(c) \/ Swap(c) \/ Revert(c)
  BY <1>1 DEF AnyStep, Reserve, Scan, Add, GetBack, Record, Remove, Insert, InitStore, PersistOrigin, RemoveFile,
     RemoveRow, RenameRow, Activate, Rearchive, Unrename, DeleteRow, Unlink, Reaches, At, RenameSteps
<1>3. CASE Revert(c)
  BY <1>3, StepPc, Typed DEF Revert, CallsTyped
<1>4. CASE Check(c) \/ Cas(c) \/ Swap(c)
  BY <1>4, StepPc DEF Check, Cas, Swap
<1>5. QED  BY <1>2, <1>3, <1>4

LEMMA OpenServes ==
    ASSUME TypeInv, Indexes, Booting, NEW u \in Uids, OpenRegistered(u),
           files[u] # NoFile, Serve(u, rows[u].name, Len(opened) + 1)
    PROVE  /\ repos[rows[u].name] = 0
           /\ \A n \in Names, v \in Uids :
                Served(n, v)' <=> IF n = rows[u].name THEN v = u ELSE Served(n, v)
           /\ repos'[rows[u].name] = Len(opened) + 1
           /\ opened'[Len(opened) + 1].kb = files[u] /\ opened'[Len(opened) + 1].uid = u
           /\ \A n \in Names \ {rows[u].name} : repos'[n] = repos[n]
           /\ \A i \in 1..Len(opened) : opened'[i] = opened[i]
           /\ byUID' = [byUID EXCEPT ![u] = Len(opened) + 1]
<1>0. DataTyped /\ Len(opened) \in Nat /\ rows[u].name \in Names /\ u \in boot /\ Active(u)
  BY Typed, OpenIs
<1>1. repos[rows[u].name] = 0
  <2> SUFFICES ASSUME repos[rows[u].name] # 0 PROVE FALSE
    OBVIOUS
  <2> DEFINE v == opened[repos[rows[u].name]].uid
  <2>1. v \in Uids /\ Served(rows[u].name, v)
    BY <1>0, InstanceAt DEF Served
  <2> HIDE DEF v
  <2>2. Active(v) /\ rows[v].name = rows[u].name /\ v # u
    BY <2>1, <1>0 DEF Booting
  <2>3. QED  BY <2>1, <2>2, <1>0 DEF Indexes
<1>2. /\ opened'[Len(opened) + 1] = [uid |-> u, kb |-> files[u]]
      /\ \A i \in 1..Len(opened) : opened'[i] = opened[i]
  BY <1>0, ServeTyped
<1>3. /\ repos'[rows[u].name] = Len(opened) + 1
      /\ \A n \in Names \ {rows[u].name} : repos'[n] = repos[n]
      /\ byUID' = [byUID EXCEPT ![u] = Len(opened) + 1]
  BY <1>0, <1>1 DEF Serve, DataTyped
<1>4. opened'[Len(opened) + 1].kb = files[u] /\ opened'[Len(opened) + 1].uid = u
  BY <1>2
<1>5. ASSUME NEW n \in Names, NEW v \in Uids
      PROVE  Served(n, v)' <=> IF n = rows[u].name THEN v = u ELSE Served(n, v)
  <2>1. CASE n = rows[u].name
    BY <2>1, <1>0, <1>3, <1>4 DEF Served
  <2>2. CASE n # rows[u].name
    <3>1. repos'[n] = repos[n] /\ (repos[n] # 0 => repos[n] \in 1..Len(opened))
      BY <2>2, <1>0, <1>3, InstanceAt
    <3>2. QED  BY <2>2, <3>1, <1>2 DEF Served
  <2>3. QED  BY <2>1, <2>2
<1>6. QED  BY <1>1, <1>2, <1>3, <1>4, <1>5

LEMMA InstancesStay ==
    ASSUME TypeInv, NamesApart, NamesHeld, Instances, Indexes, Booting, [Next]_vars
    PROVE  Instances'
<1>0. DataTyped /\ Len(opened) \in Nat /\ \A n \in Names : repos[n] # Len(opened) + 1
  BY Typed, InstanceAt
<1>1. ASSUME NEW c \in Calls, AnyStep(c) PROVE Instances'
  <2>1. ASSUME NEW d \in Calls, call'[d].op = "rename"
        PROVE  /\ call[d].op = "rename" /\ call'[d].inst = call[d].inst /\ call'[d].uid = call[d].uid
               /\ call[d].inst \in 1..Len(opened)
    <3>1. call'[d] # Idle
      BY <2>1 DEF Idle
    <3>2. /\ call[d].op = "rename" /\ call'[d].inst = call[d].inst /\ call'[d].uid = call[d].uid
      BY <1>1, <2>1, <3>1, StepCall, StepInst
    <3>3. QED  BY <3>2, Typed, CallAt
  <2>2. ASSUME \A i \in 1..Len(opened) : opened'[i] = opened[i]
        PROVE  \A d \in Calls : call'[d].op = "rename" => opened'[call'[d].inst].uid = call'[d].uid
    BY <2>1, <2>2 DEF Instances
  <2>3. CASE MapsSame(c)
    BY <2>2, <2>3 DEF MapsSame, Instances
  <2>4. CASE Serves(c)
    <3>1. call[c].uid \in Uids /\ call[c].name \in Names
      BY <2>4, MapsOwned
    <3>2. \A m, n \in Names : repos'[m] = repos'[n] /\ repos'[m] # 0 => m = n
      BY <2>4, <3>1, <1>0, AfterServes DEF Instances
    <3>3. QED  BY <2>2, <2>4, <3>1, <3>2, AfterServes DEF Instances
  <2>5. CASE Unserves(c)
    <3>1. call[c].uid \in Uids /\ call[c].name \in Names
      BY <2>5, MapsOwned
    <3>2. \A m, n \in Names : repos'[m] = repos'[n] /\ repos'[m] # 0 => m = n
      BY <2>5, <3>1, AfterUnserves DEF Instances
    <3>3. QED  BY <2>2, <2>5, <3>1, <3>2, AfterUnserves DEF Instances
  <2>6. ASSUME NEW i \in 1..Len(opened), Moves(c, i) PROVE Instances'
    <3>1. \A m, n \in Names : repos'[m] = repos'[n] /\ repos'[m] # 0 => m = n
      BY <2>6, AfterMoves DEF Instances
    <3>2. QED  BY <2>2, <2>6, <3>1, AfterMoves DEF Instances
  <2>7. QED  BY <1>1, <2>3, <2>4, <2>5, <2>6, StepMaps
<1>2. ASSUME NEW c \in Calls, AnyStart(c) PROVE Instances'
  <2>1. PICK r : call' = [call EXCEPT ![c] = r] /\ (r.op = "rename" => opened[r.inst].uid = r.uid)
    BY <1>2, StartIs
  <2>2. call'[c] = r /\ \A d \in Calls \ {c} : call'[d] = call[d]
    BY <2>1, Typed DEF CallsTyped
  <2>3. UNCHANGED <<repos, opened>>
    BY <1>2, StartIs DEF maps
  <2>4. QED  BY <2>1, <2>2, <2>3 DEF Instances
<1>3. ASSUME NEW n \in Names, Archive(n) PROVE Instances'
  <2>1. UNCHANGED <<opened, call>> /\ repos' = [repos EXCEPT ![n] = 0]
    BY <1>3, ArchiveIs
  <2>2. QED  BY <2>1, <1>0 DEF Instances, DataTyped
<1>4. ASSUME NEW u \in Uids, OpenRegistered(u) PROVE Instances'
  <2>1. \A d \in Calls : call'[d] = Idle /\ call'[d].op # "rename"
    BY <1>4, OpenIs DEF Idle
  <2>2. CASE UNCHANGED <<repos, opened>>
    BY <2>1, <2>2 DEF Instances
  <2>3. CASE unavailable' = unavailable /\ files[u] # NoFile /\ Serve(u, rows[u].name, Len(opened) + 1)
    <3>1. rows[u].name \in Names
      BY <1>4, OpenIs
    <3>2. \A m, n \in Names : repos'[m] = repos'[n] /\ repos'[m] # 0 => m = n
      BY <1>0, <1>4, <2>3, <3>1, OpenServes DEF Instances
    <3>3. QED  BY <2>1, <3>2 DEF Instances
  <2>4. QED  BY <1>4, <2>2, <2>3, OpenIs
<1>5. ASSUME Crash PROVE Instances'
  BY <1>5, CrashIs DEF Instances, Idle
<1>6. ASSUME UNCHANGED <<maps, call>> PROVE Instances'
  BY <1>6 DEF Instances, maps
<1>7. UNCHANGED vars => UNCHANGED <<maps, call>>
  BY DEF vars, maps
<1>8. AnyLens => UNCHANGED <<maps, call>>
  BY LensTyped
<1>9. QED  BY <1>1, <1>2, <1>3, <1>4, <1>5, <1>6, <1>7, <1>8, NextIs

LEMMA BootingStays ==
    ASSUME TypeInv, Indexes, Booting, [Next]_vars
    PROVE  Booting'
<1>1. ASSUME boot' = {} PROVE Booting'
  BY <1>1 DEF Booting
<1>2. ASSUME NEW u \in Uids, OpenRegistered(u) PROVE Booting'
  <2>0. /\ u \in boot /\ boot' = boot \ {u} /\ \A c \in Calls : call'[c] = Idle
        /\ \A v \in Uids : rows'[v].state = rows[v].state /\ rows'[v].name = rows[v].name
        /\ rows[u].name \in Names /\ Active(u)
    BY <1>2, OpenIs
  <2>1. \A v \in boot : v \in Uids
    BY Typed DEF DataTyped
  <2>5. \A v \in boot' : v \notin unavailable'
    BY <1>2, <2>0, <2>1, OpenIs DEF Booting
  <2>2. CASE UNCHANGED <<repos, opened, byUID>>
    BY <2>0, <2>1, <2>2, <2>5 DEF Booting, Served, Active
  <2>3. CASE unavailable' = unavailable /\ files[u] # NoFile /\ Serve(u, rows[u].name, Len(opened) + 1)
    <3>2. /\ \A n \in Names, v \in Uids : Served(n, v)' <=> IF n = rows[u].name THEN v = u ELSE Served(n, v)
          /\ byUID' = [byUID EXCEPT ![u] = Len(opened) + 1]
      BY <1>2, <2>3, OpenServes
    <3>3. \A v \in boot' : byUID'[v] = 0 /\ Active(v)' /\ \A n \in Names : ~Served(n, v)'
      <4> SUFFICES ASSUME NEW v \in boot'
                   PROVE  byUID'[v] = 0 /\ Active(v)' /\ \A n \in Names : ~Served(n, v)'
        OBVIOUS
      <4>1. v \in Uids /\ v \in boot /\ v # u
        BY <2>0, <2>1
      <4>2. Active(v) /\ byUID[v] = 0 /\ \A n \in Names : ~Served(n, v)
        BY <4>1 DEF Booting
      <4>3. byUID'[v] = 0
        BY <3>2, <4>1, <4>2, Typed DEF DataTyped
      <4>4. QED  BY <2>0, <3>2, <4>1, <4>2, <4>3 DEF Active
    <3>4. \A n \in Names, v \in Uids : Served(n, v)' => Active(v)' /\ rows'[v].name = n
      BY <2>0, <3>2 DEF Booting, Active
    <3>5. QED  BY <2>0, <2>5, <3>3, <3>4 DEF Booting
  <2>4. QED  BY <1>2, <2>2, <2>3, OpenIs
<1>3. ASSUME Crash PROVE Booting'
  BY <1>3, CrashIs DEF Booting, Active, registry
<1>4. ASSUME NEW c \in Calls, AnyStart(c) \/ AnyStep(c) PROVE boot' = {}
  BY <1>4, StartIs, StepLocal
<1>5. ASSUME NEW n \in Names, Archive(n) PROVE boot' = {}
  BY <1>5, ArchiveIs
<1>6. AnyLens => boot' = {}
  BY LensTyped
<1>7. UNCHANGED vars => Booting'
  BY DEF vars, maps, registry, Booting, Served, Active
<1>8. QED  BY <1>1, <1>2, <1>3, <1>4, <1>5, <1>6, <1>7, NextIs

(* The row of u as a step leaves it.                                       *)
RowAfter(u, state, name, kb) == rows'[u].state = state /\ rows'[u].name = name /\ rows'[u].kb = kb

LEMMA Edited ==
    ASSUME TypeInv, NEW u \in Uids, Row(u)
    PROVE  /\ \A n : rows' = [rows EXCEPT ![u].name = n] => RowAfter(u, rows[u].state, n, rows[u].kb)
           /\ \A k : rows' = [rows EXCEPT ![u].kb = k] => RowAfter(u, rows[u].state, rows[u].name, k)
           /\ \A s : rows' = [rows EXCEPT ![u].state = s] => RowAfter(u, s, rows[u].name, rows[u].kb)
           /\ \A o : rows' = [rows EXCEPT ![u].origin = o] => RowAfter(u, rows[u].state, rows[u].name, rows[u].kb)
<1>1. rows[u] = [state |-> rows[u].state, name |-> rows[u].name, kb |-> rows[u].kb, origin |-> rows[u].origin]
  BY RowFields, Typed DEF DataTyped, Row
<1>2. u \in DOMAIN rows
  BY Typed DEF DataTyped
<1>3. ASSUME NEW n, rows' = [rows EXCEPT ![u].name = n] PROVE RowAfter(u, rows[u].state, n, rows[u].kb)
  <2>1. rows'[u] = [rows[u] EXCEPT !.name = n]
    BY <1>2, <1>3
  <2>2. QED  BY <1>1, <2>1 DEF RowAfter
<1>4. ASSUME NEW k, rows' = [rows EXCEPT ![u].kb = k] PROVE RowAfter(u, rows[u].state, rows[u].name, k)
  <2>1. rows'[u] = [rows[u] EXCEPT !.kb = k]
    BY <1>2, <1>4
  <2>2. QED  BY <1>1, <2>1 DEF RowAfter
<1>5. ASSUME NEW s, rows' = [rows EXCEPT ![u].state = s] PROVE RowAfter(u, s, rows[u].name, rows[u].kb)
  <2>1. rows'[u] = [rows[u] EXCEPT !.state = s]
    BY <1>2, <1>5
  <2>2. QED  BY <1>1, <2>1 DEF RowAfter
<1>6. ASSUME NEW o, rows' = [rows EXCEPT ![u].origin = o]
      PROVE  RowAfter(u, rows[u].state, rows[u].name, rows[u].kb)
  <2>1. rows'[u] = [rows[u] EXCEPT !.origin = o]
    BY <1>2, <1>6
  <2>2. QED  BY <1>1, <2>1 DEF RowAfter
<1>7. QED  BY <1>3, <1>4, <1>5, <1>6

LEMMA IndexesStay ==
    ASSUME TypeInv, Indexes, [Next]_vars
    PROVE  Indexes'
<1>1. ASSUME NEW u \in Uids, \A v \in Uids \ {u} : rows'[v] = rows[v],
             \/ rows'[u].state # "active"
             \/ rows'[u].name = rows[u].name /\ rows'[u].kb = rows[u].kb /\ Active(u)
             \/ /\ ~NameTaken(u, rows'[u].name) \/ (Active(u) /\ rows'[u].name = rows[u].name)
                /\ ~KbTaken(u, rows'[u].kb) \/ (Active(u) /\ rows'[u].kb = rows[u].kb)
      PROVE  Indexes'
  <2> SUFFICES ASSUME NEW v \in Uids, NEW w \in Uids, v # w, Active(v)', Active(w)'
               PROVE  /\ rows'[v].name # rows'[w].name
                      /\ rows'[v].kb = NoKb \/ rows'[v].kb # rows'[w].kb
    BY DEF Indexes
  <2>1. CASE v # u /\ w # u
    BY <1>1, <2>1 DEF Indexes, Active
  <2>2. CASE v = u
    <3>1. Active(w) /\ rows'[w] = rows[w] /\ w # u
      BY <1>1, <2>2 DEF Active
    <3>2. QED  BY <1>1, <2>2, <3>1 DEF Indexes, Active, NameTaken, KbTaken
  <2>3. CASE w = u
    <3>1. Active(v) /\ rows'[v] = rows[v] /\ v # u
      BY <1>1, <2>3 DEF Active
    <3>2. QED  BY <1>1, <2>3, <3>1 DEF Indexes, Active, NameTaken, KbTaken
  <2>4. QED  BY <2>1, <2>2, <2>3
<1>2. ASSUME rows' = rows PROVE Indexes'
  BY <1>2 DEF Indexes, Active
<1>3. ASSUME NEW c \in Calls, AnyStep(c) PROVE Indexes'
  <2> DEFINE u == call[c].uid
  <2>0. /\ u \in Uids /\ \A v \in Uids \ {u} : rows'[v] = rows[v]
        /\ DataTyped
    BY <1>3, StepTyped, StepLocal, Typed
  <2> HIDE DEF u
  <2> DEFINE Fine == \/ rows'[u].state # "active"
                     \/ rows'[u].name = rows[u].name /\ rows'[u].kb = rows[u].kb /\ Active(u)
                     \/ /\ ~NameTaken(u, rows'[u].name) \/ (Active(u) /\ rows'[u].name = rows[u].name)
                        /\ ~KbTaken(u, rows'[u].kb) \/ (Active(u) /\ rows'[u].kb = rows[u].kb)
  <2>1. CASE rows' = rows
    BY <2>1, <1>2
  <2>2. CASE Insert(c) /\ rows' # rows
    <3>1. rows' = [rows EXCEPT ![u] = [NoRow EXCEPT !.state = "active", !.name = call[c].name]]
          /\ ~NameTaken(u, call[c].name)
      BY <2>2 DEF Insert, u
    <3>2. rows'[u].name = call[c].name /\ rows'[u].kb = NoKb
      BY <2>0, <3>1 DEF DataTyped, NoRow
    <3>3. QED  BY <1>1, <2>0, <3>1, <3>2 DEF KbTaken
  <2>3. CASE (RenameRow(c) \/ Unrename(c) \/ Cas(c) \/ Revert(c)) /\ rows' # rows
    <3>1. PICK n : Row(u) /\ rows' = [rows EXCEPT ![u].name = n] /\ ~(Active(u) /\ NameTaken(u, n))
      BY <2>3 DEF RenameRow, Unrename, Cas, Revert, RenameIfNamed, u
    <3>2. RowAfter(u, rows[u].state, n, rows[u].kb)
      BY <2>0, <3>1, Edited
    <3>3. QED  BY <1>1, <2>0, <3>1, <3>2 DEF RowAfter, Active
  <2>4. CASE (Activate(c) \/ Rearchive(c)) /\ rows' # rows
    <3>1. Row(u) /\ \/ rows' = [rows EXCEPT ![u].state = "archived"]
                    \/ /\ rows' = [rows EXCEPT ![u].state = "active"]
                       /\ ~NameTaken(u, rows[u].name) /\ ~KbTaken(u, rows[u].kb)
      BY <2>4 DEF Activate, Rearchive, SetState, u
    <3>2. \/ RowAfter(u, "archived", rows[u].name, rows[u].kb)
          \/ /\ RowAfter(u, "active", rows[u].name, rows[u].kb)
             /\ ~NameTaken(u, rows[u].name) /\ ~KbTaken(u, rows[u].kb)
      BY <2>0, <3>1, Edited
    <3>3. QED  BY <1>1, <2>0, <3>2 DEF RowAfter
  <2>5. CASE Record(c) /\ rows' # rows
    <3>1. PICK k : Row(u) /\ rows' = [rows EXCEPT ![u].kb = k] /\ ~(Active(u) /\ KbTaken(u, k))
      BY <2>5 DEF Record, RecordRepoID, u
    <3>2. RowAfter(u, rows[u].state, rows[u].name, k)
      BY <2>0, <3>1, Edited
    <3>3. QED  BY <1>1, <2>0, <3>1, <3>2 DEF RowAfter, Active
  <2>6. CASE PersistOrigin(c) /\ rows' # rows
    <3>1. Row(u)
      BY <2>6 DEF PersistOrigin, At, TypeInv, EarlyInv, Fledgling, Early, Making, Active, Row, u
    <3>2. PICK o : rows' = [rows EXCEPT ![u].origin = o]
      BY <2>6 DEF PersistOrigin, u
    <3>3. RowAfter(u, rows[u].state, rows[u].name, rows[u].kb)
      BY <2>0, <3>1, <3>2, Edited
    <3>4. QED  BY <1>1, <2>0, <3>3 DEF RowAfter, Active
  <2>7. CASE (RemoveRow(c) \/ DeleteRow(c)) /\ rows' # rows
    <3>1. rows'[u] = NoRow
      BY <2>0, <2>7 DEF RemoveRow, DeleteRow, DataTyped, u
    <3>2. QED  BY <1>1, <2>0, <3>1 DEF NoRow
  <2>8. CASE \/ Reserve(c) \/ Scan(c) \/ Check(c) \/ Add(c) \/ GetBack(c) \/ Remove(c)
             \/ InitStore(c) \/ RemoveFile(c) \/ Unlink(c) \/ Swap(c)
    BY <1>2, <2>8 DEF Reserve, Scan, Check, Add, GetBack, Remove, InitStore, RemoveFile, Unlink, Swap, registry
  <2>9. QED  BY <1>3, <2>1, <2>2, <2>3, <2>4, <2>5, <2>6, <2>7, <2>8 DEF AnyStep
<1>4. ASSUME NEW c \in Calls, AnyStart(c) PROVE Indexes'
  BY <1>2, <1>4, StartIs DEF registry
<1>5. ASSUME NEW n \in Names, Archive(n) PROVE Indexes'
  BY <1>1, <1>5, ArchiveIs
<1>6. ASSUME NEW u \in Uids, OpenRegistered(u) PROVE Indexes'
  <2>1. CASE rows' = rows
    BY <2>1, <1>2
  <2>2. CASE rows' # rows
    <3>1. /\ \A v \in Uids \ {u} : rows'[v] = rows[v]
          /\ rows'[u].name = rows[u].name /\ Active(u) /\ ~KbTaken(u, rows'[u].kb)
      BY <1>6, <2>2, OpenIs
    <3>2. QED  BY <1>1, <3>1
  <2>3. QED  BY <2>1, <2>2
<1>7. ASSUME AnyLens \/ Crash \/ UNCHANGED vars PROVE Indexes'
  BY <1>2, <1>7, LensTyped, CrashIs DEF vars, registry
<1>8. QED  BY <1>3, <1>4, <1>5, <1>6, <1>7, NextIs

LEMMA WideNext ==
    ASSUME TypeInv, WideInv, [Next]_vars
    PROVE  WideInv'
BY StaysApart, NamesStayApart, NamesStayHeld, InstancesStay, IndexesStay, BootingStays DEF WideInv

LEMMA WideInit == Init => WideInv
<1> SUFFICES ASSUME Init PROVE WideInv
  OBVIOUS
<1>1. /\ \A c \in Calls : call[c] = Idle
      /\ \A n \in Names : repos[n] = 0
      /\ \A u \in Uids : byUID[u] = 0
      /\ boot = {u \in Uids : Active(u)} /\ strayed = {} /\ unavailable = {}
  BY DEF Init
<1>2. NamesApart /\ NamesHeld /\ Instances /\ Booting
  BY <1>1 DEF NamesApart, NamesHeld, Instances, Booting, Idle, Reservers, Claims, Reserving, Served
<1>3. Indexes
  BY HomesAssumption DEF Init, WellFormed, Indexes, Active
<1>4. Strays(call) \subseteq strayed
  BY <1>1, NoValueAssumption DEF Strays, Idle
<1>5. QED  BY <1>2, <1>3, <1>4 DEF WideInv

-----------------------------------------------------------------------------
(* A step that leaves a repository alone keeps what held of it.            *)

SameMaps(v) ==
    /\ byUID'[v] = byUID[v]
    /\ v \in unavailable' <=> v \in unavailable
    /\ \A n \in Names :
         /\ Served(n, v)' <=> Served(n, v)
         /\ Served(n, v) => repos'[n] = repos[n] /\ opened'[repos'[n]].kb = opened[repos[n]].kb

SameRepo(v) ==
    /\ rows'[v] = rows[v] /\ files'[v] = files[v] /\ SameMaps(v)
    /\ v \in born' <=> v \in born
    /\ v \in unrecorded' <=> v \in unrecorded
    /\ v \in boot' <=> v \in boot
    /\ \A d \in Calls : call[d].uid = v \/ call'[d].uid = v => call'[d] = call[d]
    /\ lenses' = lenses /\ shadowed' = shadowed

LEMMA CallsSame ==
    ASSUME NEW v \in Uids, \A d \in Calls : call[d].uid = v \/ call'[d].uid = v => call'[d] = call[d]
    PROVE  /\ \A d \in Calls : Written(d, v)' <=> Written(d, v)
           /\ \A n \in Names : Reaching(v, n)' <=> Reaching(v, n)
<1>1. \A d \in Calls : Written(d, v)' <=> Written(d, v)
  BY DEF Written
<1>2. \A d \in Calls : Written(d, v) => call'[d] = call[d]
  BY DEF Written
<1>3. QED  BY <1>1, <1>2 DEF Reaching

LEMMA KeptSame ==
    ASSUME TypeInv, NEW v \in Uids, Kept(v), SameRepo(v)
    PROVE  Kept(v)'
<1>1. MapsAgree(v)'
  BY DEF Kept, MapsAgree, SameRepo, SameMaps, Active
<1>2. Present(v)'
  BY DEF Kept, Present, SameRepo, SameMaps, Active
<1>3. CallsInOrder(v)'
  <2> SUFFICES ASSUME NEW c \in Calls, call'[c].uid = v
               PROVE  /\ v \notin unavailable'
                      /\ call'[c].op \in {"create", "restore", "purge"} => Owns(c, v)'
                      /\ call'[c].op = "create" => Creates(c, v)'
                      /\ call'[c].op = "restore" => Restores(c, v)'
                      /\ call'[c].op = "purge" => Purges(c, v)'
    BY DEF CallsInOrder
  <2>1. call'[c] = call[c] /\ call[c].uid = v
    BY DEF SameRepo
  <2>2. /\ v \notin unavailable
        /\ call[c].op \in {"create", "restore", "purge"} => Owns(c, v)
        /\ call[c].op = "create" => Creates(c, v)
        /\ call[c].op = "restore" => Restores(c, v)
        /\ call[c].op = "purge" => Purges(c, v)
    BY <2>1 DEF Kept, CallsInOrder
  <2>3. v \notin unavailable'
    BY <2>2 DEF SameRepo, SameMaps
  <2>4. Owns(c, v) => Owns(c, v)'
    <3>1. call[c].name \in Names \/ call[c].op \in {"purge", "none"}
      BY Typed, CallAt DEF Reserving, Stage
    <3>2. Owns(c, v) /\ call[c].pc \in Installed /\ byUID[v] # 0 => Served(call[c].name, v)
      BY DEF Owns
    <3>3. call[c].pc \in Installed => call[c].name \in Names
      BY Typed DEF Installed, Stage, PurgeSteps, RenameSteps, Reserving
    <3>4. QED  BY <2>1, <3>2, <3>3 DEF Owns, SameRepo, SameMaps, Active
  <2>5. Creates(c, v) => Creates(c, v)'
    BY <2>1 DEF Creates, SameRepo, Row, Active
  <2>6. Restores(c, v) => Restores(c, v)'
    BY <2>1 DEF Restores, SameRepo, Row, Active, RefsRepo
  <2>7. Purges(c, v) => Purges(c, v)'
    BY <2>1 DEF Purges, SameRepo, Row, Active
  <2>8. QED  BY <2>1, <2>2, <2>3, <2>4, <2>5, <2>6, <2>7
<1>4. RenamesLead(v)'
  <2>1. /\ \A d \in Calls : Written(d, v)' <=> Written(d, v)
        /\ \A n \in Names : Reaching(v, n)' <=> Reaching(v, n)
        /\ \A d \in Calls : Written(d, v) => call'[d] = call[d] /\ call[d].was \in Names
    BY CallsSame, Typed DEF SameRepo, Written
  <2> SUFFICES ASSUME NEW n \in Names, Served(n, v)'
               PROVE  /\ rows'[v].name = n \/ Reaching(v, rows[v].name)'
                      /\ \A c \in Calls : Written(c, v)' =>
                           /\ call'[c].was = n \/ Reaching(v, call[c].was)'
                           /\ call'[c].was # rows'[v].name
                           /\ \A d \in Calls : Written(d, v)' /\ call'[d].was = call'[c].was => c = d
    BY DEF RenamesLead
  <2>2. Served(n, v) /\ rows'[v] = rows[v]
    BY DEF SameRepo, SameMaps
  <2>3. /\ rows[v].name = n \/ Reaching(v, rows[v].name)
        /\ \A c \in Calls : Written(c, v) =>
             /\ call[c].was = n \/ Reaching(v, call[c].was)
             /\ call[c].was # rows[v].name
             /\ \A d \in Calls : Written(d, v) /\ call[d].was = call[c].was => c = d
    BY <2>2 DEF Kept, RenamesLead
  <2>4. rows'[v].name = n \/ Reaching(v, rows[v].name)'
    BY <2>1, <2>2, <2>3 DEF Reaching
  <2>5. ASSUME NEW c \in Calls, Written(c, v)'
        PROVE  /\ call'[c].was = n \/ Reaching(v, call[c].was)'
               /\ call'[c].was # rows'[v].name
               /\ \A d \in Calls : Written(d, v)' /\ call'[d].was = call'[c].was => c = d
    <3>1. Written(c, v) /\ call'[c] = call[c] /\ call[c].was \in Names
      BY <2>1, <2>5
    <3>2. call'[c].was = n \/ Reaching(v, call[c].was)'
      BY <2>1, <2>3, <3>1
    <3>3. QED  BY <2>1, <2>2, <2>3, <3>1, <3>2
  <2>6. QED  BY <2>4, <2>5
<1>5. Recorded(v)'
  BY DEF Kept, Recorded, SameRepo, SameMaps
<1>6. FilesKept(v)' /\ LensesKnow(v)'
  BY DEF Kept, FilesKept, LensesKnow, SameRepo, SameMaps, Row, Active, RefsRepo
<1>7. QED  BY <1>1, <1>2, <1>3, <1>4, <1>5, <1>6 DEF Kept

LEMMA StepElsewhere ==
    ASSUME TypeInv, NamesApart, NamesHeld, Instances, NEW c \in Calls, AnyStep(c),
           NEW v \in Uids \ {call[c].uid}
    PROVE  SameRepo(v)
<1>0. call[c].uid \in Uids /\ DataTyped /\ \A n \in Names : repos[n] # 0 => repos[n] \in 1..Len(opened)
  BY StepCall, Typed, InstanceAt
<1>1. SameMaps(v)
  <2>1. CASE MapsSame(c)
    BY <2>1 DEF MapsSame, SameMaps, Served
  <2>2. CASE Serves(c)
    <3>1. repos[call[c].name] = 0 /\ call[c].name \in Names
      BY <2>2, MapsOwned DEF Serves
    <3>2. \A n \in Names : Served(n, v) => n # call[c].name /\ repos[n] \in 1..Len(opened)
      BY <1>0, <3>1 DEF Served
    <3>3. /\ \A n \in Names, w \in Uids :
                Served(n, w)' <=> IF n = call[c].name THEN w = call[c].uid ELSE Served(n, w)
          /\ \A n \in Names \ {call[c].name} : repos'[n] = repos[n]
          /\ \A i \in 1..Len(opened) : opened'[i] = opened[i]
          /\ byUID'[v] = byUID[v] /\ unavailable' = unavailable
      BY <1>0, <2>2, <3>1, AfterServes DEF Serves
    <3>4. QED  BY <3>2, <3>3 DEF SameMaps
  <2>3. CASE Unserves(c)
    <3>1. Served(call[c].name, call[c].uid) /\ call[c].name \in Names
      BY <2>3, MapsOwned DEF Unserves
    <3>2. \A n \in Names : Served(n, v) => n # call[c].name
      BY <3>1 DEF Served
    <3>3. v \in unavailable' <=> v \in unavailable
      BY <2>3 DEF Unserves
    <3>4. QED  BY <1>0, <2>3, <3>1, <3>2, <3>3, AfterUnserves DEF SameMaps
  <2>4. ASSUME NEW i \in 1..Len(opened), Moves(c, i) PROVE SameMaps(v)
    <3>1. opened[i].uid = call[c].uid
      BY <2>4 DEF Moves, Instances
    <3>2. \A n \in {call[c].name, call[c].was} : ~Served(n, v)
      BY <2>4, <3>1 DEF Moves, Served
    <3>3. unavailable' = unavailable
      BY <2>4 DEF Moves
    <3>4. QED  BY <2>4, <3>2, <3>3, AfterMoves DEF SameMaps
  <2>5. QED  BY <2>1, <2>2, <2>3, <2>4, StepMaps
<1>2. \A d \in Calls : call[d].uid = v \/ call'[d].uid = v => call'[d] = call[d]
  BY StepCall, Typed DEF Idle
<1>3. QED  BY <1>1, <1>2, StepLocal DEF SameRepo

-----------------------------------------------------------------------------
(* A create, restore or purge, of a repository it has to itself.           *)

Owner(c) == call[c].op \in {"create", "restore", "purge"}

LEMMA OwnerAlone ==
    ASSUME TypeInv, WideInv, NEW c \in Calls, AnyStep(c), NEW u \in Uids, call[c].uid = u, Owner(c),
           u \notin strayed'
    PROVE  /\ \A d \in Calls \ {c} : call[d].uid # u /\ call'[d].uid # u
           /\ \A d \in Calls : ~Written(d, u) /\ ~Written(d, u)'
           /\ call'[c] = Idle \/ (call'[c].uid = u /\ call'[c].op = call[c].op
                                  /\ call'[c].name = call[c].name /\ call'[c].was = call[c].was)
<1>1. u \notin Strays(call) /\ \A d \in Calls \ {c} : call'[d] = call[d]
  BY StepCall, StepLocal DEF WideInv
<1>2. \A d \in Calls \ {c} : call[d].uid # u
  BY <1>1 DEF Strays, Owner
<1>3. call'[c] = Idle \/ (call'[c].uid = u /\ call'[c].op = call[c].op
                          /\ call'[c].name = call[c].name /\ call'[c].was = call[c].was)
  BY StepCall
<1>4. \A d \in Calls : ~Written(d, u)
  BY <1>2 DEF Written, Owner
<1>5. \A d \in Calls : ~Written(d, u)'
  <2>1. ~Written(c, u)'
    BY <1>3 DEF Written, Owner, Idle
  <2>2. \A d \in Calls \ {c} : ~Written(d, u)'
    BY <1>1, <1>2 DEF Written
  <2>3. QED  BY <2>1, <2>2
<1>6. QED  BY <1>1, <1>2, <1>3, <1>4, <1>5

LEMMA OwnerKnows ==
    ASSUME TypeInv, NEW c \in Calls, NEW u \in Uids, call[c].uid = u, Owner(c), Kept(u)
    PROVE  /\ u \notin unavailable /\ Owns(c, u)
           /\ call[c].op = "create" => Creates(c, u)
           /\ call[c].op = "restore" => Restores(c, u)
           /\ call[c].op = "purge" => Purges(c, u)
BY DEF Kept, CallsInOrder, Owner

(* How a step leaves a repository that is not served and is not put back.  *)
Leaves(c, u) ==
    /\ (Active(u) /\ files[u] # NoFile)' => call'[c].op \in {"create", "restore"}
    /\ call'[c] # Idle =>
         /\ call'[c].pc \notin Installed
         /\ call'[c].pc = "add" => Active(u)'
         /\ call[c].op = "create" => Creates(c, u)'
         /\ call[c].op = "restore" => Restores(c, u)'
         /\ call[c].op = "purge" => Purges(c, u)'
    /\ FilesKept(u)'
    /\ ~Active(u)' => RefsRepo(u) = {}
    /\ (Active(u) /\ files[u] # NoFile /\ rows[u].name \notin shadowed)' => lenses[rows'[u].name] = {}

LEMMA UnservedStays ==
    ASSUME TypeInv, WideInv, NEW c \in Calls, AnyStep(c), NEW u \in Uids, call[c].uid = u, Owner(c),
           u \notin strayed', Kept(u), unavailable' \subseteq unavailable, byUID'[u] = 0,
           \A n \in Names : ~Served(n, u)', Leaves(c, u)
    PROVE  Kept(u)'
<1>0. /\ u \notin unavailable'
      /\ \A d \in Calls \ {c} : call'[d].uid # u
      /\ call'[c] = Idle \/ (call'[c].uid = u /\ call'[c].op = call[c].op)
      /\ lenses' = lenses /\ shadowed' = shadowed
      /\ NoUid \notin Uids
  BY OwnerAlone, OwnerKnows, StepLocal, Typed
<1>1. MapsAgree(u)'
  BY <1>0 DEF MapsAgree
<1>2. Present(u)'
  <2>1. call'[c].op \in {"create", "restore"} => call'[c].uid = u
    BY <1>0 DEF Idle
  <2>2. QED  BY <2>1 DEF Present, Leaves
<1>3. CallsInOrder(u)'
  <2> SUFFICES ASSUME NEW d \in Calls, call'[d].uid = u
               PROVE  /\ u \notin unavailable'
                      /\ call'[d].op \in {"create", "restore", "purge"} => Owns(d, u)'
                      /\ call'[d].op = "create" => Creates(d, u)'
                      /\ call'[d].op = "restore" => Restores(d, u)'
                      /\ call'[d].op = "purge" => Purges(d, u)'
    BY DEF CallsInOrder
  <2>1. d = c /\ call'[c] # Idle /\ call'[c].op = call[c].op
    BY <1>0 DEF Idle
  <2>2. Owns(c, u)'
    BY <2>1 DEF Owns, Leaves, Installed
  <2>3. QED  BY <1>0, <2>1, <2>2 DEF Leaves
<1>4. RenamesLead(u)' /\ Recorded(u)' /\ FilesKept(u)' /\ LensesKnow(u)'
  BY <1>0 DEF RenamesLead, Recorded, Leaves, LensesKnow, RefsRepo
<1>5. QED  BY <1>1, <1>2, <1>3, <1>4 DEF Kept

(* A step that leaves the maps alone, of a repository that is not served.  *)
LEMMA UnservedQuiet ==
    ASSUME TypeInv, WideInv, NEW c \in Calls, AnyStep(c), NEW u \in Uids, call[c].uid = u, Owner(c),
           u \notin strayed', Kept(u), MapsSame(c), byUID[u] = 0, Leaves(c, u)
    PROVE  Kept(u)'
<1>1. /\ unavailable' \subseteq unavailable /\ byUID'[u] = 0
      /\ \A n \in Names : Served(n, u)' <=> Served(n, u)
  BY DEF MapsSame, Served
<1>2. \A n \in Names : ~Served(n, u)
  BY DEF Kept, MapsAgree, Served
<1>3. QED  BY <1>1, <1>2, UnservedStays

(* The checks before anything is done.                                     *)
LEMMA ChecksKeep ==
    ASSUME TypeInv, WideInv, NEW c \in Calls, AnyStep(c), NEW u \in Uids, call[c].uid = u, Owner(c),
           u \notin strayed', Kept(u), Reserve(c) \/ Scan(c) \/ Check(c)
    PROVE  Kept(u)'
<1>1. call[c].pc \in {"reserve", "scan", "check"} /\ call[c].op \in {"create", "restore"}
  BY Typed DEF Reserve, Scan, Check, Reaches, Owner, Stage, PurgeSteps
<1>2. /\ byUID[u] = 0 /\ ~Active(u)
      /\ call[c].op = "create" => ~Row(u) /\ files[u] = NoFile /\ u \notin born /\ call[c].pc \in Early
      /\ call[c].op = "restore" => (Row(u) => rows[u].name = call[c].was)
  <2>1. call[c].op = "create" => call[c].pc \in Early
    BY <1>1, Typed DEF Stage, CreateSteps, Early
  <2>2. QED  BY <1>1, <2>1, OwnerKnows DEF Owns, Creates, Restores, Pending, Installed, Row, Active
<1>3. rows' = rows /\ files' = files /\ born' = born /\ MapsSame(c)
  BY <1>1 DEF Reserve, Scan, Check, registry, maps, MapsSame, Reaches
<1>4. \/ call'[c] = Idle
      \/ /\ call'[c].op = call[c].op /\ call'[c].uid = u /\ call'[c].name = call[c].name
         /\ call'[c].was = call[c].was
         /\ \/ call[c].op = "create" /\ call'[c].pc \in Early
            \/ /\ call[c].op = "restore"
               /\ \/ call'[c].pc \in Pending
                  \/ call'[c].pc = "activate" /\ call[c].name = call[c].was
  <2>1. CASE Return(c)
    BY <2>1, StepPc
  <2>2. CASE \E p : Go(c, p) /\ \/ call[c].op = "create" /\ p \in Early
                                \/ /\ call[c].op = "restore"
                                   /\ p \in Pending \/ (p = "activate" /\ call[c].name = call[c].was)
    BY <2>2, StepPc
  <2>3. CASE Reserve(c)
    <3>1. call[c].op = "restore"
      BY <2>3, <1>1, Typed DEF Reserve, Reaches, Stage, CreateSteps
    <3>2. QED  BY <2>1, <2>2, <2>3, <3>1 DEF Reserve, Pending
  <2>4. CASE Scan(c)
    BY <1>1, <2>1, <2>2, <2>4 DEF Scan, Pending, Early
  <2>5. CASE Check(c)
    <3>1. CASE call[c].op = "create"
      BY <2>1, <2>2, <2>5, <3>1 DEF Check, Early
    <3>2. CASE call[c].op = "restore"
      BY <2>1, <2>2, <2>5, <3>2 DEF Check, Pending
    <3>3. QED  BY <1>1, <3>1, <3>2
  <2>6. QED  BY <2>3, <2>4, <2>5
<1>5. FilesKept(u) /\ LensesKnow(u) /\ Owns(c, u)
      /\ (call[c].op = "create" => Creates(c, u)) /\ (call[c].op = "restore" => Restores(c, u))
  BY OwnerKnows DEF Kept
<1>6. Leaves(c, u)
  <2>1. FilesKept(u)' /\ ~Active(u)' /\ RefsRepo(u) = {} /\ RefsRepo(u)' = {}
    BY <1>2, <1>3, <1>5, StepLocal DEF FilesKept, LensesKnow, Row, Active, RefsRepo
  <2>2. ASSUME call'[c] # Idle, call[c].op = "create" PROVE call'[c].pc \in Early /\ Creates(c, u)'
    BY <1>2, <1>3, <1>4, <2>2 DEF Creates, Early, Row, Active
  <2>3. ASSUME call'[c] # Idle, call[c].op = "restore"
        PROVE  call'[c].pc \in Pending \cup {"activate"} /\ Restores(c, u)'
    BY <1>2, <1>3, <1>4, <2>1, <2>3 DEF Restores, Pending, Row, Active
  <2>4. QED  BY <1>1, <2>1, <2>2, <2>3 DEF Leaves, Early, Pending, Installed
<1>7. QED  BY <1>2, <1>3, <1>6, UnservedQuiet

(* What an owner that has written the row knows of its repository.         *)
LEMMA RowKnown ==
    ASSUME TypeInv, WideInv, NEW c \in Calls, NEW u \in Uids, call[c].uid = u, Owner(c), Kept(u),
           call[c].pc \in {"add", "get", "record", "conflict"}
    PROVE  /\ call[c].op \in {"create", "restore"} /\ call[c].name \in Names
           /\ Row(u) => rows[u].name = call[c].name
           /\ call[c].op = "create" => u \notin born
           /\ call[c].op = "restore" => RefsRepo(u) = {}
           /\ lenses[call[c].name] = {}
           /\ \A n \in Names : Served(n, u) => n = call[c].name /\ byUID[u] = repos[n] /\ repos[n] # 0
<1>1. call[c].op \in {"create", "restore"} /\ call[c].name \in Names /\ Claims(c)
  BY Typed DEF Owner, Stage, PurgeSteps, Reserving, Claims
<1>2. /\ Row(u) => rows[u].name = call[c].name
      /\ call[c].op = "create" => u \notin born
      /\ call[c].op = "restore" => RefsRepo(u) = {}
  BY <1>1, OwnerKnows DEF Creates, Restores, Pending
<1>3. lenses[call[c].name] = {}
  BY <1>1 DEF WideInv, NamesHeld
<1>4. ASSUME NEW n \in Names, Served(n, u) PROVE n = call[c].name /\ byUID[u] = repos[n] /\ repos[n] # 0
  <2>1. byUID[u] = repos[n] /\ repos[n] # 0
    BY <1>4 DEF Kept, MapsAgree, Served
  <2>2. call[c].pc \in Installed /\ Served(call[c].name, u)
    BY <2>1, OwnerKnows DEF Owns
  <2>3. repos[call[c].name] = repos[n]
    BY <1>1, <2>1, <2>2 DEF Kept, MapsAgree
  <2>4. QED  BY <1>1, <2>1, <2>3 DEF WideInv, Instances
<1>5. QED  BY <1>1, <1>2, <1>3, <1>4

LEMMA AddKeeps ==
    ASSUME TypeInv, WideInv, NEW c \in Calls, AnyStep(c), NEW u \in Uids, call[c].uid = u, Owner(c),
           u \notin strayed', Kept(u), Add(c)
    PROVE  Kept(u)'
<1>0. /\ call[c].pc = "add" /\ byUID[u] = 0 /\ Active(u) /\ Row(u) /\ u \notin unavailable
      /\ call[c].op \in {"create", "restore"} /\ call[c].name \in Names /\ rows[u].name = call[c].name
      /\ call[c].op = "create" => u \notin born
      /\ call[c].op = "restore" => RefsRepo(u) = {}
      /\ lenses[call[c].name] = {}
  BY OwnerKnows, RowKnown DEF Owns, Installed, Add, Reaches, Active, Row
<1>1. /\ rows' = rows /\ files' = files /\ born' = born /\ unavailable' = unavailable
      /\ lenses' = lenses /\ shadowed' = shadowed
  BY DEF Add, registry
<1>2. /\ FilesKept(u)' /\ Active(u)' /\ Row(u)' /\ rows'[u].name = call[c].name /\ u \notin unavailable'
      /\ RefsRepo(u)' = RefsRepo(u)
  BY <1>0, <1>1 DEF Kept, FilesKept, Active, Row, RefsRepo
<1>3. CASE UNCHANGED <<opened, repos, byUID>> /\ Go(c, IF call[c].op = "create" THEN "unfile" ELSE "rearchive")
  <2>1. MapsSame(c)
    BY <1>0, <1>1, <1>3 DEF MapsSame, Reaches
  <2>2. /\ call'[c].pc = IF call[c].op = "create" THEN "unfile" ELSE "rearchive"
        /\ call'[c].op = call[c].op /\ call'[c].name = call[c].name
    BY <1>3, StepPc
  <2>3. call[c].op = "create" => Creates(c, u)'
    BY <1>0, <1>1, <1>2, <2>2 DEF Creates, Early
  <2>4. call[c].op = "restore" => Restores(c, u)'
    BY <1>0, <1>2, <2>2 DEF Restores, Pending
  <2>5. Leaves(c, u)
    BY <1>0, <1>1, <1>2, <2>2, <2>3, <2>4 DEF Leaves, Installed
  <2>6. QED  BY <1>0, <2>1, <2>5, UnservedQuiet
<1>4. CASE files[u] # NoFile /\ Serve(u, call[c].name, Len(opened) + 1) /\ Go(c, "get")
  <2>1. Serves(c)
    <3>1. repos[call[c].name] = 0
      BY <1>0 DEF WideInv, NamesHeld, Claims, Installed, Reserving
    <3>2. QED  BY <1>0, <1>1, <1>4, <3>1, StepPc, Typed DEF Serve, Serves, Reaches, DataTyped
  <2>2. /\ \A n \in Names : Served(n, u)' <=> n = call[c].name
        /\ repos'[call[c].name] = Len(opened) + 1 /\ byUID'[u] = Len(opened) + 1
        /\ Len(opened) + 1 # 0
    <3>1. \A n \in Names : ~Served(n, u)
      BY <1>0 DEF Kept, MapsAgree, Served
    <3>2. Len(opened) + 1 # 0
      BY Typed
    <3>3. QED  BY <1>0, <2>1, <3>1, <3>2, AfterServes
  <2>3. call'[c].pc = "get" /\ call'[c].op = call[c].op /\ call'[c].name = call[c].name /\ call'[c].uid = u
    BY <1>4, StepPc
  <2>4. MapsAgree(u)'
    BY <1>0, <1>2, <2>2 DEF MapsAgree
  <2>5. Present(u)'
    BY <2>2 DEF Present
  <2>6. CallsInOrder(u)'
    <3>1. Owns(c, u)'
      BY <1>0, <1>1, <1>2, <1>4, <2>2, <2>3 DEF Owns, Installed
    <3>2. call[c].op = "create" => Creates(c, u)'
      BY <1>0, <1>1, <1>2, <2>3 DEF Creates, Early
    <3>3. call[c].op = "restore" => Restores(c, u)'
      BY <1>0, <1>2, <2>3 DEF Restores, Pending
    <3>4. \A d \in Calls : call'[d].uid = u => d = c
      BY OwnerAlone
    <3>5. QED  BY <1>0, <1>2, <2>3, <3>1, <3>2, <3>3, <3>4 DEF CallsInOrder
  <2>7. RenamesLead(u)'
    BY <1>2, <2>2, OwnerAlone DEF RenamesLead
  <2>8. Recorded(u)'
    BY <2>3 DEF Recorded, Installed
  <2>9. LensesKnow(u)'
    BY <1>0, <1>1, <1>2, <2>2 DEF LensesKnow
  <2>10. QED  BY <1>2, <2>4, <2>5, <2>6, <2>7, <2>8, <2>9 DEF Kept
<1>5. QED  BY <1>3, <1>4 DEF Add

LEMMA GetKeeps ==
    ASSUME TypeInv, WideInv, NEW c \in Calls, AnyStep(c), NEW u \in Uids, call[c].uid = u, Owner(c),
           u \notin strayed', Kept(u), GetBack(c)
    PROVE  Kept(u)'
<1>0. /\ call[c].pc = "get" /\ u \notin unavailable /\ files[u] # NoFile
      /\ Active(u) <=> byUID[u] # 0
      /\ byUID[u] # 0 => Served(call[c].name, u)
      /\ call[c].op \in {"create", "restore"} /\ call[c].name \in Names
      /\ Row(u) => rows[u].name = call[c].name
      /\ call[c].op = "create" => u \notin born
      /\ call[c].op = "restore" => RefsRepo(u) = {}
  BY OwnerKnows, RowKnown DEF Owns, Installed, GetBack, Reaches
<1>1. /\ rows' = rows /\ files' = files /\ UNCHANGED <<opened, repos, byUID, unavailable>>
      /\ lenses' = lenses /\ shadowed' = shadowed /\ unrecorded' = unrecorded /\ boot' = boot
  BY DEF GetBack, registry, maps
<1>2. \A n \in Names : Served(n, u)' <=> Served(n, u)
  BY <1>1 DEF Served
<1>3. FilesKept(u)'
  BY <1>0, <1>1 DEF FilesKept
<1>4. /\ MapsAgree(u)' /\ LensesKnow(u)'
  BY <1>1, <1>2 DEF Kept, MapsAgree, LensesKnow, Active, RefsRepo
<1>5. RenamesLead(u)'
  <2>1. \A n \in Names : Served(n, u)' => rows'[u].name = n
    <3>1. \A n \in Names : Served(n, u) => n = call[c].name /\ Row(u)
      BY <1>0, RowKnown DEF Row, Active
    <3>2. QED  BY <1>0, <1>1, <1>2, <3>1
  <2>2. QED  BY <2>1, OwnerAlone DEF RenamesLead
<1>6. CASE repos[call[c].name] = 0
  <2>1. byUID[u] = 0 /\ ~Active(u) /\ Return(c) /\ call[c].pc = "get"
    BY <1>0, <1>6 DEF Served, GetBack
  <2>2. call'[c] = Idle
    BY <2>1, StepPc
  <2>3. Present(u)' /\ Recorded(u)'
    BY <1>1, <1>2, <2>1 DEF Present, Recorded, Active, Kept, MapsAgree, Served
  <2>4. CallsInOrder(u)'
    BY <2>2, OwnerAlone, Typed DEF CallsInOrder, Idle
  <2>5. QED  BY <1>3, <1>4, <1>5, <2>3, <2>4 DEF Kept
<1>7. CASE repos[call[c].name] # 0
  <2>1. /\ call'[c].pc = "record" /\ call'[c].op = call[c].op /\ call'[c].name = call[c].name
        /\ call'[c].uid = u /\ call'[c].inst = repos[call[c].name] /\ born' = born
    <3>1. call' = [call EXCEPT ![c] = [call[c] EXCEPT !.pc = "record", !.inst = repos[call[c].name]]]
          /\ born' = born
      BY <1>7 DEF GetBack, Become
    <3>2. call[c] \in CallSet /\ c \in DOMAIN call
      BY Typed, CallAt DEF CallsTyped
    <3>3. QED  BY <3>1, <3>2 DEF CallSet
  <2>2. Present(u)' /\ Recorded(u)'
    BY <1>0, <1>1, <1>2, <2>1 DEF Present, Recorded, Installed, Active
  <2>3. CallsInOrder(u)'
    <3>1. Owns(c, u)'
      <4>1. byUID[u] # 0 => byUID[u] = repos[call[c].name]
        BY <1>0 DEF Kept, MapsAgree
      <4>2. byUID'[u] # 0 => Served(call[c].name, u)'
        BY <1>0, <1>1, <1>2, <2>1
      <4>3. QED  BY <1>0, <1>1, <2>1, <4>1, <4>2 DEF Owns, Installed, Active
    <3>2. call[c].op = "create" => Creates(c, u)'
      BY <1>0, <1>1, <2>1 DEF Creates, Early, Row
    <3>3. call[c].op = "restore" => Restores(c, u)'
      BY <1>0, <1>1, <2>1 DEF Restores, Pending, Row, RefsRepo
    <3>4. \A d \in Calls : call'[d].uid = u => d = c
      BY OwnerAlone
    <3>5. QED  BY <1>0, <1>1, <2>1, <3>1, <3>2, <3>3, <3>4 DEF CallsInOrder
  <2>4. QED  BY <1>3, <1>4, <1>5, <2>2, <2>3 DEF Kept
<1>8. QED  BY <1>6, <1>7

LEMMA RecordKeeps ==
    ASSUME TypeInv, WideInv, NEW c \in Calls, AnyStep(c), NEW u \in Uids, call[c].uid = u, Owner(c),
           u \notin strayed', Kept(u), Record(c)
    PROVE  Kept(u)'
<1>0. /\ call[c].pc = "record" /\ u \notin unavailable /\ files[u] # NoFile
      /\ Active(u) <=> byUID[u] # 0
      /\ byUID[u] # 0 => Served(call[c].name, u)
      /\ byUID[u] # 0 => call[c].inst = byUID[u]
      /\ call[c].op \in {"create", "restore"} /\ call[c].name \in Names
      /\ Row(u) => rows[u].name = call[c].name
      /\ call[c].op = "create" => u \notin born
      /\ call[c].op = "restore" => RefsRepo(u) = {}
  BY OwnerKnows, RowKnown DEF Owns, Installed, Record, Reaches
<1>1. /\ files' = files /\ UNCHANGED <<opened, repos, byUID, unavailable>>
      /\ lenses' = lenses /\ shadowed' = shadowed /\ boot' = boot
  BY DEF Record, maps
<1>2. \A n \in Names : Served(n, u)' <=> Served(n, u)
  BY <1>1 DEF Served
<1>3. \/ /\ rows' = rows /\ unrecorded' = unrecorded /\ born' = born /\ Go(c, "conflict")
      \/ /\ Return(c)
         /\ \/ rows' = rows /\ (~Row(u) \/ u \in unrecorded')
            \/ Row(u) /\ rows' = [rows EXCEPT ![u].kb = opened[call[c].inst].kb]
  BY DEF Record, RecordRepoID
<1>4. /\ rows'[u].state = rows[u].state /\ (Row(u) => rows'[u].name = rows[u].name)
      /\ rows' = rows \/ (Row(u) /\ RowAfter(u, rows[u].state, rows[u].name, opened[call[c].inst].kb))
  BY <1>3, Edited DEF RowAfter
<1>5. (Active(u)' <=> Active(u)) /\ (Row(u)' <=> Row(u))
  BY <1>4 DEF Active, Row
<1>6. FilesKept(u)'
  BY <1>0, <1>1 DEF FilesKept
<1>7. MapsAgree(u)'
  BY <1>1, <1>2, <1>5 DEF Kept, MapsAgree
<1>8. LensesKnow(u)'
  <2>1. Active(u) => rows'[u].name = rows[u].name
    BY <1>4 DEF Active, Row
  <2>2. QED  BY <1>1, <1>2, <1>5, <2>1 DEF Kept, LensesKnow, RefsRepo
<1>9. Present(u)'
  BY <1>0, <1>1, <1>5 DEF Present
<1>10. RenamesLead(u)'
  <2>1. \A n \in Names : Served(n, u)' => rows'[u].name = n
    <3>1. \A n \in Names : Served(n, u) => n = call[c].name /\ Row(u)
      BY <1>0, RowKnown DEF Row, Active
    <3>2. QED  BY <1>0, <1>2, <1>4, <3>1
  <2>2. QED  BY <2>1, OwnerAlone DEF RenamesLead
<1>11. CASE Go(c, "conflict") /\ rows' = rows /\ born' = born
  <2>1. /\ call'[c].pc = "conflict" /\ call'[c].op = call[c].op /\ call'[c].name = call[c].name
        /\ call'[c].uid = u
    BY <1>11, StepPc
  <2>2. Recorded(u)'
    BY <2>1 DEF Recorded, Installed
  <2>3. CallsInOrder(u)'
    <3>1. Owns(c, u)'
      <4>1. byUID'[u] # 0 => Served(call[c].name, u)'
        BY <1>0, <1>1, <1>2, <2>1
      <4>2. QED  BY <1>0, <1>1, <1>5, <2>1, <4>1 DEF Owns, Installed
    <3>2. call[c].op = "create" => Creates(c, u)'
      BY <1>0, <1>11, <2>1 DEF Creates, Early, Row
    <3>3. call[c].op = "restore" => Restores(c, u)'
      BY <1>0, <1>1, <1>11, <2>1 DEF Restores, Pending, Row, RefsRepo
    <3>4. \A d \in Calls : call'[d].uid = u => d = c
      BY OwnerAlone
    <3>5. QED  BY <1>0, <1>1, <2>1, <3>1, <3>2, <3>3, <3>4 DEF CallsInOrder
  <2>4. QED  BY <1>6, <1>7, <1>8, <1>9, <1>10, <2>2, <2>3 DEF Kept
<1>12. CASE /\ Return(c)
            /\ \/ rows' = rows /\ (~Row(u) \/ u \in unrecorded')
               \/ Row(u) /\ rows' = [rows EXCEPT ![u].kb = opened[call[c].inst].kb]
  <2>1. call'[c] = Idle
    BY <1>12, StepPc
  <2>2. CallsInOrder(u)'
    BY <2>1, OwnerAlone, Typed DEF CallsInOrder, Idle
  <2>3. Recorded(u)'
    <3> SUFFICES ASSUME NEW n \in Names, Served(n, u), u \notin unrecorded'
                 PROVE  rows'[u].kb = opened'[repos'[n]].kb
      BY <1>2 DEF Recorded
    <3>1. byUID[u] = repos[n] /\ byUID[u] # 0
      BY DEF Kept, MapsAgree, Served
    <3>2. Row(u) /\ call[c].inst = repos[n]
      BY <1>0, <3>1 DEF Row, Active
    <3>3. RowAfter(u, rows[u].state, rows[u].name, opened[call[c].inst].kb)
      BY <1>12, <3>2, Edited
    <3>4. QED  BY <1>1, <3>2, <3>3 DEF RowAfter
  <2>4. QED  BY <1>6, <1>7, <1>8, <1>9, <1>10, <2>2, <2>3 DEF Kept
<1>13. QED  BY <1>3, <1>11, <1>12

LEMMA RemoveKeeps ==
    ASSUME TypeInv, WideInv, NEW c \in Calls, AnyStep(c), NEW u \in Uids, call[c].uid = u, Owner(c),
           u \notin strayed', Kept(u), Remove(c)
    PROVE  Kept(u)'
<1>0. /\ call[c].pc = "conflict" /\ u \notin unavailable
      /\ Active(u) <=> byUID[u] # 0
      /\ byUID[u] # 0 => Served(call[c].name, u)
      /\ call[c].op \in {"create", "restore"} /\ call[c].name \in Names
      /\ Row(u) => rows[u].name = call[c].name
      /\ call[c].op = "create" => u \notin born
      /\ call[c].op = "restore" => RefsRepo(u) = {}
      /\ lenses[call[c].name] = {}
  BY OwnerKnows, RowKnown DEF Owns, Installed, Remove, Reaches
<1>1. /\ rows' = rows /\ files' = files /\ born' = born /\ lenses' = lenses /\ shadowed' = shadowed
      /\ Go(c, IF call[c].op = "create" THEN "unfile" ELSE "rearchive")
  BY DEF Remove, registry
<1>2. /\ call'[c].pc = IF call[c].op = "create" THEN "unfile" ELSE "rearchive"
      /\ call'[c].op = call[c].op /\ call'[c].name = call[c].name
  BY <1>1, StepPc
<1>3. unavailable' \subseteq unavailable /\ byUID'[u] = 0 /\ \A n \in Names : ~Served(n, u)'
  <2>1. CASE Served(call[c].name, u)
    <3>1. Unserves(c)
      <4>1. Reaches(c, "conflict") /\ repos[call[c].name] # 0 /\ opened[repos[call[c].name]].uid = u
        BY <1>0, <2>1 DEF Served, Reaches
      <4>2. QED  BY <1>2, <2>1, <4>1 DEF Remove, Unserves
    <3>2. \A n \in Names : Served(n, u) => n = call[c].name
      BY <1>0, RowKnown
    <3>3. QED  BY <1>0, <3>1, <3>2, AfterUnserves DEF Unserves
  <2>2. CASE ~Served(call[c].name, u)
    <3>1. byUID[u] = 0 /\ repos[call[c].name] = 0
      BY <1>0, <2>2 DEF WideInv, NamesHeld, Claims, Reserving
    <3>2. UNCHANGED <<opened, byUID, unavailable>> /\ \A n \in Names : repos'[n] = repos[n]
      BY <1>0, <3>1, Typed DEF Remove, DataTyped
    <3>3. \A n \in Names : ~Served(n, u)
      BY <3>1 DEF Kept, MapsAgree, Served
    <3>4. QED  BY <3>1, <3>2, <3>3 DEF Served
  <2>3. QED  BY <2>1, <2>2
<1>4. Leaves(c, u)
  <2>1. FilesKept(u)' /\ LensesKnow(u)
    BY <1>1 DEF Kept, FilesKept, LensesKnow, Row
  <2>2. call[c].op = "create" => Creates(c, u)'
    BY <1>0, <1>1, <1>2 DEF Creates, Early, Row
  <2>3. call[c].op = "restore" => Restores(c, u)'
    BY <1>0, <1>1, <1>2 DEF Restores, Pending, Row, RefsRepo
  <2>4. QED  BY <1>0, <1>1, <1>2, <2>1, <2>2, <2>3 DEF Leaves, Installed, LensesKnow, Active, Row
<1>5. QED  BY <1>3, <1>4, UnservedStays

(* The steps of a create between its checks and its instance.              *)
LEMMA CreateKeeps ==
    ASSUME TypeInv, WideInv, NEW c \in Calls, AnyStep(c), NEW u \in Uids, call[c].uid = u, Owner(c),
           u \notin strayed', Kept(u),
           Insert(c) \/ InitStore(c) \/ PersistOrigin(c) \/ RemoveFile(c) \/ RemoveRow(c)
    PROVE  Kept(u)'
<1>0. /\ call[c].op = "create" /\ call[c].pc \in {"insert", "init", "origin", "unfile", "unrow"}
      /\ call[c].name \in Names
      /\ Claims(c) /\ lenses[call[c].name] = {}
  <2>1. call[c].op = "create" /\ call[c].pc \in {"insert", "init", "origin", "unfile", "unrow"}
    BY DEF Insert, InitStore, PersistOrigin, RemoveFile, RemoveRow, At
  <2>2. Claims(c)
    BY <2>1 DEF Claims, Reserving
  <2>3. QED  BY <2>1, <2>2, Typed DEF WideInv, NamesHeld, Reserving
<1>1. /\ byUID[u] = 0 /\ u \notin born /\ LensesKnow(u) /\ FilesKept(u)
      /\ call[c].pc = "insert" => ~Row(u) /\ files[u] = NoFile
      /\ call[c].pc \in {"init", "origin"} => Active(u)
      /\ call[c].pc \in {"init", "unrow"} => files[u] = NoFile
      /\ Row(u) => rows[u].name = call[c].name
  BY <1>0, OwnerKnows DEF Owns, Creates, Installed, Early, Kept
<1>2. born' = born /\ lenses' = lenses /\ shadowed' = shadowed /\ MapsSame(c)
  <2>1. UNCHANGED maps /\ born' = born
    BY DEF Insert, InitStore, PersistOrigin, RemoveFile, RemoveRow
  <2>2. QED  BY <1>0, <2>1, StepLocal DEF maps, MapsSame, Reaches
<1>3. FilesKept(u)'
  BY <1>1, <1>2 DEF FilesKept
<1>4. DataTyped
  BY Typed
<1> DEFINE Goes1(p) == /\ call'[c].pc = p /\ call'[c].op = "create" /\ call'[c].name = call[c].name
<1>5. /\ \A p : Go(c, p) => Goes1(p)
      /\ Return(c) => call'[c] = Idle
  BY <1>0, StepPc
<1>6. CASE Insert(c)
  <2>1. CASE Return(c) /\ rows' = rows
    <3>1. files' = files /\ ~Active(u)'
      BY <1>1, <1>6, <2>1 DEF Insert, At, Active, Row
    <3>2. ~Active(u)
      BY <1>1, <1>6 DEF Insert, At, Active, Row
    <3>3. Leaves(c, u)
      BY <1>1, <1>3, <1>5, <2>1, <3>1, <3>2 DEF Leaves, LensesKnow
    <3>4. QED  BY <1>1, <1>2, <3>3, UnservedQuiet
  <2>2. CASE /\ Go(c, "init")
             /\ rows' = [rows EXCEPT ![u] = [NoRow EXCEPT !.state = "active", !.name = call[c].name]]
    <3>1. files' = files /\ files[u] = NoFile
      BY <1>1, <1>6 DEF Insert, At
    <3>2. rows'[u].state = "active" /\ rows'[u].name = call[c].name
      BY <1>4, <2>2 DEF NoRow, DataTyped
    <3>3. Leaves(c, u)
      BY <1>0, <1>1, <1>2, <1>3, <1>5, <2>2, <3>1, <3>2 DEF Leaves, Creates, Early, Installed, Active, Row
    <3>4. QED  BY <1>1, <1>2, <3>3, UnservedQuiet
  <2>3. QED  BY <1>6, <2>1, <2>2 DEF Insert
<1>7. CASE InitStore(c)
  <2>1. call[c].pc = "init" /\ rows' = rows /\ Active(u) /\ Row(u)
    BY <1>1, <1>7 DEF InitStore, At, registry, Active, Row
  <2>2. \E p \in {"add", "origin", "unfile"} : Goes1(p)
    BY <1>5, <1>7 DEF InitStore
  <2>3. call'[c].op = "create" /\ call'[c].name = call[c].name /\ call'[c].pc \in {"add", "origin", "unfile"}
    BY <2>2
  <2>4. Creates(c, u)'
    BY <1>1, <1>2, <2>1, <2>3 DEF Creates, Early, Active, Row
  <2>5. Leaves(c, u)
    BY <1>0, <1>1, <1>3, <2>1, <2>3, <2>4 DEF Leaves, Installed, Active, Row
  <2>6. QED  BY <1>1, <1>2, <2>5, UnservedQuiet
<1>8. CASE PersistOrigin(c)
  <2>1. call[c].pc = "origin" /\ files' = files /\ Active(u) /\ Row(u)
    BY <1>1, <1>8 DEF PersistOrigin, At, Active, Row
  <2>2. rows'[u].state = rows[u].state /\ rows'[u].name = rows[u].name
    BY <1>8, <2>1, Edited DEF PersistOrigin, RowAfter
  <2>3. \E p \in {"add", "unfile"} : Goes1(p)
    BY <1>5, <1>8 DEF PersistOrigin
  <2>4. call'[c].op = "create" /\ call'[c].name = call[c].name /\ call'[c].pc \in {"add", "unfile"}
    BY <2>3
  <2>5. Creates(c, u)'
    BY <1>1, <1>2, <2>1, <2>2, <2>4 DEF Creates, Early, Active, Row
  <2>6. Leaves(c, u)
    BY <1>0, <1>1, <1>3, <2>1, <2>2, <2>4, <2>5 DEF Leaves, Installed, Active, Row
  <2>7. QED  BY <1>1, <1>2, <2>6, UnservedQuiet
<1>9. CASE RemoveFile(c)
  <2>1. rows' = rows /\ files'[u] = NoFile /\ Goes1("unrow")
    BY <1>4, <1>5, <1>9 DEF RemoveFile, registry, DataTyped
  <2>2. Creates(c, u)'
    BY <1>1, <1>2, <2>1 DEF Creates, Early, Row
  <2>3. Leaves(c, u)
    BY <1>0, <1>1, <1>3, <2>1, <2>2 DEF Leaves, Installed, Active, LensesKnow
  <2>4. QED  BY <1>1, <1>2, <2>3, UnservedQuiet
<1>10. CASE RemoveRow(c)
  <2>1. call'[c] = Idle /\ files'[u] = NoFile
    BY <1>1, <1>5, <1>10 DEF RemoveRow, At
  <2>2. rows' = rows \/ RefsRepo(u) = {}
    BY <1>10 DEF RemoveRow
  <2>3. Leaves(c, u)
    BY <1>1, <1>3, <2>1, <2>2 DEF Leaves, Active, LensesKnow
  <2>4. QED  BY <1>1, <1>2, <2>3, UnservedQuiet
<1>11. QED  BY <1>6, <1>7, <1>8, <1>9, <1>10

(* The steps of a restore before and after its instance.                   *)
LEMMA RestoreKeeps ==
    ASSUME TypeInv, WideInv, NEW c \in Calls, AnyStep(c), NEW u \in Uids, call[c].uid = u, Owner(c),
           u \notin strayed', Kept(u),
           RenameRow(c) \/ Activate(c) \/ Rearchive(c) \/ Unrename(c)
    PROVE  Kept(u)'
<1>0. /\ call[c].op = "restore" /\ call[c].pc \in {"rename", "activate", "rearchive", "unrename"}
      /\ call[c].name \in Names
      /\ Claims(c) /\ lenses[call[c].name] = {}
  <2>1. call[c].op = "restore" /\ call[c].pc \in {"rename", "activate", "rearchive", "unrename"}
    BY DEF RenameRow, Activate, Rearchive, Unrename, At
  <2>2. Claims(c)
    BY <2>1 DEF Claims, Reserving
  <2>3. QED  BY <2>1, <2>2, Typed DEF WideInv, NamesHeld, Reserving
<1>1. /\ byUID[u] = 0 /\ LensesKnow(u) /\ FilesKept(u) /\ RefsRepo(u) = {}
      /\ call[c].pc # "rearchive" => ~Active(u)
      /\ Row(u) /\ call[c].pc \in {"activate", "rearchive"} => rows[u].name = call[c].name
  BY <1>0, OwnerKnows DEF Owns, Restores, Pending, Installed, Kept
<1>2. files' = files /\ born' = born /\ lenses' = lenses /\ shadowed' = shadowed /\ MapsSame(c)
  <2>1. UNCHANGED maps /\ born' = born /\ files' = files
    BY DEF RenameRow, Activate, Rearchive, Unrename
  <2>2. QED  BY <1>0, <2>1, StepLocal DEF maps, MapsSame, Reaches
<1>3. RefsRepo(u)' = {}
  BY <1>1, <1>2 DEF RefsRepo
<1> DEFINE Goes1(p) == /\ call'[c].pc = p /\ call'[c].op = "restore" /\ call'[c].name = call[c].name
<1>4. /\ \A p : Go(c, p) => Goes1(p)
      /\ Return(c) => call'[c] = Idle
  BY <1>0, StepPc
<1>5. ASSUME NEW n, Row(u), rows' = [rows EXCEPT ![u].name = n]
      PROVE  rows'[u].state = rows[u].state /\ rows'[u].name = n
  <2>1. RowAfter(u, rows[u].state, n, rows[u].kb)
    BY <1>5, Edited
  <2>2. QED  BY <2>1 DEF RowAfter
<1>6. ASSUME NEW s, Row(u), rows' = [rows EXCEPT ![u].state = s]
      PROVE  rows'[u].state = s /\ rows'[u].name = rows[u].name
  <2>1. RowAfter(u, s, rows[u].name, rows[u].kb)
    BY <1>6, Edited
  <2>2. QED  BY <2>1 DEF RowAfter
<1> HIDE DEF Goes1
<1>7. ASSUME ~Active(u)', Row(u)' => Row(u),
             \/ call'[c] = Idle
             \/ Goes1("unrename")
             \/ Goes1("activate") /\ (Row(u)' => rows'[u].name = call[c].name)
      PROVE  Kept(u)'
  <2>1. FilesKept(u)'
    BY <1>1, <1>2, <1>7 DEF FilesKept
  <2>2. call'[c] # Idle => Restores(c, u)'
    BY <1>3, <1>7 DEF Restores, Pending, Goes1
  <2>3. Leaves(c, u)
    BY <1>0, <1>1, <1>7, <2>1, <2>2 DEF Leaves, Installed, Goes1
  <2>4. QED  BY <1>1, <1>2, <2>3, UnservedQuiet
<1>8. CASE RenameRow(c)
  <2>1. ~Active(u)
    BY <1>1, <1>8 DEF RenameRow, At
  <2>2. CASE Return(c) /\ rows' = rows
    BY <1>4, <1>7, <2>1, <2>2 DEF Active, Row
  <2>3. CASE Row(u) /\ rows' = [rows EXCEPT ![u].name = call[c].name] /\ Go(c, "activate")
    BY <1>4, <1>5, <1>7, <2>1, <2>3 DEF Active, Row
  <2>4. QED  BY <1>8, <2>2, <2>3 DEF RenameRow
<1>9. CASE Activate(c)
  <2>1. ~Active(u) /\ (Row(u) => rows[u].name = call[c].name)
    BY <1>1, <1>9 DEF Activate, At
  <2>2. CASE TakeBack(c) /\ rows' = rows
    BY <1>4, <1>7, <2>1, <2>2 DEF TakeBack, Active, Row
  <2>3. CASE Row(u) /\ rows' = [rows EXCEPT ![u].state = "active"] /\ Go(c, "add")
    <3>1. rows'[u].state = "active" /\ rows'[u].name = call[c].name /\ Goes1("add")
      BY <1>4, <1>6, <2>1, <2>3
    <3>2. FilesKept(u)'
      BY <1>1, <1>2, <2>3 DEF FilesKept
    <3>3. Restores(c, u)'
      BY <1>3, <3>1 DEF Restores, Pending, Goes1
    <3>4. Leaves(c, u)
      BY <1>0, <3>1, <3>2, <3>3 DEF Leaves, Installed, Active, Goes1
    <3>5. QED  BY <1>1, <1>2, <3>4, UnservedQuiet
  <2>4. QED  BY <1>9, <2>2, <2>3 DEF Activate, SetState
<1>10. CASE Rearchive(c)
  <2>1. rows' = SetState(u, "archived") /\ TakeBack(c)
    BY <1>10 DEF Rearchive
  <2>2. ~Active(u)' /\ (Row(u)' => Row(u))
    BY <1>6, <2>1 DEF SetState, Active, Row
  <2>3. QED  BY <1>4, <1>7, <2>1, <2>2 DEF TakeBack
<1>11. CASE Unrename(c)
  <2>1. ~Active(u)
    BY <1>1, <1>11 DEF Unrename, At
  <2>2. rows' = rows \/ (Row(u) /\ rows' = [rows EXCEPT ![u].name = call[c].was])
    BY <1>11 DEF Unrename
  <2>3. ~Active(u)' /\ (Row(u)' => Row(u))
    BY <1>5, <2>1, <2>2 DEF Active, Row
  <2>4. QED  BY <1>4, <1>7, <1>11, <2>3 DEF Unrename
<1>12. QED  BY <1>8, <1>9, <1>10, <1>11

LEMMA PurgeKeeps ==
    ASSUME TypeInv, WideInv, NEW c \in Calls, AnyStep(c), NEW u \in Uids, call[c].uid = u, Owner(c),
           u \notin strayed', Kept(u), DeleteRow(c) \/ Unlink(c)
    PROVE  Kept(u)'
<1>0. call[c].op = "purge" /\ call[c].pc \in {"delete", "unlink"}
  BY DEF DeleteRow, Unlink, At
<1>1. /\ byUID[u] = 0 /\ LensesKnow(u) /\ FilesKept(u) /\ ~Active(u)
      /\ call[c].pc = "unlink" => ~Row(u)
  BY <1>0, OwnerKnows DEF Owns, Purges, Installed, Kept
<1>2. RefsRepo(u) = {} /\ DataTyped
  BY <1>1, Typed DEF LensesKnow
<1>3. CASE DeleteRow(c)
  <2>1. \/ rows' = [rows EXCEPT ![u] = NoRow] /\ unavailable' = unavailable \ {u} /\ Go(c, "unlink")
        \/ rows' = rows /\ unavailable' = unavailable /\ Return(c)
    BY <1>3 DEF DeleteRow
  <2>2. UNCHANGED <<opened, repos, byUID>> /\ files' = files /\ born' = born
    BY <1>3 DEF DeleteRow
  <2>3. CASE rows' = rows /\ unavailable' = unavailable /\ Return(c)
    <3>1. call'[c] = Idle /\ MapsSame(c)
      BY <1>0, <2>2, <2>3, StepPc DEF MapsSame, Reaches
    <3>2. Leaves(c, u)
      BY <1>1, <1>2, <2>2, <2>3, <3>1 DEF Leaves, FilesKept, Active, Row
    <3>3. QED  BY <1>1, <3>1, <3>2, UnservedQuiet
  <2>4. CASE rows' = [rows EXCEPT ![u] = NoRow] /\ unavailable' = unavailable \ {u} /\ Go(c, "unlink")
    <3>1. rows'[u] = NoRow /\ call'[c].pc = "unlink" /\ MapsSame(c)
      BY <1>0, <1>2, <2>2, <2>4, StepPc DEF MapsSame, Reaches, DataTyped
    <3>2. ~Active(u)' /\ ~Row(u)'
      BY <3>1 DEF Active, Row, NoRow
    <3>3. Leaves(c, u)
      BY <1>0, <1>2, <3>1, <3>2 DEF Leaves, FilesKept, Purges, Installed
    <3>4. QED  BY <1>1, <3>1, <3>3, UnservedQuiet
  <2>5. QED  BY <2>1, <2>3, <2>4
<1>4. CASE Unlink(c)
  <2>1. rows' = rows /\ UNCHANGED maps /\ born' = born /\ call'[c] = Idle /\ ~Row(u)
    BY <1>1, <1>4, StepPc DEF Unlink, At, registry
  <2>2. MapsSame(c)
    BY <1>0, <2>1 DEF maps, MapsSame, Reaches
  <2>3. Leaves(c, u)
    BY <1>1, <1>2, <2>1 DEF Leaves, FilesKept, Active, Row
  <2>4. QED  BY <1>1, <2>2, <2>3, UnservedQuiet
<1>5. QED  BY <1>3, <1>4

LEMMA OwnerStepKeeps ==
    ASSUME TypeInv, WideInv, NEW c \in Calls, AnyStep(c), NEW u \in Uids, call[c].uid = u, Owner(c),
           u \notin strayed', Kept(u)
    PROVE  Kept(u)'
<1>1. CASE Cas(c) \/ Swap(c) \/ Revert(c)
  BY <1>1 DEF Cas, Swap, Revert, At, Owner
<1>2. QED  BY <1>1, ChecksKeep, AddKeeps, GetKeeps, RecordKeeps, RemoveKeeps, CreateKeeps, RestoreKeeps,
              PurgeKeeps DEF AnyStep

-----------------------------------------------------------------------------
(* A rename, of a repository that other calls may be renaming too.         *)

LEMMA RenameKnows ==
    ASSUME TypeInv, WideInv, NEW c \in Calls, AnyStep(c), NEW u \in Uids, call[c].uid = u,
           call[c].op = "rename", u \notin strayed', Kept(u)
    PROVE  /\ \A d \in Calls : call[d].uid = u => call[d].op = "rename" /\ call[d].pc \notin Installed
           /\ \A d \in Calls : call'[d].uid = u => call'[d].op = "rename"
           /\ u \notin unavailable
           /\ Active(u) /\ files[u] # NoFile => byUID[u] # 0
           /\ boot = {} /\ boot' = {} /\ lenses' = lenses /\ shadowed' = shadowed
           /\ \A d \in Calls \ {c} : call'[d] = call[d]
           /\ call'[c] = Idle \/ (call'[c].uid = u /\ call'[c].op = "rename"
                                  /\ call'[c].name = call[c].name /\ call'[c].was = call[c].was)
           /\ call[c].name \in Names /\ call[c].was \in Names
<1>1. /\ boot = {} /\ boot' = {} /\ lenses' = lenses /\ shadowed' = shadowed
      /\ u \notin Strays(call) /\ \A d \in Calls \ {c} : call'[d] = call[d]
  BY StepLocal DEF WideInv
<1>2. call'[c] = Idle \/ (call'[c].uid = u /\ call'[c].op = "rename"
                          /\ call'[c].name = call[c].name /\ call'[c].was = call[c].was)
  BY StepCall
<1>3. \A d \in Calls : call[d].uid = u => call[d].op \notin {"create", "restore", "purge"}
  BY <1>1 DEF Strays
<1>4. ASSUME NEW d \in Calls, call[d].uid = u PROVE call[d].op = "rename" /\ call[d].pc \notin Installed
  <2>1. call[d].op # "none" /\ Stage(call[d].op, call[d].pc)
    BY <1>4, Typed
  <2>2. QED  BY <1>3, <1>4, <2>1 DEF Stage, RenameSteps, Installed
<1>5. ASSUME NEW d \in Calls, call'[d].uid = u PROVE call'[d].op = "rename"
  <2>1. CASE d = c
    BY <1>2, <1>5, <2>1, Typed DEF Idle
  <2>2. CASE d # c
    BY <1>1, <1>4, <1>5, <2>2
  <2>3. QED  BY <2>1, <2>2
<1>6. u \notin unavailable
  BY DEF Kept, CallsInOrder
<1>7. Active(u) /\ files[u] # NoFile => byUID[u] # 0
  <2>1. \A d \in Calls : call[d].uid = u => call[d].op \notin {"create", "restore"}
    BY <1>3
  <2>2. QED  BY <1>1, <1>6, <2>1 DEF Kept, Present
<1>8. call[c].name \in Names /\ call[c].was \in Names
  BY Typed DEF Reserving
<1>9. QED  BY <1>1, <1>2, <1>4, <1>5, <1>6, <1>7, <1>8

(* What is left to show of a step that keeps state, identity and instance. *)
LEMMA RenameStays ==
    ASSUME TypeInv, WideInv, NEW c \in Calls, AnyStep(c), NEW u \in Uids, call[c].uid = u,
           call[c].op = "rename", u \notin strayed', Kept(u),
           rows' = rows \/ (Row(u) /\ \E n : RowAfter(u, rows[u].state, n, rows[u].kb)),
           UNCHANGED <<files, opened, byUID, unavailable, born, unrecorded>>,
           \A n \in Names : Served(n, u)' => \E m \in Names : Served(m, u) /\ repos[m] = repos'[n],
           byUID[u] # 0 => \E n \in Names : Served(n, u)',
           RenamesLead(u)', LensesKnow(u)'
    PROVE  Kept(u)'
<1>1. (Active(u)' <=> Active(u)) /\ (Row(u)' <=> Row(u)) /\ rows'[u].kb = rows[u].kb
  BY DEF RowAfter, Active, Row
<1>2. MapsAgree(u)'
  BY <1>1 DEF Kept, MapsAgree
<1>3. Present(u)'
  BY <1>1, <1>2, RenameKnows DEF Present
<1>4. CallsInOrder(u)'
  BY RenameKnows DEF CallsInOrder
<1>5. Recorded(u)'
  <2> SUFFICES ASSUME NEW n \in Names, Served(n, u)', u \notin unrecorded'
               PROVE  rows'[u].kb = opened'[repos'[n]].kb
    BY DEF Recorded
  <2>1. PICK m \in Names : Served(m, u) /\ repos[m] = repos'[n]
    OBVIOUS
  <2>2. rows[u].kb = opened[repos[m]].kb
    BY <2>1, RenameKnows DEF Kept, Recorded
  <2>3. QED  BY <1>1, <2>1, <2>2
<1>6. FilesKept(u)'
  BY <1>1 DEF Kept, FilesKept
<1>7. QED  BY <1>2, <1>3, <1>4, <1>5, <1>6 DEF Kept

(* No row is written and no instance moved.                                *)
LEMMA RenameQuiet ==
    ASSUME TypeInv, WideInv, NEW c \in Calls, AnyStep(c), NEW u \in Uids, call[c].uid = u,
           call[c].op = "rename", u \notin strayed', Kept(u),
           rows' = rows, UNCHANGED <<files, opened, repos, byUID, unavailable, born, unrecorded>>,
           Written(c, u)' <=> Written(c, u)
    PROVE  Kept(u)'
<1>0. \A n \in Names : Served(n, u)' <=> Served(n, u)
  BY DEF Served
<1>1. \A d \in Calls : (Written(d, u)' <=> Written(d, u))
                       /\ (Written(d, u) => call'[d].name = call[d].name /\ call'[d].was = call[d].was)
  <2>1. ASSUME NEW d \in Calls \ {c}
        PROVE (Written(d, u)' <=> Written(d, u))
              /\ (Written(d, u) => call'[d].name = call[d].name /\ call'[d].was = call[d].was)
    BY <2>1, RenameKnows DEF Written
  <2>2. Written(c, u) => call'[c].name = call[c].name /\ call'[c].was = call[c].was
    BY RenameKnows DEF Written, Idle
  <2>3. QED  BY <2>1, <2>2
<1>2. \A n \in Names : Reaching(u, n)' <=> Reaching(u, n)
  BY <1>1 DEF Reaching
<1>3. RenamesLead(u)'
  <2> SUFFICES ASSUME NEW n \in Names, Served(n, u)
               PROVE  /\ rows[u].name = n \/ Reaching(u, rows[u].name)'
                      /\ \A d \in Calls : Written(d, u) =>
                           /\ call[d].was = n \/ Reaching(u, call[d].was)'
                           /\ call'[d].was # rows[u].name
                           /\ \A e \in Calls : Written(e, u) /\ call[e].was = call[d].was => d = e
    BY <1>0, <1>1 DEF RenamesLead
  <2>1. /\ rows[u].name = n \/ Reaching(u, rows[u].name)
        /\ \A d \in Calls : Written(d, u) =>
              /\ call[d].was = n \/ Reaching(u, call[d].was)
              /\ call[d].was # rows[u].name
              /\ \A e \in Calls : Written(e, u) /\ call[e].was = call[d].was => d = e
    BY DEF Kept, RenamesLead
  <2>2. rows[u].name = n \/ Reaching(u, rows[u].name)'
    BY <1>1, <2>1 DEF Reaching
  <2>3. ASSUME NEW d \in Calls, Written(d, u) PROVE call[d].was = n \/ Reaching(u, call[d].was)'
    BY <1>1, <2>1, <2>3 DEF Reaching
  <2>4. QED  BY <1>1, <2>1, <2>2, <2>3
<1>4. LensesKnow(u)'
  BY <1>0, RenameKnows DEF Kept, LensesKnow, Active, RefsRepo
<1>5. byUID[u] # 0 => \E n \in Names : Served(n, u)'
  BY <1>0 DEF Kept, MapsAgree
<1>6. QED  BY <1>0, <1>3, <1>4, <1>5, RenameStays

LEMMA CasKeeps ==
    ASSUME TypeInv, WideInv, NEW c \in Calls, AnyStep(c), NEW u \in Uids, call[c].uid = u,
           u \notin strayed', Kept(u), Cas(c)
    PROVE  Kept(u)'
<1>0. call[c].op = "rename" /\ call[c].pc = "cas"
  BY DEF Cas, At
<1> DEFINE nm == call[c].name
           ws == call[c].was
<1>1. /\ nm \in Names /\ ws \in Names /\ repos[nm] = 0 /\ lenses[nm] = {}
      /\ \A n \in Names : Served(n, u) => n # nm
  BY <1>0, RenameKnows DEF WideInv, NamesHeld, Claims, Installed, Reserving, Served
<1>2. UNCHANGED <<files, opened, repos, byUID, unavailable, born, unrecorded>>
  BY DEF Cas, maps
<1>3. \A n \in Names : Served(n, u)' <=> Served(n, u)
  BY <1>2 DEF Served
<1>4. CASE Return(c) /\ rows' = rows
  <2>1. call'[c] = Idle
    BY <1>4, StepPc
  <2>2. Written(c, u)' <=> Written(c, u)
    BY <1>0, <2>1 DEF Written, Idle
  <2>3. QED  BY <1>0, <1>2, <1>4, <2>2, RenameQuiet
<1>5. CASE /\ Row(u) /\ rows[u].name = ws
           /\ rows' = [rows EXCEPT ![u].name = nm] /\ Go(c, "swap")
  <2>1. RowAfter(u, rows[u].state, nm, rows[u].kb)
    BY <1>5, Edited
  <2>2. /\ call'[c].pc = "swap" /\ call'[c].op = "rename" /\ call'[c].uid = u
        /\ call'[c].name = nm /\ call'[c].was = ws
    BY <1>0, <1>5, StepPc
  <2>3. /\ ~Written(c, u) /\ Written(c, u)'
        /\ \A d \in Calls \ {c} : (Written(d, u)' <=> Written(d, u)) /\ call'[d] = call[d]
    BY <1>0, <2>2, RenameKnows DEF Written
  <2>4. \A n \in Names : Reaching(u, n) => n # nm /\ \E d \in Calls : Written(d, u)' /\ call'[d].name = n
    <3> SUFFICES ASSUME NEW n \in Names, NEW e \in Calls, Written(e, u), call[e].name = n
                 PROVE  n # nm /\ \E d \in Calls : Written(d, u)' /\ call'[d].name = n
      BY DEF Reaching
    <3>1. e # c /\ e \in Reservers /\ c \in Reservers
      BY <1>0, <2>3 DEF Written, Reservers, Reserving, Reaches
    <3>2. n # nm
      BY <3>1 DEF WideInv, NamesApart
    <3>3. QED  BY <2>3, <3>1, <3>2
  <2>5. RenamesLead(u)'
    <3> SUFFICES ASSUME NEW n \in Names, Served(n, u)
                 PROVE  /\ rows'[u].name = n \/ Reaching(u, rows[u].name)'
                        /\ \A d \in Calls : Written(d, u)' =>
                             /\ call'[d].was = n \/ Reaching(u, call[d].was)'
                             /\ call'[d].was # rows'[u].name
                             /\ \A e \in Calls : Written(e, u)' /\ call'[e].was = call'[d].was => d = e
      BY <1>3 DEF RenamesLead
    <3>1. /\ ws = n \/ Reaching(u, ws)
          /\ \A d \in Calls : Written(d, u) =>
                /\ call[d].was = n \/ Reaching(u, call[d].was)
                /\ call[d].was # ws
                /\ \A e \in Calls : Written(e, u) /\ call[e].was = call[d].was => d = e
      BY <1>5 DEF Kept, RenamesLead
    <3>2. Reaching(u, rows[u].name)'
      BY <2>1, <2>2, <2>3 DEF Reaching, RowAfter
    <3>3. ASSUME NEW d \in Calls, Written(d, u)'
          PROVE  (call'[d].was = n \/ Reaching(u, call[d].was)') /\ call'[d].was # nm
      <4>1. CASE d = c
        <5>1. ws # nm
          BY <1>1, <2>4, <3>1
        <5>2. ws = n \/ \E e \in Calls : Written(e, u)' /\ call'[e].name = ws
          BY <1>1, <2>4, <3>1
        <5>3. QED  BY <2>2, <4>1, <5>1, <5>2 DEF Reaching
      <4>2. CASE d # c
        <5>1. Written(d, u) /\ call'[d] = call[d] /\ call[d].was \in Names
          BY <2>3, <3>3, <4>2, Typed DEF Written
        <5>2. call[d].was = n \/ Reaching(u, call[d].was)
          BY <3>1, <5>1
        <5>3. call[d].was # nm /\ (call[d].was = n \/ \E e \in Calls : Written(e, u)' /\ call'[e].name = call[d].was)
          BY <1>1, <2>4, <5>1, <5>2
        <5>4. QED  BY <5>1, <5>3 DEF Reaching
      <4>3. QED  BY <4>1, <4>2
    <3>4. ASSUME NEW d \in Calls, NEW e \in Calls, Written(d, u)', Written(e, u)', call'[e].was = call'[d].was
          PROVE  d = e
      BY <2>2, <2>3, <3>1, <3>4
    <3>5. QED  BY <2>1, <3>2, <3>3, <3>4 DEF RowAfter
  <2>6. LensesKnow(u)'
    <3>1. lenses' = lenses /\ shadowed' = shadowed /\ lenses[nm] = {}
      BY <1>0, <1>1, RenameKnows
    <3>2. LensesKnow(u) /\ (Active(u)' <=> Active(u)) /\ rows'[u].name = nm
      BY <2>1 DEF Kept, RowAfter, Active
    <3>3. QED  BY <1>3, <3>1, <3>2 DEF LensesKnow, RefsRepo
  <2>7. byUID[u] # 0 => \E n \in Names : Served(n, u)'
    BY <1>3 DEF Kept, MapsAgree
  <2>8. \A n \in Names : Served(n, u)' => \E m \in Names : Served(m, u) /\ repos[m] = repos'[n]
    BY <1>2, <1>3
  <2>9. QED  BY <1>0, <1>2, <1>5, <2>1, <2>5, <2>6, <2>7, <2>8, RenameStays
<1>6. QED  BY <1>4, <1>5 DEF Cas, RenameIfNamed

LEMMA SwapKeeps ==
    ASSUME TypeInv, WideInv, NEW c \in Calls, AnyStep(c), NEW u \in Uids, call[c].uid = u,
           u \notin strayed', Kept(u), Swap(c)
    PROVE  Kept(u)'
<1>0. call[c].op = "rename" /\ call[c].pc = "swap" /\ Written(c, u)
  BY DEF Swap, At, Written
<1> DEFINE nm == call[c].name
           ws == call[c].was
<1>1. UNCHANGED <<files, opened, byUID, unavailable, born, unrecorded>> /\ rows' = rows
  BY DEF Swap, registry
<1>2. CASE Go(c, "revert") /\ repos' = repos
  <2>1. Written(c, u)'
    BY <1>0, <1>2, StepPc DEF Written
  <2>2. QED  BY <1>0, <1>1, <1>2, <2>1, RenameQuiet
<1>3. CASE /\ repos[ws] = call[c].inst /\ repos[nm] = 0
           /\ repos' = [repos EXCEPT ![nm] = call[c].inst, ![ws] = 0]
           /\ Return(c)
  <2>1. call[c].inst \in 1..Len(opened) /\ Moves(c, call[c].inst) /\ opened[call[c].inst].uid = u
    <3>1. call[c].inst \in 1..Len(opened)
      BY <1>0, Typed, CallAt
    <3>2. opened[call[c].inst].uid = u
      BY <1>0 DEF WideInv, Instances
    <3>3. call[c].inst # 0
      BY <3>1, Typed
    <3>4. QED  BY <1>0, <1>1, <1>3, <3>1, <3>2, <3>3, StepPc DEF Moves, Reaches
  <2>2. nm \in Names /\ ws \in Names /\ ws # nm /\ Served(ws, u) /\ call'[c] = Idle /\ repos'[nm] = repos[ws]
        /\ lenses[nm] = {}
    <3>1. lenses[nm] = {}
      BY <1>0 DEF WideInv, NamesHeld, Claims, Reserving
    <3>2. repos[ws] # 0
      BY <1>3, <2>1, Typed
    <3>3. nm \in Names /\ ws \in Names /\ ws # nm /\ repos'[nm] = repos[ws]
      BY <2>1, AfterMoves
    <3>4. Served(ws, u)
      BY <1>3, <2>1, <3>2 DEF Served
    <3>5. call'[c] = Idle
      BY <2>1 DEF Moves
    <3>6. QED  BY <3>1, <3>3, <3>4, <3>5
  <2>3. \A n \in Names : Served(n, u) => n = ws
    BY <2>2 DEF Kept, MapsAgree, WideInv, Instances, Served
  <2>4. \A n \in Names : Served(n, u)' <=> n = nm
    BY <2>1, <2>2, <2>3, AfterMoves
  <2>5. /\ ~Written(c, u)'
        /\ \A d \in Calls \ {c} : (Written(d, u)' <=> Written(d, u)) /\ call'[d] = call[d]
    BY <1>0, <2>2, RenameKnows DEF Written, Idle
  <2>6. \A n \in Names : Reaching(u, n) => n = nm \/ \E e \in Calls : Written(e, u)' /\ call'[e].name = n
    BY <2>5 DEF Reaching
  <2>7. /\ Reaching(u, rows[u].name) /\ ws # rows[u].name
        /\ \A d \in Calls : Written(d, u) =>
              /\ call[d].was = ws \/ Reaching(u, call[d].was)
              /\ call[d].was # rows[u].name
              /\ \A e \in Calls : Written(e, u) /\ call[e].was = call[d].was => d = e
    BY <1>0, <2>2 DEF Kept, RenamesLead
  <2>8. RenamesLead(u)'
    <3> SUFFICES /\ rows[u].name = nm \/ Reaching(u, rows[u].name)'
                 /\ \A d \in Calls : Written(d, u)' =>
                      /\ call'[d].was = nm \/ Reaching(u, call[d].was)'
                      /\ call'[d].was # rows[u].name
                      /\ \A e \in Calls : Written(e, u)' /\ call'[e].was = call'[d].was => d = e
      BY <1>1, <2>4 DEF RenamesLead
    <3>1. rows[u].name = nm \/ Reaching(u, rows[u].name)'
      <4>1. rows[u].name = nm \/ \E e \in Calls : Written(e, u)' /\ call'[e].name = rows[u].name
        BY <2>5, <2>7 DEF Reaching
      <4>2. QED  BY <1>1, <4>1 DEF Reaching
    <3>2. ASSUME NEW d \in Calls, Written(d, u)'
          PROVE  /\ call'[d].was = nm \/ Reaching(u, call[d].was)'
                 /\ call'[d].was # rows[u].name
                 /\ \A e \in Calls : Written(e, u)' /\ call'[e].was = call'[d].was => d = e
      <4>1. d # c /\ Written(d, u) /\ call'[d] = call[d] /\ call[d].was \in Names
        BY <2>5, <3>2, Typed DEF Written
      <4>2. call[d].was # ws
        BY <1>0, <2>7, <4>1
      <4>3. call[d].was = nm \/ \E e \in Calls : Written(e, u)' /\ call'[e].name = call[d].was
        BY <2>6, <2>7, <4>1, <4>2
      <4>4. QED  BY <2>5, <2>7, <4>1, <4>3 DEF Reaching
    <3>3. QED  BY <3>1, <3>2
  <2>9. LensesKnow(u)'
    <3>1. lenses' = lenses /\ shadowed' = shadowed
      BY <1>0, RenameKnows
    <3>2. QED  BY <1>1, <2>2, <2>4, <3>1 DEF Kept, LensesKnow, Active, RefsRepo
  <2>10. QED  BY <1>0, <1>1, <2>2, <2>4, <2>8, <2>9, RenameStays
<1>4. QED  BY <1>2, <1>3 DEF Swap

LEMMA RevertKeeps ==
    ASSUME TypeInv, WideInv, NEW c \in Calls, AnyStep(c), NEW u \in Uids, call[c].uid = u,
           u \notin strayed', Kept(u), Revert(c)
    PROVE  Kept(u)'
<1>0. call[c].op = "rename" /\ call[c].pc = "revert" /\ Written(c, u)
  BY DEF Revert, At, Written
<1> DEFINE nm == call[c].name
           ws == call[c].was
<1>1. UNCHANGED <<files, opened, repos, byUID, unavailable, born, unrecorded>>
  BY DEF Revert, maps
<1>2. Row(u) /\ rows[u].name = nm /\ rows' = [rows EXCEPT ![u].name = ws] /\ call'[c] = Idle
  BY StepPc DEF Revert, RenameIfNamed
<1>3. RowAfter(u, rows[u].state, ws, rows[u].kb)
  BY <1>2, Edited
<1>4. nm \in Names /\ ws \in Names /\ \A n \in Names : Served(n, u)' <=> Served(n, u)
  BY <1>0, <1>1, RenameKnows DEF Served
<1>5. /\ ~Written(c, u)'
      /\ \A d \in Calls \ {c} : (Written(d, u)' <=> Written(d, u)) /\ call'[d] = call[d]
  BY <1>0, <1>2, RenameKnows DEF Written, Idle
<1>6. ASSUME NEW n \in Names, Served(n, u)
      PROVE  /\ ws = n \/ Reaching(u, ws)
             /\ ws # nm
             /\ \A d \in Calls : Written(d, u) =>
                   /\ call[d].was = n \/ Reaching(u, call[d].was)
                   /\ call[d].was # nm
                   /\ \A e \in Calls : Written(e, u) /\ call[e].was = call[d].was => d = e
  BY <1>0, <1>2, <1>6 DEF Kept, RenamesLead
<1>7. \A n \in Names : Reaching(u, n) /\ n # nm => \E e \in Calls : Written(e, u)' /\ call'[e].name = n
  BY <1>5 DEF Reaching
<1>8. RenamesLead(u)'
  <2> SUFFICES ASSUME NEW n \in Names, Served(n, u)
               PROVE  /\ ws = n \/ Reaching(u, rows[u].name)'
                      /\ \A d \in Calls : Written(d, u)' =>
                           /\ call'[d].was = n \/ Reaching(u, call[d].was)'
                           /\ call'[d].was # ws
                           /\ \A e \in Calls : Written(e, u)' /\ call'[e].was = call'[d].was => d = e
    BY <1>3, <1>4 DEF RenamesLead, RowAfter
  <2>1. ws = n \/ Reaching(u, rows[u].name)'
    <3>1. ws = n \/ \E e \in Calls : Written(e, u)' /\ call'[e].name = ws
      BY <1>4, <1>6, <1>7
    <3>2. QED  BY <1>3, <3>1 DEF Reaching, RowAfter
  <2>2. ASSUME NEW d \in Calls, Written(d, u)'
        PROVE  /\ call'[d].was = n \/ Reaching(u, call[d].was)'
               /\ call'[d].was # ws
               /\ \A e \in Calls : Written(e, u)' /\ call'[e].was = call'[d].was => d = e
    <3>1. d # c /\ Written(d, u) /\ call'[d] = call[d] /\ call[d].was \in Names
      BY <1>5, <2>2, Typed DEF Written
    <3>2. call[d].was # ws
      BY <1>0, <1>6, <3>1
    <3>3. call[d].was = n \/ \E e \in Calls : Written(e, u)' /\ call'[e].name = call[d].was
      BY <1>6, <1>7, <3>1
    <3>4. QED  BY <1>5, <1>6, <3>1, <3>2, <3>3 DEF Reaching
  <2>3. QED  BY <2>1, <2>2
<1>9. LensesKnow(u)'
  <2>1. lenses' = lenses /\ shadowed' = shadowed /\ LensesKnow(u)
    BY <1>0, RenameKnows DEF Kept
  <2>2. (Active(u)' <=> Active(u)) /\ rows'[u].name = ws
    BY <1>3 DEF RowAfter, Active
  <2>3. ASSUME Active(u), files[u] # NoFile, ws \notin shadowed PROVE lenses[ws] = {}
    <3>1. PICK n \in Names : Served(n, u)
      BY <1>0, <2>3, RenameKnows DEF Kept, MapsAgree
    <3>2. CASE ws = n
      BY <2>1, <2>3, <3>1, <3>2 DEF LensesKnow
    <3>3. CASE Reaching(u, ws)
      <4>1. PICK e \in Calls : Written(e, u) /\ call[e].name = ws
        BY <3>3 DEF Reaching
      <4>2. Claims(e)
        BY <4>1 DEF Claims, Written, Reserving
      <4>3. QED  BY <4>1, <4>2 DEF WideInv, NamesHeld
    <3>4. QED  BY <1>6, <3>1, <3>2, <3>3
  <2>4. QED  BY <1>1, <1>4, <2>1, <2>2, <2>3 DEF LensesKnow, RefsRepo
<1>10. byUID[u] # 0 => \E n \in Names : Served(n, u)'
  BY <1>4 DEF Kept, MapsAgree
<1>11. \A n \in Names : Served(n, u)' => \E m \in Names : Served(m, u) /\ repos[m] = repos'[n]
  BY <1>1, <1>4
<1>12. QED  BY <1>0, <1>1, <1>2, <1>3, <1>8, <1>9, <1>10, <1>11, RenameStays

LEMMA StepKeeps ==
    ASSUME TypeInv, WideInv, KeptInv, NEW c \in Calls, AnyStep(c)
    PROVE  KeptInv'
<1> SUFFICES ASSUME NEW u \in Uids \ strayed' PROVE Kept(u)'
  BY DEF KeptInv
<1>1. Kept(u)
  BY StepLocal DEF KeptInv
<1>2. CASE call[c].uid # u
  BY <1>1, <1>2, StepElsewhere, KeptSame DEF WideInv
<1>3. CASE call[c].uid = u /\ Owner(c)
  BY <1>1, <1>3, OwnerStepKeeps
<1>4. CASE call[c].uid = u /\ ~Owner(c)
  <2>1. call[c].op = "rename" /\ call[c].pc \in RenameSteps
    BY <1>4, StepCall, Typed DEF Owner, Stage
  <2>2. CASE Cas(c) \/ Swap(c) \/ Revert(c)
    BY <1>1, <1>4, <2>2, CasKeeps, SwapKeeps, RevertKeeps
  <2>3. CASE Check(c)
    <3>1. \E p \in {"cas"} : Return(c) \/ Go(c, p)
      BY <2>1, <2>3 DEF Check
    <3>2. UNCHANGED <<rows, files, opened, repos, byUID, unavailable, born, unrecorded>>
      BY <2>3 DEF Check, registry, maps
    <3>3. Written(c, u)' <=> Written(c, u)
      BY <2>3, <3>1, StepPc DEF Check, Reaches, Written, Idle
    <3>4. QED  BY <1>1, <1>4, <2>1, <3>2, <3>3, RenameQuiet
  <2>4. Check(c) \/ Cas(c) \/ Swap(c) \/ Revert(c)
    BY <2>1 DEF AnyStep, RenameSteps, Reserve, Scan, Add, GetBack, Record, Remove, Insert, InitStore,
           PersistOrigin, RemoveFile, RemoveRow, RenameRow, Activate, Rearchive, Unrename, DeleteRow, Unlink,
           Reaches, At
  <2>5. QED  BY <2>2, <2>3, <2>4
<1>5. QED  BY <1>2, <1>3, <1>4

-----------------------------------------------------------------------------
(* The other actions.                                                      *)

(* A call starts, on a repository no call has or calls that only rename.   *)
LEMMA StartKeeps ==
    ASSUME TypeInv, WideInv, KeptInv, NEW c \in Calls, AnyStart(c)
    PROVE  KeptInv'
<1> SUFFICES ASSUME NEW u \in Uids \ strayed' PROVE Kept(u)'
  BY DEF KeptInv
<1>0. /\ boot = {} /\ boot' = {} /\ call[c].op = "none" /\ call[c].uid = NoUid
      /\ UNCHANGED <<registry, files, maps, born, shadowed, unrecorded>>
      /\ strayed' = strayed \cup Strays(call')
  BY StartIs
<1>1. Kept(u) /\ u \notin Strays(call')
  BY <1>0 DEF KeptInv
<1>2. PICK r : /\ call' = [call EXCEPT ![c] = r] /\ r.uid \in Uids
               /\ \/ /\ r.op = "create" /\ r.pc \in {"scan", "check"} /\ Fresh(r.uid)
                     /\ ~NameReserved(c, r.name)
                  \/ /\ r.op = "restore" /\ r.pc = "reserve" /\ rows[r.uid].state = "archived"
                     /\ r.was = rows[r.uid].name
                  \/ /\ r.op = "purge" /\ r.pc = "delete" /\ rows[r.uid].state = "archived"
                     /\ RefsRepo(r.uid) = {}
                  \/ /\ r.op = "rename" /\ r.pc = "check" /\ r.was \in Names /\ repos[r.was] = r.inst
                     /\ r.inst # 0 /\ opened[r.inst].uid = r.uid /\ ~NameReserved(c, r.name)
                     /\ r.name # r.was
  BY StartIs
<1>3. call'[c] = r /\ (\A d \in Calls \ {c} : call'[d] = call[d]) /\ NoUid \notin Uids
  BY <1>2, Typed DEF CallsTyped
<1>4. /\ UNCHANGED <<rows, files, lenses, opened, repos, byUID, unavailable, born, shadowed, unrecorded>>
      /\ \A n \in Names, v \in Uids : Served(n, v)' <=> Served(n, v)
  BY <1>0 DEF registry, maps, Served
<1>5. CASE r.uid # u
  <2>1. SameRepo(u)
    BY <1>0, <1>3, <1>4, <1>5 DEF SameRepo, SameMaps
  <2>2. QED  BY <1>1, <2>1, KeptSame
<1>6. CASE r.uid = u
  <2>1. \A d \in Calls : (Written(d, u)' <=> Written(d, u)) /\ (Written(d, u) => call'[d] = call[d])
    BY <1>0, <1>2, <1>3 DEF Written
  <2>2. RenamesLead(u)'
    <3>1. \A n \in Names : Reaching(u, n)' <=> Reaching(u, n)
      BY <2>1 DEF Reaching
    <3> SUFFICES ASSUME NEW n \in Names, Served(n, u)
                 PROVE  /\ rows[u].name = n \/ Reaching(u, rows[u].name)'
                        /\ \A d \in Calls : Written(d, u) =>
                             /\ call[d].was = n \/ Reaching(u, call[d].was)'
                             /\ call[d].was # rows[u].name
                             /\ \A e \in Calls : Written(e, u) /\ call[e].was = call[d].was => d = e
      BY <1>4, <2>1 DEF RenamesLead
    <3>2. /\ rows[u].name = n \/ Reaching(u, rows[u].name)
          /\ \A d \in Calls : Written(d, u) =>
               /\ call[d].was = n \/ Reaching(u, call[d].was)
               /\ call[d].was # rows[u].name
               /\ \A e \in Calls : Written(e, u) /\ call[e].was = call[d].was => d = e
      BY <1>1 DEF Kept, RenamesLead
    <3>3. rows[u].name = n \/ Reaching(u, rows[u].name)'
      BY <1>4, <2>1, <3>2 DEF Reaching
    <3>4. ASSUME NEW d \in Calls, Written(d, u) PROVE call[d].was = n \/ Reaching(u, call[d].was)'
      BY <2>1, <3>2, <3>4 DEF Reaching
    <3>5. QED  BY <3>2, <3>3, <3>4
  <2>3. MapsAgree(u)' /\ FilesKept(u)' /\ LensesKnow(u)'
    BY <1>1, <1>4 DEF Kept, MapsAgree, FilesKept, LensesKnow, Row, Active, RefsRepo
  <2>4. Present(u)'
    <3>1. \A d \in Calls : call[d].uid = u => d # c
      BY <1>0, <1>3
    <3>2. QED  BY <1>0, <1>1, <1>3, <1>4, <3>1 DEF Kept, Present, Active
  <2>5. Recorded(u)'
    <3>1. \A d \in Calls : call[d].uid = u => d # c
      BY <1>0, <1>3
    <3>2. QED  BY <1>1, <1>3, <1>4, <3>1 DEF Kept, Recorded
  <2>6. CASE r.op = "rename"
    <3>1. Served(r.was, u)
      BY <1>2, <1>6, <2>6 DEF Served
    <3>2. u \notin unavailable
      BY <1>1, <1>2, <2>6, <3>1 DEF Kept, MapsAgree, Served
    <3>3. \A d \in Calls \ {c} : call[d].uid = u => call[d].op \notin {"create", "restore", "purge"}
      BY <1>1, <1>3, <1>6 DEF Strays
    <3>4. CallsInOrder(u)'
      BY <1>3, <1>4, <2>6, <3>2, <3>3 DEF CallsInOrder
    <3>5. QED  BY <2>2, <2>3, <2>4, <2>5, <3>4 DEF Kept
  <2>7. CASE r.op \in {"create", "restore", "purge"}
    <3>1. \A d \in Calls : call'[d].uid = u => d = c
      BY <1>1, <1>3, <1>6, <2>7 DEF Strays
    <3>2. ~Active(u) /\ u \notin unavailable /\ byUID[u] = 0
      <4>1. ~Active(u)
        BY <1>2, <1>6, <2>7 DEF Fresh, Active, Row
      <4>2. QED  BY <1>1, <4>1 DEF Kept, MapsAgree
    <3>3. Owns(c, u)'
      <4>1. r.pc \in {"scan", "check", "reserve", "delete"}
        BY <1>2, <2>7
      <4>2. QED  BY <1>3, <1>4, <3>2, <4>1 DEF Owns, Installed
    <3>4. r.op = "create" => Creates(c, u)'
      BY <1>2, <1>3, <1>4, <1>6 DEF Creates, Fresh, Early, Row
    <3>5. r.op = "restore" => Restores(c, u)'
      BY <1>1, <1>2, <1>3, <1>4, <1>6, <3>2 DEF Restores, Pending, Row, Active, Kept, LensesKnow, RefsRepo
    <3>6. r.op = "purge" => Purges(c, u)'
      BY <1>2, <1>3, <1>4, <3>2 DEF Purges, Active
    <3>7. CallsInOrder(u)'
      BY <1>3, <1>4, <3>1, <3>2, <3>3, <3>4, <3>5, <3>6 DEF CallsInOrder
    <3>8. QED  BY <2>2, <2>3, <2>4, <2>5, <3>7 DEF Kept
  <2>8. QED  BY <1>2, <2>6, <2>7
<1>7. QED  BY <1>5, <1>6

LEMMA ArchiveKeeps ==
    ASSUME TypeInv, WideInv, KeptInv, NEW n \in Names, Archive(n)
    PROVE  KeptInv'
<1> PICK u \in Uids : u = opened[repos[n]].uid
  BY ArchiveIs
<1>0. /\ boot = {} /\ boot' = {} /\ repos[n] # 0 /\ repos[n] \in 1..Len(opened)
      /\ u \in Uids /\ Row(u) /\ RefsRepo(u) = {}
      /\ rows' = [rows EXCEPT ![u].state = "archived"]
      /\ rows'[u].state = "archived" /\ \A v \in Uids \ {u} : rows'[v] = rows[v]
      /\ repos' = [repos EXCEPT ![n] = 0] /\ byUID' = [byUID EXCEPT ![u] = 0]
      /\ unavailable' = unavailable \ {u}
      /\ UNCHANGED <<lenses, files, opened, boot, call, ghosts>>
      /\ Served(n, u)
  BY ArchiveIs DEF Served
<1>1. /\ \A m \in Names \ {n} : repos'[m] = repos[m]
      /\ repos'[n] = 0 /\ byUID'[u] = 0 /\ \A v \in Uids \ {u} : byUID'[v] = byUID[v]
  BY <1>0, Typed DEF DataTyped
<1>2. \A m \in Names, v \in Uids : Served(m, v)' <=> m # n /\ Served(m, v)
  BY <1>0, <1>1 DEF Served
<1>3. UNCHANGED <<born, strayed, shadowed, unrecorded>>
  BY <1>0 DEF ghosts
<1> SUFFICES ASSUME NEW v \in Uids \ strayed PROVE Kept(v)'
  BY <1>3 DEF KeptInv
<1>4. Kept(v)
  BY DEF KeptInv
<1>5. CASE v # u
  <2>1. \A m \in Names : Served(m, v) => m # n
    BY <1>0, <1>5 DEF Served
  <2>2. SameMaps(v)
    BY <1>0, <1>1, <1>2, <1>5, <2>1 DEF SameMaps
  <2>3. SameRepo(v)
    BY <1>0, <1>3, <1>5, <2>2 DEF SameRepo
  <2>4. QED  BY <1>4, <2>3, KeptSame
<1>6. CASE v = u
  <2>1. byUID[u] = repos[n] /\ byUID[u] # 0 /\ Active(u) /\ u \notin unavailable
    BY <1>0, <1>4, <1>6 DEF Kept, MapsAgree
  <2>2. \A m \in Names : ~Served(m, u)'
    BY <1>0, <1>2, <1>4, <1>6, <2>1 DEF Kept, MapsAgree, WideInv, Instances
  <2>3. ~Active(u)' /\ Row(u)' /\ RefsRepo(u)' = {} /\ rows'[u].name = rows[u].name
    <3>1. rows'[u].name = rows[u].name
      BY <1>0, Edited DEF RowAfter
    <3>2. QED  BY <1>0, <3>1 DEF Active, Row, RefsRepo
  <2>4. MapsAgree(u)' /\ Present(u)' /\ RenamesLead(u)' /\ Recorded(u)' /\ LensesKnow(u)'
    BY <1>0, <1>1, <2>1, <2>2, <2>3 DEF MapsAgree, Present, RenamesLead, Recorded, LensesKnow
  <2>5. FilesKept(u)'
    BY <1>0, <1>3, <1>4, <1>6 DEF Kept, FilesKept
  <2>6. CallsInOrder(u)'
    <3> SUFFICES ASSUME NEW c \in Calls, call[c].uid = u
                 PROVE  /\ u \notin unavailable'
                        /\ call[c].op \in {"create", "restore", "purge"} => Owns(c, u)'
                        /\ call[c].op = "create" => Creates(c, u)'
                        /\ call[c].op = "restore" => Restores(c, u)'
                        /\ call[c].op = "purge" => Purges(c, u)'
      BY <1>0 DEF CallsInOrder
    <3>0. u \notin unavailable'
      BY <1>0
    <3>1. CASE Owner(c)
      <4>1. /\ Owns(c, u)
            /\ call[c].op = "create" => Creates(c, u)
            /\ call[c].op = "restore" => Restores(c, u)
            /\ call[c].op = "purge" => Purges(c, u)
        BY <1>0, <1>4, <1>6, <3>1, OwnerKnows
      <4>2. call[c].pc \in Installed /\ (files[u] # NoFile \/ call[c].pc = "conflict")
        BY <2>1, <4>1 DEF Owns, Installed
      <4>3. Owns(c, u)'
        BY <1>0, <1>1, <2>3, <4>1, <4>2 DEF Owns, Installed
      <4>4. call[c].op = "create" => Creates(c, u)'
        BY <1>0, <1>3, <2>3, <4>1, <4>2 DEF Creates, Installed, Early, Row
      <4>5. call[c].op = "restore" => Restores(c, u)'
        BY <1>0, <2>3, <4>1, <4>2 DEF Restores, Installed, Pending
      <4>6. call[c].op # "purge"
        BY <2>1, <4>1 DEF Purges
      <4>7. QED  BY <3>0, <4>3, <4>4, <4>5, <4>6
    <3>2. QED  BY <3>0, <3>1 DEF Owner
  <2>7. QED  BY <1>6, <2>4, <2>5, <2>6 DEF Kept
<1>7. QED  BY <1>5, <1>6

(* Of a name nobody has reserved and nothing is served under: an active    *)
(* repository that has it is unavailable.                                  *)
LEMMA NameFree ==
    ASSUME TypeInv, WideInv, boot = {}, NEW u \in Uids, Kept(u), Active(u), files[u] # NoFile,
           NEW n \in Names, rows[u].name = n, repos[n] = 0, ~AmongNames(Reservers, n)
    PROVE  u \in unavailable
<1> SUFFICES ASSUME u \notin unavailable PROVE FALSE
  OBVIOUS
<1>1. CASE byUID[u] # 0
  <2>1. PICK m \in Names : Served(m, u)
    BY <1>1 DEF Kept, MapsAgree
  <2>2. n = m \/ Reaching(u, n)
    BY <2>1 DEF Kept, RenamesLead
  <2>3. n # m
    BY <2>1 DEF Served
  <2>4. PICK d \in Calls : Written(d, u) /\ call[d].name = n
    BY <2>2, <2>3 DEF Reaching
  <2>5. d \in Reservers
    BY <2>4 DEF Written, Reservers, Reserving, Reaches
  <2>6. QED  BY <2>4, <2>5 DEF AmongNames
<1>2. CASE byUID[u] = 0
  <2>1. PICK c \in Calls : call[c].uid = u /\ call[c].op \in {"create", "restore"}
    BY <1>2 DEF Kept, Present
  <2>2. /\ call[c].op = "create" => Creates(c, u)
        /\ call[c].op = "restore" => Restores(c, u)
    BY <2>1, OwnerKnows DEF Owner
  <2>3. call[c].pc # "reserve" /\ call[c].name = n
    <3>1. CASE call[c].op = "create"
      <4>1. call[c].pc # "reserve"
        BY <3>1, Typed DEF Stage, CreateSteps
      <4>2. QED  BY <2>2, <3>1, <4>1 DEF Creates, Row, Active
    <3>2. CASE call[c].op = "restore"
      BY <2>2, <3>2 DEF Restores, Pending, Row, Active
    <3>3. QED  BY <2>1, <3>1, <3>2
  <2>4. c \in Reservers
    BY <2>1, <2>3 DEF Reservers, Reserving, Reaches
  <2>5. QED  BY <2>3, <2>4 DEF AmongNames
<1>3. QED  BY <1>1, <1>2

LEMMA LensKeeps ==
    ASSUME TypeInv, WideInv, KeptInv, AnyLens
    PROVE  KeptInv'
<1> SUFFICES ASSUME NEW u \in Uids \ strayed' PROVE Kept(u)'
  BY DEF KeptInv
<1>0. /\ boot = {} /\ UNCHANGED <<rows, files, maps, boot, call, born, unrecorded>>
      /\ strayed \subseteq strayed' /\ shadowed \subseteq shadowed'
  BY LensTyped
<1>1. Kept(u) /\ LensesKnow(u) /\ DataTyped
  BY <1>0, Typed DEF KeptInv, Kept
<1>2. /\ UNCHANGED <<rows, files, opened, repos, byUID, unavailable, boot, call, born, unrecorded>>
      /\ \A n \in Names : Served(n, u)' <=> Served(n, u)
  BY <1>0 DEF maps, Served
<1>3. ASSUME NEW n \in Names, lenses[n] # {},
             RefsRepo(u)' = {} \/ RefsRepo(u) # {}, \A m \in Names : lenses'[m] # {} => lenses[m] # {}
      PROVE  LensesKnow(u)' /\ (RefsRepo(u)' = {} \/ RefsRepo(u) # {})
  <2>1. \A m \in Names : lenses[m] = {} => lenses'[m] = {}
    BY <1>3
  <2>2. Active(u) => rows[u].name \in Names
    BY <1>1, RowFields DEF DataTyped, Active
  <2>3. QED  BY <1>0, <1>1, <1>2, <1>3, <2>1, <2>2 DEF LensesKnow, Active
<1> DEFINE Stays == LensesKnow(u)' /\ (RefsRepo(u)' = {} \/ RefsRepo(u) # {}
                                       \/ (Active(u) /\ \A c \in Calls : call[c].uid = u => call[c].op # "restore"))
<1>4. ASSUME NEW n \in Names, NEW members \in Mounts, Mountable(n, members),
             lenses' = [lenses EXCEPT ![n] = members],
             strayed' = strayed \cup {v \in members : \E c \in Calls : call[c].uid = v
                                                       /\ call[c].op \in {"create", "restore"}},
             Active(u) /\ files[u] # NoFile /\ rows[u].name = n => n \in shadowed' \/ lenses[n] # {}
      PROVE  Stays
  <2>1. \A m \in Names : lenses'[m] = IF m = n THEN members ELSE lenses[m]
    BY <1>1, <1>4 DEF DataTyped
  <2>2. u \in members => Active(u) /\ \A c \in Calls : call[c].uid = u => call[c].op # "restore"
    BY <1>1, <1>4 DEF Mountable, Kept, MapsAgree
  <2>3. RefsRepo(u)' = {} \/ RefsRepo(u) # {} \/ u \in members
    BY <2>1 DEF RefsRepo
  <2>4. Active(u) => rows[u].name \in Names
    BY <1>1, RowFields DEF DataTyped, Active
  <2>5. ~Active(u) => RefsRepo(u)' = {}
    BY <1>1, <2>2, <2>3 DEF LensesKnow
  <2>6. Active(u) /\ files[u] # NoFile /\ rows[u].name \notin shadowed' => lenses'[rows[u].name] = {}
    BY <1>0, <1>1, <1>4, <2>1, <2>4 DEF LensesKnow
  <2>7. ASSUME NEW m \in Names \ shadowed', Served(m, u) PROVE lenses'[m] = {}
    <3>1. m # n /\ lenses[m] = {}
      BY <1>0, <1>1, <1>4, <2>7 DEF Mountable, Served, LensesKnow
    <3>2. QED  BY <2>1, <3>1
  <2>8. LensesKnow(u)'
    BY <1>2, <2>5, <2>6, <2>7 DEF LensesKnow, Active
  <2>9. QED  BY <2>2, <2>3, <2>8
<1>5. ASSUME NEW n \in Names, CreateLens(n) PROVE Stays
  <2>1. PICK members \in Mounts : /\ Mountable(n, members)
                                  /\ lenses' = [lenses EXCEPT ![n] = members]
                                  /\ strayed' = strayed \cup {v \in members : \E c \in Calls : call[c].uid = v
                                                                 /\ call[c].op \in {"create", "restore"}}
    BY <1>5 DEF CreateLens
  <2>2. ASSUME Active(u), files[u] # NoFile, rows[u].name = n PROVE n \in shadowed'
    <3>1. u \in unavailable
      BY <1>0, <1>1, <1>5, <2>1, <2>2, NameFree DEF CreateLens, Mountable
    <3>2. QED  BY <1>5, <2>2, <3>1 DEF CreateLens, Shadows
  <2>3. QED  BY <1>4, <2>1, <2>2
<1>6. ASSUME NEW n \in Names, UpdateLens(n) PROVE Stays
  BY <1>4, <1>6 DEF UpdateLens
<1>7. ASSUME NEW n \in Names, NEW new \in Names, RenameLens(n, new) PROVE Stays
  <2>1. \A m \in Names : lenses'[m] = IF m = n THEN {} ELSE IF m = new THEN lenses[n] ELSE lenses[m]
    BY <1>1, <1>7 DEF RenameLens, DataTyped
  <2>2. RefsRepo(u)' = {} \/ RefsRepo(u) # {}
    BY <2>1 DEF RefsRepo
  <2>3. Active(u) => rows[u].name \in Names
    BY <1>1, RowFields DEF DataTyped, Active
  <2>4. shadowed' = shadowed /\ repos[new] = 0
    BY <1>7 DEF RenameLens, ghosts
  <2>5. Active(u) /\ files[u] # NoFile => rows[u].name # new
    BY <1>0, <1>1, <1>7, NameFree DEF RenameLens
  <2>6. ~Active(u) => RefsRepo(u)' = {}
    BY <1>1, <2>2 DEF LensesKnow
  <2>7. Active(u) /\ files[u] # NoFile /\ rows[u].name \notin shadowed => lenses'[rows[u].name] = {}
    BY <1>1, <2>1, <2>3, <2>5 DEF LensesKnow
  <2>8. \A m \in Names \ shadowed : Served(m, u) => lenses'[m] = {}
    BY <1>1, <2>1, <2>4 DEF LensesKnow, Served
  <2>9. LensesKnow(u)'
    BY <1>2, <2>4, <2>6, <2>7, <2>8 DEF LensesKnow, Active
  <2>10. QED  BY <2>2, <2>9
<1>8. ASSUME NEW n \in Names, DeleteLens(n) PROVE Stays
  <2>1. \A m \in Names : lenses'[m] = IF m = n THEN {} ELSE lenses[m]
    BY <1>1, <1>8 DEF DeleteLens, DataTyped
  <2>2. RefsRepo(u)' = {} \/ RefsRepo(u) # {}
    BY <2>1 DEF RefsRepo
  <2>3. lenses[n] # {} /\ \A m \in Names : lenses'[m] # {} => lenses[m] # {}
    BY <1>8, <2>1 DEF DeleteLens
  <2>4. QED  BY <1>3, <2>2, <2>3
<1>9. Stays
  BY <1>5, <1>6, <1>7, <1>8 DEF AnyLens
<1>10. MapsAgree(u)' /\ Present(u)' /\ Recorded(u)' /\ FilesKept(u)'
  BY <1>1, <1>2 DEF Kept, MapsAgree, Present, Recorded, FilesKept, Active, Row
<1>11. RenamesLead(u)'
  BY <1>1, <1>2 DEF Kept, RenamesLead, Reaching, Written
<1>12. CallsInOrder(u)'
  <2> SUFFICES ASSUME NEW c \in Calls, call[c].uid = u
               PROVE  /\ u \notin unavailable
                      /\ call[c].op \in {"create", "restore", "purge"} => Owns(c, u)'
                      /\ call[c].op = "create" => Creates(c, u)'
                      /\ call[c].op = "restore" => Restores(c, u)'
                      /\ call[c].op = "purge" => Purges(c, u)'
    BY <1>2 DEF CallsInOrder
  <2>1. /\ u \notin unavailable
        /\ call[c].op \in {"create", "restore", "purge"} => Owns(c, u)
        /\ call[c].op = "create" => Creates(c, u)
        /\ call[c].op = "restore" => Restores(c, u)
        /\ call[c].op = "purge" => Purges(c, u)
    BY <1>1 DEF Kept, CallsInOrder
  <2>2. Owns(c, u) => Owns(c, u)'
    BY <1>2 DEF Owns, Active, Served
  <2>3. (Creates(c, u) => Creates(c, u)') /\ (Purges(c, u) => Purges(c, u)')
    BY <1>2 DEF Creates, Purges, Active, Row
  <2>4. call[c].op = "restore" => Restores(c, u)'
    <3>1. ASSUME call[c].op = "restore" PROVE RefsRepo(u)' = {}
      BY <1>9, <2>1, <3>1 DEF Restores
    <3>2. QED  BY <1>2, <2>1, <3>1 DEF Restores, Active, Row
  <2>5. QED  BY <2>1, <2>2, <2>3, <2>4
<1>13. QED  BY <1>9, <1>10, <1>11, <1>12 DEF Kept

LEMMA CrashKeeps ==
    ASSUME TypeInv, WideInv, KeptInv, Crash
    PROVE  KeptInv'
<1>1. /\ UNCHANGED <<rows, lenses, files, born, strayed, shadowed, unrecorded>>
      /\ \A c \in Calls : call'[c] = Idle
      /\ \A n \in Names, u \in Uids : ~Served(n, u)'
      /\ \A u \in Uids : byUID'[u] = 0
      /\ unavailable' = {} /\ boot' = {u \in Uids : Active(u)}
  BY CrashIs DEF registry, ghosts
<1> SUFFICES ASSUME NEW u \in Uids \ strayed PROVE Kept(u)'
  BY <1>1 DEF KeptInv
<1>2. Kept(u)
  BY DEF KeptInv
<1>3. MapsAgree(u)' /\ Present(u)' /\ RenamesLead(u)' /\ Recorded(u)'
  BY <1>1 DEF MapsAgree, Present, RenamesLead, Recorded, Active
<1>4. FilesKept(u)' /\ LensesKnow(u)'
  BY <1>1, <1>2 DEF Kept, FilesKept, LensesKnow, Row, Active, RefsRepo
<1>5. CallsInOrder(u)'
  BY <1>1, Typed DEF CallsInOrder, Idle
<1>6. QED  BY <1>3, <1>4, <1>5 DEF Kept

LEMMA OpenKeeps ==
    ASSUME TypeInv, WideInv, KeptInv, NEW u \in Uids, OpenRegistered(u)
    PROVE  KeptInv'
<1>0. /\ u \in boot /\ boot' = boot \ {u} /\ Active(u) /\ rows[u].name \in Names
      /\ \A c \in Calls : call[c] = Idle
      /\ UNCHANGED <<lenses, files, call, born, strayed, shadowed>>
      /\ \A v \in Uids : /\ rows'[v].state = rows[v].state /\ rows'[v].name = rows[v].name
                         /\ v # u => rows'[v] = rows[v]
      /\ byUID[u] = 0 /\ u \notin unavailable /\ \A n \in Names : ~Served(n, u)
  BY OpenIs DEF WideInv, Booting
<1>1. DataTyped /\ NoUid \notin Uids /\ Len(opened) + 1 # 0
  BY Typed
<1>2. \A v \in Uids, c \in Calls : call[c].uid # v
  BY <1>0, <1>1 DEF Idle
<1> SUFFICES ASSUME NEW v \in Uids \ strayed PROVE Kept(v)'
  BY <1>0 DEF KeptInv
<1>3. Kept(v)
  BY DEF KeptInv
<1>4. CASE unavailable' = unavailable \cup {u} /\ UNCHANGED <<rows, opened, repos, byUID, unrecorded>>
  <2>1. \A n \in Names : Served(n, v)' <=> Served(n, v)
    BY <1>4 DEF Served
  <2>2. CASE v # u
    <3>1. SameRepo(v)
      BY <1>0, <1>2, <1>4, <2>1, <2>2 DEF SameRepo, SameMaps
    <3>2. QED  BY <1>3, <3>1, KeptSame
  <2>3. CASE v = u
    <3>1. MapsAgree(u)' /\ Present(u)' /\ RenamesLead(u)' /\ Recorded(u)'
      BY <1>0, <1>4, <2>1, <2>3 DEF MapsAgree, Present, RenamesLead, Recorded, Active
    <3>2. FilesKept(u)' /\ LensesKnow(u)'
      BY <1>0, <1>3, <1>4, <2>1, <2>3 DEF Kept, FilesKept, LensesKnow, Row, Active, RefsRepo
    <3>3. CallsInOrder(u)'
      BY <1>0, <1>2 DEF CallsInOrder
    <3>4. QED  BY <2>3, <3>1, <3>2, <3>3 DEF Kept
  <2>4. QED  BY <2>2, <2>3
<1>5. CASE /\ unavailable' = unavailable /\ files[u] # NoFile
           /\ Serve(u, rows[u].name, Len(opened) + 1)
           /\ \/ ~KbTaken(u, files[u]) /\ rows'[u].kb = files[u] /\ unrecorded' = unrecorded \ {u}
              \/ rows' = rows /\ unrecorded' = unrecorded \cup {u}
  <2>0. /\ repos[rows[u].name] = 0
        /\ \A n \in Names, w \in Uids : Served(n, w)' <=> IF n = rows[u].name THEN w = u ELSE Served(n, w)
        /\ repos'[rows[u].name] = Len(opened) + 1 /\ opened'[Len(opened) + 1].kb = files[u]
        /\ \A n \in Names \ {rows[u].name} : repos'[n] = repos[n]
        /\ \A i \in 1..Len(opened) : opened'[i] = opened[i]
        /\ byUID' = [byUID EXCEPT ![u] = Len(opened) + 1]
    BY <1>5, OpenServes DEF WideInv
  <2>1. byUID'[u] = Len(opened) + 1 /\ \A w \in Uids \ {u} : byUID'[w] = byUID[w]
    BY <1>1, <2>0 DEF DataTyped
  <2>2. CASE v # u
    <3>1. \A n \in Names : Served(n, v) => n # rows[u].name /\ repos[n] \in 1..Len(opened)
      BY <1>1, <2>0, InstanceAt DEF Served
    <3>2. SameMaps(v)
      BY <1>0, <1>5, <2>0, <2>1, <2>2, <3>1 DEF SameMaps
    <3>3. SameRepo(v)
      BY <1>0, <1>2, <1>5, <2>2, <3>2 DEF SameRepo
    <3>4. QED  BY <1>3, <3>3, KeptSame
  <2>3. CASE v = u
    <3>1. \A n \in Names : Served(n, u)' <=> n = rows[u].name
      BY <1>0, <2>0
    <3>2. MapsAgree(u)' /\ Present(u)'
      BY <1>0, <1>1, <1>5, <2>0, <2>1, <3>1 DEF MapsAgree, Present, Active
    <3>3. RenamesLead(u)'
      BY <1>0, <1>2, <3>1 DEF RenamesLead, Written
    <3>4. Recorded(u)'
      BY <1>5, <2>0, <3>1 DEF Recorded
    <3>5. FilesKept(u)' /\ LensesKnow(u)'
      BY <1>0, <1>3, <1>5, <2>3, <3>1 DEF Kept, FilesKept, LensesKnow, Row, Active, RefsRepo
    <3>6. CallsInOrder(u)'
      BY <1>0, <1>2 DEF CallsInOrder
    <3>7. QED  BY <2>3, <3>2, <3>3, <3>4, <3>5, <3>6 DEF Kept
  <2>4. QED  BY <2>2, <2>3
<1>6. QED  BY <1>4, <1>5, OpenIs

LEMMA KeptInit == Init => KeptInv
<1> SUFFICES ASSUME Init, NEW u \in Uids PROVE Kept(u)
  BY DEF KeptInv
<1>0. /\ \A c \in Calls : call[c] = Idle
      /\ \A n \in Names : repos[n] = 0
      /\ \A v \in Uids : byUID[v] = 0
      /\ boot = {v \in Uids : Active(v)} /\ unavailable = {}
      /\ \A n \in Names : \A v \in lenses[n] : Active(v)
      /\ \A n \in Names, v \in Uids : Active(v) /\ rows[v].name = n => lenses[n] = {}
      /\ files = [v \in Uids |-> IF Row(v) THEN KbFrom(v, rows[v].origin) ELSE NoFile]
  BY DEF Init
<1>1. rows[u] \in RowSet /\ NoUid \notin Uids
  BY InitTyped, NoValueAssumption DEF DataTyped
<1>2. \A n \in Names : ~Served(n, u)
  BY <1>0 DEF Served
<1>3. MapsAgree(u) /\ Present(u) /\ RenamesLead(u) /\ Recorded(u)
  BY <1>0, <1>2 DEF MapsAgree, Present, RenamesLead, Recorded
<1>4. FilesKept(u)
  <2>1. Row(u) => rows[u].origin \in Origins \cup {NoOrigin}
    BY <1>1, RowFields DEF Row
  <2>2. Row(u) => files[u] \in Kbs
    BY <1>0, <2>1, BaseOf
  <2>3. QED  BY <2>2, NoValueAssumption DEF FilesKept
<1>5. LensesKnow(u)
  <2>1. Active(u) => rows[u].name \in Names
    BY <1>1, RowFields DEF Active
  <2>2. QED  BY <1>0, <1>2, <2>1 DEF LensesKnow, RefsRepo
<1>6. CallsInOrder(u)
  BY <1>0, <1>1 DEF CallsInOrder, Idle
<1>7. QED  BY <1>3, <1>4, <1>5, <1>6 DEF Kept

LEMMA KeptNext ==
    ASSUME TypeInv, WideInv, KeptInv, [Next]_vars
    PROVE  KeptInv'
<1>1. CASE UNCHANGED vars
  <2>1. /\ UNCHANGED <<rows, lenses, files, opened, repos, byUID, unavailable, boot, call>>
        /\ UNCHANGED <<born, strayed, shadowed, unrecorded>>
    BY <1>1 DEF vars, registry, maps, ghosts
  <2>2. ASSUME NEW u \in Uids \ strayed PROVE Kept(u)'
    <3>1. SameRepo(u)
      BY <2>1 DEF SameRepo, SameMaps, Served
    <3>2. QED  BY <2>2, <3>1, KeptSame DEF KeptInv
  <2>3. QED  BY <2>1, <2>2 DEF KeptInv
<1>2. CASE Next
  BY <1>2, NextIs, StepKeeps, StartKeeps, ArchiveKeeps, LensKeeps, OpenKeeps, CrashKeeps
<1>3. QED  BY <1>1, <1>2

-----------------------------------------------------------------------------
(* The invariant, and the properties that follow from it.                  *)

(* The registry, the files, the maps and the lenses agree, repository by   *)
(* repository, with where the calls on each one are.                       *)
THEOREM InvariantHolds == Spec => []IInv
<1>1. Init => WideInv /\ KeptInv
  BY WideInit, KeptInit
<1>2. TypeInv /\ WideInv /\ KeptInv /\ [Next]_vars => (WideInv /\ KeptInv)'
  BY WideNext, KeptNext
<1>3. TypeInv /\ WideInv /\ KeptInv => IInv
  BY DEF TypeInv, IInv
<1>4. QED  BY TypesHold, <1>1, <1>2, <1>3, PTL DEF Spec

(* A repository that a call has made is never left with a row and no file, *)
(* whatever failed, was compensated, or was cut short by the end of the    *)
(* process -- unless calls that nothing keeps apart worked on it.          *)
THEOREM FilesCorrect == Spec => []FilesAreKept
<1>1. IInv => FilesAreKept
  BY DEF IInv, KeptInv, Kept, FilesKept, TypeOK, FilesAreKept
<1>2. QED  BY <1>1, InvariantHolds, PTL

(* A lens never mounts an archived or a purged repository.                 *)
THEOREM LensMembersCorrect == Spec => []LensMembersActive
<1>1. IInv => LensMembersActive
  <2> SUFFICES ASSUME IInv, NEW n \in Names, NEW u \in lenses[n] \ strayed PROVE Active(u)
    BY DEF LensMembersActive
  <2>1. u \in Uids \ strayed
    BY DEF IInv, TypeOK
  <2>2. QED  BY <2>1 DEF IInv, KeptInv, Kept, LensesKnow, RefsRepo
<1>2. QED  BY <1>1, InvariantHolds, PTL

(* Between calls, a repository is served under the name of its active row  *)
(* and no other, and an active one is served or listed as unavailable,     *)
(* however renames, archivings and restores have raced.                    *)
THEOREM MapCorrect == Spec => []MapFollowsRegistry
<1>1. TypeInv /\ IInv => MapFollowsRegistry
  <2> SUFFICES ASSUME TypeInv, IInv, Quiet, NEW u \in Uids \ strayed
               PROVE  /\ \A n \in Names : Served(n, u) => Active(u) /\ rows[u].name = n /\ byUID[u] = repos[n]
                      /\ u \in born /\ Active(u) => u \in unavailable \/ \E n \in Names : Served(n, u)
    BY DEF MapFollowsRegistry
  <2>1. Kept(u) /\ boot = {}
    BY DEF IInv, KeptInv, Quiet
  <2>2. \A c \in Calls : call[c].op = "none" /\ call[c].pc = "idle"
    BY Typed DEF Quiet, Reaches, Stage, CreateSteps, RestoreSteps, PurgeSteps, RenameSteps
  <2>3. \A n : ~Reaching(u, n)
    BY <2>2 DEF Reaching, Written
  <2>4. ASSUME NEW n \in Names, Served(n, u) PROVE Active(u) /\ rows[u].name = n /\ byUID[u] = repos[n]
    BY <2>1, <2>3, <2>4 DEF Kept, MapsAgree, RenamesLead, Served
  <2>5. ASSUME u \in born, Active(u) PROVE u \in unavailable \/ \E n \in Names : Served(n, u)
    BY <2>1, <2>2, <2>5 DEF Kept, MapsAgree, Present, FilesKept, Active, Row
  <2>6. QED  BY <2>4, <2>5
<1>2. QED  BY <1>1, TypesHold, InvariantHolds, PTL

(* Between calls, no two served repositories hold one knowledge base,      *)
(* unless the identity of one could not be recorded.                       *)
THEOREM OneLiveCopyCorrect == Spec => []OneLiveCopy
<1>1. TypeInv /\ IInv => OneLiveCopy
  <2> SUFFICES ASSUME TypeInv, IInv, Quiet, NEW m \in Names, NEW n \in Names,
                      repos[m] # 0, repos[n] # 0, opened[repos[m]].uid # opened[repos[n]].uid,
                      {opened[repos[m]].uid, opened[repos[n]].uid} \cap (unrecorded \cup strayed) = {}
               PROVE  opened[repos[m]].kb # opened[repos[n]].kb
    BY DEF OneLiveCopy
  <2> DEFINE u == opened[repos[m]].uid
             v == opened[repos[n]].uid
  <2>1. u \in Uids \ strayed /\ v \in Uids \ strayed /\ u # v /\ u \notin unrecorded /\ v \notin unrecorded
        /\ opened[repos[m]].kb \in Kbs
    BY Typed, InstanceAt
  <2>2. Served(m, u) /\ Served(n, v) /\ Kept(u) /\ Kept(v)
    BY <2>1 DEF Served, IInv, KeptInv
  <2> HIDE DEF u, v
  <2>3. \A c \in Calls : call[c].pc \notin Installed
    BY DEF Quiet, Reaches, Installed
  <2>4. Active(u) /\ Active(v)
    BY <2>2 DEF Kept, MapsAgree, Served
  <2>5. rows[u].kb = opened[repos[m]].kb /\ rows[v].kb = opened[repos[n]].kb
    BY <2>1, <2>2, <2>3 DEF Kept, Recorded
  <2>6. rows[u].kb # NoKb
    BY <2>1, <2>5, NoValueAssumption
  <2>7. QED  BY <2>1, <2>4, <2>5, <2>6 DEF IInv, WideInv, Indexes
<1>2. QED  BY <1>1, TypesHold, InvariantHolds, PTL

(* One name is never a served repository's and a lens's.                   *)
THEOREM NamesCorrect == Spec => []NamesAreDisjoint
<1>1. TypeInv /\ IInv => NamesAreDisjoint
  <2> SUFFICES ASSUME TypeInv, IInv, NEW n \in Names \ shadowed, repos[n] # 0,
                      opened[repos[n]].uid \notin strayed
               PROVE  lenses[n] = {}
    BY DEF NamesAreDisjoint
  <2> DEFINE u == opened[repos[n]].uid
  <2>1. u \in Uids \ strayed
    BY Typed, InstanceAt
  <2>2. Served(n, u) /\ Kept(u)
    BY <2>1 DEF Served, IInv, KeptInv
  <2> HIDE DEF u
  <2>3. QED  BY <2>2 DEF Kept, LensesKnow
<1>2. QED  BY <1>1, TypesHold, InvariantHolds, PTL
=============================================================================
