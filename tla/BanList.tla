------------------------------ MODULE BanList ------------------------------
(***************************************************************************)
(* The ban of one address: its row in the database, its entry in the       *)
(* cache, and every program that reads or writes either of them -- requests*)
(* asking ban_kind, detectors calling add_automatic_ban, operators calling *)
(* add_ban and remove_ban, the admin actions, bouncer_unban and            *)
(* bouncer_prune.  All of that code is keyed by the address, so one        *)
(* address is the whole system.                                            *)
(*                                                                         *)
(* A worker is a request, a command or an admin action.  It runs one       *)
(* operation at a time; each step is one database statement or one cache   *)
(* call, and other workers step in between.  Time is relative: a deadline  *)
(* is stored as the ticks it has `left` (negative once past) and Tick      *)
(* moves all of them, so behaviours have no horizon.                       *)
(*                                                                         *)
(* The database locks rows (PostgreSQL, MySQL).  Not modelled: hit_count,  *)
(* reason and note, which no decision reads.                               *)
(***************************************************************************)
EXTENDS Integers, FiniteSets

CONSTANTS
    Worker, NoWorker,   \* the concurrent operations, and "nobody"
    PK, NoPK,           \* primary keys of ban rows, and "no row"
    Address, Unspecified, \* client addresses; those that name no peer
    Op,                 \* the operations the workers may start
    AutoLength,         \* lengths of automatic bans, in ticks
    ManualLength,       \* lengths of manual bans, in ticks (add_ban takes hours=0)
    NegTTL, PermTTL,    \* cache timeouts of "0" (60 s) and "p" (600 s)
    Grace               \* ticks an expired row is kept (one day)

ASSUME WorkerAssumption == NoWorker \notin Worker
ASSUME KeyAssumption == NoPK \notin PK
ASSUME LengthAssumption ==
    /\ AutoLength \in SUBSET (Nat \ {0})
    /\ ManualLength \in SUBSET Nat
ASSUME TimeoutAssumption ==
    NegTTL \in Nat \ {0} /\ PermTTL \in Nat \ {0} /\ Grace \in Nat

VARIABLES
    ip,     \* the address; never changes
    row,    \* its row in the ban table
    cache,  \* its cache entry, key bnc:ban:<ip>
    lock,   \* who holds the row lock of select_for_update
    pc,     \* the step each worker takes next
    seen,   \* the row each worker last read or wrote
    due     \* the ban a worker is going to write (or the age of its listing)

vars == <<ip, row, cache, lock, pc, seen, due>>

-----------------------------------------------------------------------------
(* Rows, cache entries and time *)

(* A deadline that passed longer ago than the grace period is at Floor. *)
Floor == -(Grace + 1)
NoRow == [pk |-> NoPK, kind |-> "none", left |-> 0]
NoEntry == [kind |-> "none", left |-> 0, ttl |-> 0]
NoBan == [kind |-> "none", left |-> 0]

(* "void" is a row neither permanent nor with a deadline: never active. *)
Ban(kind, left) == [kind |-> kind, left |-> left]
PermanentBan == Ban("perm", 0)
RowOf(pk, ban) == [pk |-> pk, kind |-> ban.kind, left |-> ban.left]

IsActive(r) == r.kind = "perm" \/ (r.kind = "temp" /\ r.left > 0)
Prunable(r) == r.kind = "temp" /\ r.left = Floor

(* Mutant: the timeout is not held at one tick or more. *)
ActiveEntryUncapped(r) ==
    CASE r.kind = "perm" -> [kind |-> "p", left |-> 0, ttl |-> PermTTL]
      [] r.kind = "temp" -> [kind |-> "e", left |-> r.left, ttl |-> r.left + 1]
      [] OTHER           -> [kind |-> "0", left |-> 0, ttl |-> NegTTL]

(* The entry _cache_active_ban writes: "p", "e:<deadline>" or "0". *)
ActiveEntry(r) ==
    CASE r.kind = "perm" -> [kind |-> "p", left |-> 0, ttl |-> PermTTL]
      [] r.kind = "temp" -> [kind |-> "e", left |-> r.left,
                             ttl |-> IF r.left > 0 THEN r.left + 1 ELSE 1]
      [] OTHER           -> [kind |-> "0", left |-> 0, ttl |-> NegTTL]
NegativeEntry == [kind |-> "0", left |-> 0, ttl |-> NegTTL]

(* The cached answers is_banned gives without asking the database. *)
CachedBan(e) == e.kind = "p" \/ (e.kind = "e" /\ e.left > 0)
CachedClear(e) == e.kind = "0"

Bannable(a) == a \notin Unspecified
Unlocked == lock = NoWorker
FreshPK == PK \ ({row.pk} \cup {seen[w].pk : w \in Worker})

-----------------------------------------------------------------------------
(* Worker bookkeeping *)

Goto(w, label) == pc' = [pc EXCEPT ![w] = label]
Remember(w, r) == seen' = [seen EXCEPT ![w] = r]
Carry(w, ban) == due' = [due EXCEPT ![w] = ban]
Finish(w, label) == Goto(w, label) /\ Remember(w, NoRow) /\ Carry(w, NoBan)
At(w, label) == pc[w] = label
Start(w, op) == At(w, "idle") /\ op \in Op

-----------------------------------------------------------------------------
(* ban_kind: is_banned, then a second look at the cache *)

CheckUnbannable(w) ==
    /\ Start(w, "check") /\ ~Bannable(ip)
    /\ cache' = NoEntry
    /\ Goto(w, "clear")
    /\ UNCHANGED <<ip, row, lock, seen, due>>

(* What a cached value says: an answer, ask the database, or drop it first  *)
(* because its deadline passed or its shape is unknown.                     *)
AfterGet == CASE CachedBan(cache)   -> "checkKind"
              [] CachedClear(cache) -> "clear"
              [] cache = NoEntry    -> "checkQuery"
              [] OTHER              -> "checkDrop"

(* Mutant: a negative hit renews its timeout. *)
CheckGetRenewsClear(w) ==
    /\ Start(w, "check") /\ Bannable(ip)
    /\ Goto(w, AfterGet)
    /\ cache' = IF CachedClear(cache) THEN NegativeEntry ELSE cache
    /\ UNCHANGED <<ip, row, lock, seen, due>>

(* Mutant: a hit on a permanent ban renews its timeout. *)
CheckGetRenewsBan(w) ==
    /\ Start(w, "check") /\ Bannable(ip)
    /\ Goto(w, AfterGet)
    /\ cache' = IF cache.kind = "p" THEN [cache EXCEPT !.ttl = PermTTL] ELSE cache
    /\ UNCHANGED <<ip, row, lock, seen, due>>

CheckGet(w) ==
    /\ Start(w, "check") /\ Bannable(ip)
    /\ Goto(w, AfterGet)
    /\ UNCHANGED <<ip, row, cache, lock, seen, due>>

CheckDrop(w) ==
    /\ At(w, "checkDrop")
    /\ cache' = NoEntry
    /\ Goto(w, "checkQuery")
    /\ UNCHANGED <<ip, row, lock, seen, due>>

CheckQuery(w) ==
    /\ At(w, "checkQuery")
    /\ Remember(w, IF IsActive(row) THEN row ELSE NoRow)
    /\ Goto(w, "checkFill")
    /\ UNCHANGED <<ip, row, cache, lock, due>>

CheckFill(w) ==
    /\ At(w, "checkFill")
    /\ cache' = IF seen[w] = NoRow THEN NegativeEntry ELSE ActiveEntry(seen[w])
    /\ Goto(w, IF seen[w] = NoRow THEN "clear" ELSE "checkKind")
    /\ Remember(w, NoRow)
    /\ UNCHANGED <<ip, row, lock, due>>

CheckKind(w) ==
    /\ At(w, "checkKind")
    /\ Goto(w, IF cache.kind = "p" THEN "perm" ELSE "temp")
    /\ UNCHANGED <<ip, row, cache, lock, seen, due>>

(* The answers of ban_kind: None, "temp" and "perm".  Serving the request   *)
(* with the answer ends the operation.                                      *)
Answers == {"clear", "temp", "perm"}
Serve(w) ==
    /\ pc[w] \in Answers
    /\ Goto(w, "idle")
    /\ UNCHANGED <<ip, row, cache, lock, seen, due>>

-----------------------------------------------------------------------------
(* add_automatic_ban *)

(* The deadline is computed before the transaction begins. *)
AutoStart(w) ==
    /\ Start(w, "auto") /\ Bannable(ip)
    /\ \E n \in AutoLength : Carry(w, Ban("temp", n))
    /\ Goto(w, "autoLock")
    /\ UNCHANGED <<ip, row, cache, lock, seen>>

AfterLock == CASE IsActive(row) -> "autoKeep"
               [] row = NoRow   -> "autoCreate"
               [] OTHER         -> "autoRevive"

(* Mutant: the row is read without select_for_update. *)
AutoLockPlainRead(w) ==
    /\ At(w, "autoLock") /\ Unlocked
    /\ Remember(w, row)
    /\ Goto(w, AfterLock)
    /\ UNCHANGED <<ip, row, cache, lock, due>>

(* select_for_update().first(): an existing row is locked until the commit; *)
(* a missing row locks nothing.                                             *)
AutoLock(w) ==
    /\ At(w, "autoLock") /\ Unlocked
    /\ lock' = IF row = NoRow THEN NoWorker ELSE w
    /\ Remember(w, row)
    /\ Goto(w, AfterLock)
    /\ UNCHANGED <<ip, row, cache, due>>

(* Mutant: the refused ban's deadline is cached, not the existing one. *)
AutoKeepCachesNewBan(w) ==
    /\ At(w, "autoKeep")
    /\ cache' = ActiveEntry(RowOf(seen[w].pk, due[w]))
    /\ lock' = NoWorker
    /\ Finish(w, "idle")
    /\ UNCHANGED <<ip, row>>

AutoKeep(w) ==
    /\ At(w, "autoKeep")
    /\ cache' = ActiveEntry(seen[w])
    /\ lock' = NoWorker
    /\ Finish(w, "idle")
    /\ UNCHANGED <<ip, row>>

(* Mutant: the address column is not unique, the later ban replaces the     *)
(* earlier one.                                                             *)
AutoCreateNotUnique(w) ==
    /\ At(w, "autoCreate")
    /\ \E pk \in FreshPK \cup ({row.pk} \ {NoPK}) : row' = RowOf(pk, due[w])
    /\ Remember(w, row')
    /\ Carry(w, NoBan)
    /\ Goto(w, "autoPublish")
    /\ UNCHANGED <<ip, cache, lock>>

AutoCreate(w) ==
    /\ At(w, "autoCreate") /\ row = NoRow
    /\ \E pk \in FreshPK : row' = RowOf(pk, due[w])
    /\ Remember(w, row')
    /\ Carry(w, NoBan)
    /\ Goto(w, "autoPublish")
    /\ UNCHANGED <<ip, cache, lock>>

(* Someone else inserted the row first: the unique address column raises    *)
(* IntegrityError out of add_automatic_ban.                                 *)
AutoCollide(w) ==
    /\ At(w, "autoCreate") /\ row # NoRow
    /\ Finish(w, "idle")
    /\ UNCHANGED <<ip, row, cache, lock>>

(* The expired row is overwritten in place: it keeps its primary key. *)
AutoRevive(w) ==
    /\ At(w, "autoRevive")
    /\ row' = RowOf(seen[w].pk, due[w])
    /\ lock' = NoWorker
    /\ Remember(w, row')
    /\ Carry(w, NoBan)
    /\ Goto(w, "autoPublish")
    /\ UNCHANGED <<ip, cache>>

AutoPublish(w) ==
    /\ At(w, "autoPublish")
    /\ cache' = ActiveEntry(seen[w])
    /\ Finish(w, "idle")
    /\ UNCHANGED <<ip, row, lock>>

-----------------------------------------------------------------------------
(* add_ban *)

BanStart(w) ==
    /\ Start(w, "ban") /\ Bannable(ip)
    /\ \E ban \in {PermanentBan} \cup {Ban("temp", n) : n \in ManualLength} :
           Carry(w, ban)
    /\ Goto(w, "banSave")
    /\ UNCHANGED <<ip, row, cache, lock, seen>>

(* update_or_create keeps the primary key of an existing row. *)
BanSave(w) ==
    /\ At(w, "banSave") /\ Unlocked
    /\ \E pk \in IF row = NoRow THEN FreshPK ELSE {row.pk} :
           row' = RowOf(pk, due[w])
    /\ Remember(w, row')
    /\ Carry(w, NoBan)
    /\ Goto(w, "banRefresh")
    /\ UNCHANGED <<ip, cache, lock>>

(* The hit_count update waits for the row lock; refresh_from_db raises      *)
(* DoesNotExist when the row is gone.                                       *)
BanRefresh(w) ==
    /\ At(w, "banRefresh") /\ Unlocked
    /\ LET found == row # NoRow /\ row.pk = seen[w].pk
       IN  /\ Remember(w, IF found THEN row ELSE NoRow)
           /\ Goto(w, IF found THEN "banPublish" ELSE "idle")
    /\ UNCHANGED <<ip, row, cache, lock, due>>

BanPublish(w) ==
    /\ At(w, "banPublish")
    /\ cache' = ActiveEntry(seen[w])
    /\ Finish(w, "idle")
    /\ UNCHANGED <<ip, row, lock, due>>

-----------------------------------------------------------------------------
(* remove_ban: bouncer_unban, the admin actions and staff sign-in *)

LiftDelete(w) ==
    /\ Start(w, "lift") /\ Unlocked
    /\ row' = NoRow
    /\ Goto(w, "liftUncache")
    /\ UNCHANGED <<ip, cache, lock, seen, due>>

LiftUncache(w) ==
    /\ At(w, "liftUncache")
    /\ cache' = NoEntry
    /\ Goto(w, "idle")
    /\ UNCHANGED <<ip, row, lock, seen, due>>

-----------------------------------------------------------------------------
(* make_permanent, the admin action *)

PermanentList(w) ==
    /\ Start(w, "permanent") /\ row # NoRow
    /\ Remember(w, row)
    /\ Goto(w, "permanentUpdate")
    /\ UNCHANGED <<ip, row, cache, lock, due>>

(* The update is by the selected keys; it may find no row. *)
PermanentUpdate(w) ==
    /\ At(w, "permanentUpdate") /\ Unlocked
    /\ row' = IF row.pk = seen[w].pk THEN RowOf(row.pk, PermanentBan) ELSE row
    /\ Goto(w, "permanentPublish")
    /\ UNCHANGED <<ip, cache, lock, seen, due>>

(* Every listed address is cached as permanent, updated or not. *)
PermanentPublish(w) ==
    /\ At(w, "permanentPublish")
    /\ cache' = ActiveEntry(RowOf(seen[w].pk, PermanentBan))
    /\ Finish(w, "idle")
    /\ UNCHANGED <<ip, row, lock, due>>

-----------------------------------------------------------------------------
(* bouncer_unban --all *)

(* The command goes on when any address has an active ban; seen[w] says     *)
(* whether this one was listed.  due[w] ages from the listing, because the  *)
(* delete reuses the listing's instant.                                     *)
UnbanAllList(w) ==
    /\ Start(w, "unbanAll")
    /\ Remember(w, IF IsActive(row) THEN row ELSE NoRow)
    /\ Carry(w, Ban("temp", 0))
    /\ Goto(w, "unbanAllDelete")
    /\ UNCHANGED <<ip, row, cache, lock>>

UnbanAllDelete(w) ==
    /\ At(w, "unbanAllDelete") /\ Unlocked
    /\ LET wasActive == \/ row.kind = "perm"
                        \/ row.kind = "temp" /\ row.left > due[w].left
       IN  row' = IF wasActive THEN NoRow ELSE row
    /\ Goto(w, IF seen[w] = NoRow THEN "idle" ELSE "unbanAllUncache")
    /\ Carry(w, NoBan)
    /\ UNCHANGED <<ip, cache, lock, seen>>

UnbanAllUncache(w) ==
    /\ At(w, "unbanAllUncache")
    /\ cache' = NoEntry
    /\ Finish(w, "idle")
    /\ UNCHANGED <<ip, row, lock, due>>

-----------------------------------------------------------------------------
(* bouncer_prune, when this address is among the expired ones *)

PruneScan(w) ==
    /\ Start(w, "prune") /\ Prunable(row)
    /\ Goto(w, "pruneUncache")
    /\ UNCHANGED <<ip, row, cache, lock, seen, due>>

PruneUncache(w) ==
    /\ At(w, "pruneUncache")
    /\ cache' = NoEntry
    /\ Goto(w, "pruneList")
    /\ UNCHANGED <<ip, row, lock, seen, due>>

PruneList(w) ==
    /\ At(w, "pruneList")
    /\ Remember(w, IF Prunable(row) THEN row ELSE NoRow)
    /\ Goto(w, IF Prunable(row) THEN "pruneDelete" ELSE "idle")
    /\ UNCHANGED <<ip, row, cache, lock, due>>

(* The delete is by primary key alone. *)
PruneDelete(w) ==
    /\ At(w, "pruneDelete") /\ Unlocked
    /\ row' = IF row.pk = seen[w].pk THEN NoRow ELSE row
    /\ Finish(w, "idle")
    /\ UNCHANGED <<ip, cache, lock, due>>

-----------------------------------------------------------------------------
(* The surroundings: the admin's forms, the cache server, crashes, time *)

(* The add and change forms of the admin write any ban that passes clean(). *)
FormSave ==
    /\ "save" \in Op /\ Bannable(ip) /\ Unlocked
    /\ \E ban \in {PermanentBan, Ban("void", 0)}
                      \cup {Ban("temp", n) : n \in ManualLength} :
         \E pk \in IF row = NoRow THEN FreshPK ELSE {row.pk} :
           row' = RowOf(pk, ban)
    /\ UNCHANGED <<ip, cache, lock, pc, seen, due>>

FormDelete ==
    /\ "erase" \in Op /\ Unlocked /\ row # NoRow
    /\ row' = NoRow
    /\ UNCHANGED <<ip, cache, lock, pc, seen, due>>

(* The cache may drop an entry before its timeout. *)
Evict ==
    /\ "evict" \in Op /\ cache # NoEntry
    /\ cache' = NoEntry
    /\ UNCHANGED <<ip, row, lock, pc, seen, due>>

(* The process dies between two steps; its transaction is rolled back. *)
Crash(w) ==
    /\ "crash" \in Op /\ pc[w] # "idle"
    /\ Finish(w, "idle")
    /\ lock' = IF lock = w THEN NoWorker ELSE lock
    /\ UNCHANGED <<ip, row, cache>>

Later(t) == IF t = Floor THEN Floor ELSE t - 1
Aged(b) == IF b.kind = "temp" THEN [b EXCEPT !.left = Later(b.left)] ELSE b
AgedEntry(e) ==
    IF e.ttl <= 1 THEN NoEntry
    ELSE [e EXCEPT !.ttl = e.ttl - 1,
                   !.left = IF e.kind = "e" THEN Later(e.left) ELSE e.left]

Tick ==
    /\ row' = Aged(row)
    /\ cache' = AgedEntry(cache)
    /\ seen' = [w \in Worker |-> Aged(seen[w])]
    /\ due' = [w \in Worker |-> Aged(due[w])]
    /\ UNCHANGED <<ip, lock, pc>>

-----------------------------------------------------------------------------
(* The database may already hold any row, and the cache an entry of a shape *)
(* an older release wrote.                                                  *)
InitRow == {NoRow} \cup [pk : PK, kind : {"perm", "void"}, left : {0}]
                   \cup [pk : PK, kind : {"temp"}, left : {Floor, 0, 1}]

Init ==
    /\ ip \in Address
    /\ row \in InitRow
    /\ cache \in {NoEntry, [kind |-> "old", left |-> 0, ttl |-> PermTTL]}
    /\ lock = NoWorker
    /\ pc = [w \in Worker |-> "idle"]
    /\ seen = [w \in Worker |-> NoRow]
    /\ due = [w \in Worker |-> NoBan]

Check(w) ==
    \/ CheckUnbannable(w) \/ CheckGet(w) \/ CheckDrop(w) \/ CheckQuery(w)
    \/ CheckFill(w) \/ CheckKind(w) \/ Serve(w)
AutoBan(w) ==
    \/ AutoStart(w) \/ AutoLock(w) \/ AutoKeep(w) \/ AutoCreate(w)
    \/ AutoCollide(w) \/ AutoRevive(w) \/ AutoPublish(w)
ManualBan(w) == BanStart(w) \/ BanSave(w) \/ BanRefresh(w) \/ BanPublish(w)
Lift(w) == LiftDelete(w) \/ LiftUncache(w)
Permanent(w) == PermanentList(w) \/ PermanentUpdate(w) \/ PermanentPublish(w)
UnbanAll(w) == UnbanAllList(w) \/ UnbanAllDelete(w) \/ UnbanAllUncache(w)
Prune(w) == PruneScan(w) \/ PruneUncache(w) \/ PruneList(w) \/ PruneDelete(w)

Step(w) ==
    \/ Check(w) \/ AutoBan(w) \/ ManualBan(w) \/ Lift(w)
    \/ Permanent(w) \/ UnbanAll(w) \/ Prune(w)
Outside == FormSave \/ FormDelete \/ Evict \/ Tick

Next == (\E w \in Worker : Step(w) \/ Crash(w)) \/ Outside

Spec == Init /\ [][Next]_vars

(* A worker in the middle of an operation goes on with it, and time passes. *)
Continue(w) == pc[w] # "idle" /\ Step(w)
FairSpec == Spec /\ (\A w \in Worker : WF_vars(Continue(w))) /\ WF_vars(Tick)

-----------------------------------------------------------------------------
(* Properties *)

Label ==
    {"idle", "checkDrop", "checkQuery", "checkFill", "checkKind",
     "clear", "temp", "perm",
     "autoLock", "autoKeep", "autoCreate", "autoRevive", "autoPublish",
     "banSave", "banRefresh", "banPublish", "liftUncache",
     "permanentUpdate", "permanentPublish", "unbanAllDelete",
     "unbanAllUncache", "pruneUncache", "pruneList", "pruneDelete"}
Deadline == {t \in Int : t >= Floor}
Bans == [kind : {"none", "perm", "temp", "void"}, left : Deadline]
Rows == [pk : PK \cup {NoPK}, kind : {"none", "perm", "temp", "void"},
         left : Deadline]
Entries == [kind : {"none", "p", "e", "0", "old"}, left : Deadline, ttl : Nat]

(* Every variable holds a value of its type: deadlines never age below the  *)
(* floor the pruning cutoff needs, timeouts never go negative.              *)
TypeOK ==
    /\ ip \in Address
    /\ row \in Rows
    /\ cache \in Entries
    /\ lock \in Worker \cup {NoWorker}
    /\ pc \in [Worker -> Label]
    /\ seen \in [Worker -> Rows]
    /\ due \in [Worker -> Bans]

(* add_automatic_ban decides on `existing` and writes by it later: while it *)
(* holds the row lock the row is still the one it read, and a row it is     *)
(* about to overwrite is still inactive, however the operators, the forms   *)
(* and the clock interleave.                                                *)
TransactionSeesItsRow ==
    \A w \in Worker :
        /\ lock = w <=> pc[w] \in {"autoKeep", "autoRevive"}
        /\ lock = w => row # NoRow /\ seen[w] = row
        /\ pc[w] = "autoRevive" => ~IsActive(row)

(* "An automatic ban can never overwrite, shorten or extend a manual one"   *)
(* (models.py): no step of a detector changes the row of an active ban.     *)
DetectorsKeepActiveBans ==
    [][\A w \in Worker : AutoBan(w) /\ IsActive(row) => row' = row]_vars

(* The cached entry says what the row says. *)
CacheMatchesRow ==
    /\ cache.kind = "p" => row.kind = "perm"
    /\ cache.kind = "e" /\ cache.left > 0 =>
           row.kind = "temp" /\ row.left = cache.left

(* Where only requests and detectors run, an address the cache calls banned *)
(* has an active row with exactly that deadline: a late cache write of an   *)
(* older ban, a crash between commit and cache write, or an eviction never  *)
(* leaves a ban that outlives its row.                                      *)
CachedBanIsBacked == CachedBan(cache) => IsActive(row) /\ CacheMatchesRow

(* "Returns True only for a new or previously expired ban": of detectors    *)
(* racing over one address, one at most creates each ban.                   *)
OneBannerPerBan ==
    \A v, w \in Worker :
        /\ pc[v] = "autoPublish" /\ seen[v].left > 0
        /\ pc[w] = "autoPublish" /\ seen[w].left > 0
        => v = w

(* The ban in force, as BanLedger sees it.                                  *)
InForce ==
    IF ~IsActive(row) THEN NoBan
    ELSE IF row.kind = "perm" THEN PermanentBan ELSE Ban("temp", row.left)
Ledger == INSTANCE BanLedger
              WITH ban <- InForce, Length <- AutoLength, MayLift <- FALSE

(* Racing detectors implement the ledger: whatever rows they read, lock,    *)
(* create and revive, and wherever they crash, the address gets a ban when  *)
(* it has none and that ban runs down untouched, no longer than its length. *)
DetectorsKeepLedger == Ledger!Spec

(* "Reads go through the cache; writes invalidate it" (models.py): when no  *)
(* operation is under way the cache neither blocks an address whose ban is  *)
(* gone or different, nor clears one whose ban is active.                   *)
WritesInvalidate ==
    (\A w \in Worker : pc[w] = "idle") =>
        /\ CachedBan(cache) => IsActive(row) /\ CacheMatchesRow
        /\ CachedClear(cache) => ~IsActive(row)

(* bouncer_prune: "Permanent bans and active bans are never touched".       *)
PruneKeepsActiveBans ==
    [][\A w \in Worker : PruneDelete(w) /\ IsActive(row) => row' = row]_vars

(* A ban that stays is enforced: after the last stale negative entry has    *)
(* timed out, no request is told the address is clear.                      *)
BanTakesHold ==
    <>[](IsActive(row) /\ Bannable(ip)) => <>[](\A w \in Worker : pc[w] # "clear")

(* A ban that is over for good -- the row gone, or expired and left alone --*)
(* stops blocking, whoever ended it and whatever the cache said: no entry   *)
(* keeps an address blocked forever.                                        *)
LiftTakesHold ==
    \A k \in PK \cup {NoPK} :
        <>[](~IsActive(row) /\ row.pk = k)
            => <>[](\A w \in Worker : pc[w] \notin {"temp", "perm"})

=============================================================================
