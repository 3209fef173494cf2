--------------------------- MODULE BanListProofs ---------------------------
(***************************************************************************)
(* Machine-checked proofs about BanList, for every number of workers, every*)
(* set of enabled operations and every length of bans and timeouts.        *)
(***************************************************************************)
EXTENDS BanList, TLAPS

-----------------------------------------------------------------------------
(* Typing of the helpers *)

(* Deadlines are integers that reach down to the floor. *)
LEMMA DeadlineType ==
    /\ Floor \in Int /\ Floor < 0
    /\ Nat \subseteq Deadline
    /\ \A t \in Deadline : Later(t) \in Deadline
  BY TimeoutAssumption DEF Floor, Deadline, Later

(* The values that stand for "nothing there" are typed. *)
LEMMA NothingType == NoRow \in Rows /\ NoEntry \in Entries /\ NoBan \in Bans
  BY DeadlineType DEF NoRow, NoEntry, NoBan, Rows, Entries, Bans

(* What _cache_active_ban writes is an entry with a timeout of at least one *)
(* tick: a timeout of zero or less would drop the entry at once.            *)
LEMMA ActiveEntryType ==
    ASSUME NEW r \in Rows
    PROVE  ActiveEntry(r) \in Entries /\ ActiveEntry(r).ttl > 0
  <1>1. r.left \in Deadline
    BY DEF Rows
  <1>2. CASE r.kind = "perm"
    BY <1>2, DeadlineType, TimeoutAssumption DEF ActiveEntry, Entries
  <1>3. CASE r.kind = "temp"
    BY <1>1, <1>3, DeadlineType DEF ActiveEntry, Entries, Deadline
  <1>4. CASE r.kind # "perm" /\ r.kind # "temp"
    BY <1>4, DeadlineType, TimeoutAssumption DEF ActiveEntry, Entries
  <1> QED BY <1>2, <1>3, <1>4

(* The negative entry is typed. *)
LEMMA NegativeEntryType == NegativeEntry \in Entries
  BY DeadlineType, TimeoutAssumption DEF NegativeEntry, Entries

(* A row made of a key and a ban is typed. *)
LEMMA RowOfType ==
    ASSUME NEW pk \in PK \cup {NoPK}, NEW ban \in Bans
    PROVE  RowOf(pk, ban) \in Rows
  BY DEF RowOf, Rows, Bans

(* The bans operators and forms write are typed. *)
LEMMA BanType ==
    /\ PermanentBan \in Bans
    /\ Ban("void", 0) \in Bans
    /\ \A n \in Nat : Ban("temp", n) \in Bans
  BY DeadlineType DEF PermanentBan, Ban, Bans

(* Time keeps rows, bans and entries typed. *)
LEMMA AgedType ==
    /\ \A r \in Rows : Aged(r) \in Rows
    /\ \A b \in Bans : Aged(b) \in Bans
    /\ \A e \in Entries : AgedEntry(e) \in Entries
  <1>1. \A r \in Rows : Aged(r) \in Rows
    BY DeadlineType DEF Aged, Rows
  <1>2. \A b \in Bans : Aged(b) \in Bans
    BY DeadlineType DEF Aged, Bans
  <1>3. \A e \in Entries : AgedEntry(e) \in Entries
    <2> SUFFICES ASSUME NEW e \in Entries PROVE AgedEntry(e) \in Entries
      OBVIOUS
    <2> DEFINE left == IF e.kind = "e" THEN Later(e.left) ELSE e.left
    <2>1. CASE e.ttl <= 1
      BY <2>1, NothingType DEF AgedEntry
    <2>2. CASE ~(e.ttl <= 1)
      <3>1. e.ttl - 1 \in Nat /\ left \in Deadline
        BY <2>2, DeadlineType DEF Entries
      <3>2. AgedEntry(e) = [kind |-> e.kind, left |-> left, ttl |-> e.ttl - 1]
        BY <2>2 DEF AgedEntry, Entries
      <3> HIDE DEF left
      <3> QED BY <3>1, <3>2 DEF Entries
    <2> QED BY <2>1, <2>2
  <1> QED BY <1>1, <1>2, <1>3

-----------------------------------------------------------------------------
(* Type correctness *)

(* Requests keep the types. *)
LEMMA CheckType ==
    ASSUME TypeOK, NEW w \in Worker, Check(w)
    PROVE  TypeOK'
  <1> USE NothingType DEF TypeOK, Goto, Remember, Finish, Start, At, Label
  <1>1. CASE CheckUnbannable(w)
    BY <1>1 DEF CheckUnbannable
  <1>2. CASE CheckGet(w)
    BY <1>2 DEF CheckGet, AfterGet
  <1>3. CASE CheckDrop(w)
    BY <1>3 DEF CheckDrop
  <1>4. CASE CheckQuery(w)
    BY <1>4 DEF CheckQuery
  <1>5. CASE CheckFill(w)
    <2>1. seen[w] \in Rows
      OBVIOUS
    <2> QED BY <1>5, <2>1, ActiveEntryType, NegativeEntryType DEF CheckFill
  <1>6. CASE CheckKind(w)
    BY <1>6 DEF CheckKind
  <1>7. CASE Serve(w)
    BY <1>7 DEF Serve
  <1> QED BY <1>1, <1>2, <1>3, <1>4, <1>5, <1>6, <1>7 DEF Check

(* Detectors keep the types. *)
LEMMA AutoBanType ==
    ASSUME TypeOK, NEW w \in Worker, AutoBan(w)
    PROVE  TypeOK'
  <1> USE NothingType
      DEF TypeOK, Goto, Remember, Carry, Finish, Start, At, Label
  <1>0. seen[w] \in Rows /\ due[w] \in Bans /\ seen[w].pk \in PK \cup {NoPK}
    BY DEF Rows
  <1>1. CASE AutoStart(w)
    BY <1>1, LengthAssumption, BanType DEF AutoStart
  <1>2. CASE AutoLock(w)
    BY <1>2 DEF AutoLock, AfterLock
  <1>3. CASE AutoKeep(w)
    BY <1>0, <1>3, ActiveEntryType DEF AutoKeep
  <1>4. CASE AutoCreate(w)
    <2>1. row' \in Rows
      BY <1>0, <1>4, RowOfType DEF AutoCreate, FreshPK
    <2> QED BY <1>4, <2>1 DEF AutoCreate
  <1>5. CASE AutoCollide(w)
    BY <1>5 DEF AutoCollide
  <1>6. CASE AutoRevive(w)
    <2>1. row' \in Rows
      BY <1>0, <1>6, RowOfType DEF AutoRevive
    <2> QED BY <1>6, <2>1 DEF AutoRevive
  <1>7. CASE AutoPublish(w)
    BY <1>0, <1>7, ActiveEntryType DEF AutoPublish
  <1> QED BY <1>1, <1>2, <1>3, <1>4, <1>5, <1>6, <1>7 DEF AutoBan

(* Manual bans keep the types. *)
LEMMA ManualBanType ==
    ASSUME TypeOK, NEW w \in Worker, ManualBan(w)
    PROVE  TypeOK'
  <1> USE NothingType
      DEF TypeOK, Goto, Remember, Carry, Finish, Start, At, Label
  <1>0. seen[w] \in Rows /\ due[w] \in Bans /\ row.pk \in PK \cup {NoPK}
    BY DEF Rows
  <1>1. CASE BanStart(w)
    BY <1>1, LengthAssumption, BanType DEF BanStart
  <1>2. CASE BanSave(w)
    <2>1. PICK pk \in PK \cup {NoPK} : row' = RowOf(pk, due[w])
      BY <1>0, <1>2 DEF BanSave, FreshPK
    <2>2. row' \in Rows
      BY <1>0, <2>1, RowOfType
    <2> QED BY <1>2, <2>2 DEF BanSave
  <1>3. CASE BanRefresh(w)
    BY <1>3 DEF BanRefresh
  <1>4. CASE BanPublish(w)
    BY <1>0, <1>4, ActiveEntryType DEF BanPublish
  <1> QED BY <1>1, <1>2, <1>3, <1>4 DEF ManualBan

(* Lifting, making permanent, lifting everything and pruning keep the types. *)
LEMMA CleanupType ==
    ASSUME TypeOK, NEW w \in Worker,
           Lift(w) \/ Permanent(w) \/ UnbanAll(w) \/ Prune(w)
    PROVE  TypeOK'
  <1> USE NothingType
      DEF TypeOK, Goto, Remember, Carry, Finish, Start, At, Label
  <1>0. seen[w] \in Rows /\ row.pk \in PK \cup {NoPK} /\ seen[w].pk \in PK \cup {NoPK}
    BY DEF Rows
  <1>1. CASE Lift(w)
    BY <1>1 DEF Lift, LiftDelete, LiftUncache
  <1>2. CASE PermanentList(w)
    BY <1>2 DEF PermanentList
  <1>3. CASE PermanentUpdate(w)
    <2>1. row' \in Rows
      BY <1>0, <1>3, RowOfType, BanType DEF PermanentUpdate
    <2> QED BY <1>3, <2>1 DEF PermanentUpdate
  <1>4. CASE PermanentPublish(w)
    <2>1. cache' \in Entries
      BY <1>0, <1>4, RowOfType, BanType, ActiveEntryType DEF PermanentPublish
    <2> QED BY <1>4, <2>1 DEF PermanentPublish
  <1>5. CASE UnbanAllList(w)
    BY <1>5, BanType DEF UnbanAllList
  <1>6. CASE UnbanAllDelete(w)
    BY <1>6 DEF UnbanAllDelete
  <1>7. CASE UnbanAllUncache(w)
    BY <1>7 DEF UnbanAllUncache
  <1>8. CASE Prune(w)
    BY <1>8 DEF Prune, PruneScan, PruneUncache, PruneList, PruneDelete
  <1> QED BY <1>1, <1>2, <1>3, <1>4, <1>5, <1>6, <1>7, <1>8
          DEF Permanent, UnbanAll

(* The surroundings and crashes keep the types. *)
LEMMA OutsideType ==
    ASSUME TypeOK, Outside \/ \E w \in Worker : Crash(w)
    PROVE  TypeOK'
  <1> USE NothingType DEF TypeOK, Goto, Remember, Carry, Finish, Label
  <1>1. CASE FormSave
    <2>1. row.pk \in PK \cup {NoPK}
      BY DEF Rows
    <2>2. row' \in Rows
      BY <1>1, <2>1, RowOfType, BanType, LengthAssumption DEF FormSave, FreshPK
    <2> QED BY <1>1, <2>2 DEF FormSave
  <1>2. CASE FormDelete
    BY <1>2 DEF FormDelete
  <1>3. CASE Evict
    BY <1>3 DEF Evict
  <1>4. CASE Tick
    BY <1>4, AgedType DEF Tick
  <1>5. ASSUME NEW w \in Worker, Crash(w) PROVE TypeOK'
    BY <1>5 DEF Crash
  <1> QED BY <1>1, <1>2, <1>3, <1>4, <1>5 DEF Outside

(* Every behaviour of the ban list is well typed. *)
THEOREM TypeCorrect == Spec => []TypeOK
  <1>1. Init => TypeOK
    <2> SUFFICES ASSUME Init PROVE TypeOK
      OBVIOUS
    <2>1. row \in Rows
      BY DeadlineType, NothingType DEF Init, InitRow, Rows, Deadline
    <2>2. cache \in Entries
      BY DeadlineType, NothingType, TimeoutAssumption DEF Init, Entries
    <2> QED BY <2>1, <2>2, NothingType DEF Init, TypeOK, Label
  <1>2. TypeOK /\ [Next]_vars => TypeOK'
    <2> SUFFICES ASSUME TypeOK, [Next]_vars PROVE TypeOK'
      OBVIOUS
    <2>1. CASE UNCHANGED vars
      BY <2>1 DEF vars, TypeOK
    <2>2. ASSUME NEW w \in Worker, Step(w) PROVE TypeOK'
      BY <2>2, CheckType, AutoBanType, ManualBanType, CleanupType DEF Step
    <2>3. ASSUME Outside \/ \E w \in Worker : Crash(w) PROVE TypeOK'
      BY <2>3, OutsideType
    <2> QED BY <2>1, <2>2, <2>3 DEF Next
  <1> QED BY <1>1, <1>2, PTL DEF Spec

-----------------------------------------------------------------------------
(* The transaction of add_automatic_ban *)

InTransaction == {"autoKeep", "autoRevive"}

(* Worker w steps outside any transaction of its own, and leaves the row    *)
(* alone if somebody holds its lock.                                        *)
StepsAside(w) ==
    /\ pc[w] \notin InTransaction
    /\ \E label \in Label \ InTransaction : pc' = [pc EXCEPT ![w] = label]
    /\ \A v \in Worker \ {w} : seen'[v] = seen[v]
    /\ lock' = lock
    /\ Unlocked \/ row' = row

(* An inactive row is the empty one or one that has expired or is void; the *)
(* empty row is never active and ageing never makes a row active, empty or  *)
(* not empty.                                                               *)
LEMMA AgeingFacts ==
    /\ ~IsActive(NoRow)
    /\ \A r \in Rows : IsActive(Aged(r)) => IsActive(r)
    /\ \A r \in Rows : r # NoRow => Aged(r) # NoRow
  <1>1. ~IsActive(NoRow)
    BY DEF IsActive, NoRow
  <1>2. ASSUME NEW r \in Rows, IsActive(Aged(r)) PROVE IsActive(r)
    <2>1. CASE r.kind # "temp"
      BY <1>2, <2>1 DEF Aged
    <2>2. CASE r.kind = "temp"
      <3>1. Aged(r).kind = "temp" /\ Aged(r).left = Later(r.left)
        BY <2>2 DEF Aged, Rows
      <3>2. r.left \in Int /\ Later(r.left) \in Int /\ Later(r.left) <= r.left
        BY DeadlineType DEF Rows, Deadline, Later
      <3>3. Later(r.left) > 0
        BY <1>2, <3>1 DEF IsActive
      <3>4. r.left > 0
        BY <3>2, <3>3
      <3> QED BY <2>2, <3>4 DEF IsActive
    <2> QED BY <2>1, <2>2
  <1>3. ASSUME NEW r \in Rows, r # NoRow PROVE Aged(r) # NoRow
    <2>1. CASE r.kind # "temp"
      BY <1>3, <2>1 DEF Aged
    <2>2. CASE r.kind = "temp"
      BY <2>2 DEF Aged, Rows, NoRow
    <2> QED BY <2>1, <2>2
  <1> QED BY <1>1, <1>2, <1>3

(* A step aside disturbs no transaction. *)
LEMMA AsideKeepsTransactions ==
    ASSUME TypeOK, TransactionSeesItsRow, NEW w \in Worker, StepsAside(w)
    PROVE  TransactionSeesItsRow'
  <1> PICK label \in Label \ InTransaction : pc' = [pc EXCEPT ![w] = label]
    BY DEF StepsAside
  <1>1. \A v \in Worker : pc'[v] = IF v = w THEN label ELSE pc[v]
    BY DEF TypeOK
  <1>2. lock # w
    BY DEF StepsAside, TransactionSeesItsRow, InTransaction
  <1>3. \A v \in Worker : lock = v => row' = row
    BY WorkerAssumption DEF StepsAside, Unlocked
  <1> QED
    BY <1>1, <1>2, <1>3
    DEF StepsAside, TransactionSeesItsRow, InTransaction, IsActive

(* The steps of every other operation are steps aside. *)
LEMMA OtherStepsAside ==
    ASSUME TypeOK, NEW w \in Worker,
           \/ Check(w) \/ ManualBan(w) \/ Lift(w)
           \/ Permanent(w) \/ UnbanAll(w) \/ Prune(w)
    PROVE  StepsAside(w)
  <1> USE DEF TypeOK, StepsAside, InTransaction, Label, Goto, Remember, Finish,
              Carry, Start, At
  <1>1. CASE Check(w)
    <2>1. CASE CheckGet(w)
      BY <2>1 DEF CheckGet, AfterGet
    <2>2. CASE CheckFill(w)
      BY <2>2 DEF CheckFill
    <2>3. CASE Serve(w)
      BY <2>3 DEF Serve, Answers
    <2> QED BY <1>1, <2>1, <2>2, <2>3
            DEF Check, CheckUnbannable, CheckDrop, CheckQuery, CheckKind
  <1>2. CASE ManualBan(w)
    BY <1>2 DEF ManualBan, BanStart, BanSave, BanRefresh, BanPublish
  <1>3. CASE Lift(w)
    BY <1>3 DEF Lift, LiftDelete, LiftUncache
  <1>4. CASE Permanent(w)
    BY <1>4 DEF Permanent, PermanentList, PermanentUpdate, PermanentPublish
  <1>5. CASE UnbanAll(w)
    BY <1>5 DEF UnbanAll, UnbanAllList, UnbanAllDelete, UnbanAllUncache
  <1>6. CASE Prune(w)
    BY <1>6 DEF Prune, PruneScan, PruneUncache, PruneList, PruneDelete
  <1> QED BY <1>1, <1>2, <1>3, <1>4, <1>5, <1>6

(* The steps of add_automatic_ban keep the transaction invariant: the lock  *)
(* is taken with the row just read and given back with the last write.      *)
LEMMA AutoBanKeepsTransactions ==
    ASSUME TypeOK, TransactionSeesItsRow, NEW w \in Worker, AutoBan(w)
    PROVE  TransactionSeesItsRow'
  <1> USE DEF TypeOK, Goto, Remember, Finish, Carry, Start, At
  <1>1. CASE AutoStart(w)
    <2>1. StepsAside(w)
      BY <1>1 DEF AutoStart, StepsAside, InTransaction, Label
    <2> QED BY <2>1, AsideKeepsTransactions
  <1>2. CASE AutoLock(w)
    <2>1. \A v \in Worker : lock # v /\ pc[v] \notin InTransaction
      BY <1>2, WorkerAssumption
      DEF AutoLock, AfterLock, Unlocked, TransactionSeesItsRow, InTransaction
    <2>2. \A v \in Worker \ {w} : pc'[v] = pc[v]
      BY <1>2 DEF AutoLock, AfterLock
    <2>3. row' = row /\ seen'[w] = row
      BY <1>2 DEF AutoLock, AfterLock
    <2>4. CASE row = NoRow
      <3>1. pc'[w] = "autoCreate" /\ lock' = NoWorker
        BY <1>2, <2>4, AgeingFacts DEF AutoLock, AfterLock
      <3> QED BY <2>1, <2>2, <3>1, WorkerAssumption
              DEF TransactionSeesItsRow, InTransaction
    <2>5. CASE row # NoRow
      <3>1. lock' = w /\ pc'[w] = IF IsActive(row) THEN "autoKeep" ELSE "autoRevive"
        BY <1>2, <2>5 DEF AutoLock, AfterLock
      <3> QED BY <2>1, <2>2, <2>3, <2>5, <3>1
              DEF TransactionSeesItsRow, InTransaction, IsActive
    <2> QED BY <2>4, <2>5
  <1>3. CASE AutoKeep(w) \/ AutoRevive(w)
    <2>1. lock = w /\ lock' = NoWorker
      BY <1>3 DEF AutoKeep, AutoRevive, TransactionSeesItsRow
    <2>2. \A v \in Worker \ {w} : pc'[v] = pc[v]
      BY <1>3 DEF AutoKeep, AutoRevive
    <2>3. pc'[w] \in {"idle", "autoPublish"}
      BY <1>3 DEF AutoKeep, AutoRevive
    <2> QED BY <2>1, <2>2, <2>3, WorkerAssumption DEF TransactionSeesItsRow
  <1>4. CASE AutoCreate(w)
    <2>1. Unlocked
      BY <1>4 DEF AutoCreate, TransactionSeesItsRow, Unlocked
    <2>2. StepsAside(w)
      BY <1>4, <2>1 DEF AutoCreate, StepsAside, InTransaction, Label
    <2> QED BY <2>2, AsideKeepsTransactions
  <1>5. CASE AutoCollide(w) \/ AutoPublish(w)
    <2>1. StepsAside(w)
      BY <1>5 DEF AutoCollide, AutoPublish, StepsAside, InTransaction, Label
    <2> QED BY <2>1, AsideKeepsTransactions
  <1> QED BY <1>1, <1>2, <1>3, <1>4, <1>5 DEF AutoBan

(* A crash rolls its own transaction back; forms wait for the lock; time    *)
(* ages the row and the row that was read alike.                            *)
LEMMA OutsideKeepsTransactions ==
    ASSUME TypeOK, TransactionSeesItsRow, Outside \/ \E w \in Worker : Crash(w)
    PROVE  TransactionSeesItsRow'
  <1>1. CASE FormSave \/ FormDelete \/ Evict
    <2>1. lock' = lock /\ pc' = pc /\ seen' = seen /\ (Unlocked \/ row' = row)
      BY <1>1 DEF FormSave, FormDelete, Evict
    <2> QED BY <2>1, WorkerAssumption DEF TransactionSeesItsRow, Unlocked, IsActive
  <1>2. CASE Tick
    <2>1. lock' = lock /\ pc' = pc /\ row' = Aged(row)
      BY <1>2 DEF Tick
    <2>2. \A v \in Worker : seen'[v] = Aged(seen[v])
      BY <1>2 DEF Tick
    <2>3. row \in Rows
      BY DEF TypeOK
    <2>4. row # NoRow => row' # NoRow
      BY <2>1, <2>3, AgeingFacts
    <2>5. IsActive(row') => IsActive(row)
      BY <2>1, <2>3, AgeingFacts
    <2>6. IsActive(row)' <=> IsActive(row')
      BY DEF IsActive
    <2> QED BY <2>1, <2>2, <2>4, <2>5, <2>6 DEF TransactionSeesItsRow
  <1>3. ASSUME NEW w \in Worker, Crash(w) PROVE TransactionSeesItsRow'
    <2>1. pc'[w] = "idle" /\ \A v \in Worker \ {w} : pc'[v] = pc[v] /\ seen'[v] = seen[v]
      BY <1>3 DEF Crash, Finish, Goto, Remember, TypeOK
    <2>2. row' = row /\ lock' = IF lock = w THEN NoWorker ELSE lock
      BY <1>3 DEF Crash
    <2> QED BY <2>1, <2>2, WorkerAssumption DEF TransactionSeesItsRow, IsActive
  <1> QED BY <1>1, <1>2, <1>3 DEF Outside

(* While add_automatic_ban holds the row lock, the row is the one it read,  *)
(* and the row it is about to overwrite is not an active ban.               *)
THEOREM TransactionsSeeTheirRow == Spec => []TransactionSeesItsRow
  <1>1. Init => TransactionSeesItsRow
    BY WorkerAssumption DEF Init, TransactionSeesItsRow
  <1>2. TypeOK /\ TransactionSeesItsRow /\ [Next]_vars => TransactionSeesItsRow'
    <2> SUFFICES ASSUME TypeOK, TransactionSeesItsRow, [Next]_vars
                 PROVE  TransactionSeesItsRow'
      OBVIOUS
    <2>1. CASE UNCHANGED vars
      BY <2>1 DEF vars, TransactionSeesItsRow, IsActive
    <2>2. ASSUME NEW w \in Worker, Step(w) PROVE TransactionSeesItsRow'
      BY <2>2, OtherStepsAside, AsideKeepsTransactions, AutoBanKeepsTransactions
      DEF Step
    <2>3. ASSUME Outside \/ \E w \in Worker : Crash(w) PROVE TransactionSeesItsRow'
      BY <2>3, OutsideKeepsTransactions
    <2> QED BY <2>1, <2>2, <2>3 DEF Next
  <1> QED BY <1>1, <1>2, TypeCorrect, PTL DEF Spec

(* No step of a detector changes the row of an active ban, whatever the     *)
(* operators, the forms and the other detectors do in between.              *)
THEOREM DetectorsKeepBans == Spec => DetectorsKeepActiveBans
  <1>1. TypeOK /\ TransactionSeesItsRow /\ [Next]_vars
            => [\A w \in Worker : AutoBan(w) /\ IsActive(row) => row' = row]_vars
    <2> SUFFICES ASSUME TransactionSeesItsRow, NEW w \in Worker, AutoBan(w), IsActive(row)
                 PROVE  row' = row
      OBVIOUS
    <2>1. ~AutoCreate(w)
      BY AgeingFacts DEF AutoCreate
    <2>2. ~AutoRevive(w)
      BY DEF AutoRevive, At, TransactionSeesItsRow
    <2> QED BY <2>1, <2>2
            DEF AutoBan, AutoStart, AutoLock, AutoKeep, AutoCollide, AutoPublish
  <1> QED BY <1>1, TypeCorrect, TransactionsSeeTheirRow, PTL
          DEF Spec, DetectorsKeepActiveBans

-----------------------------------------------------------------------------
(* Requests and detectors alone: the cache never invents a ban *)

DetectorOps == {"check", "auto", "evict", "crash"}
DetectorLabel ==
    {"idle", "checkDrop", "checkQuery", "checkFill", "checkKind",
     "clear", "temp", "perm",
     "autoLock", "autoKeep", "autoCreate", "autoRevive", "autoPublish"}
AboutToCache == {"checkFill", "autoKeep", "autoPublish"}

(* Whatever a worker is about to cache as active is the row.                *)
PendingIsRow ==
    \A w \in Worker : pc[w] \in AboutToCache /\ IsActive(seen[w]) => row = seen[w]

(* Detectors carry and publish temporary bans only.                         *)
DetectorsBanTemporarily ==
    \A w \in Worker :
        /\ pc[w] \in {"autoLock", "autoCreate", "autoRevive"} => due[w].kind = "temp"
        /\ pc[w] = "autoPublish" => seen[w].kind = "temp"

(* The inductive invariant: beside the cached entry, what the workers are   *)
(* about to write into the cache must be backed too.                        *)
DetectorInv ==
    /\ \A w \in Worker : pc[w] \in DetectorLabel
    /\ CachedBanIsBacked
    /\ PendingIsRow
    /\ DetectorsBanTemporarily
    /\ OneBannerPerBan

(* The entry of a row calls the address banned only if the row is active,   *)
(* and then with the row's kind and deadline.                               *)
LEMMA EntrySaysRow ==
    ASSUME NEW r \in Rows, CachedBan(ActiveEntry(r))
    PROVE  /\ IsActive(r)
           /\ ActiveEntry(r).kind = "p" => r.kind = "perm"
           /\ ActiveEntry(r).kind = "e" =>
                  r.kind = "temp" /\ r.left = ActiveEntry(r).left
  <1>1. CASE r.kind = "perm"
    BY <1>1 DEF ActiveEntry, IsActive
  <1>2. CASE r.kind = "temp"
    BY <1>2 DEF ActiveEntry, IsActive, CachedBan
  <1>3. CASE r.kind # "perm" /\ r.kind # "temp"
    BY <1>3 DEF ActiveEntry, CachedBan
  <1> QED BY <1>1, <1>2, <1>3

(* Caching the row one has, when it is the row there is if it is active,    *)
(* leaves the cached ban backed.                                            *)
LEMMA CachingTheRow ==
    ASSUME NEW r \in Rows, IsActive(r) => row = r,
           row' = row, cache' = ActiveEntry(r)
    PROVE  CachedBanIsBacked'
  <1>1. CachedBan(cache)' => CachedBan(ActiveEntry(r))
    BY DEF CachedBan
  <1> QED BY <1>1, EntrySaysRow DEF CachedBanIsBacked, CacheMatchesRow, IsActive, CachedBan

(* An empty or negative entry is backed by anything.                        *)
LEMMA CachingNothing ==
    ASSUME cache' \in {NoEntry, NegativeEntry} PROVE CachedBanIsBacked'
  BY DEF CachedBanIsBacked, CachedBan, NoEntry, NegativeEntry

(* If neither the row nor the cache changes the entry stays backed.         *)
LEMMA CachingUnchanged ==
    ASSUME CachedBanIsBacked, row' = row, cache' = cache PROVE CachedBanIsBacked'
  BY DEF CachedBanIsBacked, CachedBan, CacheMatchesRow, IsActive

(* Requests keep the invariant: a fill caches the row it queried, which no  *)
(* detector changes while it is active.                                     *)
LEMMA CheckKeepsDetectorInv ==
    ASSUME TypeOK, DetectorInv, NEW w \in Worker, Check(w)
    PROVE  DetectorInv'
  <1> USE DEF TypeOK, Goto, Remember, Start, At
  <1>0. row' = row /\ due' = due /\ lock' = lock
    BY DEF Check, CheckUnbannable, CheckGet, CheckDrop, CheckQuery, CheckFill,
           CheckKind, Serve
  <1>1. \A v \in Worker \ {w} : pc'[v] = pc[v] /\ seen'[v] = seen[v]
    BY DEF Check, CheckUnbannable, CheckGet, CheckDrop, CheckQuery, CheckFill,
           CheckKind, Serve
  <1>2. pc'[w] \in DetectorLabel \ {"autoLock", "autoKeep", "autoCreate",
                                    "autoRevive", "autoPublish"}
    <2>1. CASE CheckGet(w)
      BY <2>1 DEF CheckGet, AfterGet, DetectorLabel
    <2>2. CASE CheckFill(w)
      BY <2>2 DEF CheckFill, DetectorLabel
    <2> QED BY <2>1, <2>2
            DEF Check, CheckUnbannable, CheckDrop, CheckQuery, CheckKind, Serve,
                DetectorLabel
  <1>3. pc'[w] = "checkFill" /\ IsActive(seen'[w]) => row = seen'[w]
    <2>1. CASE CheckQuery(w)
      BY <2>1, AgeingFacts DEF CheckQuery
    <2>2. CASE CheckGet(w)
      BY <2>2 DEF CheckGet, AfterGet
    <2>3. CASE CheckFill(w)
      BY <2>3 DEF CheckFill
    <2> QED BY <2>1, <2>2, <2>3
            DEF Check, CheckUnbannable, CheckDrop, CheckKind, Serve
  <1>4. CachedBanIsBacked'
    <2>1. CASE CheckUnbannable(w) \/ CheckDrop(w)
      BY <2>1, CachingNothing DEF CheckUnbannable, CheckDrop
    <2>2. CASE CheckGet(w) \/ CheckQuery(w) \/ CheckKind(w) \/ Serve(w)
      BY <2>2, CachingUnchanged DEF CheckGet, AfterGet, CheckQuery, CheckKind, Serve, DetectorInv
    <2>3. CASE CheckFill(w) /\ seen[w] = NoRow
      BY <2>3, CachingNothing DEF CheckFill
    <2>4. CASE CheckFill(w) /\ seen[w] # NoRow
      <3>1. IsActive(seen[w]) => row = seen[w]
        BY <2>4 DEF CheckFill, DetectorInv, PendingIsRow, AboutToCache
      <3>2. cache' = ActiveEntry(seen[w]) /\ seen[w] \in Rows
        BY <2>4 DEF CheckFill
      <3> QED BY <1>0, <3>1, <3>2, CachingTheRow
    <2> QED BY <2>1, <2>2, <2>3, <2>4 DEF Check
  <1>5. PendingIsRow'
    BY <1>0, <1>1, <1>2, <1>3
    DEF DetectorInv, PendingIsRow, AboutToCache, IsActive
  <1>6. DetectorsBanTemporarily' /\ OneBannerPerBan'
    BY <1>0, <1>1, <1>2 DEF DetectorInv, DetectorsBanTemporarily, OneBannerPerBan
  <1> QED BY <1>1, <1>2, <1>4, <1>5, <1>6 DEF DetectorInv

(* While a row is active nobody but its own banner has it pending, and while*)
(* it is inactive nobody has: the next ban is its writer's alone.           *)
LEMMA NewBanIsAlone ==
    ASSUME TypeOK, DetectorInv, ~IsActive(row)
    PROVE  /\ ~CachedBan(cache)
           /\ \A w \in Worker : pc[w] \in AboutToCache => ~IsActive(seen[w])
  BY DEF DetectorInv, CachedBanIsBacked, PendingIsRow

(* Writing a ban where none is active keeps the invariant.                  *)
LEMMA WritingKeepsDetectorInv ==
    ASSUME TypeOK, DetectorInv, ~IsActive(row), NEW w \in Worker,
           pc' = [pc EXCEPT ![w] = "autoPublish"],
           seen' = [seen EXCEPT ![w] = row'],
           row'.kind = "temp",
           due' = [due EXCEPT ![w] = NoBan],
           cache' = cache
    PROVE  DetectorInv'
  <1> USE DEF TypeOK
  <1>1. \A v \in Worker \ {w} : pc'[v] = pc[v] /\ seen'[v] = seen[v] /\ due'[v] = due[v]
    OBVIOUS
  <1>2. pc'[w] = "autoPublish" /\ seen'[w] = row'
    OBVIOUS
  <1>3. CachedBanIsBacked'
    BY NewBanIsAlone DEF CachedBanIsBacked, CachedBan
  <1>4. PendingIsRow'
    BY <1>1, <1>2, NewBanIsAlone DEF PendingIsRow, IsActive
  <1>5. DetectorsBanTemporarily'
    BY <1>1, <1>2 DEF DetectorInv, DetectorsBanTemporarily
  <1>6. OneBannerPerBan'
    <2>1. \A v \in Worker \ {w} : ~(pc'[v] = "autoPublish" /\ seen'[v].left > 0)
      BY <1>1, NewBanIsAlone
      DEF DetectorInv, DetectorsBanTemporarily, AboutToCache, IsActive
    <2> QED BY <2>1 DEF OneBannerPerBan
  <1>7. \A v \in Worker : pc'[v] \in DetectorLabel
    BY <1>1, <1>2 DEF DetectorInv, DetectorLabel
  <1> QED BY <1>3, <1>4, <1>5, <1>6, <1>7 DEF DetectorInv

(* Detectors keep the invariant.                                            *)
LEMMA AutoBanKeepsDetectorInv ==
    ASSUME TypeOK, TransactionSeesItsRow, DetectorInv, NEW w \in Worker, AutoBan(w)
    PROVE  DetectorInv'
  <1> USE DEF TypeOK, Goto, Remember, Finish, Carry, Start, At
  <1>1. CASE AutoCreate(w)
    <2>1. ~IsActive(row)
      BY <1>1, AgeingFacts DEF AutoCreate
    <2>2. row'.kind = "temp"
      BY <1>1 DEF AutoCreate, RowOf, DetectorInv, DetectorsBanTemporarily
    <2> QED BY <1>1, <2>1, <2>2, WritingKeepsDetectorInv DEF AutoCreate
  <1>2. CASE AutoRevive(w)
    <2>1. ~IsActive(row)
      BY <1>2 DEF AutoRevive, TransactionSeesItsRow
    <2>2. row'.kind = "temp"
      BY <1>2 DEF AutoRevive, RowOf, DetectorInv, DetectorsBanTemporarily
    <2> QED BY <1>2, <2>1, <2>2, WritingKeepsDetectorInv DEF AutoRevive
  <1>3. CASE AutoStart(w) \/ AutoLock(w) \/ AutoCollide(w)
             \/ AutoKeep(w) \/ AutoPublish(w)
    <2>0. row' = row
      BY <1>3 DEF AutoStart, AutoLock, AutoCollide, AutoKeep, AutoPublish
    <2>1. \A v \in Worker \ {w} :
              pc'[v] = pc[v] /\ seen'[v] = seen[v] /\ due'[v] = due[v]
      BY <1>3 DEF AutoStart, AutoLock, AutoCollide, AutoKeep, AutoPublish
    <2>2. /\ pc'[w] \in {"idle", "autoLock", "autoKeep", "autoCreate", "autoRevive"}
          /\ pc'[w] = "autoKeep" => seen'[w] = row
          /\ pc'[w] \in {"autoLock", "autoCreate", "autoRevive"}
                 => due'[w].kind = "temp"
      <3>1. CASE AutoStart(w)
        BY <3>1 DEF AutoStart, Ban
      <3>2. CASE AutoLock(w)
        BY <3>2 DEF AutoLock, AfterLock, DetectorInv, DetectorsBanTemporarily
      <3>3. CASE AutoCollide(w) \/ AutoKeep(w) \/ AutoPublish(w)
        BY <3>3 DEF AutoCollide, AutoKeep, AutoPublish
      <3> QED BY <1>3, <3>1, <3>2, <3>3
    <2>3. CachedBanIsBacked'
      <3>1. CASE AutoStart(w) \/ AutoLock(w) \/ AutoCollide(w)
        BY <3>1, CachingUnchanged DEF AutoStart, AutoLock, AutoCollide, DetectorInv
      <3>2. CASE AutoKeep(w) \/ AutoPublish(w)
        <4>1. IsActive(seen[w]) => row = seen[w]
          BY <3>2 DEF AutoKeep, AutoPublish, DetectorInv, PendingIsRow, AboutToCache
        <4>2. cache' = ActiveEntry(seen[w]) /\ seen[w] \in Rows
          BY <3>2 DEF AutoKeep, AutoPublish
        <4> QED BY <2>0, <4>1, <4>2, CachingTheRow
      <3> QED BY <1>3, <3>1, <3>2
    <2>4. PendingIsRow'
      BY <2>0, <2>1, <2>2 DEF DetectorInv, PendingIsRow, AboutToCache, IsActive
    <2>5. DetectorsBanTemporarily' /\ OneBannerPerBan'
      BY <2>1, <2>2 DEF DetectorInv, DetectorsBanTemporarily, OneBannerPerBan
    <2>6. \A v \in Worker : pc'[v] \in DetectorLabel
      BY <2>1, <2>2 DEF DetectorInv, DetectorLabel
    <2> QED BY <2>3, <2>4, <2>5, <2>6 DEF DetectorInv
  <1> QED BY <1>1, <1>2, <1>3 DEF AutoBan

(* Time ages the row, the pending rows and the cached deadline alike.       *)
LEMMA TickKeepsDetectorInv ==
    ASSUME TypeOK, DetectorInv, Tick
    PROVE  DetectorInv'
  <1>0. /\ pc' = pc /\ row' = Aged(row) /\ cache' = AgedEntry(cache)
        /\ \A v \in Worker : seen'[v] = Aged(seen[v]) /\ due'[v] = Aged(due[v])
    BY DEF Tick
  <1>1. row \in Rows /\ cache \in Entries
        /\ \A v \in Worker : seen[v] \in Rows /\ due[v] \in Bans
    BY DEF TypeOK
  <1>2. CachedBanIsBacked'
    <2> SUFFICES ASSUME CachedBan(cache') PROVE IsActive(row') /\ CacheMatchesRow'
      BY DEF CachedBanIsBacked, CachedBan, IsActive
    <2>1. ~(cache.ttl <= 1)
      BY <1>0 DEF AgedEntry, CachedBan, NoEntry
    <2>2. /\ cache'.kind = cache.kind
          /\ cache'.left = IF cache.kind = "e" THEN Later(cache.left) ELSE cache.left
      BY <1>0, <1>1, <2>1 DEF AgedEntry, Entries
    <2>3. CASE cache.kind = "p"
      <3>1. row.kind = "perm"
        BY <2>3 DEF DetectorInv, CachedBanIsBacked, CachedBan, CacheMatchesRow
      <3> QED BY <1>0, <2>2, <2>3, <3>1 DEF Aged, IsActive, CacheMatchesRow
    <2>4. CASE cache.kind = "e"
      <3>1. Later(cache.left) > 0
        BY <2>2, <2>4 DEF CachedBan
      <3>2. cache.left \in Int /\ cache.left > 0
        BY <1>1, <3>1, DeadlineType DEF Later, Entries, Deadline
      <3>3. row.kind = "temp" /\ row.left = cache.left
        BY <2>4, <3>2 DEF DetectorInv, CachedBanIsBacked, CachedBan, CacheMatchesRow
      <3>4. row'.kind = "temp" /\ row'.left = Later(cache.left)
        BY <1>0, <1>1, <3>3 DEF Aged, Rows
      <3> QED BY <2>2, <2>4, <3>1, <3>4 DEF IsActive, CacheMatchesRow
    <2> QED BY <2>2, <2>3, <2>4 DEF CachedBan
  <1>3. PendingIsRow'
    <2> SUFFICES ASSUME NEW w \in Worker, pc[w] \in AboutToCache, IsActive(Aged(seen[w]))
                 PROVE  Aged(row) = Aged(seen[w])
      BY <1>0 DEF PendingIsRow, IsActive
    <2> QED BY <1>1, AgeingFacts DEF DetectorInv, PendingIsRow
  <1>4. \A b : (b \in Rows \/ b \in Bans) /\ b.kind = "temp" => Aged(b).kind = "temp"
    BY DEF Aged, Rows, Bans
  <1>5. DetectorsBanTemporarily'
    BY <1>0, <1>1, <1>4 DEF DetectorInv, DetectorsBanTemporarily
  <1>6. OneBannerPerBan'
    <2>1. ASSUME NEW w \in Worker, pc'[w] = "autoPublish", seen'[w].left > 0
          PROVE  pc[w] = "autoPublish" /\ seen[w].left > 0
      <3>1. seen[w].kind = "temp"
        BY <1>0, <2>1 DEF DetectorInv, DetectorsBanTemporarily
      <3>2. seen'[w].left = Later(seen[w].left)
        BY <1>0, <1>1, <3>1 DEF Aged, Rows
      <3>3. seen[w].left \in Int
        BY <1>1 DEF Rows, Deadline
      <3> QED BY <1>0, <2>1, <3>2, <3>3, DeadlineType DEF Later
    <2> QED BY <2>1 DEF DetectorInv, OneBannerPerBan
  <1> QED BY <1>0, <1>2, <1>3, <1>5, <1>6 DEF DetectorInv

(* Evictions and crashes keep the invariant.                                *)
LEMMA FaultsKeepDetectorInv ==
    ASSUME TypeOK, DetectorInv, Evict \/ \E w \in Worker : Crash(w)
    PROVE  DetectorInv'
  <1>1. CASE Evict
    <2>1. CachedBanIsBacked'
      BY <1>1, CachingNothing DEF Evict
    <2> QED BY <1>1, <2>1
            DEF Evict, DetectorInv, PendingIsRow, DetectorsBanTemporarily,
                OneBannerPerBan, IsActive
  <1>2. ASSUME NEW w \in Worker, Crash(w) PROVE DetectorInv'
    <2>1. pc'[w] = "idle" /\ row' = row /\ cache' = cache
      BY <1>2 DEF Crash, Finish, Goto, TypeOK
    <2>2. \A v \in Worker \ {w} :
              pc'[v] = pc[v] /\ seen'[v] = seen[v] /\ due'[v] = due[v]
      BY <1>2 DEF Crash, Finish, Goto, Remember, Carry, TypeOK
    <2>3. CachedBanIsBacked'
      BY <2>1, CachingUnchanged DEF DetectorInv
    <2> QED BY <2>1, <2>2, <2>3
            DEF DetectorInv, DetectorLabel, PendingIsRow, AboutToCache,
                DetectorsBanTemporarily, OneBannerPerBan, IsActive
  <1> QED BY <1>1, <1>2

(* Where only requests and detectors run -- with crashes and evictions, over*)
(* any existing row -- the strengthened invariant holds.                    *)
THEOREM DetectorInvariant ==
    ASSUME Op \subseteq DetectorOps
    PROVE  Spec => []DetectorInv
  <1>1. Init => DetectorInv
    <2> SUFFICES ASSUME Init PROVE DetectorInv
      OBVIOUS
    <2>1. ~CachedBan(cache)
      BY DEF Init, CachedBan, NoEntry
    <2> QED BY <2>1
            DEF Init, DetectorInv, DetectorLabel, CachedBanIsBacked, PendingIsRow,
                AboutToCache, DetectorsBanTemporarily, OneBannerPerBan
  <1>2. TypeOK /\ TransactionSeesItsRow /\ DetectorInv /\ [Next]_vars => DetectorInv'
    <2> SUFFICES ASSUME TypeOK, TransactionSeesItsRow, DetectorInv, [Next]_vars
                 PROVE  DetectorInv'
      OBVIOUS
    <2>1. CASE UNCHANGED vars
      BY <2>1 DEF vars, DetectorInv, CachedBanIsBacked, CacheMatchesRow, CachedBan,
                  PendingIsRow, DetectorsBanTemporarily, OneBannerPerBan, IsActive
    <2>2. ASSUME NEW w \in Worker, Step(w) PROVE DetectorInv'
      <3>1. ~ManualBan(w)
        BY DEF ManualBan, BanStart, BanSave, BanRefresh, BanPublish, Start, At,
               DetectorOps, DetectorInv, DetectorLabel
      <3>2. ~Lift(w) /\ ~Permanent(w)
        BY DEF Lift, LiftDelete, LiftUncache, Permanent, PermanentList,
               PermanentUpdate, PermanentPublish, Start, At,
               DetectorOps, DetectorInv, DetectorLabel
      <3>3. ~UnbanAll(w) /\ ~Prune(w)
        BY DEF UnbanAll, UnbanAllList, UnbanAllDelete, UnbanAllUncache,
               Prune, PruneScan, PruneUncache, PruneList, PruneDelete, Start, At,
               DetectorOps, DetectorInv, DetectorLabel
      <3> QED BY <2>2, <3>1, <3>2, <3>3, CheckKeepsDetectorInv,
                 AutoBanKeepsDetectorInv DEF Step
    <2>3. ASSUME Outside PROVE DetectorInv'
      BY <2>3, TickKeepsDetectorInv, FaultsKeepDetectorInv
      DEF Outside, FormSave, FormDelete, DetectorOps
    <2>4. ASSUME \E w \in Worker : Crash(w) PROVE DetectorInv'
      BY <2>4, FaultsKeepDetectorInv
    <2> QED BY <2>1, <2>2, <2>3, <2>4 DEF Next
  <1> QED BY <1>1, <1>2, TypeCorrect, TransactionsSeeTheirRow, PTL DEF Spec

(* ... so an address the cache calls banned has an active row with exactly  *)
(* the cached deadline.                                                     *)
THEOREM CachedBansAreBacked ==
    ASSUME Op \subseteq DetectorOps
    PROVE  Spec => []CachedBanIsBacked
  <1>1. DetectorInv => CachedBanIsBacked
    BY DEF DetectorInv
  <1> QED BY <1>1, DetectorInvariant, PTL

(* ... and of detectors racing over one address one at most creates the ban.*)
THEOREM OneBanner ==
    ASSUME Op \subseteq DetectorOps
    PROVE  Spec => []OneBannerPerBan
  <1>1. DetectorInv => OneBannerPerBan
    BY DEF DetectorInv
  <1> QED BY <1>1, DetectorInvariant, PTL

-----------------------------------------------------------------------------
(* BanList implements BanLedger where requests and detectors run, for any   *)
(* number of workers, any lengths of bans and every interleaving, crash and *)
(* eviction.                                                                *)


(* The ban a detector carries was drawn from the lengths the settings allow *)
(* and has only run down since.                                             *)
DueIsShort ==
    \A w \in Worker :
        pc[w] \in {"autoLock", "autoCreate", "autoRevive"} =>
            due[w].kind = "temp" /\ \E n \in AutoLength : due[w].left <= n

LengthsAreNat == AutoLength \subseteq Nat \ {0}

LEMMA LengthsHold == LengthsAreNat
  BY LengthAssumption DEF LengthsAreNat

(* The ban in force by the kind of the row.                                 *)
LEMMA InForceIs ==
    ASSUME TypeOK
    PROVE  /\ row.kind = "perm" => InForce = [kind |-> "perm", left |-> 0]
           /\ row.kind = "temp" /\ row.left > 0 =>
                  InForce = [kind |-> "temp", left |-> row.left]
           /\ ~IsActive(row) => InForce = [kind |-> "none", left |-> 0]
           /\ row.left \in Int
  <1>1. row.left \in Int
    BY DEF TypeOK, Rows, Deadline
  <1>2. CASE row.kind = "perm"
    BY <1>1, <1>2 DEF InForce, IsActive, PermanentBan, Ban
  <1>3. CASE row.kind # "perm" /\ IsActive(row)
    BY <1>1, <1>3 DEF InForce, IsActive, Ban
  <1>4. CASE ~IsActive(row)
    BY <1>1, <1>4 DEF InForce, IsActive, NoBan
  <1> QED BY <1>2, <1>3, <1>4

LEMMA InForceIsNext ==
    ASSUME TypeOK'
    PROVE  /\ row'.kind = "perm" => InForce' = [kind |-> "perm", left |-> 0]
           /\ row'.kind = "temp" /\ row'.left > 0 =>
                  InForce' = [kind |-> "temp", left |-> row'.left]
           /\ ~IsActive(row)' => InForce' = [kind |-> "none", left |-> 0]
           /\ row'.left \in Int
  <1>1. row'.left \in Int
    BY DEF TypeOK, Rows, Deadline
  <1>2. CASE row'.kind = "perm"
    BY <1>1, <1>2 DEF InForce, IsActive, PermanentBan, Ban
  <1>3. CASE row'.kind # "perm" /\ IsActive(row)'
    BY <1>1, <1>3 DEF InForce, IsActive, Ban
  <1>4. CASE ~IsActive(row)'
    BY <1>1, <1>4 DEF InForce, IsActive, NoBan
  <1> QED BY <1>2, <1>3, <1>4

(* Nobody else writes: the other operations do not start, and the forms are *)
(* not used.                                                                *)
LEMMA OnlyDetectors ==
    ASSUME TypeOK, DetectorInv, Op \subseteq DetectorOps, [Next]_vars
    PROVE  \/ \E w \in Worker : AutoBan(w) \/ Check(w) \/ Crash(w)
           \/ Tick \/ Evict \/ UNCHANGED vars
  <1>1. \A w \in Worker : ~ManualBan(w)
    BY DEF ManualBan, BanStart, BanSave, BanRefresh, BanPublish, Start, At,
           DetectorOps, DetectorInv, DetectorLabel
  <1>2. \A w \in Worker : ~Lift(w) /\ ~Permanent(w)
    BY DEF Lift, LiftDelete, LiftUncache, Permanent, PermanentList,
           PermanentUpdate, PermanentPublish, Start, At,
           DetectorOps, DetectorInv, DetectorLabel
  <1>3. \A w \in Worker : ~UnbanAll(w) /\ ~Prune(w)
    BY DEF UnbanAll, UnbanAllList, UnbanAllDelete, UnbanAllUncache,
           Prune, PruneScan, PruneUncache, PruneList, PruneDelete, Start, At,
           DetectorOps, DetectorInv, DetectorLabel
  <1>4. ~FormSave /\ ~FormDelete
    BY DEF FormSave, FormDelete, DetectorOps
  <1> QED BY <1>1, <1>2, <1>3, <1>4 DEF Next, Step, Outside

(* Time lowers what is left, so a short ban stays short.                    *)
LEMMA ShortStaysShort ==
    ASSUME TypeOK, DueIsShort, DetectorInv, TransactionSeesItsRow, [Next]_vars,
           Op \subseteq DetectorOps
    PROVE  DueIsShort'
  <1> USE DEF TypeOK
  <1>1. SUFFICES ASSUME NEW v \in Worker,
                        pc'[v] \in {"autoLock", "autoCreate", "autoRevive"}
                 PROVE  due'[v].kind = "temp" /\ \E n \in AutoLength : due'[v].left <= n
    BY DEF DueIsShort
  <1>2. CASE pc'[v] = pc[v] /\ due'[v] = due[v]
    BY <1>1, <1>2 DEF DueIsShort
  <1>3. CASE Tick
    <2>1. pc'[v] = pc[v] /\ due'[v] = Aged(due[v]) /\ due[v] \in Bans
      BY <1>3 DEF Tick
    <2>2. PICK n \in AutoLength : due[v].kind = "temp" /\ due[v].left <= n
      BY <1>1, <2>1 DEF DueIsShort
    <2>3. /\ due'[v].kind = "temp" /\ due'[v].left = Later(due[v].left)
          /\ due[v].left \in Int /\ n \in Int
      BY <2>1, <2>2, LengthsHold DEF Aged, Bans, Deadline, LengthsAreNat
    <2>4. Later(due[v].left) <= due[v].left
      BY <2>3, DeadlineType DEF Later
    <2>5. Later(due[v].left) <= n
      BY <2>2, <2>3, <2>4, DeadlineType DEF Later
    <2> QED BY <2>3, <2>5
  <1>4. ASSUME NEW w \in Worker, AutoBan(w) \/ Check(w) \/ Crash(w)
        PROVE  due'[v].kind = "temp" /\ \E n \in AutoLength : due'[v].left <= n
    <2>1. CASE v # w
      <3>1. pc'[v] = pc[v] /\ due'[v] = due[v]
        BY <1>4, <2>1
           DEF AutoBan, AutoStart, AutoLock, AutoKeep, AutoCreate, AutoCollide, AutoRevive,
               AutoPublish, Check, CheckUnbannable, CheckGet, CheckDrop, CheckQuery,
               CheckFill, CheckKind, Serve, Crash, Goto, Finish, Carry
      <3> QED BY <3>1, <1>2
    <2>2. CASE v = w
      <3>1. CASE AutoStart(w)
        <4>1. PICK n \in AutoLength : due' = [due EXCEPT ![w] = Ban("temp", n)]
          BY <3>1 DEF AutoStart, Carry
        <4>2. due'[v] = [kind |-> "temp", left |-> n] /\ n \in Nat
          BY <2>2, <4>1, LengthsHold DEF Ban, LengthsAreNat
        <4> QED BY <4>2
      <3>2. CASE AutoLock(w)
        <4>1. pc[v] = "autoLock" /\ due' = due
          BY <2>2, <3>2 DEF AutoLock, At
        <4> QED BY <4>1 DEF DueIsShort
      <3>3. CASE ~AutoStart(w) /\ ~AutoLock(w)
        <4>1. pc'[w] \notin {"autoLock", "autoCreate", "autoRevive"}
          BY <1>4, <3>3
             DEF AutoBan, AutoKeep, AutoCreate, AutoCollide, AutoRevive, AutoPublish, Check,
                 CheckUnbannable, CheckGet, AfterGet, CheckDrop, CheckQuery, CheckFill,
                 CheckKind, Serve, Crash, Goto, Finish
        <4> QED BY <1>1, <2>2, <4>1
      <3> QED BY <3>1, <3>2, <3>3
    <2> QED BY <2>1, <2>2
  <1>5. CASE Evict \/ UNCHANGED vars
    BY <1>2, <1>5 DEF Evict, vars
  <1> QED BY <1>3, <1>4, <1>5, OnlyDetectors

(* A detector that writes, writes where no ban is in force.                 *)
LEMMA WritingIsDetecting ==
    ASSUME TypeOK, TypeOK', DueIsShort, TransactionSeesItsRow, NEW w \in Worker,
           AutoCreate(w) \/ AutoRevive(w)
    PROVE  Ledger!Detect \/ InForce' = InForce
  <1> USE DEF TypeOK
  <1>1. ~IsActive(row)
    BY AgeingFacts DEF AutoCreate, AutoRevive, TransactionSeesItsRow, At
  <1>2. InForce = [kind |-> "none", left |-> 0]
    BY <1>1, InForceIs
  <1>3. PICK n \in AutoLength : due[w].kind = "temp" /\ due[w].left <= n
    BY DEF AutoCreate, AutoRevive, At, DueIsShort
  <1>4. row'.kind = "temp" /\ row'.left = due[w].left
    BY <1>3 DEF AutoCreate, AutoRevive, RowOf
  <1>5. row'.left \in Int /\ n \in Nat
    BY InForceIsNext, LengthsHold DEF LengthsAreNat
  <1>6. CASE row'.left > 0
    <2>1. InForce' = [kind |-> "temp", left |-> row'.left]
      BY <1>4, <1>6, InForceIsNext
    <2>2. row'.left \in 1 .. n
      BY <1>3, <1>4, <1>5, <1>6
    <2>3. InForce' \in [kind : {"temp"}, left : 1 .. n]
      BY <2>1, <2>2
    <2> QED BY <1>2, <2>3 DEF Ledger!Detect, Ledger!NoBan
  <1>7. CASE ~(row'.left > 0)
    <2>1. ~IsActive(row)'
      BY <1>4, <1>7 DEF IsActive
    <2> QED BY <1>2, <2>1, InForceIsNext
  <1> QED BY <1>6, <1>7

(* Time lets the ban in force run down.                                     *)
LEMMA TickIsAgeing ==
    ASSUME TypeOK, TypeOK', Tick
    PROVE  Ledger!Age \/ InForce' = InForce
  <1>1. row' = Aged(row) /\ row \in Rows
    BY DEF Tick, TypeOK
  <1>2. CASE row.kind = "perm"
    <2>1. row' = row
      BY <1>1, <1>2 DEF Aged
    <2> QED BY <1>2, <2>1, InForceIs, InForceIsNext
  <1>3. CASE row.kind = "temp" /\ row.left > 0
    <2>1. row'.kind = "temp" /\ row'.left = row.left - 1 /\ row.left \in Int
      BY <1>1, <1>3, DeadlineType, InForceIs DEF Aged, Later, Rows
    <2>2. InForce = [kind |-> "temp", left |-> row.left]
      BY <1>3, InForceIs
    <2>3. CASE row.left = 1
      <3>1. ~IsActive(row)'
        BY <2>1, <2>3 DEF IsActive
      <3> QED BY <2>2, <2>3, <3>1, InForceIsNext DEF Ledger!Age, Ledger!NoBan
    <2>4. CASE row.left # 1
      <3>1. InForce' = [kind |-> "temp", left |-> row.left - 1]
        BY <1>3, <2>1, <2>4, InForceIsNext
      <3> QED BY <2>2, <2>4, <3>1 DEF Ledger!Age, Ledger!NoBan
    <2> QED BY <2>3, <2>4
  <1>4. CASE ~IsActive(row)
    <2>1. ~IsActive(row)'
      BY <1>1, <1>4, DeadlineType, InForceIs DEF Aged, Later, Rows, IsActive
    <2> QED BY <1>4, <2>1, InForceIs, InForceIsNext
  <1> QED BY <1>2, <1>3, <1>4 DEF IsActive

LEMMA StepImplementsLedger ==
    ASSUME TypeOK, TypeOK', DueIsShort, DetectorInv, TransactionSeesItsRow, [Next]_vars,
           Op \subseteq DetectorOps
    PROVE  Ledger!Next \/ InForce' = InForce
  <1>1. CASE row' = row
    BY <1>1 DEF InForce, IsActive, Ban, PermanentBan, NoBan
  <1>2. CASE Tick
    BY <1>2, TickIsAgeing DEF Ledger!Next
  <1>3. ASSUME NEW w \in Worker, AutoBan(w) \/ Check(w) \/ Crash(w)
        PROVE  Ledger!Next \/ InForce' = InForce
    <2>1. CASE AutoCreate(w) \/ AutoRevive(w)
      BY <2>1, WritingIsDetecting DEF Ledger!Next
    <2>2. CASE ~AutoCreate(w) /\ ~AutoRevive(w)
      BY <1>1, <1>3, <2>2
         DEF AutoBan, AutoStart, AutoLock, AutoKeep, AutoCollide, AutoPublish, Check,
             CheckUnbannable, CheckGet, CheckDrop, CheckQuery, CheckFill, CheckKind, Serve,
             Crash
    <2> QED BY <2>1, <2>2
  <1>4. CASE Evict \/ UNCHANGED vars
    BY <1>1, <1>4 DEF Evict, vars
  <1> QED BY <1>2, <1>3, <1>4, OnlyDetectors

(* The table of bans, with all that happens between reading a row and       *)
(* writing it, is a ledger: where only requests and detectors run, an       *)
(* address is given a ban when it has none, and that ban runs down untouched*)
(* and no longer than the longest configured length.                        *)
THEOREM DetectorsImplementLedger ==
    ASSUME Op \subseteq DetectorOps
    PROVE  Spec => DetectorsKeepLedger
  <1>1. Init => DueIsShort
    BY DEF Init, DueIsShort
  <1>2. Init /\ TypeOK => Ledger!Init
    <2>1. SUFFICES ASSUME Init, TypeOK
                   PROVE  InForce \in Ledger!Ban
      BY DEF Ledger!Init
    <2>2. row.kind = "perm" \/ (row.kind = "temp" /\ row.left > 0) \/ ~IsActive(row)
      BY DEF IsActive
    <2> QED BY <2>1, <2>2, InForceIs DEF Ledger!Ban, Ledger!NoBan
  <1>3. TypeOK /\ DueIsShort /\ DetectorInv /\ TransactionSeesItsRow /\ [Next]_vars
            => DueIsShort'
    BY ShortStaysShort
  <1>4. TypeOK /\ TypeOK' /\ DueIsShort /\ DetectorInv /\ TransactionSeesItsRow
            /\ [Next]_vars => [Ledger!Next]_InForce
    BY StepImplementsLedger
  <1> QED
    BY <1>1, <1>2, <1>3, <1>4, TypeCorrect, TransactionsSeeTheirRow, DetectorInvariant, PTL
       DEF Spec, DetectorsKeepLedger, Ledger!Spec

=============================================================================
