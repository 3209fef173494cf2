--------------------------- MODULE AutoBanProofs ---------------------------
(***************************************************************************)
(* Machine-checked proofs about AutoBan, for every number of requests,     *)
(* every policy and every fault: its types, the evidence of a ban, that no *)
(* offender escapes, that it implements BanLedger, and that one request    *)
(* writes, if an evaluation is shorter than the timeout of its lock (30 s).*)
(***************************************************************************)
EXTENDS AutoBan, SumProofs

(* Slack, the time from an evaluation's cutoff to its ban, is below the     *)
(* timeout of the lock.                                                     *)
ShortEvaluation == Slack < LockTTL

WriterTypes ==
    /\ pc \in [Worker -> Label]
    /\ since \in [Worker -> 0 .. Slack]
    /\ evalLock \in Nat

(* About to ban, with the lock as far as the cache is concerned.            *)
Writes(w) == pc[w] = "ban" /\ w \notin dropped

(* The lock of a writer was taken after its cutoff, so it has at least the  *)
(* rest of its timeout left.                                                *)
LockOutlivesWriter ==
    \A w \in Worker : Writes(w) => evalLock + since[w] >= LockTTL

WritersAgree == \A v, w \in Worker : Writes(v) /\ Writes(w) => v = w

(* The inductive invariant.  WritersAgree alone is not inductive: it needs  *)
(* that the lock is still there whenever somebody may write.                *)
WriterInv == WriterTypes /\ LockOutlivesWriter /\ WritersAgree

(* A worker that moves to a label other than "ban", with the lock and the   *)
(* other workers left alone, keeps the invariant.                           *)
LEMMA MovingAside ==
    ASSUME WriterInv, NEW w \in Worker,
           \E label \in Label \ {"ban"} : pc' = [pc EXCEPT ![w] = label],
           since' = since \/ since' = [since EXCEPT ![w] = 0],
           evalLock' = evalLock,
           dropped' = dropped \/ LeaveLock(w)
    PROVE  WriterInv'
  <1>1. PICK label \in Label \ {"ban"} : pc' = [pc EXCEPT ![w] = label]
    OBVIOUS
  <1>2. WriterTypes'
    BY <1>1, PolicyAssumption DEF WriterInv, WriterTypes
  <1>3. \A v \in Worker : Writes(v)' => Writes(v) /\ since'[v] = since[v]
    BY <1>1 DEF WriterInv, WriterTypes, Writes, LeaveLock
  <1>4. LockOutlivesWriter' /\ WritersAgree'
    BY <1>3 DEF WriterInv, LockOutlivesWriter, WritersAgree
  <1> QED BY <1>2, <1>4 DEF WriterInv

(* Taking the lock: it was free, so nobody was about to write.              *)
LEMMA TakingTheLock ==
    ASSUME ShortEvaluation, WriterInv, NEW w \in Worker, TakeLock(w)
    PROVE  WriterInv'
  <1>1. CASE evalLock > 0
    <2>1. \E label \in Label \ {"ban"} : pc' = [pc EXCEPT ![w] = label]
      BY <1>1 DEF TakeLock, Finish, Goto, Label
    <2> QED BY <1>1, <2>1, MovingAside DEF TakeLock, Finish
  <1>2. CASE ~(evalLock > 0)
    <2>1. /\ evalLock = 0 /\ evalLock' = LockTTL
          /\ pc' = [pc EXCEPT ![w] = "ban"] /\ since' = since
          /\ dropped' = dropped
      BY <1>2 DEF TakeLock, Goto, WriterInv, WriterTypes
    <2>2. \A v \in Worker : ~Writes(v)
      <3> SUFFICES ASSUME NEW v \in Worker, Writes(v) PROVE FALSE
        OBVIOUS
      <3>1. since[v] \in 0 .. Slack /\ evalLock + since[v] >= LockTTL
        BY DEF WriterInv, WriterTypes, LockOutlivesWriter
      <3> QED BY <2>1, <3>1, PolicyAssumption DEF ShortEvaluation
    <2>3. WriterTypes'
      BY <2>1, PolicyAssumption DEF WriterInv, WriterTypes, Label
    <2>4. \A v \in Worker : Writes(v)' => v = w
      BY <2>1, <2>2 DEF WriterInv, WriterTypes, Writes
    <2>5. LockOutlivesWriter'
      BY <2>1, PolicyAssumption DEF WriterInv, WriterTypes, LockOutlivesWriter
    <2> QED BY <2>3, <2>4, <2>5 DEF WriterInv, WritersAgree
  <1> QED BY <1>1, <1>2

(* The clock takes from the lock what it adds to the age of the cutoff.     *)
LEMMA TickKeepsWriter ==
    ASSUME WriterInv, Tick
    PROVE  WriterInv'
  <1>1. /\ pc' = pc /\ dropped' = dropped
        /\ evalLock' = Minus1(evalLock)
        /\ since' = [w \in Worker |-> IF pc[w] \in Deciding THEN since[w] + 1
                                      ELSE since[w]]
        /\ \A w \in Worker : pc[w] \in Deciding => since[w] < Slack
    BY DEF Tick
  <1>2. evalLock' \in Nat /\ evalLock' + 1 >= evalLock
    BY <1>1 DEF Minus1, WriterInv, WriterTypes
  <1>3. since' \in [Worker -> 0 .. Slack]
    BY <1>1, PolicyAssumption DEF WriterInv, WriterTypes
  <1>4. \A w \in Worker : Writes(w)' <=> Writes(w)
    BY <1>1 DEF Writes
  <1>5. LockOutlivesWriter'
    <2> SUFFICES ASSUME NEW w \in Worker, Writes(w)
                 PROVE  evalLock' + since'[w] >= LockTTL
      BY <1>4 DEF LockOutlivesWriter
    <2>1. since'[w] = since[w] + 1
      BY <1>1 DEF Deciding, Writes
    <2>2. evalLock + since[w] >= LockTTL /\ since[w] \in Nat /\ evalLock \in Nat
      BY DEF WriterInv, WriterTypes, LockOutlivesWriter
    <2>3. LockTTL \in Nat
      BY PolicyAssumption
    <2>4. ASSUME NEW t \in Nat, NEW before \in Nat, NEW after \in Nat, NEW age \in Nat,
                 after + 1 >= before, before + age >= t
          PROVE  after + (age + 1) >= t
      BY <2>4
    <2> QED BY <1>2, <2>1, <2>2, <2>3, <2>4
  <1> QED BY <1>1, <1>2, <1>3, <1>4, <1>5 DEF WriterInv, WriterTypes, WritersAgree

(* Every step keeps the invariant. *)
LEMMA StepKeepsWriter ==
    ASSUME ShortEvaluation, WriterInv, [Next]_vars
    PROVE  WriterInv'
  <1>1. ASSUME NEW w \in Worker, TakeLock(w) PROVE WriterInv'
    BY <1>1, TakingTheLock
  <1>2. ASSUME NEW w \in Worker,
               \/ Detect(w) \/ Throttle(w) \/ Persist(w) \/ Outage(w)
               \/ CountEvents(w) \/ CountPaths(w) \/ WriteBan(w) \/ Crash(w)
        PROVE  WriterInv'
    <2>1. evalLock' = evalLock
      BY <1>2 DEF Detect, Throttle, Persist, Outage, CountEvents, CountPaths,
                  WriteBan, Crash
    <2>2. since' = since \/ since' = [since EXCEPT ![w] = 0]
      BY <1>2 DEF Detect, Throttle, Persist, Outage, CountEvents, CountPaths,
                  WriteBan, Crash, Finish
    <2>3. \E label \in Label \ {"ban"} : pc' = [pc EXCEPT ![w] = label]
      BY <1>2 DEF Detect, Throttle, Persist, Outage, CountEvents, CountPaths,
                  WriteBan, Crash, Finish, Goto, Label
    <2>4. dropped' = dropped \/ LeaveLock(w)
      BY <1>2 DEF Detect, Throttle, Persist, Outage, CountEvents, CountPaths,
                  WriteBan, Crash
    <2> QED BY <2>1, <2>2, <2>3, <2>4, MovingAside
  <1>3. CASE Lift
    BY <1>3 DEF Lift, WriterInv, WriterTypes, LockOutlivesWriter, WritersAgree, Writes
  <1>4. CASE Evict
    <2>1. \A w \in Worker : ~Writes(w)'
      BY <1>4 DEF Evict, Writes
    <2>2. WriterTypes'
      BY <1>4 DEF Evict, WriterInv, WriterTypes
    <2> QED BY <2>1, <2>2 DEF WriterInv, LockOutlivesWriter, WritersAgree
  <1>5. CASE Tick
    BY <1>5, TickKeepsWriter
  <1>6. CASE UNCHANGED vars
    BY <1>6 DEF vars, WriterInv, WriterTypes, LockOutlivesWriter, WritersAgree, Writes
  <1> QED BY <1>1, <1>2, <1>3, <1>4, <1>5, <1>6 DEF Next, Evaluate

(* "Collapse concurrent threshold-crossing requests into one write": of any *)
(* number of requests that cross the threshold together, one at most goes   *)
(* on to write the ban, but for those whose lock the cache drops.           *)
THEOREM OneWriterAtATime ==
    ASSUME ShortEvaluation
    PROVE  Spec => []OneWriter
  <1>1. Init => WriterInv
    BY PolicyAssumption DEF Init, WriterInv, WriterTypes, LockOutlivesWriter,
                            WritersAgree, Writes, Label
  <1>2. WriterInv /\ [Next]_vars => WriterInv'
    BY StepKeepsWriter
  <1>3. WriterInv => OneWriter
    <2> SUFFICES ASSUME WritersAgree PROVE OneWriter
      BY DEF WriterInv
    <2> DEFINE Writers == {w \in Worker : pc[w] = "ban"} \ dropped
    <2>1. CASE Writers = {}
      <3>1. Cardinality(Writers) = 0
        BY <2>1, FS_EmptySet
      <3> QED BY <3>1 DEF OneWriter
    <2>2. CASE Writers # {}
      <3>1. PICK w \in Writers : TRUE
        BY <2>2
      <3>2. Writers = {w}
        BY <3>1 DEF WritersAgree, Writes
      <3>3. Cardinality(Writers) = 1
        BY <3>2, FS_Singleton
      <3> QED BY <3>3 DEF OneWriter
    <2> QED BY <2>1, <2>2
  <1> QED BY <1>1, <1>2, <1>3, PTL DEF Spec

-----------------------------------------------------------------------------
(* The refinement of BanLedger *)

BanType == ban \in Nat

(* No step of the policy leaves the ban anything but a number.              *)
LEMMA StepKeepsBanType ==
    ASSUME BanType, [Next]_vars
    PROVE  BanType'
  <1>1. ASSUME NEW w \in Worker, WriteBan(w) PROVE BanType'
    BY <1>1, PolicyAssumption DEF WriteBan, BanType
  <1>2. ASSUME NEW w \in Worker,
               \/ Detect(w) \/ Throttle(w) \/ Persist(w) \/ Outage(w)
               \/ CountEvents(w) \/ CountPaths(w) \/ TakeLock(w) \/ Crash(w)
        PROVE  ban' = ban
    BY <1>2 DEF Detect, Throttle, Persist, Outage, CountEvents, CountPaths, TakeLock,
                Crash
  <1>3. CASE Tick
    BY <1>3 DEF Tick, Minus1, BanType
  <1>4. CASE Lift \/ Evict \/ UNCHANGED vars
    BY <1>4 DEF Lift, Evict, vars, BanType
  <1> QED BY <1>1, <1>2, <1>3, <1>4 DEF Next, Evaluate, BanType

(* Every step is one of the ledger's, or leaves its ban alone: a late write *)
(* finds either no ban, and detects, or a ban, and does nothing.            *)
LEMMA StepKeepsLedger ==
    ASSUME BanType, [Next]_vars
    PROVE  [Ledger!Next]_[kind |-> IF ban > 0 THEN "temp" ELSE "none", left |-> ban]
  <1> DEFINE Mapped == [kind |-> IF ban > 0 THEN "temp" ELSE "none", left |-> ban]
  <1>1. ASSUME NEW w \in Worker, WriteBan(w)
        PROVE  Ledger!Detect \/ Mapped' = Mapped
    <2>1. CASE ban = 0
      <3>1. ban' = BanLength /\ BanLength \in Nat \ {0}
        BY <1>1, <2>1, PolicyAssumption DEF WriteBan
      <3>2. Mapped' \in [kind : {"temp"}, left : 1 .. BanLength]
        BY <3>1
      <3>3. Mapped = [kind |-> "none", left |-> 0]
        BY <2>1
      <3> QED BY <3>2, <3>3 DEF Ledger!Detect, Ledger!NoBan
    <2>2. CASE ban # 0
      BY <1>1, <2>2 DEF WriteBan
    <2> QED BY <2>1, <2>2
  <1>2. ASSUME NEW w \in Worker,
               \/ Detect(w) \/ Throttle(w) \/ Persist(w) \/ Outage(w)
               \/ CountEvents(w) \/ CountPaths(w) \/ TakeLock(w) \/ Crash(w)
        PROVE  ban' = ban
    BY <1>2 DEF Detect, Throttle, Persist, Outage, CountEvents, CountPaths, TakeLock,
                Crash
  <1>3. CASE Lift
    BY <1>3 DEF Lift, BanType, Ledger!Lift, Ledger!NoBan, Ledger!Next
  <1>4. CASE Tick
    <2>1. CASE ban = 0
      BY <1>4, <2>1 DEF Tick, Minus1
    <2>2. CASE ban = 1
      <3>1. ban' = 0
        BY <1>4, <2>2 DEF Tick, Minus1
      <3>2. Mapped.kind = "temp" /\ Mapped.left = 1 /\ Mapped' = [kind |-> "none", left |-> 0]
        BY <2>2, <3>1
      <3> QED BY <3>2 DEF Ledger!Age, Ledger!NoBan, Ledger!Next
    <2>3. CASE ban > 1
      <3>1. ban' = ban - 1 /\ ban' > 0
        BY <1>4, <2>3 DEF Tick, Minus1, BanType
      <3>2. /\ Mapped.kind = "temp" /\ Mapped.left # 1
            /\ Mapped' = [Mapped EXCEPT !.left = @ - 1]
        BY <2>3, <3>1 DEF BanType
      <3> QED BY <3>2 DEF Ledger!Age, Ledger!Next
    <2> QED BY <2>1, <2>2, <2>3 DEF BanType
  <1>5. CASE Evict \/ UNCHANGED vars
    BY <1>5 DEF Evict, vars
  <1> QED BY <1>1, <1>2, <1>3, <1>4, <1>5 DEF Next, Evaluate, Ledger!Next

(* The path from offences to the ban implements BanLedger, for every number *)
(* of requests, policy and fault: evaluations that raced past the lock, or  *)
(* come late, neither renew nor prolong the ban that is there.              *)
THEOREM EvaluationsImplementLedger == Spec => EvaluationsKeepLedger
  <1>1. Init => BanType /\ Ledger!Init
    BY DEF Init, BanType, Ledger!Init, Ledger!Ban, Ledger!NoBan
  <1>2. BanType /\ [Next]_vars => BanType'
    BY StepKeepsBanType
  <1>3. BanType /\ [Next]_vars =>
            [Ledger!Next]_[kind |-> IF ban > 0 THEN "temp" ELSE "none", left |-> ban]
    BY StepKeepsLedger
  <1> QED BY <1>1, <1>2, <1>3, PTL DEF Spec, EvaluationsKeepLedger, Ledger!Spec


-----------------------------------------------------------------------------
(* The type invariant *)

(* A bag of events. *)
Bag == /\ IsFiniteSet(DOMAIN events) /\ DOMAIN events \subseteq Event
       /\ \A e \in DOMAIN events : events[e] \in Nat \ {0}

(* What a request under way carries: an offence, and a cutoff that ages     *)
(* only while it decides.                                                   *)
Request(w) ==
    /\ req[w] \in [reason : Reason, path : Path, who : Who] \cup {NoRequest}
    /\ pc[w] # "idle" => req[w] \in [reason : Reason, path : Path, who : Who]
    /\ pc[w] \notin Deciding => since[w] = 0

(* The state AutoBan has, whatever labels the requests of a specification   *)
(* that extends it go through.                                              *)
Types(labels) ==
    /\ Bag
    /\ throttled \in [Reason \X Path -> 0 .. ThrottleTTL]
    /\ evalLock \in 0 .. LockTTL
    /\ ban \in 0 .. BanLength
    /\ pc \in [Worker -> labels]
    /\ DOMAIN req = Worker /\ \A w \in Worker : Request(w)
    /\ since \in [Worker -> 0 .. Slack]
    /\ excused \in BOOLEAN /\ dropped \subseteq Worker

(* An event more, the count of it included. *)
LEMMA PersistAdds ==
    ASSUME NEW labels, Types(labels), NEW w \in Worker, Persist(w)
    PROVE  /\ DOMAIN events' = DOMAIN events \cup {EventOf(w)}
           /\ EventOf(w) \in Event
           /\ events'[EventOf(w)] =
                 IF EventOf(w) \in DOMAIN events THEN events[EventOf(w)] + 1 ELSE 1
           /\ \A e \in DOMAIN events \ {EventOf(w)} : events'[e] = events[e]
  <1>1. EventOf(w) \in Event
    <2>1. req[w] \in [reason : Reason, path : Path, who : Who]
      BY DEF Types, Request, Persist, At
    <2>2. 0 \in Age
      BY PolicyAssumption DEF Age
    <2> QED BY <2>1, <2>2 DEF EventOf, Event
  <1>2. events' = events (+) SetToBag({EventOf(w)})
    BY DEF Persist
  <1>3. \A e \in DOMAIN events : events[e] \in Nat
    BY DEF Types, Bag
  <1> QED BY <1>1, <1>2, <1>3 DEF (+), SetToBag

LEMMA PersistKeepsBag ==
    ASSUME NEW labels, Types(labels), NEW w \in Worker, Persist(w)
    PROVE  Bag'
  <1>1. Bag
    BY DEF Types
  <1>2. /\ DOMAIN events' = DOMAIN events \cup {EventOf(w)}
        /\ EventOf(w) \in Event
        /\ events'[EventOf(w)] =
              IF EventOf(w) \in DOMAIN events THEN events[EventOf(w)] + 1 ELSE 1
        /\ \A e \in DOMAIN events \ {EventOf(w)} : events'[e] = events[e]
    BY PersistAdds
  <1>3. IsFiniteSet(DOMAIN events')
    BY <1>1, <1>2, FS_AddElement DEF Bag
  <1> QED BY <1>1, <1>2, <1>3 DEF Bag

(* The clock: every event kept is one older, and as frequent as before.     *)
Older(e) == [e EXCEPT !.age = @ + 1]
Kept == {e \in DOMAIN events : e.age + 1 \in Age}

LEMMA AgingIsOneToOne ==
    ASSUME Bag, events' = AgedEvents
    PROVE  /\ DOMAIN events' = {Older(e) : e \in Kept}
           /\ \A e \in Kept : events'[Older(e)] = events[e] /\ Older(e) \in Event
           /\ \A e, f \in Kept : Older(e) = Older(f) => e = f
  <1>1. \A e \in Kept : e \in Event /\ e.age \in Int
    BY DEF Bag, Kept, Event, Age
  <1>2. \A e \in Kept : [Older(e) EXCEPT !.age = @ - 1] = e /\ Older(e) \in Event
    <2> SUFFICES ASSUME NEW e \in Kept
                 PROVE  [Older(e) EXCEPT !.age = @ - 1] = e /\ Older(e) \in Event
      OBVIOUS
    <2>1. e = [reason |-> e.reason, path |-> e.path, who |-> e.who, age |-> e.age]
      BY <1>1 DEF Event
    <2>2. Older(e) = [reason |-> e.reason, path |-> e.path, who |-> e.who,
                      age |-> e.age + 1]
      BY <2>1 DEF Older
    <2>3. [Older(e) EXCEPT !.age = @ - 1] =
              [reason |-> e.reason, path |-> e.path, who |-> e.who, age |-> e.age]
      BY <1>1, <2>2
    <2>4. Older(e) \in Event
      BY <1>1, <2>2 DEF Event, Kept
    <2> QED BY <2>1, <2>3, <2>4
  <1>3. events' = [e \in {Older(k) : k \in Kept} |-> events[[e EXCEPT !.age = @ - 1]]]
    BY DEF AgedEvents, Kept, Older
  <1>4. DOMAIN events' = {Older(e) : e \in Kept}
    BY <1>3
  <1>5. \A e \in Kept : events'[Older(e)] = events[e]
    BY <1>2, <1>3
  <1>6. \A e, f \in Kept : Older(e) = Older(f) => e = f
    BY <1>2
  <1> QED BY <1>2, <1>4, <1>5, <1>6

LEMMA AgingKeepsBag ==
    ASSUME Bag, events' = AgedEvents
    PROVE  Bag'
  <1> DEFINE h == [e \in Kept |-> Older(e)]
  <1>1. IsFiniteSet(Kept)
    BY FS_Subset DEF Bag, Kept
  <1>2. {h[e] : e \in Kept} = {Older(e) : e \in Kept}
    OBVIOUS
  <1>3. IsFiniteSet({Older(e) : e \in Kept})
    <2> HIDE DEF h
    <2> QED BY <1>1, <1>2, FiniteImage
  <1>4. Kept \subseteq DOMAIN events
    BY DEF Kept
  <1> QED BY <1>3, <1>4, AgingIsOneToOne DEF Bag


(* A request's step leaves the requests of the others as they were.         *)
LEMMA RequestMoves ==
    ASSUME NEW labels, NEW label \in labels, Types(labels), NEW w \in Worker,
           pc' = [pc EXCEPT ![w] = label],
           req' = req \/ req' = [req EXCEPT ![w] = NoRequest]
             \/ \E r \in [reason : Reason, path : Path, who : Who] :
                    req' = [req EXCEPT ![w] = r],
           since' = since \/ since' = [since EXCEPT ![w] = 0],
           Request(w)'
    PROVE  /\ pc' \in [Worker -> labels]
           /\ DOMAIN req' = Worker /\ \A v \in Worker : Request(v)'
           /\ since' \in [Worker -> 0 .. Slack]
  <1>1. pc' \in [Worker -> labels]
    BY DEF Types
  <1>2. DOMAIN req' = Worker
    BY DEF Types
  <1>3. since' \in [Worker -> 0 .. Slack]
    BY PolicyAssumption DEF Types
  <1>4. \A v \in Worker \ {w} :
            pc'[v] = pc[v] /\ req'[v] = req[v] /\ since'[v] = since[v]
    BY DEF Types
  <1>5. \A v \in Worker \ {w} : Request(v)'
    BY <1>4 DEF Types, Request
  <1> QED BY <1>1, <1>2, <1>3, <1>5

(* Finish leaves a request with nothing under way. *)
LEMMA FinishIsTyped ==
    ASSUME NEW labels, "idle" \in labels, Types(labels), NEW w \in Worker, Finish(w)
    PROVE  /\ pc' \in [Worker -> labels]
           /\ DOMAIN req' = Worker /\ \A v \in Worker : Request(v)'
           /\ since' \in [Worker -> 0 .. Slack]
  <1>1. /\ pc' = [pc EXCEPT ![w] = "idle"]
        /\ req' = [req EXCEPT ![w] = NoRequest]
        /\ since' = [since EXCEPT ![w] = 0]
    BY DEF Finish, Goto
  <1>2. Request(w)'
    BY <1>1 DEF Types, Request
  <1> QED BY <1>1, <1>2, RequestMoves

(* Every action keeps the types, one after the other. *)
LEMMA PersistKeepsTypes ==
    ASSUME NEW labels, "count" \in labels, Types(labels), NEW w \in Worker, Persist(w)
    PROVE  Types(labels)'
  <1>1. Bag'
    BY PersistKeepsBag
  <1>2. /\ pc' = [pc EXCEPT ![w] = "count"] /\ req' = req /\ since' = since
        /\ pc[w] = "persist"
        /\ UNCHANGED <<throttled, evalLock, ban, excused, dropped>>
    BY DEF Persist, Goto, At
  <1>3. Request(w)'
    BY <1>2 DEF Types, Request, Deciding
  <1>4. /\ pc' \in [Worker -> labels]
        /\ DOMAIN req' = Worker /\ \A v \in Worker : Request(v)'
        /\ since' \in [Worker -> 0 .. Slack]
    BY <1>2, <1>3, RequestMoves
  <1> QED BY <1>1, <1>2, <1>4 DEF Types

LEMMA OutageKeepsTypes ==
    ASSUME NEW labels, {"persist", "count"} \subseteq labels, Types(labels),
           NEW w \in Worker, Outage(w)
    PROVE  Types(labels)'
  <1>1. /\ req' = req /\ since' = since /\ events' = events
        /\ UNCHANGED <<throttled, evalLock, ban, excused, dropped>>
    BY DEF Outage
  <1>2. PICK label \in {"persist", "count"} :
            pc' = [pc EXCEPT ![w] = label] /\ pc[w] \in {"throttle", "persist"}
    BY DEF Outage, Goto, At
  <1>3. Request(w)'
    BY <1>1, <1>2 DEF Types, Request, Deciding
  <1>4. /\ pc' \in [Worker -> labels]
        /\ DOMAIN req' = Worker /\ \A v \in Worker : Request(v)'
        /\ since' \in [Worker -> 0 .. Slack]
    BY <1>1, <1>2, <1>3, RequestMoves
  <1> QED BY <1>1, <1>4 DEF Types, Bag

LEMMA EvaluateKeepsTypes ==
    ASSUME NEW labels, {"idle", "paths", "lock", "ban"} \subseteq labels, Types(labels),
           NEW w \in Worker, Evaluate(w)
    PROVE  Types(labels)'
  <1>1. events' = events /\ throttled' = throttled
    BY DEF Evaluate, CountEvents, CountPaths, TakeLock, WriteBan
  <1>2. evalLock' \in 0 .. LockTTL /\ ban' \in 0 .. BanLength
    BY PolicyAssumption DEF Evaluate, CountEvents, CountPaths, TakeLock, WriteBan, Types
  <1>3. excused' \in BOOLEAN /\ dropped' \subseteq Worker
    BY DEF Evaluate, CountEvents, CountPaths, TakeLock, WriteBan, Types, LeaveLock
  <1>4. CASE Finish(w)
    BY <1>1, <1>2, <1>3, <1>4, FinishIsTyped DEF Types, Bag
  <1>5. CASE ~Finish(w)
    <2>1. PICK label \in {"paths", "lock", "ban"} :
              pc' = [pc EXCEPT ![w] = label] /\ req' = req /\ since' = since
      BY <1>5 DEF Evaluate, CountEvents, CountPaths, TakeLock, WriteBan, Goto
    <2>2. pc[w] # "idle"
      BY DEF Evaluate, CountEvents, CountPaths, TakeLock, WriteBan, At
    <2>3. Request(w)'
      BY <2>1, <2>2 DEF Types, Request, Deciding
    <2>4. /\ pc' \in [Worker -> labels]
          /\ DOMAIN req' = Worker /\ \A v \in Worker : Request(v)'
          /\ since' \in [Worker -> 0 .. Slack]
      BY <2>1, <2>3, RequestMoves
    <2> QED BY <1>1, <1>2, <1>3, <2>4 DEF Types, Bag
  <1> QED BY <1>4, <1>5

LEMMA CrashKeepsTypes ==
    ASSUME NEW labels, "idle" \in labels, Types(labels), NEW w \in Worker, Crash(w)
    PROVE  Types(labels)'
  <1>1. Finish(w) /\ excused' = TRUE /\ dropped' \subseteq dropped
        /\ UNCHANGED <<events, throttled, evalLock, ban>>
    BY DEF Crash, LeaveLock
  <1> QED BY <1>1, FinishIsTyped DEF Types, Bag

LEMMA OthersKeepTypes ==
    ASSUME NEW labels, Types(labels), Lift \/ Evict
    PROVE  Types(labels)'
  <1>1. UNCHANGED <<events, throttled, pc, req, since>>
    BY DEF Lift, Evict
  <1>2. /\ evalLock' \in 0 .. LockTTL /\ ban' \in 0 .. BanLength
        /\ excused' \in BOOLEAN /\ dropped' \subseteq Worker
    <2>1. 0 \in 0 .. LockTTL /\ 0 \in 0 .. BanLength
      BY PolicyAssumption
    <2>2. CASE Lift
      BY <2>1, <2>2 DEF Lift, Types
    <2>3. CASE Evict
      BY <2>1, <2>3 DEF Evict, Types
    <2> QED BY <2>2, <2>3
  <1> QED BY <1>1, <1>2 DEF Types, Bag, Request

LEMMA TickKeepsTypes ==
    ASSUME NEW labels, Types(labels), Tick
    PROVE  Types(labels)'
  <1>1. Bag'
    BY AgingKeepsBag DEF Tick, Types
  <1>2. throttled' \in [Reason \X Path -> 0 .. ThrottleTTL]
    <2>1. throttled' = [key \in Reason \X Path |-> Minus1(throttled[key])]
      BY DEF Tick, Types
    <2>2. \A n \in 0 .. ThrottleTTL : Minus1(n) \in 0 .. ThrottleTTL
      BY PolicyAssumption DEF Minus1
    <2> QED BY <2>1, <2>2 DEF Types
  <1>3. evalLock' \in 0 .. LockTTL /\ ban' \in 0 .. BanLength /\ excused' \in BOOLEAN
    BY PolicyAssumption DEF Tick, Types, Minus1
  <1>4. since' \in [Worker -> 0 .. Slack]
    BY PolicyAssumption DEF Tick, Types
  <1>5. pc' = pc /\ req' = req /\ dropped' = dropped
    BY DEF Tick
  <1>6. \A v \in Worker : Request(v)'
    BY <1>5 DEF Tick, Types, Request
  <1> QED BY <1>1, <1>2, <1>3, <1>4, <1>5, <1>6 DEF Types

LEMMA StepKeepsTypes ==
    ASSUME Types(Label), [Next]_vars
    PROVE  Types(Label)'
  <1>1. ASSUME NEW w \in Worker, Detect(w) PROVE Types(Label)'
    <2>1. PICK reason \in Reason, path \in Path, who \in Who :
              req' = [req EXCEPT ![w] = [reason |-> reason, path |-> path, who |-> who]]
      BY <1>1 DEF Detect
    <2>2. /\ pc' = [pc EXCEPT ![w] = "throttle"] /\ since' = since /\ pc[w] = "idle"
          /\ UNCHANGED <<events, throttled, evalLock, ban, excused, dropped>>
      BY <1>1 DEF Detect, Goto, At
    <2>3. "throttle" \in Label
      BY DEF Label
    <2>4. Request(w)'
      BY <2>1, <2>2 DEF Types, Request, Deciding
    <2>5. /\ pc' \in [Worker -> Label]
          /\ DOMAIN req' = Worker /\ \A v \in Worker : Request(v)'
          /\ since' \in [Worker -> 0 .. Slack]
      BY <2>1, <2>2, <2>3, <2>4, RequestMoves
    <2> QED BY <2>2, <2>5 DEF Types, Bag
  <1>2. ASSUME NEW w \in Worker, Throttle(w) PROVE Types(Label)'
    <2>1. PICK label \in {"persist", "count"} :
              pc' = [pc EXCEPT ![w] = label] /\ req' = req /\ since' = since
      BY <1>2 DEF Throttle, Goto
    <2>2. /\ pc[w] = "throttle"
          /\ UNCHANGED <<events, evalLock, ban, excused, dropped>>
      BY <1>2 DEF Throttle, At
    <2>3. throttled' \in [Reason \X Path -> 0 .. ThrottleTTL]
      BY <1>2, PolicyAssumption DEF Throttle, Types
    <2>4. Request(w)' /\ label \in Label
      BY <2>1, <2>2 DEF Types, Request, Deciding, Label
    <2>5. /\ pc' \in [Worker -> Label]
          /\ DOMAIN req' = Worker /\ \A v \in Worker : Request(v)'
          /\ since' \in [Worker -> 0 .. Slack]
      BY <2>1, <2>4, RequestMoves
    <2> QED BY <2>2, <2>3, <2>5 DEF Types, Bag
  <1>3. ASSUME NEW w \in Worker, Persist(w) \/ Outage(w) \/ Evaluate(w) \/ Crash(w)
        PROVE  Types(Label)'
    BY <1>3, PersistKeepsTypes, OutageKeepsTypes, EvaluateKeepsTypes, CrashKeepsTypes
       DEF Label
  <1>4. CASE Lift \/ Evict
    BY <1>4, OthersKeepTypes
  <1>5. CASE Tick
    BY <1>5, TickKeepsTypes
  <1>6. CASE UNCHANGED vars
    BY <1>6 DEF vars, Types, Bag, Request
  <1> QED BY <1>1, <1>2, <1>3, <1>4, <1>5, <1>6 DEF Next

LEMMA InitTypes == Init => Types(Label)
  <1> SUFFICES ASSUME Init PROVE Types(Label)
    OBVIOUS
  <1>1. DOMAIN events = {}
    BY DEF Init, EmptyBag, SetToBag
  <1>2. Bag
    BY <1>1, FS_EmptySet DEF Bag
  <1>3. \A w \in Worker : Request(w)
    BY DEF Init, Request
  <1>4. {0} \subseteq (0 .. ThrottleTTL) \cap (0 .. LockTTL) \cap (0 .. BanLength)
            \cap (0 .. Slack)
    BY PolicyAssumption
  <1>5. throttled \in [Reason \X Path -> 0 .. ThrottleTTL] /\ since \in [Worker -> 0 .. Slack]
    BY <1>4 DEF Init
  <1>6. pc \in [Worker -> Label]
    BY DEF Init, Label
  <1> QED BY <1>2, <1>3, <1>4, <1>5, <1>6 DEF Init, Types

(* The state has its types, whatever the requests and the faults: an event  *)
(* carries the offence of a request, and no cutoff is older than the events *)
(* that are kept for it.                                                    *)
THEOREM PolicyTypes == Spec => []TypeOK
  <1>1. Types(Label) /\ [Next]_vars => Types(Label)'
    BY StepKeepsTypes
  <1>2. Types(Label) => TypeOK
    BY DEF Types, TypeOK, Bag, Request
  <1> QED BY <1>1, <1>2, InitTypes, PTL DEF Spec


-----------------------------------------------------------------------------
(* What the queries count *)

(* The events of a query, its count and its paths, of any bag of events.    *)
Upto(bag, age) == {e \in DOMAIN bag : e.age <= age}
Total(bag, age) == SumOf(bag, Upto(bag, age))
Places(bag, age) == Paths(Upto(bag, age))

(* The count of a set of events is the sum of their copies. *)
LEMMA CountIsSum ==
    ASSUME Bag, NEW set, set \subseteq DOMAIN events
    PROVE  Count(set) = SumOf(events, set) /\ Count(set) \in Nat
  <1>1. IsFiniteSet(set) /\ Counts(events, set)
    BY FS_Subset DEF Bag, Counts
  <1> DEFINE B == [e \in set |-> events[e]]
  <1>2. DOMAIN B = set /\ \A e \in set : B[e] = events[e]
    OBVIOUS
  <1>3. Count(set) = BagCardinality(B)
    BY DEF Count
  <1>4. SumOf(B, set) = SumOf(events, set)
    <2> HIDE DEF B
    <2> QED BY <1>1, <1>2, SumCongruence
  <1>5. BagCardinality(B) = SumOf(B, DOMAIN B)
    <2> HIDE DEF B
    <2> QED BY BagIsSum
  <1>6. SumOf(events, set) \in Nat
    BY <1>1, SumType
  <1> QED BY <1>2, <1>3, <1>4, <1>5, <1>6

LEMMA QueriesAre ==
    ASSUME Bag, NEW age
    PROVE  /\ Count(Recent(age)) = Total(events, age) /\ Total(events, age) \in Nat
           /\ Paths(Recent(age)) = Places(events, age)
  <1>1. Recent(age) = Upto(events, age) /\ Upto(events, age) \subseteq DOMAIN events
    BY DEF Recent, Upto
  <1> QED BY <1>1, CountIsSum DEF Total, Places

(* The two queries do not decrease with the events there are, nor with the  *)
(* set they are asked of.                                                   *)
LEMMA QueriesAreMonotone ==
    ASSUME NEW bag, NEW more, IsFiniteSet(DOMAIN more),
           DOMAIN bag \subseteq DOMAIN more, Counts(bag, DOMAIN bag),
           Counts(more, DOMAIN more), \A e \in DOMAIN bag : bag[e] <= more[e],
           NEW set, set \subseteq DOMAIN bag, NEW big, set \subseteq big,
           big \subseteq DOMAIN more
    PROVE  /\ SumOf(bag, set) <= SumOf(more, big)
           /\ Cardinality(Paths(set)) <= Cardinality(Paths(big))
           /\ {SumOf(bag, set), SumOf(more, big)} \subseteq Nat
           /\ {Cardinality(Paths(set)), Cardinality(Paths(big))} \subseteq Nat
  <1>1. IsFiniteSet(big) /\ IsFiniteSet(set)
    <2>1. IsFiniteSet(big)
      BY FS_Subset
    <2> QED BY <2>1, FS_Subset
  <1>2. Counts(bag, set) /\ Counts(more, set) /\ Counts(more, big)
            /\ \A e \in set : bag[e] <= more[e]
    BY DEF Counts
  <1>3. SumOf(bag, set) <= SumOf(more, set)
    BY <1>1, <1>2, SumPointwise
  <1>4. SumOf(more, set) <= SumOf(more, big)
    BY <1>1, <1>2, SumMonotone
  <1>5. SumOf(bag, set) \in Nat /\ SumOf(more, set) \in Nat /\ SumOf(more, big) \in Nat
    BY <1>1, <1>2, SumType
  <1>6. IsFiniteSet(Paths(big))
    <2> DEFINE h == [e \in big |-> e.path]
    <2>1. {h[e] : e \in big} = Paths(big)
      BY DEF Paths
    <2> HIDE DEF h
    <2> QED BY <1>1, <2>1, FiniteImage
  <1>7. Paths(set) \subseteq Paths(big)
    BY DEF Paths
  <1>8. Cardinality(Paths(set)) <= Cardinality(Paths(big)) /\ IsFiniteSet(Paths(set))
    BY <1>6, <1>7, FS_Subset
  <1>9. Cardinality(Paths(set)) \in Nat /\ Cardinality(Paths(big)) \in Nat
    BY <1>6, <1>8, FS_CardinalityType
  <1> QED BY <1>3, <1>4, <1>5, <1>8, <1>9

LEMMA BagCounts ==
    ASSUME Bag
    PROVE  Counts(events, DOMAIN events)
  BY DEF Bag, Counts

(* Events that age together keep their count and their paths.               *)
LEMMA AgedQueries ==
    ASSUME Bag, events' = AgedEvents, NEW set, set \subseteq Kept
    PROVE  LET aged == {Older(e) : e \in set}
           IN  SumOf(events', aged) = SumOf(events, set) /\ Paths(aged) = Paths(set)
  <1> DEFINE aged == {Older(e) : e \in set}
             h == [e \in set |-> Older(e)]
  <1>1. IsFiniteSet(set) /\ Counts(events, set)
    <2>1. set \subseteq DOMAIN events
      BY DEF Kept
    <2> QED BY <2>1, FS_Subset DEF Bag, Counts
  <1>2. SumOf(events', aged) = SumOf(events, set)
    <2>1. \A e \in set : events[e] = events'[h[e]]
      BY AgingIsOneToOne
    <2>2. \A e, f \in set : h[e] = h[f] => e = f
      BY AgingIsOneToOne
    <2>3. {h[e] : e \in set} = aged
      OBVIOUS
    <2> HIDE DEF h, aged
    <2>4. SumOf(events', {h[e] : e \in set}) = SumOf(events, set)
      BY <1>1, <2>1, <2>2, SumRenamed
    <2> QED BY <2>3, <2>4
  <1>3. Paths(aged) = Paths(set)
    <2>1. \A e \in set : Older(e).path = e.path
      BY DEF Older, Kept, Bag, Event
    <2> QED BY <2>1 DEF Paths
  <1> QED BY <1>2, <1>3

(* What was asked about an age is asked about the next one, a tick later.   *)
LEMMA AgedUpto ==
    ASSUME Bag, events' = AgedEvents, NEW age \in Int, age + 1 <= Window + Slack
    PROVE  /\ Upto(events, age) \subseteq Kept
           /\ Upto(events', age + 1) = {Older(e) : e \in Upto(events, age)}
           /\ Total(events', age + 1) = Total(events, age)
           /\ Places(events', age + 1) = Places(events, age)
  <1>1. \A e \in DOMAIN events : e.age \in 0 .. Window + Slack
    BY DEF Bag, Event, Age
  <1>2. Upto(events, age) \subseteq Kept
    BY <1>1, PolicyAssumption DEF Upto, Kept, Age
  <1>3. \A e \in Kept : Older(e).age = e.age + 1
    BY DEF Kept, Bag, Event, Older
  <1>4. Upto(events', age + 1) = {e \in {Older(k) : k \in Kept} : e.age <= age + 1}
    BY AgingIsOneToOne DEF Upto
  <1>5. \A k \in Kept : k.age + 1 <= age + 1 <=> k \in Upto(events, age)
    BY <1>1 DEF Kept, Upto
  <1>6. Upto(events', age + 1) = {Older(e) : e \in Upto(events, age)}
    BY <1>2, <1>3, <1>4, <1>5
  <1> QED BY <1>2, <1>6, AgedQueries DEF Total, Places

-----------------------------------------------------------------------------
(* The evidence of a ban *)

(* What each of the two queries found is still there, at the age the cutoff *)
(* has reached: the invariant that BanHasEvidence needs, which says nothing *)
(* of the requests before their last step.                                  *)
Counted(w) == Total(events, Window + since[w]) >= Threshold
Spread(w) == Cardinality(Places(events, Window + since[w])) >= MinPaths

EvidenceInv ==
    \A w \in Worker :
        /\ pc[w] \in Deciding => Counted(w)
        /\ pc[w] \in {"lock", "ban"} => Spread(w)

(* A request that leaves the decision, or has not come to it, needs none.   *)
LEMMA EvidenceStays ==
    ASSUME NEW labels, Types(labels), EvidenceInv, NEW w \in Worker,
           events' = events, NEW label, label \notin Deciding,
           pc' = [pc EXCEPT ![w] = label],
           since' = since \/ since' = [since EXCEPT ![w] = 0]
    PROVE  EvidenceInv'
  <1>1. label \notin {"lock", "ban"}
    BY DEF Deciding
  <1>2. \A v \in Worker \ {w} : pc'[v] = pc[v] /\ since'[v] = since[v]
    BY DEF Types
  <1>3. pc'[w] = label
    BY DEF Types
  <1> QED BY <1>1, <1>2, <1>3 DEF EvidenceInv, Counted, Spread

(* More events are more evidence. *)
LEMMA PersistKeepsEvidence ==
    ASSUME NEW labels, Types(labels), EvidenceInv, NEW w \in Worker, Persist(w)
    PROVE  EvidenceInv'
  <1>1. /\ DOMAIN events' = DOMAIN events \cup {EventOf(w)}
        /\ events'[EventOf(w)] =
              IF EventOf(w) \in DOMAIN events THEN events[EventOf(w)] + 1 ELSE 1
        /\ \A e \in DOMAIN events \ {EventOf(w)} : events'[e] = events[e]
    BY PersistAdds
  <1>2. Bag /\ Bag'
    BY PersistKeepsBag DEF Types
  <1>3. \A e \in DOMAIN events : events[e] <= events'[e]
    BY <1>1, <1>2 DEF Bag
  <1>4. ASSUME NEW age
        PROVE  /\ Total(events, age) >= Threshold => Total(events', age) >= Threshold
               /\ Cardinality(Places(events, age)) >= MinPaths =>
                      Cardinality(Places(events', age)) >= MinPaths
    <2>1. /\ Upto(events, age) \subseteq DOMAIN events
          /\ Upto(events', age) \subseteq DOMAIN events'
          /\ Upto(events, age) \subseteq Upto(events', age)
      BY <1>1 DEF Upto
    <2>2. Counts(events, DOMAIN events) /\ Counts(events', DOMAIN events')
            /\ IsFiniteSet(DOMAIN events')
      BY <1>2 DEF Bag, Counts
    <2>3. DOMAIN events \subseteq DOMAIN events'
      BY <1>1
    <2>4. /\ SumOf(events, Upto(events, age)) <= SumOf(events', Upto(events', age))
          /\ Cardinality(Paths(Upto(events, age))) <= Cardinality(Paths(Upto(events', age)))
          /\ {SumOf(events, Upto(events, age)), SumOf(events', Upto(events', age))}
                 \subseteq Nat
          /\ {Cardinality(Paths(Upto(events, age))),
              Cardinality(Paths(Upto(events', age)))} \subseteq Nat
      BY <1>3, <2>1, <2>2, <2>3, QueriesAreMonotone
    <2>5. Threshold \in Nat /\ MinPaths \in Nat
      BY PolicyAssumption
    <2> QED BY <2>4, <2>5 DEF Total, Places
  <1>5. \A v \in Worker : pc'[v] \in Deciding => pc'[v] = pc[v] /\ since'[v] = since[v]
    BY DEF Persist, Goto, Deciding, Types
  <1>6. \A v \in Worker : pc'[v] \in {"lock", "ban"} => pc'[v] \in Deciding
    BY DEF Deciding
  <1> QED BY <1>4, <1>5, <1>6 DEF EvidenceInv, Counted, Spread

(* The evaluation goes on only on evidence; its first query is asked when   *)
(* the cutoff is fixed.                                                     *)
LEMMA EvaluateKeepsEvidence ==
    ASSUME NEW labels, Types(labels), EvidenceInv, NEW w \in Worker, Evaluate(w)
    PROVE  EvidenceInv'
  <1>1. events' = events
    BY DEF Evaluate, CountEvents, CountPaths, TakeLock, WriteBan
  <1>2. CASE Finish(w)
    <2>1. /\ pc' = [pc EXCEPT ![w] = "idle"] /\ "idle" \notin Deciding
          /\ since' = [since EXCEPT ![w] = 0]
      BY <1>2 DEF Finish, Goto, Deciding
    <2> QED BY <1>1, <2>1, EvidenceStays
  <1>3. CASE ~Finish(w)
    <2>1. since' = since
      BY <1>3 DEF Evaluate, CountEvents, CountPaths, TakeLock, WriteBan
    <2>2. PICK label \in {"paths", "lock", "ban"} : pc' = [pc EXCEPT ![w] = label]
      BY <1>3 DEF Evaluate, CountEvents, CountPaths, TakeLock, WriteBan, Goto
    <2>3. Counted(w) /\ (label \in {"lock", "ban"} => Spread(w))
      <3>1. Bag /\ pc[w] \in labels /\ since[w] \in 0 .. Slack
        BY DEF Types
      <3>2. /\ Count(Recent(Window + since[w])) = Total(events, Window + since[w])
            /\ Total(events, Window + since[w]) \in Nat
            /\ Paths(Recent(Window + since[w])) = Places(events, Window + since[w])
        BY <3>1, QueriesAre
      <3>3. CASE CountEvents(w)
        <4>1. since[w] = 0
          BY <3>3 DEF CountEvents, At, Types, Request, Deciding
        <4>2. Window + since[w] = Window
          BY <4>1, PolicyAssumption
        <4>3. ~(Count(Recent(Window)) < Threshold)
          BY <1>3, <3>3 DEF CountEvents
        <4>4. Counted(w)
          BY <3>2, <4>2, <4>3, PolicyAssumption DEF Counted
        <4>5. ASSUME ~(MinPaths > 1) PROVE Spread(w)
          <5> DEFINE found == Upto(events, Window + since[w])
          <5>1. found # {}
            <6>1. Total(events, Window + since[w]) # 0
              BY <3>2, <4>4, PolicyAssumption DEF Counted
            <6> QED BY <6>1, SumEmpty DEF Total
          <5>2. Paths(found) # {}
            BY <5>1 DEF Paths
          <5>3. IsFiniteSet(Paths(found))
            <6> DEFINE h == [e \in found |-> e.path]
            <6>1. IsFiniteSet(found)
              BY <3>1, FS_Subset DEF Bag, Upto
            <6>2. {h[e] : e \in found} = Paths(found)
              BY DEF Paths
            <6> HIDE DEF h, found
            <6> QED BY <6>1, <6>2, FiniteImage
          <5>4. Cardinality(Paths(found)) \in Nat /\ Cardinality(Paths(found)) # 0
            BY <5>2, <5>3, FS_CardinalityType, FS_EmptySet
          <5> QED BY <4>5, <5>4, PolicyAssumption DEF Spread, Places
        <4>6. pc' = [pc EXCEPT ![w] = IF MinPaths > 1 THEN "paths" ELSE "lock"]
          BY <1>3, <3>3 DEF CountEvents, Goto
        <4>7. label = IF MinPaths > 1 THEN "paths" ELSE "lock"
          BY <2>2, <4>6 DEF Types
        <4> QED BY <4>4, <4>5, <4>7
      <3>4. CASE CountPaths(w)
        <4>1. pc[w] = "paths" /\ ~(Cardinality(Paths(Recent(Window + since[w]))) < MinPaths)
          BY <1>3, <3>4 DEF CountPaths, At
        <4>2. Counted(w)
          BY <4>1 DEF EvidenceInv, Deciding
        <4>3. Cardinality(Places(events, Window + since[w])) \in Nat
          <5>1. /\ Upto(events, Window + since[w]) \subseteq DOMAIN events
                /\ \A e \in DOMAIN events : events[e] <= events[e]
                /\ Counts(events, DOMAIN events) /\ IsFiniteSet(DOMAIN events)
            BY <3>1 DEF Upto, Bag, Counts
          <5> QED BY <5>1, QueriesAreMonotone DEF Places
        <4> QED BY <3>2, <4>1, <4>2, <4>3, PolicyAssumption DEF Spread
      <3>5. CASE TakeLock(w)
        BY <3>5 DEF TakeLock, At, EvidenceInv, Deciding
      <3> QED BY <1>3, <3>3, <3>4, <3>5 DEF Evaluate, WriteBan
    <2>4. \A v \in Worker \ {w} : pc'[v] = pc[v]
      BY <2>2 DEF Types
    <2>5. pc'[w] = label
      BY <2>2 DEF Types
    <2> QED BY <1>1, <2>1, <2>3, <2>4, <2>5 DEF EvidenceInv, Counted, Spread
  <1> QED BY <1>2, <1>3

(* The cutoff ages with the events. *)
LEMMA TickKeepsEvidence ==
    ASSUME NEW labels, Types(labels), EvidenceInv, Tick
    PROVE  EvidenceInv'
  <1>1. events' = AgedEvents /\ Bag /\ pc' = pc
    BY DEF Tick, Types
  <1>2. ASSUME NEW w \in Worker, pc[w] \in Deciding
        PROVE  /\ Total(events', Window + since'[w]) = Total(events, Window + since[w])
               /\ Places(events', Window + since'[w]) = Places(events, Window + since[w])
    <2>1. since'[w] = since[w] + 1 /\ since[w] < Slack /\ since[w] \in Nat
      BY <1>2 DEF Tick, Types
    <2>2. /\ Window + since[w] \in Int /\ Window + since[w] + 1 <= Window + Slack
          /\ Window + since'[w] = (Window + since[w]) + 1
      BY <2>1, PolicyAssumption
    <2> QED BY <1>1, <2>2, AgedUpto
  <1>3. \A w \in Worker : pc'[w] \in {"lock", "ban"} => pc'[w] \in Deciding
    BY DEF Deciding
  <1> QED BY <1>1, <1>2, <1>3 DEF EvidenceInv, Counted, Spread

LEMMA StepKeepsEvidence ==
    ASSUME Types(Label), EvidenceInv, [Next]_vars
    PROVE  EvidenceInv'
  <1>1. ASSUME NEW w \in Worker, Detect(w) \/ Throttle(w) \/ Outage(w) \/ Crash(w)
        PROVE  EvidenceInv'
    <2>1. events' = events /\ (since' = since \/ since' = [since EXCEPT ![w] = 0])
      BY <1>1 DEF Detect, Throttle, Outage, Crash, Finish
    <2>2. PICK label \in {"idle", "throttle", "persist", "count"} :
              pc' = [pc EXCEPT ![w] = label]
      BY <1>1 DEF Detect, Throttle, Outage, Crash, Finish, Goto
    <2>3. label \notin Deciding
      BY DEF Deciding
    <2> QED BY <2>1, <2>2, <2>3, EvidenceStays
  <1>2. ASSUME NEW w \in Worker, Persist(w) \/ Evaluate(w) PROVE EvidenceInv'
    BY <1>2, PersistKeepsEvidence, EvaluateKeepsEvidence
  <1>3. CASE Lift \/ Evict \/ UNCHANGED vars
    BY <1>3 DEF Lift, Evict, vars, EvidenceInv, Counted, Spread
  <1>4. CASE Tick
    BY <1>4, TickKeepsEvidence
  <1> QED BY <1>1, <1>2, <1>3, <1>4 DEF Next

(* "A shared public address is promoted to a site-wide ban only after       *)
(* repeated, independent signals": whoever is about to write the ban has    *)
(* the threshold and the distinct paths behind it, however many requests    *)
(* log, count and wait at once, and whatever the faults.                    *)
THEOREM BansHaveEvidence == Spec => []BanHasEvidence
  <1>1. Init => EvidenceInv
    BY DEF Init, EvidenceInv, Deciding
  <1>2. Types(Label) /\ EvidenceInv /\ [Next]_vars => EvidenceInv'
    BY StepKeepsEvidence
  <1>3. Types(Label) /\ [Next]_vars => Types(Label)'
    BY StepKeepsTypes
  <1>4. Types(Label) /\ EvidenceInv => BanHasEvidence
    <2> SUFFICES ASSUME Types(Label), EvidenceInv, NEW w \in Worker, pc[w] = "ban"
                 PROVE  LET set == Recent(Window + since[w])
                        IN  Count(set) >= Threshold /\ Cardinality(Paths(set)) >= MinPaths
      BY DEF BanHasEvidence
    <2>1. Counted(w) /\ Spread(w)
      BY DEF EvidenceInv, Deciding
    <2>2. Bag
      BY DEF Types
    <2> QED BY <2>1, <2>2, QueriesAre DEF Counted, Spread
  <1> QED BY <1>1, <1>2, <1>3, <1>4, InitTypes, PTL DEF Spec


-----------------------------------------------------------------------------
(* No offender outruns its evaluation *)

Anon(bag) == {e \in Upto(bag, Window) : e.who = "anon"}
AnonEnough(bag) ==
    SumOf(bag, Anon(bag)) >= Threshold /\ Cardinality(Paths(Anon(bag))) >= MinPaths

(* A request that will still evaluate what was logged so far. *)
Pending(w) == (pc[w] = "count" /\ req[w].who = "anon") \/ pc[w] \in Deciding

(* While no ban ends and no handler is cut short, events that meet the      *)
(* policy leave a ban or somebody who comes to evaluate them; and the lock  *)
(* that turns others away is left by the ban or held by who writes it.      *)
AnswerInv ==
    ~excused /\ ban = 0 =>
        /\ AnonEnough(events) => \E w \in Worker : Pending(w)
        /\ evalLock > 0 => \E w \in Worker : pc[w] = "ban"

(* What meets the policy for an anonymous request does for any: the queries *)
(* of a later cutoff find no more.                                          *)
LEMMA AnonEnoughIsFound ==
    ASSUME Bag, AnonEnough(events), NEW age \in Nat, age >= Window
    PROVE  /\ Count(Recent(age)) >= Threshold
           /\ Cardinality(Paths(Recent(age))) >= MinPaths
  <1>1. Counts(events, DOMAIN events) /\ IsFiniteSet(DOMAIN events)
          /\ \A e \in DOMAIN events : events[e] <= events[e]
    BY DEF Bag, Counts
  <1>2. \A e \in DOMAIN events : e.age \in Nat
    BY PolicyAssumption DEF Bag, Event, Age
  <1>3. /\ Anon(events) \subseteq DOMAIN events
        /\ Upto(events, age) \subseteq DOMAIN events
        /\ Anon(events) \subseteq Upto(events, age)
    BY <1>2, PolicyAssumption DEF Anon, Upto
  <1>4. /\ SumOf(events, Anon(events)) <= SumOf(events, Upto(events, age))
        /\ Cardinality(Paths(Anon(events))) <= Cardinality(Paths(Upto(events, age)))
        /\ {SumOf(events, Anon(events)), SumOf(events, Upto(events, age))} \subseteq Nat
        /\ {Cardinality(Paths(Anon(events))), Cardinality(Paths(Upto(events, age)))}
               \subseteq Nat
    BY <1>1, <1>3, QueriesAreMonotone
  <1>5. /\ Count(Recent(age)) = SumOf(events, Upto(events, age))
        /\ Paths(Recent(age)) = Paths(Upto(events, age))
    BY QueriesAre DEF Total, Places
  <1> QED BY <1>4, <1>5, PolicyAssumption DEF AnonEnough

(* Time only takes events from the window. *)
LEMMA AgingIsNoOffence ==
    ASSUME Bag, events' = AgedEvents, AnonEnough(events')
    PROVE  AnonEnough(events)
  <1> DEFINE young == {e \in Upto(events, Window - 1) : e.who = "anon"}
  <1>1. Window - 1 \in Int /\ (Window - 1) + 1 <= Window + Slack /\ (Window - 1) + 1 = Window
    BY PolicyAssumption
  <1>2. /\ Upto(events, Window - 1) \subseteq Kept
        /\ Upto(events', Window) = {Older(e) : e \in Upto(events, Window - 1)}
    BY <1>1, AgedUpto
  <1>3. \A e \in Kept : Older(e).who = e.who
    BY DEF Kept, Bag, Event, Older
  <1>4. Anon(events') = {Older(e) : e \in young} /\ young \subseteq Kept
    BY <1>2, <1>3 DEF Anon
  <1>5. /\ SumOf(events', Anon(events')) = SumOf(events, young)
        /\ Paths(Anon(events')) = Paths(young)
    <2> HIDE DEF young
    <2> QED BY <1>4, AgedQueries
  <1>6. Counts(events, DOMAIN events) /\ IsFiniteSet(DOMAIN events)
          /\ \A e \in DOMAIN events : events[e] <= events[e] /\ e.age \in Nat
    BY PolicyAssumption DEF Bag, Counts, Event, Age
  <1>7. young \subseteq Anon(events) /\ Anon(events) \subseteq DOMAIN events
            /\ young \subseteq DOMAIN events
    BY <1>6, PolicyAssumption DEF Anon, Upto
  <1>8. /\ SumOf(events, young) <= SumOf(events, Anon(events))
        /\ Cardinality(Paths(young)) <= Cardinality(Paths(Anon(events)))
        /\ {SumOf(events, young), SumOf(events, Anon(events))} \subseteq Nat
        /\ {Cardinality(Paths(young)), Cardinality(Paths(Anon(events)))} \subseteq Nat
    <2> HIDE DEF young
    <2> QED BY <1>6, <1>7, QueriesAreMonotone
  <1> QED BY <1>5, <1>8, PolicyAssumption DEF AnonEnough

(* An event of an anonymous request has that request to answer for it.      *)
LEMMA PersistIsAnswered ==
    ASSUME Types(Label), AnswerInv, NEW w \in Worker, Persist(w)
    PROVE  AnswerInv'
  <1>1. /\ DOMAIN events' = DOMAIN events \cup {EventOf(w)}
        /\ \A e \in DOMAIN events \ {EventOf(w)} : events'[e] = events[e]
    BY PersistAdds
  <1>2. /\ pc' = [pc EXCEPT ![w] = "count"] /\ pc[w] = "persist" /\ req' = req
        /\ UNCHANGED <<evalLock, ban, excused>>
    BY DEF Persist, Goto, At
  <1>3. pc'[w] = "count" /\ \A v \in Worker \ {w} : pc'[v] = pc[v]
    BY <1>2 DEF Types
  <1>4. CASE req[w].who = "anon"
    BY <1>2, <1>3, <1>4 DEF AnswerInv, Pending
  <1>5. CASE req[w].who # "anon"
    <2>1. EventOf(w).who # "anon"
      BY <1>5 DEF EventOf
    <2>2. Anon(events') = Anon(events) /\ \A e \in Anon(events) : events'[e] = events[e]
      BY <1>1, <2>1 DEF Anon, Upto
    <2>3. IsFiniteSet(Anon(events))
      BY FS_Subset DEF Types, Bag, Anon, Upto
    <2>4. SumOf(events', Anon(events)) = SumOf(events, Anon(events))
      BY <2>2, <2>3, SumCongruence
    <2>5. AnonEnough(events') <=> AnonEnough(events)
      BY <2>2, <2>4 DEF AnonEnough
    <2>6. \A v \in Worker : Pending(v) => Pending(v)'
      BY <1>2, <1>3 DEF Pending, Deciding
    <2> QED BY <1>2, <1>3, <2>5, <2>6 DEF AnswerInv
  <1> QED BY <1>4, <1>5

(* Whoever gives up has found too little, or the lock of another; a signed- *)
(* in request under a soft policy was never counted on.                     *)
LEMMA EvaluateAnswers ==
    ASSUME Types(Label), AnswerInv, NEW w \in Worker, Evaluate(w)
    PROVE  AnswerInv'
  <1>1. events' = events /\ Bag
    BY DEF Evaluate, CountEvents, CountPaths, TakeLock, WriteBan, Types
  <1>2. CASE WriteBan(w)
    BY <1>2, PolicyAssumption DEF WriteBan, AnswerInv
  <1>3. CASE TakeLock(w)
    <2>1. ban' = ban /\ excused' = excused /\ pc[w] = "lock"
      BY <1>3 DEF TakeLock, At
    <2>2. CASE evalLock > 0
      <3>1. evalLock' = evalLock /\ pc' = [pc EXCEPT ![w] = "idle"]
        BY <1>3, <2>2 DEF TakeLock, Finish, Goto
      <3>2. \A v \in Worker : pc[v] = "ban" => pc'[v] = "ban"
        BY <2>1, <3>1 DEF Types
      <3> QED BY <1>1, <2>1, <2>2, <3>1, <3>2 DEF AnswerInv, Pending, Deciding
    <2>3. CASE ~(evalLock > 0)
      <3>1. pc'[w] = "ban"
        BY <1>3, <2>3 DEF TakeLock, Goto, Types
      <3> QED BY <3>1 DEF AnswerInv, Pending, Deciding
    <2> QED BY <2>2, <2>3
  <1>4. CASE CountEvents(w) \/ CountPaths(w)
    <2>1. UNCHANGED <<ban, excused, evalLock>> /\ pc[w] # "ban"
      BY <1>4 DEF CountEvents, CountPaths, At
    <2>2. CASE Finish(w)
      <3>1. /\ pc' = [pc EXCEPT ![w] = "idle"] /\ req' = [req EXCEPT ![w] = NoRequest]
        BY <2>2 DEF Finish, Goto
      <3>2. \A v \in Worker \ {w} : (Pending(v) => Pending(v)') /\ pc'[v] = pc[v]
        BY <3>1 DEF Types, Pending
      <3>3. Pending(w) => ~AnonEnough(events)
        <4>1. CASE CountEvents(w)
          <5>1. pc[w] = "count" /\ "count" \notin Deciding
            BY <4>1 DEF CountEvents, At, Deciding
          <5>2. (Soft /\ req[w].who = "user") \/ Count(Recent(Window)) < Threshold
            <6> SUFFICES ASSUME ~((Soft /\ req[w].who = "user")
                                    \/ Count(Recent(Window)) < Threshold)
                         PROVE  FALSE
              OBVIOUS
            <6>1. pc' = [pc EXCEPT ![w] = IF MinPaths > 1 THEN "paths" ELSE "lock"]
              BY <4>1 DEF CountEvents, Goto
            <6> QED BY <3>1, <6>1 DEF Types
          <5>3. Window \in Nat /\ Window >= Window /\ Threshold \in Nat
                  /\ Count(Recent(Window)) \in Nat
            BY <1>1, PolicyAssumption, QueriesAre
          <5>4. AnonEnough(events) => Count(Recent(Window)) >= Threshold
            BY <1>1, <5>3, AnonEnoughIsFound
          <5> QED BY <5>1, <5>2, <5>3, <5>4 DEF Pending
        <4>2. CASE CountPaths(w)
          <5>1. Cardinality(Paths(Recent(Window + since[w]))) < MinPaths
            <6> SUFFICES ASSUME ~(Cardinality(Paths(Recent(Window + since[w]))) < MinPaths)
                         PROVE  FALSE
              OBVIOUS
            <6>1. pc' = [pc EXCEPT ![w] = "lock"]
              BY <4>2 DEF CountPaths, Goto
            <6> QED BY <3>1, <6>1 DEF Types
          <5>2. Window + since[w] \in Nat /\ Window + since[w] >= Window
            BY PolicyAssumption DEF Types
          <5>3. AnonEnough(events) =>
                    Cardinality(Paths(Recent(Window + since[w]))) >= MinPaths
            BY <1>1, <5>2, AnonEnoughIsFound
          <5>4. Cardinality(Paths(Recent(Window + since[w]))) \in Nat /\ MinPaths \in Nat
            <6>1. /\ Upto(events, Window + since[w]) \subseteq DOMAIN events
                  /\ \A e \in DOMAIN events : events[e] <= events[e]
                  /\ Counts(events, DOMAIN events) /\ IsFiniteSet(DOMAIN events)
              BY <1>1 DEF Upto, Bag, Counts
            <6>2. Cardinality(Paths(Upto(events, Window + since[w]))) \in Nat
              BY <6>1, QueriesAreMonotone
            <6> QED BY <1>1, <6>2, QueriesAre, PolicyAssumption DEF Places
          <5> QED BY <5>1, <5>3, <5>4
        <4> QED BY <1>4, <4>1, <4>2
      <3> QED BY <1>1, <2>1, <3>2, <3>3 DEF AnswerInv
    <2>3. CASE ~Finish(w)
      <3>1. PICK label \in {"paths", "lock"} : pc' = [pc EXCEPT ![w] = label]
        BY <1>4, <2>3 DEF CountEvents, CountPaths, Goto
      <3>2. pc'[w] \in {"paths", "lock"} /\ \A v \in Worker \ {w} : pc'[v] = pc[v]
        BY <3>1 DEF Types
      <3> QED BY <2>1, <3>2 DEF AnswerInv, Pending, Deciding
    <2> QED BY <2>2, <2>3
  <1> QED BY <1>2, <1>3, <1>4 DEF Evaluate

LEMMA StepKeepsAnswer ==
    ASSUME Types(Label), AnswerInv, [Next]_vars
    PROVE  AnswerInv'
  <1>1. ASSUME NEW w \in Worker, Detect(w) \/ Throttle(w) \/ Outage(w)
        PROVE  AnswerInv'
    <2>1. /\ UNCHANGED <<events, evalLock, ban, excused>>
          /\ pc[w] \in {"idle", "throttle", "persist"}
      BY <1>1 DEF Detect, Throttle, Outage, At
    <2>2. PICK label \in {"throttle", "persist", "count"} : pc' = [pc EXCEPT ![w] = label]
      BY <1>1 DEF Detect, Throttle, Outage, Goto
    <2>3. \A v \in Worker \ {w} : pc'[v] = pc[v] /\ req'[v] = req[v]
      BY <1>1, <2>2 DEF Detect, Throttle, Outage, Types
    <2>4. ~Pending(w) /\ pc[w] # "ban"
      BY <2>1 DEF Pending, Deciding
    <2> QED BY <2>1, <2>3, <2>4 DEF AnswerInv, Pending
  <1>2. ASSUME NEW w \in Worker, Persist(w) \/ Evaluate(w) PROVE AnswerInv'
    BY <1>2, PersistIsAnswered, EvaluateAnswers
  <1>3. ASSUME NEW w \in Worker, Crash(w) PROVE AnswerInv'
    BY <1>3 DEF Crash, AnswerInv
  <1>4. CASE Lift
    BY <1>4 DEF Lift, AnswerInv
  <1>5. CASE Evict
    BY <1>5 DEF Evict, AnswerInv, Pending
  <1>6. CASE Tick
    <2>1. events' = AgedEvents /\ Bag /\ pc' = pc /\ req' = req
      BY <1>6 DEF Tick, Types
    <2>2. SUFFICES ASSUME ~excused', ban' = 0
                   PROVE  /\ AnonEnough(events') => \E w \in Worker : Pending(w)'
                          /\ evalLock' > 0 => \E w \in Worker : pc'[w] = "ban"
      BY DEF AnswerInv
    <2>3. ~excused /\ ban = 0
      <3>1. excused' = (excused \/ ban = 1) /\ Minus1(ban) = 0
        BY <1>6, <2>2 DEF Tick
      <3>2. ~excused /\ ban # 1
        BY <2>2, <3>1
      <3>3. ban = 0
        BY <3>1, <3>2 DEF Minus1, Types
      <3> QED BY <3>2, <3>3
    <2>4. evalLock' > 0 => evalLock > 0
      BY <1>6 DEF Tick, Minus1, Types
    <2> QED BY <2>1, <2>3, <2>4, AgingIsNoOffence DEF AnswerInv, Pending
  <1>7. CASE UNCHANGED vars
    BY <1>7 DEF vars, AnswerInv, Pending
  <1> QED BY <1>1, <1>2, <1>3, <1>4, <1>5, <1>6, <1>7 DEF Next

(* An address cannot outrun its evaluation: whichever of any number of      *)
(* requests persisted, counted or lost the lock last, anonymous events that *)
(* meet the policy have led to a ban when all are answered -- unless the    *)
(* ban has ended since or a handler was cut short.                          *)
THEOREM OffendersGetBanned == Spec => []OffendersAreBanned
  <1>1. Init => AnswerInv
    <2> SUFFICES ASSUME Init PROVE ~AnonEnough(events) /\ evalLock = 0
      BY DEF AnswerInv
    <2>1. DOMAIN events = {}
      BY DEF Init, EmptyBag, SetToBag
    <2>2. Anon(events) = {}
      BY <2>1 DEF Anon, Upto
    <2>3. SumOf(events, Anon(events)) = 0
      BY <2>2, SumEmpty
    <2> QED BY <2>3, PolicyAssumption DEF Init, AnonEnough
  <1>2. Types(Label) /\ AnswerInv /\ [Next]_vars => AnswerInv'
    BY StepKeepsAnswer
  <1>3. Types(Label) /\ [Next]_vars => Types(Label)'
    BY StepKeepsTypes
  <1>4. Types(Label) /\ AnswerInv => OffendersAreBanned
    <2> SUFFICES ASSUME Types(Label), AnswerInv, \A w \in Worker : pc[w] = "idle",
                        ~excused, Enough({e \in Recent(Window) : e.who = "anon"})
                 PROVE  ban > 0
      BY DEF OffendersAreBanned
    <2>1. {e \in Recent(Window) : e.who = "anon"} = Anon(events)
            /\ Anon(events) \subseteq DOMAIN events
      BY DEF Anon, Recent, Upto
    <2>2. Count(Anon(events)) = SumOf(events, Anon(events))
      BY <2>1, CountIsSum DEF Types
    <2>3. AnonEnough(events)
      BY <2>1, <2>2 DEF Enough, AnonEnough
    <2>4. ban # 0
      BY <2>3 DEF AnswerInv, Pending, Deciding
    <2> QED BY <2>4 DEF Types
  <1> QED BY <1>1, <1>2, <1>3, <1>4, InitTypes, PTL DEF Spec

=============================================================================
