-------------------------- MODULE LoginGuardProofs --------------------------
(***************************************************************************)
(* Machine-checked proofs about LoginGuard, for any number of requests,    *)
(* thresholds, windows and faults: its types, the evidence of a ban, the   *)
(* bound on guesses, and that it implements BanLedger.                     *)
(***************************************************************************)
EXTENDS LoginGuard, SumProofs

(* Only a staff sign-in is on its way to lift a ban.                        *)
GuardInv ==
    /\ ban \in Nat
    /\ pc \in [Worker -> Label]
    /\ \A w \in Worker : pc[w] \in {"trust", "lift"} => "staff" \in Fault

LEMMA LengthIsPositive == BanMinutes + 1 \in Nat \ {0}
  BY GuardAssumption

(* The steps of one worker that leave the ban alone.                        *)
Elsewhere(w) ==
    \/ Gate(w) \/ LoggedIn(w) \/ TrustStaff(w) \/ FailExempt(w) \/ LoginFailed(w)
    \/ IncrShort(w) \/ SumShort(w) \/ IncrLong(w) \/ SumLong(w) \/ SetLock(w)
    \/ CacheFails(w)

(* What a cache call that raises does, step by step. *)
LEMMA OutageMoves ==
    ASSUME NEW w \in Worker, CacheFails(w)
    PROVE  /\ UNCHANGED <<short, long, lock, ban, trusted, failed>> /\ undisturbed' = FALSE
           /\ \/ /\ pc[w] = "idle" /\ Goto(w, "password")
                 /\ UNCHANGED <<bucket, count, locks>>
              \/ /\ pc[w] \in {"incrShort", "sumShort"} /\ Goto(w, "incrLong")
                 /\ count' = [count EXCEPT ![w] = 0] /\ bucket' = [bucket EXCEPT ![w] = 0]
                 /\ UNCHANGED locks
              \/ /\ pc[w] \in {"incrLong", "sumLong"} /\ Goto(w, "setLock")
                 /\ count' = [count EXCEPT ![w] = 0]
                 /\ UNCHANGED <<bucket, locks>>
              \/ pc[w] = "setLock" /\ Forget(w)
  <1>1. CASE At(w, "idle")
    BY <1>1 DEF CacheFails, At
  <1>2. CASE pc[w] \in {"incrShort", "sumShort"}
    BY <1>2 DEF CacheFails, At
  <1>3. CASE pc[w] \in {"incrLong", "sumLong"}
    BY <1>3 DEF CacheFails, At
  <1>4. CASE At(w, "setLock") /\ locks[w]
    BY <1>4 DEF CacheFails, At
  <1>5. CASE /\ ~At(w, "idle") /\ pc[w] \notin {"incrShort", "sumShort"}
             /\ pc[w] \notin {"incrLong", "sumLong"} /\ ~(At(w, "setLock") /\ locks[w])
    BY <1>5 DEF CacheFails
  <1> QED BY <1>1, <1>2, <1>3, <1>4, <1>5

LEMMA ElsewhereMoves ==
    ASSUME GuardInv, NEW w \in Worker, Elsewhere(w)
    PROVE  /\ ban' = ban
           /\ \E label \in Label : /\ pc' = [pc EXCEPT ![w] = label]
                                   /\ label \in {"trust", "lift"} => "staff" \in Fault
  <1> USE DEF Goto, Label, Counting
  <1>1. CASE Gate(w) \/ FailExempt(w)
    BY <1>1 DEF Gate, FailExempt
  <1>2. CASE LoginFailed(w)
    <2>1. ban' = ban /\ Goto(w, "incrShort")
      BY ONLY <1>2 DEF LoginFailed
    <2> QED BY <2>1
  <1>3. CASE LoggedIn(w)
    BY <1>3 DEF LoggedIn
  <1>4. CASE TrustStaff(w)
    BY <1>4 DEF TrustStaff, At, GuardInv
  <1>5. CASE IncrShort(w) \/ SumShort(w) \/ IncrLong(w) \/ SumLong(w) \/ SetLock(w)
    BY <1>5 DEF IncrShort, SumShort, IncrLong, SumLong, SetLock
  <1>6. CASE CacheFails(w)
    <2>1. /\ ban' = ban
          /\ \/ Goto(w, "password") \/ Goto(w, "incrLong") \/ Goto(w, "setLock")
             \/ Goto(w, "idle")
      <3> HIDE DEF Goto
      <3> QED BY <1>6, OutageMoves DEF Forget
    <2> QED BY <2>1
  <1> QED BY <1>1, <1>2, <1>3, <1>4, <1>5, <1>6 DEF Elsewhere

(* The surroundings that leave the ban alone.                               *)
LEMMA AroundMoves ==
    ASSUME Evict \/ TrustEnds \/ LockExpires \/ UNCHANGED vars
    PROVE  ban' = ban /\ pc' = pc
  BY DEF Evict, TrustEnds, LockExpires, vars

LEMMA StepKeepsGuardInv ==
    ASSUME GuardInv, [Next]_vars
    PROVE  GuardInv'
  <1>1. ASSUME NEW w \in Worker, Elsewhere(w) PROVE GuardInv'
    <2>1. PICK label \in Label : /\ pc' = [pc EXCEPT ![w] = label]
                                 /\ label \in {"trust", "lift"} => "staff" \in Fault
      BY <1>1, ElsewhereMoves
    <2>2. ban' = ban
      BY <1>1, ElsewhereMoves
    <2> QED BY <2>1, <2>2 DEF GuardInv
  <1>2. ASSUME NEW w \in Worker, LiftBan(w) PROVE GuardInv'
    BY <1>2 DEF LiftBan, Goto, GuardInv, Label
  <1>3. ASSUME NEW w \in Worker, SetBan(w) PROVE GuardInv'
    <2>1. ban' \in Nat
      BY <1>3, LengthIsPositive DEF SetBan, GuardInv
    <2> QED BY <1>3, <2>1 DEF SetBan, Forget, Goto, GuardInv, Label
  <1>4. CASE Tick
    BY <1>4 DEF Tick, Minus1, GuardInv
  <1>5. CASE BanExpires
    BY <1>5 DEF BanExpires, GuardInv
  <1>6. CASE Evict \/ TrustEnds \/ LockExpires \/ UNCHANGED vars
    BY <1>6, AroundMoves DEF GuardInv
  <1> QED BY <1>1, <1>2, <1>3, <1>4, <1>5, <1>6
          DEF Next, Step, SignIn, Failure, Elsewhere

LEMMA StepKeepsLedger ==
    ASSUME GuardInv, [Next]_vars
    PROVE  [Ledger!Next]_[kind |-> IF ban > 0 THEN "temp" ELSE "none", left |-> ban]
  <1> DEFINE Mapped == [kind |-> IF ban > 0 THEN "temp" ELSE "none", left |-> ban]
  <1>1. CASE ban' = ban
    BY <1>1
  <1>2. ASSUME NEW w \in Worker, Elsewhere(w) PROVE ban' = ban
    BY <1>2, ElsewhereMoves
  <1>3. ASSUME NEW w \in Worker, LiftBan(w) PROVE Ledger!Lift
    BY <1>3 DEF LiftBan, At, GuardInv, Ledger!Lift, Ledger!NoBan
  <1>4. ASSUME NEW w \in Worker, SetBan(w) PROVE Ledger!Detect \/ ban' = ban
    <2>1. CASE ban = 0 /\ ban' # ban
      <3>1. ban' = BanMinutes + 1
        BY <1>4, <2>1 DEF SetBan
      <3>2. Mapped' \in [kind : {"temp"}, left : 1 .. BanMinutes + 1]
        BY <3>1, LengthIsPositive
      <3>3. Mapped = [kind |-> "none", left |-> 0]
        BY <2>1
      <3> QED BY <3>2, <3>3 DEF Ledger!Detect, Ledger!NoBan
    <2>2. CASE ban # 0
      BY <1>4, <2>2 DEF SetBan
    <2> QED BY <2>1, <2>2
  <1>5. ASSUME Tick \/ BanExpires PROVE Ledger!Age \/ ban' = ban
    <2>1. ban' = IF ban = 0 THEN 0 ELSE ban - 1
      BY <1>5 DEF Tick, BanExpires, Minus1
    <2>2. CASE ban = 0
      BY <2>1, <2>2
    <2>3. CASE ban = 1
      <3>1. Mapped.kind = "temp" /\ Mapped.left = 1 /\ Mapped' = [kind |-> "none", left |-> 0]
        BY <2>1, <2>3
      <3> QED BY <3>1 DEF Ledger!Age, Ledger!NoBan
    <2>4. CASE ban > 1
      <3>1. /\ Mapped.kind = "temp" /\ Mapped.left # 1
            /\ Mapped' = [Mapped EXCEPT !.left = @ - 1]
        BY <2>1, <2>4 DEF GuardInv
      <3> QED BY <3>1 DEF Ledger!Age
    <2> QED BY <2>2, <2>3, <2>4 DEF GuardInv
  <1>6. CASE Evict \/ TrustEnds \/ LockExpires \/ UNCHANGED vars
    BY <1>1, <1>6, AroundMoves
  <1> QED BY <1>1, <1>2, <1>3, <1>4, <1>5, <1>6
          DEF Next, Step, SignIn, Failure, Elsewhere, Ledger!Next

(* The failure handler and the sign-in of staff, for any number of requests *)
(* and any thresholds: failures counted at once, late or after an outage    *)
(* neither renew nor prolong the ban that is there, and nothing but time and*)
(* a staff sign-in ends it.                                                 *)
THEOREM GuardImplementsLedger == Spec => GuardKeepsLedger
  <1>1. Init => GuardInv /\ Ledger!Init
    BY DEF Init, GuardInv, Label, Ledger!Init, Ledger!Ban, Ledger!NoBan
  <1>2. GuardInv /\ [Next]_vars => GuardInv'
    BY StepKeepsGuardInv
  <1>3. GuardInv /\ [Next]_vars =>
            [Ledger!Next]_[kind |-> IF ban > 0 THEN "temp" ELSE "none", left |-> ban]
    BY StepKeepsLedger
  <1> QED BY <1>1, <1>2, <1>3, PTL DEF Spec, GuardKeepsLedger, Ledger!Spec


-----------------------------------------------------------------------------
(* The type invariant *)

LEMMA TotalIsSum ==
    ASSUME NEW counter, NEW first, NEW width
    PROVE  Total(counter, first, width) = SumOf(counter, first .. first + width - 1)
  BY DEF Total, SumOf

(* The ages a worker counts in, and those it adds up, are remembered.       *)
LEMMA AgesAreKept ==
    /\ 0 .. Slack \subseteq Age /\ IsFiniteSet(Age) /\ 0 \in Age
    /\ \A b \in 0 .. Slack : b + 1 .. b + BanWindow - 1 \subseteq Age
    /\ \A b \in 0 .. Slack : b + 1 .. b + LockWindow - 1 \subseteq Age
    /\ 0 .. LockWindow - 1 \subseteq Age
  <1>1. {Slack, BanWindow, LockWindow} \subseteq Nat \ {0} /\ LockWindow <= BanWindow
    BY GuardAssumption
  <1>2. IsFiniteSet(Age)
    <2>1. BanWindow + 2 * Slack - 1 \in Int
      BY <1>1
    <2> QED BY <2>1, FS_Interval DEF Age
  <1> QED BY <1>1, <1>2 DEF Age

Counter == [Age -> Nat]

LEMMA CounterIsTyped ==
    ASSUME NEW counter \in Counter
    PROVE  /\ \A b \in Age : Bump(counter, b) \in Counter
           /\ Shifted(counter) \in Counter
           /\ \A S \in SUBSET Age : Counts(counter, S) /\ IsFiniteSet(S)
                                      /\ SumOf(counter, S) \in Nat
  <1>1. \A b \in Age : Bump(counter, b) \in Counter
    BY DEF Bump, Counter
  <1>2. \A a \in Age : a # 0 => a - 1 \in Age
    BY GuardAssumption DEF Age
  <1>3. Shifted(counter) \in Counter
    BY <1>2 DEF Shifted, Counter
  <1>4. ASSUME NEW S \in SUBSET Age
        PROVE  Counts(counter, S) /\ IsFiniteSet(S) /\ SumOf(counter, S) \in Nat
    <2>1. IsFiniteSet(S)
      BY AgesAreKept, FS_Subset
    <2>2. Counts(counter, S)
      BY DEF Counts, Counter
    <2> QED BY <2>1, <2>2, SumType
  <1> QED BY <1>1, <1>3, <1>4

(* What a step of a worker may do to the worker's own variables.            *)
Own(w) ==
    /\ \E label \in Label : pc' = [pc EXCEPT ![w] = label]
    /\ bucket' = bucket \/ bucket' = [bucket EXCEPT ![w] = 0]
    /\ locks' = locks \/ \E b \in BOOLEAN : locks' = [locks EXCEPT ![w] = b]

LEMMA OwnIsTyped ==
    ASSUME TypeOK, NEW w \in Worker, Own(w)
    PROVE  /\ pc' \in [Worker -> Label]
           /\ bucket' \in [Worker -> 0 .. Slack]
           /\ locks' \in [Worker -> BOOLEAN]
  BY GuardAssumption DEF TypeOK, Own

LEMMA WorkerMoves ==
    ASSUME TypeOK, NEW w \in Worker, Step(w) \/ CacheFails(w)
    PROVE  Own(w)
  <1> USE DEF Goto, Label, Counting, Own
  <1>1. CASE Gate(w) \/ FailExempt(w)
    BY <1>1 DEF Gate, FailExempt
  <1>2. CASE LoginFailed(w)
    <2>1. UNCHANGED locks /\ Goto(w, "incrShort") /\ bucket' = [bucket EXCEPT ![w] = 0]
      BY ONLY <1>2 DEF LoginFailed
    <2> QED BY <2>1
  <1>3. CASE SignIn(w)
    BY <1>3 DEF SignIn, LoggedIn, TrustStaff, LiftBan
  <1>4. CASE IncrShort(w) \/ IncrLong(w) \/ SumLong(w) \/ SetLock(w)
    BY <1>4 DEF IncrShort, IncrLong, SumLong, SetLock
  <1>5. CASE SumShort(w)
    <2>1. PICK total : locks' = [locks EXCEPT ![w] = total >= LockCount]
      BY <1>5 DEF SumShort
    <2>2. (total >= LockCount) \in BOOLEAN
      OBVIOUS
    <2> QED BY <1>5, <2>1, <2>2 DEF SumShort
  <1>6. CASE SetBan(w)
    BY <1>6 DEF SetBan, Forget
  <1>7. CASE CacheFails(w)
    BY <1>7, OutageMoves DEF Forget
  <1> QED BY <1>1, <1>2, <1>3, <1>4, <1>5, <1>6, <1>7 DEF Step, Failure


(* The counters and the numbers of the workers, one action at a time.       *)
Numbers ==
    /\ short \in Counter /\ long \in Counter /\ failed \in Counter
    /\ count \in [Worker -> Nat]

LEMMA WorkerKeepsNumbers ==
    ASSUME TypeOK, NEW w \in Worker, Step(w) \/ CacheFails(w)
    PROVE  Numbers'
  <1>1. Numbers /\ bucket[w] \in 0 .. Slack /\ bucket[w] \in Age /\ 0 \in Age
          /\ count[w] \in Nat
    BY AgesAreKept DEF TypeOK, Numbers, Counter
  <1>2. CASE Gate(w) \/ FailExempt(w) \/ SetLock(w) \/ LoggedIn(w) \/ TrustStaff(w)
               \/ LiftBan(w)
    BY <1>1, <1>2 DEF Gate, FailExempt, SetLock, LoggedIn, TrustStaff, LiftBan, Numbers
  <1>3. CASE LoginFailed(w)
    <2>1. failed' = Bump(failed, 0) /\ UNCHANGED <<short, long, count>>
      BY ONLY <1>3 DEF LoginFailed
    <2> QED BY <1>1, <2>1, CounterIsTyped DEF Numbers
  <1>4. CASE IncrShort(w)
    <2>1. /\ short' = Bump(short, bucket[w])
          /\ count' = [count EXCEPT ![w] = short'[bucket[w]]]
          /\ UNCHANGED <<long, failed>>
      BY <1>4 DEF IncrShort
    <2>2. short' \in Counter
      BY <1>1, <2>1, CounterIsTyped DEF Numbers
    <2>3. short'[bucket[w]] \in Nat
      BY <1>1, <2>2 DEF Counter
    <2> QED BY <1>1, <2>1, <2>2, <2>3 DEF Numbers
  <1>5. CASE IncrLong(w)
    <2>1. /\ long' = Bump(long, bucket[w])
          /\ count' = [count EXCEPT ![w] = long'[bucket[w]]]
          /\ UNCHANGED <<short, failed>>
      BY <1>5 DEF IncrLong
    <2>2. long' \in Counter
      BY <1>1, <2>1, CounterIsTyped DEF Numbers
    <2>3. long'[bucket[w]] \in Nat
      BY <1>1, <2>2 DEF Counter
    <2> QED BY <1>1, <2>1, <2>2, <2>3 DEF Numbers
  <1>6. CASE SumShort(w) \/ SetBan(w)
    BY <1>1, <1>6 DEF SumShort, SetBan, Forget, Numbers
  <1>7. CASE SumLong(w)
    <2> DEFINE rest == Total(long, bucket[w] + 1, BanWindow - 1)
    <2>1. rest \in Nat
      <3>1. rest = SumOf(long, bucket[w] + 1 .. bucket[w] + 1 + (BanWindow - 1) - 1)
        BY TotalIsSum
      <3>2. bucket[w] + 1 + (BanWindow - 1) - 1 = bucket[w] + BanWindow - 1
        BY <1>1, GuardAssumption
      <3>3. bucket[w] + 1 .. bucket[w] + BanWindow - 1 \in SUBSET Age
        BY <1>1, AgesAreKept
      <3> QED BY <1>1, <3>1, <3>2, <3>3, CounterIsTyped DEF Numbers
    <2>2. count' = [count EXCEPT ![w] = count[w] + rest] /\ UNCHANGED <<short, long, failed>>
      BY <1>7 DEF SumLong
    <2> HIDE DEF rest
    <2> QED BY <1>1, <2>1, <2>2 DEF Numbers
  <1>8. CASE CacheFails(w)
    <2>1. UNCHANGED <<short, long, failed>>
      BY <1>8, OutageMoves
    <2>2. count' = count \/ count' = [count EXCEPT ![w] = 0]
      BY <1>8, OutageMoves DEF Forget
    <2> QED BY <1>1, <2>1, <2>2 DEF Numbers
  <1> QED BY <1>2, <1>3, <1>4, <1>5, <1>6, <1>7, <1>8 DEF Step, SignIn, Failure

(* The lock, the ban and the flags. *)
Flags ==
    /\ lock \in 0 .. LockMinutes + 1 /\ ban \in 0 .. BanMinutes + 1
    /\ trusted \in BOOLEAN /\ undisturbed \in BOOLEAN

LEMMA WorkerKeepsFlags ==
    ASSUME TypeOK, NEW w \in Worker, Step(w) \/ CacheFails(w)
    PROVE  Flags'
  <1>1. /\ {0, LockMinutes + 1} \subseteq 0 .. LockMinutes + 1
        /\ {0, BanMinutes + 1} \subseteq 0 .. BanMinutes + 1
    BY GuardAssumption
  <1>2. Flags
    BY DEF TypeOK, Flags
  <1>3. CASE Gate(w) \/ FailExempt(w) \/ LoggedIn(w) \/ TrustStaff(w) \/ LiftBan(w)
    BY <1>1, <1>2, <1>3 DEF Gate, FailExempt, LoggedIn, TrustStaff, LiftBan, Flags
  <1>4. CASE LoginFailed(w)
    <2>1. UNCHANGED <<lock, ban, trusted, undisturbed>>
      BY ONLY <1>4 DEF LoginFailed
    <2> QED BY <1>2, <2>1 DEF Flags
  <1>5. CASE IncrShort(w) \/ SumShort(w) \/ IncrLong(w) \/ SumLong(w) \/ CacheFails(w)
    BY <1>2, <1>5 DEF IncrShort, SumShort, IncrLong, SumLong, CacheFails, Flags
  <1>6. CASE SetLock(w) \/ SetBan(w)
    BY <1>1, <1>2, <1>6 DEF SetLock, SetBan, Flags
  <1> QED BY <1>3, <1>4, <1>5, <1>6 DEF Step, SignIn, Failure

LEMMA TickKeepsTypes ==
    ASSUME TypeOK, Tick
    PROVE  TypeOK'
  <1>1. short' \in Counter /\ long' \in Counter /\ failed' \in Counter
    BY CounterIsTyped DEF Tick, TypeOK, Counter
  <1>2. lock' \in 0 .. LockMinutes + 1 /\ ban' \in 0 .. BanMinutes + 1
    BY GuardAssumption DEF Tick, TypeOK, Minus1
  <1>3. bucket' \in [Worker -> 0 .. Slack]
    BY GuardAssumption DEF Tick, TypeOK
  <1> QED BY <1>1, <1>2, <1>3 DEF Tick, TypeOK, Counter

LEMMA StepKeepsTypes ==
    ASSUME TypeOK, [Next]_vars
    PROVE  TypeOK'
  <1>1. ASSUME NEW w \in Worker, Step(w) \/ CacheFails(w) PROVE TypeOK'
    <2>1. Numbers' /\ Flags' /\ Own(w)
      BY <1>1, WorkerKeepsNumbers, WorkerKeepsFlags, WorkerMoves
    <2>2. /\ pc' \in [Worker -> Label]
          /\ bucket' \in [Worker -> 0 .. Slack]
          /\ locks' \in [Worker -> BOOLEAN]
      BY <2>1, OwnIsTyped
    <2> QED BY <2>1, <2>2 DEF Numbers, Flags, TypeOK, Counter
  <1>2. CASE Evict
    <2>1. short' \in Counter /\ long' \in Counter
      BY <1>2 DEF Evict, TypeOK, Counter
    <2>2. lock' \in 0 .. LockMinutes + 1
      BY <1>2, GuardAssumption DEF Evict, TypeOK
    <2> QED BY <1>2, <2>1, <2>2 DEF Evict, TypeOK, Counter
  <1>3. CASE TrustEnds
    BY <1>3 DEF TrustEnds, TypeOK
  <1>4. CASE LockExpires \/ BanExpires
    BY <1>4, GuardAssumption DEF LockExpires, BanExpires, TypeOK
  <1>5. CASE Tick
    BY <1>5, TickKeepsTypes
  <1>6. CASE UNCHANGED vars
    BY <1>6 DEF vars, TypeOK
  <1> QED BY <1>1, <1>2, <1>3, <1>4, <1>5, <1>6 DEF Next

LEMMA InitTypes == Init => TypeOK
  <1>1. 0 \in 0 .. LockMinutes + 1 /\ 0 \in 0 .. BanMinutes + 1 /\ 0 \in 0 .. Slack
    BY GuardAssumption
  <1>2. Nothing \in Counter
    BY DEF Nothing, Counter
  <1>3. Init => pc \in [Worker -> Label] /\ locks \in [Worker -> BOOLEAN]
    BY DEF Init, Label
  <1>4. Init => bucket \in [Worker -> 0 .. Slack] /\ count \in [Worker -> Nat]
    BY <1>1 DEF Init
  <1>5. Init => short \in Counter /\ long \in Counter /\ failed \in Counter
    BY <1>2 DEF Init
  <1> QED BY <1>1, <1>3, <1>4, <1>5 DEF Init, TypeOK, Counter

(* The state has its types, for any number of requests and any fault; of    *)
(* however many requests that lock or ban, none makes the lock or the ban   *)
(* last longer than its setting.                                            *)
THEOREM GuardTypes == Spec => []TypeOK
  BY InitTypes, StepKeepsTypes, PTL DEF Spec


-----------------------------------------------------------------------------
(* The evidence of a ban *)

Refused(n) == SumOf(failed, 0 .. n)

(* Failures that are not in the long counter yet, but may count there in a  *)
(* bucket of age m - Slack at most.                                         *)
Owed(m) == {w \in Worker : \/ pc[w] \in {"incrShort", "sumShort"} /\ bucket[w] <= m
                           \/ pc[w] = "incrLong" /\ bucket[w] + Slack <= m}

(* Those of them about to count in a bucket older than b, up to n.          *)
Between(b, n) == {w \in Worker : pc[w] = "incrLong" /\ b < bucket[w] /\ bucket[w] <= n}

(* Every count in the long counter stands for a password refused Slack      *)
(* minutes before at most.                                                  *)
CountsAreRefusals ==
    \A m \in Age : SumOf(long, 0 .. m - Slack) + Cardinality(Owed(m)) <= Refused(m)

(* So does what a worker read and what it will add: a bucket that others    *)
(* count in meanwhile is either newer than its own or not read yet.         *)
ReadsAreRefusals ==
    \A w \in Worker, b \in 0 .. Slack, n \in Age :
        /\ pc[w] = "sumLong" /\ bucket[w] = b
        /\ b <= n /\ n + Slack \in Age
        => count[w] + SumOf(long, b + 1 .. n) + Cardinality(Between(b, n))
               <= Refused(n + Slack)

(* And the total it takes to the ban. *)
TotalsAreRefusals ==
    \A w \in Worker, b \in 0 .. Slack :
        pc[w] \in {"setLock", "setBan"} /\ bucket[w] = b =>
            count[w] <= Refused(b + BanWindow - 1 + Slack)

RefusalInv == CountsAreRefusals /\ ReadsAreRefusals /\ TotalsAreRefusals

(* The sums in the invariant are naturals. *)
LEMMA RefusalNumbers ==
    ASSUME TypeOK
    PROVE  /\ \A n \in Age : 0 .. n \in SUBSET Age /\ Refused(n) \in Nat
           /\ \A n \in Int : n \in Age \/ n <= 0 =>
                 SumOf(long, 0 .. n) \in Nat /\ Counts(long, 0 .. n)
           /\ \A b \in 0 .. Slack, n \in Age :
                 /\ SumOf(long, b + 1 .. n) \in Nat /\ b + 1 .. n \in SUBSET Age
                 /\ Counts(long, b + 1 .. n)
           /\ \A m : Cardinality(Owed(m)) \in Nat /\ IsFiniteSet(Owed(m))
           /\ \A b, n : Cardinality(Between(b, n)) \in Nat /\ IsFiniteSet(Between(b, n))
           /\ \A b \in 0 .. Slack : b + BanWindow - 1 + Slack \in Age
  <1>1. long \in Counter /\ failed \in Counter
    BY DEF TypeOK, Counter
  <1>2. {Slack, BanWindow} \subseteq Nat \ {0}
    BY GuardAssumption
  <1>3. \A n \in Int : n \in Age \/ n <= 0 => 0 .. n \in SUBSET Age
    BY <1>2 DEF Age
  <1>4. \A n \in Int : n \in Age \/ n <= 0 =>
            SumOf(long, 0 .. n) \in Nat /\ Counts(long, 0 .. n)
    BY <1>1, <1>3, CounterIsTyped
  <1>5. \A n \in Age : n \in Int /\ 0 .. n \in SUBSET Age
    BY <1>2 DEF Age
  <1>6. \A n \in Age : Refused(n) \in Nat
    BY <1>1, <1>5, CounterIsTyped DEF Refused
  <1>7. \A b \in 0 .. Slack, n \in Age : b + 1 .. n \in SUBSET Age
    BY <1>2 DEF Age
  <1>8. \A b \in 0 .. Slack, n \in Age :
            SumOf(long, b + 1 .. n) \in Nat /\ Counts(long, b + 1 .. n)
    BY <1>1, <1>7, CounterIsTyped
  <1>9. \A m : IsFiniteSet(Owed(m)) /\ Cardinality(Owed(m)) \in Nat
    BY WorkerAssumption, FS_Subset, FS_CardinalityType DEF Owed
  <1>10. \A b, n : IsFiniteSet(Between(b, n)) /\ Cardinality(Between(b, n)) \in Nat
    BY WorkerAssumption, FS_Subset, FS_CardinalityType DEF Between
  <1>11. \A b \in 0 .. Slack : b + BanWindow - 1 + Slack \in Age
    BY <1>2 DEF Age
  <1> QED BY <1>4, <1>5, <1>6, <1>7, <1>8, <1>9, <1>10, <1>11

(* A step that refuses no password and counts none, and brings no worker to *)
(* its second read.                                                         *)
LEMMA QuietStep ==
    ASSUME TypeOK, TypeOK', RefusalInv, failed' = failed,
           \A a \in Age : long'[a] <= long[a],
           \A m \in Age : Owed(m)' \subseteq Owed(m),
           \A b \in 0 .. Slack, n \in Age : Between(b, n)' \subseteq Between(b, n),
           \A w \in Worker : pc'[w] = "sumLong" =>
               pc[w] = "sumLong" /\ bucket'[w] = bucket[w] /\ count'[w] = count[w]
    PROVE  CountsAreRefusals' /\ ReadsAreRefusals'
  <1>1. \A n : Refused(n)' = Refused(n)
    BY DEF Refused
  <1>2. \A S \in SUBSET Age : SumOf(long', S) <= SumOf(long, S) /\ SumOf(long', S) \in Nat
    <2> SUFFICES ASSUME NEW S \in SUBSET Age
                 PROVE  SumOf(long', S) <= SumOf(long, S) /\ SumOf(long', S) \in Nat
      OBVIOUS
    <2>1. long \in Counter /\ long' \in Counter
      BY DEF TypeOK, Counter
    <2>2. Counts(long, S) /\ Counts(long', S) /\ IsFiniteSet(S) /\ SumOf(long', S) \in Nat
      BY <2>1, CounterIsTyped
    <2> QED BY <2>2, SumPointwise
  <1>3. ASSUME NEW m \in Age
        PROVE  SumOf(long', 0 .. m - Slack) + Cardinality(Owed(m)') <= Refused(m)
    <2>1. m - Slack \in Int /\ (m - Slack \in Age \/ m - Slack <= 0)
            /\ 0 .. m - Slack \in SUBSET Age
      BY GuardAssumption DEF Age
    <2>2. Cardinality(Owed(m)') <= Cardinality(Owed(m)) /\ Cardinality(Owed(m)') \in Nat
      BY RefusalNumbers, FS_Subset, FS_CardinalityType
    <2>3. SumOf(long, 0 .. m - Slack) \in Nat /\ Cardinality(Owed(m)) \in Nat
            /\ Refused(m) \in Nat
      BY <2>1, RefusalNumbers
    <2>4. SumOf(long, 0 .. m - Slack) + Cardinality(Owed(m)) <= Refused(m)
      BY DEF RefusalInv, CountsAreRefusals
    <2>5. SumOf(long', 0 .. m - Slack) <= SumOf(long, 0 .. m - Slack)
            /\ SumOf(long', 0 .. m - Slack) \in Nat
      BY <1>2, <2>1
    <2> QED BY <2>2, <2>3, <2>4, <2>5
  <1>4. CountsAreRefusals'
    BY <1>1, <1>3 DEF CountsAreRefusals
  <1>5. ASSUME NEW w \in Worker, NEW b \in 0 .. Slack, NEW n \in Age,
               pc'[w] = "sumLong", bucket'[w] = b, b <= n, n + Slack \in Age
        PROVE  count'[w] + SumOf(long', b + 1 .. n) + Cardinality(Between(b, n)')
                   <= Refused(n + Slack)
    <2>1. pc[w] = "sumLong" /\ bucket[w] = b /\ count'[w] = count[w] /\ count[w] \in Nat
      BY <1>5 DEF TypeOK
    <2>2. count[w] + SumOf(long, b + 1 .. n) + Cardinality(Between(b, n))
              <= Refused(n + Slack)
      BY <1>5, <2>1 DEF RefusalInv, ReadsAreRefusals
    <2>3. /\ SumOf(long, b + 1 .. n) \in Nat /\ b + 1 .. n \in SUBSET Age
          /\ Cardinality(Between(b, n)) \in Nat /\ IsFiniteSet(Between(b, n))
          /\ Refused(n + Slack) \in Nat
      BY <1>5, RefusalNumbers
    <2>4. Cardinality(Between(b, n)') <= Cardinality(Between(b, n))
            /\ Cardinality(Between(b, n)') \in Nat
      BY <2>3, FS_Subset, FS_CardinalityType
    <2>5. SumOf(long', b + 1 .. n) <= SumOf(long, b + 1 .. n)
            /\ SumOf(long', b + 1 .. n) \in Nat
      BY <1>2, <2>3
    <2> QED BY <2>1, <2>2, <2>3, <2>4, <2>5
  <1>6. ReadsAreRefusals'
    BY <1>1, <1>5 DEF ReadsAreRefusals
  <1> QED BY <1>4, <1>6


(* One more failure adds one to the sums that reach its age.                *)
LEMMA BumpedSum ==
    ASSUME NEW counter \in Counter, NEW b \in Age, NEW S \in SUBSET Age
    PROVE  SumOf(Bump(counter, b), S) = SumOf(counter, S) + (IF b \in S THEN 1 ELSE 0)
  <1> DEFINE more == Bump(counter, b)
  <1>1. more \in Counter /\ more[b] = counter[b] + 1 /\ counter[b] \in Nat
          /\ \A a \in Age \ {b} : more[a] = counter[a]
    BY CounterIsTyped DEF Bump, Counter
  <1>2. Counts(counter, S) /\ Counts(more, S) /\ IsFiniteSet(S)
          /\ SumOf(counter, S) \in Nat /\ SumOf(more, S) \in Nat
    <2> HIDE DEF more
    <2> QED BY <1>1, CounterIsTyped
  <1> HIDE DEF more
  <1>3. CASE b \in S
    <2>1. SumOf(more, S) + counter[b] = SumOf(counter, S) + more[b]
      BY <1>1, <1>2, <1>3, SumChange
    <2> QED BY <1>1, <1>2, <1>3, <2>1 DEF more
  <1>4. CASE b \notin S
    <2>1. SumOf(more, S) = SumOf(counter, S)
      BY <1>1, <1>2, <1>4, SumCongruence
    <2> QED BY <1>2, <1>4, <2>1 DEF more
  <1> QED BY <1>3, <1>4

(* A minute later, the sums reach one age further. *)
LEMMA ShiftedSum ==
    ASSUME NEW counter \in Counter
    PROVE  /\ \A n \in Age : SumOf(Shifted(counter), 0 .. n) = SumOf(counter, 0 .. n - 1)
           /\ \A b, n \in Age : SumOf(Shifted(counter), b + 1 .. n) =
                                    SumOf(counter, b .. n - 1)
  <1>1. Shifted(counter)[0] = 0 /\ \A a \in Age : a + 1 \in Age =>
            Shifted(counter)[a + 1] = counter[a]
    BY GuardAssumption, AgesAreKept DEF Shifted, Age
  <1>2. ASSUME NEW n \in Age
        PROVE  SumOf(Shifted(counter), 0 .. n) = SumOf(counter, 0 .. n - 1)
    <2>1. /\ n - 1 \in Int /\ n - 1 >= -1 /\ (n - 1) + 1 = n
          /\ 0 .. n - 1 \in SUBSET Age /\ \A x \in 0 .. n - 1 : x + 1 \in Age
      BY GuardAssumption DEF Age
    <2>2. Counts(counter, 0 .. n - 1)
      BY <2>1, CounterIsTyped
    <2>3. \A x \in 0 .. n - 1 : Shifted(counter)[x + 1] = counter[x]
      BY <1>1, <2>1
    <2>4. SumOf(Shifted(counter), 0 .. (n - 1) + 1) = SumOf(counter, 0 .. n - 1)
      BY <1>1, <2>1, <2>2, <2>3, SumFromZero
    <2> QED BY <2>1, <2>4
  <1>3. ASSUME NEW b \in Age, NEW n \in Age
        PROVE  SumOf(Shifted(counter), b + 1 .. n) = SumOf(counter, b .. n - 1)
    <2>1. /\ n - 1 \in Int /\ b \in Int /\ (n - 1) + 1 = n
          /\ b .. n - 1 \in SUBSET Age /\ \A x \in b .. n - 1 : x + 1 \in Age
      BY GuardAssumption DEF Age
    <2>2. Counts(counter, b .. n - 1)
      BY <2>1, CounterIsTyped
    <2>3. \A x \in b .. n - 1 : Shifted(counter)[x + 1] = counter[x]
      BY <1>1, <2>1
    <2> DEFINE last == n - 1
               aged == Shifted(counter)
    <2>4. /\ last \in Int /\ b \in Int /\ last + 1 = n /\ Counts(counter, b .. last)
          /\ \A x \in b .. last : aged[x + 1] = counter[x]
      BY <2>1, <2>2, <2>3
    <2> HIDE DEF last, aged
    <2>5. SumOf(aged, b + 1 .. last + 1) = SumOf(counter, b .. last)
      BY <2>4, SumShifts
    <2> QED BY <2>4, <2>5 DEF last, aged
  <1> QED BY <1>2, <1>3

(* A refused password is owed. *)
LEMMA LoginFailedIsRefusal ==
    ASSUME TypeOK, TypeOK', RefusalInv, NEW w \in Worker, LoginFailed(w)
    PROVE  RefusalInv'
  <1>1. /\ failed' = Bump(failed, 0) /\ bucket' = [bucket EXCEPT ![w] = 0]
        /\ pc' = [pc EXCEPT ![w] = "incrShort"]
        /\ UNCHANGED <<long, count>> /\ pc[w] \in {"counted", "password"}
    BY DEF LoginFailed, Goto, At
  <1>2. pc'[w] = "incrShort" /\ \A v \in Worker \ {w} : pc'[v] = pc[v] /\ bucket'[v] = bucket[v]
    BY <1>1 DEF TypeOK
  <1>3. \A n \in Age : Refused(n)' = Refused(n) + 1 /\ Refused(n) \in Nat
    <2> SUFFICES ASSUME NEW n \in Age PROVE Refused(n)' = Refused(n) + 1 /\ Refused(n) \in Nat
      OBVIOUS
    <2>1. 0 .. n \in SUBSET Age /\ Refused(n) \in Nat /\ 0 \in 0 .. n /\ 0 \in Age
      BY RefusalNumbers, AgesAreKept, GuardAssumption DEF Age
    <2>2. SumOf(failed', 0 .. n) = SumOf(failed, 0 .. n) + 1
      <3>1. failed \in Counter
        BY DEF TypeOK, Counter
      <3> QED BY <1>1, <2>1, <3>1, BumpedSum
    <2> QED BY <2>1, <2>2 DEF Refused
  <1>4. \A m \in Age : Cardinality(Owed(m)') <= Cardinality(Owed(m)) + 1
                         /\ Cardinality(Owed(m)') \in Nat
    <2> SUFFICES ASSUME NEW m \in Age
                 PROVE  Cardinality(Owed(m)') <= Cardinality(Owed(m)) + 1
                         /\ Cardinality(Owed(m)') \in Nat
      OBVIOUS
    <2>1. Owed(m)' \subseteq Owed(m) \cup {w}
      BY <1>2 DEF Owed
    <2>2. /\ IsFiniteSet(Owed(m) \cup {w}) /\ Cardinality(Owed(m)) \in Nat
          /\ Cardinality(Owed(m) \cup {w}) <= Cardinality(Owed(m)) + 1
      BY RefusalNumbers, FS_AddElement
    <2>3. IsFiniteSet(Owed(m)') /\ Cardinality(Owed(m)') <= Cardinality(Owed(m) \cup {w})
      BY <2>1, <2>2, FS_Subset
    <2>4. Cardinality(Owed(m)') \in Nat /\ Cardinality(Owed(m) \cup {w}) \in Nat
      BY <2>2, <2>3, FS_CardinalityType
    <2> QED BY <2>2, <2>3, <2>4
  <1>5. CountsAreRefusals'
    <2> SUFFICES ASSUME NEW m \in Age
                 PROVE  SumOf(long, 0 .. m - Slack) + Cardinality(Owed(m)') <= Refused(m)'
      BY <1>1 DEF CountsAreRefusals
    <2>1. SumOf(long, 0 .. m - Slack) + Cardinality(Owed(m)) <= Refused(m)
      BY DEF RefusalInv, CountsAreRefusals
    <2>2. m - Slack \in Int /\ (m - Slack \in Age \/ m - Slack <= 0)
      BY GuardAssumption DEF Age
    <2>3. SumOf(long, 0 .. m - Slack) \in Nat /\ Cardinality(Owed(m)) \in Nat
      BY <2>2, RefusalNumbers
    <2> QED BY <1>3, <1>4, <2>1, <2>3
  <1>6. \A b \in 0 .. Slack, n \in Age : Between(b, n)' = Between(b, n)
    BY <1>1, <1>2 DEF Between
  <1>7. ReadsAreRefusals'
    <2> SUFFICES ASSUME NEW v \in Worker, NEW b \in 0 .. Slack, NEW n \in Age,
                        pc'[v] = "sumLong", bucket'[v] = b, b <= n, n + Slack \in Age
                 PROVE  count[v] + SumOf(long, b + 1 .. n) + Cardinality(Between(b, n)')
                            <= Refused(n + Slack)'
      BY <1>1 DEF ReadsAreRefusals
    <2>1. v # w /\ pc[v] = "sumLong" /\ bucket[v] = b
      BY <1>2
    <2>2. count[v] + SumOf(long, b + 1 .. n) + Cardinality(Between(b, n))
              <= Refused(n + Slack)
      BY <2>1 DEF RefusalInv, ReadsAreRefusals
    <2>3. SumOf(long, b + 1 .. n) \in Nat /\ Cardinality(Between(b, n)) \in Nat
            /\ count[v] \in Nat
      BY RefusalNumbers DEF TypeOK
    <2>4. Refused(n + Slack)' = Refused(n + Slack) + 1 /\ Refused(n + Slack) \in Nat
      BY <1>3
    <2> QED BY <1>6, <2>2, <2>3, <2>4
  <1>8. TotalsAreRefusals'
    <2> SUFFICES ASSUME NEW v \in Worker, NEW b \in 0 .. Slack,
                        pc'[v] \in {"setLock", "setBan"}, bucket'[v] = b
                 PROVE  count[v] <= Refused(b + BanWindow - 1 + Slack)'
      BY <1>1 DEF TotalsAreRefusals
    <2>1. v # w /\ pc[v] \in {"setLock", "setBan"} /\ bucket[v] = b /\ count[v] \in Nat
      BY <1>2 DEF TypeOK
    <2>2. count[v] <= Refused(b + BanWindow - 1 + Slack)
      BY <2>1 DEF RefusalInv, TotalsAreRefusals
    <2>3. b + BanWindow - 1 + Slack \in Age
      BY RefusalNumbers
    <2>4. /\ Refused(b + BanWindow - 1 + Slack)' = Refused(b + BanWindow - 1 + Slack) + 1
          /\ Refused(b + BanWindow - 1 + Slack) \in Nat
      BY <1>3, <2>3
    <2> QED BY <2>1, <2>2, <2>4
  <1> QED BY <1>5, <1>7, <1>8 DEF RefusalInv


(* A failure counted in the long counter is owed no more, whether another   *)
(* worker's read includes it or not.                                        *)
LEMMA IncrLongIsRefusal ==
    ASSUME TypeOK, TypeOK', RefusalInv, NEW w \in Worker, IncrLong(w)
    PROVE  RefusalInv'
  <1>1. /\ long' = Bump(long, bucket[w]) /\ count' = [count EXCEPT ![w] = long'[bucket[w]]]
        /\ pc' = [pc EXCEPT ![w] = "sumLong"] /\ pc[w] = "incrLong"
        /\ UNCHANGED <<bucket, failed>>
    BY DEF IncrLong, Goto, At
  <1>2. /\ pc'[w] = "sumLong" /\ count'[w] = long'[bucket[w]]
        /\ \A v \in Worker \ {w} : pc'[v] = pc[v] /\ count'[v] = count[v]
    BY <1>1 DEF TypeOK
  <1>3. \A n : Refused(n)' = Refused(n)
    BY <1>1 DEF Refused
  <1> DEFINE b0 == bucket[w]
  <1>4. b0 \in 0 .. Slack /\ b0 \in Age /\ long \in Counter /\ long' \in Counter
          /\ Slack \in Nat \ {0}
    BY AgesAreKept, GuardAssumption DEF TypeOK, Counter
  <1>5. \A S \in SUBSET Age : SumOf(long', S) = SumOf(long, S) + (IF b0 \in S THEN 1 ELSE 0)
    BY <1>1, <1>4, BumpedSum
  <1>6. \A m : Owed(m)' = Owed(m) \ {w}
    BY <1>1, <1>2 DEF Owed
  <1>7. \A m : Cardinality(Owed(m)') = Cardinality(Owed(m)) - (IF w \in Owed(m) THEN 1 ELSE 0)
                /\ Cardinality(Owed(m)') \in Nat /\ IsFiniteSet(Owed(m)')
    BY <1>6, RefusalNumbers, FS_RemoveElement, FS_CardinalityType
  <1>8. CountsAreRefusals'
    <2> SUFFICES ASSUME NEW m \in Age
                 PROVE  SumOf(long', 0 .. m - Slack) + Cardinality(Owed(m)') <= Refused(m)
      BY <1>3 DEF CountsAreRefusals
    <2>1. m - Slack \in Int /\ (m - Slack \in Age \/ m - Slack <= 0) /\ m \in Int
            /\ 0 .. m - Slack \in SUBSET Age
      BY GuardAssumption DEF Age
    <2>2. b0 \in 0 .. m - Slack => w \in Owed(m)
      BY <1>1, <1>4, <2>1 DEF Owed
    <2>3. SumOf(long, 0 .. m - Slack) + Cardinality(Owed(m)) <= Refused(m)
      BY DEF RefusalInv, CountsAreRefusals
    <2>4. SumOf(long, 0 .. m - Slack) \in Nat /\ Cardinality(Owed(m)) \in Nat
            /\ Refused(m) \in Nat
      BY <2>1, RefusalNumbers
    <2>5. SumOf(long', 0 .. m - Slack) =
              SumOf(long, 0 .. m - Slack) + (IF b0 \in 0 .. m - Slack THEN 1 ELSE 0)
      BY <1>5, <2>1
    <2>6. Cardinality(Owed(m)') = Cardinality(Owed(m)) - (IF w \in Owed(m) THEN 1 ELSE 0)
      BY <1>7
    <2> QED BY <2>2, <2>3, <2>4, <2>5, <2>6
  <1>9. \A b, n : Between(b, n)' = Between(b, n) \ {w}
    BY <1>1, <1>2 DEF Between
  <1>10. \A b, n : /\ Cardinality(Between(b, n)') =
                          Cardinality(Between(b, n)) - (IF w \in Between(b, n) THEN 1 ELSE 0)
                   /\ Cardinality(Between(b, n)') \in Nat /\ IsFiniteSet(Between(b, n)')
    BY <1>9, RefusalNumbers, FS_RemoveElement, FS_CardinalityType
  <1>11. ASSUME NEW n \in Age, b0 <= n, n + Slack \in Age
         PROVE  long'[b0] + SumOf(long', b0 + 1 .. n) + Cardinality(Between(b0, n) \ {w})
                    <= Refused(n + Slack)
    <2>1. Between(b0, n) \ {w} \subseteq Owed(n + Slack)'
      <3> SUFFICES ASSUME NEW v \in Worker, v # w, pc[v] = "incrLong", bucket[v] <= n
                   PROVE  bucket[v] + Slack <= n + Slack
        BY <1>1, <1>2, <1>6, <1>9 DEF Between, Owed
      <3>1. bucket[v] \in Int /\ n \in Int
        BY GuardAssumption DEF TypeOK, Age
      <3> QED BY <1>4, <3>1
    <2>2. Cardinality(Between(b0, n) \ {w}) <= Cardinality(Owed(n + Slack)')
            /\ Cardinality(Between(b0, n) \ {w}) \in Nat
      BY <1>7, <2>1, FS_Subset, FS_CardinalityType
    <2>3. n \in Int /\ 0 .. n \in SUBSET Age /\ b0 + 1 .. n \in SUBSET Age
             /\ 0 .. b0 \in SUBSET Age /\ b0 \in 0 .. b0 /\ b0 \in Int /\ (n + Slack) - Slack = n
      BY <1>4, GuardAssumption DEF Age
    <2>4. SumOf(long', 0 .. n) + Cardinality(Owed(n + Slack)') <= Refused(n + Slack)
      <3>1. SumOf(long', 0 .. (n + Slack) - Slack) + Cardinality(Owed(n + Slack)')
                <= Refused(n + Slack)'
        BY <1>8, <1>11 DEF CountsAreRefusals
      <3> QED BY <1>3, <2>3, <3>1
    <2>5. SumOf(long', 0 .. n) = SumOf(long', 0 .. b0) + SumOf(long', b0 + 1 .. n)
      <3>1. Counts(long', 0 .. n)
        BY <1>4, <2>3, CounterIsTyped
      <3>2. 0 <= b0 + 1 /\ 0 \in Int
        BY <1>4
      <3> HIDE DEF b0
      <3> QED BY <1>11, <2>3, <3>1, <3>2, SumSplitsAt
    <2>6. long'[b0] <= SumOf(long', 0 .. b0)
      <3>1. Counts(long', 0 .. b0) /\ IsFiniteSet(0 .. b0)
        BY <1>4, <2>3, CounterIsTyped
      <3> QED BY <2>3, <3>1, TermBelowSum
    <2>7. /\ SumOf(long', 0 .. b0) \in Nat /\ SumOf(long', b0 + 1 .. n) \in Nat
          /\ long'[b0] \in Nat
      <3>1. long'[b0] \in Nat
        BY <1>4 DEF Counter
      <3> QED BY <1>4, <2>3, <3>1, CounterIsTyped
    <2>8. Refused(n + Slack) \in Nat
      BY <1>11, RefusalNumbers
    <2> HIDE DEF b0
    <2> QED BY <1>7, <1>10, <2>2, <2>4, <2>5, <2>6, <2>7, <2>8
  <1>12. ASSUME NEW v \in Worker, v # w, NEW b \in 0 .. Slack, NEW n \in Age,
                pc[v] = "sumLong", bucket[v] = b, b <= n, n + Slack \in Age
         PROVE  count[v] + SumOf(long', b + 1 .. n) + Cardinality(Between(b, n)')
                    <= Refused(n + Slack)
    <2>1. count[v] + SumOf(long, b + 1 .. n) + Cardinality(Between(b, n))
              <= Refused(n + Slack)
      BY <1>12 DEF RefusalInv, ReadsAreRefusals
    <2>2. /\ SumOf(long, b + 1 .. n) \in Nat /\ b + 1 .. n \in SUBSET Age
          /\ Cardinality(Between(b, n)) \in Nat /\ Refused(n + Slack) \in Nat
          /\ count[v] \in Nat
      BY <1>12, RefusalNumbers DEF TypeOK
    <2>3. b0 \in b + 1 .. n <=> w \in Between(b, n)
      BY <1>1, <1>4, GuardAssumption DEF Between, Age
    <2>4. SumOf(long', b + 1 .. n) =
              SumOf(long, b + 1 .. n) + (IF b0 \in b + 1 .. n THEN 1 ELSE 0)
      BY <1>5, <2>2
    <2>5. Cardinality(Between(b, n)') =
              Cardinality(Between(b, n)) - (IF w \in Between(b, n) THEN 1 ELSE 0)
      BY <1>10
    <2> QED BY <2>1, <2>2, <2>3, <2>4, <2>5
  <1>13. ReadsAreRefusals'
    <2> SUFFICES ASSUME NEW v \in Worker, NEW b \in 0 .. Slack, NEW n \in Age,
                        pc'[v] = "sumLong", bucket[v] = b, b <= n, n + Slack \in Age
                 PROVE  count'[v] + SumOf(long', b + 1 .. n) + Cardinality(Between(b, n)')
                            <= Refused(n + Slack)
      BY <1>1, <1>3 DEF ReadsAreRefusals
    <2>1. CASE v = w
      <3>1. b = b0 /\ count'[v] = long'[b0]
        BY <1>2, <2>1
      <3>2. long'[b] + SumOf(long', b + 1 .. n) + Cardinality(Between(b, n) \ {w})
                <= Refused(n + Slack)
        BY <1>11, <3>1
      <3>3. Between(b, n)' = Between(b, n) \ {w}
        BY <1>9
      <3> QED BY <3>1, <3>2, <3>3
    <2>2. CASE v # w
      <3>1. pc[v] = "sumLong" /\ count'[v] = count[v]
        BY <1>2, <2>2
      <3> QED BY <1>12, <2>2, <3>1
    <2> QED BY <2>1, <2>2
  <1>14. TotalsAreRefusals'
    BY <1>1, <1>2, <1>3 DEF RefusalInv, TotalsAreRefusals
  <1> QED BY <1>8, <1>13, <1>14 DEF RefusalInv


(* What the other steps of a worker have in common. *)
Quiet(w) ==
    /\ UNCHANGED <<long, failed>>
    /\ \A v \in Worker \ {w} : bucket'[v] = bucket[v] /\ count'[v] = count[v]
    /\ \E label \in Label \ {"incrShort", "sumLong"} :
          /\ pc' = [pc EXCEPT ![w] = label]
          /\ label = "sumShort" => pc[w] = "incrShort" /\ bucket'[w] = bucket[w]
          /\ label = "incrLong" => pc[w] \in {"incrShort", "sumShort"} /\ bucket'[w] = 0
          /\ label \in {"setLock", "setBan"} =>
                count'[w] <= Refused(bucket'[w] + BanWindow - 1 + Slack)

LEMMA QuietKeepsRefusals ==
    ASSUME TypeOK, TypeOK', RefusalInv, NEW w \in Worker, Quiet(w)
    PROVE  RefusalInv'
  <1>1. PICK label \in Label \ {"incrShort", "sumLong"} :
            /\ pc' = [pc EXCEPT ![w] = label]
            /\ label = "sumShort" => pc[w] = "incrShort" /\ bucket'[w] = bucket[w]
            /\ label = "incrLong" => pc[w] \in {"incrShort", "sumShort"} /\ bucket'[w] = 0
            /\ label \in {"setLock", "setBan"} =>
                  count'[w] <= Refused(bucket'[w] + BanWindow - 1 + Slack)
    BY DEF Quiet
  <1>2. /\ long' = long /\ failed' = failed /\ pc'[w] = label
        /\ \A v \in Worker \ {w} : /\ pc'[v] = pc[v] /\ bucket'[v] = bucket[v]
                                   /\ count'[v] = count[v]
    BY <1>1 DEF Quiet, TypeOK
  <1>3. \A v \in Worker : bucket[v] \in 0 .. Slack /\ Slack \in Nat
    BY GuardAssumption DEF TypeOK
  <1>4. \A m \in Age : Owed(m)' \subseteq Owed(m)
    <2> SUFFICES ASSUME NEW m \in Age, NEW v \in Owed(m)' PROVE v \in Owed(m)
      OBVIOUS
    <2>1. m \in Int
      BY GuardAssumption DEF Age
    <2> QED BY <1>1, <1>2, <1>3, <2>1 DEF Owed
  <1>5. \A b \in 0 .. Slack, n \in Age : Between(b, n)' \subseteq Between(b, n)
    <2> SUFFICES ASSUME NEW b \in 0 .. Slack, NEW n \in Age, NEW v \in Between(b, n)'
                 PROVE  v \in Between(b, n)
      OBVIOUS
    <2> QED BY <1>1, <1>2, <1>3 DEF Between
  <1>6. \A v \in Worker : pc'[v] = "sumLong" =>
            pc[v] = "sumLong" /\ bucket'[v] = bucket[v] /\ count'[v] = count[v]
    BY <1>1, <1>2
  <1>7. \A a \in Age : long'[a] <= long[a]
    BY <1>2 DEF TypeOK
  <1>8. CountsAreRefusals' /\ ReadsAreRefusals'
    BY <1>2, <1>4, <1>5, <1>6, <1>7, QuietStep
  <1>9. \A n : Refused(n)' = Refused(n)
    BY <1>2 DEF Refused
  <1>10. TotalsAreRefusals'
    <2> SUFFICES ASSUME NEW v \in Worker, NEW b \in 0 .. Slack,
                        pc'[v] \in {"setLock", "setBan"}, bucket'[v] = b
                 PROVE  count'[v] <= Refused(b + BanWindow - 1 + Slack)
      BY <1>9 DEF TotalsAreRefusals
    <2>1. CASE v = w
      BY <1>1, <1>2, <2>1
    <2>2. CASE v # w
      BY <1>2, <2>2 DEF RefusalInv, TotalsAreRefusals
    <2> QED BY <2>1, <2>2
  <1> QED BY <1>8, <1>10 DEF RefusalInv

(* The second read adds the older buckets.                                  *)
LEMMA SumLongIsRefusal ==
    ASSUME TypeOK, RefusalInv, NEW w \in Worker, SumLong(w)
    PROVE  count'[w] <= Refused(bucket[w] + BanWindow - 1 + Slack)
  <1> DEFINE b == bucket[w]
             n == b + BanWindow - 1
  <1>1. /\ b \in 0 .. Slack /\ BanWindow \in Nat \ {0} /\ Slack \in Nat \ {0}
        /\ n \in Age /\ b <= n /\ n + Slack \in Age /\ b + 1 + (BanWindow - 1) - 1 = n
    <2>1. b \in 0 .. Slack
      BY DEF TypeOK
    <2> HIDE DEF b
    <2> QED BY <2>1, GuardAssumption DEF Age
  <1>2. pc[w] = "sumLong" /\ count'[w] = count[w] + Total(long, b + 1, BanWindow - 1)
    BY DEF SumLong, At, TypeOK
  <1>3. Total(long, b + 1, BanWindow - 1) = SumOf(long, b + 1 .. n)
    BY <1>1, TotalIsSum
  <1>4. count[w] + SumOf(long, b + 1 .. n) + Cardinality(Between(b, n)) <= Refused(n + Slack)
    <2> HIDE DEF n
    <2> QED BY <1>1, <1>2 DEF RefusalInv, ReadsAreRefusals
  <1>5. /\ SumOf(long, b + 1 .. n) \in Nat /\ Cardinality(Between(b, n)) \in Nat
        /\ count[w] \in Nat /\ Refused(n + Slack) \in Nat
    <2> HIDE DEF n
    <2>1. count[w] \in Nat
      BY DEF TypeOK
    <2> QED BY <1>1, <2>1, RefusalNumbers
  <1>6. count'[w] <= Refused(n + Slack)
    <2> HIDE DEF n, b
    <2> QED BY <1>2, <1>3, <1>4, <1>5
  <1> QED BY <1>6

LEMMA WorkerIsQuiet ==
    ASSUME TypeOK, TypeOK', RefusalInv, NEW w \in Worker, Step(w) \/ CacheFails(w),
           ~LoginFailed(w), ~IncrLong(w)
    PROVE  Quiet(w)
  <1>1. /\ pc[w] \in Label /\ bucket[w] \in 0 .. Slack /\ count[w] \in Nat
        /\ \A b \in 0 .. Slack : Refused(b + BanWindow - 1 + Slack) \in Nat
        /\ 0 \in 0 .. Slack
    <2>1. \A b \in 0 .. Slack : b + BanWindow - 1 + Slack \in Age
      BY RefusalNumbers
    <2>2. \A n \in Age : Refused(n) \in Nat
      BY RefusalNumbers
    <2>3. pc[w] \in Label /\ bucket[w] \in 0 .. Slack /\ count[w] \in Nat /\ 0 \in 0 .. Slack
      BY GuardAssumption DEF TypeOK
    <2> QED BY <2>1, <2>2, <2>3
  <1>2. {"password", "setLock", "setBan"} \subseteq Label \ {"incrShort", "sumLong"}
    BY DEF Label, Counting
  <1> USE DEF Quiet, Goto, Label, Counting, At
  <1>3. CASE Gate(w) \/ FailExempt(w) \/ SignIn(w)
    BY <1>3 DEF Gate, FailExempt, SignIn, LoggedIn, TrustStaff, LiftBan
  <1>4. CASE IncrShort(w)
    BY <1>1, <1>4 DEF IncrShort, TypeOK
  <1>5. CASE SumShort(w)
    <2>1. /\ UNCHANGED <<long, failed>> /\ pc[w] = "sumShort" /\ Goto(w, "incrLong")
          /\ bucket' = [bucket EXCEPT ![w] = 0] /\ count' = [count EXCEPT ![w] = 0]
      BY ONLY <1>5 DEF SumShort, At
    <2> QED BY <2>1 DEF TypeOK
  <1>6. CASE SumLong(w)
    <2>1. count'[w] <= Refused(bucket[w] + BanWindow - 1 + Slack)
      BY <1>6, SumLongIsRefusal
    <2>2. /\ UNCHANGED <<long, failed, bucket>> /\ Goto(w, "setLock")
          /\ \A v \in Worker \ {w} : count'[v] = count[v]
      BY <1>6 DEF SumLong, TypeOK
    <2> HIDE DEF Label
    <2> QED BY <1>2, <2>1, <2>2
  <1>7. CASE SetLock(w)
    <2>1. /\ UNCHANGED <<long, failed, bucket, count>> /\ Goto(w, "setBan")
          /\ pc[w] = "setLock"
      BY <1>7 DEF SetLock
    <2>2. count[w] <= Refused(bucket[w] + BanWindow - 1 + Slack)
      BY <1>1, <2>1 DEF RefusalInv, TotalsAreRefusals
    <2> QED BY <2>1, <2>2
  <1>8. CASE SetBan(w)
    BY <1>8 DEF SetBan, Forget, TypeOK
  <1>9. CASE CacheFails(w)
    <2>1. UNCHANGED <<long, failed>>
      BY <1>9, OutageMoves
    <2>2. CASE pc[w] = "idle" /\ Goto(w, "password") /\ UNCHANGED <<bucket, count, locks>>
      <3>1. \A v \in Worker \ {w} : bucket'[v] = bucket[v] /\ count'[v] = count[v]
        BY <2>2
      <3>2. "password" \notin {"sumShort", "incrLong", "setLock", "setBan"}
        OBVIOUS
      <3> HIDE DEF Label
      <3> QED BY <1>2, <2>1, <2>2, <3>1, <3>2
    <2>3. CASE /\ pc[w] \in {"incrShort", "sumShort"} /\ Goto(w, "incrLong")
               /\ count' = [count EXCEPT ![w] = 0] /\ bucket' = [bucket EXCEPT ![w] = 0]
      BY <2>1, <2>3 DEF TypeOK
    <2>4. CASE /\ pc[w] \in {"incrLong", "sumLong"} /\ Goto(w, "setLock")
               /\ count' = [count EXCEPT ![w] = 0] /\ UNCHANGED bucket
      <3>1. count'[w] = 0 /\ \A v \in Worker \ {w} : count'[v] = count[v]
        BY <2>4 DEF TypeOK
      <3>2. Refused(bucket[w] + BanWindow - 1 + Slack) \in Nat
        BY <1>1
      <3>3. count'[w] <= Refused(bucket'[w] + BanWindow - 1 + Slack)
        BY <2>4, <3>1, <3>2
      <3>4. pc' = [pc EXCEPT ![w] = "setLock"] /\ bucket' = bucket
        BY <2>4
      <3> HIDE DEF Label
      <3> QED BY <1>2, <2>1, <3>1, <3>3, <3>4
    <2>5. CASE pc[w] = "setLock" /\ Forget(w)
      BY <2>1, <2>5 DEF Forget, TypeOK
    <2> QED BY <1>9, <2>2, <2>3, <2>4, <2>5, OutageMoves
  <1> QED BY <1>3, <1>4, <1>5, <1>6, <1>7, <1>8, <1>9 DEF Step, Failure


(* A minute later everything is a minute older. *)
LEMMA TickKeepsRefusals ==
    ASSUME TypeOK, TypeOK', RefusalInv, Tick
    PROVE  RefusalInv'
  <1>1. /\ long' = Shifted(long) /\ failed' = Shifted(failed) /\ UNCHANGED <<pc, count>>
        /\ \A w \in Worker : pc[w] \in Counting => bucket'[w] = bucket[w] + 1
    BY DEF Tick, TypeOK
  <1>2. /\ long \in Counter /\ failed \in Counter
        /\ \A w \in Worker : bucket[w] \in 0 .. Slack
    BY DEF TypeOK, Counter
  <1>3. /\ BanWindow \in Nat \ {0} /\ Slack \in Nat \ {0}
        /\ \A n \in Age : n \in Nat /\ (n # 0 => n - 1 \in Age)
    BY GuardAssumption DEF Age
  <1>4. \A n \in Age : SumOf(failed', 0 .. n) = Refused(n - 1)
    BY <1>1, <1>2, ShiftedSum DEF Refused
  <1>5. \A m \in Int : Owed(m)' = Owed(m - 1)
    <2> SUFFICES ASSUME NEW m \in Int, NEW w \in Worker
                 PROVE  /\ pc[w] \in {"incrShort", "sumShort"} =>
                               (bucket'[w] <= m <=> bucket[w] <= m - 1)
                        /\ pc[w] = "incrLong" =>
                               (bucket'[w] + Slack <= m <=> bucket[w] + Slack <= m - 1)
      BY <1>1 DEF Owed
    <2> QED BY <1>1, <1>2, <1>3 DEF Counting
  <1>6. \A b, n \in Int : Between(b, n)' = Between(b - 1, n - 1)
    <2> SUFFICES ASSUME NEW b \in Int, NEW n \in Int, NEW w \in Worker
                 PROVE  pc[w] = "incrLong" =>
                            (/\ b < bucket'[w] <=> b - 1 < bucket[w]
                             /\ bucket'[w] <= n <=> bucket[w] <= n - 1)
      BY <1>1 DEF Between
    <2> QED BY <1>1, <1>2, <1>3 DEF Counting
  <1>7. CountsAreRefusals'
    <2> SUFFICES ASSUME NEW m \in Age
                 PROVE  SumOf(long', 0 .. m - Slack) + Cardinality(Owed(m - 1))
                            <= Refused(m - 1)
      BY <1>3, <1>4, <1>5 DEF CountsAreRefusals, Refused
    <2>1. m \in Nat
      BY <1>3
    <2>2. SumOf(long', 0 .. m - Slack) = SumOf(long, 0 .. (m - 1) - Slack)
      <3>1. CASE m - Slack < 0
        <4>1. 0 .. m - Slack = {} /\ 0 .. (m - 1) - Slack = {}
          BY <1>3, <2>1, <3>1
        <4> QED BY <4>1, SumEmpty
      <3>2. CASE m - Slack >= 0
        <4>1. m - Slack \in Age /\ (m - Slack) - 1 = (m - 1) - Slack
          BY <1>3, <2>1, <3>2 DEF Age
        <4> QED BY <1>1, <1>2, <4>1, ShiftedSum
      <3> QED BY <1>3, <2>1, <3>1, <3>2
    <2>3. CASE m = 0
      <3>1. 0 .. (m - 1) - Slack = {}
        BY <1>3, <2>3
      <3>2. Owed(m - 1) = {}
        BY <1>2, <1>3, <2>3 DEF Owed
      <3>3. 0 .. m - 1 = {}
        BY <2>3
      <3>4. SumOf(long', 0 .. m - Slack) = 0
        BY <2>2, <3>1, SumEmpty
      <3>5. Refused(m - 1) = 0
        BY <3>3, SumEmpty DEF Refused
      <3>6. Cardinality(Owed(m - 1)) = 0
        BY <3>2, FS_EmptySet
      <3> QED BY <3>4, <3>5, <3>6
    <2>4. CASE m # 0
      <3>1. m - 1 \in Age
        BY <1>3, <2>4
      <3> QED BY <2>2, <3>1 DEF RefusalInv, CountsAreRefusals
    <2> QED BY <2>3, <2>4
  <1>8. ReadsAreRefusals'
    <2> SUFFICES ASSUME NEW w \in Worker, NEW b \in 0 .. Slack, NEW n \in Age,
                        pc[w] = "sumLong", bucket'[w] = b, b <= n, n + Slack \in Age
                 PROVE  count[w] + SumOf(long', b + 1 .. n) + Cardinality(Between(b, n)')
                            <= Refused((n + Slack) - 1)
      BY <1>1, <1>4 DEF ReadsAreRefusals, Refused
    <2>1. /\ bucket[w] = b - 1 /\ b - 1 \in 0 .. Slack /\ b \in Int /\ n \in Int
          /\ n - 1 \in Age /\ b \in Age /\ b - 1 <= n - 1
          /\ (n - 1) + Slack \in Age /\ (n - 1) + Slack = (n + Slack) - 1
          /\ (b - 1) + 1 = b
      <3>1. b = bucket[w] + 1
        BY <1>1 DEF Counting
      <3> QED BY <1>2, <1>3, <3>1 DEF Age
    <2>2. SumOf(long', b + 1 .. n) = SumOf(long, b .. n - 1)
      BY <1>1, <1>2, <2>1, ShiftedSum
    <2>3. Between(b, n)' = Between(b - 1, n - 1)
      BY <1>6, <2>1
    <2> DEFINE b1 == b - 1
               n1 == n - 1
    <2>4. count[w] + SumOf(long, b1 + 1 .. n1) + Cardinality(Between(b1, n1))
              <= Refused(n1 + Slack)
      <3>1. /\ pc[w] = "sumLong" /\ bucket[w] = b1 /\ b1 \in 0 .. Slack /\ n1 \in Age
            /\ b1 <= n1 /\ n1 + Slack \in Age
        BY <2>1
      <3> HIDE DEF b1, n1
      <3> QED BY <3>1 DEF RefusalInv, ReadsAreRefusals
    <2> QED BY <2>1, <2>2, <2>3, <2>4
  <1>9. TotalsAreRefusals'
    <2> SUFFICES ASSUME NEW w \in Worker, NEW b \in 0 .. Slack,
                        pc[w] \in {"setLock", "setBan"}, bucket'[w] = b
                 PROVE  count[w] <= Refused((b + BanWindow - 1 + Slack) - 1)
      <3>1. \A b \in 0 .. Slack : Refused(b + BanWindow - 1 + Slack)' =
                                      Refused((b + BanWindow - 1 + Slack) - 1)
        BY <1>4, RefusalNumbers DEF Refused
      <3> QED BY <1>1, <3>1 DEF TotalsAreRefusals
    <2>1. /\ bucket[w] = b - 1 /\ b - 1 \in 0 .. Slack
          /\ (b - 1) + BanWindow - 1 + Slack = (b + BanWindow - 1 + Slack) - 1
      <3>1. b = bucket[w] + 1
        BY <1>1 DEF Counting
      <3> QED BY <1>2, <1>3, <3>1
    <2> QED BY <2>1 DEF RefusalInv, TotalsAreRefusals
  <1> QED BY <1>7, <1>8, <1>9 DEF RefusalInv

LEMMA StepKeepsRefusals ==
    ASSUME TypeOK, TypeOK', RefusalInv, [Next]_vars
    PROVE  RefusalInv'
  <1>1. ASSUME NEW w \in Worker, Step(w) \/ CacheFails(w) PROVE RefusalInv'
    <2>1. CASE LoginFailed(w)
      BY <2>1, LoginFailedIsRefusal
    <2>2. CASE IncrLong(w)
      BY <2>2, IncrLongIsRefusal
    <2>3. CASE ~LoginFailed(w) /\ ~IncrLong(w)
      BY <1>1, <2>3, WorkerIsQuiet, QuietKeepsRefusals
    <2> QED BY <2>1, <2>2, <2>3
  <1>2. CASE Evict \/ TrustEnds \/ LockExpires \/ BanExpires \/ UNCHANGED vars
    <2>1. UNCHANGED <<failed, pc, bucket, count>>
      BY <1>2 DEF Evict, TrustEnds, LockExpires, BanExpires, vars
    <2>2. \A a \in Age : long'[a] <= long[a]
      <3>1. long' = long \/ \E b \in Age : long' = [long EXCEPT ![b] = 0]
        BY <1>2 DEF Evict, TrustEnds, LockExpires, BanExpires, vars
      <3> QED BY <3>1 DEF TypeOK
    <2>3. /\ \A m : Owed(m)' = Owed(m)
          /\ \A b, n : Between(b, n)' = Between(b, n)
          /\ \A n : Refused(n)' = Refused(n)
      BY <2>1 DEF Owed, Between, Refused
    <2>4. CountsAreRefusals' /\ ReadsAreRefusals'
      BY <2>1, <2>2, <2>3, QuietStep
    <2>5. TotalsAreRefusals'
      BY <2>1, <2>3 DEF RefusalInv, TotalsAreRefusals
    <2> QED BY <2>4, <2>5 DEF RefusalInv
  <1>3. CASE Tick
    BY <1>3, TickKeepsRefusals
  <1> QED BY <1>1, <1>2, <1>3 DEF Next

LEMMA InitRefusals == Init => RefusalInv
  <1> SUFFICES ASSUME Init PROVE RefusalInv
    OBVIOUS
  <1>1. TypeOK /\ long = Nothing /\ \A w \in Worker : pc[w] = "idle"
    BY InitTypes DEF Init
  <1>2. \A m : Owed(m) = {}
    BY <1>1 DEF Owed
  <1>3. \A m \in Age : SumOf(long, 0 .. m - Slack) = 0 /\ Refused(m) \in Nat
    <2> SUFFICES ASSUME NEW m \in Age PROVE SumOf(long, 0 .. m - Slack) = 0
      BY <1>1, RefusalNumbers
    <2>1. 0 .. m - Slack \subseteq Age
      BY GuardAssumption DEF Age
    <2>2. \A a \in 0 .. m - Slack : long[a] = 0
      BY <1>1, <2>1 DEF Nothing
    <2>3. IsFiniteSet(0 .. m - Slack)
      BY <2>1, AgesAreKept, FS_Subset
    <2> QED BY <2>2, <2>3, SumZero
  <1>4. CountsAreRefusals
    <2>1. \A m : Cardinality(Owed(m)) = 0
      BY <1>2, FS_EmptySet
    <2> QED BY <1>3, <2>1 DEF CountsAreRefusals
  <1> QED BY <1>1, <1>4 DEF RefusalInv, ReadsAreRefusals, TotalsAreRefusals

(* A ban is written on a total that BanCount refused passwords stand for.   *)
LEMMA BanIsRefusals ==
    ASSUME TypeOK, TypeOK', RefusalInv, [Next]_vars, ban = 0, ban' > 0
    PROVE  FoldFunction(+, 0, failed) >= BanCount
  <1>1. PICK w \in Worker : SetBan(w)
    <2>1. ~UNCHANGED ban
      OBVIOUS
    <2>2. ASSUME NEW w \in Worker, Elsewhere(w) \/ LiftBan(w) PROVE FALSE
      <3>1. Elsewhere(w) => UNCHANGED ban
        BY OutageMoves DEF Elsewhere, Gate, LoggedIn, TrustStaff, FailExempt, LoginFailed,
                           IncrShort, SumShort, IncrLong, SumLong, SetLock
      <3> QED BY <2>1, <2>2, <3>1 DEF LiftBan
    <2>3. ~Tick /\ ~BanExpires
      BY DEF Tick, Minus1, BanExpires
    <2>4. ~(Evict \/ TrustEnds \/ LockExpires \/ UNCHANGED vars)
      BY <2>1, AroundMoves
    <2> QED BY <2>2, <2>3, <2>4 DEF Next, Step, SignIn, Failure, Elsewhere
  <1>2. pc[w] = "setBan" /\ count[w] >= BanCount
    BY <1>1 DEF SetBan, At, BanDue
  <1> DEFINE n == bucket[w] + BanWindow - 1 + Slack
  <1>3. bucket[w] \in 0 .. Slack /\ count[w] \in Nat /\ failed \in Counter
          /\ BanCount \in Nat
    BY GuardAssumption DEF TypeOK, Counter
  <1>4. count[w] <= Refused(n)
    BY <1>2, <1>3 DEF RefusalInv, TotalsAreRefusals
  <1>5. n \in Age /\ 0 .. n \in SUBSET Age /\ Refused(n) \in Nat
    <2>1. n \in Age
      BY <1>3, RefusalNumbers
    <2> HIDE DEF n
    <2> QED BY <2>1, RefusalNumbers
  <1>6. Refused(n) <= SumOf(failed, Age) /\ SumOf(failed, Age) \in Nat
    <2>1. Counts(failed, Age) /\ IsFiniteSet(Age) /\ SumOf(failed, Age) \in Nat
      BY <1>3, CounterIsTyped
    <2> HIDE DEF n
    <2> QED BY <1>5, <2>1, SumMonotone DEF Refused
  <1>7. FoldFunction(+, 0, failed) = SumOf(failed, Age)
    <2>1. DOMAIN failed = Age
      BY <1>3 DEF Counter
    <2> QED BY <2>1 DEF FoldFunction, SumOf
  <1> DEFINE low == Refused(n)
             all == SumOf(failed, Age)
             due == count[w]
  <1>8. due >= BanCount /\ due <= low /\ low <= all /\ due \in Nat /\ low \in Nat
          /\ all \in Nat /\ BanCount \in Nat
    BY <1>2, <1>3, <1>4, <1>5, <1>6
  <1> HIDE DEF low, all, due
  <1>9. all >= BanCount
    BY <1>8
  <1> QED BY <1>7, <1>9 DEF all

(* "An outage cannot ban anyone": whatever the cache loses or refuses and   *)
(* however the counts of concurrent failures interleave, a ban is written   *)
(* only when BanCount passwords really were refused lately.                 *)
THEOREM BansHaveEvidence == Spec => BanHasEvidence
  <1>1. TypeOK /\ TypeOK' /\ RefusalInv /\ [Next]_vars =>
            [ban = 0 /\ ban' > 0 => FoldFunction(+, 0, failed) >= BanCount]_vars
    BY BanIsRefusals
  <1>2. TypeOK /\ TypeOK' /\ RefusalInv /\ [Next]_vars => RefusalInv'
    BY StepKeepsRefusals
  <1> QED BY <1>1, <1>2, InitRefusals, GuardTypes, PTL DEF Spec, BanHasEvidence


-----------------------------------------------------------------------------
(* The bound on guesses *)

(* Failures about to be counted in the short counter's bucket of age a.     *)
Entering(a) == {w \in Worker : pc[w] = "incrShort" /\ bucket[w] = a}

(* What was refused in the other buckets of the window that ends at age a.  *)
Earlier(a) == SumOf(failed, (a + 1 .. a + LockWindow - 1) \cap Age)

(* How far the bucket of age a can be counted up by workers that do not     *)
(* reach the threshold: each of them saw all of its window but the failures *)
(* the other requests were still to count.                                  *)
Spare == LockCount + Cardinality(Worker) - 2
Room(a) == IF Earlier(a) <= Spare THEN Spare - Earlier(a) ELSE 0

(* The counts above that: whoever reads one of them locks.                  *)
Excess == [a \in Age |-> IF short[a] > Room(a) THEN short[a] - Room(a) ELSE 0]
Loose(w) == count[w] > Room(bucket[w])

(* The workers that hold such a count and have not locked yet.              *)
Locking == {w \in Worker : \/ pc[w] = "sumShort" /\ Loose(w)
                           \/ pc[w] \in {"incrLong", "sumLong", "setLock"} /\ locks[w]}

(* The requests past the gate whose password may still be refused.          *)
Admitted == {w \in Worker : pc[w] \in {"password", "counted"}}

FailuresAreCounted ==
    \A a \in Age : failed[a] = short[a] + Cardinality(Entering(a))

(* Each excess count is about to lock, or older than the lock it led to.    *)
ExcessLocks ==
    \A m \in 0 .. LockWindow - 1 :
        m + lock <= LockMinutes => SumOf(Excess, 0 .. m) <= Cardinality(Locking)

(* Under a lock only those past the gate go on.                             *)
LockHolds ==
    lock > 0 => SumOf(failed, 0 .. LockWindow - 1) + Cardinality(Admitted)
                    <= Spare + Cardinality(Worker)

GuessParts == FailuresAreCounted /\ ExcessLocks /\ LockHolds
GuessInv == undisturbed => GuessParts

LEMMA GuessNumbers ==
    ASSUME TypeOK
    PROVE  /\ Spare \in Nat /\ Cardinality(Worker) \in Nat \ {0} /\ IsFiniteSet(Worker)
           /\ Spare = LockCount + Cardinality(Worker) - 2
           /\ \A a : Earlier(a) \in Nat /\ Room(a) \in Nat
           /\ short \in Counter /\ failed \in Counter /\ Excess \in Counter
           /\ IsFiniteSet(Locking) /\ Cardinality(Locking) \in Nat
           /\ IsFiniteSet(Admitted) /\ Cardinality(Admitted) \in Nat
           /\ \A a : IsFiniteSet(Entering(a)) /\ Cardinality(Entering(a)) \in Nat
  <1>1. Cardinality(Worker) \in Nat \ {0} /\ IsFiniteSet(Worker)
    BY WorkerAssumption, FS_EmptySet, FS_CardinalityType
  <1>2. Spare \in Nat /\ LockCount \in Nat \ {0}
    BY <1>1, GuardAssumption DEF Spare
  <1>3. short \in Counter /\ failed \in Counter
    BY DEF TypeOK, Counter
  <1>4. \A a : Earlier(a) \in Nat
    BY <1>3, CounterIsTyped DEF Earlier
  <1>5. \A a : Room(a) \in Nat
    BY <1>2, <1>4 DEF Room
  <1>6. Excess \in Counter
    <2>1. ASSUME NEW a \in Age
          PROVE  (IF short[a] > Room(a) THEN short[a] - Room(a) ELSE 0) \in Nat
      <3>1. short[a] \in Nat /\ Room(a) \in Nat
        BY <1>3, <1>5 DEF Counter
      <3> QED BY <3>1
    <2> QED BY <2>1 DEF Excess, Counter
  <1>7. IsFiniteSet(Locking) /\ IsFiniteSet(Admitted) /\ \A a : IsFiniteSet(Entering(a))
    BY <1>1, FS_Subset DEF Locking, Admitted, Entering
  <1> QED BY <1>1, <1>2, <1>3, <1>4, <1>5, <1>6, <1>7, FS_CardinalityType DEF Spare

(* What was refused is what is counted and what is about to be.             *)
LEMMA RefusedIsCounted ==
    ASSUME TypeOK, FailuresAreCounted, NEW S \in SUBSET Age
    PROVE  LET rest == {w \in Worker : pc[w] = "incrShort" /\ bucket[w] \in S}
           IN  /\ SumOf(failed, S) = SumOf(short, S) + Cardinality(rest)
               /\ IsFiniteSet(rest) /\ Cardinality(rest) \in Nat
               /\ SumOf(short, S) \in Nat /\ SumOf(failed, S) \in Nat
  <1> DEFINE X == {w \in Worker : pc[w] = "incrShort"}
             sizes == [a \in Age |-> Cardinality(ClassOf(X, bucket, a))]
             rest == ClassesIn(X, bucket, S)
  <1>1. \A a \in Age : ClassOf(X, bucket, a) = Entering(a)
    BY DEF Entering, ClassOf
  <1>2. sizes \in Counter /\ short \in Counter /\ failed \in Counter
    BY <1>1, GuessNumbers DEF Counter
  <1>3. IsFiniteSet(S) /\ IsFiniteSet(X) /\ IsFiniteSet(rest)
    BY AgesAreKept, WorkerAssumption, FS_Subset DEF ClassesIn
  <1>4. Counts(short, S) /\ Counts(sizes, S) /\ SumOf(short, S) \in Nat
          /\ SumOf(failed, S) \in Nat
    <2> HIDE DEF sizes
    <2> QED BY <1>2, CounterIsTyped
  <1>5. \A a \in S : failed[a] = short[a] + sizes[a]
    BY <1>1 DEF FailuresAreCounted
  <1>6. \A a \in S : sizes[a] = Cardinality(ClassOf(X, bucket, a))
    OBVIOUS
  <1> HIDE DEF sizes, X
  <1>7. SumOf(failed, S) = SumOf(short, S) + SumOf(sizes, S)
    BY <1>3, <1>4, <1>5, SumPlus
  <1>8. SumOf(sizes, S) = Cardinality(rest)
    BY <1>3, <1>6, SumOfClasses
  <1>9. rest = {w \in Worker : pc[w] = "incrShort" /\ bucket[w] \in S}
    BY DEF X, ClassesIn
  <1>10. Cardinality(rest) \in Nat
    BY <1>3, FS_CardinalityType
  <1> HIDE DEF rest
  <1> QED BY <1>3, <1>4, <1>7, <1>8, <1>9, <1>10

(* A worker with an excess count locks when it has added up its window.     *)
LEMMA LooseLocks ==
    ASSUME TypeOK, FailuresAreCounted, NEW w \in Worker, SumShort(w), Loose(w)
    PROVE  locks'[w] = TRUE
  <1> DEFINE b == bucket[w]
             S == b + 1 .. b + LockWindow - 1
             rest == {v \in Worker : pc[v] = "incrShort" /\ bucket[v] \in S}
  <1>1. /\ b \in 0 .. Slack /\ count[w] \in Nat /\ LockWindow \in Nat \ {0}
        /\ LockCount \in Nat \ {0} /\ S \in SUBSET Age
        /\ b + 1 + (LockWindow - 1) - 1 = b + LockWindow - 1
    <2>1. b \in 0 .. Slack /\ count[w] \in Nat
      BY DEF TypeOK
    <2>2. LockWindow \in Nat \ {0} /\ LockCount \in Nat \ {0} /\ Slack \in Nat
      BY GuardAssumption
    <2> HIDE DEF b
    <2> QED BY <2>1, <2>2, AgesAreKept
  <1>2. Total(short, b + 1, LockWindow - 1) = SumOf(short, S)
    BY <1>1, TotalIsSum
  <1>3. locks'[w] = (count[w] + SumOf(short, S) >= LockCount) /\ pc[w] = "sumShort"
    BY <1>2 DEF SumShort, At, TypeOK
  <1>4. Earlier(b) = SumOf(short, S) + Cardinality(rest) /\ SumOf(short, S) \in Nat
          /\ IsFiniteSet(rest) /\ Cardinality(rest) \in Nat
    <2>1. S \cap Age = S
      BY <1>1
    <2>2. Earlier(b) = SumOf(failed, S)
      BY <2>1 DEF Earlier
    <2> HIDE DEF S
    <2> QED BY <1>1, <2>2, RefusedIsCounted
  <1>5. Cardinality(rest) <= Cardinality(Worker) - 1
    <2>1. rest \subseteq Worker \ {w}
      BY <1>3
    <2> HIDE DEF rest
    <2>2. /\ IsFiniteSet(Worker \ {w})
          /\ Cardinality(Worker \ {w}) = Cardinality(Worker) - 1
      BY WorkerAssumption, FS_RemoveElement
    <2> QED BY <2>1, <2>2, FS_Subset
  <1>6. count[w] > Room(b) /\ Room(b) = IF Earlier(b) <= Spare THEN Spare - Earlier(b) ELSE 0
    BY DEF Loose, Room
  <1>7. Spare = LockCount + Cardinality(Worker) - 2 /\ Cardinality(Worker) \in Nat
    BY GuessNumbers
  <1> DEFINE sum == SumOf(short, S)
             more == Cardinality(rest)
             all == Cardinality(Worker)
             own == count[w]
             before == Earlier(b)
             room == Room(b)
  <1>8. /\ own \in Nat /\ sum \in Nat /\ more \in Nat /\ all \in Nat
        /\ before = sum + more /\ more <= all - 1 /\ own > room
        /\ room = (IF before <= Spare THEN Spare - before ELSE 0)
        /\ Spare = LockCount + all - 2
    BY <1>1, <1>4, <1>5, <1>6, <1>7
  <1> HIDE DEF sum, more, all, own, before, room
  <1>9. own + sum >= LockCount
    BY <1>1, <1>8
  <1> QED BY <1>3, <1>9 DEF own, sum


LEMMA ThreeParts ==
    ASSUME NEW S, IsFiniteSet(S), NEW A \in SUBSET S, NEW B \in SUBSET S, NEW C \in SUBSET S,
           A \cap B = {}, A \cap C = {}, B \cap C = {}
    PROVE  Cardinality(A) + Cardinality(B) + Cardinality(C) <= Cardinality(S)
  <1>1. IsFiniteSet(A) /\ IsFiniteSet(B) /\ IsFiniteSet(C)
    BY FS_Subset
  <1>2. IsFiniteSet(A \cup B) /\ Cardinality(A \cup B) = Cardinality(A) + Cardinality(B)
    <2>1. Cardinality(A \cup B) = Cardinality(A) + Cardinality(B) - Cardinality(A \cap B)
            /\ IsFiniteSet(A \cup B)
      BY <1>1, FS_Union
    <2>2. Cardinality(A \cap B) = 0
      BY FS_EmptySet
    <2> QED BY <1>1, <2>1, <2>2, FS_CardinalityType
  <1>3. Cardinality((A \cup B) \cup C) = Cardinality(A \cup B) + Cardinality(C)
    <2>1. Cardinality((A \cup B) \cup C) =
              Cardinality(A \cup B) + Cardinality(C) - Cardinality((A \cup B) \cap C)
      BY <1>1, <1>2, FS_Union
    <2>2. (A \cup B) \cap C = {}
      OBVIOUS
    <2>3. Cardinality((A \cup B) \cap C) = 0
      BY <2>2, FS_EmptySet
    <2> QED BY <1>1, <1>2, <2>1, <2>3, FS_CardinalityType
  <1>4. Cardinality((A \cup B) \cup C) <= Cardinality(S)
    <2>1. (A \cup B) \cup C \subseteq S
      OBVIOUS
    <2> QED BY <2>1, FS_Subset
  <1> QED BY <1>2, <1>3, <1>4

(* Up to the newest bucket that still has room, every count is an excess,   *)
(* and all that the others of its window hold is no more than Spare.        *)
LEMMA RoomBoundsCounts ==
    ASSUME TypeOK, FailuresAreCounted, NEW k \in 0 .. LockWindow - 1, short[k] > Excess[k],
           \A a \in 0 .. k - 1 : short[a] <= Excess[a]
    PROVE  \E S \in SUBSET Age :
              SumOf(failed, 0 .. LockWindow - 1)
                  <= SumOf(Excess, 0 .. k) + Spare
                     + Cardinality({w \in Worker : pc[w] = "incrShort" /\ bucket[w] \in S})
  <1> DEFINE S == 0 .. k
             T == k + 1 .. LockWindow - 1
             rest == {w \in Worker : pc[w] = "incrShort" /\ bucket[w] \in S}
  <1>1. /\ short \in Counter /\ failed \in Counter /\ Excess \in Counter
        /\ Spare \in Nat /\ Earlier(k) \in Nat /\ Room(k) \in Nat
    BY GuessNumbers
  <1>2. /\ S \in SUBSET Age /\ T \in SUBSET Age /\ 0 .. LockWindow - 1 \in SUBSET Age
        /\ k \in S /\ k \in Age /\ k \in Int
        /\ T \subseteq (k + 1 .. k + LockWindow - 1) \cap Age
        /\ S \ {k} = 0 .. k - 1
    <2>1. 0 .. LockWindow - 1 \in SUBSET Age /\ LockWindow \in Nat
      BY AgesAreKept, GuardAssumption
    <2>2. T \subseteq 0 .. LockWindow - 1 /\ S \subseteq 0 .. LockWindow - 1
            /\ T \subseteq k + 1 .. k + LockWindow - 1 /\ S \ {k} = 0 .. k - 1
            /\ k \in S /\ k \in Int
      BY <2>1
    <2> HIDE DEF S, T
    <2> QED BY <2>1, <2>2
  <1>3. SumOf(failed, 0 .. LockWindow - 1) = SumOf(failed, S) + SumOf(failed, T)
    <2>1. Counts(failed, 0 .. LockWindow - 1)
      BY <1>1, <1>2, CounterIsTyped
    <2>2. 0 <= k + 1 /\ k <= LockWindow - 1 /\ LockWindow - 1 \in Int
      BY GuardAssumption
    <2> QED BY <1>2, <2>1, <2>2, SumSplitsAt
  <1> HIDE DEF S, T
  <1>4. SumOf(failed, T) <= Earlier(k)
    <2> DEFINE U == (k + 1 .. k + LockWindow - 1) \cap Age
    <2>1. Counts(failed, U) /\ IsFiniteSet(U) /\ T \subseteq U
      BY <1>1, <1>2, CounterIsTyped
    <2> HIDE DEF U
    <2>2. SumOf(failed, T) <= SumOf(failed, U)
      BY <2>1, SumMonotone
    <2> QED BY <2>2 DEF U, Earlier
  <1>5. /\ SumOf(failed, S) = SumOf(short, S) + Cardinality(rest)
        /\ Cardinality(rest) \in Nat
    BY <1>2, RefusedIsCounted
  <1> HIDE DEF rest
  <1>6. short[k] <= Excess[k] + Room(k) /\ Room(k) + Earlier(k) = Spare
          /\ short[k] \in Nat /\ Excess[k] \in Nat
    <2>1. Excess[k] = IF short[k] > Room(k) THEN short[k] - Room(k) ELSE 0
      BY <1>2 DEF Excess
    <2>2. short[k] \in Nat
      BY <1>1, <1>2 DEF Counter
    <2>3. Room(k) > 0
      BY <1>1, <2>1, <2>2
    <2>4. Room(k) = IF Earlier(k) <= Spare THEN Spare - Earlier(k) ELSE 0
      BY DEF Room
    <2> QED BY <1>1, <2>1, <2>2, <2>3, <2>4
  <1>7. /\ SumOf(short, S) = short[k] + SumOf(short, S \ {k})
        /\ SumOf(Excess, S) = Excess[k] + SumOf(Excess, S \ {k})
    <2>1. Counts(short, S) /\ Counts(Excess, S) /\ IsFiniteSet(S) /\ k \in S
      BY <1>1, <1>2, CounterIsTyped
    <2> QED BY <2>1, SumRemove
  <1>8. SumOf(short, S \ {k}) <= SumOf(Excess, S \ {k})
    <2>1. /\ S \ {k} \in SUBSET Age /\ \A a \in S \ {k} : short[a] <= Excess[a]
      BY <1>2
    <2>2. Counts(short, S \ {k}) /\ Counts(Excess, S \ {k}) /\ IsFiniteSet(S \ {k})
      BY <1>1, <2>1, CounterIsTyped
    <2> QED BY <2>1, <2>2, SumPointwise
  <1>9. /\ SumOf(short, S \ {k}) \in Nat /\ SumOf(Excess, S \ {k}) \in Nat
        /\ SumOf(failed, S) \in Nat /\ SumOf(failed, T) \in Nat
    <2>1. S \ {k} \in SUBSET Age
      BY <1>2
    <2> QED BY <1>1, <1>2, <2>1, CounterIsTyped
  <1>10. SumOf(failed, 0 .. LockWindow - 1) <= SumOf(Excess, S) + Spare + Cardinality(rest)
    <2> DEFINE counted == SumOf(short, S \ {k})
               excess == SumOf(Excess, S \ {k})
               recent == SumOf(failed, S)
               older == SumOf(failed, T)
               entering == Cardinality(rest)
               before == Earlier(k)
    <2>1. /\ counted \in Nat /\ excess \in Nat /\ recent \in Nat /\ older \in Nat
          /\ entering \in Nat /\ before \in Nat /\ counted <= excess /\ older <= before
          /\ recent = (short[k] + counted) + entering
      BY <1>1, <1>4, <1>5, <1>7, <1>8, <1>9
    <2>2. SumOf(failed, 0 .. LockWindow - 1) = recent + older
            /\ SumOf(Excess, S) = Excess[k] + excess
      BY <1>3, <1>7
    <2> HIDE DEF counted, excess, recent, older, entering, before
    <2>3. recent + older <= (Excess[k] + excess) + Spare + entering
      <3>1. short[k] <= Excess[k] + Room(k) /\ Room(k) + before = Spare
              /\ short[k] \in Nat /\ Excess[k] \in Nat /\ Room(k) \in Nat
        BY <1>1, <1>6 DEF before
      <3> QED BY <1>1, <2>1, <3>1
    <2> QED BY <2>2, <2>3 DEF entering
  <1> QED BY <1>2, <1>10 DEF S, rest

(* Without a lock, the bound follows from who is about to lock.             *)
LEMMA OpenIsBounded ==
    ASSUME TypeOK, FailuresAreCounted, ExcessLocks, lock = 0
    PROVE  SumOf(failed, 0 .. LockWindow - 1) + Cardinality(Admitted)
               <= Spare + Cardinality(Worker)
  <1> DEFINE Rest(S) == {w \in Worker : pc[w] = "incrShort" /\ bucket[w] \in S}
             all == 0 .. LockWindow - 1
  <1>1. /\ short \in Counter /\ failed \in Counter /\ Excess \in Counter /\ Spare \in Nat
        /\ Cardinality(Locking) \in Nat /\ Cardinality(Admitted) \in Nat
        /\ Cardinality(Worker) \in Nat /\ IsFiniteSet(Worker)
    BY GuessNumbers
  <1>2. all \in SUBSET Age /\ IsFiniteSet(all) /\ all \subseteq Nat
          /\ SumOf(failed, all) \in Nat
    <2>1. all \in SUBSET Age /\ all \subseteq Nat
      BY AgesAreKept
    <2> QED BY <1>1, <2>1, CounterIsTyped
  <1>3. \A S : Cardinality(Rest(S)) + Cardinality(Locking) + Cardinality(Admitted)
                   <= Cardinality(Worker) /\ Cardinality(Rest(S)) \in Nat
    <2> SUFFICES ASSUME NEW S
                 PROVE  Cardinality(Rest(S)) + Cardinality(Locking) + Cardinality(Admitted)
                            <= Cardinality(Worker) /\ Cardinality(Rest(S)) \in Nat
      OBVIOUS
    <2>1. /\ Rest(S) \in SUBSET Worker /\ Locking \in SUBSET Worker
          /\ Admitted \in SUBSET Worker
          /\ Rest(S) \cap Locking = {} /\ Rest(S) \cap Admitted = {}
          /\ Locking \cap Admitted = {}
      BY DEF Locking, Admitted
    <2> HIDE DEF Rest
    <2> QED BY <1>1, <2>1, ThreeParts, FS_Subset, FS_CardinalityType
  <1>4. \A m \in all : SumOf(Excess, 0 .. m) <= Cardinality(Locking)
                         /\ SumOf(Excess, 0 .. m) \in Nat
    <2> SUFFICES ASSUME NEW m \in all
                 PROVE  SumOf(Excess, 0 .. m) <= Cardinality(Locking)
                          /\ SumOf(Excess, 0 .. m) \in Nat
      OBVIOUS
    <2>1. m + lock <= LockMinutes /\ 0 .. m \subseteq all
      BY GuardAssumption
    <2>2. 0 .. m \in SUBSET Age
      BY <1>2, <2>1
    <2> QED BY <1>1, <2>1, <2>2, CounterIsTyped DEF ExcessLocks
  <1>5. CASE \A a \in all : short[a] <= Excess[a]
    <2>1. SumOf(short, all) <= SumOf(Excess, all)
      <3>1. Counts(short, all) /\ Counts(Excess, all)
        BY <1>1, <1>2, CounterIsTyped
      <3> QED BY <1>2, <1>5, <3>1, SumPointwise
    <2>2. SumOf(failed, all) = SumOf(short, all) + Cardinality(Rest(all))
            /\ SumOf(short, all) \in Nat
      BY <1>2, RefusedIsCounted
    <2>3. SumOf(Excess, all) <= Cardinality(Locking) /\ SumOf(Excess, all) \in Nat
      <3>1. LockWindow - 1 \in all
        BY GuardAssumption
      <3> QED BY <1>4, <3>1
    <2>4. Cardinality(Rest(all)) + Cardinality(Locking) + Cardinality(Admitted)
              <= Cardinality(Worker) /\ Cardinality(Rest(all)) \in Nat
      BY <1>3
    <2> DEFINE entering == Cardinality(Rest(all))
    <2> HIDE DEF entering, all
    <2>5. SumOf(failed, all) = SumOf(short, all) + entering /\ entering \in Nat
            /\ entering + Cardinality(Locking) + Cardinality(Admitted) <= Cardinality(Worker)
      BY <2>2, <2>4 DEF entering
    <2>6. SumOf(failed, all) + Cardinality(Admitted) <= Spare + Cardinality(Worker)
      BY <1>1, <2>1, <2>2, <2>3, <2>5
    <2> QED BY <2>6 DEF all
  <1>6. CASE \E a \in all : short[a] > Excess[a]
    <2>1. PICK k \in all : short[k] > Excess[k] /\
               \A a \in all : short[a] > Excess[a] => k <= a
      <3> DEFINE some == {a \in all : short[a] > Excess[a]}
      <3>1. some \subseteq Nat /\ some # {}
        BY <1>2, <1>6
      <3>2. PICK k \in some : \A a \in some : k <= a
        <4> HIDE DEF some
        <4> QED BY <3>1, LeastNumber
      <3> QED BY <3>2
    <2>2. \A a \in 0 .. k - 1 : short[a] <= Excess[a]
      <3> SUFFICES ASSUME NEW a \in 0 .. k - 1 PROVE short[a] <= Excess[a]
        OBVIOUS
      <3>1. a \in all /\ ~(k <= a)
        BY GuardAssumption
      <3>2. short[a] \in Nat /\ Excess[a] \in Nat
        BY <1>1, <1>2, <3>1 DEF Counter
      <3> QED BY <2>1, <3>1, <3>2
    <2>3. PICK S \in SUBSET Age :
              SumOf(failed, all) <= SumOf(Excess, 0 .. k) + Spare + Cardinality(Rest(S))
      BY <2>1, <2>2, RoomBoundsCounts
    <2>4. SumOf(Excess, 0 .. k) <= Cardinality(Locking) /\ SumOf(Excess, 0 .. k) \in Nat
      BY <1>4
    <2> DEFINE entering == Cardinality(Rest(S))
    <2>5. /\ SumOf(failed, all) <= SumOf(Excess, 0 .. k) + Spare + entering
          /\ entering + Cardinality(Locking) + Cardinality(Admitted) <= Cardinality(Worker)
          /\ entering \in Nat
      BY <1>3, <2>3
    <2> HIDE DEF entering, all
    <2>6. SumOf(failed, all) + Cardinality(Admitted) <= Spare + Cardinality(Worker)
      BY <1>1, <1>2, <2>4, <2>5
    <2> QED BY <2>6 DEF all
  <1>7. \A a \in all : short[a] \in Nat /\ Excess[a] \in Nat
    BY <1>1, <1>2 DEF Counter
  <1> HIDE DEF all
  <1> QED BY <1>5, <1>6, <1>7

LEMMA PartsBound ==
    ASSUME TypeOK, GuessParts
    PROVE  SumOf(failed, 0 .. LockWindow - 1) + Cardinality(Admitted)
               <= Spare + Cardinality(Worker)
  <1>1. lock = 0 \/ lock > 0
    BY GuardAssumption DEF TypeOK
  <1> QED BY <1>1, OpenIsBounded DEF GuessParts, LockHolds


(* A step that counts and refuses nothing, forgets no worker about to lock, *)
(* and lets nobody past the gate of a locked address.                       *)
LEMMA AsideKeepsParts ==
    ASSUME TypeOK, TypeOK', GuessParts, UNCHANGED <<short, failed>>,
           \A a \in Age : Entering(a)' = Entering(a), Locking \subseteq Locking',
           lock' = lock \/ (lock = 1 /\ lock' = 0),
           lock > 0 => Admitted' \subseteq Admitted
    PROVE  GuessParts'
  <1>1. \A a : Room(a)' = Room(a)
    BY DEF Room, Earlier, Spare
  <1>2. Excess' = Excess
    BY <1>1 DEF Excess
  <1>3. FailuresAreCounted'
    BY DEF GuessParts, FailuresAreCounted
  <1>4. ExcessLocks'
    <2> SUFFICES ASSUME NEW m \in 0 .. LockWindow - 1, m + lock' <= LockMinutes
                 PROVE  SumOf(Excess, 0 .. m) <= Cardinality(Locking')
      BY <1>2 DEF ExcessLocks
    <2>1. m + lock <= LockMinutes
      BY GuardAssumption DEF TypeOK
    <2>2. SumOf(Excess, 0 .. m) <= Cardinality(Locking)
      BY <2>1 DEF GuessParts, ExcessLocks
    <2>3. Cardinality(Locking) <= Cardinality(Locking') /\ Cardinality(Locking) \in Nat
            /\ Cardinality(Locking') \in Nat
      <3>1. IsFiniteSet(Locking') /\ Cardinality(Locking) \in Nat
        BY GuessNumbers, WorkerAssumption, FS_Subset DEF Locking
      <3> QED BY <3>1, FS_Subset, FS_CardinalityType
    <2>4. SumOf(Excess, 0 .. m) \in Nat
      <3>1. 0 .. m \in SUBSET Age
        <4>1. 0 .. m \subseteq 0 .. LockWindow - 1
          BY GuardAssumption
        <4> QED BY <4>1, AgesAreKept
      <3> QED BY <3>1, GuessNumbers, CounterIsTyped
    <2> QED BY <2>2, <2>3, <2>4
  <1>5. LockHolds'
    <2> SUFFICES ASSUME lock' > 0
                 PROVE  SumOf(failed, 0 .. LockWindow - 1) + Cardinality(Admitted')
                            <= Spare + Cardinality(Worker)
      BY DEF LockHolds, Spare
    <2>1. lock > 0 /\ Admitted' \subseteq Admitted
      BY GuardAssumption DEF TypeOK
    <2>2. /\ Cardinality(Admitted') <= Cardinality(Admitted)
          /\ Cardinality(Admitted') \in Nat /\ Cardinality(Admitted) \in Nat
          /\ Spare \in Nat /\ Cardinality(Worker) \in Nat
      BY <2>1, GuessNumbers, FS_Subset, FS_CardinalityType
    <2>3. SumOf(failed, 0 .. LockWindow - 1) \in Nat
      BY AgesAreKept, GuessNumbers, CounterIsTyped
    <2>4. SumOf(failed, 0 .. LockWindow - 1) + Cardinality(Admitted)
              <= Spare + Cardinality(Worker)
      BY PartsBound
    <2> QED BY <2>2, <2>3, <2>4
  <1> QED BY <1>3, <1>4, <1>5 DEF GuessParts

(* Such a step of one worker. *)
WorkerAside(w) ==
    /\ UNCHANGED <<short, failed, lock>>
    /\ \A v \in Worker \ {w} : /\ pc'[v] = pc[v] /\ bucket'[v] = bucket[v]
                               /\ count'[v] = count[v] /\ locks'[v] = locks[v]
    /\ pc[w] # "incrShort" /\ pc'[w] # "incrShort"
    /\ \/ pc[w] \notin {"sumShort", "incrLong", "sumLong", "setLock"}
       \/ pc[w] = "sumShort" /\ ~Loose(w)
       \/ pc[w] # "sumShort" /\ ~locks[w]
       \/ pc'[w] \in {"incrLong", "sumLong", "setLock"} /\ locks'[w]
    /\ lock > 0 /\ pc'[w] \in {"password", "counted"} => pc[w] \in {"password", "counted"}

LEMMA WorkerAsideKeepsParts ==
    ASSUME TypeOK, TypeOK', GuessParts, NEW w \in Worker, WorkerAside(w)
    PROVE  GuessParts'
  <1>1. \A a : Room(a)' = Room(a)
    BY DEF Room, Earlier, Spare, WorkerAside
  <1>2. \A a : Entering(a)' = Entering(a)
    BY DEF Entering, WorkerAside
  <1>3. Locking \subseteq Locking'
    <2> SUFFICES ASSUME NEW v \in Locking PROVE v \in Locking'
      OBVIOUS
    <2>1. CASE v = w
      BY <2>1 DEF Locking, WorkerAside
    <2>2. CASE v # w
      <3>1. Room(bucket[v])' = Room(bucket[v])
        BY <1>1, <2>2 DEF WorkerAside, Locking, Room, Earlier, Spare
      <3> QED BY <2>2, <3>1 DEF Locking, WorkerAside, Loose
    <2> QED BY <2>1, <2>2
  <1>4. lock > 0 => Admitted' \subseteq Admitted
    BY DEF Admitted, WorkerAside
  <1>5. UNCHANGED <<short, failed, lock>>
    BY DEF WorkerAside
  <1> QED BY <1>2, <1>3, <1>4, <1>5, AsideKeepsParts

LEMMA WorkerStepsAside ==
    ASSUME TypeOK, TypeOK', GuessParts, NEW w \in Worker,
           \/ Gate(w) \/ FailExempt(w) \/ TrustStaff(w) \/ LiftBan(w) \/ SumShort(w)
           \/ IncrLong(w) \/ SumLong(w) \/ (SetLock(w) /\ ~locks[w]) \/ SetBan(w)
    PROVE  WorkerAside(w)
  <1> USE DEF Goto, At, WorkerAside
  <1>1. CASE Gate(w)
    <2>1. UNCHANGED <<short, failed, lock, bucket, count, locks>> /\ pc[w] = "idle"
      BY <1>1 DEF Gate
    <2>2. \E label \in {"password", "counted", "exempt"} :
              pc' = [pc EXCEPT ![w] = label] /\ (lock = 0 \/ label = "exempt")
      BY <1>1 DEF Gate
    <2> QED BY <2>1, <2>2 DEF TypeOK
  <1>2. CASE FailExempt(w) \/ TrustStaff(w) \/ LiftBan(w)
    BY <1>2 DEF FailExempt, TrustStaff, LiftBan, TypeOK
  <1>3. CASE SumShort(w)
    <2>1. Loose(w) => locks'[w]
      BY <1>3, LooseLocks DEF GuessParts
    <2>2. PICK b : locks' = [locks EXCEPT ![w] = b]
      BY <1>3 DEF SumShort
    <2>3. /\ UNCHANGED <<short, failed, lock>> /\ pc[w] = "sumShort"
          /\ pc' = [pc EXCEPT ![w] = "incrLong"] /\ bucket' = [bucket EXCEPT ![w] = 0]
          /\ count' = [count EXCEPT ![w] = 0]
      BY ONLY <1>3 DEF SumShort, Goto, At
    <2> QED BY <2>1, <2>2, <2>3 DEF TypeOK
  <1>4. CASE IncrLong(w) \/ SumLong(w)
    <2>1. /\ UNCHANGED <<short, failed, lock, bucket, locks>>
          /\ pc[w] \in {"incrLong", "sumLong"}
          /\ pc' = [pc EXCEPT ![w] = "sumLong"] \/ pc' = [pc EXCEPT ![w] = "setLock"]
      BY <1>4 DEF IncrLong, SumLong
    <2>2. \E n : count' = [count EXCEPT ![w] = n]
      BY <1>4 DEF IncrLong, SumLong
    <2> QED BY <2>1, <2>2 DEF TypeOK
  <1>5. CASE SetLock(w) /\ ~locks[w]
    BY <1>5 DEF SetLock, TypeOK
  <1>6. CASE SetBan(w)
    BY <1>6 DEF SetBan, Forget, TypeOK
  <1> QED BY <1>1, <1>2, <1>3, <1>4, <1>5, <1>6


(* A new lock outlasts every count there is. *)
LEMMA SetLockKeepsParts ==
    ASSUME TypeOK, TypeOK', GuessParts, NEW w \in Worker, SetLock(w), locks[w]
    PROVE  GuessParts'
  <1>1. /\ UNCHANGED <<short, failed, bucket>> /\ lock' = LockMinutes + 1
        /\ pc[w] = "setLock" /\ pc'[w] = "setBan"
        /\ \A v \in Worker \ {w} : pc'[v] = pc[v]
    BY DEF SetLock, Goto, At, TypeOK
  <1>2. FailuresAreCounted'
    <2>1. \A a : Entering(a)' = Entering(a)
      BY <1>1 DEF Entering
    <2> QED BY <1>1, <2>1 DEF GuessParts, FailuresAreCounted
  <1>3. ExcessLocks'
    <2>1. ~ \E m \in 0 .. LockWindow - 1 : m + (LockMinutes + 1) <= LockMinutes
      BY GuardAssumption
    <2> QED BY <1>1, <2>1 DEF ExcessLocks
  <1>4. LockHolds'
    <2>1. Admitted' = Admitted
      BY <1>1 DEF Admitted
    <2> QED BY <1>1, <2>1, PartsBound DEF LockHolds, Spare
  <1> QED BY <1>2, <1>3, <1>4 DEF GuessParts

(* A refused password is newer than every window that some bucket ends.     *)
LEMMA LoginFailedKeepsParts ==
    ASSUME TypeOK, TypeOK', GuessParts, NEW w \in Worker, LoginFailed(w)
    PROVE  GuessParts'
  <1>1. /\ failed' = Bump(failed, 0) /\ bucket' = [bucket EXCEPT ![w] = 0]
        /\ pc' = [pc EXCEPT ![w] = "incrShort"]
        /\ UNCHANGED <<short, lock, count, locks>> /\ pc[w] \in {"counted", "password"}
    BY DEF LoginFailed, Goto, At
  <1>2. /\ pc'[w] = "incrShort" /\ bucket'[w] = 0
        /\ \A v \in Worker \ {w} : pc'[v] = pc[v] /\ bucket'[v] = bucket[v]
    BY <1>1 DEF TypeOK
  <1>3. /\ failed \in Counter /\ short \in Counter /\ 0 \in Age
        /\ \A a : Cardinality(Entering(a)) \in Nat /\ IsFiniteSet(Entering(a))
    BY GuessNumbers, AgesAreKept
  <1>4. FailuresAreCounted'
    <2> SUFFICES ASSUME NEW a \in Age
                 PROVE  failed'[a] = short[a] + Cardinality(Entering(a)')
      BY <1>1 DEF FailuresAreCounted
    <2>1. failed[a] = short[a] + Cardinality(Entering(a)) /\ short[a] \in Nat
      BY <1>3 DEF GuessParts, FailuresAreCounted, Counter
    <2>2. CASE a = 0
      <3>1. failed'[a] = failed[a] + 1
        BY <1>1, <1>3, <2>2 DEF Bump, Counter
      <3>2. Entering(a)' = Entering(a) \cup {w} /\ w \notin Entering(a)
        BY <1>1, <1>2, <2>2 DEF Entering
      <3>3. Cardinality(Entering(a)') = Cardinality(Entering(a)) + 1
        BY <1>3, <3>2, FS_AddElement
      <3> QED BY <1>3, <2>1, <3>1, <3>3
    <2>3. CASE a # 0
      <3>1. failed'[a] = failed[a]
        BY <1>1, <1>3, <2>3 DEF Bump, Counter
      <3>2. Entering(a)' = Entering(a)
        BY <1>1, <1>2, <2>3 DEF Entering
      <3> QED BY <2>1, <3>1, <3>2
    <2> QED BY <2>2, <2>3
  <1>5. \A a \in Age : Room(a)' = Room(a)
    <2> SUFFICES ASSUME NEW a \in Age PROVE Earlier(a)' = Earlier(a)
      BY DEF Room, Spare
    <2> DEFINE S == (a + 1 .. a + LockWindow - 1) \cap Age
    <2>1. S \in SUBSET Age /\ 0 \notin S /\ SumOf(failed, S) \in Nat
      <3>1. a \in Nat
        BY GuardAssumption DEF Age
      <3>2. S \in SUBSET Age
        OBVIOUS
      <3> QED BY <1>3, <3>1, <3>2, CounterIsTyped
    <2> HIDE DEF S
    <2>2. SumOf(failed', S) = SumOf(failed, S)
      BY <1>1, <1>3, <2>1, BumpedSum
    <2> QED BY <2>2 DEF Earlier, S
  <1>6. Excess' = Excess
    BY <1>1, <1>5 DEF Excess
  <1>7. Locking' = Locking
    <2> SUFFICES ASSUME NEW v \in Worker PROVE v \in Locking' <=> v \in Locking
      BY DEF Locking
    <2>1. CASE v = w
      BY <1>1, <1>2, <2>1 DEF Locking
    <2>2. CASE v # w
      <3>1. bucket'[v] = bucket[v] /\ bucket[v] \in Age
        BY <1>2, <2>2, AgesAreKept DEF TypeOK
      <3>2. Room(bucket[v])' = Room(bucket[v])
        BY <1>5, <3>1
      <3> QED BY <1>1, <1>2, <2>2, <3>2 DEF Locking, Loose
    <2> QED BY <2>1, <2>2
  <1>8. ExcessLocks'
    BY <1>1, <1>6, <1>7 DEF GuessParts, ExcessLocks
  <1>9. LockHolds'
    <2> DEFINE S == 0 .. LockWindow - 1
    <2>1. SumOf(failed', S) = SumOf(failed, S) + 1 /\ SumOf(failed, S) \in Nat
      <3>1. S \in SUBSET Age /\ 0 \in S
        BY AgesAreKept, GuardAssumption
      <3> HIDE DEF S
      <3> QED BY <1>1, <1>3, <3>1, BumpedSum, CounterIsTyped
    <2>2. Cardinality(Admitted') = Cardinality(Admitted) - 1 /\ Cardinality(Admitted) \in Nat
      <3>1. Admitted' = Admitted \ {w} /\ w \in Admitted
        BY <1>1, <1>2 DEF Admitted
      <3> QED BY <3>1, GuessNumbers, FS_RemoveElement
    <2>3. lock > 0 => SumOf(failed, S) + Cardinality(Admitted) <= Spare + Cardinality(Worker)
      BY DEF GuessParts, LockHolds
    <2>4. Spare \in Nat /\ Cardinality(Worker) \in Nat
      BY GuessNumbers
    <2> HIDE DEF S
    <2>5. lock > 0 => SumOf(failed', S) + Cardinality(Admitted')
                          <= Spare + Cardinality(Worker)
      BY <2>1, <2>2, <2>3, <2>4
    <2> QED BY <1>1, <2>5 DEF S, LockHolds, Spare
  <1> QED BY <1>4, <1>8, <1>9 DEF GuessParts

(* A counted failure is in its bucket's room, or its worker is about to lock. *)
LEMMA IncrShortKeepsParts ==
    ASSUME TypeOK, TypeOK', GuessParts, NEW w \in Worker, IncrShort(w)
    PROVE  GuessParts'
  <1> DEFINE b == bucket[w]
  <1>1. /\ short' = Bump(short, b) /\ count' = [count EXCEPT ![w] = short'[b]]
        /\ pc' = [pc EXCEPT ![w] = "sumShort"] /\ pc[w] = "incrShort"
        /\ UNCHANGED <<lock, bucket, locks, failed>>
    BY DEF IncrShort, Goto, At
  <1>2. /\ pc'[w] = "sumShort" /\ count'[w] = short'[b]
        /\ \A v \in Worker \ {w} : pc'[v] = pc[v] /\ count'[v] = count[v]
    BY <1>1 DEF TypeOK
  <1>3. b \in Age /\ short \in Counter /\ Excess \in Counter
          /\ \A a : Room(a) \in Nat /\ Cardinality(Entering(a)) \in Nat
                      /\ IsFiniteSet(Entering(a))
    BY GuessNumbers, AgesAreKept DEF TypeOK
  <1>4. short'[b] = short[b] + 1 /\ \A a \in Age \ {b} : short'[a] = short[a]
    BY <1>1, <1>3 DEF Bump, Counter
  <1>5. \A a : Room(a)' = Room(a)
    BY <1>1 DEF Room, Earlier, Spare
  <1>6. FailuresAreCounted'
    <2> SUFFICES ASSUME NEW a \in Age
                 PROVE  failed[a] = short'[a] + Cardinality(Entering(a)')
      BY <1>1 DEF FailuresAreCounted
    <2>1. failed[a] = short[a] + Cardinality(Entering(a)) /\ short[a] \in Nat
      BY <1>3 DEF GuessParts, FailuresAreCounted, Counter
    <2>2. CASE a = b
      <3>1. Entering(a)' = Entering(a) \ {w} /\ w \in Entering(a)
        BY <1>1, <1>2, <2>2 DEF Entering
      <3>2. Cardinality(Entering(a)') = Cardinality(Entering(a)) - 1
        BY <1>3, <3>1, FS_RemoveElement
      <3> QED BY <1>3, <1>4, <2>1, <2>2, <3>2
    <2>3. CASE a # b
      <3>1. Entering(a)' = Entering(a)
        BY <1>1, <1>2, <2>3 DEF Entering
      <3> QED BY <1>4, <2>1, <2>3, <3>1
    <2> QED BY <2>2, <2>3
  <1>7. /\ Locking \subseteq Locking' \ {w} /\ IsFiniteSet(Locking')
        /\ Loose(w)' => w \in Locking'
        /\ Loose(w)' <=> short'[b] > Room(b)
    <2>1. \A v \in Worker \ {w} : v \in Locking => v \in Locking'
      <3> SUFFICES ASSUME NEW v \in Worker \ {w}, v \in Locking PROVE v \in Locking'
        OBVIOUS
      <3>1. Room(bucket[v])' = Room(bucket[v])
        BY <1>1 DEF Room, Earlier, Spare
      <3> QED BY <1>1, <1>2, <3>1 DEF Locking, Loose
    <2>2. w \notin Locking
      BY <1>1 DEF Locking
    <2>3. Loose(w)' <=> short'[b] > Room(b)
      BY <1>1, <1>2 DEF Loose, Room, Earlier, Spare
    <2>4. IsFiniteSet(Locking')
      BY WorkerAssumption, FS_Subset DEF Locking
    <2> QED BY <1>2, <2>1, <2>2, <2>3, <2>4 DEF Locking
  <1>8. Excess' = IF short'[b] > Room(b) THEN Bump(Excess, b) ELSE Excess
    <2>1. \A a \in Age : Excess'[a] = IF short'[a] > Room(a) THEN short'[a] - Room(a) ELSE 0
      BY <1>5 DEF Excess
    <2>2. \A a \in Age : Excess[a] = IF short[a] > Room(a) THEN short[a] - Room(a) ELSE 0
      BY DEF Excess
    <2>3. \A a \in Age \ {b} : Excess'[a] = Excess[a]
      BY <1>4, <2>1, <2>2
    <2>4. Excess'[b] = IF short'[b] > Room(b) THEN Excess[b] + 1 ELSE Excess[b]
      <3>1. short[b] \in Nat /\ Room(b) \in Nat
        BY <1>3 DEF Counter
      <3> QED BY <1>3, <1>4, <2>1, <2>2, <3>1
    <2>5. Excess' \in Counter
      <3>1. \A a \in Age : Excess'[a] \in Nat
        BY <1>3, <2>3, <2>4 DEF Counter
      <3> QED BY <3>1 DEF Excess, Counter
    <2>6. Excess' = [a \in Age |-> Excess'[a]] /\ Excess = [a \in Age |-> Excess[a]]
      BY <1>3, <2>5 DEF Counter
    <2>7. Excess' = [Excess EXCEPT ![b] = Excess'[b]]
      BY <1>3, <2>3, <2>6
    <2> QED BY <1>3, <2>4, <2>6, <2>7 DEF Bump
  <1>9. ExcessLocks'
    <2> SUFFICES ASSUME NEW m \in 0 .. LockWindow - 1, m + lock <= LockMinutes
                 PROVE  SumOf(Excess', 0 .. m) <= Cardinality(Locking')
      BY <1>1 DEF ExcessLocks
    <2>1. SumOf(Excess, 0 .. m) <= Cardinality(Locking)
      BY DEF GuessParts, ExcessLocks
    <2>2. 0 .. m \in SUBSET Age
      <3>1. 0 .. m \subseteq 0 .. LockWindow - 1
        BY GuardAssumption
      <3> QED BY <3>1, AgesAreKept
    <2>3. SumOf(Excess, 0 .. m) \in Nat
      BY <1>3, <2>2, CounterIsTyped
    <2>4. /\ Cardinality(Locking) <= Cardinality(Locking') /\ Cardinality(Locking) \in Nat
          /\ Cardinality(Locking') \in Nat
      BY <1>7, GuessNumbers, FS_Subset, FS_CardinalityType
    <2>5. CASE short'[b] > Room(b)
      <3>1. SumOf(Bump(Excess, b), 0 .. m) <= SumOf(Excess, 0 .. m) + 1
              /\ SumOf(Bump(Excess, b), 0 .. m) \in Nat
        <4> HIDE DEF b
        <4>1. SumOf(Bump(Excess, b), 0 .. m) =
                  SumOf(Excess, 0 .. m) + (IF b \in 0 .. m THEN 1 ELSE 0)
          BY <1>3, <2>2, BumpedSum
        <4> QED BY <2>3, <4>1
      <3>2. Cardinality(Locking') >= Cardinality(Locking) + 1
        <4>1. w \in Locking'
          BY <1>7, <2>5
        <4>2. /\ IsFiniteSet(Locking' \ {w})
              /\ Cardinality(Locking' \ {w}) = Cardinality(Locking') - 1
          BY <1>7, <4>1, FS_RemoveElement
        <4>3. Cardinality(Locking) <= Cardinality(Locking' \ {w})
          BY <1>7, <4>2, FS_Subset
        <4> QED BY <2>4, <4>2, <4>3
      <3>3. Excess' = Bump(Excess, b)
        BY <1>8, <2>5
      <3> HIDE DEF b
      <3> QED BY <2>1, <2>3, <2>4, <3>1, <3>2, <3>3
    <2>6. CASE ~(short'[b] > Room(b))
      <3>1. Excess' = Excess
        BY <1>8, <2>6
      <3> QED BY <2>1, <2>3, <2>4, <3>1
    <2> QED BY <2>5, <2>6
  <1>10. LockHolds'
    <2>1. Admitted' = Admitted
      BY <1>1, <1>2 DEF Admitted
    <2> QED BY <1>1, <2>1 DEF GuessParts, LockHolds, Spare
  <1> QED BY <1>6, <1>9, <1>10 DEF GuessParts


(* A minute later each bucket has at least its room, and the bucket a worker *)
(* has still to add up exactly that.                                        *)
LEMMA RoomAges ==
    ASSUME TypeOK, failed' = Shifted(failed), NEW a \in Age, a + 1 \in Age
    PROVE  /\ Room(a) <= Room(a + 1)'
           /\ a + 1 <= Slack => Room(a + 1)' = Room(a)
  <1> DEFINE top == BanWindow + 2 * Slack - 1
             last == a + LockWindow
             n == IF last <= top THEN last ELSE top
             b == a + 1
             S == (a + 1 .. a + LockWindow - 1) \cap Age
  <1>1. /\ failed \in Counter /\ Spare \in Nat /\ Earlier(a) \in Nat
    BY GuessNumbers
  <1>2. /\ n \in Age /\ b \in Age /\ a \in Int /\ b \in Int /\ n \in Int
        /\ (b + 1 .. b + LockWindow - 1) \cap Age = b + 1 .. n
        /\ b .. n - 1 \subseteq S /\ (b <= Slack => b .. n - 1 = S)
    <2>1. /\ {LockWindow, BanWindow, Slack} \subseteq Nat \ {0} /\ LockWindow <= BanWindow
          /\ a \in Nat /\ top \in Nat /\ a <= top /\ b <= top /\ a \in Int
      BY GuardAssumption DEF Age
    <2>2. Age = 0 .. top
      BY DEF Age
    <2>3. n \in 0 .. top /\ b \in 0 .. top /\ n \in Int /\ b \in Int
      BY <2>1
    <2>4. (b + 1 .. b + LockWindow - 1) \cap (0 .. top) = b + 1 .. n
      BY <2>1
    <2>5. b .. n - 1 \subseteq (a + 1 .. a + LockWindow - 1) \cap (0 .. top)
      BY <2>1
    <2>6. b <= Slack => (a + 1 .. a + LockWindow - 1) \cap (0 .. top) \subseteq b .. n - 1
      <3> SUFFICES ASSUME b <= Slack PROVE last <= top
        BY <2>1
      <3> QED BY <2>1
    <2> HIDE DEF top, n, last
    <2> QED BY <2>1, <2>2, <2>3, <2>4, <2>5, <2>6
  <1>3. Earlier(a) = SumOf(failed, S)
    BY DEF Earlier
  <1> HIDE DEF S, n
  <1>4. SumOf(failed', b + 1 .. n) = SumOf(failed, b .. n - 1)
    <2> HIDE DEF b
    <2> QED BY <1>1, <1>2, ShiftedSum
  <1>5. Earlier(a + 1)' = SumOf(failed, b .. n - 1)
    BY <1>2, <1>4 DEF Earlier
  <1>6. SumOf(failed, b .. n - 1) <= SumOf(failed, S) /\ SumOf(failed, b .. n - 1) \in Nat
    <2>1. S \in SUBSET Age /\ b .. n - 1 \in SUBSET Age
      BY <1>2 DEF S
    <2> HIDE DEF b
    <2>2. Counts(failed, S) /\ IsFiniteSet(S) /\ SumOf(failed, b .. n - 1) \in Nat
      BY <1>1, <2>1, CounterIsTyped
    <2> QED BY <1>2, <2>2, SumMonotone
  <1> DEFINE before == Earlier(a)
             after == SumOf(failed, b .. n - 1)
  <1>7. after <= before /\ after \in Nat /\ before \in Nat
    BY <1>1, <1>3, <1>6
  <1>8. b <= Slack => after = before
    BY <1>2, <1>3
  <1>9. /\ Room(a) = (IF before <= Spare THEN Spare - before ELSE 0)
        /\ Room(a + 1)' = (IF after <= Spare THEN Spare - after ELSE 0)
    BY <1>5 DEF Room, Spare
  <1> HIDE DEF before, after
  <1> QED BY <1>1, <1>7, <1>8, <1>9

LEMMA TickKeepsParts ==
    ASSUME TypeOK, TypeOK', GuessParts, Tick
    PROVE  GuessParts'
  <1>1. /\ short' = Shifted(short) /\ failed' = Shifted(failed) /\ lock' = Minus1(lock)
        /\ UNCHANGED <<pc, count, locks>>
        /\ \A w \in Worker : pc[w] \in Counting =>
               bucket'[w] = bucket[w] + 1 /\ bucket[w] < Slack
    BY DEF Tick, TypeOK
  <1>2. /\ short \in Counter /\ failed \in Counter /\ Excess \in Counter
        /\ \A a : Room(a) \in Nat /\ Cardinality(Entering(a)) \in Nat
        /\ Spare \in Nat /\ Cardinality(Worker) \in Nat
        /\ \A w \in Worker : bucket[w] \in 0 .. Slack
    BY GuessNumbers DEF TypeOK
  <1>3. /\ \A a \in Age : a \in Nat /\ (a # 0 => a - 1 \in Age /\ (a - 1) + 1 = a)
        /\ LockWindow \in Nat \ {0} /\ Slack \in Nat
        /\ \A m \in 0 .. LockWindow - 1 : m \in Age /\ 0 .. m \in SUBSET Age
    <2>1. \A a \in Age : a \in Nat /\ (a # 0 => a - 1 \in Age /\ (a - 1) + 1 = a)
      BY GuardAssumption DEF Age
    <2>2. LockWindow \in Nat \ {0} /\ Slack \in Nat /\ LockWindow <= BanWindow
            /\ BanWindow \in Nat
      BY GuardAssumption
    <2>3. \A m \in 0 .. LockWindow - 1 : m \in Age /\ 0 .. m \in SUBSET Age
      BY <2>2 DEF Age
    <2> QED BY <2>1, <2>2, <2>3
  <1>4. FailuresAreCounted'
    <2> SUFFICES ASSUME NEW a \in Age
                 PROVE  failed'[a] = short'[a] + Cardinality(Entering(a)')
      BY DEF FailuresAreCounted
    <2>1. CASE a = 0
      <3>1. Entering(a)' = {}
        <4> SUFFICES ASSUME NEW w \in Worker, pc[w] = "incrShort" PROVE bucket'[w] # 0
          BY <1>1, <2>1 DEF Entering
        <4> QED BY <1>1, <1>2, <1>3 DEF Counting
      <3>2. Cardinality(Entering(a)') = 0
        BY <3>1, FS_EmptySet
      <3> QED BY <1>1, <2>1, <3>2 DEF Shifted
    <2>2. CASE a # 0
      <3>1. a - 1 \in Age /\ (a - 1) + 1 = a /\ a \in Nat
        BY <1>3, <2>2
      <3>2. Entering(a)' = Entering(a - 1)
        <4> SUFFICES ASSUME NEW w \in Worker, pc[w] = "incrShort"
                     PROVE  bucket'[w] = a <=> bucket[w] = a - 1
          BY <1>1 DEF Entering
        <4> QED BY <1>1, <1>2, <1>3, <3>1 DEF Counting
      <3>3. failed'[a] = failed[a - 1] /\ short'[a] = short[a - 1]
        BY <1>1, <2>2 DEF Shifted
      <3> QED BY <3>1, <3>2, <3>3 DEF GuessParts, FailuresAreCounted
    <2> QED BY <2>1, <2>2
  <1>5. \A a \in Age : Excess'[a] <= Shifted(Excess)[a] /\ Excess'[a] \in Nat
    <2> SUFFICES ASSUME NEW a \in Age
                 PROVE  Excess'[a] <= Shifted(Excess)[a] /\ Excess'[a] \in Nat
      OBVIOUS
    <2>1. Excess'[a] = IF short'[a] > Room(a)' THEN short'[a] - Room(a)' ELSE 0
      BY DEF Excess
    <2>2. CASE a = 0
      <3>1. short'[a] = 0 /\ Shifted(Excess)[a] = 0
        BY <1>1, <2>2 DEF Shifted
      <3>2. Room(a)' \in Nat
        <4>1. failed' \in Counter
          BY <1>1, <1>2, CounterIsTyped
        <4>2. Earlier(a)' \in Nat
          BY <4>1, CounterIsTyped DEF Earlier
        <4> QED BY <1>2, <4>2 DEF Room, Spare
      <3> QED BY <2>1, <3>1, <3>2
    <2>3. CASE a # 0
      <3>1. a - 1 \in Age /\ (a - 1) + 1 = a /\ (a - 1) + 1 \in Age
        BY <1>3, <2>3
      <3>2. Room(a - 1) <= Room((a - 1) + 1)'
        BY <1>1, <3>1, RoomAges
      <3>3. Room(a - 1) <= Room(a)'
        BY <3>1, <3>2
      <3>4. short'[a] = short[a - 1] /\ Shifted(Excess)[a] = Excess[a - 1]
        BY <1>1, <2>3 DEF Shifted
      <3>5. Excess[a - 1] = IF short[a - 1] > Room(a - 1) THEN short[a - 1] - Room(a - 1)
                                                         ELSE 0
        BY <3>1 DEF Excess
      <3>6. short[a - 1] \in Nat /\ Room(a - 1) \in Nat
        BY <1>2, <3>1 DEF Counter
      <3>7. Room(a)' \in Nat
        <4>1. failed' \in Counter
          BY <1>1, <1>2, CounterIsTyped
        <4>2. Earlier(a)' \in Nat
          BY <4>1, CounterIsTyped DEF Earlier
        <4> QED BY <1>2, <4>2 DEF Room, Spare
      <3> QED BY <2>1, <3>3, <3>4, <3>5, <3>6, <3>7
    <2> QED BY <2>2, <2>3
  <1>6. Locking \subseteq Locking'
    <2> SUFFICES ASSUME NEW w \in Locking PROVE w \in Locking'
      OBVIOUS
    <2>1. CASE pc[w] = "sumShort" /\ Loose(w)
      <3>1. /\ bucket[w] \in Age /\ bucket[w] + 1 \in Age /\ bucket[w] + 1 <= Slack
            /\ bucket'[w] = bucket[w] + 1
        <4>1. bucket'[w] = bucket[w] + 1 /\ bucket[w] < Slack /\ bucket[w] \in 0 .. Slack
          BY <1>1, <1>2, <2>1 DEF Locking, Counting
        <4>2. bucket[w] + 1 \in 0 .. Slack
          BY <1>3, <4>1
        <4> QED BY <1>3, <4>1, <4>2, AgesAreKept
      <3>2. Room(bucket[w])' = Room(bucket[w])
        <4>1. \A a \in Age : a + 1 \in Age /\ a + 1 <= Slack => Room(a + 1)' = Room(a)
          BY <1>1, RoomAges
        <4>2. \A b : b = bucket'[w] => Room(b)' = Room(bucket[w])
          BY <3>1, <4>1
        <4> QED BY <4>2 DEF Room, Earlier, Spare
      <3> QED BY <1>1, <2>1, <3>1, <3>2 DEF Locking, Loose
    <2>2. CASE pc[w] \in {"incrLong", "sumLong", "setLock"} /\ locks[w]
      BY <1>1, <2>2 DEF Locking
    <2> QED BY <2>1, <2>2 DEF Locking
  <1>7. /\ Cardinality(Locking) <= Cardinality(Locking') /\ Cardinality(Locking) \in Nat
        /\ Cardinality(Locking') \in Nat
    <2>1. IsFiniteSet(Locking')
      BY WorkerAssumption, FS_Subset DEF Locking
    <2> QED BY <1>6, <2>1, GuessNumbers, FS_Subset, FS_CardinalityType
  <1>8. ExcessLocks'
    <2> SUFFICES ASSUME NEW m \in 0 .. LockWindow - 1, m + lock' <= LockMinutes
                 PROVE  SumOf(Excess', 0 .. m) <= Cardinality(Locking')
      BY DEF ExcessLocks
    <2>1. 0 .. m \in SUBSET Age /\ m \in Age /\ m \in Nat
      BY <1>3
    <2>2. SumOf(Excess', 0 .. m) <= SumOf(Shifted(Excess), 0 .. m)
            /\ SumOf(Excess', 0 .. m) \in Nat
      <3>1. Shifted(Excess) \in Counter
        BY <1>2, CounterIsTyped
      <3>2. Counts(Shifted(Excess), 0 .. m) /\ IsFiniteSet(0 .. m)
        BY <2>1, <3>1, CounterIsTyped
      <3>3. Counts(Excess', 0 .. m)
        BY <1>5, <2>1 DEF Counts
      <3>4. \A a \in 0 .. m : Excess'[a] <= Shifted(Excess)[a]
        BY <1>5, <2>1
      <3> QED BY <3>2, <3>3, <3>4, SumPointwise, SumType
    <2>3. SumOf(Shifted(Excess), 0 .. m) = SumOf(Excess, 0 .. m - 1)
      BY <1>2, <2>1, ShiftedSum
    <2>4. SumOf(Excess, 0 .. m - 1) <= Cardinality(Locking)
            /\ SumOf(Excess, 0 .. m - 1) \in Nat
      <3>1. CASE m = 0
        <4>1. 0 .. m - 1 = {}
          BY <3>1
        <4> QED BY <1>7, <4>1, SumEmpty
      <3>2. CASE m # 0
        <4>1. m - 1 \in 0 .. LockWindow - 1 /\ (m - 1) + lock <= LockMinutes
          BY <1>1, <1>3, <2>1, <3>2, GuardAssumption DEF Minus1, TypeOK
        <4>2. SumOf(Excess, 0 .. m - 1) \in Nat
          BY <1>2, <1>3, <4>1, CounterIsTyped
        <4> QED BY <4>1, <4>2 DEF GuessParts, ExcessLocks
      <3> QED BY <3>1, <3>2
    <2> QED BY <1>7, <2>2, <2>3, <2>4
  <1>9. LockHolds'
    <2> DEFINE m == LockWindow - 1
    <2>1. m \in 0 .. LockWindow - 1 /\ m \in Age /\ 0 .. m \in SUBSET Age /\ m \in Nat
      BY <1>3
    <2>2. SumOf(failed', 0 .. m) = SumOf(failed, 0 .. m - 1)
      <3> HIDE DEF m
      <3> QED BY <1>1, <1>2, <2>1, ShiftedSum
    <2>3. SumOf(failed, 0 .. m - 1) <= SumOf(failed, 0 .. m)
            /\ SumOf(failed, 0 .. m - 1) \in Nat /\ SumOf(failed, 0 .. m) \in Nat
      <3>1. 0 .. m - 1 \subseteq 0 .. m /\ 0 .. m - 1 \in SUBSET Age
        BY <2>1
      <3>2. Counts(failed, 0 .. m) /\ IsFiniteSet(0 .. m) /\ SumOf(failed, 0 .. m) \in Nat
              /\ SumOf(failed, 0 .. m - 1) \in Nat
        BY <1>2, <2>1, <3>1, CounterIsTyped
      <3> QED BY <3>1, <3>2, SumMonotone
    <2>4. Admitted' = Admitted
      BY <1>1 DEF Admitted
    <2>5. SumOf(failed, 0 .. m) + Cardinality(Admitted) <= Spare + Cardinality(Worker)
      BY PartsBound
    <2>6. Cardinality(Admitted) \in Nat
      BY GuessNumbers
    <2> HIDE DEF m
    <2>7. SumOf(failed', 0 .. m) + Cardinality(Admitted') <= Spare + Cardinality(Worker)
      BY <1>2, <2>2, <2>3, <2>4, <2>5, <2>6
    <2> QED BY <2>7 DEF m, LockHolds, Spare
  <1> QED BY <1>4, <1>8, <1>9 DEF GuessParts

LEMMA StepKeepsGuessInv ==
    ASSUME TypeOK, TypeOK', GuessInv, [Next]_vars
    PROVE  GuessInv'
  <1> SUFFICES ASSUME undisturbed' PROVE GuessParts'
    BY DEF GuessInv
  <1>1. undisturbed
    <2>1. ASSUME NEW w \in Worker, Step(w) \/ CacheFails(w) PROVE undisturbed
      <3>1. CASE LoginFailed(w)
        BY ONLY <3>1, undisturbed' DEF LoginFailed
      <3> QED BY <2>1, <3>1, OutageMoves
            DEF Step, SignIn, Failure, Gate, LoggedIn, TrustStaff, LiftBan, FailExempt,
                IncrShort, SumShort, IncrLong, SumLong, SetLock, SetBan
    <2> QED BY <2>1 DEF Next, Evict, TrustEnds, LockExpires, BanExpires, Tick, vars
  <1>2. GuessParts
    BY <1>1 DEF GuessInv
  <1>3. ASSUME NEW w \in Worker, Step(w) \/ CacheFails(w) PROVE GuessParts'
    <2>1. ~LoggedIn(w) /\ ~CacheFails(w)
      BY OutageMoves DEF LoggedIn
    <2>2. CASE \/ Gate(w) \/ FailExempt(w) \/ TrustStaff(w) \/ LiftBan(w) \/ SumShort(w)
               \/ IncrLong(w) \/ SumLong(w) \/ (SetLock(w) /\ ~locks[w]) \/ SetBan(w)
      BY <1>2, <2>2, WorkerStepsAside, WorkerAsideKeepsParts
    <2>3. CASE SetLock(w) /\ locks[w]
      BY <1>2, <2>3, SetLockKeepsParts
    <2>4. CASE LoginFailed(w)
      BY <1>2, <2>4, LoginFailedKeepsParts
    <2>5. CASE IncrShort(w)
      BY <1>2, <2>5, IncrShortKeepsParts
    <2> QED BY <1>3, <2>1, <2>2, <2>3, <2>4, <2>5 DEF Step, SignIn, Failure
  <1>4. CASE Evict
    BY <1>4 DEF Evict
  <1>5. CASE TrustEnds \/ LockExpires \/ BanExpires \/ UNCHANGED vars
    <2>1. UNCHANGED <<short, failed, pc, bucket, count, locks>>
            /\ (lock' = lock \/ (lock = 1 /\ lock' = 0))
      BY <1>5 DEF TrustEnds, LockExpires, BanExpires, vars
    <2>2. /\ \A a : Entering(a)' = Entering(a)
          /\ Locking' = Locking /\ Admitted' = Admitted
      BY <2>1 DEF Entering, Locking, Loose, Room, Earlier, Spare, Admitted
    <2> QED BY <1>2, <2>1, <2>2, AsideKeepsParts
  <1>6. CASE Tick
    BY <1>2, <1>6, TickKeepsParts
  <1> QED BY <1>3, <1>4, <1>5, <1>6 DEF Next

LEMMA InitGuessInv == Init => GuessInv
  <1> SUFFICES ASSUME Init PROVE GuessParts
    BY DEF GuessInv
  <1>1. TypeOK /\ short = Nothing /\ failed = Nothing /\ lock = 0
          /\ \A w \in Worker : pc[w] = "idle"
    BY InitTypes DEF Init
  <1>2. FailuresAreCounted
    <2>1. \A a : Cardinality(Entering(a)) = 0
      <3>1. \A a : Entering(a) = {}
        BY <1>1 DEF Entering
      <3> QED BY <3>1, FS_EmptySet
    <2> QED BY <1>1, <2>1 DEF FailuresAreCounted, Nothing
  <1>3. ExcessLocks
    <2> SUFFICES ASSUME NEW m \in 0 .. LockWindow - 1
                 PROVE  SumOf(Excess, 0 .. m) = 0
      BY <1>1, GuessNumbers DEF ExcessLocks
    <2>1. 0 .. m \in SUBSET Age
      <3>1. 0 .. m \subseteq 0 .. LockWindow - 1
        BY GuardAssumption
      <3> QED BY <3>1, AgesAreKept
    <2>2. \A a \in 0 .. m : Excess[a] = 0
      <3>1. \A a : Room(a) \in Nat
        BY <1>1, GuessNumbers
      <3> QED BY <1>1, <2>1, <3>1 DEF Excess, Nothing
    <2>3. IsFiniteSet(0 .. m)
      BY <2>1, AgesAreKept, FS_Subset
    <2> QED BY <2>2, <2>3, SumZero
  <1> QED BY <1>1, <1>2, <1>3 DEF GuessParts, LockHolds

(* The lock bounds guessing, for any number of requests, any thresholds and *)
(* any interleaving: while no sign-in succeeds and the cache works, a window *)
(* sees at most the threshold and two refused passwords per further request. *)
THEOREM GuessesAreBounded == Spec => []GuessesBounded
  <1>1. TypeOK /\ GuessInv => GuessesBounded
    <2> SUFFICES ASSUME TypeOK, GuessInv, undisturbed
                 PROVE  Total(failed, 0, LockWindow)
                            <= LockCount + 2 * Cardinality(Worker) - 2
      BY DEF GuessesBounded
    <2>1. SumOf(failed, 0 .. LockWindow - 1) + Cardinality(Admitted)
              <= Spare + Cardinality(Worker)
      BY PartsBound DEF GuessInv
    <2>2. /\ Cardinality(Admitted) \in Nat /\ Cardinality(Worker) \in Nat
          /\ Spare = LockCount + Cardinality(Worker) - 2 /\ Spare \in Nat
      BY GuessNumbers
    <2>3. Total(failed, 0, LockWindow) = SumOf(failed, 0 .. LockWindow - 1)
      <3>1. 0 + LockWindow - 1 = LockWindow - 1
        BY GuardAssumption
      <3> QED BY <3>1, TotalIsSum
    <2>4. SumOf(failed, 0 .. LockWindow - 1) \in Nat /\ LockCount \in Nat
      BY AgesAreKept, GuessNumbers, CounterIsTyped, GuardAssumption
    <2> QED BY <2>1, <2>2, <2>3, <2>4
  <1>2. TypeOK /\ TypeOK' /\ GuessInv /\ [Next]_vars => GuessInv'
    BY StepKeepsGuessInv
  <1> QED BY <1>1, <1>2, InitGuessInv, GuardTypes, PTL DEF Spec

=============================================================================
