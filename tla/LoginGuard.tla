----------------------------- MODULE LoginGuard -----------------------------
(***************************************************************************)
(* The brute-force guard of one client address: the login POST gate of the *)
(* rate limiter, the failure counters and the login lock that the auth     *)
(* signals keep in the cache, the ban they write, and the staff sign-in    *)
(* that undoes it.                                                         *)
(*                                                                         *)
(* Workers are sign-in requests.  Time is counted in minutes, the width of *)
(* a counter bucket; a bucket is named by its age, so Tick shifts every    *)
(* counter by one.  The ban is what add_automatic_ban and remove_ban do to *)
(* the row (BanList gives the detail).  The instance enforces the rate     *)
(* limit layer, bans automatically, trusts staff addresses, and its login  *)
(* path contains "login".                                                  *)
(***************************************************************************)
EXTENDS Integers, FiniteSets, Functions

CONSTANTS
    Worker,
    LockCount, LockWindow, LockMinutes,  \* 15 failures in 15 minutes: 15 minutes
    BanCount, BanEvery,                  \* at 50 failures and every 10th from there
    BanWindow, BanMinutes,               \* in 60 minutes: 60 minutes
    Fault,                               \* "staff" sign-ins, cache "outage", "evict"
    Slack,                               \* bound: minutes a failure takes to count
    MaxFailures                          \* bound: failures remembered at a time

ASSUME GuardAssumption ==
    /\ {LockCount, LockWindow, LockMinutes, BanCount, BanEvery, BanWindow,
        BanMinutes, Slack, MaxFailures} \subseteq Nat \ {0}
    /\ LockWindow <= BanWindow /\ LockWindow <= LockMinutes

(* Sign-in requests are served by finitely many threads. *)
ASSUME WorkerAssumption == IsFiniteSet(Worker) /\ Worker # {}

(* Ages of the buckets any worker may still read, and of the failures that  *)
(* may be counted in them: a failure, its short count and its long count    *)
(* each lie at most Slack minutes apart.                                    *)
Age == 0 .. BanWindow + 2 * Slack - 1

VARIABLES
    short,    \* counter "loginfail": failures by age of their bucket
    long,     \* counter "loginfail60"
    lock,     \* minutes, begun ones included, until the login lock times out
    ban,      \* minutes until the ban of the address ends
    trusted,  \* whether the address is privileged (staff signed in from it)
    pc,       \* the step each worker takes next
    bucket,   \* age of the bucket a worker counts in
    count,    \* the count a worker got from the cache
    locks,    \* whether a worker's short count reached the lock threshold
    failed,   \* history: refused passwords of unprivileged requests, by age
    undisturbed \* history: no sign-in succeeded and the cache lost nothing yet

vars == <<short, long, lock, ban, trusted, pc, bucket, count, locks, failed,
          undisturbed>>

Total(counter, first, width) ==
    FoldFunctionOnSet(+, 0, counter, first .. first + width - 1)
Goto(w, label) == pc' = [pc EXCEPT ![w] = label]
At(w, label) == pc[w] = label
Bump(counter, age) == [counter EXCEPT ![age] = @ + 1]

(* The labels of a worker between its bucket and its last use of the count. *)
Counting == {"incrShort", "sumShort", "incrLong", "sumLong", "setLock", "setBan"}

-----------------------------------------------------------------------------
(* The sign-in request *)

(* Mutant: the gate does not look at the lock. *)
GateOpen(w) ==
    /\ At(w, "idle")
    /\ Goto(w, "password")
    /\ UNCHANGED <<short, long, lock, ban, trusted, bucket, count, locks,
                   failed, undisturbed>>

(* The request is privileged: a trusted address, or a live staff session.   *)
Privileged == trusted \/ "staff" \in Fault

(* The rate limiter turns the lock into a 429 unless the request is         *)
(* privileged.  The answer of is_privileged is kept on the request by the   *)
(* first layer that asks: "exempt" or "counted", "password" when none did.  *)
Gate(w) ==
    /\ At(w, "idle")
    /\ \/ lock = 0 /\ Goto(w, "password")
       \/ lock = 0 /\ ~trusted /\ Goto(w, "counted")
       \/ Privileged /\ Goto(w, "exempt")
    /\ UNCHANGED <<short, long, lock, ban, trusted, bucket, count, locks,
                   failed, undisturbed>>

-----------------------------------------------------------------------------
(* on_user_logged_in *)

(* The lock goes, unless the cache call raises; staff go on to be trusted.  *)
LoggedIn(w) ==
    /\ pc[w] \in {"password", "counted", "exempt"}
    /\ lock' \in {0, lock}
    /\ undisturbed' = FALSE
    /\ \/ Goto(w, "idle")
       \/ "staff" \in Fault /\ Goto(w, "trust")
    /\ UNCHANGED <<short, long, ban, trusted, bucket, count, locks, failed>>

TrustStaff(w) ==
    /\ At(w, "trust")
    /\ trusted' \in {trusted, TRUE}
    /\ Goto(w, "lift")
    /\ UNCHANGED <<short, long, lock, ban, bucket, count, locks, failed, undisturbed>>

LiftBan(w) ==
    /\ At(w, "lift")
    /\ ban' = 0
    /\ Goto(w, "idle")
    /\ UNCHANGED <<short, long, lock, trusted, bucket, count, locks, failed,
                   undisturbed>>

-----------------------------------------------------------------------------
(* on_user_login_failed *)

(* A privileged request ends here. *)
FailExempt(w) ==
    /\ At(w, "exempt") \/ (At(w, "password") /\ Privileged)
    /\ Goto(w, "idle")
    /\ UNCHANGED <<short, long, lock, ban, trusted, bucket, count, locks, failed,
                   undisturbed>>

LoginFailed(w) ==
    /\ At(w, "counted") \/ (At(w, "password") /\ ~trusted)
    /\ FoldFunction(+, 0, failed) < MaxFailures
    /\ failed' = Bump(failed, 0)
    /\ bucket' = [bucket EXCEPT ![w] = 0]
    /\ Goto(w, "incrShort")
    /\ UNCHANGED <<short, long, lock, ban, trusted, count, locks, undisturbed>>

(* bump_counter, first call: the bucket's own count, then the earlier ones. *)
IncrShort(w) ==
    /\ At(w, "incrShort")
    /\ short' = Bump(short, bucket[w])
    /\ count' = [count EXCEPT ![w] = short'[bucket[w]]]
    /\ Goto(w, "sumShort")
    /\ UNCHANGED <<long, lock, ban, trusted, bucket, locks, failed, undisturbed>>

(* Mutant: only the bucket of this minute is compared with the threshold.   *)
SumShortOwnBucket(w) ==
    /\ At(w, "sumShort")
    /\ locks' = [locks EXCEPT ![w] = count[w] >= LockCount]
    /\ bucket' = [bucket EXCEPT ![w] = 0]
    /\ count' = [count EXCEPT ![w] = 0]
    /\ Goto(w, "incrLong")
    /\ UNCHANGED <<short, long, lock, ban, trusted, failed, undisturbed>>

SumShort(w) ==
    /\ At(w, "sumShort")
    /\ LET total == count[w] + Total(short, bucket[w] + 1, LockWindow - 1)
       IN  locks' = [locks EXCEPT ![w] = total >= LockCount]
    /\ bucket' = [bucket EXCEPT ![w] = 0]
    /\ count' = [count EXCEPT ![w] = 0]
    /\ Goto(w, "incrLong")
    /\ UNCHANGED <<short, long, lock, ban, trusted, failed, undisturbed>>

(* bump_counter, second call, in the bucket of its own moment.              *)
IncrLong(w) ==
    /\ At(w, "incrLong")
    /\ long' = Bump(long, bucket[w])
    /\ count' = [count EXCEPT ![w] = long'[bucket[w]]]
    /\ Goto(w, "sumLong")
    /\ UNCHANGED <<short, lock, ban, trusted, bucket, locks, failed, undisturbed>>

(* Mutant: the bucket's own count is added again with the earlier ones.     *)
SumLongTwice(w) ==
    /\ At(w, "sumLong")
    /\ count' = [count EXCEPT ![w] = @ + Total(long, bucket[w], BanWindow)]
    /\ Goto(w, "setLock")
    /\ UNCHANGED <<short, long, lock, ban, trusted, bucket, locks, failed,
                   undisturbed>>

SumLong(w) ==
    /\ At(w, "sumLong")
    /\ count' = [count EXCEPT ![w] = @ + Total(long, bucket[w] + 1, BanWindow - 1)]
    /\ Goto(w, "setLock")
    /\ UNCHANGED <<short, long, lock, ban, trusted, bucket, locks, failed,
                   undisturbed>>

(* Mutant: the lock is prolonged, not set to its full length again.         *)
SetLockExtends(w) ==
    /\ At(w, "setLock")
    /\ lock' = IF locks[w] THEN lock + LockMinutes + 1 ELSE lock
    /\ Goto(w, "setBan")
    /\ UNCHANGED <<short, long, ban, trusted, bucket, count, locks, failed,
                   undisturbed>>

(* A lock set in the middle of a minute ends in the middle of another one.  *)
SetLock(w) ==
    /\ At(w, "setLock")
    /\ lock' = IF locks[w] THEN LockMinutes + 1 ELSE lock
    /\ Goto(w, "setBan")
    /\ UNCHANGED <<short, long, ban, trusted, bucket, count, locks, failed,
                   undisturbed>>

(* The end of the handler: what it counted is forgotten. *)
Forget(w) ==
    /\ Goto(w, "idle")
    /\ bucket' = [bucket EXCEPT ![w] = 0]
    /\ count' = [count EXCEPT ![w] = 0]
    /\ locks' = [locks EXCEPT ![w] = FALSE]

BanDue(n) == n >= BanCount /\ n % BanEvery = 0

(* Mutant: a due ban replaces the one there is.                             *)
SetBanRenews(w) ==
    /\ At(w, "setBan")
    /\ ban' = IF BanDue(count[w]) THEN BanMinutes + 1 ELSE ban
    /\ Forget(w)
    /\ UNCHANGED <<short, long, lock, trusted, failed, undisturbed>>

(* add_automatic_ban leaves an active ban alone. *)
SetBan(w) ==
    /\ At(w, "setBan")
    /\ ban' = IF BanDue(count[w]) /\ ban = 0 THEN BanMinutes + 1 ELSE ban
    /\ Forget(w)
    /\ UNCHANGED <<short, long, lock, trusted, failed, undisturbed>>

-----------------------------------------------------------------------------
(* The cache server, time, and the end of trust *)

(* The cache loses a bucket or the lock before its timeout.                 *)
Evict ==
    /\ "evict" \in Fault
    /\ \/ \E a \in Age : short[a] > 0 /\ short' = [short EXCEPT ![a] = 0]
                           /\ UNCHANGED <<long, lock>>
       \/ \E a \in Age : long[a] > 0 /\ long' = [long EXCEPT ![a] = 0]
                           /\ UNCHANGED <<short, lock>>
       \/ lock > 0 /\ lock' = 0 /\ UNCHANGED <<short, long>>
    /\ undisturbed' = FALSE
    /\ UNCHANGED <<ban, trusted, pc, bucket, count, locks, failed>>

(* A cache call raises: the gate opens, a counter reads 0, and a lock that  *)
(* cannot be written ends the handler.                                      *)
CacheFails(w) ==
    /\ "outage" \in Fault
    /\ CASE At(w, "idle") -> Goto(w, "password") /\ UNCHANGED <<bucket, count, locks>>
         [] pc[w] \in {"incrShort", "sumShort"} ->
               /\ Goto(w, "incrLong")
               /\ count' = [count EXCEPT ![w] = 0]
               /\ bucket' = [bucket EXCEPT ![w] = 0]
               /\ UNCHANGED locks
         [] pc[w] \in {"incrLong", "sumLong"} ->
               /\ Goto(w, "setLock")
               /\ count' = [count EXCEPT ![w] = 0]
               /\ UNCHANGED <<bucket, locks>>
         [] At(w, "setLock") /\ locks[w] -> Forget(w)
         [] OTHER -> FALSE
    /\ undisturbed' = FALSE
    /\ UNCHANGED <<short, long, lock, ban, trusted, failed>>

TrustEnds ==
    /\ trusted /\ trusted' = FALSE
    /\ UNCHANGED <<short, long, lock, ban, pc, bucket, count, locks, failed,
                   undisturbed>>

(* The last minute of a lock or a ban is a partial one. *)
LockExpires ==
    /\ lock = 1 /\ lock' = 0
    /\ UNCHANGED <<short, long, ban, trusted, pc, bucket, count, locks, failed,
                   undisturbed>>

BanExpires ==
    /\ ban = 1 /\ ban' = 0
    /\ UNCHANGED <<short, long, lock, trusted, pc, bucket, count, locks, failed,
                   undisturbed>>

Shifted(counter) == [a \in Age |-> IF a = 0 THEN 0 ELSE counter[a - 1]]
Minus1(n) == IF n = 0 THEN 0 ELSE n - 1

Tick ==
    /\ \A w \in Worker : pc[w] \in Counting => bucket[w] < Slack
    /\ short' = Shifted(short)
    /\ long' = Shifted(long)
    /\ failed' = Shifted(failed)
    /\ lock' = Minus1(lock)
    /\ ban' = Minus1(ban)
    /\ bucket' = [w \in Worker |->
                    IF pc[w] \in Counting THEN bucket[w] + 1 ELSE bucket[w]]
    /\ UNCHANGED <<trusted, pc, count, locks, undisturbed>>

-----------------------------------------------------------------------------
Nothing == [a \in Age |-> 0]

Init ==
    /\ short = Nothing /\ long = Nothing /\ failed = Nothing
    /\ lock = 0 /\ ban = 0 /\ trusted = FALSE
    /\ pc = [w \in Worker |-> "idle"]
    /\ bucket = [w \in Worker |-> 0]
    /\ count = [w \in Worker |-> 0]
    /\ locks = [w \in Worker |-> FALSE]
    /\ undisturbed = TRUE

SignIn(w) == LoggedIn(w) \/ TrustStaff(w) \/ LiftBan(w)
Failure(w) ==
    \/ FailExempt(w) \/ LoginFailed(w) \/ IncrShort(w) \/ SumShort(w)
    \/ IncrLong(w) \/ SumLong(w) \/ SetLock(w) \/ SetBan(w)
Step(w) == Gate(w) \/ SignIn(w) \/ Failure(w)

Next ==
    \/ \E w \in Worker : Step(w) \/ CacheFails(w)
    \/ Evict \/ TrustEnds \/ LockExpires \/ BanExpires \/ Tick

Spec == Init /\ [][Next]_vars

(* A request under way is answered, and time passes. *)
Continue(w) == pc[w] # "idle" /\ Step(w)
FairSpec == Spec /\ (\A w \in Worker : WF_vars(Continue(w))) /\ WF_vars(Tick)

-----------------------------------------------------------------------------
(* Properties *)

Label == {"idle", "password", "counted", "exempt", "trust", "lift"} \cup Counting

(* Every variable holds a value of its type; however many requests lock and *)
(* ban at once, neither lasts longer than its setting.                      *)
TypeOK ==
    /\ short \in [Age -> Nat] /\ long \in [Age -> Nat] /\ failed \in [Age -> Nat]
    /\ lock \in 0 .. LockMinutes + 1
    /\ ban \in 0 .. BanMinutes + 1
    /\ trusted \in BOOLEAN /\ undisturbed \in BOOLEAN
    /\ pc \in [Worker -> Label]
    /\ bucket \in [Worker -> 0 .. Slack]
    /\ count \in [Worker -> Nat]
    /\ locks \in [Worker -> BOOLEAN]

(* The lock bounds guessing: while no sign-in succeeds and the cache works, *)
(* no window of LockWindow minutes sees more refused passwords than the     *)
(* threshold and two for each further request: one that passed the gate may *)
(* still fail when the lock comes, and one that counts late misses a newer  *)
(* bucket, whose own requests may have missed it.                           *)
GuessesBounded ==
    undisturbed =>
        Total(failed, 0, LockWindow) <= LockCount + 2 * Cardinality(Worker) - 2

(* "Returns 0 when the cache is unavailable ... an outage cannot ban        *)
(* anyone" (bump_counter): whatever the cache loses or refuses, a ban is    *)
(* written only when that many passwords really were refused.               *)
BanHasEvidence ==
    [][ban = 0 /\ ban' > 0 => FoldFunction(+, 0, failed) >= BanCount]_vars

Ledger == INSTANCE BanLedger
              WITH ban <- [kind |-> IF ban > 0 THEN "temp" ELSE "none", left |-> ban],
                   Length <- {BanMinutes + 1}, MayLift <- "staff" \in Fault

(* The failure handler implements the ledger: failures counted at once do   *)
(* not renew or prolong the ban, and only a staff sign-in lifts it early.   *)
GuardKeepsLedger == Ledger!Spec

(* A lock cannot be kept alive by more guesses: when the cache stops        *)
(* failing, the sign-in page opens again and again.                         *)
LockEnds ==
    <>[][\A w \in Worker : ~CacheFails(w)]_vars => []<>(lock = 0)

=============================================================================
