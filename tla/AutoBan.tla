------------------------------ MODULE AutoBan ------------------------------
(***************************************************************************)
(* From a detected offence to an automatic ban, for one address and one    *)
(* policy of ban_policy.POLICIES: the throttled, persisted SecurityEvents, *)
(* the evaluation that counts them, the lock that collapses concurrent     *)
(* evaluations, and the ban (BanList gives the detail of the row).         *)
(*                                                                         *)
(* Policies count different reasons and take different locks, so an        *)
(* instance has one.  Workers are unprivileged requests that a layer in    *)
(* enforce mode caught: the other requests neither write such events nor   *)
(* evaluate the policy.  BOUNCER_AUTO_BAN is on.                           *)
(***************************************************************************)
EXTENDS Integers, FiniteSets, Bags

CONSTANTS
    Worker,
    Reason, Path,       \* what a detector of the policy reports
    Who,                \* what session_user_info says of a request: "anon", "user"
    Threshold, MinPaths, Window, BanLength, \* the fields of AutoBanPolicy
    Soft,               \* the policy is one of SOFT_POLICIES
    ThrottleTTL,        \* ticks in which a (reason, path) is not logged again
    LockTTL,            \* timeout of the evaluation lock
    Fault,              \* "lift", "crash", "outage", "evict": see below
    Slack,              \* bound: ticks from the cutoff to the ban
    MaxEvents           \* bound: events remembered at a time

ASSUME PolicyAssumption ==
    /\ {Threshold, MinPaths, Window, BanLength, ThrottleTTL, LockTTL}
           \subseteq Nat \ {0}
    /\ Who \subseteq {"anon", "user"}
    /\ Slack \in Nat /\ MaxEvents \in Nat /\ Soft \in BOOLEAN

Age == 0 .. Window + Slack
Event == [reason : Reason, path : Path, who : Who, age : Age]

VARIABLES
    events,    \* the address's SecurityEvents with the policy's reasons: a bag
    throttled, \* ticks left of each throttle key bnc:once:ev:<reason>:<ip>:<path>
    evalLock,  \* ticks left of bnc:auto-ban-lock:<policy>:<ip>
    ban,       \* ticks left of the address's ban, 0 when there is none
    pc,        \* the step each worker takes next
    req,       \* the offence of each worker
    since,     \* the age of a worker's cutoff
    excused,   \* history: a ban ended, or a handler was cut short, and the
               \* policy has not banned since
    dropped    \* history: the workers whose evaluation lock the cache dropped

vars == <<events, throttled, evalLock, ban, pc, req, since, excused, dropped>>

-----------------------------------------------------------------------------
NoRequest == [reason |-> "none", path |-> "none", who |-> "none"]
Goto(w, label) == pc' = [pc EXCEPT ![w] = label]
At(w, label) == pc[w] = label
Finish(w) ==
    /\ Goto(w, "idle")
    /\ req' = [req EXCEPT ![w] = NoRequest]
    /\ since' = [since EXCEPT ![w] = 0]

LeaveLock(w) == dropped' = dropped \ {w}

Recent(age) == {e \in DOMAIN events : e.age <= age}
Count(set) == BagCardinality([e \in set |-> events[e]])
Paths(set) == {e.path : e \in set}

Enough(set) == Count(set) >= Threshold /\ Cardinality(Paths(set)) >= MinPaths

-----------------------------------------------------------------------------
(* A detector: HoneypotMiddleware or WAFMiddleware *)

Detect(w) ==
    /\ At(w, "idle")
    /\ \E reason \in Reason, path \in Path, who \in Who :
           req' = [req EXCEPT ![w] = [reason |-> reason, path |-> path, who |-> who]]
    /\ Goto(w, "throttle")
    /\ UNCHANGED <<events, throttled, evalLock, ban, since, excused, dropped>>

(* log_event: once_per, by reason and path. *)
Throttle(w) ==
    /\ At(w, "throttle")
    /\ LET key == <<req[w].reason, req[w].path>>
       IN  IF throttled[key] = 0
           THEN /\ throttled' = [throttled EXCEPT ![key] = ThrottleTTL]
                /\ Goto(w, "persist")
           ELSE Goto(w, "count") /\ UNCHANGED throttled
    /\ UNCHANGED <<events, evalLock, ban, req, since, excused, dropped>>

EventOf(w) == [reason |-> req[w].reason, path |-> req[w].path,
               who |-> req[w].who, age |-> 0]

Persist(w) ==
    /\ At(w, "persist") /\ BagCardinality(events) < MaxEvents
    /\ events' = events (+) SetToBag({EventOf(w)})
    /\ Goto(w, "count")
    /\ UNCHANGED <<throttled, evalLock, ban, req, since, excused, dropped>>

-----------------------------------------------------------------------------
(* evaluate_auto_ban *)

(* Mutant: the threshold must be passed, not reached. *)
CountEventsOffByOne(w) ==
    /\ At(w, "count")
    /\ IF (Soft /\ req[w].who = "user") \/ Count(Recent(Window)) <= Threshold
       THEN Finish(w)
       ELSE /\ Goto(w, IF MinPaths > 1 THEN "paths" ELSE "lock")
            /\ UNCHANGED <<req, since>>
    /\ UNCHANGED <<events, throttled, evalLock, ban, excused, dropped>>

(* A signed-in request ends here under a soft policy; the others count.     *)
CountEvents(w) ==
    /\ At(w, "count")
    /\ IF (Soft /\ req[w].who = "user") \/ Count(Recent(Window)) < Threshold
       THEN Finish(w)
       ELSE /\ Goto(w, IF MinPaths > 1 THEN "paths" ELSE "lock")
            /\ UNCHANGED <<req, since>>
    /\ UNCHANGED <<events, throttled, evalLock, ban, excused, dropped>>

(* Mutant: the second query counts the events, not their distinct paths.    *)
CountPathsNotDistinct(w) ==
    /\ At(w, "paths")
    /\ IF Count(Recent(Window + since[w])) < MinPaths
       THEN Finish(w)
       ELSE Goto(w, "lock") /\ UNCHANGED <<req, since>>
    /\ UNCHANGED <<events, throttled, evalLock, ban, excused, dropped>>

(* The second query, with the same cutoff. *)
CountPaths(w) ==
    /\ At(w, "paths")
    /\ IF Cardinality(Paths(Recent(Window + since[w]))) < MinPaths
       THEN Finish(w)
       ELSE Goto(w, "lock") /\ UNCHANGED <<req, since>>
    /\ UNCHANGED <<events, throttled, evalLock, ban, excused, dropped>>

(* Mutant: the lock is set, not added. *)
TakeLockBySet(w) ==
    /\ At(w, "lock")
    /\ evalLock' = LockTTL
    /\ Goto(w, "ban")
    /\ UNCHANGED <<events, throttled, ban, req, since, excused, dropped>>

TakeLock(w) ==
    /\ At(w, "lock")
    /\ IF evalLock > 0
       THEN Finish(w) /\ UNCHANGED evalLock
       ELSE evalLock' = LockTTL /\ Goto(w, "ban") /\ UNCHANGED <<req, since>>
    /\ UNCHANGED <<events, throttled, ban, excused, dropped>>

(* Mutant: an active ban is extended.                                       *)
WriteBanExtends(w) ==
    /\ At(w, "ban")
    /\ ban' = ban + BanLength
    /\ excused' = (excused /\ ban > 0)
    /\ Finish(w) /\ LeaveLock(w)
    /\ UNCHANGED <<events, throttled, evalLock>>

(* add_automatic_ban leaves an active ban alone. *)
WriteBan(w) ==
    /\ At(w, "ban")
    /\ ban' = IF ban = 0 THEN BanLength ELSE ban
    /\ excused' = (excused /\ ban > 0)
    /\ Finish(w) /\ LeaveLock(w)
    /\ UNCHANGED <<events, throttled, evalLock>>

-----------------------------------------------------------------------------
(* What else happens *)

(* remove_ban: the events stay. *)
Lift ==
    /\ "lift" \in Fault /\ ban > 0
    /\ ban' = 0 /\ excused' = TRUE
    /\ UNCHANGED <<events, throttled, evalLock, pc, req, since, dropped>>

(* The request dies, or the cache or the database raises out of             *)
(* evaluate_auto_ban, which catches nothing.                                *)
Crash(w) ==
    /\ "crash" \in Fault /\ pc[w] # "idle"
    /\ Finish(w) /\ LeaveLock(w) /\ excused' = TRUE
    /\ UNCHANGED <<events, throttled, evalLock, ban>>

(* log_event survives the database and the cache: an event is lost, or a    *)
(* throttle key is taken as absent.                                         *)
Outage(w) ==
    /\ "outage" \in Fault
    /\ \/ At(w, "throttle") /\ Goto(w, "persist")
       \/ At(w, "persist") /\ Goto(w, "count")
    /\ UNCHANGED <<events, throttled, evalLock, ban, req, since, excused, dropped>>

(* The cache may drop the lock early; a throttle key it drops reads as      *)
(* absent, which is Outage.                                                 *)
Evict ==
    /\ "evict" \in Fault /\ evalLock > 0
    /\ evalLock' = 0
    /\ dropped' = {w \in Worker : pc[w] = "ban"}
    /\ UNCHANGED <<events, throttled, ban, pc, req, since, excused>>

Minus1(n) == IF n = 0 THEN 0 ELSE n - 1
Deciding == {"paths", "lock", "ban"}

(* Events past the oldest cutoff still in use are out of every query.       *)
AgedEvents ==
    LET kept == {e \in DOMAIN events : e.age + 1 \in Age}
    IN  [e \in {[k EXCEPT !.age = @ + 1] : k \in kept} |->
             events[[e EXCEPT !.age = @ - 1]]]

Tick ==
    /\ \A w \in Worker : pc[w] \in Deciding => since[w] < Slack
    /\ events' = AgedEvents
    /\ throttled' = [key \in DOMAIN throttled |-> Minus1(throttled[key])]
    /\ evalLock' = Minus1(evalLock)
    /\ ban' = Minus1(ban)
    /\ since' = [w \in Worker |-> IF pc[w] \in Deciding THEN since[w] + 1
                                  ELSE since[w]]
    /\ excused' = (excused \/ ban = 1)
    /\ UNCHANGED <<pc, req, dropped>>

-----------------------------------------------------------------------------
Init ==
    /\ events = EmptyBag
    /\ throttled = [key \in Reason \X Path |-> 0]
    /\ evalLock = 0 /\ ban = 0
    /\ pc = [w \in Worker |-> "idle"]
    /\ req = [w \in Worker |-> NoRequest]
    /\ since = [w \in Worker |-> 0]
    /\ excused = FALSE /\ dropped = {}

Evaluate(w) == CountEvents(w) \/ CountPaths(w) \/ TakeLock(w) \/ WriteBan(w)
Next ==
    \/ \E w \in Worker :
           \/ Detect(w) \/ Throttle(w) \/ Persist(w) \/ Evaluate(w)
           \/ Crash(w) \/ Outage(w)
    \/ Lift \/ Evict \/ Tick

Spec == Init /\ [][Next]_vars

-----------------------------------------------------------------------------
(* Properties *)

Label == {"idle", "throttle", "persist", "count", "paths", "lock", "ban"}

(* Every variable holds a value of its type; an event is logged once at a   *)
(* time and no cutoff is older than the events kept for it.                 *)
TypeOK ==
    /\ DOMAIN events \subseteq Event /\ \A e \in DOMAIN events : events[e] \in Nat \ {0}
    /\ throttled \in [Reason \X Path -> 0 .. ThrottleTTL]
    /\ evalLock \in 0 .. LockTTL
    /\ ban \in 0 .. BanLength
    /\ pc \in [Worker -> Label]
    /\ \A w \in Worker : req[w] \in [reason : Reason, path : Path, who : Who]
                                        \cup {NoRequest}
    /\ since \in [Worker -> 0 .. Slack]
    /\ excused \in BOOLEAN /\ dropped \subseteq Worker

(* "A shared public address is promoted to a site-wide ban only after       *)
(* repeated, independent signals" (ban_policy.py): a request about to ban   *)
(* has the threshold, and the distinct paths, behind it -- still, however   *)
(* long after its two queries the lock and the ban come.                    *)
BanHasEvidence ==
    \A w \in Worker : pc[w] = "ban" =>
        LET set == Recent(Window + since[w])
        IN  Count(set) >= Threshold /\ Cardinality(Paths(set)) >= MinPaths

(* "Collapse concurrent threshold-crossing requests into one write": one    *)
(* request at most is about to ban, but for those whose lock the cache drops.*)
OneWriter == Cardinality({w \in Worker : pc[w] = "ban"} \ dropped) <= 1

Ledger == INSTANCE BanLedger
              WITH ban <- [kind |-> IF ban > 0 THEN "temp" ELSE "none", left |-> ban],
                   Length <- {BanLength}, MayLift <- "lift" \in Fault

(* The path from offences to the ban implements the ledger: evaluations     *)
(* that raced past the lock, or come late, neither renew nor prolong the    *)
(* ban that is there.                                                       *)
EvaluationsKeepLedger == Ledger!Spec

(* An address cannot outrun its evaluation: when no request is under way,   *)
(* anonymous events that meet the policy have led to a ban, whichever of    *)
(* the concurrent requests persisted, counted or lost the lock last --      *)
(* unless the ban has ended since or a handler was cut short.               *)
OffendersAreBanned ==
    (\A w \in Worker : pc[w] = "idle") /\ ~excused =>
        (Enough({e \in Recent(Window) : e.who = "anon"}) => ban > 0)

=============================================================================
