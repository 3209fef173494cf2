---------------------------- MODULE RateLimiter ----------------------------
(***************************************************************************)
(* The rate limiter of one address in enforce mode, over the event log and *)
(* the rate_limit policy of AutoBan: a counter for each rule and minute,   *)
(* one violation event for each, one more when the counter shows           *)
(* hammering, and the evaluation that follows every event.                 *)
(*                                                                         *)
(* A tick is a minute, the width of a counter bucket; a bucket is named by *)
(* its age.  Path holds the rules, which stand for the paths they match.   *)
(* Workers are requests that reach the counter and are not privileged.     *)
(***************************************************************************)
EXTENDS AutoBan

CONSTANTS
    Burst,       \* burst_limit_for the rules
    Hammer,      \* RATE_HAMMER_FACTOR
    MaxHits,     \* bound: requests in one bucket
    MaxLost      \* bound: keys the cache loses or refuses

ASSUME LimiterAssumption ==
    /\ Burst \in Nat \ {0} /\ Hammer \in Nat \ {0, 1} /\ {MaxHits, MaxLost} \subseteq Nat

(* Finitely many threads serve the requests, and the settings list the rules. *)
ASSUME FiniteAssumption == IsFiniteSet(Worker) /\ IsFiniteSet(Path)

(* Bound: a request is logged in the minute it read, or in the next one.    *)
BucketAge == {0, 1}
Limiting == {"hit", "create", "increase", "judge", "persist"}
MinuteAge == 0 .. Window + Slack + 1

VARIABLES
    hits,      \* counter bnc:rl:<ip>:<rule>:<bucket>; 0 when the key is absent
    once,      \* whether bnc:once:rlviol:<ip>:<rule>:<bucket> is set
    bucket,    \* age of the bucket of a worker
    count,     \* what a worker's increment returned
    served,    \* history: requests let through, by rule and bucket
    minutes,   \* history: ages of the buckets in which a limit was exceeded
    lost       \* history: counters and markers the cache has lost or refused

limiterVars == <<hits, once, bucket, count, served, minutes, lost>>
allVars == <<vars, limiterVars>>

Key(w) == <<req[w].path, bucket[w]>>
ForgetCount(w) == count' = [count EXCEPT ![w] = 0]
Forget(w) == ForgetCount(w) /\ bucket' = [bucket EXCEPT ![w] = 0]
LimiterOnly == UNCHANGED <<events, throttled, evalLock, ban, excused, dropped>>

-----------------------------------------------------------------------------
(* RateLimitMiddleware *)

(* The bounds leave room for the event of every request under way.          *)
Arrive(w) ==
    /\ At(w, "idle") /\ BagCardinality(events) + Cardinality(Worker) <= MaxEvents
    /\ \E rule \in Path, who \in Who, reason \in Reason :
           /\ hits[<<rule, 0>>] < MaxHits
           /\ req' = [req EXCEPT ![w] = [reason |-> reason, path |-> rule, who |-> who]]
    /\ Goto(w, "hit")
    /\ LimiterOnly /\ UNCHANGED <<since, limiterVars>>

(* cache.incr raises ValueError when the key is absent. *)
Hit(w) ==
    /\ At(w, "hit")
    /\ IF hits[Key(w)] = 0
       THEN Goto(w, "create") /\ UNCHANGED <<hits, count>>
       ELSE /\ hits' = [hits EXCEPT ![Key(w)] = @ + 1]
            /\ count' = [count EXCEPT ![w] = hits'[Key(w)]]
            /\ Goto(w, "judge")
    /\ LimiterOnly
    /\ UNCHANGED <<req, since, once, bucket, served, minutes, lost>>

(* Mutant: the counter starts at one whoever created it.                    *)
CreateBySet(w) ==
    /\ At(w, "create")
    /\ hits' = [hits EXCEPT ![Key(w)] = 1]
    /\ count' = [count EXCEPT ![w] = 1]
    /\ Goto(w, "judge")
    /\ LimiterOnly
    /\ UNCHANGED <<req, since, once, bucket, served, minutes, lost>>

(* cache.add answers false when another request added the key meanwhile.    *)
Create(w) ==
    /\ At(w, "create")
    /\ IF hits[Key(w)] = 0
       THEN /\ hits' = [hits EXCEPT ![Key(w)] = 1]
            /\ count' = [count EXCEPT ![w] = 1]
            /\ Goto(w, "judge")
       ELSE Goto(w, "increase") /\ UNCHANGED <<hits, count>>
    /\ LimiterOnly
    /\ UNCHANGED <<req, since, once, bucket, served, minutes, lost>>

(* The second cache.incr; if the key is gone again the request passes.      *)
Increase(w) ==
    /\ At(w, "increase")
    /\ IF hits[Key(w)] = 0
       THEN /\ served' = [served EXCEPT ![Key(w)] = @ + 1]
            /\ Finish(w) /\ Forget(w) /\ UNCHANGED hits
       ELSE /\ hits' = [hits EXCEPT ![Key(w)] = @ + 1]
            /\ count' = [count EXCEPT ![w] = hits'[Key(w)]]
            /\ Goto(w, "judge") /\ UNCHANGED <<req, since, bucket, served>>
    /\ LimiterOnly /\ UNCHANGED <<once, minutes, lost>>

Pass(w) ==
    /\ At(w, "judge") /\ count[w] <= Burst
    /\ served' = [served EXCEPT ![Key(w)] = @ + 1]
    /\ Finish(w) /\ Forget(w)
    /\ LimiterOnly /\ UNCHANGED <<hits, once, minutes, lost>>

(* The first violation of the bucket is logged and evaluated. *)
FirstViolation(w) ==
    /\ At(w, "judge") /\ count[w] > Burst /\ ~once[Key(w)]
    /\ once' = [once EXCEPT ![Key(w)] = TRUE]
    /\ minutes' = minutes \cup {bucket[w]}
    /\ Goto(w, "persist") /\ ForgetCount(w)
    /\ LimiterOnly /\ UNCHANGED <<req, since, bucket, hits, served, lost>>

(* Mutant: every request past the factor is hammering.                      *)
HammerEachTime(w) ==
    /\ At(w, "judge") /\ count[w] > Burst /\ once[Key(w)]
    /\ IF count[w] >= Burst * Hammer
       THEN Goto(w, "persist") /\ ForgetCount(w) /\ UNCHANGED <<req, since, bucket>>
       ELSE Finish(w) /\ Forget(w)
    /\ LimiterOnly /\ UNCHANGED <<hits, once, served, minutes, lost>>

(* A later one is answered with a 429, after an event of its own when it is *)
(* the one that makes the count ten times the limit.                        *)
LaterViolation(w) ==
    /\ At(w, "judge") /\ count[w] > Burst /\ once[Key(w)]
    /\ IF count[w] = Burst * Hammer
       THEN Goto(w, "persist") /\ ForgetCount(w) /\ UNCHANGED <<req, since, bucket>>
       ELSE Finish(w) /\ Forget(w)
    /\ LimiterOnly /\ UNCHANGED <<hits, once, served, minutes, lost>>

(* No counter, no limit: the request passes.  A once_per that raises counts *)
(* as the first call.                                                       *)
CounterFails(w) ==
    /\ "outage" \in Fault /\ lost < MaxLost
    /\ \/ /\ pc[w] \in {"hit", "create", "increase"}
          /\ served' = [served EXCEPT ![Key(w)] = @ + 1]
          /\ Finish(w) /\ Forget(w) /\ UNCHANGED minutes
       \/ /\ At(w, "judge") /\ count[w] > Burst
          /\ minutes' = minutes \cup {bucket[w]}
          /\ Goto(w, "persist") /\ ForgetCount(w)
          /\ UNCHANGED <<served, req, since, bucket>>
    /\ lost' = lost + 1
    /\ LimiterOnly /\ UNCHANGED <<hits, once>>

-----------------------------------------------------------------------------
(* The event log, the evaluation and the rest of AutoBan *)

Log(w) ==
    /\ Persist(w) \/ (At(w, "persist") /\ Outage(w))
    /\ Forget(w)
    /\ UNCHANGED <<hits, once, served, minutes, lost>>

CrashLimiter(w) ==
    /\ Crash(w) /\ Forget(w)
    /\ UNCHANGED <<hits, once, served, minutes, lost>>

(* The cache drops a counter, or the marker of a violation, early.          *)
EvictCounter ==
    /\ "evict" \in Fault /\ lost < MaxLost
    /\ \E key \in DOMAIN hits :
           \/ hits[key] > 0 /\ hits' = [hits EXCEPT ![key] = 0] /\ UNCHANGED once
           \/ once[key] /\ once' = [once EXCEPT ![key] = FALSE] /\ UNCHANGED hits
    /\ lost' = lost + 1
    /\ UNCHANGED <<vars, bucket, count, served, minutes>>

Aged(f, fresh) == [key \in Path \X BucketAge |->
                       IF key[2] = 0 THEN fresh ELSE f[<<key[1], 0>>]]

TickLimiter ==
    /\ Tick
    /\ \A w \in Worker : pc[w] \in Limiting => bucket[w] = 0
    /\ hits' = Aged(hits, 0) /\ once' = Aged(once, FALSE) /\ served' = Aged(served, 0)
    /\ bucket' = [w \in Worker |-> IF pc[w] \in Limiting THEN bucket[w] + 1
                                   ELSE bucket[w]]
    /\ minutes' = {m + 1 : m \in minutes} \cap MinuteAge
    /\ UNCHANGED <<count, lost>>

LimiterInit ==
    /\ Init
    /\ hits = [key \in Path \X BucketAge |-> 0]
    /\ once = [key \in Path \X BucketAge |-> FALSE]
    /\ served = [key \in Path \X BucketAge |-> 0]
    /\ bucket = [w \in Worker |-> 0] /\ count = [w \in Worker |-> 0]
    /\ minutes = {} /\ lost = 0

LimiterStep(w) ==
    \/ Arrive(w) \/ Hit(w) \/ Create(w) \/ Increase(w) \/ Pass(w)
    \/ FirstViolation(w) \/ LaterViolation(w) \/ CounterFails(w)
    \/ Log(w) \/ (Evaluate(w) /\ UNCHANGED limiterVars)
    \/ CrashLimiter(w)

LimiterNext ==
    \/ \E w \in Worker : LimiterStep(w)
    \/ (Lift \/ Evict) /\ UNCHANGED limiterVars
    \/ EvictCounter \/ TickLimiter

LimiterSpec == LimiterInit /\ [][LimiterNext]_allVars

-----------------------------------------------------------------------------
(* Properties *)

(* The limit holds: no rule lets more requests of the address through in a  *)
(* minute than its burst limit, whichever of them creates the counter and   *)
(* whenever the minute ends.  A key the cache loses or refuses opens the    *)
(* limiter for one more burst, and for the requests in between their add    *)
(* and their increment, and no further.                                     *)
LimitHolds ==
    \A key \in DOMAIN served :
        served[key] <= Burst + lost * (Burst + Cardinality(Worker) - 1)

(* A burst over one rule is not a ban: each rule and minute gives at most   *)
(* two events, the violation and the hammering (and one for each key the    *)
(* cache loses), however many requests came at once.  So the minutes in     *)
(* which limits were exceeded grow with the threshold, the less the more    *)
(* rules were hammered: three rules can meet a threshold of five in one.    *)
BanSpansMinutes ==
    \A w \in Worker : pc[w] = "ban" =>
        2 * Cardinality(Path) * Cardinality(minutes) + lost >= Threshold

=============================================================================
