----------------------------- MODULE CspReports -----------------------------
(***************************************************************************)
(* csp_violation_report for one address: the hourly cap, the mark that     *)
(* keeps identical reports to one row, and the row.  A step is one call of *)
(* the cache or the database.  A report is its fingerprint; one that is    *)
(* too large, of another type or malformed is refused before any of this.  *)
(* The counter is not evicted before its hour is over; a mark may be.      *)
(***************************************************************************)
EXTENDS Integers, FiniteSets

CONSTANTS
    Worker,     \* server workers
    Report,     \* fingerprints
    Limit,      \* BOUNCER_CSP_REPORTS_PER_IP_PER_HOUR, at least 1
    MaxOver     \* bound: how far the counter passes Limit before no more come

ASSUME LimitAssumption == Limit \in Nat \ {0} /\ MaxOver \in Nat
ASSUME WorkersAreFinite == IsFiniteSet(Worker)

VARIABLES
    hour,       \* hour_bucket, told apart from the one before
    counted,    \* bucket -> bnc:csp:count:<ip>:<bucket>, Missing when not there
    marked,     \* the reports with a bnc:csp:dedupe:<ip>:<report>
    rows,       \* bucket -> SecurityEvent rows of the reports counted in it
    task        \* worker -> the report it serves: step, bucket, report

cspVars == <<hour, counted, marked, rows, task>>

Missing == -1
Bucket == {0, 1}
NoTask == [pc |-> "idle"]
Steps == {"add", "incr", "dedupe", "create"}
Tasks == {NoTask} \cup [pc : Steps, bucket : Bucket, report : Report]

Step(w, label) == task' = [task EXCEPT ![w].pc = label]
Answer(w) == task' = [task EXCEPT ![w] = NoTask]

CspInit ==
    /\ hour = 0
    /\ counted = [b \in Bucket |-> Missing]
    /\ marked = {}
    /\ rows = [b \in Bucket |-> 0]
    /\ task = [w \in Worker |-> NoTask]

-----------------------------------------------------------------------------
Receive(w) ==
    /\ task[w] = NoTask /\ counted[hour] <= Limit + MaxOver
    /\ \E report \in Report :
           task' = [task EXCEPT ![w] = [pc |-> "add", bucket |-> hour, report |-> report]]
    /\ UNCHANGED <<hour, counted, marked, rows>>

(* Mutant: the counter is set to zero. *)
CountAddBySet(w) ==
    /\ task[w].pc = "add"
    /\ counted' = [counted EXCEPT ![task[w].bucket] = 0]
    /\ Step(w, "incr")
    /\ UNCHANGED <<hour, marked, rows>>

(* cache.add(count_key, 0) *)
CountAdd(w) ==
    /\ task[w].pc = "add"
    /\ counted' = [counted EXCEPT ![task[w].bucket] = IF @ = Missing THEN 0 ELSE @]
    /\ Step(w, "incr")
    /\ UNCHANGED <<hour, marked, rows>>

(* cache.incr(count_key); over the limit the report is dropped.             *)
CountIncr(w) ==
    /\ task[w].pc = "incr"
    /\ counted' = [counted EXCEPT ![task[w].bucket] = @ + 1]
    /\ IF counted'[task[w].bucket] > Limit THEN Answer(w) ELSE Step(w, "dedupe")
    /\ UNCHANGED <<hour, marked, rows>>

(* cache.add(dedupe_key, 1) *)
Dedupe(w) ==
    /\ task[w].pc = "dedupe"
    /\ marked' = marked \cup {task[w].report}
    /\ IF task[w].report \in marked THEN Answer(w) ELSE Step(w, "create")
    /\ UNCHANGED <<hour, counted, rows>>

(* The row is written, or the database fails and the visitor hears nothing. *)
CreateRow(w) ==
    /\ task[w].pc = "create"
    /\ \/ rows' = [rows EXCEPT ![task[w].bucket] = @ + 1]
       \/ UNCHANGED rows
    /\ Answer(w)
    /\ UNCHANGED <<hour, counted, marked>>

(* The cache fails: logged, and the report is dropped. *)
CacheFails(w) ==
    /\ task[w] # NoTask /\ task[w].pc # "create"
    /\ Answer(w)
    /\ UNCHANGED <<hour, counted, marked, rows>>

(* A mark times out, or is evicted before. *)
Unmark ==
    /\ \E report \in marked : marked' = marked \ {report}
    /\ UNCHANGED <<hour, counted, rows, task>>

(* Another hour: the keys of the one before the last have timed out, and no *)
(* request of that hour is still served.                                    *)
NextHour ==
    /\ \A w \in Worker : task[w] # NoTask => task[w].bucket = hour
    /\ hour' = 1 - hour
    /\ counted' = [counted EXCEPT ![1 - hour] = Missing]
    /\ rows' = [rows EXCEPT ![1 - hour] = 0]
    /\ UNCHANGED <<marked, task>>

Serve(w) ==
    CountAdd(w) \/ CountIncr(w) \/ Dedupe(w) \/ CreateRow(w) \/ CacheFails(w)
CspNext == (\E w \in Worker : Receive(w) \/ Serve(w)) \/ Unmark \/ NextHour
CspSpec == CspInit /\ [][CspNext]_cspVars

-----------------------------------------------------------------------------
CspTypeOK ==
    /\ hour \in Bucket
    /\ counted \in [Bucket -> Nat \cup {Missing}]
    /\ marked \subseteq Report
    /\ rows \in [Bucket -> Nat]
    /\ task \in [Worker -> Tasks]

(* "A per-address hourly cap" (csp_violation_report): whatever requests race*)
(* over counter and marks, the reports counted in one hour leave at most as *)
(* many rows as the setting allows.                                         *)
RowsBounded == \A b \in Bucket : rows[b] <= Limit

=============================================================================
