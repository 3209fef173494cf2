---------------------------- MODULE ReportProofs ----------------------------
(***************************************************************************)
(* What the endpoint of browser reports leaves in the database, for every  *)
(* deployment, every limit and any number of workers.                      *)
(***************************************************************************)
EXTENDS Pipeline, FiniteSetTheorems, TLAPS

-----------------------------------------------------------------------------
(* RowsBounded is not inductive: a report that passed the counter will leave*)
(* a row although it has not yet.  Rows and such reports together are within*)
(* the count and within the limit.                                          *)

Passed(b) == {w \in Worker : /\ task[w] # NoTask /\ task[w].bucket = b
                             /\ task[w].pc \in {"dedupe", "create"}}

(* Who is past cache.add finds the counter of its hour.                     *)
Begun == \A w \in Worker :
             task[w] # NoTask /\ task[w].pc # "add" => counted[task[w].bucket] # Missing

PassedWithin(b) ==
    /\ rows[b] + Cardinality(Passed(b)) <= Limit
    /\ counted[b] # Missing => rows[b] + Cardinality(Passed(b)) <= counted[b]
    /\ counted[b] = Missing => rows[b] = 0

ReportsInv == CspTypeOK /\ Begun /\ \A b \in Bucket : PassedWithin(b)

(* The reports that passed are a finite set of workers.                     *)
LEMMA PassedAreFinite ==
    \A b \in Bucket : IsFiniteSet(Passed(b)) /\ Cardinality(Passed(b)) \in Nat
  BY WorkersAreFinite, FS_Subset, FS_CardinalityType DEF Passed

LEMMA PassedAreFiniteNext ==
    \A b \in Bucket : IsFiniteSet(Passed(b)') /\ Cardinality(Passed(b)') \in Nat
  BY WorkersAreFinite, FS_Subset, FS_CardinalityType DEF Passed

(* A report that goes no further, or no report at all, takes nothing away   *)
(* from the bound: whoever answers, dies or fails.                          *)
LEMMA FewerPassed ==
    ASSUME ReportsInv, CspTypeOK', Begun', UNCHANGED <<counted, rows>>,
           \A b \in Bucket : Passed(b)' \subseteq Passed(b)
    PROVE  ReportsInv'
  <1>1. SUFFICES ASSUME NEW b \in Bucket
                 PROVE  PassedWithin(b)'
    BY DEF ReportsInv
  <1>2. Cardinality(Passed(b)') <= Cardinality(Passed(b))
    BY PassedAreFinite, FS_Subset
  <1>3. PassedWithin(b) /\ rows[b] \in Nat /\ counted[b] \in Nat \cup {Missing}
        /\ rows' = rows /\ counted' = counted
    BY DEF ReportsInv, CspTypeOK
  <1> QED
    BY <1>2, <1>3, PassedAreFinite, PassedAreFiniteNext, LimitAssumption
       DEF PassedWithin, Missing

(* A worker that ends its report keeps the invariant.                       *)
LEMMA Ending ==
    ASSUME ReportsInv, NEW w \in Worker, Answer(w), UNCHANGED <<hour, counted, rows>>,
           marked' \subseteq Report
    PROVE  ReportsInv'
  <1>1. task' \in [Worker -> Tasks]
    BY DEF ReportsInv, CspTypeOK, Answer, Tasks
  <1>2. \A v \in Worker : task'[v] # NoTask => task'[v] = task[v]
    BY DEF ReportsInv, CspTypeOK, Answer
  <1>3. CspTypeOK'
    BY <1>1 DEF ReportsInv, CspTypeOK
  <1>4. Begun'
    BY <1>2 DEF ReportsInv, Begun
  <1>5. \A b \in Bucket : Passed(b)' \subseteq Passed(b)
    BY <1>2 DEF Passed
  <1> QED BY <1>3, <1>4, <1>5, FewerPassed

LEMMA ReportsReceive ==
    ASSUME ReportsInv, NEW w \in Worker, Receive(w)
    PROVE  ReportsInv'
  <1>1. PICK report \in Report :
            task' = [task EXCEPT ![w] = [pc |-> "add", bucket |-> hour, report |-> report]]
    BY DEF Receive
  <1>2. task' \in [Worker -> Tasks]
    BY <1>1 DEF ReportsInv, CspTypeOK, Tasks, Steps
  <1>3. CspTypeOK'
    BY <1>2 DEF ReportsInv, CspTypeOK, Receive
  <1>4. Begun'
    BY <1>1 DEF ReportsInv, CspTypeOK, Begun, Receive
  <1>5. \A b \in Bucket : Passed(b)' \subseteq Passed(b)
    BY <1>1 DEF ReportsInv, CspTypeOK, Passed
  <1> QED BY <1>3, <1>4, <1>5, FewerPassed DEF Receive

(* A worker inside a report: its task is a record with these fields.        *)
LEMMA Serving ==
    ASSUME ReportsInv, NEW w \in Worker, task[w].pc # "idle"
    PROVE  /\ task[w] # NoTask /\ task[w].bucket \in Bucket /\ task[w].report \in Report
           /\ \A step \in Steps :
                  [task EXCEPT ![w].pc = step] \in [Worker -> Tasks]
  BY DEF ReportsInv, CspTypeOK, Tasks, NoTask, Steps

LEMMA ReportsCountAdd ==
    ASSUME ReportsInv, NEW w \in Worker, CountAdd(w)
    PROVE  ReportsInv'
  <1> DEFINE mine == task[w].bucket
  <1>1. task[w] # NoTask /\ mine \in Bucket /\ task' \in [Worker -> Tasks]
    BY Serving DEF CountAdd, Step, Steps
  <1>2. counted' \in [Bucket -> Nat \cup {Missing}] /\ counted'[mine] # Missing
    BY <1>1 DEF ReportsInv, CspTypeOK, CountAdd, Missing
  <1>3. CspTypeOK'
    BY <1>1, <1>2 DEF ReportsInv, CspTypeOK, CountAdd
  <1>4. Begun'
    BY <1>1, <1>2 DEF ReportsInv, CspTypeOK, Begun, CountAdd, Step, Tasks, NoTask, Missing
  <1>5. \A b \in Bucket : Passed(b)' = Passed(b)
    BY <1>1 DEF ReportsInv, CspTypeOK, Passed, CountAdd, Step, Tasks, NoTask
  <1>6. SUFFICES ASSUME NEW b \in Bucket
                 PROVE  PassedWithin(b)'
    BY <1>3, <1>4 DEF ReportsInv
  <1>7. CASE counted[b] = Missing /\ b = mine
    <2>1. Passed(b) = {}
      BY <1>7 DEF ReportsInv, Begun, Passed
    <2>2. Passed(b)' = {} /\ Cardinality({}) = 0
      BY <2>1, <1>5, FS_EmptySet
    <2>3. rows'[b] = 0 /\ counted'[b] = 0
      BY <1>7 DEF ReportsInv, CspTypeOK, PassedWithin, CountAdd
    <2> QED BY <2>2, <2>3, LimitAssumption DEF PassedWithin, Missing
  <1>8. CASE ~(counted[b] = Missing /\ b = mine)
    <2>1. counted'[b] = counted[b] /\ rows' = rows
      BY <1>8, <1>1 DEF ReportsInv, CspTypeOK, CountAdd
    <2> QED BY <2>1, <1>5 DEF ReportsInv, PassedWithin
  <1> QED BY <1>7, <1>8

LEMMA ReportsCountIncr ==
    ASSUME ReportsInv, NEW w \in Worker, CountIncr(w)
    PROVE  ReportsInv'
  <1> DEFINE mine == task[w].bucket
  <1>1. /\ task[w] # NoTask /\ mine \in Bucket
        /\ [task EXCEPT ![w].pc = "dedupe"] \in [Worker -> Tasks]
    BY Serving DEF CountIncr, Steps
  <1>2. counted[mine] \in Nat
    BY <1>1 DEF ReportsInv, CspTypeOK, Begun, CountIncr
  <1>3. /\ counted' = [counted EXCEPT ![mine] = counted[mine] + 1]
        /\ counted' \in [Bucket -> Nat \cup {Missing}]
        /\ counted'[mine] = counted[mine] + 1 /\ rows' = rows
        /\ \A b \in Bucket \ {mine} : counted'[b] = counted[b]
        /\ \A b \in Bucket : counted[b] # Missing => counted'[b] # Missing
    BY <1>1, <1>2 DEF ReportsInv, CspTypeOK, CountIncr, Missing
  <1>4. w \notin Passed(mine)
    BY DEF Passed, CountIncr
  <1>5. CASE counted'[mine] > Limit
    <2>1. Answer(w)
      BY <1>5 DEF CountIncr
    <2>2. task' \in [Worker -> Tasks] /\ \A v \in Worker : task'[v] # NoTask => task'[v] = task[v]
      BY <2>1 DEF ReportsInv, CspTypeOK, Answer, Tasks
    <2>3. CspTypeOK' /\ Begun'
      BY <1>3, <2>2 DEF ReportsInv, CspTypeOK, Begun, CountIncr, Tasks, NoTask
    <2>4. SUFFICES ASSUME NEW b \in Bucket
                   PROVE  PassedWithin(b)'
      BY <2>3 DEF ReportsInv
    <2>5. Passed(b)' \subseteq Passed(b)
      BY <2>2 DEF Passed
    <2>6. Cardinality(Passed(b)') <= Cardinality(Passed(b))
      BY <2>5, PassedAreFinite, FS_Subset
    <2>7. CASE b = mine
      BY <2>7, <2>6, <1>2, <1>3, PassedAreFinite, PassedAreFiniteNext, LimitAssumption
         DEF ReportsInv, CspTypeOK, PassedWithin, Missing
    <2>8. CASE b # mine
      BY <2>8, <2>6, <1>3, PassedAreFinite, PassedAreFiniteNext, LimitAssumption
         DEF ReportsInv, CspTypeOK, PassedWithin, Missing
    <2> QED BY <2>7, <2>8
  <1>6. CASE ~(counted'[mine] > Limit)
    <2>1. task' = [task EXCEPT ![w].pc = "dedupe"]
      BY <1>6 DEF CountIncr, Step
    <2>2. /\ \A v \in Worker \ {w} : task'[v] = task[v]
          /\ task'[w] # NoTask /\ task'[w].bucket = mine /\ task'[w].pc = "dedupe"
      BY <1>1, <2>1 DEF ReportsInv, CspTypeOK, Tasks, NoTask
    <2>3. CspTypeOK'
      BY <1>1, <1>3, <2>1 DEF ReportsInv, CspTypeOK, CountIncr
    <2>4. Begun'
      <3>1. SUFFICES ASSUME NEW v \in Worker, task'[v] # NoTask, task'[v].pc # "add"
                     PROVE  counted'[task'[v].bucket] # Missing
        BY DEF Begun
      <3>2. CASE v = w
        BY <3>2, <2>2, <1>2, <1>3 DEF Missing
      <3>3. CASE v # w
        <4>1. task'[v] = task[v] /\ task[v].bucket \in Bucket
          BY <3>1, <3>3, <2>2 DEF ReportsInv, CspTypeOK, Tasks
        <4> QED BY <4>1, <3>1, <1>3 DEF ReportsInv, Begun
      <3> QED BY <3>2, <3>3
    <2>5. SUFFICES ASSUME NEW b \in Bucket
                   PROVE  PassedWithin(b)'
      BY <2>3, <2>4 DEF ReportsInv
    <2>6. CASE b = mine
      <3>1. Passed(b)' = Passed(b) \cup {w}
        BY <2>6, <2>2 DEF Passed
      <3>2. Cardinality(Passed(b)') = Cardinality(Passed(b)) + 1
        BY <3>1, <2>6, <1>4, PassedAreFinite, FS_AddElement
      <3> QED
        BY <3>2, <2>6, <1>2, <1>3, <1>6, PassedAreFinite, LimitAssumption
           DEF ReportsInv, CspTypeOK, PassedWithin, Missing
    <2>7. CASE b # mine
      <3>1. Passed(b)' = Passed(b)
        BY <2>7, <2>2 DEF Passed
      <3> QED BY <3>1, <2>7, <1>3 DEF ReportsInv, PassedWithin
    <2> QED BY <2>6, <2>7
  <1> QED BY <1>5, <1>6

LEMMA ReportsDedupe ==
    ASSUME ReportsInv, NEW w \in Worker, Dedupe(w)
    PROVE  ReportsInv'
  <1>1. task[w] # NoTask /\ task[w].bucket \in Bucket /\ task[w].report \in Report
    BY Serving DEF Dedupe
  <1>2. marked' \subseteq Report
    BY <1>1 DEF ReportsInv, CspTypeOK, Dedupe
  <1>3. CASE task[w].report \in marked
    BY <1>2, <1>3, Ending DEF Dedupe
  <1>4. CASE task[w].report \notin marked
    <2>1. task' = [task EXCEPT ![w].pc = "create"]
      BY <1>4 DEF Dedupe, Step
    <2>2. task' \in [Worker -> Tasks]
      BY <2>1, Serving DEF Dedupe, Steps
    <2>3. CspTypeOK'
      BY <1>2, <2>2 DEF ReportsInv, CspTypeOK, Dedupe
    <2>4. /\ \A v \in Worker \ {w} : task'[v] = task[v]
          /\ task'[w] # NoTask /\ task'[w].bucket = task[w].bucket /\ task'[w].pc = "create"
      BY <1>1, <2>1 DEF ReportsInv, CspTypeOK, Tasks, NoTask
    <2>5. Begun'
      BY <2>4, <1>1 DEF ReportsInv, Begun, Dedupe
    <2>6. \A b \in Bucket : Passed(b)' \subseteq Passed(b)
      BY <2>4, <1>1 DEF Passed, Dedupe
    <2> QED BY <2>3, <2>5, <2>6, FewerPassed DEF Dedupe
  <1> QED BY <1>3, <1>4

LEMMA ReportsCreateRow ==
    ASSUME ReportsInv, NEW w \in Worker, CreateRow(w)
    PROVE  ReportsInv'
  <1> DEFINE mine == task[w].bucket
  <1>1. task[w] # NoTask /\ mine \in Bucket
    BY Serving DEF CreateRow
  <1>2. CASE UNCHANGED rows
    BY <1>2, Ending DEF CreateRow, ReportsInv, CspTypeOK
  <1>3. CASE rows' = [rows EXCEPT ![mine] = @ + 1]
    <2>1. /\ \A v \in Worker : task'[v] # NoTask => v # w /\ task'[v] = task[v]
          /\ \A v \in Worker \ {w} : task'[v] = task[v]
          /\ task'[w] = NoTask /\ task' \in [Worker -> Tasks]
      BY DEF CreateRow, Answer, ReportsInv, CspTypeOK, Tasks
    <2>2. rows' \in [Bucket -> Nat] /\ rows'[mine] = rows[mine] + 1
          /\ \A b \in Bucket \ {mine} : rows'[b] = rows[b]
      BY <1>1, <1>3 DEF ReportsInv, CspTypeOK
    <2>3. CspTypeOK' /\ Begun'
      BY <2>1, <2>2 DEF ReportsInv, CspTypeOK, Begun, CreateRow
    <2>4. SUFFICES ASSUME NEW b \in Bucket
                   PROVE  PassedWithin(b)'
      BY <2>3 DEF ReportsInv
    <2>5. CASE b = mine
      <3>1. w \in Passed(b) /\ Passed(b)' = Passed(b) \ {w}
        BY <2>5, <2>1, <1>1 DEF Passed, CreateRow
      <3>2. Cardinality(Passed(b)') = Cardinality(Passed(b)) - 1
        BY <3>1, PassedAreFinite, FS_RemoveElement
      <3>3. counted[b] # Missing /\ counted' = counted
        BY <2>5, <1>1 DEF ReportsInv, Begun, CreateRow
      <3> QED
        BY <3>2, <3>3, <2>2, <2>5, PassedAreFinite, LimitAssumption
           DEF ReportsInv, CspTypeOK, PassedWithin, Missing
    <2>6. CASE b # mine
      <3>1. Passed(b)' = Passed(b)
        BY <2>6, <2>1 DEF Passed
      <3> QED BY <3>1, <2>6, <2>2 DEF ReportsInv, PassedWithin, CreateRow
    <2> QED BY <2>5, <2>6
  <1> QED BY <1>2, <1>3 DEF CreateRow

LEMMA ReportsServe ==
    ASSUME ReportsInv, NEW w \in Worker, Serve(w)
    PROVE  ReportsInv'
  <1>1. CASE CacheFails(w)
    BY <1>1, Ending DEF CacheFails, ReportsInv, CspTypeOK
  <1> QED
    BY <1>1, ReportsCountAdd, ReportsCountIncr, ReportsDedupe, ReportsCreateRow DEF Serve

(* The hour passes: the bucket that is reused is one that nobody is in.     *)
LEMMA ReportsNextHour ==
    ASSUME ReportsInv, NextHour
    PROVE  ReportsInv'
  <1> DEFINE other == 1 - hour
  <1>1. other \in Bucket /\ other # hour /\ Bucket = {hour, other}
    BY DEF ReportsInv, CspTypeOK, Bucket
  <1>2. /\ rows' \in [Bucket -> Nat] /\ counted' \in [Bucket -> Nat \cup {Missing}]
        /\ rows'[other] = 0 /\ counted'[other] = Missing
        /\ rows'[hour] = rows[hour] /\ counted'[hour] = counted[hour]
    BY <1>1 DEF ReportsInv, CspTypeOK, NextHour
  <1>3. CspTypeOK'
    BY <1>1, <1>2 DEF ReportsInv, CspTypeOK, NextHour
  <1>4. Begun'
    BY <1>2 DEF ReportsInv, Begun, NextHour
  <1>5. \A b \in Bucket : Passed(b)' = Passed(b)
    BY DEF Passed, NextHour
  <1>6. SUFFICES ASSUME NEW b \in Bucket
                 PROVE  PassedWithin(b)'
    BY <1>3, <1>4 DEF ReportsInv
  <1>7. CASE b = other
    <2>1. Passed(b) = {} /\ Cardinality({}) = 0
      BY <1>1, <1>7, FS_EmptySet DEF Passed, NextHour
    <2>2. Cardinality(Passed(b)') = 0 /\ rows'[b] = 0 /\ counted'[b] = Missing
      BY <2>1, <1>2, <1>5, <1>7
    <2> QED BY <2>2, LimitAssumption DEF PassedWithin, Missing
  <1>8. CASE b = hour
    BY <1>2, <1>5, <1>8 DEF ReportsInv, PassedWithin
  <1> QED BY <1>1, <1>7, <1>8

-----------------------------------------------------------------------------
(* The reports are part of every step of Pipeline.                          *)

LEMMA ReportsInit ==
    ASSUME CspInit
    PROVE  ReportsInv
  <1>1. CspTypeOK
    BY DEF CspInit, CspTypeOK, Bucket, Tasks
  <1>2. Begun /\ \A b \in Bucket : Passed(b) = {}
    BY DEF CspInit, Begun, Passed
  <1> QED
    BY <1>1, <1>2, FS_EmptySet, LimitAssumption
       DEF CspInit, ReportsInv, PassedWithin, Missing

LEMMA ReportsStutter ==
    ASSUME ReportsInv, UNCHANGED <<hour, counted, rows, task>>, marked' \subseteq Report
    PROVE  ReportsInv'
  <1>1. CspTypeOK' /\ Begun' /\ \A b \in Bucket : Passed(b)' \subseteq Passed(b)
    BY DEF ReportsInv, CspTypeOK, Begun, Passed
  <1> QED BY <1>1, FewerPassed

(* A worker dies in the middle of its report, or of another request.        *)
LEMMA ReportsDie ==
    ASSUME ReportsInv, NEW w \in Worker, Die(w)
    PROVE  ReportsInv'
  BY Ending DEF Die, Answer, ReportsInv, CspTypeOK

LEMMA ReportsStep ==
    ASSUME ReportsInv, [Next]_vars
    PROVE  ReportsInv'
  <1>1. CASE UNCHANGED cspVars
    BY <1>1, ReportsStutter DEF cspVars, ReportsInv, CspTypeOK
  <1>2. ASSUME NEW w \in Worker, Arrive(w) \/ Continue(w)
        PROVE  ReportsInv'
    <2>1. CASE Arrive(w) \/ Layer(w) \/ Finish(w)
      BY <2>1, <1>1
         DEF Arrive, Layer, IpBan, Honeypot, JsonValidation, Waf, BotDetector, RateLimit,
             Finish, Unchanged
    <2>2. CASE Privilege(w)
      BY <2>2, <1>1
         DEF Privilege, IsStaffTrustedIp, SessionGet, SessionStore, UserRow, SessionSet,
             RefreshStaffTrust, MarkStaffTrustedIp
    <2>3. CASE View(w)
      <3>1. CASE Page(w) \/ LoginOther(w) \/ Login(w) \/ SignInMark(w) \/ SignInLift(w)
        BY <3>1, <1>1 DEF Page, LoginOther, Login, SignInMark, SignInLift, Unchanged
      <3>2. CASE ReportView(w)
        BY <3>2, ReportsReceive DEF ReportView
      <3>3. CASE ReportServe(w)
        BY <3>3, ReportsServe DEF ReportServe
      <3> QED BY <2>3, <3>1, <3>2, <3>3 DEF View
    <2> QED BY <1>2, <2>1, <2>2, <2>3 DEF Continue
  <1>3. ASSUME NEW w \in Worker, Die(w)
        PROVE  ReportsInv'
    BY <1>3, ReportsDie
  <1>4. CASE Outside
    <2>1. CASE ChangeStaff \/ Logout \/ UnbanAndTrust \/ SetBan \/ Evict \/ Tick
      BY <2>1, <1>1 DEF ChangeStaff, Logout, UnbanAndTrust, SetBan, Evict, Tick
    <2>2. CASE CspTime
      <3>1. CASE Unmark
        BY <3>1, ReportsStutter DEF Unmark, ReportsInv, CspTypeOK
      <3> QED BY <2>2, <3>1, ReportsNextHour DEF CspTime
    <2> QED BY <1>4, <2>1, <2>2 DEF Outside
  <1>5. CASE UNCHANGED vars
    BY <1>5, <1>1 DEF vars
  <1> QED BY <1>2, <1>3, <1>4, <1>5 DEF Next

THEOREM ReportsInvariant == Spec => []ReportsInv
  <1>1. Init => ReportsInv
    BY ReportsInit DEF Init
  <1>2. ReportsInv /\ [Next]_vars => ReportsInv'
    BY ReportsStep
  <1> QED BY <1>1, <1>2, PTL DEF Spec

(* "A per-address hourly cap" (csp_violation_report), for any number of     *)
(* workers, any limit and any reports: however requests race over counter   *)
(* and marks, wherever workers die and whenever the cache or the database   *)
(* fails, an hour leaves at most as many rows as the setting allows.        *)
THEOREM ReportsAreBounded == Spec => []RowsBounded
  <1>1. ReportsInv => RowsBounded
    <2>1. SUFFICES ASSUME ReportsInv, NEW b \in Bucket
                   PROVE  rows[b] <= Limit
      BY DEF RowsBounded
    <2> QED
      BY <2>1, PassedAreFinite, LimitAssumption DEF ReportsInv, CspTypeOK, PassedWithin
  <1> QED BY <1>1, ReportsInvariant, PTL

=============================================================================
